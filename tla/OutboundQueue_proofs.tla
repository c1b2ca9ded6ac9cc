------------------------- MODULE OutboundQueue_proofs -------------------------
(***************************************************************************)
(* The outbound half for any number of loops, orders, buyers and crashes.  *)
(* RowInv says who holds which row of retry_queues; ContactInv, on top of  *)
(* it, counts: a row not yet picked has delivered nothing, a dispatch at   *)
(* its n-th attempt at most n - 1 templates.  Together they give the bound *)
(* on contacts, the consent behind them, what a completed row means, and   *)
(* the refinement of AtMostOnceQueue.                                      *)
(***************************************************************************)
EXTENDS OutboundQueue, TLAPS

Types ==
  /\ due \in Seq(Rows)
  /\ picked \subseteq Stored
  /\ completed \in [Rows -> {"no", "ok", "error"}]
  /\ consent \in [Buyers -> {"none", "in", "out"}]
  /\ open \subseteq Orders
  /\ pc \in [Workers -> PCs]
  /\ cur \in [Workers -> Rows \cup {Nobody}]
  /\ attempt \in [Workers -> 0 .. Attempts]
  /\ delivered \in [Orders -> Nat]

HoldsRow(w) ==
  /\ pc[w] = "idle" <=> cur[w] = Nobody
  /\ pc[w] = "picking" => cur[w] \in Stored \ picked
  /\ pc[w] \in Dispatching \cup Marking => cur[w] \in picked /\ completed[cur[w]] = "no"

Apart == \A v, w \in Workers : v # w /\ cur[v] = cur[w] => cur[v] = Nobody

CompletedWerePicked == \A q \in Rows : completed[q] # "no" => q \in picked

RowInv ==
  /\ Types
  /\ \A w \in Workers : HoldsRow(w)
  /\ Apart
  /\ CompletedWerePicked

-----------------------------------------------------------------------------
(* The actions by what they do to retry_queues.                            *)

queue == <<due, picked, completed>>

\* A step of a dispatch, or the retry of a mark.
Inner(w) ==
  /\ pc[w] \in Dispatching \cup Marking
  /\ \E p \in Dispatching \cup Marking : pc' = [pc EXCEPT ![w] = p]
  /\ UNCHANGED <<queue, cur>>

Free(w) ==
  /\ pc[w] # "idle"
  /\ pc' = [pc EXCEPT ![w] = "idle"]
  /\ cur' = [cur EXCEPT ![w] = Nobody]

Finish(w, c) ==
  /\ pc[w] \in Marking
  /\ completed' = [completed EXCEPT ![cur[w]] = c]
  /\ Free(w)
  /\ UNCHANGED <<due, picked>>

Abandon(w) == Free(w) /\ UNCHANGED queue

RowStep ==
  \/ \E q \in Rows : Enqueue(q)
  \/ \E w \in Workers : PickLock(w) \/ PickCommit(w) \/ Inner(w) \/ Abandon(w)
  \/ \E w \in Workers : Finish(w, "ok") \/ Finish(w, "error")
  \/ UNCHANGED <<queue, pc, cur>>

LEMMA StepIsRowStep ==
  ASSUME [Next]_vars
  PROVE  RowStep
<1> USE DEF Dispatching, Marking
<1>1. ASSUME NEW w \in Workers,
             SkipChannel(w) \/ NoOptIn(w) \/ OpenConversation(w) \/ Sent(w) \/ Persist(w) \/ Fail(w)
      PROVE  Inner(w)
  BY <1>1 DEF Inner, SkipChannel, NoOptIn, OpenConversation, Sent, Persist, Fail, Goto, queue, env
<1>2. ASSUME NEW w \in Workers, SendError(w)
      PROVE  Inner(w) \/ UNCHANGED <<queue, pc, cur>>
  BY <1>2 DEF Inner, SendError, Goto, queue, env
<1>3. ASSUME NEW w \in Workers, MarkDone(w) PROVE Finish(w, "ok") \/ Finish(w, "error")
  BY <1>3 DEF MarkDone, Finish, Free, Release, Goto, env
<1>4. ASSUME NEW w \in Workers, MarkDoneFails(w) \/ Crash(w) PROVE Inner(w) \/ Abandon(w)
  BY <1>4 DEF MarkDoneFails, Crash, Inner, Abandon, Free, Release, Goto, queue, env
<1>5. ASSUME NEW b \in Buyers, NEW v \in {"in", "out"}, Consent(b, v)
      PROVE  UNCHANGED <<queue, pc, cur>>
  BY <1>5 DEF Consent, queue
<1>6. ASSUME UNCHANGED vars PROVE UNCHANGED <<queue, pc, cur>>
  BY <1>6 DEF vars, queue
<1> QED
  BY <1>1, <1>2, <1>3, <1>4, <1>5, <1>6 DEF Next, Advance, Poll, RowStep

-----------------------------------------------------------------------------
LEMMA EnqueueStores ==
  ASSUME Types, NEW q \in Rows, Enqueue(q)
  PROVE  due' \in Seq(Rows) /\ Stored' = Stored \cup {q}
<1>1. due \in Seq(Rows) /\ due' = Append(due, q)
  BY DEF Types, Enqueue
<1> QED
  BY <1>1 DEF Stored

LEMMA StoredSame ==
  ASSUME UNCHANGED due
  PROVE  Stored' = Stored
BY DEF Stored

LEMMA StoredAreRows == RowInv => Stored \subseteq Rows /\ picked \subseteq Rows
BY DEF RowInv, Types, Stored

\* The variables the steps of the queue leave open.
LEMMA OtherTypes ==
  ASSUME RowInv, [Next]_vars
  PROVE  /\ consent' \in [Buyers -> {"none", "in", "out"}]
         /\ open' \subseteq Orders
         /\ attempt' \in [Workers -> 0 .. Attempts]
         /\ delivered' \in [Orders -> Nat]
<1> USE DEF RowInv, Types, Attempts
<1>1. ASSUME NEW q \in Rows, Enqueue(q)
      PROVE  UNCHANGED <<consent, open, attempt, delivered>>
  BY <1>1 DEF Enqueue
<1>2. ASSUME NEW b \in Buyers, NEW v \in {"in", "out"}, Consent(b, v)
      PROVE  consent' \in [Buyers -> {"none", "in", "out"}]
             /\ UNCHANGED <<open, attempt, delivered>>
  BY <1>2 DEF Consent
<1>3. ASSUME NEW w \in Workers,
             PickLock(w) \/ PickCommit(w) \/ SkipChannel(w) \/ NoOptIn(w) \/ Fail(w) \/ Poll(w)
      PROVE  UNCHANGED <<consent, open, attempt, delivered>>
  BY <1>3 DEF PickLock, PickCommit, SkipChannel, NoOptIn, Fail, Poll, vars, env
<1>4. ASSUME NEW w \in Workers, OpenConversation(w) \/ SendError(w)
      PROVE  attempt' \in [Workers -> 0 .. Attempts] /\ UNCHANGED <<consent, open>>
  BY <1>4 DEF OpenConversation, SendError, env
<1>5. ASSUME NEW w \in Workers, Sent(w) \/ SendError(w) \/ OpenConversation(w)
      PROVE  delivered' \in [Orders -> Nat]
  BY <1>5 DEF Sent, SendError, OpenConversation, Deliver
<1>6. ASSUME NEW w \in Workers, Sent(w) PROVE UNCHANGED <<consent, open, attempt>>
  BY <1>6 DEF Sent, env
<1>7. ASSUME NEW w \in Workers, Persist(w)
      PROVE  open' \subseteq Orders /\ UNCHANGED <<consent, attempt, delivered>>
  <2>1. cur[w] \in Rows
    BY <1>7, StoredAreRows DEF Persist, HoldsRow, Dispatching
  <2> QED
    BY <1>7, <2>1, OutboundAssumption DEF Persist, Order, env
<1>8. ASSUME NEW w \in Workers, MarkDone(w) \/ MarkDoneFails(w) \/ Crash(w)
      PROVE  attempt' \in [Workers -> 0 .. Attempts]
             /\ UNCHANGED <<consent, open, delivered>>
  BY <1>8 DEF MarkDone, MarkDoneFails, Crash, Release, env
<1>9. CASE UNCHANGED vars
  BY <1>9 DEF vars
<1> HIDE DEF RowInv, Types
<1>10. RowInv => /\ consent \in [Buyers -> {"none", "in", "out"}] /\ open \subseteq Orders
                 /\ attempt \in [Workers -> 0 .. Attempts] /\ delivered \in [Orders -> Nat]
  BY DEF RowInv, Types
<1> QED
  BY <1>1, <1>2, <1>3, <1>4, <1>5, <1>6, <1>7, <1>8, <1>9, <1>10 DEF Next, Advance

LEMMA RowInvInit == Init => RowInv
<1> SUFFICES ASSUME Init PROVE RowInv
  OBVIOUS
<1>1. Stored = {}
  BY DEF Init, Stored
<1> QED
  BY <1>1, OutboundAssumption DEF Init, RowInv, Types, HoldsRow, Apart, CompletedWerePicked,
     PCs, Dispatching, Marking, Attempts

LEMMA RowInvNext == RowInv /\ [Next]_vars => RowInv'
<1> SUFFICES ASSUME RowInv, [Next]_vars PROVE RowInv'
  OBVIOUS
<1>1. RowStep
  BY StepIsRowStep
<1>2. Stored \subseteq Rows /\ Nobody \notin Rows
  BY OutboundAssumption, StoredAreRows
<1>3. UNCHANGED due => Stored' = Stored
  BY StoredSame
<1>4. /\ consent' \in [Buyers -> {"none", "in", "out"}] /\ open' \subseteq Orders
      /\ attempt' \in [Workers -> 0 .. Attempts] /\ delivered' \in [Orders -> Nat]
  BY OtherTypes
<1> USE DEF RowInv, Types, HoldsRow, Apart, CompletedWerePicked, PCs, Dispatching, Marking
<1>5. ASSUME NEW q \in Rows, Enqueue(q) PROVE RowInv'
  <2>1. due' \in Seq(Rows) /\ Stored' = Stored \cup {q} /\ q \notin Stored
    BY <1>5, EnqueueStores DEF Enqueue
  <2>2. UNCHANGED <<picked, completed, pc, cur>>
    BY <1>5 DEF Enqueue
  <2> QED
    BY <1>2, <1>4, <2>1, <2>2
<1>6. ASSUME NEW w \in Workers, PickLock(w) PROVE RowInv'
  <2>1. PICK i \in DOMAIN due : due[i] \in Pickable /\ cur' = [cur EXCEPT ![w] = due[i]]
    BY <1>6 DEF PickLock
  <2>2. due[i] \in Stored \ picked /\ due[i] \in Rows
    BY <1>2, <2>1 DEF Pickable
  <2>3. \A v \in Workers : cur[v] # due[i]
    BY <1>2, <2>1, <2>2 DEF Pickable
  <2>4. UNCHANGED <<due, picked, completed>> /\ pc' = [pc EXCEPT ![w] = "picking"]
    BY <1>6 DEF PickLock, Goto, env
  <2> QED
    BY <1>2, <1>3, <1>4, <2>1, <2>2, <2>3, <2>4
<1>7. ASSUME NEW w \in Workers, PickCommit(w) PROVE RowInv'
  <2>1. cur[w] \in Stored \ picked
    BY <1>7 DEF PickCommit
  <2>2. completed[cur[w]] = "no"
    BY <1>2, <2>1
  <2>3. \A v \in Workers \ {w} : cur[v] # cur[w]
    BY <1>2, <2>1
  <2>4. picked' = picked \cup {cur[w]} /\ pc' = [pc EXCEPT ![w] = "start"]
        /\ UNCHANGED <<due, completed, cur>>
    BY <1>7 DEF PickCommit, Goto, env
  <2> QED
    BY <1>2, <1>3, <1>4, <2>1, <2>2, <2>3, <2>4
<1>8. ASSUME NEW w \in Workers, Inner(w) PROVE RowInv'
  <2>1. PICK p \in Dispatching \cup Marking : pc' = [pc EXCEPT ![w] = p]
    BY <1>8 DEF Inner
  <2> QED
    BY <1>2, <1>3, <1>4, <1>8, <2>1 DEF Inner, queue
<1>9. ASSUME NEW w \in Workers, Abandon(w) PROVE RowInv'
  BY <1>2, <1>3, <1>4, <1>9 DEF Abandon, Free, queue
<1>10. ASSUME NEW w \in Workers, NEW c \in {"ok", "error"}, Finish(w, c) PROVE RowInv'
  <2>1. cur[w] \in picked /\ cur[w] \in Rows
    BY <1>2, <1>10 DEF Finish
  <2>2. \A v \in Workers \ {w} : cur[v] # cur[w]
    BY <1>2, <2>1
  <2> QED
    BY <1>2, <1>3, <1>4, <1>10, <2>1, <2>2 DEF Finish, Free
<1>11. CASE UNCHANGED <<queue, pc, cur>>
  BY <1>3, <1>4, <1>11 DEF queue
<1> QED
  BY <1>1, <1>5, <1>6, <1>7, <1>8, <1>9, <1>10, <1>11 DEF RowStep

LEMMA RowInvHolds == Spec => []RowInv
BY RowInvInit, RowInvNext, PTL DEF Spec

-----------------------------------------------------------------------------
(* retry_queues is an AtMostOnceQueue.                                     *)

Held(q) == \E w \in Workers : cur[w] = q

\* JobOf by the sets a row is in.
LEMMA JobCases ==
  ASSUME RowInv, NEW q \in Rows
  PROVE  /\ q \notin Stored => JobOf(q) = "absent"
         /\ q \in Stored \ picked => JobOf(q) = "ready"
         /\ q \in picked /\ completed[q] = "ok" => JobOf(q) = "applied"
         /\ q \in picked /\ completed[q] = "error" => JobOf(q) = "failed"
         /\ q \in picked /\ completed[q] = "no" /\ Held(q) => JobOf(q) = "claimed"
         /\ q \in picked /\ completed[q] = "no" /\ ~Held(q) => JobOf(q) = "lost"
<1>1. q \notin picked => completed[q] = "no"
  BY DEF RowInv, CompletedWerePicked
<1>2. picked \subseteq Stored
  BY DEF RowInv, Types
<1> QED
  BY <1>1, <1>2 DEF JobOf, Held

LEMMA OneMoves ==
  ASSUME NEW q \in Rows, NEW from, NEW to,
         JobOf(q) = from, JobOf(q)' = to,
         \A p \in Rows \ {q} : JobOf(p)' = JobOf(p)
  PROVE  Queue!Move(q, from, to)
BY DEF Queue!Move

LEMMA NoneMoves ==
  ASSUME \A p \in Rows : JobOf(p)' = JobOf(p)
  PROVE  UNCHANGED [p \in Rows |-> JobOf(p)]
OBVIOUS

LEMMA JobKept ==
  ASSUME NEW p \in Rows,
         p \in Stored' <=> p \in Stored,
         p \in picked' <=> p \in picked,
         completed'[p] = completed[p],
         p \in picked => (Held(p)' <=> Held(p))
  PROVE  JobOf(p)' = JobOf(p)
<1>1. CASE p \in picked
  BY <1>1 DEF JobOf, Held
<1>2. CASE p \notin picked
  BY <1>2 DEF JobOf
<1> QED
  BY <1>1, <1>2

LEMMA QueueRefinementInit == Init => Queue!Init
<1> SUFFICES ASSUME Init PROVE Queue!Init
  OBVIOUS
<1>1. RowInv /\ Stored = {}
  BY RowInvInit DEF Init, Stored
<1>2. \A q \in Rows : JobOf(q) = "absent"
  BY <1>1, JobCases
<1> QED
  BY <1>2 DEF Queue!Init

LEMMA QueueRefinementStep ==
  ASSUME RowInv, [Next]_vars
  PROVE  [Queue!Next]_([q \in Rows |-> JobOf(q)])
<1> DEFINE job == [q \in Rows |-> JobOf(q)]
<1>1. RowStep /\ RowInv'
  BY StepIsRowStep, RowInvNext
<1>2. UNCHANGED due => Stored' = Stored
  BY StoredSame
<1>3. Stored \subseteq Rows /\ picked \subseteq Stored /\ Nobody \notin Rows
  BY OutboundAssumption, StoredAreRows DEF RowInv, Types
<1>4. ASSUME UNCHANGED <<queue, cur>> PROVE UNCHANGED job
  BY <1>2, <1>4, JobKept, NoneMoves DEF queue, Held
<1>5. ASSUME NEW q \in Rows, Enqueue(q) PROVE Queue!Next
  <2>1. Stored' = Stored \cup {q} /\ q \notin Stored /\ UNCHANGED <<picked, completed, cur>>
    BY <1>5, EnqueueStores DEF Enqueue, RowInv
  <2>2. JobOf(q) = "absent"
    BY <2>1, JobCases
  <2>3. JobOf(q)' = "ready"
    BY <1>1, <1>3, <2>1, JobCases DEF JobOf, RowInv, CompletedWerePicked
  <2>4. \A p \in Rows \ {q} : JobOf(p)' = JobOf(p)
    BY <2>1, JobKept DEF Held
  <2>5. Queue!Move(q, "absent", "ready")
    BY <2>2, <2>3, <2>4, OneMoves
  <2> QED
    BY <2>5 DEF Queue!Next, Queue!Enqueue
<1>6. ASSUME NEW w \in Workers, PickLock(w) PROVE UNCHANGED job
  <2>1. PICK i \in DOMAIN due : due[i] \in Pickable /\ cur' = [cur EXCEPT ![w] = due[i]]
    BY <1>6 DEF PickLock
  <2>2. due[i] \notin picked /\ cur[w] = Nobody
    BY <1>6, <2>1 DEF Pickable, PickLock, RowInv, HoldsRow
  <2>3. \A p \in picked : Held(p)' <=> Held(p)
    BY <1>3, <2>1, <2>2 DEF Held, RowInv, Types
  <2>4. UNCHANGED <<due, picked, completed>>
    BY <1>6 DEF PickLock, env
  <2> QED
    BY <1>2, <2>3, <2>4, JobKept, NoneMoves
<1>7. ASSUME NEW w \in Workers, PickCommit(w) PROVE Queue!Next
  <2>1. PICK q \in Rows : q = cur[w] /\ q \in Stored \ picked
    BY <1>3, <1>7 DEF PickCommit, RowInv, HoldsRow
  <2>2. picked' = picked \cup {q} /\ UNCHANGED <<due, completed, cur>>
    BY <1>7, <2>1 DEF PickCommit, env
  <2>3. completed[q] = "no"
    BY <2>1 DEF RowInv, CompletedWerePicked
  <2>4. JobOf(q) = "ready"
    BY <2>1, JobCases
  <2>5. JobOf(q)' = "claimed"
    BY <1>2, <2>1, <2>2, <2>3 DEF JobOf
  <2>6. \A p \in Rows \ {q} : JobOf(p)' = JobOf(p)
    BY <1>2, <2>2, JobKept DEF Held
  <2>7. Queue!Move(q, "ready", "claimed")
    BY <2>1, <2>4, <2>5, <2>6, OneMoves
  <2> QED
    BY <2>1, <2>7 DEF Queue!Next, Queue!Claim
<1>8. ASSUME NEW w \in Workers, NEW q \in Rows, q = cur[w], Free(w)
      PROVE  ~Held(q)' /\ \A p \in Rows \ {q} : Held(p)' <=> Held(p)
  <2>1. \A v \in Workers : cur'[v] = IF v = w THEN Nobody ELSE cur[v]
    BY <1>8 DEF Free, RowInv, Types
  <2>2. \A v \in Workers \ {w} : cur[v] # q
    BY <1>3, <1>8 DEF RowInv, Apart
  <2> QED
    BY <1>3, <1>8, <2>1, <2>2 DEF Held
<1>9. ASSUME NEW w \in Workers, Abandon(w) PROVE Queue!Next \/ UNCHANGED job
  <2>1. UNCHANGED <<due, picked, completed>> /\ Free(w)
    BY <1>9 DEF Abandon, queue
  <2>2. CASE cur[w] \notin picked
    <3>1. \A p \in picked : Held(p)' <=> Held(p)
      BY <1>3, <2>1, <2>2 DEF Free, Held, RowInv, Types
    <3> QED
      BY <1>2, <2>1, <3>1, JobKept, NoneMoves
  <2>3. CASE cur[w] \in picked
    <3>1. PICK q \in Rows : q = cur[w] /\ q \in picked
      BY <1>3, <2>3
    <3>2. completed[q] = "no"
      BY <2>1, <3>1 DEF Free, RowInv, Types, HoldsRow, PCs
    <3>3. JobOf(q) = "claimed"
      BY <3>1, <3>2, JobCases DEF Held
    <3>4. JobOf(q)' = "lost"
      BY <1>2, <1>3, <1>8, <2>1, <3>1, <3>2 DEF JobOf, Held
    <3>5. \A p \in Rows \ {q} : JobOf(p)' = JobOf(p)
      BY <1>2, <1>8, <2>1, <3>1, JobKept
    <3>6. Queue!Move(q, "claimed", "lost")
      BY <3>1, <3>3, <3>4, <3>5, OneMoves
    <3> QED
      BY <3>1, <3>6 DEF Queue!Next, Queue!Lose
  <2> QED
    BY <2>2, <2>3
<1>10. ASSUME NEW w \in Workers, NEW c \in {"ok", "error"}, Finish(w, c) PROVE Queue!Next
  <2>1. PICK q \in Rows : q = cur[w] /\ q \in picked /\ completed[q] = "no"
    BY <1>3, <1>10 DEF Finish, RowInv, HoldsRow
  <2>2. UNCHANGED <<due, picked>> /\ Free(w) /\ completed' = [completed EXCEPT ![q] = c]
    BY <1>10, <2>1 DEF Finish
  <2>3. JobOf(q) = "claimed"
    BY <2>1, JobCases DEF Held
  <2>4. completed'[q] = c /\ \A p \in Rows \ {q} : completed'[p] = completed[p]
    BY <2>2 DEF RowInv, Types
  <2>5. JobOf(q)' = IF c = "ok" THEN "applied" ELSE "failed"
    BY <2>4 DEF JobOf
  <2>6. \A p \in Rows \ {q} : JobOf(p)' = JobOf(p)
    BY <1>2, <1>8, <2>1, <2>2, <2>4, JobKept
  <2>7. Queue!Move(q, "claimed", IF c = "ok" THEN "applied" ELSE "failed")
    BY <2>1, <2>3, <2>5, <2>6, OneMoves
  <2> QED
    BY <2>1, <2>7 DEF Queue!Next, Queue!Apply, Queue!GiveUp
<1> QED
  BY <1>1, <1>4, <1>5, <1>6, <1>7, <1>9, <1>10 DEF RowStep, Inner

(* retry_queues is claimed and settled at most once per row, whatever the    *)
(* number of loops and whichever of them crash.                              *)
THEOREM QueueRefinement == Spec => RefinesQueue
BY RowInvHolds, QueueRefinementInit, QueueRefinementStep, PTL
   DEF Spec, RefinesQueue, Queue!Spec

-----------------------------------------------------------------------------
(* Contacts.                                                               *)

Sends(q) == Channel[q] = "whatsapp"

\* intake_order queues a first contact with the INSERT of the order, and
\* nothing else does: two rows that send are of different orders.
OneContactPerOrder ==
  \A p, q \in Rows : Sends(p) /\ Sends(q) /\ OrderOf[p] = OrderOf[q] => p = q

DeliveredWerePicked ==
  \A o \in Orders : delivered[o] > 0 =>
    \E q \in picked : Sends(q) /\ OrderOf[q] = o

\* What a dispatch knows about its own order.
Dispatch(w) ==
  /\ pc[w] = "start" /\ Sends(cur[w]) => delivered[Order(w)] = 0
  /\ pc[w] = "send" => /\ Sends(cur[w])
                       /\ delivered[Order(w)] < attempt[w]
                       /\ consent[Buyer[Order(w)]] # "none"
  /\ pc[w] = "persist" => Sends(cur[w]) /\ delivered[Order(w)] > 0
  /\ pc[w] = "succeeded" /\ Sends(cur[w]) => delivered[Order(w)] > 0 /\ Order(w) \in open

ContactInv ==
  /\ DeliveredWerePicked
  /\ \A w \in Workers : Dispatch(w)
  /\ ContactBounded
  /\ ContactedHadConsent
  /\ OkMeansContacted

Holding == Dispatching \cup Marking

LEMMA HeldRow ==
  ASSUME RowInv, NEW w \in Workers, pc[w] \in Holding
  PROVE  cur[w] \in picked /\ cur[w] \in Rows /\ Order(w) \in Orders
         /\ Buyer[Order(w)] \in Buyers
BY StoredAreRows, OutboundAssumption DEF RowInv, HoldsRow, Holding, Order

\* No two dispatches send for one order.
LEMMA OrdersApart ==
  ASSUME RowInv, OneContactPerOrder, NEW v \in Workers, NEW w \in Workers, v # w,
         pc[v] \in Holding, pc[w] \in Holding, Sends(cur[v]), Sends(cur[w])
  PROVE  Order(v) # Order(w)
<1>1. cur[v] \in Rows /\ cur[w] \in Rows
  BY HeldRow
<1>2. cur[v] # cur[w]
  BY <1>1, OutboundAssumption DEF RowInv, Apart
<1> QED
  BY <1>1, <1>2 DEF OneContactPerOrder, Order

LEMMA DispatchKept ==
  ASSUME NEW v \in Workers, Dispatch(v),
         pc'[v] = pc[v], cur'[v] = cur[v], attempt'[v] = attempt[v],
         pc[v] \in Holding /\ Sends(cur[v]) => delivered'[Order(v)] = delivered[Order(v)],
         open \subseteq open',
         pc[v] = "send" => consent'[Buyer[Order(v)]] # "none"
  PROVE  Dispatch(v)'
BY DEF Dispatch, Order, Sends, Holding, Dispatching, Marking

LEMMA ContactInvInit == Init => ContactInv
BY OutboundAssumption
   DEF Init, ContactInv, DeliveredWerePicked, Dispatch, ContactBounded, ContactedHadConsent,
       OkMeansContacted, Attempts

\* The picks, the failures and the end of a process.
LEMMA QuietStep ==
  ASSUME RowInv, ContactInv,
         UNCHANGED <<picked, completed, consent, open, delivered>>,
         \A v \in Workers : \/ pc'[v] \in {"idle", "picking", "failed"}
                            \/ pc'[v] = pc[v] /\ cur'[v] = cur[v] /\ attempt'[v] = attempt[v]
  PROVE  ContactInv'
<1>1. \A v \in Workers : Dispatch(v)'
  <2> SUFFICES ASSUME NEW v \in Workers PROVE Dispatch(v)'
    OBVIOUS
  <2>1. CASE pc'[v] \in {"idle", "picking", "failed"}
    BY <2>1 DEF Dispatch
  <2>2. CASE pc'[v] = pc[v] /\ cur'[v] = cur[v] /\ attempt'[v] = attempt[v]
    BY <2>2, DispatchKept DEF ContactInv, Dispatch
  <2> QED
    BY <2>1, <2>2
<1> QED
  BY <1>1 DEF ContactInv, DeliveredWerePicked, ContactBounded, ContactedHadConsent, OkMeansContacted

LEMMA ConsentStep ==
  ASSUME RowInv, ContactInv, NEW b \in Buyers, NEW c \in {"in", "out"}, Consent(b, c)
  PROVE  ContactInv'
<1>1. UNCHANGED <<due, picked, completed, open, pc, cur, attempt, delivered>>
      /\ consent' = [consent EXCEPT ![b] = c]
  BY DEF Consent
<1>2. \A d \in Buyers : consent[d] # "none" => consent'[d] # "none"
  BY <1>1 DEF RowInv, Types
<1>3. \A v \in Workers : Dispatch(v)'
  <2> SUFFICES ASSUME NEW v \in Workers PROVE Dispatch(v)'
    OBVIOUS
  <2>1. pc[v] = "send" => consent'[Buyer[Order(v)]] # "none"
    BY <1>2, HeldRow DEF ContactInv, Dispatch, Holding, Dispatching
  <2> QED
    BY <1>1, <2>1, DispatchKept DEF ContactInv
<1> QED
  BY <1>1, <1>2, <1>3, OutboundAssumption
     DEF ContactInv, DeliveredWerePicked, ContactBounded, ContactedHadConsent, OkMeansContacted

LEMMA PickCommitStep ==
  ASSUME RowInv, ContactInv, OneContactPerOrder, NEW w \in Workers, PickCommit(w)
  PROVE  ContactInv'
<1>1. /\ picked' = picked \cup {cur[w]} /\ pc' = [pc EXCEPT ![w] = "start"]
      /\ UNCHANGED <<due, consent, completed, open, cur, attempt, delivered>>
  BY DEF PickCommit, Goto, env
<1>2. cur[w] \in Rows /\ cur[w] \notin picked
  BY StoredAreRows DEF PickCommit, RowInv, HoldsRow
<1>3. Sends(cur[w]) => delivered[Order(w)] = 0
  <2>1. Sends(cur[w]) => ~ \E q \in picked : Sends(q) /\ OrderOf[q] = Order(w)
    BY <1>2, StoredAreRows DEF OneContactPerOrder, Order
  <2>2. Order(w) \in Orders /\ delivered[Order(w)] \in Nat
    BY <1>2, OutboundAssumption DEF Order, RowInv, Types
  <2> QED
    BY <2>1, <2>2 DEF ContactInv, DeliveredWerePicked
<1>4. Dispatch(w)'
  BY <1>1, <1>3 DEF Dispatch, RowInv, Types, Sends, Order
<1>5. \A v \in Workers \ {w} : Dispatch(v)'
  BY <1>1, DispatchKept DEF ContactInv, Dispatch, RowInv, Types
<1> QED
  BY <1>1, <1>4, <1>5
     DEF ContactInv, DeliveredWerePicked, ContactBounded, ContactedHadConsent, OkMeansContacted

LEMMA SkipOrOpenStep ==
  ASSUME RowInv, ContactInv, NEW w \in Workers, SkipChannel(w) \/ OpenConversation(w)
  PROVE  ContactInv'
<1>1. UNCHANGED <<due, picked, completed, consent, open, cur, delivered>>
  BY DEF SkipChannel, OpenConversation, env
<1>2. Dispatch(w)'
  <2>1. CASE SkipChannel(w)
    BY <2>1, <1>1 DEF SkipChannel, Goto, Dispatch, RowInv, Types, Sends
  <2>2. CASE OpenConversation(w)
    <3>1. delivered[Order(w)] = 0 /\ Sends(cur[w])
      BY <2>2 DEF OpenConversation, ContactInv, Dispatch, Sends
    <3>2. attempt'[w] = 1 /\ pc'[w] = "send" /\ consent[Buyer[Order(w)]] = "in"
      BY <2>2 DEF OpenConversation, Goto, RowInv, Types
    <3> QED
      BY <1>1, <3>1, <3>2 DEF Dispatch, Sends, Order
  <2> QED
    BY <2>1, <2>2
<1>3. \A v \in Workers \ {w} : Dispatch(v)'
  <2>1. \A v \in Workers \ {w} : pc'[v] = pc[v] /\ attempt'[v] = attempt[v]
    BY DEF SkipChannel, OpenConversation, Goto, RowInv, Types
  <2> QED
    BY <1>1, <2>1, DispatchKept DEF ContactInv, Dispatch
<1> QED
  BY <1>1, <1>2, <1>3
     DEF ContactInv, DeliveredWerePicked, ContactBounded, ContactedHadConsent, OkMeansContacted

\* An attempt, delivered or not, answered or not.
LEMMA SendStep ==
  ASSUME RowInv, ContactInv, OneContactPerOrder, NEW w \in Workers, Sent(w) \/ SendError(w)
  PROVE  ContactInv'
<1> DEFINE o == Order(w)
<1>1. /\ pc[w] = "send" /\ Sends(cur[w]) /\ delivered[o] < attempt[w]
      /\ consent[Buyer[o]] # "none"
  BY DEF Sent, SendError, ContactInv, Dispatch
<1>2. UNCHANGED <<due, picked, completed, consent, open, cur>>
  BY DEF Sent, SendError, env
<1>3. cur[w] \in picked /\ o \in Orders /\ delivered[o] \in Nat /\ attempt[w] \in 0 .. 3
  BY <1>1, HeldRow DEF Holding, Dispatching, RowInv, Types, Attempts
<1>4. /\ \A p \in Orders \ {o} : delivered'[p] = delivered[p]
      /\ delivered'[o] \in {delivered[o], delivered[o] + 1}
      /\ Sent(w) => delivered'[o] = delivered[o] + 1
  <2>1. delivered \in [Orders -> Nat]
    BY DEF RowInv, Types
  <2>2. CASE Deliver(w)
    <3>1. delivered' = [delivered EXCEPT ![o] = delivered[o] + 1]
      BY <2>2 DEF Deliver
    <3> HIDE DEF o
    <3> QED
      BY <1>3, <2>1, <3>1
  <2>3. CASE UNCHANGED delivered /\ ~Sent(w)
    BY <2>3
  <2> QED
    BY <2>2, <2>3 DEF Sent, SendError
<1>5. Dispatch(w)'
  <2>1. CASE Sent(w)
    <3>1. pc'[w] = "persist" /\ delivered'[o] > 0
      BY <2>1, <1>3, <1>4 DEF Sent, Goto, RowInv, Types
    <3> QED
      BY <1>1, <1>2, <3>1 DEF Dispatch, Order, Sends
  <2>2. CASE SendError(w) /\ attempt[w] < Attempts
    <3>1. pc'[w] = "send" /\ attempt'[w] = attempt[w] + 1
      BY <2>2, <1>1 DEF SendError, RowInv, Types
    <3>2. delivered'[o] < attempt'[w]
      BY <1>1, <1>3, <1>4, <3>1
    <3> QED
      BY <1>1, <1>2, <3>1, <3>2 DEF Dispatch, Order, Sends
  <2>3. CASE SendError(w) /\ ~(attempt[w] < Attempts)
    <3>1. pc'[w] = "failed"
      BY <2>3 DEF SendError, Goto, RowInv, Types
    <3> QED
      BY <3>1 DEF Dispatch
  <2> QED
    BY <2>1, <2>2, <2>3
<1>6. ASSUME NEW v \in Workers \ {w} PROVE Dispatch(v)'
  <2>1. pc'[v] = pc[v] /\ attempt'[v] = attempt[v]
    BY DEF Sent, SendError, Goto, RowInv, Types
  <2>2. pc[v] \in Holding /\ Sends(cur[v]) => delivered'[Order(v)] = delivered[Order(v)]
    <3> SUFFICES ASSUME pc[v] \in Holding, Sends(cur[v])
                 PROVE  delivered'[Order(v)] = delivered[Order(v)]
      OBVIOUS
    <3>1. Order(v) # o /\ Order(v) \in Orders
      BY <1>1, OrdersApart, HeldRow DEF Holding, Dispatching
    <3> QED
      BY <1>4, <3>1
  <2> QED
    BY <1>2, <2>1, <2>2, DispatchKept DEF ContactInv, Dispatch
<1>7. DeliveredWerePicked'
  BY <1>1, <1>2, <1>3, <1>4 DEF ContactInv, DeliveredWerePicked, Order, Sends
<1>8. ContactBounded'
  <2>1. delivered'[o] <= 3
    BY <1>1, <1>3, <1>4
  <2> QED
    BY <1>4, <2>1 DEF ContactInv, ContactBounded, Attempts
<1>9. ContactedHadConsent'
  BY <1>1, <1>2, <1>4 DEF ContactInv, ContactedHadConsent
<1>10. OkMeansContacted'
  <2>1. \A p \in Orders : delivered[p] > 0 => delivered'[p] > 0
    BY <1>3, <1>4 DEF RowInv, Types
  <2> QED
    BY <1>2, <2>1, OutboundAssumption DEF ContactInv, OkMeansContacted
<1> QED
  BY <1>5, <1>6, <1>7, <1>8, <1>9, <1>10 DEF ContactInv

LEMMA PersistStep ==
  ASSUME RowInv, ContactInv, NEW w \in Workers, Persist(w)
  PROVE  ContactInv'
<1>1. /\ open' = open \cup {Order(w)} /\ pc' = [pc EXCEPT ![w] = "succeeded"]
      /\ UNCHANGED <<due, picked, completed, consent, cur, attempt, delivered>>
  BY DEF Persist, Goto, env
<1>2. Dispatch(w)'
  BY <1>1 DEF Persist, ContactInv, Dispatch, RowInv, Types, Order, Sends
<1>3. \A v \in Workers \ {w} : Dispatch(v)'
  BY <1>1, DispatchKept DEF ContactInv, Dispatch, RowInv, Types
<1> QED
  BY <1>1, <1>2, <1>3
     DEF ContactInv, DeliveredWerePicked, ContactBounded, ContactedHadConsent, OkMeansContacted

LEMMA MarkDoneStep ==
  ASSUME RowInv, ContactInv, NEW w \in Workers, MarkDone(w)
  PROVE  ContactInv'
<1>1. /\ completed' = [completed EXCEPT ![cur[w]] = IF pc[w] = "succeeded" THEN "ok" ELSE "error"]
      /\ pc' = [pc EXCEPT ![w] = "idle"]
      /\ UNCHANGED <<due, picked, consent, open, delivered>>
  BY DEF MarkDone, Release, Goto, env
<1>2. \A v \in Workers : Dispatch(v)'
  <2>1. Dispatch(w)'
    BY <1>1 DEF Dispatch, RowInv, Types
  <2>2. \A v \in Workers \ {w} : pc'[v] = pc[v] /\ cur'[v] = cur[v] /\ attempt'[v] = attempt[v]
    BY DEF MarkDone, Release, Goto, RowInv, Types
  <2>3. \A v \in Workers \ {w} : Dispatch(v)'
    BY <1>1, <2>2, DispatchKept DEF ContactInv, Dispatch
  <2> QED
    BY <2>1, <2>3
<1>3. OkMeansContacted'
  <2> SUFFICES ASSUME NEW q \in Rows, completed'[q] = "ok", Channel[q] = "whatsapp"
               PROVE  delivered[OrderOf[q]] > 0 /\ OrderOf[q] \in open
    BY <1>1 DEF OkMeansContacted
  <2>1. CASE completed[q] = "ok"
    BY <2>1 DEF ContactInv, OkMeansContacted
  <2>2. CASE completed[q] # "ok"
    <3>1. q = cur[w] /\ pc[w] = "succeeded"
      BY <1>1, <2>2 DEF RowInv, Types
    <3> QED
      BY <3>1 DEF ContactInv, Dispatch, Sends, Order
  <2> QED
    BY <2>1, <2>2
<1> QED
  BY <1>1, <1>2, <1>3 DEF ContactInv, DeliveredWerePicked, ContactBounded, ContactedHadConsent

LEMMA ContactInvNext ==
  ASSUME OneContactPerOrder, RowInv, ContactInv, [Next]_vars
  PROVE  ContactInv'
<1>1. ASSUME NEW q \in Rows, Enqueue(q) PROVE ContactInv'
  BY <1>1, QuietStep DEF Enqueue
<1>2. ASSUME NEW w \in Workers, PickLock(w) \/ NoOptIn(w) \/ Fail(w) PROVE ContactInv'
  <2>1. UNCHANGED <<picked, completed, consent, open, delivered, attempt>>
    BY <1>2 DEF PickLock, NoOptIn, Fail, env
  <2>2. \A v \in Workers : \/ pc'[v] \in {"picking", "failed"}
                           \/ pc'[v] = pc[v] /\ cur'[v] = cur[v]
    BY <1>2 DEF PickLock, NoOptIn, Fail, Goto, RowInv, Types
  <2> QED
    BY <2>1, <2>2, QuietStep
<1>3. ASSUME NEW w \in Workers, MarkDoneFails(w) \/ Crash(w) PROVE ContactInv'
  <2>1. UNCHANGED <<picked, completed, consent, open, delivered>>
    BY <1>3 DEF MarkDoneFails, Crash, env
  <2>2. \A v \in Workers : \/ pc'[v] \in {"idle", "failed"}
                           \/ pc'[v] = pc[v] /\ cur'[v] = cur[v] /\ attempt'[v] = attempt[v]
    BY <1>3 DEF MarkDoneFails, Crash, Release, Goto, RowInv, Types
  <2> QED
    BY <2>1, <2>2, QuietStep
<1>4. CASE UNCHANGED vars
  BY <1>4, QuietStep DEF vars
<1> QED
  BY <1>1, <1>2, <1>3, <1>4, ConsentStep, PickCommitStep, SkipOrOpenStep, SendStep,
     PersistStep, MarkDoneStep DEF Next, Advance, Poll

LEMMA ContactInvHolds ==
  ASSUME OneContactPerOrder
  PROVE  Spec => []ContactInv
BY ContactInvInit, ContactInvNext, RowInvHolds, PTL DEF Spec

(* A buyer gets the template at most three times for an order, for any       *)
(* number of loops and crashes: a timed-out dispatch is never begun again.   *)
THEOREM ContactIsBounded ==
  ASSUME OneContactPerOrder
  PROVE  Spec => []ContactBounded
<1>1. ContactInv => ContactBounded
  BY DEF ContactInv
<1> QED
  BY <1>1, ContactInvHolds, PTL

(* No template reaches a buyer who never opted in, however consent changes   *)
(* while dispatches are under way.                                           *)
THEOREM ContactNeedsConsent ==
  ASSUME OneContactPerOrder
  PROVE  Spec => []ContactedHadConsent
<1>1. ContactInv => ContactedHadConsent
  BY DEF ContactInv
<1> QED
  BY <1>1, ContactInvHolds, PTL

(* A first contact marked completed without an error was delivered, and its  *)
(* conversation is committed.                                                *)
THEOREM OkIsContacted ==
  ASSUME OneContactPerOrder
  PROVE  Spec => []OkMeansContacted
<1>1. ContactInv => OkMeansContacted
  BY DEF ContactInv
<1> QED
  BY <1>1, ContactInvHolds, PTL
=============================================================================

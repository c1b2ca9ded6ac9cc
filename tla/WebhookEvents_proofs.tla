------------------------- MODULE WebhookEvents_proofs -------------------------
(***************************************************************************)
(* WebhookEvents for any number of requests, loops of either kind, crashes *)
(* and failures.  TableInv is inductive: a stored row's request has        *)
(* committed, a loop holds one stored row, no two loops hold the same, and *)
(* only a processed row has an outcome.  From it follow that what was      *)
(* accepted is stored and kept, that webhook_events is an AtMostOnceQueue, *)
(* and that a customer is erased exactly by a redaction that was applied.  *)
(***************************************************************************)
EXTENDS WebhookEvents, FiniteSetTheorems, TLAPS

PCs == {"idle", "picking", "working", "marking"}
Outcomes == {"none", "applied", "failed"}

Types ==
  /\ rows \in Seq(Requests)
  /\ processed \subseteq Stored
  /\ pc \in [Loops -> PCs]
  /\ cur \in [Loops -> Requests \cup {Null}]
  /\ outcome \in [Requests -> Outcomes]
  /\ answer \in [Requests -> Answers]
  /\ tx \in [Requests -> {"none", "open", "committed", "failed"}]

StoredOnce == \A r \in Stored : tx[r] = "committed"

HoldsRow(w) ==
  /\ pc[w] = "idle" <=> cur[w] = Null
  /\ pc[w] = "picking" => cur[w] \in Stored \ processed
  /\ pc[w] \in {"working", "marking"} => cur[w] \in processed /\ outcome[cur[w]] = "none"

Apart == \A v, w \in Loops : v # w /\ cur[v] = cur[w] => cur[v] = Null

OutcomesAreOfProcessed == \A r \in Requests : outcome[r] # "none" => r \in processed

TableInv ==
  /\ Types
  /\ StoredOnce
  /\ \A w \in Loops : HoldsRow(w)
  /\ Apart
  /\ OutcomesAreOfProcessed

-----------------------------------------------------------------------------
(* The actions by what they do to the queue.                               *)

\* A receiver, before its commit or in place of it.
Replies ==
  /\ \E r \in Requests, a \in Answers, t \in {"none", "open", "failed"} :
       /\ tx[r] # "committed"
       /\ answer' = [answer EXCEPT ![r] = a]
       /\ tx' = [tx EXCEPT ![r] = t]
  /\ UNCHANGED <<rows, processed, personal, outcome, pc, cur, early>>

Free(w) == pc' = [pc EXCEPT ![w] = "idle"] /\ cur' = [cur EXCEPT ![w] = Null]

\* The end of a handler with the outcome o.
Finish(w, o) ==
  /\ pc[w] \in {"working", "marking"}
  /\ outcome' = [outcome EXCEPT ![cur[w]] = o]
  /\ Free(w)
  /\ UNCHANGED <<rows, processed, http>>

\* A handler or a pick that ends in nothing.
Abandon(w) ==
  /\ pc[w] # "idle"
  /\ Free(w)
  /\ UNCHANGED <<rows, processed, personal, outcome, http>>

ToMarking(w) ==
  /\ pc[w] = "working"
  /\ pc' = [pc EXCEPT ![w] = "marking"]
  /\ UNCHANGED <<rows, processed, personal, outcome, cur, http>>

TableStep ==
  \/ Replies
  \/ \E r \in Requests : Commit(r)
  \/ \E w \in Loops : PickLock(w) \/ PickCommit(w) \/ Abandon(w) \/ ToMarking(w)
  \/ \E w \in Loops : Finish(w, "applied") /\ Work(w)
  \/ \E w \in Loops : Finish(w, "failed") /\ UNCHANGED personal
  \/ UNCHANGED <<rows, processed, personal, outcome, pc, cur, http>>

LEMMA StepIsTableStep ==
  ASSUME Types, [Next]_vars
  PROVE  TableStep
<1>1. ASSUME NEW r \in Requests,
             Refuse(r) \/ Insert(r) \/ MetaInsert(r) \/ Answer(r) \/ InsertFails(r) \/ CommitFails(r)
      PROVE  Replies
  BY <1>1 DEF Replies, Types, Refuse, Insert, MetaInsert, New, Ready, Answer, InsertFails, CommitFails,
              Reply, Goes, Answers, table, loops
<1>2. ASSUME NEW w \in Loops, Work(w) PROVE Finish(w, "applied")
  BY <1>2 DEF Work, Finish, Settle, Release, Goto, Free
<1>3. ASSUME NEW w \in Loops, WorkFails(w)
      PROVE  ToMarking(w) \/ (Finish(w, "failed") /\ UNCHANGED personal)
  BY <1>3 DEF WorkFails, Finish, ToMarking, Settle, Release, Goto, Free
<1>4. ASSUME NEW w \in Loops, MarkError(w)
      PROVE  Finish(w, "failed") /\ UNCHANGED personal
  BY <1>4 DEF MarkError, Finish, Settle, Release, Goto, Free
<1>5. ASSUME NEW w \in Loops, MarkErrorFails(w) \/ Crash(w) PROVE Abandon(w)
  BY <1>5 DEF MarkErrorFails, Crash, Abandon, Release, Goto, Free, table
<1>6. ASSUME NEW w \in Loops, Poll(w) PROVE UNCHANGED vars
  BY <1>6 DEF Poll
<1>7. CASE UNCHANGED vars
  BY <1>7 DEF TableStep, vars, table, loops, http
<1> QED
  BY <1>1, <1>2, <1>3, <1>4, <1>5, <1>6, <1>7 DEF Next, Serve, Advance, TableStep

-----------------------------------------------------------------------------
LEMMA CommitStores ==
  ASSUME Types, NEW r \in Requests, Commit(r)
  PROVE  rows' \in Seq(Requests) /\ Stored' = Stored \cup {r}
<1>1. rows \in Seq(Requests) /\ rows' = Append(rows, r)
  BY DEF Types, Commit
<1> QED
  BY <1>1 DEF Stored

LEMMA StoredSame ==
  ASSUME UNCHANGED rows
  PROVE  Stored' = Stored
BY DEF Stored

LEMMA TableInvInit == Init => TableInv
<1> SUFFICES ASSUME Init PROVE TableInv
  OBVIOUS
<1>1. Stored = {}
  BY DEF Init, Stored
<1> QED
  BY <1>1, WebhookAssumption DEF Init, TableInv, Types, StoredOnce, HoldsRow, Apart,
     OutcomesAreOfProcessed, PCs, Outcomes, Answers

LEMMA TableInvNext == TableInv /\ [Next]_vars => TableInv'
<1> SUFFICES ASSUME TableInv, [Next]_vars PROVE TableInv'
  OBVIOUS
<1>1. TableStep
  BY StepIsTableStep DEF TableInv
<1>2. Stored \subseteq Requests /\ Null \notin Requests
  BY WebhookAssumption DEF TableInv, Types, Stored
<1>3. UNCHANGED rows => Stored' = Stored
  BY StoredSame
<1> USE DEF TableInv, Types, StoredOnce, HoldsRow, Apart, OutcomesAreOfProcessed,
            PCs, Outcomes, Answers, http
<1>4. CASE Replies
  BY <1>2, <1>3, <1>4 DEF Replies
<1>5. ASSUME NEW r \in Requests, Commit(r) PROVE TableInv'
  <2>1. rows' \in Seq(Requests) /\ Stored' = Stored \cup {r}
    BY <1>5, CommitStores
  <2>2. answer' = [answer EXCEPT ![r] = "accepted"]
        /\ tx[r] = "open" /\ tx' = [tx EXCEPT ![r] = "committed"]
        /\ UNCHANGED <<processed, pc, cur, outcome>>
    BY <1>5 DEF Commit, Reply, Goes, loops
  <2>3. r \notin Stored
    BY <2>2
  <2>4. r \notin processed
    BY <2>3
  <2> QED
    BY <1>2, <2>1, <2>2, <2>3, <2>4
<1>6. ASSUME NEW w \in Loops, PickLock(w) PROVE TableInv'
  <2>1. PICK i \in DOMAIN rows :
          rows[i] \in Pickable(w) /\ cur' = [cur EXCEPT ![w] = rows[i]]
    BY <1>6 DEF PickLock
  <2>2. rows[i] \in Stored \ processed /\ rows[i] \in Requests
    BY <1>2, <2>1 DEF Pickable
  <2>3. \A v \in Loops : cur[v] # rows[i]
    BY <1>2, <2>1, <2>2 DEF Pickable
  <2>4. UNCHANGED <<rows, processed, outcome, http>> /\ pc' = [pc EXCEPT ![w] = "picking"]
    BY <1>6 DEF PickLock, Goto, table
  <2> QED
    BY <1>2, <1>3, <2>1, <2>2, <2>3, <2>4
<1>7. ASSUME NEW w \in Loops, PickCommit(w) PROVE TableInv'
  <2>1. cur[w] \in Stored \ processed
    BY <1>7 DEF PickCommit
  <2>2. outcome[cur[w]] = "none"
    BY <1>2, <2>1
  <2>3. \A v \in Loops \ {w} : cur[v] # cur[w]
    BY <1>2, <2>1
  <2>4. processed' = processed \cup {cur[w]} /\ pc' = [pc EXCEPT ![w] = "working"]
        /\ UNCHANGED <<rows, outcome, cur, http>>
    BY <1>7 DEF PickCommit, Goto
  <2> QED
    BY <1>2, <1>3, <2>1, <2>2, <2>3, <2>4
<1>8. ASSUME NEW w \in Loops, Abandon(w) PROVE TableInv'
  BY <1>2, <1>3, <1>8 DEF Abandon, Free
<1>9. ASSUME NEW w \in Loops, ToMarking(w) PROVE TableInv'
  BY <1>2, <1>3, <1>9 DEF ToMarking
<1>10. ASSUME NEW w \in Loops, NEW o \in {"applied", "failed"}, Finish(w, o) PROVE TableInv'
  <2>1. cur[w] \in processed /\ cur[w] \in Requests
    BY <1>2, <1>10 DEF Finish
  <2>2. \A v \in Loops \ {w} : cur[v] # cur[w]
    BY <1>2, <2>1
  <2> QED
    BY <1>2, <1>3, <1>10, <2>1, <2>2 DEF Finish, Free
<1>11. CASE UNCHANGED <<rows, processed, personal, outcome, pc, cur, http>>
  BY <1>3, <1>11
<1> QED
  BY <1>1, <1>4, <1>5, <1>6, <1>7, <1>8, <1>9, <1>10, <1>11 DEF TableStep

LEMMA TableInvHolds == Spec => []TableInv
BY TableInvInit, TableInvNext, PTL DEF Spec

-----------------------------------------------------------------------------
(* What is answered is stored.                                             *)

LEMMA StoredGrows ==
  ASSUME TableInv, [Next]_vars
  PROVE  Stored \subseteq Stored'
<1>1. TableStep
  BY StepIsTableStep DEF TableInv
<1>2. CASE UNCHANGED rows
  BY <1>2, StoredSame
<1>3. ASSUME NEW r \in Requests, Commit(r) PROVE Stored \subseteq Stored'
  BY <1>3, CommitStores DEF TableInv
<1> QED
  BY <1>1, <1>2, <1>3 DEF TableStep, Replies, PickLock, PickCommit, Abandon, ToMarking, Finish, table

(* A provider that was answered with "accepted" finds the event in the       *)
(* table, for any number of copies in flight and whichever of them fail,     *)
(* unless the answer went out before a commit that is to come or failed.     *)
THEOREM AcceptedAreStored == Spec => []AcceptedIsStored
<1>1. Init => AcceptedIsStored
  BY DEF Init, AcceptedIsStored
<1>2. TableInv /\ AcceptedIsStored /\ [Next]_vars => AcceptedIsStored'
  <2> SUFFICES ASSUME TableInv, AcceptedIsStored, [Next]_vars, NEW q \in Requests,
                      answer'[q] = "accepted"
               PROVE  Known(q)' \/ (early' /\ tx'[q] \in {"open", "failed"})
    BY DEF AcceptedIsStored
  <2>1. Known(q) => Known(q)'
    BY StoredGrows DEF Known
  <2>2. CASE answer[q] = "accepted" /\ early' = early /\ tx'[q] = tx[q]
    BY <2>1, <2>2 DEF AcceptedIsStored
  <2>3. ASSUME NEW r \in Requests, Refuse(r) \/ MetaInsert(r) \/ InsertFails(r)
        PROVE  answer[q] = "accepted" /\ early' = early /\ tx'[q] = tx[q]
    <3>1. CASE Refuse(r) \/ InsertFails(r)
      BY <3>1 DEF Refuse, InsertFails, Reply, TableInv, Types
    <3>2. CASE MetaInsert(r)
      <4>1. New(r) /\ early' = early
        BY <3>2 DEF MetaInsert, Ready
      <4>2. q # r /\ answer[q] = "accepted" /\ tx'[q] = tx[q]
        BY <3>2, <4>1 DEF MetaInsert, New, Reply, Goes, TableInv, Types
      <4> QED
        BY <4>1, <4>2
    <3> QED
      BY <2>3, <3>1, <3>2
  <2>4. ASSUME NEW r \in Requests, Insert(r)
        PROVE  \/ answer[q] = "accepted" /\ early' = early /\ tx'[q] = tx[q]
               \/ Known(q)
    <3>1. New(r) /\ early' = early
      BY <2>4 DEF Insert, Ready
    <3> QED
      BY <2>4, <3>1 DEF Insert, New, Reply, Goes, TableInv, Types
  <2>5. ASSUME NEW r \in Requests, Answer(r)
        PROVE  \/ answer[q] = "accepted" /\ early' = early /\ tx'[q] = tx[q]
               \/ early' /\ tx'[q] = "open"
    BY <2>5 DEF Answer, Reply, TableInv, Types
  <2>6. ASSUME NEW r \in Requests, CommitFails(r)
        PROVE  \/ answer[q] = "accepted" /\ early' = early /\ tx'[q] = tx[q]
               \/ Known(q)'
               \/ early' /\ tx'[q] = "failed"
    <3>1. answer[q] = "accepted" /\ early' = early /\ tx[r] = "open"
          /\ tx' = [tx EXCEPT ![r] = "failed"]
      BY <2>6 DEF CommitFails, Reply, Goes, TableInv, Types
    <3> QED
      BY <2>1, <3>1 DEF AcceptedIsStored, TableInv, Types
  <2>7. ASSUME NEW r \in Requests, Commit(r)
        PROVE  \/ answer[q] = "accepted" /\ early' = early /\ tx'[q] = tx[q]
               \/ Known(q)'
    <3>1. Known(r)'
      BY <2>7, CommitStores DEF Known, TableInv
    <3>2. q = r \/ (answer[q] = "accepted" /\ early' = early /\ tx'[q] = tx[q])
      BY <2>7 DEF Commit, Reply, Goes, TableInv, Types
    <3> QED
      BY <3>1, <3>2
  <2>8. CASE UNCHANGED http
    BY <2>2, <2>8 DEF http
  <2> QED
    BY <2>1, <2>2, <2>3, <2>4, <2>5, <2>6, <2>7, <2>8
       DEF Next, Serve, Advance, PickLock, PickCommit, Poll, Work, WorkFails, MarkError,
           MarkErrorFails, Crash, vars
<1> QED
  BY <1>1, <1>2, TableInvHolds, PTL DEF Spec

\* The unique key (source, event_id): of the stored and the uncommitted rows
\* no two have one key.
Written == Stored \cup {r \in Requests : tx[r] = "open"}
UniqueKey == \A q, r \in Written : Key(q) = Key(r) => q = r

LEMMA UniqueKeyHolds == Spec => []UniqueKey
<1>1. Init => UniqueKey
  BY DEF Init, UniqueKey, Written, Stored
<1>2. TableInv /\ UniqueKey /\ [Next]_vars => UniqueKey'
  <2> SUFFICES ASSUME TableInv, UniqueKey, [Next]_vars PROVE UniqueKey'
    OBVIOUS
  <2>1. ASSUME NEW r \in Requests, Insert(r) \/ MetaInsert(r) PROVE UniqueKey'
    <3>1. Stored' = Stored
      BY <2>1, StoredSame DEF Insert, MetaInsert, table
    <3>2. /\ Ready(r)
          /\ \/ UNCHANGED tx
             \/ tx' = [tx EXCEPT ![r] = "open"] /\ ~Known(r)
      BY <2>1 DEF Insert, MetaInsert, Goes
    <3>3. Written' \subseteq Written \cup {r}
      BY <3>1, <3>2 DEF Written, TableInv, Types
    <3>4. r \in Written' => \A q \in Written : Key(q) # Key(r)
      <4>1. r \notin Stored
        BY <3>2 DEF Ready, New, TableInv, StoredOnce
      <4>2. r \in Written' => ~Known(r)
        BY <3>1, <3>2, <4>1 DEF Written, Ready, New, TableInv, Types
      <4> QED
        BY <3>2, <4>2 DEF Written, Ready, Known
    <3>5. \A q, p \in Written' : Key(q)' = Key(q)
      BY DEF Key, EventId, ShopifyId, WooId, GenericId, Dialog360Id, TwilioId, VoiceId,
             StripeId, MetaId
    <3> QED
      BY <3>3, <3>4, <3>5 DEF UniqueKey
  <2>2. CASE Written' \subseteq Written
    BY <2>2 DEF UniqueKey, Key, EventId, ShopifyId, WooId, GenericId, Dialog360Id, TwilioId,
       VoiceId, StripeId, MetaId
  <2>3. ASSUME NEW r \in Requests, Commit(r) PROVE Written' \subseteq Written
    <3>1. Stored' = Stored \cup {r} /\ tx[r] = "open"
          /\ tx' = [tx EXCEPT ![r] = "committed"]
      BY <2>3, CommitStores DEF Commit, Goes, TableInv
    <3> QED
      BY <3>1 DEF Written, TableInv, Types
  <2>4. ASSUME NEW r \in Requests, Refuse(r) \/ Answer(r) \/ InsertFails(r) \/ CommitFails(r)
        PROVE  Written' \subseteq Written
    BY <2>4, StoredSame DEF Refuse, Answer, InsertFails, CommitFails, Goes, Written, TableInv, Types, table
  <2>5. CASE UNCHANGED <<rows, http>>
    BY <2>2, <2>5, StoredSame DEF Written, http
  <2> QED
    BY <2>1, <2>2, <2>3, <2>4, <2>5
       DEF Next, Serve, Advance, PickLock, PickCommit, Poll, Work, WorkFails, MarkError,
           MarkErrorFails, Crash, vars, table, loops
<1> QED
  BY <1>1, <1>2, TableInvHolds, PTL DEF Spec

\* What the providers promise of their ids.
IdsNameEvents ==
  \A q, r \in Requests : Identifying(r) /\ Key(q) = Key(r) => EventOf[q] = EventOf[r]

(* Every accepted event whose provider gives it an id of its own has exactly *)
(* one row, however often and from however many connections it is sent, once *)
(* the transaction of an early answer has committed.                         *)
THEOREM AcceptedAreKept ==
  ASSUME IdsNameEvents
  PROVE  Spec => []EventsKept
<1>1. TableInv /\ UniqueKey /\ AcceptedIsStored => EventsKept
  <2> SUFFICES ASSUME TableInv, UniqueKey, AcceptedIsStored,
                      NEW r \in Requests, Identifying(r), answer[r] = "accepted",
                      tx[r] \in {"none", "committed"}
               PROVE  Cardinality({q \in Stored : EventOf[q] = EventOf[r]}) = 1
    BY DEF EventsKept
  <2>1. Stored \subseteq Requests
    BY DEF TableInv, Types, Stored
  <2>2. PICK p \in Stored : Key(p) = Key(r)
    BY DEF AcceptedIsStored, Known
  <2>3. EventOf[p] = EventOf[r]
    BY <2>1, <2>2 DEF IdsNameEvents
  <2>4. \A q \in Stored : EventOf[q] = EventOf[r] => q = p
    BY <2>3 DEF UniqueKey, Written, Key
  <2>5. {q \in Stored : EventOf[q] = EventOf[r]} = {p}
    BY <2>3, <2>4
  <2> QED
    BY <2>5, FS_Singleton
<1> QED
  BY <1>1, TableInvHolds, UniqueKeyHolds, AcceptedAreStored, PTL

-----------------------------------------------------------------------------
(* webhook_events is an AtMostOnceQueue.                                   *)

Held(r) == \E w \in Loops : cur[w] = r

\* JobOf by the sets a row is in.
LEMMA JobCases ==
  ASSUME TableInv, NEW r \in Requests
  PROVE  /\ r \notin Stored => JobOf(r) = "absent"
         /\ r \in Stored \ processed => JobOf(r) = "ready"
         /\ r \in processed /\ outcome[r] # "none" => JobOf(r) = outcome[r]
         /\ r \in processed /\ outcome[r] = "none" /\ Held(r) => JobOf(r) = "claimed"
         /\ r \in processed /\ outcome[r] = "none" /\ ~Held(r) => JobOf(r) = "lost"
BY DEF JobOf, Held, TableInv, Types

LEMMA OneMoves ==
  ASSUME NEW r \in Requests, NEW from, NEW to,
         JobOf(r) = from, JobOf(r)' = to,
         \A q \in Requests \ {r} : JobOf(q)' = JobOf(q)
  PROVE  Queue!Move(r, from, to)
BY DEF Queue!Move

LEMMA NoneMoves ==
  ASSUME \A q \in Requests : JobOf(q)' = JobOf(q)
  PROVE  UNCHANGED [q \in Requests |-> JobOf(q)]
OBVIOUS

LEMMA JobKept ==
  ASSUME TableInv, TableInv', NEW q \in Requests,
         q \in Stored' <=> q \in Stored,
         q \in processed' <=> q \in processed,
         q \in processed => outcome'[q] = outcome[q],
         q \in processed => (Held(q)' <=> Held(q))
  PROVE  JobOf(q)' = JobOf(q)
<1>1. CASE q \in processed
  BY <1>1 DEF JobOf, Held, TableInv, Types
<1>2. CASE q \notin processed
  BY <1>2 DEF JobOf
<1> QED
  BY <1>1, <1>2

LEMMA QueueRefinementInit == Init => Queue!Init
<1> SUFFICES ASSUME Init PROVE Queue!Init
  OBVIOUS
<1>1. TableInv /\ Stored = {}
  BY TableInvInit DEF Init, Stored
<1>2. \A r \in Requests : JobOf(r) = "absent"
  BY <1>1, JobCases
<1> QED
  BY <1>2 DEF Queue!Init

LEMMA QueueRefinementStep ==
  ASSUME TableInv, [Next]_vars
  PROVE  [Queue!Next]_([r \in Requests |-> JobOf(r)])
<1> DEFINE job == [r \in Requests |-> JobOf(r)]
<1>1. TableStep /\ TableInv'
  BY StepIsTableStep, TableInvNext DEF TableInv
<1>2. UNCHANGED rows => Stored' = Stored
  BY StoredSame
<1>3. Stored \subseteq Requests /\ processed \subseteq Stored /\ Null \notin Requests
  BY WebhookAssumption DEF TableInv, Types, Stored
<1>4. ASSUME UNCHANGED <<rows, processed, outcome, cur>> PROVE UNCHANGED job
  BY <1>1, <1>2, <1>4, JobKept, NoneMoves DEF Held
<1>5. ASSUME NEW r \in Requests, Commit(r) PROVE Queue!Next
  <2>1. Stored' = Stored \cup {r} /\ UNCHANGED <<processed, outcome, cur>>
    BY <1>5, CommitStores DEF Commit, loops, TableInv
  <2>2. r \notin Stored
    BY <1>5 DEF Commit, TableInv, StoredOnce
  <2>3. JobOf(r) = "absent"
    BY <2>2, JobCases
  <2>4. JobOf(r)' = "ready"
    BY <1>3, <2>1, <2>2 DEF JobOf
  <2>5. \A q \in Requests \ {r} : JobOf(q)' = JobOf(q)
    BY <1>1, <2>1, JobKept DEF Held
  <2>6. Queue!Move(r, "absent", "ready")
    BY <2>3, <2>4, <2>5, OneMoves
  <2> QED
    BY <2>6 DEF Queue!Next, Queue!Enqueue
<1>6. ASSUME NEW w \in Loops, PickLock(w) PROVE UNCHANGED job
  <2>1. PICK i \in DOMAIN rows :
          rows[i] \in Pickable(w) /\ cur' = [cur EXCEPT ![w] = rows[i]]
    BY <1>6 DEF PickLock
  <2>2. rows[i] \notin processed /\ cur[w] = Null
    BY <1>6, <2>1 DEF Pickable, PickLock, TableInv, HoldsRow
  <2>3. \A q \in processed : Held(q)' <=> Held(q)
    BY <1>3, <2>1, <2>2 DEF Held, TableInv, Types
  <2>4. UNCHANGED <<rows, processed, outcome>>
    BY <1>6 DEF PickLock, table
  <2> QED
    BY <1>1, <1>2, <2>3, <2>4, JobKept, NoneMoves
<1>7. ASSUME NEW w \in Loops, PickCommit(w) PROVE Queue!Next
  <2>1. PICK r \in Requests : r = cur[w] /\ r \in Stored \ processed
    BY <1>3, <1>7 DEF PickCommit, TableInv, HoldsRow
  <2>2. processed' = processed \cup {r} /\ UNCHANGED <<rows, outcome, cur>>
    BY <1>7, <2>1 DEF PickCommit
  <2>3. outcome[r] = "none"
    BY <2>1 DEF TableInv, OutcomesAreOfProcessed
  <2>4. JobOf(r) = "ready"
    BY <2>1, JobCases
  <2>5. JobOf(r)' = "claimed"
    BY <1>2, <2>1, <2>2, <2>3 DEF JobOf
  <2>6. \A q \in Requests \ {r} : JobOf(q)' = JobOf(q)
    BY <1>1, <1>2, <2>2, JobKept DEF Held
  <2>7. Queue!Move(r, "ready", "claimed")
    BY <2>1, <2>4, <2>5, <2>6, OneMoves
  <2> QED
    BY <2>1, <2>7 DEF Queue!Next, Queue!Claim
<1>8. ASSUME NEW w \in Loops, NEW r \in Requests, r = cur[w], Free(w)
      PROVE  /\ ~Held(r)'
             /\ \A q \in Requests \ {r} : Held(q)' <=> Held(q)
  <2>1. \A v \in Loops : cur'[v] = IF v = w THEN Null ELSE cur[v]
    BY <1>8 DEF Free, TableInv, Types
  <2>2. \A v \in Loops \ {w} : cur[v] # r
    BY <1>3, <1>8 DEF TableInv, Apart
  <2>3. r # Null /\ \A q \in Requests : q # Null
    BY <1>3
  <2> QED
    BY <1>8, <2>1, <2>2, <2>3 DEF Held
<1>9. ASSUME NEW w \in Loops, Abandon(w) PROVE Queue!Next \/ UNCHANGED job
  <2>1. UNCHANGED <<rows, processed, outcome>> /\ Free(w)
    BY <1>9 DEF Abandon
  <2>2. CASE cur[w] \notin processed
    <3>1. \A q \in processed : Held(q)' <=> Held(q)
      BY <1>3, <2>1, <2>2 DEF Free, Held, TableInv, Types
    <3> QED
      BY <1>1, <1>2, <2>1, <3>1, JobKept, NoneMoves
  <2>3. CASE cur[w] \in processed
    <3>1. PICK r \in Requests : r = cur[w] /\ r \in processed
      BY <1>3, <2>3
    <3>2. outcome[r] = "none"
      BY <1>9, <3>1 DEF Abandon, TableInv, Types, HoldsRow, PCs
    <3>3. JobOf(r) = "claimed"
      BY <3>1, <3>2, JobCases DEF Held
    <3>4. JobOf(r)' = "lost"
      BY <1>2, <1>3, <1>8, <2>1, <3>1, <3>2 DEF JobOf, Held
    <3>5. \A q \in Requests \ {r} : JobOf(q)' = JobOf(q)
      BY <1>1, <1>2, <1>8, <2>1, <3>1, JobKept
    <3>6. Queue!Move(r, "claimed", "lost")
      BY <3>1, <3>3, <3>4, <3>5, OneMoves
    <3> QED
      BY <3>1, <3>6 DEF Queue!Next, Queue!Lose
  <2> QED
    BY <2>2, <2>3
<1>10. ASSUME NEW w \in Loops, NEW o \in {"applied", "failed"}, Finish(w, o)
       PROVE  Queue!Next
  <2>1. PICK r \in Requests : r = cur[w] /\ r \in processed /\ outcome[r] = "none"
    BY <1>3, <1>10 DEF Finish, TableInv, HoldsRow
  <2>2. UNCHANGED <<rows, processed>> /\ Free(w) /\ outcome' = [outcome EXCEPT ![r] = o]
    BY <1>10, <2>1 DEF Finish
  <2>3. JobOf(r) = "claimed"
    BY <2>1, JobCases DEF Held
  <2>4. outcome'[r] = o /\ \A q \in Requests \ {r} : outcome'[q] = outcome[q]
    BY <2>2 DEF TableInv, Types
  <2>5. JobOf(r)' = o
    BY <1>2, <1>3, <2>1, <2>2, <2>4 DEF JobOf
  <2>6. \A q \in Requests \ {r} : JobOf(q)' = JobOf(q)
    BY <1>1, <1>2, <1>8, <2>1, <2>2, <2>4, JobKept
  <2>7. Queue!Move(r, "claimed", o)
    BY <2>1, <2>3, <2>5, <2>6, OneMoves
  <2> QED
    BY <2>1, <2>7 DEF Queue!Next, Queue!Apply, Queue!GiveUp
<1> QED
  BY <1>1, <1>4, <1>5, <1>6, <1>7, <1>9, <1>10 DEF TableStep, Replies, ToMarking

(* The two loops use webhook_events as a queue that claims and settles a row *)
(* at most once, whatever their number and whichever of them crash.          *)
THEOREM QueueRefinement == Spec => RefinesQueue
BY TableInvHolds, QueueRefinementInit, QueueRefinementStep, PTL
   DEF Spec, RefinesQueue, Queue!Spec

-----------------------------------------------------------------------------
(* Redactions.                                                             *)

\* A loop holds a row of its own kind.
OwnKind ==
  \A w \in Loops : pc[w] # "idle" =>
    IF Kind[w] = "gdpr" THEN Source[EventOf[cur[w]]] = "shopify"
                             /\ Topic[EventOf[cur[w]]] \in GdprTopics
    ELSE Source[EventOf[cur[w]]] \in WhatsApp

LEMMA OwnKindHolds == Spec => []OwnKind
<1>1. Init => OwnKind
  BY DEF Init, OwnKind
<1>2. TableInv /\ OwnKind /\ [Next]_vars => OwnKind'
  <2> SUFFICES ASSUME TableInv, OwnKind, [Next]_vars PROVE OwnKind'
    OBVIOUS
  <2>1. TableStep
    BY StepIsTableStep DEF TableInv
  <2> USE DEF TableInv, Types, OwnKind
  <2>2. ASSUME NEW w \in Loops, PickLock(w) PROVE OwnKind'
    <3>1. PICK i \in DOMAIN rows :
            rows[i] \in Pickable(w) /\ cur' = [cur EXCEPT ![w] = rows[i]]
      BY <2>2 DEF PickLock
    <3>2. IF Kind[w] = "gdpr" THEN Source[EventOf[rows[i]]] = "shopify"
                                   /\ Topic[EventOf[rows[i]]] \in GdprTopics
          ELSE Source[EventOf[rows[i]]] \in WhatsApp
      BY <3>1, WebhookAssumption DEF Pickable, Takes
    <3>3. pc' = [pc EXCEPT ![w] = "picking"]
      BY <2>2 DEF PickLock, Goto
    <3> QED
      BY <3>1, <3>2, <3>3
  <2>3. ASSUME NEW w \in Loops, PickCommit(w) PROVE OwnKind'
    BY <2>3 DEF PickCommit, Goto
  <2>4. ASSUME NEW w \in Loops, Abandon(w) PROVE OwnKind'
    BY <2>4 DEF Abandon, Free
  <2>5. ASSUME NEW w \in Loops, ToMarking(w) PROVE OwnKind'
    BY <2>5 DEF ToMarking
  <2>6. ASSUME NEW w \in Loops, NEW o \in {"applied", "failed"}, Finish(w, o) PROVE OwnKind'
    BY <2>6 DEF Finish, Free
  <2>7. CASE UNCHANGED <<pc, cur>>
    BY <2>7
  <2> QED
    BY <2>1, <2>2, <2>3, <2>4, <2>5, <2>6, <2>7 DEF TableStep, Replies, Commit, loops
<1> QED
  BY <1>1, <1>2, TableInvHolds, PTL DEF Spec

Applied(r) == r \in processed /\ outcome[r] = "applied"

\* The rows that ask for c to be erased, whatever state they are in.
Names(r, c) ==
  LET e == EventOf[r] IN
  Source[e] = "shopify" /\ Topic[e] = "customers/redact" /\ c \in Subject[e]

LEMMA ErasedByApplied ==
  ASSUME TableInv
  PROVE  ErasedIffRedacted <=>
           \A c \in Customers :
             c \notin personal <=> \E r \in Requests : Applied(r) /\ Names(r, c)
<1>1. \A r \in Requests : Applied(r) <=> JobOf(r) = "applied"
  BY JobCases DEF Applied, TableInv, Types
<1>2. \A c : Redactions(c) = {r \in Stored : Names(r, c)}
  BY DEF Redactions, Names, Takes, GdprTopics
<1>3. Stored \subseteq Requests /\ processed \subseteq Stored
  BY DEF TableInv, Types, Stored
<1>4. ASSUME NEW c \in Customers
      PROVE (\E r \in Redactions(c) : JobOf(r) = "applied")
              <=> \E r \in Requests : Applied(r) /\ Names(r, c)
  BY <1>1, <1>2, <1>3 DEF Applied
<1> QED
  BY <1>4 DEF ErasedIffRedacted

(* A customer's data are erased exactly when a stored redaction of the       *)
(* customer was applied, for any number of loops and redactions: a lost or   *)
(* failed redaction erases nothing, and no other row erases anyone.          *)
THEOREM ErasedExactly == Spec => []ErasedIffRedacted
<1> DEFINE Erased == /\ personal \subseteq Customers
                     /\ \A c \in Customers :
                          c \notin personal <=> \E r \in Requests : Applied(r) /\ Names(r, c)
<1>1. Init => Erased
  BY DEF Init, Applied
<1>2. TableInv /\ OwnKind /\ Erased /\ [Next]_vars => Erased'
  <2> SUFFICES ASSUME TableInv, OwnKind, Erased, [Next]_vars PROVE Erased'
    OBVIOUS
  <2>1. TableStep
    BY StepIsTableStep DEF TableInv
  <2>2. Stored \subseteq Requests /\ processed \subseteq Stored
    BY DEF TableInv, Types, Stored
  <2>3. ASSUME UNCHANGED personal, \A r \in Requests : Applied(r)' <=> Applied(r)
        PROVE  Erased'
    BY <2>3 DEF Names
  <2>4. ASSUME UNCHANGED <<processed, outcome>>
        PROVE  \A r \in Requests : Applied(r)' <=> Applied(r)
    BY <2>4 DEF Applied
  <2>5. ASSUME NEW w \in Loops, PickCommit(w) PROVE Erased'
    <3>1. cur[w] \in Requests \ processed
      BY <2>2, <2>5 DEF PickCommit, TableInv, HoldsRow
    <3>2. outcome[cur[w]] = "none"
      BY <3>1 DEF TableInv, OutcomesAreOfProcessed
    <3>3. processed' = processed \cup {cur[w]} /\ UNCHANGED <<personal, outcome>>
      BY <2>5 DEF PickCommit
    <3> QED
      BY <2>3, <3>2, <3>3 DEF Applied
  <2>6. ASSUME NEW w \in Loops, Finish(w, "failed"), UNCHANGED personal PROVE Erased'
    <3>1. outcome[cur[w]] = "none"
      BY <2>6 DEF Finish, TableInv, HoldsRow
    <3>2. outcome' = [outcome EXCEPT ![cur[w]] = "failed"] /\ UNCHANGED processed
      BY <2>6 DEF Finish
    <3>3. \A r \in Requests : Applied(r)' <=> Applied(r)
      BY <3>1, <3>2 DEF Applied, TableInv, Types
    <3> QED
      BY <2>3, <2>6, <3>3
  <2>7. ASSUME NEW w \in Loops, Finish(w, "applied"), Work(w) PROVE Erased'
    <3> DEFINE r == cur[w]
               e == EventOf[r]
    <3>1. r \in Requests /\ r \in processed /\ outcome[r] = "none"
      BY <2>2, <2>7 DEF Finish, TableInv, HoldsRow
    <3>2. \A q \in Requests : Applied(q)' <=> Applied(q) \/ q = r
      BY <2>7, <3>1 DEF Finish, Applied, TableInv, Types
    <3>3. personal' = IF Topic[e] = "customers/redact" /\ Kind[w] = "gdpr"
                      THEN personal \ Subject[e] ELSE personal
      BY <2>7 DEF Work
    <3>4. Topic[e] = "customers/redact" /\ Source[e] = "shopify"
            <=> Topic[e] = "customers/redact" /\ Kind[w] = "gdpr"
      <4>1. pc[w] # "idle"
        BY <2>7 DEF Work
      <4> QED
        BY <4>1 DEF OwnKind, WhatsApp, GdprTopics
    <3>5. \A c \in Customers : c \in personal' <=> c \in personal /\ ~Names(r, c)
      BY <3>3, <3>4 DEF Names
    <3>6. \A c \in Customers :
            (\E q \in Requests : Applied(q)' /\ Names(q, c)')
              <=> (\E q \in Requests : Applied(q) /\ Names(q, c)) \/ Names(r, c)
      BY <3>1, <3>2 DEF Names
    <3>7. personal' \subseteq Customers
      BY <3>3
    <3> HIDE DEF r, e
    <3> QED
      BY <3>5, <3>6, <3>7
  <2> QED
    BY <2>1, <2>3, <2>4, <2>5, <2>6, <2>7
       DEF TableStep, Replies, Commit, PickLock, Abandon, ToMarking, table, loops
<1>3. TableInv /\ Erased => ErasedIffRedacted
  BY ErasedByApplied
<1> QED
  BY <1>1, <1>2, <1>3, TableInvHolds, OwnKindHolds, PTL DEF Spec
=============================================================================

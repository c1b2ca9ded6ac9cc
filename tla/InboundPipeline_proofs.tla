------------------------ MODULE InboundPipeline_proofs ------------------------
(***************************************************************************)
(* The inbound pipeline, for any number of workers, deliveries and         *)
(* conversations and for every set of faults.                              *)
(*                                                                         *)
(* Types: what the FSM step and the tool handlers return, for every state  *)
(* and every response of the LLM, however long (TurnEffects), and from it  *)
(* TypeOK.  It is not inductive: that a worker inside a turn is at a       *)
(* message of its delivery and has read a conversation depends on where it *)
(* is, so TypeInv says so.                                                 *)
(*                                                                         *)
(* The queue: QueueInv, of which OneHolder is a part, is inductive;        *)
(* OneHolder alone does not say that an idle worker holds nothing and that *)
(* only stored deliveries are processed.  From it follows the refinement   *)
(* of AtMostOnceQueue.  Both only depend on what a step does to the queue, *)
(* so StepIsQueueStep first reduces the actions to six kinds.              *)
(*                                                                         *)
(* The conversations row across concurrent turns and operators:            *)
(* TerminalImpliesClosed is about committed rows only; ConvInv adds what   *)
(* the uncommitted versions must satisfy for a commit to preserve it: a    *)
(* staged row in a terminal state is closed, it takes nothing back that    *)
(* the committed row has, and the row lock leaves one transaction at most  *)
(* with a version of a row.                                                *)
(*                                                                         *)
(* The turns: every invariant about stored turns is strengthened the same  *)
(* way, by what a transaction has staged (tx) and by what a turn has read  *)
(* and carries over the LLM and provider calls (read).  StepIsTurnStep     *)
(* reduces the actions to eight kinds, so that each proof has one step for *)
(* the start of a turn, its handlers, its write and the commit, and one    *)
(* for everything that leaves turns alone or throws them away.             *)
(*                                                                         *)
(* One conversation: the refinement of Conversation needs to know what an  *)
(* open transaction will do to the watched row, order, customer and        *)
(* tickets when it commits.  ViewInv says it: nothing, or exactly one turn *)
(* by some response; and for a turn under way, how much of it is written.  *)
(* The theorems of Conversation_proofs then hold of each conversation of   *)
(* the pipeline (PipelineDecidesAfterRecap, PipelineEndsInClosing).        *)
(***************************************************************************)
EXTENDS InboundConversation, FiniteSetTheorems, WellFoundedInduction, TLAPS

-----------------------------------------------------------------------------
(* Turns.                                                                  *)

\* m < n, as the relation the well-foundedness theorem is about.
Below == OpToRel(<, Nat)

LEMMA SomeMinimum ==
  ASSUME NEW I \in SUBSET Nat, I # {}
  PROVE  \E i \in I : \A j \in I : i <= j
<1>1. PICK i \in I : \A j \in I : ~ (<<j, i>> \in Below)
  BY NatLessThanWellFounded, WFMin DEF Below
<1>2. \A j \in I : ~ (j < i)
  BY <1>1 DEF Below, OpToRel
<1> QED
  BY <1>2

LEMMA FirstIsMember ==
  ASSUME NEW I \in SUBSET Nat, I # {}
  PROVE  First(I) \in I
BY SomeMinimum DEF First

LEMMA LastIsMember ==
  ASSUME NEW n \in Nat, NEW I \in SUBSET (1 .. n), I # {}
  PROVE  Last(I) \in I
<1> DEFINE J == {m \in Nat : n - m \in I}
<1>1. J \in SUBSET Nat /\ \A i \in I : n - i \in J
  OBVIOUS
<1>2. PICK k \in J : \A j \in J : k <= j
  BY <1>1, SomeMinimum
<1>3. PICK i \in I : i = n - k
  BY <1>2
<1>4. ASSUME NEW j \in I PROVE j <= i
  <2>1. k <= n - j
    BY <1>1, <1>2
  <2>2. n \in Nat /\ k \in Nat /\ j \in Nat
    OBVIOUS
  <2> QED
    BY <1>3, <2>1, <2>2
<1> QED
  BY <1>4 DEF Last

-----------------------------------------------------------------------------
LEMMA UsesArePositions ==
  ASSUME NEW s \in States, NEW calls \in Seq(CallNames), NEW T
  PROVE  /\ Uses(s, calls, T) \in SUBSET (1 .. Len(calls))
         /\ \A i \in Uses(s, calls, T) : calls[i] \in T
BY DEF Uses

(* The FSM only ever moves to a state of the registry, so that the row it    *)
(* writes can be read back (FSMDriver.step).                                 *)
LEMMA NextStateIsState ==
  ASSUME NEW s \in States, NEW calls \in Seq(CallNames)
  PROVE  NextState(s, calls) \in States
<1>1. CASE s \in Terminal
  BY <1>1 DEF NextState
<1>2. CASE s \notin Terminal /\ calls = <<>>
  <2>1. DefaultNext[s] \in States
    BY DEF DefaultNext, States, Terminal
  <2> QED
    BY <1>2, <2>1 DEF NextState
<1>3. CASE s \notin Terminal /\ calls # <<>> /\ Moves(s, calls) = {}
  BY <1>3 DEF NextState
<1>4. CASE s \notin Terminal /\ calls # <<>> /\ Moves(s, calls) # {}
  <2>1. Moves(s, calls) \in SUBSET Nat
    BY UsesArePositions DEF Moves
  <2>2. First(Moves(s, calls)) \in Moves(s, calls)
    BY <1>4, <2>1, FirstIsMember
  <2>3. \E n \in States : <<s, calls[First(Moves(s, calls))], n>> \in ToolEdges
    BY <2>2 DEF Moves
  <2>4. (CHOOSE n \in States : <<s, calls[First(Moves(s, calls))], n>> \in ToolEdges) \in States
    BY <2>3
  <2> QED
    BY <1>4, <2>4 DEF NextState
<1> QED
  BY <1>1, <1>2, <1>3, <1>4

(* A turn's outcome is one the conversations table admits, or none.          *)
LEMMA TurnOutcomeIsOutcome ==
  ASSUME NEW s \in States, NEW calls \in Seq(CallNames)
  PROVE  TurnOutcome(s, calls) \in Outcomes \cup {None}
<1> DEFINE U == Uses(s, calls, Effectful)
<1>1. CASE U = {}
  BY <1>1 DEF TurnOutcome
<1>2. CASE U # {}
  <2>1. First(U) \in U
    BY <1>2, UsesArePositions, FirstIsMember
  <2>2. calls[First(U)] \in Effectful
    BY <2>1, UsesArePositions
  <2>3. \A t \in Effectful : OutcomeOfTool[t] \in Outcomes
    BY DEF OutcomeOfTool, StatusSetBy, Effectful, Tools, Outcomes
  <2> QED
    BY <1>2, <2>2, <2>3 DEF TurnOutcome
<1> QED
  BY <1>1, <1>2

(* The handlers leave an order in a status the orders table admits.          *)
LEMMA StatusAfterIsStatus ==
  ASSUME NEW st \in OrderStatuses, NEW s \in States, NEW calls \in Seq(CallNames)
  PROVE  StatusAfter(st, s, calls) \in OrderStatuses
<1> DEFINE U == Uses(s, calls, Effectful)
<1>1. CASE U = {}
  BY <1>1 DEF StatusAfter
<1>2. CASE U # {}
  <2>1. U \in SUBSET (1 .. Len(calls)) /\ Len(calls) \in Nat
    BY UsesArePositions
  <2>2. Last(U) \in U
    BY <1>2, <2>1, LastIsMember
  <2>3. calls[Last(U)] \in Effectful
    BY <2>2, UsesArePositions
  <2>4. \A t \in Effectful : StatusSetBy[t] \in OrderStatuses
    BY DEF StatusSetBy, Effectful, Tools, OrderStatuses, Decisions
  <2> QED
    BY <1>2, <2>3, <2>4 DEF StatusAfter
<1> QED
  BY <1>1, <1>2

LEMMA WrongNumberCountIsNat ==
  ASSUME NEW s \in States, NEW calls \in Seq(CallNames)
  PROVE  WrongNumberCount(s, calls) \in Nat
<1> DEFINE U == Uses(s, calls, {"flag_wrong_number"})
<1>1. U \in SUBSET (1 .. Len(calls)) /\ Len(calls) \in Nat
  BY UsesArePositions
<1>2. IsFiniteSet(1 .. Len(calls))
  BY <1>1, FS_Interval
<1>3. IsFiniteSet(U)
  BY <1>1, <1>2, FS_Subset
<1> QED
  BY <1>3, FS_CardinalityType DEF WrongNumberCount

(* The fallbacks of the engine: an unknown state is taken for the greeting. *)
LEMMA ResolveIsState == \A s : Resolve(s) \in States
BY DEF Resolve, States, Terminal

-----------------------------------------------------------------------------
(* Workers and transactions.                                               *)

\* The worker is at a message and has read a conversation for it.
InTurn == {"llm", "tools", "send", "write"}

Placed(w) ==
  /\ pc[w] # "idle" => cur[w] \in Events
  /\ pc[w] = "message" => pos[w] # 0
  /\ pc[w] \in InTurn => /\ pos[w] \in DOMAIN Payload[cur[w]]
                         /\ read[w].conv \in Convs

TypeInv == TypeOK /\ \A w \in Workers : Placed(w)

-----------------------------------------------------------------------------
(* Rows of a transaction.                                                  *)

LEMMA PutIsUpdate ==
  ASSUME NEW f, NEW R, NEW V, IsUpdate(f, R, V), NEW x \in R, NEW y \in V
  PROVE  IsUpdate(Put(f, x, y), R, V)
BY DEF IsUpdate, Put

LEMMA NoWritesIsTx == IsTx(NoWrites)
BY DEF IsTx, NoWrites, IsUpdate

LEMMA RowsReplaced ==
  ASSUME NEW t, IsTx(t), NEW x, x \subseteq Convs \X Messages \X Directions
  PROVE  IsTx([t EXCEPT !.rows = x])
<1>1. t = [conv |-> t.conv, status |-> t.status, fakes |-> t.fakes,
           tickets |-> t.tickets, rows |-> t.rows]
  BY DEF IsTx
<1>2. PICK u : u = [conv |-> t.conv, status |-> t.status, fakes |-> t.fakes,
                    tickets |-> t.tickets, rows |-> x]
  OBVIOUS
<1>3. [t EXCEPT !.rows = x] = u
  BY <1>1, <1>2
<1>4. IsTx(u)
  BY <1>2 DEF IsTx
<1> QED
  BY <1>3, <1>4

LEMMA RowAdded ==
  ASSUME NEW t, IsTx(t), NEW c \in Convs, NEW m \in Messages, NEW d \in Directions
  PROVE  IsTx([t EXCEPT !.rows = @ \cup {<<c, m, d>>}])
<1>1. t.rows \cup {<<c, m, d>>} \subseteq Convs \X Messages \X Directions
  BY DEF IsTx
<1> QED
  BY <1>1, RowsReplaced

LEMMA UpdatesReplaced ==
  ASSUME NEW t, IsTx(t),
         NEW a, IsUpdate(a, Orders, OrderStatuses),
         NEW b, IsUpdate(b, Customers, Nat),
         NEW c, c \subseteq Convs \X Messages \X Nat
  PROVE  IsTx([t EXCEPT !.status = a, !.fakes = b, !.tickets = c])
<1>1. t = [conv |-> t.conv, status |-> t.status, fakes |-> t.fakes,
           tickets |-> t.tickets, rows |-> t.rows]
  BY DEF IsTx
<1>2. PICK u : u = [conv |-> t.conv, status |-> a, fakes |-> b, tickets |-> c, rows |-> t.rows]
  OBVIOUS
<1>3. [t EXCEPT !.status = a, !.fakes = b, !.tickets = c] = u
  <2>1. PICK t1 : t1 = [t EXCEPT !.status = a]
    OBVIOUS
  <2>2. t1 = [conv |-> t.conv, status |-> a, fakes |-> t.fakes,
              tickets |-> t.tickets, rows |-> t.rows]
    BY <1>1, <2>1
  <2>3. PICK t2 : t2 = [t1 EXCEPT !.fakes = b]
    OBVIOUS
  <2>4. t2 = [conv |-> t.conv, status |-> a, fakes |-> b, tickets |-> t.tickets, rows |-> t.rows]
    BY <2>2, <2>3
  <2>5. [t2 EXCEPT !.tickets = c] = u
    BY <1>2, <2>4
  <2>6. [t EXCEPT !.status = a, !.fakes = b, !.tickets = c] = [t2 EXCEPT !.tickets = c]
    BY <2>1, <2>3
  <2> QED
    BY <2>5, <2>6
<1>4. IsTx(u)
  BY <1>2 DEF IsTx
<1> QED
  BY <1>3, <1>4

LEMMA ConvReplaced ==
  ASSUME NEW t, IsTx(t),
         NEW a, IsUpdate(a, Convs, ConvRow),
         NEW b, b \subseteq Convs \X Messages \X Directions
  PROVE  IsTx([t EXCEPT !.conv = a, !.rows = b])
<1>1. t = [conv |-> t.conv, status |-> t.status, fakes |-> t.fakes,
           tickets |-> t.tickets, rows |-> t.rows]
  BY DEF IsTx
<1>2. PICK u : u = [conv |-> a, status |-> t.status, fakes |-> t.fakes,
                    tickets |-> t.tickets, rows |-> b]
  OBVIOUS
<1>3. [t EXCEPT !.conv = a, !.rows = b] = u
  <2>1. PICK t1 : t1 = [t EXCEPT !.conv = a]
    OBVIOUS
  <2>2. t1 = [conv |-> a, status |-> t.status, fakes |-> t.fakes,
              tickets |-> t.tickets, rows |-> t.rows]
    BY <1>1, <2>1
  <2>3. [t1 EXCEPT !.rows = b] = u
    BY <1>2, <2>2
  <2>4. [t EXCEPT !.conv = a, !.rows = b] = [t1 EXCEPT !.rows = b]
    BY <2>1
  <2> QED
    BY <2>3, <2>4
<1>4. IsTx(u)
  BY <1>2 DEF IsTx
<1> QED
  BY <1>3, <1>4

\* One worker's transaction is replaced.
LEMMA TxReplaced ==
  ASSUME tx = [v \in Workers |-> tx[v]], \A v \in Workers : IsTx(tx[v]),
         NEW w \in Workers, NEW t, IsTx(t), tx' = [tx EXCEPT ![w] = t]
  PROVE  tx' = [v \in Workers |-> tx'[v]] /\ \A v \in Workers : IsTx(tx'[v])
<1>1. \A v \in Workers : tx'[v] = IF v = w THEN t ELSE tx[v]
  OBVIOUS
<1>2. tx' = [v \in Workers |-> tx'[v]]
  OBVIOUS
<1> QED
  BY <1>1, <1>2

LEMMA MsgIsMessage ==
  ASSUME TypeInv, NEW w \in Workers, pc[w] # "idle", pos[w] \in DOMAIN Payload[cur[w]]
  PROVE  Msg(w) \in Messages
BY PipelineAssumption DEF TypeInv, Placed, Msg

LEMMA SeenTypes ==
  ASSUME TypeOK, NEW w \in Workers
  PROVE  /\ \A c \in Convs : ConvSeen(w, c) \in ConvRow
         /\ \A o \in Orders : StatusSeen(w, o) \in OrderStatuses
         /\ \A k \in Customers : FakesSeen(w, k) \in Nat
BY DEF TypeOK, IsTx, IsUpdate, ConvSeen, StatusSeen, FakesSeen

-----------------------------------------------------------------------------
LEMMA TypeInvInit == Init => TypeInv
<1> SUFFICES ASSUME Init PROVE TypeInv
  OBVIOUS
<1>1. NoRead \in [conv : Convs \cup {Nobody}, state : States,
                  hist : Seq([msg : Messages, from : States, to : States])]
  BY DEF NoRead, States
<1>2. NoPlan \in [calls : Seq(CallNames), text : BOOLEAN]
  BY DEF NoPlan
<1>3. conv \in [Convs -> ConvRow]
  <2>1. ASSUME NEW s \in StartStates
        PROVE  [state |-> s, hist |-> <<>>, outcome |-> None, closed |-> FALSE] \in ConvRow
    BY PipelineAssumption DEF ConvRow
  <2> QED
    BY <2>1 DEF Init
<1>4. status \in [Orders -> OrderStatuses]
  BY DEF Init, OrderStatuses
<1>5. tx = [w \in Workers |-> tx[w]] /\ \A w \in Workers : IsTx(tx[w])
  BY NoWritesIsTx DEF Init
<1>6. TypeOK
  BY <1>1, <1>2, <1>3, <1>4, <1>5 DEF Init, TypeOK, PCs
<1>7. \A w \in Workers : Placed(w)
  BY DEF Init, Placed, InTurn
<1> QED
  BY <1>6, <1>7 DEF TypeInv

ReadType == [conv : Convs \cup {Nobody}, state : States,
             hist : Seq([msg : Messages, from : States, to : States])]

LEMMA EndTxTypes ==
  ASSUME TypeOK, NEW w \in Workers, EndTx(w)
  PROVE  /\ pos' \in [Workers -> Nat]
         /\ read' \in [Workers -> ReadType]
         /\ plan' \in [Workers -> [calls : Seq(CallNames), text : BOOLEAN]]
         /\ tx' = [v \in Workers |-> tx'[v]] /\ \A v \in Workers : IsTx(tx'[v])
<1>1. NoRead \in ReadType
  BY DEF NoRead, States, ReadType
<1>2. NoPlan \in [calls : Seq(CallNames), text : BOOLEAN]
  BY DEF NoPlan
<1>3. tx' = [v \in Workers |-> tx'[v]] /\ \A v \in Workers : IsTx(tx'[v])
  BY NoWritesIsTx, TxReplaced DEF TypeOK, EndTx
<1>4. read' \in [Workers -> ReadType]
  BY <1>1 DEF TypeOK, EndTx, ReadType
<1> QED
  BY <1>2, <1>3, <1>4 DEF TypeOK, EndTx

\* The steps that change no row of a table and no transaction.
LEMMA TypeInvPick ==
  ASSUME TypeInv, NEW w \in Workers,
         PickLock(w) \/ PickCommit(w) \/ Drop(w) \/ Start(w) \/ Skip(w)
           \/ MarkError(w) \/ MarkErrorFails(w)
  PROVE  TypeInv'
<1> USE DEF TypeInv, Placed, TypeOK, Goto, Release, queue, db, local
<1>1. CASE PickLock(w)
  <2>1. PICK i \in DOMAIN received : cur' = [cur EXCEPT ![w] = received[i]]
    BY <1>1 DEF PickLock
  <2>2. received[i] \in Events
    OBVIOUS
  <2> QED
    BY <1>1, <2>1, <2>2 DEF PickLock, PCs, Holding, InTx, InTurn
<1>2. CASE PickCommit(w)
  BY <1>2 DEF PickCommit, PCs, Holding, InTx, InTurn
<1>3. CASE Drop(w)
  BY <1>3 DEF Drop, PCs, Holding, InTx, InTurn
<1>4. CASE Start(w)
  <2>1. pos' = [pos EXCEPT ![w] = 1] /\ pc' = [pc EXCEPT ![w] = "message"] /\ pc[w] = "start"
    BY <1>4 DEF Start
  <2>2. UNCHANGED <<received, processed, errored, conv, status, fakes, tickets, rows,
                    cur, read, plan, tx, sent, done, crashes>>
    BY <1>4 DEF Start
  <2>3. TypeOK'
    <3>1. pos' \in [Workers -> Nat] /\ pc' \in [Workers -> PCs]
      BY <2>1 DEF PCs, Holding, InTx
    <3>2. tx' = [v \in Workers |-> tx'[v]] /\ \A v \in Workers : IsTx(tx'[v])
      BY <2>2
    <3> QED
      BY <2>2, <3>1, <3>2
  <2>4. \A v \in Workers : Placed(v)'
    BY <2>1, <2>2 DEF InTurn
  <2> QED
    BY <2>3, <2>4
<1>5. CASE Skip(w)
  <2>1. pc[w] = "message" /\ pos' = [pos EXCEPT ![w] = @ + 1]
    BY <1>5 DEF Skip, AtMessage
  <2>2. UNCHANGED <<received, processed, errored, conv, status, fakes, tickets, rows,
                    pc, cur, read, plan, tx, sent, done, crashes>>
    BY <1>5 DEF Skip
  <2>3. TypeOK'
    <3>1. pos' \in [Workers -> Nat]
      BY <2>1
    <3>2. tx' = [v \in Workers |-> tx'[v]] /\ \A v \in Workers : IsTx(tx'[v])
      BY <2>2
    <3> QED
      BY <2>2, <3>1, <3>2
  <2>4. \A v \in Workers : Placed(v)'
    BY <2>1, <2>2 DEF InTurn
  <2> QED
    BY <2>3, <2>4
<1>6. CASE MarkError(w) \/ MarkErrorFails(w)
  BY <1>6 DEF MarkError, MarkErrorFails, PCs, Holding, InTx, InTurn
<1> QED
  BY <1>1, <1>2, <1>3, <1>4, <1>5, <1>6

\* The steps that end a transaction.
LEMMA TypeInvEnd ==
  ASSUME TypeInv, NEW w \in Workers, EndTx(w),
         UNCHANGED <<received, processed, errored>>,
         conv' \in [Convs -> ConvRow],
         status' \in [Orders -> OrderStatuses],
         fakes' \in [Customers -> Nat],
         tickets' \subseteq Convs \X Messages \X Nat,
         rows' \subseteq Convs \X Messages \X Directions,
         sent' \subseteq Convs \X Messages,
         done' \subseteq Events,
         crashes' \in Nat,
         \/ pc[w] # "idle" /\ pc' = [pc EXCEPT ![w] = "failing"] /\ cur' = cur
         \/ pc' = [pc EXCEPT ![w] = "idle"] /\ cur' = [cur EXCEPT ![w] = Nobody]
  PROVE  TypeInv'
<1>1. TypeOK
  BY DEF TypeInv
<1>2. /\ pc' \in [Workers -> PCs]
      /\ cur' \in [Workers -> Events \cup {Nobody}]
  BY <1>1 DEF TypeOK, PCs, Holding
<1>3. TypeOK'
  BY <1>1, <1>2, EndTxTypes DEF TypeOK, ReadType
<1>4. \A v \in Workers \ {w} : pos'[v] = pos[v] /\ read'[v] = read[v]
  BY <1>1 DEF EndTx, TypeOK
<1>5. \A v \in Workers : Placed(v)'
  BY <1>1, <1>4 DEF TypeInv, Placed, TypeOK, InTurn
<1> QED
  BY <1>3, <1>5 DEF TypeInv

LEMMA TypeInvAbort ==
  ASSUME TypeInv, NEW w \in Workers,
         RejectContent(w) \/ Fail(w) \/ ReplyFails(w) \/ DeadlockAbort(w) \/ Crash(w)
  PROVE  TypeInv'
<1> USE DEF Goto, Release, queue, db
<1>1. TypeOK
  BY DEF TypeInv
<1>2. CASE RejectContent(w) \/ Fail(w) \/ DeadlockAbort(w)
  <2>1. pc[w] # "idle"
    BY <1>2 DEF RejectContent, AtMessage, Fail, DeadlockAbort, InTx, Deadlocked, WaitsFor
  <2>2. /\ EndTx(w) /\ pc' = [pc EXCEPT ![w] = "failing"] 
        /\ UNCHANGED <<received, processed, errored, conv, status, fakes, tickets, rows,
                       cur, sent, done, crashes>>
    BY <1>2 DEF RejectContent, Fail, DeadlockAbort
  <2> QED
    BY <1>1, <2>1, <2>2, TypeInvEnd DEF TypeOK
<1>3. CASE ReplyFails(w)
  <2>1. read[w].conv \in Convs /\ Msg(w) \in Messages
    BY <1>3, MsgIsMessage DEF ReplyFails, TypeInv, Placed, InTurn
  <2>2. sent' \subseteq Convs \X Messages
    BY <1>1, <1>3, <2>1 DEF ReplyFails, TypeOK
  <2> QED
    BY <1>1, <1>3, <2>2, TypeInvEnd DEF ReplyFails, TypeOK
<1>4. CASE Crash(w)
  <2>1. crashes' \in Nat
    BY <1>1, <1>4 DEF Crash, TypeOK
  <2> QED
    BY <1>1, <1>4, <2>1, TypeInvEnd DEF Crash, TypeOK
<1> QED
  BY <1>2, <1>3, <1>4

LEMMA TypeInvCommit ==
  ASSUME TypeInv, NEW w \in Workers, Commit(w)
  PROVE  TypeInv'
<1>1. TypeOK
  BY DEF TypeInv
<1>2. /\ conv' \in [Convs -> ConvRow]
      /\ status' \in [Orders -> OrderStatuses]
      /\ fakes' \in [Customers -> Nat]
  BY <1>1, SeenTypes DEF Commit
<1>3. IsTx(tx[w]) /\ cur[w] \in Events
  BY <1>1 DEF TypeOK, TypeInv, Placed, Commit
<1>4. /\ tickets' \subseteq Convs \X Messages \X Nat
      /\ rows' \subseteq Convs \X Messages \X Directions
      /\ done' \subseteq Events
  BY <1>1, <1>3 DEF Commit, TypeOK, IsTx
<1> QED
  BY <1>1, <1>2, <1>4, TypeInvEnd DEF Commit, TypeOK, Goto, Release, queue

\* The steps of a turn.  Each replaces the worker's transaction or keeps it.
LEMMA TypeInvRead ==
  ASSUME TypeInv, NEW w \in Workers, ReadConversation(w)
  PROVE  TypeInv'
<1>1. TypeOK /\ pc[w] = "message" /\ pos[w] \in DOMAIN Payload[cur[w]] /\ cur[w] \in Events
  <2>1. TypeOK /\ pc[w] = "message" /\ pos[w] <= Len(Payload[cur[w]])
    BY DEF TypeInv, ReadConversation, AtMessage
  <2>2. cur[w] \in Events /\ pos[w] # 0 /\ pos[w] \in Nat
    BY <2>1 DEF TypeInv, Placed, TypeOK
  <2>3. Payload[cur[w]] \in Seq(Messages)
    BY <2>2, PipelineAssumption
  <2> QED
    BY <2>1, <2>2, <2>3
<1>2. PICK c \in Convs :
        /\ read' = [read EXCEPT ![w] = [conv  |-> c, state |-> ConvSeen(w, c).state,
                                        hist  |-> ConvSeen(w, c).hist]]
        /\ tx' = [tx EXCEPT ![w].rows = @ \cup {<<c, Msg(w), "inbound">>}]
  BY DEF ReadConversation, Latest, OpenConvs
<1>3. Msg(w) \in Messages
  BY <1>1, MsgIsMessage
<1>4. read' \in [Workers -> ReadType]
  <2>1. ConvSeen(w, c) \in ConvRow
    BY <1>1, SeenTypes
  <2>2. [conv  |-> c, state |-> ConvSeen(w, c).state, hist  |-> ConvSeen(w, c).hist] \in ReadType
    BY <2>1 DEF ReadType, ConvRow
  <2> QED
    BY <1>1, <1>2, <2>2 DEF TypeOK, ReadType
<1>5. tx' = [v \in Workers |-> tx'[v]] /\ \A v \in Workers : IsTx(tx'[v])
  <2> DEFINE t == [tx[w] EXCEPT !.rows = @ \cup {<<c, Msg(w), "inbound">>}]
  <2>1. IsTx(t)
    BY <1>1, <1>3, RowAdded DEF TypeOK, Directions
  <2>2. tx' = [tx EXCEPT ![w] = t]
    BY <1>2
  <2> QED
    BY <1>1, <2>1, <2>2, TxReplaced DEF TypeOK
<1>6. TypeOK'
  <2>1. UNCHANGED <<received, processed, errored, conv, status, fakes, tickets, rows,
                    cur, pos, plan, sent, done, crashes>> /\ pc' = [pc EXCEPT ![w] = "llm"]
    BY DEF ReadConversation, Goto, queue, db
  <2>2. pc' \in [Workers -> PCs]
    BY <1>1, <2>1 DEF TypeOK, PCs, Holding, InTx
  <2> QED
    BY <1>1, <1>4, <1>5, <2>1, <2>2 DEF TypeOK, ReadType
<1>7. \A v \in Workers : Placed(v)'
  <2>1. pc' = [pc EXCEPT ![w] = "llm"] /\ pos' = pos /\ cur' = cur
    BY DEF ReadConversation, Goto
  <2>2. read'[w].conv = c /\ \A v \in Workers \ {w} : read'[v] = read[v]
    BY <1>1, <1>2 DEF TypeOK
  <2> QED
    BY <1>1, <2>1, <2>2 DEF TypeInv, Placed, TypeOK, InTurn
<1> QED
  BY <1>6, <1>7 DEF TypeInv

LEMMA TypeInvStep ==
  ASSUME TypeInv, NEW w \in Workers, Step(w) \/ Reply(w)
  PROVE  TypeInv'
<1>1. TypeOK
  BY DEF TypeInv
<1>2. CASE Step(w)
  <2>1. NoPlan \in [calls : Seq(CallNames), text : BOOLEAN]
    BY DEF NoPlan
  <2>2. PICK r \in [calls : Seq(CallNames), text : BOOLEAN] :
          /\ plan' = [plan EXCEPT ![w] = r]
          /\ \E p \in {"tools", "send", "write"} : pc' = [pc EXCEPT ![w] = p]
    <3>1. PICK r \in IF From(w) \in Terminal THEN {NoPlan} ELSE Responses :
            /\ plan' = [plan EXCEPT ![w] = r]
            /\ Goto(w, CASE Uses(From(w), r.calls, Effectful) # {} -> "tools"
                         [] Uses(From(w), r.calls, Effectful) = {} /\ r.text -> "send"
                         [] OTHER -> "write")
      BY <1>2 DEF Step
    <3>2. r \in [calls : Seq(CallNames), text : BOOLEAN]
      BY <2>1, PipelineAssumption
    <3> QED
      BY <3>1, <3>2 DEF Goto
  <2>3. plan' \in [Workers -> [calls : Seq(CallNames), text : BOOLEAN]]
    BY <1>1, <2>2 DEF TypeOK
  <2>4. UNCHANGED <<received, processed, errored, conv, status, fakes, tickets, rows,
                    cur, pos, read, tx, sent, done, crashes>> /\ pc[w] = "llm"
    BY <1>2 DEF Step, queue, db
  <2>5. pc' \in [Workers -> PCs]
    BY <1>1, <2>2 DEF TypeOK, PCs, Holding, InTx
  <2>6. TypeOK'
    BY <1>1, <2>3, <2>4, <2>5 DEF TypeOK
  <2>7. \A v \in Workers : Placed(v)'
    BY <1>1, <2>2, <2>4 DEF TypeInv, TypeOK, Placed, InTurn
  <2> QED
    BY <2>6, <2>7 DEF TypeInv
<1>3. CASE Reply(w)
  <2>1. read[w].conv \in Convs /\ Msg(w) \in Messages
    BY <1>3, MsgIsMessage DEF Reply, TypeInv, Placed, InTurn
  <2>2. UNCHANGED <<received, processed, errored, conv, status, fakes, tickets, rows,
                    cur, pos, read, plan, tx, done, crashes>>
        /\ pc[w] = "send" /\ pc' = [pc EXCEPT ![w] = "write"]
    BY <1>3 DEF Reply, queue, db, local, Goto
  <2>3. sent' \subseteq Convs \X Messages
    BY <1>1, <1>3, <2>1 DEF Reply, TypeOK
  <2>4. TypeOK'
    BY <1>1, <2>2, <2>3 DEF TypeOK, PCs, Holding, InTx
  <2>5. \A v \in Workers : Placed(v)'
    BY <1>1, <2>2 DEF TypeInv, TypeOK, Placed, InTurn
  <2> QED
    BY <2>4, <2>5 DEF TypeInv
<1> QED
  BY <1>2, <1>3

LEMMA TypeInvHandlers ==
  ASSUME TypeInv, NEW w \in Workers, Handlers(w)
  PROVE  TypeInv'
<1>1. TypeOK /\ pc[w] = "tools" /\ read[w].conv \in Convs /\ Msg(w) \in Messages
  BY MsgIsMessage DEF TypeInv, Placed, Handlers, InTurn
<1>2. /\ From(w) \in States
      /\ plan[w].calls \in Seq(CallNames)
      /\ IsTx(tx[w])
  BY <1>1, ResolveIsState DEF From, TypeOK
<1>3. PICK c \in Convs, o \in Orders, k \in Customers :
        c = read[w].conv /\ o = OrderOf[c] /\ k = CustomerOf[c]
  BY <1>1, PipelineAssumption
<1>4. PICK calls : calls = plan[w].calls
  OBVIOUS
<1>5. PICK A : A = Put(tx[w].status, OrderOf[read[w].conv],
                       StatusAfter(StatusSeen(w, OrderOf[read[w].conv]), From(w), plan[w].calls))
  OBVIOUS
<1>6. PICK B : B = IF CountsFake(w)
                   THEN Put(tx[w].fakes, CustomerOf[read[w].conv],
                            FakesSeen(w, CustomerOf[read[w].conv])
                              + WrongNumberCount(From(w), plan[w].calls))
                   ELSE tx[w].fakes
  OBVIOUS
<1>7. PICK C : C = tx[w].tickets
                     \cup {<<read[w].conv, Msg(w), i>> : i \in TicketCalls(From(w), plan[w].calls)}
  OBVIOUS
<1>8. tx' = [tx EXCEPT ![w] = [tx[w] EXCEPT !.status = A, !.fakes = B, !.tickets = C]]
  BY <1>5, <1>6, <1>7 DEF Handlers
<1>9. IsUpdate(A, Orders, OrderStatuses)
  <2>1. StatusAfter(StatusSeen(w, o), From(w), calls) \in OrderStatuses
    BY <1>1, <1>2, <1>4, SeenTypes, StatusAfterIsStatus
  <2> QED
    BY <1>2, <1>3, <1>4, <1>5, <2>1, PutIsUpdate DEF IsTx
<1>10. IsUpdate(B, Customers, Nat)
  <2>1. FakesSeen(w, k) \in Nat /\ WrongNumberCount(From(w), calls) \in Nat
    BY <1>1, <1>2, <1>4, SeenTypes, WrongNumberCountIsNat
  <2> QED
    BY <1>2, <1>3, <1>4, <1>6, <2>1, PutIsUpdate DEF IsTx
<1>11. C \subseteq Convs \X Messages \X Nat
  <2>1. TicketCalls(From(w), calls) \subseteq Nat
    BY <1>2, <1>4, UsesArePositions DEF TicketCalls
  <2> QED
    BY <1>1, <1>2, <1>4, <1>7, <2>1 DEF IsTx
<1>12. IsTx([tx[w] EXCEPT !.status = A, !.fakes = B, !.tickets = C])
  BY <1>2, <1>9, <1>10, <1>11, UpdatesReplaced
<1>13. tx' = [v \in Workers |-> tx'[v]] /\ \A v \in Workers : IsTx(tx'[v])
  BY <1>1, <1>8, <1>12, TxReplaced DEF TypeOK
<1>14. UNCHANGED <<received, processed, errored, conv, status, fakes, tickets, rows,
                   cur, pos, read, plan, sent, done, crashes>>
  BY DEF Handlers, queue, db
<1>15. PICK p \in {"send", "write"} : pc' = [pc EXCEPT ![w] = p]
  BY DEF Handlers, Goto
<1>16. TypeOK'
  <2>1. pc' \in [Workers -> PCs]
    BY <1>1, <1>15 DEF TypeOK, PCs, Holding, InTx
  <2> QED
    BY <1>1, <1>13, <1>14, <2>1 DEF TypeOK
<1>17. \A v \in Workers : Placed(v)'
  BY <1>1, <1>14, <1>15 DEF TypeInv, Placed, TypeOK, InTurn
<1> QED
  BY <1>16, <1>17 DEF TypeInv

LEMMA TypeInvWrite ==
  ASSUME TypeInv, NEW w \in Workers, Write(w)
  PROVE  TypeInv'
<1>1. TypeOK /\ pc[w] = "write" /\ read[w].conv \in Convs /\ Msg(w) \in Messages
  BY MsgIsMessage DEF TypeInv, Placed, Write, InTurn
<1>2. /\ From(w) \in States /\ To(w) \in States
      /\ plan[w].calls \in Seq(CallNames)
      /\ IsTx(tx[w])
  BY <1>1, ResolveIsState, NextStateIsState DEF From, To, TypeOK
<1>3. PICK c \in Convs : c = read[w].conv
  BY <1>1
<1>4. TurnRow(w, ConvSeen(w, c)) \in ConvRow
  <2>1. Coalesce(TurnOutcome(From(w), plan[w].calls), ConvSeen(w, c).outcome)
          \in Outcomes \cup {None}
    BY <1>1, <1>2, SeenTypes, TurnOutcomeIsOutcome DEF Coalesce, ConvRow
  <2>2. TurnHist(w) \in Seq([msg : Messages, from : States, to : States])
    <3>1. read[w].hist \in Seq([msg : Messages, from : States, to : States])
      BY <1>1 DEF TypeOK
    <3>2. Append(read[w].hist, [msg |-> Msg(w), from |-> From(w), to |-> To(w)])
            \in Seq([msg : Messages, from : States, to : States])
      BY <1>1, <1>2, <3>1
    <3> QED
      BY <3>1, <3>2 DEF TurnHist
  <2>3. (ConvSeen(w, c).closed \/ Finished(From(w), plan[w].calls)) \in BOOLEAN
    OBVIOUS
  <2> QED
    BY <1>2, <2>1, <2>2, <2>3 DEF ConvRow, TurnRow
<1>5. PICK A : A = Put(tx[w].conv, c, TurnRow(w, ConvSeen(w, c)))
  OBVIOUS
<1>6. PICK B : B = tx[w].rows \cup {<<c, Msg(w), "outbound">>}
  OBVIOUS
<1>7. tx' = [tx EXCEPT ![w] = [tx[w] EXCEPT !.conv = A, !.rows = B]]
  BY <1>3, <1>5, <1>6 DEF Write
<1>8. IsUpdate(A, Convs, ConvRow) /\ B \subseteq Convs \X Messages \X Directions
  BY <1>1, <1>2, <1>4, <1>5, <1>6, PutIsUpdate DEF IsTx, Directions
<1>9. IsTx([tx[w] EXCEPT !.conv = A, !.rows = B])
  BY <1>2, <1>8, ConvReplaced
<1>10. tx' = [v \in Workers |-> tx'[v]] /\ \A v \in Workers : IsTx(tx'[v])
  BY <1>1, <1>7, <1>9, TxReplaced DEF TypeOK
<1>11. UNCHANGED <<received, processed, errored, conv, status, fakes, tickets, rows,
                   cur, sent, done, crashes>>
  BY DEF Write, queue, db
<1>12. /\ pc' = [pc EXCEPT ![w] = "message"]
       /\ pos' = [pos EXCEPT ![w] = @ + 1]
       /\ read' = [read EXCEPT ![w] = NoRead]
       /\ plan' = [plan EXCEPT ![w] = NoPlan]
  BY DEF Write, Goto
<1>13. TypeOK'
  <2>1. pc' \in [Workers -> PCs] /\ pos' \in [Workers -> Nat]
    BY <1>1, <1>12 DEF TypeOK, PCs, Holding, InTx
  <2>2. read' \in [Workers -> ReadType]
    <3>1. NoRead \in ReadType
      BY DEF NoRead, States, ReadType
    <3> QED
      BY <1>1, <1>12, <3>1 DEF TypeOK, ReadType
  <2>3. plan' \in [Workers -> [calls : Seq(CallNames), text : BOOLEAN]]
    <3>1. NoPlan \in [calls : Seq(CallNames), text : BOOLEAN]
      BY DEF NoPlan
    <3> QED
      BY <1>1, <1>12, <3>1 DEF TypeOK
  <2> QED
    BY <1>1, <1>10, <1>11, <2>1, <2>2, <2>3 DEF TypeOK, ReadType
<1>14. \A v \in Workers : Placed(v)'
  <2>1. pos[w] \in Nat /\ pos'[w] = pos[w] + 1 /\ pc'[w] = "message"
    BY <1>1, <1>12 DEF TypeOK
  <2>2. \A v \in Workers \ {w} : pos'[v] = pos[v] /\ read'[v] = read[v] /\ pc'[v] = pc[v]
    BY <1>1, <1>12 DEF TypeOK
  <2> QED
    BY <1>1, <1>11, <2>1, <2>2 DEF TypeInv, Placed, InTurn
<1> QED
  BY <1>13, <1>14 DEF TypeInv

LEMMA TypeInvReceive ==
  ASSUME TypeInv, NEW e \in Events, Receive(e)
  PROVE  TypeInv'
<1>1. TypeOK /\ received' = Append(received, e)
  BY DEF TypeInv, Receive
<1>2. UNCHANGED <<processed, errored, conv, status, fakes, tickets, rows, pc, cur,
                  pos, read, plan, tx, sent, done, crashes>>
  BY DEF Receive, db, local
<1>3. received' \in Seq(Events)
  BY <1>1 DEF TypeOK
<1>4. TypeOK'
  BY <1>1, <1>2, <1>3 DEF TypeOK
<1>5. \A v \in Workers : Placed(v)'
  BY <1>2 DEF TypeInv, Placed
<1> QED
  BY <1>4, <1>5 DEF TypeInv

LEMMA TypeInvClose ==
  ASSUME TypeInv, NEW c \in Convs, NEW o \in Closers, Close(c, o)
  PROVE  TypeInv'
<1>1. TypeOK
  BY DEF TypeInv
<1>2. UNCHANGED <<received, processed, errored, status, fakes, tickets, rows, pc, cur,
                  pos, read, plan, tx, sent, done, crashes>>
  BY DEF Close, queue, local
<1>3. conv' \in [Convs -> ConvRow]
  <2>1. o \in Outcomes \cup {None} /\ "closing" \in States
    BY PipelineAssumption DEF States, Terminal
  <2>2. conv' = [conv EXCEPT ![c].state = "closing", ![c].outcome = o, ![c].closed = TRUE]
    BY DEF Close
  <2>3. conv \in [Convs -> ConvRow]
    BY <1>1 DEF TypeOK
  <2> QED
    BY <2>1, <2>2, <2>3 DEF ConvRow
<1>4. TypeOK'
  BY <1>1, <1>2, <1>3 DEF TypeOK
<1>5. \A v \in Workers : Placed(v)'
  BY <1>2 DEF TypeInv, Placed
<1> QED
  BY <1>4, <1>5 DEF TypeInv

LEMMA TypeInvStutter ==
  ASSUME TypeInv, UNCHANGED vars
  PROVE  TypeInv'
<1>1. TypeOK'
  BY DEF TypeInv, TypeOK, vars
<1>2. \A v \in Workers : Placed(v)'
  BY DEF TypeInv, Placed, vars
<1> QED
  BY <1>1, <1>2 DEF TypeInv

LEMMA TypeInvNext == TypeInv /\ [Next]_vars => TypeInv'
<1> SUFFICES ASSUME TypeInv, [Next]_vars PROVE TypeInv'
  OBVIOUS
<1>1. ASSUME NEW e \in Events, Receive(e) PROVE TypeInv'
  BY <1>1, TypeInvReceive
<1>2. ASSUME NEW w \in Workers, Advance(w) PROVE TypeInv'
  BY <1>2, TypeInvPick, TypeInvRead, TypeInvStep, TypeInvHandlers, TypeInvWrite,
     TypeInvCommit, TypeInvAbort DEF Advance
<1>3. ASSUME NEW w \in Workers, Break(w) PROVE TypeInv'
  BY <1>3, TypeInvPick, TypeInvAbort DEF Break
<1>4. ASSUME NEW w \in Workers, Poll(w) PROVE TypeInv'
  BY <1>4, TypeInvStutter DEF Poll
<1>5. ASSUME NEW c \in Convs, NEW o \in Closers, Close(c, o) PROVE TypeInv'
  BY <1>5, TypeInvClose
<1>6. CASE UNCHANGED vars
  BY <1>6, TypeInvStutter
<1> QED
  BY <1>1, <1>2, <1>3, <1>4, <1>5, <1>6 DEF Next

LEMMA TypeInvHolds == Spec => []TypeInv
BY TypeInvInit, TypeInvNext, PTL DEF Spec

(* Every row a worker stages or commits is one the tables admit, and every    *)
(* worker inside a turn is at a message and holds a conversation, for any     *)
(* constants and any responses of the LLM.                                    *)
THEOREM TypeCorrect == Spec => []TypeOK
<1>1. TypeInv => TypeOK
  BY DEF TypeInv
<1> QED
  BY <1>1, TypeInvHolds, PTL

-----------------------------------------------------------------------------
(* What the actions do to the queue.                                       *)

QueueInv ==
  /\ received \in Seq(Events)
  /\ processed \subseteq Stored
  /\ done \cup errored \subseteq processed
  /\ pc \in [Workers -> PCs]
  /\ cur \in [Workers -> Events \cup {Nobody}]
  /\ \A w \in Workers : pc[w] = "idle" => cur[w] = Nobody
  /\ OneHolder

\* A step of a handler, within its transaction or into it or out of it.
Inner(w) ==
  /\ pc[w] \in Holding
  /\ \E p \in Holding : pc' = [pc EXCEPT ![w] = p]
  /\ UNCHANGED <<received, processed, errored, cur, done>>

\* The end of a handler: the event is added to done or errored, or to none.
Settle(w) ==
  /\ pc[w] \in Holding
  /\ \/ done' = done \cup {cur[w]} /\ errored' = errored
     \/ errored' = errored \cup {cur[w]} /\ done' = done
     \/ UNCHANGED <<done, errored>>
  /\ pc' = [pc EXCEPT ![w] = "idle"]
  /\ cur' = [cur EXCEPT ![w] = Nobody]
  /\ UNCHANGED <<received, processed>>

\* A pick that is rolled back.
Unpick(w) ==
  /\ pc[w] = "picking"
  /\ pc' = [pc EXCEPT ![w] = "idle"]
  /\ cur' = [cur EXCEPT ![w] = Nobody]
  /\ UNCHANGED <<received, processed, errored, done>>

QueueStep ==
  \/ \E e \in Events : Receive(e)
  \/ \E w \in Workers : PickLock(w) \/ PickCommit(w) \/ Inner(w) \/ Settle(w) \/ Unpick(w)
  \/ UNCHANGED <<received, processed, errored, pc, cur, done>>

\* Only a worker in a transaction waits for a lock.
LEMMA WaitingIsInTx ==
  ASSUME NEW w \in Workers, DeadlockAbort(w)
  PROVE  pc[w] \in {"tools", "write"}
BY DEF DeadlockAbort, Deadlocked, WaitsFor

(* Every step of the pipeline is one of the queue's steps.                 *)
LEMMA StepIsQueueStep ==
  ASSUME QueueInv, [Next]_vars
  PROVE  QueueStep
<1>1. CASE \E e \in Events : Receive(e)
  BY <1>1 DEF QueueStep
<1>2. ASSUME NEW w \in Workers, Advance(w) PROVE QueueStep
  <2>1. CASE PickLock(w) \/ PickCommit(w)
    BY <2>1 DEF QueueStep
  <2>2. CASE Drop(w) \/ Commit(w) \/ MarkError(w)
    BY <2>2 DEF QueueStep, Settle, Drop, Commit, MarkError, Goto, Release, queue, Holding, InTx
  <2>3. CASE Start(w) \/ Skip(w) \/ ReadConversation(w) \/ RejectContent(w)
    BY <2>3 DEF QueueInv, QueueStep, Inner, Start, Skip, ReadConversation, RejectContent,
                AtMessage, Goto, queue, Holding, InTx
  <2>4. CASE Step(w)
    BY <2>4 DEF QueueStep, Inner, Step, Goto, queue, Holding, InTx
  <2>5. CASE Handlers(w) \/ Reply(w) \/ Write(w)
    BY <2>5 DEF QueueStep, Inner, Handlers, Reply, Write, Goto, queue, Holding, InTx
  <2>6. CASE DeadlockAbort(w)
    BY <2>6, WaitingIsInTx DEF QueueStep, Inner, DeadlockAbort, Goto, queue, Holding, InTx
  <2>7. QED
    BY <1>2, <2>1, <2>2, <2>3, <2>4, <2>5, <2>6 DEF Advance
<1>3. ASSUME NEW w \in Workers, Break(w) PROVE QueueStep
  <2>1. CASE Fail(w) \/ ReplyFails(w)
    BY <2>1 DEF QueueStep, Inner, Fail, ReplyFails, Goto, queue, Holding, InTx
  <2>2. CASE MarkErrorFails(w)
    BY <2>2 DEF QueueStep, Settle, MarkErrorFails, Goto, Release, queue, Holding
  <2>3. CASE Crash(w)
    <3>1. pc[w] \in Holding \/ pc[w] = "picking"
      BY <2>3 DEF Crash, QueueInv, PCs
    <3>2. QED
      BY <2>3, <3>1 DEF QueueStep, Settle, Unpick, Crash, Goto, Release, queue
  <2>4. QED
    BY <1>3, <2>1, <2>2, <2>3 DEF Break
<1>4. CASE \E w \in Workers : Poll(w)
  BY <1>4 DEF QueueStep, Poll, vars
<1>5. CASE \E c \in Convs, o \in Closers : Close(c, o)
  BY <1>5 DEF QueueStep, Close, queue
<1>6. CASE UNCHANGED vars
  BY <1>6 DEF QueueStep, vars
<1>7. QED
  BY <1>1, <1>2, <1>3, <1>4, <1>5, <1>6 DEF Next

-----------------------------------------------------------------------------
(* The queue's invariant.                                                  *)

LEMMA AppendStored ==
  ASSUME NEW e \in Events, received \in Seq(Events), received' = Append(received, e)
  PROVE  received' \in Seq(Events) /\ Stored' = Stored \cup {e}
BY DEF Stored

LEMMA QueueInvInit == Init => QueueInv
<1> SUFFICES ASSUME Init PROVE QueueInv
  OBVIOUS
<1>1. Stored = {}
  BY DEF Init, Stored
<1> QED
  BY <1>1, PipelineAssumption DEF Init, QueueInv, OneHolder, PCs, Holding, InTx

LEMMA QueueInvNext == QueueInv /\ [Next]_vars => QueueInv'
<1> SUFFICES ASSUME QueueInv, [Next]_vars PROVE QueueInv'
  OBVIOUS
<1> USE DEF QueueInv, OneHolder
<1>1. QueueStep
  BY StepIsQueueStep
<1>2. received' = received => Stored' = Stored
  BY DEF Stored
<1>3. ASSUME NEW e \in Events, Receive(e) PROVE QueueInv'
  <2>1. received' \in Seq(Events) /\ Stored' = Stored \cup {e}
    BY <1>3, AppendStored DEF Receive
  <2>2. QED
    BY <1>3, <2>1 DEF Receive
<1>4. ASSUME NEW w \in Workers, PickLock(w) PROVE QueueInv'
  <2>1. PICK i \in DOMAIN received :
          received[i] \in Pickable /\ cur' = [cur EXCEPT ![w] = received[i]]
    BY <1>4 DEF PickLock
  <2>2. /\ received[i] \in Events
        /\ received[i] \in Stored \ (processed \cup errored \cup done)
    BY <2>1 DEF Pickable, Stored
  <2>3. \A v \in Workers : cur[v] # received[i]
    BY <2>1, <2>2, PipelineAssumption DEF Pickable, PCs, Stored
  <2>4. UNCHANGED <<received, processed, errored, done>>
    BY <1>4 DEF PickLock, queue
  <2>5. pc' = [pc EXCEPT ![w] = "picking"]
    BY <1>4 DEF PickLock, Goto
  <2>6. QED
    BY <1>2, <2>1, <2>2, <2>3, <2>4, <2>5 DEF PCs, Holding, InTx
<1>5. ASSUME NEW w \in Workers, PickCommit(w) PROVE QueueInv'
  <2>1. cur[w] \in Stored \ (done \cup errored)
    BY <1>5 DEF PickCommit
  <2>2. QED
    BY <1>2, <1>5, <2>1 DEF PickCommit, Goto, PCs, Holding, InTx
<1>6. ASSUME NEW w \in Workers, Inner(w) PROVE QueueInv'
  BY <1>2, <1>6 DEF Inner, PCs, Holding, InTx
<1>7. ASSUME NEW w \in Workers, Settle(w) PROVE QueueInv'
  <2>1. Nobody \notin Stored
    BY PipelineAssumption DEF Stored
  <2>2. QED
    BY <1>2, <1>7, <2>1 DEF Settle, PCs, Holding, InTx
<1>8. ASSUME NEW w \in Workers, Unpick(w) PROVE QueueInv'
  <2>1. Nobody \notin Stored
    BY PipelineAssumption DEF Stored
  <2>2. QED
    BY <1>2, <1>8, <2>1 DEF Unpick, PCs, Holding, InTx
<1>9. CASE UNCHANGED <<received, processed, errored, pc, cur, done>>
  BY <1>2, <1>9
<1>10. QED
  BY <1>1, <1>3, <1>4, <1>5, <1>6, <1>7, <1>8, <1>9 DEF QueueStep

LEMMA QueueInvHolds == Spec => []QueueInv
BY QueueInvInit, QueueInvNext, PTL DEF Spec

(* Two workers never hold one delivery, and a settled one is never held      *)
(* again, for any number of workers, any deliveries and any faults.          *)
THEOREM OneHolderHolds == Spec => []OneHolder
<1>1. QueueInv => OneHolder
  BY DEF QueueInv
<1>2. QED
  BY <1>1, QueueInvHolds, PTL

-----------------------------------------------------------------------------
(* The pipeline implements AtMostOnceQueue.                                *)

Held(e) == \E w \in Workers : cur[w] = e

\* JobOf by the sets an event is in.
LEMMA JobCases ==
  ASSUME QueueInv, NEW e \in Events
  PROVE  /\ e \in done => JobOf(e) = "applied"
         /\ e \in errored \ done => JobOf(e) = "failed"
         /\ e \notin Stored => JobOf(e) = "absent"
         /\ e \in Stored \ processed => JobOf(e) = "ready"
         /\ e \in processed \ (done \cup errored) /\ Held(e) => JobOf(e) = "claimed"
         /\ e \in processed \ (done \cup errored) /\ ~Held(e) => JobOf(e) = "lost"
BY DEF JobOf, Held, QueueInv

LEMMA OneMoves ==
  ASSUME NEW e \in Events, NEW from, NEW to,
         JobOf(e) = from, JobOf(e)' = to,
         \A f \in Events \ {e} : JobOf(f)' = JobOf(f)
  PROVE  Queue!Move(e, from, to)
BY DEF Queue!Move

LEMMA NoneMoves ==
  ASSUME \A f \in Events : JobOf(f)' = JobOf(f)
  PROVE  UNCHANGED [f \in Events |-> JobOf(f)]
OBVIOUS

\* An event keeps its job state as long as no set it is in changes.
LEMMA JobKept ==
  ASSUME NEW f \in Events,
         f \in Stored' <=> f \in Stored,
         f \in processed' <=> f \in processed,
         f \in done' <=> f \in done,
         f \in errored' <=> f \in errored,
         f \in processed => (Held(f)' <=> Held(f))
  PROVE  JobOf(f)' = JobOf(f)
<1>1. CASE f \in processed
  BY <1>1 DEF JobOf, Held
<1>2. CASE f \notin processed
  BY <1>2 DEF JobOf
<1> QED
  BY <1>1, <1>2

LEMMA QueueRefinementInit == Init => Queue!Init
<1> SUFFICES ASSUME Init PROVE Queue!Init
  OBVIOUS
<1>1. QueueInv /\ Stored = {}
  BY QueueInvInit DEF Init, Stored
<1>2. \A e \in Events : JobOf(e) = "absent"
  BY <1>1, JobCases
<1> QED
  BY <1>2 DEF Queue!Init

LEMMA QueueRefinementStep ==
  ASSUME QueueInv, [Next]_vars
  PROVE  [Queue!Next]_([e \in Events |-> JobOf(e)])
<1> DEFINE job == [e \in Events |-> JobOf(e)]
<1>1. QueueStep /\ QueueInv'
  BY StepIsQueueStep, QueueInvNext
<1>2. received' = received => Stored' = Stored
  BY DEF Stored
<1>3. ASSUME NEW e \in Events, Receive(e) PROVE Queue!Next
  <2>1. e \notin Stored /\ Stored' = Stored \cup {e}
    BY <1>3, AppendStored DEF Receive, SameEventId, QueueInv
  <2>2. UNCHANGED <<processed, errored, done, cur>>
    BY <1>3 DEF Receive
  <2>3. JobOf(e) = "absent" /\ JobOf(e)' = "ready"
    <3>1. e \notin processed /\ e \notin processed'
      BY <2>1, <2>2 DEF QueueInv
    <3>2. JobOf(e) = "absent"
      BY <2>1, JobCases
    <3>3. JobOf(e)' = "ready"
      BY <2>1, <2>2, <3>1 DEF JobOf, QueueInv
    <3> QED
      BY <3>2, <3>3
  <2>4. \A f \in Events \ {e} : JobOf(f)' = JobOf(f)
    BY <2>1, <2>2, JobKept DEF Held
  <2>5. Queue!Move(e, "absent", "ready")
    BY <2>3, <2>4, OneMoves
  <2> QED
    BY <2>5 DEF Queue!Next, Queue!Enqueue
<1>4. ASSUME NEW w \in Workers, PickLock(w) PROVE UNCHANGED job
  <2>1. PICK i \in DOMAIN received :
          received[i] \in Pickable /\ cur' = [cur EXCEPT ![w] = received[i]]
    BY <1>4 DEF PickLock
  <2>2. received[i] \notin processed /\ cur[w] = Nobody
    BY <1>4, <2>1 DEF Pickable, PickLock, QueueInv
  <2>3. \A f \in Events : f \in processed => (Held(f)' <=> Held(f))
    BY <2>1, <2>2, PipelineAssumption DEF Held, QueueInv
  <2>4. UNCHANGED <<received, processed, errored, done>>
    BY <1>4 DEF PickLock, queue
  <2> QED
    BY <1>2, <2>3, <2>4, JobKept, NoneMoves
<1>5. ASSUME NEW w \in Workers, PickCommit(w) PROVE Queue!Next
  <2>1. PICK e \in Events :
          e = cur[w] /\ e \in Stored \ processed /\ e \notin done \cup errored
    <3>1. cur[w] \in Stored \ (done \cup errored) /\ cur[w] \notin processed
      BY <1>5 DEF PickCommit, QueueInv, OneHolder, Holding, InTx
    <3>2. Stored \subseteq Events
      BY DEF QueueInv, Stored
    <3> QED
      BY <3>1, <3>2
  <2>2. processed' = processed \cup {e} /\ UNCHANGED <<received, errored, done, cur>>
    BY <1>5, <2>1 DEF PickCommit
  <2>3. JobOf(e) = "ready"
    BY <2>1, JobCases
  <2>4. JobOf(e)' = "claimed"
    BY <1>2, <2>1, <2>2 DEF JobOf
  <2>5. \A f \in Events \ {e} : JobOf(f)' = JobOf(f)
    BY <1>2, <2>2, JobKept DEF Held
  <2>6. Queue!Move(e, "ready", "claimed")
    BY <2>1, <2>3, <2>4, <2>5, OneMoves
  <2> QED
    BY <2>1, <2>6 DEF Queue!Next, Queue!Claim
<1>6. ASSUME NEW w \in Workers, Inner(w) PROVE UNCHANGED job
  BY <1>2, <1>6, JobKept, NoneMoves DEF Inner, Held
<1>7. ASSUME NEW w \in Workers, Settle(w) PROVE Queue!Next
  <2>1. PICK e \in Events :
          e = cur[w] /\ e \in processed \ (done \cup errored) /\ e \in Stored
    <3>1. cur[w] \in Stored \ (done \cup errored) /\ cur[w] \in processed
      BY <1>7 DEF Settle, QueueInv, OneHolder, Holding, InTx
    <3>2. Stored \subseteq Events
      BY DEF QueueInv, Stored
    <3> QED
      BY <3>1, <3>2
  <2>2. UNCHANGED <<received, processed>> /\ cur' = [cur EXCEPT ![w] = Nobody]
    BY <1>7 DEF Settle
  <2>3. JobOf(e) = "claimed"
    BY <2>1, JobCases DEF Held
  <2>4. \A f \in Events \ {e} : Held(f)' <=> Held(f)
    BY <2>1, <2>2, PipelineAssumption DEF Held, QueueInv
  <2>5. ~Held(e)'
    BY <1>7, <2>1, <2>2, PipelineAssumption DEF Held, QueueInv, OneHolder, Settle, Holding, InTx
  <2>6. \A f \in Events \ {e} : JobOf(f)' = JobOf(f)
    BY <1>2, <1>7, <2>1, <2>2, <2>4, JobKept DEF Settle
  <2>7. CASE done' = done \cup {e}
    <3>1. JobOf(e)' = "applied"
      BY <2>7 DEF JobOf
    <3>2. Queue!Move(e, "claimed", "applied")
      BY <2>3, <2>6, <3>1, OneMoves
    <3> QED
      BY <3>2 DEF Queue!Next, Queue!Apply
  <2>8. CASE errored' = errored \cup {e} /\ done' = done
    <3>1. JobOf(e)' = "failed"
      BY <2>1, <2>8 DEF JobOf
    <3>2. Queue!Move(e, "claimed", "failed")
      BY <2>3, <2>6, <3>1, OneMoves
    <3> QED
      BY <3>2 DEF Queue!Next, Queue!GiveUp
  <2>9. CASE UNCHANGED <<done, errored>>
    <3>1. JobOf(e)' = "lost"
      BY <1>2, <2>1, <2>2, <2>5, <2>9 DEF JobOf, Held
    <3>2. Queue!Move(e, "claimed", "lost")
      BY <2>3, <2>6, <3>1, OneMoves
    <3> QED
      BY <3>2 DEF Queue!Next, Queue!Lose
  <2> QED
    BY <1>7, <2>1, <2>7, <2>8, <2>9 DEF Settle
<1>8. ASSUME NEW w \in Workers, Unpick(w) PROVE UNCHANGED job
  <2>1. cur[w] \notin processed
    BY <1>8 DEF Unpick, QueueInv, OneHolder, Holding, InTx
  <2>2. Nobody \notin Events
    BY PipelineAssumption
  <2>3. \A f \in Events : f \in processed => (Held(f)' <=> Held(f))
    BY <1>8, <2>1, <2>2 DEF Unpick, Held, QueueInv
  <2> QED
    BY <1>2, <1>8, <2>3, JobKept, NoneMoves DEF Unpick
<1>9. CASE UNCHANGED <<received, processed, errored, pc, cur, done>>
  <2>1. UNCHANGED job
    BY <1>2, <1>9, JobKept, NoneMoves DEF Held
  <2> QED
    BY <2>1
<1> QED
  BY <1>1, <1>3, <1>4, <1>5, <1>6, <1>7, <1>8, <1>9 DEF QueueStep

(* webhook_events is a queue that claims and settles a delivery at most      *)
(* once, whatever the number of workers and whichever faults happen.         *)
THEOREM QueueRefinement == Spec => RefinesQueue
BY QueueInvHolds, QueueRefinementInit, QueueRefinementStep, PTL
   DEF Spec, RefinesQueue, Queue!Spec

-----------------------------------------------------------------------------
(* The conversations row.                                                  *)

Shut(r) == r.state \in Terminal => r.closed

\* s takes back neither the closing nor the outcome of r.
Later(r, s) ==
  /\ r.closed => s.closed
  /\ r.outcome # None => s.outcome # None

StagedOK(w) ==
  \A c \in DOMAIN tx[w].conv : Shut(tx[w].conv[c]) /\ Later(conv[c], tx[w].conv[c])

OneVersion ==
  \A v, w \in Workers : v # w => DOMAIN tx[v].conv \cap DOMAIN tx[w].conv = {}

ConvInv ==
  /\ \A c \in Convs : Shut(conv[c])
  /\ \A w \in Workers : StagedOK(w)
  /\ OneVersion

\* What a step may do to the committed rows.
OnlyLater == \A c \in Convs : Later(conv[c], conv'[c])

-----------------------------------------------------------------------------
\* A worker's version of the row it is about to write.
LEMMA SeenIsLater ==
  ASSUME ConvInv, NEW w \in Workers, NEW c \in Convs
  PROVE  Shut(ConvSeen(w, c)) /\ Later(conv[c], ConvSeen(w, c))
BY DEF ConvInv, StagedOK, ConvSeen, Later

LEMMA ConvInvInit == Init => ConvInv
<1> SUFFICES ASSUME Init PROVE ConvInv
  OBVIOUS
<1>1. \A w \in Workers : DOMAIN tx[w].conv = {}
  BY DEF Init, NoWrites
<1>2. ASSUME NEW c \in Convs PROVE Shut(conv[c])
  <2>1. PICK s \in StartStates :
          conv[c] = [state |-> s, hist |-> <<>>, outcome |-> None, closed |-> FALSE]
    BY DEF Init
  <2> QED
    BY <2>1, PipelineAssumption DEF Shut
<1> QED
  BY <1>1, <1>2 DEF ConvInv, StagedOK, OneVersion

\* Steps that touch neither the rows nor the versions of them, and steps that
\* discard one worker's versions.
LEMMA ConvInvKeep ==
  ASSUME ConvInv, conv' = conv,
         \A v \in Workers : DOMAIN tx'[v].conv = {} \/ tx'[v].conv = tx[v].conv
  PROVE  ConvInv' /\ OnlyLater
<1>1. \A v \in Workers : StagedOK(v)'
  BY DEF ConvInv, StagedOK
<1>2. OneVersion'
  BY DEF ConvInv, OneVersion
<1>3. OnlyLater
  BY DEF OnlyLater, Later
<1> QED
  BY <1>1, <1>2, <1>3 DEF ConvInv

LEMMA EndTxDiscards ==
  ASSUME TypeOK, NEW w \in Workers, EndTx(w)
  PROVE  /\ DOMAIN tx'[w].conv = {}
         /\ \A v \in Workers \ {w} : tx'[v].conv = tx[v].conv
<1>1. tx' = [tx EXCEPT ![w] = NoWrites]
  BY DEF EndTx
<1>2. DOMAIN NoWrites.conv = {}
  BY DEF NoWrites
<1> QED
  BY <1>1, <1>2 DEF TypeOK

LEMMA ConvInvWrite ==
  ASSUME TypeInv, ConvInv, NEW w \in Workers, Write(w)
  PROVE  ConvInv' /\ OnlyLater
<1>1. PICK c \in Convs : c = read[w].conv
  BY DEF TypeInv, Placed, Write, InTurn
<1>2. PICK row : row = TurnRow(w, ConvSeen(w, c))
  OBVIOUS
<1>3. /\ tx'[w].conv = Put(tx[w].conv, c, row)
      /\ \A v \in Workers \ {w} : tx'[v] = tx[v]
  <2>1. PICK A, B : /\ A = Put(tx[w].conv, c, row)
                    /\ B = tx[w].rows \cup {<<c, Msg(w), "outbound">>}
    OBVIOUS
  <2>2. tx' = [tx EXCEPT ![w] = [tx[w] EXCEPT !.conv = A, !.rows = B]]
    BY <1>1, <1>2, <2>1 DEF Write
  <2>3. tx = [v \in Workers |-> tx[v]] /\ IsTx(tx[w])
    BY DEF TypeInv, TypeOK
  <2>4. PICK t : t = [tx[w] EXCEPT !.conv = A]
    OBVIOUS
  <2>5. t.conv = A /\ [tx[w] EXCEPT !.conv = A, !.rows = B] = [t EXCEPT !.rows = B]
    BY <2>3, <2>4 DEF IsTx
  <2>6. tx' = [tx EXCEPT ![w] = [t EXCEPT !.rows = B]]
    BY <2>2, <2>5
  <2>7. [t EXCEPT !.rows = B].conv = A
    BY <2>3, <2>4 DEF IsTx
  <2> QED
    BY <2>1, <2>3, <2>6, <2>7
<1>4. conv' = conv
  BY DEF Write, db
<1>5. \A v \in Workers \ {w} : c \notin DOMAIN tx[v].conv
  BY <1>1 DEF Write, Blocked, WaitsFor
<1>6. Shut(row) /\ Later(conv[c], row)
  BY <1>2, SeenIsLater DEF TurnRow, Shut, Later, Finished, To, Coalesce
<1>7. \A v \in Workers : StagedOK(v)'
  BY <1>4, <1>6, <1>3 DEF ConvInv, StagedOK, Put
<1>8. OneVersion'
  BY <1>5, <1>3 DEF ConvInv, OneVersion, Put
<1> QED
  BY <1>4, <1>7, <1>8 DEF ConvInv, OnlyLater, Later

LEMMA ConvInvCommit ==
  ASSUME TypeInv, ConvInv, NEW w \in Workers, Commit(w)
  PROVE  ConvInv' /\ OnlyLater
<1>1. \A c \in Convs : conv'[c] = ConvSeen(w, c)
  BY DEF Commit
<1>2. /\ DOMAIN tx'[w].conv = {}
      /\ \A v \in Workers \ {w} : tx'[v].conv = tx[v].conv
  BY EndTxDiscards DEF Commit, TypeInv
<1>3. OnlyLater /\ \A c \in Convs : Shut(conv'[c])
  BY <1>1, SeenIsLater DEF OnlyLater
<1>4. ASSUME NEW v \in Workers \ {w} PROVE StagedOK(v)'
  <2>1. \A c \in DOMAIN tx[v].conv : c \in Convs /\ c \notin DOMAIN tx[w].conv
    BY DEF ConvInv, OneVersion, TypeInv, TypeOK, IsTx, IsUpdate
  <2>2. \A c \in DOMAIN tx[v].conv : conv'[c] = conv[c]
    BY <1>1, <2>1 DEF ConvSeen
  <2> QED
    BY <1>2, <2>2 DEF ConvInv, StagedOK
<1>5. StagedOK(w)'
  BY <1>2 DEF StagedOK
<1>6. OneVersion'
  BY <1>2 DEF ConvInv, OneVersion
<1> QED
  BY <1>3, <1>4, <1>5, <1>6 DEF ConvInv

LEMMA ConvInvClose ==
  ASSUME TypeInv, ConvInv, NEW c \in Convs, NEW o \in Closers, Close(c, o)
  PROVE  ConvInv' /\ OnlyLater
<1>1. conv \in [Convs -> ConvRow]
  BY DEF TypeInv, TypeOK
<1>2. /\ conv'[c].closed = TRUE /\ conv'[c].outcome = o
      /\ \A d \in Convs \ {c} : conv'[d] = conv[d]
  BY <1>1 DEF Close, ConvRow
<1>3. o # None
  BY PipelineAssumption DEF Outcomes, None
<1>4. tx' = tx /\ \A v \in Workers : c \notin DOMAIN tx[v].conv
  BY DEF Close, local
<1>5. OnlyLater /\ \A d \in Convs : Shut(conv'[d])
  BY <1>2, <1>3 DEF ConvInv, OnlyLater, Later, Shut
<1>6. ASSUME NEW v \in Workers PROVE StagedOK(v)'
  <2>1. \A d \in DOMAIN tx[v].conv : d \in Convs
    BY DEF TypeInv, TypeOK, IsTx, IsUpdate
  <2>2. \A d \in DOMAIN tx[v].conv : conv'[d] = conv[d]
    BY <1>2, <1>4, <2>1
  <2> QED
    BY <1>4, <2>2 DEF ConvInv, StagedOK
<1>7. OneVersion'
  BY <1>4 DEF ConvInv, OneVersion
<1> QED
  BY <1>5, <1>6, <1>7 DEF ConvInv

LEMMA ConvInvNext ==
  ASSUME TypeInv, ConvInv, [Next]_vars
  PROVE  ConvInv' /\ OnlyLater
<1> USE DEF TypeInv
<1>1. ASSUME conv' = conv, \A v \in Workers : tx'[v].conv = tx[v].conv
      PROVE  ConvInv' /\ OnlyLater
  BY <1>1, ConvInvKeep
<1>2. ASSUME NEW w \in Workers, EndTx(w), conv' = conv PROVE ConvInv' /\ OnlyLater
  BY <1>2, EndTxDiscards, ConvInvKeep
<1>3. CASE UNCHANGED vars \/ \E e \in Events : Receive(e)
  BY <1>1, <1>3 DEF vars, Receive, db, local
<1>4. ASSUME NEW w \in Workers, Advance(w) PROVE ConvInv' /\ OnlyLater
  <2>1. CASE PickLock(w) \/ PickCommit(w) \/ Drop(w) \/ Start(w) \/ Skip(w)
               \/ Step(w) \/ Reply(w) \/ MarkError(w)
    BY <1>1, <2>1 DEF PickLock, PickCommit, Drop, Start, Skip, Step, Reply, MarkError, db, local
  <2>2. CASE ReadConversation(w)
    <3>1. PICK x : tx' = [tx EXCEPT ![w].rows = x]
      BY <2>2 DEF ReadConversation
    <3>2. \A v \in Workers : tx'[v].conv = tx[v].conv
      BY <3>1 DEF TypeOK, IsTx
    <3> QED
      BY <1>1, <2>2, <3>2 DEF ReadConversation, db
  <2>3. CASE Handlers(w)
    <3>1. PICK a, b, x : tx' = [tx EXCEPT ![w] =
                                  [tx[w] EXCEPT !.status = a, !.fakes = b, !.tickets = x]]
      BY <2>3 DEF Handlers
    <3>2. \A v \in Workers : tx'[v].conv = tx[v].conv
      BY <3>1 DEF TypeOK, IsTx
    <3> QED
      BY <1>1, <2>3, <3>2 DEF Handlers, db
  <2>4. CASE RejectContent(w) \/ DeadlockAbort(w)
    BY <1>2, <2>4 DEF RejectContent, DeadlockAbort, db
  <2> QED
    BY <1>4, <2>1, <2>2, <2>3, <2>4, ConvInvWrite, ConvInvCommit DEF Advance
<1>5. ASSUME NEW w \in Workers, Break(w) \/ Poll(w) PROVE ConvInv' /\ OnlyLater
  <2>1. CASE Fail(w) \/ ReplyFails(w) \/ Crash(w)
    BY <1>2, <2>1 DEF Fail, ReplyFails, Crash, db
  <2>2. CASE MarkErrorFails(w) \/ Poll(w)
    BY <1>1, <2>2 DEF MarkErrorFails, Poll, vars, db, local
  <2> QED
    BY <1>5, <2>1, <2>2 DEF Break
<1>6. CASE \E c \in Convs, o \in Closers : Close(c, o)
  BY <1>6, ConvInvClose
<1> QED
  BY <1>3, <1>4, <1>5, <1>6 DEF Next

-----------------------------------------------------------------------------
LEMMA ConvInvHolds == Spec => [](TypeInv /\ ConvInv)
BY TypeInvInit, TypeInvNext, ConvInvInit, ConvInvNext, PTL DEF Spec

(* A committed conversation in a terminal state is closed, so that no later  *)
(* message of the customer is swallowed by the early return of driver.step,  *)
(* however many workers and operators write the row.                         *)
THEOREM TerminalIsClosed == Spec => []TerminalImpliesClosed
<1>1. ConvInv => TerminalImpliesClosed
  BY DEF ConvInv, Shut, TerminalImpliesClosed
<1> QED
  BY <1>1, ConvInvHolds, PTL

(* closed_at and outcome are never taken back by a turn that read the row    *)
(* before an operator closed it: COALESCE works on the row itself, the row    *)
(* lock keeps one version, and a commit only adds.                           *)
THEOREM ClosingIsFinal == Spec => ClosedIsFinal
<1>1. TypeInv /\ ConvInv /\ [Next]_vars =>
        [\A c \in Convs :
           /\ conv[c].closed => conv'[c].closed
           /\ conv[c].outcome # None => conv'[c].outcome # None]_vars
  BY ConvInvNext DEF OnlyLater, Later
<1> QED
  BY <1>1, ConvInvHolds, PTL DEF Spec, ClosedIsFinal

-----------------------------------------------------------------------------
(* What the actions do to turns.                                           *)

TablesSame == UNCHANGED <<conv, status, fakes, tickets, rows>>

\* Nothing changes of what v has in hand.
Same(v) ==
  /\ tx'[v] = tx[v] /\ read'[v] = read[v] /\ plan'[v] = plan[v]
  /\ pos'[v] = pos[v] /\ cur'[v] = cur[v] /\ pc'[v] = pc[v]

OthersSame(w) == \A v \in Workers \ {w} : Same(v)

\* w is outside a transaction, or loses it, or is at the start of one.
Clears(w) ==
  /\ TablesSame /\ OthersSame(w)
  /\ tx'[w] = NoWrites /\ pc'[w] \notin InTurn
  /\ pc'[w] \in InTx => pos'[w] = 1
  /\ done \subseteq done' /\ done' \subseteq done \cup {cur[w]}
  /\ \A e \in done' \ done : e \notin Routed \/ Payload[e] = <<>>
  /\ pc[w] \in InTx =>
       /\ done' = done
       /\ cur'[w] = Nobody \/ (cur'[w] = cur[w] /\ pc'[w] = "failing")
  /\ sent' = sent \/ (pc[w] = "send" /\ sent' = sent \cup {<<read[w].conv, Msg(w)>>})
  /\ received' = received

Skips(w) ==
  /\ TablesSame /\ OthersSame(w)
  /\ \A c \in Convs : CustomerOf[c] = Sender[Msg(w)] => ConvSeen(w, c).closed
  /\ tx'[w] = tx[w] /\ pc[w] = "message" /\ pc'[w] = "message"
  /\ pos'[w] = pos[w] + 1 /\ cur'[w] = cur[w]
  /\ UNCHANGED <<done, received, sent>>

Reads(w, c) ==
  /\ TablesSame /\ OthersSame(w)
  /\ pc[w] = "message" /\ pc'[w] = "llm"
  /\ pos'[w] = pos[w] /\ cur'[w] = cur[w] /\ Msg(w)' = Msg(w)
  /\ CustomerOf[c] = Sender[Msg(w)] /\ ~ConvSeen(w, c).closed
  /\ read'[w].conv = c
  /\ read'[w].state = ConvSeen(w, c).state
  /\ read'[w].hist = ConvSeen(w, c).hist
  /\ tx'[w].conv = tx[w].conv /\ tx'[w].status = tx[w].status
  /\ tx'[w].fakes = tx[w].fakes /\ tx'[w].tickets = tx[w].tickets
  /\ tx'[w].rows = tx[w].rows \cup {<<c, Msg(w), "inbound">>}
  /\ UNCHANGED <<done, received, sent>>

\* A response is one of Responses, unless the LLM was not asked; one that calls
\* a handler goes through the handlers.
LLMAnswers(w) ==
  /\ From(w) \notin Terminal => plan'[w] \in Responses
  /\ pc'[w] \in {"send", "write"} => Uses(From(w), plan'[w].calls, Effectful) = {}

\* The LLM answers, or the reply is sent.
Talks(w) ==
  /\ TablesSame /\ OthersSame(w)
  /\ pc[w] \in InTurn /\ pc'[w] \in InTurn
  /\ tx'[w] = tx[w] /\ read'[w] = read[w] /\ pos'[w] = pos[w] /\ cur'[w] = cur[w]
  /\ \/ pc[w] = "llm" /\ LLMAnswers(w) /\ sent' = sent
     \/ pc[w] = "send" /\ pc'[w] = "write" /\ plan'[w] = plan[w]
        /\ sent' = sent \cup {<<read[w].conv, Msg(w)>>}
  /\ UNCHANGED <<done, received>>

Handles(w) ==
  LET o == OrderOf[read[w].conv]
      k == CustomerOf[read[w].conv]
  IN
  /\ TablesSame /\ OthersSame(w)
  /\ pc[w] = "tools" /\ pc'[w] \in {"send", "write"}
  /\ read'[w] = read[w] /\ plan'[w] = plan[w] /\ pos'[w] = pos[w] /\ cur'[w] = cur[w]
  /\ tx'[w].conv = tx[w].conv /\ tx'[w].rows = tx[w].rows
  /\ tx'[w].status =
       Put(tx[w].status, o, StatusAfter(StatusSeen(w, o), From(w), plan[w].calls))
  /\ tx'[w].fakes =
       IF CountsFake(w)
       THEN Put(tx[w].fakes, k, FakesSeen(w, k) + WrongNumberCount(From(w), plan[w].calls))
       ELSE tx[w].fakes
  /\ tx'[w].tickets = tx[w].tickets
       \cup {<<read[w].conv, Msg(w), i>> : i \in TicketCalls(From(w), plan[w].calls)}
  /\ UNCHANGED <<done, received, sent>>

Writes(w) ==
  LET c == read[w].conv IN
  /\ TablesSame /\ OthersSame(w)
  /\ pc[w] = "write" /\ pc'[w] = "message"
  /\ pos'[w] = pos[w] + 1 /\ cur'[w] = cur[w]
  /\ tx'[w].status = tx[w].status /\ tx'[w].fakes = tx[w].fakes
  /\ tx'[w].tickets = tx[w].tickets
  /\ tx'[w].conv = Put(tx[w].conv, c, TurnRow(w, ConvSeen(w, c)))
  /\ tx'[w].rows = tx[w].rows \cup {<<c, Msg(w), "outbound">>}
  /\ UNCHANGED <<done, received, sent>>

Commits(w) ==
  /\ OthersSame(w)
  /\ pc[w] = "message" /\ pc'[w] = "idle" /\ tx'[w] = NoWrites
  /\ pos[w] > Len(Payload[cur[w]])
  /\ conv' = [c \in Convs |-> ConvSeen(w, c)]
  /\ status' = [o \in Orders |-> StatusSeen(w, o)]
  /\ fakes' = [k \in Customers |-> FakesSeen(w, k)]
  /\ tickets' = tickets \cup tx[w].tickets
  /\ rows' = rows \cup tx[w].rows
  /\ done' = done \cup {cur[w]} /\ UNCHANGED <<received, sent>>

\* A delivery arrives, an operator closes a conversation, nothing happens.
Outside ==
  /\ \A v \in Workers : Same(v)
  /\ UNCHANGED <<status, fakes, tickets, rows, done, sent>>
  /\ \/ conv' = conv /\ (received' = received \/ \E e \in Events : Receive(e))
     \/ received' = received /\ \E c \in Convs, o \in Closers : Close(c, o)

TurnStep ==
  \/ Outside
  \/ \E w \in Workers :
       \/ Clears(w) \/ Skips(w) \/ Talks(w) \/ Handles(w) \/ Writes(w) \/ Commits(w)
       \/ \E c \in Convs : Reads(w, c)

TxOnly == \A w \in Workers : pc[w] \notin InTx => tx[w] = NoWrites

LEMMA NoWritesFields ==
  /\ DOMAIN NoWrites.conv = {} /\ DOMAIN NoWrites.status = {} /\ DOMAIN NoWrites.fakes = {}
  /\ NoWrites.tickets = {} /\ NoWrites.rows = {}
BY DEF NoWrites

LEMMA ReadIsTurnStep ==
  ASSUME TypeInv, NEW w \in Workers, ReadConversation(w)
  PROVE  \E c \in Convs : Reads(w, c)
<1>1. PICK c \in Latest(OpenConvs(w)) :
        /\ read' = [read EXCEPT ![w] = [conv  |-> c,
                                        state |-> ConvSeen(w, c).state,
                                        hist  |-> ConvSeen(w, c).hist]]
        /\ tx' = [tx EXCEPT ![w].rows = @ \cup {<<c, Msg(w), "inbound">>}]
  BY DEF ReadConversation
<1>2. c \in Convs /\ CustomerOf[c] = Sender[Msg(w)] /\ ~ConvSeen(w, c).closed
  BY DEF Latest, OpenConvs
<1>3. PICK x : x = tx[w].rows \cup {<<c, Msg(w), "inbound">>}
  OBVIOUS
<1>4. tx' = [tx EXCEPT ![w] = [tx[w] EXCEPT !.rows = x]]
  BY <1>1, <1>3
<1>5. tx = [v \in Workers |-> tx[v]] /\ IsTx(tx[w])
  BY DEF TypeInv, TypeOK
<1>6. PICK t : t = [tx[w] EXCEPT !.rows = x]
  OBVIOUS
<1>7. /\ t.conv = tx[w].conv /\ t.status = tx[w].status /\ t.fakes = tx[w].fakes
      /\ t.tickets = tx[w].tickets /\ t.rows = x
  BY <1>5, <1>6 DEF IsTx
<1>8. tx'[w] = t /\ \A v \in Workers \ {w} : tx'[v] = tx[v]
  BY <1>4, <1>5, <1>6
<1>9. /\ read'[w].conv = c
      /\ read'[w].state = ConvSeen(w, c).state
      /\ read'[w].hist = ConvSeen(w, c).hist
      /\ \A v \in Workers \ {w} : read'[v] = read[v]
  BY <1>1 DEF TypeInv, TypeOK
<1>10. /\ TablesSame /\ pc[w] = "message" /\ pc'[w] = "llm"
       /\ UNCHANGED <<pos, cur, plan, done, received, sent>>
       /\ \A v \in Workers \ {w} : pc'[v] = pc[v]
  BY DEF ReadConversation, AtMessage, Goto, TablesSame, db, queue, TypeInv, TypeOK
<1> QED
  BY <1>2, <1>3, <1>7, <1>8, <1>9, <1>10 DEF Reads, OthersSame, Same, Msg

LEMMA HandlersIsTurnStep ==
  ASSUME TypeInv, NEW w \in Workers, Handlers(w)
  PROVE  Handles(w)
<1>1. PICK o : o = OrderOf[read[w].conv]
  OBVIOUS
<1>2. PICK a, b, x :
        /\ a = Put(tx[w].status, o, StatusAfter(StatusSeen(w, o), From(w), plan[w].calls))
        /\ b = IF CountsFake(w)
               THEN Put(tx[w].fakes, CustomerOf[read[w].conv],
                        FakesSeen(w, CustomerOf[read[w].conv])
                          + WrongNumberCount(From(w), plan[w].calls))
               ELSE tx[w].fakes
        /\ x = tx[w].tickets
             \cup {<<read[w].conv, Msg(w), i>> : i \in TicketCalls(From(w), plan[w].calls)}
  OBVIOUS
<1>3. tx' = [tx EXCEPT ![w] = [tx[w] EXCEPT !.status = a, !.fakes = b, !.tickets = x]]
  BY <1>1, <1>2 DEF Handlers
<1>4. tx = [v \in Workers |-> tx[v]] /\ IsTx(tx[w])
  BY DEF TypeInv, TypeOK
<1>5. PICK t : t = [tx[w] EXCEPT !.status = a, !.fakes = b, !.tickets = x]
  OBVIOUS
<1>6. /\ t.conv = tx[w].conv /\ t.status = a /\ t.fakes = b
      /\ t.tickets = x /\ t.rows = tx[w].rows
  BY <1>4, <1>5 DEF IsTx
<1>7. tx'[w] = t /\ \A v \in Workers \ {w} : tx'[v] = tx[v]
  BY <1>3, <1>4, <1>5
<1>8. /\ TablesSame /\ pc[w] = "tools" /\ pc'[w] \in {"send", "write"}
      /\ UNCHANGED <<read, plan, pos, cur, done, received, sent>>
      /\ \A v \in Workers \ {w} : pc'[v] = pc[v]
  BY DEF Handlers, Goto, TablesSame, db, queue, TypeInv, TypeOK
<1> QED
  BY <1>1, <1>2, <1>6, <1>7, <1>8 DEF Handles, OthersSame, Same

LEMMA WriteIsTurnStep ==
  ASSUME TypeInv, NEW w \in Workers, Write(w)
  PROVE  Writes(w)
<1>1. PICK a, b : /\ a = Put(tx[w].conv, read[w].conv, TurnRow(w, ConvSeen(w, read[w].conv)))
                  /\ b = tx[w].rows \cup {<<read[w].conv, Msg(w), "outbound">>}
  OBVIOUS
<1>2. tx' = [tx EXCEPT ![w] = [tx[w] EXCEPT !.conv = a, !.rows = b]]
  BY <1>1 DEF Write
<1>3. tx = [v \in Workers |-> tx[v]] /\ IsTx(tx[w])
  BY DEF TypeInv, TypeOK
<1>4. PICK t : t = [tx[w] EXCEPT !.conv = a, !.rows = b]
  OBVIOUS
<1>5. /\ t.conv = a /\ t.status = tx[w].status /\ t.fakes = tx[w].fakes
      /\ t.tickets = tx[w].tickets /\ t.rows = b
  BY <1>3, <1>4 DEF IsTx
<1>6. tx'[w] = t /\ \A v \in Workers \ {w} : tx'[v] = tx[v]
  BY <1>2, <1>3, <1>4
<1>7. /\ TablesSame /\ pc[w] = "write" /\ pc'[w] = "message" /\ pos'[w] = pos[w] + 1
      /\ UNCHANGED <<cur, done, received, sent>>
      /\ \A v \in Workers \ {w} : /\ pc'[v] = pc[v] /\ read'[v] = read[v]
                                  /\ plan'[v] = plan[v] /\ pos'[v] = pos[v]
  BY DEF Write, Goto, TablesSame, db, queue, TypeInv, TypeOK
<1> QED
  BY <1>1, <1>5, <1>6, <1>7 DEF Writes, OthersSame, Same

LEMMA EndTxClears ==
  ASSUME TypeInv, NEW w \in Workers, EndTx(w)
  PROVE  /\ tx'[w] = NoWrites
         /\ \A v \in Workers \ {w} : /\ tx'[v] = tx[v] /\ read'[v] = read[v]
                                     /\ plan'[v] = plan[v] /\ pos'[v] = pos[v]
BY DEF EndTx, TypeInv, TypeOK

LEMMA StepIsTurnStep ==
  ASSUME TypeInv, TxOnly, [Next]_vars
  PROVE  TurnStep
<1> USE DEF TypeInv, TypeOK, Goto, Release, TablesSame, OthersSame, Same, db, queue, local
<1>1. CASE UNCHANGED vars \/ \E e \in Events : Receive(e)
  BY <1>1 DEF vars, Receive, Outside, TurnStep
<1>2. CASE \E c \in Convs, o \in Closers : Close(c, o)
  BY <1>2 DEF Close, Outside, TurnStep
<1>3. ASSUME NEW w \in Workers,
             PickLock(w) \/ PickCommit(w) \/ Drop(w) \/ Start(w) \/ MarkError(w) \/ MarkErrorFails(w)
      PROVE  Clears(w)
  <2>1. tx[w] = NoWrites /\ tx' = tx
    BY <1>3 DEF TxOnly, InTx, PickLock, PickCommit, Drop, Start, MarkError, MarkErrorFails
  <2>2. CASE PickLock(w) \/ PickCommit(w)
    BY <2>1, <2>2 DEF PickLock, PickCommit, Clears, InTurn, InTx
  <2>3. CASE Drop(w)
    BY <2>1, <2>3 DEF Drop, Clears, InTurn, InTx
  <2>4. CASE Start(w)
    BY <2>1, <2>4 DEF Start, Clears, InTurn, InTx
  <2>5. CASE MarkError(w) \/ MarkErrorFails(w)
    BY <2>1, <2>5 DEF MarkError, MarkErrorFails, Clears, InTurn, InTx
  <2> QED
    BY <1>3, <2>2, <2>3, <2>4, <2>5
<1>4. ASSUME NEW w \in Workers,
             RejectContent(w) \/ DeadlockAbort(w) \/ Fail(w) \/ ReplyFails(w) \/ Crash(w)
      PROVE  Clears(w)
  <2>1. CASE RejectContent(w) \/ DeadlockAbort(w) \/ Fail(w)
    BY <2>1, EndTxClears DEF RejectContent, DeadlockAbort, Fail, Clears, InTurn, InTx
  <2>2. CASE ReplyFails(w)
    BY <2>2, EndTxClears DEF ReplyFails, Clears, InTurn, InTx
  <2>3. CASE Crash(w)
    BY <2>3, EndTxClears DEF Crash, Clears, InTurn, InTx
  <2> QED
    BY <1>4, <2>1, <2>2, <2>3
<1>5. ASSUME NEW w \in Workers, Skip(w) PROVE Skips(w)
  BY <1>5 DEF Skip, AtMessage, OpenConvs, Skips
<1>6. ASSUME NEW w \in Workers, Step(w) PROVE Talks(w)
  <2>1. PICK r \in IF From(w) \in Terminal THEN {NoPlan} ELSE Responses :
          /\ plan' = [plan EXCEPT ![w] = r]
          /\ Goto(w, CASE Uses(From(w), r.calls, Effectful) # {} -> "tools"
                       [] Uses(From(w), r.calls, Effectful) = {} /\ r.text -> "send"
                       [] OTHER -> "write")
    BY <1>6 DEF Step
  <2>2. plan'[w] = r /\ pc'[w] \in {"tools", "send", "write"}
    BY <2>1
  <2>3. pc'[w] \in {"send", "write"} => Uses(From(w), r.calls, Effectful) = {}
    BY <2>1
  <2>4. LLMAnswers(w)
    BY <2>1, <2>2, <2>3 DEF LLMAnswers
  <2>5. /\ tx' = tx /\ read' = read /\ pos' = pos /\ cur' = cur /\ pc[w] = "llm"
        /\ \A v \in Workers \ {w} : plan'[v] = plan[v] /\ pc'[v] = pc[v]
    BY <1>6, <2>1 DEF Step
  <2> QED
    BY <1>6, <2>2, <2>4, <2>5 DEF Step, Talks, InTurn
<1>7. ASSUME NEW w \in Workers, Reply(w) PROVE Talks(w)
  BY <1>7 DEF Reply, Talks, InTurn
<1>8. ASSUME NEW w \in Workers, Commit(w) PROVE Commits(w)
  BY <1>8, EndTxClears DEF Commit, Commits
<1>9. ASSUME NEW w \in Workers, Poll(w) PROVE TurnStep
  BY <1>9 DEF Poll, vars, Outside, TurnStep
<1> QED
  BY <1>1, <1>2, <1>3, <1>4, <1>5, <1>6, <1>7, <1>8, <1>9,
     ReadIsTurnStep, HandlersIsTurnStep, WriteIsTurnStep DEF Next, Advance, Break, TurnStep

LEMMA TxOnlyNext == TypeInv /\ TxOnly /\ [Next]_vars => TxOnly'
<1> SUFFICES ASSUME TypeInv, TxOnly, [Next]_vars PROVE TxOnly'
  OBVIOUS
<1> QED
  BY StepIsTurnStep
     DEF TurnStep, Outside, Clears, Skips, Talks, Handles, Writes, Commits, Reads,
         OthersSame, Same, TxOnly, InTx, InTurn

\* A worker outside a transaction has written nothing.
LEMMA TxOnlyHolds == Spec => []TxOnly
<1>1. Init => TxOnly
  BY DEF Init, TxOnly
<1> QED
  BY <1>1, TxOnlyNext, TypeInvInit, TypeInvNext, PTL DEF Spec

-----------------------------------------------------------------------------
(* Messages and turns.                                                     *)

\* The messages of its delivery that w has gone past.
Before(w) == {i \in DOMAIN Payload[cur[w]] : i < pos[w]}
Passed(w) == {Payload[cur[w]][i] : i \in Before(w)}

\* No message twice, and none but of M.
Clean(h, M) ==
  /\ \A i, j \in DOMAIN h : h[i].msg = h[j].msg => i = j
  /\ \A i \in DOMAIN h : h[i].msg \in M

OneRowPerId == \A e, f \in Stored : SameEventId(e, f) => e = f

HistoriesClean ==
  /\ \A c \in Convs : Clean(conv[c].hist, Handled)
  /\ \A w \in Workers :
       /\ \A c \in DOMAIN tx[w].conv : Clean(tx[w].conv[c].hist, Handled \cup Passed(w))
       /\ pc[w] \in InTurn => Clean(read[w].hist, Handled \cup Passed(w))

OnceInv == OneRowPerId /\ HistoriesClean

LEMMA CleanGrows ==
  ASSUME NEW h, NEW M, NEW N, M \subseteq N, Clean(h, M)
  PROVE  Clean(h, N)
BY DEF Clean

LEMMA SeenIsClean ==
  ASSUME HistoriesClean, NEW w \in Workers, NEW c \in Convs
  PROVE  Clean(ConvSeen(w, c).hist, Handled \cup Passed(w))
BY CleanGrows DEF HistoriesClean, ConvSeen

\* The message a turn is about is new to every history of its worker.
LEMMA TurnMessageIsNew ==
  ASSUME NoRebatching, NoRepetition, TypeInv, QueueInv, OneRowPerId,
         NEW w \in Workers, pc[w] \in InTurn
  PROVE  Msg(w) \notin Handled \cup Passed(w)
<1>1. /\ cur[w] \in Events /\ cur[w] \in Stored /\ cur[w] \notin done
      /\ pos[w] \in DOMAIN Payload[cur[w]]
  BY DEF TypeInv, Placed, InTurn, QueueInv, OneHolder
<1>2. ASSUME NEW e \in done, NEW i \in DOMAIN Payload[e], Payload[e][i] = Msg(w) PROVE FALSE
  <2>1. e \in Stored /\ e \in Events
    BY DEF QueueInv, Stored
  <2>2. SameEventId(e, cur[w])
    BY <1>1, <1>2, <2>1 DEF NoRebatching, Msg
  <2> QED
    BY <1>1, <2>1, <2>2 DEF OneRowPerId
<1>3. ASSUME NEW i \in Before(w), Payload[cur[w]][i] = Msg(w) PROVE FALSE
  <2>1. i \in DOMAIN Payload[cur[w]] /\ i < pos[w] /\ pos[w] \in Nat
    BY <1>3 DEF Before, TypeInv, TypeOK
  <2>2. i # pos[w]
    BY <2>1
  <2> QED
    BY <1>1, <1>3, <2>1, <2>2 DEF NoRepetition, Msg
<1> QED
  BY <1>2, <1>3 DEF MessagesOf, Handled, Passed

LEMMA CleanAppend ==
  ASSUME NEW S, NEW h \in Seq(S), NEW t \in S, NEW M, Clean(h, M), t.msg \notin M
  PROVE  Clean(Append(h, t), M \cup {t.msg})
<1>1. /\ DOMAIN Append(h, t) = 1 .. Len(h) + 1 /\ DOMAIN h = 1 .. Len(h) /\ Len(h) \in Nat
      /\ \A i \in 1 .. Len(h) : Append(h, t)[i] = h[i]
      /\ Append(h, t)[Len(h) + 1] = t
  OBVIOUS
<1>2. \A i \in 1 .. Len(h) + 1 : i \in 1 .. Len(h) \/ i = Len(h) + 1
  BY <1>1
<1>3. \A i \in 1 .. Len(h) : h[i].msg \in M
  BY <1>1 DEF Clean
<1>4. \A i \in DOMAIN Append(h, t) : Append(h, t)[i].msg \in M \cup {t.msg}
  BY <1>1, <1>2, <1>3
<1>5. ASSUME NEW i \in DOMAIN Append(h, t), NEW j \in DOMAIN Append(h, t),
             Append(h, t)[i].msg = Append(h, t)[j].msg
      PROVE  i = j
  <2>1. CASE i \in 1 .. Len(h) /\ j \in 1 .. Len(h)
    BY <1>1, <1>5, <2>1 DEF Clean
  <2>2. CASE i = Len(h) + 1 /\ j = Len(h) + 1
    BY <2>2
  <2>3. CASE i = Len(h) + 1 /\ j \in 1 .. Len(h)
    BY <1>1, <1>3, <1>5, <2>3
  <2>4. CASE j = Len(h) + 1 /\ i \in 1 .. Len(h)
    BY <1>1, <1>3, <1>5, <2>4
  <2> QED
    BY <1>1, <1>2, <1>5, <2>1, <2>2, <2>3, <2>4
<1> QED
  BY <1>4, <1>5 DEF Clean

\* The messages a worker may have stored only become more.
LEMMA KnownMessagesGrow ==
  ASSUME done \subseteq done'
  PROVE  /\ Handled \subseteq Handled'
         /\ \A v \in Workers : Same(v) => Passed(v)' = Passed(v)
BY DEF MessagesOf, Handled, Passed, Before, Same

LEMMA OthersStayClean ==
  ASSUME HistoriesClean, done \subseteq done', NEW v \in Workers, Same(v)
  PROVE  /\ \A c \in DOMAIN tx'[v].conv : Clean(tx'[v].conv[c].hist, Handled' \cup Passed(v)')
         /\ pc'[v] \in InTurn => Clean(read'[v].hist, Handled' \cup Passed(v)')
<1>1. Handled \cup Passed(v) \subseteq Handled' \cup Passed(v)'
  BY KnownMessagesGrow
<1>2. \A h : Clean(h, Handled \cup Passed(v)) => Clean(h, Handled' \cup Passed(v)')
  BY <1>1, CleanGrows
<1>3. /\ \A c \in DOMAIN tx[v].conv : Clean(tx[v].conv[c].hist, Handled \cup Passed(v))
      /\ pc[v] \in InTurn => Clean(read[v].hist, Handled \cup Passed(v))
  BY DEF HistoriesClean
<1>4. tx'[v] = tx[v] /\ read'[v] = read[v] /\ pc'[v] = pc[v]
  BY DEF Same
<1> QED
  BY <1>2, <1>3, <1>4

LEMMA OnceStep ==
  ASSUME NoRebatching, NoRepetition, TypeInv, QueueInv, TxOnly, OnceInv, [Next]_vars
  PROVE  OnceInv'
<1>1. TurnStep /\ TypeInv'
  BY StepIsTurnStep, TypeInvNext
<1>2. done \subseteq done'
  BY <1>1 DEF TurnStep, Outside, Clears, Skips, Talks, Handles, Writes, Commits, Reads
<1>3. OneRowPerId'
  <2>1. CASE received' = received
    BY <2>1 DEF OnceInv, OneRowPerId, Stored
  <2>2. ASSUME NEW e \in Events, Receive(e) PROVE OneRowPerId'
    <3>1. received \in Seq(Events)
      BY DEF TypeInv, TypeOK
    <3>2. Stored' = Stored \cup {e}
      BY <2>2, <3>1 DEF Receive, Stored
    <3>3. \A f \in Stored : ~SameEventId(e, f) /\ ~SameEventId(f, e)
      BY <2>2 DEF Receive, SameEventId
    <3> QED
      BY <3>2, <3>3 DEF OnceInv, OneRowPerId, SameEventId
  <2> QED
    BY <1>1, <2>1, <2>2
       DEF TurnStep, Outside, Clears, Skips, Talks, Handles, Writes, Commits, Reads
<1>4. ASSUME \A c \in Convs : conv'[c].hist = conv[c].hist
      PROVE  \A c \in Convs : Clean(conv'[c].hist, Handled')
  BY <1>2, <1>4, KnownMessagesGrow, CleanGrows DEF OnceInv, HistoriesClean
<1>5. CASE Outside
  <2>1. \A c \in Convs : conv'[c].hist = conv[c].hist
    <3>1. ASSUME NEW c \in Convs, NEW o \in Closers, Close(c, o)
          PROVE  \A d \in Convs : conv'[d].hist = conv[d].hist
      BY <3>1 DEF Close, TypeInv, TypeOK, ConvRow
    <3> QED
      BY <1>5, <3>1 DEF Outside
  <2> QED
    BY <1>2, <1>3, <1>4, <1>5, <2>1, OthersStayClean DEF Outside, OnceInv, HistoriesClean
<1>6. ASSUME NEW w \in Workers, TablesSame, OthersSame(w),
             \A c \in DOMAIN tx'[w].conv : Clean(tx'[w].conv[c].hist, Handled' \cup Passed(w)'),
             pc'[w] \in InTurn => Clean(read'[w].hist, Handled' \cup Passed(w)')
      PROVE  OnceInv'
  <2>1. \A c \in Convs : Clean(conv'[c].hist, Handled')
    BY <1>4, <1>6 DEF TablesSame
  <2>2. \A v \in Workers :
          /\ \A c \in DOMAIN tx'[v].conv : Clean(tx'[v].conv[c].hist, Handled' \cup Passed(v)')
          /\ pc'[v] \in InTurn => Clean(read'[v].hist, Handled' \cup Passed(v)')
    BY <1>2, <1>6, OthersStayClean DEF OnceInv, OthersSame
  <2> QED
    BY <1>3, <2>1, <2>2 DEF OnceInv, HistoriesClean
<1>7. ASSUME NEW w \in Workers, Clears(w) PROVE OnceInv'
  BY <1>6, <1>7, NoWritesFields DEF Clears
<1>8. ASSUME NEW w \in Workers, Skips(w) \/ Talks(w) \/ Handles(w) PROVE OnceInv'
  <2>1. Handled' = Handled /\ Passed(w) \subseteq Passed(w)'
    <3>1. done' = done /\ cur'[w] = cur[w]
      BY <1>8 DEF Skips, Talks, Handles
    <3>2. CASE pos'[w] = pos[w]
      BY <3>1, <3>2 DEF MessagesOf, Handled, Passed, Before
    <3>3. CASE Skips(w)
      <4>1. cur[w] \in Events /\ pos[w] \in Nat /\ pos'[w] = pos[w] + 1
        BY <3>3 DEF Skips, TypeInv, TypeOK, Placed
      <4>2. Payload[cur[w]] \in Seq(Messages)
        BY <4>1, PipelineAssumption
      <4>3. Before(w) \subseteq Before(w)'
        BY <3>1, <4>1, <4>2 DEF Before
      <4> QED
        BY <3>1, <4>3 DEF MessagesOf, Handled, Passed
    <3> QED
      BY <1>8, <3>2, <3>3 DEF Talks, Handles
  <2>2. /\ tx'[w].conv = tx[w].conv
        /\ pc'[w] \in InTurn => pc[w] \in InTurn /\ read'[w] = read[w]
    BY <1>8 DEF Skips, Talks, Handles, InTurn
  <2>3. TablesSame /\ OthersSame(w)
    BY <1>8 DEF Skips, Talks, Handles
  <2>4. \A h : Clean(h, Handled \cup Passed(w)) => Clean(h, Handled' \cup Passed(w)')
    BY <2>1, CleanGrows
  <2> QED
    BY <1>6, <2>2, <2>3, <2>4 DEF OnceInv, HistoriesClean
<1>9. ASSUME NEW w \in Workers, NEW c \in Convs, Reads(w, c) PROVE OnceInv'
  <2>1. Handled' = Handled /\ Passed(w)' = Passed(w)
    BY <1>9 DEF Reads, MessagesOf, Handled, Passed, Before
  <2>2. Clean(read'[w].hist, Handled' \cup Passed(w)')
    BY <1>9, <2>1, SeenIsClean DEF Reads, OnceInv
  <2>3. tx'[w].conv = tx[w].conv /\ TablesSame /\ OthersSame(w)
    BY <1>9 DEF Reads
  <2> QED
    BY <1>6, <2>1, <2>2, <2>3 DEF OnceInv, HistoriesClean
<1>10. ASSUME NEW w \in Workers, Writes(w) PROVE OnceInv'
  <2>1. /\ pc[w] \in InTurn /\ pc'[w] \notin InTurn /\ TablesSame /\ OthersSame(w)
        /\ read[w].conv \in Convs
    BY <1>10 DEF Writes, InTurn, TypeInv, Placed
  <2>2. Handled' = Handled /\ Passed(w)' = Passed(w) \cup {Msg(w)}
    <3>1. /\ pos[w] \in DOMAIN Payload[cur[w]] /\ DOMAIN Payload[cur[w]] \subseteq Nat
          /\ pos'[w] = pos[w] + 1 /\ cur'[w] = cur[w] /\ done' = done
      <4>1. pos[w] \in DOMAIN Payload[cur[w]] /\ cur[w] \in Events
        BY <2>1 DEF TypeInv, Placed, InTurn
      <4>2. Payload[cur[w]] \in Seq(Messages)
        BY <4>1, PipelineAssumption
      <4> QED
        BY <1>10, <4>1, <4>2 DEF Writes
    <3>2. Before(w)' = Before(w) \cup {pos[w]}
      BY <3>1 DEF Before
    <3> QED
      BY <3>1, <3>2 DEF MessagesOf, Handled, Passed, Msg
  <2>3. Clean(TurnHist(w), Handled \cup Passed(w) \cup {Msg(w)})
    <3>1. Clean(read[w].hist, Handled \cup Passed(w))
      BY <2>1 DEF OnceInv, HistoriesClean
    <3>2. CASE From(w) \in Terminal
      BY <3>1, <3>2, CleanGrows DEF TurnHist
    <3>3. CASE From(w) \notin Terminal
      <4>1. PICK t : t = [msg |-> Msg(w), from |-> From(w), to |-> To(w)]
        OBVIOUS
      <4>2. t.msg = Msg(w) /\ t.msg \notin Handled \cup Passed(w)
        BY <2>1, <4>1, TurnMessageIsNew DEF OnceInv
      <4>3. t \in [msg : Messages, from : States, to : States]
        <5>1. Msg(w) \in Messages
          BY <2>1, MsgIsMessage DEF InTurn, TypeInv, Placed
        <5>2. From(w) \in States /\ To(w) \in States
          BY ResolveIsState, NextStateIsState DEF From, To, TypeInv, TypeOK
        <5> QED
          BY <4>1, <5>1, <5>2
      <4>4. read[w].hist \in Seq([msg : Messages, from : States, to : States])
        BY DEF TypeInv, TypeOK
      <4>5. TurnHist(w) = Append(read[w].hist, t)
        BY <3>3, <4>1 DEF TurnHist
      <4>6. Clean(Append(read[w].hist, t), (Handled \cup Passed(w)) \cup {t.msg})
        BY <3>1, <4>2, <4>3, <4>4, CleanAppend
      <4> QED
        BY <4>2, <4>5, <4>6
    <3> QED
      BY <3>2, <3>3
  <2>4. \A d \in DOMAIN tx'[w].conv :
          Clean(tx'[w].conv[d].hist, Handled' \cup Passed(w)')
    <3>1. tx'[w].conv = Put(tx[w].conv, read[w].conv, TurnRow(w, ConvSeen(w, read[w].conv)))
      BY <1>10 DEF Writes
    <3>2. \A row : TurnRow(w, row).hist = TurnHist(w)
      BY DEF TurnRow
    <3>3. \A d \in DOMAIN tx[w].conv : Clean(tx[w].conv[d].hist, Handled \cup Passed(w))
      BY DEF OnceInv, HistoriesClean
    <3>4. \A h : Clean(h, Handled \cup Passed(w)) => Clean(h, Handled' \cup Passed(w)')
      BY <2>2, CleanGrows
    <3>5. Clean(TurnHist(w), Handled' \cup Passed(w)')
      BY <2>2, <2>3, CleanGrows
    <3>6. \A d \in DOMAIN tx'[w].conv :
            \/ tx'[w].conv[d].hist = TurnHist(w)
            \/ d \in DOMAIN tx[w].conv /\ tx'[w].conv[d] = tx[w].conv[d]
      BY <3>1, <3>2 DEF Put
    <3> QED
      BY <3>3, <3>4, <3>5, <3>6
  <2> QED
    BY <1>6, <2>1, <2>4
<1>11. ASSUME NEW w \in Workers, Commits(w) PROVE OnceInv'
  <2>1. cur[w] \in Events /\ pos[w] \in Nat /\ done' = done \cup {cur[w]}
    BY <1>11 DEF Commits, TypeInv, TypeOK, Placed
  <2>2. Handled \cup Passed(w) \subseteq Handled'
    BY <2>1 DEF MessagesOf, Handled, Passed, Before
  <2>3. \A c \in Convs : Clean(conv'[c].hist, Handled')
    <3>1. \A c \in Convs : conv'[c] = ConvSeen(w, c)
      BY <1>11 DEF Commits
    <3> QED
      BY <2>2, <3>1, SeenIsClean, CleanGrows DEF OnceInv
  <2>4. DOMAIN tx'[w].conv = {} /\ pc'[w] \notin InTurn /\ OthersSame(w)
    BY <1>11, NoWritesFields DEF Commits, InTurn
  <2> QED
    BY <1>2, <1>3, <2>3, <2>4, OthersStayClean DEF OnceInv, HistoriesClean, OthersSame
<1> QED
  BY <1>1, <1>5, <1>7, <1>8, <1>9, <1>10, <1>11 DEF TurnStep

LEMMA OnceInit == Init => OnceInv
<1> SUFFICES ASSUME Init PROVE OnceInv
  OBVIOUS
<1>1. Stored = {}
  BY DEF Init, Stored
<1>2. \A c \in Convs : conv[c].hist = <<>>
  BY DEF Init
<1>3. \A w \in Workers : DOMAIN tx[w].conv = {} /\ pc[w] \notin InTurn
  BY NoWritesFields DEF Init, InTurn
<1> QED
  BY <1>1, <1>2, <1>3 DEF OnceInv, OneRowPerId, HistoriesClean, Clean

(* A message is a turn of a conversation at most once, whatever is          *)
(* redelivered, crashes or runs beside it, provided that no delivery names  *)
(* a message twice.                                                         *)
THEOREM MessageOnceHolds ==
  ASSUME NoRepetition
  PROVE  Spec => []MessageOnce
<1>1. CASE NoRebatching
  <2>1. TypeInv /\ QueueInv /\ TxOnly /\ OnceInv /\ [Next]_vars => OnceInv'
    BY <1>1, OnceStep
  <2>2. OnceInv => MessageOnce
    BY DEF OnceInv, HistoriesClean, Clean, MessageOnce
  <2> QED
    BY <2>1, <2>2, OnceInit, TypeInvInit, TypeInvNext, QueueInvInit, QueueInvNext,
       TxOnlyHolds, PTL DEF Spec
<1>2. CASE ~NoRebatching
  <2>1. MessageOnce
    BY <1>2 DEF MessageOnce
  <2> QED
    BY <2>1, PTL
<1> QED
  BY <1>1, <1>2

-----------------------------------------------------------------------------
(* History and state.                                                      *)

\* The turns of h follow one another, and the last one led to s.
Joined(h) == \A i \in 1 .. Len(h) - 1 : h[i].to = h[i + 1].from
EndsIn(h, s) == h # <<>> => h[Len(h)].to = s

Explained(r) ==
  /\ Joined(r.hist)
  /\ EndsIn(r.hist, r.state) \/ (r.closed /\ r.state = "closing")

PathInv ==
  /\ \A c \in Convs : Explained(conv[c])
  /\ \A w \in Workers :
       /\ \A c \in DOMAIN tx[w].conv : Explained(tx[w].conv[c])
       /\ pc[w] \in InTurn => Joined(read[w].hist) /\ EndsIn(read[w].hist, read[w].state)

LEMMA JoinedAppend ==
  ASSUME NEW S, NEW h \in Seq(S), NEW t \in S, Joined(h), EndsIn(h, t.from)
  PROVE  Joined(Append(h, t)) /\ EndsIn(Append(h, t), t.to)
<1>1. /\ Len(h) \in Nat /\ Len(Append(h, t)) = Len(h) + 1
      /\ \A i \in 1 .. Len(h) : Append(h, t)[i] = h[i]
      /\ Append(h, t)[Len(h) + 1] = t
  OBVIOUS
<1>2. EndsIn(Append(h, t), t.to)
  BY <1>1 DEF EndsIn
<1>3. ASSUME NEW i \in 1 .. Len(Append(h, t)) - 1
      PROVE  Append(h, t)[i].to = Append(h, t)[i + 1].from
  <2>1. CASE i < Len(h)
    <3>1. i \in 1 .. Len(h) - 1 /\ i \in 1 .. Len(h) /\ i + 1 \in 1 .. Len(h)
      BY <1>1, <1>3, <2>1
    <3> QED
      BY <1>1, <3>1 DEF Joined
  <2>2. CASE i = Len(h)
    <3>1. h # <<>> /\ i \in 1 .. Len(h)
      BY <1>1, <1>3, <2>2
    <3> QED
      BY <1>1, <2>2, <3>1 DEF EndsIn
  <2> QED
    BY <1>1, <1>3, <2>1, <2>2
<1> QED
  BY <1>2, <1>3 DEF Joined

\* The row a turn writes is explained by what the turn read.
LEMMA TurnRowExplained ==
  ASSUME TypeInv, PathInv, NEW w \in Workers, pc[w] \in InTurn, NEW row
  PROVE  Explained(TurnRow(w, row))
<1>1. Joined(read[w].hist) /\ EndsIn(read[w].hist, read[w].state)
  BY DEF PathInv
<1>2. /\ read[w].state \in States
      /\ read[w].hist \in Seq([msg : Messages, from : States, to : States])
      /\ plan[w].calls \in Seq(CallNames)
  BY DEF TypeInv, TypeOK
<1>3. From(w) = read[w].state
  BY <1>2 DEF From, Resolve
<1>4. TurnRow(w, row).state = To(w) /\ TurnRow(w, row).hist = TurnHist(w)
  BY DEF TurnRow
<1>5. CASE From(w) \in Terminal
  <2>1. To(w) = read[w].state /\ TurnHist(w) = read[w].hist
    BY <1>3, <1>5 DEF To, NextState, TurnHist
  <2> QED
    BY <1>1, <1>4, <2>1 DEF Explained
<1>6. CASE From(w) \notin Terminal
  <2>1. PICK t : t = [msg |-> Msg(w), from |-> From(w), to |-> To(w)]
    OBVIOUS
  <2>2. t \in [msg : Messages, from : States, to : States] /\ t.from = From(w) /\ t.to = To(w)
    <3>1. Msg(w) \in Messages
      BY MsgIsMessage DEF TypeInv, Placed, InTurn
    <3>2. To(w) \in States
      BY <1>2, <1>3, NextStateIsState DEF To
    <3> QED
      BY <1>2, <1>3, <2>1, <3>1, <3>2
  <2>3. TurnHist(w) = Append(read[w].hist, t)
    BY <1>6, <2>1 DEF TurnHist
  <2>4. Joined(TurnHist(w)) /\ EndsIn(TurnHist(w), To(w))
    BY <1>1, <1>2, <1>3, <2>2, <2>3, JoinedAppend
  <2> QED
    BY <1>4, <2>4 DEF Explained
<1> QED
  BY <1>5, <1>6

LEMMA PathStep ==
  ASSUME TypeInv, TxOnly, PathInv, [Next]_vars
  PROVE  PathInv'
<1>1. TurnStep
  BY StepIsTurnStep
<1> USE DEF PathInv
<1>2. CASE Outside
  <2>1. ASSUME NEW c \in Convs, NEW o \in Closers, Close(c, o)
        PROVE  \A d \in Convs : Explained(conv'[d])
    <3>1. PICK r : r = [conv[c] EXCEPT !.state = "closing", !.outcome = o, !.closed = TRUE]
      OBVIOUS
    <3>2. conv'[c] = r /\ \A d \in Convs \ {c} : conv'[d] = conv[d]
      BY <2>1, <3>1 DEF Close, TypeInv, TypeOK
    <3>3. r.hist = conv[c].hist /\ r.closed /\ r.state = "closing"
      BY <3>1 DEF TypeInv, TypeOK, ConvRow
    <3> QED
      BY <3>2, <3>3 DEF Explained
  <2>2. \A d \in Convs : Explained(conv'[d])
    BY <1>2, <2>1 DEF Outside
  <2> QED
    BY <1>2, <2>2 DEF Outside, Same
<1>3. ASSUME NEW w \in Workers, Clears(w) PROVE PathInv'
  BY <1>3, NoWritesFields DEF Clears, TablesSame, OthersSame, Same
<1>4. ASSUME NEW w \in Workers, Skips(w) \/ Talks(w) \/ Handles(w) PROVE PathInv'
  BY <1>4 DEF Skips, Talks, Handles, TablesSame, OthersSame, Same, InTurn
<1>5. ASSUME NEW w \in Workers, NEW c \in Convs, Reads(w, c) PROVE PathInv'
  <2>1. Explained(ConvSeen(w, c))
    BY DEF ConvSeen
  <2>2. Joined(read'[w].hist) /\ EndsIn(read'[w].hist, read'[w].state)
    BY <1>5, <2>1 DEF Reads, Explained
  <2> QED
    BY <1>5, <2>2 DEF Reads, TablesSame, OthersSame, Same
<1>6. ASSUME NEW w \in Workers, Writes(w) PROVE PathInv'
  <2>1. \A row : Explained(TurnRow(w, row))
    BY <1>6, TurnRowExplained DEF Writes, InTurn
  <2>2. \A d \in DOMAIN tx'[w].conv : Explained(tx'[w].conv[d])
    BY <1>6, <2>1 DEF Writes, Put
  <2>3. pc'[w] \notin InTurn /\ TablesSame /\ OthersSame(w)
    BY <1>6 DEF Writes, InTurn
  <2> QED
    BY <2>2, <2>3 DEF TablesSame, OthersSame, Same
<1>7. ASSUME NEW w \in Workers, Commits(w) PROVE PathInv'
  <2>1. \A c \in Convs : Explained(conv'[c])
    BY <1>7 DEF Commits, ConvSeen
  <2>2. pc'[w] \notin InTurn /\ OthersSame(w) /\ DOMAIN tx'[w].conv = {}
    BY <1>7, NoWritesFields DEF Commits, InTurn
  <2> QED
    BY <2>1, <2>2 DEF OthersSame, Same
<1> QED
  BY <1>1, <1>2, <1>3, <1>4, <1>5, <1>6, <1>7 DEF TurnStep

(* The stored state of a conversation is where its stored turns lead,        *)
(* although other transactions and operators write the row while a turn is  *)
(* under way.                                                               *)
THEOREM HistoryExplained == Spec => []HistoryExplainsState
<1>1. Init => PathInv
  <2> SUFFICES ASSUME Init PROVE PathInv
    OBVIOUS
  <2>1. \A c \in Convs : conv[c].hist = <<>>
    BY DEF Init
  <2>2. \A w \in Workers : DOMAIN tx[w].conv = {} /\ pc[w] \notin InTurn
    BY NoWritesFields DEF Init, InTurn
  <2>3. Joined(<<>>) /\ \A s : EndsIn(<<>>, s)
    BY DEF Joined, EndsIn
  <2> QED
    BY <2>1, <2>2, <2>3 DEF PathInv, Explained
<1>2. TypeInv /\ TxOnly /\ PathInv /\ [Next]_vars => PathInv'
  BY PathStep
<1>3. PathInv => HistoryExplainsState
  BY DEF PathInv, Explained, Joined, EndsIn, HistoryExplainsState
<1> QED
  BY <1>1, <1>2, <1>3, TypeInvInit, TypeInvNext, TxOnlyHolds, PTL DEF Spec

-----------------------------------------------------------------------------
(* Messages, turns and tickets.                                            *)

Full(R) ==
  \A c \in Convs, m \in Messages : <<c, m, "inbound">> \in R <=> <<c, m, "outbound">> \in R

\* The turns of h, and the tickets of T, are about messages stored in R.
Logged(c, h, R) == \A i \in DOMAIN h : <<c, h[i].msg, "inbound">> \in R
Backed(T, R) == \A t \in T : <<t[1], t[2], "inbound">> \in R

\* The rows of a transaction, once the turn under way has stored its reply.
Owed(w) == tx[w].rows \cup {<<read[w].conv, Msg(w), "outbound">>}

HalfInv ==
  /\ Full(rows)
  /\ \A c \in Convs : Logged(c, conv[c].hist, rows)
  /\ Backed(tickets, rows)
  /\ \A w \in Workers :
       /\ \A c \in DOMAIN tx[w].conv : Logged(c, tx[w].conv[c].hist, rows \cup tx[w].rows)
       /\ Backed(tx[w].tickets, rows \cup tx[w].rows)
       /\ pc[w] \notin InTurn => Full(tx[w].rows)
       /\ pc[w] \in InTurn =>
            /\ Full(Owed(w))
            /\ <<read[w].conv, Msg(w), "inbound">> \in tx[w].rows
            /\ Logged(read[w].conv, read[w].hist, rows \cup tx[w].rows)

LEMMA LoggedGrows ==
  ASSUME NEW Q, NEW R, Q \subseteq R
  PROVE  /\ \A c, h : Logged(c, h, Q) => Logged(c, h, R)
         /\ \A T : Backed(T, Q) => Backed(T, R)
BY DEF Logged, Backed

LEMMA FullUnion ==
  ASSUME NEW Q, NEW R, Full(Q), Full(R)
  PROVE  Full(Q \cup R)
BY DEF Full

LEMMA FullTurn ==
  ASSUME NEW R, Full(R), NEW c, NEW m
  PROVE  Full((R \cup {<<c, m, "inbound">>}) \cup {<<c, m, "outbound">>})
<1> DEFINE N == {<<c, m, "inbound">>, <<c, m, "outbound">>}
<1>1. \A d, n : <<d, n, "inbound">> \in N <=> <<d, n, "outbound">> \in N
  OBVIOUS
<1>2. Full(R \cup N)
  BY <1>1 DEF Full
<1>3. R \cup N = (R \cup {<<c, m, "inbound">>}) \cup {<<c, m, "outbound">>}
  OBVIOUS
<1> QED
  BY <1>2, <1>3

LEMMA LoggedTurn ==
  ASSUME TypeInv, NEW w \in Workers, NEW c, NEW R,
         Logged(c, read[w].hist, R), <<c, Msg(w), "inbound">> \in R
  PROVE  Logged(c, TurnHist(w), R)
<1>1. CASE From(w) \in Terminal
  BY <1>1 DEF TurnHist
<1>2. CASE From(w) \notin Terminal
  <2>1. PICK t : t = [msg |-> Msg(w), from |-> From(w), to |-> To(w)]
    OBVIOUS
  <2>2. PICK h : h = read[w].hist
    OBVIOUS
  <2>3. h \in Seq([msg : Messages, from : States, to : States])
    BY <2>2 DEF TypeInv, TypeOK
  <2>4. /\ DOMAIN Append(h, t) = 1 .. Len(h) + 1 /\ DOMAIN h = 1 .. Len(h) /\ Len(h) \in Nat
        /\ \A i \in 1 .. Len(h) : Append(h, t)[i] = h[i]
        /\ Append(h, t)[Len(h) + 1] = t
    BY <2>3
  <2>5. t.msg = Msg(w) /\ TurnHist(w) = Append(h, t)
    BY <1>2, <2>1, <2>2 DEF TurnHist
  <2>6. \A i \in 1 .. Len(h) + 1 : i \in 1 .. Len(h) \/ i = Len(h) + 1
    BY <2>4
  <2> QED
    BY <2>2, <2>4, <2>5, <2>6 DEF Logged
<1> QED
  BY <1>1, <1>2

\* What a worker has in hand stays in order when another one commits.
LEMMA OthersStayFull ==
  ASSUME HalfInv, rows \subseteq rows', NEW v \in Workers, Same(v)
  PROVE  /\ \A c \in DOMAIN tx'[v].conv : Logged(c, tx'[v].conv[c].hist, rows' \cup tx'[v].rows)
         /\ Backed(tx'[v].tickets, rows' \cup tx'[v].rows)
         /\ pc'[v] \notin InTurn => Full(tx'[v].rows)
         /\ pc'[v] \in InTurn =>
              /\ Full(Owed(v)')
              /\ <<read'[v].conv, Msg(v)', "inbound">> \in tx'[v].rows
              /\ Logged(read'[v].conv, read'[v].hist, rows' \cup tx'[v].rows)
<1>1. /\ tx'[v] = tx[v] /\ read'[v] = read[v] /\ pc'[v] = pc[v]
      /\ Msg(v)' = Msg(v) /\ Owed(v)' = Owed(v)
  BY DEF Same, Msg, Owed
<1>2. rows \cup tx[v].rows \subseteq rows' \cup tx'[v].rows
  BY <1>1
<1>3. /\ \A c \in DOMAIN tx'[v].conv : Logged(c, tx'[v].conv[c].hist, rows' \cup tx'[v].rows)
      /\ Backed(tx'[v].tickets, rows' \cup tx'[v].rows)
      /\ pc'[v] \in InTurn => Logged(read'[v].conv, read'[v].hist, rows' \cup tx'[v].rows)
  <2>1. /\ \A c, h : Logged(c, h, rows \cup tx[v].rows) => Logged(c, h, rows' \cup tx'[v].rows)
        /\ \A T : Backed(T, rows \cup tx[v].rows) => Backed(T, rows' \cup tx'[v].rows)
    BY <1>2, LoggedGrows
  <2> QED
    BY <1>1, <2>1 DEF HalfInv
<1> QED
  BY <1>1, <1>3 DEF HalfInv

LEMMA HalfStep ==
  ASSUME TypeInv, TxOnly, HalfInv, [Next]_vars
  PROVE  HalfInv'
<1>1. TurnStep
  BY StepIsTurnStep
<1>2. rows \subseteq rows'
  BY <1>1 DEF TurnStep, Outside, Clears, Skips, Talks, Handles, Writes, Commits, Reads, TablesSame
<1>3. CASE Outside
  <2>1. \A c \in Convs : conv'[c].hist = conv[c].hist
    <3>1. ASSUME NEW c \in Convs, NEW o \in Closers, Close(c, o)
          PROVE  \A d \in Convs : conv'[d].hist = conv[d].hist
      BY <3>1 DEF Close, TypeInv, TypeOK, ConvRow
    <3> QED
      BY <1>3, <3>1 DEF Outside
  <2>2. UNCHANGED <<rows, tickets>> /\ \A v \in Workers : Same(v)
    BY <1>3 DEF Outside
  <2> QED
    BY <1>2, <2>1, <2>2, OthersStayFull DEF HalfInv
<1>4. ASSUME NEW w \in Workers, TablesSame, OthersSame(w),
             /\ \A c \in DOMAIN tx'[w].conv : Logged(c, tx'[w].conv[c].hist, rows' \cup tx'[w].rows)
             /\ Backed(tx'[w].tickets, rows' \cup tx'[w].rows)
             /\ pc'[w] \notin InTurn => Full(tx'[w].rows)
             /\ pc'[w] \in InTurn =>
                  /\ Full(Owed(w)')
                  /\ <<read'[w].conv, Msg(w)', "inbound">> \in tx'[w].rows
                  /\ Logged(read'[w].conv, read'[w].hist, rows' \cup tx'[w].rows)
      PROVE  HalfInv'
  <2>1. /\ Full(rows') /\ Backed(tickets', rows')
        /\ \A c \in Convs : Logged(c, conv'[c].hist, rows')
    BY <1>4 DEF TablesSame, HalfInv
  <2> QED
    BY <1>2, <1>4, <2>1, OthersStayFull DEF HalfInv, OthersSame
<1>5. ASSUME NEW w \in Workers, Clears(w) PROVE HalfInv'
  <2>1. Full({}) /\ Backed({}, rows')
    BY DEF Full, Backed
  <2> QED
    BY <1>4, <1>5, <2>1, NoWritesFields DEF Clears
<1>6. ASSUME NEW w \in Workers, Skips(w) \/ Talks(w) PROVE HalfInv'
  <2>1. /\ TablesSame /\ OthersSame(w) /\ tx'[w] = tx[w] /\ rows' = rows
        /\ pc'[w] \in InTurn <=> pc[w] \in InTurn
        /\ pc'[w] \in InTurn =>
             read'[w] = read[w] /\ Msg(w)' = Msg(w) /\ Owed(w)' = Owed(w)
    BY <1>6 DEF Skips, Talks, InTurn, TablesSame, Msg, Owed
  <2> QED
    BY <1>4, <2>1 DEF HalfInv
<1>7. ASSUME NEW w \in Workers, Handles(w) PROVE HalfInv'
  <2>1. /\ TablesSame /\ OthersSame(w) /\ rows' = rows
        /\ tx'[w].conv = tx[w].conv /\ tx'[w].rows = tx[w].rows
        /\ pc'[w] \in InTurn /\ pc[w] \in InTurn
        /\ read'[w] = read[w] /\ Msg(w)' = Msg(w) /\ Owed(w)' = Owed(w)
    BY <1>7 DEF Handles, InTurn, TablesSame, Msg, Owed
  <2>2. Backed(tx'[w].tickets, rows \cup tx[w].rows)
    <3>1. \A t \in tx'[w].tickets :
            t \in tx[w].tickets \/ (t[1] = read[w].conv /\ t[2] = Msg(w))
      BY <1>7 DEF Handles
    <3> QED
      BY <2>1, <3>1 DEF HalfInv, Backed
  <2> QED
    BY <1>4, <2>1, <2>2 DEF HalfInv
<1>8. ASSUME NEW w \in Workers, NEW c \in Convs, Reads(w, c) PROVE HalfInv'
  <2>1. /\ TablesSame /\ OthersSame(w) /\ rows' = rows
        /\ tx'[w].conv = tx[w].conv /\ tx'[w].tickets = tx[w].tickets
        /\ tx'[w].rows = tx[w].rows \cup {<<c, Msg(w), "inbound">>}
        /\ pc[w] \notin InTurn /\ pc'[w] \in InTurn
        /\ read'[w].conv = c /\ read'[w].hist = ConvSeen(w, c).hist /\ Msg(w)' = Msg(w)
    BY <1>8 DEF Reads, InTurn, TablesSame
  <2>2. rows \cup tx[w].rows \subseteq rows' \cup tx'[w].rows
    BY <2>1
  <2>3. Logged(c, ConvSeen(w, c).hist, rows' \cup tx'[w].rows)
    <3>1. Logged(c, ConvSeen(w, c).hist, rows \cup tx[w].rows)
      BY LoggedGrows DEF HalfInv, ConvSeen
    <3> QED
      BY <2>2, <3>1, LoggedGrows
  <2>4. Full(Owed(w)')
    BY <2>1, FullTurn DEF HalfInv, Owed
  <2>5. /\ \A d \in DOMAIN tx'[w].conv : Logged(d, tx'[w].conv[d].hist, rows' \cup tx'[w].rows)
        /\ Backed(tx'[w].tickets, rows' \cup tx'[w].rows)
    <3>1. /\ \A d, h : Logged(d, h, rows \cup tx[w].rows) => Logged(d, h, rows' \cup tx'[w].rows)
          /\ \A T : Backed(T, rows \cup tx[w].rows) => Backed(T, rows' \cup tx'[w].rows)
      BY <2>2, LoggedGrows
    <3> QED
      BY <2>1, <3>1 DEF HalfInv
  <2> QED
    BY <1>4, <2>1, <2>3, <2>4, <2>5
<1>9. ASSUME NEW w \in Workers, Writes(w) PROVE HalfInv'
  <2>1. /\ TablesSame /\ OthersSame(w) /\ rows' = rows
        /\ tx'[w].conv = Put(tx[w].conv, read[w].conv, TurnRow(w, ConvSeen(w, read[w].conv)))
        /\ tx'[w].tickets = tx[w].tickets /\ tx'[w].rows = Owed(w)
        /\ pc[w] \in InTurn /\ pc'[w] \notin InTurn
    BY <1>9 DEF Writes, InTurn, TablesSame, Owed
  <2>2. rows \cup tx[w].rows \subseteq rows' \cup tx'[w].rows
    BY <2>1 DEF Owed
  <2>3. \A row : TurnRow(w, row).hist = TurnHist(w)
    BY DEF TurnRow
  <2>4. /\ \A d, h : Logged(d, h, rows \cup tx[w].rows) => Logged(d, h, rows' \cup tx'[w].rows)
        /\ \A T : Backed(T, rows \cup tx[w].rows) => Backed(T, rows' \cup tx'[w].rows)
    BY <2>2, LoggedGrows
  <2>5. Logged(read[w].conv, TurnHist(w), rows' \cup tx'[w].rows)
    <3>1. /\ Logged(read[w].conv, read[w].hist, rows \cup tx[w].rows)
          /\ <<read[w].conv, Msg(w), "inbound">> \in rows \cup tx[w].rows
      BY <2>1 DEF HalfInv
    <3> QED
      BY <2>4, <3>1, LoggedTurn
  <2>6. \A d \in DOMAIN tx'[w].conv : Logged(d, tx'[w].conv[d].hist, rows' \cup tx'[w].rows)
    <3>1. \A d \in DOMAIN tx[w].conv : Logged(d, tx[w].conv[d].hist, rows' \cup tx'[w].rows)
      BY <2>4 DEF HalfInv
    <3>2. \A d \in DOMAIN tx'[w].conv :
            \/ d = read[w].conv /\ tx'[w].conv[d].hist = TurnHist(w)
            \/ d \in DOMAIN tx[w].conv /\ tx'[w].conv[d] = tx[w].conv[d]
      BY <2>1, <2>3 DEF Put
    <3> QED
      BY <2>5, <3>1, <3>2
  <2>7. Backed(tx'[w].tickets, rows' \cup tx'[w].rows) /\ Full(tx'[w].rows)
    BY <2>1, <2>4 DEF HalfInv
  <2> QED
    BY <1>4, <2>1, <2>6, <2>7
<1>10. ASSUME NEW w \in Workers, Commits(w) PROVE HalfInv'
  <2>1. /\ OthersSame(w) /\ pc[w] \notin InTurn /\ pc'[w] \notin InTurn
        /\ rows' = rows \cup tx[w].rows /\ tickets' = tickets \cup tx[w].tickets
        /\ \A c \in Convs : conv'[c] = ConvSeen(w, c)
        /\ DOMAIN tx'[w].conv = {} /\ tx'[w].tickets = {} /\ tx'[w].rows = {}
    BY <1>10, NoWritesFields DEF Commits, InTurn
  <2>2. Full(rows')
    BY <2>1, FullUnion DEF HalfInv
  <2>3. \A c \in Convs : Logged(c, conv'[c].hist, rows')
    BY <1>2, <2>1, LoggedGrows DEF HalfInv, ConvSeen
  <2>4. Backed(tickets', rows')
    BY <2>1 DEF HalfInv, Backed
  <2>5. Full({}) /\ Backed({}, rows')
    BY DEF Full, Backed
  <2> QED
    BY <1>2, <2>1, <2>2, <2>3, <2>4, <2>5, OthersStayFull DEF HalfInv, OthersSame
<1> QED
  BY <1>1, <1>3, <1>5, <1>6, <1>7, <1>8, <1>9, <1>10 DEF TurnStep

LEMMA HalfInit == Init => HalfInv
<1> SUFFICES ASSUME Init PROVE HalfInv
  OBVIOUS
<1>1. rows = {} /\ tickets = {} /\ \A c \in Convs : conv[c].hist = <<>>
  BY DEF Init
<1>2. \A w \in Workers : tx[w] = NoWrites /\ pc[w] \notin InTurn
  BY DEF Init, InTurn
<1> QED
  BY <1>1, <1>2, NoWritesFields DEF HalfInv, Full, Logged, Backed

-----------------------------------------------------------------------------
(* Whole deliveries.                                                       *)

\* m is stored in R, or its sender has no open conversation among those seen.
Told(m, R) == \E c \in Convs : CustomerOf[c] = Sender[m] /\ <<c, m, "inbound">> \in R
Deaf(m) == \A c \in Convs : CustomerOf[c] = Sender[m] => conv[c].closed
DeafTo(w, m) == \A c \in Convs : CustomerOf[c] = Sender[m] => ConvSeen(w, c).closed

\* w is between messages or inside a turn that has stored its message.
StoresOwn(w) ==
  /\ \A r \in tx[w].rows : r[2] \in MessagesOf(cur[w])
  /\ pc[w] \in InTx =>
       \A i \in Before(w) :
         Told(Payload[cur[w]][i], tx[w].rows) \/ DeafTo(w, Payload[cur[w]][i])
  /\ pc[w] \in InTurn =>
       CustomerOf[read[w].conv] = Sender[Msg(w)] /\ <<read[w].conv, Msg(w), "inbound">> \in tx[w].rows

WholeInv ==
  /\ \A r \in rows : r[2] \in Handled
  /\ \A e \in done \cap Routed : \A m \in MessagesOf(e) : Told(m, rows) \/ Deaf(m)
  /\ \A w \in Workers : StoresOwn(w)

LEMMA ToldGrows ==
  ASSUME NEW Q, NEW R, Q \subseteq R, NEW m, Told(m, Q)
  PROVE  Told(m, R)
BY DEF Told

LEMMA DeafStays ==
  ASSUME OnlyLater, NEW m, Deaf(m)
  PROVE  Deaf(m)'
BY DEF OnlyLater, Later, Deaf

\* What w sees closed stays closed while its own versions do.
LEMMA DeafToStays ==
  ASSUME OnlyLater, NEW w \in Workers, NEW m, DeafTo(w, m), tx'[w].conv = tx[w].conv
  PROVE  DeafTo(w, m)'
BY DEF OnlyLater, Later, DeafTo, ConvSeen

LEMMA PositionsAreNumbers ==
  ASSUME TypeInv, NEW w \in Workers, pc[w] \in InTx
  PROVE  DOMAIN Payload[cur[w]] \subseteq Nat \ {0} /\ pos[w] \in Nat
<1>1. cur[w] \in Events /\ pos[w] \in Nat
  BY DEF TypeInv, TypeOK, Placed, InTx
<1> QED
  BY <1>1, PipelineAssumption

\* What the others have in hand stays so when w moves.
LEMMA OthersStoreOwn ==
  ASSUME OnlyLater, NEW v \in Workers, Same(v), StoresOwn(v)
  PROVE  StoresOwn(v)'
<1>1. /\ tx'[v] = tx[v] /\ read'[v] = read[v] /\ pc'[v] = pc[v] /\ cur'[v] = cur[v]
      /\ Msg(v)' = Msg(v) /\ Before(v)' = Before(v)
  BY DEF Same, Msg, Before
<1>2. \A m : DeafTo(v, m) => DeafTo(v, m)'
  BY <1>1, DeafToStays
<1> QED
  BY <1>1, <1>2 DEF StoresOwn, MessagesOf, Told

\* Nothing is committed but deliveries without messages of this system.
LEMMA TablesKept ==
  ASSUME WholeInv, OnlyLater, rows' = rows, done \subseteq done',
         \A e \in done' \ done : e \notin Routed \/ Payload[e] = <<>>
  PROVE  /\ \A r \in rows' : r[2] \in Handled'
         /\ \A e \in done' \cap Routed : \A m \in MessagesOf(e) : Told(m, rows') \/ Deaf(m)'
<1>1. Handled \subseteq Handled'
  BY DEF Handled, MessagesOf
<1>2. \A e \in done' \ done : e \in Routed => MessagesOf(e) = {}
  BY DEF MessagesOf
<1>3. ASSUME NEW e \in done' \cap Routed, NEW m \in MessagesOf(e)
      PROVE  Told(m, rows') \/ Deaf(m)'
  <2>1. Told(m, rows) \/ Deaf(m)
    BY <1>2, <1>3 DEF WholeInv
  <2> QED
    BY <2>1, DeafStays
<1> QED
  BY <1>1, <1>3 DEF WholeInv

LEMMA WholeStep ==
  ASSUME TypeInv, TxOnly, ConvInv, WholeInv, [Next]_vars
  PROVE  WholeInv'
<1>1. TurnStep /\ OnlyLater
  BY StepIsTurnStep, ConvInvNext
<1>2. CASE Outside
  <2>1. UNCHANGED <<rows, done>> /\ \A v \in Workers : Same(v)
    BY <1>2 DEF Outside
  <2> QED
    BY <1>1, <2>1, TablesKept, OthersStoreOwn DEF WholeInv
<1>3. ASSUME NEW w \in Workers, TablesSame, OthersSame(w), done \subseteq done',
             \A e \in done' \ done : e \notin Routed \/ Payload[e] = <<>>,
             StoresOwn(w)'
      PROVE  WholeInv'
  BY <1>1, <1>3, TablesKept, OthersStoreOwn DEF WholeInv, OthersSame, TablesSame
<1>4. ASSUME NEW w \in Workers, Clears(w) PROVE WholeInv'
  <2>1. pc'[w] \in InTx => Before(w)' = {}
    <3>1. ASSUME pc'[w] \in InTx PROVE DOMAIN Payload[cur'[w]] \subseteq Nat \ {0}
      <4>1. TypeInv'
        BY TypeInvNext
      <4>2. cur'[w] \in Events
        BY <3>1, <4>1 DEF TypeInv, Placed, InTx
      <4> QED
        BY <4>2, PipelineAssumption
    <3> QED
      BY <1>4, <3>1 DEF Clears, Before
  <2>2. StoresOwn(w)'
    BY <1>4, <2>1, NoWritesFields DEF Clears, StoresOwn
  <2> QED
    BY <1>3, <1>4, <2>2 DEF Clears
<1>5. ASSUME NEW w \in Workers, Skips(w) PROVE WholeInv'
  <2>1. /\ tx'[w] = tx[w] /\ cur'[w] = cur[w] /\ pc[w] = "message" /\ pc'[w] = "message"
        /\ pos'[w] = pos[w] + 1 /\ TablesSame /\ OthersSame(w) /\ done' = done
        /\ DeafTo(w, Msg(w))
    BY <1>5 DEF Skips, DeafTo
  <2>2. Before(w)' \subseteq Before(w) \cup {pos[w]}
    BY <2>1, PositionsAreNumbers DEF Before, InTx
  <2>3. ASSUME NEW i \in Before(w)'
        PROVE  Told(Payload[cur'[w]][i], tx'[w].rows) \/ DeafTo(w, Payload[cur[w]][i])'
    <3>1. Told(Payload[cur[w]][i], tx[w].rows) \/ DeafTo(w, Payload[cur[w]][i])
      BY <2>1, <2>2 DEF WholeInv, StoresOwn, InTx, Msg
    <3> QED
      BY <1>1, <2>1, <3>1, DeafToStays
  <2>4. StoresOwn(w)'
    <3>1. \A r \in tx'[w].rows : r[2] \in MessagesOf(cur'[w])
      BY <2>1 DEF WholeInv, StoresOwn
    <3> QED
      BY <2>1, <2>3, <3>1 DEF StoresOwn, InTurn
  <2> QED
    BY <1>3, <2>1, <2>4
<1>6. ASSUME NEW w \in Workers, Talks(w) \/ Handles(w) PROVE WholeInv'
  <2>1. /\ tx'[w].conv = tx[w].conv /\ tx'[w].rows = tx[w].rows
        /\ cur'[w] = cur[w] /\ read'[w] = read[w] /\ pos'[w] = pos[w]
        /\ pc[w] \in InTurn /\ pc'[w] \in InTurn /\ TablesSame /\ OthersSame(w) /\ done' = done
    BY <1>6 DEF Talks, Handles, InTurn
  <2>2. Before(w)' = Before(w) /\ Msg(w)' = Msg(w) /\ pc[w] \in InTx
    BY <2>1 DEF Before, Msg, InTurn, InTx
  <2>3. \A m : DeafTo(w, m) => DeafTo(w, m)'
    BY <1>1, <2>1, DeafToStays
  <2>4. \A i \in Before(w)' :
          Told(Payload[cur'[w]][i], tx'[w].rows) \/ DeafTo(w, Payload[cur[w]][i])'
    BY <2>1, <2>2, <2>3 DEF WholeInv, StoresOwn
  <2>5. /\ \A r \in tx'[w].rows : r[2] \in MessagesOf(cur'[w])
        /\ CustomerOf[read'[w].conv] = Sender[Msg(w)']
        /\ <<read'[w].conv, Msg(w)', "inbound">> \in tx'[w].rows
    BY <2>1, <2>2 DEF WholeInv, StoresOwn
  <2>6. StoresOwn(w)'
    BY <2>1, <2>4, <2>5 DEF StoresOwn
  <2> QED
    BY <1>3, <2>1, <2>6
<1>7. ASSUME NEW w \in Workers, NEW c \in Convs, Reads(w, c) PROVE WholeInv'
  <2>1. /\ tx'[w].conv = tx[w].conv /\ tx'[w].rows = tx[w].rows \cup {<<c, Msg(w), "inbound">>}
        /\ cur'[w] = cur[w] /\ pos'[w] = pos[w] /\ Msg(w)' = Msg(w) /\ read'[w].conv = c
        /\ pc[w] = "message" /\ CustomerOf[c] = Sender[Msg(w)]
        /\ TablesSame /\ OthersSame(w) /\ done' = done
    BY <1>7 DEF Reads
  <2>2. Before(w)' = Before(w)
    BY <2>1 DEF Before
  <2>3. Msg(w) \in MessagesOf(cur[w])
    <3>1. pos'[w] \in DOMAIN Payload[cur'[w]]
      BY <1>7, TypeInvNext DEF TypeInv, Placed, InTurn, Reads
    <3> QED
      BY <2>1, <3>1 DEF MessagesOf, Msg
  <2>4. \A m : /\ DeafTo(w, m) => DeafTo(w, m)'
               /\ Told(m, tx[w].rows) => Told(m, tx'[w].rows)
    BY <1>1, <2>1, DeafToStays DEF Told
  <2>5. \A i \in Before(w)' :
          Told(Payload[cur'[w]][i], tx'[w].rows) \/ DeafTo(w, Payload[cur[w]][i])'
    BY <2>1, <2>2, <2>4 DEF WholeInv, StoresOwn, InTx
  <2>6. \A r \in tx'[w].rows : r[2] \in MessagesOf(cur'[w])
    <3>1. \A r \in tx[w].rows : r[2] \in MessagesOf(cur[w])
      BY DEF WholeInv, StoresOwn
    <3>2. ASSUME NEW r \in tx'[w].rows, r \notin tx[w].rows PROVE r[2] = Msg(w)
      BY <2>1, <3>2
    <3> QED
      BY <2>1, <2>3, <3>1, <3>2
  <2>7. StoresOwn(w)'
    BY <2>1, <2>5, <2>6 DEF StoresOwn
  <2> QED
    BY <1>3, <2>1, <2>7
<1>8. ASSUME NEW w \in Workers, Writes(w) PROVE WholeInv'
  <2>1. /\ tx'[w].rows = tx[w].rows \cup {<<read[w].conv, Msg(w), "outbound">>}
        /\ tx'[w].conv = Put(tx[w].conv, read[w].conv, TurnRow(w, ConvSeen(w, read[w].conv)))
        /\ cur'[w] = cur[w] /\ pos'[w] = pos[w] + 1
        /\ pc[w] \in InTurn /\ pc[w] \in InTx /\ pc'[w] = "message"
        /\ TablesSame /\ OthersSame(w) /\ done' = done
    BY <1>8 DEF Writes, InTurn, InTx
  <2>2. /\ CustomerOf[read[w].conv] = Sender[Msg(w)] /\ read[w].conv \in Convs
        /\ <<read[w].conv, Msg(w), "inbound">> \in tx[w].rows
    BY <2>1 DEF WholeInv, StoresOwn, TypeInv, Placed
  <2>3. Msg(w) \in MessagesOf(cur[w])
    BY <2>1, <2>2 DEF WholeInv, StoresOwn
  <2>4. Told(Msg(w), tx'[w].rows)
    BY <2>1, <2>2 DEF Told
  <2>5. \A m : DeafTo(w, m) => DeafTo(w, m)'
    <3>1. ASSUME NEW c \in Convs, ConvSeen(w, c).closed PROVE ConvSeen(w, c)'.closed
      <4>1. CASE c = read[w].conv
        <5>1. tx'[w].conv[c] = TurnRow(w, ConvSeen(w, c)) /\ c \in DOMAIN tx'[w].conv
          BY <2>1, <4>1 DEF Put
        <5>2. TurnRow(w, ConvSeen(w, c)).closed
                = (ConvSeen(w, c).closed \/ Finished(From(w), plan[w].calls))
          BY DEF TurnRow
        <5>3. TurnRow(w, ConvSeen(w, c)).closed
          BY <3>1, <5>2
        <5>4. ConvSeen(w, c)' = TurnRow(w, ConvSeen(w, c))
          BY <5>1 DEF ConvSeen
        <5> QED
          BY <5>3, <5>4
      <4>2. CASE c # read[w].conv
        <5>1. /\ c \in DOMAIN tx'[w].conv <=> c \in DOMAIN tx[w].conv
              /\ c \in DOMAIN tx[w].conv => tx'[w].conv[c] = tx[w].conv[c]
          BY <2>1, <4>2 DEF Put
        <5> QED
          BY <1>1, <3>1, <5>1 DEF ConvSeen, OnlyLater, Later
      <4> QED
        BY <4>1, <4>2
    <3> QED
      BY <3>1 DEF DeafTo
  <2>6. Before(w)' \subseteq Before(w) \cup {pos[w]}
    BY <2>1, PositionsAreNumbers DEF Before
  <2>7. ASSUME NEW i \in Before(w)'
        PROVE  Told(Payload[cur'[w]][i], tx'[w].rows) \/ DeafTo(w, Payload[cur[w]][i])'
    <3>1. CASE i = pos[w]
      BY <2>1, <2>4, <3>1 DEF Msg
    <3>2. CASE i \in Before(w)
      <4>1. Told(Payload[cur[w]][i], tx[w].rows) \/ DeafTo(w, Payload[cur[w]][i])
        BY <2>1, <3>2 DEF WholeInv, StoresOwn
      <4> QED
        BY <2>1, <2>5, <4>1, ToldGrows
    <3> QED
      BY <2>6, <3>1, <3>2
  <2>8. \A r \in tx'[w].rows : r[2] \in MessagesOf(cur'[w])
    <3>1. \A r \in tx[w].rows : r[2] \in MessagesOf(cur[w])
      BY DEF WholeInv, StoresOwn
    <3>2. ASSUME NEW r \in tx'[w].rows, r \notin tx[w].rows PROVE r[2] = Msg(w)
      BY <2>1, <3>2
    <3> QED
      BY <2>1, <2>3, <3>1, <3>2
  <2>9. StoresOwn(w)'
    BY <2>1, <2>7, <2>8 DEF StoresOwn, InTurn
  <2> QED
    BY <1>3, <2>1, <2>9
<1>9. ASSUME NEW w \in Workers, Commits(w) PROVE WholeInv'
  <2>1. /\ OthersSame(w) /\ pc[w] \in InTx /\ pc'[w] = "idle" /\ tx'[w].rows = {}
        /\ rows' = rows \cup tx[w].rows /\ done' = done \cup {cur[w]}
        /\ \A c \in Convs : conv'[c] = ConvSeen(w, c)
        /\ pos[w] > Len(Payload[cur[w]])
    BY <1>9, NoWritesFields DEF Commits, InTx
  <2>2. Handled' = Handled \cup MessagesOf(cur[w])
    BY <2>1 DEF Handled, MessagesOf
  <2>3. \A r \in rows' : r[2] \in Handled'
    BY <2>1, <2>2 DEF WholeInv, StoresOwn
  <2>4. \A i \in DOMAIN Payload[cur[w]] : i \in Before(w)
    BY <2>1, PipelineAssumption DEF Before, TypeInv, TypeOK, Placed, InTx
  <2>5. ASSUME NEW m \in MessagesOf(cur[w]) PROVE Told(m, rows') \/ Deaf(m)'
    <3>1. Told(m, tx[w].rows) \/ DeafTo(w, m)
      BY <2>1, <2>4 DEF WholeInv, StoresOwn, MessagesOf
    <3> QED
      BY <2>1, <3>1, ToldGrows DEF DeafTo, Deaf
  <2>6. ASSUME NEW e \in done \cap Routed, NEW m \in MessagesOf(e)
        PROVE  Told(m, rows') \/ Deaf(m)'
    BY <1>1, <2>1, ToldGrows, DeafStays DEF WholeInv
  <2>7. StoresOwn(w)'
    BY <2>1 DEF StoresOwn, InTx, InTurn
  <2> QED
    BY <1>1, <2>1, <2>3, <2>5, <2>6, <2>7, OthersStoreOwn DEF WholeInv, OthersSame
<1> QED
  BY <1>1, <1>2, <1>4, <1>5, <1>6, <1>7, <1>8, <1>9 DEF TurnStep

LEMMA WholeInit == Init => WholeInv
<1> SUFFICES ASSUME Init PROVE WholeInv
  OBVIOUS
<1>1. rows = {} /\ done = {}
  BY DEF Init
<1>2. \A w \in Workers : tx[w].rows = {} /\ pc[w] \notin InTx /\ pc[w] \notin InTurn
  BY NoWritesFields DEF Init, InTx, InTurn
<1> QED
  BY <1>1, <1>2 DEF WholeInv, StoresOwn

-----------------------------------------------------------------------------
(* Replies.                                                                *)

\* A delivery nobody handles and nobody will: it failed or was lost.
Abandoned(e) ==
  /\ e \in processed \ done
  /\ \A w \in Workers : cur[w] = e => pc[w] = "failing"

\* The open transaction of w has the reply r, or is about to store it.
Pending(w, r) ==
  /\ pc[w] \in InTx
  /\ r[2] \in MessagesOf(cur[w])
  /\ \/ <<r[1], r[2], "outbound">> \in tx[w].rows
     \/ pc[w] = "write" /\ r[1] = read[w].conv /\ r[2] = Msg(w)

Accounted(r) ==
  \/ <<r[1], r[2], "outbound">> \in rows
  \/ \E e \in Events : Abandoned(e) /\ r[2] \in MessagesOf(e)
  \/ \E w \in Workers : Pending(w, r)

SentInv == \A r \in sent : Accounted(r)

LEMMA AbandonedStays ==
  ASSUME QueueInv, [Next]_vars, NEW e \in Events, Abandoned(e)
  PROVE  Abandoned(e)'
<1> USE DEF Abandoned, QueueInv
<1>1. CASE UNCHANGED vars \/ \E f \in Events : Receive(f)
  BY <1>1 DEF vars, Receive
<1>2. CASE \E c \in Convs, o \in Closers : Close(c, o)
  BY <1>2 DEF Close, queue
<1>3. ASSUME NEW w \in Workers, PickLock(w) PROVE Abandoned(e)'
  <2>1. cur'[w] # e
    BY <1>3 DEF PickLock, Pickable
  <2> QED
    BY <1>3, <2>1 DEF PickLock, Goto, queue
<1>4. ASSUME NEW w \in Workers, PickCommit(w) \/ Drop(w) \/ Start(w) \/ Commit(w) PROVE Abandoned(e)'
  <2>1. cur[w] # e
    BY <1>4 DEF PickCommit, Drop, Start, Commit
  <2> QED
    BY <1>4, <2>1, PipelineAssumption DEF PickCommit, Drop, Start, Commit, Goto, Release, queue
<1>5. ASSUME NEW w \in Workers,
             Skip(w) \/ ReadConversation(w) \/ Step(w) \/ Handlers(w) \/ Reply(w) \/ Write(w)
      PROVE  Abandoned(e)'
  <2>1. /\ cur[w] # e /\ UNCHANGED <<processed, done, cur>>
        /\ \A v \in Workers \ {w} : pc'[v] = pc[v]
    BY <1>5 DEF Skip, ReadConversation, Step, Handlers, Reply, Write, AtMessage, Goto, queue
  <2> QED
    BY <2>1
<1>6. ASSUME NEW w \in Workers,
             \/ RejectContent(w) \/ DeadlockAbort(w) \/ Fail(w) \/ ReplyFails(w)
             \/ MarkError(w) \/ MarkErrorFails(w) \/ Crash(w)
      PROVE  Abandoned(e)'
  BY <1>6, PipelineAssumption
     DEF RejectContent, DeadlockAbort, Fail, ReplyFails, MarkError, MarkErrorFails, Crash,
         Goto, Release, queue
<1>7. CASE \E w \in Workers : Poll(w)
  BY <1>7 DEF Poll, vars
<1> QED
  BY <1>1, <1>2, <1>3, <1>4, <1>5, <1>6, <1>7 DEF Next, Advance, Break

LEMMA PendingKept ==
  ASSUME NEW r, NEW v \in Workers, Same(v), Pending(v, r)
  PROVE  Pending(v, r)'
BY DEF Same, Pending, MessagesOf, Msg

\* A turn that goes on keeps the replies of its delivery.
LEMMA PendingGoesOn ==
  ASSUME NEW w \in Workers, NEW r, Pending(w, r),
         \/ Skips(w) \/ Talks(w) \/ Handles(w) \/ Writes(w)
         \/ \E c \in Convs : Reads(w, c)
  PROVE  Pending(w, r)'
<1>1. /\ cur'[w] = cur[w] /\ pc'[w] \in InTx /\ tx[w].rows \subseteq tx'[w].rows
  BY DEF Skips, Talks, Handles, Writes, Reads, InTurn, InTx
<1>2. pc[w] = "write" => <<read[w].conv, Msg(w), "outbound">> \in tx'[w].rows
  BY DEF Skips, Talks, Handles, Writes, Reads
<1> QED
  BY <1>1, <1>2 DEF Pending, MessagesOf

LEMMA SentStep ==
  ASSUME TypeInv, QueueInv, TxOnly, SentInv, [Next]_vars
  PROVE  SentInv'
<1>1. TurnStep /\ \A e \in Events : Abandoned(e) => Abandoned(e)'
  BY StepIsTurnStep, AbandonedStays
<1>2. rows \subseteq rows'
  BY <1>1 DEF TurnStep, Outside, Clears, Skips, Talks, Handles, Writes, Commits, Reads, TablesSame
\* What is not pending is accounted for whatever happens.
<1>3. ASSUME NEW r, Accounted(r), \A w \in Workers : Pending(w, r) => Accounted(r)'
      PROVE  Accounted(r)'
  BY <1>1, <1>2, <1>3 DEF Accounted, MessagesOf
<1>4. ASSUME NEW v \in Workers, NEW r, Same(v), Pending(v, r) PROVE Accounted(r)'
  BY <1>4, PendingKept DEF Accounted
<1>5. CASE Outside
  BY <1>3, <1>4, <1>5 DEF Outside, SentInv
<1>6. ASSUME NEW w \in Workers, OthersSame(w),
             \A r : Pending(w, r) => Accounted(r)',
             \A r \in sent' \ sent : Accounted(r)'
      PROVE  SentInv'
  BY <1>3, <1>4, <1>6 DEF SentInv, OthersSame
<1>7. ASSUME NEW w \in Workers, Clears(w) PROVE SentInv'
  <2>1. CASE pc[w] \in InTx
    <3>1. PICK e \in Events : e = cur[w]
      BY <2>1 DEF TypeInv, Placed, InTx
    <3>2. e \in processed \ done /\ \A v \in Workers \ {w} : cur[v] # e
      BY <2>1, <3>1 DEF QueueInv, OneHolder, Holding, InTx
    <3>3. processed \subseteq processed' /\ done' = done
      BY <1>7, <2>1, StepIsQueueStep
         DEF Clears, QueueStep, Receive, PickLock, PickCommit, Inner, Settle, Unpick, queue
    <3>4. /\ cur'[w] = e => pc'[w] = "failing"
          /\ \A v \in Workers \ {w} : cur'[v] # e
      BY <1>7, <2>1, <3>1, <3>2, PipelineAssumption DEF Clears, OthersSame, Same
    <3>5. Abandoned(e)'
      BY <3>2, <3>3, <3>4 DEF Abandoned
    <3>6. \A r : r[2] \in MessagesOf(e) => Accounted(r)'
      BY <3>5 DEF Accounted, MessagesOf
    <3>7. \A r : Pending(w, r) => Accounted(r)'
      BY <3>1, <3>6 DEF Pending
    <3>8. pc[w] = "send" => Msg(w) \in MessagesOf(e)
      BY <3>1 DEF TypeInv, Placed, InTurn, MessagesOf, Msg
    <3>9. \A r \in sent' \ sent : r[2] \in MessagesOf(e)
      BY <1>7, <3>8 DEF Clears
    <3> QED
      BY <1>6, <1>7, <3>6, <3>7, <3>9 DEF Clears
  <2>2. CASE pc[w] \notin InTx
    <3>1. sent' = sent /\ \A r : ~Pending(w, r)
      BY <1>7, <2>2 DEF Clears, Pending, InTx
    <3> QED
      BY <1>6, <1>7, <3>1 DEF Clears
  <2> QED
    BY <2>1, <2>2
<1>8. ASSUME NEW w \in Workers,
             \/ Skips(w) \/ Talks(w) \/ Handles(w) \/ Writes(w)
             \/ \E c \in Convs : Reads(w, c)
      PROVE  SentInv'
  <2>1. \A r : Pending(w, r) => Accounted(r)'
    BY <1>8, PendingGoesOn DEF Accounted
  <2>2. ASSUME NEW r \in sent' \ sent PROVE Accounted(r)'
    <3>1. /\ pc[w] = "send" /\ pc'[w] = "write" /\ r = <<read[w].conv, Msg(w)>>
          /\ read'[w] = read[w] /\ pos'[w] = pos[w] /\ cur'[w] = cur[w]
      BY <1>8, <2>2 DEF Skips, Talks, Handles, Writes, Reads
    <3>2. Msg(w)' = Msg(w) /\ Msg(w) \in MessagesOf(cur[w])
      BY <3>1 DEF TypeInv, Placed, InTurn, MessagesOf, Msg
    <3>3. Pending(w, r)'
      BY <3>1, <3>2 DEF Pending, InTx, MessagesOf
    <3> QED
      BY <3>3 DEF Accounted
  <2>3. OthersSame(w)
    BY <1>8 DEF Skips, Talks, Handles, Writes, Reads
  <2> QED
    BY <1>6, <2>1, <2>2, <2>3
<1>9. ASSUME NEW w \in Workers, Commits(w) PROVE SentInv'
  <2>1. OthersSame(w) /\ sent' = sent /\ rows' = rows \cup tx[w].rows /\ pc[w] = "message"
    BY <1>9 DEF Commits
  <2>2. \A r : Pending(w, r) => Accounted(r)'
    BY <2>1 DEF Pending, Accounted
  <2> QED
    BY <1>6, <2>1, <2>2
<1> QED
  BY <1>1, <1>5, <1>7, <1>8, <1>9 DEF TurnStep

LEMMA SentInit == Init => SentInv
BY DEF Init, SentInv

(* A delivery is stored whole or not at all, for any number of workers and   *)
(* deliveries of any length and whatever fails, deadlocks or dies: rows of   *)
(* committed deliveries only, in pairs, one for every message of such a      *)
(* delivery that finds an open conversation, and none missing for a reply    *)
(* that was sent, unless its delivery did not commit.                        *)
THEOREM NoHalfDeliveryHolds == Spec => []NoHalfDelivery
<1>1. TypeInv /\ TxOnly /\ HalfInv /\ [Next]_vars => HalfInv'
  BY HalfStep
<1>2. TypeInv /\ TxOnly /\ ConvInv /\ WholeInv /\ [Next]_vars => WholeInv'
  BY WholeStep
<1>3. TypeInv /\ QueueInv /\ TxOnly /\ SentInv /\ [Next]_vars => SentInv'
  BY SentStep
<1>4. QueueInv /\ HalfInv /\ WholeInv /\ SentInv => NoHalfDelivery
  <2> SUFFICES ASSUME QueueInv, HalfInv, WholeInv, SentInv PROVE NoHalfDelivery
    OBVIOUS
  <2>1. ASSUME NEW r \in sent
        PROVE  \/ <<r[1], r[2], "outbound">> \in rows
               \/ \E e \in processed \ done : r[2] \in MessagesOf(e)
    <3>1. ASSUME NEW w \in Workers, Pending(w, r)
          PROVE  \E e \in processed \ done : r[2] \in MessagesOf(e)
      BY <3>1 DEF Pending, QueueInv, OneHolder, Holding, InTx
    <3> QED
      BY <3>1 DEF SentInv, Accounted, Abandoned
  <2> QED
    BY <2>1 DEF HalfInv, Full, Logged, Backed, WholeInv, Told, Deaf, NoHalfDelivery
<1> QED
  BY <1>1, <1>2, <1>3, <1>4, HalfInit, WholeInit, SentInit, TypeInvInit, TypeInvNext,
     TxOnlyHolds, ConvInvHolds, QueueInvHolds, PTL DEF Spec

-----------------------------------------------------------------------------
(* Decisions on the order.                                                 *)

Queued(o, T) == \E t \in T : OrderOf[t[1]] = o

ToOperators == {"escalated", "change_request"}

TicketInv ==
  /\ \A o \in Orders : status[o] \in ToOperators => Queued(o, tickets)
  /\ \A w \in Workers : \A o \in DOMAIN tx[w].status :
       tx[w].status[o] \in ToOperators => Queued(o, tickets \cup tx[w].tickets)

\* Some conversation of o has an outcome, as w sees it.
Decided(w, o) == \E c \in Convs : OrderOf[c] = o /\ ConvSeen(w, c).outcome # None

\* The turn under way will give a conversation of o one.
Deciding(w, o) ==
  /\ pc[w] \in {"send", "write"}
  /\ OrderOf[read[w].conv] = o
  /\ TurnOutcome(From(w), plan[w].calls) # None

DecisionInv ==
  /\ DecisionHasOutcome
  /\ \A w \in Workers : \A o \in DOMAIN tx[w].status :
       tx[w].status[o] \in Decisions => Decided(w, o) \/ Deciding(w, o)

\* The status a response gives the order is that of its last effectful call.
LEMMA LastCallSets ==
  ASSUME NEW s \in States, NEW calls \in Seq(CallNames), Uses(s, calls, Effectful) # {},
         NEW i, i = Last(Uses(s, calls, Effectful))
  PROVE  /\ i \in DOMAIN calls /\ calls[i] \in AllowedTools[s] \cap Effectful
         /\ s \notin Terminal
         /\ \A st : StatusAfter(st, s, calls) = StatusSetBy[calls[i]]
<1>1. Uses(s, calls, Effectful) \in SUBSET (1 .. Len(calls)) /\ Len(calls) \in Nat
  BY UsesArePositions
<1>2. i \in Uses(s, calls, Effectful)
  BY <1>1, LastIsMember
<1> QED
  BY <1>2 DEF Uses, StatusAfter

LEMMA EscalationIsTicketed ==
  ASSUME NEW st, NEW s \in States, NEW calls \in Seq(CallNames),
         StatusAfter(st, s, calls) \in ToOperators
  PROVE  st \in ToOperators \/ TicketCalls(s, calls) # {}
<1>1. CASE Uses(s, calls, Effectful) = {}
  BY <1>1 DEF StatusAfter
<1>2. CASE Uses(s, calls, Effectful) # {}
  <2>1. PICK i : i = Last(Uses(s, calls, Effectful))
    OBVIOUS
  <2>2. /\ i \in DOMAIN calls /\ calls[i] \in AllowedTools[s] \cap Effectful
        /\ s \notin Terminal /\ StatusSetBy[calls[i]] \in ToOperators
    BY <1>2, <2>1, LastCallSets
  <2>3. calls[i] \in Escalating
    BY <2>2 DEF StatusSetBy, ToOperators, Escalating, Effectful, Tools
  <2>4. i \in TicketCalls(s, calls)
    BY <2>2, <2>3 DEF TicketCalls, Uses
  <2> QED
    BY <2>4
<1> QED
  BY <1>1, <1>2

LEMMA DecisionHasTurnOutcome ==
  ASSUME NEW st, NEW s \in States, NEW calls \in Seq(CallNames)
  PROVE  StatusAfter(st, s, calls) = st \/ TurnOutcome(s, calls) # None
<1>1. CASE Uses(s, calls, Effectful) = {}
  BY <1>1 DEF StatusAfter
<1>2. CASE Uses(s, calls, Effectful) # {}
  <2>1. PICK i : i = First(Uses(s, calls, Effectful))
    OBVIOUS
  <2>2. i \in Uses(s, calls, Effectful)
    BY <1>2, <2>1, UsesArePositions, FirstIsMember
  <2>3. calls[i] \in Effectful
    BY <2>2 DEF Uses
  <2>4. OutcomeOfTool[calls[i]] # None
    BY <2>3 DEF OutcomeOfTool, StatusSetBy, Effectful, Tools, None
  <2> QED
    BY <1>2, <2>1, <2>4 DEF TurnOutcome
<1> QED
  BY <1>1, <1>2

\* What the handlers make of the order's status.
LEMMA HandledStatus ==
  ASSUME TypeInv, NEW w \in Workers, Handles(w)
  PROVE  /\ From(w) \in States /\ plan[w].calls \in Seq(CallNames)
         /\ \A o \in DOMAIN tx'[w].status :
              \/ o \in DOMAIN tx[w].status /\ tx'[w].status[o] = tx[w].status[o]
              \/ /\ o = OrderOf[read[w].conv]
                 /\ tx'[w].status[o] =
                      StatusAfter(StatusSeen(w, o), From(w), plan[w].calls)
<1>1. From(w) \in States /\ plan[w].calls \in Seq(CallNames)
  BY ResolveIsState DEF From, TypeInv, TypeOK
<1> QED
  BY <1>1 DEF Handles, Put

LEMMA TicketStep ==
  ASSUME TypeInv, TxOnly, TicketInv, [Next]_vars
  PROVE  TicketInv'
<1>1. TurnStep
  BY StepIsTurnStep
<1>2. ASSUME NEW T, NEW U, T \subseteq U PROVE \A o : Queued(o, T) => Queued(o, U)
  BY <1>2 DEF Queued
<1> USE DEF TicketInv
<1>3. CASE Outside
  BY <1>3 DEF Outside, Same
<1>4. ASSUME NEW w \in Workers, Clears(w) PROVE TicketInv'
  BY <1>4, NoWritesFields DEF Clears, TablesSame, OthersSame, Same
<1>5. ASSUME NEW w \in Workers,
             Skips(w) \/ Talks(w) \/ Writes(w) \/ (\E c \in Convs : Reads(w, c))
      PROVE  TicketInv'
  <2>1. /\ TablesSame /\ OthersSame(w)
        /\ tx'[w].status = tx[w].status /\ tx'[w].tickets = tx[w].tickets
    BY <1>5 DEF Skips, Talks, Writes, Reads
  <2> QED
    BY <2>1 DEF TablesSame, OthersSame, Same
<1>6. ASSUME NEW w \in Workers, Handles(w) PROVE TicketInv'
  <2>1. PICK T : T = {<<read[w].conv, Msg(w), i>> : i \in TicketCalls(From(w), plan[w].calls)}
    OBVIOUS
  <2>2. /\ TablesSame /\ OthersSame(w) /\ tx'[w].tickets = tx[w].tickets \cup T
    BY <1>6, <2>1 DEF Handles
  <2>3. \A o : Queued(o, tickets \cup tx[w].tickets) => Queued(o, tickets \cup tx'[w].tickets)
    BY <1>2, <2>2
  <2>4. ASSUME NEW o \in DOMAIN tx'[w].status, tx'[w].status[o] \in ToOperators
        PROVE  Queued(o, tickets \cup tx'[w].tickets)
    <3>1. CASE o \in DOMAIN tx[w].status /\ tx'[w].status[o] = tx[w].status[o]
      BY <2>3, <2>4, <3>1
    <3>2. CASE /\ o = OrderOf[read[w].conv]
               /\ tx'[w].status[o] = StatusAfter(StatusSeen(w, o), From(w), plan[w].calls)
      <4>1. CASE TicketCalls(From(w), plan[w].calls) # {}
        <5>1. PICK i \in TicketCalls(From(w), plan[w].calls) : TRUE
          BY <4>1
        <5>2. PICK t : t = <<read[w].conv, Msg(w), i>>
          OBVIOUS
        <5>3. t \in tx'[w].tickets /\ t[1] = read[w].conv
          BY <2>1, <2>2, <5>1, <5>2
        <5> QED
          BY <3>2, <5>3 DEF Queued
      <4>2. CASE StatusSeen(w, o) \in ToOperators
        <5>1. o \in Orders
          BY <1>6, <3>2, PipelineAssumption DEF Handles, TypeInv, Placed, InTurn
        <5>2. Queued(o, tickets \cup tx[w].tickets)
          <6>1. CASE o \in DOMAIN tx[w].status
            BY <4>2, <6>1 DEF StatusSeen
          <6>2. CASE o \notin DOMAIN tx[w].status
            <7>1. Queued(o, tickets)
              BY <4>2, <5>1, <6>2 DEF StatusSeen
            <7> QED
              BY <1>2, <7>1
          <6> QED
            BY <6>1, <6>2
        <5> QED
          BY <2>3, <5>2
      <4> QED
        BY <1>6, <2>4, <3>2, <4>1, <4>2, HandledStatus, EscalationIsTicketed
    <3> QED
      BY <1>6, <3>1, <3>2, HandledStatus
  <2> QED
    BY <2>2, <2>4 DEF TablesSame, OthersSame, Same
<1>7. ASSUME NEW w \in Workers, Commits(w) PROVE TicketInv'
  <2>1. /\ OthersSame(w) /\ tickets' = tickets \cup tx[w].tickets
        /\ \A o \in Orders : status'[o] = StatusSeen(w, o)
        /\ DOMAIN tx'[w].status = {}
    BY <1>7, NoWritesFields DEF Commits
  <2>2. /\ \A o : Queued(o, tickets) => Queued(o, tickets')
        /\ \A v \in Workers : \A o :
             Queued(o, tickets \cup tx[v].tickets) => Queued(o, tickets' \cup tx[v].tickets)
    BY <2>1 DEF Queued
  <2>3. \A o \in Orders : status'[o] \in ToOperators => Queued(o, tickets')
    BY <2>1, <2>2 DEF StatusSeen
  <2> QED
    BY <2>1, <2>2, <2>3 DEF OthersSame, Same
<1> QED
  BY <1>1, <1>3, <1>4, <1>5, <1>6, <1>7 DEF TurnStep

(* An order whose status sends it to the operators is in their queue: the    *)
(* handler's two statements are committed together, and a later handler     *)
(* that overwrites the status leaves the ticket.                            *)
THEOREM EscalationTicketed == Spec => []EscalationHasTicket
<1>1. Init => TicketInv
  <2> SUFFICES ASSUME Init PROVE TicketInv
    OBVIOUS
  <2>1. \A o \in Orders : status[o] = "dispatched"
    BY DEF Init
  <2>2. \A w \in Workers : DOMAIN tx[w].status = {}
    BY NoWritesFields DEF Init
  <2> QED
    BY <2>1, <2>2 DEF TicketInv, ToOperators
<1>2. TypeInv /\ TxOnly /\ TicketInv /\ [Next]_vars => TicketInv'
  BY TicketStep
<1>3. TicketInv => EscalationHasTicket
  BY DEF TicketInv, ToOperators, Queued, EscalationHasTicket
<1> QED
  BY <1>1, <1>2, <1>3, TypeInvInit, TypeInvNext, TxOnlyHolds, PTL DEF Spec

LEMMA DecisionStep ==
  ASSUME TypeInv, ConvInv, TxOnly, DecisionInv, [Next]_vars
  PROVE  DecisionInv'
<1>1. TurnStep /\ OnlyLater
  BY StepIsTurnStep, ConvInvNext
<1> USE DEF DecisionInv
<1>2. \A c \in Convs : conv[c].outcome # None => conv'[c].outcome # None
  BY <1>1 DEF OnlyLater, Later
<1>3. status' = status => DecisionHasOutcome'
  BY <1>2 DEF DecisionHasOutcome
<1>4. ASSUME NEW v \in Workers, Same(v), NEW o \in DOMAIN tx'[v].status,
             tx'[v].status[o] \in Decisions
      PROVE  Decided(v, o)' \/ Deciding(v, o)'
  <2>1. Decided(v, o) \/ Deciding(v, o)
    BY <1>4 DEF Same
  <2>2. Decided(v, o) => Decided(v, o)'
    BY <1>2, <1>4 DEF Decided, ConvSeen, Same
  <2>3. Deciding(v, o) => Deciding(v, o)'
    BY <1>4 DEF Deciding, Same, From
  <2> QED
    BY <2>1, <2>2, <2>3
<1>5. CASE Outside
  BY <1>3, <1>4, <1>5 DEF Outside
<1>6. ASSUME NEW w \in Workers, TablesSame, OthersSame(w),
             \A o \in DOMAIN tx'[w].status :
               tx'[w].status[o] \in Decisions => Decided(w, o)' \/ Deciding(w, o)'
      PROVE  DecisionInv'
  BY <1>3, <1>4, <1>6 DEF TablesSame, OthersSame
<1>7. ASSUME NEW w \in Workers, Clears(w) PROVE DecisionInv'
  BY <1>6, <1>7, NoWritesFields DEF Clears
<1>8. ASSUME NEW w \in Workers,
             Skips(w) \/ Talks(w) \/ (\E c \in Convs : Reads(w, c))
      PROVE  DecisionInv'
  <2>1. /\ TablesSame /\ OthersSame(w)
        /\ tx'[w].status = tx[w].status /\ tx'[w].conv = tx[w].conv
    BY <1>8 DEF Skips, Talks, Reads
  <2>2. \A o : Decided(w, o) => Decided(w, o)'
    BY <2>1 DEF Decided, ConvSeen, TablesSame
  <2>3. \A o : Deciding(w, o) => Deciding(w, o)'
    BY <1>8 DEF Skips, Talks, Reads, Deciding, From
  <2> QED
    BY <1>6, <2>1, <2>2, <2>3
<1>9. ASSUME NEW w \in Workers, Handles(w) PROVE DecisionInv'
  <2>1. /\ TablesSame /\ OthersSame(w) /\ tx'[w].conv = tx[w].conv
        /\ pc[w] \notin {"send", "write"} /\ pc'[w] \in {"send", "write"}
        /\ read'[w] = read[w] /\ plan'[w] = plan[w]
    BY <1>9 DEF Handles
  <2>2. \A o : Decided(w, o) => Decided(w, o)'
    BY <2>1 DEF Decided, ConvSeen, TablesSame
  <2>3. From(w)' = From(w)
    BY <2>1 DEF From
  <2>4. ASSUME NEW o \in DOMAIN tx'[w].status, tx'[w].status[o] \in Decisions
        PROVE  Decided(w, o)' \/ Deciding(w, o)'
    <3>1. CASE o \in DOMAIN tx[w].status /\ tx'[w].status[o] = tx[w].status[o]
      BY <2>1, <2>2, <2>4, <3>1 DEF Deciding
    <3>2. CASE /\ o = OrderOf[read[w].conv]
               /\ tx'[w].status[o] = StatusAfter(StatusSeen(w, o), From(w), plan[w].calls)
      <4>1. CASE TurnOutcome(From(w), plan[w].calls) # None
        BY <2>1, <2>3, <3>2, <4>1 DEF Deciding
      <4>2. CASE StatusSeen(w, o) = tx'[w].status[o]
        <5>1. o \in Orders
          BY <1>9, <3>2, PipelineAssumption DEF Handles, TypeInv, Placed, InTurn
        <5>2. CASE o \in DOMAIN tx[w].status
          BY <2>1, <2>2, <2>4, <4>2, <5>2 DEF StatusSeen, Deciding
        <5>3. CASE o \notin DOMAIN tx[w].status
          <6>1. status[o] \in Decisions
            BY <2>4, <4>2, <5>3 DEF StatusSeen
          <6>2. PICK c \in Convs : OrderOf[c] = o /\ conv[c].outcome # None
            BY <5>1, <6>1 DEF DecisionHasOutcome
          <6>3. ConvSeen(w, c).outcome # None
            BY <6>2, SeenIsLater DEF Later
          <6> QED
            BY <2>2, <6>2, <6>3 DEF Decided
        <5> QED
          BY <5>2, <5>3
      <4> QED
        BY <1>9, <3>2, <4>1, <4>2, HandledStatus, DecisionHasTurnOutcome
    <3> QED
      BY <1>9, <3>1, <3>2, HandledStatus
  <2> QED
    BY <1>6, <2>1, <2>4
<1>10. ASSUME NEW w \in Workers, Writes(w) PROVE DecisionInv'
  <2>1. /\ TablesSame /\ OthersSame(w) /\ tx'[w].status = tx[w].status
        /\ tx'[w].conv = Put(tx[w].conv, read[w].conv, TurnRow(w, ConvSeen(w, read[w].conv)))
        /\ read[w].conv \in Convs
    BY <1>10 DEF Writes, TypeInv, Placed, InTurn
  <2>2. \A c \in Convs : ConvSeen(w, c)' =
          IF c = read[w].conv THEN TurnRow(w, ConvSeen(w, c)) ELSE ConvSeen(w, c)
    BY <2>1 DEF ConvSeen, Put, TablesSame
  <2>3. \A row : TurnRow(w, row).outcome =
                   Coalesce(TurnOutcome(From(w), plan[w].calls), row.outcome)
    BY DEF TurnRow
  <2>4. \A o : Decided(w, o) => Decided(w, o)'
    BY <2>2, <2>3 DEF Decided, Coalesce
  <2>5. \A o : Deciding(w, o) => Decided(w, o)'
    BY <2>1, <2>2, <2>3 DEF Decided, Deciding, Coalesce
  <2> QED
    BY <1>6, <2>1, <2>4, <2>5
<1>11. ASSUME NEW w \in Workers, Commits(w) PROVE DecisionInv'
  <2>1. /\ OthersSame(w) /\ pc[w] = "message" /\ DOMAIN tx'[w].status = {}
        /\ \A o \in Orders : status'[o] = StatusSeen(w, o)
        /\ \A c \in Convs : conv'[c] = ConvSeen(w, c)
    BY <1>11, NoWritesFields DEF Commits
  <2>2. ASSUME NEW o \in Orders, status'[o] \in Decisions
        PROVE  \E c \in Convs : OrderOf[c] = o /\ conv'[c].outcome # None
    <3>1. CASE o \in DOMAIN tx[w].status
      <4>1. Decided(w, o)
        BY <2>1, <2>2, <3>1 DEF StatusSeen, Deciding
      <4> QED
        BY <2>1, <4>1 DEF Decided
    <3>2. CASE o \notin DOMAIN tx[w].status
      <4>1. status[o] \in Decisions
        BY <2>1, <2>2, <3>2 DEF StatusSeen
      <4> QED
        BY <1>2, <4>1 DEF DecisionHasOutcome
    <3> QED
      BY <3>1, <3>2
  <2>3. DecisionHasOutcome'
    BY <2>2 DEF DecisionHasOutcome
  <2> QED
    BY <1>4, <2>1, <2>3 DEF OthersSame
<1> QED
  BY <1>1, <1>5, <1>7, <1>8, <1>9, <1>10, <1>11 DEF TurnStep

(* An order that carries the customer's decision has a conversation with an  *)
(* outcome: the handlers' UPDATE and the conversation's are committed       *)
(* together, and no concurrent turn or close takes an outcome back.         *)
THEOREM DecisionsHaveOutcome == Spec => []DecisionHasOutcome
<1>1. Init => DecisionInv
  <2> SUFFICES ASSUME Init PROVE DecisionInv
    OBVIOUS
  <2>1. \A o \in Orders : status[o] = "dispatched"
    BY DEF Init
  <2>2. \A w \in Workers : DOMAIN tx[w].status = {}
    BY NoWritesFields DEF Init
  <2> QED
    BY <2>1, <2>2 DEF DecisionInv, DecisionHasOutcome, Decisions
<1>2. TypeInv /\ ConvInv /\ TxOnly /\ DecisionInv /\ [Next]_vars => DecisionInv'
  BY DecisionStep
<1>3. DecisionInv => DecisionHasOutcome
  BY DEF DecisionInv
<1> QED
  BY <1>1, <1>2, <1>3, ConvInvHolds, TxOnlyHolds, PTL DEF Spec

-----------------------------------------------------------------------------
(* One worker.                                                             *)

Mentions(h, m) == \E i \in DOMAIN h : h[i].msg = m

CompleteInv ==
  /\ HistoryComplete
  /\ \A w \in Workers :
       /\ \A c \in Convs, m \in Messages :
            <<c, m, "inbound">> \in rows \cup tx[w].rows =>
              \/ Mentions(ConvSeen(w, c).hist, m)
              \/ pc[w] \in InTurn /\ c = read[w].conv /\ m = Msg(w)
       /\ pc[w] \in InTurn =>
            /\ read[w].hist = ConvSeen(w, read[w].conv).hist
            /\ read[w].state \notin Terminal

LEMMA MentionsAppend ==
  ASSUME NEW S, NEW h \in Seq(S), NEW t \in S
  PROVE  /\ Mentions(Append(h, t), t.msg)
         /\ \A m : Mentions(h, m) => Mentions(Append(h, t), m)
<1>1. /\ DOMAIN Append(h, t) = 1 .. Len(h) + 1 /\ DOMAIN h = 1 .. Len(h) /\ Len(h) \in Nat
      /\ \A i \in 1 .. Len(h) : Append(h, t)[i] = h[i]
      /\ Append(h, t)[Len(h) + 1] = t
  OBVIOUS
<1>2. 1 .. Len(h) \subseteq 1 .. Len(h) + 1 /\ Len(h) + 1 \in 1 .. Len(h) + 1
  BY <1>1
<1> QED
  BY <1>1, <1>2 DEF Mentions

\* A turn keeps the turns it has read and adds its message to them.
LEMMA TurnMentions ==
  ASSUME TypeInv, CompleteInv, NEW w \in Workers, pc[w] \in InTurn
  PROVE  /\ Mentions(TurnHist(w), Msg(w))
         /\ \A m : Mentions(ConvSeen(w, read[w].conv).hist, m) => Mentions(TurnHist(w), m)
<1>1. PICK t : t = [msg |-> Msg(w), from |-> From(w), to |-> To(w)]
  OBVIOUS
<1>2. t \in [msg : Messages, from : States, to : States] /\ t.msg = Msg(w)
  <2>1. Msg(w) \in Messages
    BY MsgIsMessage DEF TypeInv, Placed, InTurn
  <2>2. From(w) \in States /\ To(w) \in States
    BY ResolveIsState, NextStateIsState DEF From, To, TypeInv, TypeOK
  <2> QED
    BY <1>1, <2>1, <2>2
<1>3. /\ read[w].hist \in Seq([msg : Messages, from : States, to : States])
      /\ read[w].state \in States
  BY DEF TypeInv, TypeOK
<1>4. From(w) \notin Terminal /\ read[w].hist = ConvSeen(w, read[w].conv).hist
  BY <1>3 DEF CompleteInv, From, Resolve
<1>5. TurnHist(w) = Append(read[w].hist, t)
  BY <1>1, <1>4 DEF TurnHist
<1>6. PICK h : h = read[w].hist
  OBVIOUS
<1>7. /\ Mentions(Append(h, t), t.msg)
      /\ \A m : Mentions(h, m) => Mentions(Append(h, t), m)
  BY <1>2, <1>3, <1>6, MentionsAppend
<1> QED
  BY <1>2, <1>4, <1>5, <1>6, <1>7

LEMMA CompleteStep ==
  ASSUME OneWorker, TypeInv, ConvInv, TxOnly, CompleteInv, [Next]_vars
  PROVE  CompleteInv'
<1>1. TurnStep
  BY StepIsTurnStep
<1> USE DEF CompleteInv
<1>2. CASE Outside
  <2>1. \A c \in Convs : conv'[c].hist = conv[c].hist
    <3>1. ASSUME NEW c \in Convs, NEW o \in Closers, Close(c, o)
          PROVE  \A d \in Convs : conv'[d].hist = conv[d].hist
      BY <3>1 DEF Close, TypeInv, TypeOK, ConvRow
    <3> QED
      BY <1>2, <3>1 DEF Outside
  <2>2. rows' = rows /\ \A w \in Workers : Same(w) /\ Msg(w)' = Msg(w)
    BY <1>2 DEF Outside, Same, Msg
  <2>3. \A w \in Workers : \A c \in Convs : ConvSeen(w, c)'.hist = ConvSeen(w, c).hist
    BY <2>1, <2>2 DEF ConvSeen, Same
  <2>4. HistoryComplete'
    BY <2>1, <2>2 DEF HistoryComplete, Mentions
  <2>5. \A w \in Workers : pc[w] \in InTurn => read[w].conv \in Convs
    BY DEF TypeInv, Placed
  <2> QED
    BY <2>2, <2>3, <2>4, <2>5 DEF Same
<1>3. ASSUME NEW w \in Workers, TablesSame,
             \A c \in Convs, m \in Messages :
               <<c, m, "inbound">> \in rows \cup tx'[w].rows =>
                 \/ Mentions(ConvSeen(w, c)'.hist, m)
                 \/ pc'[w] \in InTurn /\ c = read'[w].conv /\ m = Msg(w)',
             pc'[w] \in InTurn =>
               /\ read'[w].hist = ConvSeen(w, read[w].conv)'.hist
               /\ read'[w].state \notin Terminal
      PROVE  CompleteInv'
  <2>1. HistoryComplete'
    BY <1>3 DEF TablesSame, HistoryComplete
  <2>2. \A v \in Workers : v = w
    BY DEF OneWorker
  <2> QED
    BY <1>3, <2>1, <2>2 DEF TablesSame
<1>4. ASSUME NEW w \in Workers, Clears(w) PROVE CompleteInv'
  <2>1. /\ TablesSame /\ pc'[w] \notin InTurn /\ tx'[w].rows = {}
        /\ \A c : ConvSeen(w, c)' = conv[c]
    BY <1>4, NoWritesFields DEF Clears, ConvSeen, TablesSame
  <2>2. \A c \in Convs, m \in Messages :
          <<c, m, "inbound">> \in rows => Mentions(conv[c].hist, m)
    BY DEF HistoryComplete, Mentions
  <2> QED
    BY <1>3, <2>1, <2>2
<1>5. ASSUME NEW w \in Workers, Skips(w) \/ Talks(w) \/ Handles(w) PROVE CompleteInv'
  <2>1. /\ TablesSame /\ tx'[w].conv = tx[w].conv /\ tx'[w].rows = tx[w].rows
        /\ pc'[w] \in InTurn <=> pc[w] \in InTurn
        /\ pc'[w] \in InTurn => read'[w] = read[w] /\ Msg(w)' = Msg(w)
    BY <1>5 DEF Skips, Talks, Handles, InTurn, Msg
  <2>2. \A c : ConvSeen(w, c)' = ConvSeen(w, c)
    BY <2>1 DEF ConvSeen, TablesSame
  <2> QED
    BY <1>3, <2>1, <2>2
<1>6. ASSUME NEW w \in Workers, NEW d \in Convs, Reads(w, d) PROVE CompleteInv'
  <2>1. /\ TablesSame /\ tx'[w].conv = tx[w].conv
        /\ tx'[w].rows = tx[w].rows \cup {<<d, Msg(w), "inbound">>}
        /\ pc[w] \notin InTurn /\ pc'[w] \in InTurn /\ Msg(w)' = Msg(w)
        /\ read'[w].conv = d /\ read'[w].hist = ConvSeen(w, d).hist
        /\ read'[w].state = ConvSeen(w, d).state /\ ~ConvSeen(w, d).closed
    BY <1>6 DEF Reads, InTurn
  <2>2. \A c : ConvSeen(w, c)' = ConvSeen(w, c)
    BY <2>1 DEF ConvSeen, TablesSame
  <2>3. read'[w].state \notin Terminal
    BY <2>1, SeenIsLater DEF Shut
  <2> QED
    BY <1>3, <2>1, <2>2, <2>3
<1>7. ASSUME NEW w \in Workers, Writes(w) PROVE CompleteInv'
  <2>1. /\ TablesSame /\ pc[w] \in InTurn /\ pc'[w] \notin InTurn
        /\ tx'[w].conv = Put(tx[w].conv, read[w].conv, TurnRow(w, ConvSeen(w, read[w].conv)))
        /\ tx'[w].rows = tx[w].rows \cup {<<read[w].conv, Msg(w), "outbound">>}
    BY <1>7 DEF Writes, InTurn
  <2>2. \A c \in Convs : ConvSeen(w, c)'.hist =
          IF c = read[w].conv THEN TurnHist(w) ELSE ConvSeen(w, c).hist
    <3>1. \A row : TurnRow(w, row).hist = TurnHist(w)
      BY DEF TurnRow
    <3> QED
      BY <2>1, <3>1 DEF ConvSeen, Put, TablesSame
  <2>3. ASSUME NEW c \in Convs, NEW m \in Messages,
               <<c, m, "inbound">> \in rows \cup tx'[w].rows
        PROVE  Mentions(ConvSeen(w, c)'.hist, m)
    <3>1. <<c, m, "inbound">> \in rows \cup tx[w].rows
      BY <2>1, <2>3
    <3> QED
      BY <2>1, <2>2, <3>1, TurnMentions
  <2> QED
    BY <1>3, <2>1, <2>3
<1>8. ASSUME NEW w \in Workers, Commits(w) PROVE CompleteInv'
  <2>1. /\ rows' = rows \cup tx[w].rows /\ pc[w] \notin InTurn /\ pc'[w] \notin InTurn
        /\ \A c \in Convs : conv'[c] = ConvSeen(w, c)
        /\ tx'[w].rows = {} /\ DOMAIN tx'[w].conv = {}
    BY <1>8, NoWritesFields DEF Commits, InTurn
  <2>2. \A c \in Convs, m \in Messages :
          <<c, m, "inbound">> \in rows' => Mentions(conv'[c].hist, m)
    BY <2>1
  <2>3. HistoryComplete'
    BY <2>2 DEF HistoryComplete, Mentions
  <2>4. \A c \in Convs : ConvSeen(w, c)' = conv'[c]
    BY <2>1 DEF ConvSeen
  <2>5. \A v \in Workers : v = w
    BY DEF OneWorker
  <2> QED
    BY <2>1, <2>2, <2>3, <2>4, <2>5
<1> QED
  BY <1>1, <1>2, <1>4, <1>5, <1>6, <1>7, <1>8 DEF TurnStep

LEMMA CompleteInit == Init => CompleteInv
<1> SUFFICES ASSUME Init PROVE CompleteInv
  OBVIOUS
<1>1. rows = {} /\ \A w \in Workers : tx[w] = NoWrites /\ pc[w] \notin InTurn
  BY DEF Init, InTurn
<1> QED
  BY <1>1, NoWritesFields DEF CompleteInv, HistoryComplete

(* With the single wa_event loop that run_all starts, every stored message   *)
(* of the customer is a turn of the history the next LLM call is given.     *)
THEOREM HistoryIsComplete ==
  ASSUME OneWorker
  PROVE  Spec => []HistoryComplete
<1>1. TypeInv /\ ConvInv /\ TxOnly /\ CompleteInv /\ [Next]_vars => CompleteInv'
  BY CompleteStep
<1>2. CompleteInv => HistoryComplete
  BY DEF CompleteInv
<1> QED
  BY <1>1, <1>2, CompleteInit, ConvInvHolds, TxOnlyHolds, PTL DEF Spec

-----------------------------------------------------------------------------
(* What a transaction has done to the watched conversation.                *)

\* w is in a turn of the watched conversation.
Mine(w) == pc[w] \in InTurn /\ read[w].conv = Watched

Untouched(w) ==
  /\ Watched \notin DOMAIN tx[w].conv
  /\ OrderOf[Watched] \notin DOMAIN tx[w].status
  /\ CustomerOf[Watched] \notin DOMAIN tx[w].fakes
  /\ \A t \in tx[w].tickets : t[1] # Watched

\* The handlers have run, for calls made in state s about message m.
Effects(w, s, calls, m) ==
  /\ StatusSeen(w, OrderOf[Watched]) = StatusAfter(status[OrderOf[Watched]], s, calls)
  /\ FakesSeen(w, CustomerOf[Watched])
       = fakes[CustomerOf[Watched]] + WrongNumberCount(s, calls)
  /\ \A t \in tx[w].tickets :
       t[1] = Watched => \E i \in TicketCalls(s, calls) : t = <<Watched, m, i>>
  /\ \A i \in TicketCalls(s, calls) : <<Watched, m, i>> \in tx[w].tickets

\* The row after a turn.
TurnOf(row, r, m) ==
  [state   |-> NextState(row.state, r.calls),
   hist    |-> Append(row.hist, [msg |-> m, from |-> row.state,
                                 to |-> NextState(row.state, r.calls)]),
   outcome |-> Coalesce(TurnOutcome(row.state, r.calls), row.outcome),
   closed  |-> Finished(row.state, r.calls)]

Turned(w, r, m) ==
  /\ ~conv[Watched].closed
  /\ Watched \in DOMAIN tx[w].conv
  /\ tx[w].conv[Watched] = TurnOf(conv[Watched], r, m)
  /\ Effects(w, conv[Watched].state, r.calls, m)

\* w has gone past a message of the customer.
Heard(w) == \E i \in Before(w) : Sender[Payload[cur[w]][i]] = CustomerOf[Watched]

\* One turn was taken of the row as it is committed, or none.
Settled(w) ==
  \/ Untouched(w)
  \/ Heard(w) /\ \E r \in Responses, m \in Messages : Turned(w, r, m)

\* A turn is under way, of the row as it is committed.
UnderWay(w) ==
  /\ ~conv[Watched].closed /\ Watched \notin DOMAIN tx[w].conv
  /\ Sender[Msg(w)] = CustomerOf[Watched]
  /\ read[w].state = conv[Watched].state /\ read[w].hist = conv[Watched].hist
  /\ pc[w] \in {"llm", "tools"} => Untouched(w)
  /\ pc[w] # "llm" => plan[w] \in Responses
  /\ pc[w] \in {"send", "write"} =>
       Effects(w, conv[Watched].state, plan[w].calls, Msg(w))

ViewInv ==
  \A w \in Workers : (Mine(w) => UnderWay(w)) /\ (~Mine(w) => Settled(w))

\* A step of w leaves the rows of the watched conversation in tx[w] alone.
SameView(w) ==
  LET c == Watched
      o == OrderOf[Watched]
      k == CustomerOf[Watched]
  IN
  /\ c \in DOMAIN tx'[w].conv <=> c \in DOMAIN tx[w].conv
  /\ c \in DOMAIN tx[w].conv => tx'[w].conv[c] = tx[w].conv[c]
  /\ o \in DOMAIN tx'[w].status <=> o \in DOMAIN tx[w].status
  /\ o \in DOMAIN tx[w].status => tx'[w].status[o] = tx[w].status[o]
  /\ k \in DOMAIN tx'[w].fakes <=> k \in DOMAIN tx[w].fakes
  /\ k \in DOMAIN tx[w].fakes => tx'[w].fakes[k] = tx[w].fakes[k]
  /\ tx[w].tickets \subseteq tx'[w].tickets
  /\ \A t \in tx'[w].tickets : t[1] = c => t \in tx[w].tickets

LEMMA ViewKept ==
  ASSUME NEW w \in Workers, UNCHANGED <<conv, status, fakes>>, SameView(w)
  PROVE  /\ Untouched(w)' <=> Untouched(w)
         /\ \A s, calls, m : Effects(w, s, calls, m) => Effects(w, s, calls, m)'
         /\ \A r, m : Turned(w, r, m) => Turned(w, r, m)'
<1>1. /\ StatusSeen(w, OrderOf[Watched])' = StatusSeen(w, OrderOf[Watched])
      /\ FakesSeen(w, CustomerOf[Watched])' = FakesSeen(w, CustomerOf[Watched])
  BY DEF SameView, StatusSeen, FakesSeen
<1>2. Untouched(w)' <=> Untouched(w)
  BY DEF SameView, Untouched
<1>3. ASSUME NEW s, NEW calls, NEW m, Effects(w, s, calls, m)
      PROVE  Effects(w, s, calls, m)'
  <2>1. \A t \in tx'[w].tickets :
          t[1] = Watched => \E i \in TicketCalls(s, calls) : t = <<Watched, m, i>>
    BY <1>3 DEF SameView, Effects
  <2>2. \A i \in TicketCalls(s, calls) : <<Watched, m, i>> \in tx'[w].tickets
    BY <1>3 DEF SameView, Effects
  <2> QED
    BY <1>1, <1>3, <2>1, <2>2 DEF Effects
<1>4. ASSUME NEW r, NEW m, Turned(w, r, m)
      PROVE  Turned(w, r, m)'
  BY <1>3, <1>4 DEF Turned, SameView
<1> QED
  BY <1>2, <1>3, <1>4

\* Without a handler nothing is written.
LEMMA NoHandlerNoEffect ==
  ASSUME NEW s, NEW calls, Uses(s, calls, Effectful) = {}
  PROVE  /\ \A st : StatusAfter(st, s, calls) = st
         /\ TicketCalls(s, calls) = {}
         /\ WrongNumberCount(s, calls) = 0
<1>1. Escalating \subseteq Effectful /\ "flag_wrong_number" \in Effectful
  BY DEF Escalating, Effectful, Tools
<1>2. \A T : T \subseteq Effectful => Uses(s, calls, T) = {}
  BY DEF Uses
<1> QED
  BY <1>1, <1>2, FS_EmptySet DEF StatusAfter, TicketCalls, WrongNumberCount

LEMMA UntouchedEffects ==
  ASSUME TypeInv, NEW w \in Workers, Untouched(w), NEW s, NEW calls, NEW m,
         Uses(s, calls, Effectful) = {}
  PROVE  Effects(w, s, calls, m)
<1>1. /\ StatusSeen(w, OrderOf[Watched]) = status[OrderOf[Watched]]
      /\ FakesSeen(w, CustomerOf[Watched]) = fakes[CustomerOf[Watched]]
      /\ \A t \in tx[w].tickets : t[1] # Watched
  BY DEF Untouched, StatusSeen, FakesSeen
<1>2. fakes[CustomerOf[Watched]] \in Nat
  BY PipelineAssumption, WatchedAssumption DEF TypeInv, TypeOK
<1> QED
  BY <1>1, <1>2, NoHandlerNoEffect DEF Effects

\* A turn of the watched conversation steps from the state of its row.
LEMMA UnderWayFrom ==
  ASSUME TypeInv, ConvInv, NEW w \in Workers, UnderWay(w)
  PROVE  From(w) = conv[Watched].state /\ From(w) \in States \ Terminal
<1>1. conv[Watched].state \in States /\ Shut(conv[Watched])
  BY WatchedAssumption DEF TypeInv, TypeOK, ConvRow, ConvInv
<1> QED
  BY <1>1 DEF UnderWay, From, Resolve, Shut

LEMMA HandlersEffects ==
  ASSUME TypeInv, ConvInv, NEW w \in Workers, Mine(w), UnderWay(w), Handles(w)
  PROVE  /\ Effects(w, conv[Watched].state, plan[w].calls, Msg(w))'
         /\ Watched \notin DOMAIN tx'[w].conv
<1>1. PICK o, k, s, m, calls :
        /\ o = OrderOf[Watched] /\ k = CustomerOf[Watched] /\ s = conv[Watched].state
        /\ m = Msg(w) /\ calls = plan[w].calls
  OBVIOUS
<1>2. /\ read[w].conv = Watched /\ From(w) = s /\ Untouched(w) /\ pc[w] = "tools"
      /\ Msg(w)' = m /\ plan'[w] = plan[w]
      /\ UNCHANGED <<conv, status, fakes>>
  BY <1>1, UnderWayFrom DEF Mine, UnderWay, Handles, TablesSame, Msg
<1>3. /\ StatusSeen(w, o) = status[o] /\ FakesSeen(w, k) = fakes[k] /\ fakes[k] \in Nat
  BY <1>1, <1>2, PipelineAssumption, WatchedAssumption
     DEF Untouched, StatusSeen, FakesSeen, TypeInv, TypeOK
<1>4. StatusSeen(w, o)' = StatusAfter(status[o], s, calls)
  <2>1. tx'[w].status = Put(tx[w].status, o, StatusAfter(status[o], s, calls))
    BY <1>1, <1>2, <1>3 DEF Handles
  <2> QED
    BY <2>1, <1>1 DEF StatusSeen, Put
<1>5. FakesSeen(w, k)' = fakes[k] + WrongNumberCount(s, calls)
  <2>1. CASE CountsFake(w)
    <3>1. tx'[w].fakes = Put(tx[w].fakes, k, fakes[k] + WrongNumberCount(s, calls))
      BY <1>1, <1>2, <1>3, <2>1 DEF Handles
    <3> QED
      BY <1>1, <3>1 DEF FakesSeen, Put
  <2>2. CASE ~CountsFake(w)
    <3>1. tx'[w].fakes = tx[w].fakes
      BY <2>2 DEF Handles
    <3>2. WrongNumberCount(s, calls) = 0
      BY <1>1, <1>2, <2>2, FS_EmptySet DEF CountsFake, WrongNumberCount
    <3>3. FakesSeen(w, k)' = fakes[k]
      BY <1>1, <1>2, <3>1 DEF FakesSeen, Untouched
    <3> QED
      BY <1>3, <3>2, <3>3
  <2> QED
    BY <2>1, <2>2
<1>6. tx'[w].tickets = tx[w].tickets \cup {<<Watched, m, i>> : i \in TicketCalls(s, calls)}
  BY <1>1, <1>2 DEF Handles
<1>7. /\ \A t \in tx'[w].tickets :
           t[1] = Watched => \E i \in TicketCalls(s, calls) : t = <<Watched, m, i>>
      /\ \A i \in TicketCalls(s, calls) : <<Watched, m, i>> \in tx'[w].tickets
  BY <1>2, <1>6 DEF Untouched
<1>8. Effects(w, s, calls, m)'
  BY <1>1, <1>2, <1>4, <1>5, <1>7 DEF Effects
<1>9. Watched \notin DOMAIN tx'[w].conv
  BY <1>2 DEF Untouched, Handles
<1> QED
  BY <1>1, <1>2, <1>8, <1>9 DEF Effects

LEMMA WriteTurns ==
  ASSUME TypeInv, ConvInv, NEW w \in Workers, Mine(w), UnderWay(w), Writes(w),
         NEW r, r = plan[w], NEW m, m = Msg(w)
  PROVE  Turned(w, r, m)'
<1>1. r = plan[w] /\ m = Msg(w)
  OBVIOUS
<1>2. /\ read[w].conv = Watched /\ ~conv[Watched].closed
      /\ From(w) = conv[Watched].state /\ From(w) \in States \ Terminal
      /\ read[w].hist = conv[Watched].hist
      /\ UNCHANGED <<conv, status, fakes>>
  BY UnderWayFrom DEF Mine, UnderWay, Writes, TablesSame
<1>3. tx'[w].conv = Put(tx[w].conv, Watched, TurnRow(w, conv[Watched]))
  BY <1>2 DEF Writes, ConvSeen, UnderWay
<1>4. TurnRow(w, conv[Watched]) = TurnOf(conv[Watched], r, m)
  <2>1. conv[Watched].closed = FALSE
    BY <1>2, WatchedAssumption DEF TypeInv, TypeOK, ConvRow
  <2>2. /\ To(w) = NextState(conv[Watched].state, r.calls)
        /\ TurnHist(w) = Append(conv[Watched].hist,
             [msg |-> m, from |-> conv[Watched].state,
              to |-> NextState(conv[Watched].state, r.calls)])
    BY <1>1, <1>2 DEF To, TurnHist
  <2>3. (conv[Watched].closed \/ Finished(From(w), plan[w].calls))
          = Finished(conv[Watched].state, r.calls)
    BY <1>1, <1>2, <2>1 DEF Finished
  <2> QED
    BY <1>1, <1>2, <2>2, <2>3 DEF TurnRow, TurnOf
<1>5. Watched \in DOMAIN tx'[w].conv /\ tx'[w].conv[Watched] = TurnOf(conv[Watched], r, m)
  BY <1>3, <1>4 DEF Put
<1>6. Effects(w, conv[Watched].state, r.calls, m)'
  <2>1. Effects(w, conv[Watched].state, r.calls, m)
    BY <1>1 DEF UnderWay, Writes
  <2>2. /\ StatusSeen(w, OrderOf[Watched])' = StatusSeen(w, OrderOf[Watched])
        /\ FakesSeen(w, CustomerOf[Watched])' = FakesSeen(w, CustomerOf[Watched])
        /\ tx'[w].tickets = tx[w].tickets
    BY <1>2 DEF Writes, StatusSeen, FakesSeen
  <2> QED
    BY <1>2, <2>1, <2>2 DEF Effects
<1> QED
  BY <1>2, <1>5, <1>6 DEF Turned

\* A worker that has gone past a message has still done so.
LEMMA HeardGrows ==
  ASSUME TypeInv, NEW w \in Workers, Heard(w), cur'[w] = cur[w],
         pos'[w] = pos[w] \/ (pc[w] # "idle" /\ pos'[w] = pos[w] + 1)
  PROVE  Heard(w)'
<1>1. PICK i \in Before(w) : Sender[Payload[cur[w]][i]] = CustomerOf[Watched]
  BY DEF Heard
<1>2. CASE pos'[w] = pos[w]
  BY <1>1, <1>2 DEF Before, Heard
<1>3. CASE pc[w] # "idle" /\ pos'[w] = pos[w] + 1
  <2>1. cur[w] \in Events /\ pos[w] \in Nat
    BY <1>3 DEF TypeInv, TypeOK, Placed
  <2>2. i \in Nat
    BY <1>1, <2>1, PipelineAssumption DEF Before
  <2>3. i \in Before(w)'
    BY <1>1, <1>3, <2>1, <2>2 DEF Before
  <2> QED
    BY <1>1, <2>3 DEF Heard
<1> QED
  BY <1>2, <1>3

\* A step that leaves the watched rows of tx[w] alone, outside a turn of it.
LEMMA SettledKept ==
  ASSUME TypeInv, NEW w \in Workers, UNCHANGED <<conv, status, fakes>>, SameView(w),
         Settled(w), cur'[w] = cur[w],
         pos'[w] = pos[w] \/ (pc[w] # "idle" /\ pos'[w] = pos[w] + 1)
  PROVE  Settled(w)'
<1>1. CASE Untouched(w)
  BY <1>1, ViewKept DEF Settled
<1>2. ASSUME Heard(w), NEW r \in Responses, NEW m \in Messages, Turned(w, r, m)
      PROVE  Settled(w)'
  BY <1>2, ViewKept, HeardGrows DEF Settled
<1> QED
  BY <1>1, <1>2 DEF Settled

\* A turn of another conversation has other rows.
LEMMA OtherTurnSameView ==
  ASSUME OwnRows, TypeInv, NEW w \in Workers, pc[w] \in InTurn, ~Mine(w),
         Handles(w) \/ Writes(w)
  PROVE  SameView(w)
<1>1. /\ read[w].conv \in Convs /\ read[w].conv # Watched
      /\ OrderOf[read[w].conv] # OrderOf[Watched]
      /\ CustomerOf[read[w].conv] # CustomerOf[Watched]
  BY DEF Mine, OwnRows, TypeInv, Placed
<1>2. \A f, x, y, z : z # x => /\ z \in DOMAIN Put(f, x, y) <=> z \in DOMAIN f
                               /\ z \in DOMAIN f => Put(f, x, y)[z] = f[z]
  BY DEF Put
<1>3. CASE Handles(w)
  <2>1. /\ tx'[w].conv = tx[w].conv
        /\ \E y : tx'[w].status = Put(tx[w].status, OrderOf[read[w].conv], y)
        /\ \/ tx'[w].fakes = tx[w].fakes
           \/ \E y : tx'[w].fakes = Put(tx[w].fakes, CustomerOf[read[w].conv], y)
        /\ tx[w].tickets \subseteq tx'[w].tickets
        /\ \A t \in tx'[w].tickets : t \in tx[w].tickets \/ t[1] = read[w].conv
    BY <1>3 DEF Handles
  <2> QED
    BY <1>1, <1>2, <2>1 DEF SameView
<1>4. CASE Writes(w)
  <2>1. /\ \E y : tx'[w].conv = Put(tx[w].conv, read[w].conv, y)
        /\ tx'[w].status = tx[w].status /\ tx'[w].fakes = tx[w].fakes
        /\ tx'[w].tickets = tx[w].tickets
    BY <1>4 DEF Writes
  <2> QED
    BY <1>1, <1>2, <2>1 DEF SameView
<1> QED
  BY <1>3, <1>4

\* A message of the customer is the first that its transaction hears.
LEMMA FirstHeard ==
  ASSUME OneAtATime, TypeInv, TypeInv', NEW w \in Workers, NEW c \in Convs, Reads(w, c),
         c = Watched, Settled(w)
  PROVE  Untouched(w)
<1>1. pos[w] \in DOMAIN Payload[cur[w]] /\ cur[w] \in Events /\ pos[w] \in Nat
  <2>1. pos'[w] \in DOMAIN Payload[cur'[w]] /\ cur'[w] \in Events
    BY DEF TypeInv, Placed, Reads, InTurn
  <2> QED
    BY <2>1 DEF Reads, TypeInv, TypeOK
<1>2. Sender[Payload[cur[w]][pos[w]]] = CustomerOf[Watched]
  BY DEF Reads, Msg
<1>3. ASSUME NEW i \in Before(w), Sender[Payload[cur[w]][i]] = CustomerOf[Watched]
      PROVE  FALSE
  <2>1. i \in DOMAIN Payload[cur[w]] /\ i < pos[w]
    BY DEF Before
  <2>2. i = pos[w]
    BY <1>1, <1>2, <1>3, <2>1 DEF OneAtATime
  <2> QED
    BY <1>1, <2>1, <2>2
<1> QED
  BY <1>3 DEF Settled, Heard

LEMMA ViewStep ==
  ASSUME Undisturbed, TypeInv, ConvInv, TxOnly, ViewInv, [Next]_vars
  PROVE  ViewInv'
<1>1. TurnStep /\ TypeInv'
  BY StepIsTurnStep, TypeInvNext
<1> USE DEF Undisturbed
<1>2. ASSUME NEW w \in Workers,
             (Mine(w)' => UnderWay(w)') /\ (~Mine(w)' => Settled(w)')
      PROVE  ViewInv'
  BY <1>2 DEF ViewInv, OneWorker
<1>3. ASSUME NEW w \in Workers, UNCHANGED <<conv, status, fakes>>, tx'[w] = tx[w]
      PROVE  SameView(w)
  BY <1>3 DEF SameView
<1>4. CASE Outside
  <2>1. /\ UNCHANGED <<conv, status, fakes>>
        /\ \A w \in Workers : Same(w)
    BY <1>4 DEF Outside
  <2> SUFFICES ASSUME NEW w \in Workers PROVE ViewInv'
    BY DEF ViewInv
  <2>2. /\ Mine(w)' = Mine(w) /\ Msg(w)' = Msg(w) /\ tx'[w] = tx[w]
        /\ read'[w] = read[w] /\ plan'[w] = plan[w] /\ pc'[w] = pc[w]
        /\ cur'[w] = cur[w] /\ pos'[w] = pos[w]
    BY <2>1 DEF Same, Mine, Msg
  <2>3. SameView(w)
    BY <1>3, <2>1, <2>2
  <2>4. ~Mine(w) => Settled(w)'
    BY <2>1, <2>2, <2>3, SettledKept DEF ViewInv
  <2>5. Mine(w) => UnderWay(w)'
    <3>1. ASSUME Mine(w), pc[w] \in {"send", "write"}
          PROVE  Effects(w, conv[Watched].state, plan[w].calls, Msg(w))'
      BY <2>1, <2>2, <2>3, <3>1, ViewKept DEF ViewInv, UnderWay
    <3> QED
      BY <2>1, <2>2, <2>3, <3>1, ViewKept DEF ViewInv, UnderWay
  <2> QED
    BY <1>2, <2>2, <2>4, <2>5
<1>5. ASSUME NEW w \in Workers, Clears(w) \/ Commits(w) PROVE ViewInv'
  <2>1. Untouched(w)' /\ ~Mine(w)'
    BY <1>5, NoWritesFields DEF Clears, Commits, Untouched, Mine, InTurn
  <2> QED
    BY <1>2, <2>1 DEF Settled
<1>6. ASSUME NEW w \in Workers, Skips(w) PROVE ViewInv'
  <2>1. /\ UNCHANGED <<conv, status, fakes>> /\ tx'[w] = tx[w] /\ ~Mine(w) /\ ~Mine(w)'
        /\ cur'[w] = cur[w] /\ pos'[w] = pos[w] + 1 /\ pc[w] # "idle"
    BY <1>6 DEF Skips, TablesSame, Mine, InTurn
  <2> QED
    BY <1>2, <1>3, <2>1, SettledKept DEF ViewInv
<1>7. ASSUME NEW w \in Workers, NEW c \in Convs, Reads(w, c) PROVE ViewInv'
  <2>1. /\ UNCHANGED <<conv, status, fakes>> /\ ~Mine(w) /\ Settled(w)
        /\ cur'[w] = cur[w] /\ pos'[w] = pos[w] /\ Mine(w)' = (c = Watched)
        /\ Msg(w)' = Msg(w)
    BY <1>7 DEF Reads, TablesSame, Mine, InTurn, ViewInv
  <2>2. SameView(w)
    BY <1>7 DEF Reads, SameView
  <2>3. CASE c # Watched
    BY <1>2, <2>1, <2>2, <2>3, SettledKept
  <2>4. CASE c = Watched
    <3>1. Untouched(w)
      BY <1>1, <1>7, <2>1, <2>4, FirstHeard
    <3>2. Untouched(w)' /\ ConvSeen(w, c) = conv[Watched]
      BY <2>1, <2>2, <2>4, <3>1, ViewKept DEF Untouched, ConvSeen
    <3>3. UnderWay(w)'
      BY <1>7, <2>1, <2>4, <3>2 DEF UnderWay, Reads, Untouched
    <3> QED
      BY <1>2, <2>1, <2>4, <3>3
  <2> QED
    BY <2>3, <2>4
<1>8. ASSUME NEW w \in Workers, Talks(w) PROVE ViewInv'
  <2>1. /\ UNCHANGED <<conv, status, fakes>> /\ tx'[w] = tx[w] /\ Mine(w)' = Mine(w)
        /\ read'[w] = read[w] /\ cur'[w] = cur[w] /\ pos'[w] = pos[w] /\ Msg(w)' = Msg(w)
    BY <1>8 DEF Talks, TablesSame, Mine, Msg
  <2>2. SameView(w)
    BY <1>3, <2>1
  <2>3. CASE ~Mine(w)
    BY <1>2, <2>1, <2>2, <2>3, SettledKept DEF ViewInv
  <2>4. CASE Mine(w)
    <3>1. UnderWay(w) /\ (Untouched(w)' <=> Untouched(w))
      BY <2>1, <2>2, <2>4, ViewKept DEF ViewInv
    <3>2. PICK m, s : m = Msg(w) /\ s = conv[Watched].state
      OBVIOUS
    <3>3. CASE pc[w] = "llm"
      <4>1. /\ Untouched(w) /\ plan'[w] \in Responses
            /\ pc'[w] \in {"send", "write"} => Uses(s, plan'[w].calls, Effectful) = {}
        BY <1>8, <3>1, <3>2, <3>3, UnderWayFrom DEF Talks, LLMAnswers, UnderWay
      <4>2. PICK calls : calls = plan'[w].calls
        OBVIOUS
      <4>3. pc'[w] \in {"send", "write"} => Effects(w, s, calls, m)'
        <5>1. pc'[w] \in {"send", "write"} => Effects(w, s, calls, m)
          BY <4>1, <4>2, UntouchedEffects
        <5> QED
          BY <2>1, <2>2, <5>1, ViewKept
      <4>4. pc'[w] \in {"send", "write"} =>
              Effects(w, conv[Watched].state, plan[w].calls, Msg(w))'
        BY <2>1, <3>2, <4>2, <4>3
      <4> QED
        BY <1>2, <2>1, <2>4, <3>1, <4>1, <4>4 DEF UnderWay
    <3>4. CASE pc[w] = "send" /\ pc'[w] = "write" /\ plan'[w] = plan[w]
      <4>1. Effects(w, s, plan[w].calls, m)'
        <5>1. PICK calls : calls = plan[w].calls
          OBVIOUS
        <5>2. Effects(w, s, calls, m)
          BY <3>1, <3>2, <3>4, <5>1 DEF UnderWay
        <5>3. Effects(w, s, calls, m)'
          BY <2>1, <2>2, <5>2, ViewKept
        <5> QED
          BY <3>4, <5>1, <5>3
      <4>2. Effects(w, conv[Watched].state, plan[w].calls, Msg(w))'
        BY <2>1, <3>2, <4>1
      <4> QED
        BY <1>2, <2>1, <2>4, <3>1, <3>4, <4>2 DEF UnderWay
    <3> QED
      BY <1>8, <3>3, <3>4 DEF Talks
  <2> QED
    BY <2>3, <2>4
<1>9. ASSUME NEW w \in Workers, Handles(w) PROVE ViewInv'
  <2>1. /\ UNCHANGED <<conv, status, fakes>> /\ Mine(w)' = Mine(w) /\ pc[w] \in InTurn
        /\ read'[w] = read[w] /\ plan'[w] = plan[w]
        /\ cur'[w] = cur[w] /\ pos'[w] = pos[w] /\ Msg(w)' = Msg(w)
        /\ pc[w] = "tools" /\ pc'[w] \in {"send", "write"}
    BY <1>9 DEF Handles, TablesSame, Mine, Msg, InTurn
  <2>2. CASE ~Mine(w)
    BY <1>2, <1>9, <2>1, <2>2, OtherTurnSameView, SettledKept DEF ViewInv
  <2>3. CASE Mine(w)
    <3>1. UnderWay(w)
      BY <2>3 DEF ViewInv
    <3>2. /\ Effects(w, conv[Watched].state, plan[w].calls, Msg(w))'
          /\ Watched \notin DOMAIN tx'[w].conv
      BY <1>9, <2>3, <3>1, HandlersEffects
    <3> QED
      BY <1>2, <2>1, <2>3, <3>1, <3>2 DEF UnderWay
  <2> QED
    BY <2>2, <2>3
<1>10. ASSUME NEW w \in Workers, Writes(w) PROVE ViewInv'
  <2>1. /\ UNCHANGED <<conv, status, fakes>> /\ ~Mine(w)' /\ pc[w] \in InTurn
        /\ cur'[w] = cur[w] /\ pos'[w] = pos[w] + 1 /\ pc[w] = "write"
    BY <1>10 DEF Writes, TablesSame, Mine, InTurn
  <2>2. CASE ~Mine(w)
    BY <1>2, <1>10, <2>1, <2>2, OtherTurnSameView, SettledKept DEF ViewInv
  <2>3. CASE Mine(w)
    <3>1. UnderWay(w)
      BY <2>3 DEF ViewInv
    <3>2. PICK r, m : r = plan[w] /\ m = Msg(w)
      OBVIOUS
    <3>3. Turned(w, r, m)'
      BY <1>10, <2>3, <3>1, <3>2, WriteTurns
    <3>4. r \in Responses /\ m \in Messages
      BY <2>1, <3>1, <3>2, MsgIsMessage DEF UnderWay, TypeInv, Placed, InTurn
    <3>5. Heard(w)'
      <4>1. pos[w] \in Nat /\ pos[w] \in DOMAIN Payload[cur[w]]
        BY <2>1 DEF TypeInv, TypeOK, Placed, InTurn
      <4>2. pos[w] \in Before(w)'
        BY <2>1, <4>1 DEF Before
      <4> QED
        BY <2>1, <3>1, <4>2 DEF Heard, UnderWay, Msg
    <3> QED
      BY <1>2, <2>1, <3>3, <3>4, <3>5 DEF Settled
  <2> QED
    BY <2>2, <2>3
<1> QED
  BY <1>1, <1>4, <1>5, <1>6, <1>7, <1>8, <1>9, <1>10 DEF TurnStep

-----------------------------------------------------------------------------
(* The steps of the watched conversation.                                  *)

LEMMA TicketsOfMember ==
  ASSUME NEW h, NEW T
  PROVE  \A p : p \in TicketsOf(h, T) <=>
           \E i \in DOMAIN h, t \in T :
             t = <<Watched, h[i].msg, t[3]>> /\ p = <<i, t[3]>>
<1>1. ASSUME NEW p, p \in TicketsOf(h, T)
      PROVE  \E i \in DOMAIN h, t \in T :
               t = <<Watched, h[i].msg, t[3]>> /\ p = <<i, t[3]>>
  <2>1. PICK i \in DOMAIN h, j \in {t[3] : t \in T} : p = <<i, j>>
    BY <1>1 DEF TicketsOf
  <2>2. <<Watched, h[i].msg, j>> \in T
    BY <1>1, <2>1 DEF TicketsOf
  <2> QED
    BY <2>1, <2>2
<1>2. ASSUME NEW p, NEW i \in DOMAIN h, NEW t \in T,
             t = <<Watched, h[i].msg, t[3]>>, p = <<i, t[3]>>
      PROVE  p \in TicketsOf(h, T)
  BY <1>2 DEF TicketsOf
<1> QED
  BY <1>1, <1>2

\* T holds tickets of the turns h only, and U those of the next turn e, at the
\* calls I.
AddsTickets(h, e, T, U, I) ==
  /\ \A i \in DOMAIN h : h[i].msg # e.msg
  /\ \A t \in T : t = <<t[1], t[2], t[3]>>
  /\ \A t \in T : t[1] = Watched => Mentions(h, t[2])
  /\ \A t \in U : t[1] = Watched => \E i \in I : t = <<Watched, e.msg, i>>
  /\ \A i \in I : <<Watched, e.msg, i>> \in U

\* The tickets a turn adds.
LEMMA TicketsOfTurn ==
  ASSUME NEW S, NEW h \in Seq(S), NEW e \in S, NEW T, NEW U, NEW I,
         AddsTickets(h, e, T, U, I)
  PROVE  TicketsOf(Append(h, e), T \cup U)
           = TicketsOf(h, T) \cup {<<Len(h) + 1, i>> : i \in I}
<1> USE DEF AddsTickets
<1> DEFINE g == Append(h, e)
           n == Len(h) + 1
<1>1. /\ DOMAIN g = 1 .. n /\ DOMAIN h = 1 .. Len(h) /\ Len(h) \in Nat /\ n \in Nat
      /\ \A i \in DOMAIN h : g[i] = h[i] /\ i \in DOMAIN g /\ i # n
      /\ g[n] = e /\ n \in DOMAIN g
      /\ \A i \in DOMAIN g : i \in DOMAIN h \/ i = n
  <2>1. /\ DOMAIN g = 1 .. n /\ DOMAIN h = 1 .. Len(h) /\ Len(h) \in Nat
        /\ \A i \in 1 .. Len(h) : g[i] = h[i]
        /\ g[n] = e
    OBVIOUS
  <2> QED
    BY <2>1
<1> HIDE DEF g, n
<1>2. ASSUME NEW p, p \in TicketsOf(g, T \cup U)
      PROVE  p \in TicketsOf(h, T) \cup {<<n, i>> : i \in I}
  <2>1. PICK i \in DOMAIN g, t \in T \cup U :
          t = <<Watched, g[i].msg, t[3]>> /\ p = <<i, t[3]>>
    BY <1>2, TicketsOfMember
  <2>2. t[1] = Watched /\ t[2] = g[i].msg
    BY <2>1
  <2>3. CASE i \in DOMAIN h
    <3>1. t \notin U
      <4>1. t[2] # e.msg
        BY <1>1, <2>2, <2>3
      <4> QED
        BY <2>2, <4>1
    <3>2. t \in T /\ t = <<Watched, h[i].msg, t[3]>>
      BY <1>1, <2>1, <2>3, <3>1
    <3> QED
      BY <2>1, <2>3, <3>2, TicketsOfMember
  <2>4. CASE i = n
    <3>1. t[2] = e.msg
      BY <1>1, <2>2, <2>4
    <3>2. t \notin T
      BY <2>2, <3>1 DEF Mentions
    <3>3. PICK j \in I : t = <<Watched, e.msg, j>>
      BY <2>1, <2>2, <3>2
    <3>4. t[3] = j
      BY <3>3
    <3> QED
      BY <2>1, <2>4, <3>4
  <2> QED
    BY <1>1, <2>3, <2>4
<1>3. ASSUME NEW p, p \in TicketsOf(h, T) PROVE p \in TicketsOf(g, T \cup U)
  <2>1. PICK i \in DOMAIN h, t \in T : t = <<Watched, h[i].msg, t[3]>> /\ p = <<i, t[3]>>
    BY <1>3, TicketsOfMember
  <2> QED
    BY <1>1, <2>1, TicketsOfMember
<1>4. ASSUME NEW j \in I PROVE <<n, j>> \in TicketsOf(g, T \cup U)
  <2>1. PICK t \in U : t = <<Watched, e.msg, j>>
    OBVIOUS
  <2>2. t[3] = j /\ g[n].msg = e.msg
    BY <1>1, <2>1
  <2> QED
    BY <1>1, <2>1, <2>2, TicketsOfMember
<1>5. TicketsOf(g, T \cup U) = TicketsOf(h, T) \cup {<<n, i>> : i \in I}
  BY <1>2, <1>3, <1>4
<1> QED
  BY <1>5 DEF g, n

\* Tickets of other conversations do not show.
LEMMA TicketsOfOthers ==
  ASSUME NEW h, NEW T, NEW U, \A t \in U : t[1] # Watched
  PROVE  TicketsOf(h, T \cup U) = TicketsOf(h, T)
<1>1. ASSUME NEW p, p \in TicketsOf(h, T \cup U) PROVE p \in TicketsOf(h, T)
  <2>1. PICK i \in DOMAIN h, t \in T \cup U :
          t = <<Watched, h[i].msg, t[3]>> /\ p = <<i, t[3]>>
    BY <1>1, TicketsOfMember
  <2>2. t[1] = Watched
    BY <2>1
  <2>3. t \in T
    BY <2>2
  <2> QED
    BY <2>1, <2>3, TicketsOfMember
<1>2. ASSUME NEW p, p \in TicketsOf(h, T) PROVE p \in TicketsOf(h, T \cup U)
  <2>1. PICK i \in DOMAIN h, t \in T : t = <<Watched, h[i].msg, t[3]>> /\ p = <<i, t[3]>>
    BY <1>2, TicketsOfMember
  <2> QED
    BY <2>1, TicketsOfMember
<1> QED
  BY <1>1, <1>2

\* A history of different messages is no longer than there are messages.
LEMMA HistoryIsShort ==
  ASSUME IsFiniteSet(Messages), NEW S, NEW h \in Seq(S), \A t \in S : t.msg \in Messages,
         NEW M, Clean(h, M)
  PROVE  Len(h) <= Cardinality(Messages)
<1>1. DOMAIN h = 1 .. Len(h) /\ Len(h) \in Nat
  OBVIOUS
<1>2. \A i \in 1 .. Len(h) : h[i].msg \in Messages
  <2>1. \A i \in 1 .. Len(h) : h[i] \in S
    BY <1>1
  <2> QED
    BY <2>1
<1>3. PICK f : f = [i \in 1 .. Len(h) |-> h[i].msg]
  OBVIOUS
<1>4. f \in Injection(1 .. Len(h), Messages)
  <2>1. f \in [1 .. Len(h) -> Messages]
    BY <1>2, <1>3
  <2>2. \A i, j \in 1 .. Len(h) : f[i] = f[j] => i = j
    BY <1>1, <1>3 DEF Clean
  <2> QED
    BY <2>1, <2>2 DEF Injection, IsInjective
<1>5. Cardinality(1 .. Len(h)) <= Cardinality(Messages)
  BY <1>4, FS_Injection
<1>6. Cardinality(1 .. Len(h)) = Len(h)
  <2>1. Cardinality(1 .. Len(h)) = IF 1 > Len(h) THEN 0 ELSE Len(h) - 1 + 1
    BY <1>1, FS_Interval
  <2> QED
    BY <1>1, <2>1
<1> QED
  BY <1>5, <1>6

LEMMA BareAppend ==
  ASSUME NEW S, NEW h \in Seq(S), NEW e \in S
  PROVE  /\ Len(Bare(h)) = Len(h)
         /\ Bare(Append(h, e)) = Append(Bare(h), [from |-> e.from, to |-> e.to])
<1> DEFINE b == [from |-> e.from, to |-> e.to]
           B(i) == [from |-> h[i].from, to |-> h[i].to]
<1>1. DOMAIN h = 1 .. Len(h) /\ Len(h) \in Nat
  OBVIOUS
<1>2. Bare(h) = [i \in 1 .. Len(h) |-> B(i)]
  BY <1>1 DEF Bare
<1>3. /\ Bare(h) \in Seq({B(i) : i \in 1 .. Len(h)} \cup {b})
      /\ Len(Bare(h)) = Len(h)
  BY <1>1, <1>2
<1>4. /\ DOMAIN Append(h, e) = 1 .. Len(h) + 1
      /\ \A i \in 1 .. Len(h) : Append(h, e)[i] = h[i]
      /\ Append(h, e)[Len(h) + 1] = e
  OBVIOUS
<1>5. /\ DOMAIN Append(Bare(h), b) = 1 .. Len(h) + 1
      /\ \A i \in 1 .. Len(h) : Append(Bare(h), b)[i] = B(i)
      /\ Append(Bare(h), b)[Len(h) + 1] = b
      /\ Append(Bare(h), b) = [i \in 1 .. Len(h) + 1 |-> Append(Bare(h), b)[i]]
  BY <1>1, <1>2, <1>3
<1>6. Bare(Append(h, e)) = [i \in 1 .. Len(h) + 1 |->
                              [from |-> Append(h, e)[i].from, to |-> Append(h, e)[i].to]]
  BY <1>4 DEF Bare
<1>7. \A i \in 1 .. Len(h) + 1 :
        [from |-> Append(h, e)[i].from, to |-> Append(h, e)[i].to] = Append(Bare(h), b)[i]
  <2>1. \A i \in 1 .. Len(h) + 1 : i \in 1 .. Len(h) \/ i = Len(h) + 1
    BY <1>1
  <2> QED
    BY <1>4, <1>5, <2>1
<1> QED
  BY <1>3, <1>5, <1>6, <1>7

-----------------------------------------------------------------------------
(* Conversation's operators, instantiated, are the pipeline's own.         *)
LEMMA SameSets ==
  /\ OneConversation!States = States
  /\ OneConversation!Terminal = Terminal
  /\ OneConversation!Effectful = Effectful
  /\ OneConversation!Escalating = Escalating
  /\ OneConversation!None = None
BY DEF OneConversation!States, OneConversation!Terminal, OneConversation!Effectful,
       OneConversation!Tools, OneConversation!Escalating, OneConversation!None,
       States, Terminal, Effectful, Tools, Escalating, None

LEMMA SameUses == \A s, calls, T : OneConversation!Uses(s, calls, T) = Uses(s, calls, T)
BY DEF OneConversation!Uses, OneConversation!Terminal, OneConversation!AllowedTools,
       OneConversation!States, OneConversation!IdentityTools, OneConversation!IntentTools,
       Uses, Terminal, AllowedTools, States, IdentityTools, IntentTools

LEMMA SameEnds ==
  \A I : OneConversation!First(I) = First(I) /\ OneConversation!Last(I) = Last(I)
BY DEF OneConversation!First, OneConversation!Last, First, Last

LEMMA SameEdges ==
  /\ OneConversation!ToolEdges = ToolEdges
  /\ OneConversation!DefaultNext = DefaultNext
BY DEF OneConversation!ToolEdges, OneConversation!IntentTools, OneConversation!DefaultNext,
       OneConversation!States, OneConversation!Terminal,
       ToolEdges, IntentTools, DefaultNext, States, Terminal

LEMMA SameMoves == \A s, calls : OneConversation!Moves(s, calls) = Moves(s, calls)
<1>1. OneConversation!Tools = Tools
  BY DEF OneConversation!Tools, Tools
<1> QED
  BY <1>1, SameUses, SameSets, SameEdges DEF OneConversation!Moves, Moves

LEMMA SameNextState ==
  \A s, calls : OneConversation!NextState(s, calls) = NextState(s, calls)
<1> SUFFICES ASSUME NEW s, NEW calls
             PROVE  OneConversation!NextState(s, calls) = NextState(s, calls)
  OBVIOUS
<1>1. PICK i : i = First(Moves(s, calls))
  OBVIOUS
<1>2. OneConversation!First(OneConversation!Moves(s, calls)) = i
  BY <1>1, SameEnds, SameMoves
<1>3. (CHOOSE n \in OneConversation!States : <<s, calls[i], n>> \in OneConversation!ToolEdges)
      = (CHOOSE n \in States : <<s, calls[i], n>> \in ToolEdges)
  BY SameSets, SameEdges
<1> QED
  BY <1>1, <1>2, <1>3, SameSets, SameEdges, SameMoves DEF OneConversation!NextState, NextState

LEMMA SameEffects ==
  \A s, calls :
    /\ \A st : OneConversation!StatusAfter(st, s, calls) = StatusAfter(st, s, calls)
    /\ OneConversation!TurnOutcome(s, calls) = TurnOutcome(s, calls)
    /\ OneConversation!TicketCalls(s, calls) = TicketCalls(s, calls)
    /\ OneConversation!WrongNumberCount(s, calls) = WrongNumberCount(s, calls)
    /\ OneConversation!Finished(s, calls) = Finished(s, calls)
    /\ \A x, y : OneConversation!Coalesce(x, y) = Coalesce(x, y)
<1>1. OneConversation!StatusSetBy = StatusSetBy
  BY SameSets DEF OneConversation!StatusSetBy, StatusSetBy
<1>2. OneConversation!OutcomeOfTool = OutcomeOfTool
  BY <1>1, SameSets DEF OneConversation!OutcomeOfTool, OutcomeOfTool
<1>3. \A S : OneConversation!Cardinality(S) = Cardinality(S)
  BY DEF OneConversation!Cardinality, Cardinality
<1> QED
  BY <1>1, <1>2, <1>3, SameSets, SameUses, SameEnds, SameNextState
     DEF OneConversation!StatusAfter, OneConversation!TurnOutcome, OneConversation!TicketCalls,
         OneConversation!WrongNumberCount, OneConversation!Finished, OneConversation!Coalesce,
         StatusAfter, TurnOutcome, TicketCalls, WrongNumberCount, Finished, Coalesce

\* The watched conversation stays as it is when none of its rows changes.
LEMMA ViewUnchanged ==
  ASSUME UNCHANGED conv[Watched], UNCHANGED status[OrderOf[Watched]],
         UNCHANGED fakes[CustomerOf[Watched]],
         NEW U, \A t \in U : t[1] # Watched, tickets' = tickets \cup U
  PROVE  UNCHANGED OneConversation!vars
<1>1. TicketsOf(conv[Watched].hist, tickets)' = TicketsOf(conv[Watched].hist, tickets)
  <2>1. TicketsOf(conv[Watched].hist, tickets \cup U) = TicketsOf(conv[Watched].hist, tickets)
    BY TicketsOfOthers
  <2> QED
    BY <2>1
<1> QED
  BY <1>1 DEF OneConversation!vars

\* A commit of a turn is a turn of Conversation.
LEMMA CommitTurns ==
  ASSUME IsFiniteSet(Messages), Undisturbed, TypeInv, TypeInv', ConvInv, HalfInv, CompleteInv, OnceInv',
         NEW w \in Workers, Commits(w),
         NEW r \in Responses, NEW m \in Messages, Turned(w, r, m)
  PROVE  OneConversation!Turn(r)
<1>1. PICK row, s, n, h, e :
        /\ row = conv[Watched] /\ s = row.state /\ n = NextState(s, r.calls)
        /\ h = row.hist /\ e = [msg |-> m, from |-> s, to |-> n]
  OBVIOUS
<1>2. /\ conv'[Watched] = TurnOf(row, r, m)
      /\ status'[OrderOf[Watched]] = StatusAfter(status[OrderOf[Watched]], s, r.calls)
      /\ fakes'[CustomerOf[Watched]] = fakes[CustomerOf[Watched]] + WrongNumberCount(s, r.calls)
      /\ tickets' = tickets \cup tx[w].tickets
  BY <1>1, PipelineAssumption, WatchedAssumption DEF Commits, Turned, Effects, ConvSeen
<1>3. /\ conv'[Watched].state = n
      /\ conv'[Watched].hist = Append(h, e)
      /\ conv'[Watched].outcome = Coalesce(TurnOutcome(s, r.calls), row.outcome)
      /\ conv'[Watched].closed = Finished(s, r.calls)
  BY <1>1, <1>2 DEF TurnOf
<1>4. PICK S : S = [msg : Messages, from : States, to : States]
  OBVIOUS
<1>5. h \in Seq(S) /\ Append(h, e) \in Seq(S) /\ e \in S /\ \A t \in S : t.msg \in Messages
  <2>1. row \in ConvRow /\ conv'[Watched] \in ConvRow
    BY <1>1, WatchedAssumption DEF TypeInv, TypeOK
  <2>2. e \in S
    <3>1. s \in States /\ n \in States
      BY <1>1, <1>3, <2>1 DEF ConvRow
    <3> QED
      BY <1>1, <1>4, <3>1
  <2> QED
    BY <1>1, <1>3, <1>4, <2>1, <2>2 DEF ConvRow
<1>6. Clean(Append(h, e), Handled')
  BY <1>3, WatchedAssumption DEF OnceInv, HistoriesClean
<1>7. /\ Len(h) \in Nat /\ Len(Append(h, e)) = Len(h) + 1
      /\ Append(h, e)[Len(h) + 1] = e /\ Len(h) + 1 \in DOMAIN Append(h, e)
      /\ \A i \in DOMAIN h : /\ Append(h, e)[i] = h[i] /\ i # Len(h) + 1
                             /\ i \in DOMAIN Append(h, e)
  <2>1. /\ DOMAIN Append(h, e) = 1 .. Len(h) + 1 /\ DOMAIN h = 1 .. Len(h) /\ Len(h) \in Nat
        /\ \A i \in 1 .. Len(h) : Append(h, e)[i] = h[i]
        /\ Append(h, e)[Len(h) + 1] = e /\ Len(Append(h, e)) = Len(h) + 1
    BY <1>5
  <2> QED
    BY <2>1
<1>8. Len(h) < Cardinality(Messages)
  <2>1. Len(Append(h, e)) <= Cardinality(Messages)
    BY <1>5, <1>6, HistoryIsShort
  <2>2. Cardinality(Messages) \in Nat
    BY FS_CardinalityType
  <2> QED
    BY <1>7, <2>1, <2>2
<1>9. \A i \in DOMAIN h : h[i].msg # e.msg
  BY <1>6, <1>7 DEF Clean
<1>10. \A t \in tickets : t = <<t[1], t[2], t[3]>>
                         /\ (t[1] = Watched => Mentions(h, t[2]))
  <2>1. ASSUME NEW t \in tickets, t[1] = Watched PROVE Mentions(h, t[2])
    <3>1. t[2] \in Messages /\ <<Watched, t[2], "inbound">> \in rows
      BY <2>1 DEF TypeInv, TypeOK, HalfInv, Backed
    <3> QED
      BY <1>1, <3>1, WatchedAssumption DEF CompleteInv, HistoryComplete, Mentions
  <2> QED
    BY <2>1 DEF TypeInv, TypeOK
<1>11. TicketsOf(Append(h, e), tickets')
         = TicketsOf(h, tickets) \cup {<<Len(h) + 1, i>> : i \in TicketCalls(s, r.calls)}
  <2>1. PICK T, U, I : T = tickets /\ U = tx[w].tickets /\ I = TicketCalls(s, r.calls)
    OBVIOUS
  <2>2. /\ \A t \in T : t = <<t[1], t[2], t[3]>>
        /\ \A t \in T : t[1] = Watched => Mentions(h, t[2])
    BY <1>10, <2>1
  <2>3. /\ \A t \in U : t[1] = Watched => \E i \in I : t = <<Watched, e.msg, i>>
        /\ \A i \in I : <<Watched, e.msg, i>> \in U
    BY <1>1, <2>1 DEF Turned, Effects
  <2>4. TicketsOf(Append(h, e), T \cup U)
          = TicketsOf(h, T) \cup {<<Len(h) + 1, i>> : i \in I}
    <3>1. AddsTickets(h, e, T, U, I)
      BY <1>9, <2>2, <2>3 DEF AddsTickets
    <3> QED
      BY <1>5, <3>1, TicketsOfTurn
  <2> QED
    BY <1>2, <2>1, <2>4
<1>12. /\ Len(Bare(h)) = Len(h)
       /\ Bare(Append(h, e)) = Append(Bare(h), [from |-> s, to |-> n])
       /\ Len(Bare(Append(h, e))) = Len(h) + 1
  <2>1. e.from = s /\ e.to = n
    BY <1>1
  <2>2. Bare(Append(h, e)) = Append(Bare(h), [from |-> s, to |-> n])
    BY <1>5, <2>1, BareAppend
  <2>3. Len(Bare(h)) = Len(h)
    BY <1>5, BareAppend
  <2>4. Len(Bare(Append(h, e))) = Len(Append(h, e))
    BY <1>5, BareAppend
  <2> QED
    BY <1>7, <2>2, <2>3, <2>4
<1>13. ~row.closed
  BY <1>1 DEF Turned
<1>14. TicketsOf(conv[Watched].hist, tickets)'
         = TicketsOf(conv[Watched].hist, tickets)
             \cup {<<Len(Bare(conv[Watched].hist)'), i>> :
                    i \in OneConversation!TicketCalls(conv[Watched].state, r.calls)}
  <2>1. OneConversation!TicketCalls(conv[Watched].state, r.calls) = TicketCalls(s, r.calls)
    BY <1>1, SameEffects
  <2>2. Len(Bare(conv[Watched].hist)') = Len(h) + 1
    BY <1>3, <1>12
  <2>3. TicketsOf(conv[Watched].hist, tickets)' = TicketsOf(Append(h, e), tickets')
    BY <1>3
  <2> QED
    BY <1>1, <1>11, <2>1, <2>2, <2>3
<1>15. Bare(conv[Watched].hist)'
         = Append(Bare(conv[Watched].hist), [from |-> conv[Watched].state,
                                             to |-> conv'[Watched].state])
  BY <1>1, <1>3, <1>12
<1>16. ~conv[Watched].closed /\ Len(Bare(conv[Watched].hist)) < Cardinality(Messages)
  BY <1>1, <1>8, <1>12, <1>13
<1>17. /\ conv'[Watched].state = OneConversation!NextState(conv[Watched].state, r.calls)
       /\ conv'[Watched].outcome =
            OneConversation!Coalesce(OneConversation!TurnOutcome(conv[Watched].state, r.calls),
                                     conv[Watched].outcome)
       /\ conv'[Watched].closed = OneConversation!Finished(conv[Watched].state, r.calls)
       /\ status'[OrderOf[Watched]] = OneConversation!StatusAfter(
             status[OrderOf[Watched]], conv[Watched].state, r.calls)
       /\ fakes'[CustomerOf[Watched]] = fakes[CustomerOf[Watched]]
             + OneConversation!WrongNumberCount(conv[Watched].state, r.calls)
  BY <1>1, <1>2, <1>3, SameNextState, SameEffects
<1> QED
  BY <1>14, <1>15, <1>16, <1>17 DEF OneConversation!Turn

\* Everything the refinement rests on.
ConversationInv ==
  TypeInv /\ ConvInv /\ QueueInv /\ TxOnly /\ OnceInv /\ HalfInv /\ CompleteInv /\ ViewInv

LEMMA ViewInvInit == Init => ViewInv /\ OneConversation!Init
<1> SUFFICES ASSUME Init PROVE ViewInv /\ OneConversation!Init
  OBVIOUS
<1>1. ASSUME NEW w \in Workers PROVE ~Mine(w) /\ Untouched(w)
  <2>1. tx[w] = NoWrites /\ pc[w] = "idle"
    BY DEF Init
  <2> QED
    BY <2>1, NoWritesFields DEF Mine, Untouched, InTurn
<1>2. PICK s \in StartStates :
        conv[Watched] = [state |-> s, hist |-> <<>>, outcome |-> None, closed |-> FALSE]
  BY WatchedAssumption DEF Init
<1>3. Bare(conv[Watched].hist) = <<>>
  BY <1>2 DEF Bare
<1>4. TicketsOf(conv[Watched].hist, tickets) = {}
  BY TicketsOfMember DEF Init
<1>5. status[OrderOf[Watched]] = "dispatched" /\ fakes[CustomerOf[Watched]] = 0
  BY PipelineAssumption, WatchedAssumption DEF Init
<1>6. OneConversation!Init
  BY <1>2, <1>3, <1>4, <1>5, SameSets DEF OneConversation!Init
<1> QED
  BY <1>1, <1>6 DEF ViewInv, Settled

LEMMA ConversationStep ==
  ASSUME IsFiniteSet(Messages), Undisturbed, ConversationInv, ConversationInv', [Next]_vars
  PROVE  [OneConversation!Next]_(OneConversation!vars)
<1> USE DEF ConversationInv
<1>1. TurnStep
  BY StepIsTurnStep
<1>2. ASSUME UNCHANGED <<conv, status, fakes, tickets>>
      PROVE  UNCHANGED OneConversation!vars
  BY <1>2 DEF OneConversation!vars
<1>3. CASE Outside
  BY <1>2, <1>3 DEF Outside, Undisturbed
<1>4. ASSUME NEW w \in Workers,
             \/ Clears(w) \/ Skips(w) \/ Talks(w) \/ Handles(w) \/ Writes(w)
             \/ \E c \in Convs : Reads(w, c)
      PROVE  UNCHANGED OneConversation!vars
  <2>1. TablesSame
    BY <1>4 DEF Clears, Skips, Talks, Handles, Writes, Reads
  <2> QED
    BY <1>2, <2>1 DEF TablesSame
<1>5. ASSUME NEW w \in Workers, Commits(w)
      PROVE  OneConversation!Next \/ UNCHANGED OneConversation!vars
  <2>1. Settled(w)
    BY <1>5 DEF ViewInv, Mine, Commits, InTurn
  <2>2. CASE Untouched(w)
    <3>1. /\ UNCHANGED conv[Watched] /\ UNCHANGED status[OrderOf[Watched]]
          /\ UNCHANGED fakes[CustomerOf[Watched]]
      BY <1>5, <2>2, PipelineAssumption, WatchedAssumption
         DEF Commits, Untouched, ConvSeen, StatusSeen, FakesSeen
    <3>2. PICK U : U = tx[w].tickets
      OBVIOUS
    <3>3. (\A t \in U : t[1] # Watched) /\ tickets' = tickets \cup U
      BY <1>5, <2>2, <3>2 DEF Untouched, Commits
    <3> QED
      BY <3>1, <3>3, ViewUnchanged
  <2>3. ASSUME NEW r \in Responses, NEW m \in Messages, Turned(w, r, m)
        PROVE  OneConversation!Next
    <3>1. OneConversation!Turn(r)
      BY <1>5, <2>3, CommitTurns
    <3> QED
      BY <3>1 DEF OneConversation!Next
  <2> QED
    BY <2>1, <2>2, <2>3 DEF Settled
<1> QED
  BY <1>1, <1>3, <1>4, <1>5 DEF TurnStep

\* The instance meets the assumptions of Conversation.
LEMMA ConversationInstance ==
  ASSUME IsFiniteSet(Messages)
  PROVE  OneConversation!ConversationAssumption
<1>1. OneConversation!CallNames = CallNames
  BY DEF OneConversation!CallNames, OneConversation!Tools, CallNames, Tools
<1>2. Cardinality(Messages) \in Nat
  BY FS_CardinalityType
<1> QED
  BY <1>1, <1>2, SameSets, PipelineAssumption DEF OneConversation!ConversationAssumption

(* Conversation by conversation, the pipeline does nothing but whole turns:  *)
(* with one loop and no operator, each commit is a turn of Conversation on   *)
(* the row, the order, the customer and the tickets together, or leaves all  *)
(* four alone, and nothing that fails, deadlocks or dies before it shows.    *)
THEOREM ConversationRefinement ==
  ASSUME IsFiniteSet(Messages), Undisturbed
  PROVE  Spec => RefinesConversation
<1>1. Init => ConversationInv /\ OneConversation!Init
  <2>1. Init => TxOnly /\ HalfInv /\ CompleteInv
    <3> SUFFICES ASSUME Init PROVE TxOnly /\ HalfInv /\ CompleteInv
      OBVIOUS
    <3>1. TxOnly
      BY DEF Init, TxOnly
    <3> QED
      BY <3>1, HalfInit, CompleteInit
  <2> QED
    BY <2>1, TypeInvInit, ConvInvInit, QueueInvInit, OnceInit, ViewInvInit
       DEF ConversationInv
<1>2. ConversationInv /\ [Next]_vars => ConversationInv'
  <2> SUFFICES ASSUME ConversationInv, [Next]_vars PROVE ConversationInv'
    OBVIOUS
  <2>1. TypeInv' /\ ConvInv' /\ QueueInv' /\ TxOnly'
    BY TypeInvNext, ConvInvNext, QueueInvNext, TxOnlyNext DEF ConversationInv
  <2>2. OnceInv' /\ HalfInv' /\ CompleteInv' /\ ViewInv'
    BY OnceStep, HalfStep, CompleteStep, ViewStep DEF ConversationInv, Undisturbed
  <2> QED
    BY <2>1, <2>2 DEF ConversationInv
<1>3. ConversationInv /\ ConversationInv' /\ [Next]_vars
        => [OneConversation!Next]_(OneConversation!vars)
  BY ConversationStep
<1> QED
  BY <1>1, <1>2, <1>3, PTL DEF Spec, RefinesConversation, OneConversation!Spec

-----------------------------------------------------------------------------
(* What is proved of a Conversation holds of every conversation of the      *)
(* pipeline.                                                               *)

\* The watched conversation, with the theorems about Conversation; it stores
\* no provider's messages, so none are considered.
Whole ==
  INSTANCE Conversation_proofs WITH
    MaxTurns <- Cardinality(Messages),
    state    <- conv[Watched].state,
    hist     <- Bare(conv[Watched].hist),
    outcome  <- conv[Watched].outcome,
    closed   <- conv[Watched].closed,
    status   <- status[OrderOf[Watched]],
    fakes    <- fakes[CustomerOf[Watched]],
    tickets  <- TicketsOf(conv[Watched].hist, tickets),
    Ids <- {}, Answers <- {}, Providers <- {},
    row <- <<>>, said <- <<>>, refused <- {}

LEMMA SameInit == OneConversation!Init <=> Whole!Init
BY DEF OneConversation!Init, Whole!Init, OneConversation!None, Whole!None

\* Both are Conversation's, with the same arguments.
LEMMA SameTurn == \A r : OneConversation!Turn(r) <=> Whole!Turn(r)
BY DEF
  OneConversation!Turn, OneConversation!NextState,
  OneConversation!TurnOutcome, OneConversation!Coalesce,
  OneConversation!Finished, OneConversation!StatusAfter,
  OneConversation!TicketCalls, OneConversation!WrongNumberCount,
  OneConversation!Uses, OneConversation!Moves, OneConversation!First,
  OneConversation!Last, OneConversation!ToolEdges,
  OneConversation!DefaultNext, OneConversation!AllowedTools,
  OneConversation!States, OneConversation!Terminal, OneConversation!Tools,
  OneConversation!IdentityTools, OneConversation!IntentTools,
  OneConversation!Effectful, OneConversation!Escalating,
  OneConversation!StatusSetBy, OneConversation!OutcomeOfTool,
  OneConversation!None, OneConversation!Cardinality, Whole!Turn,
  Whole!NextState, Whole!TurnOutcome, Whole!Coalesce, Whole!Finished,
  Whole!StatusAfter, Whole!TicketCalls, Whole!WrongNumberCount, Whole!Uses,
  Whole!Moves, Whole!First, Whole!Last, Whole!ToolEdges, Whole!DefaultNext,
  Whole!AllowedTools, Whole!States, Whole!Terminal, Whole!Tools,
  Whole!IdentityTools, Whole!IntentTools, Whole!Effectful, Whole!Escalating,
  Whole!StatusSetBy, Whole!OutcomeOfTool, Whole!None, Whole!Cardinality

LEMMA SameConv == OneConversation!Spec <=> Whole!Spec
<1>1. OneConversation!Next <=> Whole!Next
  BY SameTurn DEF OneConversation!Next, Whole!Next
<1>2. OneConversation!vars = Whole!vars /\ OneConversation!vars' = Whole!vars'
  BY DEF OneConversation!vars, Whole!vars
<1>3. [OneConversation!Next]_(OneConversation!vars) <=> [Whole!Next]_(Whole!vars)
  BY <1>1, <1>2
<1> QED
  BY <1>3, SameInit, PTL DEF OneConversation!Spec, Whole!Spec

LEMMA WholeInstance ==
  ASSUME IsFiniteSet(Messages)
  PROVE  Whole!ConversationAssumption /\ Whole!HistoryAssumption
<1>1. Whole!CallNames = CallNames
  BY DEF Whole!CallNames, Whole!Tools, CallNames, Tools
<1>2. Cardinality(Messages) \in Nat
  BY FS_CardinalityType
<1>3. Whole!States = States /\ Whole!Terminal = Terminal
  BY DEF Whole!States, Whole!Terminal, States, Terminal
<1>4. Whole!ConversationAssumption
  BY <1>1, <1>2, <1>3, PipelineAssumption DEF Whole!ConversationAssumption
<1>5. Whole!HistoryAssumption
  BY DEF Whole!HistoryAssumption
<1> QED
  BY <1>4, <1>5

(* Whatever fails or is delivered twice, no decision is taken on the order   *)
(* of a conversation before the customer's identity was verified and, unless *)
(* the wrong person or a relative answered, the order read back.             *)
THEOREM PipelineDecidesAfterRecap ==
  ASSUME IsFiniteSet(Messages), Undisturbed
  PROVE  Spec => []OneConversation!DecisionAfterRecap
<1>1. Whole!Spec => []Whole!DecisionAfterRecap
  BY Whole!DecisionsFollowRecap, WholeInstance
     DEF Whole!ConversationAssumption, Whole!HistoryAssumption
<1>2. Whole!DecisionAfterRecap <=> OneConversation!DecisionAfterRecap
  BY DEF Whole!DecisionAfterRecap, Whole!Decided, Whole!Decisions, Whole!Visited,
         OneConversation!DecisionAfterRecap, OneConversation!Decided,
         OneConversation!Decisions, OneConversation!Visited
<1> QED
  BY <1>1, <1>2, SameConv, ConversationRefinement, PTL DEF RefinesConversation

(* A conversation of the pipeline that starts in a state the FSM reaches is  *)
(* closed exactly when it is in closing.                                     *)
THEOREM PipelineEndsInClosing ==
  ASSUME IsFiniteSet(Messages), Undisturbed, StartStates \subseteq Reachable
  PROVE  Spec => []OneConversation!ClosedIffClosing
<1>1. Whole!Spec => []Whole!ClosedIffClosing
  BY Whole!EndsInClosing, WholeInstance
     DEF Whole!ConversationAssumption, Whole!HistoryAssumption, Whole!StartsReachable,
         Whole!Reachable, Whole!States, Reachable, States
<1>2. Whole!ClosedIffClosing <=> OneConversation!ClosedIffClosing
  BY DEF Whole!ClosedIffClosing, Whole!Terminal, Whole!Reachable, Whole!States,
         OneConversation!ClosedIffClosing, OneConversation!Terminal,
         OneConversation!Reachable, OneConversation!States
<1> QED
  BY <1>1, <1>2, SameConv, ConversationRefinement, PTL DEF RefinesConversation

=============================================================================

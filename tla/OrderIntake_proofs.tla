--------------------------- MODULE OrderIntake_proofs ---------------------------
(***************************************************************************)
(* Order intake for any number of requests and uploads of any length.      *)
(* None of the three invariants is inductive.  That an order has its key   *)
(* to itself has to be known already of the uncommitted rows, against the  *)
(* committed ones and against those of every other transaction (Distinct): *)
(* it is the wait of an INSERT that keeps it.  That an accepted request    *)
(* left nothing out follows from how far it has come (Progress) and from   *)
(* when it was answered (Answers), and whose orders are stored and queued  *)
(* from whose lines a request inserts (OwnLines).                          *)
(***************************************************************************)
EXTENDS OrderIntake, WellFoundedInduction, TLAPS

AtLine == {"customer", "upsert", "lookup", "insert"}

StoredFor(r, i) == \E m \in orders \cup ours[r] : SameKey(Body[r][i], m)

\* A request is at a line of its body and has done those before it.
Progress(r) ==
  /\ pc[r] \in AtLine => /\ at[r] \in Grouped(r)
                         /\ \A i \in Grouped(r) : i < at[r] => StoredFor(r, i)
  /\ pc[r] = "new" => at[r] = 0
  /\ pc[r] \in {"commit", "committed"} => \A i \in Grouped(r) : StoredFor(r, i)
  /\ pc[r] \in {"new", "committed", "failed"} => ours[r] = {}

OwnLines(r) == \A m \in ours[r] : \E i \in Grouped(r) : Body[r][i] = m

\* No two rows, committed or not, could not both be committed.
Distinct ==
  /\ OneOrderPerKey
  /\ \A r \in Requests : \A l, m \in orders \cup ours[r] : Conflict(l, m) => l = m
  /\ \A r, q \in Requests : r # q => \A l \in ours[r], m \in ours[q] : ~Conflict(l, m)

Types ==
  /\ pc \in [Requests -> PCs]
  /\ at \in [Requests -> Nat]
  /\ ours \in [Requests -> SUBSET Lines]

RequestInv == Types /\ \A r \in Requests : Progress(r) /\ OwnLines(r)

-----------------------------------------------------------------------------
(* The loop over the lines of a request.                                   *)

\* m < n, as the relation the well-foundedness theorem is about.
Below == OpToRel(<, Nat)

LEMMA SomeMinimum ==
  ASSUME NEW I \in SUBSET Nat, I # {}
  PROVE  \E i \in I : \A j \in I : i <= j
<1>1. PICK i \in I : \A j \in I : ~ (<<j, i>> \in Below)
  BY NatLessThanWellFounded, WFMin DEF Below
<1>2. \A j \in I : ~ (j < i)
  BY <1>1 DEF Below, OpToRel
<1> QED
  BY <1>2

LEMMA GroupedLines ==
  ASSUME NEW r \in Requests
  PROVE  /\ Grouped(r) \subseteq Nat \ {0}
         /\ \A i \in Grouped(r) : Body[r][i] \in Lines
<1>1. Body[r] \in Seq(Lines)
  BY IntakeAssumption
<1>2. \A i \in DOMAIN Body[r] : i \in Nat \ {0} /\ Body[r][i] \in Lines
  BY <1>1
<1> QED
  BY <1>2 DEF Grouped

\* The next line is the first after this one; none is passed over.
LEMMA NextLineIsNext ==
  ASSUME Types, NEW r \in Requests, NextLine(r)
  PROVE  \/ /\ pc' = [pc EXCEPT ![r] = "commit"] /\ UNCHANGED at
            /\ \A i \in Grouped(r) : i <= at[r]
         \/ /\ pc' = [pc EXCEPT ![r] = "customer"]
            /\ at' = [at EXCEPT ![r] = at'[r]]
            /\ at'[r] \in Grouped(r)
            /\ \A i \in Grouped(r) : i < at'[r] => i <= at[r]
<1> DEFINE rest == {i \in Grouped(r) : i > at[r]}
<1>0. at \in [Requests -> Nat] /\ Grouped(r) \subseteq Nat
  BY GroupedLines DEF Types
<1>1. CASE rest = {}
  <2>1. pc' = [pc EXCEPT ![r] = "commit"] /\ UNCHANGED at
    BY <1>1 DEF NextLine, Goto
  <2> QED
    BY <1>0, <1>1, <2>1
<1>2. CASE rest # {}
  <2> DEFINE n == CHOOSE i \in rest : \A j \in rest : i <= j
  <2>1. \E i \in rest : \A j \in rest : i <= j
    BY <1>0, <1>2, SomeMinimum
  <2>2. n \in rest /\ \A j \in rest : n <= j
    BY <2>1
  <2>3. pc' = [pc EXCEPT ![r] = "customer"] /\ at' = [at EXCEPT ![r] = n]
    BY <1>2 DEF NextLine, Goto
  <2> HIDE DEF n
  <2>4. at'[r] = n
    BY <1>0, <2>3
  <2>5. \A i \in Grouped(r) : i < n => i <= at[r]
    BY <1>0, <2>2
  <2> QED
    BY <2>2, <2>3, <2>4, <2>5
<1> QED
  BY <1>1, <1>2

\* A request that has done the line it is at, or none yet, goes on.
LEMMA GoesOn ==
  ASSUME Types, NEW r \in Requests, NextLine(r), UNCHANGED orders,
         ours' \in [Requests -> SUBSET Lines], ours[r] \subseteq ours'[r],
         \A i \in Grouped(r) : i <= at[r] => StoredFor(r, i)'
  PROVE  Progress(r)' /\ pc' \in [Requests -> PCs] /\ at' \in [Requests -> Nat]
<1>1. CASE /\ pc' = [pc EXCEPT ![r] = "commit"] /\ UNCHANGED at
           /\ \A i \in Grouped(r) : i <= at[r]
  <2>1. pc'[r] = "commit" /\ pc' \in [Requests -> PCs] /\ at' \in [Requests -> Nat]
    BY <1>1 DEF Types, PCs
  <2>2. \A i \in Grouped(r) : StoredFor(r, i)'
    BY <1>1
  <2> QED
    BY <2>1, <2>2 DEF Progress, AtLine
<1>2. CASE /\ pc' = [pc EXCEPT ![r] = "customer"]
           /\ at' = [at EXCEPT ![r] = at'[r]]
           /\ at'[r] \in Grouped(r)
           /\ \A i \in Grouped(r) : i < at'[r] => i <= at[r]
  <2>1. pc'[r] = "customer" /\ pc' \in [Requests -> PCs] /\ at' \in [Requests -> Nat]
    BY <1>2, GroupedLines DEF Types, PCs
  <2>2. \A i \in Grouped(r) : i < at'[r] => StoredFor(r, i)'
    BY <1>2
  <2> QED
    BY <1>2, <2>1, <2>2 DEF Progress, AtLine
<1> QED
  BY <1>1, <1>2, NextLineIsNext

\* What another request does not change.
LEMMA OtherRequest ==
  ASSUME NEW q \in Requests, Progress(q), OwnLines(q),
         pc'[q] = pc[q], at'[q] = at[q], ours'[q] = ours[q], orders \subseteq orders'
  PROVE  Progress(q)' /\ OwnLines(q)'
<1>1. \A i \in Grouped(q) : StoredFor(q, i) => StoredFor(q, i)'
  BY DEF StoredFor
<1> QED
  BY <1>1 DEF Progress, OwnLines

LEMMA NextLineOthers ==
  ASSUME Types, NEW r \in Requests, NextLine(r)
  PROVE  \A q \in Requests \ {r} : pc'[q] = pc[q] /\ at'[q] = at[q]
BY NextLineIsNext DEF Types

-----------------------------------------------------------------------------
(* Progress and OwnLines, a step at a time.                                *)

\* A line that is done, and those before it.
LEMMA LineDone ==
  ASSUME RequestInv, NEW r \in Requests, pc[r] \in AtLine, UNCHANGED orders,
         ours[r] \subseteq ours'[r], \A i : i = at[r] => StoredFor(r, i)'
  PROVE  \A i \in Grouped(r) : i <= at[r] => StoredFor(r, i)'
<1>1. \A i \in Grouped(r) : i < at[r] => StoredFor(r, i)
  BY DEF RequestInv, Progress
<1>2. \A i \in Grouped(r) : StoredFor(r, i) => StoredFor(r, i)'
  BY DEF StoredFor
<1>3. at[r] \in Nat /\ Grouped(r) \subseteq Nat
  BY GroupedLines DEF RequestInv, Types
<1>4. \A i \in Grouped(r) : i <= at[r] => i < at[r] \/ i = at[r]
  BY <1>3
<1> QED
  BY <1>1, <1>2, <1>4

LEMMA BeginStep ==
  ASSUME RequestInv, NEW r \in Requests, Begin(r)
  PROVE  RequestInv'
<1>1. pc[r] = "new" /\ at[r] = 0 /\ NextLine(r) /\ UNCHANGED <<orders, ours>>
  BY DEF Begin, RequestInv, Progress
<1>2. \A i \in Grouped(r) : ~(i <= at[r])
  BY <1>1, GroupedLines
<1>3. Progress(r)' /\ pc' \in [Requests -> PCs] /\ at' \in [Requests -> Nat]
  BY <1>1, <1>2, GoesOn DEF RequestInv, Types
<1>4. OwnLines(r)'
  BY <1>1 DEF RequestInv, OwnLines
<1>5. \A q \in Requests \ {r} : Progress(q)' /\ OwnLines(q)'
  BY <1>1, NextLineOthers, OtherRequest DEF RequestInv
<1> QED
  BY <1>1, <1>3, <1>4, <1>5 DEF RequestInv, Types

\* Within a line.
LEMMA LookStep ==
  ASSUME RequestInv, NEW r \in Requests, Customer(r) \/ Upsert(r) \/ NotFound(r)
  PROVE  RequestInv'
<1>1. /\ pc[r] \in AtLine /\ pc'[r] \in AtLine
      /\ pc' \in [Requests -> PCs]
      /\ \A q \in Requests \ {r} : pc'[q] = pc[q]
      /\ UNCHANGED <<orders, ours, at>>
  BY DEF Customer, Upsert, NotFound, Goto, AtLine, RequestInv, Types, PCs
<1>2. Progress(r)' /\ OwnLines(r)'
  BY <1>1 DEF RequestInv, Progress, OwnLines, StoredFor, AtLine
<1>3. \A q \in Requests \ {r} : Progress(q)' /\ OwnLines(q)'
  BY <1>1, OtherRequest DEF RequestInv
<1> QED
  BY <1>1, <1>2, <1>3 DEF RequestInv, Types

LEMMA DuplicateStep ==
  ASSUME RequestInv, NEW r \in Requests, Duplicate(r)
  PROVE  RequestInv'
<1>1. pc[r] \in AtLine /\ NextLine(r) /\ UNCHANGED <<orders, ours>>
  BY DEF Duplicate, AtLine
<1>2. \A i : i = at[r] => StoredFor(r, i)'
  <2>1. \E m \in orders \cup ours[r] : SameKey(Body[r][at[r]], m)
    BY DEF Duplicate, Line
  <2> QED
    BY <1>1, <2>1 DEF StoredFor
<1>3. Progress(r)' /\ pc' \in [Requests -> PCs] /\ at' \in [Requests -> Nat]
  BY <1>1, <1>2, LineDone, GoesOn DEF RequestInv, Types
<1>4. OwnLines(r)'
  BY <1>1 DEF RequestInv, OwnLines
<1>5. \A q \in Requests \ {r} : Progress(q)' /\ OwnLines(q)'
  BY <1>1, NextLineOthers, OtherRequest DEF RequestInv
<1> QED
  BY <1>1, <1>3, <1>4, <1>5 DEF RequestInv, Types

LEMMA InsertStep ==
  ASSUME RequestInv, NEW r \in Requests, Insert(r)
  PROVE  RequestInv'
<1>1. /\ pc[r] \in AtLine /\ NextLine(r) /\ UNCHANGED orders
      /\ ours' = [ours EXCEPT ![r] = @ \cup {Line(r)}]
  BY DEF Insert, AtLine
<1>2. at[r] \in Grouped(r) /\ Line(r) = Body[r][at[r]] /\ Line(r) \in Lines
  BY <1>1, GroupedLines DEF RequestInv, Progress, Line
<1>3. /\ ours' \in [Requests -> SUBSET Lines]
      /\ ours'[r] = ours[r] \cup {Line(r)}
      /\ \A q \in Requests \ {r} : ours'[q] = ours[q]
  BY <1>1, <1>2 DEF RequestInv, Types
<1>4. \A i : i = at[r] => StoredFor(r, i)'
  BY <1>2, <1>3 DEF StoredFor, SameKey
<1>5. \A i \in Grouped(r) : i <= at[r] => StoredFor(r, i)'
  BY <1>1, <1>3, <1>4, LineDone
<1>6. Progress(r)' /\ pc' \in [Requests -> PCs] /\ at' \in [Requests -> Nat]
  BY <1>1, <1>3, <1>5, GoesOn DEF RequestInv
<1>7. OwnLines(r)'
  BY <1>2, <1>3 DEF RequestInv, OwnLines
<1>8. \A q \in Requests \ {r} : Progress(q)' /\ OwnLines(q)'
  BY <1>1, <1>3, NextLineOthers, OtherRequest DEF RequestInv
<1> QED
  BY <1>3, <1>6, <1>7, <1>8 DEF RequestInv, Types

LEMMA RollbackStep ==
  ASSUME RequestInv, NEW r \in Requests, Rollback(r)
  PROVE  RequestInv'
<1>1. /\ pc'[r] = "failed" /\ ours'[r] = {} /\ UNCHANGED <<orders, at>>
      /\ pc' \in [Requests -> PCs] /\ ours' \in [Requests -> SUBSET Lines]
      /\ \A q \in Requests \ {r} : pc'[q] = pc[q] /\ ours'[q] = ours[q]
  BY DEF Rollback, Goto, RequestInv, Types, PCs
<1>2. Progress(r)' /\ OwnLines(r)'
  BY <1>1 DEF Progress, OwnLines, AtLine
<1>3. \A q \in Requests \ {r} : Progress(q)' /\ OwnLines(q)'
  BY <1>1, OtherRequest DEF RequestInv
<1> QED
  BY <1>1, <1>2, <1>3 DEF RequestInv, Types

LEMMA AnsweredStep ==
  ASSUME RequestInv, NEW r \in Requests, Answer(r)
  PROVE  RequestInv'
BY DEF Answer, RequestInv, Types, Progress, OwnLines, StoredFor

LEMMA CommitStep ==
  ASSUME RequestInv, NEW r \in Requests, Commit(r)
  PROVE  RequestInv'
<1>1. /\ pc[r] = "commit" /\ pc'[r] = "committed" /\ ours'[r] = {}
      /\ orders' = orders \cup ours[r] /\ UNCHANGED at
      /\ pc' \in [Requests -> PCs] /\ ours' \in [Requests -> SUBSET Lines]
      /\ \A q \in Requests \ {r} : pc'[q] = pc[q] /\ ours'[q] = ours[q]
  BY DEF Commit, Goto, RequestInv, Types, PCs
<1>2. \A i \in Grouped(r) : StoredFor(r, i)'
  BY <1>1 DEF RequestInv, Progress, StoredFor
<1>3. Progress(r)' /\ OwnLines(r)'
  BY <1>1, <1>2 DEF Progress, OwnLines, AtLine
<1>4. \A q \in Requests \ {r} : Progress(q)' /\ OwnLines(q)'
  BY <1>1, OtherRequest DEF RequestInv
<1> QED
  BY <1>1, <1>3, <1>4 DEF RequestInv, Types

\* The ways of a request to be rolled back.
RollsBack(r) == Refused(r) \/ DeadlockAbort(r) \/ Fail(r)

LEMMA RequestStep ==
  ASSUME RequestInv, [Next]_vars
  PROVE  RequestInv'
<1>1. ASSUME NEW r \in Requests, Advance(r) \/ Fail(r) PROVE RequestInv'
  <2>1. CASE RollsBack(r)
    BY <2>1, RollbackStep DEF RollsBack, Refused, DeadlockAbort, Fail
  <2> QED
    BY <1>1, <2>1, BeginStep, LookStep, DuplicateStep, InsertStep, AnsweredStep, CommitStep
       DEF Advance, RollsBack
<1>2. CASE UNCHANGED vars
  BY <1>2 DEF vars, RequestInv, Types, Progress, OwnLines, StoredFor
<1> QED
  BY <1>1, <1>2 DEF Next

LEMMA RequestInit ==
  ASSUME Init
  PROVE  RequestInv
BY DEF Init, RequestInv, Types, PCs, Progress, OwnLines, AtLine

LEMMA RequestInvHolds == Spec => []RequestInv
<1>1. Init => RequestInv
  BY RequestInit
<1>2. RequestInv /\ [Next]_vars => RequestInv'
  BY RequestStep
<1> QED
  BY <1>1, <1>2, PTL DEF Spec

-----------------------------------------------------------------------------
(* What was answered, and whose orders are stored.                         *)

\* A request is answered when it commits, or early, before it does or fails.
Answers ==
  \A r \in answered : pc[r] = "committed" \/ (early /\ pc[r] \in {"commit", "failed"})

OfCommitted ==
  \A o \in orders :
    \E r \in Requests : pc[r] = "committed" /\ \E i \in Grouped(r) : Body[r][i] = o

AnswerInv == answered \subseteq Requests /\ Answers /\ OfCommitted

LEMMA CommitAnswers ==
  ASSUME RequestInv, AnswerInv, NEW r \in Requests, Commit(r)
  PROVE  AnswerInv'
<1>1. /\ pc'[r] = "committed" /\ answered' = answered \cup {r} /\ UNCHANGED early
      /\ orders' = orders \cup ours[r]
      /\ \A q \in Requests \ {r} : pc'[q] = pc[q]
  BY DEF Commit, Goto, RequestInv, Types
<1>2. \A m \in ours[r] : \E i \in Grouped(r) : Body[r][i] = m
  BY DEF RequestInv, OwnLines
<1>3. ASSUME NEW o \in orders'
      PROVE  \E q \in Requests : pc'[q] = "committed" /\ \E i \in Grouped(q) : Body[q][i] = o
  <2>1. CASE o \in ours[r]
    BY <1>1, <1>2, <2>1
  <2>2. CASE o \in orders
    BY <1>1, <2>2 DEF AnswerInv, OfCommitted
  <2> QED
    BY <1>1, <2>1, <2>2
<1>4. OfCommitted'
  BY <1>3 DEF OfCommitted, Grouped
<1> QED
  BY <1>1, <1>4 DEF AnswerInv, Answers

LEMMA AnswerStep ==
  ASSUME RequestInv, AnswerInv, [Next]_vars
  PROVE  AnswerInv'
<1>1. ASSUME UNCHANGED <<orders, early>>, answered' \subseteq Requests, Answers',
             \A q \in Requests : pc[q] = "committed" => pc'[q] = "committed"
      PROVE  AnswerInv'
  BY <1>1 DEF AnswerInv, OfCommitted, Grouped
<1>2. ASSUME NEW r \in Requests, NEW p \in PCs, Goto(r, p), UNCHANGED <<orders, answered, early>>,
             pc[r] \notin {"committed", "commit", "failed"} \/ (pc[r] = "commit" /\ p = "failed")
      PROVE  AnswerInv'
  <2>1. pc'[r] = p /\ \A q \in Requests \ {r} : pc'[q] = pc[q]
    BY <1>2 DEF Goto, RequestInv, Types
  <2> QED
    BY <1>1, <1>2, <2>1 DEF AnswerInv, Answers
<1>3. ASSUME NEW r \in Requests, Begin(r) \/ Duplicate(r) \/ Insert(r) PROVE AnswerInv'
  <2>1. Goto(r, "commit") \/ Goto(r, "customer")
    BY <1>3, NextLineIsNext DEF Begin, Duplicate, Insert, RequestInv, Goto
  <2> QED
    BY <1>2, <1>3, <2>1 DEF Begin, Duplicate, Insert, PCs, http
<1>4. ASSUME NEW r \in Requests, Customer(r) \/ Upsert(r) \/ NotFound(r) PROVE AnswerInv'
  BY <1>2, <1>4 DEF Customer, Upsert, NotFound, PCs, http
<1>5. ASSUME NEW r \in Requests, RollsBack(r) PROVE AnswerInv'
  <2>1. pc[r] \in Open
    BY <1>5 DEF RollsBack, Refused, DeadlockAbort, Deadlocked, WaitsFor, Fail, Open
  <2> QED
    BY <1>2, <1>5, <2>1 DEF RollsBack, Refused, DeadlockAbort, Fail, Rollback, Open, PCs, http
<1>6. ASSUME NEW r \in Requests, Answer(r) PROVE AnswerInv'
  BY <1>1, <1>6 DEF Answer, AnswerInv, Answers
<1>7. CASE UNCHANGED vars
  BY <1>7 DEF vars, AnswerInv, Answers, OfCommitted, Grouped
<1> QED
  BY <1>3, <1>4, <1>5, <1>6, <1>7, CommitAnswers DEF Next, Advance, RollsBack

(* A request answered as accepted has an order for each of its valid lines,  *)
(* for any number of requests and lines, unless it was answered ahead of a   *)
(* commit that is to come or failed: intake_order passes no line over.  And  *)
(* no order is of a request that failed.                                     *)
THEOREM AcceptedAreStored == Spec => []AcceptedIsStored
<1>1. Init => AnswerInv
  BY DEF Init, AnswerInv, Answers, OfCommitted
<1>2. RequestInv /\ AnswerInv /\ [Next]_vars => AnswerInv'
  BY AnswerStep
<1>3. RequestInv /\ AnswerInv => AcceptedIsStored
  BY DEF RequestInv, Progress, AnswerInv, Answers, OfCommitted, AcceptedIsStored, StoredFor
<1> QED
  BY <1>1, <1>2, <1>3, RequestInvHolds, PTL DEF Spec

-----------------------------------------------------------------------------
(* One order per key.                                                      *)

LEMMA InsertDistinct ==
  ASSUME Types, Distinct, NEW r \in Requests, Insert(r)
  PROVE  Distinct'
<1> DEFINE l == Line(r)
<1>1. ours' = [ours EXCEPT ![r] = @ \cup {l}] /\ UNCHANGED orders
  BY DEF Insert
<1>2. ours'[r] = ours[r] \cup {l} /\ \A q \in Requests \ {r} : ours'[q] = ours[q]
  BY <1>1 DEF Types
<1>3. \A m \in orders \cup ours[r] : ~Conflict(l, m)
  BY DEF Insert
<1>4. \A q \in Requests \ {r} : \A m \in ours[q] : ~Conflict(l, m)
  BY DEF Insert, Blocked, WaitsFor
<1>5. \A m : Conflict(m, l) => Conflict(l, m)
  BY DEF Conflict
<1> HIDE DEF l
<1>6. ASSUME NEW q \in Requests PROVE \A k, m \in orders' \cup ours'[q] : Conflict(k, m) => k = m
  <2>1. CASE q = r
    BY <1>1, <1>2, <1>3, <1>5, <2>1 DEF Distinct
  <2>2. CASE q # r
    BY <1>1, <1>2, <2>2 DEF Distinct
  <2> QED
    BY <2>1, <2>2
<1>7. ASSUME NEW p \in Requests, NEW q \in Requests, p # q
      PROVE  \A k \in ours'[p], m \in ours'[q] : ~Conflict(k, m)
  BY <1>2, <1>4, <1>5, <1>7 DEF Distinct
<1> QED
  BY <1>1, <1>6, <1>7 DEF Distinct, OneOrderPerKey, Conflict

LEMMA CommitDistinct ==
  ASSUME Types, Distinct, NEW r \in Requests, Commit(r)
  PROVE  Distinct'
<1>1. /\ orders' = orders \cup ours[r] /\ ours'[r] = {}
      /\ \A q \in Requests \ {r} : ours'[q] = ours[q]
  BY DEF Commit, Types
<1>2. \A k, m : Conflict(m, k) => Conflict(k, m)
  BY DEF Conflict
<1>3. ASSUME NEW q \in Requests PROVE \A k, m \in orders' \cup ours'[q] : Conflict(k, m) => k = m
  <2>1. CASE q = r
    BY <1>1, <2>1 DEF Distinct
  <2>2. CASE q # r
    BY <1>1, <1>2, <2>2 DEF Distinct
  <2> QED
    BY <2>1, <2>2
<1>4. ASSUME NEW p \in Requests, NEW q \in Requests, p # q
      PROVE  \A k \in ours'[p], m \in ours'[q] : ~Conflict(k, m)
  BY <1>1, <1>4 DEF Distinct
<1>5. \A k, m \in orders' : Conflict(k, m) => k = m
  BY <1>1 DEF Distinct
<1> QED
  BY <1>3, <1>4, <1>5 DEF Distinct, OneOrderPerKey, Conflict

LEMMA RollbackDistinct ==
  ASSUME Types, Distinct, NEW r \in Requests, Rollback(r)
  PROVE  Distinct'
<1>1. /\ UNCHANGED orders /\ ours'[r] = {}
      /\ \A q \in Requests \ {r} : ours'[q] = ours[q]
  BY DEF Rollback, Types
<1> QED
  BY <1>1 DEF Distinct, OneOrderPerKey, Conflict

LEMMA DistinctStep ==
  ASSUME Types, Distinct, [Next]_vars
  PROVE  Distinct'
<1>1. ASSUME NEW r \in Requests, Advance(r) \/ Fail(r) PROVE Distinct'
  <2>1. CASE RollsBack(r)
    BY <2>1, RollbackDistinct DEF RollsBack, Refused, DeadlockAbort, Fail
  <2>2. CASE Begin(r) \/ Customer(r) \/ Upsert(r) \/ Duplicate(r) \/ NotFound(r) \/ Answer(r)
    BY <2>2 DEF Begin, Customer, Upsert, Duplicate, NotFound, Answer, Distinct, OneOrderPerKey,
                Conflict
  <2> QED
    BY <1>1, <2>1, <2>2, InsertDistinct, CommitDistinct DEF Advance, RollsBack
<1>2. CASE UNCHANGED vars
  BY <1>2 DEF vars, Distinct, OneOrderPerKey, Conflict
<1> QED
  BY <1>1, <1>2 DEF Next

(* A store has one order per idempotency_key and per external_order_id, for  *)
(* any number of requests between their lookups and their inserts.           *)
THEOREM OneOrderForKey == Spec => []OneOrderPerKey
<1>1. Init => Distinct
  BY DEF Init, Distinct, OneOrderPerKey
<1>2. RequestInv /\ Distinct /\ [Next]_vars => Distinct'
  BY DistinctStep DEF RequestInv
<1>3. Distinct => OneOrderPerKey
  BY DEF Distinct
<1> QED
  BY <1>1, <1>2, <1>3, RequestInvHolds, PTL DEF Spec

-----------------------------------------------------------------------------
(* No order without its first contact.                                     *)

LEMMA CommitQueued ==
  ASSUME RequestInv, StoredIsQueued, NEW r \in Requests, Commit(r)
  PROVE  StoredIsQueued'
<1>1. /\ orders' = orders \cup ours[r] /\ pc'[r] = "committed"
      /\ queue' = IF r \in Dispatch THEN queue \cup ours[r] ELSE queue
      /\ \A q \in Requests \ {r} : pc'[q] = pc[q]
  BY DEF Commit, Goto, RequestInv, Types
<1>2. queue' \subseteq orders'
  BY <1>1 DEF StoredIsQueued
<1>3. ASSUME NEW o \in orders' \ queue'
      PROVE  \E q \in Requests \ Dispatch : pc'[q] = "committed" /\ \E i \in Grouped(q) : Body[q][i] = o
  <2>1. CASE o \in orders \ queue
    BY <1>1, <2>1 DEF StoredIsQueued
  <2>2. CASE o \notin orders \ queue
    <3>1. r \notin Dispatch /\ o \in ours[r]
      BY <1>1, <1>3, <2>2
    <3> QED
      BY <1>1, <3>1 DEF RequestInv, OwnLines
  <2> QED
    BY <2>1, <2>2
<1> QED
  BY <1>2, <1>3 DEF StoredIsQueued, Grouped

LEMMA QueuedStep ==
  ASSUME RequestInv, StoredIsQueued, [Next]_vars
  PROVE  StoredIsQueued'
<1>1. ASSUME NEW r \in Requests, Advance(r) \/ Fail(r), ~Commit(r) PROVE StoredIsQueued'
  <2>1. pc[r] # "committed"
    BY <1>1 DEF Advance, Begin, Customer, Upsert, Duplicate, NotFound, Insert, Refused,
                Answer, DeadlockAbort, Deadlocked, WaitsFor, Fail, Open
  <2>2. UNCHANGED <<orders, queue>>
    BY <1>1 DEF Advance, Begin, Customer, Upsert, Duplicate, NotFound, Insert, Refused,
                Answer, DeadlockAbort, Fail, Rollback
  <2>3. \A q \in Requests \ {r} : pc'[q] = pc[q]
    <3>1. CASE Begin(r) \/ Duplicate(r) \/ Insert(r)
      BY <3>1, NextLineOthers DEF Begin, Duplicate, Insert, RequestInv
    <3>2. CASE Customer(r) \/ Upsert(r) \/ NotFound(r) \/ Answer(r)
      BY <3>2 DEF Customer, Upsert, NotFound, Answer, Goto, RequestInv, Types
    <3>3. CASE RollsBack(r)
      BY <3>3 DEF RollsBack, Refused, DeadlockAbort, Fail, Rollback, Goto, RequestInv, Types
    <3> QED
      BY <1>1, <3>1, <3>2, <3>3 DEF Advance, RollsBack
  <2> QED
    BY <2>1, <2>2, <2>3 DEF StoredIsQueued, Grouped
<1>2. CASE UNCHANGED vars
  BY <1>2 DEF vars, StoredIsQueued, Grouped
<1> QED
  BY <1>1, <1>2, CommitQueued DEF Next

(* An order is stored together with the row that queues its first contact,   *)
(* or by an accepted upload that asked for none, whatever rolls back.        *)
THEOREM StoredAreQueued == Spec => []StoredIsQueued
<1>1. Init => StoredIsQueued
  BY DEF Init, StoredIsQueued
<1>2. RequestInv /\ StoredIsQueued /\ [Next]_vars => StoredIsQueued'
  BY QueuedStep
<1> QED
  BY <1>1, <1>2, RequestInvHolds, PTL DEF Spec

=============================================================================

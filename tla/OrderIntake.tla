----------------------------- MODULE OrderIntake -----------------------------
(***************************************************************************)
(* Orders enter by POST /orders/intake (one order) and by the CSV upload   *)
(* (a file of rows).  Both run intake_order and enqueue_outbound for every *)
(* order in the request's single READ COMMITTED transaction, concurrently  *)
(* with other requests.                                                    *)
(*                                                                         *)
(* An insert under a unique key waits for an uncommitted row with the same *)
(* key; it then fails, or, for customers, takes ON CONFLICT DO UPDATE.     *)
(* A line stands for one order as submitted; the order row it creates has  *)
(* its identity.                                                           *)
(*                                                                         *)
(* The transaction is that of the dependency DbAdminDep, for the upload of *)
(* DbDep, a generator that commits when FastAPI resumes it: before the     *)
(* response is sent up to version 0.117, after it from 0.118.              *)
(* pyproject.toml admits both (>=0.115), so early says which is installed. *)
(***************************************************************************)
EXTENDS Naturals, Sequences, FiniteSets

CONSTANTS
  Requests,   \* HTTP requests and CSV uploads
  Lines,      \* orders as submitted
  Body,       \* the lines of a request: [Requests -> Seq(Lines)]
  Valid,      \* lines that pass the schema's validation
  Key,        \* idempotency_key
  External,   \* external_order_id
  Phone,      \* the customer's phone_hash
  Dispatch,   \* requests that enqueue the first contact (CSV: dispatch=true)
  Faults      \* {} or {"fail"}: the database raises, the process dies

ASSUME IntakeAssumption ==
  /\ Body \in [Requests -> Seq(Lines)]
  /\ Valid \subseteq Lines
  /\ Dispatch \subseteq Requests

VARIABLES
  customers,  \* phones with a row in customers
  orders,     \* rows of orders
  queue,      \* orders with a 'whatsapp' row in retry_queues
  pc,         \* where each request is
  at,         \* index of the line it is at
  ours,       \* order rows its transaction has inserted
  touched,    \* customers rows its transaction has inserted or updated
  answered,   \* requests whose response, that they were accepted, was sent
  early       \* the response is sent before the transaction commits

vars == <<customers, orders, queue, pc, at, ours, touched, answered, early>>

http == <<answered, early>>

PCs == {"new", "customer", "upsert", "lookup", "insert", "commit", "committed", "failed"}
Open == {"customer", "upsert", "lookup", "insert", "commit"}

TypeOK ==
  /\ customers \subseteq {Phone[l] : l \in Lines}
  /\ orders \subseteq Lines
  /\ queue \subseteq Lines
  /\ pc \in [Requests -> PCs]
  /\ at \in [Requests -> Nat]
  /\ ours \in [Requests -> SUBSET Lines]
  /\ touched \in [Requests -> SUBSET {Phone[l] : l \in Lines}]
  /\ answered \subseteq Requests
  /\ early \in BOOLEAN

Init ==
  /\ customers = {}
  /\ orders = {}
  /\ queue = {}
  /\ pc = [r \in Requests |-> "new"]
  /\ at = [r \in Requests |-> 0]
  /\ ours = [r \in Requests |-> {}]
  /\ touched = [r \in Requests |-> {}]
  /\ answered = {}
  /\ early \in BOOLEAN

-----------------------------------------------------------------------------
\* upload_csv: rows with an idempotency_key seen before collapse into its
\* order; rows that do not validate go to errors.
Grouped(r) ==
  {i \in DOMAIN Body[r] :
     /\ Body[r][i] \in Valid
     /\ \A j \in 1 .. i - 1 :
          Body[r][j] \in Valid => Key[Body[r][j]] # Key[Body[r][i]]}

Line(r) == Body[r][at[r]]

SameKey(l, m) == Key[l] = Key[m]
Conflict(l, m) == Key[l] = Key[m] \/ External[l] = External[m]

WaitsFor(r, q) ==
  /\ q # r
  /\ \/ pc[r] = "upsert" /\ Phone[Line(r)] \in touched[q]
     \/ pc[r] = "insert" /\ \E m \in ours[q] : Conflict(Line(r), m)

Blocked(r) == \E q \in Requests : WaitsFor(r, q)

Goto(r, p) == pc' = [pc EXCEPT ![r] = p]

\* Mutant: an off-by-one that comes back to the same order.
NextLineAgain(r) ==
  LET rest == {i \in Grouped(r) : i >= at[r]}
  IN IF rest = {} THEN Goto(r, "commit") /\ UNCHANGED at
     ELSE /\ Goto(r, "customer")
          /\ at' = [at EXCEPT ![r] = CHOOSE i \in rest : \A j \in rest : i <= j]

\* On to the next order of the request, or to its end.
NextLine(r) ==
  LET rest == {i \in Grouped(r) : i > at[r]}
  IN IF rest = {} THEN Goto(r, "commit") /\ UNCHANGED at
     ELSE /\ Goto(r, "customer")
          /\ at' = [at EXCEPT ![r] = CHOOSE i \in rest : \A j \in rest : i <= j]

Rollback(r) ==
  /\ Goto(r, "failed")
  /\ ours' = [ours EXCEPT ![r] = {}]
  /\ touched' = [touched EXCEPT ![r] = {}]
  /\ UNCHANGED <<customers, orders, queue, at, http>>

-----------------------------------------------------------------------------
Begin(r) ==
  /\ pc[r] = "new"
  /\ NextLine(r)
  /\ UNCHANGED <<customers, orders, queue, ours, touched, http>>

\* SELECT the customer,
Customer(r) ==
  /\ pc[r] = "customer"
  /\ Goto(r, IF Phone[Line(r)] \in customers \cup touched[r] THEN "lookup" ELSE "upsert")
  /\ UNCHANGED <<customers, orders, queue, at, ours, touched, http>>

\* and, if there is none, INSERT ... ON CONFLICT DO UPDATE.
Upsert(r) ==
  /\ pc[r] = "upsert"
  /\ ~Blocked(r)
  /\ touched' = [touched EXCEPT ![r] = @ \cup {Phone[Line(r)]}]
  /\ Goto(r, "lookup")
  /\ UNCHANGED <<customers, orders, queue, at, ours, http>>

\* An order with the idempotency_key is there, committed or of this request.
Duplicate(r) ==
  /\ pc[r] = "lookup"
  /\ \E m \in orders \cup ours[r] : SameKey(Line(r), m)
  /\ NextLine(r)
  /\ UNCHANGED <<customers, orders, queue, ours, touched, http>>

NotFound(r) ==
  /\ pc[r] = "lookup"
  /\ \A m \in orders \cup ours[r] : ~SameKey(Line(r), m)
  /\ Goto(r, "insert")
  /\ UNCHANGED <<customers, orders, queue, at, ours, touched, http>>

\* Mutant: no unique constraint, only the lookup.
InsertUnchecked(r) ==
  /\ pc[r] = "insert"
  /\ ours' = [ours EXCEPT ![r] = @ \cup {Line(r)}]
  /\ NextLine(r)
  /\ UNCHANGED <<customers, orders, queue, touched, http>>

\* INSERT the order, and enqueue_outbound in the same transaction.
Insert(r) ==
  /\ pc[r] = "insert"
  /\ ~Blocked(r)
  /\ \A m \in orders \cup ours[r] : ~Conflict(Line(r), m)
  /\ ours' = [ours EXCEPT ![r] = @ \cup {Line(r)}]
  /\ NextLine(r)
  /\ UNCHANGED <<customers, orders, queue, touched, http>>

\* Mutant: ON CONFLICT DO NOTHING.
RefusedSkips(r) ==
  /\ pc[r] = "insert"
  /\ ~Blocked(r)
  /\ \E m \in orders \cup ours[r] : Conflict(Line(r), m)
  /\ NextLine(r)
  /\ UNCHANGED <<customers, orders, queue, ours, touched, http>>

\* A unique constraint is violated: nothing catches the IntegrityError.
Refused(r) ==
  /\ pc[r] = "insert"
  /\ ~Blocked(r)
  /\ \E m \in orders \cup ours[r] : Conflict(Line(r), m)
  /\ Rollback(r)

\* The handler has returned and its response goes out ahead of the commit.
Answer(r) ==
  /\ pc[r] = "commit"
  /\ early
  /\ r \notin answered
  /\ answered' = answered \cup {r}
  /\ UNCHANGED <<customers, orders, queue, pc, at, ours, touched, early>>

\* Mutant: the request queues nothing.
CommitUnqueued(r) ==
  /\ pc[r] = "commit"
  /\ early => r \in answered
  /\ customers' = customers \cup touched[r]
  /\ orders' = orders \cup ours[r]
  /\ Goto(r, "committed")
  /\ answered' = answered \cup {r}
  /\ ours' = [ours EXCEPT ![r] = {}]
  /\ touched' = [touched EXCEPT ![r] = {}]
  /\ UNCHANGED <<at, queue, early>>

\* The orders and, with dispatch, the retry_queues rows that enqueue_outbound
\* added for each of them become visible together; unless it has gone out
\* already, the response follows.
Commit(r) ==
  /\ pc[r] = "commit"
  /\ early => r \in answered
  /\ customers' = customers \cup touched[r]
  /\ orders' = orders \cup ours[r]
  /\ queue' = IF r \in Dispatch THEN queue \cup ours[r] ELSE queue
  /\ Goto(r, "committed")
  /\ answered' = answered \cup {r}
  /\ ours' = [ours EXCEPT ![r] = {}]
  /\ touched' = [touched EXCEPT ![r] = {}]
  /\ UNCHANGED <<at, early>>

Fail(r) ==
  /\ "fail" \in Faults
  /\ pc[r] \in Open
  /\ Rollback(r)

\* Postgres aborts a transaction of a cycle of waits.
Deadlocked(S) ==
  \A u \in S : (\E v \in S : WaitsFor(u, v)) /\ (\E v \in S : WaitsFor(v, u))

DeadlockAbort(r) ==
  /\ \E S \in SUBSET Requests : r \in S /\ Deadlocked(S)
  /\ Rollback(r)

Advance(r) ==
  \/ Begin(r) \/ Customer(r) \/ Upsert(r) \/ Duplicate(r) \/ NotFound(r) \/ Insert(r)
  \/ Refused(r) \/ Answer(r) \/ Commit(r) \/ DeadlockAbort(r)

Next == \E r \in Requests : Advance(r) \/ Fail(r)

Fairness == \A r \in Requests : WF_vars(Advance(r))

Spec == Init /\ [][Next]_vars
FairSpec == Spec /\ Fairness
-----------------------------------------------------------------------------
(* However requests interleave between their lookup and their insert, a      *)
(* store has one order per idempotency_key and one per external_order_id.    *)
OneOrderPerKey ==
  \A l, m \in orders : Conflict(l, m) => l = m

(* A request that was answered as accepted has an order for each of its      *)
(* valid lines, its own or an earlier request's, unless the response went    *)
(* out early and the commit is still to come or has failed; and every order  *)
(* is a line of a request that committed, so that one that failed, whatever  *)
(* it had inserted, has left none.                                           *)
AcceptedIsStored ==
  /\ \A r \in answered :
       \/ \A i \in Grouped(r) : \E m \in orders : SameKey(Body[r][i], m)
       \/ early /\ pc[r] \in {"commit", "failed"}
  /\ \A o \in orders :
       \E r \in Requests : pc[r] = "committed" /\ \E i \in Grouped(r) : Body[r][i] = o

(* An order is stored with its first contact queued, or by an upload without *)
(* dispatch: no interleaving or failure leaves an order nobody will contact. *)
StoredIsQueued ==
  /\ queue \subseteq orders
  /\ \A o \in orders \ queue :
       \E r \in Requests \ Dispatch : pc[r] = "committed" /\ \E i \in Grouped(r) : Body[r][i] = o

(* Requests that wait for each other's keys do not wait for ever.            *)
EveryRequestEnds ==
  \A r \in Requests : <>(pc[r] \in {"committed", "failed"})

=============================================================================

---------------------------- MODULE UsageMetering ----------------------------
(***************************************************************************)
(* Usage billing: analytics_rollup writes one row of billing_events per    *)
(* organisation and hour, billing_rollup reports the rows to Stripe with   *)
(* action=increment and marks them, all of a tick in one transaction.      *)
(* What Stripe has counted is not taken back when that transaction is.     *)
(***************************************************************************)
EXTENDS Naturals, FiniteSets

CONSTANTS
  Stores,
  Orgs,          \* numbered in the order in which rows of one hour come
  OrgOf,         \* [Stores -> Orgs]
  Conversations,
  StoreOf,       \* [Conversations -> Stores]
  Customers,     \* organisations with a stripe_customer_id
  Loops,         \* running billing loops
  Limit,         \* LIMIT of the SELECT, 100 in the code
  LastHour,      \* bound on the hours explored
  Deciding,      \* bound on the conversations that may get an outcome
  Faults,        \* a subset of {"down", "fail", "timeout", "crash"}
  MaxFaults      \* bound on the number of faults explored

ASSUME MeteringAssumption ==
  /\ Orgs \subseteq Nat
  /\ OrgOf \in [Stores -> Orgs]
  /\ StoreOf \in [Conversations -> Stores]
  /\ Customers \subseteq Orgs
  /\ IsFiniteSet(Loops) /\ IsFiniteSet(Conversations)
  /\ Deciding \subseteq Conversations
  /\ Limit \in Nat \ {0} /\ LastHour \in Nat /\ MaxFaults \in Nat

VARIABLES
  hour,     \* the hour now() is in
  opened,   \* opened_at of a conversation, Never before
  decided,  \* conversations with an outcome
  rows,     \* billing_events
  reported, \* keys of rows with reported_at
  counted,  \* usage records Stripe holds for a key
  refused,  \* keys of the rows Stripe refuses, whenever it is asked
  pc,       \* [Loops -> {"idle", "call", "mark"}]
  batch,    \* rows of the tick's SELECT still to do, by key
  key,      \* the row a loop is at
  staged,   \* rows the tick has marked and not committed
  aborted,  \* loops whose transaction a failed statement has aborted
  faults

meter   == <<hour, opened, decided, rows>>
ledger  == <<reported, counted, pc, batch, key, staged, aborted>>
billing == <<ledger, refused>>
vars    == <<meter, billing, faults>>

Never == LastHour + 1
Keys == Orgs \X (0 .. LastHour)
NoKey == <<>>

Row == [key : Keys, store : Stores, quantity : 0 .. Cardinality(Conversations)]

TypeOK ==
  /\ hour \in 0 .. LastHour
  /\ opened \in [Conversations -> 0 .. Never]
  /\ decided \subseteq Conversations
  /\ rows \subseteq Row
  /\ reported \subseteq Keys
  /\ counted \in [Keys -> Nat]
  /\ refused \subseteq Keys
  /\ pc \in [Loops -> {"idle", "call", "mark"}]
  /\ batch \in [Loops -> SUBSET Keys]
  /\ key \in [Loops -> Keys \cup {NoKey}]
  /\ \A w \in Loops : pc[w] = "mark" <=> key[w] # NoKey
  /\ staged \in [Loops -> SUBSET Keys]
  /\ aborted \subseteq Loops
  /\ faults \in Nat

Init ==
  /\ hour = 0
  /\ opened = [c \in Conversations |-> Never]
  /\ decided = {}
  /\ rows = {}
  /\ reported = {}
  /\ counted = [k \in Keys |-> 0]
  /\ refused = {}
  /\ pc = [w \in Loops |-> "idle"]
  /\ batch = [w \in Loops |-> {}]
  /\ key = [w \in Loops |-> NoKey]
  /\ staged = [w \in Loops |-> {}]
  /\ aborted = {}
  /\ faults = 0

Fault(f) == f \in Faults /\ faults < MaxFaults /\ faults' = faults + 1

-----------------------------------------------------------------------------
(* Conversations and the hourly row.                                       *)

\* (What opens in the last hour explored has its row after it.)
Open(c) ==
  /\ opened[c] = Never /\ hour < LastHour
  /\ opened' = [opened EXCEPT ![c] = hour]
  /\ UNCHANGED <<hour, decided, rows, billing, faults>>

Decide(c) ==
  /\ opened[c] # Never /\ c \in Deciding \ decided
  /\ decided' = decided \cup {c}
  /\ UNCHANGED <<hour, opened, rows, billing, faults>>

\* Mutant: the window has no upper end.
InHourOrLater(s, h) == {c \in Conversations : StoreOf[c] = s /\ h <= opened[c] /\ opened[c] # Never}

\* opened_at in the hour h
InHour(s, h) == {c \in Conversations : StoreOf[c] = s /\ opened[c] = h}

\* GROUP BY org_id, store_id: the stores of o with a conversation in the hour.
Groups(o, h) == {s \in Stores : OrgOf[s] = o /\ InHour(s, h) # {}}

Rolled(o, h) == \E r \in rows : r.key = <<o, h>>
Due(h) == {o \in Orgs : Groups(o, h) # {} /\ ~Rolled(o, h)}

\* The hour before now(), for every organisation that has no row for it yet:
\* of the rows of several stores ON CONFLICT DO NOTHING keeps one.  Which of
\* the new rows Stripe will refuse is settled here.
RollUp ==
  /\ hour > 0 /\ Due(hour - 1) # {}
  /\ \E s \in [Due(hour - 1) -> Stores] :
       /\ \A o \in Due(hour - 1) : s[o] \in Groups(o, hour - 1)
       /\ rows' = rows \cup
            {[key |-> <<o, hour - 1>>, store |-> s[o],
              quantity |-> Cardinality(InHour(s[o], hour - 1) \cap decided)] : o \in Due(hour - 1)}
  /\ \E bad \in SUBSET (Due(hour - 1) \cap Customers) :
       refused' = refused \cup {<<o, hour - 1>> : o \in bad}
  /\ UNCHANGED <<hour, opened, decided, ledger, faults>>

\* Six ticks fall into an hour, unless the process is down all through it.
Clock ==
  /\ hour < LastHour
  /\ IF hour = 0 \/ Due(hour - 1) = {} THEN UNCHANGED faults ELSE Fault("down")
  /\ hour' = hour + 1
  /\ UNCHANGED <<opened, decided, rows, billing>>

-----------------------------------------------------------------------------
(* billing_rollup._tick.                                                   *)

Goto(w, p) == pc' = [pc EXCEPT ![w] = p]

Billable == {r.key : r \in {r \in rows : r.key[1] \in Customers}}

\* Mutant: reported rows are selected again.
ReportableAgain == Billable

Reportable == Billable \ reported

\* ORDER BY period_start
Older(k, l) == k[2] < l[2] \/ (k[2] = l[2] /\ k[1] <= l[1])

\* Mutant: ORDER BY period_start DESC.
Newest == {k \in Reportable : Cardinality({l \in Reportable : Older(k, l)}) <= Limit}

\* LIMIT
Oldest == {k \in Reportable : Cardinality({l \in Reportable : Older(l, k)}) <= Limit}

Select(w) ==
  /\ pc[w] = "idle"
  /\ Reportable # {}
  /\ batch' = [batch EXCEPT ![w] = Oldest]
  /\ Goto(w, "call")
  /\ UNCHANGED <<meter, reported, counted, refused, key, staged, aborted, faults>>

AtHead(w, k) == k \in batch[w] /\ \A l \in batch[w] : Older(k, l)

Skip(w, k) == batch' = [batch EXCEPT ![w] = @ \ {k}]

\* create_usage_record answers.  (Its id is "placeholder", "replaced via
\* configuration" as a comment has it, which nothing does: as the code stands
\* Stripe refuses every row, one of the choices RollUp has.  The others are
\* what the rest of the loop is written for.)
Accept(w, k) ==
  /\ pc[w] = "call" /\ AtHead(w, k)
  /\ k \notin refused
  /\ counted' = [counted EXCEPT ![k] = @ + 1]
  /\ key' = [key EXCEPT ![w] = k]
  /\ Skip(w, k)
  /\ Goto(w, "mark")
  /\ UNCHANGED <<meter, reported, refused, staged, aborted, faults>>

\* It raises; the record is skipped and stays unreported.
Refuse(w, k) ==
  /\ pc[w] = "call" /\ AtHead(w, k)
  /\ k \in refused
  /\ Skip(w, k)
  /\ UNCHANGED <<meter, reported, counted, refused, pc, key, staged, aborted, faults>>

\* Mutant: the record is marked although Stripe raised.
TimeoutMarks(w, k) ==
  /\ pc[w] = "call" /\ AtHead(w, k)
  /\ Fault("timeout")
  /\ key' = [key EXCEPT ![w] = k]
  /\ Skip(w, k)
  /\ Goto(w, "mark")
  /\ UNCHANGED <<meter, reported, counted, refused, staged, aborted>>

\* It times out, and the record was taken or was not.
Timeout(w, k) ==
  /\ pc[w] = "call" /\ AtHead(w, k)
  /\ k \notin refused
  /\ Fault("timeout")
  /\ counted' = [counted EXCEPT ![k] = @ + 1] \/ UNCHANGED counted
  /\ Skip(w, k)
  /\ UNCHANGED <<meter, reported, refused, pc, key, staged, aborted>>

\* UPDATE ... SET reported_at: waits for the row if another tick has set it.
Mark(w) ==
  /\ pc[w] = "mark" /\ w \notin aborted
  /\ \A v \in Loops \ {w} : key[w] \notin staged[v]
  /\ staged' = [staged EXCEPT ![w] = @ \cup {key[w]}]
  /\ key' = [key EXCEPT ![w] = NoKey]
  /\ Goto(w, "call")
  /\ UNCHANGED <<meter, reported, counted, refused, batch, aborted, faults>>

\* The UPDATE raises and is skipped like a refusal; the transaction is
\* aborted, so the UPDATE of every later record raises after its call.
MarkFails(w) ==
  /\ pc[w] = "mark"
  /\ IF w \in aborted THEN UNCHANGED faults ELSE Fault("fail")
  /\ aborted' = aborted \cup {w}
  /\ key' = [key EXCEPT ![w] = NoKey]
  /\ Goto(w, "call")
  /\ UNCHANGED <<meter, reported, counted, refused, batch, staged>>

End(w) ==
  /\ Goto(w, "idle")
  /\ batch' = [batch EXCEPT ![w] = {}]
  /\ key' = [key EXCEPT ![w] = NoKey]
  /\ staged' = [staged EXCEPT ![w] = {}]
  /\ aborted' = aborted \ {w}

\* The end of session.begin(): of an aborted transaction nothing stays.
Commit(w) ==
  /\ pc[w] = "call" /\ batch[w] = {}
  /\ reported' = IF w \in aborted THEN reported ELSE reported \cup staged[w]
  /\ End(w)
  /\ UNCHANGED <<meter, counted, refused, faults>>

Crash(w) ==
  /\ pc[w] # "idle"
  /\ Fault("crash")
  /\ End(w)
  /\ UNCHANGED <<meter, reported, counted, refused>>

Advance(w) ==
  \/ Select(w) \/ Mark(w) \/ MarkFails(w) \/ Commit(w)
  \/ \E k \in Keys : Accept(w, k) \/ Refuse(w, k)

Next ==
  \/ \E c \in Conversations : Open(c) \/ Decide(c)
  \/ RollUp \/ Clock
  \/ \E w \in Loops : Advance(w) \/ Crash(w) \/ \E k \in Keys : Timeout(w, k)

Fairness == \A w \in Loops : WF_vars(Advance(w))

Spec == Init /\ [][Next]_vars
FairSpec == Spec /\ Fairness
-----------------------------------------------------------------------------
\* What the rows of o add up to: as many units as their quantities.
Units(o) == UNION {{r} \X (1 .. r.quantity) : r \in {r \in rows : r.key[1] = o}}

(* No conversation is billed twice, nor one without an outcome: what the     *)
(* rows of an organisation add up to is at most its decided conversations.   *)
(* (It may be less: of the stores of an organisation one row is kept, an     *)
(* outcome after the roll-up and an hour spent down count nowhere.)          *)
BilledOnce ==
  \A o \in Orgs :
    Cardinality(Units(o)) <= Cardinality({c \in decided : OrgOf[StoreOf[c]] = o})

(* A row with reported_at is a row Stripe has counted.                       *)
ReportedWasCounted ==
  \A k \in reported : counted[k] > 0

(* Stripe counts a row once, and once more for every loop that was at it     *)
(* meanwhile and every crash, timeout and failed UPDATE: create_usage_record *)
(* comes before the commit and increments.                                   *)
OverReportBounded ==
  \A k \in Keys : counted[k] <= Cardinality(Loops) + faults

\* The refused rows ahead of k.
Poisoned(k) == {l \in Reportable \cap refused : l # k /\ Older(l, k)}

(* Every row of an organisation with a Stripe customer is reported, unless   *)
(* Stripe refuses it, or the older rows that Stripe refuses, which are never *)
(* set aside, fill the whole LIMIT and starve it: nothing else does.         *)
EveryRowReported ==
  \A k \in Keys :
    k \in Billable ~> \/ k \in reported
                      \/ k \in refused
                      \/ Cardinality(Poisoned(k)) >= Limit
=============================================================================

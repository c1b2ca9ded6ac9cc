-------------------------- MODULE UsageMetering_proofs --------------------------
(***************************************************************************)
(* What is billed, and what Stripe counts of it, for any number of loops,  *)
(* organisations and faults.                                               *)
(* OverReportBounded is not inductive: how often a row has been counted    *)
(* says nothing of the loops that still have it before them.  Balance      *)
(* charges every count of a row to a fault or to a loop.  While the row is *)
(* unreported it is charged to loops that have called for it in the tick   *)
(* they are in, and whose transaction is intact; a loop that loses its     *)
(* claim (a crash, a failed UPDATE) leaves a fault in its place.  Such a   *)
(* fault pays also for the calls an aborted tick has still to make, which  *)
(* are a debt from the start.  Once the row is reported no tick selects it *)
(* again, and every loop that has it in its batch is a debt.               *)
(***************************************************************************)
EXTENDS UsageMetering, FunctionTheorems, FiniteSetTheorems, TLAPS

\* The loops that have called for k and may still report it.
Charged(k) ==
  {w \in Loops : /\ w \notin aborted
                 /\ k \in staged[w] \/ (pc[w] = "mark" /\ key[w] = k)}

\* The loops that will call for k and not be charged.
Debt(k) == {w \in Loops : k \in batch[w] /\ (k \in reported \/ w \in aborted)}

Credit(k) == IF k \in reported THEN Cardinality(Loops) ELSE Cardinality(Charged(k))

Balance == \A k \in Keys : counted[k] + Cardinality(Debt(k)) <= faults + Credit(k)

Types ==
  /\ \A r \in rows : r.key \in Keys
  /\ hour \in 0 .. LastHour
  /\ counted \in [Keys -> Nat]
  /\ pc \in [Loops -> {"idle", "call", "mark"}]
  /\ batch \in [Loops -> SUBSET Keys]
  /\ key \in [Loops -> Keys \cup {NoKey}]
  /\ staged \in [Loops -> SUBSET Keys]
  /\ reported \subseteq Keys
  /\ faults \in Nat

\* A tick has called for what it has staged, once.
Tick(w) ==
  /\ pc[w] = "mark" => key[w] \in Keys /\ key[w] \notin batch[w] /\ counted[key[w]] > 0
  /\ pc[w] = "idle" => w \notin aborted /\ staged[w] = {} /\ batch[w] = {}
  /\ \A k \in staged[w] : k \notin batch[w] /\ counted[k] > 0

TickInv == Types /\ ReportedWasCounted /\ \A w \in Loops : Tick(w)

MeterInv == TickInv /\ Balance

-----------------------------------------------------------------------------
(* Sets of loops.                                                          *)

LEMMA LoopSets ==
  ASSUME NEW S \in SUBSET Loops
  PROVE  IsFiniteSet(S) /\ Cardinality(S) \in Nat /\ Cardinality(S) <= Cardinality(Loops)
  BY FS_Subset, FS_CardinalityType, MeteringAssumption

LEMMA Fewer ==
  ASSUME NEW S \in SUBSET Loops, NEW T \in SUBSET S
  PROVE  Cardinality(T) <= Cardinality(S)
  BY LoopSets, FS_Subset

LEMMA OneMore ==
  ASSUME NEW S \in SUBSET Loops, NEW T \in SUBSET Loops, NEW w \in Loops, S \subseteq T \cup {w}
  PROVE  Cardinality(S) <= Cardinality(T) + 1
<1>1. Cardinality(T \cup {w}) <= Cardinality(T) + 1
  BY LoopSets, FS_AddElement
<1>2. Cardinality(S) <= Cardinality(T \cup {w})
  BY Fewer
<1> QED
  BY <1>1, <1>2, LoopSets

LEMMA OneLess ==
  ASSUME NEW S \in SUBSET Loops, NEW T \in SUBSET S, NEW w \in S \ T
  PROVE  Cardinality(T) + 1 <= Cardinality(S)
<1>1. Cardinality(T \cup {w}) = Cardinality(T) + 1
  BY LoopSets, FS_AddElement
<1>2. Cardinality(T \cup {w}) <= Cardinality(S)
  BY Fewer
<1> QED
  BY <1>1, <1>2

LEMMA Apart ==
  ASSUME NEW S \in SUBSET Loops, NEW T \in SUBSET Loops, S \cap T = {}
  PROVE  Cardinality(S) + Cardinality(T) <= Cardinality(Loops)
<1>1. /\ IsFiniteSet(S) /\ IsFiniteSet(T) /\ Cardinality(S) \in Nat /\ Cardinality(T) \in Nat
  BY LoopSets
<1>2. Cardinality(S \cup T) = Cardinality(S) + Cardinality(T)
  <2>1. Cardinality(S \cup T) = Cardinality(S) + Cardinality(T) - Cardinality(S \cap T)
    BY <1>1, FS_Union
  <2>2. Cardinality(S \cap T) = 0
    BY FS_EmptySet
  <2> QED
    BY <1>1, <2>1, <2>2
<1>3. Cardinality(S \cup T) <= Cardinality(Loops)
  BY LoopSets
<1> QED
  BY <1>2, <1>3

LEMMA LedgerSets ==
  ASSUME NEW k \in Keys
  PROVE  /\ Charged(k) \in SUBSET Loops /\ Charged(k)' \in SUBSET Loops
         /\ Debt(k) \in SUBSET Loops /\ Debt(k)' \in SUBSET Loops
  BY DEF Charged, Debt

LEMMA LedgerNumbers ==
  ASSUME NEW k \in Keys
  PROVE  /\ Cardinality(Charged(k)) \in Nat /\ Cardinality(Charged(k)') \in Nat
         /\ Cardinality(Debt(k)) \in Nat /\ Cardinality(Debt(k)') \in Nat
         /\ Cardinality(Loops) \in Nat
         /\ Credit(k) \in Nat
<1>1. Cardinality(Loops) \in Nat
  BY MeteringAssumption, FS_CardinalityType
<1> QED
  BY <1>1, LedgerSets, LoopSets DEF Credit

\* No claim is lost and no debt is added; at most a fault more.
LEMMA LedgerKept ==
  ASSUME MeterInv, NEW k \in Keys,
         Charged(k) \subseteq Charged(k)', Debt(k)' \subseteq Debt(k),
         UNCHANGED reported, faults' \in {faults, faults + 1},
         counted'[k] \in {counted[k], counted[k] + (faults' - faults)}
  PROVE  counted'[k] + Cardinality(Debt(k)') <= faults' + Credit(k)'
<1>1. counted[k] + Cardinality(Debt(k)) <= faults + Credit(k)
  BY DEF MeterInv, Balance
<1>2. /\ Cardinality(Charged(k)) <= Cardinality(Charged(k)')
      /\ Cardinality(Debt(k)') <= Cardinality(Debt(k))
  BY LedgerSets, Fewer
<1>3. counted[k] \in Nat /\ faults \in Nat
  BY DEF MeterInv, TickInv, Types
<1>4. Credit(k)' >= Credit(k) /\ Credit(k)' \in Nat
  BY <1>2, LedgerNumbers DEF Credit
<1> QED
  BY <1>1, <1>2, <1>3, <1>4, LedgerNumbers

-----------------------------------------------------------------------------
(* What a tick has called for.                                             *)

\* A loop that does not move keeps its tick, whatever else is counted.
LEMMA TickKept ==
  ASSUME Types, NEW v \in Loops, Tick(v),
         pc'[v] = pc[v], key'[v] = key[v], batch'[v] = batch[v], staged'[v] = staged[v],
         v \in aborted' <=> v \in aborted,
         counted' \in [Keys -> Nat], \A k \in Keys : counted'[k] >= counted[k]
  PROVE  Tick(v)'
<1>1. staged[v] \subseteq Keys
  BY DEF Types
<1>2. \A k \in Keys : counted[k] > 0 => counted'[k] > 0
  BY DEF Types
<1> QED
  BY <1>1, <1>2 DEF Tick

LEMMA MeterKept ==
  ASSUME TickInv, UNCHANGED ledger,
         \A r \in rows' : r.key \in Keys, hour' \in 0 .. LastHour, faults' \in Nat
  PROVE  TickInv'
  BY DEF TickInv, Types, Tick, ReportedWasCounted, ledger

LEMMA RollUpKeys ==
  ASSUME Types, RollUp
  PROVE  \A r \in rows' : r.key \in Keys
<1>1. \A o \in Due(hour - 1) : <<o, hour - 1>> \in Keys
  BY MeteringAssumption DEF RollUp, Due, Types, Keys
<1>2. PICK quantity, store : rows' = rows \cup
        {[key |-> <<o, hour - 1>>, store |-> store[o], quantity |-> quantity[o]] : o \in Due(hour - 1)}
  <2>1. PICK s : rows' = rows \cup
          {[key |-> <<o, hour - 1>>, store |-> s[o],
            quantity |-> Cardinality(InHour(s[o], hour - 1) \cap decided)] : o \in Due(hour - 1)}
    BY DEF RollUp
  <2> DEFINE q == [o \in Due(hour - 1) |-> Cardinality(InHour(s[o], hour - 1) \cap decided)]
  <2>2. \A o \in Due(hour - 1) : q[o] = Cardinality(InHour(s[o], hour - 1) \cap decided)
    OBVIOUS
  <2>3. rows' = rows \cup
          {[key |-> <<o, hour - 1>>, store |-> s[o], quantity |-> q[o]] : o \in Due(hour - 1)}
    BY <2>1, <2>2
  <2> QED
    BY <2>3
<1>3. \A o : [key |-> <<o, hour - 1>>, store |-> store[o], quantity |-> quantity[o]].key = <<o, hour - 1>>
  OBVIOUS
<1> QED
  BY <1>1, <1>2, <1>3 DEF Types

LEMMA SelectedKeys ==
  ASSUME Types
  PROVE  Oldest \subseteq Keys \ reported
  BY DEF Types, Oldest, Reportable, Billable

LEMMA MeterTick ==
  ASSUME TickInv, (\E c \in Conversations : Open(c) \/ Decide(c)) \/ RollUp \/ Clock
  PROVE  TickInv'
<1>1. UNCHANGED ledger
  BY DEF Open, Decide, RollUp, Clock, billing
<1>2. hour' \in 0 .. LastHour /\ faults' \in Nat
  BY MeteringAssumption DEF Open, Decide, RollUp, Clock, Fault, TickInv, Types
<1>3. \A r \in rows' : r.key \in Keys
  BY RollUpKeys DEF Open, Decide, Clock, TickInv, Types
<1> QED
  BY <1>1, <1>2, <1>3, MeterKept

LEMMA SelectTick ==
  ASSUME TickInv, NEW w \in Loops, Select(w)
  PROVE  TickInv'
<1>1. Oldest \subseteq Keys
  BY SelectedKeys DEF TickInv
<1>2. Types' /\ ReportedWasCounted'
  BY <1>1 DEF Select, Goto, meter, TickInv, Types, ReportedWasCounted
<1>3. Tick(w)'
  BY DEF Select, Goto, TickInv, Types, Tick
<1>4. ASSUME NEW v \in Loops \ {w} PROVE Tick(v)'
  BY <1>4, TickKept DEF Select, Goto, TickInv, Types
<1> QED
  BY <1>2, <1>3, <1>4 DEF TickInv

LEMMA AcceptTick ==
  ASSUME TickInv, NEW w \in Loops, NEW k \in Keys, Accept(w, k)
  PROVE  TickInv'
<1>1. /\ counted' \in [Keys -> Nat] /\ counted'[k] > 0
      /\ \A l \in Keys : counted'[l] >= counted[l]
  BY DEF Accept, TickInv, Types
<1>2. Types' /\ ReportedWasCounted'
  BY <1>1 DEF Accept, Goto, Skip, meter, TickInv, Types, ReportedWasCounted
<1>3. Tick(w)'
  <2>1. pc'[w] = "mark" /\ key'[w] = k /\ batch'[w] = batch[w] \ {k} /\ staged'[w] = staged[w]
    BY DEF Accept, Goto, Skip, TickInv, Types
  <2>2. staged[w] \subseteq Keys /\ Tick(w)
    BY DEF TickInv, Types
  <2> QED
    BY <1>1, <2>1, <2>2 DEF Tick, TickInv, Types
<1>4. ASSUME NEW v \in Loops \ {w} PROVE Tick(v)'
  <2>1. /\ pc'[v] = pc[v] /\ key'[v] = key[v] /\ batch'[v] = batch[v]
        /\ staged'[v] = staged[v] /\ aborted' = aborted
    BY DEF Accept, Goto, Skip, TickInv, Types
  <2> QED
    BY <1>1, <2>1, TickKept DEF TickInv
<1> QED
  BY <1>2, <1>3, <1>4 DEF TickInv

LEMMA SkippedTick ==
  ASSUME TickInv, NEW w \in Loops, NEW k \in Keys, Refuse(w, k) \/ Timeout(w, k)
  PROVE  TickInv'
<1>1. /\ counted' \in [Keys -> Nat] /\ faults' \in Nat
      /\ \A l \in Keys : counted'[l] >= counted[l]
  BY DEF Refuse, Timeout, Fault, TickInv, Types
<1>2. /\ UNCHANGED <<meter, reported, pc, key, staged, aborted>>
      /\ batch' = [batch EXCEPT ![w] = @ \ {k}]
  BY DEF Refuse, Timeout, Skip
<1>3. Types' /\ ReportedWasCounted'
  BY <1>1, <1>2 DEF meter, TickInv, Types, ReportedWasCounted
<1>4. Tick(w)'
  <2>1. batch'[w] = batch[w] \ {k} /\ staged[w] \subseteq Keys /\ Tick(w)
    BY <1>2 DEF TickInv, Types
  <2> QED
    BY <1>1, <1>2, <2>1 DEF Tick, TickInv, Types
<1>5. ASSUME NEW v \in Loops \ {w} PROVE Tick(v)'
  BY <1>1, <1>2, TickKept DEF TickInv, Types
<1> QED
  BY <1>3, <1>4, <1>5 DEF TickInv

LEMMA MarkTick ==
  ASSUME TickInv, NEW w \in Loops, Mark(w) \/ MarkFails(w)
  PROVE  TickInv'
<1>1. /\ pc[w] = "mark" /\ UNCHANGED <<meter, reported, counted, batch>>
      /\ key' = [key EXCEPT ![w] = NoKey] /\ pc' = [pc EXCEPT ![w] = "call"]
      /\ faults' \in Nat
  BY DEF Mark, MarkFails, Goto, Fault, TickInv, Types
<1>2. key[w] \in Keys /\ key[w] \notin batch[w] /\ counted[key[w]] > 0
  BY <1>1 DEF TickInv, Tick
<1>3. /\ staged' \in [Loops -> SUBSET Keys]
      /\ staged'[w] \subseteq staged[w] \cup {key[w]}
      /\ \A v \in Loops \ {w} : staged'[v] = staged[v] /\ (v \in aborted' <=> v \in aborted)
  BY <1>2 DEF Mark, MarkFails, TickInv, Types
<1>4. Types' /\ ReportedWasCounted'
  BY <1>1, <1>3 DEF meter, TickInv, Types, ReportedWasCounted
<1>5. Tick(w)'
  BY <1>1, <1>2, <1>3 DEF Tick, TickInv, Types
<1>6. ASSUME NEW v \in Loops \ {w} PROVE Tick(v)'
  BY <1>1, <1>3, TickKept DEF TickInv, Types
<1> QED
  BY <1>4, <1>5, <1>6 DEF TickInv

LEMMA EndTick ==
  ASSUME TickInv, NEW w \in Loops, Commit(w) \/ Crash(w)
  PROVE  TickInv'
<1>1. /\ UNCHANGED <<meter, counted>> /\ faults' \in Nat
      /\ reported' \subseteq reported \cup staged[w]
  BY DEF Commit, Crash, Fault, TickInv, Types
<1>2. End(w)
  BY DEF Commit, Crash
<1>3. \A k \in staged[w] : k \in Keys /\ counted[k] > 0
  BY DEF TickInv, Types, Tick
<1>4. Types'
  BY <1>1, <1>2, <1>3 DEF End, Goto, meter, TickInv, Types
<1>5. ReportedWasCounted'
  BY <1>1, <1>3 DEF TickInv, ReportedWasCounted
<1>6. Tick(w)'
  BY <1>2 DEF End, Goto, TickInv, Types, Tick
<1>7. ASSUME NEW v \in Loops \ {w} PROVE Tick(v)'
  BY <1>1, <1>2, TickKept DEF End, Goto, TickInv, Types
<1> QED
  BY <1>4, <1>5, <1>6, <1>7 DEF TickInv

LEMMA TickStep ==
  ASSUME TickInv, [Next]_vars
  PROVE  TickInv'
<1>1. CASE Next
  BY <1>1, MeterTick, SelectTick, AcceptTick, SkippedTick, MarkTick, EndTick DEF Next, Advance
<1>2. CASE UNCHANGED vars
  BY <1>2, MeterKept DEF vars, meter, billing, TickInv, Types
<1> QED
  BY <1>1, <1>2

-----------------------------------------------------------------------------
(* The ledger, a step at a time.                                           *)

\* No other loop's claim changes by what w does.
LEMMA OthersCharged ==
  ASSUME NEW k \in Keys, NEW w \in Loops,
         \A v \in Loops \ {w} : /\ pc'[v] = pc[v] /\ key'[v] = key[v] /\ staged'[v] = staged[v]
                                /\ (v \in aborted' <=> v \in aborted)
  PROVE  Charged(k) \ {w} = Charged(k)' \ {w}
  BY DEF Charged

LEMMA OthersDebt ==
  ASSUME NEW k \in Keys, NEW w \in Loops, k \in reported' <=> k \in reported,
         \A v \in Loops \ {w} : batch'[v] = batch[v] /\ (v \in aborted' <=> v \in aborted)
  PROVE  Debt(k) \ {w} = Debt(k)' \ {w}
  BY DEF Debt

LEMMA MeterBalance ==
  ASSUME MeterInv, UNCHANGED ledger, faults' \in {faults, faults + 1}
  PROVE  Balance'
<1> SUFFICES ASSUME NEW k \in Keys
             PROVE  counted'[k] + Cardinality(Debt(k)') <= faults' + Credit(k)'
  BY DEF Balance
<1>1. Charged(k)' = Charged(k) /\ Debt(k)' = Debt(k) /\ UNCHANGED <<reported, counted>>
  BY DEF Charged, Debt, ledger
<1> QED
  BY <1>1, LedgerKept

LEMMA SelectBalance ==
  ASSUME MeterInv, NEW w \in Loops, Select(w)
  PROVE  Balance'
<1> SUFFICES ASSUME NEW k \in Keys
             PROVE  counted'[k] + Cardinality(Debt(k)') <= faults' + Credit(k)'
  BY DEF Balance
<1>1. /\ pc[w] = "idle" /\ pc'[w] = "call" /\ batch' = [batch EXCEPT ![w] = Oldest]
      /\ UNCHANGED <<reported, counted, key, staged, aborted, faults>>
      /\ \A v \in Loops \ {w} : pc'[v] = pc[v]
  BY DEF Select, Goto, MeterInv, TickInv, Types
<1>2. w \notin aborted /\ staged[w] = {}
  BY <1>1 DEF MeterInv, TickInv, Tick
<1>3. Charged(k)' = Charged(k)
  BY <1>1, <1>2 DEF Charged
<1>4. Oldest \cap reported = {}
  BY SelectedKeys DEF MeterInv, TickInv
<1>5. Debt(k)' \subseteq Debt(k)
  BY <1>1, <1>2, <1>4 DEF Debt, MeterInv, TickInv, Types
<1> QED
  BY <1>1, <1>3, <1>5, LedgerKept

\* Each call clears a debt or makes a claim.
LEMMA AcceptBalance ==
  ASSUME MeterInv, NEW w \in Loops, NEW l \in Keys, Accept(w, l)
  PROVE  Balance'
<1> SUFFICES ASSUME NEW k \in Keys
             PROVE  counted'[k] + Cardinality(Debt(k)') <= faults' + Credit(k)'
  BY DEF Balance
<1>1. /\ pc[w] = "call" /\ l \in batch[w]
      /\ pc' = [pc EXCEPT ![w] = "mark"] /\ key' = [key EXCEPT ![w] = l]
      /\ batch' = [batch EXCEPT ![w] = @ \ {l}]
      /\ counted' = [counted EXCEPT ![l] = @ + 1]
      /\ UNCHANGED <<reported, staged, aborted, faults>>
  BY DEF Accept, AtHead, Goto, Skip
<1>2. /\ pc'[w] = "mark" /\ key'[w] = l /\ batch'[w] = batch[w] \ {l}
      /\ \A v \in Loops \ {w} : pc'[v] = pc[v] /\ key'[v] = key[v] /\ batch'[v] = batch[v]
  BY <1>1 DEF MeterInv, TickInv, Types
<1>3. Charged(k) \subseteq Charged(k)' /\ Debt(k)' \subseteq Debt(k)
  BY <1>1, <1>2 DEF Charged, Debt
<1>4. CASE k # l
  <2>1. counted'[k] = counted[k]
    BY <1>1, <1>4 DEF MeterInv, TickInv, Types
  <2> QED
    BY <1>1, <1>3, <2>1, LedgerKept DEF MeterInv, TickInv, Types
<1>5. CASE k = l
  <2>1. counted'[k] = counted[k] + 1 /\ counted[k] \in Nat /\ faults \in Nat
    BY <1>1, <1>5 DEF MeterInv, TickInv, Types
  <2>2. counted[k] + Cardinality(Debt(k)) <= faults + Credit(k)
    BY DEF MeterInv, Balance
  <2>3. /\ Cardinality(Charged(k)) <= Cardinality(Charged(k)')
        /\ Cardinality(Debt(k)') <= Cardinality(Debt(k))
    BY <1>3, LedgerSets, Fewer
  <2>4. Credit(k) <= Credit(k)' /\ Credit(k)' \in Nat
    BY <1>1, <2>3, LedgerNumbers DEF Credit
  <2>5. CASE k \in reported \/ w \in aborted
    <3>1. w \in Debt(k) \ Debt(k)'
      BY <1>1, <1>2, <1>5, <2>5 DEF Debt
    <3>2. Cardinality(Debt(k)') + 1 <= Cardinality(Debt(k))
      BY <1>3, <3>1, LedgerSets, OneLess
    <3> QED
      BY <1>1, <2>1, <2>2, <2>4, <3>2, LedgerNumbers
  <2>6. CASE k \notin reported /\ w \notin aborted
    <3>1. w \in Charged(k)' \ Charged(k)
      BY <1>1, <1>2, <1>5, <2>6 DEF Charged, MeterInv, TickInv, Tick
    <3>2. Cardinality(Charged(k)) + 1 <= Cardinality(Charged(k)')
      BY <1>3, <3>1, LedgerSets, OneLess
    <3>3. Credit(k) = Cardinality(Charged(k)) /\ Credit(k)' = Cardinality(Charged(k)')
      BY <1>1, <2>6 DEF Credit
    <3> QED
      BY <1>1, <2>1, <2>2, <2>3, <3>2, <3>3, LedgerNumbers
  <2> QED
    BY <2>5, <2>6
<1> QED
  BY <1>4, <1>5

LEMMA SkippedBalance ==
  ASSUME MeterInv, NEW w \in Loops, NEW l \in Keys, Refuse(w, l) \/ Timeout(w, l)
  PROVE  Balance'
<1> SUFFICES ASSUME NEW k \in Keys
             PROVE  counted'[k] + Cardinality(Debt(k)') <= faults' + Credit(k)'
  BY DEF Balance
<1>1. /\ batch' = [batch EXCEPT ![w] = @ \ {l}]
      /\ UNCHANGED <<reported, pc, key, staged, aborted>>
  BY DEF Refuse, Timeout, Skip
<1>2. Charged(k)' = Charged(k) /\ Debt(k)' \subseteq Debt(k)
  BY <1>1 DEF Charged, Debt, MeterInv, TickInv, Types
<1>3. /\ faults' \in {faults, faults + 1}
      /\ counted'[k] \in {counted[k], counted[k] + (faults' - faults)}
  BY DEF Refuse, Timeout, Fault, MeterInv, TickInv, Types
<1> QED
  BY <1>1, <1>2, <1>3, LedgerKept

\* The claim passes from the call to the staged row.
LEMMA MarkBalance ==
  ASSUME MeterInv, NEW w \in Loops, Mark(w)
  PROVE  Balance'
<1> SUFFICES ASSUME NEW k \in Keys
             PROVE  counted'[k] + Cardinality(Debt(k)') <= faults' + Credit(k)'
  BY DEF Balance
<1>1. /\ pc[w] = "mark" /\ key[w] \in Keys
      /\ staged'[w] = staged[w] \cup {key[w]}
      /\ \A v \in Loops \ {w} : pc'[v] = pc[v] /\ key'[v] = key[v] /\ staged'[v] = staged[v]
      /\ UNCHANGED <<reported, counted, batch, aborted, faults>>
  BY DEF Mark, Goto, MeterInv, TickInv, Types, Tick
<1>2. Charged(k) \subseteq Charged(k)' /\ Debt(k)' \subseteq Debt(k)
  BY <1>1 DEF Charged, Debt
<1> QED
  BY <1>1, <1>2, LedgerKept

\* The fault stands in for the claim, or for the debt that the tick becomes.
LEMMA MarkFailsBalance ==
  ASSUME MeterInv, NEW w \in Loops, MarkFails(w)
  PROVE  Balance'
<1> SUFFICES ASSUME NEW k \in Keys
             PROVE  counted'[k] + Cardinality(Debt(k)') <= faults' + Credit(k)'
  BY DEF Balance
<1>1. /\ \A v \in Loops \ {w} : pc'[v] = pc[v] /\ key'[v] = key[v]
      /\ aborted' = aborted \cup {w}
      /\ UNCHANGED <<reported, counted, batch, staged>>
  BY DEF MarkFails, Goto, MeterInv, TickInv, Types
<1>2. CASE w \in aborted
  <2>1. Charged(k) \subseteq Charged(k)' /\ Debt(k)' \subseteq Debt(k) /\ faults' = faults
    BY <1>1, <1>2 DEF Charged, Debt, MarkFails
  <2> QED
    BY <1>1, <2>1, LedgerKept
<1>3. CASE w \notin aborted
  <2>1. faults' = faults + 1 /\ faults \in Nat /\ counted[k] \in Nat
    BY <1>3 DEF MarkFails, Fault, MeterInv, TickInv, Types
  <2>2. counted[k] + Cardinality(Debt(k)) <= faults + Credit(k)
    BY DEF MeterInv, Balance
  <2>3. /\ Charged(k) \ {w} = Charged(k)' \ {w}
        /\ Debt(k) \ {w} = Debt(k)' \ {w}
    BY <1>1, OthersCharged, OthersDebt
  <2>4. CASE w \in Charged(k)
    <3>1. k \notin batch[w]
      BY <2>4 DEF Charged, MeterInv, TickInv, Tick
    <3>2. Debt(k)' \subseteq Debt(k) /\ Charged(k) \subseteq Charged(k)' \cup {w}
      BY <1>1, <2>3, <3>1 DEF Debt
    <3>3. /\ Cardinality(Debt(k)') <= Cardinality(Debt(k))
          /\ Cardinality(Charged(k)) <= Cardinality(Charged(k)') + 1
      BY <3>2, LedgerSets, Fewer, OneMore
    <3>4. Credit(k) <= Credit(k)' + 1 /\ Credit(k)' \in Nat
      BY <1>1, <3>3, LedgerNumbers DEF Credit
    <3> QED
      BY <1>1, <2>1, <2>2, <3>3, <3>4, LedgerNumbers
  <2>5. CASE w \notin Charged(k)
    <3>1. Debt(k)' \subseteq Debt(k) \cup {w} /\ Charged(k) \subseteq Charged(k)'
      BY <2>3, <2>5
    <3>2. /\ Cardinality(Debt(k)') <= Cardinality(Debt(k)) + 1
          /\ Cardinality(Charged(k)) <= Cardinality(Charged(k)')
      BY <3>1, LedgerSets, Fewer, OneMore
    <3>3. Credit(k) <= Credit(k)' /\ Credit(k)' \in Nat
      BY <1>1, <3>2, LedgerNumbers DEF Credit
    <3> QED
      BY <1>1, <2>1, <2>2, <3>2, <3>3, LedgerNumbers
  <2> QED
    BY <2>4, <2>5
<1> QED
  BY <1>2, <1>3

\* A row becomes reported: the loops that have it before them are not those
\* that have called for it.
LEMMA CommitBalance ==
  ASSUME MeterInv, NEW w \in Loops, Commit(w)
  PROVE  Balance'
<1> SUFFICES ASSUME NEW k \in Keys
             PROVE  counted'[k] + Cardinality(Debt(k)') <= faults' + Credit(k)'
  BY DEF Balance
<1>1. /\ pc[w] = "call" /\ batch[w] = {} /\ batch'[w] = {}
      /\ pc'[w] = "idle" /\ aborted' = aborted \ {w}
      /\ \A v \in Loops \ {w} : /\ pc'[v] = pc[v] /\ key'[v] = key[v]
                                /\ batch'[v] = batch[v] /\ staged'[v] = staged[v]
      /\ reported' = IF w \in aborted THEN reported ELSE reported \cup staged[w]
      /\ UNCHANGED <<counted, faults>>
  BY DEF Commit, End, Goto, MeterInv, TickInv, Types
<1>2. Charged(k) \ {w} = Charged(k)' \ {w}
  BY <1>1, OthersCharged
<1>3. CASE k \in reported' <=> k \in reported
  <2>1. Debt(k)' \subseteq Debt(k)
    BY <1>1, <1>3 DEF Debt
  <2>2. Cardinality(Debt(k)') <= Cardinality(Debt(k))
    BY <2>1, LedgerSets, Fewer
  <2>3. Credit(k) <= Credit(k)' /\ Credit(k)' \in Nat
    <3>1. CASE k \in reported
      BY <1>3, <3>1, LedgerNumbers DEF Credit
    <3>2. CASE k \notin reported
      <4>1. w \notin Charged(k)
        BY <1>1, <1>3, <3>2 DEF Charged
      <4>2. Cardinality(Charged(k)) <= Cardinality(Charged(k)')
        BY <1>2, <4>1, LedgerSets, Fewer
      <4> QED
        BY <1>3, <3>2, <4>2, LedgerNumbers DEF Credit
    <3> QED
      BY <3>1, <3>2
  <2>4. counted[k] + Cardinality(Debt(k)) <= faults + Credit(k)
    BY DEF MeterInv, Balance
  <2>5. faults \in Nat /\ counted[k] \in Nat
    BY DEF MeterInv, TickInv, Types
  <2> QED
    BY <1>1, <2>2, <2>3, <2>4, <2>5, LedgerNumbers
<1>4. CASE k \notin reported /\ k \in reported'
  <2>1. counted[k] + Cardinality(Debt(k)) <= faults + Cardinality(Charged(k))
    BY <1>4 DEF MeterInv, Balance, Credit
  <2>2. Debt(k)' \cap Charged(k) = {}
    BY <1>1 DEF Debt, Charged, MeterInv, TickInv, Tick
  <2>3. Cardinality(Debt(k)') + Cardinality(Charged(k)) <= Cardinality(Loops)
    BY <2>2, LedgerSets, Apart
  <2>4. Credit(k)' = Cardinality(Loops)
    BY <1>4 DEF Credit
  <2>5. faults \in Nat /\ counted[k] \in Nat
    BY DEF MeterInv, TickInv, Types
  <2> QED
    BY <1>1, <2>1, <2>3, <2>4, <2>5, LedgerNumbers
<1> QED
  BY <1>1, <1>3, <1>4

LEMMA CrashBalance ==
  ASSUME MeterInv, NEW w \in Loops, Crash(w)
  PROVE  Balance'
<1> SUFFICES ASSUME NEW k \in Keys
             PROVE  counted'[k] + Cardinality(Debt(k)') <= faults' + Credit(k)'
  BY DEF Balance
<1>1. /\ batch'[w] = {} /\ aborted' = aborted \ {w}
      /\ \A v \in Loops \ {w} : /\ pc'[v] = pc[v] /\ key'[v] = key[v]
                                /\ batch'[v] = batch[v] /\ staged'[v] = staged[v]
      /\ UNCHANGED <<counted, reported>>
      /\ faults' = faults + 1 /\ faults \in Nat /\ counted[k] \in Nat
  BY DEF Crash, End, Goto, Fault, MeterInv, TickInv, Types
<1>2. Charged(k) \ {w} = Charged(k)' \ {w}
  BY <1>1, OthersCharged
<1>3. Debt(k)' \subseteq Debt(k) /\ Charged(k) \subseteq Charged(k)' \cup {w}
  BY <1>1, <1>2 DEF Debt
<1>4. /\ Cardinality(Debt(k)') <= Cardinality(Debt(k))
      /\ Cardinality(Charged(k)) <= Cardinality(Charged(k)') + 1
  BY <1>3, LedgerSets, Fewer, OneMore
<1>5. Credit(k) <= Credit(k)' + 1 /\ Credit(k)' \in Nat
  BY <1>1, <1>4, LedgerNumbers DEF Credit
<1>6. counted[k] + Cardinality(Debt(k)) <= faults + Credit(k)
  BY DEF MeterInv, Balance
<1> QED
  BY <1>1, <1>4, <1>5, <1>6, LedgerNumbers

-----------------------------------------------------------------------------
LEMMA MeterInit ==
  ASSUME Init
  PROVE  MeterInv
<1>1. TickInv
  BY MeteringAssumption
     DEF Init, NoKey, TickInv, Types, ReportedWasCounted, Tick
<1>2. ASSUME NEW k \in Keys PROVE counted[k] + Cardinality(Debt(k)) <= faults + Credit(k)
  <2>1. Debt(k) = {} /\ counted[k] = 0 /\ faults = 0
    BY DEF Init, Debt
  <2>2. Credit(k) \in Nat
    BY LedgerNumbers
  <2> QED
    BY <2>1, <2>2, FS_EmptySet
<1> QED
  BY <1>1, <1>2 DEF MeterInv, Balance

LEMMA MeterStep ==
  ASSUME MeterInv, [Next]_vars
  PROVE  MeterInv'
<1>1. TickInv'
  BY TickStep DEF MeterInv
<1>2. ASSUME \E c \in Conversations : Open(c) \/ Decide(c) PROVE Balance'
  BY <1>2, MeterBalance DEF Open, Decide, billing
<1>3. ASSUME RollUp \/ Clock PROVE Balance'
  BY <1>3, MeterBalance DEF RollUp, Clock, Fault, billing
<1>4. ASSUME NEW w \in Loops, Advance(w) PROVE Balance'
  BY <1>4, SelectBalance, AcceptBalance, SkippedBalance, MarkBalance, MarkFailsBalance,
     CommitBalance DEF Advance
<1>5. ASSUME NEW w \in Loops, Crash(w) \/ (\E k \in Keys : Timeout(w, k)) PROVE Balance'
  BY <1>5, CrashBalance, SkippedBalance
<1>6. ASSUME UNCHANGED vars PROVE Balance'
  BY <1>6, MeterBalance DEF vars, billing
<1> QED
  BY <1>1, <1>2, <1>3, <1>4, <1>5, <1>6 DEF Next, MeterInv

LEMMA Metered == Spec => []MeterInv
<1>1. Init => MeterInv
  BY MeterInit
<1>2. MeterInv /\ [Next]_vars => MeterInv'
  BY MeterStep
<1> QED
  BY <1>1, <1>2, PTL DEF Spec

\* A row that bears reported_at was counted by Stripe, whatever the loops did:
\* the UPDATE comes after the call (billing_rollup._tick).
THEOREM ReportedIsCounted == Spec => []ReportedWasCounted
<1>1. MeterInv => ReportedWasCounted
  BY DEF MeterInv, TickInv
<1> QED
  BY <1>1, Metered, PTL

\* However many loops and faults there are, a row is counted at most once a
\* loop and once a fault: no sequence of them makes the excess grow further.
THEOREM OverReportIsBounded == Spec => []OverReportBounded
<1>1. MeterInv => OverReportBounded
  <2> SUFFICES ASSUME MeterInv, NEW k \in Keys
               PROVE  counted[k] <= Cardinality(Loops) + faults
    BY DEF OverReportBounded
  <2>1. counted[k] + Cardinality(Debt(k)) <= faults + Credit(k)
    BY DEF MeterInv, Balance
  <2>2. Credit(k) <= Cardinality(Loops)
    BY LedgerSets, LoopSets, LedgerNumbers DEF Credit
  <2>3. counted[k] \in Nat /\ faults \in Nat
    BY DEF MeterInv, TickInv, Types
  <2> QED
    BY <2>1, <2>2, <2>3, LedgerNumbers
<1> QED
  BY <1>1, Metered, PTL

-----------------------------------------------------------------------------
(* The rows.  BilledOnce says nothing of where a row's quantity comes from;   *)
(* RowOK does: an hour that is over, a store of the row's organisation, and   *)
(* no more units than decided conversations opened then and there.  Such a    *)
(* row stays within its bound, for nothing is opened in a past hour and no    *)
(* outcome is lost; the conversations of two rows are different because no    *)
(* two rows have one key.                                                     *)

Counted(r) == InHour(r.store, r.key[2]) \cap decided

RowOK(r) ==
  /\ r.key \in Keys /\ r.key[2] < hour
  /\ r.store \in Stores /\ OrgOf[r.store] = r.key[1]
  /\ r.quantity \in Nat /\ r.quantity <= Cardinality(Counted(r))

RowsInv ==
  /\ hour \in 0 .. LastHour
  /\ opened \in [Conversations -> 0 .. Never]
  /\ decided \subseteq Conversations
  /\ \A r \in rows : RowOK(r)
  /\ \A r, s \in rows : r.key = s.key => r = s

LEMMA CountedSets ==
  ASSUME NEW s, NEW h
  PROVE  /\ IsFiniteSet(InHour(s, h) \cap decided)
         /\ Cardinality(InHour(s, h) \cap decided) \in Nat
  BY FS_Subset, FS_CardinalityType, MeteringAssumption DEF InHour

\* A finite set holds the numbers up to any bound within its size.
LEMMA NumbersInto ==
  ASSUME NEW S, IsFiniteSet(S), NEW n \in Nat, n <= Cardinality(S)
  PROVE  \E f : f \in Injection(1 .. n, S)
<1>1. PICK b : b \in Bijection(1 .. Cardinality(S), S)
  BY FS_CardinalityType DEF ExistsBijection
<1>2. Cardinality(S) \in Nat
  BY FS_CardinalityType
<1>3. [i \in 1 .. n |-> b[i]] \in Injection(1 .. n, S)
  <2>1. 1 .. n \subseteq 1 .. Cardinality(S)
    BY <1>2
  <2> QED
    BY <1>1, <2>1 DEF Bijection, Injection, IsInjective
<1> QED
  BY <1>3

\* Hours past and outcomes known are not taken back.
LEMMA RowKept ==
  ASSUME RowsInv, NEW r, RowOK(r),
         hour' \in 0 .. LastHour, hour <= hour', decided \subseteq decided',
         decided' \subseteq Conversations,
         \A c \in Conversations : opened[c] = r.key[2] => opened'[c] = opened[c]
  PROVE  RowOK(r)'
<1>1. Counted(r) \subseteq Counted(r)'
  BY DEF Counted, InHour
<1>2. IsFiniteSet(Counted(r)')
  BY FS_Subset, MeteringAssumption DEF Counted, InHour
<1>3. Cardinality(Counted(r)) <= Cardinality(Counted(r)')
  BY <1>1, <1>2, FS_Subset
<1>4. Cardinality(Counted(r)) \in Nat /\ Cardinality(Counted(r)') \in Nat
  BY <1>1, <1>2, FS_Subset, FS_CardinalityType
<1>5. r.key[2] \in Nat /\ hour \in Nat /\ hour' \in Nat
  BY DEF RowOK, Keys, RowsInv
<1> QED
  BY <1>3, <1>4, <1>5 DEF RowOK

\* A conversation is opened in the hour that runs, of which there is no row.
LEMMA OpenRows ==
  ASSUME RowsInv, NEW c \in Conversations, Open(c)
  PROVE  RowsInv'
<1>1. /\ opened' \in [Conversations -> 0 .. Never]
      /\ opened' = [opened EXCEPT ![c] = hour]
      /\ opened[c] = Never /\ UNCHANGED <<hour, decided, rows>>
  BY MeteringAssumption DEF Open, RowsInv, Never
<1>2. ASSUME NEW r \in rows PROVE RowOK(r)'
  <2>1. RowOK(r) /\ r.key[2] # Never
    BY MeteringAssumption DEF RowsInv, RowOK, Never, Keys
  <2>2. \A d \in Conversations : opened[d] = r.key[2] => opened'[d] = opened[d]
    BY <1>1, <2>1 DEF RowsInv
  <2> QED
    BY <1>1, <2>1, <2>2, RowKept DEF RowsInv
<1> QED
  BY <1>1, <1>2 DEF RowsInv

LEMMA SettledRows ==
  ASSUME RowsInv, UNCHANGED <<opened, rows>>,
         hour' \in 0 .. LastHour, hour <= hour',
         decided \subseteq decided', decided' \subseteq Conversations
  PROVE  RowsInv'
<1>1. ASSUME NEW r \in rows PROVE RowOK(r)'
  BY RowKept DEF RowsInv
<1> QED
  BY <1>1 DEF RowsInv

LEMMA RollUpRows ==
  ASSUME RowsInv, RollUp
  PROVE  RowsInv'
<1>1. /\ hour > 0 /\ hour \in 0 .. LastHour /\ UNCHANGED <<hour, opened, decided>>
  BY DEF RollUp, RowsInv
<1>2. PICK s \in [Due(hour - 1) -> Stores] :
        /\ \A o \in Due(hour - 1) : s[o] \in Groups(o, hour - 1)
        /\ rows' = rows \cup
             {[key |-> <<o, hour - 1>>, store |-> s[o],
               quantity |-> Cardinality(InHour(s[o], hour - 1) \cap decided)] : o \in Due(hour - 1)}
  BY DEF RollUp
<1> DEFINE New(o) == [key |-> <<o, hour - 1>>, store |-> s[o],
                      quantity |-> Cardinality(InHour(s[o], hour - 1) \cap decided)]
<1>3. \A r \in rows' : r \in rows \/ \E o \in Due(hour - 1) : r = New(o)
  BY <1>2
<1>4. ASSUME NEW o \in Due(hour - 1), NEW r, r = New(o)
      PROVE  RowOK(r)' /\ \A q \in rows : q.key # r.key
  <2>1. /\ r.key = <<o, hour - 1>> /\ r.store = s[o]
        /\ r.quantity = Cardinality(InHour(s[o], hour - 1) \cap decided)
    BY <1>4
  <2>2. o \in Orgs /\ s[o] \in Stores /\ OrgOf[s[o]] = o /\ ~Rolled(o, hour - 1)
    BY <1>2 DEF Due, Groups
  <2>3. r.key \in Keys /\ r.key[1] = o /\ r.key[2] = hour - 1
    BY <1>1, <2>1, <2>2, MeteringAssumption DEF Keys
  <2>4. Counted(r) = InHour(s[o], hour - 1) \cap decided /\ Counted(r)' = Counted(r)
    BY <1>1, <2>1, <2>3 DEF Counted, InHour
  <2>5. r.quantity \in Nat /\ r.quantity = Cardinality(Counted(r)')
    BY <2>1, <2>4, CountedSets
  <2>6. RowOK(r)'
    BY <1>1, <2>1, <2>2, <2>3, <2>5 DEF RowOK
  <2> QED
    BY <2>1, <2>2, <2>6 DEF Rolled
<1>5. \A r \in rows : RowOK(r)'
  BY <1>1, RowKept DEF RowsInv
<1>6. \A o, p \in Due(hour - 1) : New(o).key = New(p).key => o = p
  OBVIOUS
<1> HIDE DEF New
<1>7. ASSUME NEW r \in rows' PROVE RowOK(r)'
  BY <1>3, <1>4, <1>5
<1>8. \A r, q \in rows' : r.key = q.key => r = q
  BY <1>3, <1>4, <1>6 DEF RowsInv
<1> QED
  BY <1>1, <1>7, <1>8 DEF RowsInv

LEMMA RowsInit ==
  ASSUME Init
  PROVE  RowsInv
  BY MeteringAssumption DEF Init, RowsInv, Never

LEMMA RowsStep ==
  ASSUME RowsInv, [Next]_vars
  PROVE  RowsInv'
<1>1. ASSUME NEW c \in Conversations, Decide(c) PROVE RowsInv'
  BY <1>1, SettledRows DEF Decide, RowsInv
<1>2. ASSUME Clock PROVE RowsInv'
  BY <1>2, SettledRows, MeteringAssumption DEF Clock, RowsInv
<1>3. ASSUME UNCHANGED meter PROVE RowsInv'
  BY <1>3, SettledRows DEF meter, RowsInv
<1>4. ASSUME NEW w \in Loops, Advance(w) \/ Crash(w) \/ (\E k \in Keys : Timeout(w, k))
      PROVE  UNCHANGED meter
  BY <1>4 DEF Advance, Select, Accept, Refuse, Mark, MarkFails, Commit, Crash, Timeout
<1> QED
  BY <1>1, <1>2, <1>3, <1>4, OpenRows, RollUpRows DEF Next, vars

\* Each unit is given a conversation of its own.
LEMMA UnitsAreConversations ==
  ASSUME RowsInv, NEW o \in Orgs
  PROVE  Cardinality(Units(o)) <= Cardinality({c \in decided : OrgOf[StoreOf[c]] = o})
<1> DEFINE D == {c \in decided : OrgOf[StoreOf[c]] = o}
           Place(r) == CHOOSE f : f \in Injection(1 .. r.quantity, Counted(r))
           Bill == [u \in Units(o) |-> Place(u[1])[u[2]]]
<1>1. IsFiniteSet(D)
  BY FS_Subset, MeteringAssumption DEF RowsInv
<1>2. \A u \in Units(o) : /\ u[1] \in rows /\ u[1].key[1] = o
                          /\ u[2] \in 1 .. u[1].quantity /\ u = <<u[1], u[2]>>
  BY DEF Units
<1>3. ASSUME NEW r \in rows PROVE Place(r) \in Injection(1 .. r.quantity, Counted(r))
  <2>1. RowOK(r) /\ IsFiniteSet(Counted(r))
    BY CountedSets DEF RowsInv, Counted
  <2>2. \E f : f \in Injection(1 .. r.quantity, Counted(r))
    BY <2>1, NumbersInto DEF RowOK
  <2> QED
    BY <2>2
<1> HIDE DEF Place
<1>4. ASSUME NEW u \in Units(o)
      PROVE  Bill[u] \in Counted(u[1])
  BY <1>2, <1>3 DEF Injection
<1>5. ASSUME NEW u \in Units(o)
      PROVE  Bill[u] \in D
  <2>1. RowOK(u[1]) /\ u[1].key[1] = o
    BY <1>2 DEF RowsInv
  <2> QED
    BY <1>4, <2>1 DEF Counted, InHour, RowOK, RowsInv
<1>6. ASSUME NEW u \in Units(o), NEW v \in Units(o), Bill[u] = Bill[v]
      PROVE  u = v
  <2>1. u[1].key = v[1].key
    <3>1. opened[Bill[u]] = u[1].key[2] /\ opened[Bill[u]] = v[1].key[2]
      BY <1>4, <1>6 DEF Counted, InHour
    <3>2. u[1].key \in Keys /\ v[1].key \in Keys /\ u[1].key[1] = o /\ v[1].key[1] = o
      BY <1>2 DEF RowsInv, RowOK
    <3>3. \A k, l \in Keys : k[1] = l[1] /\ k[2] = l[2] => k = l
      BY DEF Keys
    <3> QED
      BY <3>1, <3>2, <3>3
  <2>2. u[1] = v[1]
    BY <1>2, <2>1 DEF RowsInv
  <2>3. Place(u[1])[u[2]] = Place(u[1])[v[2]]
    BY <1>6, <2>2
  <2>4. u[2] = v[2]
    BY <1>2, <1>3, <2>2, <2>3 DEF Injection, IsInjective
  <2> QED
    BY <1>2, <2>2, <2>4
<1> HIDE DEF Bill
<1>7. Bill \in Injection(Units(o), D)
  <2>1. Bill \in [Units(o) -> D]
    BY <1>5 DEF Bill
  <2> QED
    BY <1>6, <2>1 DEF Injection, IsInjective
<1> QED
  BY <1>1, <1>7, FS_Injection

\* What an organisation is billed for is conversations of its own that have an
\* outcome, each at most once, whatever hours the process spent down
\* (analytics_rollup's window and ON CONFLICT DO NOTHING).
THEOREM NobodyIsBilledTwice == Spec => []BilledOnce
<1>1. Init => RowsInv
  BY RowsInit
<1>2. RowsInv /\ [Next]_vars => RowsInv'
  BY RowsStep
<1>3. RowsInv => BilledOnce
  BY UnitsAreConversations DEF BilledOnce
<1> QED
  BY <1>1, <1>2, <1>3, PTL DEF Spec

=============================================================================

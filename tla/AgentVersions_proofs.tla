------------------------- MODULE AgentVersions_proofs -------------------------
(***************************************************************************)
(* The numbering of AgentVersions, for any number of agents and requests.  *)
(* VersionsNumbered is not inductive: it does not say which number a       *)
(* request under way may still insert.  Numbering adds that the numbers of *)
(* an agent are an interval 1 .. k, that whoever computed a number found   *)
(* all smaller ones taken, and that an inserted, uncommitted row is the    *)
(* only one of its number; so a commit always adds k + 1, and the version  *)
(* it publishes is the newest.                                             *)
(***************************************************************************)
EXTENDS AgentVersions, TLAPS

Interval(a) == \E k \in Nat : Numbers(a) = 1 .. k

OneRowPerNumber ==
  \A v, u \in versions : v.agent = u.agent /\ v.version = u.version => v = u

RowsHaveAgents ==
  /\ \A v \in versions : v.agent \in created
  /\ \A r \in Requests : Staged(r) => AgentOf[r] \in created

SmallerTaken ==
  \A r \in Requests :
    pc[r] \in {"insert", "publish", "commit"} =>
      number[r] > 0 /\ \A m \in 1 .. number[r] - 1 : m \in Numbers(AgentOf[r])

StagedAlone ==
  \A r \in Requests : Staged(r) =>
    ~Taken(r) /\ \A q \in Requests : Staged(q) /\ SameNumber(r, q) => q = r

Numbering ==
  /\ TypeOK
  /\ \A a \in Agents : Interval(a)
  /\ OneRowPerNumber
  /\ RowsHaveAgents
  /\ SmallerTaken
  /\ StagedAlone

-----------------------------------------------------------------------------
\* What is read off an interval.
LEMMA NextOfInterval ==
  ASSUME NEW a \in Agents, NEW k \in Nat, Numbers(a) = 1 .. k
  PROVE  NextNumber(a) = k + 1
<1>1. CASE k = 0
  BY <1>1 DEF NextNumber
<1>2. CASE k > 0
  <2> DEFINE m == CHOOSE n \in Numbers(a) : \A i \in Numbers(a) : i <= n
  <2>1. \E n \in Numbers(a) : \A i \in Numbers(a) : i <= n
    <3>1. k \in Numbers(a) /\ \A i \in Numbers(a) : i <= k
      BY <1>2
    <3> QED
      BY <3>1
  <2>2. m \in Numbers(a) /\ \A i \in Numbers(a) : i <= m
    BY <2>1
  <2>3. m = k
    BY <2>2, <1>2
  <2>4. Numbers(a) # {}
    BY <2>2
  <2>5. NextNumber(a) = 1 + m
    BY <2>4, Zenon DEF NextNumber
  <2> HIDE DEF m
  <2> QED
    BY <2>3, <2>5
<1> QED
  BY <1>1, <1>2

\* The row of a request that may commit is the next one of its agent.
LEMMA StagedIsNext ==
  ASSUME Numbering, NEW r \in Requests, Staged(r),
         NEW k \in Nat, Numbers(AgentOf[r]) = 1 .. k
  PROVE  number[r] = k + 1
<1>1. number[r] \in Nat /\ number[r] > 0 /\ \A m \in 1 .. number[r] - 1 : m \in 1 .. k
  BY DEF Numbering, TypeOK, SmallerTaken, Staged
<1>2. number[r] \notin 1 .. k
  BY DEF Numbering, StagedAlone, Taken
<1>3. ~(number[r] > k + 1)
  BY <1>1
<1> QED
  BY <1>1, <1>2, <1>3

\* Numbers of the other agents, and of the agent of the new row.
LEMMA NumbersAfter ==
  ASSUME NEW row \in VersionRow, versions' = versions \cup {row}, NEW a
  PROVE  Numbers(a)' = IF a = row.agent THEN Numbers(a) \cup {row.version} ELSE Numbers(a)
BY DEF Numbers

LEMMA NumbersSame ==
  ASSUME UNCHANGED versions, NEW a
  PROVE  Numbers(a)' = Numbers(a)
BY DEF Numbers

-----------------------------------------------------------------------------
LEMMA NumberingInit == Init => Numbering
<1> SUFFICES ASSUME Init PROVE Numbering
  OBVIOUS
<1>1. \A a \in Agents : Numbers(a) = 1 .. 0
  <2>1. \A a \in Agents : Numbers(a) = {}
    BY DEF Init, Numbers
  <2>2. 1 .. 0 = {}
    OBVIOUS
  <2> QED
    BY <2>1, <2>2
<1> QED
  BY <1>1, AgentsAssumption DEF Init, Numbering, TypeOK, Interval, OneRowPerNumber,
     RowsHaveAgents, SmallerTaken, StagedAlone, Staged, VersionRow, Ended

LEMMA NumberingNext == Numbering /\ [Next]_vars => Numbering'
<1> SUFFICES ASSUME Numbering, [Next]_vars PROVE Numbering'
  OBVIOUS
<1> USE AgentsAssumption
<1>1. ASSUME NEW a \in Agents, CreateAgent(a) PROVE Numbering'
  <2> DEFINE row == [agent |-> a, version |-> 1, by |-> Nobody]
  <2>1. row \in VersionRow /\ versions' = versions \cup {row}
    BY <1>1 DEF CreateAgent, VersionRow
  <2>2. Numbers(a) = {}
    BY <1>1 DEF CreateAgent, Numbering, RowsHaveAgents, Numbers
  <2>3. \A b : Numbers(b)' = IF b = a THEN {1} ELSE Numbers(b)
    BY <2>1, <2>2, NumbersAfter
  <2>4. TypeOK'
    BY <1>1, <2>1 DEF CreateAgent, Numbering, TypeOK
  <2>5. (\A b \in Agents : Interval(b))'
    <3>1. 1 .. 1 = {1}
      OBVIOUS
    <3> QED
      BY <2>3, <3>1 DEF Numbering, Interval
  <2>6. OneRowPerNumber'
    <3>1. \A v \in versions : v.agent # a
      BY <1>1 DEF CreateAgent, Numbering, RowsHaveAgents
    <3> QED
      BY <2>1, <3>1 DEF Numbering, OneRowPerNumber
  <2>7. RowsHaveAgents'
    BY <1>1, <2>1 DEF CreateAgent, Numbering, RowsHaveAgents, Staged
  <2>8. SmallerTaken'
    <3>1. \A b : Numbers(b) \subseteq Numbers(b)'
      BY <2>2, <2>3
    <3> QED
      BY <1>1, <3>1 DEF CreateAgent, Numbering, SmallerTaken
  <2>9. StagedAlone'
    <3>1. \A r \in Requests : Staged(r) => AgentOf[r] # a
      BY <1>1 DEF CreateAgent, Numbering, RowsHaveAgents
    <3> QED
      BY <1>1, <2>3, <3>1 DEF CreateAgent, Numbering, StagedAlone, Staged, Taken, SameNumber
  <2> QED
    BY <2>4, <2>5, <2>6, <2>7, <2>8, <2>9 DEF Numbering
<1>2. ASSUME NEW r \in Requests, ReadMax(r) PROVE Numbering'
  <2>1. \A a : Numbers(a)' = Numbers(a)
    BY <1>2, NumbersSame DEF ReadMax
  <2>2. PICK k \in Nat : Numbers(AgentOf[r]) = 1 .. k
    BY DEF Numbering, Interval
  <2>3. number' = [number EXCEPT ![r] = k + 1]
    BY <1>2, <2>2, NextOfInterval DEF ReadMax
  <2>4. TypeOK'
    BY <1>2, <2>3 DEF ReadMax, Goto, Numbering, TypeOK, Ended
  <2>5. SmallerTaken'
    <3>1. \A q \in Requests : q # r => number'[q] = number[q] /\ pc'[q] = pc[q]
      BY <1>2, <2>3 DEF ReadMax, Goto, Numbering, TypeOK
    <3>2. number'[r] = k + 1
      BY <2>3 DEF Numbering, TypeOK
    <3> QED
      BY <2>1, <2>2, <3>1, <3>2 DEF Numbering, SmallerTaken
  <2>6. StagedAlone'
    <3>1. \A q \in Requests : Staged(q)' => Staged(q) /\ q # r
      BY <1>2 DEF ReadMax, Goto, Numbering, TypeOK, Staged
    <3> QED
      BY <2>1, <2>3, <3>1 DEF Numbering, StagedAlone, Taken, SameNumber, TypeOK
  <2>7. (\A a \in Agents : Interval(a))' /\ OneRowPerNumber'
    BY <1>2, <2>1 DEF ReadMax, Numbering, Interval, OneRowPerNumber
  <2>8. RowsHaveAgents'
    BY <1>2 DEF ReadMax, Goto, Numbering, RowsHaveAgents, Staged, TypeOK
  <2> QED
    BY <2>4, <2>5, <2>6, <2>7, <2>8 DEF Numbering
<1>3. ASSUME NEW r \in Requests, Insert(r) PROVE Numbering'
  <2>1. UNCHANGED versions /\ \A a : Numbers(a)' = Numbers(a)
    BY <1>3, NumbersSame DEF Insert
  <2>2. \A q \in Requests : q # r => (Staged(q)' <=> Staged(q))
    BY <1>3 DEF Insert, Goto, Numbering, TypeOK, Staged
  <2>3. TypeOK'
    BY <1>3 DEF Insert, Goto, Numbering, TypeOK, Ended
  <2>4. SmallerTaken'
    BY <1>3, <2>1 DEF Insert, Goto, Numbering, SmallerTaken, TypeOK
  <2>5. StagedAlone'
    <3>1. \A q \in Requests \ {r} : Staged(q) => ~SameNumber(r, q) /\ ~SameNumber(q, r)
      BY <1>3 DEF Insert, Waits, SameNumber
    <3>2. ~Taken(r)
      BY <1>3 DEF Insert
    <3> QED
      BY <1>3, <2>1, <2>2, <3>1, <3>2 DEF Insert, Numbering, StagedAlone, Taken, SameNumber
  <2>6. (\A a \in Agents : Interval(a))' /\ OneRowPerNumber'
    BY <2>1 DEF Numbering, Interval, OneRowPerNumber
  <2>7. RowsHaveAgents'
    BY <1>3, <2>2 DEF Insert, Numbering, RowsHaveAgents
  <2> QED
    BY <2>3, <2>4, <2>5, <2>6, <2>7 DEF Numbering
<1>4. ASSUME NEW r \in Requests, Refused(r) \/ Fail(r) PROVE Numbering'
  <2>1. UNCHANGED <<created, versions, current, number>> /\ pc' = [pc EXCEPT ![r] = "failed"]
    BY <1>4 DEF Refused, Fail, Goto
  <2>2. \A a : Numbers(a)' = Numbers(a)
    BY <2>1, NumbersSame
  <2>3. \A q \in Requests : Staged(q)' => Staged(q)
    BY <2>1 DEF Numbering, TypeOK, Staged
  <2> QED
    BY <2>1, <2>2, <2>3 DEF Numbering, TypeOK, Ended, Interval, OneRowPerNumber,
       RowsHaveAgents, SmallerTaken, StagedAlone, Taken, SameNumber
<1>5. ASSUME NEW r \in Requests, Publish(r) PROVE Numbering'
  <2>1. UNCHANGED <<created, versions, current, number>>
        /\ pc[r] = "publish" /\ pc' = [pc EXCEPT ![r] = "commit"]
    BY <1>5 DEF Publish, Goto
  <2>2. \A a : Numbers(a)' = Numbers(a)
    BY <2>1, NumbersSame
  <2>3. \A q \in Requests : Staged(q)' <=> Staged(q)
    BY <2>1 DEF Numbering, TypeOK, Staged
  <2> QED
    BY <2>1, <2>2, <2>3 DEF Numbering, TypeOK, Ended, Interval, OneRowPerNumber,
       RowsHaveAgents, SmallerTaken, StagedAlone, Taken, SameNumber
<1>6. ASSUME NEW r \in Requests, Commit(r) PROVE Numbering'
  <2> DEFINE a == AgentOf[r]
  <2>1. Row(r) \in VersionRow /\ Row(r).agent = a /\ Row(r).version = number[r]
    BY DEF Row, VersionRow, Numbering, TypeOK
  <2>2. PICK k \in Nat : Numbers(a) = 1 .. k
    BY DEF Numbering, Interval
  <2>3. Staged(r)
    BY <1>6 DEF Commit, Staged
  <2>4. number[r] = k + 1
    BY <2>2, <2>3, StagedIsNext
  <2>5. \A b : Numbers(b)' = IF b = a THEN Numbers(b) \cup {number[r]} ELSE Numbers(b)
    BY <1>6, <2>1, NumbersAfter DEF Commit
  <2>6. TypeOK'
    BY <1>6, <2>1 DEF Commit, Goto, Numbering, TypeOK, Ended
  <2>7. (\A b \in Agents : Interval(b))'
    <3>1. Numbers(a)' = 1 .. k + 1
      <4>1. (1 .. k) \cup {k + 1} = 1 .. k + 1
        OBVIOUS
      <4> QED
        BY <2>2, <2>4, <2>5, <4>1
    <3> QED
      BY <2>5, <3>1 DEF Numbering, Interval
  <2>8. OneRowPerNumber'
    <3>1. \A v \in versions : v.agent = a => v.version # number[r]
      BY <2>3 DEF Numbering, StagedAlone, Taken, Numbers
    <3> QED
      BY <1>6, <2>1, <3>1 DEF Commit, Numbering, OneRowPerNumber
  <2>9. RowsHaveAgents'
    BY <1>6, <2>1, <2>3 DEF Commit, Goto, Numbering, RowsHaveAgents, Staged, TypeOK
  <2>10. SmallerTaken'
    <3>1. \A b : Numbers(b) \subseteq Numbers(b)'
      BY <2>5
    <3> QED
      BY <1>6, <3>1 DEF Commit, Goto, Numbering, SmallerTaken, TypeOK
  <2>11. StagedAlone'
    <3>1. \A q \in Requests : Staged(q)' => Staged(q) /\ q # r
      BY <1>6 DEF Commit, Goto, Numbering, TypeOK, Staged
    <3>2. \A q \in Requests : Staged(q)' => ~SameNumber(r, q)
      BY <2>3, <3>1 DEF Numbering, StagedAlone
    <3> QED
      BY <1>6, <2>5, <3>1, <3>2 DEF Commit, Numbering, StagedAlone, Taken, SameNumber
  <2> QED
    BY <2>6, <2>7, <2>8, <2>9, <2>10, <2>11 DEF Numbering
<1>7. CASE UNCHANGED vars
  BY <1>7 DEF vars, Numbering, TypeOK, Interval, Numbers, OneRowPerNumber, RowsHaveAgents,
     SmallerTaken, StagedAlone, Staged, Taken, SameNumber
<1> QED
  BY <1>1, <1>2, <1>3, <1>4, <1>5, <1>6, <1>7 DEF Next, Advance

LEMMA NumberingHolds == Spec => []Numbering
BY NumberingInit, NumberingNext, PTL DEF Spec

(* Version numbers of an agent are 1, 2, 3, ... without a gap or a double,   *)
(* for any number of concurrent calls of create_agent_version, of which any  *)
(* may be rolled back.                                                       *)
THEOREM VersionsAreNumbered == Spec => []VersionsNumbered
<1>1. Numbering => VersionsNumbered
  <2> SUFFICES ASSUME Numbering, NEW a \in Agents
               PROVE  /\ \A v, u \in versions :
                           v.agent = a /\ u.agent = a /\ v.version = u.version => v = u
                      /\ \A n \in Numbers(a) : n > 0 /\ \A m \in 1 .. n : m \in Numbers(a)
    BY DEF VersionsNumbered
  <2>1. PICK k \in Nat : Numbers(a) = 1 .. k
    BY DEF Numbering, Interval
  <2> QED
    BY <2>1 DEF Numbering, OneRowPerNumber
<1> QED
  BY <1>1, NumberingHolds, PTL

-----------------------------------------------------------------------------
\* The published versions, before and after a step.
LEMMA NewestAfterCommit ==
  ASSUME Numbering, CurrentIsNewestPublished, NEW r \in Requests, Commit(r)
  PROVE  CurrentIsNewestPublished'
<1> SUFFICES ASSUME NEW a \in Agents
             PROVE  IF Published(a)' = {} THEN current'[a] = Nobody
                    ELSE \E v \in Published(a)' :
                           /\ current'[a] = v.by
                           /\ \A u \in Published(a)' : u.version <= v.version
  BY DEF CurrentIsNewestPublished, Published
<1> USE AgentsAssumption
<1>1. versions' = versions \cup {Row(r)}
      /\ current' = [current EXCEPT ![AgentOf[r]] = IF r \in Publishing THEN r ELSE @]
  BY DEF Commit
<1>2. current \in [Agents -> Requests \cup {Nobody}] /\ number[r] \in Nat
  BY DEF Numbering, TypeOK
<1>3. CASE r \in Publishing /\ a = AgentOf[r]
  <2>1. Row(r) \in Published(a)' /\ Row(r).by = r /\ Row(r).version = number[r]
    BY <1>1, <1>3 DEF Published, Row
  <2>2. current'[a] = r
    BY <1>1, <1>2, <1>3
  <2>3. ASSUME NEW u \in Published(a)' PROVE u.version <= number[r]
    <3>1. CASE u = Row(r)
      BY <3>1, <1>2 DEF Row
    <3>2. CASE u \in versions
      <4>1. PICK k \in Nat : Numbers(a) = 1 .. k
        BY DEF Numbering, Interval
      <4>2. number[r] = k + 1
        BY <1>3, <4>1, StagedIsNext DEF Commit, Staged
      <4>3. u.version \in Numbers(a)
        BY <2>3, <3>2 DEF Published, Numbers
      <4> QED
        BY <4>1, <4>2, <4>3
    <3> QED
      BY <3>1, <3>2, <2>3, <1>1 DEF Published
  <2> QED
    BY <2>1, <2>2, <2>3
<1>4. CASE ~(r \in Publishing /\ a = AgentOf[r])
  <2>1. Published(a)' = Published(a)
    BY <1>1, <1>4 DEF Published, Row
  <2>2. current'[a] = current[a]
    BY <1>1, <1>2, <1>4
  <2> QED
    BY <2>1, <2>2 DEF CurrentIsNewestPublished
<1> QED
  BY <1>3, <1>4

\* A step that neither adds a request's row nor points an agent elsewhere.
LEMMA NewestOtherwise ==
  ASSUME CurrentIsNewestPublished, UNCHANGED current,
         \A a \in Agents : Published(a)' = Published(a)
  PROVE  CurrentIsNewestPublished'
BY DEF CurrentIsNewestPublished

(* An agent runs its newest published version, however publications race:    *)
(* the invariant is Numbering with the property itself.                      *)
THEOREM CurrentIsNewest == Spec => []CurrentIsNewestPublished
<1>1. Init => CurrentIsNewestPublished
  BY DEF Init, CurrentIsNewestPublished, Published
<1>2. Numbering /\ CurrentIsNewestPublished /\ [Next]_vars => CurrentIsNewestPublished'
  <2> SUFFICES ASSUME Numbering, CurrentIsNewestPublished, [Next]_vars
               PROVE  CurrentIsNewestPublished'
    OBVIOUS
  <2>1. ASSUME NEW a \in Agents, CreateAgent(a) PROVE CurrentIsNewestPublished'
    <3>1. \A b \in Agents : Published(b)' = Published(b)
      BY <2>1, AgentsAssumption DEF CreateAgent, Published
    <3> QED
      BY <2>1, <3>1, NewestOtherwise DEF CreateAgent
  <2>2. ASSUME NEW r \in Requests, Commit(r) PROVE CurrentIsNewestPublished'
    BY <2>2, NewestAfterCommit
  <2>3. CASE UNCHANGED <<versions, current>>
    BY <2>3, NewestOtherwise DEF Published
  <2>4. ASSUME NEW r \in Requests,
               ReadMax(r) \/ Insert(r) \/ Refused(r) \/ Publish(r) \/ Fail(r)
        PROVE  UNCHANGED <<versions, current>>
    BY <2>4 DEF ReadMax, Insert, Refused, Publish, Fail
  <2> QED
    BY <2>1, <2>2, <2>3, <2>4 DEF Next, Advance, vars
<1> QED
  BY <1>1, <1>2, NumberingHolds, PTL DEF Spec
=============================================================================

---------------------------- MODULE AgentVersions ----------------------------
(***************************************************************************)
(* Agents and their numbered configurations (routers/agents.py).           *)
(* create_agent inserts an agent with version 1; create_agent_version      *)
(* reads MAX(version) + 1, inserts that version and, when it is published, *)
(* points the agent at it.  Each request is one READ COMMITTED transaction *)
(* and runs beside the others: its uncommitted row is seen by nobody, but  *)
(* an insert under the same (agent_id, version) waits for it, and an       *)
(* uncommitted update of the agent's row locks it.                         *)
(***************************************************************************)
EXTENDS Naturals

CONSTANTS
  Agents,     \* agents that may be created
  Requests,   \* calls of create_agent_version
  AgentOf,    \* the agent a request names
  Publishing, \* requests with publish = true
  Faults,     \* {} or {"fail"}: the database raises, the process dies
  Nobody      \* NULL, and the author of version 1

ASSUME AgentsAssumption ==
  /\ AgentOf \in [Requests -> Agents]
  /\ Publishing \subseteq Requests
  /\ Nobody \notin Requests

VARIABLES
  created,  \* rows of agents
  versions, \* rows of agent_versions; by is the row's id
  current,  \* agents.current_version_id
  pc,       \* where each request is
  number    \* the version number it computed

vars == <<created, versions, current, pc, number>>

VersionRow == [agent : Agents, version : Nat, by : Requests \cup {Nobody}]

Ended == {"created", "failed"}

TypeOK ==
  /\ created \subseteq Agents
  /\ versions \subseteq VersionRow
  /\ current \in [Agents -> Requests \cup {Nobody}]
  /\ pc \in [Requests -> {"new", "insert", "publish", "commit"} \cup Ended]
  /\ number \in [Requests -> Nat]

Init ==
  /\ created = {}
  /\ versions = {}
  /\ current = [a \in Agents |-> Nobody]
  /\ pc = [r \in Requests |-> "new"]
  /\ number = [r \in Requests |-> 0]

-----------------------------------------------------------------------------
Goto(r, p) == pc' = [pc EXCEPT ![r] = p]

Numbers(a) == {v.version : v \in {v \in versions : v.agent = a}}

\* COALESCE(MAX(version), 0) + 1
NextNumber(a) ==
  IF Numbers(a) = {} THEN 1
  ELSE 1 + (CHOOSE n \in Numbers(a) : \A m \in Numbers(a) : m <= n)

Row(r) == [agent |-> AgentOf[r], version |-> number[r], by |-> r]

\* r has inserted its row and not committed it.
Staged(r) == pc[r] \in {"publish", "commit"}

\* r has updated the row of its agent and not committed it.
Locks(r, a) == pc[r] = "commit" /\ r \in Publishing /\ AgentOf[r] = a

SameNumber(r, q) == AgentOf[q] = AgentOf[r] /\ number[q] = number[r]
-----------------------------------------------------------------------------
\* create_agent: the agent and its first version, in one transaction that
\* reads nothing.
CreateAgent(a) ==
  /\ a \notin created
  /\ created' = created \cup {a}
  /\ versions' = versions \cup {[agent |-> a, version |-> 1, by |-> Nobody]}
  /\ UNCHANGED <<current, pc, number>>

\* SELECT COALESCE(MAX(version), 0) + 1, of the committed rows.
ReadMax(r) ==
  /\ pc[r] = "new"
  /\ number' = [number EXCEPT ![r] = NextNumber(AgentOf[r])]
  /\ Goto(r, "insert")
  /\ UNCHANGED <<created, versions, current>>

\* The insert waits for an uncommitted row with the same key.
Waits(r) == \E q \in Requests \ {r} : Staged(q) /\ SameNumber(r, q)

Taken(r) == number[r] \in Numbers(AgentOf[r])

\* Mutant: no unique (agent_id, version).
InsertUnchecked(r) ==
  /\ pc[r] = "insert"
  /\ AgentOf[r] \in created
  /\ Goto(r, IF r \in Publishing THEN "publish" ELSE "commit")
  /\ UNCHANGED <<created, versions, current, number>>

\* INSERT INTO agent_versions
Insert(r) ==
  /\ pc[r] = "insert"
  /\ AgentOf[r] \in created
  /\ ~Waits(r)
  /\ ~Taken(r)
  /\ Goto(r, IF r \in Publishing THEN "publish" ELSE "commit")
  /\ UNCHANGED <<created, versions, current, number>>

\* A foreign key or the unique key is violated, and nothing catches it.
Refused(r) ==
  /\ pc[r] = "insert"
  /\ ~Waits(r)
  /\ AgentOf[r] \notin created \/ Taken(r)
  /\ Goto(r, "failed")
  /\ UNCHANGED <<created, versions, current, number>>

\* UPDATE agents SET current_version_id, status = 'active'
Publish(r) ==
  /\ pc[r] = "publish"
  /\ \A q \in Requests : ~Locks(q, AgentOf[r])
  /\ Goto(r, "commit")
  /\ UNCHANGED <<created, versions, current, number>>

\* Mutant: the version commits before the agent is pointed at it.
CommitFirst(r) ==
  /\ pc[r] \in {"publish", "commit"}
  /\ versions' = versions \cup {Row(r)}
  /\ IF pc[r] = "publish"
     THEN UNCHANGED current
     ELSE current' = [current EXCEPT ![AgentOf[r]] = IF r \in Publishing THEN r ELSE @]
  /\ Goto(r, IF pc[r] = "publish" THEN "commit" ELSE "created")
  /\ UNCHANGED <<created, number>>

Commit(r) ==
  /\ pc[r] = "commit"
  /\ versions' = versions \cup {Row(r)}
  /\ current' = [current EXCEPT ![AgentOf[r]] = IF r \in Publishing THEN r ELSE @]
  /\ Goto(r, "created")
  /\ UNCHANGED <<created, number>>

Fail(r) ==
  /\ "fail" \in Faults
  /\ pc[r] \notin Ended
  /\ Goto(r, "failed")
  /\ UNCHANGED <<created, versions, current, number>>

Advance(r) == ReadMax(r) \/ Insert(r) \/ Refused(r) \/ Publish(r) \/ Commit(r)

Next ==
  \/ \E a \in Agents : CreateAgent(a)
  \/ \E r \in Requests : Advance(r) \/ Fail(r)

Spec == Init /\ [][Next]_vars
-----------------------------------------------------------------------------
(* However requests that computed the same number interleave, the versions   *)
(* of an agent are numbered 1, 2, 3, ... without a gap and none twice: who    *)
(* loses the race for a number is refused, and a rolled back number is used   *)
(* by the next request.                                                      *)
VersionsNumbered ==
  \A a \in Agents :
    /\ \A v, u \in versions : v.agent = a /\ u.agent = a /\ v.version = u.version => v = u
    /\ \A n \in Numbers(a) : n > 0 /\ \A m \in 1 .. n : m \in Numbers(a)

Published(a) == {v \in versions : v.agent = a /\ v.by \in Publishing}

(* The agent runs the newest version that was published: of two publications *)
(* that race, the one with the lower number never overwrites the other,      *)
(* although each only sets current_version_id to its own row.                *)
CurrentIsNewestPublished ==
  \A a \in Agents :
    IF Published(a) = {} THEN current[a] = Nobody
    ELSE \E v \in Published(a) :
           /\ current[a] = v.by
           /\ \A u \in Published(a) : u.version <= v.version
=============================================================================

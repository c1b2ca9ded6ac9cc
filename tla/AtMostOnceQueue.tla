--------------------------- MODULE AtMostOnceQueue ---------------------------
(***************************************************************************)
(* What the two database queues, webhook_events and retry_queues, promise: *)
(* a job is claimed at most once and settles at most once.  A claimed job  *)
(* may be lost (its worker dies between the claim and the end), and is     *)
(* then never offered again.                                               *)
(***************************************************************************)
CONSTANT Jobs

VARIABLE job

TypeOK == job \in [Jobs -> {"absent", "ready", "claimed", "applied", "failed", "lost"}]

Init == job = [j \in Jobs |-> "absent"]

Move(j, from, to) == job[j] = from /\ job' = [job EXCEPT ![j] = to]

Enqueue(j) == Move(j, "absent", "ready")
Claim(j)   == Move(j, "ready", "claimed")
Apply(j)   == Move(j, "claimed", "applied")
GiveUp(j)  == Move(j, "claimed", "failed")
Lose(j)    == Move(j, "claimed", "lost")

Next ==
  \E j \in Jobs : Enqueue(j) \/ Claim(j) \/ Apply(j) \/ GiveUp(j) \/ Lose(j)

Spec == Init /\ [][Next]_job
=============================================================================

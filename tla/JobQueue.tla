----------------------------- MODULE JobQueue -----------------------------
(***************************************************************************)
(* What the outbox promises its callers, with no workers, leases, clocks   *)
(* or snapshots: a job waits, is run by one runner at a time, and every    *)
(* run that ends is paid for out of a fixed budget of tries.  A completed  *)
(* or buried job never moves again.  Outbox implements it as long as no    *)
(* batch outlives its lease (Outbox!ImplementsQueue).                      *)
(***************************************************************************)
EXTENDS Naturals

CONSTANTS Jobs,     \* identities a job may have
          Budget    \* runs a job may fail before it is buried

VARIABLE job        \* job[j].state and job[j].tries

States == {"absent", "waiting", "running", "done", "dead"}

Init == job = [j \in Jobs |-> [state |-> "absent", tries |-> 0]]

\* Sets of jobs move together: a runner claims and reclaims in batches.
MoveAll(S, from, to) ==
    /\ \A j \in S : job[j].state = from
    /\ job' = [j \in Jobs |-> IF j \in S THEN [job[j] EXCEPT !.state = to] ELSE job[j]]

Submit(j) == MoveAll({j}, "absent", "waiting")
Take(S) == MoveAll(S, "waiting", "running")
Reclaim(S) == MoveAll(S, "running", "waiting")

\* A run that ends costs the job exactly one try.
EndRun(j, to) ==
    /\ job[j].state = "running"
    /\ job' = [job EXCEPT ![j] = [state |-> to, tries |-> job[j].tries + 1]]

Complete(j) == EndRun(j, "done")
Retry(j) == job[j].tries + 1 < Budget /\ EndRun(j, "waiting")
Bury(j) == job[j].tries + 1 >= Budget /\ EndRun(j, "dead")

Next ==
    \/ \E j \in Jobs : Submit(j) \/ Complete(j) \/ Retry(j) \/ Bury(j)
    \/ \E S \in SUBSET Jobs : Take(S) \/ Reclaim(S)

Spec == Init /\ [][Next]_job
=============================================================================

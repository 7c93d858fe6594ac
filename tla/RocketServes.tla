----------------------------- MODULE RocketServes -----------------------------
(***************************************************************************)
(* The job engine implements NpuService: what the run worker, the          *)
(* interrupt thread, the timeout worker and a close do to a job in many    *)
(* steps is, to its caller, a few of the service's.                        *)
(***************************************************************************)
EXTENDS RocketJob

state_of(j) ==
    CASE place[j] \in {"new", "queued"} -> place[j]
      [] Popped(j) /\ finished[j] = "no" -> "active"
      [] Popped(j) /\ finished[j] # "no" -> "ended"
      [] OTHER -> "released"

Service == INSTANCE NpuService WITH
    Results <- Results,
    state  <- [j \in Jobs |-> state_of(j)],
    core   <- core_of,
    result <- finished,
    caller <- submit,
    alive  <- [j \in Jobs |-> refcount[j] > 0]

\* Every behaviour of the job engine is one of the service.
Implements == Service!Spec

=============================================================================

------------------------------ MODULE NpuService ------------------------------
(***************************************************************************)
(* What the job engine promises to the callers of SUBMIT, without its      *)
(* threads: every core serves one job at a time, an accepted job ends      *)
(* exactly once and keeps its result, the caller gets its answer after the *)
(* end or gives up before it, and the memory of a job goes with the later  *)
(* of its caller and the service, in that very step.                       *)
(***************************************************************************)
EXTENDS Naturals

CONSTANTS Jobs, Cores, Results

VARIABLES
    state,                  \* "new", "queued", "active", "ended", "released"
    core,                   \* the core the job is for
    result,                 \* of an ended job; "no" before
    caller,                 \* "idle", "wait", "success", "timedout", "error"
    alive                   \* the job's memory is allocated

vars == <<state, core, result, caller, alive>>

Init ==
    /\ state = [j \in Jobs |-> "new"]
    /\ core \in [Jobs -> Cores]
    /\ result = [j \in Jobs |-> "no"]
    /\ caller = [j \in Jobs |-> "idle"]
    /\ alive = [j \in Jobs |-> FALSE]

Ended(j) == state[j] \in {"ended", "released"}

\* The jobs in a state.
In(s) == {j \in Jobs : state[j] = s}

Accept(j, c) ==
    /\ state[j] = "new" /\ caller[j] = "idle"
    /\ state' = [state EXCEPT ![j] = "queued"]
    /\ core' = [core EXCEPT ![j] = c]
    /\ caller' = [caller EXCEPT ![j] = "wait"]
    /\ alive' = [alive EXCEPT ![j] = TRUE]
    /\ UNCHANGED result

Reject(j) ==
    /\ state[j] = "new" /\ caller[j] = "idle"
    /\ caller' = [caller EXCEPT ![j] = "error"]
    /\ UNCHANGED <<state, core, result, alive>>

\* A core takes a job when it has none.
Start(j) ==
    /\ state[j] = "queued" /\ alive[j]
    /\ \A k \in Jobs : core[k] = core[j] => state[k] # "active"
    /\ state' = [state EXCEPT ![j] = "active"]
    /\ UNCHANGED <<core, result, caller, alive>>

\* The active job of a core ends, by completion, error or reset.
End(j, r) ==
    /\ state[j] = "active" /\ alive[j] /\ r # "no"
    /\ state' = [state EXCEPT ![j] = "ended"]
    /\ result' = [result EXCEPT ![j] = r]
    /\ UNCHANGED <<core, caller, alive>>

\* Queued jobs of a file that is closed: nobody waits for them.
Kill(K, r) ==
    /\ K # {} /\ \A j \in K : state[j] = "queued" /\ caller[j] # "wait" /\ alive[j]
    /\ r # "no"
    /\ state' = [j \in Jobs |-> IF j \in K THEN "released" ELSE state[j]]
    /\ result' = [j \in Jobs |-> IF j \in K THEN r ELSE result[j]]
    /\ alive' = [j \in Jobs |-> alive[j] /\ j \notin K]
    /\ UNCHANGED <<core, caller>>

\* The service lets go of jobs that have ended.
Release(K) ==
    /\ K # {} /\ \A j \in K : state[j] = "ended" /\ alive[j]
    /\ state' = [j \in Jobs |-> IF j \in K THEN "released" ELSE state[j]]
    /\ alive' = [j \in Jobs |-> IF j \in K THEN caller[j] = "wait" ELSE alive[j]]
    /\ UNCHANGED <<core, result, caller>>

Reply(j) ==
    /\ caller[j] = "wait" /\ Ended(j) /\ alive[j]
    /\ caller' = [caller EXCEPT ![j] = "success"]
    /\ alive' = [alive EXCEPT ![j] = state[j] # "released"]
    /\ UNCHANGED <<state, core, result>>

GiveUp(j) ==
    /\ caller[j] = "wait" /\ ~Ended(j)
    /\ caller' = [caller EXCEPT ![j] = "timedout"]
    /\ UNCHANGED <<state, core, result, alive>>

Next ==
    \/ \E j \in Jobs, c \in Cores : Accept(j, c)
    \/ \E j \in Jobs : Reject(j) \/ Start(j) \/ Reply(j) \/ GiveUp(j)
    \/ \E j \in In("active"), r \in Results : End(j, r)
    \/ \E K \in SUBSET In("queued"), r \in Results : Kill(K, r)
    \/ \E K \in SUBSET In("ended") : Release(K)

Spec == Init /\ [][Next]_vars

=============================================================================

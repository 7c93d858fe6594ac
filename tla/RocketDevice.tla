---------------------------- MODULE RocketDevice ----------------------------
(***************************************************************************)
(* The shared power unit of the NPU (rocket_device.c, with the "never      *)
(* gate" reference of rocket_core.c).                                      *)
(*                                                                         *)
(* All cores share one interconnect, so they are resumed and released      *)
(* together: pm_refcount counts the users of the unit, and only its 0 -> 1 *)
(* and 1 -> 0 transitions touch the runtime-PM usage count of each core's  *)
(* device.  rocket_core_init leaves one usage reference on every core that *)
(* is never dropped.  Every operator below runs under rdev->pm_lock from   *)
(* its first to its last line, so it is one atomic step.                   *)
(***************************************************************************)
EXTENDS Naturals

CONSTANT NumCores           \* rdev->num_cores

ASSUME NumCoresAssumption == NumCores \in 1 .. 3

Cores == 0 .. NumCores - 1

VARIABLES
    pm_refcount,            \* rdev->pm_refcount
    usage                   \* usage[c]: runtime-PM usage count of core c's device

pmVars == <<pm_refcount, usage>>

PmInit ==
    /\ pm_refcount = 0
    /\ usage = [c \in Cores |-> 1]

-----------------------------------------------------------------------------
\* Every core is resumed: one more usage reference on each.
rocket_device_pm_resume_unit ==
    usage' = [c \in Cores |-> usage[c] + 1]

\* Core `bad` does not resume: pm_runtime_resume_and_get leaves its count as
\* it was, and the cores resumed before it (indices below) are put again.
resume_unit_fails(bad) ==
    LET resumed == [c \in Cores |-> IF c < bad THEN usage[c] + 1 ELSE usage[c]]
    IN  usage' = [c \in Cores |-> IF c < bad THEN resumed[c] - 1 ELSE resumed[c]]

rocket_device_pm_release_unit ==
    usage' = [c \in Cores |-> usage[c] - 1]

\* rocket_device_pm_get, returning 0.
rocket_device_pm_get ==
    /\ IF pm_refcount = 0 THEN rocket_device_pm_resume_unit ELSE UNCHANGED usage
    /\ pm_refcount' = pm_refcount + 1

\* rocket_device_pm_get, returning an error: only the first user resumes.
pm_get_fails(bad) ==
    /\ pm_refcount = 0
    /\ resume_unit_fails(bad)
    /\ UNCHANGED pm_refcount

\* Mutant: the unit is released at every put.
pm_put_releases_always ==
    /\ rocket_device_pm_release_unit
    /\ pm_refcount' = pm_refcount - 1

\* rocket_device_pm_put; an underflow only warns.
rocket_device_pm_put ==
    IF pm_refcount = 0
    THEN UNCHANGED pmVars
    ELSE /\ pm_refcount' = pm_refcount - 1
         /\ IF pm_refcount = 1 THEN rocket_device_pm_release_unit ELSE UNCHANGED usage

\* rocket_device_pm_put_noidle: the same count, without autosuspend.
rocket_device_pm_put_noidle ==
    IF pm_refcount = 0
    THEN UNCHANGED pmVars
    ELSE /\ pm_refcount' = pm_refcount - 1
         /\ usage' = IF pm_refcount = 1
                     THEN [c \in Cores |-> usage[c] - 1]
                     ELSE usage
=============================================================================

----------------------------- MODULE RocketProbe -----------------------------
(***************************************************************************)
(* The life of the driver (rocket_drv.c, rocket_core.c, rocket_device.c,   *)
(* and the open and close half of rocket_job.c): the module is loaded, the *)
(* platform devices of the cores are probed one after the other, files     *)
(* open and run jobs while the number of cores may still be changing, and  *)
(* cores are removed, by unloading the module or by unbinding one of them. *)
(*                                                                         *)
(* The driver core runs one probe or removal at a time (pc, dev); files    *)
(* and jobs run beside it.  A job is kept only as what it does to the      *)
(* power unit: it holds a reference while it is in flight on its core.     *)
(***************************************************************************)
EXTENDS Naturals, FiniteSets, Sequences

CONSTANTS
    Devices,                \* the available rk3588-rknn-core nodes
    Files,
    MaxProbes,              \* bound: probes in a behaviour
    NULL

ASSUME ProbeAssumption ==
    /\ IsFiniteSet(Devices) /\ Devices # {} /\ NULL \notin Devices
    /\ MaxProbes \in Nat

Slots == 0 .. Cardinality(Devices) - 1      \* indices of rdev->cores[]

VARIABLES
  \* the module and its one DRM device
    module,                 \* "unloaded", "loaded" or "unloading"
    rdev,                   \* the static pointer: "NULL", "ERR" or "live"
    registered,             \* drm_dev_register is in effect
    num_cores,
    pm_refcount,
  \* rdev->cores[k]
    core_dev,               \* .dev
    sched,                  \* .sched is initialised
    iommu_group,            \* .iommu_group is set
    in_flight,              \* .in_flight_job is set
  \* struct device of a core
    usage,                  \* runtime-PM usage count
    pm_enabled,             \* pm_runtime_enable is in effect
    active,                 \* runtime status
    clk,                    \* enable count of its clocks
  \* the driver core
    pc, dev,                \* the probe or removal in progress
    bound,                  \* bound devices, in the order of their probes
  \* files
    entity,                 \* core_entity[] with a run queue; NULL when closed
  \* what has happened so far (no part of the driver)
    probes,                 \* number of probes
    quiet,                  \* no core came or was unbound with files or jobs
    ordered                 \* every core that went was the last one bound

moduleVars == <<module, rdev, registered, num_cores>>
slotVars   == <<core_dev, sched, iommu_group>>
unitVars   == <<pm_refcount, in_flight>>
pmVars     == <<usage, pm_enabled, active, clk>>
history    == <<probes, quiet, ordered>>
driverVars == <<pc, dev, bound, history>>
vars == <<moduleVars, slotVars, unitVars, pmVars, driverVars, entity>>

Live == {k \in Slots : k < num_cores}
UnitDevices == {core_dev[k] : k \in Live}
Bound(d) == \E i \in DOMAIN bound : bound[i] = d
OpenFiles == {f \in Files : entity[f] # NULL}

\* No file is open and no job is left on a core.
Unused == OpenFiles = {} /\ \A k \in Slots : ~in_flight[k]

Init ==
    /\ module = "unloaded" /\ rdev = "NULL" /\ registered = FALSE
    /\ num_cores = 0 /\ pm_refcount = 0
    /\ core_dev = [k \in Slots |-> NULL]
    /\ sched = [k \in Slots |-> FALSE]
    /\ iommu_group = [k \in Slots |-> FALSE]
    /\ in_flight = [k \in Slots |-> FALSE]
    /\ usage = [d \in Devices |-> 0]
    /\ pm_enabled = [d \in Devices |-> FALSE]
    /\ active = [d \in Devices |-> FALSE]
    /\ clk = [d \in Devices |-> 0]
    /\ pc = "idle" /\ dev = NULL /\ bound = <<>>
    /\ probes = 0 /\ quiet = TRUE /\ ordered = TRUE
    /\ entity = [f \in Files |-> NULL]

-----------------------------------------------------------------------------
(* Runtime PM of one device.                                                *)

\* The first of the num_cores slots that holds d, if there is one.
find_core_for_dev(d) ==
    {k \in Live : core_dev[k] = d /\ \A i \in Live : i < k => core_dev[i] # d}

\* pm_runtime_resume_and_get can succeed: runtime PM is enabled, or was
\* disabled while the device was active.
resumable(d) == pm_enabled[d] \/ active[d]

\* The callback rocket_device_runtime_resume enables the clocks once more.
rocket_device_runtime_resume(D) ==
    /\ active' = [d \in Devices |-> active[d] \/ d \in D]
    /\ clk' = [d \in Devices |-> IF d \in D /\ ~active[d] THEN clk[d] + 1 ELSE clk[d]]

\* No put takes a usage count below zero.
put_noidle(n) == IF n = 0 THEN 0 ELSE n - 1

\* The autosuspend timer of an unused device: rocket_device_runtime_suspend
\* refuses for a core it does not find or that has a job.
RuntimeSuspend(d) ==
    /\ usage[d] = 0 /\ pm_enabled[d] /\ active[d]
    /\ \E k \in find_core_for_dev(d) : ~in_flight[k]
    /\ active' = [active EXCEPT ![d] = FALSE]
    /\ clk' = [clk EXCEPT ![d] = @ - 1]
    /\ UNCHANGED <<moduleVars, slotVars, unitVars, usage, pm_enabled,
                   driverVars, entity>>

-----------------------------------------------------------------------------
(* The probe of a core (rocket_probe).                                      *)

\* rocket_register
Load ==
    /\ module = "unloaded"
    /\ probes < MaxProbes
    /\ module' = "loaded"
    /\ UNCHANGED <<rdev, registered, num_cores, slotVars, unitVars, pmVars,
                   driverVars, entity>>

\* The driver core calls rocket_probe for an unbound device.
ProbeStart(d) ==
    /\ module = "loaded" /\ pc = "idle"
    /\ ~Bound(d)
    /\ probes < MaxProbes
    /\ pc' = "probe" /\ dev' = d
    /\ probes' = probes + 1 /\ quiet' = (quiet /\ Unused)
    /\ UNCHANGED <<moduleVars, slotVars, unitVars, pmVars, bound, ordered,
                   entity>>

\* The first core's probe runs rocket_device_init: a zeroed device, visible
\* to user space once drm_dev_register returns.
DeviceInit ==
    /\ pc = "probe" /\ rdev = "NULL"
    /\ rdev' = "live" /\ registered' = TRUE
    /\ num_cores' = 0 /\ pm_refcount' = 0
    /\ core_dev' = [k \in Slots |-> NULL]
    /\ sched' = [k \in Slots |-> FALSE]
    /\ iommu_group' = [k \in Slots |-> FALSE]
    /\ in_flight' = [k \in Slots |-> FALSE]
    /\ pc' = "claim"
    /\ UNCHANGED <<module, pmVars, dev, bound, history, entity>>

\* rocket_device_init fails: the static pointer keeps the error.
DeviceInitFail ==
    /\ pc = "probe" /\ rdev = "NULL"
    /\ rdev' = "ERR"
    /\ pc' = "idle" /\ dev' = NULL
    /\ UNCHANGED <<module, registered, num_cores, slotVars, unitVars, pmVars,
                   bound, history, entity>>

\* A later core finds rdev set; an error pointer faults in the next line.
DeviceKnown ==
    /\ pc = "probe" /\ rdev # "NULL"
    /\ pc' = IF rdev = "ERR" THEN "oops" ELSE "claim"
    /\ UNCHANGED <<moduleVars, slotVars, unitVars, pmVars, dev, bound, history,
                   entity>>

\* The core gets the next slot and is counted before it is brought up.
CoreClaim ==
    /\ pc = "claim" /\ num_cores \in Slots
    /\ core_dev' = [core_dev EXCEPT ![num_cores] = dev]
    /\ num_cores' = num_cores + 1
    /\ pc' = "resources"
    /\ UNCHANGED <<module, rdev, registered, sched, iommu_group, unitVars,
                   pmVars, dev, bound, history, entity>>

\* Removals that did not find their core have used up cores[]: the probe
\* writes behind its end, and counts what it wrote.  What the memory there
\* belongs to is not known, so this is as far as the probe is followed.
CoreClaimBeyond ==
    /\ pc = "claim" /\ num_cores \notin Slots
    /\ num_cores' = num_cores + 1
    /\ pc' = "overrun"
    /\ UNCHANGED <<module, rdev, registered, slotVars, unitVars, pmVars, dev, bound,
                   history, entity>>

-----------------------------------------------------------------------------
(* rocket_core_init, for the slot k that was claimed last.                  *)

claimed == num_cores - 1

\* Resets, clocks (enabled until the device is unbound), OPP table,
\* registers and DMA mask.
CoreResources ==
    /\ pc = "resources"
    /\ clk' = [clk EXCEPT ![dev] = @ + 1]
    /\ pc' = "job_init"
    /\ UNCHANGED <<moduleVars, slotVars, unitVars, usage, pm_enabled, active,
                   dev, bound, history, entity>>

\* One of them is not available, or the clocks do not start.
CoreResourcesFail ==
    /\ pc = "resources"
    /\ pc' = "undo"
    /\ UNCHANGED <<moduleVars, slotVars, unitVars, pmVars, dev, bound, history,
                   entity>>

\* iommu_group_get and rocket_job_init: interrupt, reset queue, scheduler.
CoreJobInit ==
    /\ pc = "job_init"
    /\ iommu_group' = [iommu_group EXCEPT ![claimed] = TRUE]
    /\ sched' = [sched EXCEPT ![claimed] = TRUE]
    /\ pc' = "pm_enable"
    /\ UNCHANGED <<moduleVars, core_dev, unitVars, pmVars, dev, bound, history,
                   entity>>

\* rocket_job_init fails: the group is put again.
CoreJobInitFail ==
    /\ pc = "job_init"
    /\ pc' = "undo_clk"
    /\ UNCHANGED <<moduleVars, slotVars, unitVars, pmVars, dev, bound, history,
                   entity>>

CorePmEnable ==
    /\ pc = "pm_enable"
    /\ pm_enabled' = [pm_enabled EXCEPT ![dev] = TRUE]
    /\ pc' = "resume"
    /\ UNCHANGED <<moduleVars, slotVars, unitVars, usage, active, clk, dev,
                   bound, history, entity>>

\* pm_runtime_resume_and_get; this reference is the one that never goes.
CoreResume ==
    /\ pc = "resume"
    /\ find_core_for_dev(dev) # {}
    /\ usage' = [usage EXCEPT ![dev] = @ + 1]
    /\ rocket_device_runtime_resume({dev})
    /\ pc' = "rate"
    /\ UNCHANGED <<moduleVars, slotVars, unitVars, pm_enabled, dev, bound,
                   history, entity>>

\* It does not resume: rocket_core_fini, which puts a reference anyway.
CoreResumeFail ==
    /\ pc = "resume"
    /\ pc' = "unwind"
    /\ UNCHANGED <<moduleVars, slotVars, unitVars, pmVars, dev, bound, history,
                   entity>>

\* dev_pm_opp_set_rate fails: the reference is put, then rocket_core_fini.
CoreRateFail ==
    /\ pc = "rate"
    /\ usage' = [usage EXCEPT ![dev] = put_noidle(@)]
    /\ pc' = "unwind"
    /\ UNCHANGED <<moduleVars, slotVars, unitVars, pm_enabled, active, clk, dev,
                   bound, history, entity>>

\* Mutant: the never-gate reference is released again at the end.
CoreReady_puts ==
    /\ pc = "rate"
    /\ bound' = Append(bound, dev)
    /\ usage' = [usage EXCEPT ![dev] = @ - 1]
    /\ pc' = "idle" /\ dev' = NULL
    /\ UNCHANGED <<moduleVars, slotVars, unitVars, pm_enabled, active, clk,
                   history, entity>>

\* The core runs at its rate and is linked to core 0; the device is bound.
CoreReady ==
    /\ pc = "rate"
    /\ bound' = Append(bound, dev)
    /\ pc' = "idle" /\ dev' = NULL
    /\ UNCHANGED <<moduleVars, slotVars, unitVars, pmVars, history, entity>>

\* rocket_core_fini on slot k, up to its last line: one usage reference,
\* runtime PM and the IOMMU group go.
rocket_core_fini(k) ==
    LET d == core_dev[k] IN
    /\ usage' = [usage EXCEPT ![d] = put_noidle(@)]
    /\ pm_enabled' = [pm_enabled EXCEPT ![d] = FALSE]
    /\ iommu_group' = [iommu_group EXCEPT ![k] = FALSE]

\* Its last line, rocket_job_fini: only now the scheduler stops.
rocket_job_fini(k) == sched' = [sched EXCEPT ![k] = FALSE]

CoreUnwind ==
    /\ pc = "unwind"
    /\ rocket_core_fini(claimed)
    /\ pc' = "unwind_job"
    /\ UNCHANGED <<moduleVars, core_dev, sched, unitVars, active, clk, dev,
                   bound, history, entity>>

CoreUnwindJob ==
    /\ pc = "unwind_job"
    /\ rocket_job_fini(claimed)
    /\ pc' = "undo_clk"
    /\ UNCHANGED <<moduleVars, core_dev, iommu_group, unitVars, pmVars, dev,
                   bound, history, entity>>

\* The core is not counted any more; without cores there is no DRM device
\* (rocket_device_fini).
drop_core ==
    /\ num_cores' = num_cores - 1
    /\ IF num_cores = 1
       THEN rdev' = "NULL" /\ registered' = FALSE
       ELSE UNCHANGED <<rdev, registered>>

\* What the driver core does for a device that lost its driver: devm disables
\* the clocks rocket_core_init enabled, and a device whose runtime PM is
\* disabled counts as suspended.
device_unbind_cleanup(d, clocks) ==
    /\ clk' = [clk EXCEPT ![d] = @ - clocks]
    /\ active' = [active EXCEPT ![d] = @ /\ pm_enabled[d]]

\* Mutant: a failed core stays counted.
ProbeUndo_counted ==
    /\ pc \in {"undo", "undo_clk"}
    /\ device_unbind_cleanup(dev, IF pc = "undo" THEN 0 ELSE 1)
    /\ pc' = "idle" /\ dev' = NULL
    /\ UNCHANGED <<moduleVars, slotVars, unitVars, usage, pm_enabled, bound,
                   history, entity>>

\* The error return of rocket_probe.
ProbeUndo ==
    /\ pc \in {"undo", "undo_clk"}
    /\ drop_core
    /\ device_unbind_cleanup(dev, IF pc = "undo" THEN 0 ELSE 1)
    /\ pc' = "idle" /\ dev' = NULL
    /\ UNCHANGED <<module, slotVars, unitVars, usage, pm_enabled, bound, history,
                   entity>>

-----------------------------------------------------------------------------
(* The removal of a core (rocket_remove).                                   *)

\* Mutant: rocket_open does not take a reference on the module.
UnloadStart_forced ==
    /\ module = "loaded" /\ pc = "idle"
    /\ module' = "unloading"
    /\ UNCHANGED <<rdev, registered, num_cores, slotVars, unitVars, pmVars,
                   driverVars, entity>>

\* Every open file holds a reference on the module, so it can go only when
\* none is open; from then on no file can be opened.
UnloadStart ==
    /\ module = "loaded" /\ pc = "idle"
    /\ OpenFiles = {}
    /\ module' = "unloading"
    /\ UNCHANGED <<rdev, registered, num_cores, slotVars, unitVars, pmVars,
                   driverVars, entity>>

\* The bound devices without the i-th.
Without(i) == [m \in 1 .. Len(bound) - 1 |-> IF m < i THEN bound[m] ELSE bound[m + 1]]

\* The driver core takes the device from the driver: the one bound last when
\* the module goes, any when user space unbinds it.
RemoveStart(d) ==
    /\ pc = "idle" /\ Bound(d)
    /\ LET last == d = bound[Len(bound)] IN
       \/ /\ module = "unloading" /\ last
          /\ UNCHANGED <<quiet, ordered>>
       \/ /\ module = "loaded"
          /\ quiet' = (quiet /\ Unused)
          /\ ordered' = (ordered /\ last)
    /\ \E i \in DOMAIN bound : bound[i] = d /\ bound' = Without(i)
    /\ pc' = "remove" /\ dev' = d
    /\ UNCHANGED <<moduleVars, slotVars, unitVars, pmVars, probes, entity>>

\* find_core_for_dev fails: nothing is taken down.
RemoveUnknown ==
    /\ pc = "remove" /\ find_core_for_dev(dev) = {}
    /\ device_unbind_cleanup(dev, 1)
    /\ pc' = "idle" /\ dev' = NULL
    /\ UNCHANGED <<moduleVars, slotVars, unitVars, usage, pm_enabled, bound,
                   history, entity>>

RemoveFini ==
    /\ pc = "remove"
    /\ \E k \in find_core_for_dev(dev) : rocket_core_fini(k)
    /\ pc' = "job_fini"
    /\ UNCHANGED <<moduleVars, core_dev, sched, unitVars, active, clk, dev,
                   bound, history, entity>>

RemoveJobFini ==
    /\ pc = "job_fini"
    /\ \E k \in find_core_for_dev(dev) : rocket_job_fini(k)
    /\ pc' = "drop"
    /\ UNCHANGED <<moduleVars, core_dev, iommu_group, unitVars, pmVars, dev,
                   bound, history, entity>>

\* Mutant: the DRM device stays when the last core goes.
RemoveDrop_stays ==
    /\ pc = "drop"
    /\ num_cores' = num_cores - 1
    /\ device_unbind_cleanup(dev, 1)
    /\ pc' = "idle" /\ dev' = NULL
    /\ UNCHANGED <<module, rdev, registered, slotVars, unitVars, usage,
                   pm_enabled, bound, history, entity>>

RemoveDrop ==
    /\ pc = "drop"
    /\ drop_core
    /\ device_unbind_cleanup(dev, 1)
    /\ pc' = "idle" /\ dev' = NULL
    /\ UNCHANGED <<module, slotVars, unitVars, usage, pm_enabled, bound, history,
                   entity>>

\* rocket_unregister returns; loading the module again starts from NULL.
UnloadEnd ==
    /\ module = "unloading" /\ pc = "idle" /\ bound = <<>>
    /\ module' = "unloaded" /\ rdev' = "NULL"
    /\ UNCHANGED <<registered, num_cores, slotVars, unitVars, pmVars,
                   driverVars, entity>>

-----------------------------------------------------------------------------
(* Files and jobs.                                                          *)

\* rocket_open, rocket_job_open: an entity for each core counted now; the one
\* of a scheduler that is not initialised gets no run queue.
Open(f) ==
    /\ module = "loaded" /\ registered /\ entity[f] = NULL
    /\ entity' = [entity EXCEPT ![f] = {k \in Live : sched[k]}]
    /\ quiet' = (quiet /\ pc = "idle")
    /\ UNCHANGED <<moduleVars, slotVars, unitVars, pmVars, pc, dev, bound,
                   probes, ordered>>

\* rocket_postclose; a job in flight stays on its core.
CloseFile(f) ==
    /\ entity[f] # NULL
    /\ entity' = [entity EXCEPT ![f] = NULL]
    /\ UNCHANGED <<moduleVars, slotVars, unitVars, pmVars, driverVars>>

\* rocket_job_run of a job of f on core k takes the unit; the first user
\* resumes all cores counted now, if each of them resumes.
JobStart(f, k) ==
    /\ entity[f] # NULL /\ k \in entity[f]
    /\ sched[k] /\ ~in_flight[k]
    /\ in_flight' = [in_flight EXCEPT ![k] = TRUE]
    /\ pm_refcount' = pm_refcount + 1
    /\ IF pm_refcount > 0
       THEN UNCHANGED pmVars
       ELSE /\ \A d \in UnitDevices : resumable(d)
            /\ usage' = [d \in Devices |->
                            IF d \in UnitDevices THEN usage[d] + 1 ELSE usage[d]]
            /\ rocket_device_runtime_resume(UnitDevices)
            /\ UNCHANGED pm_enabled
    /\ UNCHANGED <<moduleVars, slotVars, driverVars, entity>>

\* The completion or the reset of the job puts the unit; the last put releases
\* all cores counted then.  A core whose interrupt is gone completes nothing.
JobEnd(k) ==
    /\ in_flight[k] /\ sched[k]
    /\ in_flight' = [in_flight EXCEPT ![k] = FALSE]
    /\ pm_refcount' = pm_refcount - 1
    /\ usage' = [d \in Devices |->
                    IF pm_refcount = 1 /\ d \in UnitDevices
                    THEN put_noidle(usage[d]) ELSE usage[d]]
    /\ UNCHANGED <<moduleVars, slotVars, pm_enabled, active, clk, driverVars,
                   entity>>

-----------------------------------------------------------------------------
CoreInit ==
    \/ CoreResources \/ CoreResourcesFail
    \/ CoreJobInit \/ CoreJobInitFail
    \/ CorePmEnable
    \/ CoreResume \/ CoreResumeFail
    \/ CoreReady \/ CoreRateFail
    \/ CoreUnwind \/ CoreUnwindJob

Probe ==
    \/ \E d \in Devices : ProbeStart(d)
    \/ DeviceInit \/ DeviceInitFail \/ DeviceKnown
    \/ CoreClaim \/ CoreClaimBeyond \/ CoreInit \/ ProbeUndo

Remove ==
    \/ \E d \in Devices : RemoveStart(d)
    \/ RemoveUnknown \/ RemoveFini \/ RemoveJobFini \/ RemoveDrop

Use ==
    \/ \E f \in Files : Open(f) \/ CloseFile(f)
    \/ \E f \in Files, k \in Slots : JobStart(f, k)
    \/ \E k \in Slots : JobEnd(k)
    \/ \E d \in Devices : RuntimeSuspend(d)

Next == Load \/ Probe \/ UnloadStart \/ Remove \/ UnloadEnd \/ Use

Spec == Init /\ [][Next]_vars

-----------------------------------------------------------------------------
(* Properties.                                                              *)

Pcs == {"idle", "probe", "claim", "resources", "job_init", "pm_enable",
        "resume", "rate", "unwind", "unwind_job", "undo", "undo_clk", "remove",
        "job_fini", "drop", "oops", "overrun"}

\* Every variable stays in its range; num_cores exceeds the number of nodes
\* counted for the allocation of cores[] only in a probe that has just written
\* behind the end, and by one.
TypeOK ==
    /\ module \in {"unloaded", "loaded", "unloading"}
    /\ rdev \in {"NULL", "ERR", "live"}
    /\ registered \in BOOLEAN
    /\ num_cores \in 0 .. Cardinality(Devices) + (IF pc = "overrun" THEN 1 ELSE 0)
    /\ pm_refcount \in Nat
    /\ core_dev \in [Slots -> Devices \cup {NULL}]
    /\ {sched, iommu_group, in_flight} \subseteq [Slots -> BOOLEAN]
    /\ usage \in [Devices -> Nat] /\ clk \in [Devices -> Nat]
    /\ {pm_enabled, active} \subseteq [Devices -> BOOLEAN]
    /\ pc \in Pcs /\ dev \in Devices \cup {NULL}
    /\ bound \in Seq(Devices) /\ probes \in 0 .. MaxProbes
    /\ quiet \in BOOLEAN /\ ordered \in BOOLEAN
    /\ entity \in [Files -> (SUBSET Slots) \cup {NULL}]

\* The device the driver core is working on has a slot.
InHand == pc \notin {"idle", "probe", "claim", "oops", "overrun"}

\* rocket_drv.c 248-268, 296-297: as long as cores go in the reverse order of
\* their coming, the counted slots of cores[] hold the bound devices and the
\* one being probed or removed, each exactly once: whatever fails, and whoever
\* uses the device meanwhile, no device is lost from the table or listed twice.
SlotsExact ==
    ordered =>
        /\ UnitDevices = {bound[i] : i \in DOMAIN bound}
                            \cup (IF InHand THEN {dev} ELSE {})
        /\ Cardinality(UnitDevices) = num_cores

\* rocket_drv.c 299-302: however the cores come and go, in any order and with
\* files and jobs around, a bound core is never left without the DRM device;
\* and as long as they go in the reverse order, the DRM device goes with the
\* last of them.
DrmWhileBound ==
    /\ bound # <<>> => registered
    /\ (ordered /\ pc = "idle" /\ registered) => bound # <<>>

\* rocket_drv.h 64-69: unless a core came or was unbound in use, an open file
\* can pin a job to every core there is, and each of its entities feeds a
\* scheduler that is up, of a core that still has the IOMMU group
\* rocket_job_run attaches to.  rocket_core_fini drops the group before it
\* stops the scheduler: only the module reference of the file keeps the two
\* apart.
EntitiesReady ==
    (quiet /\ ordered) =>
        \A f \in OpenFiles :
            /\ entity[f] = Live
            /\ \A k \in entity[f] : sched[k] /\ iommu_group[k]

\* rocket_core.c 197-204: unless a core came or was unbound in use, the usage
\* count of a bound core's device is never driven to zero, so its power domain
\* is never gated.
NeverGateKept ==
    (quiet /\ ordered) =>
        \A i \in DOMAIN bound : usage[bound[i]] > 0 /\ active[bound[i]]

-----------------------------------------------------------------------------
(* Statements of the code's comments that do not hold: README, section 5.   *)

\* rocket_core.c 68-71: the clocks are enabled for as long as the driver is
\* bound, and not longer.
ClocksWhileBound ==
    \A d \in Devices : d # dev => (clk[d] > 0 <=> Bound(d))

\* rocket_device.c 32-36: cores[] has an entry for every core there is, so a
\* probe takes one of them.  It fails when cores go out of order.
CoresSuffice == pc # "overrun"

\* rocket_drv.c 239-246: a probe goes on with the device it has just
\* initialised or with the one an earlier core initialised.
ProbeHasDevice == pc # "oops"

=============================================================================

-------------------------- MODULE RocketProbeProofs --------------------------
(***************************************************************************)
(* Proofs about RocketProbe for any number of core devices and files, and  *)
(* any number of probes: the table of the cores, the life of the DRM       *)
(* device, the entities of open files, and the reference that keeps a core *)
(* from being gated.                                                       *)
(***************************************************************************)
EXTENDS RocketProbe, FiniteSetTheorems, TLAPS

-----------------------------------------------------------------------------
(* The inductive invariant.                                                 *)

\* The devices that have a slot: the bound ones, and the one in hand.
Counted == Len(bound) + (IF InHand THEN 1 ELSE 0)

\* The one probe or removal in progress, and what the module's state allows.
DriverInv ==
    /\ pc = "idle" <=> dev = NULL
    /\ module = "unloaded" => pc = "idle" /\ bound = <<>>
    /\ module # "loaded" => OpenFiles = {}
    /\ pc \in Pcs \ {"idle", "remove", "job_fini", "drop"} => module = "loaded"
    /\ \A m, n \in 1 .. Len(bound) : m # n => bound[m] # bound[n]
    /\ \A m \in 1 .. Len(bound) : bound[m] # dev

\* No device with a slot goes uncounted, and the DRM device is there for all of
\* them, in whatever order cores are unbound.
RdevInv ==
    /\ num_cores >= Counted
    /\ rdev = "live" => registered
    /\ bound # <<>> \/ InHand \/ pc = "claim" => rdev = "live"
    /\ rdev = "live" /\ num_cores = 0 => pc = "claim"

\* As long as cores go in the reverse order, cores[] is exactly the bound
\* devices, in the order of their probes, and the one in hand; no probe has left it.
SlotInv ==
    ordered =>
        /\ num_cores = Counted
        /\ \A m \in 1 .. Len(bound) : core_dev[m - 1] = bound[m]
        /\ InHand => core_dev[num_cores - 1] = dev
        /\ registered => rdev = "live"
        /\ pc # "overrun"

\* The unit's count is the number of cores with a job.
Flying == {k \in Slots : in_flight[k]}
UnitInv == pm_refcount = Cardinality(Flying)

\* The clocks' count covers the enabling of rocket_core_init and the one of
\* the runtime resume.
Clocked(d) == Bound(d) \/ (d = dev /\ pc \in {"job_init", "pm_enable", "resume", "rate",
                              "unwind", "unwind_job", "undo_clk", "remove", "job_fini", "drop"})
ClkInvAt(d) == clk[d] >= (IF Clocked(d) THEN 1 ELSE 0) + (IF active[d] THEN 1 ELSE 0)
ClkInv == \A d \in Devices : ClkInvAt(d)

\* Unless a core came or was unbound in use: a file is open only while no core
\* comes or goes, and has an entity for each.
IdleWhenOpen == pc # "idle" => OpenFiles = {} /\ (module = "loaded" => Flying = {})
FilesReady == \A f \in OpenFiles : entity[f] = Live

\* Each bound core is up, resumed, and has one reference more than the unit's.
UnitRef == IF pm_refcount > 0 THEN 1 ELSE 0
CoreUp(k) == sched[k] /\ iommu_group[k]
CoresUp ==
    /\ \A m \in 1 .. Len(bound) : /\ CoreUp(m - 1) /\ active[bound[m]]
                                  /\ usage[bound[m]] > UnitRef
    /\ pc \in {"pm_enable", "resume", "rate"} => CoreUp(num_cores - 1)
    /\ pc = "rate" => usage[dev] > 0 /\ active[dev]

QuietInv == (quiet /\ ordered) => IdleWhenOpen /\ FilesReady /\ CoresUp

IndInv ==
    /\ TypeOK
    /\ DriverInv
    /\ RdevInv
    /\ SlotInv
    /\ UnitInv
    /\ ClkInv
    /\ QuietInv

-----------------------------------------------------------------------------
(* The bound devices.                                                       *)

\* The types of the variables, one by one.
LEMMA Types ==
  ASSUME IndInv
  PROVE  /\ module \in {"unloaded", "loaded", "unloading"}
         /\ rdev \in {"NULL", "ERR", "live"} /\ registered \in BOOLEAN
         /\ num_cores \in Nat /\ (pc # "overrun" => num_cores \in 0 .. Cardinality(Devices))
         /\ Cardinality(Devices) \in Nat \ {0} /\ pm_refcount \in Nat
         /\ core_dev \in [Slots -> Devices \cup {NULL}]
         /\ sched \in [Slots -> BOOLEAN] /\ iommu_group \in [Slots -> BOOLEAN]
         /\ in_flight \in [Slots -> BOOLEAN]
         /\ usage \in [Devices -> Nat] /\ clk \in [Devices -> Nat]
         /\ pm_enabled \in [Devices -> BOOLEAN] /\ active \in [Devices -> BOOLEAN]
         /\ pc \in Pcs /\ dev \in Devices \cup {NULL} /\ NULL \notin Devices
         /\ (pc # "idle" => dev \in Devices)
         /\ bound \in Seq(Devices) /\ probes \in 0 .. MaxProbes
         /\ Len(bound) \in Nat /\ DOMAIN bound = 1 .. Len(bound)
         /\ (\A m \in 1 .. Len(bound) : bound[m] \in Devices)
         /\ quiet \in BOOLEAN /\ ordered \in BOOLEAN
         /\ entity \in [Files -> (SUBSET Slots) \cup {NULL}]
<1>1. Cardinality(Devices) \in Nat \ {0}
  BY ProbeAssumption, FS_CardinalityType, FS_EmptySet
<1>2. TypeOK
  BY DEF IndInv
<1>3. dev \in Devices \cup {NULL} /\ NULL \notin Devices /\ (pc # "idle" => dev # NULL)
  BY <1>2, ProbeAssumption DEF IndInv, TypeOK, DriverInv
<1>4. bound \in Seq(Devices)
  BY <1>2 DEF TypeOK
<1>5. /\ Len(bound) \in Nat /\ DOMAIN bound = 1 .. Len(bound)
      /\ \A m \in 1 .. Len(bound) : bound[m] \in Devices
  BY <1>4
<1>6. num_cores \in Nat /\ (pc # "overrun" => num_cores \in 0 .. Cardinality(Devices))
  BY <1>1, <1>2 DEF TypeOK
<1>7. /\ sched \in [Slots -> BOOLEAN] /\ iommu_group \in [Slots -> BOOLEAN]
      /\ in_flight \in [Slots -> BOOLEAN]
      /\ pm_enabled \in [Devices -> BOOLEAN] /\ active \in [Devices -> BOOLEAN]
  BY <1>2 DEF TypeOK
<1> QED
  BY <1>1, <1>2, <1>3, <1>4, <1>5, <1>6, <1>7 DEF TypeOK

\* What taking the i-th device from the driver leaves bound.
LEMMA WithoutFacts ==
  ASSUME IndInv, NEW i \in 1 .. Len(bound)
  PROVE  /\ Without(i) \in Seq(Devices) /\ Len(Without(i)) = Len(bound) - 1
         /\ Len(bound) - 1 \in Nat
         /\ \A m \in 1 .. Len(bound) - 1 :
               /\ Without(i)[m] # bound[i]
               /\ \E n \in 1 .. Len(bound) : Without(i)[m] = bound[n]
               /\ i = Len(bound) => Without(i)[m] = bound[m]
         /\ \A m, n \in 1 .. Len(bound) - 1 : m # n => Without(i)[m] # Without(i)[n]
<1>0. /\ Len(bound) \in Nat /\ \A m \in 1 .. Len(bound) : bound[m] \in Devices
      /\ \A m, n \in 1 .. Len(bound) : m # n => bound[m] # bound[n]
  BY Types DEF IndInv, DriverInv
<1>1. Len(bound) - 1 \in Nat
  BY <1>0
<1> DEFINE at(m) == IF m < i THEN m ELSE m + 1
<1>2. \A m \in 1 .. Len(bound) - 1 : /\ Without(i)[m] = bound[at(m)]
                                     /\ at(m) \in 1 .. Len(bound) /\ at(m) # i
                                     /\ (i = Len(bound) => at(m) = m)
  BY <1>0 DEF Without
<1>3. \A m, n \in 1 .. Len(bound) - 1 : m # n => at(m) # at(n)
  BY <1>0
<1> HIDE DEF at
<1>4. Without(i) = [m \in 1 .. Len(bound) - 1 |-> Without(i)[m]]
  BY DEF Without
<1>5. \A m \in 1 .. Len(bound) - 1 : Without(i)[m] \in Devices
  BY <1>0, <1>2
<1>6. Without(i) \in [1 .. Len(bound) - 1 -> Devices]
  BY <1>4, <1>5
<1>7. Without(i) \in Seq(Devices) /\ Len(Without(i)) = Len(bound) - 1
  BY <1>1, <1>6
<1>8. \A m, n \in 1 .. Len(bound) - 1 : m # n => Without(i)[m] # Without(i)[n]
  BY <1>0, <1>2, <1>3
<1>9. ASSUME NEW m \in 1 .. Len(bound) - 1
      PROVE  /\ Without(i)[m] # bound[i] /\ \E n \in 1 .. Len(bound) : Without(i)[m] = bound[n]
             /\ i = Len(bound) => Without(i)[m] = bound[m]
  BY <1>0, <1>2
<1> QED
  BY <1>1, <1>7, <1>8, <1>9

\* The two steps that change what is bound: the device in hand is added at the
\* end, or one of the bound devices is taken in hand.
LEMMA Binding ==
  ASSUME IndInv, CoreReady
  PROVE  /\ bound' \in Seq(Devices) /\ Len(bound') = Len(bound) + 1
         /\ bound'[Len(bound) + 1] = dev /\ dev \in Devices
         /\ \A m \in 1 .. Len(bound) : bound'[m] = bound[m]
<1>1. bound' = Append(bound, dev) /\ dev \in Devices /\ bound \in Seq(Devices)
  BY Types DEF CoreReady
<1> QED
  BY <1>1

\* Taking a device in hand: it is the last one bound, if cores go in order.
LEMMA Unbinding ==
  ASSUME IndInv, NEW d \in Devices, RemoveStart(d)
  PROVE  /\ bound' \in Seq(Devices) /\ Len(bound') = Len(bound) - 1
         /\ Len(bound') \in Nat /\ Bound(d)
         /\ \A m \in 1 .. Len(bound') :
               /\ bound'[m] # d /\ \E n \in 1 .. Len(bound) : bound'[m] = bound[n]
               /\ ordered' => bound'[m] = bound[m]
         /\ \A m, n \in 1 .. Len(bound') : m # n => bound'[m] # bound'[n]
         /\ ordered' => ordered /\ bound[Len(bound)] = d
<1>0. /\ Len(bound) \in Nat /\ DOMAIN bound = 1 .. Len(bound)
      /\ \A m, n \in 1 .. Len(bound) : m # n => bound[m] # bound[n]
  BY Types DEF IndInv, DriverInv
<1>1. PICK i \in 1 .. Len(bound) : bound[i] = d /\ bound' = Without(i)
  BY <1>0 DEF RemoveStart
<1>2. ordered' => ordered /\ d = bound[Len(bound)]
  <2>1. ordered \in BOOLEAN
    BY Types
  <2> QED
    BY <2>1 DEF RemoveStart
<1>3. ordered' => i = Len(bound)
  <2>1. Len(bound) \in 1 .. Len(bound)
    BY <1>0
  <2> QED
    BY <1>0, <1>1, <1>2, <2>1
<1>4. Bound(d)
  BY DEF RemoveStart
<1>5. /\ Without(i) \in Seq(Devices) /\ Len(Without(i)) = Len(bound) - 1
      /\ Len(bound) - 1 \in Nat
      /\ \A m \in 1 .. Len(bound) - 1 :
               /\ Without(i)[m] # bound[i]
               /\ \E n \in 1 .. Len(bound) : Without(i)[m] = bound[n]
               /\ i = Len(bound) => Without(i)[m] = bound[m]
      /\ \A m, n \in 1 .. Len(bound) - 1 : m # n => Without(i)[m] # Without(i)[n]
  BY WithoutFacts
<1> QED
  BY <1>1, <1>2, <1>3, <1>4, <1>5

\* What is bound, in terms of positions.
LEMMA BoundAt ==
  ASSUME IndInv, NEW d \in Devices
  PROVE  Bound(d) <=> \E m \in 1 .. Len(bound) : bound[m] = d
BY Types DEF Bound

-----------------------------------------------------------------------------
(* The driver core, the DRM device and the table of the cores.              *)

\* The driver core has one device at a time in hand.
LEMMA DriverStep ==
  ASSUME IndInv, [Next]_vars PROVE DriverInv'
<1> USE DEF moduleVars, slotVars, unitVars, pmVars, history, driverVars
<1>0. /\ DriverInv /\ pc \in Pcs /\ dev \in Devices \cup {NULL} /\ NULL \notin Devices
      /\ module \in {"unloaded", "loaded", "unloading"} /\ Len(bound) \in Nat
      /\ (pc # "idle" => dev \in Devices)
      /\ entity \in [Files -> (SUBSET Slots) \cup {NULL}]
      /\ (\A m \in 1 .. Len(bound) : bound[m] \in Devices)
  BY Types DEF IndInv
<1>1. ASSUME Load PROVE DriverInv'
  BY <1>0, <1>1 DEF DriverInv, OpenFiles, Pcs, Load
<1>2. ASSUME NEW d \in Devices, ProbeStart(d) PROVE DriverInv'
  <2>1. \A m \in 1 .. Len(bound) : bound[m] # d
    BY <1>2, BoundAt DEF ProbeStart
  <2> QED
    BY <1>0, <1>2, <2>1 DEF DriverInv, OpenFiles, Pcs, ProbeStart
<1>3. ASSUME DeviceInit PROVE DriverInv'
  BY <1>0, <1>3 DEF DriverInv, OpenFiles, Pcs, DeviceInit
<1>4. ASSUME DeviceInitFail PROVE DriverInv'
  BY <1>0, <1>4 DEF DriverInv, OpenFiles, Pcs, DeviceInitFail
<1>5. ASSUME DeviceKnown PROVE DriverInv'
  BY <1>0, <1>5 DEF DriverInv, OpenFiles, Pcs, DeviceKnown
<1>6. ASSUME CoreClaim PROVE DriverInv'
  BY <1>0, <1>6 DEF DriverInv, OpenFiles, Pcs, CoreClaim
<1>7. ASSUME CoreClaimBeyond PROVE DriverInv'
  BY <1>0, <1>7 DEF DriverInv, OpenFiles, Pcs, CoreClaimBeyond
<1>8. ASSUME CoreResources PROVE DriverInv'
  BY <1>0, <1>8 DEF DriverInv, OpenFiles, Pcs, CoreResources
<1>9. ASSUME CoreResourcesFail PROVE DriverInv'
  BY <1>0, <1>9 DEF DriverInv, OpenFiles, Pcs, CoreResourcesFail
<1>10. ASSUME CoreJobInit PROVE DriverInv'
  BY <1>0, <1>10 DEF DriverInv, OpenFiles, Pcs, CoreJobInit, claimed
<1>11. ASSUME CoreJobInitFail PROVE DriverInv'
  BY <1>0, <1>11 DEF DriverInv, OpenFiles, Pcs, CoreJobInitFail
<1>12. ASSUME CorePmEnable PROVE DriverInv'
  BY <1>0, <1>12 DEF DriverInv, OpenFiles, Pcs, CorePmEnable
<1>13. ASSUME CoreResume PROVE DriverInv'
  BY <1>0, <1>13 DEF DriverInv, OpenFiles, Pcs, CoreResume,
         rocket_device_runtime_resume
<1>14. ASSUME CoreResumeFail PROVE DriverInv'
  BY <1>0, <1>14 DEF DriverInv, OpenFiles, Pcs, CoreResumeFail
<1>15. ASSUME CoreReady PROVE DriverInv'
  <2>1. /\ pc = "rate" /\ pc' = "idle" /\ dev' = NULL /\ module' = module /\ entity' = entity
        /\ module = "loaded"
    BY <1>0, <1>15 DEF CoreReady, DriverInv, Pcs
  <2>2. /\ Len(bound') = Len(bound) + 1 /\ bound'[Len(bound) + 1] = dev /\ dev \in Devices
        /\ \A m \in 1 .. Len(bound) : bound'[m] = bound[m]
    BY <1>15, Binding
  <2>3. \A m, n \in 1 .. Len(bound') : m # n => bound'[m] # bound'[n]
    BY <1>0, <2>2 DEF DriverInv
  <2>4. \A m \in 1 .. Len(bound') : bound'[m] # NULL
    BY <1>0, <2>2
  <2> QED
    BY <2>1, <2>3, <2>4 DEF DriverInv, Pcs
<1>16. ASSUME CoreRateFail PROVE DriverInv'
  BY <1>0, <1>16 DEF DriverInv, OpenFiles, Pcs, CoreRateFail
<1>17. ASSUME CoreUnwind PROVE DriverInv'
  BY <1>0, <1>17 DEF DriverInv, OpenFiles, Pcs, CoreUnwind, rocket_core_fini
<1>18. ASSUME CoreUnwindJob PROVE DriverInv'
  BY <1>0, <1>18 DEF DriverInv, OpenFiles, Pcs, CoreUnwindJob,
         rocket_job_fini, claimed
<1>19. ASSUME ProbeUndo PROVE DriverInv'
  BY <1>0, <1>19 DEF DriverInv, OpenFiles, Pcs, ProbeUndo, drop_core,
         device_unbind_cleanup
<1>20. ASSUME NEW d \in Devices, RemoveStart(d) PROVE DriverInv'
  <2>1. /\ pc' = "remove" /\ dev' = d /\ module' = module /\ module # "unloaded"
        /\ entity' = entity
    BY <1>20 DEF RemoveStart
  <2>2. /\ \A m \in 1 .. Len(bound') : bound'[m] # d
        /\ \A m, n \in 1 .. Len(bound') : m # n => bound'[m] # bound'[n]
    BY <1>20, Unbinding
  <2>3. module' # "loaded" => OpenFiles' = {}
    BY <1>0, <2>1 DEF DriverInv, OpenFiles
  <2>4. d # NULL
    BY <1>0
  <2> QED
    BY <2>1, <2>2, <2>3, <2>4 DEF DriverInv
<1>21. ASSUME RemoveUnknown PROVE DriverInv'
  BY <1>0, <1>21 DEF DriverInv, OpenFiles, Pcs, RemoveUnknown,
         device_unbind_cleanup
<1>22. ASSUME RemoveFini PROVE DriverInv'
  BY <1>0, <1>22 DEF DriverInv, OpenFiles, Pcs, RemoveFini, rocket_core_fini
<1>23. ASSUME RemoveJobFini PROVE DriverInv'
  BY <1>0, <1>23 DEF DriverInv, OpenFiles, Pcs, RemoveJobFini, rocket_job_fini
<1>24. ASSUME RemoveDrop PROVE DriverInv'
  BY <1>0, <1>24 DEF DriverInv, OpenFiles, Pcs, RemoveDrop, drop_core,
         device_unbind_cleanup
<1>25. ASSUME UnloadStart PROVE DriverInv'
  BY <1>0, <1>25 DEF DriverInv, OpenFiles, Pcs, UnloadStart
<1>26. ASSUME UnloadEnd PROVE DriverInv'
  BY <1>0, <1>26 DEF DriverInv, OpenFiles, Pcs, UnloadEnd
<1>27. ASSUME NEW f \in Files, Open(f) PROVE DriverInv'
  BY <1>0, <1>27 DEF DriverInv, OpenFiles, Pcs, Open
<1>28. ASSUME NEW f \in Files, CloseFile(f) PROVE DriverInv'
  BY <1>0, <1>28 DEF DriverInv, OpenFiles, Pcs, CloseFile
<1>29. CASE UNCHANGED <<module, pc, dev, bound, entity>>
  BY <1>0, <1>29 DEF DriverInv, OpenFiles, Pcs
<1>30. ASSUME NEW f \in Files, NEW k \in Slots, JobStart(f, k) PROVE DriverInv'
  BY <1>29, <1>30 DEF JobStart, rocket_device_runtime_resume
<1>31. ASSUME NEW k \in Slots, JobEnd(k) PROVE DriverInv'
  BY <1>29, <1>31 DEF JobEnd
<1>32. ASSUME NEW d \in Devices, RuntimeSuspend(d) PROVE DriverInv'
  BY <1>29, <1>32 DEF RuntimeSuspend
<1>33. CASE UNCHANGED vars
  BY <1>29, <1>33 DEF vars
<1> QED
  BY <1>1, <1>2, <1>3, <1>4, <1>5, <1>6, <1>7, <1>8, <1>9, <1>10, <1>11,
     <1>12, <1>13, <1>14, <1>15, <1>16, <1>17, <1>18, <1>19, <1>20, <1>21,
     <1>22, <1>23, <1>24, <1>25, <1>26, <1>27, <1>28, <1>29, <1>30, <1>31,
     <1>32, <1>33
     DEF Next, Probe, CoreInit, Remove, Use

\* The device in hand is found, in the slot claimed last, if cores go in order.
LEMMA FoundLast ==
  ASSUME IndInv, ordered, InHand
  PROVE  /\ num_cores - 1 \in Slots /\ num_cores \in Nat \ {0} /\ num_cores = Len(bound) + 1
         /\ core_dev[num_cores - 1] = dev /\ find_core_for_dev(dev) = {num_cores - 1}
<1>0. /\ num_cores \in 0 .. Cardinality(Devices) /\ Len(bound) \in Nat
      /\ Cardinality(Devices) \in Nat
      /\ \A m \in 1 .. Len(bound) : bound[m] # dev
  BY Types DEF IndInv, DriverInv, InHand
<1>1. /\ num_cores = Len(bound) + 1 /\ core_dev[num_cores - 1] = dev
      /\ \A m \in 1 .. Len(bound) : core_dev[m - 1] = bound[m]
  BY DEF IndInv, SlotInv, Counted
<1>2. num_cores - 1 \in Slots /\ num_cores \in Nat \ {0}
  BY <1>0, <1>1 DEF Slots
<1>3. \A k \in Slots : k < num_cores - 1 => core_dev[k] # dev
  <2> SUFFICES ASSUME NEW k \in Slots, k < num_cores - 1 PROVE core_dev[k] # dev
    OBVIOUS
  <2>1. k + 1 \in 1 .. Len(bound) /\ (k + 1) - 1 = k
    BY <1>0, <1>1 DEF Slots
  <2>2. core_dev[(k + 1) - 1] = bound[k + 1] /\ bound[k + 1] # dev
    BY <1>0, <1>1, <2>1
  <2> QED
    BY <2>1, <2>2
<1>4. \A k \in Live : k = num_cores - 1 \/ k < num_cores - 1
  BY <1>0 DEF Live, Slots
<1>5. num_cores - 1 \in Live
  BY <1>0, <1>2 DEF Live
<1>6. \A k \in Live : k \in Slots /\ k \in Nat
  BY <1>0 DEF Live, Slots
<1>7. find_core_for_dev(dev) = {num_cores - 1}
  BY <1>0, <1>1, <1>3, <1>4, <1>5, <1>6 DEF find_core_for_dev
<1> QED
  BY <1>1, <1>2, <1>7

\* The DRM device is there for every device that has a slot.
LEMMA RdevStep ==
  ASSUME IndInv, [Next]_vars PROVE RdevInv'
<1> USE DEF moduleVars, slotVars, unitVars, pmVars, history, driverVars
<1> USE DEF Counted, InHand
<1>0. /\ RdevInv /\ pc \in Pcs /\ num_cores \in Nat
      /\ Len(bound) \in Nat /\ bound \in Seq(Devices) /\ Cardinality(Devices) \in Nat \ {0}
      /\ (bound = <<>> <=> Len(bound) = 0) /\ rdev \in {"NULL", "ERR", "live"}
  BY Types DEF IndInv
<1>1. ASSUME NEW d \in Devices, ProbeStart(d) PROVE RdevInv'
  BY <1>0, <1>1 DEF RdevInv, ProbeStart
<1>2. ASSUME DeviceInit PROVE RdevInv'
  BY <1>0, <1>2 DEF RdevInv, DeviceInit
<1>3. ASSUME DeviceInitFail PROVE RdevInv'
  BY <1>0, <1>3 DEF RdevInv, DeviceInitFail
<1>4. ASSUME DeviceKnown PROVE RdevInv'
  BY <1>0, <1>4 DEF RdevInv, DeviceKnown
<1>5. ASSUME CoreClaim PROVE RdevInv'
  BY <1>0, <1>5 DEF RdevInv, Slots, CoreClaim
<1>6. ASSUME CoreClaimBeyond PROVE RdevInv'
  BY <1>0, <1>6 DEF RdevInv, Slots, CoreClaimBeyond
<1>7. ASSUME CoreResources PROVE RdevInv'
  BY <1>0, <1>7 DEF RdevInv, CoreResources
<1>8. ASSUME CoreResourcesFail PROVE RdevInv'
  BY <1>0, <1>8 DEF RdevInv, CoreResourcesFail
<1>9. ASSUME CoreJobInit PROVE RdevInv'
  BY <1>0, <1>9 DEF RdevInv, CoreJobInit, claimed
<1>10. ASSUME CoreJobInitFail PROVE RdevInv'
  BY <1>0, <1>10 DEF RdevInv, CoreJobInitFail
<1>11. ASSUME CorePmEnable PROVE RdevInv'
  BY <1>0, <1>11 DEF RdevInv, CorePmEnable
<1>12. ASSUME CoreResume PROVE RdevInv'
  BY <1>0, <1>12 DEF RdevInv, CoreResume, rocket_device_runtime_resume
<1>13. ASSUME CoreResumeFail PROVE RdevInv'
  BY <1>0, <1>13 DEF RdevInv, CoreResumeFail
<1>14. ASSUME CoreReady PROVE RdevInv'
  <2>1. bound' \in Seq(Devices) /\ Len(bound') = Len(bound) + 1
    BY <1>14, Binding
  <2> QED
    BY <1>0, <1>14, <2>1 DEF RdevInv, CoreReady
<1>15. ASSUME CoreRateFail PROVE RdevInv'
  BY <1>0, <1>15 DEF RdevInv, CoreRateFail
<1>16. ASSUME CoreUnwind PROVE RdevInv'
  BY <1>0, <1>16 DEF RdevInv, CoreUnwind, rocket_core_fini
<1>17. ASSUME CoreUnwindJob PROVE RdevInv'
  BY <1>0, <1>17 DEF RdevInv, CoreUnwindJob, rocket_job_fini, claimed
<1>18. ASSUME ProbeUndo PROVE RdevInv'
  <2>1. /\ pc \in {"undo", "undo_clk"} /\ pc' = "idle" /\ num_cores' = num_cores - 1
        /\ num_cores # 1 => rdev' = rdev /\ registered' = registered
        /\ num_cores = 1 => rdev' = "NULL" /\ registered' = FALSE
        /\ bound' = bound
    BY <1>18 DEF ProbeUndo, drop_core
  <2>2. num_cores >= Len(bound) + 1 /\ rdev = "live" /\ registered
    BY <1>0, <2>1 DEF RdevInv
  <2>3. num_cores - 1 \in Nat /\ (num_cores = 1 => bound = <<>>)
    BY <1>0, <2>2
  <2>4. num_cores' >= Counted'
    BY <1>0, <2>1, <2>2, <2>3
  <2>5. (bound' # <<>> => rdev' = "live") /\ (rdev' = "live" => num_cores # 1)
    BY <2>1, <2>2, <2>3
  <2>6. rdev' = "live" => registered'
    BY <2>1, <2>2, <2>5, Zenon
  <2>7. num_cores # 1 => num_cores' # 0
    BY <2>1, <1>0
  <2> QED
    BY <2>1, <2>4, <2>5, <2>6, <2>7 DEF RdevInv
<1>19. ASSUME NEW d \in Devices, RemoveStart(d) PROVE RdevInv'
  <2>1. bound' \in Seq(Devices) /\ Len(bound') = Len(bound) - 1 /\ Len(bound') \in Nat
    BY <1>19, Unbinding
  <2>2. bound # <<>>
    BY <1>0, <2>1
  <2> QED
    BY <1>0, <1>19, <2>1, <2>2 DEF RdevInv, RemoveStart
<1>20. ASSUME RemoveUnknown PROVE RdevInv'
  BY <1>0, <1>20 DEF RdevInv, RemoveUnknown, device_unbind_cleanup
<1>21. ASSUME RemoveFini PROVE RdevInv'
  BY <1>0, <1>21 DEF RdevInv, RemoveFini, rocket_core_fini
<1>22. ASSUME RemoveJobFini PROVE RdevInv'
  BY <1>0, <1>22 DEF RdevInv, RemoveJobFini, rocket_job_fini
<1>23. ASSUME RemoveDrop PROVE RdevInv'
  <2>1. /\ pc = "drop" /\ pc' = "idle" /\ num_cores' = num_cores - 1
        /\ num_cores # 1 => rdev' = rdev /\ registered' = registered
        /\ num_cores = 1 => rdev' = "NULL" /\ registered' = FALSE
        /\ bound' = bound
    BY <1>23 DEF RemoveDrop, drop_core
  <2>2. num_cores >= Len(bound) + 1 /\ rdev = "live" /\ registered
    BY <1>0, <2>1 DEF RdevInv
  <2>3. num_cores - 1 \in Nat /\ (num_cores = 1 => bound = <<>>)
    BY <1>0, <2>2
  <2>4. num_cores' >= Counted'
    BY <1>0, <2>1, <2>2, <2>3
  <2>5. (bound' # <<>> => rdev' = "live") /\ (rdev' = "live" => num_cores # 1)
    BY <2>1, <2>2, <2>3
  <2>6. rdev' = "live" => registered'
    BY <2>1, <2>2, <2>5, Zenon
  <2>7. num_cores # 1 => num_cores' # 0
    BY <2>1, <1>0
  <2> QED
    BY <2>1, <2>4, <2>5, <2>6, <2>7 DEF RdevInv
<1>24. ASSUME UnloadEnd PROVE RdevInv'
  BY <1>0, <1>24 DEF RdevInv, UnloadEnd
<1>25. CASE UNCHANGED <<pc, bound, num_cores, rdev, registered>>
  BY <1>0, <1>25 DEF RdevInv
<1>26. ASSUME Load \/ UnloadStart PROVE RdevInv'
  BY <1>25, <1>26 DEF Load, UnloadStart
<1>27. ASSUME NEW f \in Files, Open(f) \/ CloseFile(f) PROVE RdevInv'
  BY <1>25, <1>27 DEF Open, CloseFile
<1>28. ASSUME NEW f \in Files, NEW k \in Slots, JobStart(f, k) PROVE RdevInv'
  BY <1>25, <1>28 DEF JobStart, rocket_device_runtime_resume
<1>29. ASSUME NEW k \in Slots, JobEnd(k) PROVE RdevInv'
  BY <1>25, <1>29 DEF JobEnd
<1>30. ASSUME NEW d \in Devices, RuntimeSuspend(d) PROVE RdevInv'
  BY <1>25, <1>30 DEF RuntimeSuspend
<1>31. CASE UNCHANGED vars
  BY <1>25, <1>31 DEF vars
<1> QED
  BY <1>1, <1>2, <1>3, <1>4, <1>5, <1>6, <1>7, <1>8, <1>9, <1>10, <1>11,
     <1>12, <1>13, <1>14, <1>15, <1>16, <1>17, <1>18, <1>19, <1>20, <1>21,
     <1>22, <1>23, <1>24, <1>25, <1>26, <1>27, <1>28, <1>29, <1>30, <1>31
     DEF Next, Probe, CoreInit, Remove, Use

\* The table of cores follows from its description by the invariant.
LEMMA SlotsFollow ==
  ASSUME IndInv PROVE SlotsExact
<1> SUFFICES ASSUME ordered
             PROVE  /\ UnitDevices = {bound[i] : i \in DOMAIN bound}
                                         \cup (IF InHand THEN {dev} ELSE {})
                    /\ Cardinality(UnitDevices) = num_cores
  BY DEF SlotsExact
<1>0. /\ num_cores \in 0 .. Cardinality(Devices) /\ Cardinality(Devices) \in Nat
      /\ Len(bound) \in Nat /\ DOMAIN bound = 1 .. Len(bound)
      /\ (\A m, n \in 1 .. Len(bound) : m # n => bound[m] # bound[n])
      /\ (\A m \in 1 .. Len(bound) : bound[m] # dev)
  BY Types DEF IndInv, DriverInv, SlotInv
<1>1. /\ num_cores = Len(bound) + (IF InHand THEN 1 ELSE 0)
      /\ \A m \in 1 .. Len(bound) : core_dev[m - 1] = bound[m]
      /\ InHand => core_dev[num_cores - 1] = dev
  BY DEF IndInv, SlotInv, Counted
<1>2. num_cores \in Nat /\ \A m \in 1 .. num_cores : m - 1 \in Live
  BY <1>0 DEF Live, Slots
<1>3. \A k \in Live : k + 1 \in 1 .. num_cores /\ (k + 1) - 1 = k
  BY <1>0 DEF Live, Slots
<1> DEFINE At == [m \in 1 .. num_cores |-> core_dev[m - 1]]
<1>4. \A m \in 1 .. num_cores : \/ m \in 1 .. Len(bound) /\ At[m] = bound[m]
                                \/ InHand /\ m = Len(bound) + 1 /\ At[m] = dev
  <2> SUFFICES ASSUME NEW m \in 1 .. num_cores
               PROVE  \/ m \in 1 .. Len(bound) /\ core_dev[m - 1] = bound[m]
                      \/ InHand /\ m = Len(bound) + 1 /\ core_dev[m - 1] = dev
    OBVIOUS
  <2>1. CASE m \in 1 .. Len(bound)
    BY <1>1, <2>1
  <2>2. CASE m \notin 1 .. Len(bound)
    <3>1. InHand /\ m = Len(bound) + 1 /\ m = num_cores
      <4>1. m \in Nat /\ Len(bound) \in Nat /\ m > Len(bound) /\ m <= num_cores
        BY <1>0, <2>2
      <4>2. CASE InHand
        BY <1>1, <4>1, <4>2
      <4>3. CASE ~InHand
        BY <1>1, <4>1, <4>3
      <4> QED
        BY <4>2, <4>3
    <3> QED
      BY <1>1, <3>1
  <2> QED
    BY <2>1, <2>2
<1>5. \A m, n \in 1 .. num_cores : m # n => At[m] # At[n]
  BY <1>0, <1>4
<1>6. UnitDevices = {At[m] : m \in 1 .. num_cores}
  <2>1. ASSUME NEW k \in Live PROVE core_dev[k] = At[k + 1] /\ k + 1 \in 1 .. num_cores
    BY <1>3
  <2>2. ASSUME NEW m \in 1 .. num_cores PROVE At[m] = core_dev[m - 1] /\ m - 1 \in Live
    BY <1>2
  <2> HIDE DEF At
  <2>3. \A x : x \in UnitDevices <=> \E k \in Live : x = core_dev[k]
    BY DEF UnitDevices
  <2>4. \A x : x \in {At[m] : m \in 1 .. num_cores} <=> \E m \in 1 .. num_cores : x = At[m]
    OBVIOUS
  <2>5. ASSUME NEW x
        PROVE  (\E k \in Live : x = core_dev[k]) <=> (\E m \in 1 .. num_cores : x = At[m])
    BY <2>1, <2>2, Zenon
  <2>6. \A x : x \in UnitDevices <=> x \in {At[m] : m \in 1 .. num_cores}
    BY <2>3, <2>4, <2>5
  <2> QED
    BY <2>6
<1>7. UnitDevices = {bound[i] : i \in DOMAIN bound} \cup (IF InHand THEN {dev} ELSE {})
  <2>0. num_cores >= Len(bound) /\ (InHand => num_cores = Len(bound) + 1)
    <3>1. CASE InHand
      BY <1>0, <1>1, <3>1
    <3>2. CASE ~InHand
      <4>1. num_cores = Len(bound) + 0
        BY <1>1, <3>2, Zenon
      <4>2. Len(bound) \in Nat
        BY <1>0
      <4>3. num_cores >= Len(bound)
        BY <4>1, <4>2
      <4> QED
        BY <3>2, <4>3
    <3> QED
      BY <3>1, <3>2
  <2>1. \A m \in 1 .. Len(bound) : m \in 1 .. num_cores /\ m # Len(bound) + 1
    BY <1>0, <2>0
  <2>2. InHand => Len(bound) + 1 \in 1 .. num_cores /\ Len(bound) + 1 \notin 1 .. Len(bound)
    BY <1>0, <2>0
  <2> HIDE DEF At
  <2> QED
    BY <1>0, <1>4, <1>6, <2>1, <2>2
<1>8. Cardinality(UnitDevices) = num_cores
  <2>1. At \in Bijection(1 .. num_cores, UnitDevices)
    <3>1. At \in [1 .. num_cores -> UnitDevices]
      BY <1>6
    <3> HIDE DEF At
    <3>2. At \in Injection(1 .. num_cores, UnitDevices)
      BY <1>5, <3>1 DEF Injection, IsInjective
    <3>3. At \in Surjection(1 .. num_cores, UnitDevices)
      BY <1>6, <3>1 DEF Surjection
    <3> QED
      BY <3>2, <3>3 DEF Bijection
  <2> HIDE DEF At
  <2>2. ExistsBijection(1 .. num_cores, UnitDevices)
    BY <2>1 DEF ExistsBijection
  <2> QED
    BY <1>2, <2>2, FS_CountingElements
<1> QED
  BY <1>7, <1>8

\* A device that still needs a slot is not one of those that have one, so these
\* do not fill the table.
LEMMA ClaimFits ==
  ASSUME IndInv, ordered, pc = "claim" PROVE num_cores \in Slots
<1>1. /\ dev \in Devices /\ IsFiniteSet(Devices) /\ Cardinality(Devices) \in Nat
      /\ num_cores \in 0 .. Cardinality(Devices) /\ DOMAIN bound = 1 .. Len(bound)
      /\ \A m \in 1 .. Len(bound) : bound[m] \in Devices
  BY Types, ProbeAssumption
<1>2. \A m \in 1 .. Len(bound) : bound[m] # dev
  BY DEF IndInv, DriverInv
<1>3. UnitDevices = {bound[i] : i \in DOMAIN bound} /\ Cardinality(UnitDevices) = num_cores
  BY SlotsFollow DEF SlotsExact, InHand
<1>4. UnitDevices \subseteq Devices \ {dev}
  BY <1>1, <1>2, <1>3
<1>5. /\ IsFiniteSet(Devices \ {dev})
      /\ Cardinality(Devices \ {dev}) = Cardinality(Devices) - 1
  BY <1>1, FS_RemoveElement
<1>6. Cardinality(UnitDevices) <= Cardinality(Devices \ {dev})
  BY <1>4, <1>5, FS_Subset
<1> QED
  BY <1>1, <1>3, <1>5, <1>6 DEF Slots

\* The table of the cores.
LEMMA SlotStep ==
  ASSUME IndInv, [Next]_vars PROVE SlotInv'
<1> USE DEF moduleVars, slotVars, unitVars, pmVars, history, driverVars
<1> USE DEF Counted, InHand
<1>0. /\ SlotInv /\ RdevInv /\ pc \in Pcs /\ num_cores \in Nat
      /\ (pc # "overrun" => num_cores \in 0 .. Cardinality(Devices))
      /\ Len(bound) \in Nat /\ Cardinality(Devices) \in Nat \ {0}
      /\ (bound = <<>> <=> Len(bound) = 0) /\ rdev \in {"NULL", "ERR", "live"}
      /\ core_dev \in [Slots -> Devices \cup {NULL}] /\ Slots = 0 .. Cardinality(Devices) - 1
      /\ ordered \in BOOLEAN /\ registered \in BOOLEAN
  BY Types DEF IndInv, Slots
<1>1. ASSUME NEW d \in Devices, ProbeStart(d) PROVE SlotInv'
  BY <1>0, <1>1 DEF SlotInv, ProbeStart
<1>2. ASSUME DeviceInit PROVE SlotInv'
  <2>1. bound = <<>> /\ Len(bound) = 0
    BY <1>0, <1>2 DEF DeviceInit, RdevInv
  <2> QED
    BY <1>0, <1>2, <2>1 DEF SlotInv, DeviceInit
<1>3. ASSUME DeviceInitFail PROVE SlotInv'
  BY <1>0, <1>3 DEF SlotInv, RdevInv, DeviceInitFail
<1>4. ASSUME DeviceKnown PROVE SlotInv'
  BY <1>0, <1>4 DEF SlotInv, DeviceKnown
<1>5. ASSUME CoreClaim PROVE SlotInv'
  BY <1>0, <1>5 DEF SlotInv, CoreClaim
<1>6. ASSUME CoreClaimBeyond PROVE SlotInv'
  BY <1>6, ClaimFits DEF SlotInv, CoreClaimBeyond
<1>7. ASSUME CoreResources PROVE SlotInv'
  BY <1>0, <1>7 DEF SlotInv, CoreResources
<1>8. ASSUME CoreResourcesFail PROVE SlotInv'
  BY <1>0, <1>8 DEF SlotInv, CoreResourcesFail
<1>9. ASSUME CoreJobInit PROVE SlotInv'
  BY <1>0, <1>9 DEF SlotInv, CoreJobInit, claimed
<1>10. ASSUME CoreJobInitFail PROVE SlotInv'
  BY <1>0, <1>10 DEF SlotInv, CoreJobInitFail
<1>11. ASSUME CorePmEnable PROVE SlotInv'
  BY <1>0, <1>11 DEF SlotInv, CorePmEnable
<1>12. ASSUME CoreResume PROVE SlotInv'
  BY <1>0, <1>12 DEF SlotInv, CoreResume, rocket_device_runtime_resume
<1>13. ASSUME CoreResumeFail PROVE SlotInv'
  BY <1>0, <1>13 DEF SlotInv, CoreResumeFail
<1>14. ASSUME CoreReady PROVE SlotInv'
  <2>1. /\ Len(bound') = Len(bound) + 1 /\ bound'[Len(bound) + 1] = dev
        /\ \A m \in 1 .. Len(bound) : bound'[m] = bound[m]
    BY <1>14, Binding
  <2>2. /\ pc = "rate" /\ pc' = "idle" /\ ordered' = ordered /\ core_dev' = core_dev
        /\ num_cores' = num_cores /\ rdev' = rdev /\ registered' = registered
    BY <1>14 DEF CoreReady
  <2> SUFFICES ASSUME ordered PROVE SlotInv'
    BY <2>2 DEF SlotInv
  <2>3. /\ num_cores = Len(bound) + 1 /\ core_dev[num_cores - 1] = dev
        /\ \A m \in 1 .. Len(bound) : core_dev[m - 1] = bound[m]
    BY <1>0, <2>2 DEF SlotInv
  <2>4. \A m \in 1 .. Len(bound') : core_dev[m - 1] = bound'[m]
    BY <1>0, <2>1, <2>3
  <2> QED
    BY <1>0, <2>1, <2>2, <2>3, <2>4 DEF SlotInv
<1>15. ASSUME CoreRateFail PROVE SlotInv'
  BY <1>0, <1>15 DEF SlotInv, CoreRateFail
<1>16. ASSUME CoreUnwind PROVE SlotInv'
  BY <1>0, <1>16 DEF SlotInv, CoreUnwind, rocket_core_fini
<1>17. ASSUME CoreUnwindJob PROVE SlotInv'
  BY <1>0, <1>17 DEF SlotInv, CoreUnwindJob, rocket_job_fini, claimed
<1>18. ASSUME ProbeUndo PROVE SlotInv'
  BY <1>0, <1>18 DEF SlotInv, ProbeUndo, drop_core, device_unbind_cleanup
<1>19. ASSUME NEW d \in Devices, RemoveStart(d) PROVE SlotInv'
  <2>1. /\ Len(bound') = Len(bound) - 1 /\ Len(bound') \in Nat
        /\ ordered' => ordered /\ bound[Len(bound)] = d
                       /\ \A m \in 1 .. Len(bound') : bound'[m] = bound[m]
    BY <1>19, Unbinding
  <2>2. /\ pc = "idle" /\ pc' = "remove" /\ dev' = d /\ core_dev' = core_dev
        /\ num_cores' = num_cores /\ rdev' = rdev /\ registered' = registered
    BY <1>19 DEF RemoveStart
  <2> SUFFICES ASSUME ordered' PROVE SlotInv'
    BY DEF SlotInv
  <2>3. /\ num_cores = Len(bound) /\ registered => rdev = "live"
        /\ \A m \in 1 .. Len(bound) : core_dev[m - 1] = bound[m]
    BY <1>0, <2>1, <2>2 DEF SlotInv
  <2>4. Len(bound) \in 1 .. Len(bound) /\ core_dev[Len(bound) - 1] = d
    BY <1>0, <2>1, <2>3
  <2>5. \A m \in 1 .. Len(bound') : core_dev[m - 1] = bound'[m]
    BY <1>0, <2>1, <2>3
  <2> QED
    BY <1>0, <2>1, <2>2, <2>3, <2>4, <2>5 DEF SlotInv
<1>20. ASSUME RemoveUnknown PROVE SlotInv'
  <2>1. pc = "remove" /\ find_core_for_dev(dev) = {} /\ ordered' = ordered
    BY <1>20 DEF RemoveUnknown
  <2>2. ~ordered
    BY <2>1, FoundLast
  <2> QED
    BY <2>1, <2>2 DEF SlotInv
<1>21. ASSUME RemoveFini PROVE SlotInv'
  BY <1>0, <1>21 DEF SlotInv, RemoveFini, rocket_core_fini
<1>22. ASSUME RemoveJobFini PROVE SlotInv'
  BY <1>0, <1>22 DEF SlotInv, RemoveJobFini, rocket_job_fini
<1>23. ASSUME RemoveDrop PROVE SlotInv'
  BY <1>0, <1>23 DEF SlotInv, RemoveDrop, drop_core, device_unbind_cleanup
<1>24. ASSUME UnloadEnd PROVE SlotInv'
  BY <1>0, <1>24 DEF SlotInv, RdevInv, UnloadEnd
<1>25. CASE UNCHANGED <<pc, bound, num_cores, rdev, registered, core_dev, dev,
       ordered>>
  BY <1>0, <1>25 DEF SlotInv
<1>26. ASSUME Load \/ UnloadStart PROVE SlotInv'
  BY <1>25, <1>26 DEF Load, UnloadStart
<1>27. ASSUME NEW f \in Files, Open(f) \/ CloseFile(f) PROVE SlotInv'
  BY <1>25, <1>27 DEF Open, CloseFile
<1>28. ASSUME NEW f \in Files, NEW k \in Slots, JobStart(f, k) PROVE SlotInv'
  BY <1>25, <1>28 DEF JobStart, rocket_device_runtime_resume
<1>29. ASSUME NEW k \in Slots, JobEnd(k) PROVE SlotInv'
  BY <1>25, <1>29 DEF JobEnd
<1>30. ASSUME NEW d \in Devices, RuntimeSuspend(d) PROVE SlotInv'
  BY <1>25, <1>30 DEF RuntimeSuspend
<1>31. CASE UNCHANGED vars
  BY <1>25, <1>31 DEF vars
<1> QED
  BY <1>1, <1>2, <1>3, <1>4, <1>5, <1>6, <1>7, <1>8, <1>9, <1>10, <1>11,
     <1>12, <1>13, <1>14, <1>15, <1>16, <1>17, <1>18, <1>19, <1>20, <1>21,
     <1>22, <1>23, <1>24, <1>25, <1>26, <1>27, <1>28, <1>29, <1>30, <1>31
     DEF Next, Probe, CoreInit, Remove, Use

-----------------------------------------------------------------------------
(* The power unit and the clocks.                                           *)

\* The set of the cores with a job is finite.
LEMMA FlyingFinite == IsFiniteSet(Flying) /\ Cardinality(Flying) \in Nat
<1>1. Cardinality(Devices) \in Nat
  BY ProbeAssumption, FS_CardinalityType
<1>2. IsFiniteSet(Slots)
  BY <1>1, FS_Interval DEF Slots
<1>3. IsFiniteSet(Flying)
  BY <1>2, FS_Subset DEF Flying
<1> QED
  BY <1>3, FS_CardinalityType

\* The unit is counted once for each core with a job.
LEMMA UnitStep ==
  ASSUME IndInv, [Next]_vars PROVE UnitInv'
<1> USE DEF moduleVars, slotVars, unitVars, pmVars, history, driverVars
<1>0. UnitInv /\ in_flight \in [Slots -> BOOLEAN] /\ pm_refcount \in Nat
  BY Types DEF IndInv
<1>1. ASSUME DeviceInit PROVE UnitInv'
  <2>1. Flying' = {} /\ pm_refcount' = 0
    BY <1>1 DEF DeviceInit, Flying
  <2> QED
    BY <2>1, FS_EmptySet DEF UnitInv
<1>2. ASSUME NEW f \in Files, NEW k \in Slots, JobStart(f, k) PROVE UnitInv'
  <2>1. /\ ~in_flight[k] /\ in_flight' = [in_flight EXCEPT ![k] = TRUE]
        /\ pm_refcount' = pm_refcount + 1
    BY <1>2 DEF JobStart
  <2>2. k \notin Flying /\ Flying' = Flying \cup {k}
    BY <1>0, <2>1 DEF Flying
  <2>3. Cardinality(Flying') = Cardinality(Flying) + 1
    BY <2>2, FlyingFinite, FS_AddElement
  <2> QED
    BY <1>0, <2>1, <2>3 DEF UnitInv
<1>3. ASSUME NEW k \in Slots, JobEnd(k) PROVE UnitInv'
  <2>1. /\ in_flight[k] /\ in_flight' = [in_flight EXCEPT ![k] = FALSE]
        /\ pm_refcount' = pm_refcount - 1
    BY <1>3 DEF JobEnd
  <2>2. k \in Flying /\ Flying' = Flying \ {k}
    BY <1>0, <2>1 DEF Flying
  <2>3. Cardinality(Flying') = Cardinality(Flying) - 1
    BY <2>2, FlyingFinite, FS_RemoveElement
  <2> QED
    BY <1>0, <2>1, <2>3 DEF UnitInv
<1>4. CASE UNCHANGED <<in_flight, pm_refcount>>
  BY <1>0, <1>4 DEF UnitInv, Flying
<1>5. ASSUME \/ Load \/ DeviceInitFail \/ DeviceKnown
             \/ CoreClaim \/ CoreClaimBeyond \/ CoreResources
      PROVE  UnitInv'
  BY <1>4, <1>5 DEF Load, DeviceInitFail, DeviceKnown, CoreClaim,
     CoreClaimBeyond, CoreResources
<1>6. ASSUME \/ CoreResourcesFail \/ CoreJobInit \/ CoreJobInitFail
             \/ CorePmEnable \/ CoreResume \/ CoreResumeFail
      PROVE  UnitInv'
  BY <1>4, <1>6 DEF CoreResourcesFail, CoreJobInit, claimed, CoreJobInitFail,
     CorePmEnable, CoreResume, rocket_device_runtime_resume, CoreResumeFail
<1>7. ASSUME \/ CoreReady \/ CoreRateFail \/ CoreUnwind
             \/ CoreUnwindJob \/ ProbeUndo \/ UnloadStart
      PROVE  UnitInv'
  BY <1>4, <1>7 DEF CoreReady, CoreRateFail, CoreUnwind, rocket_core_fini,
     CoreUnwindJob, rocket_job_fini, claimed, ProbeUndo, drop_core,
     device_unbind_cleanup, UnloadStart
<1>8. ASSUME \/ RemoveUnknown \/ RemoveFini \/ RemoveJobFini
             \/ RemoveDrop \/ UnloadEnd
      PROVE  UnitInv'
  BY <1>4, <1>8 DEF RemoveUnknown, device_unbind_cleanup, RemoveFini,
     rocket_core_fini, RemoveJobFini, rocket_job_fini, RemoveDrop, drop_core,
     UnloadEnd
<1>9. ASSUME NEW d \in Devices,
             ProbeStart(d) \/ RemoveStart(d) \/ RuntimeSuspend(d)
      PROVE  UnitInv'
  BY <1>4, <1>9 DEF ProbeStart, RemoveStart, RuntimeSuspend
<1>10. ASSUME NEW f \in Files, Open(f) \/ CloseFile(f) PROVE UnitInv'
  BY <1>4, <1>10 DEF Open, CloseFile
<1>11. CASE UNCHANGED vars
  BY <1>4, <1>11 DEF vars
<1> QED
  BY <1>1, <1>2, <1>3, <1>4, <1>5, <1>6, <1>7, <1>8, <1>9, <1>10, <1>11
     DEF Next, Probe, CoreInit, Remove, Use

\* A core with a job holds the unit.
LEMMA UnitHeld ==
  ASSUME IndInv, NEW k \in Slots, in_flight[k] PROVE pm_refcount > 0
<1>1. Flying # {}
  BY DEF Flying
<1>2. Cardinality(Flying) # 0
  BY <1>1, FlyingFinite, FS_EmptySet
<1> QED
  BY <1>2, FlyingFinite DEF IndInv, UnitInv

\* The clocks are enabled once for the probe and once for the resume.
LEMMA ClkStep ==
  ASSUME IndInv, [Next]_vars PROVE ClkInv'
<1> USE DEF moduleVars, slotVars, unitVars, pmVars, history, driverVars
<1> SUFFICES ASSUME NEW x \in Devices PROVE ClkInvAt(x)'
  BY DEF ClkInv
<1>0. /\ ClkInvAt(x) /\ pc \in Pcs /\ dev \in Devices \cup {NULL} /\ NULL \notin Devices
      /\ clk \in [Devices -> Nat] /\ active \in [Devices -> BOOLEAN]
      /\ pm_enabled \in [Devices -> BOOLEAN] /\ (pc # "idle" => dev \in Devices)
      /\ ~(pc # "idle" /\ Bound(dev))
  <2>1. pc # "idle" => dev \in Devices /\ \A m \in 1 .. Len(bound) : bound[m] # dev
    BY Types DEF IndInv, DriverInv
  <2>2. ~(pc # "idle" /\ Bound(dev))
    BY <2>1, BoundAt
  <2> QED
    BY <2>2, Types DEF IndInv, ClkInv
<1>00. ASSUME bound' = bound PROVE Bound(x)' <=> Bound(x)
  BY <1>00 DEF Bound
<1>1. ASSUME NEW d \in Devices, ProbeStart(d) PROVE ClkInvAt(x)'
  BY <1>0, <1>00, <1>1 DEF ClkInvAt, Clocked, ProbeStart
<1>2. ASSUME DeviceInit PROVE ClkInvAt(x)'
  BY <1>0, <1>00, <1>2 DEF ClkInvAt, Clocked, DeviceInit
<1>3. ASSUME DeviceInitFail PROVE ClkInvAt(x)'
  BY <1>0, <1>00, <1>3 DEF ClkInvAt, Clocked, DeviceInitFail
<1>4. ASSUME DeviceKnown PROVE ClkInvAt(x)'
  BY <1>0, <1>00, <1>4 DEF ClkInvAt, Clocked, DeviceKnown
<1>5. ASSUME CoreClaim PROVE ClkInvAt(x)'
  BY <1>0, <1>00, <1>5 DEF ClkInvAt, Clocked, CoreClaim
<1>6. ASSUME CoreClaimBeyond PROVE ClkInvAt(x)'
  BY <1>0, <1>00, <1>6 DEF ClkInvAt, Clocked, CoreClaimBeyond
<1>7. ASSUME CoreResources PROVE ClkInvAt(x)'
  BY <1>0, <1>00, <1>7 DEF ClkInvAt, Clocked, CoreResources
<1>8. ASSUME CoreResourcesFail PROVE ClkInvAt(x)'
  BY <1>0, <1>00, <1>8 DEF ClkInvAt, Clocked, CoreResourcesFail
<1>9. ASSUME CoreJobInit PROVE ClkInvAt(x)'
  BY <1>0, <1>00, <1>9 DEF ClkInvAt, Clocked, CoreJobInit, claimed
<1>10. ASSUME CoreJobInitFail PROVE ClkInvAt(x)'
  BY <1>0, <1>00, <1>10 DEF ClkInvAt, Clocked, CoreJobInitFail
<1>11. ASSUME CorePmEnable PROVE ClkInvAt(x)'
  BY <1>0, <1>00, <1>11 DEF ClkInvAt, Clocked, CorePmEnable
<1>12. ASSUME CoreResume PROVE ClkInvAt(x)'
  BY <1>0, <1>00, <1>12 DEF ClkInvAt, Clocked, CoreResume,
         rocket_device_runtime_resume
<1>13. ASSUME CoreResumeFail PROVE ClkInvAt(x)'
  BY <1>0, <1>00, <1>13 DEF ClkInvAt, Clocked, CoreResumeFail
<1>14. ASSUME CoreReady PROVE ClkInvAt(x)'
  <2>1. pc = "rate" /\ active' = active /\ clk' = clk /\ pc' = "idle" /\ dev' = NULL
    BY <1>14 DEF CoreReady
  <2>2. Bound(x)' => Bound(x) \/ x = dev
    <3>1. /\ bound' \in Seq(Devices) /\ Len(bound') = Len(bound) + 1
          /\ bound'[Len(bound) + 1] = dev /\ Len(bound) \in Nat
          /\ \A m \in 1 .. Len(bound) : bound'[m] = bound[m]
      BY <1>14, Binding, Types
    <3>2. ASSUME NEW m \in 1 .. Len(bound'), bound'[m] = x
          PROVE  x = dev \/ \E n \in 1 .. Len(bound) : bound[n] = x
      BY <3>1, <3>2
    <3> QED
      BY <3>1, <3>2, BoundAt DEF Bound
  <2> QED
    BY <1>0, <2>1, <2>2 DEF ClkInvAt, Clocked
<1>15. ASSUME CoreRateFail PROVE ClkInvAt(x)'
  BY <1>0, <1>00, <1>15 DEF ClkInvAt, Clocked, CoreRateFail
<1>16. ASSUME CoreUnwind PROVE ClkInvAt(x)'
  BY <1>0, <1>00, <1>16 DEF ClkInvAt, Clocked, CoreUnwind, rocket_core_fini
<1>17. ASSUME CoreUnwindJob PROVE ClkInvAt(x)'
  BY <1>0, <1>00, <1>17 DEF ClkInvAt, Clocked, CoreUnwindJob, rocket_job_fini,
         claimed
<1>18. ASSUME ProbeUndo PROVE ClkInvAt(x)'
  <2>1. /\ pc \in {"undo", "undo_clk"} /\ pc' = "idle" /\ dev' = NULL /\ bound' = bound
        /\ clk' = [clk EXCEPT ![dev] = @ - (IF pc = "undo" THEN 0 ELSE 1)]
        /\ active' = [active EXCEPT ![dev] = @ /\ pm_enabled[dev]]
    BY <1>18 DEF ProbeUndo, device_unbind_cleanup
  <2>2. Bound(x)' <=> Bound(x)
    BY <1>00, <2>1
  <2>3. CASE x = dev
    <3>1. clk'[x] = clk[x] - (IF pc = "undo" THEN 0 ELSE 1) /\ (active'[x] => active[x]) /\ ~Clocked(x)'
      BY <1>0, <2>1, <2>2, <2>3 DEF Clocked
    <3>2. clk[x] >= (IF pc = "undo" THEN 0 ELSE 1) + (IF active[x] THEN 1 ELSE 0)
      BY <1>0, <2>1, <2>3 DEF ClkInvAt, Clocked
    <3> QED
      BY <1>0, <3>1, <3>2 DEF ClkInvAt
  <2>4. CASE x # dev
    <3>1. clk'[x] = clk[x] /\ active'[x] = active[x] /\ (Clocked(x)' => Clocked(x))
      BY <1>0, <2>1, <2>2, <2>4 DEF Clocked
    <3> QED
      BY <1>0, <3>1 DEF ClkInvAt
  <2> QED
    BY <2>3, <2>4
<1>19. ASSUME NEW d \in Devices, RemoveStart(d) PROVE ClkInvAt(x)'
  <2>1. active' = active /\ clk' = clk /\ pc' = "remove" /\ dev' = d
    BY <1>19 DEF RemoveStart
  <2>2. Bound(x)' => Bound(x)
    <3>1. /\ bound' \in Seq(Devices)
          /\ \A m \in 1 .. Len(bound') : \E n \in 1 .. Len(bound) : bound'[m] = bound[n]
      BY <1>19, Unbinding
    <3> QED
      BY <3>1, BoundAt DEF Bound
  <2>3. Bound(d)
    BY <1>19, Unbinding
  <2> QED
    BY <1>0, <2>1, <2>2, <2>3 DEF ClkInvAt, Clocked
<1>20. ASSUME RemoveUnknown PROVE ClkInvAt(x)'
  <2>1. /\ pc = "remove" /\ pc' = "idle" /\ dev' = NULL /\ bound' = bound
        /\ clk' = [clk EXCEPT ![dev] = @ - 1]
        /\ active' = [active EXCEPT ![dev] = @ /\ pm_enabled[dev]]
    BY <1>20 DEF RemoveUnknown, device_unbind_cleanup
  <2>2. Bound(x)' <=> Bound(x)
    BY <1>00, <2>1
  <2>3. CASE x = dev
    <3>1. clk'[x] = clk[x] - 1 /\ (active'[x] => active[x]) /\ ~Clocked(x)'
      BY <1>0, <2>1, <2>2, <2>3 DEF Clocked
    <3>2. clk[x] >= 1 + (IF active[x] THEN 1 ELSE 0)
      BY <1>0, <2>1, <2>3 DEF ClkInvAt, Clocked
    <3> QED
      BY <1>0, <3>1, <3>2 DEF ClkInvAt
  <2>4. CASE x # dev
    <3>1. clk'[x] = clk[x] /\ active'[x] = active[x] /\ (Clocked(x)' => Clocked(x))
      BY <1>0, <2>1, <2>2, <2>4 DEF Clocked
    <3> QED
      BY <1>0, <3>1 DEF ClkInvAt
  <2> QED
    BY <2>3, <2>4
<1>21. ASSUME RemoveFini PROVE ClkInvAt(x)'
  BY <1>0, <1>00, <1>21 DEF ClkInvAt, Clocked, RemoveFini, rocket_core_fini
<1>22. ASSUME RemoveJobFini PROVE ClkInvAt(x)'
  BY <1>0, <1>00, <1>22 DEF ClkInvAt, Clocked, RemoveJobFini, rocket_job_fini
<1>23. ASSUME RemoveDrop PROVE ClkInvAt(x)'
  <2>1. /\ pc = "drop" /\ pc' = "idle" /\ dev' = NULL /\ bound' = bound
        /\ clk' = [clk EXCEPT ![dev] = @ - 1]
        /\ active' = [active EXCEPT ![dev] = @ /\ pm_enabled[dev]]
    BY <1>23 DEF RemoveDrop, device_unbind_cleanup
  <2>2. Bound(x)' <=> Bound(x)
    BY <1>00, <2>1
  <2>3. CASE x = dev
    <3>1. clk'[x] = clk[x] - 1 /\ (active'[x] => active[x]) /\ ~Clocked(x)'
      BY <1>0, <2>1, <2>2, <2>3 DEF Clocked
    <3>2. clk[x] >= 1 + (IF active[x] THEN 1 ELSE 0)
      BY <1>0, <2>1, <2>3 DEF ClkInvAt, Clocked
    <3> QED
      BY <1>0, <3>1, <3>2 DEF ClkInvAt
  <2>4. CASE x # dev
    <3>1. clk'[x] = clk[x] /\ active'[x] = active[x] /\ (Clocked(x)' => Clocked(x))
      BY <1>0, <2>1, <2>2, <2>4 DEF Clocked
    <3> QED
      BY <1>0, <3>1 DEF ClkInvAt
  <2> QED
    BY <2>3, <2>4
<1>24. ASSUME NEW f \in Files, NEW k \in Slots, JobStart(f, k)
      PROVE  ClkInvAt(x)'
  <2>1. bound' = bound /\ pc' = pc /\ dev' = dev
    BY <1>24 DEF JobStart
  <2>2. Clocked(x)' <=> Clocked(x)
    BY <1>00, <2>1 DEF Clocked
  <2>3. CASE pm_refcount > 0
    BY <1>0, <1>24, <2>2, <2>3 DEF JobStart, ClkInvAt
  <2>4. CASE ~(pm_refcount > 0)
    BY <1>0, <1>24, <2>2, <2>4 DEF JobStart, rocket_device_runtime_resume, ClkInvAt
  <2> QED
    BY <2>3, <2>4
<1>25. ASSUME NEW d \in Devices, RuntimeSuspend(d) PROVE ClkInvAt(x)'
  <2>1. bound' = bound /\ pc' = pc /\ dev' = dev
    BY <1>25 DEF RuntimeSuspend
  <2>2. Clocked(x)' <=> Clocked(x)
    BY <1>00, <2>1 DEF Clocked
  <2> QED
    BY <1>0, <1>25, <2>2 DEF RuntimeSuspend, ClkInvAt
<1>26. CASE UNCHANGED <<pc, bound, dev, clk, active>>
  BY <1>0, <1>26 DEF ClkInvAt, Clocked, Bound
<1>27. ASSUME Load \/ UnloadStart \/ UnloadEnd PROVE ClkInvAt(x)'
  BY <1>26, <1>27 DEF Load, UnloadStart, UnloadEnd
<1>28. ASSUME NEW f \in Files, Open(f) \/ CloseFile(f) PROVE ClkInvAt(x)'
  BY <1>26, <1>28 DEF Open, CloseFile
<1>29. ASSUME NEW k \in Slots, JobEnd(k) PROVE ClkInvAt(x)'
  BY <1>26, <1>29 DEF JobEnd
<1>30. CASE UNCHANGED vars
  BY <1>26, <1>30 DEF vars
<1> QED
  BY <1>1, <1>2, <1>3, <1>4, <1>5, <1>6, <1>7, <1>8, <1>9, <1>10, <1>11,
     <1>12, <1>13, <1>14, <1>15, <1>16, <1>17, <1>18, <1>19, <1>20, <1>21,
     <1>22, <1>23, <1>24, <1>25, <1>26, <1>27, <1>28, <1>29, <1>30
     DEF Next, Probe, CoreInit, Remove, Use

-----------------------------------------------------------------------------
(* Files, jobs and the never-gate reference.                                *)

\* Once a core has come or gone in use, or out of order, that stays so.
LEMMA QuietBack ==
  ASSUME IndInv, [Next]_vars, quiet', ordered' PROVE quiet /\ ordered
<1> USE DEF moduleVars, slotVars, unitVars, pmVars, history, driverVars
<1>0. quiet \in BOOLEAN /\ ordered \in BOOLEAN
  BY Types
<1>1. ASSUME NEW d \in Devices, ProbeStart(d) PROVE quiet /\ ordered
  BY <1>0, <1>1 DEF ProbeStart
<1>2. ASSUME NEW d \in Devices, RemoveStart(d) PROVE quiet /\ ordered
  BY <1>0, <1>2 DEF RemoveStart
<1>3. ASSUME NEW f \in Files, Open(f) PROVE quiet /\ ordered
  BY <1>0, <1>3 DEF Open
<1>4. CASE UNCHANGED <<quiet, ordered>>
  BY <1>0, <1>4
<1>5. ASSUME \/ Load \/ DeviceInit \/ DeviceInitFail
             \/ DeviceKnown \/ CoreClaim \/ CoreClaimBeyond
      PROVE  quiet /\ ordered
  BY <1>4, <1>5 DEF Load, DeviceInit, DeviceInitFail, DeviceKnown, CoreClaim,
     CoreClaimBeyond
<1>6. ASSUME \/ CoreResources \/ CoreResourcesFail \/ CoreJobInit
             \/ CoreJobInitFail \/ CorePmEnable \/ CoreResume
      PROVE  quiet /\ ordered
  BY <1>4, <1>6 DEF CoreResources, CoreResourcesFail, CoreJobInit, claimed,
     CoreJobInitFail, CorePmEnable, CoreResume, rocket_device_runtime_resume
<1>7. ASSUME \/ CoreResumeFail \/ CoreReady \/ CoreRateFail
             \/ CoreUnwind \/ CoreUnwindJob \/ ProbeUndo
      PROVE  quiet /\ ordered
  BY <1>4, <1>7 DEF CoreResumeFail, CoreReady, CoreRateFail, CoreUnwind,
     rocket_core_fini, CoreUnwindJob, rocket_job_fini, claimed, ProbeUndo,
     drop_core, device_unbind_cleanup
<1>8. ASSUME \/ UnloadStart \/ RemoveUnknown \/ RemoveFini
             \/ RemoveJobFini \/ RemoveDrop \/ UnloadEnd
      PROVE  quiet /\ ordered
  BY <1>4, <1>8 DEF UnloadStart, RemoveUnknown, device_unbind_cleanup,
     RemoveFini, rocket_core_fini, RemoveJobFini, rocket_job_fini, RemoveDrop,
     drop_core, UnloadEnd
<1>9. ASSUME NEW f \in Files, CloseFile(f) PROVE quiet /\ ordered
  BY <1>4, <1>9 DEF CloseFile
<1>10. ASSUME NEW f \in Files, NEW k \in Slots,
             JobStart(f, k)
      PROVE  quiet /\ ordered
  BY <1>4, <1>10 DEF JobStart, rocket_device_runtime_resume
<1>11. ASSUME NEW k \in Slots, JobEnd(k) PROVE quiet /\ ordered
  BY <1>4, <1>11 DEF JobEnd
<1>12. ASSUME NEW d \in Devices, RuntimeSuspend(d) PROVE quiet /\ ordered
  BY <1>4, <1>12 DEF RuntimeSuspend
<1>13. CASE UNCHANGED vars
  BY <1>4, <1>13 DEF vars
<1> QED
  BY <1>1, <1>2, <1>3, <1>4, <1>5, <1>6, <1>7, <1>8, <1>9, <1>10, <1>11,
     <1>12, <1>13
     DEF Next, Probe, CoreInit, Remove, Use

\* A file is open only while no core comes or goes.
LEMMA IdleStep ==
  ASSUME IndInv, [Next]_vars, quiet', ordered' PROVE IdleWhenOpen'
<1> USE DEF moduleVars, slotVars, unitVars, pmVars, history, driverVars
<1>0. /\ IdleWhenOpen /\ DriverInv /\ pc \in Pcs
      /\ entity \in [Files -> (SUBSET Slots) \cup {NULL}] /\ in_flight \in [Slots -> BOOLEAN]
  BY Types, QuietBack DEF IndInv, QuietInv
<1>1. ASSUME Load PROVE IdleWhenOpen'
  BY <1>0, <1>1 DEF IdleWhenOpen, OpenFiles, Flying, DriverInv, Load
<1>2. ASSUME NEW d \in Devices, ProbeStart(d) PROVE IdleWhenOpen'
  BY <1>0, <1>2 DEF IdleWhenOpen, OpenFiles, Flying, Unused, ProbeStart
<1>3. ASSUME DeviceInit PROVE IdleWhenOpen'
  BY <1>0, <1>3 DEF IdleWhenOpen, OpenFiles, Flying, DeviceInit
<1>4. ASSUME DeviceInitFail PROVE IdleWhenOpen'
  BY <1>0, <1>4 DEF IdleWhenOpen, OpenFiles, Flying, DeviceInitFail
<1>5. ASSUME DeviceKnown PROVE IdleWhenOpen'
  BY <1>0, <1>5 DEF IdleWhenOpen, OpenFiles, Flying, DeviceKnown
<1>6. ASSUME CoreClaim PROVE IdleWhenOpen'
  BY <1>0, <1>6 DEF IdleWhenOpen, OpenFiles, Flying, CoreClaim
<1>7. ASSUME CoreClaimBeyond PROVE IdleWhenOpen'
  BY <1>0, <1>7 DEF IdleWhenOpen, OpenFiles, Flying, CoreClaimBeyond
<1>8. ASSUME CoreResources PROVE IdleWhenOpen'
  BY <1>0, <1>8 DEF IdleWhenOpen, OpenFiles, Flying, CoreResources
<1>9. ASSUME CoreResourcesFail PROVE IdleWhenOpen'
  BY <1>0, <1>9 DEF IdleWhenOpen, OpenFiles, Flying, CoreResourcesFail
<1>10. ASSUME CoreJobInit PROVE IdleWhenOpen'
  BY <1>0, <1>10 DEF IdleWhenOpen, OpenFiles, Flying, CoreJobInit, claimed
<1>11. ASSUME CoreJobInitFail PROVE IdleWhenOpen'
  BY <1>0, <1>11 DEF IdleWhenOpen, OpenFiles, Flying, CoreJobInitFail
<1>12. ASSUME CorePmEnable PROVE IdleWhenOpen'
  BY <1>0, <1>12 DEF IdleWhenOpen, OpenFiles, Flying, CorePmEnable
<1>13. ASSUME CoreResume PROVE IdleWhenOpen'
  BY <1>0, <1>13 DEF IdleWhenOpen, OpenFiles, Flying, CoreResume,
         rocket_device_runtime_resume
<1>14. ASSUME CoreResumeFail PROVE IdleWhenOpen'
  BY <1>0, <1>14 DEF IdleWhenOpen, OpenFiles, Flying, CoreResumeFail
<1>15. ASSUME CoreReady PROVE IdleWhenOpen'
  BY <1>0, <1>15 DEF IdleWhenOpen, OpenFiles, Flying, CoreReady
<1>16. ASSUME CoreRateFail PROVE IdleWhenOpen'
  BY <1>0, <1>16 DEF IdleWhenOpen, OpenFiles, Flying, CoreRateFail
<1>17. ASSUME CoreUnwind PROVE IdleWhenOpen'
  BY <1>0, <1>17 DEF IdleWhenOpen, OpenFiles, Flying, CoreUnwind,
         rocket_core_fini
<1>18. ASSUME CoreUnwindJob PROVE IdleWhenOpen'
  BY <1>0, <1>18 DEF IdleWhenOpen, OpenFiles, Flying, CoreUnwindJob,
         rocket_job_fini, claimed
<1>19. ASSUME ProbeUndo PROVE IdleWhenOpen'
  BY <1>0, <1>19 DEF IdleWhenOpen, OpenFiles, Flying, ProbeUndo, drop_core,
         device_unbind_cleanup
<1>20. ASSUME NEW d \in Devices, RemoveStart(d) PROVE IdleWhenOpen'
  <2>1. pc' = "remove" /\ module' = module /\ entity' = entity /\ in_flight' = in_flight
    BY <1>20 DEF RemoveStart
  <2>2. CASE module = "loaded"
    <3>1. Unused
      BY <1>20, <2>2 DEF RemoveStart
    <3> QED
      BY <2>1, <3>1 DEF IdleWhenOpen, OpenFiles, Flying, Unused
  <2>3. CASE module # "loaded"
    BY <1>0, <2>1, <2>3 DEF IdleWhenOpen, DriverInv, OpenFiles
  <2> QED
    BY <2>2, <2>3
<1>21. ASSUME RemoveUnknown PROVE IdleWhenOpen'
  BY <1>0, <1>21 DEF IdleWhenOpen, OpenFiles, Flying, RemoveUnknown,
         device_unbind_cleanup
<1>22. ASSUME RemoveFini PROVE IdleWhenOpen'
  BY <1>0, <1>22 DEF IdleWhenOpen, OpenFiles, Flying, RemoveFini,
         rocket_core_fini
<1>23. ASSUME RemoveJobFini PROVE IdleWhenOpen'
  BY <1>0, <1>23 DEF IdleWhenOpen, OpenFiles, Flying, RemoveJobFini,
         rocket_job_fini
<1>24. ASSUME RemoveDrop PROVE IdleWhenOpen'
  BY <1>0, <1>24 DEF IdleWhenOpen, OpenFiles, Flying, RemoveDrop, drop_core,
         device_unbind_cleanup
<1>25. ASSUME UnloadStart PROVE IdleWhenOpen'
  BY <1>0, <1>25 DEF IdleWhenOpen, OpenFiles, Flying, UnloadStart
<1>26. ASSUME UnloadEnd PROVE IdleWhenOpen'
  BY <1>0, <1>26 DEF IdleWhenOpen, OpenFiles, Flying, UnloadEnd
<1>27. ASSUME NEW f \in Files, Open(f) PROVE IdleWhenOpen'
  <2>1. pc = "idle" /\ pc' = pc
    BY <1>27 DEF Open
  <2> QED
    BY <2>1 DEF IdleWhenOpen
<1>28. ASSUME NEW f \in Files, CloseFile(f) PROVE IdleWhenOpen'
  BY <1>0, <1>28 DEF IdleWhenOpen, OpenFiles, Flying, CloseFile
<1>29. ASSUME NEW f \in Files, NEW k \in Slots, JobStart(f, k)
      PROVE  IdleWhenOpen'
  <2>1. OpenFiles # {} /\ pc' = pc
    BY <1>29 DEF JobStart, OpenFiles
  <2>2. pc = "idle"
    BY <1>0, <2>1 DEF IdleWhenOpen
  <2> QED
    BY <2>1, <2>2 DEF IdleWhenOpen
<1>30. ASSUME NEW k \in Slots, JobEnd(k) PROVE IdleWhenOpen'
  BY <1>0, <1>30 DEF IdleWhenOpen, OpenFiles, Flying, JobEnd
<1>31. CASE UNCHANGED <<pc, entity, module, in_flight>>
  BY <1>0, <1>31 DEF IdleWhenOpen, OpenFiles, Flying
<1>32. ASSUME NEW d \in Devices, RuntimeSuspend(d) PROVE IdleWhenOpen'
  BY <1>31, <1>32 DEF RuntimeSuspend
<1>33. CASE UNCHANGED vars
  BY <1>31, <1>33 DEF vars
<1> QED
  BY <1>1, <1>2, <1>3, <1>4, <1>5, <1>6, <1>7, <1>8, <1>9, <1>10, <1>11,
     <1>12, <1>13, <1>14, <1>15, <1>16, <1>17, <1>18, <1>19, <1>20, <1>21,
     <1>22, <1>23, <1>24, <1>25, <1>26, <1>27, <1>28, <1>29, <1>30, <1>31,
     <1>32, <1>33
     DEF Next, Probe, CoreInit, Remove, Use

\* The counted slots are those of the bound devices, while none is in hand.
LEMMA LiveIdle ==
  ASSUME IndInv, ordered, pc = "idle"
  PROVE  num_cores = Len(bound) /\ \A k \in Live : k + 1 \in 1 .. Len(bound) /\ (k + 1) - 1 = k
<1>1. num_cores = Len(bound) /\ Len(bound) \in Nat /\ Cardinality(Devices) \in Nat
  BY Types DEF IndInv, SlotInv, Counted, InHand
<1> QED
  BY <1>1 DEF Live, Slots

\* An open file has an entity for every core.
LEMMA FilesStep ==
  ASSUME IndInv, [Next]_vars, quiet', ordered' PROVE FilesReady'
<1> USE DEF moduleVars, slotVars, unitVars, pmVars, history, driverVars
<1>0. /\ IdleWhenOpen /\ FilesReady /\ CoresUp /\ ordered
      /\ entity \in [Files -> (SUBSET Slots) \cup {NULL}] /\ pc \in Pcs
      /\ DriverInv
  BY Types, QuietBack DEF IndInv, QuietInv
<1>00. ASSUME entity' = entity, OpenFiles = {} PROVE FilesReady'
  BY <1>00 DEF FilesReady, OpenFiles
<1>1. ASSUME DeviceInit PROVE FilesReady'
  <2>1. pc # "idle" /\ entity' = entity
    BY <1>1 DEF DeviceInit
  <2> QED
    BY <1>0, <1>00, <2>1 DEF IdleWhenOpen
<1>2. ASSUME CoreClaim PROVE FilesReady'
  <2>1. pc # "idle" /\ entity' = entity
    BY <1>2 DEF CoreClaim
  <2> QED
    BY <1>0, <1>00, <2>1 DEF IdleWhenOpen
<1>3. ASSUME ProbeUndo PROVE FilesReady'
  <2>1. pc # "idle" /\ entity' = entity
    BY <1>3 DEF ProbeUndo
  <2> QED
    BY <1>0, <1>00, <2>1 DEF IdleWhenOpen
<1>4. ASSUME RemoveDrop PROVE FilesReady'
  <2>1. pc # "idle" /\ entity' = entity
    BY <1>4 DEF RemoveDrop
  <2> QED
    BY <1>0, <1>00, <2>1 DEF IdleWhenOpen
<1>5. ASSUME NEW f \in Files, Open(f) PROVE FilesReady'
  <2>1. pc = "idle" /\ entity' = [entity EXCEPT ![f] = {k \in Live : sched[k]}]
        /\ Live' = Live
    BY <1>5 DEF Open, Live
  <2>2. \A k \in Live : sched[k]
    <3> SUFFICES ASSUME NEW k \in Live PROVE sched[k]
      OBVIOUS
    <3>1. k + 1 \in 1 .. Len(bound) /\ (k + 1) - 1 = k
      BY <1>0, <2>1, LiveIdle
    <3>2. CoreUp((k + 1) - 1)
      BY <1>0, <3>1 DEF CoresUp
    <3> QED
      BY <3>1, <3>2 DEF CoreUp
  <2>3. {k \in Live : sched[k]} = Live
    BY <2>2
  <2>4. entity' = [entity EXCEPT ![f] = Live]
    BY <2>1, <2>3
  <2> QED
    BY <1>0, <2>1, <2>4 DEF FilesReady, OpenFiles
<1>6. ASSUME NEW f \in Files, CloseFile(f) PROVE FilesReady'
  BY <1>0, <1>6 DEF FilesReady, OpenFiles, Live, CloseFile
<1>7. CASE UNCHANGED <<num_cores, entity>>
  BY <1>0, <1>7 DEF FilesReady, OpenFiles, Live
<1>8. ASSUME \/ Load \/ DeviceInitFail \/ DeviceKnown
             \/ CoreResources \/ CoreResourcesFail
      PROVE  FilesReady'
  BY <1>7, <1>8 DEF Load, DeviceInitFail, DeviceKnown, CoreResources, CoreResourcesFail
<1>8a. ASSUME CoreClaimBeyond PROVE FilesReady'
  <2>1. pc = "claim" /\ num_cores \notin Slots
    BY <1>8a DEF CoreClaimBeyond
  <2> QED
    BY <1>0, <2>1, ClaimFits
<1>9. ASSUME \/ CoreJobInit \/ CoreJobInitFail \/ CorePmEnable
             \/ CoreResume \/ CoreResumeFail \/ CoreReady
      PROVE  FilesReady'
  BY <1>7, <1>9 DEF CoreJobInit, claimed, CoreJobInitFail, CorePmEnable,
     CoreResume, rocket_device_runtime_resume, CoreResumeFail, CoreReady
<1>10. ASSUME \/ CoreRateFail \/ CoreUnwind \/ CoreUnwindJob
             \/ UnloadStart \/ RemoveUnknown \/ RemoveFini
      PROVE  FilesReady'
  BY <1>7, <1>10 DEF CoreRateFail, CoreUnwind, rocket_core_fini,
     CoreUnwindJob, rocket_job_fini, claimed, UnloadStart, RemoveUnknown,
     device_unbind_cleanup, RemoveFini
<1>11. ASSUME RemoveJobFini \/ UnloadEnd PROVE FilesReady'
  BY <1>7, <1>11 DEF RemoveJobFini, rocket_job_fini, UnloadEnd
<1>12. ASSUME NEW d \in Devices,
             ProbeStart(d) \/ RemoveStart(d) \/ RuntimeSuspend(d)
      PROVE  FilesReady'
  BY <1>7, <1>12 DEF ProbeStart, RemoveStart, RuntimeSuspend
<1>13. ASSUME NEW f \in Files, NEW k \in Slots,
             JobStart(f, k)
      PROVE  FilesReady'
  BY <1>7, <1>13 DEF JobStart, rocket_device_runtime_resume
<1>14. ASSUME NEW k \in Slots, JobEnd(k) PROVE FilesReady'
  BY <1>7, <1>14 DEF JobEnd
<1>15. CASE UNCHANGED vars
  BY <1>7, <1>15 DEF vars
<1> QED
  BY <1>1, <1>2, <1>3, <1>4, <1>5, <1>6, <1>7, <1>8, <1>8a, <1>9, <1>10, <1>11,
     <1>12, <1>13, <1>14, <1>15
     DEF Next, Probe, CoreInit, Remove, Use

\* Each bound core is up and has its own reference.
LEMMA CoresStep ==
  ASSUME IndInv, [Next]_vars, quiet', ordered' PROVE CoresUp'
<1> USE DEF moduleVars, slotVars, unitVars, pmVars, history, driverVars
<1> USE DEF UnitRef, CoreUp
<1>0. /\ IdleWhenOpen /\ CoresUp /\ ordered /\ pc \in Pcs /\ DriverInv
      /\ num_cores \in 0 .. Cardinality(Devices) /\ Len(bound) \in Nat
      /\ Cardinality(Devices) \in Nat \ {0} /\ pm_refcount \in Nat
      /\ Slots = 0 .. Cardinality(Devices) - 1
      /\ sched \in [Slots -> BOOLEAN] /\ iommu_group \in [Slots -> BOOLEAN]
      /\ usage \in [Devices -> Nat] /\ active \in [Devices -> BOOLEAN]
      /\ (\A m \in 1 .. Len(bound) : bound[m] \in Devices)
      /\ (pc # "idle" => dev \in Devices)
      /\ (bound = <<>> <=> Len(bound) = 0)
      /\ pm_enabled \in [Devices -> BOOLEAN]
  <2>1. bound \in Seq(Devices)
    BY Types
  <2> QED
    BY <2>1, Types, QuietBack DEF IndInv, QuietInv, SlotInv, Slots
<1>hand. InHand => /\ num_cores - 1 \in Slots /\ num_cores = Len(bound) + 1
                /\ core_dev[num_cores - 1] = dev /\ find_core_for_dev(dev) = {num_cores - 1}
  BY <1>0, FoundLast
<1>slot. \A m \in 1 .. Len(bound) : m - 1 \in Slots /\ m - 1 # Len(bound)
  <2>1. num_cores >= Len(bound)
    BY <1>0 DEF IndInv, RdevInv, Counted
  <2> QED
    BY <1>0, <2>1
<1>other. \A m \in 1 .. Len(bound) : bound[m] # dev
  BY <1>0 DEF DriverInv
<1>1. ASSUME NEW d \in Devices, ProbeStart(d) PROVE CoresUp'
  BY <1>0, <1>hand, <1>slot, <1>other, <1>1 DEF CoresUp, InHand, ProbeStart
<1>2. ASSUME DeviceInit PROVE CoresUp'
  <2>1. Len(bound) = 0
    BY <1>0, <1>2 DEF DeviceInit, IndInv, RdevInv
  <2> QED
    BY <1>2, <2>1 DEF CoresUp, DeviceInit
<1>3. ASSUME DeviceInitFail PROVE CoresUp'
  BY <1>0, <1>hand, <1>slot, <1>other, <1>3 DEF CoresUp, InHand,
         DeviceInitFail
<1>4. ASSUME DeviceKnown PROVE CoresUp'
  BY <1>0, <1>hand, <1>slot, <1>other, <1>4 DEF CoresUp, InHand, DeviceKnown
<1>5. ASSUME CoreClaim PROVE CoresUp'
  BY <1>0, <1>hand, <1>slot, <1>other, <1>5 DEF CoresUp, InHand, CoreClaim
<1>6. ASSUME CoreClaimBeyond PROVE CoresUp'
  BY <1>0, <1>hand, <1>slot, <1>other, <1>6 DEF CoresUp, InHand,
         CoreClaimBeyond
<1>7. ASSUME CoreResources PROVE CoresUp'
  BY <1>0, <1>hand, <1>slot, <1>other, <1>7 DEF CoresUp, InHand, CoreResources
<1>8. ASSUME CoreResourcesFail PROVE CoresUp'
  BY <1>0, <1>hand, <1>slot, <1>other, <1>8 DEF CoresUp, InHand,
         CoreResourcesFail
<1>9. ASSUME CoreJobInit PROVE CoresUp'
  BY <1>0, <1>hand, <1>slot, <1>other, <1>9 DEF CoresUp, InHand, CoreJobInit,
         claimed
<1>10. ASSUME CoreJobInitFail PROVE CoresUp'
  BY <1>0, <1>hand, <1>slot, <1>other, <1>10 DEF CoresUp, InHand,
         CoreJobInitFail
<1>11. ASSUME CorePmEnable PROVE CoresUp'
  BY <1>0, <1>hand, <1>slot, <1>other, <1>11 DEF CoresUp, InHand, CorePmEnable
<1>12. ASSUME CoreResume PROVE CoresUp'
  BY <1>0, <1>hand, <1>slot, <1>other, <1>12 DEF CoresUp, InHand, CoreResume,
         rocket_device_runtime_resume
<1>13. ASSUME CoreResumeFail PROVE CoresUp'
  BY <1>0, <1>hand, <1>slot, <1>other, <1>13 DEF CoresUp, InHand,
         CoreResumeFail
<1>14. ASSUME CoreReady PROVE CoresUp'
  <2>1. /\ pc = "rate" /\ pc' = "idle" /\ sched' = sched /\ iommu_group' = iommu_group
        /\ usage' = usage /\ active' = active /\ pm_refcount' = pm_refcount
    BY <1>14 DEF CoreReady
  <2>2. /\ Len(bound') = Len(bound) + 1 /\ bound'[Len(bound) + 1] = dev
        /\ \A m \in 1 .. Len(bound) : bound'[m] = bound[m]
    BY <1>14, Binding
  <2>3. pm_refcount = 0
    <3>1. module = "loaded" /\ Flying = {}
      BY <1>0, <2>1 DEF DriverInv, IdleWhenOpen, Pcs
    <3> QED
      BY <3>1, FS_EmptySet DEF IndInv, UnitInv
  <2>4. num_cores - 1 = Len(bound) /\ CoreUp(Len(bound)) /\ usage[dev] > 0 /\ active[dev]
    <3>1. num_cores - 1 = Len(bound)
      BY <1>0, <1>hand, <2>1 DEF InHand
    <3> QED
      BY <1>0, <2>1, <3>1 DEF CoresUp
  <2>5. ASSUME NEW m \in 1 .. Len(bound')
        PROVE  (CoreUp(m - 1) /\ active[bound[m]] /\ usage[bound[m]] > UnitRef)'
    <3>1. CASE m = Len(bound) + 1
      <4>1. bound'[m] = dev /\ m - 1 = Len(bound)
        BY <1>0, <2>2, <3>1
      <4> QED
        BY <2>1, <2>3, <2>4, <4>1
    <3>2. CASE m # Len(bound) + 1
      <4>1. m \in 1 .. Len(bound) /\ bound'[m] = bound[m]
        BY <1>0, <2>2, <3>2
      <4> QED
        BY <1>0, <2>1, <4>1 DEF CoresUp
    <3> QED
      BY <3>1, <3>2
  <2> QED
    BY <2>1, <2>5 DEF CoresUp
<1>15. ASSUME CoreRateFail PROVE CoresUp'
  BY <1>0, <1>hand, <1>slot, <1>other, <1>15 DEF CoresUp, InHand, CoreRateFail
<1>16. ASSUME CoreUnwind PROVE CoresUp'
  <2>1. /\ pc = "unwind" /\ pc' = "unwind_job" /\ UNCHANGED <<dev, bound, sched, pm_refcount, active>>
        /\ usage' = [usage EXCEPT ![dev] = put_noidle(@)]
        /\ iommu_group' = [iommu_group EXCEPT ![num_cores - 1] = FALSE]
    <3>1. InHand
      BY <1>16 DEF CoreUnwind, InHand
    <3> QED
      BY <1>0, <1>hand, <1>16, <3>1 DEF CoreUnwind, rocket_core_fini, claimed
  <2>2. num_cores - 1 = Len(bound)
    BY <1>0, <1>hand, <2>1 DEF InHand
  <2> QED
    BY <1>0, <1>slot, <1>other, <2>1, <2>2 DEF CoresUp
<1>17. ASSUME CoreUnwindJob PROVE CoresUp'
  <2>1. /\ pc = "unwind_job" /\ pc' = "undo_clk"
        /\ UNCHANGED <<dev, bound, iommu_group, pm_refcount, active, usage>>
        /\ sched' = [sched EXCEPT ![num_cores - 1] = FALSE]
    <3>1. InHand
      BY <1>17 DEF CoreUnwindJob, InHand
    <3> QED
      BY <1>0, <1>hand, <1>17, <3>1 DEF CoreUnwindJob, rocket_job_fini, claimed
  <2>2. num_cores - 1 = Len(bound)
    BY <1>0, <1>hand, <2>1 DEF InHand
  <2> QED
    BY <1>0, <1>slot, <2>1, <2>2 DEF CoresUp
<1>18. ASSUME ProbeUndo PROVE CoresUp'
  BY <1>0, <1>other, <1>18 DEF CoresUp, ProbeUndo, drop_core,
         device_unbind_cleanup
<1>19. ASSUME NEW d \in Devices, RemoveStart(d) PROVE CoresUp'
  <2>1. /\ pc' = "remove" /\ sched' = sched /\ iommu_group' = iommu_group
        /\ usage' = usage /\ active' = active /\ pm_refcount' = pm_refcount
    BY <1>19 DEF RemoveStart
  <2>2. /\ Len(bound') = Len(bound) - 1 /\ Len(bound') \in Nat
        /\ \A m \in 1 .. Len(bound') : bound'[m] = bound[m]
    BY <1>19, Unbinding
  <2>3. \A m \in 1 .. Len(bound') : m \in 1 .. Len(bound)
    BY <1>0, <2>2
  <2> QED
    BY <1>0, <2>1, <2>2, <2>3 DEF CoresUp
<1>20. ASSUME RemoveUnknown PROVE CoresUp'
  <2>1. InHand /\ find_core_for_dev(dev) = {}
    BY <1>20 DEF RemoveUnknown, InHand
  <2> QED
    BY <1>hand, <2>1
<1>21. ASSUME RemoveFini PROVE CoresUp'
  <2>1. /\ pc = "remove" /\ pc' = "job_fini" /\ UNCHANGED <<dev, bound, sched, pm_refcount, active>>
        /\ usage' = [usage EXCEPT ![dev] = put_noidle(@)]
        /\ iommu_group' = [iommu_group EXCEPT ![num_cores - 1] = FALSE]
    <3>1. InHand
      BY <1>21 DEF RemoveFini, InHand
    <3> QED
      BY <1>0, <1>hand, <1>21, <3>1 DEF RemoveFini, rocket_core_fini, claimed
  <2>2. num_cores - 1 = Len(bound)
    BY <1>0, <1>hand, <2>1 DEF InHand
  <2> QED
    BY <1>0, <1>slot, <1>other, <2>1, <2>2 DEF CoresUp
<1>22. ASSUME RemoveJobFini PROVE CoresUp'
  <2>1. /\ pc = "job_fini" /\ pc' = "drop"
        /\ UNCHANGED <<dev, bound, iommu_group, pm_refcount, active, usage>>
        /\ sched' = [sched EXCEPT ![num_cores - 1] = FALSE]
    <3>1. InHand
      BY <1>22 DEF RemoveJobFini, InHand
    <3> QED
      BY <1>0, <1>hand, <1>22, <3>1 DEF RemoveJobFini, rocket_job_fini, claimed
  <2>2. num_cores - 1 = Len(bound)
    BY <1>0, <1>hand, <2>1 DEF InHand
  <2> QED
    BY <1>0, <1>slot, <2>1, <2>2 DEF CoresUp
<1>23. ASSUME RemoveDrop PROVE CoresUp'
  BY <1>0, <1>other, <1>23 DEF CoresUp, RemoveDrop, drop_core,
         device_unbind_cleanup
<1>24. ASSUME NEW f \in Files, NEW k \in Slots, JobStart(f, k) PROVE CoresUp'
  <2>1. /\ UNCHANGED <<pc, dev, bound, sched, iommu_group, num_cores>>
        /\ pm_refcount' = pm_refcount + 1 /\ OpenFiles # {}
    BY <1>24 DEF JobStart, OpenFiles
  <2>2. pc = "idle"
    BY <1>0, <2>1 DEF IdleWhenOpen
  <2>3. CASE pm_refcount > 0
    BY <1>0, <1>24, <2>1, <2>2, <2>3 DEF CoresUp, JobStart
  <2>4. CASE ~(pm_refcount > 0)
    <3>1. \A m \in 1 .. Len(bound) : bound[m] \in UnitDevices
      <4> SUFFICES ASSUME NEW m \in 1 .. Len(bound) PROVE bound[m] \in UnitDevices
        OBVIOUS
      <4>1. num_cores = Len(bound) /\ core_dev[m - 1] = bound[m]
        BY <1>0, <2>2 DEF IndInv, SlotInv, Counted, InHand
      <4>2. m - 1 \in Live
        BY <1>0, <1>slot, <4>1 DEF Live
      <4> QED
        BY <4>1, <4>2 DEF UnitDevices
    <3>2. \A d \in Devices : /\ d \in UnitDevices => usage'[d] = usage[d] + 1
                             /\ active[d] => active'[d]
      BY <1>24, <2>4 DEF JobStart, rocket_device_runtime_resume
    <3> QED
      BY <1>0, <2>1, <2>2, <2>4, <3>1, <3>2 DEF CoresUp
  <2> QED
    BY <2>3, <2>4
<1>25. ASSUME NEW k \in Slots, JobEnd(k) PROVE CoresUp'
  <2>1. /\ UNCHANGED <<pc, dev, bound, sched, iommu_group, num_cores, active>>
        /\ pm_refcount' = pm_refcount - 1 /\ in_flight[k]
    BY <1>25 DEF JobEnd
  <2>2. pm_refcount > 0
    BY <2>1, UnitHeld
  <2>3. pc # "rate"
    <3>1. Flying # {}
      BY <2>1 DEF Flying
    <3> QED
      BY <1>0, <3>1 DEF DriverInv, IdleWhenOpen, Pcs
  <2>4. \A d \in Devices : /\ pm_refcount # 1 => usage'[d] = usage[d]
                           /\ pm_refcount = 1 => usage'[d] \in {usage[d], usage[d] - 1, 0}
                           /\ usage[d] > 0 => usage'[d] >= usage[d] - 1
    BY <1>0, <1>25 DEF JobEnd, put_noidle
  <2>5. ASSUME NEW m \in 1 .. Len(bound)
        PROVE  /\ (usage[bound[m]] > UnitRef)'
    <3>1. usage[bound[m]] > 1 /\ usage[bound[m]] \in Nat /\ bound[m] \in Devices
      BY <1>0, <2>2 DEF CoresUp
    <3>2. usage'[bound[m]] >= usage[bound[m]] - 1
          /\ (pm_refcount # 1 => usage'[bound[m]] = usage[bound[m]])
      BY <2>4, <3>1
    <3>3. usage'[bound[m]] \in Nat
      BY <2>4, <3>1
    <3> QED
      BY <1>0, <2>1, <2>2, <3>1, <3>2, <3>3
  <2> QED
    BY <1>0, <2>1, <2>3, <2>5 DEF CoresUp
<1>26. ASSUME NEW d \in Devices, RuntimeSuspend(d) PROVE CoresUp'
  BY <1>0, <1>26 DEF CoresUp, RuntimeSuspend
<1>27. CASE UNCHANGED <<pc, dev, bound, sched, iommu_group, num_cores, active,
       usage, pm_refcount>>
  BY <1>0, <1>27 DEF CoresUp
<1>28. ASSUME Load \/ UnloadStart \/ UnloadEnd PROVE CoresUp'
  BY <1>27, <1>28 DEF Load, UnloadStart, UnloadEnd
<1>29. ASSUME NEW f \in Files, Open(f) \/ CloseFile(f) PROVE CoresUp'
  BY <1>27, <1>29 DEF Open, CloseFile
<1>30. CASE UNCHANGED vars
  BY <1>27, <1>30 DEF vars
<1> QED
  BY <1>1, <1>2, <1>3, <1>4, <1>5, <1>6, <1>7, <1>8, <1>9, <1>10, <1>11,
     <1>12, <1>13, <1>14, <1>15, <1>16, <1>17, <1>18, <1>19, <1>20, <1>21,
     <1>22, <1>23, <1>24, <1>25, <1>26, <1>27, <1>28, <1>29, <1>30
     DEF Next, Probe, CoreInit, Remove, Use

-----------------------------------------------------------------------------
(* The types.                                                               *)

DriverTypes ==
    /\ module \in {"unloaded", "loaded", "unloading"}
    /\ rdev \in {"NULL", "ERR", "live"} /\ registered \in BOOLEAN
    /\ num_cores \in 0 .. Cardinality(Devices) + (IF pc = "overrun" THEN 1 ELSE 0)
    /\ pc \in Pcs /\ dev \in Devices \cup {NULL} /\ bound \in Seq(Devices)
    /\ probes \in 0 .. MaxProbes /\ quiet \in BOOLEAN /\ ordered \in BOOLEAN

SlotTypes ==
    /\ core_dev \in [Slots -> Devices \cup {NULL}]
    /\ sched \in [Slots -> BOOLEAN] /\ iommu_group \in [Slots -> BOOLEAN]
    /\ in_flight \in [Slots -> BOOLEAN]
    /\ entity \in [Files -> (SUBSET Slots) \cup {NULL}]

PmTypes ==
    /\ pm_refcount \in Nat /\ usage \in [Devices -> Nat] /\ clk \in [Devices -> Nat]
    /\ pm_enabled \in [Devices -> BOOLEAN] /\ active \in [Devices -> BOOLEAN]

\* The variables of the driver core and of the module keep their types.
LEMMA DriverTypesStep ==
  ASSUME IndInv, [Next]_vars PROVE DriverTypes'
<1> USE DEF moduleVars, slotVars, unitVars, pmVars, history, driverVars
<1>0. DriverTypes /\ Cardinality(Devices) \in Nat \ {0} /\ MaxProbes \in Nat
      /\ (InHand => num_cores >= 1)
  <2>1. DriverTypes /\ Len(bound) \in Nat
    BY Types DEF DriverTypes, IndInv, TypeOK
  <2>2. InHand => num_cores >= 1
    BY <2>1, Types DEF IndInv, RdevInv, Counted
  <2> QED
    BY <2>1, <2>2, Types, ProbeAssumption
<1>1. ASSUME Load PROVE DriverTypes'
  BY <1>0, <1>1 DEF DriverTypes, Pcs, Load
<1>2. ASSUME NEW d \in Devices, ProbeStart(d) PROVE DriverTypes'
  BY <1>0, <1>2 DEF DriverTypes, Pcs, ProbeStart
<1>3. ASSUME DeviceInit PROVE DriverTypes'
  BY <1>0, <1>3 DEF DriverTypes, Pcs, DeviceInit
<1>4. ASSUME DeviceInitFail PROVE DriverTypes'
  BY <1>0, <1>4 DEF DriverTypes, Pcs, DeviceInitFail
<1>5. ASSUME DeviceKnown PROVE DriverTypes'
  BY <1>0, <1>5 DEF DriverTypes, Pcs, DeviceKnown
<1>6. ASSUME CoreClaim PROVE DriverTypes'
  BY <1>0, <1>6 DEF DriverTypes, Pcs, Slots, CoreClaim
<1>7. ASSUME CoreClaimBeyond PROVE DriverTypes'
  BY <1>0, <1>7 DEF DriverTypes, Pcs, CoreClaimBeyond
<1>8. ASSUME CoreResources PROVE DriverTypes'
  BY <1>0, <1>8 DEF DriverTypes, Pcs, CoreResources
<1>9. ASSUME CoreResourcesFail PROVE DriverTypes'
  BY <1>0, <1>9 DEF DriverTypes, Pcs, CoreResourcesFail
<1>10. ASSUME CoreJobInit PROVE DriverTypes'
  BY <1>0, <1>10 DEF DriverTypes, Pcs, CoreJobInit, claimed
<1>11. ASSUME CoreJobInitFail PROVE DriverTypes'
  BY <1>0, <1>11 DEF DriverTypes, Pcs, CoreJobInitFail
<1>12. ASSUME CorePmEnable PROVE DriverTypes'
  BY <1>0, <1>12 DEF DriverTypes, Pcs, CorePmEnable
<1>13. ASSUME CoreResume PROVE DriverTypes'
  BY <1>0, <1>13 DEF DriverTypes, Pcs, CoreResume,
         rocket_device_runtime_resume
<1>14. ASSUME CoreResumeFail PROVE DriverTypes'
  BY <1>0, <1>14 DEF DriverTypes, Pcs, CoreResumeFail
<1>15. ASSUME CoreReady PROVE DriverTypes'
  <2>1. bound' \in Seq(Devices)
    BY <1>15, Binding
  <2> QED
    BY <1>0, <1>15, <2>1 DEF DriverTypes, Pcs, CoreReady
<1>16. ASSUME CoreRateFail PROVE DriverTypes'
  BY <1>0, <1>16 DEF DriverTypes, Pcs, CoreRateFail
<1>17. ASSUME CoreUnwind PROVE DriverTypes'
  BY <1>0, <1>17 DEF DriverTypes, Pcs, CoreUnwind, rocket_core_fini
<1>18. ASSUME CoreUnwindJob PROVE DriverTypes'
  BY <1>0, <1>18 DEF DriverTypes, Pcs, CoreUnwindJob, rocket_job_fini, claimed
<1>19. ASSUME ProbeUndo PROVE DriverTypes'
  <2>1. /\ pc \in {"undo", "undo_clk"} /\ num_cores' = num_cores - 1
        /\ pc' = "idle" /\ dev' = NULL /\ UNCHANGED <<module, bound, probes, quiet, ordered>>
    BY <1>19 DEF ProbeUndo, drop_core
  <2>2. num_cores' \in 0 .. Cardinality(Devices)
    BY <1>0, <2>1 DEF DriverTypes, InHand
  <2>3. rdev' \in {"NULL", "ERR", "live"} /\ registered' \in BOOLEAN
    <3>1. CASE num_cores = 1
      BY <1>19, <3>1 DEF ProbeUndo, drop_core
    <3>2. CASE num_cores # 1
      BY <1>0, <1>19, <3>2 DEF DriverTypes, ProbeUndo, drop_core
    <3> QED
      BY <3>1, <3>2
  <2> QED
    BY <1>0, <2>1, <2>2, <2>3 DEF DriverTypes, Pcs
<1>20. ASSUME NEW d \in Devices, RemoveStart(d) PROVE DriverTypes'
  <2>1. bound' \in Seq(Devices)
    BY <1>20, Unbinding
  <2> QED
    BY <1>0, <1>20, <2>1 DEF DriverTypes, Pcs, RemoveStart
<1>21. ASSUME RemoveUnknown PROVE DriverTypes'
  BY <1>0, <1>21 DEF DriverTypes, Pcs, RemoveUnknown, device_unbind_cleanup
<1>22. ASSUME RemoveFini PROVE DriverTypes'
  BY <1>0, <1>22 DEF DriverTypes, Pcs, RemoveFini, rocket_core_fini
<1>23. ASSUME RemoveJobFini PROVE DriverTypes'
  BY <1>0, <1>23 DEF DriverTypes, Pcs, RemoveJobFini, rocket_job_fini
<1>24. ASSUME RemoveDrop PROVE DriverTypes'
  <2>1. /\ pc = "drop" /\ num_cores' = num_cores - 1
        /\ pc' = "idle" /\ dev' = NULL /\ UNCHANGED <<module, bound, probes, quiet, ordered>>
    BY <1>24 DEF RemoveDrop, drop_core
  <2>2. num_cores' \in 0 .. Cardinality(Devices)
    BY <1>0, <2>1 DEF DriverTypes, InHand
  <2>3. rdev' \in {"NULL", "ERR", "live"} /\ registered' \in BOOLEAN
    <3>1. CASE num_cores = 1
      BY <1>24, <3>1 DEF RemoveDrop, drop_core
    <3>2. CASE num_cores # 1
      BY <1>0, <1>24, <3>2 DEF DriverTypes, RemoveDrop, drop_core
    <3> QED
      BY <3>1, <3>2
  <2> QED
    BY <1>0, <2>1, <2>2, <2>3 DEF DriverTypes, Pcs
<1>25. ASSUME UnloadStart PROVE DriverTypes'
  BY <1>0, <1>25 DEF DriverTypes, Pcs, UnloadStart
<1>26. ASSUME UnloadEnd PROVE DriverTypes'
  BY <1>0, <1>26 DEF DriverTypes, Pcs, UnloadEnd
<1>27. ASSUME NEW f \in Files, Open(f) PROVE DriverTypes'
  BY <1>0, <1>27 DEF DriverTypes, Pcs, Open
<1>28. CASE UNCHANGED <<module, rdev, registered, num_cores, pc, dev, bound,
       probes, quiet, ordered>>
  BY <1>0, <1>28 DEF DriverTypes, Pcs
<1>29. ASSUME NEW f \in Files, CloseFile(f) PROVE DriverTypes'
  BY <1>28, <1>29 DEF CloseFile
<1>30. ASSUME NEW f \in Files, NEW k \in Slots,
             JobStart(f, k)
      PROVE  DriverTypes'
  BY <1>28, <1>30 DEF JobStart, rocket_device_runtime_resume
<1>31. ASSUME NEW k \in Slots, JobEnd(k) PROVE DriverTypes'
  BY <1>28, <1>31 DEF JobEnd
<1>32. ASSUME NEW d \in Devices, RuntimeSuspend(d) PROVE DriverTypes'
  BY <1>28, <1>32 DEF RuntimeSuspend
<1>33. CASE UNCHANGED vars
  BY <1>28, <1>33 DEF vars
<1> QED
  BY <1>1, <1>2, <1>3, <1>4, <1>5, <1>6, <1>7, <1>8, <1>9, <1>10, <1>11,
     <1>12, <1>13, <1>14, <1>15, <1>16, <1>17, <1>18, <1>19, <1>20, <1>21,
     <1>22, <1>23, <1>24, <1>25, <1>26, <1>27, <1>28, <1>29, <1>30, <1>31,
     <1>32, <1>33
     DEF Next, Probe, CoreInit, Remove, Use

\* The slots and the files keep their types.
LEMMA SlotTypesStep ==
  ASSUME IndInv, [Next]_vars PROVE SlotTypes'
<1> USE DEF moduleVars, slotVars, unitVars, pmVars, history, driverVars
<1>0. SlotTypes /\ dev \in Devices \cup {NULL}
  BY Types DEF SlotTypes
<1>1. ASSUME DeviceInit PROVE SlotTypes'
  BY <1>0, <1>1 DEF SlotTypes, DeviceInit
<1>2. ASSUME CoreClaim PROVE SlotTypes'
  BY <1>0, <1>2 DEF SlotTypes, CoreClaim
<1>3. ASSUME CoreJobInit PROVE SlotTypes'
  BY <1>0, <1>3 DEF SlotTypes, CoreJobInit, claimed
<1>4. ASSUME CoreUnwind PROVE SlotTypes'
  BY <1>0, <1>4 DEF SlotTypes, CoreUnwind, rocket_core_fini
<1>5. ASSUME CoreUnwindJob PROVE SlotTypes'
  BY <1>0, <1>5 DEF SlotTypes, CoreUnwindJob, rocket_job_fini, claimed
<1>6. ASSUME RemoveFini PROVE SlotTypes'
  BY <1>0, <1>6 DEF SlotTypes, RemoveFini, rocket_core_fini
<1>7. ASSUME RemoveJobFini PROVE SlotTypes'
  BY <1>0, <1>7 DEF SlotTypes, RemoveJobFini, rocket_job_fini
<1>8. ASSUME NEW f \in Files, Open(f) PROVE SlotTypes'
  BY <1>0, <1>8 DEF SlotTypes, Live, Open
<1>9. ASSUME NEW f \in Files, CloseFile(f) PROVE SlotTypes'
  <2>1. entity' = [entity EXCEPT ![f] = NULL]
        /\ UNCHANGED <<core_dev, sched, iommu_group, in_flight>>
    BY <1>9 DEF CloseFile
  <2>2. entity' \in [Files -> (SUBSET Slots) \cup {NULL}]
    <3> DEFINE E == (SUBSET Slots) \cup {NULL}
    <3>1. entity \in [Files -> E] /\ NULL \in E
      BY <1>0 DEF SlotTypes
    <3> HIDE DEF E
    <3>2. entity' \in [Files -> E]
      BY <2>1, <3>1
    <3> QED
      BY <3>2 DEF E
  <2> QED
    BY <1>0, <2>1, <2>2 DEF SlotTypes
<1>10. ASSUME NEW f \in Files, NEW k \in Slots, JobStart(f, k) PROVE SlotTypes'
  BY <1>0, <1>10 DEF SlotTypes, JobStart, rocket_device_runtime_resume
<1>11. ASSUME NEW k \in Slots, JobEnd(k) PROVE SlotTypes'
  BY <1>0, <1>11 DEF SlotTypes, JobEnd
<1>12. CASE UNCHANGED <<core_dev, sched, iommu_group, in_flight, entity>>
  BY <1>0, <1>12 DEF SlotTypes
<1>13. ASSUME \/ Load \/ DeviceInitFail \/ DeviceKnown
             \/ CoreClaimBeyond \/ CoreResources \/ CoreResourcesFail
      PROVE  SlotTypes'
  BY <1>12, <1>13 DEF Load, DeviceInitFail, DeviceKnown, CoreClaimBeyond,
     CoreResources, CoreResourcesFail
<1>14. ASSUME \/ CoreJobInitFail \/ CorePmEnable \/ CoreResume
             \/ CoreResumeFail \/ CoreReady \/ CoreRateFail
      PROVE  SlotTypes'
  BY <1>12, <1>14 DEF CoreJobInitFail, CorePmEnable, CoreResume,
     rocket_device_runtime_resume, CoreResumeFail, CoreReady, CoreRateFail
<1>15. ASSUME \/ ProbeUndo \/ UnloadStart \/ RemoveUnknown
             \/ RemoveDrop \/ UnloadEnd
      PROVE  SlotTypes'
  BY <1>12, <1>15 DEF ProbeUndo, drop_core, device_unbind_cleanup,
     UnloadStart, RemoveUnknown, RemoveDrop, UnloadEnd
<1>16. ASSUME NEW d \in Devices,
             ProbeStart(d) \/ RemoveStart(d) \/ RuntimeSuspend(d)
      PROVE  SlotTypes'
  BY <1>12, <1>16 DEF ProbeStart, RemoveStart, RuntimeSuspend
<1>17. CASE UNCHANGED vars
  BY <1>12, <1>17 DEF vars
<1> QED
  BY <1>1, <1>2, <1>3, <1>4, <1>5, <1>6, <1>7, <1>8, <1>9, <1>10, <1>11,
     <1>12, <1>13, <1>14, <1>15, <1>16, <1>17
     DEF Next, Probe, CoreInit, Remove, Use

\* So does what rocket_core_fini does to a device.
LEMMA FiniTypes ==
  ASSUME PmTypes, NEW k, rocket_core_fini(k)
  PROVE  usage' \in [Devices -> Nat] /\ pm_enabled' \in [Devices -> BOOLEAN]
<1> DEFINE d == core_dev[k]
<1>1. /\ usage' = [usage EXCEPT ![d] = put_noidle(@)]
      /\ pm_enabled' = [pm_enabled EXCEPT ![d] = FALSE]
  BY DEF rocket_core_fini
<1> HIDE DEF d
<1>2. CASE d \in Devices
  <2>1. put_noidle(usage[d]) \in Nat
    BY <1>2 DEF put_noidle, PmTypes
  <2> QED
    BY <1>1, <1>2, <2>1 DEF PmTypes
<1>3. CASE d \notin Devices
  BY <1>1, <1>3 DEF PmTypes
<1> QED
  BY <1>2, <1>3

\* The counts keep their types: no count is taken below zero.
LEMMA PmTypesStep ==
  ASSUME IndInv, [Next]_vars PROVE PmTypes'
<1> USE DEF moduleVars, slotVars, unitVars, pmVars, history, driverVars
<1>0. PmTypes /\ pc \in Pcs /\ (pc # "idle" => dev \in Devices)
  BY Types DEF PmTypes
<1>clk. /\ \A d \in Devices : active[d] => clk[d] >= 1
        /\ pc \in {"undo_clk", "remove", "drop"} => dev \in Devices /\ clk[dev] >= 1
  <2>1. \A d \in Devices : active[d] => clk[d] >= 1
    BY <1>0 DEF IndInv, ClkInv, ClkInvAt, PmTypes
  <2>2. ASSUME pc \in {"undo_clk", "remove", "drop"} PROVE dev \in Devices /\ clk[dev] >= 1
    <3>1. dev \in Devices
      BY <2>2, Types
    <3> QED
      BY <1>0, <2>2, <3>1 DEF IndInv, ClkInv, ClkInvAt, Clocked, PmTypes
  <2> QED
    BY <2>1, <2>2
<1>1. ASSUME DeviceInit PROVE PmTypes'
  BY <1>0, <1>1 DEF PmTypes, DeviceInit
<1>2. ASSUME CoreResources PROVE PmTypes'
  <2>1. dev \in Devices /\ clk' = [clk EXCEPT ![dev] = @ + 1]
        /\ UNCHANGED <<pm_refcount, usage, pm_enabled, active>>
    BY <1>0, <1>2 DEF CoreResources
  <2>2. clk' \in [Devices -> Nat]
    BY <1>0, <2>1 DEF PmTypes
  <2> QED
    BY <1>0, <2>1, <2>2 DEF PmTypes
<1>3. ASSUME CorePmEnable PROVE PmTypes'
  BY <1>0, <1>3 DEF PmTypes, CorePmEnable
<1>4. ASSUME CoreResume PROVE PmTypes'
  <2>1. /\ dev \in Devices /\ usage' = [usage EXCEPT ![dev] = @ + 1]
        /\ active' = [d \in Devices |-> active[d] \/ d \in {dev}]
        /\ clk' = [d \in Devices |-> IF d \in {dev} /\ ~active[d] THEN clk[d] + 1 ELSE clk[d]]
        /\ UNCHANGED <<pm_refcount, pm_enabled>>
    BY <1>0, <1>4 DEF CoreResume, rocket_device_runtime_resume
  <2>2. usage' \in [Devices -> Nat]
    BY <1>0, <2>1 DEF PmTypes
  <2>3. clk' \in [Devices -> Nat]
    BY <1>0, <2>1 DEF PmTypes
  <2>4. active' \in [Devices -> BOOLEAN]
    BY <1>0, <2>1 DEF PmTypes
  <2> QED
    BY <1>0, <2>1, <2>2, <2>3, <2>4 DEF PmTypes
<1>5. ASSUME CoreRateFail PROVE PmTypes'
  <2>1. dev \in Devices /\ usage' = [usage EXCEPT ![dev] = put_noidle(@)]
        /\ UNCHANGED <<pm_refcount, clk, pm_enabled, active>>
    BY <1>0, <1>5 DEF CoreRateFail
  <2>2. usage' \in [Devices -> Nat]
    BY <1>0, <2>1 DEF PmTypes, put_noidle
  <2> QED
    BY <1>0, <2>1, <2>2 DEF PmTypes
<1>6. ASSUME CoreUnwind PROVE PmTypes'
  <2>1. UNCHANGED <<pm_refcount, clk, active>> /\ rocket_core_fini(claimed)
    BY <1>6 DEF CoreUnwind
  <2> QED
    BY <1>0, <2>1, FiniTypes DEF PmTypes
<1>7. ASSUME ProbeUndo PROVE PmTypes'
  <2>1. /\ pc \in {"undo", "undo_clk"} /\ UNCHANGED <<pm_refcount, usage, pm_enabled>>
        /\ clk' = [clk EXCEPT ![dev] = @ - (IF pc = "undo" THEN 0 ELSE 1)]
        /\ active' = [active EXCEPT ![dev] = @ /\ pm_enabled[dev]]
    BY <1>7 DEF ProbeUndo, device_unbind_cleanup
  <2>2. clk' \in [Devices -> Nat]
    <3>1. dev \in Devices /\ clk[dev] - (IF pc = "undo" THEN 0 ELSE 1) \in Nat
      BY <1>0, <1>clk, <2>1 DEF PmTypes
    <3> QED
      BY <1>0, <2>1, <3>1 DEF PmTypes
  <2>3. active' \in [Devices -> BOOLEAN]
    BY <1>0, <2>1 DEF PmTypes
  <2> QED
    BY <1>0, <2>1, <2>2, <2>3 DEF PmTypes
<1>8. ASSUME RemoveUnknown PROVE PmTypes'
  <2>1. /\ pc = "remove" /\ UNCHANGED <<pm_refcount, usage, pm_enabled>>
        /\ clk' = [clk EXCEPT ![dev] = @ - 1]
        /\ active' = [active EXCEPT ![dev] = @ /\ pm_enabled[dev]]
    BY <1>8 DEF RemoveUnknown, device_unbind_cleanup
  <2>2. clk' \in [Devices -> Nat]
    <3>1. dev \in Devices /\ clk[dev] - 1 \in Nat
      BY <1>0, <1>clk, <2>1 DEF PmTypes
    <3> QED
      BY <1>0, <2>1, <3>1 DEF PmTypes
  <2>3. active' \in [Devices -> BOOLEAN]
    BY <1>0, <2>1 DEF PmTypes
  <2> QED
    BY <1>0, <2>1, <2>2, <2>3 DEF PmTypes
<1>9. ASSUME RemoveFini PROVE PmTypes'
  <2>1. UNCHANGED <<pm_refcount, clk, active>> /\ \E k \in find_core_for_dev(dev) : rocket_core_fini(k)
    BY <1>9 DEF RemoveFini
  <2> QED
    BY <1>0, <2>1, FiniTypes DEF PmTypes
<1>10. ASSUME RemoveDrop PROVE PmTypes'
  <2>1. /\ pc = "drop" /\ UNCHANGED <<pm_refcount, usage, pm_enabled>>
        /\ clk' = [clk EXCEPT ![dev] = @ - 1]
        /\ active' = [active EXCEPT ![dev] = @ /\ pm_enabled[dev]]
    BY <1>10 DEF RemoveDrop, device_unbind_cleanup
  <2>2. clk' \in [Devices -> Nat]
    <3>1. dev \in Devices /\ clk[dev] - 1 \in Nat
      BY <1>0, <1>clk, <2>1 DEF PmTypes
    <3> QED
      BY <1>0, <2>1, <3>1 DEF PmTypes
  <2>3. active' \in [Devices -> BOOLEAN]
    BY <1>0, <2>1 DEF PmTypes
  <2> QED
    BY <1>0, <2>1, <2>2, <2>3 DEF PmTypes
<1>11. ASSUME NEW f \in Files, NEW k \in Slots, JobStart(f, k) PROVE PmTypes'
  <2>1. CASE pm_refcount > 0
    BY <1>0, <1>11, <2>1 DEF PmTypes, JobStart
  <2>2. CASE ~(pm_refcount > 0)
    <3>1. /\ usage' = [d \in Devices |-> IF d \in UnitDevices THEN usage[d] + 1 ELSE usage[d]]
          /\ active' = [d \in Devices |-> active[d] \/ d \in UnitDevices]
          /\ clk' = [d \in Devices |-> IF d \in UnitDevices /\ ~active[d] THEN clk[d] + 1
                                       ELSE clk[d]]
          /\ pm_enabled' = pm_enabled /\ pm_refcount' = pm_refcount + 1
      BY <1>11, <2>2 DEF JobStart, rocket_device_runtime_resume
    <3>2. usage' \in [Devices -> Nat]
      BY <1>0, <3>1 DEF PmTypes
    <3>3. clk' \in [Devices -> Nat]
      BY <1>0, <3>1 DEF PmTypes
    <3>4. active' \in [Devices -> BOOLEAN]
      BY <3>1
    <3> QED
      BY <1>0, <3>1, <3>2, <3>3, <3>4 DEF PmTypes
  <2> QED
    BY <2>1, <2>2
<1>12. ASSUME NEW k \in Slots, JobEnd(k) PROVE PmTypes'
  <2>1. pm_refcount > 0
    BY <1>12, UnitHeld DEF JobEnd
  <2> QED
    BY <1>0, <1>12, <2>1 DEF PmTypes, JobEnd, put_noidle
<1>13. ASSUME NEW d \in Devices, RuntimeSuspend(d) PROVE PmTypes'
  BY <1>0, <1>clk, <1>13 DEF PmTypes, RuntimeSuspend
<1>14. CASE UNCHANGED <<pm_refcount, usage, clk, pm_enabled, active>>
  BY <1>0, <1>14 DEF PmTypes
<1>15. ASSUME \/ Load \/ DeviceInitFail \/ DeviceKnown
             \/ CoreClaim \/ CoreClaimBeyond \/ CoreResourcesFail
      PROVE  PmTypes'
  BY <1>14, <1>15 DEF Load, DeviceInitFail, DeviceKnown, CoreClaim,
     CoreClaimBeyond, CoreResourcesFail
<1>16. ASSUME \/ CoreJobInit \/ CoreJobInitFail \/ CoreResumeFail
             \/ CoreReady \/ CoreUnwindJob \/ UnloadStart
      PROVE  PmTypes'
  BY <1>14, <1>16 DEF CoreJobInit, claimed, CoreJobInitFail, CoreResumeFail,
     CoreReady, CoreUnwindJob, rocket_job_fini, UnloadStart
<1>17. ASSUME RemoveJobFini \/ UnloadEnd PROVE PmTypes'
  BY <1>14, <1>17 DEF RemoveJobFini, rocket_job_fini, UnloadEnd
<1>18. ASSUME NEW d \in Devices, ProbeStart(d) \/ RemoveStart(d) PROVE PmTypes'
  BY <1>14, <1>18 DEF ProbeStart, RemoveStart
<1>19. ASSUME NEW f \in Files, Open(f) \/ CloseFile(f) PROVE PmTypes'
  BY <1>14, <1>19 DEF Open, CloseFile
<1>20. CASE UNCHANGED vars
  BY <1>14, <1>20 DEF vars
<1> QED
  BY <1>1, <1>2, <1>3, <1>4, <1>5, <1>6, <1>7, <1>8, <1>9, <1>10, <1>11,
     <1>12, <1>13, <1>14, <1>15, <1>16, <1>17, <1>18, <1>19, <1>20
     DEF Next, Probe, CoreInit, Remove, Use

-----------------------------------------------------------------------------
(* The invariant, and what follows from it.                                 *)

\* The invariant holds before the module is loaded.
LEMMA InitInv ==
  ASSUME Init PROVE IndInv
<1> USE DEF Init
<1>1. Cardinality(Devices) \in Nat \ {0} /\ MaxProbes \in Nat /\ NULL \notin Devices
  BY ProbeAssumption, FS_CardinalityType, FS_EmptySet
<1>2. TypeOK
  <2>0. bound \in Seq(Devices) /\ num_cores \in 0 .. Cardinality(Devices)
        /\ probes \in 0 .. MaxProbes /\ pc \in Pcs
    BY <1>1 DEF Pcs
  <2>idle. num_cores = 0 /\ pc = "idle" /\ Cardinality(Devices) \in Nat
    BY <1>1
  <2>cores. num_cores \in 0 .. Cardinality(Devices) + (IF pc = "overrun" THEN 1 ELSE 0)
    BY <2>idle
  <2>1. DriverTypes
    BY <2>0, <2>cores DEF DriverTypes
  <2>2. SlotTypes
    BY DEF SlotTypes
  <2>3. PmTypes
    BY DEF PmTypes
  <2> QED
    BY <2>1, <2>2, <2>3 DEF TypeOK, DriverTypes, SlotTypes, PmTypes
<1>3. OpenFiles = {} /\ Len(bound) = 0 /\ ~InHand /\ Flying = {}
  BY DEF OpenFiles, InHand, Flying
<1>4. DriverInv /\ RdevInv /\ SlotInv /\ QuietInv
  BY <1>1, <1>3 DEF DriverInv, RdevInv, SlotInv, QuietInv, Counted, IdleWhenOpen, FilesReady,
     CoresUp, Pcs
<1>5. UnitInv
  BY <1>3, FS_EmptySet DEF UnitInv
<1>6. ClkInv
  BY DEF ClkInv, ClkInvAt, Clocked, Bound
<1> QED
  BY <1>2, <1>4, <1>5, <1>6 DEF IndInv

\* The inductive invariant holds of the life of the driver.
THEOREM Invariance == Spec => []IndInv
<1>1. Init => IndInv
  BY InitInv
<1>2. IndInv /\ [Next]_vars => IndInv'
  <2> SUFFICES ASSUME IndInv, [Next]_vars PROVE IndInv'
    OBVIOUS
  <2>1. TypeOK'
    BY DriverTypesStep, SlotTypesStep, PmTypesStep DEF TypeOK, DriverTypes, SlotTypes, PmTypes
  <2>2. DriverInv' /\ RdevInv' /\ SlotInv' /\ UnitInv' /\ ClkInv'
    BY DriverStep, RdevStep, SlotStep, UnitStep, ClkStep
  <2>3. QuietInv'
    BY IdleStep, FilesStep, CoresStep DEF QuietInv
  <2> QED
    BY <2>1, <2>2, <2>3 DEF IndInv
<1> QED
  BY <1>1, <1>2, PTL DEF Spec

\* The types: num_cores counts at most the entries of cores[] until a probe has
\* written behind their end (NoOverrun says when it cannot), and no usage, clock
\* or unit count goes below zero, in whatever order cores come and go.
THEOREM TypeCorrect == Spec => []TypeOK
<1>1. IndInv => TypeOK
  BY DEF IndInv
<1> QED
  BY <1>1, Invariance, PTL

\* As long as cores go in the reverse order of their coming, the counted slots
\* of cores[] hold the bound devices and the one in hand, each exactly once.
THEOREM TableIsExact == Spec => []SlotsExact
  BY SlotsFollow, Invariance, PTL

\* rocket_drv.c 248-256: as long as cores go in the reverse order of their
\* coming, no probe takes a slot behind the end of cores[], and num_cores counts
\* entries of it.
WithinTable == ordered => pc # "overrun" /\ num_cores <= Cardinality(Devices)

\* WithinTable always holds: a device that is probed has no slot yet, so those
\* that have one cannot fill the table.  Without the order it fails.
THEOREM NoOverrun == Spec => []WithinTable
<1>1. ASSUME IndInv PROVE WithinTable
  BY <1>1, Types DEF IndInv, SlotInv, WithinTable
<1> QED
  BY <1>1, Invariance, PTL

\* A bound core is never left without the DRM device, in whatever order cores
\* go; and as long as they go in the reverse order, it goes with the last.
THEOREM DrmLives == Spec => []DrmWhileBound
<1>1. ASSUME IndInv PROVE DrmWhileBound
  <2>1. bound # <<>> => registered
    BY <1>1 DEF IndInv, RdevInv
  <2>2. ASSUME ordered, pc = "idle", registered PROVE bound # <<>>
    <3>1. rdev = "live" /\ num_cores = Len(bound)
      BY <1>1, <2>2, Types DEF IndInv, SlotInv, Counted, InHand
    <3>2. num_cores # 0
      BY <1>1, <2>2, <3>1 DEF IndInv, RdevInv
    <3> QED
      BY <3>1, <3>2
  <2> QED
    BY <2>1, <2>2 DEF DrmWhileBound
<1> QED
  BY <1>1, Invariance, PTL

\* Unless a core came or was unbound in use, an open file has an entity for
\* every core, and each feeds a scheduler that is up, of a core that still has
\* its IOMMU group.
THEOREM EntitiesAreReady == Spec => []EntitiesReady
<1>1. ASSUME IndInv PROVE EntitiesReady
  <2> SUFFICES ASSUME quiet, ordered, NEW f \in OpenFiles
               PROVE  entity[f] = Live /\ \A k \in entity[f] : sched[k] /\ iommu_group[k]
    BY DEF EntitiesReady
  <2>1. IdleWhenOpen /\ FilesReady /\ CoresUp
    BY <1>1 DEF IndInv, QuietInv
  <2>2. pc = "idle" /\ entity[f] = Live
    BY <2>1 DEF IdleWhenOpen, FilesReady
  <2>3. ASSUME NEW k \in Live PROVE sched[k] /\ iommu_group[k]
    <3>1. k + 1 \in 1 .. Len(bound) /\ (k + 1) - 1 = k
      BY <1>1, <2>2, LiveIdle
    <3>2. CoreUp((k + 1) - 1)
      BY <2>1, <3>1 DEF CoresUp
    <3> QED
      BY <3>1, <3>2 DEF CoreUp
  <2> QED
    BY <2>2, <2>3
<1> QED
  BY <1>1, Invariance, PTL

\* Unless a core came or was unbound in use, the usage count of a bound core is
\* never driven to zero and the core stays resumed.
THEOREM NeverGated == Spec => []NeverGateKept
<1>1. ASSUME IndInv PROVE NeverGateKept
  <2> SUFFICES ASSUME quiet, ordered, NEW i \in DOMAIN bound
               PROVE  usage[bound[i]] > 0 /\ active[bound[i]]
    BY DEF NeverGateKept
  <2>1. CoresUp /\ i \in 1 .. Len(bound) /\ bound[i] \in Devices /\ usage \in [Devices -> Nat]
    BY <1>1, Types DEF IndInv, QuietInv
  <2> QED
    BY <2>1 DEF CoresUp, UnitRef
<1> QED
  BY <1>1, Invariance, PTL

=============================================================================

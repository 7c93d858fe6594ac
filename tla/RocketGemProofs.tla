--------------------------- MODULE RocketGemProofs ---------------------------
(***************************************************************************)
(* Proofs about RocketGem for any number of buffers, jobs and domains and  *)
(* any size of pool and aperture: the reference counts of the domains, the *)
(* agreement of racing first users of a slot, and the mappings.            *)
(***************************************************************************)
EXTENDS RocketGem, FiniteSetTheorems, TLAPS

-----------------------------------------------------------------------------
(* The inductive invariant.                                                 *)

\* A user holds a domain; its buffer has an address in the domain's drm_mm;
\* the buffer is mapped there.
Mapped == {"handle", "return", "live", "unmap", "err_unmap"}
Noded == Mapped \cup {"map", "remove_node", "err_remove_node"}
HasDomain == Noded \cup {"pages", "insert", "running", "put_domain", "err_put_domain"}

\* A user's position says what it holds.
PlaceInvAt(u) ==
    /\ dom[u] # NULL <=> pc[u] \in HasDomain
    /\ cand[u] # NULL <=> pc[u] = "install"
    /\ u \in Jobs => pc[u] \in {"idle", "create", "install", "running", "dead"}
    /\ u \in Bos => pc[u] # "running"

PlaceInv == \A u \in Users : PlaceInvAt(u)

\* The GEM references of a buffer: the creating ioctl, the handle, the dmabuf.
GemInvAt(b) ==
    /\ gemref[b] = (IF pc[b] \in {"insert", "map", "handle", "return"} THEN 1 ELSE 0)
                   + (IF handle[b] THEN 1 ELSE 0) + (IF exported[b] THEN 1 ELSE 0)
    /\ handle[b] \/ exported[b] => pc[b] \in {"return", "live"}

GemInv == \A b \in Bos : GemInvAt(b)

\* The references of a domain.  That there are finitely many holders is part
\* of the invariant, so nothing need be assumed of Bos and Jobs.
SlotsOf(o) == {s \in Slots : table[s] = o}

RefInvAt(o) ==
    /\ IsFiniteSet(Holders(o))
    /\ kref[o] = Cardinality(SlotsOf(o)) + Cardinality(Holders(o))

RefInv == \A o \in Objs : RefInvAt(o)

\* A domain's drm_mm and page table, seen from their entries.
NodeInvAt(o) ==
    /\ \A n \in mm[o] : /\ n = <<addr[n[2]], n[2]>> /\ dom[n[2]] = o
                        /\ pc[n[2]] \in Noded
    /\ \A m, n \in mm[o] : m[1] = n[1] => m = n
    /\ \A n \in pgtbl[o] : n[2] \in left \/ (n \in mm[o] /\ pc[n[2]] \in Mapped)

NodeInv == \A o \in Objs : NodeInvAt(o)

\* The same, seen from a buffer.
BoInvAt(b) ==
    /\ pc[b] \in Noded => addr[b] \in Aperture /\ <<addr[b], b>> \in mm[dom[b]]
    /\ pc[b] \in Mapped => <<addr[b], b>> \in pgtbl[dom[b]]

BoInv == \A b \in Bos : BoInvAt(b)

IndInv ==
    /\ TypeOK
    /\ PlaceInv
    /\ GemInv
    /\ RefInv
    /\ NodeInv
    /\ BoInv
    /\ OneDomainPerSlot

\* The positions of a user.
PCs == {"idle", "create", "install", "pages", "insert", "map", "handle", "return",
        "live", "running", "unmap", "remove_node", "put_domain", "err_unmap",
        "err_remove_node", "err_put_domain", "dead"}

-----------------------------------------------------------------------------
(* Facts used throughout.                                                   *)

\* Buffers and jobs are users, and different ones.
LEMMA UserSets ==
  /\ \A b \in Bos : b \in Users /\ b \notin Jobs
  /\ \A j \in Jobs : j \in Users /\ j \notin Bos
  /\ NULL \notin Objs /\ NULL \notin Aperture
  BY GemAssumption DEF Users

\* An id outside the pool is sent to slot 0.
LEMMA PoolSlot == ASSUME NEW id \in DomainIds PROVE pool_slot(id) \in Slots
  BY GemAssumption DEF pool_slot, Slots

\* The slots of a domain can be counted.
LEMMA SlotsFinite ==
  ASSUME NEW T \in SUBSET Slots
  PROVE  IsFiniteSet(T) /\ Cardinality(T) \in Nat
<1>1. IsFiniteSet(Slots)
  BY GemAssumption, FS_Interval DEF Slots
<1>2. IsFiniteSet(T)
  BY <1>1, FS_Subset
<1> QED
  BY <1>2, FS_CardinalityType

\* A domain with a user has a reference, one in the pool too.
LEMMA HolderCounted ==
  ASSUME NEW o \in Objs, RefInvAt(o)
  PROVE  /\ Cardinality(SlotsOf(o)) \in Nat /\ Cardinality(Holders(o)) \in Nat
         /\ SlotsOf(o) # {} => Cardinality(SlotsOf(o)) > 0
         /\ Holders(o) # {} => Cardinality(Holders(o)) > 0
<1>1. SlotsOf(o) \in SUBSET Slots
  BY DEF SlotsOf
<1>2. IsFiniteSet(SlotsOf(o)) /\ Cardinality(SlotsOf(o)) \in Nat
  BY <1>1, SlotsFinite
<1>3. IsFiniteSet(Holders(o)) /\ Cardinality(Holders(o)) \in Nat
  BY FS_CardinalityType DEF RefInvAt
<1> QED
  BY <1>2, <1>3, FS_EmptySet

-----------------------------------------------------------------------------
(* What a step does to the references of one domain.                        *)

\* Nothing.
LEMMA RefKept ==
  ASSUME NEW o \in Objs, RefInvAt(o), kref'[o] = kref[o],
         SlotsOf(o)' = SlotsOf(o), Holders(o)' = Holders(o)
  PROVE  RefInvAt(o)'
  BY DEF RefInvAt

\* One more holder, one reference more.
LEMMA RefTaken ==
  ASSUME NEW o \in Objs, RefInvAt(o), NEW u, u \notin Holders(o),
         kref'[o] = kref[o] + 1, SlotsOf(o)' = SlotsOf(o),
         Holders(o)' = Holders(o) \cup {u}
  PROVE  RefInvAt(o)'
<1>1. /\ IsFiniteSet(Holders(o) \cup {u})
      /\ Cardinality(Holders(o) \cup {u}) = Cardinality(Holders(o)) + 1
  BY FS_AddElement DEF RefInvAt
<1> QED
  BY <1>1, HolderCounted DEF RefInvAt

\* One holder less, one reference less.
LEMMA RefPut ==
  ASSUME NEW o \in Objs, RefInvAt(o), NEW u, u \in Holders(o),
         kref'[o] = kref[o] - 1, SlotsOf(o)' = SlotsOf(o),
         Holders(o)' = Holders(o) \ {u}
  PROVE  RefInvAt(o)'
<1>1. /\ IsFiniteSet(Holders(o) \ {u})
      /\ Cardinality(Holders(o) \ {u}) = Cardinality(Holders(o)) - 1
  BY FS_RemoveElement DEF RefInvAt
<1> QED
  BY <1>1, HolderCounted DEF RefInvAt

\* A slot of the pool comes to hold the domain.
LEMMA RefInstalled ==
  ASSUME NEW o \in Objs, RefInvAt(o), NEW s \in Slots, s \notin SlotsOf(o),
         kref'[o] = kref[o] + 1, SlotsOf(o)' = SlotsOf(o) \cup {s},
         Holders(o)' = Holders(o)
  PROVE  RefInvAt(o)'
<1>1. SlotsOf(o) \in SUBSET Slots
  BY DEF SlotsOf
<1>2. Cardinality(SlotsOf(o) \cup {s}) = Cardinality(SlotsOf(o)) + 1
  BY <1>1, SlotsFinite, FS_AddElement
<1> QED
  BY <1>2, HolderCounted DEF RefInvAt

\* A slot of the pool lets go of the domain.
LEMMA RefUninstalled ==
  ASSUME NEW o \in Objs, RefInvAt(o), NEW s \in Slots, s \in SlotsOf(o),
         kref'[o] = kref[o] - 1, SlotsOf(o)' = SlotsOf(o) \ {s},
         Holders(o)' = Holders(o)
  PROVE  RefInvAt(o)'
<1>1. SlotsOf(o) \in SUBSET Slots
  BY DEF SlotsOf
<1>2. Cardinality(SlotsOf(o) \ {s}) = Cardinality(SlotsOf(o)) - 1
  BY <1>1, SlotsFinite, FS_RemoveElement
<1> QED
  BY <1>2, HolderCounted DEF RefInvAt

-----------------------------------------------------------------------------
(* The parts of the invariant, step by step.                                *)

\* Positions.
LEMMA PlaceInvStep ==
  ASSUME IndInv, [Next]_vars PROVE PlaceInv'
<1> USE DEF userVars, poolVars, mapVars, gemVars, Goto
<1> SUFFICES ASSUME NEW v \in Users PROVE PlaceInvAt(v)'
  BY DEF PlaceInv
<1>0. /\ pc \in [Users -> PCs] /\ cand \in [Users -> Objs \cup {NULL}]
      /\ dom \in [Users -> Objs \cup {NULL}] /\ table \in [Slots -> Objs \cup {NULL}]
      /\ slot \in [Users -> Slots]
      /\ (\A u \in Users : PlaceInvAt(u)) /\ (\A b \in Bos : GemInvAt(b))
      /\ (\A b \in Bos : b \in Users /\ b \notin Jobs)
      /\ (\A j \in Jobs : j \in Users /\ j \notin Bos)
      /\ NULL \notin Objs
  BY UserSets DEF IndInv, TypeOK, PlaceInv, GemInv, PCs
<1>1. ASSUME NEW u \in Users, NEW id \in DomainIds, GetLookup(u, id)
      PROVE  PlaceInvAt(v)'
  BY <1>0, <1>1 DEF PlaceInvAt, HasDomain, Noded, Mapped, GetLookup, AfterGet
<1>2. ASSUME NEW u \in Users, NEW o \in Objs, GetCreate(u, o)
      PROVE  PlaceInvAt(v)'
  BY <1>0, <1>2 DEF PlaceInvAt, HasDomain, Noded, Mapped, GetCreate
<1>3. ASSUME NEW u \in Users, GetCreateFail(u) PROVE PlaceInvAt(v)'
  BY <1>0, <1>3 DEF PlaceInvAt, HasDomain, Noded, Mapped, GetCreateFail
<1>4. ASSUME NEW u \in Users, GetInstall(u) PROVE PlaceInvAt(v)'
  BY <1>0, <1>4 DEF PlaceInvAt, HasDomain, Noded, Mapped, GetInstall, AfterGet
<1>5. ASSUME NEW j \in Jobs, JobCleanup(j) PROVE PlaceInvAt(v)'
  BY <1>0, <1>5 DEF PlaceInvAt, HasDomain, Noded, Mapped, JobCleanup,
         put_domain
<1>6. ASSUME NEW b \in Bos, Pages(b) PROVE PlaceInvAt(v)'
  BY <1>0, <1>6 DEF PlaceInvAt, HasDomain, Noded, Mapped, Pages
<1>7. ASSUME NEW b \in Bos, NEW a \in Aperture, Insert(b, a)
      PROVE  PlaceInvAt(v)'
  BY <1>0, <1>7 DEF PlaceInvAt, HasDomain, Noded, Mapped, Insert
<1>8. ASSUME NEW b \in Bos, NEW fits \in BOOLEAN, Map(b, fits) PROVE PlaceInvAt(v)'
  BY <1>0, <1>8 DEF PlaceInvAt, HasDomain, Noded, Mapped, Map
<1>9. ASSUME NEW b \in Bos, HandleCreate(b) PROVE PlaceInvAt(v)'
  BY <1>0, <1>9 DEF PlaceInvAt, HasDomain, Noded, Mapped, HandleCreate
<1>10. ASSUME NEW b \in Bos, CreateReturn(b) PROVE PlaceInvAt(v)'
  BY <1>0, <1>10 DEF PlaceInvAt, HasDomain, Noded, Mapped, CreateReturn
<1>11. ASSUME NEW b \in Bos, CreateFail(b) PROVE PlaceInvAt(v)'
  BY <1>0, <1>11 DEF PlaceInvAt, HasDomain, Noded, Mapped, CreateFail
<1>12. ASSUME NEW b \in Bos, Unmap(b) PROVE PlaceInvAt(v)'
  BY <1>0, <1>12 DEF PlaceInvAt, HasDomain, Noded, Mapped, Unmap, undo
<1>13. ASSUME NEW b \in Bos, RemoveNode(b) PROVE PlaceInvAt(v)'
  BY <1>0, <1>13 DEF PlaceInvAt, HasDomain, Noded, Mapped, RemoveNode,
         undo
<1>14. ASSUME NEW b \in Bos, PutDomain(b) PROVE PlaceInvAt(v)'
  BY <1>0, <1>14 DEF PlaceInvAt, HasDomain, Noded, Mapped, PutDomain,
         put_domain
<1>15. ASSUME NEW b \in Bos, HandleDelete(b) PROVE PlaceInvAt(v)'
  BY <1>0, <1>15 DEF PlaceInvAt, GemInvAt, HasDomain, Noded, Mapped,
         HandleDelete, drop_gemref
<1>16. ASSUME NEW b \in Bos, DmabufRelease(b) PROVE PlaceInvAt(v)'
  BY <1>0, <1>16 DEF PlaceInvAt, GemInvAt, HasDomain, Noded, Mapped,
         DmabufRelease, drop_gemref
<1>17. CASE UNCHANGED <<pc, cand, dom>>
  BY <1>0, <1>17 DEF PlaceInvAt, HasDomain, Noded, Mapped
<1>18. ASSUME NEW b \in Bos, Export(b) PROVE PlaceInvAt(v)'
  BY <1>17, <1>18 DEF Export
<1>19. ASSUME NEW s \in Slots, CloseDomain(s) PROVE PlaceInvAt(v)'
  BY <1>17, <1>19 DEF CloseDomain
<1>20. ASSUME CloseBegin \/ CloseHandlesDone \/ CloseDone PROVE PlaceInvAt(v)'
  BY <1>17, <1>20 DEF CloseBegin, CloseHandlesDone, CloseDone
<1>21. CASE UNCHANGED vars
  BY <1>17, <1>21 DEF vars
<1> QED
  BY <1>1, <1>2, <1>3, <1>4, <1>5, <1>6, <1>7, <1>8, <1>9, <1>10, <1>11,
     <1>12, <1>13, <1>14, <1>15, <1>16, <1>17, <1>18, <1>19, <1>20, <1>21
     DEF Next, Rest

\* GEM references.
LEMMA GemInvStep ==
  ASSUME IndInv, [Next]_vars PROVE GemInv'
<1> USE DEF userVars, poolVars, mapVars, gemVars, Goto
<1> SUFFICES ASSUME NEW c \in Bos PROVE GemInvAt(c)'
  BY DEF GemInv
<1>0. /\ pc \in [Users -> PCs] /\ gemref \in [Bos -> 0 .. 3]
      /\ handle \in [Bos -> BOOLEAN] /\ exported \in [Bos -> BOOLEAN]
      /\ GemInvAt(c) /\ PlaceInvAt(c) /\ c \in Users
      /\ (\A b \in Bos : b \in Users /\ b \notin Jobs)
      /\ (\A j \in Jobs : j \in Users /\ j \notin Bos)
  BY UserSets DEF IndInv, TypeOK, PlaceInv, GemInv, PCs
<1>1. ASSUME NEW u \in Users, NEW id \in DomainIds, GetLookup(u, id)
      PROVE  GemInvAt(c)'
  BY <1>0, <1>1 DEF GemInvAt, GetLookup, AfterGet
<1>2. ASSUME NEW u \in Users, NEW o \in Objs, GetCreate(u, o)
      PROVE  GemInvAt(c)'
  BY <1>0, <1>2 DEF GemInvAt, GetCreate
<1>3. ASSUME NEW u \in Users, GetCreateFail(u) PROVE GemInvAt(c)'
  BY <1>0, <1>3 DEF GemInvAt, GetCreateFail
<1>4. ASSUME NEW u \in Users, GetInstall(u) PROVE GemInvAt(c)'
  BY <1>0, <1>4 DEF GemInvAt, GetInstall, AfterGet
<1>5. ASSUME NEW j \in Jobs, JobCleanup(j) PROVE GemInvAt(c)'
  BY <1>0, <1>5 DEF GemInvAt, JobCleanup, put_domain
<1>6. ASSUME NEW b \in Bos, Pages(b) PROVE GemInvAt(c)'
  BY <1>0, <1>6 DEF GemInvAt, Pages
<1>7. ASSUME NEW b \in Bos, NEW a \in Aperture, Insert(b, a) PROVE GemInvAt(c)'
  BY <1>0, <1>7 DEF GemInvAt, Insert
<1>8. ASSUME NEW b \in Bos, NEW fits \in BOOLEAN, Map(b, fits) PROVE GemInvAt(c)'
  BY <1>0, <1>8 DEF GemInvAt, Map
<1>9. ASSUME NEW b \in Bos, HandleCreate(b) PROVE GemInvAt(c)'
  BY <1>0, <1>9 DEF GemInvAt, HandleCreate
<1>10. ASSUME NEW b \in Bos, CreateReturn(b) PROVE GemInvAt(c)'
  BY <1>0, <1>10 DEF GemInvAt, CreateReturn
<1>11. ASSUME NEW b \in Bos, CreateFail(b) PROVE GemInvAt(c)'
  BY <1>0, <1>11 DEF GemInvAt, CreateFail
<1>12. ASSUME NEW b \in Bos, Unmap(b) PROVE GemInvAt(c)'
  BY <1>0, <1>12 DEF GemInvAt, Unmap, undo
<1>13. ASSUME NEW b \in Bos, RemoveNode(b) PROVE GemInvAt(c)'
  BY <1>0, <1>13 DEF GemInvAt, RemoveNode, undo
<1>14. ASSUME NEW b \in Bos, PutDomain(b) PROVE GemInvAt(c)'
  BY <1>0, <1>14 DEF GemInvAt, PutDomain, put_domain
<1>15. ASSUME NEW b \in Bos, HandleDelete(b) PROVE GemInvAt(c)'
  BY <1>0, <1>15 DEF GemInvAt, HandleDelete, drop_gemref
<1>16. ASSUME NEW b \in Bos, Export(b) PROVE GemInvAt(c)'
  BY <1>0, <1>16 DEF GemInvAt, Export
<1>17. ASSUME NEW b \in Bos, DmabufRelease(b) PROVE GemInvAt(c)'
  BY <1>0, <1>17 DEF GemInvAt, DmabufRelease, drop_gemref
<1>18. CASE UNCHANGED <<pc, gemref, handle, exported>>
  BY <1>0, <1>18 DEF GemInvAt
<1>19. ASSUME NEW s \in Slots, CloseDomain(s) PROVE GemInvAt(c)'
  BY <1>18, <1>19 DEF CloseDomain
<1>20. ASSUME CloseBegin \/ CloseHandlesDone \/ CloseDone PROVE GemInvAt(c)'
  BY <1>18, <1>20 DEF CloseBegin, CloseHandlesDone, CloseDone
<1>21. CASE UNCHANGED vars
  BY <1>18, <1>21 DEF vars
<1> QED
  BY <1>1, <1>2, <1>3, <1>4, <1>5, <1>6, <1>7, <1>8, <1>9, <1>10, <1>11,
     <1>12, <1>13, <1>14, <1>15, <1>16, <1>17, <1>18, <1>19, <1>20, <1>21
     DEF Next, Rest

\* The references of a domain.
LEMMA RefInvStep ==
  ASSUME IndInv, [Next]_vars PROVE RefInv'
<1> USE DEF userVars, poolVars, mapVars, gemVars, Goto
<1> SUFFICES ASSUME NEW q \in Objs PROVE RefInvAt(q)'
  BY DEF RefInv
<1>0. /\ cand \in [Users -> Objs \cup {NULL}] /\ dom \in [Users -> Objs \cup {NULL}]
      /\ table \in [Slots -> Objs \cup {NULL}] /\ kref \in [Objs -> Nat]
      /\ slot \in [Users -> Slots]
      /\ RefInvAt(q) /\ (\A u \in Users : PlaceInvAt(u))
      /\ (\A b \in Bos : b \in Users /\ b \notin Jobs)
      /\ (\A j \in Jobs : j \in Users /\ j \notin Bos)
      /\ NULL \notin Objs
  BY UserSets DEF IndInv, TypeOK, PlaceInv, RefInv
<1>k. ASSUME UNCHANGED <<cand, dom, table, kref>> PROVE RefInvAt(q)'
  <2>1. /\ Holders(q)' = Holders(q) /\ SlotsOf(q)' = SlotsOf(q) /\ kref'[q] = kref[q]
    BY <1>k DEF Holders, SlotsOf
  <2> QED
    BY <1>0, <2>1, RefKept
<1>1. ASSUME NEW u \in Users, NEW id \in DomainIds, GetLookup(u, id)
      PROVE  RefInvAt(q)'
  <2>0. pool_slot(id) \in Slots
    BY PoolSlot
  <2> DEFINE d == table[pool_slot(id)]
  <2>1. dom[u] = NULL /\ cand[u] = NULL
    BY <1>0, <1>1 DEF GetLookup, PlaceInvAt, HasDomain, Noded, Mapped
  <2>2. CASE d = q
    <3>1. /\ u \notin Holders(q) /\ Holders(q)' = Holders(q) \cup {u}
          /\ SlotsOf(q)' = SlotsOf(q) /\ kref'[q] = kref[q] + 1
      BY <1>0, <1>1, <2>0, <2>1, <2>2 DEF GetLookup, Holders, SlotsOf
    <3> QED
      BY <1>0, <3>1, RefTaken
  <2>3. CASE d # q
    <3>1. Holders(q)' = Holders(q) /\ SlotsOf(q)' = SlotsOf(q) /\ kref'[q] = kref[q]
      BY <1>0, <1>1, <2>0, <2>1, <2>3 DEF GetLookup, Holders, SlotsOf
    <3> QED
      BY <1>0, <3>1, RefKept
  <2> QED
    BY <2>2, <2>3
<1>2. ASSUME NEW u \in Users, NEW o \in Objs, GetCreate(u, o)
      PROVE  RefInvAt(q)'
  <2>1. dom[u] = NULL /\ cand[u] = NULL
    BY <1>0, <1>2 DEF GetCreate, PlaceInvAt, HasDomain, Noded, Mapped
  <2>2. CASE o = q
    <3>1. /\ u \notin Holders(q) /\ Holders(q)' = Holders(q) \cup {u}
          /\ SlotsOf(q)' = SlotsOf(q) /\ kref'[q] = kref[q] + 1
      BY <1>0, <1>2, <2>1, <2>2 DEF GetCreate, Holders, SlotsOf
    <3> QED
      BY <1>0, <3>1, RefTaken
  <2>3. CASE o # q
    <3>1. Holders(q)' = Holders(q) /\ SlotsOf(q)' = SlotsOf(q) /\ kref'[q] = kref[q]
      BY <1>0, <1>2, <2>1, <2>3 DEF GetCreate, Holders, SlotsOf
    <3> QED
      BY <1>0, <3>1, RefKept
  <2> QED
    BY <2>2, <2>3
<1>3. ASSUME NEW u \in Users, GetInstall(u) PROVE RefInvAt(q)'
  <2> DEFINE o == cand[u]
             d == table[slot[u]]
  <2>0. dom[u] = NULL /\ o \in Objs /\ slot[u] \in Slots /\ d \in Objs \cup {NULL}
    BY <1>0, <1>3 DEF GetInstall, PlaceInvAt, HasDomain, Noded, Mapped
  <2>1. CASE d = NULL
    <3>1. Holders(q)' = Holders(q)
      BY <1>0, <1>3, <2>0, <2>1 DEF GetInstall, Holders
    <3>2. CASE o = q
      <4>1. /\ slot[u] \notin SlotsOf(q) /\ SlotsOf(q)' = SlotsOf(q) \cup {slot[u]}
            /\ kref'[q] = kref[q] + 1
        BY <1>0, <1>3, <2>0, <2>1, <3>2 DEF GetInstall, SlotsOf
      <4> QED
        BY <1>0, <2>0, <3>1, <4>1, RefInstalled
    <3>3. CASE o # q
      <4>1. SlotsOf(q)' = SlotsOf(q) /\ kref'[q] = kref[q]
        BY <1>0, <1>3, <2>0, <2>1, <3>3 DEF GetInstall, SlotsOf
      <4> QED
        BY <1>0, <3>1, <4>1, RefKept
    <3> QED
      BY <3>2, <3>3
  <2>2. CASE d # NULL
    <3>0. /\ kref' = [kref EXCEPT ![d] = @ + 1, ![o] = @ - 1]
          /\ dom' = [dom EXCEPT ![u] = d] /\ cand' = [cand EXCEPT ![u] = NULL]
          /\ d \in Objs
      BY <1>3, <2>0, <2>2 DEF GetInstall
    <3>1. SlotsOf(q)' = SlotsOf(q)
      BY <1>3, <2>2 DEF GetInstall, SlotsOf
    <3> HIDE DEF d, o
    <3>2. CASE d = q /\ o # q
      <4>1. u \notin Holders(q) /\ Holders(q)' = Holders(q) \cup {u}
        BY <1>0, <2>0, <3>0, <3>2 DEF Holders, o
      <4>2. kref'[q] = kref[q] + 1
        BY <1>0, <2>0, <3>0, <3>2
      <4> QED
        BY <1>0, <3>1, <4>1, <4>2, RefTaken
    <3>3. CASE d # q /\ o = q
      <4>1. u \in Holders(q) /\ Holders(q)' = Holders(q) \ {u}
        BY <1>0, <2>0, <3>0, <3>3 DEF Holders, o
      <4>2. kref'[q] = kref[q] - 1
        BY <1>0, <2>0, <3>0, <3>3
      <4> QED
        BY <1>0, <3>1, <4>1, <4>2, RefPut
    <3>4. CASE (d = q /\ o = q) \/ (d # q /\ o # q)
      <4>1. Holders(q)' = Holders(q)
        BY <1>0, <2>0, <3>0, <3>4 DEF Holders, o
      <4>2. kref'[q] = kref[q]
        BY <1>0, <2>0, <3>0, <3>4
      <4> QED
        BY <1>0, <3>1, <4>1, <4>2, RefKept
    <3> QED
      BY <3>2, <3>3, <3>4
  <2> QED
    BY <2>1, <2>2
<1>4. ASSUME NEW j \in Jobs, JobCleanup(j) PROVE RefInvAt(q)'
  <2>0. dom[j] \in Objs /\ dom[j] # NULL /\ cand[j] = NULL
    BY <1>0, <1>4 DEF JobCleanup, PlaceInvAt, HasDomain, Noded, Mapped
  <2>1. CASE q = dom[j]
    <3>1. /\ j \in Holders(q) /\ Holders(q)' = Holders(q) \ {j}
          /\ SlotsOf(q)' = SlotsOf(q) /\ kref'[q] = kref[q] - 1
      BY <1>0, <1>4, <2>0, <2>1 DEF JobCleanup, put_domain, Holders, SlotsOf
    <3> QED
      BY <1>0, <3>1, RefPut
  <2>2. CASE q # dom[j]
    <3>1. /\ Holders(q)' = Holders(q) /\ SlotsOf(q)' = SlotsOf(q) /\ kref'[q] = kref[q]
      BY <1>0, <1>4, <2>0, <2>2 DEF JobCleanup, put_domain, Holders, SlotsOf
    <3> QED
      BY <1>0, <3>1, RefKept
  <2> QED
    BY <2>1, <2>2
<1>5. ASSUME NEW b \in Bos, PutDomain(b) PROVE RefInvAt(q)'
  <2>0. dom[b] \in Objs /\ dom[b] # NULL /\ cand[b] = NULL
    BY <1>0, <1>5 DEF PutDomain, PlaceInvAt, HasDomain, Noded, Mapped
  <2>1. CASE q = dom[b]
    <3>1. /\ b \in Holders(q) /\ Holders(q)' = Holders(q) \ {b}
          /\ SlotsOf(q)' = SlotsOf(q) /\ kref'[q] = kref[q] - 1
      BY <1>0, <1>5, <2>0, <2>1 DEF PutDomain, put_domain, Holders, SlotsOf
    <3> QED
      BY <1>0, <3>1, RefPut
  <2>2. CASE q # dom[b]
    <3>1. /\ Holders(q)' = Holders(q) /\ SlotsOf(q)' = SlotsOf(q) /\ kref'[q] = kref[q]
      BY <1>0, <1>5, <2>0, <2>2 DEF PutDomain, put_domain, Holders, SlotsOf
    <3> QED
      BY <1>0, <3>1, RefKept
  <2> QED
    BY <2>1, <2>2
<1>6. ASSUME NEW s \in Slots, CloseDomain(s) PROVE RefInvAt(q)'
  <2>1. Holders(q)' = Holders(q)
    BY <1>6 DEF CloseDomain, Holders
  <2>2. CASE table[s] = q
    <3>1. /\ s \in SlotsOf(q) /\ SlotsOf(q)' = SlotsOf(q) \ {s}
          /\ kref'[q] = kref[q] - 1
      BY <1>0, <1>6, <2>2 DEF CloseDomain, SlotsOf
    <3> QED
      BY <1>0, <2>1, <3>1, RefUninstalled
  <2>3. CASE table[s] # q
    <3>1. SlotsOf(q)' = SlotsOf(q) /\ kref'[q] = kref[q]
      BY <1>0, <1>6, <2>3 DEF CloseDomain, SlotsOf
    <3> QED
      BY <1>0, <2>1, <3>1, RefKept
  <2> QED
    BY <2>2, <2>3
<1>7. CASE UNCHANGED <<cand, dom, table, kref>>
  BY <1>k, <1>7
<1>8. ASSUME NEW u \in Users, GetCreateFail(u) PROVE RefInvAt(q)'
  BY <1>7, <1>8 DEF GetCreateFail
<1>9. ASSUME NEW b \in Bos,
             \/ Pages(b) \/ (\E fits \in BOOLEAN : Map(b, fits)) \/ HandleCreate(b)
             \/ CreateReturn(b) \/ CreateFail(b) \/ Unmap(b)
      PROVE  RefInvAt(q)'
  BY <1>7, <1>9 DEF Pages, Map, HandleCreate, CreateReturn, CreateFail, Unmap,
     undo
<1>10. ASSUME NEW b \in Bos,
             \/ RemoveNode(b) \/ HandleDelete(b)
             \/ Export(b) \/ DmabufRelease(b)
      PROVE  RefInvAt(q)'
  BY <1>7, <1>10 DEF RemoveNode, undo, HandleDelete, drop_gemref,
     Export, DmabufRelease
<1>11. ASSUME NEW b \in Bos, NEW a \in Aperture, Insert(b, a)
      PROVE  RefInvAt(q)'
  BY <1>7, <1>11 DEF Insert
<1>12. ASSUME CloseBegin \/ CloseHandlesDone \/ CloseDone PROVE RefInvAt(q)'
  BY <1>7, <1>12 DEF CloseBegin, CloseHandlesDone, CloseDone
<1>13. CASE UNCHANGED vars
  BY <1>7, <1>13 DEF vars
<1> QED
  BY <1>1, <1>2, <1>3, <1>4, <1>5, <1>6, <1>7, <1>8, <1>9, <1>10, <1>11,
     <1>12, <1>13
     DEF Next, Rest

\* All holders of a slot's domain agree on it.
LEMMA SlotStep ==
  ASSUME IndInv, [Next]_vars PROVE OneDomainPerSlot'
<1> USE DEF userVars, poolVars, mapVars, gemVars, Goto
<1> SUFFICES ASSUME NEW v \in Users PROVE
        (closing \in {"open", "handles"} => (dom[v] # NULL => table[slot[v]] = dom[v]))'
  BY DEF OneDomainPerSlot
<1> DEFINE G == closing \in {"open", "handles"} => (dom[v] # NULL => table[slot[v]] = dom[v])
<1> SUFFICES G'
  OBVIOUS
<1>0. /\ cand \in [Users -> Objs \cup {NULL}] /\ dom \in [Users -> Objs \cup {NULL}]
      /\ table \in [Slots -> Objs \cup {NULL}] /\ slot \in [Users -> Slots]
      /\ G
      /\ (\A b \in Bos : b \in Users) /\ (\A j \in Jobs : j \in Users)
      /\ (\A id \in DomainIds : pool_slot(id) \in Slots)
      /\ NULL \notin Objs
  BY UserSets, PoolSlot DEF IndInv, TypeOK, OneDomainPerSlot
<1>1. ASSUME NEW u \in Users, NEW id \in DomainIds, GetLookup(u, id) PROVE G'
  <2>1. pool_slot(id) \in Slots /\ UNCHANGED <<table, closing>>
    BY <1>0, <1>1 DEF GetLookup
  <2>2. CASE v = u
    BY <1>0, <1>1, <2>1, <2>2 DEF GetLookup, IndInv, PlaceInv, PlaceInvAt, HasDomain, Noded, Mapped
  <2>3. CASE v # u
    BY <1>0, <1>1, <2>1, <2>3 DEF GetLookup
  <2> QED
    BY <2>2, <2>3
<1>2. ASSUME NEW u \in Users, GetInstall(u) PROVE G'
  BY <1>0, <1>2 DEF GetInstall, AfterGet
<1>3. ASSUME NEW j \in Jobs, JobCleanup(j) PROVE G'
  BY <1>0, <1>3 DEF JobCleanup, put_domain
<1>4. ASSUME NEW b \in Bos, PutDomain(b) PROVE G'
  BY <1>0, <1>4 DEF PutDomain, put_domain
<1>5. ASSUME NEW s \in Slots, CloseDomain(s) PROVE G'
  BY <1>0, <1>5 DEF CloseDomain
<1>6. ASSUME CloseBegin PROVE G'
  BY <1>0, <1>6 DEF CloseBegin
<1>7. ASSUME CloseHandlesDone PROVE G'
  BY <1>0, <1>7 DEF CloseHandlesDone
<1>8. ASSUME CloseDone PROVE G'
  BY <1>0, <1>8 DEF CloseDone
<1>9. CASE UNCHANGED <<dom, table, slot, closing>>
  BY <1>0, <1>9
<1>10. ASSUME NEW u \in Users, NEW o \in Objs, GetCreate(u, o) PROVE G'
  BY <1>9, <1>10 DEF GetCreate
<1>11. ASSUME NEW u \in Users, GetCreateFail(u) PROVE G'
  BY <1>9, <1>11 DEF GetCreateFail
<1>12. ASSUME NEW b \in Bos,
             \/ Pages(b) \/ (\E fits \in BOOLEAN : Map(b, fits)) \/ HandleCreate(b)
             \/ CreateReturn(b) \/ CreateFail(b) \/ Unmap(b)
      PROVE  G'
  BY <1>9, <1>12 DEF Pages, Map, HandleCreate, CreateReturn, CreateFail,
     Unmap, undo
<1>13. ASSUME NEW b \in Bos,
             \/ RemoveNode(b) \/ HandleDelete(b)
             \/ Export(b) \/ DmabufRelease(b)
      PROVE  G'
  BY <1>9, <1>13 DEF RemoveNode, undo, HandleDelete, drop_gemref,
     Export, DmabufRelease
<1>14. ASSUME NEW b \in Bos, NEW a \in Aperture, Insert(b, a) PROVE G'
  BY <1>9, <1>14 DEF Insert
<1>15. CASE UNCHANGED vars
  BY <1>9, <1>15 DEF vars
<1> QED
  BY <1>1, <1>2, <1>3, <1>4, <1>5, <1>6, <1>7, <1>8, <1>9, <1>10, <1>11,
     <1>12, <1>13, <1>14, <1>15
     DEF Next, Rest

\* A domain without references has no buffer in it.
LEMMA Unreferenced ==
  ASSUME IndInv, NEW o \in Objs, kref[o] = 0
  PROVE  /\ mm[o] = {} /\ \A n \in pgtbl[o] : n[2] \in left
         /\ \A u \in Users : dom[u] # o
<1>1. Holders(o) = {}
  BY HolderCounted DEF IndInv, RefInv, RefInvAt
<1>2. \A u \in Users : dom[u] # o
  BY <1>1 DEF Holders
<1>3. /\ mm[o] \in SUBSET (Aperture \X Bos) /\ NodeInvAt(o)
  BY DEF IndInv, TypeOK, NodeInv
<1>4. \A n \in mm[o] : n[2] \in Users
  BY <1>3, UserSets
<1> QED
  BY <1>2, <1>3, <1>4 DEF NodeInvAt

\* The entries of a domain's drm_mm and page table.
LEMMA NodeInvStep ==
  ASSUME IndInv, [Next]_vars PROVE NodeInv'
<1> USE DEF userVars, poolVars, mapVars, gemVars, Goto
<1> SUFFICES ASSUME NEW q \in Objs PROVE NodeInvAt(q)'
  BY DEF NodeInv
<1>0. /\ pc \in [Users -> PCs] /\ dom \in [Users -> Objs \cup {NULL}]
      /\ addr \in [Bos -> Aperture \cup {NULL}]
      /\ mm \in [Objs -> SUBSET (Aperture \X Bos)]
      /\ pgtbl \in [Objs -> SUBSET (Aperture \X Bos)]
      /\ NodeInvAt(q) /\ mm[q] \in SUBSET (Aperture \X Bos) /\ pgtbl[q] \in SUBSET (Aperture \X Bos)
      /\ (\A b \in Bos : PlaceInvAt(b) /\ GemInvAt(b) /\ b \in Users /\ b \notin Jobs)
      /\ (\A j \in Jobs : j \in Users /\ j \notin Bos)
      /\ NULL \notin Objs
  BY UserSets DEF IndInv, TypeOK, PlaceInv, GemInv, NodeInv, BoInv, PCs
<1>1. ASSUME NEW u \in Users, NEW id \in DomainIds, GetLookup(u, id)
      PROVE  NodeInvAt(q)'
  BY <1>0, <1>1 DEF NodeInvAt, PlaceInvAt, GemInvAt, Noded, Mapped, HasDomain,
         GetLookup, AfterGet
<1>2. ASSUME NEW u \in Users, GetCreateFail(u) PROVE NodeInvAt(q)'
  BY <1>0, <1>2 DEF NodeInvAt, PlaceInvAt, GemInvAt, Noded, Mapped, HasDomain,
         GetCreateFail
<1>3. ASSUME NEW u \in Users, GetInstall(u) PROVE NodeInvAt(q)'
  BY <1>0, <1>3 DEF NodeInvAt, PlaceInvAt, GemInvAt, Noded, Mapped, HasDomain,
         GetInstall, AfterGet
<1>4. ASSUME NEW j \in Jobs, JobCleanup(j) PROVE NodeInvAt(q)'
  BY <1>0, <1>4 DEF NodeInvAt, PlaceInvAt, GemInvAt, Noded, Mapped, HasDomain,
         JobCleanup, put_domain
<1>5. ASSUME NEW b \in Bos, Pages(b) PROVE NodeInvAt(q)'
  BY <1>0, <1>5 DEF NodeInvAt, PlaceInvAt, GemInvAt, Noded, Mapped, HasDomain,
         Pages
<1>6. ASSUME NEW b \in Bos, CreateReturn(b) PROVE NodeInvAt(q)'
  BY <1>0, <1>6 DEF NodeInvAt, PlaceInvAt, GemInvAt, Noded, Mapped, HasDomain,
         CreateReturn
<1>7. ASSUME NEW b \in Bos, CreateFail(b) PROVE NodeInvAt(q)'
  BY <1>0, <1>7 DEF NodeInvAt, PlaceInvAt, GemInvAt, Noded, Mapped, HasDomain,
         CreateFail
<1>8. ASSUME NEW b \in Bos, HandleCreate(b) PROVE NodeInvAt(q)'
  BY <1>0, <1>8 DEF NodeInvAt, PlaceInvAt, GemInvAt, Noded, Mapped, HasDomain,
         HandleCreate
<1>9. ASSUME NEW b \in Bos, PutDomain(b) PROVE NodeInvAt(q)'
  BY <1>0, <1>9 DEF NodeInvAt, PlaceInvAt, GemInvAt, Noded, Mapped, HasDomain,
         PutDomain, put_domain
<1>10. ASSUME NEW b \in Bos, HandleDelete(b) PROVE NodeInvAt(q)'
  BY <1>0, <1>10 DEF NodeInvAt, PlaceInvAt, GemInvAt, Noded, Mapped,
         HasDomain, HandleDelete, drop_gemref
<1>11. ASSUME NEW b \in Bos, DmabufRelease(b) PROVE NodeInvAt(q)'
  BY <1>0, <1>11 DEF NodeInvAt, PlaceInvAt, GemInvAt, Noded, Mapped,
         HasDomain, DmabufRelease, drop_gemref
<1>12. ASSUME NEW u \in Users, NEW o \in Objs, GetCreate(u, o)
      PROVE  NodeInvAt(q)'
  <2>1. CASE o = q
    BY <1>0, <1>12, <2>1 DEF GetCreate, NodeInvAt
  <2>2. CASE o # q
    BY <1>0, <1>12, <2>2 DEF GetCreate, NodeInvAt, PlaceInvAt, HasDomain, Noded, Mapped
  <2> QED
    BY <2>1, <2>2
<1>13. ASSUME NEW b \in Bos, NEW a \in Aperture, Insert(b, a)
      PROVE  NodeInvAt(q)'
  <2>0. dom[b] \in Objs /\ b \in Users /\ pc[b] = "insert"
    BY <1>0, <1>13 DEF Insert, PlaceInvAt, HasDomain, Noded, Mapped
  <2>1. \A n \in mm[q] : n[2] \in Bos /\ n[2] # b
    BY <1>0, <2>0 DEF NodeInvAt, Noded, Mapped
  <2>2. \A n \in pgtbl[q] : n[2] \in left \/ n \in mm[q]
    BY <1>0 DEF NodeInvAt
  <2>3. CASE dom[b] # q
    BY <1>0, <1>13, <2>0, <2>1, <2>2, <2>3 DEF Insert, NodeInvAt, Noded, Mapped
  <2>4. CASE dom[b] = q
    <3>1. /\ mm'[q] = mm[q] \cup {<<a, b>>} /\ pgtbl'[q] = pgtbl[q] /\ addr'[b] = a
          /\ dom' = dom /\ left' = left
      BY <1>0, <1>13, <2>4 DEF Insert
    <3>2. \A c \in Bos : c # b => addr'[c] = addr[c] /\ pc'[c] = pc[c]
      BY <1>0, <1>13 DEF Insert
    <3>3. pc'[b] \in Noded
      BY <1>0, <1>13, <2>0 DEF Insert, Noded
    <3>4. \A n \in mm[q] : n[1] # a
      BY <1>13, <2>4 DEF Insert
    <3>5. \A n \in mm'[q] : /\ n = <<addr'[n[2]], n[2]>> /\ dom'[n[2]] = q
                            /\ pc'[n[2]] \in Noded
      BY <1>0, <2>1, <2>4, <3>1, <3>2, <3>3 DEF NodeInvAt
    <3>6. \A m, n \in mm'[q] : m[1] = n[1] => m = n
      BY <1>0, <3>1, <3>4 DEF NodeInvAt
    <3>7. \A n \in pgtbl'[q] : n[2] \in left' \/ (n \in mm'[q] /\ pc'[n[2]] \in Mapped)
      BY <1>0, <2>1, <2>2, <3>1, <3>2 DEF NodeInvAt
    <3> QED
      BY <3>5, <3>6, <3>7 DEF NodeInvAt
  <2> QED
    BY <2>3, <2>4
<1>14. ASSUME NEW b \in Bos, NEW fits \in BOOLEAN, Map(b, fits) PROVE NodeInvAt(q)'
  <2>1. BoInvAt(b) /\ pc[b] = "map" /\ dom[b] \in Objs
    BY <1>0, <1>14 DEF Map, IndInv, BoInv, PlaceInvAt, HasDomain, Noded
  <2> QED
    BY <1>0, <1>14, <2>1 DEF Map, NodeInvAt, BoInvAt, Noded, Mapped
<1>15. ASSUME NEW b \in Bos, Unmap(b) PROVE NodeInvAt(q)'
  BY <1>0, <1>15 DEF NodeInvAt, PlaceInvAt, GemInvAt, Noded, Mapped,
         HasDomain, Unmap, undo
<1>16. ASSUME NEW b \in Bos, RemoveNode(b) PROVE NodeInvAt(q)'
  BY <1>0, <1>16 DEF NodeInvAt, PlaceInvAt, GemInvAt, Noded, Mapped,
         HasDomain, RemoveNode, undo
<1>17. CASE UNCHANGED <<pc, dom, addr, mm, pgtbl, left>>
  BY <1>0, <1>17 DEF NodeInvAt
<1>18. ASSUME NEW b \in Bos, Export(b) PROVE NodeInvAt(q)'
  BY <1>17, <1>18 DEF Export
<1>19. ASSUME NEW s \in Slots, CloseDomain(s) PROVE NodeInvAt(q)'
  BY <1>17, <1>19 DEF CloseDomain
<1>20. ASSUME CloseBegin \/ CloseHandlesDone \/ CloseDone PROVE NodeInvAt(q)'
  BY <1>17, <1>20 DEF CloseBegin, CloseHandlesDone, CloseDone
<1>21. CASE UNCHANGED vars
  BY <1>17, <1>21 DEF vars
<1> QED
  BY <1>1, <1>2, <1>3, <1>4, <1>5, <1>6, <1>7, <1>8, <1>9, <1>10, <1>11,
     <1>12, <1>13, <1>14, <1>15, <1>16, <1>17, <1>18, <1>19, <1>20, <1>21
     DEF Next, Rest

\* The address and the mapping of a buffer.
LEMMA BoInvStep ==
  ASSUME IndInv, [Next]_vars PROVE BoInv'
<1> USE DEF userVars, poolVars, mapVars, gemVars, Goto
<1> SUFFICES ASSUME NEW c \in Bos PROVE BoInvAt(c)'
  BY DEF BoInv
<1>0. /\ pc \in [Users -> PCs] /\ dom \in [Users -> Objs \cup {NULL}]
      /\ addr \in [Bos -> Aperture \cup {NULL}]
      /\ mm \in [Objs -> SUBSET (Aperture \X Bos)]
      /\ pgtbl \in [Objs -> SUBSET (Aperture \X Bos)]
      /\ BoInvAt(c) /\ c \in Users
      /\ (\A b \in Bos : PlaceInvAt(b) /\ GemInvAt(b) /\ b \in Users /\ b \notin Jobs)
      /\ (\A j \in Jobs : j \in Users /\ j \notin Bos)
      /\ NULL \notin Objs
  BY UserSets DEF IndInv, TypeOK, PlaceInv, GemInv, NodeInv, BoInv, PCs
<1>1. ASSUME NEW u \in Users, NEW id \in DomainIds, GetLookup(u, id)
      PROVE  BoInvAt(c)'
  BY <1>0, <1>1 DEF BoInvAt, PlaceInvAt, GemInvAt, Noded, Mapped, HasDomain,
         GetLookup, AfterGet
<1>2. ASSUME NEW u \in Users, GetCreateFail(u) PROVE BoInvAt(c)'
  BY <1>0, <1>2 DEF BoInvAt, PlaceInvAt, GemInvAt, Noded, Mapped, HasDomain,
         GetCreateFail
<1>3. ASSUME NEW u \in Users, GetInstall(u) PROVE BoInvAt(c)'
  BY <1>0, <1>3 DEF BoInvAt, PlaceInvAt, GemInvAt, Noded, Mapped, HasDomain,
         GetInstall, AfterGet
<1>4. ASSUME NEW j \in Jobs, JobCleanup(j) PROVE BoInvAt(c)'
  BY <1>0, <1>4 DEF BoInvAt, PlaceInvAt, GemInvAt, Noded, Mapped, HasDomain,
         JobCleanup, put_domain
<1>5. ASSUME NEW b \in Bos, Pages(b) PROVE BoInvAt(c)'
  BY <1>0, <1>5 DEF BoInvAt, PlaceInvAt, GemInvAt, Noded, Mapped, HasDomain,
         Pages
<1>6. ASSUME NEW b \in Bos, CreateReturn(b) PROVE BoInvAt(c)'
  BY <1>0, <1>6 DEF BoInvAt, PlaceInvAt, GemInvAt, Noded, Mapped, HasDomain,
         CreateReturn
<1>7. ASSUME NEW b \in Bos, CreateFail(b) PROVE BoInvAt(c)'
  BY <1>0, <1>7 DEF BoInvAt, PlaceInvAt, GemInvAt, Noded, Mapped, HasDomain,
         CreateFail
<1>8. ASSUME NEW b \in Bos, HandleCreate(b) PROVE BoInvAt(c)'
  BY <1>0, <1>8 DEF BoInvAt, PlaceInvAt, GemInvAt, Noded, Mapped, HasDomain,
         HandleCreate
<1>9. ASSUME NEW b \in Bos, PutDomain(b) PROVE BoInvAt(c)'
  BY <1>0, <1>9 DEF BoInvAt, PlaceInvAt, GemInvAt, Noded, Mapped, HasDomain,
         PutDomain, put_domain
<1>10. ASSUME NEW b \in Bos, HandleDelete(b) PROVE BoInvAt(c)'
  BY <1>0, <1>10 DEF BoInvAt, PlaceInvAt, GemInvAt, Noded, Mapped, HasDomain,
         HandleDelete, drop_gemref
<1>11. ASSUME NEW b \in Bos, DmabufRelease(b) PROVE BoInvAt(c)'
  BY <1>0, <1>11 DEF BoInvAt, PlaceInvAt, GemInvAt, Noded, Mapped, HasDomain,
         DmabufRelease, drop_gemref
<1>12. ASSUME NEW u \in Users, NEW o \in Objs, GetCreate(u, o)
      PROVE  BoInvAt(c)'
  <2>1. \A v \in Users : dom[v] # o
    BY <1>12, Unreferenced DEF GetCreate
  <2> QED
    BY <1>0, <1>12, <2>1 DEF GetCreate, BoInvAt, PlaceInvAt, HasDomain, Noded, Mapped
<1>13. ASSUME NEW b \in Bos, NEW a \in Aperture, Insert(b, a) PROVE BoInvAt(c)'
  BY <1>0, <1>13 DEF BoInvAt, PlaceInvAt, GemInvAt, Noded, Mapped, HasDomain,
         Insert
<1>14. ASSUME NEW b \in Bos, NEW fits \in BOOLEAN, Map(b, fits) PROVE BoInvAt(c)'
  BY <1>0, <1>14 DEF BoInvAt, PlaceInvAt, GemInvAt, Noded, Mapped, HasDomain,
         Map
<1>15. ASSUME NEW b \in Bos, Unmap(b) PROVE BoInvAt(c)'
  <2>1. /\ pc[b] \in {"err_unmap", "unmap"} /\ b \in Users /\ dom[b] \in Objs
        /\ BoInvAt(b)
    BY <1>0, <1>15 DEF Unmap, IndInv, BoInv, PlaceInvAt, HasDomain, Noded, Mapped
  <2>2. CASE c = b
    BY <1>0, <1>15, <2>1, <2>2 DEF BoInvAt, Noded, Mapped, Unmap, undo
  <2>3. CASE c # b
    <3>1. /\ pc'[c] = pc[c] /\ UNCHANGED <<dom, addr, mm>>
          /\ pgtbl' = [pgtbl EXCEPT ![dom[b]] = {n \in @ : n[1] # addr[b]}]
      BY <1>0, <1>15, <2>3 DEF Unmap, undo
    <3>2. CASE pc[c] \notin Mapped
      BY <1>0, <3>1, <3>2 DEF BoInvAt, Noded
    <3>3. CASE pc[c] \in Mapped
      <4>1. /\ <<addr[c], c>> \in mm[dom[c]] /\ <<addr[c], c>> \in pgtbl[dom[c]]
            /\ <<addr[b], b>> \in mm[dom[b]]
        BY <1>0, <2>1, <3>3 DEF BoInvAt, Noded, Mapped
      <4>2. dom[c] = dom[b] => addr[c] # addr[b]
        BY <2>1, <2>3, <4>1 DEF IndInv, NodeInv, NodeInvAt
      <4>3. dom[c] \in Objs
        BY <1>0, <3>3 DEF PlaceInvAt, HasDomain, Noded
      <4>4. <<addr[c], c>> \in pgtbl'[dom[c]]
        <5>1. CASE dom[c] = dom[b]
          BY <1>0, <3>1, <4>1, <4>2, <4>3, <5>1
        <5>2. CASE dom[c] # dom[b]
          BY <1>0, <3>1, <4>1, <4>3, <5>2
        <5> QED
          BY <5>1, <5>2
      <4> QED
        BY <1>0, <3>1, <4>1, <4>4 DEF BoInvAt
    <3> QED
      BY <3>2, <3>3
  <2> QED
    BY <2>2, <2>3
<1>16. ASSUME NEW b \in Bos, RemoveNode(b) PROVE BoInvAt(c)'
  BY <1>0, <1>16 DEF BoInvAt, PlaceInvAt, GemInvAt, Noded, Mapped, HasDomain,
         RemoveNode, undo
<1>17. CASE UNCHANGED <<pc, dom, addr, mm, pgtbl>>
  BY <1>0, <1>17 DEF BoInvAt
<1>18. ASSUME NEW b \in Bos, Export(b) PROVE BoInvAt(c)'
  BY <1>17, <1>18 DEF Export
<1>19. ASSUME NEW s \in Slots, CloseDomain(s) PROVE BoInvAt(c)'
  BY <1>17, <1>19 DEF CloseDomain
<1>20. ASSUME CloseBegin \/ CloseHandlesDone \/ CloseDone PROVE BoInvAt(c)'
  BY <1>17, <1>20 DEF CloseBegin, CloseHandlesDone, CloseDone
<1>21. CASE UNCHANGED vars
  BY <1>17, <1>21 DEF vars
<1> QED
  BY <1>1, <1>2, <1>3, <1>4, <1>5, <1>6, <1>7, <1>8, <1>9, <1>10, <1>11,
     <1>12, <1>13, <1>14, <1>15, <1>16, <1>17, <1>18, <1>19, <1>20, <1>21
     DEF Next, Rest

\* Types.  That kref and gemref stay natural is what RefInv and GemInv are for.
LEMMA TypeOKStep ==
  ASSUME IndInv, [Next]_vars PROVE TypeOK'
<1> USE DEF userVars, poolVars, mapVars, gemVars, Goto
<1>0. /\ TypeOK /\ (\A u \in Users : PlaceInvAt(u)) /\ (\A b \in Bos : GemInvAt(b))
      /\ (\A b \in Bos : b \in Users) /\ (\A j \in Jobs : j \in Users)
      /\ (\A id \in DomainIds : pool_slot(id) \in Slots)
      /\ NULL \notin Objs
  BY UserSets, PoolSlot DEF IndInv, PlaceInv, GemInv
<1>g. GemInv'
  BY GemInvStep
<1>h. \A o \in Objs : (\E u \in Users : dom[u] = o \/ cand[u] = o) => kref[o] > 0
  <2> SUFFICES ASSUME NEW o \in Objs, NEW u \in Users, dom[u] = o \/ cand[u] = o
               PROVE  kref[o] > 0
    OBVIOUS
  <2>1. Holders(o) # {} /\ RefInvAt(o)
    BY DEF Holders, IndInv, RefInv
  <2> QED
    BY <2>1, HolderCounted DEF RefInvAt
<1>s. \A s \in Slots : table[s] \in Objs => kref[table[s]] > 0
  <2> SUFFICES ASSUME NEW s \in Slots, table[s] \in Objs PROVE kref[table[s]] > 0
    OBVIOUS
  <2>1. SlotsOf(table[s]) # {} /\ RefInvAt(table[s])
    BY DEF SlotsOf, IndInv, RefInv
  <2> QED
    BY <2>1, HolderCounted DEF RefInvAt
<1>1. ASSUME NEW u \in Users, NEW id \in DomainIds, GetLookup(u, id)
      PROVE  TypeOK'
  BY <1>0, <1>1 DEF TypeOK, GetLookup, AfterGet
<1>2. ASSUME NEW u \in Users, NEW o \in Objs, GetCreate(u, o) PROVE TypeOK'
  BY <1>0, <1>2 DEF TypeOK, GetCreate
<1>3. ASSUME NEW u \in Users, GetCreateFail(u) PROVE TypeOK'
  BY <1>0, <1>3 DEF TypeOK, GetCreateFail
<1>4. ASSUME NEW u \in Users, GetInstall(u) PROVE TypeOK'
  <2> DEFINE o == cand[u]
             d == table[slot[u]]
  <2>0. dom[u] = NULL /\ o \in Objs /\ slot[u] \in Slots /\ d \in Objs \cup {NULL}
    BY <1>0, <1>4 DEF GetInstall, PlaceInvAt, HasDomain, Noded, Mapped, TypeOK
  <2>1. kref \in [Objs -> Nat] /\ kref[o] > 0
    BY <1>0, <1>h, <2>0 DEF TypeOK
  <2>2. kref' \in [Objs -> Nat]
    <3>1. CASE d = NULL
      BY <1>4, <2>0, <2>1, <3>1 DEF GetInstall
    <3>2. CASE d # NULL
      BY <1>4, <2>0, <2>1, <3>2 DEF GetInstall
    <3> QED
      BY <3>1, <3>2
  <2> QED
    BY <1>0, <1>4, <2>0, <2>2 DEF TypeOK, GetInstall, AfterGet
<1>5. ASSUME NEW j \in Jobs, JobCleanup(j) PROVE TypeOK'
  <2>0. dom[j] \in Objs
    BY <1>0, <1>5 DEF JobCleanup, PlaceInvAt, HasDomain, TypeOK
  <2>1. kref \in [Objs -> Nat] /\ kref[dom[j]] > 0
    BY <1>0, <1>h, <2>0 DEF TypeOK
  <2>2. kref' \in [Objs -> Nat]
    BY <1>5, <2>0, <2>1 DEF JobCleanup, put_domain
  <2> QED
    BY <1>0, <1>5, <2>2 DEF TypeOK, JobCleanup, put_domain
<1>6. ASSUME NEW b \in Bos, Pages(b) PROVE TypeOK'
  BY <1>0, <1>6 DEF TypeOK, Pages
<1>7. ASSUME NEW b \in Bos, NEW a \in Aperture, Insert(b, a) PROVE TypeOK'
  BY <1>0, <1>7 DEF TypeOK, PlaceInvAt, HasDomain, Noded, Mapped, Insert
<1>8. ASSUME NEW b \in Bos, NEW fits \in BOOLEAN, Map(b, fits) PROVE TypeOK'
  <2>1. dom[b] \in Objs /\ addr[b] \in Aperture
    BY <1>0, <1>8 DEF Map, TypeOK, IndInv, BoInv, BoInvAt, PlaceInvAt, HasDomain, Noded
  <2> QED
    BY <1>0, <1>8, <2>1 DEF TypeOK, Map
<1>9. ASSUME NEW b \in Bos, HandleCreate(b) PROVE TypeOK'
  <2>1. gemref' \in [Bos -> 0 .. 3]
    <3>1. \A c \in Bos : gemref'[c] \in 0 .. 3
      BY <1>g DEF GemInv, GemInvAt
    <3>2. gemref \in [Bos -> 0 .. 3] /\ gemref' = [c \in Bos |-> gemref'[c]]
      BY <1>0, <1>9 DEF TypeOK, HandleCreate
    <3> QED
      BY <3>1, <3>2
  <2> QED
    BY <1>0, <1>9, <2>1 DEF TypeOK, HandleCreate
<1>10. ASSUME NEW b \in Bos, CreateReturn(b) PROVE TypeOK'
  <2>1. gemref' \in [Bos -> 0 .. 3]
    <3>1. \A c \in Bos : gemref'[c] \in 0 .. 3
      BY <1>g DEF GemInv, GemInvAt
    <3>2. gemref \in [Bos -> 0 .. 3] /\ gemref' = [c \in Bos |-> gemref'[c]]
      BY <1>0, <1>10 DEF TypeOK, CreateReturn
    <3> QED
      BY <3>1, <3>2
  <2> QED
    BY <1>0, <1>10, <2>1 DEF TypeOK, CreateReturn
<1>11. ASSUME NEW b \in Bos, CreateFail(b) PROVE TypeOK'
  BY <1>0, <1>11 DEF TypeOK, CreateFail
<1>12. ASSUME NEW b \in Bos, Unmap(b) PROVE TypeOK'
  BY <1>0, <1>12 DEF TypeOK, PlaceInvAt, HasDomain, Noded, Mapped, Unmap,
         undo
<1>13. ASSUME NEW b \in Bos, RemoveNode(b) PROVE TypeOK'
  BY <1>0, <1>13 DEF TypeOK, PlaceInvAt, HasDomain, Noded, Mapped, RemoveNode,
         undo
<1>14. ASSUME NEW b \in Bos, PutDomain(b) PROVE TypeOK'
  <2>0. dom[b] \in Objs
    BY <1>0, <1>14 DEF PutDomain, PlaceInvAt, HasDomain, TypeOK
  <2>1. kref \in [Objs -> Nat] /\ kref[dom[b]] > 0
    BY <1>0, <1>h, <2>0 DEF TypeOK
  <2>2. kref' \in [Objs -> Nat]
    BY <1>14, <2>0, <2>1 DEF PutDomain, put_domain
  <2> QED
    BY <1>0, <1>14, <2>2 DEF TypeOK, PutDomain, put_domain
<1>15. ASSUME NEW b \in Bos, HandleDelete(b) PROVE TypeOK'
  <2>1. gemref' \in [Bos -> 0 .. 3]
    <3>1. \A c \in Bos : gemref'[c] \in 0 .. 3
      BY <1>g DEF GemInv, GemInvAt
    <3>2. gemref \in [Bos -> 0 .. 3] /\ gemref' = [c \in Bos |-> gemref'[c]]
      BY <1>0, <1>15 DEF TypeOK, HandleDelete, drop_gemref
    <3> QED
      BY <3>1, <3>2
  <2> QED
    BY <1>0, <1>15, <2>1 DEF TypeOK, HandleDelete, drop_gemref
<1>16. ASSUME NEW b \in Bos, Export(b) PROVE TypeOK'
  <2>1. gemref' \in [Bos -> 0 .. 3]
    <3>1. \A c \in Bos : gemref'[c] \in 0 .. 3
      BY <1>g DEF GemInv, GemInvAt
    <3>2. gemref \in [Bos -> 0 .. 3] /\ gemref' = [c \in Bos |-> gemref'[c]]
      BY <1>0, <1>16 DEF TypeOK, Export
    <3> QED
      BY <3>1, <3>2
  <2> QED
    BY <1>0, <1>16, <2>1 DEF TypeOK, Export
<1>17. ASSUME NEW b \in Bos, DmabufRelease(b) PROVE TypeOK'
  <2>1. gemref' \in [Bos -> 0 .. 3]
    <3>1. \A c \in Bos : gemref'[c] \in 0 .. 3
      BY <1>g DEF GemInv, GemInvAt
    <3>2. gemref \in [Bos -> 0 .. 3] /\ gemref' = [c \in Bos |-> gemref'[c]]
      BY <1>0, <1>17 DEF TypeOK, DmabufRelease, drop_gemref
    <3> QED
      BY <3>1, <3>2
  <2> QED
    BY <1>0, <1>17, <2>1 DEF TypeOK, DmabufRelease, drop_gemref
<1>18. ASSUME NEW s \in Slots, CloseDomain(s) PROVE TypeOK'
  <2>0. table[s] \in Objs
    BY <1>0, <1>18 DEF CloseDomain, TypeOK
  <2>1. kref \in [Objs -> Nat] /\ kref[table[s]] > 0
    BY <1>0, <1>s, <2>0 DEF TypeOK
  <2>2. kref' \in [Objs -> Nat]
    BY <1>18, <2>0, <2>1 DEF CloseDomain
  <2> QED
    BY <1>0, <1>18, <2>0, <2>2 DEF TypeOK, CloseDomain
<1>19. ASSUME CloseBegin PROVE TypeOK'
  BY <1>0, <1>19 DEF TypeOK, CloseBegin
<1>20. ASSUME CloseHandlesDone PROVE TypeOK'
  BY <1>0, <1>20 DEF TypeOK, CloseHandlesDone
<1>21. ASSUME CloseDone PROVE TypeOK'
  BY <1>0, <1>21 DEF TypeOK, CloseDone
<1>22. CASE UNCHANGED vars
  BY <1>0, <1>22 DEF TypeOK, vars
<1> QED
  BY <1>1, <1>2, <1>3, <1>4, <1>5, <1>6, <1>7, <1>8, <1>9, <1>10, <1>11,
     <1>12, <1>13, <1>14, <1>15, <1>16, <1>17, <1>18, <1>19, <1>20, <1>21,
     <1>22
     DEF Next, Rest

-----------------------------------------------------------------------------
(* The theorems.                                                            *)

\* An open file with an empty pool satisfies the invariant.
LEMMA InitInv == Init => IndInv
<1> SUFFICES ASSUME Init PROVE IndInv
  OBVIOUS
<1>1. TypeOK
  BY UserSets, GemAssumption DEF Init, TypeOK, Slots
<1>2. PlaceInv /\ GemInv
  BY UserSets DEF Init, PlaceInv, PlaceInvAt, GemInv, GemInvAt, HasDomain, Noded, Mapped
<1>3. RefInv
  <2> SUFFICES ASSUME NEW o \in Objs PROVE RefInvAt(o)
    BY DEF RefInv
  <2>1. Holders(o) = {} /\ SlotsOf(o) = {} /\ kref[o] = 0
    BY UserSets DEF Init, Holders, SlotsOf
  <2> QED
    BY <2>1, FS_EmptySet DEF RefInvAt
<1>4. NodeInv /\ BoInv
  BY UserSets DEF Init, NodeInv, NodeInvAt, BoInv, BoInvAt, Noded, Mapped
<1>5. OneDomainPerSlot
  BY DEF Init, OneDomainPerSlot
<1> QED
  BY <1>1, <1>2, <1>3, <1>4, <1>5 DEF IndInv

\* IndInv holds in every reachable state.
THEOREM Invariance == Spec => []IndInv
<1>1. IndInv /\ [Next]_vars => IndInv'
  BY TypeOKStep, PlaceInvStep, GemInvStep, RefInvStep, NodeInvStep, BoInvStep, SlotStep
     DEF IndInv
<1> QED
  BY <1>1, InitInv, PTL DEF Spec

\* Every variable keeps its type: no reference count of a domain or a buffer
\* goes below zero.
THEOREM TypeCorrect == Spec => []TypeOK
<1>1. IndInv => TypeOK
  BY DEF IndInv
<1> QED
  BY <1>1, Invariance, PTL

\* A domain's kref is exactly its slots in the pool plus the users that hold
\* it (rocket_iommu_domain_get and _put, MEM_CREATE's error ladder, the free of
\* a buffer, rocket_job_cleanup, rocket_iommu_domains_close).
THEOREM DomainReferences == Spec => []DomainRefExact
<1>1. IndInv => DomainRefExact
  BY DEF IndInv, RefInv, RefInvAt, DomainRefExact, SlotsOf
<1> QED
  BY <1>1, Invariance, PTL

\* However many threads race for the first use of a slot, they end up with one
\* domain (the second look of rocket_iommu_domain_get).
THEOREM SlotsAgree == Spec => []OneDomainPerSlot
<1>1. IndInv => OneDomainPerSlot
  BY DEF IndInv
<1> QED
  BY <1>1, Invariance, PTL

\* No two buffers are mapped at the same address of a domain, as long as none
\* of the two mappings was left behind by a truncated map result.
THEOREM MappingsAreDisjoint == Spec => []MappingsDisjoint
<1>1. IndInv => MappingsDisjoint
  BY DEF IndInv, NodeInv, NodeInvAt, MappingsDisjoint
<1> QED
  BY <1>1, Invariance, PTL

\* A mapping is covered by the allocator unless it was left behind, and is
\* there as long as its buffer has a handle or a dmabuf.
THEOREM ReachableIsMapped == Spec => []MappedWhileReachable
<1>1. IndInv => MappedWhileReachable
  <2> SUFFICES ASSUME IndInv PROVE MappedWhileReachable
    OBVIOUS
  <2>1. \A o \in Objs : \A n \in pgtbl[o] : n \in mm[o] \/ n[2] \in left
    BY DEF IndInv, NodeInv, NodeInvAt
  <2>2. \A b \in Bos : (handle[b] \/ exported[b]) => <<addr[b], b>> \in pgtbl[dom[b]]
    BY DEF IndInv, GemInv, GemInvAt, BoInv, BoInvAt, Mapped
  <2> QED
    BY <2>1, <2>2 DEF MappedWhileReachable
<1> QED
  BY <1>1, Invariance, PTL

\* A domain that has lost its last reference has no address in use, and no
\* mapping but what a truncated map result left behind.
THEOREM DestroyedIsEmpty == Spec => []DestroyedEmpty
<1>1. IndInv => DestroyedEmpty
  BY Unreferenced DEF DestroyedEmpty
<1> QED
  BY <1>1, Invariance, PTL
=============================================================================

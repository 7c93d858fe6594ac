------------------------------ MODULE RocketGem ------------------------------
(***************************************************************************)
(* Buffer objects and the IOMMU domain pool of one open file: MEM_CREATE,  *)
(* MEM_DESTROY and the free of a buffer (rkopnu_ioctl.c, rocket_gem.c),    *)
(* rocket_iommu_domain_get/put and the close of the pool (rocket_drv.c).   *)
(*                                                                         *)
(* Every MEM_CREATE runs in a thread of its own and is named by the buffer *)
(* it creates; a SUBMIT uses the pool the same way and is named by its     *)
(* job.  A step of the model is a section under one lock (domains_lock,    *)
(* mm_lock) or one call into the IOMMU, so every interleaving of threads   *)
(* between those is there.  Addresses are page slots of a domain's         *)
(* aperture, and a buffer takes one.                                       *)
(***************************************************************************)
EXTENDS Integers, FiniteSets

CONSTANTS
    Bos,                    \* buffers (struct rocket_gem_object)
    Jobs,                   \* jobs that take a reference on a domain
    Objs,                   \* memory for struct rocket_iommu_domain
    MaxDomains,             \* ROCKET_MAX_IOMMU_DOMAINS
    DomainIds,              \* the iommu_domain_id values user space passes
    Aperture,               \* page slots of one domain's aperture
    NULL

ASSUME GemAssumption ==
    /\ MaxDomains \in Nat \ {0}
    /\ DomainIds \subseteq Int
    /\ Bos \cap Jobs = {}
    /\ NULL \notin Objs \cup Aperture

Users == Bos \cup Jobs
Slots == 0 .. MaxDomains - 1

VARIABLES
    pc,                     \* position of each user's ioctl, then of its object
    slot,                   \* the pool slot the user asked for
    cand,                   \* candidate domain it has allocated
    dom,                    \* bo->domain, job->domain
    table,                  \* rocket_priv->domains[]
    kref,                   \* reference count of each domain
    mm,                     \* drm_mm of each domain: nodes as <<address, bo>>
    pgtbl,                  \* IOMMU mappings of each domain, as <<address, bo>>
    torn,                   \* domains whose drm_mm was taken down
    addr,                   \* bo->mm.start
    left,                   \* history: buffers given up with their mapping in place
    gemref,                 \* GEM reference count of each buffer
    handle,                 \* the buffer has a handle in the file
    exported,               \* a dmabuf of the buffer is alive
    async,                  \* buffers whose free runs in a dmabuf's release
    closing                 \* "open", "handles", "domains", "closed"

userVars == <<pc, slot, cand, dom>>
poolVars == <<table, kref, torn>>
mapVars  == <<mm, pgtbl, addr, left>>
gemVars  == <<gemref, handle, exported, async>>
vars     == <<userVars, poolVars, mapVars, gemVars, closing>>

Init ==
    /\ pc = [u \in Users |-> "idle"]
    /\ slot = [u \in Users |-> 0]
    /\ cand = [u \in Users |-> NULL]
    /\ dom = [u \in Users |-> NULL]
    /\ table = [s \in Slots |-> NULL]
    /\ kref = [o \in Objs |-> 0]
    /\ mm = [o \in Objs |-> {}]
    /\ pgtbl = [o \in Objs |-> {}]
    /\ torn = {}
    /\ addr = [b \in Bos |-> NULL]
    /\ left = {}
    /\ gemref = [b \in Bos |-> 0]
    /\ handle = [b \in Bos |-> FALSE]
    /\ exported = [b \in Bos |-> FALSE]
    /\ async = {}
    /\ closing = "open"

\* Set the position of one user.
Goto(u, where) == pc' = [pc EXCEPT ![u] = where]

\* Where a user goes on once it has its domain, and once it has none.
AfterGet(u) == IF u \in Bos THEN "pages" ELSE "running"

-----------------------------------------------------------------------------
(* rocket_iommu_domain_get and rocket_iommu_domain_put.                     *)

\* Ids outside the pool share slot 0.
pool_slot(id) == IF id < 0 \/ id >= MaxDomains THEN 0 ELSE id

\* First look at the slot, under domains_lock.
GetLookup(u, id) ==
    LET s == pool_slot(id)
        d == table[s]
    IN
    /\ closing = "open"
    /\ pc[u] = "idle"
    /\ slot' = [slot EXCEPT ![u] = s]
    /\ IF d # NULL
       THEN /\ kref' = [kref EXCEPT ![d] = @ + 1]
            /\ dom' = [dom EXCEPT ![u] = d]
            /\ Goto(u, AfterGet(u))
       ELSE /\ Goto(u, "create")
            /\ UNCHANGED <<kref, dom>>
    /\ UNCHANGED <<cand, table, torn, mapVars, gemVars, closing>>

\* rocket_iommu_domain_create and drm_mm_init, outside the lock: unused
\* memory, one reference.
GetCreate(u, o) ==
    /\ pc[u] = "create"
    /\ kref[o] = 0
    /\ kref' = [kref EXCEPT ![o] = 1]
    /\ torn' = torn \ {o}
    /\ mm' = [mm EXCEPT ![o] = {}]
    /\ pgtbl' = [pgtbl EXCEPT ![o] = {}]
    /\ cand' = [cand EXCEPT ![u] = o]
    /\ Goto(u, "install")
    /\ UNCHANGED <<slot, dom, table, addr, left, gemVars, closing>>

\* The allocation fails: the ioctl returns its error.
GetCreateFail(u) ==
    /\ pc[u] = "create"
    /\ Goto(u, "dead")
    /\ UNCHANGED <<slot, cand, dom, poolVars, mapVars, gemVars, closing>>

\* Mutant: the slot is not looked at a second time.
GetInstall_blind(u) ==
    LET o == cand[u] IN
    /\ pc[u] = "install"
    /\ table' = [table EXCEPT ![slot[u]] = o]
    /\ kref' = [kref EXCEPT ![o] = @ + 1]
    /\ dom' = [dom EXCEPT ![u] = o]
    /\ cand' = [cand EXCEPT ![u] = NULL]
    /\ Goto(u, AfterGet(u))
    /\ UNCHANGED <<slot, torn, mapVars, gemVars, closing>>

\* Second look, under domains_lock: install the candidate with the caller's
\* reference on top, or take the winner's domain and put the candidate.
GetInstall(u) ==
    LET o == cand[u]
        d == table[slot[u]]
    IN
    /\ pc[u] = "install"
    /\ IF d # NULL
       THEN /\ kref' = [kref EXCEPT ![d] = @ + 1, ![o] = @ - 1]
            /\ dom' = [dom EXCEPT ![u] = d]
            /\ UNCHANGED table
       ELSE /\ table' = [table EXCEPT ![slot[u]] = o]
            /\ kref' = [kref EXCEPT ![o] = @ + 1]
            /\ dom' = [dom EXCEPT ![u] = o]
    /\ cand' = [cand EXCEPT ![u] = NULL]
    /\ Goto(u, AfterGet(u))
    /\ UNCHANGED <<slot, torn, mapVars, gemVars, closing>>

\* Mutant: the reference is kept on the way out.
put_domain_forgotten(u) ==
    /\ dom' = [dom EXCEPT ![u] = NULL]
    /\ UNCHANGED kref

\* rocket_iommu_domain_put by the holder u, which forgets the domain.
put_domain(u) ==
    /\ kref' = [kref EXCEPT ![dom[u]] = @ - 1]
    /\ dom' = [dom EXCEPT ![u] = NULL]

\* rocket_job_cleanup of a job; it may come long after the close.
JobCleanup(j) ==
    /\ pc[j] = "running"
    /\ put_domain(j)
    /\ Goto(j, "dead")
    /\ UNCHANGED <<slot, cand, table, torn, mapVars, gemVars, closing>>

-----------------------------------------------------------------------------
(* MEM_CREATE (rkopnu_ioctl_mem_create), after the domain is known.         *)

\* drm_gem_shmem_get_pages_sgt.  The object's first reference is as old as the
\* object, but only from the handle on can anybody else see it.
Pages(b) ==
    /\ pc[b] = "pages"
    /\ gemref' = [gemref EXCEPT ![b] = 1]
    /\ Goto(b, "insert")
    /\ UNCHANGED <<slot, cand, dom, poolVars, mapVars, handle, exported, async,
                   closing>>

\* drm_mm_insert_node_generic under mm_lock: a free address of the aperture.
Insert(b, a) ==
    /\ pc[b] = "insert"
    /\ \A n \in mm[dom[b]] : n[1] # a
    /\ mm' = [mm EXCEPT ![dom[b]] = @ \cup {<<a, b>>}]
    /\ addr' = [addr EXCEPT ![b] = a]
    /\ Goto(b, "map")
    /\ UNCHANGED <<slot, cand, dom, poolVars, pgtbl, left, gemVars, closing>>

\* iommu_map_sgtable maps the buffer and returns its size, a ssize_t kept in
\* the int ret.  A size of 2 GiB or more does not fit: it comes out negative
\* or too small and is taken for a failure, which starts below the unmap.
Map(b, fits) ==
    /\ pc[b] = "map"
    /\ pgtbl' = [pgtbl EXCEPT ![dom[b]] = @ \cup {<<addr[b], b>>}]
    /\ IF fits
       THEN /\ Goto(b, "handle")
            /\ UNCHANGED <<left, gemref>>
       ELSE /\ Goto(b, "err_remove_node")
            /\ left' = left \cup {b}
            /\ gemref' = [gemref EXCEPT ![b] = 0]
    /\ UNCHANGED <<slot, cand, dom, poolVars, mm, addr, handle, exported, async,
                   closing>>

\* drm_gem_handle_create: visible to every thread of the file from here on.
HandleCreate(b) ==
    /\ pc[b] = "handle"
    /\ handle' = [handle EXCEPT ![b] = TRUE]
    /\ gemref' = [gemref EXCEPT ![b] = @ + 1]
    /\ Goto(b, "return")
    /\ UNCHANGED <<slot, cand, dom, poolVars, mapVars, exported, async, closing>>

\* Mutant: the success path falls through into the error ladder.
CreateReturn_falls_through(b) ==
    /\ pc[b] = "return"
    /\ gemref' = [gemref EXCEPT ![b] = @ - 1]
    /\ Goto(b, "err_unmap")
    /\ UNCHANGED <<slot, cand, dom, poolVars, mapVars, handle, exported, async,
                   closing>>

\* The reply is filled in and the creator's reference dropped; if the handle
\* is gone already, this frees the buffer.
CreateReturn(b) ==
    /\ pc[b] = "return"
    /\ gemref' = [gemref EXCEPT ![b] = @ - 1]
    /\ Goto(b, IF gemref[b] = 1 THEN "unmap" ELSE "live")
    /\ UNCHANGED <<slot, cand, dom, poolVars, mapVars, handle, exported, async,
                   closing>>

\* Pages, address space, mapping or handle cannot be had: the error ladder is
\* entered at the rung that undoes what was done so far.
CreateFail(b) ==
    /\ pc[b] \in {"pages", "insert", "map", "handle"}
    /\ Goto(b, CASE pc[b] = "handle" -> "err_unmap"
                 [] pc[b] = "map"    -> "err_remove_node"
                 [] OTHER            -> "err_put_domain")
    /\ gemref' = [gemref EXCEPT ![b] = 0]
    /\ UNCHANGED <<slot, cand, dom, poolVars, mapVars, handle, exported, async,
                   closing>>

-----------------------------------------------------------------------------
(* The end of a buffer: the error ladder of MEM_CREATE and                  *)
(* rocket_gem_bo_free undo the same three things in the same order.         *)

\* Mutants: the two steps in the opposite order; the mapping is not undone.
undo_swapped(b, rung) ==
    IF rung = "unmap"
    THEN /\ mm' = [mm EXCEPT ![dom[b]] = {n \in @ : n[2] # b}]
         /\ UNCHANGED pgtbl
    ELSE /\ pgtbl' = [pgtbl EXCEPT ![dom[b]] = {n \in @ : n[1] # addr[b]}]
         /\ UNCHANGED mm
undo_node_only(b, rung) ==
    /\ IF rung = "unmap" THEN UNCHANGED mm
       ELSE mm' = [mm EXCEPT ![dom[b]] = {n \in @ : n[2] # b}]
    /\ UNCHANGED pgtbl

\* iommu_unmap of whatever is mapped at the buffer's address, then
\* drm_mm_remove_node under mm_lock.
undo(b, rung) ==
    IF rung = "unmap"
    THEN /\ pgtbl' = [pgtbl EXCEPT ![dom[b]] = {n \in @ : n[1] # addr[b]}]
         /\ UNCHANGED mm
    ELSE /\ mm' = [mm EXCEPT ![dom[b]] = {n \in @ : n[2] # b}]
         /\ UNCHANGED pgtbl

Unmap(b) ==
    /\ pc[b] \in {"err_unmap", "unmap"}
    /\ undo(b, "unmap")
    /\ Goto(b, IF pc[b] = "unmap" THEN "remove_node" ELSE "err_remove_node")
    /\ UNCHANGED <<slot, cand, dom, poolVars, addr, left, gemVars, closing>>

RemoveNode(b) ==
    /\ pc[b] \in {"err_remove_node", "remove_node"}
    /\ undo(b, "remove_node")
    /\ Goto(b, IF pc[b] = "remove_node" THEN "put_domain" ELSE "err_put_domain")
    /\ UNCHANGED <<slot, cand, dom, poolVars, addr, left, gemVars, closing>>

PutDomain(b) ==
    /\ pc[b] \in {"err_put_domain", "put_domain"}
    /\ put_domain(b)
    /\ Goto(b, "dead")
    /\ UNCHANGED <<slot, cand, table, torn, mapVars, gemVars, closing>>

-----------------------------------------------------------------------------
(* Handles and exported dmabufs.                                            *)

\* The reference is dropped; the last one starts rocket_gem_bo_free, unless
\* the creating ioctl still holds its own.
drop_gemref(b) ==
    /\ gemref' = [gemref EXCEPT ![b] = @ - 1]
    /\ Goto(b, IF gemref[b] = 1 THEN "unmap" ELSE pc[b])

\* MEM_DESTROY, and the release of what is left when the file is closed.
HandleDelete(b) ==
    /\ closing \in {"open", "handles"}
    /\ handle[b]
    /\ handle' = [handle EXCEPT ![b] = FALSE]
    /\ drop_gemref(b)
    /\ UNCHANGED <<slot, cand, dom, poolVars, mapVars, exported, async, closing>>

\* The handle is exported as a dmabuf, which outlives handle and file.
Export(b) ==
    /\ closing = "open"
    /\ handle[b]
    /\ ~exported[b]
    /\ exported' = [exported EXCEPT ![b] = TRUE]
    /\ gemref' = [gemref EXCEPT ![b] = @ + 1]
    /\ UNCHANGED <<userVars, poolVars, mapVars, handle, async, closing>>

DmabufRelease(b) ==
    /\ exported[b]
    /\ exported' = [exported EXCEPT ![b] = FALSE]
    /\ drop_gemref(b)
    /\ async' = IF gemref[b] = 1 THEN async \cup {b} ELSE async
    /\ UNCHANGED <<slot, cand, dom, poolVars, mapVars, handle, closing>>

-----------------------------------------------------------------------------
(* The last close of the file.                                              *)

\* No call of the file is running: an object is either at rest or being freed
\* by the release of a dmabuf.
NoIoctl == \A u \in Users : pc[u] \in {"idle", "dead", "live", "running"} \/ u \in async

CloseBegin ==
    /\ closing = "open"
    /\ NoIoctl
    /\ closing' = "handles"
    /\ UNCHANGED <<userVars, poolVars, mapVars, gemVars>>

\* All handles are released, and the buffers this freed are gone.
CloseHandlesDone ==
    /\ closing = "handles"
    /\ \A b \in Bos : ~handle[b]
    /\ NoIoctl
    /\ closing' = "domains"
    /\ UNCHANGED <<userVars, poolVars, mapVars, gemVars>>

\* rocket_iommu_domains_close, one slot: take the drm_mm down, put the domain.
CloseDomain(s) ==
    /\ closing = "domains"
    /\ table[s] # NULL
    /\ torn' = torn \cup {table[s]}
    /\ kref' = [kref EXCEPT ![table[s]] = @ - 1]
    /\ table' = [table EXCEPT ![s] = NULL]
    /\ UNCHANGED <<userVars, mapVars, gemVars, closing>>

CloseDone ==
    /\ closing = "domains"
    /\ \A s \in Slots : table[s] = NULL
    /\ closing' = "closed"
    /\ UNCHANGED <<userVars, poolVars, mapVars, gemVars>>

\* The file is gone and so is everything made through it.
Rest ==
    /\ closing = "closed"
    /\ \A u \in Users : pc[u] \in {"idle", "dead"}
    /\ UNCHANGED vars

Next ==
    \/ \E u \in Users : \/ \E id \in DomainIds : GetLookup(u, id)
                        \/ \E o \in Objs : GetCreate(u, o)
                        \/ GetCreateFail(u)
                        \/ GetInstall(u)
    \/ \E j \in Jobs : JobCleanup(j)
    \/ \E b \in Bos : \/ Pages(b) \/ HandleCreate(b) \/ CreateReturn(b)
                      \/ \E a \in Aperture : Insert(b, a)
                      \/ \E fits \in BOOLEAN : Map(b, fits)
                      \/ CreateFail(b) \/ Unmap(b) \/ RemoveNode(b) \/ PutDomain(b)
                      \/ HandleDelete(b) \/ Export(b) \/ DmabufRelease(b)
    \/ CloseBegin \/ CloseHandlesDone \/ CloseDone
    \/ \E s \in Slots : CloseDomain(s)
    \/ Rest

Spec == Init /\ [][Next]_vars

-----------------------------------------------------------------------------
(* Properties.                                                              *)

\* The users that hold a reference on domain o.
Holders(o) == {u \in Users : dom[u] = o \/ cand[u] = o}

\* Every variable stays in its range.
TypeOK ==
    /\ pc \in [Users -> {"idle", "create", "install", "pages", "insert", "map",
                         "handle", "return", "live", "running", "unmap",
                         "remove_node", "put_domain", "err_unmap",
                         "err_remove_node", "err_put_domain", "dead"}]
    /\ slot \in [Users -> Slots]
    /\ cand \in [Users -> Objs \cup {NULL}]
    /\ dom \in [Users -> Objs \cup {NULL}]
    /\ table \in [Slots -> Objs \cup {NULL}]
    /\ kref \in [Objs -> Nat]
    /\ mm \in [Objs -> SUBSET (Aperture \X Bos)]
    /\ pgtbl \in [Objs -> SUBSET (Aperture \X Bos)]
    /\ torn \in SUBSET Objs
    /\ addr \in [Bos -> Aperture \cup {NULL}]
    /\ left \in SUBSET Bos
    /\ gemref \in [Bos -> 0 .. 3]
    /\ handle \in [Bos -> BOOLEAN]
    /\ exported \in [Bos -> BOOLEAN]
    /\ async \in SUBSET Bos
    /\ closing \in {"open", "handles", "domains", "closed"}

\* A domain's kref counts its slot in the pool and every buffer, job and
\* thread that uses it, through lost creation races, every rung of the error
\* ladder and the close: it is never freed under a user and never leaked.
DomainRefExact ==
    \A o \in Objs : kref[o] = Cardinality({s \in Slots : table[s] = o})
                              + Cardinality(Holders(o))

\* rocket_drv.c 67-73: concurrent first uses of a slot agree on one domain,
\* so a job translates through the domain its buffers were mapped in.
OneDomainPerSlot ==
    closing \in {"open", "handles"} =>
        \A u \in Users : dom[u] # NULL => table[slot[u]] = dom[u]

\* No two buffers are mapped at the same address of a domain, except that a
\* mapping left behind by a truncated map result may be one of them.
MappingsDisjoint ==
    \A o \in Objs : \A m, n \in pgtbl[o] :
        m[1] = n[1] => m = n \/ m[2] \in left \/ n[2] \in left

\* A mapping exists only at an address its buffer owns in the allocator, but
\* for the ones left behind, and for as long as a buffer has a handle or a
\* dmabuf its own mapping is there, whatever was left behind before it.
MappedWhileReachable ==
    /\ \A o \in Objs : \A n \in pgtbl[o] : n \in mm[o] \/ n[2] \in left
    /\ \A b \in Bos : (handle[b] \/ exported[b]) => <<addr[b], b>> \in pgtbl[dom[b]]

\* When the last reference of a domain is gone, its allocator is empty and
\* nothing is mapped in it but what was left behind.
DestroyedEmpty ==
    \A o \in Objs : kref[o] = 0 => mm[o] = {} /\ \A n \in pgtbl[o] : n[2] \in left

-----------------------------------------------------------------------------
(* Statements of the code's comments that do not hold: README, section 5.   *)

\* rocket_drv.c 146-152: drm_mm_takedown finds an empty allocator.
TakedownEmpty == \A o \in torn : mm[o] = {}

\* rkopnu_ioctl.c 142-148: the ladder undoes what was done.  A buffer of 2 GiB
\* or more is mapped and given up below err_unmap.
FailedCreateUnmaps == \A o \in Objs : pgtbl[o] \subseteq mm[o]

=============================================================================

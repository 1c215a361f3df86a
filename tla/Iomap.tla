---------------------------------- MODULE Iomap --------------------------------
(***************************************************************************)
(* chapter21/Iomapi/iomap.c, one of its devices: a region of I/O memory    *)
(* set up once with IOMAP_SET and then read and written by anyone.  The    *)
(* copy of IOMAP_SET goes straight into the device's structure and may     *)
(* sleep, or fault when a part of it is there; ioremap may sleep too, and  *)
(* its result is used without a test: NULL for a size of 0, which is       *)
(* aligned, and for memory it will not map.                                *)
(***************************************************************************)
EXTENDS Naturals, FiniteSets

CONSTANTS
    MapUsers,   \* processes
    Page,       \* PAGE_SIZE, in units of access
    MaxMap      \* bound: modules loaded and calls of IOMAP_SET

Sizes == 0..(2 * Page)

ASSUME MapAssumption == IsFiniteSet(MapUsers) /\ Page \in Nat \ {0} /\ MaxMap \in Nat

VARIABLES
    mapLoaded,
    base,       \* idev->base is not 0
    size,       \* idev->size
    ptr,        \* idev->ptr: the mapping it stands for, 0 if for none
    mappings,   \* the mappings that exist, numbered, with their sizes
    mapper,     \* each process: "out", "open", or where in IOMAP_SET
    pos,        \* f_pos of each process
    spoilt,     \* an IOMAP_SET met another, faulted half-way, or had a base of 0 (history)
    mapActs

mapVars == <<mapLoaded, base, size, ptr, mappings, mapper, pos, spoilt, mapActs>>

IomapInit ==
    /\ mapLoaded = FALSE /\ base = FALSE /\ size = 0 /\ ptr = 0 /\ mappings = {}
    /\ mapper = [p \in MapUsers |-> "out"] /\ pos = [p \in MapUsers |-> 0]
    /\ spoilt = FALSE /\ mapActs = 0

MapAct == mapActs < MaxMap /\ mapActs' = mapActs + 1
At(p, line) == mapper' = [mapper EXCEPT ![p] = line]
Setting == {p \in MapUsers : mapper[p] \in {"copy", "remap"}}

-----------------------------------------------------------------------------
LoadMap ==
    /\ MapAct /\ ~mapLoaded /\ mapLoaded' = TRUE /\ base' = FALSE
    /\ UNCHANGED <<size, ptr, mappings, mapper, pos, spoilt>>

\* cleanup_module, of a module nobody uses
UnloadMap ==
    /\ mapLoaded /\ \A p \in MapUsers : mapper[p] = "out"
    /\ mapLoaded' = FALSE /\ base' = FALSE
    /\ mappings' = IF base THEN {m \in mappings : m.id # ptr} ELSE mappings
    /\ UNCHANGED <<size, ptr, mapper, pos, spoilt, mapActs>>

OpenMap(p) ==
    /\ mapLoaded /\ mapper[p] = "out"
    /\ At(p, "open") /\ pos' = [pos EXCEPT ![p] = 0]
    /\ UNCHANGED <<mapLoaded, base, size, ptr, mappings, spoilt, mapActs>>

ReleaseMap(p) ==
    /\ mapper[p] = "open" /\ At(p, "out")
    /\ UNCHANGED <<mapLoaded, base, size, ptr, mappings, pos, spoilt, mapActs>>

\* "if base is set, device is in use"
SetTest(p) ==
    /\ MapAct /\ mapper[p] = "open" /\ ~base /\ At(p, "copy")
    /\ spoilt' = (spoilt \/ Setting # {})
    /\ UNCHANGED <<mapLoaded, base, size, ptr, mappings, pos>>

\* copy_from_user over base, size and ptr; then the test of their alignment, which a
\* base of 0 passes
SetCopy(p) ==
    /\ mapper[p] = "copy"
    /\ \E s \in Sizes, given \in BOOLEAN :
         /\ size' = s /\ base' = (given /\ s % Page = 0)
         /\ At(p, IF s % Page = 0 THEN "remap" ELSE "open")
         /\ spoilt' = (spoilt \/ ~given)
    /\ ptr' = 0
    /\ UNCHANGED <<mapLoaded, mappings, pos, mapActs>>

\* the copy faults, perhaps with base there already, and size
SetFaults(p) ==
    /\ mapper[p] = "copy" /\ At(p, "open")
    /\ base' \in {base, TRUE} /\ spoilt' = (spoilt \/ base')
    /\ size' \in Sizes /\ ptr' \in {ptr, 0}
    /\ UNCHANGED <<mapLoaded, mappings, pos, mapActs>>

\* iomap_setup: a mapping, or none and ptr = NULL
SetMap(p) ==
    /\ mapper[p] = "remap" /\ At(p, "open")
    /\ \/ /\ size # 0
          /\ ptr' = CHOOSE n \in 1..(MaxMap + 1) : \A m \in mappings : m.id # n
          /\ mappings' = mappings \cup {[id |-> ptr', size |-> size]}
       \/ ptr' = 0 /\ UNCHANGED mappings
    /\ UNCHANGED <<mapLoaded, base, size, pos, spoilt, mapActs>>

\* iomap_read: nothing without a base or beyond the end, and cut to what is left
Cut(p, count) == IF pos[p] + count > size THEN size - pos[p] ELSE count

\* iomap_read, and iomap_write, which is its counterpart
Access(p) ==
    /\ mapper[p] = "open" /\ base /\ pos[p] < size
    /\ \E count \in Sizes : pos' = [pos EXCEPT ![p] = @ + Cut(p, count)]
    /\ UNCHANGED <<mapLoaded, base, size, ptr, mappings, mapper, spoilt, mapActs>>

\* the same, or IOMAP_CLEAR, through a ptr that stands for no mapping: unless something
\* else is there, the kernel kills the process in the middle of it and closes its file
BadAccess(p) ==
    /\ mapper[p] = "open" /\ base /\ size > 0 /\ ptr = 0 /\ At(p, "out")
    /\ UNCHANGED <<mapLoaded, base, size, ptr, mappings, pos, spoilt, mapActs>>

-----------------------------------------------------------------------------
IomapNext ==
    \/ LoadMap \/ UnloadMap
    \/ \E p \in MapUsers :
         \/ OpenMap(p) \/ ReleaseMap(p) \/ SetTest(p) \/ SetCopy(p) \/ SetFaults(p)
         \/ SetMap(p) \/ Access(p) \/ BadAccess(p)

IomapTypes ==
    /\ mapLoaded \in BOOLEAN /\ base \in BOOLEAN /\ spoilt \in BOOLEAN /\ size \in 0..(2 * Page)
    /\ mapper \in [MapUsers -> {"out", "open", "copy", "remap"}]
    /\ pos \in [MapUsers -> 0..(2 * Page)] /\ ptr \in 0..(MaxMap + 1)
    /\ \A m \in mappings : m.id \in 1..(MaxMap + 1) /\ m.size \in Sizes

\* what the device stands for: one mapping of its size, or none where ioremap refused
Mapped ==
    \/ ptr # 0 /\ size # 0 /\ mappings = {[id |-> ptr, size |-> size]}
    \/ ptr = 0 /\ mappings = {}

\* Unless two set the device up at once, a copy faulted half-way, or the base was 0: of
\* a device that is set up there is one mapping, of the size that bounds all accesses,
\* or ptr is NULL and there is none; of a free one there is none; and nothing stays
\* mapped without the module.
OneMapping ==
    ~spoilt =>
        /\ base /\ Setting = {} => Mapped /\ size % Page = 0
        /\ ~base => mappings = {}
        /\ ~mapLoaded => mappings = {} /\ ~base
        /\ \A p \in MapUsers : mapper[p] # "out" /\ base => pos[p] <= size
=============================================================================

----------------------------- MODULE Residency -----------------------------
(***************************************************************************)
(* Which KV pages are in memory: src/rfsn_kv/residency.py.  A manager is   *)
(* immutable in the code; the value the client holds is the state here.    *)
(* loaded_at, actor, action_id and event_id are left out.                  *)
(***************************************************************************)
EXTENDS Integers, Sequences, Subsequences

CONSTANTS
    Pages,      \* page ids
    MaxPages,   \* max_resident_pages
    MaxPins,    \* bound on pin_count
    MaxTime     \* bound on the clock

ResidencyAssumption ==
    /\ MaxPages \in Nat
    /\ MaxPins \in Nat
    /\ MaxTime \in Nat

Entry == [page : Pages, accessed : 0..MaxTime, pins : 0..MaxPins]

VARIABLES
    resident,   \* entries, in the order the pages were loaded
    clock       \* utc_now(); it does not go back, and may stand still

vars == <<resident, clock>>

PagesIn(entries) == {entries[i].page : i \in DOMAIN entries}

TypeOK == resident \in Seq(Entry) /\ clock \in 0..MaxTime

Init == resident = <<>> /\ clock = 0

-----------------------------------------------------------------------------
(* Operators on a sequence of entries.                                     *)

Without(entries, page) == Kept(entries, {e \in Entry : e.page # page})

Mutant_Evictable_Pinned(entries) == DOMAIN entries

Evictable(entries) == {i \in DOMAIN entries : entries[i].pins = 0}

Mutant_IsVictim_First(entries, i) == \A j \in Evictable(entries) : i <= j

\* select_victim: the first of the least recently accessed unpinned entries.
IsVictim(entries, i) ==
    \A j \in Evictable(entries) :
        \/ entries[i].accessed < entries[j].accessed
        \/ entries[i].accessed = entries[j].accessed /\ i <= j

\* evict: the entries that are left; all of them when each is pinned.
AfterEvict(entries) ==
    IF Evictable(entries) = {}
    THEN entries
    ELSE Without(entries,
                 entries[CHOOSE i \in Evictable(entries) : IsVictim(entries, i)].page)

-----------------------------------------------------------------------------
(* The operations.                                                         *)

Resident(page) == page \in PagesIn(resident)

\* The clock is read.
Now == clock' \in clock..MaxTime

Touched(page) ==
    [i \in DOMAIN resident |->
        IF resident[i].page = page THEN [resident[i] EXCEPT !.accessed = clock']
        ELSE resident[i]]

\* The pin_count of a page goes up or down.
Repinned(page, change) ==
    [i \in DOMAIN resident |->
        IF resident[i].page = page THEN [resident[i] EXCEPT !.pins = @ + change]
        ELSE resident[i]]

Touch(page) == Now /\ resident' = Touched(page)

\* load evicts one page when the budget is used up.
Room == IF Len(resident) >= MaxPages THEN AfterEvict(resident) ELSE resident

Load(page) ==
    /\ Now
    /\ resident' = IF Resident(page) THEN Touched(page)
                   ELSE Append(Room, [page |-> page, accessed |-> clock', pins |-> 0])

Pin(page) ==
    /\ \A i \in DOMAIN resident : resident[i].page = page => resident[i].pins < MaxPins
    /\ resident' = Repinned(page, 1)
    /\ UNCHANGED clock

Mutant_Unload_Unguarded(page) ==
    /\ resident' = Repinned(page, -1)
    /\ UNCHANGED clock

\* unload takes a pin off a pinned page, and removes an unpinned one.
Unload(page) ==
    /\ resident' = IF \E i \in DOMAIN resident : resident[i].page = page /\ resident[i].pins > 0
                   THEN Repinned(page, -1)
                   ELSE Without(resident, page)
    /\ UNCHANGED clock

Evict == resident' = AfterEvict(resident) /\ UNCHANGED clock

\* evict_all: evictions until there is no victim.
EvictAll == resident' = Kept(resident, {e \in Entry : e.pins > 0}) /\ UNCHANGED clock

Next ==
    \/ \E page \in Pages : Load(page) \/ Touch(page) \/ Pin(page) \/ Unload(page)
    \/ Evict
    \/ EvictAll

Spec == Init /\ [][Next]_vars

-----------------------------------------------------------------------------
(* Properties.                                                             *)

\* Only unload takes a pin off, one at a time, and no eviction removes a page
\* while it is pinned (select_victim, unload).
PinnedStay ==
    [][ \A i \in DOMAIN resident :
            resident[i].pins > 0 =>
                \E j \in DOMAIN resident' : /\ resident'[j].page = resident[i].page
                                            /\ resident'[j].pins >= resident[i].pins - 1 ]_vars

\* When a page enters, the page that has to leave was not accessed later than
\* any unpinned page that stays, and the memory grows past its budget only while
\* nothing in it can be evicted (load, select_victim; "max_resident_pages:
\* Maximum number of pages allowed in memory", residency.py 92).
ColdestLeaves ==
    [][ ~(PagesIn(resident') \subseteq PagesIn(resident)) =>
            /\ \A i, j \in DOMAIN resident :
                  /\ resident[i].page \notin PagesIn(resident')
                  /\ resident[j].page \in PagesIn(resident')
                  /\ resident[j].pins = 0
                  => resident[i].accessed <= resident[j].accessed
            /\ Len(resident') > Len(resident) /\ Len(resident') > MaxPages =>
                  \A i \in DOMAIN resident : resident[i].pins > 0 ]_vars
=============================================================================

----------------------------- MODULE PageStore -----------------------------
(***************************************************************************)
(* KV pages and the SQLite table they are kept in: src/rfsn_kv/pages.py,   *)
(* persistence.py and integrity.py.  A page is its data, the hash it       *)
(* claims for it and whether the data was offloaded to a content store,    *)
(* which is external.  A hash is the data it is the hash of.               *)
(***************************************************************************)
EXTENDS Integers, FiniteSets

CONSTANTS
    PageIds,
    Contents,    \* contents of pages
    Empty,       \* b""
    Meta         \* codec, status, position and author of a page

PageStoreAssumption == Empty \notin Contents

Data == Contents \cup {Empty}

\* Field values of a KVPage; data_hash is a hash of "hash".
KVPages == [id : PageIds, data : Data, hash : Data, meta : Meta, offloaded : BOOLEAN]

\* What KVPage.__post_init__ accepts.
Constructible(page) == page.offloaded \/ page.hash = page.data

VARIABLES
    rows,      \* kv_pages
    blobs,     \* the content store
    held       \* pages the clients hold

vars == <<rows, blobs, held>>

Rows == [id : PageIds, data : Data, hash : Data, meta : Meta]

TypeOK ==
    /\ rows \subseteq Rows
    /\ \A q, r \in rows : q.id = r.id => q = r
    /\ blobs \subseteq Contents
    /\ held \subseteq KVPages

Init == rows = {} /\ blobs = {} /\ held = {}

-----------------------------------------------------------------------------

\* KVPage.create
Create(id, data, meta) ==
    /\ held' = held \cup {[id |-> id, data |-> data, hash |-> data, meta |-> meta,
                           offloaded |-> FALSE]}
    /\ UNCHANGED <<rows, blobs>>

Mutant_CreateWithCas_NotStored(id, data, meta) ==
    /\ held' = held \cup {[id |-> id, data |-> Empty, hash |-> data, meta |-> meta,
                           offloaded |-> TRUE]}
    /\ UNCHANGED <<rows, blobs>>

\* KVPage.create_with_cas: the data goes to the content store.
CreateWithCas(id, data, meta) ==
    /\ blobs' = blobs \cup {data}
    /\ held' = held \cup {[id |-> id, data |-> Empty, hash |-> data, meta |-> meta,
                           offloaded |-> TRUE]}
    /\ UNCHANGED rows

RowOf(page) == [id |-> page.id, data |-> page.data, hash |-> page.hash, meta |-> page.meta]

MayReplace(page) == \A row \in rows : row.id = page.id => row.hash = page.hash

\* put_page: one transaction; content_ref has no column.
PutPage(page) ==
    /\ MayReplace(page)
    /\ rows' = {row \in rows : row.id # page.id} \cup {RowOf(page)}
    /\ UNCHANGED <<blobs, held>>

\* IntegrityError, and a ROLLBACK.
PutRefused(page) == ~MayReplace(page) /\ UNCHANGED vars

\* _row_to_page
PageOf(row) ==
    [id |-> row.id, data |-> row.data, hash |-> row.hash, meta |-> row.meta,
     offloaded |-> FALSE]

\* get_page; the constructor raises ValueError when the hash does not fit.
GetPage(row) ==
    /\ held' = IF Constructible(PageOf(row)) THEN held \cup {PageOf(row)} ELSE held
    /\ UNCHANGED <<rows, blobs>>

DeletePage(id) ==
    /\ rows' = {row \in rows : row.id # id}
    /\ UNCHANGED <<blobs, held>>

\* verify_page
Verified(page) == page.data = page.hash

\* repair_page: the hash is recomputed from data, content_ref is dropped.
Repaired(page) ==
    IF Verified(page) THEN page ELSE [page EXCEPT !.hash = page.data, !.offloaded = FALSE]

Repair(page) ==
    /\ held' = held \cup {Repaired(page)}
    /\ UNCHANGED <<rows, blobs>>

Next ==
    \/ \E id \in PageIds, data \in Contents, meta \in Meta :
          Create(id, data, meta) \/ CreateWithCas(id, data, meta)
    \/ \E page \in held : PutPage(page) \/ PutRefused(page) \/ Repair(page)
    \/ \E row \in rows : GetPage(row)
    \/ \E id \in PageIds : DeletePage(id)

Spec == Init /\ [][Next]_vars

-----------------------------------------------------------------------------
(* Properties.                                                             *)

\* A row that get_page refuses, "KeyError: If no page with that ID exists"
\* (persistence.py 193-196) notwithstanding, belongs to an offloaded page whose
\* content is still in the content store: however pages are put, read, repaired
\* and deleted, no stored content is lost.
UnreadableIsOffloaded ==
    \A row \in rows :
        ~Constructible(PageOf(row)) => row.data = Empty /\ row.hash \in blobs
=============================================================================

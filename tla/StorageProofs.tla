--------------------------- MODULE StorageProofs ---------------------------
(***************************************************************************)
(* For all values of the constants: the properties of the structures that  *)
(* keep pages and contents, and of the upgrades of old databases.  There   *)
(* is one part for each structure of MCStorage: the content store, the     *)
(* page store, the residency manager, the page table, the prefix index,    *)
(* the migrations and the codec.  A step of MCStorage is a step of one of  *)
(* them and leaves the others alone (EachSteps), so every part has an      *)
(* inductive invariant of its own.                                         *)
(***************************************************************************)
EXTENDS MCStorage, SubsequenceProofs

-----------------------------------------------------------------------------
(* The structures share no variable: a step of one is a stutter of others. *)

\* Each of the structures is in an initial state of its own.
LEMMA EachStarts == Init => R!Init /\ T!Init /\ P!Init /\ S!Init /\ Q!Init /\ C!Init /\ M!Init
BY Zenon DEF Init

\* A step exercises one structure and leaves the others as they are.
LEMMA EachSteps ==
    [Next]_vars =>
        /\ [R!Next]_(R!vars) /\ [T!Next]_entries /\ [P!Next]_(P!vars)
        /\ [S!Next]_(S!vars) /\ [Q!Next]_(Q!vars) /\ [C!Next]_(C!vars)
        /\ [M!Next]_(M!vars)
BY DEF Next, vars, kvVars, codecVars, contentVars, upgradeVars, R!vars, P!vars,
       S!vars, Q!vars, C!vars, C!txVars, C!pastVars, M!vars

-----------------------------------------------------------------------------
(* ContentStore: the puts of several writers, and power losses.            *)

\* What Begin may be given.
Input == Batches \cup {<<c>> : c \in Disposable}

\* Inputs are sequences of large strings.
LEMMA InputType == C!ContentStoreAssumption => Input \subseteq Seq(Strings)
<1> SUFFICES ASSUME C!ContentStoreAssumption, NEW s \in Input PROVE s \in Seq(Strings)
  OBVIOUS
<1>1. CASE s \in Batches
  BY <1>1 DEF C!ContentStoreAssumption
<1>2. ASSUME NEW c \in Disposable, s = <<c>> PROVE s \in Seq(Strings)
  <2>1. c \in Strings
    BY DEF C!ContentStoreAssumption
  <2> QED BY <1>2, <2>1
<1> QED BY <1>1, <1>2 DEF Input

\* The head of a non-empty list of strings is a string, its tail a list.
LEMMA HeadTail ==
    ASSUME NEW s \in Seq(Strings), s # <<>>
    PROVE  Head(s) \in Strings /\ Tail(s) \in Seq(Strings)
OBVIOUS

-----------------------------------------------------------------------------
(* Types, and that what is renamed into place was synced.                  *)

\* A put that has written its temporary file has a string to put.
PutsSomething ==
    \A w \in Writers : phase[w] \in {"rename", "flush"} => todo[w] # <<>>

\* Only synced files are renamed, and only by a writer in "rename".
Synced ==
    /\ \A c \in Strings : file[c] \in {"absent", "whole"}
    /\ \A w \in Writers : temp[w] \in {"none", "whole"}
    /\ \A w \in Writers : phase[w] = "rename" => temp[w] = "whole"

WholeInv == C!TypeOK /\ PutsSomething /\ Synced

\* An empty directory satisfies WholeInv.
LEMMA InitWhole == C!Init => WholeInv
BY DEF C!Init, WholeInv, C!TypeOK, PutsSomething, Synced

\* Every step keeps the types and renames whole files only.
LEMMA NextWhole ==
    ASSUME C!ContentStoreAssumption, WholeInv, [C!Next]_(C!vars)
    PROVE  WholeInv'
<1> USE DEF WholeInv, C!TypeOK, C!pastVars, PutsSomething, Synced
<1>1. ASSUME NEW w \in Writers, NEW batch \in Input, C!Begin(w, batch) PROVE WholeInv'
  BY <1>1, InputType DEF C!Begin
<1>2. ASSUME NEW w \in Writers, C!FindExisting(w) PROVE WholeInv'
  <2>1. Head(todo[w]) \in Strings /\ Tail(todo[w]) \in Seq(Strings)
    BY <1>2, HeadTail DEF C!FindExisting
  <2>2. CASE C!End(w) /\ UNCHANGED borrowed
    BY <1>2, <2>2 DEF C!FindExisting, C!End
  <2>3. CASE C!Offloaded(w) /\ UNCHANGED temp /\ borrowed' = borrowed \cup ({Head(todo[w])} \ disk)
    BY <1>2, <2>1, <2>3 DEF C!FindExisting, C!Offloaded
  <2> QED BY <1>2, <2>2, <2>3 DEF C!FindExisting
<1>3. ASSUME NEW w \in Writers, C!WriteTemp(w) PROVE WholeInv'
  BY <1>3, StorageAssumption DEF C!WriteTemp, C!MakeDirectory, C!ContentStoreAssumption
<1>4. ASSUME NEW w \in Writers, C!Rename(w) PROVE WholeInv'
  <2>1. Head(todo[w]) \in Strings
    BY <1>4, HeadTail DEF C!Rename
  <2> QED BY <1>4, <2>1 DEF C!Rename
<1>5. ASSUME NEW w \in Writers, C!Flush(w) PROVE WholeInv'
  <2>1. Head(todo[w]) \in Strings /\ Tail(todo[w]) \in Seq(Strings)
    BY <1>5, HeadTail DEF C!Flush
  <2>2. disk' \subseteq Strings /\ borrowed' \subseteq Strings /\ swept' \subseteq Strings
    BY <1>5 DEF C!Flush, C!Present
  <2>3. UNCHANGED <<file, dirs, temp, referenced>> /\ C!Offloaded(w)
    BY <1>5 DEF C!Flush
  <2> QED BY <2>1, <2>2, <2>3 DEF C!Offloaded
<1>6. ASSUME NEW w \in Writers, C!PutFails(w) \/ C!Commit(w) \/ C!Leave(w) PROVE WholeInv'
  <2>1. C!End(w) /\ UNCHANGED <<file, disk, dirs, borrowed, swept>> /\ referenced' \subseteq Strings
    BY <1>6 DEF C!PutFails, C!Commit, C!Leave
  <2>2. C!TypeOK'
    BY <2>1 DEF C!End
  <2> QED BY <2>1, <2>2 DEF C!End
<1>7. ASSUME NEW c \in Strings, C!Delete(c) PROVE WholeInv'
  BY <1>7 DEF C!Delete, C!txVars
<1>8. CASE C!PowerLoss
  <2>1. /\ disk' \subseteq Strings /\ swept' \subseteq Strings
        /\ file' \in [Strings -> {"absent", "whole"}]
        /\ dirs' \in [Directories -> {"absent", "made", "durable"}]
    BY <1>8 DEF C!PowerLoss, C!Present
  <2> QED BY <1>8, <2>1 DEF C!PowerLoss
<1>9. CASE UNCHANGED C!vars
  BY <1>9 DEF C!vars, C!txVars
<1> QED BY <1>1, <1>2, <1>3, <1>4, <1>5, <1>6, <1>7, <1>8, <1>9 DEF C!Next, Input

\* The directory, its temporary files and what writers are doing are of their
\* types, and only synced files have been renamed into place.
THEOREM ContentTypesInvariant == Spec => []WholeInv
<1>1. WholeInv /\ [Next]_vars => WholeInv'
  BY NextWhole, EachSteps, StorageAssumption
<1>2. Init => WholeInv
  BY InitWhole, EachStarts
<1> QED BY <1>1, <1>2, PTL DEF Spec

\* "readers never see a partially written object" (cas.py 4-5): whatever puts
\* race, fail or are cut off by a power loss, every file under an object's name
\* is whole, because put syncs the temporary file before it renames it.
THEOREM NeverHalfWritten == Spec => []ObjectsAreWhole
<1>1. WholeInv => ObjectsAreWhole
  BY DEF WholeInv, Synced, ObjectsAreWhole, C!ObjectsAreWhole
<1> QED BY <1>1, ContentTypesInvariant, PTL

-----------------------------------------------------------------------------
(* References resolve.                                                     *)

\* No power loss can take the object away that leaves its directory, or it was
\* borrowed, or one took it with its directory.
Safe(c) == c \in borrowed \/ c \in swept \/ (c \in disk /\ c \in C!Present)

\* What events refer to is safe, in committed events and in open transactions.
\* An object that was renamed and whose directory is about to be flushed is in
\* place, unless it may be deleted.
ReferenceInv ==
    /\ \A c \in referenced : c \in Strings /\ c \notin Disposable /\ Safe(c)
    /\ \A w \in Writers : \A c \in refs[w] : c \in Disposable \/ Safe(c)
    /\ \A w \in Writers : phase[w] = "flush" => Head(todo[w]) \in Disposable \cup C!Present

\* Nothing is referred to in an empty directory.
LEMMA InitReference == C!Init => ReferenceInv
BY DEF C!Init, ReferenceInv

\* A step that loses no object, no name and no borrowing keeps ReferenceInv if
\* what writers refer to stays safe.
LEMMA KeepsReference ==
    ASSUME WholeInv, ReferenceInv, C!Present \subseteq C!Present', disk \subseteq disk',
           borrowed \subseteq borrowed', swept \subseteq swept', UNCHANGED referenced,
           \A w \in Writers :
              /\ \A c \in refs'[w] : c \in refs[w] \/ c \in Disposable \/ Safe(c)'
              /\ phase'[w] = "flush" =>
                    \/ phase[w] = "flush" /\ todo'[w] = todo[w]
                    \/ Head(todo'[w]) \in C!Present'
    PROVE  ReferenceInv'
BY DEF ReferenceInv, Safe

\* Every step keeps what is referred to safe: an object is flushed before its
\* string gives way to a reference, and COMMIT comes after the last put.
LEMMA NextReference ==
    ASSUME C!ContentStoreAssumption, WholeInv, ReferenceInv, [C!Next]_(C!vars)
    PROVE  ReferenceInv'
<1> USE DEF C!pastVars
<1>1. ASSUME NEW w \in Writers, NEW batch \in Input, C!Begin(w, batch) PROVE ReferenceInv'
  <2>1. C!Present' = C!Present /\ UNCHANGED <<disk, borrowed, swept, referenced, refs>>
    BY <1>1 DEF C!Begin, C!Present
  <2>2. \A v \in Writers : phase'[v] = "flush" => phase[v] = "flush" /\ todo'[v] = todo[v]
    BY <1>1 DEF C!Begin, WholeInv, C!TypeOK
  <2> QED BY <2>1, <2>2, KeepsReference
<1>2. ASSUME NEW w \in Writers, C!FindExisting(w) PROVE ReferenceInv'
  <2>1. C!Present' = C!Present /\ UNCHANGED <<disk, referenced, swept>> /\ Head(todo[w]) \in C!Present
    BY <1>2 DEF C!FindExisting, C!Present
  <2>2. CASE C!End(w) /\ UNCHANGED borrowed
    <3>1. \A v \in Writers :
             /\ refs'[v] \subseteq refs[v]
             /\ phase'[v] = "flush" => phase[v] = "flush" /\ todo'[v] = todo[v]
      BY <2>2 DEF C!End, WholeInv, C!TypeOK
    <3> QED BY <2>1, <2>2, <3>1, KeepsReference
  <2>3. CASE C!Offloaded(w) /\ borrowed' = borrowed \cup ({Head(todo[w])} \ disk)
    <3>1. \A c : c = Head(todo[w]) => Safe(c)'
      BY <2>1, <2>3 DEF Safe
    <3>2. \A v \in Writers :
             /\ \A c \in refs'[v] : c \in refs[v] \/ c = Head(todo[w])
             /\ phase'[v] = "flush" => phase[v] = "flush" /\ todo'[v] = todo[v]
      BY <2>3 DEF C!Offloaded, WholeInv, C!TypeOK
    <3>3. \A v \in Writers : \A c \in refs'[v] : c \in refs[v] \/ Safe(c)'
      BY <3>1, <3>2
    <3> QED BY <2>1, <2>3, <3>2, <3>3, KeepsReference
  <2> QED BY <1>2, <2>2, <2>3 DEF C!FindExisting
<1>3. ASSUME NEW w \in Writers, C!WriteTemp(w) PROVE ReferenceInv'
  <2>1. C!Present' = C!Present /\ UNCHANGED <<disk, borrowed, swept, referenced, refs>>
    BY <1>3 DEF C!WriteTemp, C!Present
  <2>2. \A v \in Writers : phase'[v] = "flush" => phase[v] = "flush" /\ todo'[v] = todo[v]
    BY <1>3 DEF C!WriteTemp, WholeInv, C!TypeOK
  <2> QED BY <2>1, <2>2, KeepsReference
<1>4. ASSUME NEW w \in Writers, C!Rename(w) PROVE ReferenceInv'
  <2>1. Head(todo[w]) \in Strings /\ temp[w] = "whole"
    BY <1>4, HeadTail DEF C!Rename, WholeInv, C!TypeOK, PutsSomething, Synced
  <2>2. C!Present' = C!Present \cup {Head(todo[w])}
    BY <1>4, <2>1 DEF C!Rename, C!Present, WholeInv, C!TypeOK
  <2>3. UNCHANGED <<disk, borrowed, swept, referenced, refs, todo>>
    BY <1>4 DEF C!Rename
  <2>4. \A v \in Writers : phase'[v] = "flush" => phase[v] = "flush" \/ v = w
    BY <1>4 DEF C!Rename, WholeInv, C!TypeOK
  <2> QED BY <2>2, <2>3, <2>4, KeepsReference
<1>5. ASSUME NEW w \in Writers, C!Flush(w) PROVE ReferenceInv'
  <2> DEFINE o == Head(todo[w])
             together == C!Within({DirectoryOf[o]})
  <2>1. /\ phase[w] = "flush" /\ C!Present' = C!Present /\ UNCHANGED referenced
        /\ disk' = (disk \ together) \cup (C!Present \cap together)
        /\ borrowed' = borrowed \ (C!Present \cap together)
        /\ swept' = swept \ (C!Present \cap together)
    BY <1>5 DEF C!Flush, C!Present
  <2>2. o \in Disposable \cup C!Present /\ o \in Strings
    BY <1>5, <2>1, HeadTail DEF ReferenceInv, WholeInv, C!TypeOK, PutsSomething
  <2>a. o \in together
    BY <2>2 DEF C!Within
  <2> HIDE DEF o, together
  <2>3. \A c : Safe(c) => Safe(c)'
    BY <2>1 DEF Safe
  <2>4. \A c : c = o => c \in Disposable \/ Safe(c)'
    BY <2>1, <2>2, <2>a DEF Safe
  <2>5. \A v \in Writers :
           /\ \A c \in refs'[v] : c \in refs[v] \/ c = o
           /\ phase'[v] = "flush" => phase[v] = "flush" /\ todo'[v] = todo[v]
    BY <1>5 DEF C!Flush, C!Offloaded, WholeInv, C!TypeOK, o
  <2>6. \A v \in Writers : \A c \in refs'[v] : c \in Disposable \/ Safe(c)'
    BY <2>3, <2>4, <2>5 DEF ReferenceInv
  <2> QED BY <2>1, <2>3, <2>5, <2>6 DEF ReferenceInv
<1>6. ASSUME NEW w \in Writers, C!PutFails(w) \/ C!Leave(w) PROVE ReferenceInv'
  <2>1. C!Present' = C!Present /\ UNCHANGED <<disk, borrowed, swept, referenced>>
    BY <1>6 DEF C!PutFails, C!Leave, C!Present
  <2>2. \A v \in Writers :
           /\ refs'[v] \subseteq refs[v]
           /\ phase'[v] = "flush" => phase[v] = "flush" /\ todo'[v] = todo[v]
    BY <1>6 DEF C!PutFails, C!Leave, C!End, WholeInv, C!TypeOK
  <2> QED BY <2>1, <2>2, KeepsReference
<1>7. ASSUME NEW w \in Writers, C!Commit(w) PROVE ReferenceInv'
  <2>1. /\ C!Present' = C!Present /\ UNCHANGED <<disk, borrowed, swept>>
        /\ referenced' = referenced \cup refs[w] /\ refs[w] \cap Disposable = {}
        /\ refs[w] \subseteq Strings
    BY <1>7 DEF C!Commit, C!Present, WholeInv, C!TypeOK
  <2>2. \A v \in Writers :
           /\ refs'[v] \subseteq refs[v]
           /\ phase'[v] = "flush" => phase[v] = "flush" /\ todo'[v] = todo[v]
    BY <1>7 DEF C!Commit, C!End, WholeInv, C!TypeOK
  <2>3. \A c \in refs[w] : Safe(c)
    BY <2>1 DEF ReferenceInv
  <2> QED BY <2>1, <2>2, <2>3 DEF ReferenceInv, Safe
<1>8. ASSUME NEW d \in Strings, C!Delete(d) PROVE ReferenceInv'
  <2>1. /\ d \in Disposable /\ C!Present' = C!Present \ {d}
        /\ UNCHANGED <<disk, borrowed, swept, referenced, refs, phase, todo>>
    BY <1>8 DEF C!Delete, C!txVars, C!Present, WholeInv, C!TypeOK
  <2> QED BY <2>1 DEF ReferenceInv, Safe
<1>9. CASE C!PowerLoss
  <2>1. /\ UNCHANGED <<referenced, borrowed>> /\ swept \subseteq swept'
        /\ \A v \in Writers : refs'[v] = {} /\ phase'[v] = "idle"
    BY <1>9 DEF C!PowerLoss
  <2>2. PICK gone :
           /\ \A c \in Strings : c \in disk /\ c \in C!Present /\ c \notin C!Within(gone)
                                 => c \in disk' /\ c \in C!Present'
           /\ swept' = swept \cup (C!Present \cap C!Within(gone))
    BY <1>9 DEF C!PowerLoss, C!Present, WholeInv, Synced
  <2>3. \A c \in Strings : Safe(c) => Safe(c)'
    BY <2>1, <2>2 DEF Safe
  <2> QED BY <2>1, <2>3 DEF ReferenceInv
<1>10. CASE UNCHANGED C!vars
  <2>1. C!Present' = C!Present /\ UNCHANGED <<disk, borrowed, swept, referenced, refs, phase, todo>>
    BY <1>10 DEF C!vars, C!txVars, C!Present
  <2> QED BY <2>1, KeepsReference
<1> QED BY <1>1, <1>2, <1>3, <1>4, <1>5, <1>6, <1>7, <1>8, <1>9, <1>10 DEF C!Next, Input

\* A committed event can be read back (commit_events puts every large string
\* before COMMIT, and put flushes the object's directory before it returns): after
\* any failure or power loss the objects it refers to are there, except one that
\* some writer took as it found it before its name was flushed, and one whose
\* directory a power loss took, because put does not flush the base directory.
THEOREM CommittedReferencesResolve == Spec => []ReferencesResolve
<1>1. ReferenceInv => ReferencesResolve
  BY DEF ReferenceInv, ReferencesResolve, C!ReferencesResolve, Safe
<1>2. WholeInv /\ ReferenceInv /\ [Next]_vars => ReferenceInv'
  BY NextReference, EachSteps, StorageAssumption
<1>3. Init => ReferenceInv
  BY InitReference, EachStarts
<1> QED BY <1>1, <1>2, <1>3, ContentTypesInvariant, PTL DEF Spec

-----------------------------------------------------------------------------
(* PageStore: pages that cannot be read back.                              *)

\* A page or a row that does not verify is empty, and its content is in the
\* content store.
HeldInv ==
    /\ S!TypeOK
    /\ \A p \in held \cup rows : p.data = p.hash \/ (p.data = Empty /\ p.hash \in blobs)

\* Nothing is held at first.
LEMMA InitHeld == S!Init => HeldInv
BY DEF S!Init, S!TypeOK, HeldInv

\* Only create_with_cas makes such a page; a repair undoes it.
LEMMA NextHeld == HeldInv /\ [S!Next]_(S!vars) => HeldInv'
<1> SUFFICES ASSUME HeldInv, [S!Next]_(S!vars) PROVE HeldInv'
  OBVIOUS
<1> USE DEF HeldInv, S!TypeOK, S!Data, S!KVPages, S!Rows
<1>1. ASSUME NEW id \in PageIds, NEW data \in Contents, NEW meta \in Meta,
             S!Create(id, data, meta) \/ S!CreateWithCas(id, data, meta)
      PROVE  HeldInv'
  <2>1. CASE S!Create(id, data, meta)
    <3>1. PICK p : p = [id |-> id, data |-> data, hash |-> data, meta |-> meta,
                        offloaded |-> FALSE]
      OBVIOUS
    <3>2. p \in S!KVPages /\ p.data = p.hash
      BY <3>1
    <3>3. held' = held \cup {p} /\ UNCHANGED <<rows, blobs>>
      BY <2>1, <3>1 DEF S!Create
    <3> QED BY <3>2, <3>3
  <2>2. CASE S!CreateWithCas(id, data, meta)
    <3>1. PICK p : p = [id |-> id, data |-> Empty, hash |-> data, meta |-> meta,
                        offloaded |-> TRUE]
      OBVIOUS
    <3>2. p \in S!KVPages /\ p.data = Empty /\ p.hash = data
      BY <3>1
    <3>3. held' = held \cup {p} /\ blobs' = blobs \cup {data} /\ UNCHANGED rows
      BY <2>2, <3>1 DEF S!CreateWithCas
    <3> QED BY <3>2, <3>3
  <2> QED BY <1>1, <2>1, <2>2
<1>2. ASSUME NEW p \in held, S!PutPage(p) PROVE HeldInv'
  <2>1. S!RowOf(p) \in S!Rows /\ S!RowOf(p).id = p.id
        /\ S!RowOf(p).data = p.data /\ S!RowOf(p).hash = p.hash
    BY DEF S!RowOf
  <2>2. rows' = {row \in rows : row.id # p.id} \cup {S!RowOf(p)}
        /\ UNCHANGED <<blobs, held>>
    BY <1>2 DEF S!PutPage
  <2> QED BY <2>1, <2>2
<1>3. ASSUME NEW p \in held, S!Repair(p) PROVE HeldInv'
  <2>1. S!Repaired(p) \in S!KVPages
        /\ (S!Repaired(p) = p \/ S!Repaired(p).data = S!Repaired(p).hash)
    BY DEF S!Repaired, S!Verified
  <2>2. held' = held \cup {S!Repaired(p)} /\ UNCHANGED <<rows, blobs>>
    BY <1>3 DEF S!Repair
  <2> QED BY <2>1, <2>2
<1>4. ASSUME NEW row \in rows, S!GetPage(row) PROVE HeldInv'
  <2>1. S!PageOf(row) \in S!KVPages /\ S!PageOf(row).data = row.data
        /\ S!PageOf(row).hash = row.hash
    BY DEF S!PageOf
  <2>2. held' \subseteq held \cup {S!PageOf(row)} /\ UNCHANGED <<rows, blobs>>
    BY <1>4 DEF S!GetPage
  <2> QED BY <2>1, <2>2
<1>5. ASSUME NEW id \in PageIds, S!DeletePage(id) PROVE HeldInv'
  BY <1>5 DEF S!DeletePage
<1>6. CASE UNCHANGED <<rows, blobs, held>>
  BY <1>6
<1> QED BY <1>1, <1>2, <1>3, <1>4, <1>5, <1>6 DEF S!Next, S!PutRefused, S!vars

\* Pages and rows are of their types, one row for an id, and what does not
\* verify is in the content store.
THEOREM PageStoreInvariant == Spec => []HeldInv
<1>1. HeldInv /\ [Next]_vars => HeldInv'
  BY NextHeld, EachSteps
<1>2. Init => HeldInv
  BY InitHeld, EachStarts
<1> QED BY <1>1, <1>2, PTL DEF Spec

\* However pages are created, put, read, repaired and deleted, a row that
\* get_page refuses is that of an offloaded page whose content is still in the
\* content store (put_page, get_page, repair_page).
THEOREM NoContentLost == Spec => []UnreadableIsOffloaded
<1>1. HeldInv => UnreadableIsOffloaded
  BY DEF HeldInv, UnreadableIsOffloaded, S!UnreadableIsOffloaded, S!Constructible, S!PageOf
<1> QED BY <1>1, PageStoreInvariant, PTL

-----------------------------------------------------------------------------
(* Residency: evictions and pins.                                          *)

\* Operators of the instances are the ones above.
LEMMA ResidencyKept == \A s, A : R!Kept(s, A) = Kept(s, A)
BY DEF R!Kept, Kept, R!At, At

\* A page is resident once.
Distinct(entrs) ==
    \A i, j \in DOMAIN entrs : entrs[i].page = entrs[j].page => i = j

ResidentInv == R!TypeOK /\ Distinct(resident)

\* The fields of an entry.
LEMMA EntryType ==
    ASSUME R!ResidencyAssumption, NEW s \in Seq(R!Entry), NEW i \in DOMAIN s
    PROVE  /\ s[i] \in R!Entry /\ s[i].accessed \in Nat /\ s[i].pins \in Nat
           /\ s[i].page \in Pages
<1>1. s[i] \in R!Entry
  OBVIOUS
<1>2. \A e \in R!Entry : e.accessed \in 0..MaxTime /\ e.pins \in 0..MaxPins /\ e.page \in Pages
  BY DEF R!Entry
<1>3. 0..MaxTime \subseteq Nat /\ 0..MaxPins \subseteq Nat
  BY DEF R!ResidencyAssumption
<1> QED BY <1>1, <1>2, <1>3

\* Keeping some of the entries keeps them distinct.
LEMMA KeptDistinct ==
    ASSUME NEW s \in Seq(R!Entry), Distinct(s), NEW A
    PROVE  Kept(s, A) \in Seq(R!Entry) /\ Distinct(Kept(s, A))
<1>1. PICK k \in Seq(R!Entry) : k = Kept(s, A)
  BY KeptIsSubsequence
<1>2. \A i, j \in DOMAIN k : i < j => k[i].page # k[j].page
  <2> TAKE i, j \in DOMAIN k
  <2> HAVE i < j
  <2>1. PICK m, n \in DOMAIN s : m < n /\ s[m] = k[i] /\ s[n] = k[j]
    BY <1>1, KeptOrder
  <2>2. m # n
    BY <2>1
  <2> QED BY <2>1, <2>2 DEF Distinct
<1>3. \A i, j \in DOMAIN k : i < j \/ j < i \/ i = j
  OBVIOUS
<1>4. Distinct(k)
  BY <1>2, <1>3 DEF Distinct
<1> QED BY <1>1, <1>4

\* What unload and evict leave.
LEMMA WithoutProps ==
    ASSUME NEW s \in Seq(R!Entry), Distinct(s), NEW p,
           NEW w, w = R!Without(s, p)
    PROVE  /\ w \in Seq(R!Entry) /\ Distinct(w)
           /\ \A i \in DOMAIN w : w[i].page # p /\ \E j \in DOMAIN s : s[j] = w[i]
           /\ \A j \in DOMAIN s : s[j].page # p => \E i \in DOMAIN w : w[i] = s[j]
           /\ Len(w) <= Len(s)
           /\ (\E j \in DOMAIN s : s[j].page = p) => Len(w) < Len(s)
<1> DEFINE A == {e \in R!Entry : e.page # p}
<1>1. w = Kept(s, A)
  BY ResidencyKept DEF R!Without
<1>2. \A j \in 1..Len(s) : s[j] \in R!Entry /\ (s[j] \in A <=> s[j].page # p)
  OBVIOUS
<1>3. \A e \in A : e.page # p
  OBVIOUS
<1> HIDE DEF A
<1>4. /\ \A i \in DOMAIN w : w[i] \in A /\ \E j \in DOMAIN s : s[j] = w[i]
      /\ \A j \in DOMAIN s : s[j] \in A => \E i \in DOMAIN w : w[i] = s[j]
  BY <1>1, KeptElements
<1>5. Len(w) <= Len(s) /\ ((\E j \in 1..Len(s) : s[j] \notin A) => Len(w) < Len(s))
  BY <1>1, KeptIsSubsequence
<1>6. w \in Seq(R!Entry) /\ Distinct(w)
  BY <1>1, KeptDistinct
<1>7. DOMAIN s = 1..Len(s)
  OBVIOUS
<1>8. \A i \in DOMAIN w : w[i].page # p
  BY <1>3, <1>4
<1> QED BY <1>2, <1>4, <1>5, <1>6, <1>7, <1>8

\* Of the entries that can be evicted one was accessed least recently, and is
\* the first of those.
LEMMA VictimExists ==
    ASSUME NEW s \in Seq(R!Entry), R!Evictable(s) # {}, R!ResidencyAssumption
    PROVE  \E i \in R!Evictable(s) : R!IsVictim(s, i)
<1> DEFINE Ages == {s[i].accessed : i \in R!Evictable(s)}
<1>1. R!Evictable(s) \subseteq 1..Len(s) /\ Len(s) \in Nat
  BY DEF R!Evictable
<1>2. \A i \in R!Evictable(s) : s[i].accessed \in Nat /\ i \in Nat
  BY <1>1, EntryType DEF R!Evictable
<1>3. Ages \in SUBSET Nat /\ Ages # {}
  BY <1>2
<1>4. PICK a \in Ages : \A b \in Ages : a <= b
  BY <1>3, Least
<1> DEFINE Oldest == {i \in R!Evictable(s) : s[i].accessed = a}
<1>5. Oldest \in SUBSET Nat /\ Oldest # {}
  BY <1>2, <1>4
<1>6. PICK i \in Oldest : \A j \in Oldest : i <= j
  BY <1>5, Least
<1>7. \A j \in R!Evictable(s) : s[i].accessed <= s[j].accessed
  BY <1>4, <1>6
<1>8. \A j \in R!Evictable(s) : s[i].accessed = s[j].accessed => i <= j
  BY <1>6
<1>9. R!IsVictim(s, i)
  <2> HIDE DEF Ages, Oldest
  <2>1. i \in R!Evictable(s)
    BY <1>6 DEF Oldest
  <2> QED BY <2>1, <1>2, <1>7, <1>8 DEF R!IsVictim
<1> QED BY <1>6, <1>9

\* An eviction takes the victim, if there is one.
LEMMA EvictProps ==
    ASSUME NEW s \in Seq(R!Entry), R!ResidencyAssumption
    PROVE  \/ R!Evictable(s) = {} /\ R!AfterEvict(s) = s
           \/ \E v \in R!Evictable(s) : /\ R!IsVictim(s, v)
                                        /\ R!AfterEvict(s) = R!Without(s, s[v].page)
<1>1. CASE R!Evictable(s) = {}
  BY <1>1 DEF R!AfterEvict
<1>2. CASE R!Evictable(s) # {}
  <2> DEFINE v == CHOOSE i \in R!Evictable(s) : R!IsVictim(s, i)
  <2>1. v \in R!Evictable(s) /\ R!IsVictim(s, v)
    BY <1>2, VictimExists
  <2>2. R!AfterEvict(s) = R!Without(s, s[v].page)
    BY <1>2 DEF R!AfterEvict
  <2> HIDE DEF v
  <2> QED BY <2>1, <2>2
<1> QED BY <1>1, <1>2

\* Touched and Repinned keep the pages where they are.
LEMMA ChangedProps ==
    ASSUME ResidentInv, NEW p, NEW d \in {-1, 1}, NEW new,
           \/ new = R!Touched(p) /\ clock' \in 0..MaxTime
           \/ /\ new = R!Repinned(p, d)
              /\ \A i \in DOMAIN resident :
                    resident[i].page = p => resident[i].pins + d \in 0..MaxPins,
           R!ResidencyAssumption
    PROVE  /\ new \in Seq(R!Entry) /\ Distinct(new) /\ Len(new) = Len(resident)
           /\ \A i \in DOMAIN resident : /\ i \in DOMAIN new
                                         /\ new[i].page = resident[i].page
                                         /\ new[i].pins >= resident[i].pins - 1
<1>1. resident \in Seq(R!Entry) /\ Distinct(resident)
  BY DEF ResidentInv, R!TypeOK
<1>2. \A i \in DOMAIN resident : /\ resident[i] \in R!Entry
                                 /\ resident[i].pins \in Int
                                 /\ resident[i].pins >= resident[i].pins - 1
  <2> TAKE i \in DOMAIN resident
  <2>1. resident[i] \in R!Entry /\ resident[i].pins \in Nat
    BY <1>1, EntryType
  <2> QED BY <2>1
<1>3. /\ DOMAIN new = DOMAIN resident /\ new = [i \in DOMAIN resident |-> new[i]]
      /\ \A i \in DOMAIN resident : /\ new[i] \in R!Entry
                                    /\ new[i].page = resident[i].page
                                    /\ new[i].pins >= resident[i].pins - 1
  <2>1. CASE new = R!Touched(p) /\ clock' \in 0..MaxTime
    <3>1. DOMAIN new = DOMAIN resident /\ new = [i \in DOMAIN resident |-> new[i]]
      BY <2>1 DEF R!Touched
    <3>2. \A i \in DOMAIN resident :
             new[i] = IF resident[i].page = p THEN [resident[i] EXCEPT !.accessed = clock']
                      ELSE resident[i]
      BY <2>1 DEF R!Touched
    <3>3. \A e \in R!Entry : /\ [e EXCEPT !.accessed = clock'] \in R!Entry
                             /\ [e EXCEPT !.accessed = clock'].page = e.page
                             /\ [e EXCEPT !.accessed = clock'].pins = e.pins
      BY <2>1 DEF R!Entry
    <3> QED BY <3>1, <3>2, <3>3, <1>2
  <2>2. CASE /\ new = R!Repinned(p, d)
             /\ \A i \in DOMAIN resident :
                    resident[i].page = p => resident[i].pins + d \in 0..MaxPins
    <3>1. DOMAIN new = DOMAIN resident /\ new = [i \in DOMAIN resident |-> new[i]]
      BY <2>2 DEF R!Repinned
    <3>2. \A i \in DOMAIN resident :
             new[i] = IF resident[i].page = p
                      THEN [resident[i] EXCEPT !.pins = resident[i].pins + d]
                      ELSE resident[i]
      BY <2>2 DEF R!Repinned
    <3>3. \A e \in R!Entry : \A n \in 0..MaxPins :
             /\ [e EXCEPT !.pins = n] \in R!Entry
             /\ [e EXCEPT !.pins = n].page = e.page
             /\ [e EXCEPT !.pins = n].pins = n
      BY DEF R!Entry
    <3>4. \A i \in DOMAIN resident : resident[i].pins + d >= resident[i].pins - 1
      BY <1>2
    <3>5. ASSUME NEW i \in DOMAIN resident
          PROVE  /\ new[i] \in R!Entry
                 /\ new[i].page = resident[i].page
                 /\ new[i].pins >= resident[i].pins - 1
      <4>1. CASE resident[i].page = p
        <5>1. PICK n \in 0..MaxPins : n = resident[i].pins + d
          BY <2>2, <4>1
        <5>2. new[i] = [resident[i] EXCEPT !.pins = n]
          BY <3>2, <4>1, <5>1
        <5>3. resident[i] \in R!Entry /\ n >= resident[i].pins - 1
          BY <1>2, <3>4, <5>1
        <5>4. /\ new[i] \in R!Entry /\ new[i].page = resident[i].page
              /\ new[i].pins = n
          BY <3>3, <5>2, <5>3
        <5> QED BY <5>3, <5>4
      <4>2. CASE resident[i].page # p
        BY <3>2, <4>2, <1>2
      <4> QED BY <4>1, <4>2
    <3> QED BY <3>1, <3>5
  <2> QED BY <2>1, <2>2
<1>4. DOMAIN resident = 1..Len(resident) /\ Len(resident) \in Nat
  BY <1>1
<1>5. new \in Seq(R!Entry) /\ Len(new) = Len(resident)
  <2>1. \A i \in 1..Len(resident) : new[i] \in R!Entry
    BY <1>3, <1>4
  <2>2. new = [i \in 1..Len(resident) |-> new[i]]
    BY <1>3, <1>4
  <2>3. new \in [1..Len(resident) -> R!Entry]
    BY <2>1, <2>2
  <2> QED BY <2>3, <1>4
<1>6. Distinct(new)
  BY <1>1, <1>3 DEF Distinct
<1> QED BY <1>3, <1>5, <1>6

\* What an operation of the manager leaves alone: the entries are of their type
\* and distinct, and a pinned page stays.
KeepsPinned(new) ==
    /\ new \in Seq(R!Entry) /\ Distinct(new)
    /\ \A i \in DOMAIN resident : resident[i].pins > 0 =>
          \E j \in DOMAIN new : /\ new[j].page = resident[i].page
                                /\ new[j].pins >= resident[i].pins - 1

\* Taking out a page without pins, or nothing, keeps the pinned ones.
LEMMA WithoutKeepsPinned ==
    ASSUME ResidentInv, R!ResidencyAssumption, NEW p, NEW w, w = R!Without(resident, p),
           \A i \in DOMAIN resident : resident[i].page = p => resident[i].pins = 0
    PROVE  KeepsPinned(w)
<1>1. resident \in Seq(R!Entry) /\ Distinct(resident)
  BY DEF ResidentInv, R!TypeOK
<1>2. w \in Seq(R!Entry) /\ Distinct(w)
  BY <1>1, WithoutProps
<1>3. \A j \in DOMAIN resident : resident[j].page # p => \E i \in DOMAIN w : w[i] = resident[j]
  BY <1>1, WithoutProps
<1>4. \A i \in DOMAIN resident : /\ resident[i].pins \in Nat
                                 /\ resident[i].pins >= resident[i].pins - 1
  <2> TAKE i \in DOMAIN resident
  <2>1. resident[i].pins \in Nat
    BY <1>1, EntryType
  <2> QED BY <2>1
<1>5. \A i \in DOMAIN resident : resident[i].pins > 0 => resident[i].page # p
  BY <1>4
<1> QED BY <1>2, <1>3, <1>4, <1>5 DEF KeepsPinned

\* So does an eviction.
LEMMA EvictKeepsPinned ==
    ASSUME ResidentInv, R!ResidencyAssumption PROVE KeepsPinned(R!AfterEvict(resident))
<1>1. resident \in Seq(R!Entry) /\ Distinct(resident)
  BY DEF ResidentInv, R!TypeOK
<1>2. CASE R!AfterEvict(resident) = resident
  <2>1. \A i \in DOMAIN resident : resident[i].pins >= resident[i].pins - 1
    <3> TAKE i \in DOMAIN resident
    <3>1. resident[i].pins \in Nat
      BY <1>1, EntryType
    <3> QED BY <3>1
  <2> QED BY <1>1, <1>2, <2>1 DEF KeepsPinned
<1>3. ASSUME NEW v \in R!Evictable(resident),
             R!AfterEvict(resident) = R!Without(resident, resident[v].page)
      PROVE  KeepsPinned(R!AfterEvict(resident))
  <2>1. v \in DOMAIN resident /\ resident[v].pins = 0
    BY DEF R!Evictable
  <2>2. \A i \in DOMAIN resident : resident[i].page = resident[v].page => resident[i].pins = 0
    BY <1>1, <2>1 DEF Distinct
  <2> QED BY <1>3, <2>2, WithoutKeepsPinned
<1> QED BY <1>1, <1>2, <1>3, EvictProps

\* Every operation keeps the types, the pages distinct and the pinned pages.
LEMMA NextResident ==
    ASSUME R!ResidencyAssumption, ResidentInv, R!Next
    PROVE  KeepsPinned(resident') /\ clock' \in 0..MaxTime
<1> USE DEF ResidentInv
<1>1. resident \in Seq(R!Entry) /\ Distinct(resident) /\ clock \in 0..MaxTime
      /\ (R!Now => clock' \in 0..MaxTime)
  BY DEF R!TypeOK, R!Now, R!ResidencyAssumption
<1>2. ASSUME NEW p \in Pages, R!Now, resident' = R!Touched(p)
      PROVE  KeepsPinned(resident') /\ clock' \in 0..MaxTime
  <2>1. PICK new : new = R!Touched(p)
    OBVIOUS
  <2>2. clock' \in 0..MaxTime /\ 1 \in {-1, 1}
    BY <1>1, <1>2
  <2>3. KeepsPinned(new)
    BY <2>1, <2>2, ChangedProps DEF KeepsPinned
  <2> QED BY <1>2, <2>1, <2>2, <2>3
<1>3. ASSUME NEW p \in Pages, NEW d \in {-1, 1}, resident' = R!Repinned(p, d), UNCHANGED clock,
             \A i \in DOMAIN resident : resident[i].page = p => resident[i].pins + d \in 0..MaxPins
      PROVE  KeepsPinned(resident') /\ clock' \in 0..MaxTime
  <2>1. PICK new : new = R!Repinned(p, d)
    OBVIOUS
  <2>2. KeepsPinned(new)
    BY <1>3, <2>1, ChangedProps DEF KeepsPinned
  <2> QED BY <1>1, <1>3, <2>1, <2>2
<1>4. ASSUME NEW p \in Pages, R!Load(p), ~R!Resident(p)
      PROVE  KeepsPinned(resident') /\ clock' \in 0..MaxTime
  <2>1. clock' \in 0..MaxTime
    BY <1>1, <1>4 DEF R!Load
  <2>2. PICK room : room = R!Room
    OBVIOUS
  <2>3. KeepsPinned(room) /\ \A i \in DOMAIN room : room[i].page # p
    <3>1. \A i \in DOMAIN resident : resident[i].page # p
      BY <1>4 DEF R!Resident, R!PagesIn
    <3>2. CASE room = resident
      <4>1. \A i \in DOMAIN resident : resident[i].pins >= resident[i].pins - 1
        <5> TAKE i \in DOMAIN resident
        <5>1. resident[i].pins \in Nat
          BY <1>1, EntryType
        <5> QED BY <5>1
      <4> QED BY <1>1, <3>1, <3>2, <4>1 DEF KeepsPinned
    <3>3. CASE room = R!AfterEvict(resident) /\ room # resident
      <4>1. PICK v \in R!Evictable(resident) : room = R!Without(resident, resident[v].page)
        BY <1>1, <3>3, EvictProps
      <4>2. \A i \in DOMAIN room : \E j \in DOMAIN resident : resident[j] = room[i]
        BY <1>1, <4>1, WithoutProps
      <4> QED BY <3>1, <3>3, <4>2, EvictKeepsPinned
    <3> QED BY <2>2, <3>2, <3>3 DEF R!Room
  <2>4. PICK e : e = [page |-> p, accessed |-> clock', pins |-> 0]
    OBVIOUS
  <2>5. e \in R!Entry /\ e.page = p
    BY <2>1, <2>4 DEF R!Entry, R!ResidencyAssumption
  <2>6. resident' = Append(room, e)
    BY <1>4, <2>2, <2>4 DEF R!Load
  <2>7. /\ Append(room, e) \in Seq(R!Entry) /\ Len(Append(room, e)) = Len(room) + 1
        /\ \A i \in DOMAIN room : i \in DOMAIN Append(room, e) /\ Append(room, e)[i] = room[i]
        /\ Append(room, e)[Len(room) + 1] = e
        /\ \A i \in DOMAIN Append(room, e) : i \in DOMAIN room \/ i = Len(room) + 1
    BY <2>3, <2>5 DEF KeepsPinned
  <2>8. Distinct(Append(room, e))
    BY <2>3, <2>5, <2>7 DEF Distinct, KeepsPinned
  <2>9. KeepsPinned(Append(room, e))
    <3> HIDE DEF ResidentInv
    <3>1. ASSUME NEW i \in DOMAIN resident, resident[i].pins > 0
          PROVE  \E j \in DOMAIN Append(room, e) :
                    /\ Append(room, e)[j].page = resident[i].page
                    /\ Append(room, e)[j].pins >= resident[i].pins - 1
      <4>1. PICK j \in DOMAIN room : /\ room[j].page = resident[i].page
                                     /\ room[j].pins >= resident[i].pins - 1
        BY <2>3, <3>1 DEF KeepsPinned
      <4>2. j \in DOMAIN Append(room, e) /\ Append(room, e)[j] = room[j]
        BY <2>7
      <4> QED BY <4>1, <4>2
    <3> QED BY <2>7, <2>8, <3>1 DEF KeepsPinned
  <2> QED BY <2>1, <2>6, <2>9
<1>5. ASSUME NEW p \in Pages, R!Load(p), R!Resident(p)
      PROVE  KeepsPinned(resident') /\ clock' \in 0..MaxTime
  BY <1>2, <1>5 DEF R!Load
<1>6. ASSUME NEW p \in Pages, R!Touch(p)
      PROVE  KeepsPinned(resident') /\ clock' \in 0..MaxTime
  BY <1>2, <1>6 DEF R!Touch
<1>7. ASSUME NEW p \in Pages, R!Pin(p)
      PROVE  KeepsPinned(resident') /\ clock' \in 0..MaxTime
  <2>1. \A i \in DOMAIN resident : resident[i].page = p => resident[i].pins + 1 \in 0..MaxPins
    <3> TAKE i \in DOMAIN resident
    <3>1. resident[i].pins \in Nat
      BY <1>1, EntryType
    <3>2. resident[i].page = p => resident[i].pins < MaxPins
      BY <1>7 DEF R!Pin
    <3> QED BY <3>1, <3>2 DEF R!ResidencyAssumption
  <2> QED BY <1>3, <1>7, <2>1 DEF R!Pin
<1>8. ASSUME NEW p \in Pages, R!Unload(p)
      PROVE  KeepsPinned(resident') /\ clock' \in 0..MaxTime
  <2>1. CASE \E i \in DOMAIN resident : resident[i].page = p /\ resident[i].pins > 0
    <3>1. resident' = R!Repinned(p, -1) /\ UNCHANGED clock
      BY <1>8, <2>1 DEF R!Unload
    <3>2. ASSUME NEW i \in DOMAIN resident, resident[i].page = p
          PROVE  resident[i].pins + -1 \in 0..MaxPins
      <4>1. resident[i].pins > 0
        BY <1>1, <2>1, <3>2 DEF Distinct
      <4>2. resident[i].pins \in 0..MaxPins
        <5>1. resident[i] \in R!Entry
          BY <1>1, EntryType
        <5> QED BY <5>1 DEF R!Entry
      <4> QED BY <4>1, <4>2 DEF R!ResidencyAssumption
    <3>3. -1 \in {-1, 1}
      OBVIOUS
    <3> QED BY <1>3, <3>1, <3>2, <3>3
  <2>2. CASE ~\E i \in DOMAIN resident : resident[i].page = p /\ resident[i].pins > 0
    <3>1. resident' = R!Without(resident, p) /\ UNCHANGED clock
      BY <1>8, <2>2 DEF R!Unload
    <3>2. \A i \in DOMAIN resident : resident[i].page = p => resident[i].pins = 0
      <4> TAKE i \in DOMAIN resident
      <4>1. resident[i].pins \in Nat
        BY <1>1, EntryType
      <4> QED BY <2>2, <4>1
    <3>3. PICK w : w = R!Without(resident, p)
      OBVIOUS
    <3> QED BY <1>1, <3>1, <3>2, <3>3, WithoutKeepsPinned
  <2> QED BY <2>1, <2>2
<1>9. CASE R!Evict
  BY <1>1, <1>9, EvictKeepsPinned DEF R!Evict
<1>10. CASE R!EvictAll
  <2> DEFINE A == {e \in R!Entry : e.pins > 0}
  <2>1. resident' = Kept(resident, A) /\ UNCHANGED clock
    BY <1>10, ResidencyKept DEF R!EvictAll
  <2>2. \A i \in DOMAIN resident : /\ resident[i].pins > 0 => resident[i] \in A
                                   /\ resident[i].pins >= resident[i].pins - 1
    <3> TAKE i \in DOMAIN resident
    <3>1. resident[i] \in R!Entry /\ resident[i].pins \in Nat
      BY <1>1, EntryType
    <3> QED BY <3>1
  <2> HIDE DEF A
  <2>3. PICK k : k = Kept(resident, A)
    OBVIOUS
  <2>4. k \in Seq(R!Entry) /\ Distinct(k)
    BY <1>1, <2>3, KeptDistinct
  <2>5. \A j \in DOMAIN resident : resident[j] \in A => \E i \in DOMAIN k : k[i] = resident[j]
    BY <1>1, <2>3, KeptElements
  <2>6. KeepsPinned(k)
    BY <2>2, <2>4, <2>5 DEF KeepsPinned
  <2> QED BY <1>1, <2>1, <2>3, <2>6
<1> HIDE DEF ResidentInv
<1> QED BY <1>4, <1>5, <1>6, <1>7, <1>8, <1>9, <1>10 DEF R!Next

\* The entries are of their type, and a page is resident once: load touches the
\* entry that is there (load, _touch).
THEOREM ResidencyInvariant == Spec => []ResidentInv
<1>1. Init => ResidentInv
  BY StorageAssumption, EachStarts DEF R!Init, ResidentInv, R!TypeOK, Distinct, R!ResidencyAssumption
<1>2. ResidentInv /\ [Next]_vars => ResidentInv'
  <2> SUFFICES ASSUME ResidentInv, [Next]_vars PROVE ResidentInv'
    OBVIOUS
  <2>1. CASE R!Next
    BY <2>1, NextResident, StorageAssumption DEF ResidentInv, R!TypeOK, KeepsPinned
  <2>2. CASE UNCHANGED <<resident, clock>>
    BY <2>2 DEF ResidentInv, R!TypeOK, Distinct
  <2> QED BY <2>1, <2>2, EachSteps DEF R!vars
<1> QED BY <1>1, <1>2, PTL DEF Spec

\* Only unload takes a pin off, one at a time, and no eviction removes a page
\* while it is pinned (select_victim, unload).
THEOREM PinsHold == Spec => PinnedStay
<1>1. ResidentInv /\ [Next]_vars =>
        [ \A i \in DOMAIN resident : resident[i].pins > 0 =>
             \E j \in DOMAIN resident' : /\ resident'[j].page = resident[i].page
                                         /\ resident'[j].pins >= resident[i].pins - 1 ]_(R!vars)
  <2> SUFFICES ASSUME ResidentInv, [Next]_vars, R!Next
               PROVE  \A i \in DOMAIN resident : resident[i].pins > 0 =>
                         \E j \in DOMAIN resident' :
                            /\ resident'[j].page = resident[i].page
                            /\ resident'[j].pins >= resident[i].pins - 1
    BY EachSteps
  <2> QED BY NextResident, StorageAssumption DEF KeepsPinned
<1> QED BY <1>1, ResidencyInvariant, PTL DEF Spec, PinnedStay, R!PinnedStay

\* What a step does that lets a page enter.
Coldest(new) ==
    /\ \A i, j \in DOMAIN resident :
          /\ resident[i].page \notin R!PagesIn(new)
          /\ resident[j].page \in R!PagesIn(new)
          /\ resident[j].pins = 0
          => resident[i].accessed <= resident[j].accessed
    /\ Len(new) > Len(resident) /\ Len(new) > MaxPages =>
          \A i \in DOMAIN resident : resident[i].pins > 0

\* Entries with the pages of the resident ones bring no page in.
LEMMA NothingEnters ==
    ASSUME NEW s, \A i \in DOMAIN s : \E j \in DOMAIN resident : resident[j].page = s[i].page
    PROVE  R!PagesIn(s) \subseteq R!PagesIn(resident)
BY DEF R!PagesIn

\* Only a load lets a page enter, and what leaves then is the victim.
LEMMA NextColdest ==
    ASSUME R!ResidencyAssumption, ResidentInv, R!Next
    PROVE  R!PagesIn(resident') \subseteq R!PagesIn(resident) \/ Coldest(resident')
<1>1. resident \in Seq(R!Entry) /\ Distinct(resident) /\ Len(resident) \in Nat
  BY DEF ResidentInv, R!TypeOK
<1>2. ASSUME NEW p, NEW d, resident' = R!Touched(p) \/ resident' = R!Repinned(p, d)
      PROVE  R!PagesIn(resident') \subseteq R!PagesIn(resident)
  <2>1. DOMAIN resident' = DOMAIN resident
    BY <1>2 DEF R!Touched, R!Repinned
  <2>3. \A i \in DOMAIN resident :
           \/ resident'[i] = [resident[i] EXCEPT !.accessed = clock']
           \/ resident'[i] = [resident[i] EXCEPT !.pins = @ + d]
           \/ resident'[i] = resident[i]
    BY <1>2 DEF R!Touched, R!Repinned
  <2>4. \A i \in DOMAIN resident : resident'[i].page = resident[i].page
    <3> TAKE i \in DOMAIN resident
    <3>1. PICK e \in R!Entry : e = resident[i]
      BY <1>1
    <3>2. PICK x : \/ resident'[i] = [e EXCEPT !.accessed = x]
                     \/ resident'[i] = [e EXCEPT !.pins = x]
                     \/ resident'[i] = e
      BY <2>3, <3>1
    <3>3. resident'[i].page = e.page
      <4>1. CASE resident'[i] = [e EXCEPT !.accessed = x]
        BY <4>1 DEF R!Entry
      <4>2. CASE resident'[i] = [e EXCEPT !.pins = x]
        BY <4>2 DEF R!Entry
      <4> QED BY <3>2, <4>1, <4>2
    <3> QED BY <3>1, <3>3
  <2> QED BY <2>1, <2>4, NothingEnters
<1>3. ASSUME NEW A, resident' = Kept(resident, A)
      PROVE  R!PagesIn(resident') \subseteq R!PagesIn(resident)
  <2>1. \A i \in DOMAIN resident' : \E j \in DOMAIN resident : resident[j] = resident'[i]
    BY <1>1, <1>3, KeptElements
  <2> QED BY <2>1, NothingEnters
<1>4. ASSUME NEW p, resident' = R!Without(resident, p)
      PROVE  R!PagesIn(resident') \subseteq R!PagesIn(resident)
  BY <1>3, <1>4, ResidencyKept DEF R!Without
<1>5. ASSUME NEW p \in Pages, R!Load(p), ~R!Resident(p) PROVE Coldest(resident')
  <2>1. PICK room : room = R!Room
    OBVIOUS
  <2>2. PICK e : e = [page |-> p, accessed |-> clock', pins |-> 0]
    OBVIOUS
  <2>3. resident' = Append(room, e)
    BY <1>5, <2>1, <2>2 DEF R!Load
  <2>4. ASSUME NEW s \in Seq(R!Entry)
        PROVE  /\ Len(Append(s, e)) = Len(s) + 1 /\ Len(s) \in Nat
               /\ \A i \in DOMAIN s : i \in DOMAIN Append(s, e) /\ Append(s, e)[i] = s[i]
               /\ \A i \in DOMAIN Append(s, e) : i \in DOMAIN s \/ Append(s, e)[i] = e
    <3>1. s \in Seq(R!Entry \cup {e}) /\ e \in R!Entry \cup {e}
      OBVIOUS
    <3> QED BY <3>1
  <2>5. \A i \in DOMAIN resident : resident[i].page # p
    BY <1>5 DEF R!Resident, R!PagesIn
  <2>6. CASE room = resident
    <3>1. \A i \in DOMAIN resident : resident[i].page \in R!PagesIn(resident')
      BY <1>1, <2>3, <2>4, <2>6 DEF R!PagesIn
    <3>2. ASSUME Len(resident') > Len(resident), Len(resident') > MaxPages,
                 NEW i \in DOMAIN resident
          PROVE  resident[i].pins > 0
      <4>1. Len(resident') = Len(resident) + 1
        BY <1>1, <2>3, <2>4, <2>6
      <4>2. Len(resident) >= MaxPages
        BY <1>1, <3>2, <4>1 DEF R!ResidencyAssumption
      <4>3. R!AfterEvict(resident) = resident
        BY <2>1, <2>6, <4>2 DEF R!Room
      <4>4. R!Evictable(resident) = {}
        <5>1. ASSUME NEW v \in R!Evictable(resident), NEW w,
                     w = R!Without(resident, resident[v].page)
              PROVE  Len(w) < Len(resident)
          <6>1. v \in DOMAIN resident
            BY DEF R!Evictable
          <6> QED BY <1>1, <5>1, <6>1, WithoutProps
        <5>2. \A v \in R!Evictable(resident) :
                 R!AfterEvict(resident) # R!Without(resident, resident[v].page)
          BY <1>1, <4>3, <5>1
        <5> QED BY <1>1, <5>2, EvictProps
      <4>5. resident[i].pins \in Nat /\ resident[i].pins # 0
        BY <1>1, <4>4, EntryType DEF R!Evictable
      <4> QED BY <4>5
    <3> QED BY <3>1, <3>2 DEF Coldest
  <2>7. CASE room # resident
    <3>1. PICK v \in R!Evictable(resident) :
                 R!IsVictim(resident, v) /\ room = R!Without(resident, resident[v].page)
      BY <1>1, <2>1, <2>7, EvictProps DEF R!Room
    <3>2. v \in DOMAIN resident
      BY DEF R!Evictable
    <3>3. /\ room \in Seq(R!Entry)
          /\ \A j \in DOMAIN resident : resident[j].page # resident[v].page =>
                \E i \in DOMAIN room : room[i] = resident[j]
      BY <1>1, <3>1, WithoutProps
    <3>4. Len(room) < Len(resident)
      BY <1>1, <3>1, <3>2, WithoutProps
    <3>5. \A i \in DOMAIN resident : resident[i].page \notin R!PagesIn(resident') => i = v
      <4>1. \A i \in DOMAIN resident : resident[i].page # resident[v].page =>
               resident[i].page \in R!PagesIn(resident')
        BY <2>3, <2>4, <3>3 DEF R!PagesIn
      <4> QED BY <1>1, <3>2, <4>1 DEF Distinct
    <3>6. \A j \in DOMAIN resident : resident[j].pins = 0 =>
             resident[v].accessed <= resident[j].accessed
      <4> TAKE j \in DOMAIN resident
      <4> HAVE resident[j].pins = 0
      <4>1. \/ resident[v].accessed < resident[j].accessed
            \/ resident[v].accessed = resident[j].accessed
        BY <3>1 DEF R!IsVictim, R!Evictable
      <4>2. resident[v].accessed \in Nat /\ resident[j].accessed \in Nat
        BY <1>1, <3>2, EntryType
      <4> QED BY <4>1, <4>2
    <3>7. ~(Len(resident') > Len(resident))
      BY <1>1, <2>3, <2>4, <3>3, <3>4
    <3> QED BY <3>5, <3>6, <3>7 DEF Coldest
  <2> QED BY <2>6, <2>7
<1>6. ASSUME NEW p \in Pages, R!Load(p) \/ R!Touch(p) \/ R!Pin(p) \/ R!Unload(p)
      PROVE  R!PagesIn(resident') \subseteq R!PagesIn(resident) \/ Coldest(resident')
  BY <1>2, <1>4, <1>5, <1>6 DEF R!Load, R!Touch, R!Pin, R!Unload
<1>7. CASE R!Evict
  <2>1. R!AfterEvict(resident) = resident
        \/ \E p : R!AfterEvict(resident) = R!Without(resident, p)
    BY <1>1, EvictProps
  <2> QED BY <1>4, <1>7, <2>1 DEF R!Evict
<1>8. CASE R!EvictAll
  BY <1>3, <1>8, ResidencyKept DEF R!EvictAll
<1> QED BY <1>6, <1>7, <1>8 DEF R!Next

\* When a page enters, the page that has to leave was not accessed later than
\* any unpinned page that stays, and the memory grows past its budget only while
\* nothing in it can be evicted (load, select_victim).
THEOREM ColdestFirst == Spec => ColdestLeaves
<1>1. ResidentInv /\ [Next]_vars =>
        [ ~(R!PagesIn(resident') \subseteq R!PagesIn(resident)) =>
            /\ \A i, j \in DOMAIN resident :
                  /\ resident[i].page \notin R!PagesIn(resident')
                  /\ resident[j].page \in R!PagesIn(resident')
                  /\ resident[j].pins = 0
                  => resident[i].accessed <= resident[j].accessed
            /\ Len(resident') > Len(resident) /\ Len(resident') > MaxPages =>
                  \A i \in DOMAIN resident : resident[i].pins > 0 ]_(R!vars)
  BY EachSteps, NextColdest, StorageAssumption DEF Coldest
<1> QED BY <1>1, ResidencyInvariant, PTL DEF Spec, ColdestLeaves, R!ColdestLeaves

-----------------------------------------------------------------------------
(* PageTable: the binary search and the range query.                       *)

\* Operators of the instances are the ones above.
LEMMA TableKept == \A s, A : T!Kept(s, A) = Kept(s, A)
BY DEF T!Kept, Kept, T!At, At

LEMMA TableCardinality == \A A : T!Cardinality(A) = Cardinality(A)
BY DEF T!Cardinality, Cardinality

\* The fields of an entry of a table.
LEMMA TableEntry ==
    ASSUME T!PageTableAssumption, NEW s \in Seq(T!Entry), NEW i \in 1..Len(s)
    PROVE  /\ s[i] \in T!Entry /\ s[i].position \in Nat /\ s[i].count \in Nat
           /\ s[i].count > 0 /\ T!End(s[i]) = s[i].position + s[i].count
<1>1. s[i] \in T!Entry
  OBVIOUS
<1>2. \A e \in T!Entry : e.position \in Positions /\ e.count \in 1..MaxCount
  BY DEF T!Entry
<1>3. Positions \subseteq Nat /\ \A n \in 1..MaxCount : n \in Nat /\ n > 0
  BY DEF T!PageTableAssumption
<1> QED BY <1>1, <1>2, <1>3 DEF T!End

\* A table that is sorted from one entry to the next is sorted.
LEMMA SortedAll ==
    ASSUME T!PageTableAssumption, NEW s \in Seq(T!Entry), T!Sorted(s),
           NEW i \in 1..Len(s), NEW j \in 1..Len(s), i < j
    PROVE  s[i].position < s[j].position
<1> DEFINE Good == {n \in Nat : i + 1 + n <= Len(s) => s[i].position < s[i + 1 + n].position}
<1>1. i \in Nat /\ Len(s) \in Nat
  OBVIOUS
<1>2. 0 \in Good
  BY <1>1 DEF T!Sorted
<1>3. ASSUME NEW n \in Good PROVE n + 1 \in Good
  <2> SUFFICES ASSUME i + 1 + (n + 1) <= Len(s)
               PROVE  s[i].position < s[i + 1 + (n + 1)].position
    OBVIOUS
  <2>1. PICK m \in 1..Len(s) - 1 : m = i + 1 + n
    BY <1>1
  <2>2. s[m].position < s[m + 1].position
    BY DEF T!Sorted
  <2>3. s[i].position < s[m].position
    BY <2>1
  <2>4. m + 1 \in 1..Len(s) /\ m \in 1..Len(s)
    BY <1>1
  <2>5. /\ s[i].position \in Nat /\ s[m].position \in Nat /\ s[m + 1].position \in Nat
    BY <2>4, TableEntry
  <2>6. s[i].position < s[m + 1].position
    BY <2>2, <2>3, <2>5
  <2>7. i + 1 + (n + 1) = m + 1
    BY <2>1, <1>1
  <2> QED BY <2>6, <2>7
<1>4. j - i - 1 \in Nat /\ i + 1 + (j - i - 1) = j
  BY <1>1
<1> HIDE DEF Good
<1>5. Good \subseteq Nat
  BY DEF Good
<1>6. j - i - 1 \in Good
  BY <1>2, <1>3, <1>4, <1>5, Induction
<1>7. i + 1 + (j - i - 1) <= Len(s) => s[i].position < s[i + 1 + (j - i - 1)].position
  BY <1>6 DEF Good
<1> QED BY <1>4, <1>7

\* Taking entries out of a sorted table leaves it sorted.
LEMMA KeptSorted ==
    ASSUME T!PageTableAssumption, NEW s \in Seq(T!Entry), T!Sorted(s), NEW A
    PROVE  Kept(s, A) \in Seq(T!Entry) /\ T!Sorted(Kept(s, A))
<1>1. PICK k \in Seq(T!Entry) : k = Kept(s, A)
  BY KeptIsSubsequence
<1>2. ASSUME NEW i \in 1..Len(k) - 1 PROVE k[i].position < k[i + 1].position
  <2>1. i \in DOMAIN k /\ i + 1 \in DOMAIN k /\ i < i + 1
    OBVIOUS
  <2>2. PICK m, n \in DOMAIN s : m < n /\ s[m] = k[i] /\ s[n] = k[i + 1]
    BY <1>1, <2>1, KeptOrder
  <2>3. m \in 1..Len(s) /\ n \in 1..Len(s)
    OBVIOUS
  <2> QED BY <2>2, <2>3, SortedAll
<1> QED BY <1>1, <1>2 DEF T!Sorted

\* The entries are of their type and sorted, and fit the ranges of a search.
TableInv == T!TypeOK /\ Len(entries) <= MaxEntries

\* Every operation leaves a sorted table.
LEMMA NextTable == ASSUME T!PageTableAssumption, TableInv, [T!Next]_entries PROVE TableInv'
<1>1. entries \in Seq(T!Entry) /\ T!Sorted(entries) /\ Len(entries) \in Nat
      /\ Len(entries) <= MaxEntries /\ MaxEntries \in Nat
  BY DEF TableInv, T!TypeOK, T!PageTableAssumption
<1>2. ASSUME NEW e \in T!Entry, T!WithEntry(e) PROVE TableInv'
  <2>1. T!InsertionPoint(e) \in 1..Len(entries) + 1
    <3> DEFINE I == {i \in DOMAIN entries : entries[i].position <= e.position}
    <3>1. I \in SUBSET (1..Len(entries))
      BY <1>1
    <3>2. IsFiniteSet(1..Len(entries)) /\ Cardinality(1..Len(entries)) = Len(entries)
      <4>1. PICK n \in Nat : n = Len(entries)
        BY <1>1
      <4>2. IsFiniteSet(1..n) /\ Cardinality(1..n) = IF 1 > n THEN 0 ELSE n - 1 + 1
        BY FS_Interval
      <4> QED BY <4>1, <4>2
    <3> HIDE DEF I
    <3>3. IsFiniteSet(I) /\ Cardinality(I) <= Len(entries)
      BY <3>1, <3>2, FS_Subset
    <3>4. Cardinality(I) \in Nat
      BY <3>3, FS_CardinalityType
    <3>5. Cardinality(I) + 1 \in 1..Len(entries) + 1
      BY <3>3, <3>4, <1>1
    <3> QED BY <3>5, TableCardinality DEF T!InsertionPoint, I
  <2>2. ASSUME NEW n \in 1..Len(entries) + 1 
        PROVE  /\ T!InsertAt(entries, n, e) \in Seq(T!Entry)
               /\ Len(T!InsertAt(entries, n, e)) = Len(entries) + 1
    <3>1. SubSeq(entries, 1, n - 1) \in Seq(T!Entry) /\ SubSeq(entries, n, Len(entries)) \in Seq(T!Entry)
      BY <1>1
    <3>2. <<e>> \in Seq(T!Entry) /\ Len(<<e>>) = 1
      OBVIOUS
    <3>3. Len(SubSeq(entries, 1, n - 1)) = n - 1
          /\ Len(SubSeq(entries, n, Len(entries))) = Len(entries) - n + 1
      BY <1>1
    <3>4. \A r, s, t \in Seq(T!Entry) : /\ r \o s \o t \in Seq(T!Entry)
                                         /\ Len(r \o s \o t) = Len(r) + Len(s) + Len(t)
      OBVIOUS
    <3>5. n - 1 + 1 + (Len(entries) - n + 1) = Len(entries) + 1
      BY <1>1
    <3>6. PICK r, t \in Seq(T!Entry) : /\ r = SubSeq(entries, 1, n - 1)
                                      /\ t = SubSeq(entries, n, Len(entries))
      BY <3>1
    <3>7. T!InsertAt(entries, n, e) = r \o <<e>> \o t
      BY <3>6 DEF T!InsertAt
    <3>8. /\ r \o <<e>> \o t \in Seq(T!Entry)
          /\ Len(r \o <<e>> \o t) = Len(r) + Len(<<e>>) + Len(t)
      BY <3>2, <3>4
    <3> QED BY <3>2, <3>3, <3>5, <3>6, <3>7, <3>8
  <2>3. entries' \in Seq(T!Entry) /\ T!Sorted(entries') /\ Len(entries') <= MaxEntries
    BY <1>1, <1>2, <2>1, <2>2 DEF T!WithEntry
  <2> QED BY <2>3 DEF TableInv, T!TypeOK
<1>3. ASSUME NEW p, T!WithoutEntries(p) PROVE TableInv'
  <2>1. PICK A : entries' = Kept(entries, A)
    BY <1>3, TableKept DEF T!WithoutEntries
  <2>2. entries' \in Seq(T!Entry) /\ T!Sorted(entries')
    BY <1>1, <2>1, KeptSorted
  <2>3. Len(entries') <= Len(entries)
    BY <1>1, <2>1, KeptIsSubsequence
  <2> QED BY <1>1, <2>2, <2>3 DEF TableInv, T!TypeOK
<1>4. CASE UNCHANGED entries
  BY <1>1, <1>4 DEF TableInv, T!TypeOK
<1> QED BY <1>2, <1>3, <1>4 DEF T!Next

\* The ranges a binary search may look at, and one step of it.
Ranges == (1..MaxEntries + 1) \X (-1..MaxEntries)

SearchStep(position, search, range) ==
    LET mid == (range[1] + range[2]) \div 2 IN
    IF range[1] > range[2] THEN {}
    ELSE IF T!Covers(entries[mid], position) THEN {entries[mid].page}
    ELSE IF position < entries[mid].position THEN search[<<range[1], T!Upper(mid)>>]
    ELSE search[<<mid + 1, range[2]>>]

\* A search goes on in ranges that are smaller.
LEMMA Narrower ==
    ASSUME T!PageTableAssumption, NEW range \in Ranges, range[1] <= range[2],
           NEW mid, mid = (range[1] + range[2]) \div 2
    PROVE  /\ mid \in range[1]..range[2]
           /\ <<range[1], T!Upper(mid)>> \in Ranges
           /\ <<mid + 1, range[2]>> \in Ranges
           /\ T!Upper(mid) - range[1] < range[2] - range[1]
           /\ range[2] - (mid + 1) < range[2] - range[1]
<1>1. PICK lo, hi : lo = range[1] /\ hi = range[2]
  OBVIOUS
<1>2. lo \in 1..MaxEntries + 1 /\ hi \in -1..MaxEntries /\ MaxEntries \in Nat /\ lo <= hi
  BY <1>1 DEF Ranges, T!PageTableAssumption
<1>3. mid \in Int /\ lo <= mid /\ mid <= hi
  BY <1>1, <1>2
<1>4. T!Upper(mid) = mid - 1
  BY DEF T!Upper
<1>5. /\ mid - 1 \in -1..MaxEntries /\ mid + 1 \in 1..MaxEntries + 1
      /\ mid - 1 - lo < hi - lo /\ hi - (mid + 1) < hi - lo
  BY <1>2, <1>3
<1> QED BY <1>1, <1>2, <1>3, <1>4, <1>5 DEF Ranges

\* There is a function that meets the recursive definition in lookup: for ranges
\* of at most m positions, for every m.
LEMMA SearchExists ==
    ASSUME T!PageTableAssumption, NEW position
    PROVE  \E search : search = [range \in Ranges |-> SearchStep(position, search, range)]
<1> DEFINE Size(range) == range[2] - range[1] + 1
           Good == {m \in Nat : \E f : \A range \in Ranges :
                       Size(range) <= m => f[range] = SearchStep(position, f, range)}
<1>1. \A range \in Ranges : Size(range) \in Int /\ Size(range) <= MaxEntries /\ MaxEntries \in Nat
                            /\ (Size(range) <= 0 <=> range[1] > range[2])
  BY DEF Ranges, T!PageTableAssumption
<1>2. 0 \in Good
  <2>1. \A range \in Ranges : Size(range) <= 0 =>
           [r \in Ranges |-> {}][range] = SearchStep(position, [r \in Ranges |-> {}], range)
    <3> TAKE range \in Ranges
    <3> HAVE Size(range) <= 0
    <3>1. range[1] > range[2]
      BY <1>1
    <3> QED BY <3>1 DEF SearchStep
  <2> QED BY <2>1
<1>3. ASSUME NEW m \in Good PROVE m + 1 \in Good
  <2>1. m \in Nat
    OBVIOUS
  <2>2. PICK f : \A range \in Ranges : Size(range) <= m => f[range] = SearchStep(position, f, range)
    OBVIOUS
  <2>3. PICK g : g = [range \in Ranges |-> IF Size(range) <= m THEN f[range]
                                           ELSE SearchStep(position, f, range)]
    OBVIOUS
  <2>4. \A range \in Ranges : g[range] = SearchStep(position, f, range)
    BY <2>2, <2>3
  <2>5. ASSUME NEW range \in Ranges, Size(range) <= m + 1
        PROVE  SearchStep(position, g, range) = SearchStep(position, f, range)
    <3>1. CASE range[1] > range[2]
      BY <3>1 DEF SearchStep
    <3>2. CASE range[1] <= range[2]
      <4>1. PICK mid : mid = (range[1] + range[2]) \div 2
        OBVIOUS
      <4>2. PICK left \in Ranges : left = <<range[1], T!Upper(mid)>>
        BY <3>2, <4>1, Narrower
      <4>3. PICK right \in Ranges : right = <<mid + 1, range[2]>>
        BY <3>2, <4>1, Narrower
      <4>4. Size(left) <= m /\ Size(right) <= m
        <5>1. T!Upper(mid) - range[1] < range[2] - range[1]
              /\ range[2] - (mid + 1) < range[2] - range[1]
          BY <3>2, <4>1, Narrower
        <5>2. left[1] = range[1] /\ left[2] = T!Upper(mid)
              /\ right[1] = mid + 1 /\ right[2] = range[2]
          BY <4>2, <4>3
        <5>3. left[1] \in Int /\ left[2] \in Int /\ right[1] \in Int /\ right[2] \in Int
              /\ range[1] \in Int /\ range[2] \in Int
          BY DEF Ranges
        <5> QED BY <2>1, <2>5, <5>1, <5>2, <5>3
      <4>5. g[left] = f[left] /\ g[right] = f[right]
        BY <2>3, <4>4
      <4> QED BY <4>1, <4>2, <4>3, <4>5 DEF SearchStep
    <3>3. range[1] > range[2] \/ range[1] <= range[2]
      BY DEF Ranges
    <3> QED BY <3>1, <3>2, <3>3
  <2>6. \A range \in Ranges : Size(range) <= m + 1 => g[range] = SearchStep(position, g, range)
    BY <2>4, <2>5
  <2>7. m + 1 \in Nat
    BY <2>1
  <2> QED BY <2>6, <2>7
<1>4. PICK f : \A range \in Ranges : f[range] = SearchStep(position, f, range)
  <2>1. MaxEntries \in Nat
    BY DEF T!PageTableAssumption
  <2> HIDE DEF Good, Size
  <2>2. Good \subseteq Nat
    BY DEF Good
  <2>3. MaxEntries \in Good
    BY <1>2, <1>3, <2>1, <2>2, Induction
  <2> QED BY <1>1, <2>3 DEF Good
<1>5. PICK g : g = [range \in Ranges |-> f[range]]
  OBVIOUS
<1>6. \A range \in Ranges : SearchStep(position, g, range) = SearchStep(position, f, range)
  <2> TAKE range \in Ranges
  <2>1. CASE range[1] > range[2]
    BY <2>1 DEF SearchStep
  <2>2. CASE range[1] <= range[2]
    <3>1. PICK mid : mid = (range[1] + range[2]) \div 2
      OBVIOUS
    <3>2. PICK left \in Ranges : left = <<range[1], T!Upper(mid)>>
      BY <2>2, <3>1, Narrower
    <3>3. PICK right \in Ranges : right = <<mid + 1, range[2]>>
      BY <2>2, <3>1, Narrower
    <3>4. g[left] = f[left] /\ g[right] = f[right]
      BY <1>5
    <3> QED BY <3>1, <3>2, <3>3, <3>4 DEF SearchStep
  <2>3. range[1] > range[2] \/ range[1] <= range[2]
    BY DEF Ranges
  <2> QED BY <2>1, <2>2, <2>3
<1>7. \A range \in Ranges : f[range] = SearchStep(position, g, range)
  BY <1>4, <1>6
<1>8. [range \in Ranges |-> f[range]] = [range \in Ranges |-> SearchStep(position, g, range)]
  BY <1>7, Zenon
<1> QED BY <1>5, <1>8

\* lookup is the value of such a function.
LEMMA LookupEquation ==
    ASSUME T!PageTableAssumption, NEW position
    PROVE  \E search : /\ T!Lookup(position) = search[<<1, Len(entries)>>]
                       /\ \A range \in Ranges : search[range] = SearchStep(position, search, range)
<1> DEFINE search == CHOOSE search : search = [range \in Ranges |-> SearchStep(position, search, range)]
<1>1. T!Lookup(position) = search[<<1, Len(entries)>>]
  BY DEF T!Lookup, SearchStep, Ranges
<1>2. search = [range \in Ranges |-> SearchStep(position, search, range)]
  BY SearchExists
<1> HIDE DEF search
<1>3. \A range \in Ranges : search[range] = SearchStep(position, search, range)
  BY <1>2
<1> QED BY <1>1, <1>3

\* The pages of the entries from lo to hi that cover a position.
PagesAt(position, lo, hi) ==
    {entries[i].page : i \in {j \in lo..hi : T!Covers(entries[j], position)}}

\* In a table without overlaps only one entry covers a position, and the entries
\* on the other side of the middle do not.
LEMMA OneSide ==
    ASSUME T!PageTableAssumption, TableInv, T!EntriesDoNotOverlap, NEW position \in Int,
           NEW i \in 1..Len(entries), NEW j \in 1..Len(entries), i < j
    PROVE  /\ T!Covers(entries[j], position) => ~T!Covers(entries[i], position)
           /\ position < entries[i].position => ~T!Covers(entries[j], position)
           /\ position >= entries[j].position => ~T!Covers(entries[i], position)
<1>1. entries \in Seq(T!Entry) /\ T!Sorted(entries)
  BY DEF TableInv, T!TypeOK
<1>2. entries[i].position < entries[j].position
  BY <1>1, SortedAll
<1>3. /\ entries[i].position \in Nat /\ entries[i].count \in Nat /\ entries[i].count > 0
      /\ T!End(entries[i]) = entries[i].position + entries[i].count
  BY <1>1, TableEntry
<1>4. /\ entries[j].position \in Nat /\ entries[j].count \in Nat /\ entries[j].count > 0
      /\ T!End(entries[j]) = entries[j].position + entries[j].count
  BY <1>1, TableEntry
<1>5. ~T!Overlap(entries[i], entries[j])
  BY <1>1 DEF T!EntriesDoNotOverlap
<1>6. T!End(entries[i]) <= entries[j].position
  BY <1>2, <1>3, <1>4, <1>5 DEF T!Overlap
<1> QED BY <1>2, <1>3, <1>4, <1>6 DEF T!Covers

\* A search finds what covers the position among the entries of its range.
LEMMA SearchFinds ==
    ASSUME T!PageTableAssumption, TableInv, T!EntriesDoNotOverlap, NEW position \in Int,
           NEW search,
           \A range \in Ranges : search[range] = SearchStep(position, search, range)
    PROVE  search[<<1, Len(entries)>>] = PagesAt(position, 1, Len(entries))
<1>1. /\ entries \in Seq(T!Entry) /\ Len(entries) \in Nat /\ Len(entries) <= MaxEntries
      /\ MaxEntries \in Nat
  BY DEF TableInv, T!TypeOK, T!PageTableAssumption
<1> DEFINE Good == {m \in Nat : \A lo \in 1..Len(entries) + 1 : \A hi \in 0..Len(entries) :
                       hi - lo + 1 <= m => search[<<lo, hi>>] = PagesAt(position, lo, hi)}
<1>2. \A lo \in 1..Len(entries) + 1 : \A hi \in 0..Len(entries) : <<lo, hi>> \in Ranges
  BY <1>1 DEF Ranges
<1>3. ASSUME NEW lo \in 1..Len(entries) + 1, NEW hi \in 0..Len(entries), lo > hi
      PROVE  search[<<lo, hi>>] = PagesAt(position, lo, hi)
  <2>1. search[<<lo, hi>>] = {}
    BY <1>2, <1>3 DEF SearchStep
  <2>2. PagesAt(position, lo, hi) = {}
    <3>1. lo..hi = {}
      BY <1>3
    <3> QED BY <3>1 DEF PagesAt
  <2> QED BY <2>1, <2>2
<1>4. 0 \in Good
  <2>1. \A lo \in 1..Len(entries) + 1 : \A hi \in 0..Len(entries) : hi - lo + 1 <= 0 => lo > hi
    BY <1>1
  <2> QED BY <1>3, <2>1
<1>5. ASSUME NEW m \in Good PROVE m + 1 \in Good
  <2>1. m \in Nat /\ \A lo \in 1..Len(entries) + 1 : \A hi \in 0..Len(entries) :
                       hi - lo + 1 <= m => search[<<lo, hi>>] = PagesAt(position, lo, hi)
    OBVIOUS
  <2> SUFFICES ASSUME NEW lo \in 1..Len(entries) + 1, NEW hi \in 0..Len(entries),
                      hi - lo + 1 <= m + 1
               PROVE  search[<<lo, hi>>] = PagesAt(position, lo, hi)
    BY <2>1
  <2> HIDE DEF Good
  <2>2. CASE lo > hi
    BY <1>3, <2>2
  <2>3. CASE lo <= hi
    <3>1. PICK mid : mid = (lo + hi) \div 2
      OBVIOUS
    <3>2. mid \in Int /\ lo <= mid /\ mid <= hi /\ mid \in 1..Len(entries)
          /\ lo \in Int /\ hi \in Int
      BY <2>3, <3>1, <1>1
    <3>3. search[<<lo, hi>>] =
             IF T!Covers(entries[mid], position) THEN {entries[mid].page}
             ELSE IF position < entries[mid].position THEN search[<<lo, mid - 1>>]
             ELSE search[<<mid + 1, hi>>]
      <4>1. search[<<lo, hi>>] = SearchStep(position, search, <<lo, hi>>)
        BY <1>2
      <4>2. ~(lo > hi)
        BY <2>3, <3>2
      <4> QED BY <3>1, <4>1, <4>2 DEF SearchStep, T!Upper
    <3>4. \A i \in lo..hi : i \in 1..Len(entries) /\ (i < mid \/ i = mid \/ i > mid)
      BY <3>2, <1>1
    <3>5. entries[mid].position \in Nat
      BY <1>1, <3>2, TableEntry
    <3>6. CASE T!Covers(entries[mid], position)
      <4>1. \A i \in lo..hi : T!Covers(entries[i], position) => i = mid
        BY <3>2, <3>4, <3>6, OneSide
      <4>2. {j \in lo..hi : T!Covers(entries[j], position)} = {mid}
        BY <3>2, <3>6, <4>1
      <4>3. PagesAt(position, lo, hi) = {entries[mid].page}
        BY <4>2 DEF PagesAt
      <4> QED BY <3>3, <3>6, <4>3
    <3>7. CASE ~T!Covers(entries[mid], position) /\ position < entries[mid].position
      <4>1. \A i \in lo..hi : T!Covers(entries[i], position) => i < mid
        BY <3>2, <3>4, <3>7, OneSide
      <4>2. \A i \in Int : (i \in lo..hi /\ i < mid) <=> i \in lo..(mid - 1)
        BY <3>2
      <4>3. {j \in lo..hi : T!Covers(entries[j], position)}
            = {j \in lo..(mid - 1) : T!Covers(entries[j], position)}
        BY <4>1, <4>2
      <4>4. PagesAt(position, lo, hi) = PagesAt(position, lo, mid - 1)
        BY <4>3 DEF PagesAt
      <4>5. mid - 1 \in 0..Len(entries) /\ mid - 1 - lo + 1 <= m
        BY <1>1, <2>1, <3>2
      <4>6. search[<<lo, mid - 1>>] = PagesAt(position, lo, mid - 1)
        BY <2>1, <4>5
      <4> QED BY <3>3, <3>7, <4>4, <4>6
    <3>8. CASE ~T!Covers(entries[mid], position) /\ ~(position < entries[mid].position)
      <4>1. \A i \in lo..hi : T!Covers(entries[i], position) => i > mid
        BY <3>2, <3>4, <3>5, <3>8, OneSide
      <4>2. \A i \in Int : (i \in lo..hi /\ i > mid) <=> i \in (mid + 1)..hi
        BY <3>2
      <4>3. {j \in lo..hi : T!Covers(entries[j], position)}
            = {j \in (mid + 1)..hi : T!Covers(entries[j], position)}
        BY <4>1, <4>2
      <4>4. PagesAt(position, lo, hi) = PagesAt(position, mid + 1, hi)
        BY <4>3 DEF PagesAt
      <4>5. mid + 1 \in 1..Len(entries) + 1 /\ hi - (mid + 1) + 1 <= m
        BY <1>1, <2>1, <3>2
      <4>6. search[<<mid + 1, hi>>] = PagesAt(position, mid + 1, hi)
        BY <2>1, <4>5
      <4> QED BY <3>3, <3>8, <4>4, <4>6
    <3> QED BY <3>6, <3>7, <3>8
  <2>4. lo > hi \/ lo <= hi
    OBVIOUS
  <2> QED BY <2>2, <2>3, <2>4
<1> HIDE DEF Good
<1>6. Good \subseteq Nat
  BY DEF Good
<1>7. Len(entries) \in Good
  BY <1>1, <1>4, <1>5, <1>6, Induction
<1>8. 1 \in 1..Len(entries) + 1 /\ Len(entries) \in 0..Len(entries)
      /\ Len(entries) - 1 + 1 <= Len(entries)
  BY <1>1
<1> QED BY <1>7, <1>8 DEF Good

\* The table is sorted and within its bound, whatever is inserted and removed
\* (PageTable.__post_init__, with_entry, without_entries).
THEOREM TableInvariant == Spec => []TableInv
<1>1. Init => TableInv
  BY StorageAssumption, EachStarts DEF T!Init, TableInv, T!TypeOK, T!Sorted, T!PageTableAssumption
<1>2. TableInv /\ [Next]_vars => TableInv'
  BY NextTable, EachSteps, StorageAssumption
<1> QED BY <1>1, <1>2, PTL DEF Spec

\* The binary search finds the page of a position whenever some entry covers it,
\* whatever insertions and removals led to a table without overlaps (lookup).
THEOREM LookupFinds == Spec => []LookupIsExact
<1>1. TableInv => LookupIsExact
  <2> SUFFICES ASSUME TableInv, T!EntriesDoNotOverlap, NEW position \in T!Tokens
               PROVE  T!Lookup(position) =
                         {e.page : e \in {f \in T!ToSet(entries) : T!Covers(f, position)}}
    BY DEF LookupIsExact, T!LookupIsExact
  <2>1. position \in Int
    BY StorageAssumption DEF T!Tokens, T!PageTableAssumption
  <2>2. T!PageTableAssumption
    BY StorageAssumption
  <2>3. T!Lookup(position) = PagesAt(position, 1, Len(entries))
    BY <2>1, <2>2, LookupEquation, SearchFinds
  <2>4. DOMAIN entries = 1..Len(entries)
    BY DEF TableInv, T!TypeOK
  <2> QED BY <2>3, <2>4 DEF PagesAt, T!ToSet
<1> QED BY <1>1, TableInvariant, PTL

\* range_query stops at the first entry that starts too late, or at the end.
LEMMA StopExists ==
    ASSUME NEW n \in Nat, NEW late \in SUBSET (1..n)
    PROVE  \E m \in 0..n : /\ \A i \in 1..m : i \notin late
                           /\ m < n => m + 1 \in late
<1>1. CASE late = {}
  BY <1>1
<1>2. CASE late # {}
  <2>1. PICK first \in late : \A i \in late : first <= i
    BY <1>2, Least
  <2>2. /\ first - 1 \in 0..n /\ first - 1 + 1 \in late
        /\ \A i \in 1..(first - 1) : i \notin late
    BY <2>1
  <2> QED BY <2>2
<1> QED BY <1>1, <1>2

\* An entry has a token in a range if it starts before the end of the range and
\* ends after its beginning.
LEMMA InRangeHasToken ==
    ASSUME T!PageTableAssumption, NEW s \in Seq(T!Entry), NEW i \in 1..Len(s),
           NEW from \in Int, NEW to \in Int, from < to
    PROVE  T!InRange(s[i], from, to) <=> \E t \in from..to - 1 : T!Covers(s[i], t)
<1>1. PICK p \in Nat, c \in Nat : /\ c > 0 /\ s[i].position = p /\ T!End(s[i]) = p + c
  BY TableEntry
<1>2. ASSUME from < p + c, p < to PROVE \E t \in from..to - 1 : p <= t /\ t < p + c
  <2>1. CASE p >= from
    <3>1. p \in from..to - 1 /\ p <= p /\ p < p + c
      BY <1>1, <1>2, <2>1
    <3> QED BY <3>1
  <2>2. CASE p < from
    <3>1. from \in from..to - 1 /\ p <= from
      BY <2>2
    <3> QED BY <1>2, <3>1
  <2> QED BY <2>1, <2>2
<1>3. ASSUME NEW t \in from..to - 1, p <= t, t < p + c PROVE from < p + c /\ p < to
  BY <1>1, <1>3
<1>4. /\ T!InRange(s[i], from, to) <=> from < p + c /\ p < to
      /\ \A t : T!Covers(s[i], t) <=> p <= t /\ t < p + c
  BY <1>1 DEF T!InRange, T!Covers
<1> QED BY <1>2, <1>3, <1>4

\* range_query returns the pages with a token in the range, and only those: the
\* entries after the one it stops at start later still.
THEOREM RangeQueryFinds == Spec => []RangeQueryIsExact
<1>1. TableInv => RangeQueryIsExact
  <2> SUFFICES ASSUME TableInv, NEW from \in T!Tokens, NEW to \in T!Tokens, from < to
               PROVE  T!ToSet(T!RangeQuery(from, to)) =
                         {e.page : e \in {f \in T!ToSet(entries) :
                                            \E t \in from..to - 1 : T!Covers(f, t)}}
    BY DEF RangeQueryIsExact, T!RangeQueryIsExact
  <2>1. T!PageTableAssumption
    BY StorageAssumption
  <2>2. from \in Int /\ to \in Int
    BY <2>1 DEF T!Tokens, T!PageTableAssumption
  <2>3. /\ entries \in Seq(T!Entry) /\ T!Sorted(entries) /\ Len(entries) \in Nat
        /\ DOMAIN entries = 1..Len(entries)
    BY DEF TableInv, T!TypeOK
  <2>4. PICK late : late = {i \in DOMAIN entries : entries[i].position >= to}
    OBVIOUS
  <2> DEFINE Stops(n) == /\ \A i \in 1..n : i \notin late
                         /\ n < Len(entries) => n + 1 \in late
  <2>5. PICK stop : stop = CHOOSE n \in 0..Len(entries) : Stops(n)
    OBVIOUS
  <2>6. stop \in 0..Len(entries) /\ Stops(stop)
    <3>1. \E n \in 0..Len(entries) : Stops(n)
      BY <2>3, <2>4, StopExists
    <3> QED BY <2>5, <3>1
  <2>7. PICK part \in Seq(T!Entry) : part = SubSeq(entries, 1, stop)
    <3>1. \A i \in 1..stop : i \in 1..Len(entries)
      BY <2>3, <2>6
    <3>2. SubSeq(entries, 1, stop) \in Seq(T!Entry)
      BY <2>3, <2>6, <3>1, SubSeqProperties
    <3> QED BY <3>2
  <2>8. /\ DOMAIN part = 1..stop /\ Len(part) = stop
        /\ \A i \in 1..stop : part[i] = entries[i] /\ i \in 1..Len(entries)
    BY <2>3, <2>6, <2>7
  <2>9. PICK A : A = {e \in T!Entry : T!InRange(e, from, to)}
    OBVIOUS
  <2>10. PICK hits : hits = Kept(part, A)
    OBVIOUS
  <2>11. T!RangeQuery(from, to) = [i \in DOMAIN hits |-> hits[i].page]
    BY <2>4, <2>5, <2>7, <2>9, <2>10, TableKept DEF T!RangeQuery
  <2> HIDE DEF Stops
  <2>12. T!ToSet(T!RangeQuery(from, to)) = {hits[i].page : i \in DOMAIN hits}
    BY <2>11 DEF T!ToSet
  <2>13. /\ \A i \in DOMAIN hits : hits[i] \in A /\ \E j \in DOMAIN part : part[j] = hits[i]
         /\ \A j \in DOMAIN part : part[j] \in A => \E i \in DOMAIN hits : hits[i] = part[j]
    BY <2>10, KeptElements
  <2>14. \A i \in 1..Len(entries) :
            (\E t \in from..to - 1 : T!Covers(entries[i], t)) <=> entries[i] \in A
    <3>1. \A i \in 1..Len(entries) : entries[i] \in T!Entry
      BY <2>3
    <3> QED BY <2>1, <2>2, <2>3, <2>9, <3>1, InRangeHasToken
  <2>15. \A i \in 1..Len(entries) : entries[i] \in A => i <= stop
    <3> SUFFICES ASSUME NEW i \in 1..Len(entries), entries[i] \in A, ~(i <= stop) PROVE FALSE
      OBVIOUS
    <3>1. stop + 1 \in 1..Len(entries) /\ stop + 1 <= i /\ stop + 1 \in late
      BY <2>3, <2>6 DEF Stops
    <3>2. entries[stop + 1].position >= to
      BY <2>4, <3>1
    <3>3. entries[i].position < to
      BY <2>9 DEF T!InRange
    <3>4. entries[stop + 1].position \in Nat /\ entries[i].position \in Nat
      BY <2>1, <2>3, <3>1, TableEntry
    <3>5. i = stop + 1 \/ stop + 1 < i
      BY <2>6, <3>1
    <3>6. CASE i = stop + 1
      BY <2>2, <3>2, <3>3, <3>4, <3>6
    <3>7. CASE stop + 1 < i
      <4>1. entries[stop + 1].position < entries[i].position
        BY <2>1, <2>3, <3>1, <3>7, SortedAll
      <4> QED BY <2>2, <3>2, <3>3, <3>4, <4>1
    <3> QED BY <3>5, <3>6, <3>7
  <2>16. \A j \in 1..Len(entries) : entries[j] \in A => \E i \in DOMAIN hits : hits[i] = entries[j]
    <3> SUFFICES ASSUME NEW j \in 1..Len(entries), entries[j] \in A
                 PROVE  \E i \in DOMAIN hits : hits[i] = entries[j]
      OBVIOUS
    <3>1. j \in 1..stop
      BY <2>6, <2>15
    <3> QED BY <2>8, <2>13, <3>1
  <2>17. \A i \in DOMAIN hits : hits[i] \in A /\ \E j \in 1..Len(entries) : entries[j] = hits[i]
    BY <2>8, <2>13
  <2>18. {hits[i].page : i \in DOMAIN hits}
            = {entries[j].page : j \in {n \in 1..Len(entries) : entries[n] \in A}}
    BY <2>16, <2>17
  <2>19. {e.page : e \in {f \in T!ToSet(entries) : \E t \in from..to - 1 : T!Covers(f, t)}}
            = {entries[j].page : j \in {n \in 1..Len(entries) : entries[n] \in A}}
    BY <2>3, <2>14 DEF T!ToSet
  <2> QED BY <2>12, <2>18, <2>19
<1> QED BY <1>1, TableInvariant, PTL

-----------------------------------------------------------------------------
(* PrefixIndex: reference counts and shared prefixes.                      *)

\* Operators of the instances are the ones above.
LEMMA IndexKept == \A s, A : P!Kept(s, A) = Kept(s, A)
BY DEF P!Kept, Kept, P!At, At

LEMMA IndexCardinality == \A A : P!Cardinality(A) = Cardinality(A)
BY DEF P!Cardinality, Cardinality

\* The first branch with an id is a branch with that id.
LEMMA FirstBranch ==
    ASSUME NEW id, P!TypeOK, P!BranchKnown(id) \/ \E i \in DOMAIN branches : branches[i].id = id
    PROVE  \E i \in 1..Len(branches) : P!GetBranch(id) = branches[i] /\ branches[i].id = id
<1> DEFINE I == {i \in 1..Len(branches) : branches[i].id = id}
<1>1. P!SelectInSeq(branches, LAMBDA b : b.id = id) = IF I # {} THEN P!Min(I) ELSE 0
  BY DEF P!SelectInSeq
<1>2. DOMAIN branches = 1..Len(branches) /\ Len(branches) \in Nat
  BY DEF P!TypeOK
<1>3. I # {}
  BY <1>1, <1>2 DEF P!BranchKnown
<1>4. I \in SUBSET Nat
  BY <1>2
<1>5. P!Min(I) \in I
  <2> HIDE DEF I
  <2> QED BY <1>3, <1>4, Least DEF P!Min
<1>6. P!GetBranch(id) = branches[P!Min(I)]
  BY <1>1, <1>3 DEF P!GetBranch
<1> QED BY <1>5, <1>6

\* A chain is a beginning of a branch's chain that the index has, or nothing.
OldBeginning(k) ==
    k = <<>> \/ \E i \in 1..Len(branches), m \in Nat :
                   m <= Len(branches[i].chain) /\ k = SubSeq(branches[i].chain, 1, m)

\* A chain of nodes that the index has not, each once.
NewNodes(c) ==
    /\ c \in Seq(NodeIds)
    /\ \A i \in 1..Len(c) : c[i] \notin P!Known
    /\ \A i, j \in 1..Len(c) : c[i] = c[j] => i = j

\* One more branch, whose chain is an old beginning and new nodes.
BranchMade ==
    \E b \in P!Branch, k, c \in Seq(NodeIds) :
        /\ OldBeginning(k) /\ NewNodes(c) /\ b.chain = k \o c
        /\ branches' = Append(branches, b)

\* The nodes of the index after a branch: those of the chain k count one more
\* branch, those of the chain c are new.
NodesCounted(k, c) ==
    /\ nodes' \in Seq(P!Node)
    /\ Len(nodes') = Len(nodes) + Len(c)
    /\ \A i \in 1..Len(nodes) :
          /\ nodes'[i].id = nodes[i].id
          /\ nodes'[i].refs = nodes[i].refs + (IF nodes[i].id \in P!ToSet(k) THEN 1 ELSE 0)
    /\ \A j \in 1..Len(c) :
          nodes'[Len(nodes) + j].id = c[j] /\ nodes'[Len(nodes) + j].refs = Given[c[j]]

CountMade ==
    \E b \in P!Branch, k, c \in Seq(NodeIds) :
        /\ P!ToSet(k) \subseteq P!Referenced
        /\ P!ToSet(b.chain) = P!ToSet(k) \cup P!ToSet(c)
        /\ branches' = Append(branches, b)
        /\ NodesCounted(k, c)

\* Branches have nodes of the index, and a node that is there twice is one of
\* theirs: gc takes no copy of it.
IndexCovers ==
    /\ P!TypeOK
    /\ \A i \in 1..Len(branches) : P!ToSet(branches[i].chain) \subseteq P!Known
    /\ \A i, j \in 1..Len(nodes) :
          nodes[i].id = nodes[j].id /\ i # j => nodes[i].id \in P!Referenced

\* The types of a branch.
LEMMA BranchShape ==
    ASSUME P!TypeOK, NEW i \in 1..Len(branches)
    PROVE  /\ branches[i] \in P!Branch /\ branches[i].id \in BranchIds
           /\ branches[i].chain \in Seq(NodeIds)
           /\ P!ToSet(branches[i].chain) = {branches[i].chain[j] : j \in 1..Len(branches[i].chain)}
<1>1. branches[i] \in P!Branch
  BY DEF P!TypeOK
<1> QED BY <1>1 DEF P!Branch, P!ToSet

\* What fresh nodes are like.
LEMMA FreshNodes ==
    ASSUME NEW c \in Seq(NodeIds)
    PROVE  /\ P!Fresh(c) \in Seq(P!Node) /\ Len(P!Fresh(c)) = Len(c)
           /\ \A j \in 1..Len(c) : P!Fresh(c)[j].id = c[j] /\ P!Fresh(c)[j].refs = Given[c[j]]
<1>1. \A j \in 1..Len(c) : [id |-> c[j], refs |-> Given[c[j]]] \in P!Node
  BY StorageAssumption DEF P!Node, P!PrefixIndexAssumption
<1>2. P!Fresh(c) = [j \in 1..Len(c) |-> [id |-> c[j], refs |-> Given[c[j]]]]
  BY DEF P!Fresh
<1> QED BY <1>1, <1>2

\* A beginning of a chain.
LEMMA Beginning ==
    ASSUME NEW B, NEW s \in Seq(B), NEW m \in Nat, m <= Len(s)
    PROVE  /\ SubSeq(s, 1, m) \in Seq(B) /\ Len(SubSeq(s, 1, m)) = m
           /\ \A i \in 1..m : SubSeq(s, 1, m)[i] = s[i] /\ i \in 1..Len(s)
<1>1. \A i \in 1..m : s[i] \in B
  OBVIOUS
<1>2. SubSeq(s, 1, m) \in Seq(B)
  BY <1>1, SubSeqProperties
<1> QED BY <1>2

\* The nodes of branches.
LEMMA ReferencedNodes ==
    ASSUME P!TypeOK
    PROVE  P!Referenced = UNION {P!ToSet(branches[i].chain) : i \in 1..Len(branches)}
BY DEF P!Referenced, P!TypeOK

\* Nodes of branches are known.
LEMMA ReferencedKnown ==
    ASSUME IndexCovers
    PROVE  P!Referenced \subseteq P!Known
BY ReferencedNodes DEF IndexCovers

\* The nodes of an old beginning are some branch's, and known.
LEMMA OldIsKnown ==
    ASSUME IndexCovers, NEW k, OldBeginning(k)
    PROVE  /\ k \in Seq(NodeIds)
           /\ \A i \in 1..Len(k) : k[i] \in P!Referenced /\ k[i] \in P!Known
<1>1. CASE k = <<>>
  BY <1>1
<1>2. CASE k # <<>>
  <2>1. PICK i \in 1..Len(branches), m \in Nat :
           m <= Len(branches[i].chain) /\ k = SubSeq(branches[i].chain, 1, m)
    BY <1>2 DEF OldBeginning
  <2>2. PICK x \in Seq(NodeIds) :
           x = branches[i].chain /\ \A j \in 1..Len(x) : x[j] \in P!ToSet(branches[i].chain)
    BY BranchShape DEF IndexCovers
  <2>3. \A j \in 1..Len(x) : x[j] \in P!Referenced /\ x[j] \in P!Known
    BY <2>2, ReferencedNodes, ReferencedKnown DEF IndexCovers
  <2> QED BY <2>1, <2>2, <2>3, Beginning
<1> QED BY <1>1, <1>2

\* What a client may bring.
LEMMA Brought ==
    /\ \A k \in P!KnownPrefixes : P!TypeOK => OldBeginning(k)
    /\ \A c \in P!FreshChains : NewNodes(c)
<1>1. ASSUME NEW k \in P!KnownPrefixes, P!TypeOK PROVE OldBeginning(k)
  <2>1. DOMAIN branches = 1..Len(branches)
    BY <1>1 DEF P!TypeOK
  <2>2. CASE k # <<>>
    <3>1. PICK i \in 1..Len(branches) : k \in P!Prefixes(branches[i].chain)
      BY <2>1, <2>2 DEF P!KnownPrefixes
    <3>2. branches[i].chain \in Seq(NodeIds)
      BY <1>1, BranchShape
    <3>3. PICK m \in 0..Len(branches[i].chain) : k = SubSeq(branches[i].chain, 1, m)
      BY <3>1 DEF P!Prefixes
    <3> QED BY <3>2, <3>3 DEF OldBeginning
  <2> QED BY <2>2 DEF OldBeginning
<1>2. ASSUME NEW c \in P!FreshChains PROVE NewNodes(c)
  <2>1. CASE c = <<>>
    BY <2>1 DEF NewNodes
  <2>2. CASE \E n \in NodeIds \ P!Known : c = <<n>>
    <3>1. PICK n \in NodeIds \ P!Known : c = <<n>>
      BY <2>2
    <3> QED BY <3>1 DEF NewNodes
  <2>3. CASE c \in (NodeIds \ P!Known) \X (NodeIds \ P!Known) /\ c[1] # c[2]
    <3>1. PICK m, n \in NodeIds \ P!Known : c = <<m, n>>
      BY <2>3
    <3>2. m # n
      BY <2>3, <3>1
    <3>3. c \in Seq(NodeIds) /\ Len(c) = 2
      BY <3>1
    <3> QED BY <3>1, <3>2, <3>3 DEF NewNodes
  <2> QED BY <2>1, <2>2, <2>3 DEF P!FreshChains, P!Chains
<1> QED BY <1>1, <1>2

\* One sequence after another.
LEMMA ConcatShape ==
    ASSUME NEW B, NEW s \in Seq(B), NEW t \in Seq(B)
    PROVE  /\ s \o t \in Seq(B) /\ Len(s \o t) = Len(s) + Len(t)
           /\ \A i \in 1..Len(s) : (s \o t)[i] = s[i]
           /\ \A i \in 1..Len(t) : (s \o t)[Len(s) + i] = t[i]
OBVIOUS

\* The nodes with some of them shared, followed by fresh ones.
LEMMA CountFresh ==
    ASSUME P!TypeOK, NEW k \in Seq(NodeIds), NEW c \in Seq(NodeIds),
           NEW shared \in Seq(P!Node), Len(shared) = Len(nodes),
           \A i \in 1..Len(nodes) :
              /\ shared[i].id = nodes[i].id
              /\ shared[i].refs = nodes[i].refs + (IF nodes[i].id \in P!ToSet(k) THEN 1 ELSE 0),
           nodes' = shared \o P!Fresh(c)
    PROVE  NodesCounted(k, c)
<1>1. PICK fresh \in Seq(P!Node) :
         /\ fresh = P!Fresh(c) /\ Len(fresh) = Len(c)
         /\ \A j \in 1..Len(c) : fresh[j].id = c[j] /\ fresh[j].refs = Given[c[j]]
  BY FreshNodes
<1>2. PICK new \in Seq(P!Node) : new = shared \o fresh /\ new = nodes'
  BY <1>1, ConcatShape
<1>3. /\ Len(new) = Len(nodes) + Len(c)
      /\ \A i \in 1..Len(nodes) : new[i] = shared[i]
      /\ \A j \in 1..Len(c) : new[Len(nodes) + j] = fresh[j]
  <2>1. Len(fresh) = Len(c) /\ new = shared \o fresh
    BY <1>1, <1>2
  <2>2. Len(shared \o fresh) = Len(shared) + Len(fresh)
    BY ConcatShape
  <2>3. \A i \in 1..Len(shared) : (shared \o fresh)[i] = shared[i]
    BY ConcatShape
  <2>4. \A j \in 1..Len(fresh) : (shared \o fresh)[Len(shared) + j] = fresh[j]
    OBVIOUS
  <2> QED BY <2>1, <2>2, <2>3, <2>4
<1> QED BY <1>1, <1>2, <1>3 DEF NodesCounted

\* What fork_branch does to the nodes that are there: one more reference for those
\* of the shared prefix.
LEMMA SharedNodes ==
    ASSUME P!TypeOK, NEW k \in Seq(NodeIds)
    PROVE  /\ P!Shared(k) \in Seq(P!Node) /\ Len(P!Shared(k)) = Len(nodes)
           /\ \A i \in 1..Len(nodes) :
                 /\ P!Shared(k)[i].id = nodes[i].id
                 /\ P!Shared(k)[i].refs = nodes[i].refs
                                          + (IF nodes[i].id \in P!ToSet(k) THEN 1 ELSE 0)
<1> DEFINE one(i) == IF nodes[i].id \in P!ToSet(k)
                     THEN [nodes[i] EXCEPT !.refs = @ + 1] ELSE nodes[i]
<1>1. \A i \in 1..Len(nodes) : nodes[i] \in P!Node /\ nodes[i].refs \in Nat
  <2>1. \A i \in 1..Len(nodes) : nodes[i] \in P!Node
    BY DEF P!TypeOK
  <2> QED BY <2>1 DEF P!Node
<1>2. \A i \in 1..Len(nodes) :
         /\ one(i) \in P!Node /\ one(i).id = nodes[i].id
         /\ one(i).refs = nodes[i].refs + (IF nodes[i].id \in P!ToSet(k) THEN 1 ELSE 0)
  BY <1>1 DEF P!Node
<1>3. P!Shared(k) = [i \in 1..Len(nodes) |-> one(i)]
  BY DEF P!Shared, P!TypeOK
<1> HIDE DEF one
<1>4. Len(nodes) \in Nat
  BY DEF P!TypeOK
<1>5. PICK shared : shared = P!Shared(k)
  OBVIOUS
<1>6. shared \in [1..Len(nodes) -> P!Node] /\ \A i \in 1..Len(nodes) : shared[i] = one(i)
  BY <1>2, <1>3, <1>5
<1>7. shared \in Seq(P!Node) /\ Len(shared) = Len(nodes)
  BY <1>4, <1>6
<1> QED BY <1>2, <1>5, <1>6, <1>7

\* The nodes of two chains one after the other.
LEMMA ChainUnion ==
    ASSUME NEW k \in Seq(NodeIds), NEW c \in Seq(NodeIds)
    PROVE  /\ k \o c \in Seq(NodeIds) /\ Len(k \o c) = Len(k) + Len(c)
           /\ P!ToSet(k \o c) = P!ToSet(k) \cup P!ToSet(c)
           /\ \A i \in 1..Len(k) : (k \o c)[i] = k[i]
           /\ \A i \in 1..Len(c) : (k \o c)[Len(k) + i] = c[i]
<1>0. PICK x : x = k \o c
  OBVIOUS
<1>1. /\ x = k \o c /\ x \in Seq(NodeIds) /\ Len(x) = Len(k) + Len(c)
      /\ \A i \in 1..Len(k) : x[i] = k[i]
      /\ \A i \in 1..Len(c) : x[Len(k) + i] = c[i]
  BY <1>0, ConcatShape
<1>2. P!ToSet(x) = {x[i] : i \in 1..Len(x)} /\ P!ToSet(k) = {k[i] : i \in 1..Len(k)}
      /\ P!ToSet(c) = {c[i] : i \in 1..Len(c)}
  BY DEF P!ToSet
<1>3. \A i \in 1..Len(x) : i \in 1..Len(k) \/ (i - Len(k) \in 1..Len(c) /\ x[i] = c[i - Len(k)])
  BY <1>1
<1>4. (\A i \in 1..Len(k) : i \in 1..Len(x)) /\ \A i \in 1..Len(c) : Len(k) + i \in 1..Len(x)
  BY <1>1
<1>5. \A n : n \in P!ToSet(x) => n \in P!ToSet(k) \cup P!ToSet(c)
  BY <1>1, <1>2, <1>3
<1>6. \A n : n \in P!ToSet(k) \cup P!ToSet(c) => n \in P!ToSet(x)
  <2>1. \A i \in 1..Len(k) : k[i] \in P!ToSet(x)
    BY <1>1, <1>2, <1>4
  <2>2. \A i \in 1..Len(c) : c[i] \in P!ToSet(x)
    BY <1>1, <1>2, <1>4
  <2> QED BY <1>2, <2>1, <2>2
<1> QED BY <1>1, <1>5, <1>6

\* A chain of nodes of branches, as a set.
LEMMA OldChain ==
    ASSUME NEW k \in Seq(NodeIds), \A i \in 1..Len(k) : k[i] \in P!Referenced
    PROVE  P!ToSet(k) \subseteq P!Referenced
BY DEF P!ToSet

\* register_branch makes a branch and counts all its nodes as new ones.
LEMMA RegisterMakes ==
    ASSUME IndexCovers, NEW id \in BranchIds, NEW k \in P!KnownPrefixes,
           NEW c \in P!FreshChains, P!RegisterBranch(id, k \o c)
    PROVE  BranchMade /\ CountMade
<1>1. OldBeginning(k) /\ NewNodes(c) /\ P!TypeOK
  BY Brought DEF IndexCovers
<1>2. k \in Seq(NodeIds) /\ c \in Seq(NodeIds)
  BY <1>1, OldIsKnown DEF NewNodes
<1>3. PICK x \in Seq(NodeIds) : x = k \o c
  BY <1>2, ChainUnion
<1> DEFINE b == [id |-> id, chain |-> x, root |-> IF x = <<>> THEN NoNode ELSE x[1]]
<1>4. b \in P!Branch /\ b.chain = x
  <2>1. x # <<>> => x[1] \in NodeIds
    BY <1>3
  <2> QED BY <2>1 DEF P!Branch
<1>5. branches' = Append(branches, b) /\ nodes' = nodes \o P!Fresh(x)
  BY <1>3 DEF P!RegisterBranch
<1> HIDE DEF b
<1>6. BranchMade
  BY <1>1, <1>2, <1>3, <1>4, <1>5 DEF BranchMade
<1>7. P!ToSet(<<>>) = {} /\ <<>> \in Seq(NodeIds)
  BY DEF P!ToSet
<1>8. NodesCounted(<<>>, x)
  <2>1. nodes \in Seq(P!Node) /\ \A i \in 1..Len(nodes) : nodes[i] \in P!Node
    BY <1>1 DEF P!TypeOK
  <2>2. \A i \in 1..Len(nodes) :
           nodes[i].refs = nodes[i].refs + (IF nodes[i].id \in P!ToSet(<<>>) THEN 1 ELSE 0)
    BY <1>7, <2>1 DEF P!Node
  <2> QED BY <1>1, <1>3, <1>5, <1>7, <2>1, <2>2, CountFresh
<1>9. CountMade
  BY <1>4, <1>5, <1>7, <1>8, <1>3 DEF CountMade
<1> QED BY <1>6, <1>9

\* fork_branch makes a branch, counts the nodes it shares and adds the others.
LEMMA ForkMakes ==
    ASSUME IndexCovers, NEW from \in BranchIds, NEW id \in BranchIds, NEW c \in P!FreshChains,
           P!BranchKnown(from), NEW m \in 0..Len(P!GetBranch(from).chain),
           P!ForkBranch(P!GetBranch(from), id, m, c)
    PROVE  BranchMade /\ CountMade
<1>1. NewNodes(c) /\ P!TypeOK /\ c \in Seq(NodeIds)
  BY Brought DEF IndexCovers, NewNodes
<1>2. PICK n \in 1..Len(branches) : P!GetBranch(from) = branches[n]
  BY <1>1, FirstBranch
<1>3. PICK a \in P!Branch : a = branches[n] /\ a = P!GetBranch(from)
  BY <1>1, <1>2, BranchShape
<1>4. a.chain \in Seq(NodeIds) /\ a.root \in NodeIds \cup {NoNode}
  BY <1>3 DEF P!Branch
<1>5. m \in Nat /\ m <= Len(a.chain)
  BY <1>3, <1>4
<1>6. PICK k : k = SubSeq(a.chain, 1, m)
  OBVIOUS
<1>7. OldBeginning(k)
  BY <1>3, <1>5, <1>6 DEF OldBeginning
<1>8. k \in Seq(NodeIds) /\ P!ToSet(k) \subseteq P!Referenced
  BY <1>7, OldIsKnown, OldChain
<1>9. PICK x \in Seq(NodeIds) : x = k \o c /\ P!ToSet(x) = P!ToSet(k) \cup P!ToSet(c)
  BY <1>1, <1>8, ChainUnion
<1> DEFINE b == [id |-> id, chain |-> x, root |-> IF c = <<>> THEN a.root ELSE c[1]]
<1>10. b \in P!Branch /\ b.chain = x
  <2>1. c # <<>> => c[1] \in NodeIds
    BY <1>1
  <2> QED BY <2>1, <1>4 DEF P!Branch
<1>11. branches' = Append(branches, b) /\ nodes' = P!Shared(k) \o P!Fresh(c)
  BY <1>3, <1>6, <1>9 DEF P!ForkBranch, P!ForkNodes
<1> HIDE DEF b
<1>12. BranchMade
  BY <1>1, <1>7, <1>8, <1>9, <1>10, <1>11 DEF BranchMade
<1>13. NodesCounted(k, c)
  BY <1>1, <1>8, <1>11, SharedNodes, CountFresh
<1>14. CountMade
  BY <1>1, <1>8, <1>9, <1>10, <1>11, <1>13 DEF CountMade
<1> QED BY <1>12, <1>14

\* What gc leaves: nodes that were there, both copies of a node that was there
\* twice, and all nodes of branches.
Collected ==
    /\ branches' = branches /\ nodes' \in Seq(P!Node)
    /\ \A i \in 1..Len(nodes') : \E m \in 1..Len(nodes) : nodes'[i] = nodes[m]
    /\ \A m \in 1..Len(nodes) : nodes[m].id \in P!Referenced =>
          \E i \in 1..Len(nodes') : nodes'[i] = nodes[m]
    /\ \A m, n \in 1..Len(nodes) : nodes[m].id = nodes[n].id /\ m # n =>
          \E i, j \in 1..Len(nodes') : i # j /\ nodes'[i] = nodes[m] /\ nodes'[j] = nodes[n]
    /\ \A i, j \in 1..Len(nodes') : i # j =>
          \E m, n \in 1..Len(nodes) : m # n /\ nodes'[i] = nodes[m] /\ nodes'[j] = nodes[n]

LEMMA GcCollects ==
    ASSUME IndexCovers, P!GC
    PROVE  Collected
<1> DEFINE A == {n \in P!Node : P!Survives(n)}
<1>1. nodes \in Seq(P!Node) /\ (\A i \in 1..Len(nodes) : nodes[i] \in P!Node)
      /\ DOMAIN nodes = 1..Len(nodes)
  BY DEF IndexCovers, P!TypeOK
<1>2. \A i \in 1..Len(nodes) : nodes[i].id \in P!Referenced => nodes[i] \in A
  BY <1>1 DEF P!Survives
<1>3. nodes' = Kept(nodes, A) /\ branches' = branches
  BY IndexKept DEF P!GC
<1>4. \A m, n \in 1..Len(nodes) : nodes[m].id = nodes[n].id /\ m # n =>
         nodes[m] \in A /\ nodes[n] \in A
  BY <1>2 DEF IndexCovers
<1> HIDE DEF A
<1>5. nodes' \in Seq(P!Node) /\ DOMAIN nodes' = 1..Len(nodes')
  <2>1. nodes' \in Seq(P!Node)
    BY <1>1, <1>3, KeptIsSubsequence
  <2> QED BY <2>1
<1>6. /\ \A i \in 1..Len(nodes') : \E m \in 1..Len(nodes) : nodes'[i] = nodes[m]
      /\ \A m \in 1..Len(nodes) : nodes[m].id \in P!Referenced =>
            \E i \in 1..Len(nodes') : nodes'[i] = nodes[m]
  <2>1. \A i \in DOMAIN Kept(nodes, A) : \E m \in DOMAIN nodes : nodes[m] = Kept(nodes, A)[i]
    BY <1>1, KeptElements
  <2>2. \A m \in DOMAIN nodes : nodes[m] \in A =>
           \E i \in DOMAIN Kept(nodes, A) : Kept(nodes, A)[i] = nodes[m]
    BY <1>1, KeptElements
  <2>3. PICK new : new = nodes' /\ new = Kept(nodes, A) /\ DOMAIN new = 1..Len(new)
    BY <1>3, <1>5
  <2>4. \A i \in 1..Len(new) : \E m \in 1..Len(nodes) : new[i] = nodes[m]
    BY <1>1, <2>1, <2>3
  <2>5. \A m \in 1..Len(nodes) : nodes[m].id \in P!Referenced =>
           \E i \in 1..Len(new) : new[i] = nodes[m]
    BY <1>1, <1>2, <2>2, <2>3
  <2> QED BY <2>3, <2>4, <2>5
<1>7. ASSUME NEW m \in 1..Len(nodes), NEW n \in 1..Len(nodes),
             nodes[m].id = nodes[n].id, m # n
      PROVE  \E i, j \in 1..Len(nodes') : i # j /\ nodes'[i] = nodes[m] /\ nodes'[j] = nodes[n]
  <2>1. nodes[m] \in A /\ nodes[n] \in A /\ m \in DOMAIN nodes /\ n \in DOMAIN nodes
    BY <1>1, <1>4, <1>7
  <2>2. \E i, j \in DOMAIN Kept(nodes, A) :
           i # j /\ Kept(nodes, A)[i] = nodes[m] /\ Kept(nodes, A)[j] = nodes[n]
    BY <1>1, <1>7, <2>1, KeptApart
  <2>3. PICK new : new = nodes' /\ new = Kept(nodes, A) /\ DOMAIN new = 1..Len(new)
    BY <1>3, <1>5
  <2> QED BY <2>2, <2>3
<1>8. ASSUME NEW i \in 1..Len(nodes'), NEW j \in 1..Len(nodes'), i # j
      PROVE  \E m, n \in 1..Len(nodes) : m # n /\ nodes'[i] = nodes[m] /\ nodes'[j] = nodes[n]
  <2>1. PICK new : new = nodes' /\ new = Kept(nodes, A) /\ DOMAIN new = 1..Len(new)
    BY <1>3, <1>5
  <2>2. \A x, y \in DOMAIN Kept(nodes, A) : x < y =>
           \E m, n \in DOMAIN nodes :
              m < n /\ nodes[m] = Kept(nodes, A)[x] /\ nodes[n] = Kept(nodes, A)[y]
    BY <1>1, KeptOrder
  <2>3. \A x, y \in DOMAIN new : x < y =>
           \E m, n \in 1..Len(nodes) : m # n /\ nodes[m] = new[x] /\ nodes[n] = new[y]
    BY <1>1, <2>1, <2>2
  <2>4. i \in DOMAIN new /\ j \in DOMAIN new /\ (i < j \/ j < i)
    BY <1>8, <2>1
  <2> QED BY <2>1, <2>3, <2>4
<1> QED BY <1>3, <1>5, <1>6, <1>7, <1>8 DEF Collected

\* Every step makes a branch, collects nodes or changes nothing.
LEMMA IndexSteps ==
    ASSUME IndexCovers, [P!Next]_(P!vars)
    PROVE  (BranchMade /\ CountMade) \/ Collected \/ UNCHANGED <<branches, nodes>>
<1>1. CASE \E id \in BranchIds, k \in P!KnownPrefixes, c \in P!FreshChains :
              P!RegisterBranch(id, k \o c)
  BY <1>1, RegisterMakes
<1>2. CASE \E from \in BranchIds, id \in BranchIds, c \in P!FreshChains :
              /\ P!BranchKnown(from)
              /\ \E m \in 0..Len(P!GetBranch(from).chain) :
                    P!ForkBranch(P!GetBranch(from), id, m, c)
  <2>1. PICK from \in BranchIds, id \in BranchIds, c \in P!FreshChains :
           /\ P!BranchKnown(from)
           /\ \E m \in 0..Len(P!GetBranch(from).chain) :
                 P!ForkBranch(P!GetBranch(from), id, m, c)
    BY <1>2
  <2> QED BY <2>1, ForkMakes
<1>3. CASE P!GC
  BY <1>3, GcCollects
<1>4. CASE UNCHANGED P!vars
  BY <1>4 DEF P!vars
<1> QED BY <1>1, <1>2, <1>3, <1>4 DEF P!Next

\* The branches, of a sequence of them, that have a node in their chain.
Users(bs, n) == {i \in 1..Len(bs) : n \in P!ToSet(bs[i].chain)}

\* One more branch is one more user of the nodes in its chain.
LEMMA OneMoreUser ==
    ASSUME NEW bs \in Seq(P!Branch), NEW b \in P!Branch, NEW n
    PROVE  /\ Cardinality(Users(bs, n)) \in Nat
           /\ Cardinality(Users(Append(bs, b), n))
                = Cardinality(Users(bs, n)) + (IF n \in P!ToSet(b.chain) THEN 1 ELSE 0)
<1>0. PICK more : more = Append(bs, b)
  OBVIOUS
<1>1. /\ more = Append(bs, b) /\ more \in Seq(P!Branch)
      /\ Len(more) = Len(bs) + 1 /\ more[Len(bs) + 1] = b
      /\ \A i \in 1..Len(bs) : more[i] = bs[i]
  BY <1>0
<1>2. Users(more, n) = IF n \in P!ToSet(b.chain) THEN Users(bs, n) \cup {Len(bs) + 1}
                       ELSE Users(bs, n)
  BY <1>1 DEF Users
<1>3. Len(bs) + 1 \notin Users(bs, n)
  BY DEF Users
<1>4. IsFiniteSet(Users(bs, n))
  <2>1. IsFiniteSet(1..Len(bs)) /\ Users(bs, n) \subseteq 1..Len(bs)
    BY FS_Interval DEF Users
  <2> QED BY <2>1, FS_Subset
<1>5. PICK A : A = Users(bs, n)
  OBVIOUS
<1>6. /\ Cardinality(A) \in Nat
      /\ Cardinality(A \cup {Len(bs) + 1}) = Cardinality(A) + 1
  BY <1>3, <1>4, <1>5, FS_CardinalityType, FS_AddElement
<1> QED BY <1>1, <1>2, <1>5, <1>6

\* A node in a chain has a user.
LEMMA SomeUser ==
    ASSUME NEW bs \in Seq(P!Branch), NEW n, NEW u \in 1..Len(bs), n \in P!ToSet(bs[u].chain)
    PROVE  Cardinality(Users(bs, n)) > 0
<1>1. IsFiniteSet(Users(bs, n))
  <2>1. IsFiniteSet(1..Len(bs)) /\ Users(bs, n) \subseteq 1..Len(bs)
    BY FS_Interval DEF Users
  <2> QED BY <2>1, FS_Subset
<1>2. Users(bs, n) # {}
  BY DEF Users
<1> QED BY <1>1, <1>2, FS_EmptySet, FS_CardinalityType

\* A node that is there once.
Once(i) == \A j \in 1..Len(nodes) : nodes[j].id = nodes[i].id => i = j

\* What a client gave a node and one for each user but the first.
CountFor(n, users) == Given[n] + (IF users = 0 THEN 0 ELSE users - 1)

\* The counts of nodes that are there once are right.
CountsRight ==
    \A i \in 1..Len(nodes) : Once(i) =>
        nodes[i].refs = CountFor(nodes[i].id, Cardinality(Users(branches, nodes[i].id)))

\* That is what the run checks.
LEMMA CountsAreRight ==
    ASSUME P!TypeOK, CountsRight
    PROVE  P!RefCountsExact
<1>1. DOMAIN nodes = 1..Len(nodes) /\ DOMAIN branches = 1..Len(branches)
  BY DEF P!TypeOK
<1>2. \A n : P!Cardinality({b \in DOMAIN branches : n \in P!ToSet(branches[b].chain)})
                = Cardinality(Users(branches, n))
  BY <1>1, IndexCardinality DEF Users
<1> QED BY <1>1, <1>2 DEF P!RefCountsExact, CountsRight, Once, CountFor

\* A branch that is made keeps the cover.
LEMMA CoversStep ==
    ASSUME IndexCovers, CountMade
    PROVE  IndexCovers'
<1>1. PICK b \in P!Branch, k \in Seq(NodeIds), c \in Seq(NodeIds) :
         /\ P!ToSet(k) \subseteq P!Referenced
         /\ P!ToSet(b.chain) = P!ToSet(k) \cup P!ToSet(c)
         /\ branches' = Append(branches, b)
         /\ NodesCounted(k, c)
  BY DEF CountMade
<1>2. branches \in Seq(P!Branch) /\ nodes \in Seq(P!Node)
  BY DEF IndexCovers, P!TypeOK
<1>3. /\ branches' \in Seq(P!Branch) /\ Len(branches') = Len(branches) + 1
      /\ branches'[Len(branches) + 1] = b
      /\ \A i \in 1..Len(branches) : branches'[i] = branches[i]
  BY <1>1, <1>2
<1>4. nodes' \in Seq(P!Node) /\ Len(nodes') = Len(nodes) + Len(c)
  BY <1>1 DEF NodesCounted
<1>5. P!TypeOK'
  BY <1>3, <1>4 DEF P!TypeOK
<1>6. P!Known \subseteq P!Known' /\ P!ToSet(c) \subseteq P!Known'
  <2>1. P!Known = {nodes[i].id : i \in 1..Len(nodes)} /\ P!Known' = {nodes'[i].id : i \in 1..Len(nodes')}
    <3>1. DOMAIN nodes = 1..Len(nodes) /\ DOMAIN nodes' = 1..Len(nodes')
      BY <1>2, <1>4
    <3>2. P!Known = {nodes[i].id : i \in 1..Len(nodes)}
      BY <3>1 DEF P!Known
    <3>3. P!Known' = {nodes'[i].id : i \in 1..Len(nodes')}
      BY <3>1 DEF P!Known
    <3> QED BY <3>2, <3>3
  <2>2. \A i \in 1..Len(nodes) : i \in 1..Len(nodes') /\ nodes[i].id = nodes'[i].id
    <3>1. \A i \in 1..Len(nodes) : nodes'[i].id = nodes[i].id
      BY <1>1 DEF NodesCounted
    <3>2. Len(nodes) \in Nat /\ Len(c) \in Nat
      BY <1>1, <1>2
    <3> QED BY <1>4, <3>1, <3>2
  <2>3. \A j \in 1..Len(c) : Len(nodes) + j \in 1..Len(nodes') /\ nodes'[Len(nodes) + j].id = c[j]
    <3>1. \A j \in 1..Len(c) : nodes'[Len(nodes) + j].id = c[j]
      BY <1>1 DEF NodesCounted
    <3>2. Len(nodes) \in Nat /\ Len(c) \in Nat
      BY <1>1, <1>2
    <3> QED BY <1>4, <3>1, <3>2
  <2>4. P!ToSet(c) = {c[j] : j \in 1..Len(c)}
    BY DEF P!ToSet
  <2>5. P!ToSet(c) \subseteq P!Known'
    BY <2>1, <2>3, <2>4
  <2> QED BY <2>1, <2>2, <2>5
<1>7. \A i \in 1..Len(branches') : P!ToSet(branches'[i].chain) \subseteq P!Known'
  <2> TAKE i \in 1..Len(branches')
  <2>1. CASE i \in 1..Len(branches)
    <3>1. P!ToSet(branches[i].chain) \subseteq P!Known
      BY <2>1 DEF IndexCovers
    <3> QED BY <1>3, <1>6, <2>1, <3>1
  <2>2. CASE i = Len(branches) + 1
    <3>1. P!ToSet(k) \subseteq P!Known
      BY <1>1, ReferencedKnown
    <3> QED BY <1>1, <1>3, <1>6, <2>2, <3>1
  <2> QED BY <1>2, <1>3, <2>1, <2>2
<1>8. P!Referenced \subseteq P!Referenced' /\ P!ToSet(c) \subseteq P!Referenced'
  <2>1. /\ P!Referenced = UNION {P!ToSet(branches[i].chain) : i \in 1..Len(branches)}
        /\ P!Referenced' = UNION {P!ToSet(branches'[i].chain) : i \in 1..Len(branches')}
    <3>1. DOMAIN branches = 1..Len(branches) /\ DOMAIN branches' = 1..Len(branches')
      BY <1>2, <1>3
    <3> QED BY <3>1 DEF P!Referenced
  <2>2. \A i \in 1..Len(branches) : i \in 1..Len(branches')
    BY <1>2, <1>3
  <2>3. Len(branches) + 1 \in 1..Len(branches')
    BY <1>2, <1>3
  <2>4. P!ToSet(c) \subseteq P!ToSet(branches'[Len(branches) + 1].chain)
    BY <1>1, <1>3
  <2>5. \A i \in 1..Len(branches) : P!ToSet(branches[i].chain) \subseteq P!Referenced'
    BY <1>3, <2>1, <2>2
  <2> QED BY <2>1, <2>3, <2>4, <2>5
<1>9. ASSUME NEW i \in 1..Len(nodes'), NEW j \in 1..Len(nodes'), i # j,
             nodes'[i].id = nodes'[j].id
      PROVE  nodes'[i].id \in P!Referenced'
  <2>1. \A m \in 1..Len(nodes') :
           m \in 1..Len(nodes) \/ nodes'[m].id \in P!ToSet(c)
    <3> TAKE m \in 1..Len(nodes')
    <3>1. m \in 1..Len(nodes) \/ (m - Len(nodes) \in 1..Len(c) /\ m = Len(nodes) + (m - Len(nodes)))
      BY <1>2, <1>4
    <3>2. \A n \in 1..Len(c) : nodes'[Len(nodes) + n].id = c[n] /\ c[n] \in P!ToSet(c)
      BY <1>1 DEF NodesCounted, P!ToSet
    <3> QED BY <3>1, <3>2
  <2>2. CASE i \in 1..Len(nodes) /\ j \in 1..Len(nodes)
    <3>1. nodes'[i].id = nodes[i].id /\ nodes'[j].id = nodes[j].id
      BY <1>1, <2>2 DEF NodesCounted
    <3>2. nodes[i].id \in P!Referenced
      BY <1>9, <2>2, <3>1 DEF IndexCovers
    <3> QED BY <1>8, <3>1, <3>2
  <2> QED BY <1>8, <1>9, <2>1, <2>2
<1>10. \A i, j \in 1..Len(nodes') :
          nodes'[i].id = nodes'[j].id /\ i # j => nodes'[i].id \in P!Referenced'
  BY <1>9
<1> QED BY <1>5, <1>7, <1>10 DEF IndexCovers

\* So does a collection.
LEMMA CoversCollected ==
    ASSUME IndexCovers, Collected
    PROVE  IndexCovers'
<1>1. branches' = branches /\ nodes' \in Seq(P!Node) /\ nodes \in Seq(P!Node)
  BY DEF IndexCovers, Collected, P!TypeOK
<1>2. P!TypeOK' /\ P!Referenced' = P!Referenced
  BY <1>1 DEF P!TypeOK, P!Referenced, IndexCovers
<1>3. /\ P!Known = {nodes[i].id : i \in 1..Len(nodes)}
      /\ P!Known' = {nodes'[i].id : i \in 1..Len(nodes')}
  BY <1>1 DEF P!Known
<1>4. \A i \in 1..Len(branches) : P!ToSet(branches[i].chain) \subseteq P!Known'
  <2> SUFFICES ASSUME NEW i \in 1..Len(branches), NEW n \in P!ToSet(branches[i].chain)
               PROVE  n \in P!Known'
    OBVIOUS
  <2>1. n \in P!Referenced /\ n \in P!Known
    BY ReferencedNodes DEF IndexCovers
  <2>2. PICK m \in 1..Len(nodes) : nodes[m].id = n
    BY <1>3, <2>1
  <2>3. \E l \in 1..Len(nodes') : nodes'[l] = nodes[m]
    BY <2>1, <2>2 DEF Collected
  <2> QED BY <1>3, <2>2, <2>3
<1>5. ASSUME NEW i \in 1..Len(nodes'), NEW j \in 1..Len(nodes'), i # j,
             nodes'[i].id = nodes'[j].id
      PROVE  nodes'[i].id \in P!Referenced
  <2>1. PICK m, n \in 1..Len(nodes) : m # n /\ nodes'[i] = nodes[m] /\ nodes'[j] = nodes[n]
    BY <1>5 DEF Collected
  <2> QED BY <1>5, <2>1 DEF IndexCovers
<1> QED BY <1>1, <1>2, <1>4, <1>5 DEF IndexCovers

\* A branch that is made keeps the counts right: a shared node had a user.
LEMMA CountsStep ==
    ASSUME IndexCovers, CountsRight, CountMade
    PROVE  CountsRight'
<1>1. PICK b \in P!Branch, k \in Seq(NodeIds), c \in Seq(NodeIds) :
         /\ P!ToSet(k) \subseteq P!Referenced
         /\ P!ToSet(b.chain) = P!ToSet(k) \cup P!ToSet(c)
         /\ branches' = Append(branches, b)
         /\ NodesCounted(k, c)
  BY DEF CountMade
<1> SUFFICES ASSUME NEW i \in 1..Len(nodes'), Once(i)'
             PROVE  nodes'[i].refs
                       = CountFor(nodes'[i].id, Cardinality(Users(branches', nodes'[i].id)))
  BY DEF CountsRight
<1>2. branches \in Seq(P!Branch) /\ nodes \in Seq(P!Node)
  BY DEF IndexCovers, P!TypeOK
<1>3. /\ nodes' \in Seq(P!Node) /\ Len(nodes') = Len(nodes) + Len(c)
      /\ \A m \in 1..Len(nodes) : m \in 1..Len(nodes') /\ nodes'[m].id = nodes[m].id
      /\ \A j \in 1..Len(c) : Len(nodes) + j \in 1..Len(nodes') /\ nodes'[Len(nodes) + j].id = c[j]
  <2>1. nodes' \in Seq(P!Node) /\ Len(nodes') = Len(nodes) + Len(c)
    BY <1>1 DEF NodesCounted
  <2>2. \A m \in 1..Len(nodes) : m \in 1..Len(nodes')
    BY <1>2, <2>1
  <2>3. \A j \in 1..Len(c) : Len(nodes) + j \in 1..Len(nodes')
    BY <1>2, <2>1
  <2>4. /\ \A m \in 1..Len(nodes) : nodes'[m].id = nodes[m].id
        /\ \A j \in 1..Len(c) : nodes'[Len(nodes) + j].id = c[j]
    BY <1>1 DEF NodesCounted
  <2> QED BY <2>1, <2>2, <2>3, <2>4
<1>4. \A n : /\ Cardinality(Users(branches, n)) \in Nat
             /\ Cardinality(Users(branches', n))
                   = Cardinality(Users(branches, n)) + (IF n \in P!ToSet(b.chain) THEN 1 ELSE 0)
  BY <1>1, <1>2, OneMoreUser
<1>5. P!ToSet(c) = {c[j] : j \in 1..Len(c)} /\ P!Known = {nodes[m].id : m \in 1..Len(nodes)}
  BY <1>2 DEF P!ToSet, P!Known
<1>6. \A m \in 1..Len(nodes'), n \in 1..Len(nodes') :
         m = i /\ nodes'[m].id = nodes'[n].id => m = n
  BY DEF Once
<1>7. CASE i \in 1..Len(nodes)
  <2>1. Once(i)
    BY <1>3, <1>6, <1>7 DEF Once
  <2>2. nodes[i].refs = CountFor(nodes[i].id, Cardinality(Users(branches, nodes[i].id)))
    BY <1>7, <2>1 DEF CountsRight
  <2>3. nodes[i].id \notin P!ToSet(c)
    <3> SUFFICES ASSUME NEW j \in 1..Len(c), c[j] = nodes[i].id PROVE FALSE
      BY <1>5
    <3>1. nodes'[Len(nodes) + j].id = nodes'[i].id /\ Len(nodes) + j \in 1..Len(nodes')
      BY <1>3, <1>7
    <3>2. Len(nodes) + j = i
      BY <1>6, <3>1
    <3> QED BY <1>2, <1>7, <3>2
  <2>4. nodes[i].id \in P!ToSet(b.chain) <=> nodes[i].id \in P!ToSet(k)
    BY <1>1, <2>3
  <2>5. nodes[i].id \in P!ToSet(k) => Cardinality(Users(branches, nodes[i].id)) > 0
    <3> SUFFICES ASSUME nodes[i].id \in P!ToSet(k)
                 PROVE  Cardinality(Users(branches, nodes[i].id)) > 0
      OBVIOUS
    <3>1. PICK u \in 1..Len(branches) : nodes[i].id \in P!ToSet(branches[u].chain)
      BY <1>1, ReferencedNodes DEF IndexCovers
    <3> QED BY <1>2, <3>1, SomeUser
  <2>6. nodes'[i].refs = nodes[i].refs + (IF nodes[i].id \in P!ToSet(k) THEN 1 ELSE 0)
    BY <1>1, <1>7 DEF NodesCounted
  <2>7. nodes[i].id \in NodeIds
    <3>1. nodes[i] \in P!Node
      BY <1>2, <1>7
    <3> QED BY <3>1 DEF P!Node
  <2>8. PICK g \in Nat : g = Given[nodes[i].id]
    BY <2>7, StorageAssumption DEF P!PrefixIndexAssumption
  <2>9. PICK u \in Nat : u = Cardinality(Users(branches, nodes[i].id))
    BY <1>4
  <2>10. Cardinality(Users(branches', nodes'[i].id))
            = u + (IF nodes[i].id \in P!ToSet(k) THEN 1 ELSE 0)
    BY <1>3, <1>4, <1>7, <2>4, <2>9
  <2>11. nodes[i].refs = g + (IF u = 0 THEN 0 ELSE u - 1)
    BY <2>2, <2>8, <2>9 DEF CountFor
  <2>12. CASE nodes[i].id \in P!ToSet(k)
    <3>1. u > 0 /\ Cardinality(Users(branches', nodes'[i].id)) = u + 1
      BY <2>5, <2>9, <2>10, <2>12
    <3>2. nodes'[i].refs = g + u
      BY <2>6, <2>11, <2>12, <3>1
    <3>3. nodes'[i].id = nodes[i].id
      BY <1>3, <1>7
    <3> QED BY <2>8, <3>1, <3>2, <3>3 DEF CountFor
  <2>13. CASE nodes[i].id \notin P!ToSet(k)
    <3>1. Cardinality(Users(branches', nodes'[i].id)) = u
      BY <2>10, <2>13
    <3>2. nodes'[i].refs = nodes[i].refs
      BY <2>6, <2>11, <2>13
    <3>3. nodes'[i].id = nodes[i].id
      BY <1>3, <1>7
    <3> QED BY <2>2, <2>9, <3>1, <3>2, <3>3
  <2> QED BY <2>12, <2>13
<1>8. CASE i \notin 1..Len(nodes)
  <2>1. PICK j \in 1..Len(c) : i = Len(nodes) + j
    <3>1. i - Len(nodes) \in 1..Len(c) /\ i = Len(nodes) + (i - Len(nodes))
      BY <1>2, <1>3, <1>8
    <3> QED BY <3>1
  <2>2. nodes'[i].id = c[j] /\ nodes'[i].refs = Given[c[j]]
    BY <1>1, <2>1 DEF NodesCounted
  <2>3. c[j] \notin P!Known
    <3> SUFFICES ASSUME NEW m \in 1..Len(nodes), c[j] = nodes[m].id PROVE FALSE
      BY <1>5
    <3>1. nodes'[m].id = nodes'[i].id /\ m \in 1..Len(nodes')
      BY <1>3, <2>2
    <3> QED BY <1>6, <1>8, <3>1
  <2>4. Users(branches, c[j]) = {}
    BY <2>3 DEF Users, IndexCovers
  <2>5. c[j] \in P!ToSet(b.chain)
    BY <1>1, <1>5
  <2>6. Cardinality({}) = 0
    BY FS_EmptySet
  <2>7. Cardinality(Users(branches', c[j])) = 1
    <3>1. Cardinality(Users(branches', c[j])) = Cardinality(Users(branches, c[j])) + 1
      BY <1>4, <2>5
    <3>2. Cardinality(Users(branches, c[j])) = 0
      BY <2>4, <2>6
    <3> QED BY <3>1, <3>2
  <2>8. PICK g \in Nat : g = Given[c[j]]
    BY StorageAssumption DEF P!PrefixIndexAssumption
  <2> QED BY <2>2, <2>7, <2>8 DEF CountFor
<1> QED BY <1>7, <1>8

\* So does a collection: what is there once was there once.
LEMMA CountsCollected ==
    ASSUME IndexCovers, CountsRight, Collected
    PROVE  CountsRight'
<1> SUFFICES ASSUME NEW i \in 1..Len(nodes'), Once(i)'
             PROVE  nodes'[i].refs
                       = CountFor(nodes'[i].id, Cardinality(Users(branches', nodes'[i].id)))
  BY DEF CountsRight
<1>1. branches' = branches
  BY DEF Collected
<1>2. PICK m \in 1..Len(nodes) : nodes'[i] = nodes[m]
  BY DEF Collected
<1>3. Once(m)
  <2> SUFFICES ASSUME NEW n \in 1..Len(nodes), nodes[n].id = nodes[m].id, m # n PROVE FALSE
    BY DEF Once
  <2>1. PICK x, y \in 1..Len(nodes') : x # y /\ nodes'[x] = nodes[m] /\ nodes'[y] = nodes[n]
    BY DEF Collected
  <2>2. x = i /\ y = i
    BY <1>2, <2>1 DEF Once
  <2> QED BY <2>1, <2>2
<1>4. nodes[m].refs = CountFor(nodes[m].id, Cardinality(Users(branches, nodes[m].id)))
  BY <1>3 DEF CountsRight
<1> QED BY <1>1, <1>2, <1>4

\* An index as it is made: no branch, each node once, with what it was given.
LEMMA InitIndex == P!Init => IndexCovers /\ CountsRight
<1> SUFFICES ASSUME P!Init PROVE IndexCovers /\ CountsRight
  OBVIOUS
<1>1. PICK x \in P!Chains(NodeIds) : nodes = P!Fresh(x) /\ branches = <<>>
  BY DEF P!Init
<1>2. x \in Seq(NodeIds) /\ \A i, j \in 1..Len(x) : x[i] = x[j] => i = j
  <2>1. CASE x = <<>>
    BY <2>1
  <2>2. CASE \E n \in NodeIds : x = <<n>>
    <3>1. PICK n \in NodeIds : x = <<n>>
      BY <2>2
    <3> QED BY <3>1
  <2>3. CASE x \in NodeIds \X NodeIds /\ x[1] # x[2]
    <3>1. PICK m, n \in NodeIds : x = <<m, n>>
      BY <2>3
    <3>2. m # n /\ x \in Seq(NodeIds) /\ Len(x) = 2
      BY <2>3, <3>1
    <3> QED BY <3>1, <3>2
  <2> QED BY <2>1, <2>2, <2>3 DEF P!Chains
<1>3. /\ nodes \in Seq(P!Node) /\ Len(nodes) = Len(x)
      /\ \A j \in 1..Len(x) : nodes[j].id = x[j] /\ nodes[j].refs = Given[x[j]]
  BY <1>1, <1>2, FreshNodes
<1>4. P!TypeOK /\ Len(branches) = 0
  BY <1>1, <1>3 DEF P!TypeOK
<1>5. IndexCovers
  BY <1>2, <1>3, <1>4 DEF IndexCovers
<1>6. ASSUME NEW i \in 1..Len(nodes)
      PROVE  nodes[i].refs = CountFor(nodes[i].id, Cardinality(Users(branches, nodes[i].id)))
  <2>1. Users(branches, nodes[i].id) = {}
    BY <1>4 DEF Users
  <2>2. Cardinality({}) = 0
    BY FS_EmptySet
  <2>3. nodes[i].id = x[i] /\ nodes[i].refs = Given[x[i]] /\ x[i] \in NodeIds
    BY <1>2, <1>3
  <2>4. PICK g \in Nat : g = Given[x[i]]
    BY <2>3, StorageAssumption DEF P!PrefixIndexAssumption
  <2> QED BY <2>1, <2>2, <2>3, <2>4 DEF CountFor
<1> QED BY <1>5, <1>6 DEF CountsRight

\* Chains of branches have nodes of the index, and a node that is there once
\* counts what it was given and its users but the first.
THEOREM IndexInvariant == Spec => [](IndexCovers /\ CountsRight)
<1>1. Init => IndexCovers /\ CountsRight
  BY InitIndex, EachStarts
<1>2. IndexCovers /\ CountsRight /\ [Next]_vars => IndexCovers' /\ CountsRight'
  <2> SUFFICES ASSUME IndexCovers, CountsRight, [Next]_vars
               PROVE  IndexCovers' /\ CountsRight'
    OBVIOUS
  <2>1. (BranchMade /\ CountMade) \/ Collected \/ UNCHANGED <<branches, nodes>>
    BY EachSteps, IndexSteps
  <2>2. CASE CountMade
    BY <2>2, CoversStep, CountsStep
  <2>3. CASE Collected
    BY <2>3, CoversCollected, CountsCollected
  <2>4. CASE UNCHANGED <<branches, nodes>>
    <3>1. branches' = branches /\ nodes' = nodes
      BY <2>4
    <3>2. P!TypeOK' /\ P!Known' = P!Known /\ P!Referenced' = P!Referenced
          /\ \A n : Users(branches', n) = Users(branches, n)
      BY <3>1 DEF P!TypeOK, P!Known, P!Referenced, Users, IndexCovers
    <3>3. IndexCovers'
      BY <3>1, <3>2 DEF IndexCovers
    <3>4. CountsRight'
      BY <3>1, <3>2 DEF CountsRight, Once
    <3> QED BY <3>3, <3>4
  <2> QED BY <2>1, <2>2, <2>3, <2>4
<1> QED BY <1>1, <1>2, PTL DEF Spec

\* For any number of branches and nodes, and whatever ref_count clients make their
\* nodes with: the first branch with a node takes it with that count, every other
\* one adds 1 and gc takes none of it, as long as no client registered the node a
\* second time (register_branch, fork_branch, gc).
THEOREM ReferenceCounts == Spec => []RefCountsExact
<1>1. IndexCovers /\ CountsRight => RefCountsExact
  BY CountsAreRight DEF RefCountsExact, IndexCovers
<1> QED BY <1>1, IndexInvariant, PTL

\* Two chains that have a node in common have it at the same place, and have
\* the same nodes before it.
Agree(x, y) ==
    \A p \in 1..Len(x), q \in 1..Len(y) :
        x[p] = y[q] => p = q /\ \A m \in 1..p : x[m] = y[m]

ChainsAgree ==
    \A i, j \in 1..Len(branches) : Agree(branches[i].chain, branches[j].chain)

\* An old node in a chain is where it is in a branch that begins in the same
\* way, and a new node is there once.
Continues(x) ==
    /\ x \in Seq(NodeIds)
    /\ \A p \in 1..Len(x) : x[p] \in P!Known =>
          \E i \in 1..Len(branches) :
             /\ p <= Len(branches[i].chain)
             /\ \A m \in 1..p : x[m] = branches[i].chain[m]
    /\ \A p, q \in 1..Len(x) : x[p] = x[q] /\ x[p] \notin P!Known => p = q

\* The chain of a new branch.
LEMMA NewChain ==
    ASSUME IndexCovers, NEW k, OldBeginning(k), NEW c, NewNodes(c),
           NEW x, x = k \o c
    PROVE  Continues(x)
<1>1. k \in Seq(NodeIds) /\ \A i \in 1..Len(k) : k[i] \in P!Known
  BY OldIsKnown
<1>2. c \in Seq(NodeIds) /\ (\A i \in 1..Len(c) : c[i] \notin P!Known)
      /\ \A i, j \in 1..Len(c) : c[i] = c[j] => i = j
  BY DEF NewNodes
<1>4. /\ x \in Seq(NodeIds) /\ Len(x) = Len(k) + Len(c)
      /\ \A i \in 1..Len(k) : x[i] = k[i]
      /\ \A i \in 1..Len(c) : x[Len(k) + i] = c[i]
  BY <1>1, <1>2, ChainUnion
<1>5. \A p \in 1..Len(x) : p \in 1..Len(k) \/ \E j \in 1..Len(c) : p = Len(k) + j
  <2> TAKE p \in 1..Len(x)
  <2>1. p \in 1..Len(k) \/ (p - Len(k) \in 1..Len(c) /\ p = Len(k) + (p - Len(k)))
    BY <1>1, <1>2, <1>4
  <2> QED BY <2>1
<1>6. ASSUME NEW p \in 1..Len(x), x[p] \in P!Known
      PROVE  \E i \in 1..Len(branches) :
                /\ p <= Len(branches[i].chain)
                /\ \A m \in 1..p : x[m] = branches[i].chain[m]
  <2>1. p \in 1..Len(k)
    BY <1>2, <1>4, <1>5, <1>6
  <2>2. k # <<>>
    BY <2>1
  <2>3. PICK i \in 1..Len(branches), n \in Nat :
           n <= Len(branches[i].chain) /\ k = SubSeq(branches[i].chain, 1, n)
    BY <2>2 DEF OldBeginning
  <2>4. PICK y \in Seq(NodeIds) : y = branches[i].chain
    BY BranchShape DEF IndexCovers
  <2>5. Len(k) = n /\ \A m \in 1..n : k[m] = y[m]
    BY <2>3, <2>4, Beginning
  <2>6. p <= Len(y) /\ \A m \in 1..p : x[m] = y[m]
    BY <1>1, <1>4, <2>1, <2>3, <2>4, <2>5
  <2> QED BY <2>4, <2>6
<1>7. ASSUME NEW p \in 1..Len(x), NEW q \in 1..Len(x), x[p] = x[q], x[p] \notin P!Known
      PROVE  p = q
  <2>1. p \notin 1..Len(k) /\ q \notin 1..Len(k)
    BY <1>1, <1>4, <1>7
  <2>2. PICK i \in 1..Len(c) : p = Len(k) + i
    BY <1>5, <2>1
  <2>3. PICK j \in 1..Len(c) : q = Len(k) + j
    BY <1>5, <2>1
  <2>4. c[i] = c[j]
    BY <1>4, <1>7, <2>2, <2>3
  <2> QED BY <1>2, <2>2, <2>3, <2>4
<1>8. \A p, q \in 1..Len(x) : x[p] = x[q] /\ x[p] \notin P!Known => p = q
  BY <1>7
<1> QED BY <1>4, <1>6, <1>8 DEF Continues

\* A new branch shares with every other one a beginning and nothing else.
LEMMA AgreeStep ==
    ASSUME IndexCovers, ChainsAgree, BranchMade
    PROVE  ChainsAgree'
<1>1. PICK b \in P!Branch, k \in Seq(NodeIds), c \in Seq(NodeIds) :
         /\ OldBeginning(k) /\ NewNodes(c) /\ b.chain = k \o c
         /\ branches' = Append(branches, b)
  BY DEF BranchMade
<1>2. branches \in Seq(P!Branch)
  BY DEF IndexCovers, P!TypeOK
<1>3. PICK new : new = branches'
  OBVIOUS
<1>4. /\ new \in Seq(P!Branch) /\ Len(new) = Len(branches) + 1
      /\ new[Len(branches) + 1] = b
      /\ \A i \in 1..Len(branches) : new[i] = branches[i]
  BY <1>1, <1>2, <1>3
<1>5. PICK x : x = b.chain
  OBVIOUS
<1>6. /\ x \in Seq(NodeIds)
      /\ \A p \in 1..Len(x) : x[p] \in P!Known =>
            \E i \in 1..Len(branches) :
               /\ p <= Len(branches[i].chain)
               /\ \A m \in 1..p : x[m] = branches[i].chain[m]
      /\ \A p, q \in 1..Len(x) : x[p] = x[q] /\ x[p] \notin P!Known => p = q
  <2>1. x = k \o c /\ OldBeginning(k) /\ NewNodes(c)
    BY <1>1, <1>5
  <2>2. Continues(x)
    BY <2>1, NewChain
  <2> QED BY <2>2 DEF Continues
<1>7. ASSUME NEW j \in 1..Len(branches), NEW p \in 1..Len(x),
             NEW q \in 1..Len(branches[j].chain), x[p] = branches[j].chain[q]
      PROVE  p = q /\ \A m \in 1..p : x[m] = branches[j].chain[m]
  <2>1. PICK y \in Seq(NodeIds) : y = branches[j].chain /\ P!ToSet(y) \subseteq P!Known
                                  /\ P!ToSet(y) = {y[m] : m \in 1..Len(y)}
    BY BranchShape DEF IndexCovers
  <2>2. x[p] \in P!Known
    BY <1>7, <2>1
  <2>3. PICK i \in 1..Len(branches) :
           /\ p <= Len(branches[i].chain)
           /\ \A m \in 1..p : x[m] = branches[i].chain[m]
    BY <1>6, <2>2
  <2>4. PICK z \in Seq(NodeIds) : z = branches[i].chain
    BY BranchShape DEF IndexCovers
  <2>5. Agree(z, y)
    BY <2>1, <2>4 DEF ChainsAgree
  <2>6. p \in 1..Len(z) /\ z[p] = y[q] /\ q \in 1..Len(y)
    BY <1>6, <1>7, <2>1, <2>3, <2>4
  <2>7. p = q /\ \A m \in 1..p : z[m] = y[m]
    BY <2>5, <2>6 DEF Agree
  <2> QED BY <2>1, <2>3, <2>4, <2>7
<1>8. \A j \in 1..Len(branches) : Agree(x, branches[j].chain)
  BY <1>7 DEF Agree
<1>9. \A j \in 1..Len(branches) : Agree(branches[j].chain, x)
  BY <1>7 DEF Agree
<1>10. Agree(x, x)
  <2> SUFFICES ASSUME NEW p \in 1..Len(x), NEW q \in 1..Len(x), x[p] = x[q]
               PROVE  p = q
    BY DEF Agree
  <2>1. CASE x[p] \in P!Known
    <3>1. PICK i \in 1..Len(branches) :
             /\ q <= Len(branches[i].chain)
             /\ \A m \in 1..q : x[m] = branches[i].chain[m]
      BY <1>6, <2>1
    <3>2. PICK z \in Seq(NodeIds) : z = branches[i].chain
      BY BranchShape DEF IndexCovers
    <3>3. q \in 1..Len(z) /\ z[q] = x[q]
      BY <1>6, <3>1, <3>2
    <3> QED BY <1>7, <3>2, <3>3
  <2> QED BY <1>6, <2>1
<1>11. \A i, j \in 1..Len(new) : Agree(new[i].chain, new[j].chain)
  <2> TAKE i, j \in 1..Len(new)
  <2>1. /\ i \in 1..Len(branches) \/ i = Len(branches) + 1
        /\ j \in 1..Len(branches) \/ j = Len(branches) + 1
    BY <1>2, <1>4
  <2> QED BY <1>4, <1>5, <1>8, <1>9, <1>10, <2>1 DEF ChainsAgree
<1> QED BY <1>3, <1>11 DEF ChainsAgree

\* Two branches have the same nodes up to some position and no node in common after
\* it: for any number of branches, forked and registered (prefix_index.py 235-349).
THEOREM ChainsShareBeginnings == Spec => []ChainsAgree
<1>1. Init => ChainsAgree
  BY EachStarts DEF P!Init, ChainsAgree
<1>2. IndexCovers /\ ChainsAgree /\ [Next]_vars => ChainsAgree'
  <2> SUFFICES ASSUME IndexCovers, ChainsAgree, [Next]_vars PROVE ChainsAgree'
    OBVIOUS
  <2>1. (BranchMade /\ CountMade) \/ Collected \/ UNCHANGED <<branches, nodes>>
    BY EachSteps, IndexSteps
  <2>2. CASE branches' = branches
    BY <2>2 DEF ChainsAgree
  <2> QED BY <2>1, <2>2, AgreeStep DEF Collected
<1> QED BY <1>1, <1>2, IndexInvariant, PTL DEF Spec

\* A common beginning, pointwise.
LEMMA BeginningOf ==
    ASSUME NEW x \in Seq(NodeIds), NEW y \in Seq(NodeIds)
    PROVE  P!IsPrefix(x, y) <=> /\ Len(x) <= Len(y)
                                /\ \A i \in 1..Len(x) : x[i] = y[i]
<1>1. Len(x) \in Nat /\ Len(y) \in Nat /\ SubSeq(x, 1, Len(x)) = x
  OBVIOUS
<1>2. CASE Len(x) <= Len(y)
  <2>0. PICK z : z = SubSeq(y, 1, Len(x))
    OBVIOUS
  <2>1. /\ z \in Seq(NodeIds) /\ z = SubSeq(y, 1, Len(x)) /\ Len(z) = Len(x)
        /\ \A i \in 1..Len(x) : z[i] = y[i]
    BY <1>1, <1>2, <2>0, Beginning
  <2>2. z = x <=> \A i \in 1..Len(x) : x[i] = y[i]
    BY <2>1
  <2> QED BY <1>1, <1>2, <2>1, <2>2 DEF P!IsPrefix
<1> QED BY <1>2 DEF P!IsPrefix

\* The longest common beginning of two chains is one, and none is longer.
LEMMA LongestOf ==
    ASSUME NEW x \in Seq(NodeIds), NEW y \in Seq(NodeIds),
           NEW z, z = P!LongestCommonPrefix({x, y})
    PROVE  /\ z \in Seq(NodeIds) /\ P!IsPrefix(z, x) /\ P!IsPrefix(z, y)
           /\ \A m \in Nat : /\ m <= Len(x) /\ m <= Len(y)
                             /\ \A i \in 1..m : x[i] = y[i]
                             => m <= Len(z)
<1> DEFINE A == P!CommonPrefixes({x, y})
<1>1. A = {p \in P!Prefixes(x) \cup P!Prefixes(y) : P!IsPrefix(p, x) /\ P!IsPrefix(p, y)}
  BY DEF P!CommonPrefixes
<1>2. \A p \in A : p \in Seq(NodeIds) /\ Len(p) \in Nat /\ Len(p) <= Len(x)
  <2> TAKE p \in A
  <2>1. P!IsPrefix(p, x) /\ (p \in P!Prefixes(x) \/ p \in P!Prefixes(y))
    BY <1>1
  <2>2. p \in Seq(NodeIds)
    <3>1. CASE p \in P!Prefixes(x)
      <4>1. PICK m \in 0..Len(x) : p = SubSeq(x, 1, m)
        BY <3>1 DEF P!Prefixes
      <4> QED BY <4>1, Beginning
    <3>2. CASE p \in P!Prefixes(y)
      <4>1. PICK m \in 0..Len(y) : p = SubSeq(y, 1, m)
        BY <3>2 DEF P!Prefixes
      <4> QED BY <4>1, Beginning
    <3> QED BY <2>1, <3>1, <3>2
  <2> QED BY <2>1, <2>2, BeginningOf
<1>3. \A m \in Nat : /\ m <= Len(x) /\ m <= Len(y)
                     /\ \A i \in 1..m : x[i] = y[i]
                     => SubSeq(x, 1, m) \in A /\ Len(SubSeq(x, 1, m)) = m
  <2> SUFFICES ASSUME NEW m \in Nat, m <= Len(x), m <= Len(y), \A i \in 1..m : x[i] = y[i]
               PROVE  SubSeq(x, 1, m) \in A /\ Len(SubSeq(x, 1, m)) = m
    OBVIOUS
  <2>0. PICK p : p = SubSeq(x, 1, m)
    OBVIOUS
  <2>1. /\ p \in Seq(NodeIds) /\ p = SubSeq(x, 1, m) /\ Len(p) = m
        /\ \A i \in 1..m : p[i] = x[i]
    BY <2>0, Beginning
  <2>2. p \in P!Prefixes(x)
    BY <2>1 DEF P!Prefixes
  <2>3. P!IsPrefix(p, x) /\ P!IsPrefix(p, y)
    BY <2>1, BeginningOf
  <2> QED BY <1>1, <2>1, <2>2, <2>3
<1> HIDE DEF A
<1>4. \E p \in A : \A r \in A : Len(r) <= Len(p)
  <2> DEFINE D == {Len(x) - Len(p) : p \in A}
  <2>1. Len(x) \in Nat
    OBVIOUS
  <2>2. D \in SUBSET Nat
    BY <1>2, <2>1
  <2>3. D # {}
    <3>1. SubSeq(x, 1, 0) \in A
      BY <1>3
    <3> QED BY <3>1
  <2>4. PICK d \in D : \A e \in D : d <= e
    <3> HIDE DEF D
    <3> QED BY <2>2, <2>3, Least
  <2>5. PICK p \in A : d = Len(x) - Len(p)
    OBVIOUS
  <2>6. \A r \in A : Len(x) - Len(r) \in D
    OBVIOUS
  <2> HIDE DEF D
  <2>7. \A r \in A : Len(r) <= Len(p)
    BY <1>2, <2>1, <2>4, <2>5, <2>6
  <2> QED BY <2>7
<1>5. z = CHOOSE p \in A : \A r \in A : Len(r) <= Len(p)
  BY DEF P!LongestCommonPrefix, A
<1>6. z \in A /\ \A r \in A : Len(r) <= Len(z)
  BY <1>4, <1>5
<1>7. P!IsPrefix(z, x) /\ P!IsPrefix(z, y)
  BY <1>1, <1>6
<1> QED BY <1>2, <1>3, <1>6, <1>7

\* What get_common_prefix returns is the longest common beginning of the two
\* chains, and all the nodes the two branches have in common.
THEOREM SharedPrefix == Spec => []SharedIsCommonPrefix
<1>1. IndexCovers /\ ChainsAgree => SharedIsCommonPrefix
  <2> SUFFICES ASSUME IndexCovers, ChainsAgree,
                      NEW a \in {branches[i].id : i \in DOMAIN branches},
                      NEW b \in {branches[i].id : i \in DOMAIN branches}
               PROVE  P!ToSet(P!CommonPrefix(a, b))
                        = P!ToSet(P!GetBranch(a).chain) \cap P!ToSet(P!GetBranch(b).chain)
    BY DEF SharedIsCommonPrefix, P!SharedIsCommonPrefix
  <2>0. P!TypeOK
    BY DEF IndexCovers
  <2>1. PICK i \in 1..Len(branches) : P!GetBranch(a) = branches[i]
    BY <2>0, FirstBranch
  <2>2. PICK j \in 1..Len(branches) : P!GetBranch(b) = branches[j]
    BY <2>0, FirstBranch
  <2>3. PICK x \in Seq(NodeIds) : /\ x = branches[i].chain /\ P!ToSet(x) = {x[m] : m \in 1..Len(x)}
                                  /\ P!ToSet(x) \subseteq P!Known
    BY <2>0, BranchShape DEF IndexCovers
  <2>4. PICK y \in Seq(NodeIds) : /\ y = branches[j].chain /\ P!ToSet(y) = {y[m] : m \in 1..Len(y)}
                                  /\ P!ToSet(y) \subseteq P!Known
    BY <2>0, BranchShape DEF IndexCovers
  <2>5. Agree(x, y)
    BY <2>3, <2>4 DEF ChainsAgree
  <2>6. Kept(x, P!Known) = x /\ Kept(y, P!Known) = y
    <3>1. (\A m \in 1..Len(x) : x[m] \in P!Known) /\ \A m \in 1..Len(y) : y[m] \in P!Known
      BY <2>3, <2>4
    <3> QED BY <3>1, KeptAll
  <2>7. PICK z : z = P!LongestCommonPrefix({x, y})
    OBVIOUS
  <2>8. P!CommonPrefix(a, b) = z
    BY <2>1, <2>2, <2>3, <2>4, <2>6, <2>7, IndexKept DEF P!CommonPrefix
  <2>9. /\ z \in Seq(NodeIds) /\ P!IsPrefix(z, x) /\ P!IsPrefix(z, y)
        /\ \A m \in Nat : /\ m <= Len(x) /\ m <= Len(y)
                          /\ \A n \in 1..m : x[n] = y[n]
                          => m <= Len(z)
    BY <2>7, LongestOf
  <2>10. /\ Len(z) \in Nat /\ Len(z) <= Len(x) /\ Len(z) <= Len(y)
         /\ \A m \in 1..Len(z) : z[m] = x[m] /\ z[m] = y[m]
    BY <2>9, BeginningOf
  <2>11. P!ToSet(z) = {z[m] : m \in 1..Len(z)}
    <3>1. DOMAIN z = 1..Len(z)
      BY <2>9
    <3> QED BY <3>1 DEF P!ToSet
  <2>12. P!ToSet(z) \subseteq P!ToSet(x) \cap P!ToSet(y)
    <3>1. \A m \in 1..Len(z) : m \in 1..Len(x) /\ m \in 1..Len(y)
      BY <2>3, <2>4, <2>10
    <3>2. \A m \in 1..Len(z) : z[m] \in P!ToSet(x) /\ z[m] \in P!ToSet(y)
      <4> TAKE m \in 1..Len(z)
      <4>1. m \in 1..Len(x) /\ m \in 1..Len(y) /\ z[m] = x[m] /\ z[m] = y[m]
        BY <2>10, <3>1
      <4>2. x[m] \in P!ToSet(x) /\ y[m] \in P!ToSet(y)
        BY <2>3, <2>4, <4>1, Zenon
      <4> QED BY <4>1, <4>2
    <3> QED BY <2>11, <3>2, Zenon
  <2>13. ASSUME NEW n \in P!ToSet(x) \cap P!ToSet(y) PROVE n \in P!ToSet(z)
    <3>1. PICK p \in 1..Len(x), q \in 1..Len(y) : n = x[p] /\ n = y[q]
      BY <2>3, <2>4
    <3>2. p = q /\ \A m \in 1..p : x[m] = y[m]
      BY <2>5, <3>1 DEF Agree
    <3>3. p \in Nat /\ p <= Len(x) /\ p <= Len(y) /\ p >= 1
      BY <2>3, <2>4, <3>2
    <3>4. p <= Len(z)
      BY <2>9, <3>2, <3>3
    <3>5. p \in 1..Len(z)
      BY <2>10, <3>3, <3>4
    <3> QED BY <2>10, <2>11, <3>1, <3>5
  <2> QED BY <2>1, <2>2, <2>3, <2>4, <2>8, <2>12, <2>13
<1> QED BY <1>1, IndexInvariant, ChainsShareBeginnings, PTL

-----------------------------------------------------------------------------
(* Migration: opening a database of an older schema.                       *)

\* One step of the recursion in Chain.
ChainStep(commands, k, hash, i) ==
    IF i = 0 THEN M!NoHash
    ELSE M!EventHash(i, commands[i], hash[i - 1], IF i = 1 THEN NoKey ELSE k)

\* There is a function that meets the recursive definition in Chain.
LEMMA ChainExists ==
    ASSUME NEW commands, NEW k, Len(commands) \in Nat
    PROVE  \E hash : hash = [i \in 0..Len(commands) |-> ChainStep(commands, k, hash, i)]
<1> DEFINE Good == {m \in Nat : \E hash : hash = [i \in 0..m |-> ChainStep(commands, k, hash, i)]}
<1>1. 0 \in Good
  <2>1. [i \in 0..0 |-> M!NoHash] = [i \in 0..0 |-> ChainStep(commands, k, [n \in 0..0 |-> M!NoHash], i)]
    BY DEF ChainStep
  <2> QED BY <2>1
<1>2. ASSUME NEW m \in Good PROVE m + 1 \in Good
  <2>1. m \in Nat
    OBVIOUS
  <2>2. PICK hash : hash = [i \in 0..m |-> ChainStep(commands, k, hash, i)]
    OBVIOUS
  <2> DEFINE more == [i \in 0..(m + 1) |-> IF i \in 0..m THEN hash[i]
                                           ELSE ChainStep(commands, k, hash, m + 1)]
  <2>3. \A i \in 0..(m + 1) : ChainStep(commands, k, more, i) = ChainStep(commands, k, hash, i)
    BY <2>1 DEF ChainStep
  <2>4. \A i \in 0..m : hash[i] = ChainStep(commands, k, hash, i)
    BY <2>2
  <2>5. \A i \in 0..(m + 1) : more[i] = ChainStep(commands, k, more, i)
    <3> TAKE i \in 0..(m + 1)
    <3> HIDE DEF more
    <3>1. more[i] = IF i \in 0..m THEN hash[i] ELSE ChainStep(commands, k, hash, m + 1)
      BY DEF more
    <3>2. i \in 0..m \/ i = m + 1
      BY <2>1
    <3> QED BY <2>1, <2>3, <2>4, <3>1, <3>2
  <2>6. more = [i \in 0..(m + 1) |-> ChainStep(commands, k, more, i)]
    <3> HIDE DEF more
    <3>1. more = [i \in 0..(m + 1) |-> more[i]]
      BY Zenon DEF more
    <3> QED BY <2>5, <3>1, Zenon
  <2> HIDE DEF more
  <2>7. m + 1 \in Nat
    BY <2>1
  <2> QED BY <2>6, <2>7
<1> HIDE DEF Good
<1>3. Nat \subseteq Good
  BY <1>1, <1>2, Induction DEF Good
<1> QED BY <1>3 DEF Good

\* Chain is that function.
LEMMA ChainEquation ==
    ASSUME NEW commands, NEW k, Len(commands) \in Nat
    PROVE  /\ M!Chain(commands, k)[0] = M!NoHash
           /\ \A i \in 1..Len(commands) :
                 M!Chain(commands, k)[i]
                   = M!EventHash(i, commands[i], M!Chain(commands, k)[i - 1],
                                 IF i = 1 THEN NoKey ELSE k)
<1> DEFINE chain == CHOOSE hash : hash = [i \in 0..Len(commands) |-> ChainStep(commands, k, hash, i)]
<1>1. M!Chain(commands, k) = chain
  BY DEF M!Chain, ChainStep
<1>2. chain = [i \in 0..Len(commands) |-> ChainStep(commands, k, chain, i)]
  BY ChainExists
<1> HIDE DEF chain
<1>3. \A i \in 0..Len(commands) : chain[i] = ChainStep(commands, k, chain, i)
  BY <1>2
<1>4. chain[0] = M!NoHash
  BY <1>3 DEF ChainStep
<1>5. \A i \in 1..Len(commands) :
         chain[i] = M!EventHash(i, commands[i], chain[i - 1], IF i = 1 THEN NoKey ELSE k)
  <2> TAKE i \in 1..Len(commands)
  <2>1. i \in 0..Len(commands) /\ i # 0
    OBVIOUS
  <2>2. chain[i] = ChainStep(commands, k, chain, i)
    BY <1>3, <2>1
  <2> QED BY <2>1, <2>2, Zenon DEF ChainStep
<1> QED BY <1>1, <1>4, <1>5

\* The databases of MCStorage are made with another instance of Migration.
LEMMA SameChains ==
    /\ \A commands, k : M0!Chain(commands, k) = M!Chain(commands, k)
    /\ \A chain, i, k : M0!Chained(chain, i, k) = M!Chained(chain, i, k)
BY DEF M0!Chain, M!Chain, M0!EventHash, M!EventHash, M0!NoHash, M!NoHash,
       M0!Chained, M!Chained, M0!Envelope, M!Envelope

\* A function on 1..n is a sequence of length n.
LEMMA FunctionLength ==
    ASSUME NEW n \in Nat, NEW f, f = [i \in 1..n |-> f[i]]
    PROVE  Len(f) = n /\ DOMAIN f = 1..n
<1>1. f \in [1..n -> {f[i] : i \in 1..n}]
  BY Zenon
<1> QED BY <1>1

\* The envelope that the v3 migration writes.
LEMMA ChainedFields ==
    ASSUME NEW chain, NEW i, NEW k
    PROVE  /\ M!Chained(chain, i, k).prev = chain[i - 1]
           /\ M!Chained(chain, i, k).hash = chain[i]
           /\ M!Chained(chain, i, k).prevSigner = (IF i = 1 THEN NoKey ELSE k)
           /\ M!Chained(chain, i, k).signer = k
BY DEF M!Chained, M!Envelope

\* Some opener has the key, and events, checkpoints and idempotency rows have
\* the hashes of the chain signed by it, as v3 leaves them.
Signed(d, k) ==
    /\ \E p \in Openers : KeyOf[p] = k
    /\ \E chain :
          /\ chain[0] = M!NoHash
          /\ \A i \in 1..Len(d.events) :
                /\ chain[i] = M!EventHash(i, d.events[i].command, chain[i - 1],
                                          IF i = 1 THEN NoKey ELSE k)
                /\ d.events[i].columns = M!Chained(chain, i, k)
                /\ d.events[i].json = M!Chained(chain, i, k)
          /\ \A row \in d.checkpoints :
                /\ row.hash = chain[Len(row.folded)]
                /\ row.signer = (IF Len(row.folded) = 0 THEN NoKey ELSE k)
                /\ row.column = row.signer
          /\ \A x \in d.index : x.hash = chain[x.sequence]

\* The fields of a database, of its events, checkpoints and idempotency rows.
IsData(d) == d = [version |-> d.version, events |-> d.events,
                  checkpoints |-> d.checkpoints, index |-> d.index]
IsEvent(e) == e = [command |-> e.command, columns |-> e.columns, json |-> e.json]
IsRow(row) == row = [folded |-> row.folded, hash |-> row.hash, signer |-> row.signer,
                     column |-> row.column, material |-> row.material]
IsKey(x) == x = [command |-> x.command, sequence |-> x.sequence, hash |-> x.hash]

\* What a database is made of, in every version.
WellFormed(d) ==
    /\ IsData(d)
    /\ d.version \in 0..5
    /\ Len(d.events) \in Nat /\ DOMAIN d.events = 1..Len(d.events)
    /\ \A i \in 1..Len(d.events) : IsEvent(d.events[i])
    /\ \A row \in d.checkpoints :
          /\ IsRow(row)
          /\ Len(row.folded) \in 0..Len(d.events)
    /\ Len(d.events) # 0 => d.checkpoints # {}
    /\ \A x \in d.index :
          /\ IsKey(x)
          /\ x.sequence \in 1..Len(d.events)
          /\ x.command = d.events[x.sequence].command

\* What each version adds: v2 can be read back unsigned, v3 is chained and
\* signed, v4 has the hashes of its checkpoints; before v1 there is nothing.
Sound(d) ==
    /\ WellFormed(d)
    /\ d.version = 0 => Len(d.events) = 0
    /\ d.version = 2 => \A i \in 1..Len(d.events) : M!Readable(d.events[i], NoKey)
    /\ d.version \in 3..4 => \E k : Signed(d, k)
    /\ d.version = 4 => \A row \in d.checkpoints : row.material = M!Material(row)

\* The databases that an older version of the code left.
LEMMA VersionedSound ==
    ASSUME NEW v \in 1..3, NEW k \in {key, NoKey}, v < 3 => k = NoKey,
           NEW commands \in Logs, NEW points \in Points(commands),
           NEW d, d = Versioned(v, k, commands, points)
    PROVE  Sound(d)
<1>1. commands \in Seq(STRING) /\ Len(commands) \in Nat /\ DOMAIN commands = 1..Len(commands)
  BY StorageAssumption DEF LogsAreSequences
<1>2. PICK hs : hs = IF v = 1 THEN Unchained(commands) ELSE M!Chain(commands, k)
  OBVIOUS
<1>3. PICK env : env = [i \in DOMAIN commands |->
                           IF v = 1 THEN M0!Envelope(<<>>, <<>>, NoKey, NoKey)
                           ELSE M!Chained(hs, i, k)]
  OBVIOUS
<1>4. d = OldDatabase(v, env, k, commands, points, hs)
  BY <1>2, <1>3, SameChains DEF Versioned
<1>5. PICK ev : ev = [i \in DOMAIN commands |->
                    [command |-> commands[i], columns |-> env[i], json |-> env[i]]]
  OBVIOUS
<1>6. PICK cp : cp = {[folded |-> SubSeq(commands, 1, n),
                       hash |-> hs[n],
                       signer |-> IF n = 0 THEN NoKey ELSE k,
                       column |-> IF n = 0 THEN NoKey ELSE k,
                       material |-> <<>>] : n \in points}
  OBVIOUS
<1>7. PICK ix : ix = IF v < 2 THEN {}
               ELSE {[command |-> commands[i], sequence |-> i, hash |-> hs[i]] :
                     i \in DOMAIN commands}
  OBVIOUS
<1>8. d = [version |-> v, events |-> ev, checkpoints |-> cp, index |-> ix]
  BY <1>4, <1>5, <1>6, <1>7 DEF OldDatabase
<1>9. d.version = v /\ d.events = ev /\ d.checkpoints = cp /\ d.index = ix
  BY <1>8
<1>10. points \subseteq 0..Len(commands) /\ 0 \in points
  BY DEF Points
<1>11. Len(ev) = Len(commands) /\ DOMAIN ev = 1..Len(commands)
  <2>1. \A i \in 1..Len(commands) :
           ev[i] = [command |-> commands[i], columns |-> env[i], json |-> env[i]]
    BY <1>1, <1>5
  <2>2. ev = [i \in 1..Len(commands) |-> ev[i]]
    BY <1>1, <1>5, Zenon
  <2> QED BY <1>1, <2>2, FunctionLength
<1>12. \A i \in 1..Len(commands) :
          /\ ev[i] = [command |-> commands[i], columns |-> env[i], json |-> env[i]]
          /\ ev[i].command = commands[i] /\ ev[i].columns = env[i] /\ ev[i].json = env[i]
  BY <1>1, <1>5
<1>13. \A n \in points : Len(SubSeq(commands, 1, n)) = n
  BY <1>1, <1>10, Beginning
<1>14. \A row \in cp :
          /\ IsRow(row)
          /\ Len(row.folded) \in points /\ row.hash = hs[Len(row.folded)]
          /\ row.signer = (IF Len(row.folded) = 0 THEN NoKey ELSE k)
          /\ row.column = row.signer
  <2> TAKE row \in cp
  <2>1. PICK n \in points :
           row = [folded |-> SubSeq(commands, 1, n),
                  hash |-> hs[n],
                  signer |-> IF n = 0 THEN NoKey ELSE k,
                  column |-> IF n = 0 THEN NoKey ELSE k,
                  material |-> <<>>]
    BY <1>6
  <2>2. PICK part : part = SubSeq(commands, 1, n)
    OBVIOUS
  <2>3. Len(part) = n
    BY <1>13, <2>2
  <2>4. /\ row.folded = part /\ row.hash = hs[n]
        /\ row.signer = (IF n = 0 THEN NoKey ELSE k) /\ row.column = row.signer
        /\ IsRow(row)
    BY <2>1, <2>2 DEF IsRow
  <2> QED BY <2>3, <2>4
<1>15. \A x \in ix :
          /\ v >= 2 /\ IsKey(x)
          /\ x.sequence \in 1..Len(commands) /\ x.command = commands[x.sequence]
          /\ x.hash = hs[x.sequence]
  BY <1>1, <1>7 DEF IsKey
<1>16. WellFormed(d)
  <2>1. \A row \in cp : Len(row.folded) \in 0..Len(ev)
    BY <1>10, <1>11, <1>14
  <2>2. cp # {}
    BY <1>6, <1>10
  <2>3. \A i \in 1..Len(ev) : IsEvent(ev[i])
    BY <1>11, <1>12 DEF IsEvent
  <2>4. \A x \in ix : x.sequence \in 1..Len(ev) /\ x.command = ev[x.sequence].command
    BY <1>11, <1>12, <1>15
  <2>5. IsData(d)
    BY <1>8 DEF IsData
  <2> QED BY <1>1, <1>9, <1>11, <1>14, <1>15, <2>1, <2>2, <2>3, <2>4, <2>5 DEF WellFormed
<1>17. ASSUME v = 2 PROVE \A i \in 1..Len(ev) : M!Readable(ev[i], NoKey)
  <2>1. k = NoKey
    BY <1>17
  <2>2. \A i \in 1..Len(ev) : ev[i].columns = ev[i].json /\ ev[i].columns = M!Chained(hs, i, k)
    BY <1>1, <1>3, <1>11, <1>12, <1>17
  <2> QED BY <2>1, <2>2, ChainedFields DEF M!Readable
<1>18. ASSUME v = 3 PROVE Signed(d, k)
  <2>1. \E p \in Openers : KeyOf[p] = k
    BY StorageAssumption DEF KeysKnown
  <2>2. hs = M!Chain(commands, k)
    BY <1>2, <1>18
  <2>3. /\ hs[0] = M!NoHash
        /\ \A i \in 1..Len(commands) :
              hs[i] = M!EventHash(i, commands[i], hs[i - 1], IF i = 1 THEN NoKey ELSE k)
    BY <1>1, <2>2, ChainEquation
  <2>4. \A i \in 1..Len(commands) : env[i] = M!Chained(hs, i, k)
    BY <1>1, <1>3, <1>18
  <2>5. \A i \in 1..Len(ev) :
           /\ hs[i] = M!EventHash(i, ev[i].command, hs[i - 1], IF i = 1 THEN NoKey ELSE k)
           /\ ev[i].columns = M!Chained(hs, i, k)
           /\ ev[i].json = M!Chained(hs, i, k)
    BY <1>11, <1>12, <2>3, <2>4
  <2>6. /\ \A row \in cp :
              /\ row.hash = hs[Len(row.folded)]
              /\ row.signer = (IF Len(row.folded) = 0 THEN NoKey ELSE k)
              /\ row.column = row.signer
        /\ \A x \in ix : x.hash = hs[x.sequence]
    BY <1>14, <1>15
  <2> QED BY <1>9, <2>1, <2>3, <2>5, <2>6, Zenon DEF Signed
<1> QED BY <1>9, <1>16, <1>17, <1>18 DEF Sound

\* Every database that an opener may find is one the old code could have written.
LEMMA DatabasesSound ==
    ASSUME NEW d \in Databases
    PROVE  Sound(d)
<1>1. CASE d \in {[version |-> v, events |-> <<>>, checkpoints |-> {}, index |-> {}] : v \in {0, 5}}
  <2>1. PICK v \in {0, 5} : d = [version |-> v, events |-> <<>>, checkpoints |-> {}, index |-> {}]
    BY <1>1
  <2>2. d.version = v /\ d.events = <<>> /\ d.checkpoints = {} /\ d.index = {}
    BY <2>1
  <2>3. Len(<<>>) = 0 /\ DOMAIN <<>> = 1..0
    OBVIOUS
  <2>4. IsData(d)
    BY <2>1 DEF IsData
  <2> QED BY <2>1, <2>2, <2>3, <2>4 DEF Sound, WellFormed
<1>2. CASE \E v \in 1..3, commands \in Logs : \E points \in Points(commands) :
              d = Versioned(v, NoKey, commands, points)
  BY <1>2, VersionedSound
<1>3. CASE \E commands \in Logs : d = Versioned(3, key, commands, {0})
  <2>1. PICK commands \in Logs : d = Versioned(3, key, commands, {0})
    BY <1>3
  <2>2. {0} \in Points(commands)
    BY StorageAssumption DEF LogsAreSequences, Points
  <2> QED BY <2>1, <2>2, VersionedSound
<1> QED BY <1>1, <1>2, <1>3 DEF Databases

\* The latest checkpoint has folded the most.
LEMMA LatestRow ==
    ASSUME NEW d, WellFormed(d), d.checkpoints # {}
    PROVE  /\ M!Latest(d.checkpoints) \in d.checkpoints
           /\ \A row \in d.checkpoints : Len(row.folded) <= Len(M!Latest(d.checkpoints).folded)
<1> DEFINE D == {Len(d.events) - Len(row.folded) : row \in d.checkpoints}
<1>1. Len(d.events) \in Nat /\ \A row \in d.checkpoints : Len(row.folded) \in 0..Len(d.events)
  BY DEF WellFormed
<1>0. \A m, n \in Nat : m <= n => n - m \in Nat
  OBVIOUS
<1>2. D \in SUBSET Nat /\ D # {}
  <2>1. \A row \in d.checkpoints : Len(row.folded) \in Nat /\ Len(row.folded) <= Len(d.events)
    BY <1>1
  <2>2. \A row \in d.checkpoints : Len(d.events) - Len(row.folded) \in Nat
    BY <1>0, <1>1, <2>1
  <2> QED BY <2>2
<1>3. PICK m \in D : \A n \in D : m <= n
  <2> HIDE DEF D
  <2> QED BY <1>2, Least
<1>4. PICK top \in d.checkpoints : m = Len(d.events) - Len(top.folded)
  OBVIOUS
<1>5. \A row \in d.checkpoints : Len(d.events) - Len(row.folded) \in D
  OBVIOUS
<1> HIDE DEF D
<1>6. \A row \in d.checkpoints : Len(row.folded) <= Len(top.folded)
  <2>1. \A a, b, c \in Nat : a - b <= a - c => c <= b
    OBVIOUS
  <2>2. \A row \in d.checkpoints : Len(row.folded) \in Nat
    BY <1>1
  <2>3. \A row \in d.checkpoints : Len(d.events) - Len(top.folded) <= Len(d.events) - Len(row.folded)
    BY <1>3, <1>4, <1>5
  <2> QED BY <1>1, <2>1, <2>2, <2>3
<1>7. M!Latest(d.checkpoints) = CHOOSE row \in d.checkpoints :
                                   \A r \in d.checkpoints : Len(r.folded) <= Len(row.folded)
  BY DEF M!Latest, M!SequenceOf
<1> QED BY <1>6, <1>7

\* A checkpoint was taken after an event.
Advanced(d) == \E row \in d.checkpoints : Len(row.folded) > 0

\* It is enough to look at the latest checkpoint.
LEMMA AdvancedLatest ==
    ASSUME NEW d, WellFormed(d), d.checkpoints # {}
    PROVE  /\ Advanced(d) <=> M!SequenceOf(M!Latest(d.checkpoints)) > 0
           /\ ~Advanced(d) <=> M!SequenceOf(M!Latest(d.checkpoints)) = 0
<1>1. PICK top : top = M!Latest(d.checkpoints)
  OBVIOUS
<1>2. top \in d.checkpoints /\ \A row \in d.checkpoints : Len(row.folded) <= Len(top.folded)
  BY <1>1, LatestRow
<1>3. \A row \in d.checkpoints : Len(row.folded) \in Nat
  BY DEF WellFormed
<1>4. M!SequenceOf(top) = Len(top.folded)
  BY DEF M!SequenceOf
<1> QED BY <1>1, <1>2, <1>3, <1>4 DEF Advanced

\* The same history: commands, what the checkpoints have folded, and the keys.
Same(d, e) ==
    /\ Len(d.events) = Len(e.events)
    /\ \A i \in 1..Len(d.events) : d.events[i].command = e.events[i].command
    /\ {row.folded : row \in d.checkpoints} = {row.folded : row \in e.checkpoints}
    /\ {x.command : x \in d.index} = {x.command : x \in e.index}

\* What no migration gets past.
Doomed(d) ==
    \/ d.version \in 1..2 /\ Len(d.events) # 0 /\ Advanced(d)
    \/ d.version = 1 /\ Len(d.events) >= 2

\* A migration takes no checkpoint.
LEMMA SameAdvanced ==
    ASSUME NEW d, NEW e, Same(d, e)
    PROVE  Advanced(d) <=> Advanced(e)
<1>1. \A x, y : Same(x, y) => \A row \in x.checkpoints : \E r \in y.checkpoints : r.folded = row.folded
  <2> SUFFICES ASSUME NEW x, NEW y, {row.folded : row \in x.checkpoints} = {row.folded : row \in y.checkpoints},
                      NEW row \in x.checkpoints
               PROVE  \E r \in y.checkpoints : r.folded = row.folded
    BY DEF Same
  <2>1. row.folded \in {r.folded : r \in x.checkpoints}
    OBVIOUS
  <2>2. row.folded \in {r.folded : r \in y.checkpoints}
    BY <2>1
  <2> QED BY <2>2
<1>2. Same(e, d)
  BY DEF Same
<1> QED BY <1>1, <1>2 DEF Advanced

\* The validation after v2 and v3.
LEMMA ReplaysMeans ==
    ASSUME NEW d, WellFormed(d)
    PROVE  M!Replays(d) <=>
              /\ \A i \in 1..Len(d.events) :
                    /\ d.events[i].json.prev = IF i = 1 THEN M!NoHash ELSE d.events[i - 1].json.hash
                    /\ d.events[i].json.prevSigner = IF i = 1 THEN NoKey ELSE d.events[i - 1].json.signer
              /\ Len(d.events) # 0 => /\ ~Advanced(d)
                                      /\ d.events[1].json.prev = M!Latest(d.checkpoints).hash
<1>1. DOMAIN d.events = 1..Len(d.events) /\ Len(d.events) \in Nat
  BY DEF WellFormed
<1>2. M!Replays(d) <=>
         \A i \in 1..Len(d.events) :
            /\ d.events[i].json.prev = IF i = 1 THEN M!NoHash ELSE d.events[i - 1].json.hash
            /\ d.events[i].json.prevSigner = IF i = 1 THEN NoKey ELSE d.events[i - 1].json.signer
            /\ i = 1 => /\ M!SequenceOf(M!Latest(d.checkpoints)) + 1 = 1
                        /\ d.events[1].json.prev = M!Latest(d.checkpoints).hash
  BY <1>1 DEF M!Replays
<1>3. Len(d.events) # 0 => /\ d.checkpoints # {}
                           /\ M!SequenceOf(M!Latest(d.checkpoints)) \in Nat
  <2> SUFFICES ASSUME Len(d.events) # 0
               PROVE  d.checkpoints # {} /\ M!SequenceOf(M!Latest(d.checkpoints)) \in Nat
    OBVIOUS
  <2>1. d.checkpoints # {}
    BY DEF WellFormed
  <2>2. \A row \in d.checkpoints : Len(row.folded) \in Nat
    BY DEF WellFormed
  <2> QED BY <2>1, <2>2, LatestRow DEF M!SequenceOf
<1>4. Len(d.events) # 0 => 1 \in 1..Len(d.events)
  BY <1>1
<1>5. Len(d.events) # 0 => (~Advanced(d) <=> M!SequenceOf(M!Latest(d.checkpoints)) + 1 = 1)
  BY <1>3, AdvancedLatest
<1> QED BY <1>1, <1>2, <1>4, <1>5

\* Events, checkpoints and idempotency rows in the place of those of a database,
\* with the same commands, folds and keys.
InPlace(d, ev, cp, ix) ==
    /\ ev = [i \in 1..Len(d.events) |-> ev[i]]
    /\ \A i \in 1..Len(d.events) : IsEvent(ev[i]) /\ ev[i].command = d.events[i].command
    /\ \A r \in cp : IsRow(r) /\ \E row \in d.checkpoints : r.folded = row.folded
    /\ \A row \in d.checkpoints : \E r \in cp : r.folded = row.folded
    /\ \A x \in ix : IsKey(x) /\ \E y \in d.index : x.command = y.command /\ x.sequence = y.sequence
    /\ \A y \in d.index : \E x \in ix : x.command = y.command

\* They keep a database well-formed, and its history.
LEMMA Rewritten ==
    ASSUME NEW d, WellFormed(d), NEW v \in 0..5, NEW ev, NEW cp, NEW ix,
           InPlace(d, ev, cp, ix),
           NEW e, e = [version |-> v, events |-> ev, checkpoints |-> cp, index |-> ix]
    PROVE  /\ WellFormed(e) /\ Same(e, d)
           /\ e.version = v /\ e.events = ev /\ e.checkpoints = cp /\ e.index = ix
<1>1. e.version = v /\ e.events = ev /\ e.checkpoints = cp /\ e.index = ix
  OBVIOUS
<1> USE DEF InPlace
<1>2. Len(d.events) \in Nat
  BY DEF WellFormed
<1>3. Len(ev) = Len(d.events) /\ DOMAIN ev = 1..Len(d.events)
  BY <1>2, FunctionLength
<1>4. \A i \in 1..Len(d.events) : ev[i].command = d.events[i].command
  OBVIOUS
<1>5. \A r \in cp : Len(r.folded) \in 0..Len(d.events)
  BY DEF WellFormed
<1>6. Len(d.events) # 0 => cp # {}
  <2>1. Len(d.events) # 0 => d.checkpoints # {}
    BY DEF WellFormed
  <2> QED BY <2>1
<1>7. \A x \in ix : x.sequence \in 1..Len(d.events) /\ x.command = ev[x.sequence].command
  <2>1. \A y \in d.index : /\ y.sequence \in 1..Len(d.events)
                           /\ y.command = d.events[y.sequence].command
    BY DEF WellFormed
  <2> TAKE x \in ix
  <2>2. PICK y \in d.index : x.command = y.command /\ x.sequence = y.sequence
    OBVIOUS
  <2>3. PICK n \in 1..Len(d.events) : n = y.sequence
    BY <2>1
  <2>4. y.command = d.events[n].command /\ ev[n].command = d.events[n].command
    BY <1>4, <2>1, <2>3
  <2> QED BY <2>2, <2>3, <2>4
<1>8. IsData(e)
  BY DEF IsData
<1>9. WellFormed(e)
  <2>1. \A i \in 1..Len(ev) : IsEvent(ev[i])
    BY <1>3
  <2> QED BY <1>1, <1>2, <1>3, <1>5, <1>6, <1>7, <1>8, <2>1 DEF WellFormed
<1>10. {row.folded : row \in cp} = {row.folded : row \in d.checkpoints}
  <2>1. \A r \in cp : r.folded \in {row.folded : row \in d.checkpoints}
    OBVIOUS
  <2>2. \A row \in d.checkpoints : row.folded \in {r.folded : r \in cp}
    OBVIOUS
  <2> QED BY <2>1, <2>2
<1>11. {x.command : x \in ix} = {x.command : x \in d.index}
  <2>1. \A x \in ix : x.command \in {y.command : y \in d.index}
    OBVIOUS
  <2>2. \A y \in d.index : y.command \in {x.command : x \in ix}
    OBVIOUS
  <2> QED BY <2>1, <2>2
<1>12. Same(e, d)
  BY <1>1, <1>3, <1>4, <1>10, <1>11 DEF Same
<1> QED BY <1>1, <1>9, <1>12

\* v1 makes the tables.
LEMMA V1Keeps ==
    ASSUME NEW d, Sound(d), d.version = 0, NEW e, e = [d EXCEPT !.version = 1]
    PROVE  Sound(e) /\ Same(e, d) /\ e.version = 1
<1>0. WellFormed(d)
  BY DEF Sound
<1>1. e = [version |-> 1, events |-> d.events, checkpoints |-> d.checkpoints, index |-> d.index]
  BY <1>0 DEF WellFormed, IsData
<1>2. e.version = 1 /\ e.events = d.events /\ e.checkpoints = d.checkpoints /\ e.index = d.index
  BY <1>1
<1>3. IsData(e)
  BY <1>1 DEF IsData
<1> QED BY <1>0, <1>2, <1>3 DEF Sound, WellFormed, Same

\* v4 hashes the checkpoints.
LEMMA V4Keeps ==
    ASSUME NEW d, Sound(d), d.version = 3, NEW e, e \in M!ToV4(d)
    PROVE  Sound(e) /\ Same(e, d) /\ e.version = 4
<1>0. WellFormed(d)
  BY DEF Sound
<1>1. PICK cp : cp = {[row EXCEPT !.material = M!Material(row)] : row \in d.checkpoints}
  OBVIOUS
<1>2. e = [version |-> 4, events |-> d.events, checkpoints |-> cp, index |-> d.index]
  <2>1. e = [d EXCEPT !.version = 4, !.checkpoints = cp]
    BY <1>1 DEF M!ToV4
  <2> QED BY <1>0, <2>1 DEF WellFormed, IsData
<1>3. \A row \in d.checkpoints :
         LET r == [row EXCEPT !.material = M!Material(row)] IN
         /\ IsRow(r) /\ r.folded = row.folded /\ r.hash = row.hash /\ r.signer = row.signer
         /\ r.column = row.column /\ r.material = M!Material(row)
  <2>1. \A row \in d.checkpoints : IsRow(row)
    BY <1>0 DEF WellFormed
  <2> QED BY <2>1 DEF IsRow
<1>4. \A r \in cp :
         /\ IsRow(r)
         /\ \E row \in d.checkpoints :
               /\ r.folded = row.folded /\ r.hash = row.hash /\ r.signer = row.signer
               /\ r.column = row.column /\ r.material = M!Material(row)
  <2> TAKE r \in cp
  <2>1. PICK row \in d.checkpoints : r = [row EXCEPT !.material = M!Material(row)]
    BY <1>1
  <2> QED BY <1>3, <2>1
<1>5. \A row \in d.checkpoints : \E r \in cp : r.folded = row.folded
  <2> TAKE row \in d.checkpoints
  <2>1. PICK r : r = [row EXCEPT !.material = M!Material(row)]
    OBVIOUS
  <2>2. r \in cp
    BY <1>1, <2>1
  <2> QED BY <1>3, <2>1, <2>2
<1>6. /\ WellFormed(e) /\ Same(e, d) /\ e.version = 4 /\ e.events = d.events
      /\ e.checkpoints = cp /\ e.index = d.index
  <2>4. e.version = 4 /\ e.events = d.events /\ e.checkpoints = cp /\ e.index = d.index
    BY <1>2
  <2>5. IsData(e)
    BY <1>2 DEF IsData
  <2>6. WellFormed(e)
    <3>1. \A r \in cp : Len(r.folded) \in 0..Len(d.events)
      BY <1>0, <1>4 DEF WellFormed
    <3>2. Len(d.events) # 0 => cp # {}
      BY <1>0, <1>5 DEF WellFormed
    <3> QED BY <1>0, <1>4, <2>4, <2>5, <3>1, <3>2 DEF WellFormed
  <2>7. {row.folded : row \in cp} = {row.folded : row \in d.checkpoints}
    <3>1. \A r \in cp : r.folded \in {row.folded : row \in d.checkpoints}
      BY <1>4
    <3>2. \A row \in d.checkpoints : row.folded \in {r.folded : r \in cp}
      BY <1>5
    <3> QED BY <3>1, <3>2
  <2> QED BY <2>4, <2>6, <2>7 DEF Same
<1>7. PICK k : Signed(d, k)
  BY DEF Sound
<1>8. Signed(e, k)
  <2>1. PICK chain :
          /\ chain[0] = M!NoHash
          /\ \A i \in 1..Len(d.events) :
                /\ chain[i] = M!EventHash(i, d.events[i].command, chain[i - 1],
                                          IF i = 1 THEN NoKey ELSE k)
                /\ d.events[i].columns = M!Chained(chain, i, k)
                /\ d.events[i].json = M!Chained(chain, i, k)
          /\ \A row \in d.checkpoints :
                /\ row.hash = chain[Len(row.folded)]
                /\ row.signer = (IF Len(row.folded) = 0 THEN NoKey ELSE k)
                /\ row.column = row.signer
          /\ \A x \in d.index : x.hash = chain[x.sequence]
    BY <1>7 DEF Signed
  <2>2. \A r \in cp :
                /\ r.hash = chain[Len(r.folded)]
                /\ r.signer = (IF Len(r.folded) = 0 THEN NoKey ELSE k)
                /\ r.column = r.signer
    BY <1>4, <2>1
  <2>3. \E p \in Openers : KeyOf[p] = k
    BY <1>7 DEF Signed
  <2>4. /\ \A i \in 1..Len(e.events) :
              /\ chain[i] = M!EventHash(i, e.events[i].command, chain[i - 1],
                                        IF i = 1 THEN NoKey ELSE k)
              /\ e.events[i].columns = M!Chained(chain, i, k)
              /\ e.events[i].json = M!Chained(chain, i, k)
        /\ \A r \in e.checkpoints :
              /\ r.hash = chain[Len(r.folded)]
              /\ r.signer = (IF Len(r.folded) = 0 THEN NoKey ELSE k)
              /\ r.column = r.signer
        /\ \A x \in e.index : x.hash = chain[x.sequence]
    BY <1>6, <2>1, <2>2, Zenon
  <2> QED BY <2>1, <2>3, <2>4, Zenon DEF Signed
<1>9. \A r \in cp : r.material = M!Material(r)
  BY <1>4 DEF M!Material
<1> QED BY <1>6, <1>8, <1>9 DEF Sound

\* v2 hashes what was not: it fails if there are two events, or one and a
\* checkpoint after it.
LEMMA V2Keeps ==
    ASSUME NEW d, Sound(d), d.version = 1
    PROVE  /\ \A e \in M!ToV2(d) : Sound(e) /\ Same(e, d) /\ e.version = 2 /\ ~Doomed(d)
           /\ M!ToV2(d) = {} => Doomed(d)
<1>0. WellFormed(d) /\ Len(d.events) \in Nat /\ DOMAIN d.events = 1..Len(d.events)
  BY DEF Sound, WellFormed
<1> DEFINE hash(j) == IF j = 0 THEN M!NoHash ELSE M!EventHash(j, d.events[j].command, M!NoHash, NoKey)
<1> DEFINE ev == [i \in DOMAIN d.events |-> M!V2Event(d.events, i)]
           cp == {[row EXCEPT !.hash = IF M!SequenceOf(row) = 0 THEN M!NoHash
                                       ELSE ev[M!SequenceOf(row)].columns.hash] :
                  row \in d.checkpoints}
           updated == [d EXCEPT !.version = 2, !.events = ev, !.checkpoints = cp]
<1>a. M!ToV2(d) = IF M!Replays(updated) THEN {updated} ELSE {}
  BY Zenon DEF M!ToV2
<1>1. ev = [i \in DOMAIN d.events |-> M!V2Event(d.events, i)]
  OBVIOUS
<1> HIDE DEF ev
<1>3. cp = {[row EXCEPT !.hash = IF M!SequenceOf(row) = 0 THEN M!NoHash
                                 ELSE ev[M!SequenceOf(row)].columns.hash] :
            row \in d.checkpoints}
  OBVIOUS
<1> HIDE DEF cp
<1>2. \A i \in 1..Len(d.events) :
         /\ IsEvent(ev[i]) /\ ev[i].command = d.events[i].command
         /\ ev[i].columns.prev = hash(i - 1) /\ ev[i].columns.hash = hash(i)
         /\ ev[i].json.prev = M!NoHash /\ ev[i].json.hash = hash(i)
         /\ ev[i].json.prevSigner = NoKey /\ ev[i].json.signer = NoKey
         /\ ev[i].columns.signer = NoKey
         /\ hash(i - 1) = M!NoHash => ev[i].columns = ev[i].json
  <2> TAKE i \in 1..Len(d.events)
  <2>1. ev[i] = M!V2Event(d.events, i)
    BY <1>0, <1>1
  <2>2. M!V2Event(d.events, i) =
           [command |-> d.events[i].command,
            columns |-> M!Envelope(hash(i - 1), hash(i), NoKey, NoKey),
            json    |-> M!Envelope(M!NoHash, hash(i), NoKey, NoKey)]
    BY DEF M!V2Event
  <2> HIDE DEF hash
  <2>3. ev[i] = [command |-> d.events[i].command,
                 columns |-> [prev |-> hash(i - 1), hash |-> hash(i), prevSigner |-> NoKey, signer |-> NoKey],
                 json    |-> [prev |-> M!NoHash, hash |-> hash(i), prevSigner |-> NoKey, signer |-> NoKey]]
    BY <2>1, <2>2 DEF M!Envelope
  <2> QED BY <2>3 DEF IsEvent
<1>4. PICK e : e = [version |-> 2, events |-> ev, checkpoints |-> cp, index |-> d.index]
  OBVIOUS
<1>5. M!ToV2(d) = IF M!Replays(e) THEN {e} ELSE {}
  <2>1. e = updated
    <3>1. IsData(d)
      BY <1>0 DEF WellFormed
    <3>2. updated = [version |-> 2, events |-> ev, checkpoints |-> cp, index |-> d.index]
      <4>1. PICK x : x = [d EXCEPT !.version = 2, !.events = ev]
        OBVIOUS
      <4>2. x = [version |-> 2, events |-> ev, checkpoints |-> d.checkpoints, index |-> d.index]
        BY <3>1, <4>1 DEF IsData
      <4>3. updated = [x EXCEPT !.checkpoints = cp]
        BY <4>1
      <4> HIDE DEF updated
      <4> QED BY <4>2, <4>3
    <3> HIDE DEF updated
    <3> QED BY <1>4, <3>2
  <2> HIDE DEF updated
  <2> QED BY <1>a, <2>1, Zenon
<1> HIDE DEF updated
<1>6. \A r \in cp :
         /\ IsRow(r)
         /\ \E row \in d.checkpoints : r.folded = row.folded
         /\ Len(r.folded) = 0 => r.hash = M!NoHash
  <2> TAKE r \in cp
  <2>1. PICK row \in d.checkpoints :
           r = [row EXCEPT !.hash = IF M!SequenceOf(row) = 0 THEN M!NoHash
                                    ELSE ev[M!SequenceOf(row)].columns.hash]
    BY <1>3
  <2>2. IsRow(row)
    BY <1>0 DEF WellFormed
  <2> QED BY <2>1, <2>2 DEF IsRow, M!SequenceOf
<1>7. \A row \in d.checkpoints : \E r \in cp : r.folded = row.folded
  <2> TAKE row \in d.checkpoints
  <2>1. PICK r : r = [row EXCEPT !.hash = IF M!SequenceOf(row) = 0 THEN M!NoHash
                                          ELSE ev[M!SequenceOf(row)].columns.hash]
    OBVIOUS
  <2>2. IsRow(row) /\ r \in cp
    BY <1>0, <1>3, <2>1 DEF WellFormed
  <2> QED BY <2>1, <2>2 DEF IsRow
<1>8. /\ WellFormed(e) /\ Same(e, d) /\ e.version = 2
      /\ e.events = ev /\ e.checkpoints = cp /\ e.index = d.index
  <2>1. ev = [i \in 1..Len(d.events) |-> ev[i]]
    BY <1>0, <1>1, Zenon
  <2>2. \A x \in d.index : IsKey(x)
    BY <1>0 DEF WellFormed
  <2>3. \A i \in 1..Len(d.events) : IsEvent(ev[i]) /\ ev[i].command = d.events[i].command
    BY <1>2
  <2>4. \A r \in cp : IsRow(r) /\ \E row \in d.checkpoints : r.folded = row.folded
    BY <1>6
  <2>5. /\ \A x \in d.index : IsKey(x) /\ \E y \in d.index : x.command = y.command /\ x.sequence = y.sequence
        /\ \A y \in d.index : \E x \in d.index : x.command = y.command
    BY <2>2
  <2>6. 2 \in 0..5 /\ WellFormed(d)
    BY <1>0
  <2> HIDE DEF hash
  <2>7. InPlace(d, ev, cp, d.index)
    BY <1>7, <2>1, <2>3, <2>4, <2>5 DEF InPlace
  <2> QED BY <1>4, <2>6, <2>7, Rewritten
<1>9. Len(e.events) = Len(d.events) /\ (Advanced(e) <=> Advanced(d))
  BY <1>8, SameAdvanced DEF Same
<1>10. hash(0) = M!NoHash /\ \A i \in 1..Len(d.events) : hash(i) # M!NoHash
  BY DEF M!EventHash, M!NoHash
<1> HIDE DEF hash
<1>11. Len(d.events) # 0 => M!Latest(cp) \in cp /\ (~Advanced(d) => M!Latest(cp).hash = M!NoHash)
  <2> SUFFICES ASSUME Len(d.events) # 0
               PROVE  M!Latest(cp) \in cp /\ (~Advanced(d) => M!Latest(cp).hash = M!NoHash)
    OBVIOUS
  <2>1. cp # {}
    BY <1>8, <1>9 DEF WellFormed
  <2>2. M!Latest(cp) \in cp
    BY <1>8, <2>1, LatestRow
  <2>3. ~Advanced(d) => M!SequenceOf(M!Latest(cp)) = 0
    BY <1>8, <1>9, <2>1, AdvancedLatest
  <2> QED BY <1>6, <2>2, <2>3 DEF M!SequenceOf
<1>12. M!Replays(e) <=> ~Doomed(d)
  <2>1. Doomed(d) <=> Len(d.events) >= 2 \/ (Len(d.events) # 0 /\ Advanced(d))
    BY DEF Doomed
  <2>2. ASSUME Len(d.events) >= 2 PROVE ~M!Replays(e)
    <3>1. 1 \in 1..Len(d.events) /\ 2 \in 1..Len(d.events) /\ 2 - 1 = 1
      BY <1>0, <2>2
    <3>2. ev[2].json.prev = M!NoHash /\ ev[1].json.hash # M!NoHash
      BY <1>2, <1>10, <3>1
    <3>3. M!Replays(e) => ev[2].json.prev = ev[2 - 1].json.hash
      BY <1>8, <1>9, <3>1, ReplaysMeans
    <3> QED BY <3>1, <3>2, <3>3
  <2>3. ASSUME Len(d.events) < 2 PROVE M!Replays(e) <=> (Len(d.events) # 0 => ~Advanced(d))
    <3>1. \A i \in 1..Len(e.events) : i = 1
      BY <1>0, <1>9, <2>3
    <3>2. \A i \in 1..Len(e.events) : /\ e.events[i].json.prev = M!NoHash
                                      /\ e.events[i].json.prevSigner = NoKey
      BY <1>2, <1>8, <1>9
    <3>3. Len(d.events) # 0 => 1 \in 1..Len(e.events)
      BY <1>0, <1>9
    <3> QED BY <1>8, <1>9, <1>11, <3>1, <3>2, <3>3, ReplaysMeans
  <2>4. Len(d.events) >= 2 \/ Len(d.events) < 2
    BY <1>0
  <2> QED BY <1>0, <2>1, <2>2, <2>3, <2>4
<1>13. ASSUME ~Doomed(d) PROVE Sound(e)
  <2>1. Len(d.events) < 2
    BY <1>0, <1>13 DEF Doomed
  <2>2. \A i \in 1..Len(ev) : M!Readable(ev[i], NoKey)
    <3>1. \A i \in 1..Len(ev) : i \in 1..Len(d.events) /\ i - 1 = 0
      BY <1>0, <1>8, <1>9, <2>1
    <3> QED BY <1>2, <1>10, <3>1 DEF M!Readable
  <2> QED BY <1>8, <2>2 DEF Sound
<1> QED BY <1>5, <1>8, <1>12, <1>13

\* v3 chains and signs everything: it fails if a checkpoint was taken after an
\* event.
LEMMA V3Keeps ==
    ASSUME NEW d, Sound(d), d.version = 2, NEW p \in Openers, NEW k, k = KeyOf[p]
    PROVE  /\ \A e \in M!ToV3(d, k) : Sound(e) /\ Same(e, d) /\ e.version = 3 /\ ~Doomed(d)
           /\ M!ToV3(d, k) = {} => Doomed(d)
<1>0. WellFormed(d) /\ Len(d.events) \in Nat /\ DOMAIN d.events = 1..Len(d.events)
  BY DEF Sound, WellFormed
<1> DEFINE chain == M!Chain(M!Commands(d.events), k)
           signerAt(n) == IF n = 0 THEN NoKey ELSE k
           ev == [i \in DOMAIN d.events |->
                     [d.events[i] EXCEPT !.columns = M!Chained(chain, i, k),
                                         !.json = M!Chained(chain, i, k)]]
           ix == {[x EXCEPT !.hash = chain[x.sequence]] : x \in d.index}
           cp == {[row EXCEPT !.hash = chain[M!SequenceOf(row)],
                              !.signer = signerAt(M!SequenceOf(row)),
                              !.column = signerAt(M!SequenceOf(row))] : row \in d.checkpoints}
           updated == [d EXCEPT !.version = 3, !.events = ev, !.index = ix, !.checkpoints = cp]
<1>1. M!Rehashed(d, k) = updated
  BY Zenon DEF M!Rehashed
<1>2. PICK ch : ch = chain
  OBVIOUS
<1>3. /\ ch[0] = M!NoHash
      /\ \A i \in 1..Len(d.events) :
            ch[i] = M!EventHash(i, d.events[i].command, ch[i - 1], IF i = 1 THEN NoKey ELSE k)
  <2>1. PICK cs : cs = M!Commands(d.events)
    OBVIOUS
  <2>2. cs = [i \in 1..Len(d.events) |-> d.events[i].command]
    BY <1>0, <2>1 DEF M!Commands
  <2>3. Len(cs) = Len(d.events) /\ \A i \in 1..Len(d.events) : cs[i] = d.events[i].command
    <3>1. cs = [i \in 1..Len(d.events) |-> cs[i]] /\ \A i \in 1..Len(d.events) : cs[i] = d.events[i].command
      BY <2>2
    <3> QED BY <1>0, <3>1, FunctionLength
  <2>4. ch = M!Chain(cs, k)
    BY <1>2, <2>1
  <2> HIDE DEF chain
  <2>5. /\ M!Chain(cs, k)[0] = M!NoHash
        /\ \A i \in 1..Len(cs) :
              M!Chain(cs, k)[i] = M!EventHash(i, cs[i], M!Chain(cs, k)[i - 1], IF i = 1 THEN NoKey ELSE k)
    BY <1>0, <2>3, ChainEquation
  <2> QED BY <2>3, <2>4, <2>5
<1> HIDE DEF chain
<1>4. \A i \in 1..Len(d.events) :
         /\ IsEvent(ev[i]) /\ ev[i].command = d.events[i].command
         /\ ev[i].columns = M!Chained(ch, i, k) /\ ev[i].json = M!Chained(ch, i, k)
  <2> TAKE i \in 1..Len(d.events)
  <2>1. IsEvent(d.events[i])
    BY <1>0 DEF WellFormed
  <2>2. ev[i] = [d.events[i] EXCEPT !.columns = M!Chained(ch, i, k), !.json = M!Chained(ch, i, k)]
    BY <1>0, <1>2
  <2> HIDE DEF ev
  <2> QED BY <2>1, <2>2 DEF IsEvent
<1>5. ev = [i \in 1..Len(d.events) |-> ev[i]]
  BY <1>0, Zenon
<1> HIDE DEF ev
<1>6. \A r \in cp :
         /\ IsRow(r) /\ \E row \in d.checkpoints : r.folded = row.folded
         /\ r.hash = ch[Len(r.folded)] /\ r.column = r.signer
         /\ r.signer = IF Len(r.folded) = 0 THEN NoKey ELSE k
  <2> TAKE r \in cp
  <2>1. PICK row \in d.checkpoints :
           r = [row EXCEPT !.hash = ch[M!SequenceOf(row)],
                           !.signer = signerAt(M!SequenceOf(row)),
                           !.column = signerAt(M!SequenceOf(row))]
    BY <1>2
  <2>2. IsRow(row)
    BY <1>0 DEF WellFormed
  <2> HIDE DEF cp
  <2>3. /\ r.folded = row.folded /\ r.hash = ch[M!SequenceOf(row)] /\ r.column = r.signer
        /\ r.signer = signerAt(M!SequenceOf(row)) /\ IsRow(r)
    BY <2>1, <2>2 DEF IsRow
  <2> QED BY <2>3 DEF M!SequenceOf
<1>7. \A row \in d.checkpoints : \E r \in cp : r.folded = row.folded
  <2> TAKE row \in d.checkpoints
  <2>1. PICK r : r = [row EXCEPT !.hash = ch[M!SequenceOf(row)],
                                 !.signer = signerAt(M!SequenceOf(row)),
                                 !.column = signerAt(M!SequenceOf(row))]
    OBVIOUS
  <2>2. IsRow(row) /\ r \in cp
    BY <1>0, <1>2, <2>1 DEF WellFormed
  <2>3. r.folded = row.folded
    BY <2>1, <2>2 DEF IsRow
  <2> QED BY <2>2, <2>3
<1> HIDE DEF cp, signerAt
<1>8. \A x \in ix :
         /\ IsKey(x) /\ x.hash = ch[x.sequence]
         /\ \E y \in d.index : x.command = y.command /\ x.sequence = y.sequence
  <2> TAKE x \in ix
  <2>1. PICK y \in d.index : x = [y EXCEPT !.hash = ch[y.sequence]]
    BY <1>2
  <2>2. IsKey(y)
    BY <1>0 DEF WellFormed
  <2> QED BY <2>1, <2>2 DEF IsKey
<1>9. \A y \in d.index : \E x \in ix : x.command = y.command
  <2> TAKE y \in d.index
  <2>1. PICK x : x = [y EXCEPT !.hash = ch[y.sequence]]
    OBVIOUS
  <2>2. IsKey(y) /\ x \in ix
    BY <1>0, <1>2, <2>1 DEF WellFormed
  <2> QED BY <2>1, <2>2 DEF IsKey
<1> HIDE DEF ix
<1>10. PICK e : e = [version |-> 3, events |-> ev, checkpoints |-> cp, index |-> ix]
  OBVIOUS
<1>11. M!Rehashed(d, k) = e
  <2>1. IsData(d)
    BY <1>0 DEF WellFormed
  <2>2. PICK y : y = [d EXCEPT !.version = 3, !.events = ev]
    OBVIOUS
  <2>3. y = [version |-> 3, events |-> ev, checkpoints |-> d.checkpoints, index |-> d.index]
    BY <2>1, <2>2 DEF IsData
  <2>4. PICK z : z = [y EXCEPT !.index = ix]
    OBVIOUS
  <2>5. z = [version |-> 3, events |-> ev, checkpoints |-> d.checkpoints, index |-> ix]
    BY <2>3, <2>4
  <2>6. updated = [z EXCEPT !.checkpoints = cp]
    BY <2>2, <2>4
  <2> HIDE DEF updated
  <2> QED BY <1>1, <1>10, <2>5, <2>6
<1> HIDE DEF updated
<1>12. /\ WellFormed(e) /\ Same(e, d) /\ e.version = 3
       /\ e.events = ev /\ e.checkpoints = cp /\ e.index = ix
  <2>1. InPlace(d, ev, cp, ix)
    BY <1>4, <1>5, <1>6, <1>7, <1>8, <1>9 DEF InPlace
  <2>2. 3 \in 0..5 /\ WellFormed(d)
    BY <1>0
  <2> QED BY <1>10, <2>1, <2>2, Rewritten
<1>13. Len(e.events) = Len(d.events) /\ (Advanced(e) <=> Advanced(d))
  BY <1>12, SameAdvanced DEF Same
<1>14. Sound(e)
  <2>1. \E o \in Openers : KeyOf[o] = k
    OBVIOUS
  <2>2. /\ \A i \in 1..Len(e.events) :
              /\ ch[i] = M!EventHash(i, e.events[i].command, ch[i - 1],
                                     IF i = 1 THEN NoKey ELSE k)
              /\ e.events[i].columns = M!Chained(ch, i, k)
              /\ e.events[i].json = M!Chained(ch, i, k)
        /\ \A r \in e.checkpoints :
              /\ r.hash = ch[Len(r.folded)]
              /\ r.signer = (IF Len(r.folded) = 0 THEN NoKey ELSE k)
              /\ r.column = r.signer
        /\ \A x \in e.index : x.hash = ch[x.sequence]
    BY <1>3, <1>4, <1>6, <1>8, <1>12, <1>13
  <2>3. Signed(e, k)
    BY <1>3, <2>1, <2>2, Zenon DEF Signed
  <2> QED BY <1>12, <2>3 DEF Sound
<1>15. M!Replays(e) <=> ~Doomed(d)
  <2>1. Doomed(d) <=> (Len(d.events) # 0 /\ Advanced(d))
    BY DEF Doomed
  <2>2. \A i \in 1..Len(e.events) :
           /\ e.events[i].json.prev = IF i = 1 THEN M!NoHash ELSE e.events[i - 1].json.hash
           /\ e.events[i].json.prevSigner = IF i = 1 THEN NoKey ELSE e.events[i - 1].json.signer
    <3> TAKE i \in 1..Len(e.events)
    <3>1. i = 1 \/ i - 1 \in 1..Len(d.events)
      BY <1>0, <1>13
    <3>2. e.events[i].json = M!Chained(ch, i, k)
      BY <1>4, <1>12, <1>13
    <3>3. i # 1 => e.events[i - 1].json = M!Chained(ch, i - 1, k)
      BY <1>4, <1>12, <1>13, <3>1
    <3>4. CASE i = 1
      BY <1>3, <3>2, <3>4, ChainedFields
    <3>5. CASE i # 1
      BY <3>2, <3>3, <3>5, ChainedFields
    <3> QED BY <3>4, <3>5
  <2>3. Len(e.events) # 0 /\ ~Advanced(e) => e.events[1].json.prev = M!Latest(e.checkpoints).hash
    <3> SUFFICES ASSUME Len(e.events) # 0, ~Advanced(e)
                 PROVE  e.events[1].json.prev = M!Latest(e.checkpoints).hash
      OBVIOUS
    <3>1. e.checkpoints # {}
      BY <1>12 DEF WellFormed
    <3>2. M!Latest(e.checkpoints) \in cp
      BY <1>12, <3>1, LatestRow
    <3>3. Len(M!Latest(e.checkpoints).folded) = 0
      BY <1>12, <3>1, AdvancedLatest DEF M!SequenceOf
    <3>4. 1 \in 1..Len(e.events)
      BY <1>0, <1>13
    <3>5. e.events[1].json.prev = M!NoHash
      BY <2>2, <3>4
    <3> QED BY <1>3, <1>6, <3>2, <3>3, <3>5
  <2> QED BY <1>12, <1>13, <2>1, <2>2, <2>3, ReplaysMeans
<1>16. M!ToV3(d, k) = IF M!Replays(e) THEN {e} ELSE {}
  <2>1. \A i \in DOMAIN d.events : M!Readable(d.events[i], NoKey)
    BY <1>0 DEF Sound
  <2> QED BY <1>11, <2>1 DEF M!ToV3
<1> QED BY <1>12, <1>14, <1>15, <1>16

\* A migration keeps the history and makes the next version sound; it raises
\* exactly for the databases that no migration gets past.
LEMMA MigrationKeeps ==
    ASSUME NEW d, Sound(d), d.version < 4, NEW p \in Openers
    PROVE  /\ \A e \in M!Migrated(d, KeyOf[p]) :
                 Sound(e) /\ Same(e, d) /\ e.version = d.version + 1 /\ ~Doomed(d)
           /\ M!Migrated(d, KeyOf[p]) = {} => Doomed(d)
<1>1. d.version \in 0..3
  BY DEF Sound, WellFormed
<1>2. CASE d.version = 0
  <2>1. M!Migrated(d, KeyOf[p]) = M!ToV1(d)
    BY <1>2 DEF M!Migrated
  <2>2. M!ToV1(d) = {[d EXCEPT !.version = 1]}
    BY DEF M!ToV1
  <2>3. ~Doomed(d)
    BY <1>2 DEF Doomed
  <2> QED BY <1>2, <2>1, <2>2, <2>3, V1Keeps
<1>3. CASE d.version = 1
  <2>1. M!Migrated(d, KeyOf[p]) = M!ToV2(d)
    BY <1>3 DEF M!Migrated
  <2> QED BY <1>3, <2>1, V2Keeps
<1>4. CASE d.version = 2
  <2>1. M!Migrated(d, KeyOf[p]) = M!ToV3(d, KeyOf[p])
    BY <1>4 DEF M!Migrated
  <2> QED BY <1>4, <2>1, V3Keeps
<1>5. CASE d.version = 3
  <2>1. M!Migrated(d, KeyOf[p]) = M!ToV4(d)
    BY <1>5 DEF M!Migrated
  <2>2. M!ToV4(d) # {}
    BY DEF M!ToV4
  <2>3. ~Doomed(d)
    BY <1>5 DEF Doomed
  <2> QED BY <1>5, <2>1, <2>2, <2>3, V4Keeps
<1> QED BY <1>1, <1>2, <1>3, <1>4, <1>5

\* The database as the transaction of an opener sees it.
WorkFollows ==
    /\ Sound(work) /\ Same(work, db)
    /\ db.version <= work.version /\ work.version <= 4
    /\ work = db \/ ~Doomed(db)

\* The invariant of an upgrade: the database is sound and has the history it had, the
\* open transaction follows it, and who was refused had a reason.
UpgradeIsSound ==
    /\ origin \in Databases
    /\ Sound(db) /\ Same(db, origin)
    /\ writer \in Openers \cup {NoOpener}
    /\ opened \in [Openers -> {"no", "yes", "refused"}]
    /\ writer # NoOpener => WorkFollows
    /\ \A p \in Openers : opened[p] = "refused" => db.version > 4 \/ Doomed(db)

\* To have the same history is reflexive and transitive.
LEMMA SameSame ==
    /\ \A d : Same(d, d)
    /\ \A d, e, f : Same(d, e) /\ Same(e, f) => Same(d, f)
BY DEF Same

\* The types of a sound database.
LEMMA SoundVersion ==
    ASSUME NEW d, Sound(d)
    PROVE  d.version \in 0..5 /\ Len(d.events) \in Nat
BY DEF Sound, WellFormed

\* What stops a transaction stops it at its first step.
LEMMA DoomedFromTheStart ==
    ASSUME Sound(db), WorkFollows, Doomed(work)
    PROVE  Doomed(db)
<1>1. SUFFICES ASSUME work # db PROVE Doomed(db)
  OBVIOUS
<1>2. /\ work.version \in 0..5 /\ db.version \in 0..5 /\ Len(work.events) \in Nat
      /\ Len(work.events) = Len(db.events) /\ (Advanced(work) <=> Advanced(db))
      /\ db.version <= work.version
  BY SoundVersion, SameAdvanced DEF WorkFollows, Same
<1>3. db.version = 0 => Len(db.events) = 0
  BY DEF Sound
<1> QED BY <1>2, <1>3 DEF Doomed

\* It holds before anybody opens the database.
LEMMA UpgradeInit == Init => UpgradeIsSound
<1>1. \A d \in Databases : Sound(d)
  BY DatabasesSound
<1> QED BY <1>1, SameSame DEF Init, M!Init, UpgradeIsSound

\* Every step of an opener keeps it.
LEMMA UpgradeStep ==
    ASSUME UpgradeIsSound, NEW p \in Openers,
           \/ M!Begin(p) \/ M!RefuseNewer(p) \/ M!Migrate(p)
           \/ M!Fail(p) \/ M!Finish(p) \/ M!Exit(p)
    PROVE  UpgradeIsSound'
<1> USE DEF UpgradeIsSound
<1>0. NoOpener \notin Openers
  BY StorageAssumption DEF M!MigrationAssumption
<1>1. CASE M!Begin(p)
  <2>1. WorkFollows'
    <3>1. work' = db /\ db' = db /\ db.version <= 4
      BY <1>1 DEF M!Begin, M!Current
    <3>2. Sound(db) /\ Same(db, db) /\ db.version \in 0..5
      BY SameSame, SoundVersion
    <3> QED BY <3>1, <3>2 DEF WorkFollows
  <2> QED BY <1>1, <2>1 DEF M!Begin
<1>2. CASE M!RefuseNewer(p)
  <2>1. writer' = writer /\ db' = db /\ work' = work /\ origin' = origin /\ db.version > 4
        /\ opened' = [opened EXCEPT ![p] = "refused"] /\ writer = NoOpener
    BY <1>2 DEF M!RefuseNewer, M!Current
  <2> QED BY <2>1
<1>3. CASE M!Migrate(p)
  <2>1. /\ writer = p /\ work.version < 4 /\ work' \in M!Migrated(work, KeyOf[p])
        /\ UNCHANGED <<origin, db, writer, opened>>
    BY <1>3 DEF M!Migrate, M!Current
  <2>2. WorkFollows /\ Sound(work)
    BY <1>0, <2>1 DEF WorkFollows
  <2>3. Sound(work') /\ Same(work', work) /\ work'.version = work.version + 1 /\ ~Doomed(work)
    BY <2>1, <2>2, MigrationKeeps
  <2>4. Same(work', db)
    BY <2>2, <2>3, SameSame DEF WorkFollows
  <2>5. db.version \in 0..5 /\ work.version \in 0..5
    BY <2>2, SoundVersion
  <2>6. ~Doomed(db)
    BY <2>2, <2>3 DEF WorkFollows
  <2>7. db.version <= work'.version /\ work'.version <= 4
    BY <2>1, <2>2, <2>3, <2>5 DEF WorkFollows
  <2>8. WorkFollows'
    BY <2>1, <2>3, <2>4, <2>6, <2>7 DEF WorkFollows
  <2> QED BY <2>1, <2>8
<1>4. CASE M!Fail(p)
  <2>1. /\ writer = p /\ work.version < 4 /\ M!Migrated(work, KeyOf[p]) = {}
        /\ writer' = NoOpener /\ opened' = [opened EXCEPT ![p] = "refused"]
        /\ UNCHANGED <<origin, db, work>>
    BY <1>4 DEF M!Fail, M!Current
  <2>2. WorkFollows /\ Sound(work)
    BY <1>0, <2>1 DEF WorkFollows
  <2>3. Doomed(db)
    BY <2>1, <2>2, MigrationKeeps, DoomedFromTheStart
  <2> QED BY <2>1, <2>3
<1>5. CASE M!Finish(p)
  <2>1. /\ writer = p /\ work.version = 4 /\ db' = work /\ writer' = NoOpener
        /\ opened' = [opened EXCEPT ![p] = "yes"] /\ origin' = origin
    BY <1>5 DEF M!Finish, M!Current
  <2>2. WorkFollows
    BY <1>0, <2>1
  <2>3. ~Doomed(db) /\ db.version \in 0..4
    <3>1. work = db => ~Doomed(db)
      BY <2>1 DEF Doomed
    <3>2. db.version \in 0..5
      BY SoundVersion
    <3> QED BY <2>1, <2>2, <3>1, <3>2 DEF WorkFollows
  <2>4. \A q \in Openers : opened[q] # "refused"
    BY <2>3
  <2>5. Sound(db') /\ Same(db', origin')
    BY <2>1, <2>2, SameSame DEF WorkFollows
  <2>6. opened' \in [Openers -> {"no", "yes", "refused"}] /\ \A q \in Openers : opened'[q] # "refused"
    BY <2>1, <2>4
  <2> QED BY <2>1, <2>5, <2>6
<1>6. CASE M!Exit(p)
  <2>1. /\ writer' = IF writer = p THEN NoOpener ELSE writer
        /\ opened' = [opened EXCEPT ![p] = "no"]
        /\ UNCHANGED <<origin, db, work>>
    BY <1>6 DEF M!Exit
  <2>2. WorkFollows => WorkFollows'
    BY <2>1 DEF WorkFollows
  <2> QED BY <2>1, <2>2
<1> QED BY <1>1, <1>2, <1>3, <1>4, <1>5, <1>6

\* The database stays sound and keeps its history through openers that migrate, fail
\* and die, for any number of them (store.py 239-272, 835-1426).
THEOREM UpgradeInvariant == Spec => []UpgradeIsSound
<1>1. UpgradeIsSound /\ [Next]_vars => UpgradeIsSound'
  <2> SUFFICES ASSUME UpgradeIsSound, [Next]_vars PROVE UpgradeIsSound'
    OBVIOUS
  <2>1. [M!Next]_(M!vars)
    BY EachSteps
  <2>2. CASE M!Next
    BY <2>2, UpgradeStep DEF M!Next
  <2>3. CASE UNCHANGED M!vars
    BY <2>3 DEF M!vars, UpgradeIsSound, WorkFollows
  <2> QED BY <2>1, <2>2, <2>3
<1> QED BY <1>1, UpgradeInit, PTL DEF Spec

\* What an upgrade refuses, it refuses for a reason of the database's own: a newer
\* version, a checkpoint that is ahead of an event, or two events of version 1
\* (_backfill_v2_hashes, _apply_v3_migration).
THEOREM RefusalsHaveReasons == Spec => []RefusalsExplained
<1>1. UpgradeIsSound => RefusalsExplained
  <2> SUFFICES ASSUME UpgradeIsSound, NEW p \in Openers, opened[p] = "refused", ~(db.version > 4)
               PROVE  \/ /\ db.version \in 1..2
                         /\ db.events # <<>> /\ M!SequenceOf(M!Latest(db.checkpoints)) > 0
                      \/ db.version = 1 /\ Len(db.events) >= 2
    BY DEF RefusalsExplained, M!RefusalsExplained, M!Current
  <2>1. Doomed(db) /\ Sound(db)
    BY DEF UpgradeIsSound
  <2>2. CASE db.version \in 1..2 /\ Len(db.events) # 0 /\ Advanced(db)
    <3>1. WellFormed(db) /\ db.checkpoints # {} /\ db.events # <<>>
      BY <2>1, <2>2 DEF Sound, WellFormed
    <3> QED BY <2>2, <3>1, AdvancedLatest
  <2> QED BY <2>1, <2>2 DEF Doomed
<1> QED BY <1>1, UpgradeInvariant, PTL

\* A database of the current version can be read with the key that signed it.
LEMMA SoundLoads ==
    ASSUME NEW d, Sound(d), d.version = 4
    PROVE  /\ \A i \in 1..Len(d.events) :
                 d.events[i].columns.hash
                   = M!EventHash(i, d.events[i].command, d.events[i].columns.prev,
                                 d.events[i].columns.prevSigner)
           /\ d.checkpoints # {} => \E p \in Openers : M!Loadable(d, KeyOf[p])
           /\ \A x \in d.index : /\ x.command = d.events[x.sequence].command
                                 /\ x.hash = d.events[x.sequence].columns.hash
<1>0. WellFormed(d)
  BY DEF Sound
<1>1. PICK k : Signed(d, k)
  BY DEF Sound
<1>2. PICK p \in Openers : KeyOf[p] = k
  BY <1>1 DEF Signed
<1>3. PICK ch :
          /\ ch[0] = M!NoHash
          /\ \A i \in 1..Len(d.events) :
                /\ ch[i] = M!EventHash(i, d.events[i].command, ch[i - 1],
                                       IF i = 1 THEN NoKey ELSE k)
                /\ d.events[i].columns = M!Chained(ch, i, k)
                /\ d.events[i].json = M!Chained(ch, i, k)
          /\ \A row \in d.checkpoints :
                /\ row.hash = ch[Len(row.folded)]
                /\ row.signer = (IF Len(row.folded) = 0 THEN NoKey ELSE k)
                /\ row.column = row.signer
          /\ \A x \in d.index : x.hash = ch[x.sequence]
  BY <1>1 DEF Signed
<1>4. \A i \in 1..Len(d.events) :
         /\ d.events[i].columns.prev = ch[i - 1] /\ d.events[i].columns.hash = ch[i]
         /\ d.events[i].columns.prevSigner = (IF i = 1 THEN NoKey ELSE k)
         /\ d.events[i].columns.signer = k
         /\ d.events[i].columns = d.events[i].json
  BY <1>3, ChainedFields
<1>5. \A i \in 1..Len(d.events) :
         d.events[i].columns.hash
           = M!EventHash(i, d.events[i].command, d.events[i].columns.prev,
                         d.events[i].columns.prevSigner)
  <2> TAKE i \in 1..Len(d.events)
  <2>1. ch[i] = M!EventHash(i, d.events[i].command, ch[i - 1], IF i = 1 THEN NoKey ELSE k)
    BY <1>3
  <2> QED BY <1>4, <2>1
<1>6. ASSUME d.checkpoints # {} PROVE M!Loadable(d, k)
  <2>1. PICK row : row = M!Latest(d.checkpoints)
    OBVIOUS
  <2>2. row \in d.checkpoints
    BY <1>0, <1>6, <2>1, LatestRow
  <2>3. IsRow(row) /\ Len(row.folded) \in 0..Len(d.events) /\ Len(d.events) \in Nat
    BY <1>0, <2>2 DEF WellFormed
  <2>4. /\ row.hash = ch[Len(row.folded)] /\ row.column = row.signer
        /\ row.signer = (IF Len(row.folded) = 0 THEN NoKey ELSE k)
        /\ row.material = M!Material(row)
    BY <1>3, <2>2 DEF Sound
  <2>5. row.material = M!Material([row EXCEPT !.signer = row.column])
    <3>1. [row EXCEPT !.signer = row.column] = row
      BY <2>3, <2>4 DEF IsRow
    <3> QED BY <2>4, <3>1
  <2>6. M!SequenceOf(row) = Len(row.folded)
    BY DEF M!SequenceOf
  <2>7. Len(row.folded) > 0 => /\ d.events[Len(row.folded)].columns.hash = row.hash
                               /\ d.events[Len(row.folded)].columns.signer = row.signer
    BY <1>4, <2>3, <2>4
  <2>8. \A i \in (Len(row.folded) + 1)..Len(d.events) : M!Readable(d.events[i], k)
    BY <1>4, <2>3 DEF M!Readable
  <2> QED BY <2>1, <2>4, <2>5, <2>6, <2>7, <2>8 DEF M!Loadable
<1>7. \A x \in d.index : /\ x.command = d.events[x.sequence].command
                         /\ x.hash = d.events[x.sequence].columns.hash
  <2> TAKE x \in d.index
  <2>1. x.sequence \in 1..Len(d.events) /\ x.command = d.events[x.sequence].command
    BY <1>0 DEF WellFormed
  <2>2. x.hash = ch[x.sequence]
    BY <1>3
  <2> QED BY <1>4, <2>1, <2>2
<1> QED BY <1>2, <1>5, <1>6, <1>7

\* Whoever upgrades the database, and wherever an opener dies: the commands,
\* what was folded into checkpoints and the keys are those of the old database,
\* and a database of the current version is whole.
THEOREM HistorySurvivesUpgrades == Spec => []UpgradeKeepsHistory
<1>1. UpgradeIsSound => UpgradeKeepsHistory
  <2> SUFFICES ASSUME UpgradeIsSound PROVE M!UpgradeKeepsHistory
    BY DEF UpgradeKeepsHistory
  <2>1. Sound(db) /\ Same(db, origin) /\ Sound(origin)
    BY DatabasesSound DEF UpgradeIsSound
  <2>2. WellFormed(db) /\ WellFormed(origin)
    BY <2>1 DEF Sound
  <2>3. DOMAIN db.events = 1..Len(db.events) /\ DOMAIN origin.events = 1..Len(origin.events)
    BY <2>2 DEF WellFormed
  <2>4. M!Commands(db.events) = M!Commands(origin.events)
    <3>1. Len(db.events) = Len(origin.events)
          /\ \A i \in 1..Len(db.events) : db.events[i].command = origin.events[i].command
      BY <2>1 DEF Same
    <3> QED BY <2>3, <3>1 DEF M!Commands
  <2>5. /\ {row.folded : row \in db.checkpoints} = {row.folded : row \in origin.checkpoints}
        /\ {x.command : x \in db.index} = {x.command : x \in origin.index}
    BY <2>1 DEF Same
  <2>6. ASSUME db.version = 4
        PROVE  /\ \A i \in DOMAIN db.events :
                     db.events[i].columns.hash
                       = M!EventHash(i, db.events[i].command, db.events[i].columns.prev,
                                     db.events[i].columns.prevSigner)
               /\ db.checkpoints # {} => \E p \in Openers : M!Loadable(db, KeyOf[p])
               /\ \A x \in db.index : /\ x.command = db.events[x.sequence].command
                                      /\ x.hash = db.events[x.sequence].columns.hash
    BY <2>1, <2>3, <2>6, SoundLoads
  <2> QED BY <2>4, <2>5, <2>6 DEF M!UpgradeKeepsHistory, M!Current
<1> QED BY <1>1, UpgradeInvariant, PTL

-----------------------------------------------------------------------------
(* A codec: the arithmetic of bytes, streams of chunks, groups, pages.     *)

\* Quotient and remainder.
LEMMA Division ==
    ASSUME NEW n \in Nat, NEW d \in Nat \ {0}
    PROVE  n \div d \in Nat /\ n % d \in 0..(d - 1) /\ n = d * (n \div d) + (n % d)
<1>1. n % d \in 0..(d - 1) /\ n \div d \in Int
  OBVIOUS
<1>2. n = d * (n \div d) + (n % d)
  OBVIOUS
<1>3. n \div d >= 0
  OBVIOUS
<1> QED BY <1>1, <1>2, <1>3

\* There is only one.
LEMMA DivisionIsUnique ==
    ASSUME NEW n \in Nat, NEW d \in Nat \ {0}, NEW q \in Nat, NEW r \in Nat,
           r < d, n = q * d + r
    PROVE  n \div d = q /\ n % d = r
OBVIOUS

\* A rounded quotient is off by half at most.
LEMMA RoundedIsNear ==
    ASSUME NEW n \in Nat, NEW d \in Nat \ {0}
    PROVE  /\ Q!Rounded(n, d) \in Nat
           /\ 2 * (n - d * Q!Rounded(n, d)) <= d
           /\ 2 * (d * Q!Rounded(n, d) - n) <= d
<1>1. PICK q \in Nat : q = n \div d
  BY Division
<1>2. PICK r \in 0..(d - 1) : r = n % d
  BY Division
<1>3. n = d * q + r
  BY <1>1, <1>2, Division
<1>4. PICK m \in Nat : m = Q!Rounded(n, d)
  BY <1>1 DEF Q!Rounded
<1>5. \/ m = q /\ 2 * r <= d
      \/ m = q + 1 /\ 2 * r >= d
  BY <1>1, <1>2, <1>4 DEF Q!Rounded
<1>6. d * (q + 1) = d * q + d /\ d * q \in Nat
  OBVIOUS
<1> QED BY <1>2, <1>3, <1>4, <1>5, <1>6

\* What comes back for a byte of a group.
Restored(b, min, max) == min + Q!Rounded(Q!Index(b, min, max) * (max - min), Q!MaxIndex)

\* A byte that comes back is close to what it was; at 8 bits it is the same.
Close(out, b, min, max) ==
    /\ codec.width = 8 => out = b
    /\ codec.width = 4 => 30 * (b - out) <= max - min + 15 /\ 30 * (out - b) <= max - min + 15

\* What becomes of a byte between the least and the greatest of its group.
LEMMA ByteReturns ==
    ASSUME codec.width \in {4, 8}, NEW min \in 0..255, NEW max \in 0..255, NEW b \in min..max
    PROVE  /\ Q!Index(b, min, max) \in 0..Q!MaxIndex
           /\ Restored(b, min, max) \in Nat
           /\ Close(Restored(b, min, max), b, min, max)
<1> SUFFICES ASSUME NEW out, out = min + Q!Rounded(Q!Index(b, min, max) * (max - min), Q!MaxIndex)
             PROVE  /\ Q!Index(b, min, max) \in 0..Q!MaxIndex
                    /\ out \in Nat
                    /\ codec.width = 8 => out = b
                    /\ codec.width = 4 => /\ 30 * (b - out) <= max - min + 15
                                          /\ 30 * (out - b) <= max - min + 15
  BY Zenon DEF Restored, Close
<1>1. PICK N \in {15, 255} : N = Q!MaxIndex /\ (codec.width = 4 <=> N = 15)
  BY DEF Q!MaxIndex
<1>2. PICK D \in 0..255 : D = max - min
  OBVIOUS
<1>3. PICK x \in 0..D : x = b - min
  BY <1>2
<1>4. CASE D = 0
  <2>1. Q!Index(b, min, max) = 0 /\ x = 0
    BY <1>2, <1>3, <1>4 DEF Q!Index
  <2>2. Q!Rounded(0, N) = 0
    <3>1. 0 = 0 * N + 0 /\ 0 \div N = 0 /\ 0 % N = 0
      BY <1>1
    <3> QED BY <3>1 DEF Q!Rounded
  <2>3. out = b
    BY <1>1, <1>2, <1>3, <1>4, <2>1, <2>2
  <2> QED BY <1>1, <1>2, <1>4, <2>1, <2>3
<1>5. CASE D # 0
  <2>1. PICK i \in Nat : i = Q!Rounded(x * N, D) /\ i = Q!Index(b, min, max)
    <3>1. x * N \in Nat /\ D \in Nat \ {0}
      BY <1>1, <1>5
    <3>2. Q!Rounded(x * N, D) \in Nat
      BY <3>1, RoundedIsNear
    <3>3. Q!Index(b, min, max) = Q!Rounded(x * N, D)
      BY <1>1, <1>2, <1>3, <1>5 DEF Q!Index
    <3> QED BY <3>2, <3>3
  <2>2. PICK p \in Nat : p = D * i
    OBVIOUS
  <2>3. 2 * (x * N - p) <= D /\ 2 * (p - x * N) <= D
    <3>1. x * N \in Nat /\ D \in Nat \ {0}
      BY <1>1, <1>5
    <3> QED BY <2>1, <2>2, <3>1, RoundedIsNear
  <2>4. PICK y \in Nat : y = Q!Rounded(p, N)
    BY <1>1, RoundedIsNear
  <2>5. 2 * (p - N * y) <= N /\ 2 * (N * y - p) <= N
    <3>1. N \in Nat \ {0}
      BY <1>1
    <3> QED BY <2>4, <3>1, RoundedIsNear
  <2>6. out = min + y
    <3>1. i * D = p
      BY <2>2
    <3> QED BY <1>1, <1>2, <2>1, <2>4, <3>1
  <2>7. i \in 0..N
    <3>1. 2 * p <= 2 * (D * N) + D
      <4>1. x * N <= D * N
        BY <1>1
      <4> QED BY <1>1, <2>3, <4>1
    <3> SUFFICES ASSUME i >= N + 1 PROVE FALSE
      BY <1>1
    <3>2. p >= D * N + D
      BY <1>1, <2>2, <3>1
    <3> QED BY <1>1, <1>5, <3>1, <3>2
  <2>8. CASE N = 15
    BY <1>1, <1>2, <1>3, <2>1, <2>3, <2>5, <2>6, <2>7, <2>8
  <2>9. CASE N = 255
    <3>1. x = y
      <4>1. CASE D = 255
        <5>1. i = x
          BY <2>2, <2>3, <2>9, <4>1
        <5> QED BY <2>2, <2>5, <2>9, <4>1, <5>1
      <4>2. CASE D < 255
        BY <2>3, <2>5, <2>9, <4>2
      <4> QED BY <4>1, <4>2
    <3> QED BY <1>1, <1>2, <1>3, <2>1, <2>6, <2>7, <2>9, <3>1
  <2> QED BY <2>8, <2>9
<1> QED BY <1>4, <1>5

\* One step of the recursion in FlattenSeq.
FlattenStep(parts, flat, n) == IF n = 1 THEN parts[n] ELSE flat[n - 1] \o parts[n]

\* flat[n] is the first n parts, one behind the other.
IsFlat(flat, parts) ==
    flat[1] = parts[1] /\ \A n \in 2..Len(parts) : flat[n] = flat[n - 1] \o parts[n]

\* The recursive definition in FlattenSeq is met.
LEMMA FlattenUnfolds ==
    ASSUME NEW B, NEW parts \in Seq(Seq(B)), Len(parts) # 0
    PROVE  \E flat : IsFlat(flat, parts) /\ Q!FlattenSeq(parts) = flat[Len(parts)]
<1> DEFINE N == Len(parts)
           Parts == Seq(B)
           flat == CHOOSE flat : flat = [n \in 1..N |-> FlattenStep(parts, flat, n)]
           step == [n \in 1..N |-> [x \in Parts |-> x \o parts[n]]]
<1>1. N \in Nat \ {0} /\ \A n \in 1..N : parts[n] \in Parts
  OBVIOUS
<1>2. Q!FlattenSeq(parts) = flat[N]
  BY <1>1 DEF Q!FlattenSeq, FlattenStep
<1>3. \A n \in 1..N : \A x \in Parts : x \o parts[n] \in Parts
  BY <1>1
<1>s. <<>> \in Parts /\ \A x \in Parts : <<>> \o x = x
  OBVIOUS
<1> HIDE DEF Parts, N
<1>4. /\ step \in [1..N -> [Parts -> Parts]]
      /\ \A n \in 1..N : \A x \in Parts : step[n][x] = x \o parts[n]
  BY <1>3
<1> HIDE DEF step
<1>5. PICK f : Recurs(f, Parts, <<>>, N, step)
  BY <1>1, <1>4, <1>s, Recursion
<1>6. f \in [0..N -> Parts] /\ f[0] = <<>> /\ \A n \in 1..N : f[n] = step[n][f[n - 1]]
  BY <1>5 DEF Recurs
<1>7. PICK g : g = [n \in 1..N |-> f[n]]
  OBVIOUS
<1>8. \A n \in 1..N : f[n] = f[n - 1] \o parts[n] /\ n - 1 \in 0..N
  <2> TAKE n \in 1..N
  <2>1. n - 1 \in 0..N
    BY <1>1
  <2>2. f[n - 1] \in Parts
    BY <1>6, <2>1
  <2> QED BY <1>4, <1>6, <2>1, <2>2, Zenon
<1>9. \A n \in 1..N : g[n] = FlattenStep(parts, g, n)
  <2> TAKE n \in 1..N
  <2>1. CASE n = 1
    <3>1. n - 1 = 0
      BY <2>1
    <3>2. f[n] = <<>> \o parts[n]
      BY <1>6, <1>8, <3>1, Zenon
    <3> QED BY <1>1, <1>7, <1>s, <2>1, <3>2 DEF FlattenStep
  <2>2. CASE n # 1
    <3>1. n - 1 \in 1..N
      BY <1>1, <2>2
    <3> QED BY <1>7, <1>8, <2>2, <3>1 DEF FlattenStep
  <2> QED BY <2>1, <2>2
<1>10. g = [n \in 1..N |-> FlattenStep(parts, g, n)]
  BY <1>7, <1>9, Zenon
<1>11. flat = [n \in 1..N |-> FlattenStep(parts, flat, n)]
  BY <1>10, Zenon
<1> HIDE DEF flat
<1>12. \A n \in 1..N : flat[n] = FlattenStep(parts, flat, n)
  BY <1>11, Zenon
<1>13. 1 \in 1..N /\ \A n \in 2..N : n \in 1..N /\ n # 1
  BY <1>1
<1>14. IsFlat(flat, parts)
  BY <1>12, <1>13, Zenon DEF IsFlat, FlattenStep, N
<1> QED BY <1>2, <1>14 DEF N

\* All parts but the last have length size.
AreChunks(parts, B, size) ==
    /\ parts \in Seq(Seq(B)) /\ Len(parts) # 0 /\ size \in Nat
    /\ \A n \in 1..Len(parts) : n < Len(parts) => Len(parts[n]) = size

\* flat is the chunks, each at its place.
AtPlaces(flat, parts, size, n) ==
    /\ Len(flat) = (n - 1) * size + Len(parts[n])
    /\ \A i \in 1..n : \A j \in 1..Len(parts[i]) : flat[(i - 1) * size + j] = parts[i][j]

\* Chunks that are put one behind the other are each at their place.
LEMMA ChunksInPlace ==
    ASSUME NEW B, NEW size, NEW parts, AreChunks(parts, B, size)
    PROVE  Q!FlattenSeq(parts) \in Seq(B) /\ AtPlaces(Q!FlattenSeq(parts), parts, size, Len(parts))
<1>1. PICK N \in Nat \ {0} : N = Len(parts)
  BY DEF AreChunks
<1>2. size \in Nat /\ \A n \in 1..N : parts[n] \in Seq(B) /\ (n < N => Len(parts[n]) = size)
  BY <1>1 DEF AreChunks
<1>3. PICK flat : IsFlat(flat, parts) /\ Q!FlattenSeq(parts) = flat[N]
  BY <1>1, FlattenUnfolds DEF AreChunks
<1> DEFINE Right(n) == flat[n] \in Seq(B) /\ AtPlaces(flat[n], parts, size, n)
           Good == {m \in Nat : m + 1 <= N => Right(m + 1)}
<1>4. 0 \in Good
  <2>1. flat[1] = parts[1] /\ 1 \in 1..N
    BY <1>1, <1>3 DEF IsFlat
  <2>2. Len(parts[1]) \in Nat /\ flat[1] \in Seq(B)
    BY <1>2, <2>1
  <2>3. (1 - 1) * size = 0
    BY <1>2
  <2>4. \A i \in 1..1 : i = 1
    OBVIOUS
  <2>5. AtPlaces(flat[1], parts, size, 1)
    BY <2>1, <2>2, <2>3, <2>4 DEF AtPlaces
  <2> QED BY <2>2, <2>5
<1>5. ASSUME NEW m \in Good PROVE m + 1 \in Good
  <2>0. m \in Nat
    OBVIOUS
  <2>1. PICK n \in Nat : n = m + 1
    BY <2>0
  <2> SUFFICES ASSUME n + 1 <= N PROVE Right(n + 1)
    BY <2>0, <2>1
  <2>2. Right(n) /\ n \in 1..N /\ n + 1 \in 2..N /\ n + 1 \in 1..N /\ n < N /\ n >= 1
    BY <2>0, <2>1
  <2>3. PICK old \in Seq(B) : old = flat[n] /\ AtPlaces(old, parts, size, n)
    BY <2>2
  <2>4. PICK new \in Seq(B) : new = parts[n + 1]
    BY <1>2, <2>2
  <2>5. flat[n + 1] = old \o new
    <3>1. (n + 1) - 1 = n
      BY <2>1
    <3> QED BY <1>1, <1>3, <2>2, <2>3, <2>4, <3>1 DEF IsFlat
  <2>6. PICK all \in Seq(B) : all = old \o new
    <3>1. old \o new \in Seq(B)
      OBVIOUS
    <3> QED BY <3>1
  <2>7. n * size \in Nat /\ (n - 1) * size + size = n * size /\ (n - 1) * size \in Nat
    BY <1>2, <2>2
  <2>8. Len(old) = n * size
    BY <1>2, <2>2, <2>3, <2>7 DEF AtPlaces
  <2>9. /\ Len(all) = Len(old) + Len(new) /\ Len(new) \in Nat /\ Len(old) \in Nat
        /\ \A j \in 1..Len(old) : all[j] = old[j]
        /\ \A j \in 1..Len(new) : all[Len(old) + j] = new[j]
    BY <2>6
  <2>10. \A i \in 1..(n + 1) : \A j \in 1..Len(parts[i]) : all[(i - 1) * size + j] = parts[i][j]
    <3> TAKE i \in 1..(n + 1)
    <3> TAKE j \in 1..Len(parts[i])
    <3>1. CASE i = n + 1
      <4>1. (i - 1) * size = Len(old)
        BY <2>8, <3>1
      <4> QED BY <2>4, <2>9, <3>1, <4>1
    <3>2. CASE i # n + 1
      <4>1. i \in 1..n /\ i \in 1..N /\ i < N
        BY <2>2, <3>2
      <4>2. j \in 1..size
        BY <1>2, <4>1
      <4>3. i * size <= n * size /\ (i - 1) * size + size = i * size /\ (i - 1) * size \in Nat
        BY <1>2, <4>1
      <4>4. (i - 1) * size + j \in 1..Len(old)
        <5>1. PICK p \in Nat : p = (i - 1) * size
          BY <4>3
        <5>2. p + size <= Len(old) /\ Len(old) \in Nat
          BY <2>8, <2>9, <4>3, <5>1
        <5>3. p + j \in 1..Len(old)
          BY <1>2, <4>2, <5>2
        <5> QED BY <5>1, <5>3
      <4> QED BY <2>3, <2>9, <4>1, <4>4 DEF AtPlaces
    <3> QED BY <3>1, <3>2
  <2>11. Len(all) = ((n + 1) - 1) * size + Len(parts[n + 1])
    BY <2>1, <2>4, <2>8, <2>9
  <2>12. AtPlaces(all, parts, size, n + 1)
    BY <2>10, <2>11 DEF AtPlaces
  <2> QED BY <2>5, <2>6, <2>12
<1>6. Good \subseteq Nat
  OBVIOUS
<1> HIDE DEF Good
<1>7. Right(N)
  <2>1. N - 1 \in Nat /\ (N - 1) + 1 = N
    OBVIOUS
  <2>2. N - 1 \in Good
    BY <1>4, <1>5, <1>6, <2>1, Induction
  <2> QED BY <2>1, <2>2 DEF Good
<1> QED BY <1>1, <1>3, <1>7

\* The decoder cuts chunk i out of the stream.
IsCut(flat, parts, size, i) ==
    SubSeq(flat, (i - 1) * size + 1, Q!Smaller(i * size, Len(flat))) = parts[i]

\* What is cut out of the stream is the chunk that was put there.
LEMMA ChunksAreCut ==
    ASSUME NEW B, NEW size \in Nat \ {0}, NEW parts, AreChunks(parts, B, size),
           NEW i \in 1..Len(parts), \A n \in 1..Len(parts) : Len(parts[n]) <= size,
           NEW flat, flat = Q!FlattenSeq(parts)
    PROVE  IsCut(flat, parts, size, i)
<1>1. PICK N \in Nat \ {0} : N = Len(parts)
  BY DEF AreChunks
<1>2. flat \in Seq(B) /\ AtPlaces(flat, parts, size, N)
  BY <1>1, ChunksInPlace
<1>3. PICK part \in Seq(B) : part = parts[i]
  BY <1>1 DEF AreChunks
<1>4. PICK L \in Nat : L = Len(part) /\ L <= size /\ (i < N => L = size)
  <2>1. Len(part) \in Nat /\ Len(part) <= size /\ (i < N => Len(part) = size)
    BY <1>1, <1>3 DEF AreChunks
  <2> QED BY <2>1
<1>5. PICK p \in Nat : p = (i - 1) * size /\ i * size = p + size
  <2>1. (i - 1) * size \in Nat /\ i * size = (i - 1) * size + size
    BY <1>1
  <2> QED BY <2>1
<1>6. p + L <= Len(flat) /\ Len(flat) \in Nat /\ Q!Smaller(p + size, Len(flat)) = p + L
  <2>1. PICK F \in Nat : F = Len(flat)
    BY <1>2
  <2>2. CASE i = N
    <3>1. Len(flat) = p + L
      BY <1>2, <1>3, <1>4, <1>5, <2>2 DEF AtPlaces
    <3> QED BY <1>4, <1>5, <2>1, <3>1 DEF Q!Smaller
  <2>3. CASE i # N
    <3>1. i < N /\ L = size /\ N - 1 \in Nat /\ i <= N - 1
      BY <1>1, <1>4, <2>3
    <3>2. PICK q \in Nat : q = (N - 1) * size
      BY <3>1
    <3>3. p + size <= q
      <4>1. i * size <= (N - 1) * size
        BY <3>1
      <4> QED BY <1>5, <3>2, <4>1
    <3>4. PICK t \in Nat : t = Len(parts[N])
      BY <1>1 DEF AreChunks
    <3>5. F = q + t
      BY <1>2, <2>1, <3>2, <3>4 DEF AtPlaces
    <3>6. p + size <= F /\ Q!Smaller(p + size, F) = p + size
      BY <3>3, <3>5 DEF Q!Smaller
    <3> QED BY <2>1, <3>1, <3>6
  <2> QED BY <2>2, <2>3
<1>7. PICK cut \in Seq(B) : cut = SubSeq(flat, p + 1, p + L)
  <2>1. \A j \in (p + 1)..(p + L) : j \in 1..Len(flat)
    BY <1>6
  <2>2. SubSeq(flat, p + 1, p + L) \in Seq(B)
    BY <1>2, <2>1
  <2> QED BY <2>2
<1>8. Len(cut) = L /\ \A j \in 1..L : cut[j] = flat[p + j]
  <2>1. Len(cut) = (p + L) - (p + 1) + 1
    BY <1>2, <1>6, <1>7
  <2>2. \A j \in 1..L : cut[j] = flat[(p + 1) + j - 1]
    BY <1>2, <1>6, <1>7
  <2>3. \A j \in 1..L : (p + 1) + j - 1 = p + j
    OBVIOUS
  <2> QED BY <2>1, <2>2, <2>3
<1>9. \A j \in 1..L : flat[p + j] = part[j]
  BY <1>1, <1>2, <1>3, <1>4, <1>5 DEF AtPlaces
<1>10. cut = part
  <2>1. cut = [j \in 1..L |-> cut[j]] /\ part = [j \in 1..L |-> part[j]]
    BY <1>4, <1>8
  <2>2. \A j \in 1..L : cut[j] = part[j]
    BY <1>8, <1>9
  <2> QED BY <2>1, <2>2, Zenon
<1> QED BY <1>3, <1>5, <1>6, <1>7, <1>10 DEF IsCut

\* The least and the greatest byte.
LEMMA BytesBetween ==
    ASSUME Q!CodecAssumption, NEW group \in Seq(Bytes), Len(group) # 0
    PROVE  /\ Q!LeastOf(group) \in 0..255 /\ Q!GreatestOf(group) \in 0..255
           /\ \A i \in 1..Len(group) : group[i] \in Q!LeastOf(group)..Q!GreatestOf(group)
<1>1. PICK A : A = Q!ToSet(group)
  OBVIOUS
<1>2. A \subseteq 0..255 /\ A # {} /\ \A i \in 1..Len(group) : group[i] \in A
  <2>1. DOMAIN group = 1..Len(group) /\ 1 \in 1..Len(group)
    OBVIOUS
  <2>2. \A i \in 1..Len(group) : group[i] \in 0..255
    <3>1. \A i \in 1..Len(group) : group[i] \in Bytes
      OBVIOUS
    <3>2. Bytes \subseteq 0..255
      BY DEF Q!CodecAssumption
    <3> QED BY <3>1, <3>2
  <2>3. A = {group[i] : i \in 1..Len(group)}
    BY <1>1, <2>1, Zenon DEF Q!ToSet
  <2>4. A \subseteq 0..255
    <3> SUFFICES ASSUME NEW x \in A PROVE x \in 0..255
      OBVIOUS
    <3>1. PICK i \in 1..Len(group) : x = group[i]
      BY <2>3
    <3> QED BY <2>2, <3>1
  <2>5. \A i \in 1..Len(group) : group[i] \in A
    BY <2>3
  <2>6. A # {}
    BY <2>1, <2>5
  <2> QED BY <2>4, <2>5, <2>6
<1>3. PICK low \in A : \A c \in A : low <= c
  <2>1. A \subseteq Nat
    BY <1>2
  <2> QED BY <1>2, <2>1, Least
<1>4. PICK high \in A : \A c \in A : c <= high
  <2>1. PICK below : below = {255 - b : b \in A}
    OBVIOUS
  <2>2. below \subseteq Nat /\ below # {}
    <3>1. \A b \in A : 255 - b \in Nat
      BY <1>2
    <3> QED BY <1>2, <2>1, <3>1
  <2>3. PICK d \in below : \A e \in below : d <= e
    BY <2>2, Least
  <2>4. PICK b \in A : d = 255 - b
    BY <2>1, <2>3
  <2>5. \A c \in A : 255 - b <= 255 - c
    BY <2>1, <2>3, <2>4
  <2>6. \A c \in A : c <= b
    BY <1>2, <2>5
  <2> QED BY <2>6
<1>5. PICK least : least = Q!LeastOf(group)
  OBVIOUS
<1>6. PICK greatest : greatest = Q!GreatestOf(group)
  OBVIOUS
<1>7. least \in A /\ \A c \in A : least <= c
  BY <1>1, <1>3, <1>5, Zenon DEF Q!LeastOf
<1>8. greatest \in A /\ \A c \in A : c <= greatest
  BY <1>1, <1>4, <1>6, Zenon DEF Q!GreatestOf
<1>9. least \in 0..255 /\ greatest \in 0..255
  BY <1>2, <1>7, <1>8
<1>10. \A i \in 1..Len(group) : group[i] \in least..greatest
  <2>1. \A c \in A : c \in least..greatest
    BY <1>2, <1>7, <1>8
  <2> QED BY <1>2, <2>1
<1> QED BY <1>5, <1>6, <1>9, <1>10

\* How many bytes come back of n.
Back(n) ==
    IF codec.width = 8 THEN n ELSE Q!Smaller(2 * ((n + 1) \div 2), codec.groupSize)

\* What is packed comes back, and an index of padding if there is room for it.
LEMMA PackingReturns ==
    ASSUME Q!CodecAssumption, codec \in Q!Codecs, NEW N, N = Q!MaxIndex,
           NEW indices \in Seq(0..N), Len(indices) <= codec.groupSize
    PROVE  /\ Q!Packed(indices) \in Seq(Nat)
           /\ Len(Q!Packed(indices)) = Q!PackedLength(Len(indices))
           /\ LET back == Q!Unpacked(Q!Packed(indices), codec.groupSize) IN
              /\ back \in Seq(Nat) /\ Len(back) = Back(Len(indices))
              /\ \A i \in 1..Len(indices) : i <= Len(back) /\ back[i] = indices[i]
<1>1. PICK n \in Nat : n = Len(indices)
  OBVIOUS
<1>2. codec.width \in {4, 8} /\ codec.groupSize \in Nat /\ n <= codec.groupSize
  BY <1>1 DEF Q!Codecs, Q!CodecAssumption
<1>3. CASE codec.width = 8
  <2>1. Q!MaxIndex = 255
    BY <1>3 DEF Q!MaxIndex
  <2>2. indices \in Seq(Nat)
    <3>1. \A i \in 1..n : indices[i] \in Nat
      <4>1. \A i \in 1..n : indices[i] \in 0..255
        BY <1>1, <2>1
      <4>2. 0..255 \subseteq Nat
        OBVIOUS
      <4> QED BY <4>1, <4>2, Zenon
    <3>2. indices = [i \in 1..n |-> indices[i]]
      BY <1>1
    <3> QED BY <3>1, <3>2
  <2>3. Q!Packed(indices) = indices /\ Q!Unpacked(indices, codec.groupSize) = indices
    BY <1>3 DEF Q!Packed, Q!Unpacked
  <2> QED BY <1>1, <1>3, <2>2, <2>3 DEF Q!PackedLength, Back
<1>4. CASE codec.width = 4
  <2>1. Q!MaxIndex = 15
    BY <1>4 DEF Q!MaxIndex
  <2>2. \A i \in 1..n : indices[i] \in 0..15
    BY <1>1, <2>1
  <2>3. PICK h \in Nat : h = (n + 1) \div 2 /\ n <= 2 * h /\ 2 * h <= n + 1
    <3>1. (n + 1) \div 2 \in Nat /\ n <= 2 * ((n + 1) \div 2) /\ 2 * ((n + 1) \div 2) <= n + 1
      OBVIOUS
    <3> QED BY <3>1
  <2>4. PICK bytes : bytes = [i \in 1..h |-> 16 * indices[2 * i - 1]
                                             + (IF 2 * i <= n THEN indices[2 * i] ELSE 0)]
    OBVIOUS
  <2>5. Q!Packed(indices) = bytes
    BY <1>1, <1>4, <2>3, <2>4 DEF Q!Packed
  <2>6. ASSUME NEW i \in 1..h
        PROVE  /\ bytes[i] \in Nat /\ bytes[i] \div 16 = indices[2 * i - 1]
               /\ 2 * i <= n => bytes[i] % 16 = indices[2 * i]
    <3>1. 2 * i - 1 \in 1..n /\ (2 * i <= n => 2 * i \in 1..n)
      BY <2>3
    <3>2. PICK a \in 0..15 : a = indices[2 * i - 1]
      BY <2>2, <3>1
    <3>3. PICK b \in 0..15 : b = IF 2 * i <= n THEN indices[2 * i] ELSE 0
      <4>1. (IF 2 * i <= n THEN indices[2 * i] ELSE 0) \in 0..15
        BY <2>2, <3>1
      <4> QED BY <4>1
    <3>4. bytes[i] = 16 * a + b
      BY <2>4, <3>2, <3>3
    <3>5. (16 * a + b) \div 16 = a /\ (16 * a + b) % 16 = b /\ 16 * a + b \in Nat
      OBVIOUS
    <3> QED BY <3>2, <3>3, <3>4, <3>5
  <2>7. bytes \in Seq(Nat) /\ Len(bytes) = h
    <3>1. bytes = [i \in 1..h |-> bytes[i]]
      BY <2>4
    <3> QED BY <2>6, <3>1
  <2>8. PICK m \in Nat : m = Q!Smaller(2 * h, codec.groupSize) /\ n <= m /\ m <= 2 * h
    <3>1. Q!Smaller(2 * h, codec.groupSize) \in Nat /\ n <= Q!Smaller(2 * h, codec.groupSize)
          /\ Q!Smaller(2 * h, codec.groupSize) <= 2 * h
      BY <1>2, <2>3 DEF Q!Smaller
    <3> QED BY <3>1
  <2>9. PICK back : back = [i \in 1..m |-> IF i % 2 = 1 THEN bytes[(i + 1) \div 2] \div 16
                                           ELSE bytes[(i + 1) \div 2] % 16]
    OBVIOUS
  <2>10. Q!Unpacked(bytes, codec.groupSize) = back
    BY <1>4, <2>7, <2>8, <2>9 DEF Q!Unpacked
  <2>11. ASSUME NEW i \in 1..m PROVE back[i] \in Nat /\ (i <= n => back[i] = indices[i])
    <3>1. PICK k \in 1..h : k = (i + 1) \div 2 /\ IF i % 2 = 1 THEN i = 2 * k - 1 ELSE i = 2 * k
      <4>1. /\ (i + 1) \div 2 \in 1..h
            /\ IF i % 2 = 1 THEN i = 2 * ((i + 1) \div 2) - 1 ELSE i = 2 * ((i + 1) \div 2)
        BY <2>8
      <4> QED BY <4>1
    <3>2. back[i] = IF i % 2 = 1 THEN bytes[k] \div 16 ELSE bytes[k] % 16
      BY <2>9, <3>1
    <3>3. bytes[k] \div 16 \in Nat /\ bytes[k] % 16 \in Nat
      BY <2>6
    <3> QED BY <2>6, <3>1, <3>2, <3>3
  <2>12. back \in Seq(Nat) /\ Len(back) = m
    <3>1. back = [i \in 1..m |-> back[i]]
      BY <2>9
    <3> QED BY <2>11, <3>1
  <2>13. Back(n) = m /\ Q!PackedLength(n) = h
    BY <1>4, <2>3, <2>8 DEF Back, Q!PackedLength
  <2>14. \A i \in 1..n : i \in 1..m /\ i <= Len(back) /\ back[i] = indices[i]
    BY <2>8, <2>11, <2>12
  <2> QED BY <1>1, <2>5, <2>7, <2>10, <2>12, <2>13, <2>14
<1> QED BY <1>2, <1>3, <1>4

\* A group on its way through the codec.
LEMMA GroupReturns ==
    ASSUME Q!CodecAssumption, codec \in Q!Codecs,
           NEW group \in Seq(Bytes), Len(group) # 0, Len(group) <= codec.groupSize
    PROVE  /\ Q!Encoded(group) \in Seq(Nat)
           /\ Len(Q!Encoded(group)) = 2 + Q!PackedLength(Len(group))
           /\ Q!Decoded(Q!Encoded(group)) \in Seq(Nat)
           /\ Len(Q!Decoded(Q!Encoded(group))) = Back(Len(group))
           /\ \A i \in 1..Len(group) :
                 /\ i <= Len(Q!Decoded(Q!Encoded(group)))
                 /\ Close(Q!Decoded(Q!Encoded(group))[i], group[i],
                          Q!LeastOf(group), Q!GreatestOf(group))
<1>1. PICK n \in Nat : n = Len(group) /\ DOMAIN group = 1..n
  OBVIOUS
<1>m. PICK min \in 0..255, max \in 0..255 : min = Q!LeastOf(group) /\ max = Q!GreatestOf(group)
  BY BytesBetween
<1>2. \A i \in 1..n : group[i] \in min..max
  BY <1>1, <1>m, BytesBetween
<1>3. codec.width \in {4, 8}
  BY DEF Q!Codecs
<1>4. PICK N \in {15, 255} : N = Q!MaxIndex
  BY DEF Q!MaxIndex
<1>5. PICK indices : indices = [i \in 1..n |-> Q!Index(group[i], min, max)]
  OBVIOUS
<1>6. \A i \in 1..n : indices[i] \in 0..N
  <2> TAKE i \in 1..n
  <2>1. PICK b \in min..max : b = group[i]
    BY <1>2
  <2>3. Q!Index(b, min, max) \in 0..Q!MaxIndex
    BY <1>3, ByteReturns
  <2> QED BY <1>4, <1>5, <2>1, <2>3
<1>7. indices \in Seq(0..N) /\ Len(indices) = n
  BY <1>5, <1>6
<1>8. PICK packed \in Seq(Nat) : packed = Q!Packed(indices) /\ Len(packed) = Q!PackedLength(n)
  <2>1. Q!Packed(indices) \in Seq(Nat) /\ Len(Q!Packed(indices)) = Q!PackedLength(n)
    BY <1>1, <1>4, <1>7, PackingReturns
  <2> QED BY <2>1
<1>9. PICK back \in Seq(Nat) :
         /\ back = Q!Unpacked(packed, codec.groupSize) /\ Len(back) = Back(n)
         /\ \A i \in 1..n : i <= Len(back) /\ back[i] = indices[i]
  <2>1. /\ Q!Unpacked(packed, codec.groupSize) \in Seq(Nat)
        /\ Len(Q!Unpacked(packed, codec.groupSize)) = Back(n)
        /\ \A i \in 1..n : /\ i <= Len(Q!Unpacked(packed, codec.groupSize))
                           /\ Q!Unpacked(packed, codec.groupSize)[i] = indices[i]
    BY <1>1, <1>4, <1>7, <1>8, PackingReturns
  <2> QED BY <2>1
<1>10. PICK e \in Seq(Nat) : e = <<min, max>> \o packed
  <2>1. <<min, max>> \in Seq(Nat)
    <3>1. min \in Nat /\ max \in Nat
      BY <1>2
    <3> QED BY <3>1
  <2>2. <<min, max>> \o packed \in Seq(Nat)
    BY <2>1
  <2> QED BY <2>2
<1>11. e = Q!Encoded(group)
  <2>1. Q!Encoded(group) =
           <<Q!LeastOf(group), Q!GreatestOf(group)>>
              \o Q!Packed([i \in DOMAIN group |->
                             Q!Index(group[i], Q!LeastOf(group), Q!GreatestOf(group))])
    BY DEF Q!Encoded
  <2>2. indices = [i \in DOMAIN group |-> Q!Index(group[i], Q!LeastOf(group), Q!GreatestOf(group))]
    BY <1>1, <1>5, <1>m
  <2> QED BY <1>m, <1>8, <1>10, <2>1, <2>2
<1>12. /\ Len(e) = 2 + Len(packed) /\ e[1] = min /\ e[2] = max
       /\ \A i \in 1..Len(packed) : e[2 + i] = packed[i]
  BY <1>10
<1>13. SubSeq(e, 3, Len(e)) = packed
  <2>1. PICK m \in Nat : m = Len(packed)
    OBVIOUS
  <2>2. SubSeq(e, 3, 2 + m) = [i \in 1..m |-> e[2 + i]]
    <3>1. (2 + m) - 3 + 1 = m /\ \A i \in 1..m : 3 + i - 1 = 2 + i
      OBVIOUS
    <3> QED BY <3>1, <2>1, <1>12
  <2>3. packed = [i \in 1..m |-> packed[i]]
    BY <2>1
  <2>4. \A i \in 1..m : e[2 + i] = packed[i]
    BY <1>12, <2>1
  <2> QED BY <1>12, <2>1, <2>2, <2>3, <2>4
<1>14. PICK out : out = [i \in 1..Len(back) |-> min + Q!Rounded(back[i] * (max - min), N)]
  OBVIOUS
<1>15. out = Q!Decoded(e)
  <2>1. DOMAIN back = 1..Len(back)
    OBVIOUS
  <2> QED BY <1>4, <1>9, <1>12, <1>13, <1>14, <2>1, Zenon DEF Q!Decoded
<1>16. CASE n # 0 /\ 1 \in 1..n
  <2>1. PICK D \in Nat : D = max - min
    <3>1. PICK b \in min..max : b = group[1]
      BY <1>2, <1>16
    <3>2. max - min \in Nat
      BY <1>2, <3>1
    <3> QED BY <3>2
  <2>2. \A i \in 1..Len(back) : out[i] \in Nat
    <3> TAKE i \in 1..Len(back)
    <3>1. back[i] * D \in Nat /\ N \in Nat \ {0}
      BY <1>4
    <3>2. Q!Rounded(back[i] * D, N) \in Nat
      BY <3>1, RoundedIsNear
    <3>3. out[i] = min + Q!Rounded(back[i] * D, N)
      BY <1>14, <2>1
    <3>4. min \in Nat
      BY <1>2
    <3> QED BY <3>2, <3>3, <3>4
  <2>3. out \in Seq(Nat) /\ Len(out) = Back(n)
    <3>1. PICK m \in Nat : m = Len(back)
      OBVIOUS
    <3>2. out = [i \in 1..m |-> out[i]]
      BY <1>14, <3>1
    <3>3. out \in Seq(Nat) /\ Len(out) = m
      BY <2>2, <3>1, <3>2
    <3> QED BY <1>9, <3>1, <3>3
  <2>4. \A i \in 1..n : i <= Len(out) /\ Close(out[i], group[i], min, max)
    <3> TAKE i \in 1..n
    <3>1. i \in 1..Len(back) /\ back[i] = indices[i] /\ i <= Len(out)
      BY <1>9, <2>3
    <3>2. group[i] \in min..max
      BY <1>2
    <3>3. out[i] = Restored(group[i], min, max)
      BY <1>4, <1>5, <1>14, <3>1 DEF Restored
    <3>4. Close(Restored(group[i], min, max), group[i], min, max)
      <4>1. PICK b \in min..max : b = group[i]
        BY <3>2
      <4>2. Close(Restored(b, min, max), b, min, max)
        BY <1>3, ByteReturns
      <4> QED BY <4>1, <4>2
    <3> QED BY <3>1, <3>3, <3>4
  <2>5. Len(e) = 2 + Q!PackedLength(n)
    BY <1>8, <1>12
  <2> QED BY <1>1, <1>m, <1>11, <1>15, <2>3, <2>4, <2>5
<1> QED BY <1>1, <1>16

\* Group i of k is full, or the last, and has the bytes from its place on.
IsGroup(data, g, k, i) ==
    /\ Q!Group(data, i) \in Seq(Bytes)
    /\ Len(Q!Group(data, i)) = IF i < k THEN g ELSE Len(data) - (k - 1) * g
    /\ \A j \in 1..Len(Q!Group(data, i)) : Q!Group(data, i)[j] = data[(i - 1) * g + j]

\* How a page is split: all groups but the last are full.
LEMMA PageIsSplit ==
    ASSUME Q!CodecAssumption, codec \in Q!Codecs, NEW data \in Seq(Bytes), Len(data) # 0,
           NEW g, g = codec.groupSize, NEW k, k = Q!GroupCount(Len(data))
    PROVE  /\ g \in Nat \ {0, 1} /\ k \in Nat \ {0}
           /\ (k - 1) * g \in Nat /\ (k - 1) * g < Len(data) /\ Len(data) <= (k - 1) * g + g
           /\ \A i \in 1..k : IsGroup(data, g, k, i)
<1>1. PICK n \in Nat \ {0} : n = Len(data)
  OBVIOUS
<1>2. g \in Nat \ {0, 1}
  BY DEF Q!Codecs, Q!CodecAssumption
<1>3. PICK r \in 0..(g - 1) : n + g - 1 = g * k + r /\ k \in Nat
  <2>1. PICK t \in Nat : t = n + g - 1
    <3>1. n + g - 1 \in Nat
      BY <1>2
    <3> QED BY <3>1
  <2>2. k = t \div g
    BY <1>1, <2>1 DEF Q!GroupCount
  <2>3. k \in Nat /\ t % g \in 0..(g - 1) /\ t = g * k + (t % g)
    BY <1>2, <2>2, Division
  <2> QED BY <2>1, <2>3
<1>4. k # 0
  BY <1>1, <1>2, <1>3
<1>5. PICK p \in Nat : p = (k - 1) * g /\ g * k = p + g
  <2>1. PICK m \in Nat : m = k - 1 /\ k = m + 1
    BY <1>3, <1>4
  <2>2. m * g \in Nat /\ g * (m + 1) = m * g + g
    BY <1>2
  <2> QED BY <2>1, <2>2
<1>6. p < n /\ n <= p + g
  BY <1>1, <1>2, <1>3, <1>5
<1>7. ASSUME NEW i \in 1..k
      PROVE  /\ Q!Group(data, i) \in Seq(Bytes)
             /\ Len(Q!Group(data, i)) = IF i < k THEN g ELSE n - p
             /\ \A j \in 1..Len(Q!Group(data, i)) : Q!Group(data, i)[j] = data[(i - 1) * g + j]
  <2>1. PICK q \in Nat : q = (i - 1) * g /\ i * g = q + g
    <3>1. PICK m \in Nat : m = i - 1 /\ i = m + 1
      BY <1>3
    <3>2. m * g \in Nat /\ (m + 1) * g = m * g + g
      BY <1>2
    <3> QED BY <3>1, <3>2
  <2>2. PICK L \in Nat : L = IF i < k THEN g ELSE n - p
    <3>1. (IF i < k THEN g ELSE n - p) \in Nat
      BY <1>2, <1>6
    <3> QED BY <3>1
  <2>3. Q!Smaller(q + g, n) = q + L /\ q + L <= n
    <3>1. CASE i < k
      <4>1. q + g <= p
        <5>1. i * g <= (k - 1) * g
          <6>1. i <= k - 1 /\ k - 1 \in Nat
            BY <1>3, <1>4, <3>1
          <6> QED BY <1>2, <6>1
        <5> QED BY <1>5, <2>1, <5>1
      <4> QED BY <1>2, <1>6, <2>2, <3>1, <4>1 DEF Q!Smaller
    <3>2. CASE ~ (i < k)
      <4>1. i = k
        BY <1>3, <3>2
      <4>2. q = p
        BY <1>5, <2>1, <4>1
      <4> QED BY <1>2, <1>6, <2>2, <3>2, <4>2 DEF Q!Smaller
    <3> QED BY <3>1, <3>2
  <2>4. Q!Group(data, i) = SubSeq(data, q + 1, q + L)
    BY <1>1, <2>1, <2>3 DEF Q!Group
  <2>5. PICK part \in Seq(Bytes) : part = SubSeq(data, q + 1, q + L)
    <3>1. \A j \in (q + 1)..(q + L) : j \in 1..Len(data)
      BY <1>1, <2>3
    <3>2. SubSeq(data, q + 1, q + L) \in Seq(Bytes)
      BY <3>1
    <3> QED BY <3>2
  <2>6. Len(part) = L /\ \A j \in 1..L : part[j] = data[q + j]
    <3>1. Len(part) = (q + L) - (q + 1) + 1
      BY <1>1, <2>3, <2>5
    <3>2. \A j \in 1..L : part[j] = data[(q + 1) + j - 1]
      BY <1>1, <2>3, <2>5
    <3>3. \A j \in 1..L : (q + 1) + j - 1 = q + j
      OBVIOUS
    <3> QED BY <3>1, <3>2, <3>3
  <2> QED BY <2>1, <2>2, <2>4, <2>5, <2>6
<1>8. \A i \in 1..k : IsGroup(data, g, k, i)
  BY <1>1, <1>5, <1>7 DEF IsGroup
<1> QED BY <1>1, <1>2, <1>3, <1>4, <1>5, <1>6, <1>8

\* Byte p is byte j of group i.
HasPlace(p, g, k) ==
    \E i \in 1..k, j \in 1..g : p = (i - 1) * g + j /\ i = (p - 1) \div g + 1

\* Every byte has its place.
LEMMA ByteHasPlace ==
    ASSUME NEW g \in Nat \ {0}, NEW k \in Nat \ {0}, NEW n \in Nat, n <= (k - 1) * g + g,
           NEW p \in 1..n
    PROVE  HasPlace(p, g, k)
<1>1. PICK t \in Nat : t = p - 1
  <2>1. p - 1 \in Nat
    OBVIOUS
  <2> QED BY <2>1
<1>2. PICK q \in Nat : q = t \div g
  BY Division
<1>3. PICK r \in 0..(g - 1) : r = t % g
  BY Division
<1>4. t = g * q + r
  BY <1>2, <1>3, Division
<1>5. q + 1 \in 1..k
  <2> SUFFICES ASSUME q >= k PROVE FALSE
    OBVIOUS
  <2>1. PICK m \in Nat : k = m + 1 /\ m = k - 1
    OBVIOUS
  <2>2. m * g + g <= q * g /\ q * g = g * q
    BY <2>1
  <2> QED BY <1>1, <1>4, <2>1, <2>2
<1>6. r + 1 \in 1..g /\ ((q + 1) - 1) * g = g * q
  OBVIOUS
<1>7. p = ((q + 1) - 1) * g + (r + 1) /\ q + 1 = (p - 1) \div g + 1
  BY <1>1, <1>2, <1>4, <1>6
<1> QED BY <1>5, <1>6, <1>7 DEF HasPlace

\* How many bytes come back of n bytes, which are q full groups and L more.
ComesBack(q, g, L, n) ==
    /\ Back(g) = g /\ Back(L) \in Nat
    /\ codec.width = 8 => q * g + Back(L) = n
    /\ codec.width = 4 => q * g + Back(L) = n + ((n % g) % 2)
    /\ Q!PackedLength(L) <= Q!PackedLength(g) /\ Q!PackedLength(g) \in Nat

\* All of them, and padding if the last group is short and odd.
LEMMA BytesBack ==
    ASSUME codec.width \in {4, 8}, NEW g \in Nat \ {0, 1}, g = codec.groupSize,
           NEW q \in Nat, NEW L \in 1..g, NEW n \in Nat, n = q * g + L
    PROVE  ComesBack(q, g, L, n)
<1> USE DEF ComesBack
<1>1. PICK p \in Nat : p = q * g
  <2>1. q * g \in Nat
    OBVIOUS
  <2> QED BY <2>1
<1>2. CASE codec.width = 8
  BY <1>1, <1>2 DEF Back, Q!PackedLength
<1>3. CASE codec.width = 4
  <2>1. Back(g) = g /\ Q!PackedLength(L) <= Q!PackedLength(g) /\ Q!PackedLength(g) \in Nat
    BY <1>3 DEF Back, Q!PackedLength, Q!Smaller
  <2>2. CASE L = g
    <3>1. n = (q + 1) * g + 0 /\ n \in Nat
      BY <1>1, <2>2
    <3>2. n % g = 0
      BY <3>1, DivisionIsUnique
    <3> QED BY <1>1, <1>3, <2>1, <2>2, <3>2
  <2>3. CASE L # g
    <3>1. L < g /\ n \in Nat
      BY <1>1, <2>3
    <3>2. n % g = L
      BY <3>1, DivisionIsUnique
    <3>3. Back(L) = L + (L % 2)
      BY <1>3, <3>1 DEF Back, Q!Smaller
    <3>4. PICK odd \in Nat : odd = L % 2
      OBVIOUS
    <3>5. p + Back(L) = n + ((n % g) % 2) /\ Back(L) \in Nat
      <4>1. n = p + L /\ (n % g) % 2 = odd /\ Back(L) = L + odd
        BY <1>1, <3>2, <3>3, <3>4
      <4> QED BY <4>1
    <3> QED BY <1>1, <1>3, <2>1, <3>5
  <2> QED BY <2>2, <2>3
<1> QED BY <1>2, <1>3

\* A page on its way through the codec.
LEMMA PageReturns ==
    ASSUME Q!CodecAssumption, codec \in Q!Codecs, NEW data \in Seq(Bytes), Len(data) # 0,
           NEW n \in Nat, n = Len(data),
           NEW out, out = Q!Decompress(Q!Compress(data), Q!GroupCount(n))
    PROVE  /\ codec.width = 8 => out = data
           /\ codec.width = 4 =>
                 /\ Len(out) = n + ((n % codec.groupSize) % 2)
                 /\ \A p \in 1..n :
                       LET group == Q!Group(data, (p - 1) \div codec.groupSize + 1)
                       IN Close(out[p], data[p], Q!LeastOf(group), Q!GreatestOf(group))
<1>1. PICK g \in Nat \ {0, 1} : g = codec.groupSize
  BY DEF Q!Codecs, Q!CodecAssumption
<1>2. PICK k \in Nat \ {0} : k = Q!GroupCount(n)
  BY PageIsSplit
<1>3. n \in Nat /\ codec.width \in {4, 8}
  BY DEF Q!Codecs
<1>4. PICK q \in Nat : q = k - 1
  OBVIOUS
<1>5. PICK L \in 1..g : L = n - q * g
  <2>1. q * g \in Nat /\ q * g < n /\ n <= q * g + g
    BY <1>1, <1>2, <1>4, PageIsSplit
  <2>2. n - q * g \in 1..g
    BY <1>3, <2>1
  <2> QED BY <2>2
<1>6. n = q * g + L
  <2>1. q * g \in Nat
    OBVIOUS
  <2> QED BY <1>3, <1>5, <2>1
<1>7. ComesBack(q, g, L, n)
  BY <1>1, <1>3, <1>6, BytesBack
<1> DEFINE group(i) == Q!Group(data, i)
<1>8. ASSUME NEW i \in 1..k
      PROVE  /\ group(i) \in Seq(Bytes)
             /\ i < k => Len(group(i)) = g
             /\ i = k => Len(group(i)) = L
             /\ \A j \in 1..Len(group(i)) : group(i)[j] = data[(i - 1) * g + j]
  <2>1. /\ Q!Group(data, i) \in Seq(Bytes)
        /\ Len(Q!Group(data, i)) = IF i < k THEN g ELSE Len(data) - (k - 1) * g
        /\ \A j \in 1..Len(Q!Group(data, i)) : Q!Group(data, i)[j] = data[(i - 1) * g + j]
    <3>1. IsGroup(data, g, k, i)
      BY <1>1, <1>2, PageIsSplit
    <3> QED BY <3>1, Zenon DEF IsGroup
  <2>2. L = Len(data) - (k - 1) * g
    BY <1>4, <1>5
  <2>3. ~ (k < k)
    OBVIOUS
  <2>4. i < k => Len(Q!Group(data, i)) = g
    BY <2>1, Zenon
  <2>5. i = k => Len(Q!Group(data, i)) = L
    BY <2>1, <2>2, <2>3, Zenon
  <2> QED BY <2>1, <2>4, <2>5, Zenon
<1> HIDE DEF group
<1>9. PICK parts : parts = [i \in 1..k |-> Q!Encoded(group(i))]
  OBVIOUS
<1>10. PICK outs : outs = [i \in 1..k |-> Q!Decoded(parts[i])]
  OBVIOUS
<1>11. ASSUME NEW i \in 1..k
       PROVE  /\ parts[i] \in Seq(Nat) /\ outs[i] \in Seq(Nat)
              /\ i < k => Len(parts[i]) = 2 + Q!PackedLength(g) /\ Len(outs[i]) = Back(g)
              /\ i = k => Len(parts[i]) = 2 + Q!PackedLength(L) /\ Len(outs[i]) = Back(L)
              /\ \A j \in 1..Len(group(i)) :
                    /\ j <= Len(outs[i])
                    /\ Close(outs[i][j], group(i)[j], Q!LeastOf(group(i)), Q!GreatestOf(group(i)))
  <2>1. PICK s \in Seq(Bytes) : s = group(i)
    BY <1>8
  <2>2. (i < k => Len(s) = g) /\ (i = k => Len(s) = L) /\ (i < k \/ i = k)
    BY <1>8, <2>1
  <2>3. Len(s) # 0 /\ Len(s) <= codec.groupSize
    BY <1>1, <2>2
  <2>4. parts[i] = Q!Encoded(s) /\ outs[i] = Q!Decoded(Q!Encoded(s))
    BY <1>9, <1>10, <2>1
  <2>5. /\ parts[i] \in Seq(Nat) /\ outs[i] \in Seq(Nat)
        /\ Len(parts[i]) = 2 + Q!PackedLength(Len(s)) /\ Len(outs[i]) = Back(Len(s))
        /\ \A j \in 1..Len(s) : /\ j <= Len(outs[i])
                                /\ Close(outs[i][j], s[j], Q!LeastOf(s), Q!GreatestOf(s))
    BY <2>3, <2>4, GroupReturns
  <2> QED BY <2>1, <2>2, <2>5
<1>12. PICK size \in Nat \ {0} : size = 2 + Q!PackedLength(g)
  <2>1. 2 + Q!PackedLength(g) \in Nat \ {0}
    BY <1>7 DEF ComesBack
  <2> QED BY <2>1
<1>13. Len(parts) = k /\ parts \in Seq(Seq(Nat)) /\ Len(outs) = k /\ outs \in Seq(Seq(Nat))
  <2>1. parts = [i \in 1..k |-> parts[i]] /\ outs = [i \in 1..k |-> outs[i]]
    BY <1>9, <1>10, Zenon
  <2>2. PICK Parts : Parts = Seq(Nat)
    OBVIOUS
  <2>3. (\A i \in 1..k : parts[i] \in Parts) /\ (\A i \in 1..k : outs[i] \in Parts)
    BY <1>11, <2>2
  <2>4. parts \in Seq(Parts) /\ Len(parts) = k
    BY <2>1, <2>3
  <2>5. outs \in Seq(Parts) /\ Len(outs) = k
    BY <2>1, <2>3
  <2> QED BY <2>2, <2>4, <2>5
<1>14. AreChunks(parts, Nat, size) /\ \A i \in 1..Len(parts) : Len(parts[i]) <= size
  <2>1. ASSUME NEW i \in 1..k PROVE (i < k => Len(parts[i]) = size) /\ Len(parts[i]) <= size
    <3>1. PICK a \in Nat : a = Q!PackedLength(g)
      BY <1>7 DEF ComesBack
    <3>2. PICK b \in Nat : b = Len(parts[i])
      BY <1>11
    <3>3. CASE i < k
      BY <1>11, <1>12, <3>1, <3>2, <3>3
    <3>4. CASE i = k
      <4>1. Q!PackedLength(L) <= a /\ b = 2 + Q!PackedLength(L)
        BY <1>7, <1>11, <3>1, <3>2, <3>4 DEF ComesBack
      <4>2. Q!PackedLength(L) \in Nat
        BY DEF Q!PackedLength
      <4> QED BY <1>12, <3>1, <3>2, <3>4, <4>1, <4>2
    <3> QED BY <3>3, <3>4
  <2> QED BY <1>13, <2>1 DEF AreChunks
<1>15. AreChunks(outs, Nat, g)
  <2>1. \A i \in 1..k : i < k => Len(outs[i]) = g
    BY <1>7, <1>11 DEF ComesBack
  <2> QED BY <1>13, <2>1 DEF AreChunks
<1>16. PICK flat : flat = Q!FlattenSeq(parts)
  OBVIOUS
<1>17. Q!Compress(data) = flat
  <2>1. Q!Compress(data) = Q!FlattenSeq([i \in 1..k |-> Q!Encoded(group(i))])
    BY <1>2, Zenon DEF Q!Compress, group
  <2> QED BY <1>9, <1>16, <2>1
<1>18. ASSUME NEW i \in 1..k
       PROVE  SubSeq(flat, (i - 1) * size + 1, Q!Smaller(i * size, Len(flat))) = parts[i]
  <2>1. IsCut(flat, parts, size, i)
    BY <1>13, <1>14, <1>16, ChunksAreCut
  <2> QED BY <2>1, Zenon DEF IsCut
<1>19. out = Q!FlattenSeq(outs)
  <2>1. out = Q!FlattenSeq([i \in 1..k |->
                 Q!Decoded(SubSeq(flat, (i - 1) * size + 1, Q!Smaller(i * size, Len(flat))))])
    BY <1>1, <1>2, <1>12, <1>17, Zenon DEF Q!Decompress
  <2>2. outs = [i \in 1..k |->
                 Q!Decoded(SubSeq(flat, (i - 1) * size + 1, Q!Smaller(i * size, Len(flat))))]
    BY <1>10, <1>18, Zenon
  <2> QED BY <2>1, <2>2
<1>20. out \in Seq(Nat) /\ AtPlaces(out, outs, g, k)
  BY <1>13, <1>15, <1>19, ChunksInPlace
<1>21. Len(out) = q * g + Back(L)
  <2>1. Len(outs[k]) = Back(L)
    <3>1. k \in 1..k
      OBVIOUS
    <3> QED BY <1>11, <3>1
  <2> QED BY <1>4, <1>20, <2>1, Zenon DEF AtPlaces
<1>22. ASSUME NEW p \in 1..n
       PROVE  LET s == Q!Group(data, (p - 1) \div g + 1)
              IN Close(out[p], data[p], Q!LeastOf(s), Q!GreatestOf(s))
  <2>1. PICK i \in 1..k, j \in 1..g : p = (i - 1) * g + j /\ i = (p - 1) \div g + 1
    <3>1. n <= (k - 1) * g + g
      BY <1>4, <1>5, <1>6
    <3>2. HasPlace(p, g, k)
      BY <1>3, <3>1, ByteHasPlace
    <3> QED BY <3>2 DEF HasPlace
  <2>2. j \in 1..Len(group(i))
    <3>1. CASE i < k
      BY <1>8, <3>1
    <3>2. CASE i = k
      <4>1. i - 1 = q
        BY <1>4, <3>2
      <4>2. PICK m \in Nat : m = q * g
        <5>1. q * g \in Nat
          OBVIOUS
        <5> QED BY <5>1
      <4>3. j <= L
        BY <1>6, <2>1, <4>1, <4>2
      <4> QED BY <1>8, <3>2, <4>3
    <3> QED BY <3>1, <3>2
  <2>3. data[p] = group(i)[j]
    BY <1>8, <2>1, <2>2
  <2>4. /\ j <= Len(outs[i])
        /\ Close(outs[i][j], group(i)[j], Q!LeastOf(group(i)), Q!GreatestOf(group(i)))
    BY <1>11, <2>2
  <2>5. out[p] = outs[i][j]
    <3>1. j \in 1..Len(outs[i])
      BY <1>11, <2>4
    <3> QED BY <1>20, <2>1, <3>1 DEF AtPlaces
  <2> QED BY <2>1, <2>3, <2>4, <2>5 DEF group
<1>23. CASE codec.width = 8
  <2>1. Len(out) = Len(data)
    BY <1>7, <1>21, <1>23 DEF ComesBack
  <2>2. \A p \in 1..n : out[p] = data[p]
    BY <1>22, <1>23 DEF Close
  <2>3. out = data
    <3>1. out = [p \in 1..n |-> out[p]] /\ data = [p \in 1..n |-> data[p]]
      BY <1>20, <2>1
    <3> QED BY <2>2, <3>1, Zenon
  <2> QED BY <1>23, <2>3
<1>24. CASE codec.width = 4
  BY <1>1, <1>7, <1>21, <1>22, <1>24 DEF ComesBack
<1> QED BY <1>3, <1>23, <1>24

\* A page grows by bytes, up to the bound.
LEMMA CodecStep ==
    ASSUME Q!CodecAssumption, Q!TypeOK, [Q!Next]_(Q!vars)
    PROVE  Q!TypeOK'
<1>1. page \in Seq(Bytes) /\ Len(page) <= MaxLength /\ MaxLength \in Nat /\ codec \in Q!Codecs
  BY DEF Q!TypeOK, Q!CodecAssumption
<1>2. CASE Len(page) < MaxLength /\ \E b \in Bytes : page' = Append(page, b) /\ UNCHANGED codec
  <2>1. PICK b \in Bytes : page' = Append(page, b)
    BY <1>2
  <2>2. page' \in Seq(Bytes) /\ Len(page') <= MaxLength
    BY <1>1, <1>2, <2>1
  <2> QED BY <1>1, <1>2, <2>2 DEF Q!TypeOK, Q!Codecs
<1>3. CASE page' = <<>> /\ UNCHANGED codec
  BY <1>1, <1>3 DEF Q!TypeOK, Q!Codecs
<1>4. CASE UNCHANGED Q!vars
  BY <1>1, <1>4 DEF Q!vars, Q!TypeOK, Q!Codecs
<1> QED BY <1>2, <1>3, <1>4 DEF Q!Next

\* A codec and a page keep their types.
LEMMA CodecTypes == Spec => []Q!TypeOK
<1>1. Init => Q!TypeOK
  <2>1. StorageAssumption => MaxLength \in Nat
    BY DEF StorageAssumption, Q!CodecAssumption
  <2> QED BY <2>1, StorageAssumption, EachStarts DEF Q!Init, Q!TypeOK
<1>2. Q!TypeOK /\ [Next]_vars => Q!TypeOK'
  BY CodecStep, EachSteps, StorageAssumption
<1> QED BY <1>1, <1>2, PTL DEF Spec

\* For bytes, pages and group sizes of any number: what a page loses on its way
\* through the codec (compress, decompress).
THEOREM PagesReturn == Spec => []RoundTrip
<1>1. Q!TypeOK => RoundTrip
  <2> SUFFICES ASSUME Q!TypeOK PROVE Q!RoundTrip
    BY DEF RoundTrip
  <2>1. Q!CodecAssumption /\ codec \in Q!Codecs /\ page \in Seq(Bytes) /\ codec.width \in {4, 8}
    BY StorageAssumption DEF Q!TypeOK, Q!Codecs
  <2>2. PICK n \in Nat : n = Len(page)
    BY <2>1
  <2>3. PICK out : out = Q!Decompress(Q!Compress(page), Q!GroupCount(n))
    OBVIOUS
  <2>4. CASE n = 0
    <3>1. PICK g \in Nat \ {0, 1} : g = codec.groupSize
      BY <2>1 DEF Q!Codecs, Q!CodecAssumption
    <3>2. Q!GroupCount(n) = 0 /\ n % g = 0
      <4>1. PICK r \in Nat : r = g - 1 /\ r < g /\ r = 0 * g + r /\ 0 = 0 * g + 0
        OBVIOUS
      <4>2. r \div g = 0 /\ 0 % g = 0
        BY <4>1, DivisionIsUnique
      <4> QED BY <2>4, <3>1, <4>1, <4>2 DEF Q!GroupCount
    <3>3. page = <<>> /\ 1..n = {}
      <4>1. Len(page) = 0
        BY <2>2, <2>4
      <4>2. page = <<>>
        BY <2>1, <4>1, EmptySeq
      <4> QED BY <2>4, <4>2
    <3>4. \A stream : Q!Decompress(stream, 0) = <<>>
      BY DEF Q!Decompress, Q!FlattenSeq
    <3>5. out = <<>> /\ Len(out) = 0
      BY <2>3, <3>2, <3>4
    <3> QED BY <2>2, <2>3, <2>4, <3>1, <3>2, <3>3, <3>5 DEF Q!RoundTrip
  <2>5. CASE n # 0
    <3>1. /\ codec.width = 8 => out = page
          /\ codec.width = 4 =>
                /\ Len(out) = n + ((n % codec.groupSize) % 2)
                /\ \A p \in 1..n :
                      LET group == Q!Group(page, (p - 1) \div codec.groupSize + 1)
                      IN Close(out[p], page[p], Q!LeastOf(group), Q!GreatestOf(group))
      BY <2>1, <2>2, <2>3, <2>5, PageReturns
    <3> QED BY <2>1, <2>2, <2>3, <3>1 DEF Q!RoundTrip, Close
  <2> QED BY <2>4, <2>5
<1> QED BY <1>1, CodecTypes, PTL

-----------------------------------------------------------------------------
(* All of it.                                                              *)

\* The variables of every structure are of their types, for any values of the
\* constants.
THEOREM StorageTypes == Spec => []TypeOK
<1>3. UpgradeIsSound => M!TypeOK
  <2>1. UpgradeIsSound => db.version \in 0..5
    BY SoundVersion DEF UpgradeIsSound
  <2> QED BY <2>1 DEF UpgradeIsSound, M!TypeOK, M!Current
<1>4. /\ ResidentInv => R!TypeOK
      /\ TableInv => T!TypeOK
      /\ IndexCovers => P!TypeOK
      /\ HeldInv => S!TypeOK
      /\ WholeInv => C!TypeOK
  BY DEF ResidentInv, TableInv, IndexCovers, HeldInv, S!TypeOK, WholeInv
<1>5. /\ ResidentInv /\ TableInv /\ IndexCovers /\ HeldInv /\ WholeInv
      /\ UpgradeIsSound /\ Q!TypeOK
      => TypeOK
  BY <1>3, <1>4 DEF TypeOK
<1> QED BY <1>5, CodecTypes, ResidencyInvariant, TableInvariant, IndexInvariant,
           PageStoreInvariant, ContentTypesInvariant, UpgradeInvariant, PTL DEF Spec

=============================================================================

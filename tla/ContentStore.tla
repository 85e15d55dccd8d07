---------------------------- MODULE ContentStore ----------------------------
(***************************************************************************)
(* ContentAddressedStore (src/rfsn_agent/cas.py), and the offload of large *)
(* strings to it by commit_events (src/rfsn_agent/store.py): a string is   *)
(* put while the transaction of its event is open, and the event keeps a   *)
(* reference.  Several processes share the directory.                      *)
(*                                                                         *)
(* A name is a hash of the content, so that a name is its content; an     *)
(* object is in the directory of its first two digits, which its first put *)
(* makes.  The file system is external: a rename is atomic; after a power  *)
(* loss the data of a file is there if the file was fsynced, its name if   *)
(* its directory was, and that directory if the base directory was, which  *)
(* no code does.  SQLite syncs what it commits.                            *)
(***************************************************************************)
EXTENDS Integers, Sequences, FiniteSets

CONSTANTS
    Writers,       \* threads of the processes that share the directory
    Contents,      \* the large strings
    Directories,   \* directories of the base directory
    DirectoryOf,   \* the one of each object (_content_path)
    Batches,       \* the strings of a batch of events
    Disposable     \* strings that no event carries, which clients may delete

ContentStoreAssumption ==
    /\ Batches \subseteq Seq(Contents)
    /\ DirectoryOf \in [Contents -> Directories]
    /\ Disposable \subseteq Contents
    /\ \A b \in Batches : \A i \in DOMAIN b : b[i] \notin Disposable

VARIABLES
    file,        \* what a process finds under the name of an object
    disk,        \* the names that the directories on the disk have
    dirs,        \* "made": a directory of which the base directory on the disk
                 \* may not know; "durable": one that outlived a power loss
    temp,        \* the temporary file of the put a writer is making
    phase,       \* where a writer is
    todo,        \* strings of its batch it has still to put
    refs,        \* objects its open transaction refers to
    referenced,  \* objects that committed events refer to
    borrowed,    \* history: objects found in place with a name not on the disk
    swept        \* history: objects that a power loss took with their directory

txVars == <<temp, phase, todo, refs>>
pastVars == <<borrowed, swept>>
vars == <<file, disk, dirs, txVars, referenced, pastVars>>

TypeOK ==
    /\ file \in [Contents -> {"absent", "whole", "unsynced", "torn"}]
    /\ disk \subseteq Contents
    /\ dirs \in [Directories -> {"absent", "made", "durable"}]
    /\ temp \in [Writers -> {"none", "whole", "unsynced"}]
    /\ phase \in [Writers -> {"idle", "put", "rename", "flush"}]
    /\ todo \in [Writers -> Seq(Contents)]
    /\ refs \in [Writers -> SUBSET Contents]
    /\ referenced \subseteq Contents
    /\ borrowed \subseteq Contents
    /\ swept \subseteq Contents

Init ==
    /\ file = [c \in Contents |-> "absent"]
    /\ disk = {}
    /\ dirs = [d \in Directories |-> "absent"]
    /\ temp = [w \in Writers |-> "none"]
    /\ phase = [w \in Writers |-> "idle"]
    /\ todo = [w \in Writers |-> <<>>]
    /\ refs = [w \in Writers |-> {}]
    /\ referenced = {}
    /\ borrowed = {}
    /\ swept = {}

Present == {c \in Contents : file[c] # "absent"}

\* The objects in these directories.
Within(some) == {c \in Contents : DirectoryOf[c] \in some}

-----------------------------------------------------------------------------
(* A writer that puts its strings one by one.                              *)

\* commit_events with large strings; put_blob and create_with_cas put one.
Begin(w, batch) ==
    /\ phase[w] = "idle"
    /\ phase' = [phase EXCEPT ![w] = "put"]
    /\ todo' = [todo EXCEPT ![w] = batch]
    /\ UNCHANGED <<file, disk, dirs, temp, refs, referenced, pastVars>>

\* The string gives way to its reference (_maybe_offload_to_cas).
Offloaded(w) ==
    /\ todo' = [todo EXCEPT ![w] = Tail(@)]
    /\ refs' = [refs EXCEPT ![w] = @ \cup {Head(todo[w])}]
    /\ phase' = [phase EXCEPT ![w] = "put"]

\* The end of a transaction or of its process: what was put stays.
End(w) ==
    /\ phase' = [phase EXCEPT ![w] = "idle"]
    /\ temp' = [temp EXCEPT ![w] = "none"]
    /\ todo' = [todo EXCEPT ![w] = <<>>]
    /\ refs' = [refs EXCEPT ![w] = {}]

\* put finds the object: if it hashes to its name it is not written again,
\* otherwise CASCorruptionError undoes the transaction.
FindExisting(w) ==
    LET c == Head(todo[w]) IN
    /\ phase[w] = "put" /\ todo[w] # <<>>
    /\ c \in Present
    /\ IF file[c] = "torn"
       THEN End(w) /\ UNCHANGED borrowed
       ELSE Offloaded(w) /\ UNCHANGED temp /\ borrowed' = borrowed \cup ({c} \ disk)
    /\ UNCHANGED <<file, disk, dirs, referenced, swept>>

\* mkdir(exist_ok=True): nothing fsyncs the base directory.
MakeDirectory(d) ==
    dirs' = [dirs EXCEPT ![d] = IF @ = "absent" THEN "made" ELSE @]

Mutant_WriteTemp_NoFsync(w) ==
    /\ phase[w] = "put" /\ todo[w] # <<>>
    /\ Head(todo[w]) \notin Present
    /\ temp' = [temp EXCEPT ![w] = "unsynced"]
    /\ phase' = [phase EXCEPT ![w] = "rename"]
    /\ MakeDirectory(DirectoryOf[Head(todo[w])])
    /\ UNCHANGED <<file, disk, todo, refs, referenced, pastVars>>

\* mkdir of the object's directory, mkstemp, write and fsync of the file.
WriteTemp(w) ==
    /\ phase[w] = "put" /\ todo[w] # <<>>
    /\ Head(todo[w]) \notin Present
    /\ temp' = [temp EXCEPT ![w] = "whole"]
    /\ phase' = [phase EXCEPT ![w] = "rename"]
    /\ MakeDirectory(DirectoryOf[Head(todo[w])])
    /\ UNCHANGED <<file, disk, todo, refs, referenced, pastVars>>

\* os.replace, which also overwrites what another writer put meanwhile.
Rename(w) ==
    /\ phase[w] = "rename"
    /\ file' = [file EXCEPT ![Head(todo[w])] = temp[w]]
    /\ temp' = [temp EXCEPT ![w] = "none"]
    /\ phase' = [phase EXCEPT ![w] = "flush"]
    /\ UNCHANGED <<disk, dirs, todo, refs, referenced, pastVars>>

\* _fsync_dir(target.parent): the object's directory on the disk is as the
\* processes see it, with its other objects; its own name is left alone.
Flush(w) ==
    LET together == Within({DirectoryOf[Head(todo[w])]}) IN
    /\ phase[w] = "flush"
    /\ disk' = (disk \ together) \cup (Present \cap together)
    /\ borrowed' = borrowed \ (Present \cap together)
    /\ swept' = swept \ (Present \cap together)
    /\ Offloaded(w)
    /\ UNCHANGED <<file, dirs, temp, referenced>>

\* An exception while writing, renaming or flushing: the temporary file is
\* removed if it is still there, an object already renamed stays; ROLLBACK.
PutFails(w) ==
    /\ phase[w] \in {"rename", "flush"}
    /\ End(w)
    /\ UNCHANGED <<file, disk, dirs, referenced, pastVars>>

Mutant_Commit_BeforeOffload(w) ==
    /\ phase[w] = "put" /\ refs[w] \cap Disposable = {}
    /\ referenced' = referenced \cup refs[w] \cup ({todo[w][i] : i \in DOMAIN todo[w]} \ Disposable)
    /\ End(w)
    /\ UNCHANGED <<file, disk, dirs, pastVars>>

\* COMMIT of the events, when every string has been put.
Commit(w) ==
    /\ phase[w] = "put" /\ todo[w] = <<>>
    /\ refs[w] \cap Disposable = {}
    /\ referenced' = referenced \cup refs[w]
    /\ End(w)
    /\ UNCHANGED <<file, disk, dirs, pastVars>>

\* put_blob returns; or the transaction is undone for a reason of its own, or
\* its process dies, at any point: a temporary file is left to nobody.
Leave(w) ==
    /\ phase[w] # "idle"
    /\ End(w)
    /\ UNCHANGED <<file, disk, dirs, referenced, pastVars>>

\* delete; the directory is not fsynced.
Delete(c) ==
    /\ c \in Disposable \cap Present
    /\ file' = [file EXCEPT ![c] = "absent"]
    /\ UNCHANGED <<disk, dirs, txVars, referenced, pastVars>>

\* All processes die; of what the disk and the processes saw differently, some
\* is now as the disk had it.  A directory that the base directory on the disk
\* does not know goes with all that is in it, fsynced or not.
PowerLoss ==
    /\ \E gone \in SUBSET {d \in Directories : dirs[d] = "made"},
          back \in SUBSET ((Present \ disk) \cup (disk \ Present)) :
          LET names == ((Present \ back) \cup (disk \cap back)) \ Within(gone) IN
          /\ disk' = names
          /\ file' = [c \in Contents |->
                         CASE c \notin names -> "absent"
                           [] c \in names \ Present -> "whole"
                           [] OTHER -> IF file[c] = "unsynced" THEN "torn" ELSE file[c]]
          /\ dirs' = [d \in Directories |->
                         IF d \in gone THEN "absent"
                         ELSE IF dirs[d] = "made" THEN "durable" ELSE dirs[d]]
          /\ swept' = swept \cup (Present \cap Within(gone))
    /\ temp' = [w \in Writers |-> "none"]
    /\ phase' = [w \in Writers |-> "idle"]
    /\ todo' = [w \in Writers |-> <<>>]
    /\ refs' = [w \in Writers |-> {}]
    /\ UNCHANGED <<referenced, borrowed>>

Next ==
    \/ \E w \in Writers :
          \/ \E batch \in Batches \cup {<<c>> : c \in Disposable} : Begin(w, batch)
          \/ FindExisting(w) \/ WriteTemp(w) \/ Rename(w) \/ Flush(w)
          \/ PutFails(w) \/ Commit(w) \/ Leave(w)
    \/ \E c \in Contents : Delete(c)
    \/ PowerLoss

Spec == Init /\ [][Next]_vars

-----------------------------------------------------------------------------
(* Properties.                                                             *)

\* "readers never see a partially written object" (cas.py 4-5), also after a
\* power loss between any two steps of concurrent puts.
ObjectsAreWhole == \A c \in Contents : file[c] # "torn"

\* An event that was committed can be read back: each object it refers to is
\* there, whatever failed before or after the COMMIT, with two exceptions that
\* the code leaves.  Some writer took the object as it found it before its name
\* was flushed, and the power failed since then (put returns early without
\* _fsync_dir).  Or the power failed while the object's directory was new, and
\* took the directory with it (put never flushes the base directory).  The next
\* put in that directory that gets as far as _fsync_dir mends what it finds.
ReferencesResolve ==
    \A c \in referenced : c \in Present \/ c \in borrowed \/ c \in swept
=============================================================================

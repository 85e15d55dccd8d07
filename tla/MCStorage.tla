----------------------------- MODULE MCStorage -----------------------------
(***************************************************************************)
(* A small instance for TLC of the structures that keep pages, contents    *)
(* and old databases.  They share no state and never call each other, so a *)
(* behaviour exercises one of them, chosen at the start.                   *)
(***************************************************************************)
EXTENDS Integers, Sequences

CONSTANTS
    Subjects,                                  \* the structures to exercise
    Pages, MaxPages, MaxPins, MaxTime,         \* Residency, PageTable
    Positions, MaxCount, MaxEntries,           \* PageTable
    BranchIds, NodeIds, NoNode, Given, MaxBranches,   \* PrefixIndex
    PageIds, Contents, Empty, Meta,            \* PageStore
    Bytes, MaxLength, GroupSizes,              \* Codec
    Writers, Strings, Batches, Disposable,     \* ContentStore
    Directories, DirectoryOf,
    Openers, KeyOf, NoKey, NoOpener, key,      \* Migration
    Logs                                       \* the histories old databases have

VARIABLE subject   \* the structure this behaviour exercises

VARIABLES resident, clock, entries, branches, nodes, rows, blobs, held
kvVars == <<resident, clock, entries, branches, nodes, rows, blobs, held>>

VARIABLES codec, page
codecVars == <<codec, page>>

VARIABLES file, disk, dirs, temp, phase, todo, refs, referenced, borrowed, swept
contentVars == <<file, disk, dirs, temp, phase, todo, refs, referenced, borrowed, swept>>

VARIABLES origin, db, writer, work, opened
upgradeVars == <<origin, db, writer, work, opened>>

vars == <<subject, kvVars, codecVars, contentVars, upgradeVars>>

-----------------------------------------------------------------------------
(* Databases of each schema version: a log of commands with checkpoints    *)
(* after some of them; versions 2 and 3 know their idempotency keys.       *)

OldDatabase(version, envelope, signer, commands, points, hashes) ==
    [version |-> version,
     events |-> [i \in DOMAIN commands |->
                    [command |-> commands[i], columns |-> envelope[i], json |-> envelope[i]]],
     checkpoints |-> {[folded |-> SubSeq(commands, 1, n),
                       hash |-> hashes[n],
                       signer |-> IF n = 0 THEN NoKey ELSE signer,
                       column |-> IF n = 0 THEN NoKey ELSE signer,
                       material |-> <<>>] : n \in points},
     index |-> IF version < 2 THEN {}
               ELSE {[command |-> commands[i], sequence |-> i, hash |-> hashes[i]] :
                     i \in DOMAIN commands}]

SomeLogs == {<<>>, <<"a">>, <<"a", "b">>, <<"a", "b", "c">>}

Points(commands) == {points \in SUBSET (0..Len(commands)) : 0 \in points}

OpenerKeys == [p \in Openers |-> IF p = "q1" THEN key ELSE NoKey]

\* Two strings in one batch, and a batch with none.
SomeBatches == {<<>>, <<"y", "x">>}

\* One node is made with a count of 0, as the tests of gc do.
SomeGiven == [n \in NodeIds |-> IF n = "n1" THEN 0 ELSE 1]

\* Two of the strings have hashes with the same first two digits.
SomeDirectories == [c \in Strings |-> IF c = "y" THEN "d2" ELSE "d1"]

M0 == INSTANCE Migration WITH Databases <- {}

Unchained(commands) == [i \in 0..Len(commands) |-> <<>>]

\* Version 1 had no hashes; later ones have those the code computes.
Versioned(version, signer, commands, points) ==
    LET hashes == IF version = 1 THEN Unchained(commands) ELSE M0!Chain(commands, signer)
        blank == M0!Envelope(<<>>, <<>>, NoKey, NoKey)
    IN OldDatabase(version,
                   [i \in DOMAIN commands |->
                       IF version = 1 THEN blank ELSE M0!Chained(hashes, i, signer)],
                   signer, commands, points, hashes)

\* New databases, unsigned ones of versions 1 to 3, signed ones as the v3
\* migration left them, and one of a version to come.
Databases ==
    {[version |-> v, events |-> <<>>, checkpoints |-> {}, index |-> {}] : v \in {0, 5}}
    \cup {Versioned(3, key, commands, {0}) : commands \in Logs}
    \cup UNION {{Versioned(v, NoKey, commands, points) : points \in Points(commands)} :
                v \in 1..3, commands \in Logs}

-----------------------------------------------------------------------------

R == INSTANCE Residency
T == INSTANCE PageTable
P == INSTANCE PrefixIndex
S == INSTANCE PageStore
Q == INSTANCE Codec
C == INSTANCE ContentStore WITH Contents <- Strings
M == INSTANCE Migration

\* A history is a sequence of commands.
LogsAreSequences == \A commands \in Logs : commands \in Seq(STRING)

\* Some opener has the key of each database.
KeysKnown == \A k \in {key, NoKey} : \E p \in Openers : KeyOf[p] = k

ASSUME StorageAssumption ==
    /\ R!ResidencyAssumption
    /\ T!PageTableAssumption
    /\ P!PrefixIndexAssumption
    /\ S!PageStoreAssumption
    /\ Q!CodecAssumption
    /\ C!ContentStoreAssumption
    /\ M!MigrationAssumption
    /\ LogsAreSequences /\ KeysKnown

TypeOK ==
    /\ R!TypeOK /\ T!TypeOK /\ P!TypeOK /\ S!TypeOK
    /\ Q!TypeOK /\ C!TypeOK /\ M!TypeOK

Init ==
    /\ subject \in Subjects
    /\ R!Init /\ T!Init /\ P!Init /\ S!Init /\ Q!Init /\ C!Init /\ M!Init
    /\ subject # "prefix index" => nodes = <<>>
    /\ subject # "codec" => codec = CHOOSE c \in Q!Codecs : TRUE
    /\ subject # "migration" => origin = CHOOSE d \in Databases : TRUE

Next ==
    \/ /\ subject = "residency" /\ R!Next
       /\ UNCHANGED <<subject, entries, branches, nodes, rows, blobs, held,
                      codecVars, contentVars, upgradeVars>>
    \/ /\ subject = "page table" /\ T!Next
       /\ UNCHANGED <<subject, resident, clock, branches, nodes, rows, blobs, held,
                      codecVars, contentVars, upgradeVars>>
    \/ /\ subject = "prefix index" /\ P!Next
       /\ UNCHANGED <<subject, resident, clock, entries, rows, blobs, held,
                      codecVars, contentVars, upgradeVars>>
    \/ /\ subject = "page store" /\ S!Next
       /\ UNCHANGED <<subject, resident, clock, entries, branches, nodes,
                      codecVars, contentVars, upgradeVars>>
    \/ /\ subject = "codec" /\ Q!Next
       /\ UNCHANGED <<subject, kvVars, contentVars, upgradeVars>>
    \/ /\ subject = "content store" /\ C!Next
       /\ UNCHANGED <<subject, kvVars, codecVars, upgradeVars>>
    \/ /\ subject = "migration" /\ M!Next
       /\ UNCHANGED <<subject, kvVars, codecVars, contentVars>>

Spec == Init /\ [][Next]_vars

-----------------------------------------------------------------------------
(* The properties of the structures.                                       *)

\* Pinned pages stay, and lose one pin at a time (unload, select_victim).
PinnedStay == R!PinnedStay

\* The page that leaves was accessed last of all that could leave (load).
ColdestLeaves == R!ColdestLeaves

\* Binary search finds the entry of a position (lookup).
LookupIsExact == T!LookupIsExact

\* A range query returns the pages with a token in the range (range_query).
RangeQueryIsExact == T!RangeQueryIsExact

\* Reference counts are the numbers of branches (register_branch, fork_branch, gc).
RefCountsExact == P!RefCountsExact

\* The common prefix is all that two branches share (get_common_prefix).
SharedIsCommonPrefix == P!SharedIsCommonPrefix

\* Only offloaded pages cannot be read back (get_page, create_with_cas).
UnreadableIsOffloaded == S!UnreadableIsOffloaded

\* What a page loses on the way through a codec (compress, decompress).
RoundTrip == Q!RoundTrip

\* No object is ever seen half written (put).
ObjectsAreWhole == C!ObjectsAreWhole

\* Committed events find their offloaded strings (put, _insert_event).
ReferencesResolve == C!ReferencesResolve

\* An upgrade keeps the log, the checkpoints and the keys (_ensure_schema).
UpgradeKeepsHistory == M!UpgradeKeepsHistory

\* Which databases an upgrade refuses (_backfill_v2_hashes, _apply_v3_migration).
RefusalsExplained == M!RefusalsExplained

\* "A database created with the v1 schema can be opened and replayed under v2".
OldDatabasesOpen == M!OldDatabasesOpen
=============================================================================

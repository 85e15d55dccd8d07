----------------------------- MODULE Migration -----------------------------
(***************************************************************************)
(* Opening a database of an older schema: _ensure_schema and the four      *)
(* migrations of src/rfsn_agent/store.py, which run in one transaction.    *)
(* Several processes may open the database at once, and any of them may    *)
(* die on the way.                                                         *)
(*                                                                         *)
(* The database has one trajectory; the migrations treat each like it.  A  *)
(* hash is the tuple of what it covers, a signature the key that made it.  *)
(* A row has the envelope of its event twice, in columns and in its JSON.  *)
(***************************************************************************)
EXTENDS Integers, Sequences, FiniteSets

CONSTANTS
    Openers,       \* processes that open the database
    KeyOf,         \* the signing key of each, or NoKey
    NoKey,
    Databases,     \* what the database may be at first
    NoOpener

MigrationAssumption == NoOpener \notin Openers

VARIABLES
    origin,        \* the database as it was at first
    db,            \* the database
    writer,        \* the process that has the write transaction
    work,          \* the database as that transaction sees it
    opened         \* what came of opening the database

vars == <<origin, db, writer, work, opened>>

\* _CURRENT_STORE_SCHEMA_VERSION
Current == 4

NoHash == <<>>

TypeOK ==
    /\ origin \in Databases
    /\ db.version \in 0..(Current + 1)
    /\ writer \in Openers \cup {NoOpener}
    /\ opened \in [Openers -> {"no", "yes", "refused"}]

Init ==
    /\ origin \in Databases
    /\ db = origin
    /\ writer = NoOpener
    /\ work = origin
    /\ opened = [p \in Openers |-> "no"]

-----------------------------------------------------------------------------
(* Events, checkpoints and idempotency rows.                               *)

Commands(events) == [i \in DOMAIN events |-> events[i].command]

Envelope(prev, hash, prevSigner, signer) ==
    [prev |-> prev, hash |-> hash, prevSigner |-> prevSigner, signer |-> signer]

\* compute_event_hash
EventHash(i, command, prev, prevSigner) == <<i, command, prev, prevSigner>>

\* The hashes of a chain signed by a key, with the hash before the first.
Chain(commands, key) ==
    LET hash[i \in 0..Len(commands)] ==
            IF i = 0 THEN NoHash
            ELSE EventHash(i, commands[i], hash[i - 1], IF i = 1 THEN NoKey ELSE key)
    IN hash

\* The envelope of the i-th event of a chain.
Chained(chain, i, key) ==
    Envelope(chain[i - 1], chain[i], IF i = 1 THEN NoKey ELSE key, key)

\* A snapshot in harness_snapshots: the commands folded into it, its last hash
\* and signer, the last_signature column and what checkpoint_hash covers.
Checkpoint(folded, hash, signer, column, material) ==
    [folded |-> folded, hash |-> hash, signer |-> signer, column |-> column,
     material |-> material]

SequenceOf(row) == Len(row.folded)

Latest(rows) == CHOOSE row \in rows : \A r \in rows : SequenceOf(r) <= SequenceOf(row)

\* _checkpoint_hash
Material(row) == <<row.folded, row.hash, row.signer>>

\* The validation of v2 and v3: the latest snapshot is taken and all events are
\* reduced onto it from the first one on, so that it has to be the genesis.
Replays(data) ==
    LET start == Latest(data.checkpoints)
        json(i) == data.events[i].json
    IN \A i \in DOMAIN data.events :
          /\ json(i).prev = IF i = 1 THEN NoHash ELSE json(i - 1).hash
          /\ json(i).prevSigner = IF i = 1 THEN NoKey ELSE json(i - 1).signer
          /\ i = 1 => SequenceOf(start) + 1 = i /\ json(i).prev = start.hash

\* _event_from_row: columns and JSON agree, and the signature is by the key.
Readable(event, key) == event.columns = event.json /\ event.columns.signer = key

-----------------------------------------------------------------------------
(* The migrations.  Each returns the databases it may leave, none if it    *)
(* raises SchemaMigrationError.                                            *)

\* v1: the tables.
ToV1(data) == {[data EXCEPT !.version = 1]}

\* _event_from_v1_dict gives each event the hash of an event without a
\* predecessor; only the columns are chained.
V2Event(events, i) ==
    LET hash(j) == IF j = 0 THEN NoHash ELSE EventHash(j, events[j].command, NoHash, NoKey) IN
    [command |-> events[i].command,
     columns |-> Envelope(hash(i - 1), hash(i), NoKey, NoKey),
     json    |-> Envelope(NoHash, hash(i), NoKey, NoKey)]

\* v2: hashes; the new table of idempotency keys stays empty.
ToV2(data) ==
    LET events == [i \in DOMAIN data.events |-> V2Event(data.events, i)]
        hashAt(n) == IF n = 0 THEN NoHash ELSE events[n].columns.hash
        new == [data EXCEPT
                  !.version = 2,
                  !.events = events,
                  !.checkpoints = {[row EXCEPT !.hash = hashAt(SequenceOf(row))] : row \in @}]
    IN IF Replays(new) THEN {new} ELSE {}

Mutant_Rehashed_OldIndex(data, key) ==
    LET chain == Chain(Commands(data.events), key)
        signerAt(n) == IF n = 0 THEN NoKey ELSE key
    IN [data EXCEPT
          !.version = 3,
          !.events = [i \in DOMAIN @ |->
                         [@[i] EXCEPT !.columns = Chained(chain, i, key),
                                      !.json = Chained(chain, i, key)]],
          !.checkpoints = {[row EXCEPT !.hash = chain[SequenceOf(row)],
                                       !.signer = signerAt(SequenceOf(row)),
                                       !.column = signerAt(SequenceOf(row))] : row \in @}]

Mutant_Rehashed_SignedGenesis(data, key) ==
    LET hash[i \in 0..Len(data.events)] ==
            IF i = 0 THEN NoHash
            ELSE EventHash(i, data.events[i].command, hash[i - 1], key)
        new(i) == Envelope(hash[i - 1], hash[i], key, key)
    IN [data EXCEPT
          !.version = 3,
          !.events = [i \in DOMAIN @ |-> [@[i] EXCEPT !.columns = new(i), !.json = new(i)]],
          !.index = {[entry EXCEPT !.hash = hash[entry.sequence]] : entry \in @},
          !.checkpoints = {[row EXCEPT !.hash = hash[SequenceOf(row)]] : row \in @}]

\* The chain of v3: hashes that cover the signature before, the idempotency
\* rows and the snapshots with the new hashes.
Rehashed(data, key) ==
    LET chain == Chain(Commands(data.events), key)
        signerAt(n) == IF n = 0 THEN NoKey ELSE key
    IN [data EXCEPT
          !.version = 3,
          !.events = [i \in DOMAIN @ |->
                         [@[i] EXCEPT !.columns = Chained(chain, i, key),
                                      !.json = Chained(chain, i, key)]],
          !.index = {[entry EXCEPT !.hash = chain[entry.sequence]] : entry \in @},
          !.checkpoints = {[row EXCEPT !.hash = chain[SequenceOf(row)],
                                       !.signer = signerAt(SequenceOf(row)),
                                       !.column = signerAt(SequenceOf(row))] : row \in @}]

\* v3: every event is read back, unsigned, before it is rewritten.
ToV3(data, key) ==
    IF (\A i \in DOMAIN data.events : Readable(data.events[i], NoKey)) /\ Replays(Rehashed(data, key))
    THEN {Rehashed(data, key)}
    ELSE {}

\* v4: checkpoint_hash.
ToV4(data) ==
    {[data EXCEPT !.version = 4,
                  !.checkpoints = {[row EXCEPT !.material = Material(row)] : row \in @}]}

\* _apply_migration
Migrated(data, key) ==
    CASE data.version = 0 -> ToV1(data)
      [] data.version = 1 -> ToV2(data)
      [] data.version = 2 -> ToV3(data, key)
      [] data.version = 3 -> ToV4(data)

-----------------------------------------------------------------------------
(* _ensure_schema, called by the constructor.                              *)

\* BEGIN IMMEDIATE, after waiting for another opener; the version is read
\* inside the transaction.
Begin(p) ==
    /\ opened[p] = "no" /\ writer = NoOpener
    /\ db.version <= Current
    /\ writer' = p
    /\ work' = db
    /\ UNCHANGED <<origin, db, opened>>

\* A newer version: SchemaMigrationError.
RefuseNewer(p) ==
    /\ opened[p] = "no" /\ writer = NoOpener
    /\ db.version > Current
    /\ opened' = [opened EXCEPT ![p] = "refused"]
    /\ UNCHANGED <<origin, db, writer, work>>

Migrate(p) ==
    /\ writer = p /\ work.version < Current
    /\ work' \in Migrated(work, KeyOf[p])
    /\ UNCHANGED <<origin, db, writer, opened>>

\* A migration raises: ROLLBACK, and the constructor raises.
Fail(p) ==
    /\ writer = p /\ work.version < Current
    /\ Migrated(work, KeyOf[p]) = {}
    /\ writer' = NoOpener
    /\ opened' = [opened EXCEPT ![p] = "refused"]
    /\ UNCHANGED <<origin, db, work>>

Finish(p) ==
    /\ writer = p /\ work.version = Current
    /\ db' = work
    /\ writer' = NoOpener
    /\ opened' = [opened EXCEPT ![p] = "yes"]
    /\ UNCHANGED <<origin, work>>

\* The process ends, wherever it is; a new one may open the database again.
Exit(p) ==
    /\ writer = p \/ opened[p] # "no"
    /\ writer' = IF writer = p THEN NoOpener ELSE writer
    /\ opened' = [opened EXCEPT ![p] = "no"]
    /\ UNCHANGED <<origin, db, work>>

Next ==
    \E p \in Openers :
        Begin(p) \/ RefuseNewer(p) \/ Migrate(p) \/ Fail(p) \/ Finish(p) \/ Exit(p)

Spec == Init /\ [][Next]_vars

-----------------------------------------------------------------------------
(* Properties.                                                             *)

\* Whether a store with a key can rebuild the head (EventStore!Loadable).
Loadable(data, key) ==
    LET row == Latest(data.checkpoints)
        n == SequenceOf(row)
    IN /\ row.material = Material([row EXCEPT !.signer = row.column])
       /\ row.signer = row.column
       /\ n > 0 => /\ data.events[n].columns.hash = row.hash
                   /\ data.events[n].columns.signer = row.signer
       /\ \A i \in (n + 1)..Len(data.events) : Readable(data.events[i], key)

\* Whoever upgrades the database and whoever dies on the way: the commands stay
\* in their order, and so does what each checkpoint has folded.  Once it is of
\* the current version every hash covers its event and its predecessor, some
\* opener's key reads it, and each idempotency key that was known is still
\* answered with the hash of its event (_apply_v3_migration, _ensure_schema).
UpgradeKeepsHistory ==
    /\ Commands(db.events) = Commands(origin.events)
    /\ {row.folded : row \in db.checkpoints} = {row.folded : row \in origin.checkpoints}
    /\ db.version = Current =>
          /\ \A i \in DOMAIN db.events :
                LET e == db.events[i].columns IN
                e.hash = EventHash(i, db.events[i].command, e.prev, e.prevSigner)
          /\ db.checkpoints # {} => \E p \in Openers : Loadable(db, KeyOf[p])
          /\ {entry.command : entry \in db.index} = {entry.command : entry \in origin.index}
          /\ \A entry \in db.index :
                LET e == db.events[entry.sequence] IN
                entry.command = e.command /\ entry.hash = e.columns.hash

\* A database whose strings are all in its rows is refused only if it is of a
\* newer version, or needs the v2 or the v3 migration and has events after which
\* a checkpoint was taken, or needs v2 and has two events (the validation of
\* _backfill_v2_hashes).  Offloaded strings are not in this model: v3 reads the
\* events without a content store (store.py 1275, 1413) and refuses them too.
RefusalsExplained ==
    \A p \in Openers : opened[p] = "refused" =>
        \/ db.version > Current
        \/ /\ db.version \in 1..2
           /\ db.events # <<>> /\ SequenceOf(Latest(db.checkpoints)) > 0
        \/ db.version = 1 /\ Len(db.events) >= 2

\* "A database created with the v1 schema can be opened and replayed under v2"
\* (tests/test_store.py 604): no database of a known version is refused.
OldDatabasesOpen ==
    \A p \in Openers : opened[p] = "refused" => db.version > Current
=============================================================================

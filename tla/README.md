# A verification of rusty_multimodal_db

TLA+ models of the database in `src/`: client connections from both ends, sessions,
transactions against one table, requests that take several locks or two tables, the commit path
of the journaled table adapters, the layers a table is composed of, the memory-mapped stores
underneath, and the durable and the shared variants kept beside them. TLC checks them on
small instances; TLAPS proves, for every instance, all safety properties of the commit group, the
transaction adapters, the memory-mapped store, the shared stores, the dog store, the connections, the clients,
the layers and (power losses apart, as said below) the durable variants, and those of the requests over two tables but for what an evaluated query answers.

Paths below are relative to the repository (`src/server/journal.rs` is the file
of the crate).

## The system

| Part | State it keeps | Operations | Hard behaviour |
|---|---|---|---|
| Batch journal, commit group (`server/journal.rs`) | journal file and length; group state under one mutex: entries appended, durable and failed marks, the sync in flight, the apply turn, threads parked for it | `append_unsynced`, `commit`, `truncate`, `open` | one leader syncs for many; waiters are released in journal order; failing appends, syncs and applies; crash and replay |
| Table adapters (`server/dog.rs`, `reminder.rs`, and five more of the same shape) | a production store, perhaps a journal | `apply_transaction`, single-record writes, `with_journal` | validation apart from application; snapshot sessions; replay over later writes |
| Generic store (`generic/mmap_store.rs` with `slot_file.rs`, `insert_log.rs`, `record_blob.rs`) | record map, positions and index in memory; blob, insert log and slot file on disk | create, open, insert, update, replace, delete, flush, compact | three files that no single write covers; crash between any two; I/O errors half way |
| Layers and relations (`generic/store.rs`, `mmap_scanned.rs`, `edge_blob.rs`, `relation.rs`) | buckets, caches, lists and orders in memory; a second slot file; per label a set of edges, its blob and log; a manifest of labels | insert, replace, delete, update, link, detach, compact, create, open | views that must agree; a deletion cut between its record and its edges; labels made at run time |
| Generic production store (`generic/production.rs`) | a reader-writer lock around a stack of layers | the layers' | lock poisoning, exclusive sections |
| Dog production store (`production.rs`, `durability/mmap_store.rs`, `record_blob.rs`) | a list of dogs; ages in a mapped file; the list in a companion blob | create, open, open_portable, update_age, flush, scan | lists in other orders; stale slots; a crash between the two files |
| Connections (`server/serve.rs`) | per connection: identity, protocol version, staged updates, read set, isolation; shared: failure table, tables | begin, stage, read, commit, rollback; link and delete across tables | read-your-writes, bounded sessions, existence checks before a later write in another table |
| Clients (`server/client.rs`, `clients/python`) | one socket, the version negotiated, the table selected, cached schemas, a session | methods of one or several round trips | fallback to an older version, a connection cut half way, other clients' writes between two round trips |
| Durable variants (`durability/`) | a state in memory; a log, a snapshot, both, generations, or an engine's file | create, open, update_age, checkpoint, flush | files replaced in place; replay from a cutoff; torn tails; power losses |
| Shared variants (`concurrency/`, `store/`) | records and a packed cache, under one lock, under shards' locks, or owned by a thread | get, update_age, scan_ages | what is one instant and what is not |
| SQL parsing, audit, access, certificates, binaries | none of their own | parsing, formatting, start-up | none that a model would show |

A request comes in on a connection thread (`handle_connection`), which calls the
table's adapter; a transaction goes through the commit group, whose turn gate
orders the exclusive sections in which the adapter writes its stack of layers; each layer
passes a write to the one below and then changes its own state, down to the store, which
writes its log, slots and maps. Shared state between threads is the commit
group's mutex and condvar, the store's lock and the failure table. Nothing else
is shared: there are no callbacks, and clients see only replies.

What makes each part correct:

* **commit group**: write-ahead order; apply order is journal order; nothing is
  truncated that a recovery needs; nobody waits for ever; acknowledged batches
  outlive crashes.
* **adapters**: a transaction is visible whole or not at all; what was refused
  leaves no trace; no acknowledged write is undone by a recovery; snapshot
  sessions lose no update.
* **store**: a reader finds what the last acknowledged write left, at its own
  slot and in its own index bucket, whatever was compacted or cut short.
* **layers**: every layer shows the same records; edges change by links and deletions
  alone, never by crashes, openings or compaction; files open again after a crash.
* **dog store**: an age follows its dog through every order of lists; the two files
  open by themselves.
* **requests over two tables**: no edge outlives its ends; a link answered `Ok` stays
  until one of them is deleted; a walk by pages neither skips nor repeats a row that
  stands still; a join returns the edges that stood, a traverse their distances; a query
  or an aggregate answers for the rows that stood, whichever others its scan met.
* **connections**: a session belongs to one connection, table and version; what it is
  shown is what its commit would leave; a snapshot session commits only if what it
  read still holds; the class at the moment of a write decides; failed
  authentications of one peer are counted across its connections.
* **clients**: client and server agree on version, table and session between any two
  calls; a call's answer is what was done for it.
* **durable variants**: what the files give is the state after some first updates,
  as many as the variant promises to keep.
* **shared variants**: each is one map of ages.

The hazards of this code, each at its line, are in `PROJECT.json`.

## Modules

| Module | Models | Variables and actions |
|---|---|---|
| `DurableRegister` | what a journaled adapter promises, one register: `value`, `acked`, `open` | `Write`, `Ack`, `Crash`, `Recover` |
| `CommitGroup` | `CommitGroup::commit`, `BatchJournal`, and the adapter's crash and `with_journal` | `appended` .. `turnWaiters` are `GroupState`; `truncated`, `synced`, `torn` the journal file; `mem`, `disk` the store. One action per critical section: `AppendBatch` (append and queue), `Lead` (fix how far to sync), `SyncOk`/`SyncFails`, `Notified`/`Recheck` (the wait loop), `TurnGate`, `ParkReturns`/`Regate`, `Apply`, `Truncate`, `ReleaseTurn` |
| `CommitProofs` | | what a commit answers, at the server and at the client: of `CommitGroup`, its invariant (`IndInv`), its properties and the refinement; of `Client`, its invariant (`ClientInv`) and both properties |
| `TransactionAdapter` | `apply_transaction`, both paths, and the single writes of a table | `Validate`, `Journal`, `Enter` (turn and `check_read_set`), `ApplyOp`, `Leave` (checkpoint), `EnterUnjournaled`; `UpdateField`, `InsertRecord`, `ReplaceRecord`, `DeleteRecord`; `Crash`, `ReplayBatch`, `Open` |
| `TransactionAdapterProofs` | | its invariant (`BaseInvariant`), the lemmas about its steps and its four properties |
| `MmapStore` | `GenericMmapStore`, one action per file operation | `Insert`/`Replace`/`Delete` write the log, `InsertSlot`/`ReplaceSlot`/`DeleteSlot` the slot and the maps; `CompactBlob`, `CompactSlots`, `CompactLog`; `Crash`; `ReadTorn`, `OpenRead`, `OpenAppend`, `OpenBlob`, `OpenLog`, `Serve`; `Panic` and `...Fails` the I/O errors. `mapped` is how much of the file is mapped, `ragged` whether half a slot follows; `misnumbered` and `stray` are history |
| `MmapStoreProofs` | | its invariant (`StoreInv`), positions and index; what readers find |
| `EdgeSet` | what the layers promise of a table's relations: `live` records, `edges` by label, and those in `doubt` since an operation on them failed | `Write`, `Link`, `Drop`, `DropFails`, `Settle`, `Open` |
| `LayerStack` | the layers of `generic/store.rs` and `mmap_scanned.rs`, composed as `generic/memory.rs`, `entity.rs`, `order_customer.rs`, `relation.rs`, the employees and the in-memory stacks compose them | `base` is the store below; `slots`, `blob`, `log`, `manifest` the layers' files; `inner`, `position`, `edges`, `outer` their memory. `Insert`, `Replace`, `Delete` are the base's part of a write, `SlotStep`, `DropEdges` and `Finish` what the layers above add; `Update`; `Link`, or `LinkNewLabel`, `LinkManifest`, `LinkAppend` for a label's first edge; `Detach`; `Compact`, `WriteBlob`, `ClearLog`; `Create`, `CreateLabel`; `Crash`, `SlotsReopened`, `Open`; `...Fails` the I/O errors |
| `DogStore` | `ProductionStore` over `MmapAgeStore` | `file` and `blob` are the two files, `list` and `position` the memory. `CreateAges`, `OpenAges`, `WriteBlob`, `OpenPortable`, `UpdateAge`, `Flush`, `Kill`, `PowerLoss`. `allowed`, `told`, `cut` hold histories |
| `LayerStackProofs` | | its invariants (`Core`, `EdgesOk`, `Answering`, `OuterOk`) and its five properties |
| `Durability` | `wal_fsync`, `wal_buffered`, `snapshot_full`, `snapshot_rebuild`, `hybrid`, `lsm_store`, `embedded_store` | `log`, `base`, `ssts`, `counted` are the files, `ages`, `memtable`, `generations`, `nextSeq` the memory, `pc` a call's place between file operations. `Update...`, `AppendUnsynced` and `SyncOk`; `BeginCheckpoint`, `WriteBase`, `Truncate`; `BeginFlush` to `ClearMemtable`; `Kill`, `PowerLoss`; `Open`, `OpenMisreads`, `OpenRefused`, `Create` |
| `DurabilityProofs` | | its invariants (`FilesInv`, `Story`) and both properties |
| `AgeMap` | what the shared variants promise: each `get` and `update_age` one instant between call and return | `Call`, `Get`, `Update`, `Scan` or dog by dog, `Return` |
| `ConcurrentStores` | `GlobalRwLockStore` over `CanonicalCachedStore`, `ShardedStore`, `DashMapStore`, `ActorStore` | `records` and `cache`; `lock` the one lock, `queue` the actor's channel, `call[t]` a thread's locals. `ReadLock`, `WriteLock`, `GetHeld`, `ScanHeld`, `UpdateHeld`, `WriteThrough`; `GetInShard`, `UpdateInShard`, `ScanShard`; `Send`, `Serve` |
| `DogProofs` | | of `DogStore`, its invariant and both properties; of `ConcurrentStores`, that it implements `AgeMap` |
| `Connection` | `handle_connection`, the failure table and the tables served | `conn[c]` holds the function's locals, `peers` the failure table, `now` its clock. One action per request, gates included: `Hello`, `Begin`, `BeginWith`, `Rollback`, `GetById`, `Stage`, `Commit`, `WriteNow`, `Insert`, `Replace`, `Delete`, `Use`; `Refuse` for what the gates turn away; `AuthThrottled`, `AuthCheck`, `AuthNote`, since Authenticate locks the table twice; `Accept`, `Disconnect`, `Tick` |
| `ConnectionProofs` | | its invariant and its properties |
| `Queries` | what `serve.rs` makes of a scan's rows: `evaluate_query`, `evaluate_aggregate` and their validation | operators: `Valid`, `Passes`, `Buckets`, `Reduce`, `Evaluate`; `IsAnswer`, what an answer has to be, without buckets or order |
| `Serving` | requests of several locked steps on the memory and entity tables, and the client's `traverse` | `db` is both tables (`records`, `edges`), `conn[c]` the locals of a request in progress. `Write` and `Link` are single writes; `CheckRight` and `Link` are `link_across`, `DeleteEntity` and `Detach`/`DetachFails` `delete_across`; `BeginBatch`, `BatchWrite` and `AtomicBatch` `WriteBatch`; `PageByIndex`, `PageByScan`, `ReadKey`, `GetRow` `Page`; `BeginJoin` to `EndJoin` `Join`; `BeginTraverse`, `Hop`, `EndTraverse` `traverse`, a request for each node; `BeginQuery`, `ReadRow`, `EndQuery` `Query` and `Aggregate`. `ledger`, `walk`, `join`, `hops`, `ask` hold histories (and the client's cursor) |
| `ServingProofs` | | its invariant (`ServingInv`) and five of its six properties |
| `Client` | `SchemaDrivenClient` against a server that may be older, with connections that are cut | `client` holds its fields, `call` the method under way, `wire` the request or reply on its way, `link` the server's state of the connection. `Connect`, `FallBack`, one action per call and per reply (`Calls`, `Replies`), the server's part (`Server`), `Broken`, `Cut`, `OtherWrites` |
| `MCCommitGroup`, `MCTransactionAdapter`, `MCMmapStore`, `MCLayerStack`, `MCDogStore`, `MCDurability`, `MCConcurrentStores`, `MCConnection`, `MCServing`, `MCClient` | | instances for TLC |

The modules stand on each other. `TransactionAdapter` uses the commit group as
its promise (batches become durable in journal order and are applied in that
order: `OneTurn`, `ApplyInOrder`, `WriteAhead`), and the store as one atomic
slot write per operation. `MmapStore` is entered under the exclusive lock that
`TransactionAdapter` calls `locked`. `LayerStack` takes each operation of `MmapStore` as one
durable step (`Promised`). `Serving` answers queries by `Queries`, takes each locked call of a stack as one step, its
edges as `EdgeSet` gives them, and the gates before a request from `Connection`.
`Connection` uses `apply_transaction` as one step: the
properties of `TransactionAdapter` say how far that is so. `Client` has `Connection`'s
server, cut down to the requests it sends.

Most modules take their client programs and environments
from a constant (`Scenarios`, `Stacks`); a variable (`scenario`, `stack`) is chosen in `Init` and never
changes, so one run covers several configurations.

### What the models abstract

* *Commit group.* A batch is its sequence number, and applying it sets the register
  to that number. `sync_data` and the section that records its result are one
  step: nothing reads what lies between. The journal's `truncate` succeeds. A
  successful sync covers every byte up to the entry it was asked for: what a
  kernel forgets after an fsync error is not modelled. The mutex is never
  poisoned: no code panics while it is held. Spurious unparks are modelled.
* *Adapter.* A value is the name of its writer. `check_read_set` compares values, so a
  record that goes from A to B and back to A passes it; with one value per writer
  that cannot happen in the model, and the code documents it. Only found
  records are tracked, as in `record_read_set`; the bound MAX_TRACKED_READS is not
  reached. The flush at a checkpoint succeeds; `CommitGroup` has it fail. The other adapters of the same shape are not modelled separately.
* *Store.* A record is a pair of versions, body and scannable value; an index field
  takes two values and follows the body. The rename of a blob or slot file is
  atomic. A failing `write_all` to the log leaves a piece of an entry, a failing `sync_data` the whole;
  without an error `write_all` leaves no piece. Once entries follow a piece, its length takes in what is behind it or reaches
  beyond the end, so reading may stop there, go on behind any later entry, or make one item of the mixture (`ReadTorn`);
  left out is a piece whose remains happen to decode as an entry of yet another id. A failing slot append leaves nothing, a piece
  of a slot, or all of it without the mapping. Behind a piece every slot is out of step (`ragged`): what is read of it may be any
  value, and it counts as committed only with the id of a slot cut short (`Garbled`, `stray`). After a failing
  `rewrite` no slot is mapped: a write or a compaction that needs one panics and poisons the lock (`dead`), but an insert
  maps the file that is there and the store goes on. A reader's panic is no step.
* *Layers.* A record is a key, from which every index, list and order takes its own, and a
  scannable value; an edge is the set of its ends. The store below is what `MmapStore` promises: a
  record is there or not, in one durable step. A failing append to an edge log leaves
  nothing or the whole entry (pieces of entries are `MmapStore`'s subject), and between two
  openings one operation may stop half way. A layer's slot appended in part, which its `open` refuses, and a failing rewrite of
  its slot file are left out: `slot_file.rs` is `MmapStore`'s subject too. The open operation holds the stack's lock.
* *Dog store.* Renames are atomic and durable; a torn `create` is never opened; markers are
  written with their slots, so all slots are committed. A power loss writes each age back or
  not, by itself.
* *Durable variants.* A file that `std::fs::write` replaces is torn from its truncation to
  its last byte. A scenario names the variant and which faults and calls it meets; a torn
  log tail with entries behind it is read as anything (`OpenMisreads`). redb is a library, taken by its
  promise of one durable transaction per update.
* *Shared variants.* What a lock covers is one step where it covers one access; the RwLock of
  the cached store covers two, and is kept. Ids are distinct. DashMap is shards with a routing
  of its own. Locks are not poisoned: nothing panics under them.
* *Connection.* A record has one field that clients may update and one they may not. Replies are codes.
  A peer always has an address. The failure table's mutex is not poisoned. Link, Compact, ReplaceIf and WriteBatch pass the same gates as Insert and
  are left out, as are the requests that only read, except GetById. Deletion here
  is that of one table; `Serving` has the detaching in others. A token and a reply are looked at, never decoded.
* *Serving.* A record is its `updated_at`, the field pages are ordered by. `mentions`
  stands for the relations with a target table, `relates_to` for those inside one.
  ReplaceIf's guard is the one a sync sends: the stored stamp is older. Projections, and the
  filter and limit of a join, are left out. An aggregate request has one function (the code
  reduces each by itself), and an average is its sum and its count. A query takes its
  rows from a scan of one table; which of the scenario's queries it was is chosen when the scan
  is over, which no step in between depends on. Replies are not kept, but for the last query's. Storage fails only
  in a detach, whose error the request
  passes on. One connection pages, joins, queries and traverses, the others write: reads do not disturb
  each other. The index is exact under its lock, as the live records' keys. What a finished read
  found is forgotten when the tables change next.
* *Client.* One record per table, and no values: a write is its table and its kind. A call
  that the client refuses by itself sends nothing and is no step. The first table is joined
  with the others. A lost connection loses what is on the wire, request or reply.

## Runs

| Run | Instance | Shows |
|---|---|---|
| `commit_group` | 3 threads, 3 appends, a partial append at length 1, every sync may fail, no crash | `TypeOK`, `WriteAhead`, `OneTurn`, `TruncatedIsOnDisk`, `NoLostWakeup`, `ApplyInOrder`, and `EveryCommitReturns` under fairness |
| `commit_group_crash` | 2 threads, 3 appends between two opens, 2 crashes | `AckedSurvive`; `ImplementsRegister` (refinement of `DurableRegister`) |
| `commit_group_torn` | 1 thread, partial appends, 1 crash | finding: `AckedSurvive` fails |
| `adapter` | four scenarios of 3 or 4 clients on 2 records | `AllOrNothing`, `AckedStand`, `NoLostUpdate`, `RefusedInvisibleUnlessReplayed` |
| `store` | seven scenarios on 2 records, 2 to 4 writes, 4 log entries, up to 3 crashes | `Promised`, `SlotsSound`, `IndexExact` |
| `layers` | six compositions over 2 or 3 records, 2 entries in an edge log, 3 slots | `ViewsExact`, `OpensAgain`, `GhostsOnlyFromCutDeletes`, `AnswersStand`; `ImplementsEdgeSet` (refinement of `EdgeSet`) |
| `dog_store` | 5 lists of up to 3 dogs, 4 openings, 2 updates | `AgesByIdentity`, `PortablePair` |
| `durability` | seventeen scenarios: seven stores killed twice, four with failing writes and misuse, six that lose power | `RecoversPromised`, `OpensAgain` |
| `concurrent_stores` | 3 threads without end, 2 dogs and an unknown one, 2 shards, every routing | `ImplementsAgeMap` (refinement of `AgeMap`) |
| `connection` | six scenarios of 1 to 3 connections on 2 tables and 2 records, from 2 addresses | `SessionSound`, `ReadYourWrites`, `ValidatedStaysValid`, `FailuresBounded`, `WritesAuthorized`, `SnapshotCommits` |
| `serving` | eight scenarios of 1 or 2 writers and a reader on up to 3 memories and 2 entities | `EdgesResolve`, `AckedLinksStand`, `WalkExact`, `JoinFaithful`, `TraverseFaithful`, `QueryFaithful` |
| `client` | three scenarios, servers of versions 1, 2, 11, 14, 15 and 22, 2 tables, 3 connections | `InStep`, `AnswersTrue` |

Type invariants are checked by themselves (`TypeOK`) or as a conjunct of another invariant
(`AllOrNothing`, `SlotsSound`, `SessionSound`, `EdgesResolve`, `ViewsExact`, `AgesByIdentity`, `RecoversPromised`).

Bounds. Three threads and three entries are the least in which a leader has a
follower and a thread that arrives during its sync, and in which the turn is
passed on twice; the journal's checkpoint threshold is one entry, so that a
checkpoint falls into every run, with and without entries behind it. Two
crashes make one fall into the recovery from the other. Two records and three
clients give overlapping transactions in opposite orders with a third writer in
between. Four versions let one record be written three times and compacted in
between.

In `LayerStack`, two entries in a log are a link and the tombstone that undoes it, before and after a
compaction; two records give an edge, a third a bucket with a middle; three slots are one for each and one stale. Nothing else is bounded: clients
and crashes go on for ever. In `DogStore`, a list in the other order, one without a dog, one
with a new dog and one with a dog twice are each opened after each other. In `Durability`, three updates
are one before, one during and one after a checkpoint, two generations the least that have an order,
four log entries one more than the updates; two crashes as above. In `ConcurrentStores`, two threads
race and a third reads; threads are interchangeable, and only safety is checked, so the symmetry
is sound; two dogs are in one shard or in two.

For connections, MAX_STAGED_OPS (2 here), MAX_TRACKED_READS (3, one less than there
are fields) and MAX_TRACKED_PEERS (1 of 2) are small so that each is reached; the
versions are those at which some request or flag appears, and one newer than
the server; two connections of one peer and a budget of 2 make both pass the throttle
before either notes its failure. The client's servers include one without each of the
requests of the model and one with all; three connections are one, its
fallback, and one after. In `Serving`, three memories and pages of two rows
give every walk a page boundary with a row on each side and two stamps rows of equal
keys; its writer is alone, since a walk meets writes one at a time. Two writers are
what the races of link and delete need, and batches of up to three writes have one
before and one after the write that matters. A path of three memories and two entities has
ends four hops apart, one more than MaxDepth, and one id more than MaxNodes. Integers end at
3 (IntMax), so that two rows of stamp 2 overflow a sum and one of each stamp does not: a build that checks arithmetic
panics (`Panicked`), another wraps, as `docs/design/SERVER-SQL-AGGREGATE-DESIGN.md:234` accepts.
All bounds are constants; the proofs do not use their values.

Most runs say `CHECK_DEADLOCK FALSE` because clients do a bounded number of things
and then stop. That no commit stops for ever is `EveryCommitReturns`. The other runs check
for deadlock: there a stack, a thread or a connection can always go on.

Fairness. `FairSpec` of `CommitGroup` gives weak fairness to the `Step` of each thread, which is
enabled exactly when the thread is not blocked on the condvar or parked: the
operating system runs every runnable thread, and `sync_data` returns, with success
or an error. Nothing is assumed of crashes, of failing operations, of spurious
unparks or of new commits. Strong fairness is not needed, since each waiting
thread is woken by a definite other one. The other modules state safety alone: their locks are
the standard library's and a client's call ends with its reply or its connection.

Each property of a passing run has a mutant in `PROJECT.json`, a plausible bug in
the code that the property catches; the mutated definitions stand next to the
originals.

## What is proved

The theorems hold for every value of the constants that satisfies the named assumptions of the
modules; the hypotheses that go further are said here. Every proof is of one form: an
inductive invariant, one lemma per conjunct or per action, and the property from the invariant.

### Commit group

`CommitProofs`, for any set of threads and any bounds, from `BoundsAssumption` and
`TornAtAssumption`:

* `TypeCorrect`, `WriteAheadHolds`, `OneTurnHolds`, `TruncatedIsOnDiskHolds`,
  `ApplyInOrderHolds`, `NoLostWakeupHolds`;
* with `TornAt = {}` (a failing append leaves no bytes): `AckedSurviveHolds` and
  `Refinement`, that `Spec` implements `DurableRegister`. Without that condition
  both are false, which is the finding of `commit_group_torn`.

The invariant is `IndInv`. None of the properties is
inductive alone: `WriteAhead` needs to know that a batch at the gate that is not
refused is durable and that no failed sync covered it (`DurableInv`), which needs
sequences of threads inside `commit` to be distinct and not yet released
(`ThreadInv`); that truncation is safe needs the store behind every batch not
applied and equal to the one just applied (`StoreInv`, `AppliedInv`); and
survival needs the journal or the store to have every acknowledged batch at
each step of a recovery (`RecoveryInv`). `NoLostWakeup` needs, besides, that the flag
`syncing` is raised only while some thread leads (`WakeInv`), and that releasing a turn passes
a token to every parked thread whose sequence it reaches (`TurnGateWakes`). `ApplyInOrder` and the
refinement follow from `IndInv` and its successor.

### Transaction adapter

`TransactionAdapterProofs`, for any clients, programs, records, crashes and
checkpoint threshold, from `ScenarioAssumption` (programs are programs): 

* `BaseInvariant`: types; at most one transaction is in the exclusive section, and journaled it is
  the one whose turn it is (`ControlInv`, `JournalInv`); a journal has no entry twice, and those before the turn are
  done; what has not reached its section is nowhere, and what is in it has written its first records
  and no other (`FreshInv`); stamps of writes are distinct (`OrderInv`).
* `SnapshotIsolation` (`NoLostUpdate`): of two winners that read the same version and write it, the second would
  have been refused, since a winner's read was the version its write replaced (`ReadInv`).
* `RefusedNeverSeen`, from `RefusedInv`: the disk must be in it, since a crash makes a table of it.
* `Atomicity` (`AllOrNothing`), from `WholeInv`: the table, *and every table the disk could become*, has each
  transaction whole, but for those whose entries the journal has. It assumes `CrashNeedsJournal`: where a crash
  may come, the adapter has a journal. One without promises nothing of a transaction across a crash.
* `AcknowledgedWritesStand` (`AckedStand`), from `AckedInv`: on the disk and in the journal, too, nothing
  precedes an acknowledged write that a recovery would put over it. It assumes `LoggedWritesOnly`: where a crash may
  come, the adapter is journaled and the programs are transactions and deletions. Without that the property is
  false (see the findings): replay overwrites an acknowledged `UpdateField`, or a record inserted again.

The scenarios of the run `adapter` satisfy both hypotheses, so the run asks the same question.

### Memory-mapped store

`MmapStoreProofs`, for any finite set of ids, any operations, faults, numbers of writes and
crashes, from `StoreAssumption` (scenarios are scenarios). The first three theorems need no more.

`StoreInv` has the positions (`Placed`: distinct ones, none beyond the mapping while a file is mapped; `Numbered`: wherever the file is
the one they were given for, the slot there has the record's id and is its last committed one, but for ids in `stray`), the index
(`Indexed`), which records have positions (`Held`), and what holds between the steps of an operation (`Stages`: the slot file in the middle of a compaction is the one rewritten from the blob, in the order of the old
positions; the slots of an opening have one for each record but the missing ones). `SlotsAreSound` and `IndexIsExact` follow. That a
gapless file has no slot but those of live records is a cardinality argument (`GaplessScan`); sets listed in an order, buckets with a member taken out and the last
committed slot of an id are lemmas about least and greatest numbers (`OrderedFacts`, `WithoutLists`, `SlotInFacts`).

`PromisesKept` (`Promised`) follows from `PromiseInv`, and that needs one hypothesis more, `AllSafe`: a scenario with power
losses has no replacements, no deletions and no failing slot append. There the code keeps its promises only in part: a
power loss may bring back the value that a replacement overwrote or the marker that a deletion cleared, and lose the slot an
append left. The scenarios of the run `store` satisfy it: the only one that loses power inserts,
updates, flushes and compacts. Processes that are killed, in any number and at any step, go with every operation and fault.

`Promised` is about readers and says nothing of what a crash would leave, so it is not inductive. `PromiseInv` says that of
every state, in three parts:

* `Outcomes`. While there is a process, each id is `Assured`: the body in use (`InUse`) and the one blob and log hold are
  both bodies of allowed outcomes; with a position, the value in its slot goes with both (`Good`), and so does what a power loss
  would leave of the slot (`Firm`); without one, the record of blob and log is allowed as it is and no committed slot would
  be found for it. While the file is renumbered and the positions are not, the slot open would find takes the place of the position; for
  an id in `stray`, only the bodies are held to. When there is no process, what open would make of the files (`Recovered`) is allowed.
* `Tidy`: but for stray ids no id has two committed slots (`Single`), flushed slots keep ids and markers (`Same`), and an
  opening appends no slot whose value is not the record's.
* `BlobAndLog`: blob and log hold the bodies in memory, and between the steps of an operation the entry or the blob just written.

`AssuredAfter` is the center: whatever slots survive (`Left`), an assured id is recovered as an allowed outcome; `DoubtfulAfter`
is the same for stray ids, with any value. `AssuredCarried` and its variants take the promises of the others over a step, `FoldSame` and `Spliced` over
a log read past a torn entry, which loses entries of only the ids that history notes.

### Layers

`LayerStackProofs`, for any finite set of ids, any compositions of layers, labels and bounds, from `StackAssumption`
(stacks are stacks; the ids of two tables differ) and `ValueAssumption` (`Absent`, `NoLabel` and `NoFile` are no
records, labels, lists of slots or sets of edges). Four invariants, each on top of the first:

* `Core`, for the middle of every operation: what the operation holds of the state is still so (`WriteHolds`, `LinkHolds`,
  `FoldHolds`), which files there are (`Blank`, `FilesThere`), which labels are in memory (`InMemory`), which slot is a
  record's (`SlotsOk`), and that the inner layers show the records (`InnerOk`). `FilesOpenAgain` is its consequence: a
  label's blob is there before the manifest names it.
* `EdgesOk`: but for what is in doubt, a label's memory, its blob under its log, and, while it is folded, its new blob under
  the old log, are the same edges. That a log may be replayed over a blob that has been folded already is
  `MergeFacts`: the last entry about an edge decides, so that merging twice is merging once. `LayersKeepEdges`, that
  `Spec` implements `EdgeSet`, goes through the actions (`RefinesStep`); `GhostsExplained` adds which ids may have
  edges without a record (`GhostsOk`).
* `Answering`: the record that memory gives a reader, and the one an opening would find, are among those
  that are allowed; the slot below and the record beneath are changed in two steps, and between these an opening
  finds either. `AnswersWereLeft` follows.
* `OuterOk`: the outer layers show the records as they were before the write under way, of which `Finish` makes those after
  it. Each of the layers goes from an old record to a new one by one function of both (`Moved`), and a layer that
  is exact before is exact after (`MovedLists`); a layer that is rebuilt at an opening is a fold over the live records, and exact for each of
  its beginnings (`RebuiltFacts`). `LayersExact` follows from all four, with the scan of a column
  by cardinality (`ColumnFacts`).

That a failed operation leaves views and records apart is in the hypothesis of `ViewsExact`, as in the code.

### Shared stores

`DogProofs`, for any dogs, callers, shards and each variant, from `StoresAssumption`:
`StoresAreAgeMaps`, that `StoresSpec` implements `AgeMap`. An operation takes effect where it has its
lock, or where the actor serves it; an update of the cached store takes effect at its first write, and the
invariant says that the cache lacks just that update until the second, while no reader
can look (`LockInv`, `CacheInv`). That every step maps to a step of the map or to a stutter needs the answer a
caller holds to be one the map has given (`AnswerInv`) and each queued message to belong to a caller that waits
(`QueueInv`).

### Dog store

`DogProofs`, for any lists, from `DogStoreAssumption` (lists are sequences of slots): `AgesFollowDogs`
(`AgesByIdentity`) and `PairPortable` (`PortablePair`). The invariant is `DogInv`: memory points at the
last slot of each id (`MemoryInv`); each id's slot, live or not, holds one of its own ages (`AgesInv`); and between calls
the companion names the dogs last told, and each of those has a slot (`PairInv`). The last is what
makes the first two inductive: an id that is told and not cut cannot be without a slot, so an
opening cannot give it its caller's age. That the slot of an id exists at all, and that the sorted walk passes each
record once, are lemmas by least numbers (`SmallestOf`, `GreatestOf`, `AscendingFacts`) and cardinalities.

### Connections

`ConnectionProofs`, for any connections, addresses, tables, tokens, versions and limits, from `ConnectionAssumption`
(finitely many connections; scenarios are scenarios; the limits are at least one). The invariant is `ConnectionInv`:

* `Sound` for the locals of each connection: a session's connection is alive, past its first request (so that no
  `Hello` can change its version) and on the table it began on; the read set is a part of what the client was shown, with the same
  values. `SessionsSound` is its consequence; `SnapshotsCommit` needs its last part, and that a session whose
  commit was the last answer is closed (`ReplyInv`).
* `Standing`: what a validating session staged is valid, or its record is among those deleted (`ValidationStands`). It
  survives the writes of others since these but for `Delete` leave every record where it was (`TablesStep`, which for a batch
  is `AppliedFacts`).
* `WindowsInv`: a window that counts has room for the failures that were seen and are still to be noted, by
  connections between the two critical sections. The bound of `FailuresAreBounded` is not inductive without it, and
  it is inductive because a check that throttles lets nobody join those connections. Expired windows
  are exempt until they are replaced. That eviction leaves room for one more is `EvictionFacts`.

`SessionsReadTheirWrites` compares two computations: the batch applied operation by operation, and the last staged value
of each field. `AppliedFacts` says what a batch of any length leaves, by the least length for which it would not
(`Iterates`, `OneMore`, `UpTo`); `OverlayFacts` that the overlay shows the same. `WritesAreAuthorized` is a consequence of
the gates alone, over every action.

### Clients

`CommitProofs`, for any server versions, tables, tokens, limits and number of connections, from `ClientAssumption`
(scenarios are scenarios; `None` is no table and no number) about `ClientSpec`: `StaysInStep` (`InStep`) and `AnswersAreTrue`
(`AnswersTrue`). Both speak of the moments between two calls and of nothing else; what a call does in between is a
request and a reply for each stage of it. The invariant, `ClientInv`, is that middle: which request is on the wire in which
stage and which replies it may get (`OnWire`), the version, table and session that the server has while the
request and then its reply are on their way (`InVersion`, `OnTable`, `InSession`), and what the server has done
for the call so far (`Done`). It is where the fallback to an older version, the way back of a failed
`use_table` and the update answered `Staged` outside a `Session` are settled. A cut connection ends
every conjunct that speaks of the server; what remains (`Always`) says what the client's fields may then be.

### Requests over two tables

`ServingProofs`, for any memories, entities, stamps, connections, batches, page size, depth and number of nodes, from
`ServingAssumption` (scenarios are scenarios: of an edge there at the start both ends are; ids and stamps are
finitely many, as 64-bit integers are). The invariant is `ServingInv`:

* `LinksOk` for the writers: acknowledged links are there, an edge without one of its ends is accounted for, and, which makes these
  inductive, a deletion whose detach is still to come has no acknowledged mention (`Kept`) and a checked
  far end is there unless it has been noted as stale (`Checked`). `EdgesAlwaysResolve` and `AckedLinksAlwaysStand` follow. An
  atomic batch is any number of writes under one lock: `AppliedFacts` goes through them one by one, by the least number
  of writes for which `LinksOk` would not hold (`Iterates`, `UpTo`).
* `WalkOk`: in the middle of a page, the untouched rows are those already returned, those among the ids still
  to be looked up, and those beyond the page; the chosen keys ascend (`GotExactly`, `RowGot`). `WalksAreExact`.
* `JoinOk`: a mention that stood all along is in the rows, or its left end is still to be read, or its right end still to be
  got. `JoinsAreFaithful`.
* `HopsOk`: ids have the depth of a parent and one more; of those whose neighbours were asked for, the neighbours that stood
  are in, a hop deeper at most (`Explored`). The id whose neighbours filled the traverse is the
  exception, and one of depth two more has to be there for it not to be: with that, `TraversesAreFaithful` follows by going out
  from the root, over mentions there were (`DepthsAreReached`) and over those that stood (`BallsAreVisited`).

Each of the three last is kept by any write of another connection (`WalkChanges`, `JoinChanges`, `HopsChanges`), since what a write
touches is no longer untouched, or standing.

### Durable variants

`DurabilityProofs`, for any ids, ages, scenarios, numbers of updates, flushes, failing operations and crashes, from
`DurabilityAssumption` and `FileAssumption` (a missing or torn file is no number, table, entry or snapshot):
`OpensAgainHolds` (`OpensAgain`), and, with `PowerSafe`, `RecoversPromisedHolds` (`RecoversPromised`).

* `FilesInv` says which files there are and what has left its mark when one of them does not open (`Readable`); `OpensAgain`
  follows. It holds in every scenario.
* `Story` says what the files hold, and only as long as nothing that `RecoversPromised` excepts has happened. A log
  tells the updates since its start one by one (`Follows`), but it may begin before the history does: an opening after
  which nothing is left to lose starts a new history (`off`). Every snapshot, the present one and those a power loss may bring
  back, together with the entries after its cutoff, leads to the state at that start, or is itself a state since
  (`Leads`). The generations give what `LsmStore`'s log does not tell (`Under`), for the count in memory *and* for the
  one on disk, between which a flush may be cut. Readers see what was answered (`Seen`). `RecoversPromised` alone is not inductive:
  it says that some first updates are what the files give now, not that the next truncation, flush or loss leaves it so.

A history can be put together from its parts (`Updated`, the last update of each id, in closed form) without induction over its
length, and that is how the lemmas about replay go.

`PowerSafe` leaves out power losses of `lsm_store`, and those of `wal_fsync` and `wal_buffered` once a checkpoint
has replaced the log by a file that is never synced: for these the property is false, which is one of the findings below, or
the losses of the generations' files are not modelled. TLC evaluates it on the scenarios of the run (`AllPowerSafe`), so
that the theorem speaks of each of them.

### Checked by TLC only

* `EveryCommitReturns`: liveness and `ENABLED` are beyond the prover.
* `QueryFaithful` of `Serving`: what `Queries` computes is a fold over the rows of a scan, inside of which are folds over
  each group, and what such a recursion yields for every input takes induction over an operator.

Induction over numbers is at hand in the form of least elements of sets (`WFMin`), which is what the
lemmas about batches, walks and balls use.

## Findings

`server/journal.rs:287`: the bytes of a failing append stay in the journal, and
replay stops at them, before later acknowledged batches. The run `commit_group_torn` shows it.

The models show more divergences between the code and what its documents and comments say of it.
They have no run of their own; each is a scenario or a stronger property away.

Transactions and journal:

* `TransactionAdapter`, a journaled transaction and a deletion: it is validated outside the exclusive
  section that applies it (`server/reminder.rs:426`), so a deletion in between leaves it half applied and
  refused, against "either every write in `updates` is applied, or none are" (`server/serve.rs:434`).
* `TransactionAdapter`, one transaction, one later deletion of its record, a crash: replay
  reaches `phase = "broken"`, although `JournalError::Replay` is called impossible
  (`server/journal.rs:76`). `AllOrNothing` and `AckedStand` hold all the same, since such
  a table does not open.
* `TransactionAdapter`, a session refused with `Conflict` and a crash: its entry is
  replayed (`RefusedInvisible` fails). `RefusedInvisibleUnlessReplayed` states what
  remains.
* `TransactionAdapter`, a transaction, then an `UpdateField` of the same record, and a
  crash: replay puts the older value back (`AckedStand` fails), against
  `server/journal.rs:15`. So does a transaction, a deletion of its record and an insertion under the same id, all
  acknowledged, and a crash before the next checkpoint. The passing scenarios with crashes have transactions and deletions only, which is
  the hypothesis `LoggedWritesOnly` of the theorem.
* `CommitGroup`: `failed_upto` also refuses a waiter whose own sync succeeded when a
  later one fails before it runs, against the comment at `server/journal.rs:371`. The
  client is told less than the truth; no property breaks.

Stores:

* `MmapStore`, insert and delete, two crashes: a slot orphaned by a crash in `delete` is paired with
  a later record of the same id (`generic/mmap_store.rs:671`), though `generic/slot_file.rs:192`
  says that `open` ignores such a slot. `Promised` allows that record any value (`stray`).
* `MmapStore`, an entry appended behind a torn one: `raw_entries` takes the piece for a torn tail and drops what is behind it
  if its length reaches beyond the end (`generic/insert_log.rs:215`), so that an acknowledged write is lost and an
  acknowledged deletion undone, against "`Ok` means ... durable"; or the store does not open (`phase = "broken"`).
  `Promised` excepts the ids of the entries behind the piece (`ReadTorn`).
* `MmapStore`, a slot appended in part: the position of the next is computed from the length of the file
  (`generic/slot_file.rs:231`), so that it and all behind it are read out of step, by the live store and by `open`.
  `Promised` allows these records any value, and holds all others to their own.
* `MmapStore`, a compaction whose rewrite fails after the rename, or whose last step fails: the slot file is renumbered, `compact`
  returns with stale positions (`generic/mmap_store.rs:938`), against "Nothing a reader sees changes" (`:903`). In the first case the
  store seems dead, but the next insert maps the new file (`generic/slot_file.rs:433`) and it serves again, values read from and written
  to other records' slots (`misnumbered`).
* `MmapStore`: after a power loss `replace` may keep the old scannable value, and a deleted record's slot, or one whose append had failed,
  may be back. The passing scenario with power losses has none of the three.
* `DogStore`: after a crash between the rewrite of the ages and the blob, `open_portable` with the
  old blob gives a dog that was dropped the age of its first caller; an opening that only drops dogs keeps
  their slots, so a dog added again gets the age of its earlier life. `AgesByIdentity` allows both.
* `Durability`: an `update_age` of an unknown id is logged before `NotFound` is answered (`wal_fsync`,
  `wal_buffered`, `hybrid`), and every later opening fails.
* `Durability`, `hybrid` after a power loss: new entries are numbered from what is left of the log,
  below the snapshot's cutoff, and the next opening drops them. And a snapshot that a crash left half written
  does not open, against `durability/hybrid.rs:33` ("`open` can fall back correctly").
* `Durability`, `wal_fsync`: a failed sync leaves the entry's sequence number to the next one, against
  "strictly monotonically increasing" (`durability/mod.rs:290`); `create` leaves `base.bin`, which the next
  opening prefers, against "any existing files there are overwritten" (`durability/wal_fsync.rs:39`); a
  checkpoint is never synced before the log is truncated, so that a power loss takes updates that were synced.
* `Durability`: an entry appended behind a torn one is lost to every opening, or misread together with the
  torn piece (`OpenMisreads`).

Layers:

* `LayerStack`: a crash, or a failing tombstone, in a deletion leaves edges of an id that is gone, and a
  record inserted again under it has them, against `docs/design/SERVER-DELETE-DESIGN.md:184` and `:221`.
  `GhostsOnlyFromCutDeletes` states what remains. After a failing tombstone, `Ordered` and `NameIndex`,
  which lie above, still list the record.
* `LayerStack`: a link that is in the log though its append failed is not in memory; a later deletion sees
  no edge and writes no tombstone. And a link answered `AlreadyLinked` on an edge whose
  tombstone is on the disk, though appending it failed, is gone after the next opening.
* `LayerStack`: a crash between the files of `create` leaves a stack that does not open
  (`generic/memory.rs:250` says so: "reported by the reopen").
* `LayerStack`, `MmapScanned`: a record whose slot could not be appended is found by `get` and is `NotFound` for
  `update` until the next opening; a slot outlives a record whose deletion was cut short, and
  the next record of that id reads it. `MultiSymmetric::open` with a caller's list of edges
  reads no blob of a label that only the manifest names.

Requests and clients:

* `Serving`, a walk beside deletions: a page's rows are read after its ids were chosen, under other
  locks (`server/memory.rs:449`); when all of them are deleted in between, the page is empty, and the client
  ends its walk before rows that were there all along (`docs/design/SERVER-PAGE-DESIGN.md:142`). `WalkExact`
  states what remains.
* `Serving`, one atomic batch: a batch whose link has no right end, or whose link is of a memory it deletes,
  is refused after the writes before the link were applied (`server/entity.rs:544`), against
  `server/protocol.rs:929`.
* `Serving`: a batch's `Link` is not checked against the far table, and a batch's `Delete` of
  an entity does not detach it, though a write in a batch is described as its
  single-record request (`EdgesResolve` without its exceptions fails).
* `Serving`: a pipelined batch locks the table once for each write, against "under one
  acquisition of the table's write lock" (`server/protocol.rs:925`).
* `Serving`: an atomic batch that inserts a record and links it is refused, since the
  links' left ends are looked up in the state before the batch.
* `Serving`: a link answered `Ok` after its entity was deleted and inserted again, while the
  detach of the deletion is still to come, is dropped by that detach: the exception
  of `AckedLinksStand`.
* `Connection`: an operation validated when staged is refused at `Commit` if its record was
  deleted since, against `server/serve.rs:427` ("`Ok` here is `Ok` at `Commit`"), which
  predates deletion. `ValidatedStaysValid` states what remains.
* `Client`: a `Commit` refused for a read-only token (`server/serve.rs:2567`) leaves the session
  open on the server while the client's `Session` is gone. The next `begin` is answered `SessionOpen`, which
  "cannot happen from safe use of this API" (`server/client.rs:988`), as are `use_table` and `insert`; an update is staged, not
  applied. `InStep` excepts it (`left`).
* `Client`: `upsert`'s second call may find no record, though its comment calls that unreachable
  (`server/client.rs:1728`): it predates deletion.
* `handle_connection` is documented to answer a frame it cannot decode with an error when possible
  (`server/serve.rs:2227`); it closes the connection without one.

## Not modelled

Left out, and why:

* *One locked call each, and pure*: `FilterEq`, `ScanField`, counts, `Compact` as a request, parents and
  children, projections. They read under one lock what `LayerStack` keeps exact.
* *SQL* (`server/sql.rs`): a parser over characters. The requests it makes are those of `Serving`, their
  evaluation is `Queries`.
* *The Python client*: the requests of the Rust client without its fallback and its sessions. It has a timeout on its
  socket, after which a reply that comes late would be read as the next call's.
* *Wire encoding, audit and access-log formatting, certificates, binaries, benchmarks*: data and I/O, without control
  of their own.
* *The in-memory layouts* `aos`, `soa`, `canonical`: sequential, and compared with each other by the repository's tests.
* *The other adapters*: `employee.rs`, `order.rs`, `relation.rs` repeat what `dog.rs`, `reminder.rs`, `memory.rs`
  and `entity.rs` do; their compositions of layers are among `LayerStack`'s.
* *Lock poisoning, failing renames' durability, a full address space*: no code path of the crate recovers from them.

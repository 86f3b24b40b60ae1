----------------------------- MODULE Durability -----------------------------
(***************************************************************************)
(* The stores of durability/: one set of records whose ages are updated,   *)
(* kept by a write-ahead log (wal_fsync, wal_buffered), by snapshots       *)
(* (snapshot_full, snapshot_rebuild), by both (hybrid), by a log and       *)
(* flushed generations (lsm) or by an embedded engine (redb).              *)
(*                                                                         *)
(* A file that std::fs::write replaces is Torn from its truncation to its  *)
(* last byte; so is a log entry of which only a piece was written.  The    *)
(* caller of open supplies the records of create, Seed.                    *)
(***************************************************************************)
EXTENDS Naturals, FiniteSets, Sequences, SequencesExt, Functions

CONSTANTS
  Ids,        \* the ids of the records
  Unknown,    \* an id that has no record
  Ages,       \* the values of the one field that changes
  Seed,       \* the ages the records are created with
  MaxFlushes, \* how many generations there may be
  MaxLog,     \* how many entries a log may have
  NoFile, Torn,
  Scenarios   \* the store, how it crashes, the faults, calls and numbers of both

Logged == {"wal_fsync", "wal_buffered", "hybrid", "lsm"}
Snapshots == {"snapshot_full", "snapshot_rebuild"}

IsScenario(s) ==
  /\ s.store \in Logged \cup Snapshots \cup {"redb"} /\ s.power \in BOOLEAN
  /\ s.faults \subseteq {"append", "sync", "write"} /\ s.calls \subseteq {"checkpoint", "unknown", "create"}
  /\ {s.updates, s.crashes} \subseteq Nat

ASSUME DurabilityAssumption ==
  /\ Unknown \notin Ids /\ Seed \in [Ids -> Ages]
  /\ {MaxFlushes, MaxLog} \subseteq Nat
  /\ \A s \in Scenarios : IsScenario(s)

VARIABLES
  scenario,
  ages,       \* CanonicalCachedState's ages, or LsmStore's base records
  memtable,   \* LsmStore's, a function on the ids updated since the last flush
  generations,\* flushed_generations
  nextSeq,    \* next_seq
  log,        \* wal.log
  base,       \* base.bin, snapshot.bin, the snapshot file or the engine's file
  ssts,       \* sst_N.bin
  counted,    \* generations.bin
  phase,      \* "up", "down", "refused"
  pc,         \* where the one call in progress stands
  start,      \* the ages of an earlier opening or when the log was last emptied
  history,    \* the updates since, each with its answer
  floor,      \* how many of them every opening must find
  safe,       \* and after a power loss
  synced,     \* how many entries of the log a power loss leaves
  older,      \* what base held since it was last known to be on the disk
  spoiled,    \* what may keep the files from opening
  crashes

memory == <<ages, memtable, generations, nextSeq>>
tables == <<ssts, counted>>
files  == <<log, synced, base, older, tables>>
life   == <<scenario, phase, start, crashes>>
ghosts == <<history, floor, safe>>
vars   == <<memory, files, life, ghosts, pc, spoiled>>

store  == scenario.store

Entry(seq, x, age) == [seq |-> seq, id |-> x, age |-> age]
\* seq_at_snapshot is one less than below: 0 stands for None.
Snapshot(cutoff, a) == [cutoff |-> cutoff, ages |-> a]
Empty == [x \in {} |-> 0]

\* Neither a torn file nor a missing one can be taken for a whole one.
ASSUME FileAssumption ==
  /\ NoFile # Torn /\ {NoFile, Torn} \cap Nat = {}
  /\ {NoFile, Torn} \cap [cutoff : Nat, ages : [Ids -> Ages]] = {}
  /\ Torn \notin [seq : Nat, id : Ids \cup {Unknown}, age : Ages]
  /\ \A S \in SUBSET Ids : {NoFile, Torn} \cap [S -> Ages] = {}

With(f, x, a) == [y \in DOMAIN f \cup {x} |-> IF y = x THEN a ELSE f[y]]

\* The ages f after those of the updates whose indices are in at, in their order.
Updated(f, updates, at) ==
  LET of(x) == {i \in at : updates[i].id = x} IN
  [x \in Ids |-> IF of(x) = {} THEN f[x]
                 ELSE updates[CHOOSE i \in of(x) : \A j \in of(x) : j <= i].age]

Init ==
  /\ scenario \in Scenarios
  /\ ages = Seed /\ memtable = Empty /\ generations = 0 /\ nextSeq = 1
  /\ log = <<>> /\ synced = 0 /\ counted = NoFile
  /\ ssts = [g \in 1 .. MaxFlushes |-> NoFile]
  /\ base = IF scenario.store = "redb" THEN Snapshot(0, Seed) ELSE NoFile
  /\ older = {NoFile}
  /\ phase = "up" /\ pc = "idle" /\ crashes = 0
  /\ start = Seed /\ history = <<>> /\ floor = 0 /\ safe = 0
  /\ spoiled = IF scenario.store \in Snapshots THEN {"no_snapshot"} ELSE {}

-----------------------------------------------------------------------------
(* What readers see                                                        *)

\* The generations at which resolve_age stops: those with the record, and those
\* that cannot be read.
Unread == {NoFile, Torn}
Stops(n, x) == {g \in 1 .. n : ssts[g] \in Unread \/ x \in DOMAIN ssts[g]}
Newest(n, x) == CHOOSE g \in Stops(n, x) : \A h \in Stops(n, x) : h <= g

\* LsmStore::resolve_age: the memtable, then the generations from the newest, then
\* the base records.  Where it cannot read, get and scan_ages leave the record out.
Resolved(table, n) ==
  [x \in Ids |->
     IF x \in DOMAIN table THEN table[x]
     ELSE IF Stops(n, x) = {} THEN Seed[x]
     ELSE IF ssts[Newest(n, x)] \in Unread THEN Torn ELSE ssts[Newest(n, x)][x]]

Current == IF store = "lsm" THEN Resolved(memtable, generations) ELSE ages

-----------------------------------------------------------------------------
(* update_age                                                              *)

Room == phase = "up" /\ pc = "idle" /\ Len(history) < scenario.updates
        /\ Len(log) < MaxLog /\ nextSeq <= MaxLog
Record(x, a, answer) == history' = Append(history, [id |-> x, age |-> a, answer |-> answer])

\* An entry behind a torn one is lost to every replay.
Behind == \E i \in DOMAIN log : log[i] = Torn
AppendEntry(x, a) ==
  /\ log' = Append(log, Entry(nextSeq, x, a))
  /\ spoiled' = spoiled \cup (IF Behind THEN {"behind"} ELSE {})

\* The answered update: every later opening must find it, unless the store keeps
\* updates in memory only.
Answered(keeps, forced) ==
  /\ floor' = IF keeps THEN Len(history') ELSE floor
  /\ safe' = IF forced THEN Len(history') ELSE safe

\* wal_buffered and hybrid: the entry is appended, then the state updated.
\* lsm: the same with the memtable; the id was looked up before.
UpdateLogged(x, a) ==
  /\ Room /\ store \in Logged \ {"wal_fsync"}
  /\ AppendEntry(x, a) /\ nextSeq' = nextSeq + 1
  /\ IF store = "lsm" THEN memtable' = With(memtable, x, a) /\ UNCHANGED ages
     ELSE ages' = [ages EXCEPT ![x] = a] /\ UNCHANGED memtable
  /\ Record(x, a, "ok") /\ Answered(TRUE, FALSE)
  /\ UNCHANGED <<generations, synced, base, older, tables, life, pc>>

\* wal_fsync: the entry is appended, then synced, then the state updated.
AppendUnsynced(x, a) ==
  /\ Room /\ store = "wal_fsync"
  /\ AppendEntry(x, a) /\ Record(x, a, "pending") /\ pc' = "sync"
  /\ UNCHANGED <<memory, synced, base, older, tables, life, floor, safe>>

Settled(answer) == history' = [history EXCEPT ![Len(history)].answer = answer]

SyncOk ==
  /\ phase = "up" /\ pc = "sync"
  /\ nextSeq' = nextSeq + 1
  /\ ages' = [ages EXCEPT ![Last(history).id] = Last(history).age]
  /\ Settled("ok") /\ Answered(TRUE, TRUE) /\ synced' = Len(log) /\ pc' = "idle"
  /\ UNCHANGED <<memtable, generations, log, base, older, tables, life, spoiled>>

\* The entry stays in the log and its number is used again.
SyncFails ==
  /\ phase = "up" /\ pc = "sync" /\ "sync" \in scenario.faults
  /\ Settled("error") /\ pc' = "idle"
  /\ UNCHANGED <<memory, files, life, floor, safe, spoiled>>

\* write_all fails after a piece of the entry.
AppendFails ==
  /\ Room /\ store \in Logged /\ "append" \in scenario.faults
  /\ log' = Append(log, Torn)
  /\ spoiled' = spoiled \cup (IF Behind THEN {"behind"} ELSE {})
  /\ UNCHANGED <<memory, synced, base, older, tables, life, ghosts, pc>>

\* The logs of wal_fsync, wal_buffered and hybrid take the entry before the state
\* says NotFound; wal_fsync has counted it by then, as have the others.
UpdateUnknown(a) ==
  /\ Room /\ store \in Logged \ {"lsm"} /\ "unknown" \in scenario.calls
  /\ log' = Append(log, Entry(nextSeq, Unknown, a)) /\ nextSeq' = nextSeq + 1
  /\ spoiled' = spoiled \cup {"unknown"} \cup (IF Behind THEN {"behind"} ELSE {})
  /\ Record(Unknown, a, "not_found")
  /\ UNCHANGED <<ages, memtable, generations, synced, base, older, tables, life, pc, floor, safe>>

\* The snapshot stores update their state alone.
UpdateState(x, a) ==
  /\ Room /\ store \in Snapshots
  /\ ages' = [ages EXCEPT ![x] = a]
  /\ Record(x, a, "ok") /\ Answered(FALSE, FALSE)
  /\ UNCHANGED <<memtable, generations, nextSeq, files, life, pc, spoiled>>

\* redb commits one durable transaction.
UpdateEngine(x, a) ==
  /\ Room /\ store = "redb"
  /\ ages' = [ages EXCEPT ![x] = a] /\ base' = Snapshot(0, ages')
  /\ Record(x, a, "ok") /\ Answered(TRUE, TRUE)
  /\ UNCHANGED <<memtable, generations, nextSeq, log, synced, older, tables, life, pc, spoiled>>

-----------------------------------------------------------------------------
(* checkpoint and flush                                                    *)

Checkpointing == Snapshots \cup {"wal_fsync", "wal_buffered", "hybrid"}

\* std::fs::write truncates the file first.
BeginCheckpoint ==
  /\ phase = "up" /\ pc = "idle" /\ "checkpoint" \in scenario.calls /\ store \in Checkpointing
  /\ base' = Torn /\ pc' = "checkpoint"
  /\ older' = IF scenario.power THEN older \cup {base, Torn} ELSE older
  /\ UNCHANGED <<memory, log, synced, tables, life, ghosts, spoiled>>

\* Mutation: the snapshot says it covers the next entry too.
WriteBaseNextSeq ==
  /\ phase = "up" /\ pc = "checkpoint"
  /\ base' = Snapshot(IF store = "hybrid" THEN nextSeq ELSE 0, ages)
  /\ pc' = IF store \in {"wal_fsync", "wal_buffered"} THEN "truncate" ELSE "idle"
  /\ floor' = Len(history)
  /\ spoiled' = spoiled \ {"no_snapshot"}
  /\ UNCHANGED <<memory, log, synced, older, tables, life, history, safe>>

\* hybrid keeps the log and remembers the last entry the snapshot covers.
WriteBase ==
  /\ phase = "up" /\ pc = "checkpoint"
  /\ base' = Snapshot(IF store = "hybrid" THEN nextSeq - 1 ELSE 0, ages)
  /\ pc' = IF store \in {"wal_fsync", "wal_buffered"} THEN "truncate" ELSE "idle"
  /\ floor' = Len(history)
  /\ spoiled' = spoiled \ {"no_snapshot"}
  /\ UNCHANGED <<memory, log, synced, older, tables, life, history, safe>>

\* With the log go the updates that were logged and not answered Ok; every later
\* opening must find the others.
EmptyLog ==
  /\ log' = <<>> /\ synced' = 0
  /\ start' = Current /\ history' = <<>> /\ floor' = 0 /\ safe' = 0

Truncate ==
  /\ phase = "up" /\ pc = "truncate"
  /\ EmptyLog /\ pc' = "idle"
  /\ UNCHANGED <<memory, base, older, tables, scenario, phase, crashes, spoiled>>

\* The disk is full: what was there is gone, the new file is not.
WriteFails ==
  /\ phase = "up" /\ pc \in {"checkpoint", "sst", "count"} /\ "write" \in scenario.faults
  /\ pc' = "idle"
  /\ spoiled' = spoiled \cup (IF pc = "sst" THEN {} ELSE {"file"})
  /\ UNCHANGED <<memory, files, life, ghosts>>

\* flush writes the memtable to the next generation's file.
BeginFlush ==
  /\ phase = "up" /\ pc = "idle" /\ store = "lsm" /\ "checkpoint" \in scenario.calls
  /\ generations < MaxFlushes
  /\ ssts' = [ssts EXCEPT ![generations + 1] = Torn] /\ pc' = "sst"
  /\ UNCHANGED <<memory, log, synced, base, older, counted, life, ghosts, spoiled>>

\* The generation counts in memory before generations.bin, truncated by now, says so.
WriteSst ==
  /\ phase = "up" /\ pc = "sst"
  /\ ssts' = [ssts EXCEPT ![generations + 1] = memtable]
  /\ generations' = generations + 1
  /\ counted' = Torn /\ pc' = "count"
  /\ UNCHANGED <<ages, memtable, nextSeq, log, synced, base, older, life, ghosts, spoiled>>

WriteCount ==
  /\ phase = "up" /\ pc = "count"
  /\ counted' = generations /\ pc' = "clear"
  /\ UNCHANGED <<memory, log, synced, base, older, ssts, life, ghosts, spoiled>>

\* The memtable is cleared and a fresh log started.
ClearMemtable ==
  /\ phase = "up" /\ pc = "clear"
  /\ memtable' = Empty /\ EmptyLog /\ pc' = "idle"
  /\ UNCHANGED <<ages, generations, nextSeq, base, older, tables, scenario, phase, crashes, spoiled>>

-----------------------------------------------------------------------------
(* Crashes                                                                 *)

\* A crash cuts the file it falls into; a snapshot counts from its last byte on.
CutShort == IF pc \in {"checkpoint", "count"} THEN {"file"} ELSE {}

\* The process is killed: what it wrote stays, perhaps with a piece of an entry.
Kill ==
  /\ phase = "up" /\ crashes < scenario.crashes
  /\ \/ UNCHANGED log
     \/ Room /\ store \in Logged /\ log' = Append(log, Torn)
  /\ phase' = "down" /\ pc' = "idle" /\ crashes' = crashes + 1
  /\ spoiled' = spoiled \cup CutShort \cup (IF log' # log /\ Behind THEN {"behind"} ELSE {})
  /\ UNCHANGED <<memory, synced, base, older, tables, scenario, start, ghosts>>

\* Power fails: the end of the log that was not synced may be lost, and base, which
\* is never synced, may be what it was at any time before, or torn.
PowerLoss ==
  /\ phase = "up" /\ scenario.power /\ crashes < scenario.crashes
  /\ \E n \in synced .. Len(log) : log' = SubSeq(log, 1, n) /\ synced' = n
  /\ IF store = "redb" THEN UNCHANGED base ELSE base' \in older \cup {base}
  /\ older' = {base'}
  /\ floor' = safe /\ phase' = "down" /\ pc' = "idle" /\ crashes' = crashes + 1
  /\ spoiled' = spoiled \cup CutShort \cup (IF base' # base THEN {"power"} ELSE {})
  /\ UNCHANGED <<memory, tables, scenario, start, history, safe>>

-----------------------------------------------------------------------------
(* open                                                                    *)

\* read_wal_entries stops at the first entry that is not whole.
Entries ==
  LET tears == {i \in DOMAIN log : log[i] = Torn}
  IN IF tears = {} THEN log ELSE SubSeq(log, 1, (CHOOSE i \in tears : \A j \in tears : i <= j) - 1)

Cutoff == IF base \in {NoFile, Torn} THEN 0 ELSE base.cutoff
\* hybrid replays what its snapshot does not cover.
Replayed == {i \in DOMAIN Entries : store = "hybrid" => Entries[i].seq > Cutoff}

Replay(f) == Updated(f, Entries, Replayed)
\* LsmStore's log gives its memtable.
ReplayedTable == [x \in {Entries[i].id : i \in Replayed} |-> Replay(Seed)[x]]

\* Mutation: a torn entry at the end is an error, not the end of the log.
OpenableWhole ==
  /\ base # Torn /\ counted # Torn /\ Torn \notin ToSet(log)
  /\ store \in Snapshots => base # NoFile
  /\ \A i \in Replayed : Entries[i].id # Unknown

Openable ==
  /\ base # Torn /\ counted # Torn
  /\ store \in Snapshots => base # NoFile
  /\ \A i \in Replayed : Entries[i].id # Unknown

Counted == IF counted = NoFile THEN 0 ELSE counted
\* What a store opened from the files shows.
Recovered ==
  IF store = "lsm" THEN Resolved(ReplayedTable, Counted)
  ELSE Replay(IF base = NoFile THEN Seed ELSE base.ages)

\* wal_fsync, wal_buffered and lsm go on after the last entry, hybrid after the
\* highest, whatever the snapshot covers.
NextSeq ==
  IF Entries = <<>> THEN 1
  ELSE IF store = "hybrid" THEN 1 + (CHOOSE n \in {e.seq : e \in ToSet(Entries)} :
                                       \A e \in ToSet(Entries) : e.seq <= n)
  ELSE Last(Entries).seq + 1

\* Every entry that was logged is replayed, answered or not; a snapshot store has
\* what it had at its last checkpoint.
Resumed ==
  LET kept == IF store \in Snapshots THEN SubSeq(history, 1, floor) ELSE history
  IN [i \in DOMAIN kept |-> [kept[i] EXCEPT !.answer = "ok"]]

\* Nothing is left that a power loss could take.
OnDisk == synced = Len(log) /\ older = {base}

Open ==
  /\ phase = "down" /\ Openable
  /\ IF store = "lsm"
     THEN /\ memtable' = ReplayedTable /\ generations' = Counted /\ UNCHANGED ages
     ELSE ages' = Recovered /\ UNCHANGED <<memtable, generations>>
  /\ nextSeq' = IF store \in Logged THEN NextSeq ELSE nextSeq
  /\ phase' = "up"
  /\ IF scenario.power /\ OnDisk
     THEN start' = Recovered /\ history' = <<>> /\ floor' = 0 /\ safe' = 0
     ELSE start' = start /\ history' = Resumed /\ floor' = Len(Resumed) /\ safe' = safe
  /\ spoiled' = spoiled \cup (IF store = "hybrid" /\ nextSeq' <= Cutoff THEN {"reused"} ELSE {})
  /\ UNCHANGED <<files, pc, scenario, crashes>>

\* A piece of an entry is read with bytes of the entry behind it: the result has
\* an id that is not there, or the age of no update.
OpenMisreads ==
  /\ phase = "down" /\ store \in Logged \ {"lsm"} /\ Openable
  /\ Len(Entries) + 1 < Len(log)
  /\ \/ phase' = "refused" /\ UNCHANGED <<ages, nextSeq>>
     \/ /\ \E x \in Ids, a \in Ages : ages' = [Recovered EXCEPT ![x] = a]
        /\ nextSeq' = NextSeq + 1 /\ phase' = "up"
  /\ spoiled' = spoiled \cup {"behind"}
  /\ UNCHANGED <<memtable, generations, files, pc, scenario, start, crashes, ghosts>>

OpenRefused ==
  /\ phase = "down" /\ ~Openable
  /\ phase' = "refused"
  /\ UNCHANGED <<memory, files, ghosts, pc, spoiled, scenario, start, crashes>>

\* create starts the log afresh and leaves the other files as they are.
Create ==
  /\ phase \in {"down", "refused"} /\ "create" \in scenario.calls
  /\ ages' = Seed /\ memtable' = Empty /\ generations' = 0 /\ nextSeq' = 1
  /\ log' = <<>> /\ synced' = 0 /\ UNCHANGED <<base, older, tables>>
  /\ start' = Seed /\ history' = <<>> /\ floor' = 0 /\ safe' = 0
  /\ spoiled' = spoiled \cup (IF base # NoFile \/ counted # NoFile THEN {"stale"} ELSE {})
  /\ phase' = "up" /\ UNCHANGED <<pc, scenario, crashes>>

-----------------------------------------------------------------------------
Next ==
  \/ \E x \in Ids, a \in Ages :
       UpdateLogged(x, a) \/ AppendUnsynced(x, a) \/ UpdateState(x, a) \/ UpdateEngine(x, a)
  \/ \E a \in Ages : UpdateUnknown(a)
  \/ SyncOk \/ SyncFails \/ AppendFails
  \/ BeginCheckpoint \/ WriteBase \/ Truncate \/ WriteFails
  \/ BeginFlush \/ WriteSst \/ WriteCount \/ ClearMemtable
  \/ Kill \/ PowerLoss \/ Create \/ Open \/ OpenMisreads \/ OpenRefused

Spec == Init /\ [][Next]_vars

-----------------------------------------------------------------------------
(* Properties                                                              *)

TypeOK ==
  /\ ages \in [Ids -> Ages] /\ start \in [Ids -> Ages \cup {Torn}]
  /\ DOMAIN memtable \subseteq Ids /\ generations \in 0 .. MaxFlushes /\ nextSeq \in Nat \ {0}
  /\ \A i \in DOMAIN log : log[i] = Torn \/ log[i] \in [seq : Nat, id : Ids \cup {Unknown}, age : Ages]
  /\ synced \in 0 .. Len(log)
  /\ \A b \in older \cup {base} : b \in {NoFile, Torn} \/ b \in [cutoff : Nat, ages : [Ids -> Ages]]
  /\ counted \in {NoFile, Torn} \cup 0 .. MaxFlushes
  /\ \A g \in 1 .. MaxFlushes : ssts[g] \in Unread \/ DOMAIN ssts[g] \subseteq Ids
  /\ phase \in {"up", "down", "refused"}
  /\ pc \in {"idle", "sync", "checkpoint", "truncate", "sst", "count", "clear"}
  /\ safe \in 0 .. floor /\ floor \in 0 .. Len(history)
  /\ \A i \in DOMAIN history : history[i].answer \in {"ok", "pending", "error", "not_found"}

\* The ages after the first n updates, without those at the indices in missing.
After(n, missing) == Updated(start, history, (1 .. n) \ missing)
Unanswered == {i \in DOMAIN history : history[i].answer # "ok"}

\* Power is lost only where no promise depends on a file that was never synced: not
\* after a log was emptied for a snapshot or for a generation.  The losses themselves
\* are modelled for the files of the other stores.
PowerSafe ==
  \A s \in Scenarios :
    s.power => \/ s.store \in Snapshots \cup {"hybrid", "redb"}
               \/ s.store \in {"wal_fsync", "wal_buffered"} /\ "checkpoint" \notin s.calls

\* A reader of an open store finds every update that was answered Ok and nothing
\* else; and at any moment, in the middle of a checkpoint or after a crash, what the
\* files give is the state after some first updates, at least those the store
\* promises to keep (all that were answered, for a log and a killed process; the
\* synced ones, for a power loss; the last checkpoint's, for a snapshot), never a
\* mixture.  A log with an entry behind a torn one, a hybrid store that numbers
\* new updates below its snapshot's, and the files that create leaves in place, are
\* the exceptions.
RecoversPromised ==
  TypeOK /\
  (spoiled \cap {"behind", "reused", "stale"} = {} =>
    /\ phase = "up" /\ pc # "sync" => Current = After(Len(history), Unanswered)
    /\ phase # "refused" /\ Openable =>
         \E n \in floor .. Len(history), missing \in SUBSET Unanswered : Recovered = After(n, missing))

\* The files open again, wherever a process is killed, unless the crash or an error
\* falls into the writing of a file that open must read, a power loss takes such a
\* file back, an update of an id that has no record was logged, or create left
\* such a file in place.
OpensAgain == phase = "down" /\ spoiled = {} => Openable
=============================================================================

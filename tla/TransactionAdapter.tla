------------------------- MODULE TransactionAdapter -------------------------
(***************************************************************************)
(* Transactions and single writes against one table: apply_transaction,    *)
(* with_journal, update_field, insert_record, replace_record and           *)
(* delete_record of a journaled adapter (server/reminder.rs; dog.rs has no *)
(* insert, replace or delete).  The commit group appears as its promise:   *)
(* entries become durable in journal order and are applied in that order.  *)
(*                                                                         *)
(* Every actor is one client request and writes its own name, so a value   *)
(* in the table says who wrote it.                                         *)
(***************************************************************************)
EXTENDS Naturals, Sequences, FiniteSets

CONSTANTS
  Ids,
  Loaded,     \* ids that have a record when the adapter opens
  Absent,     \* the "value" of an id without record
  Original,   \* the value of the records loaded
  CheckpointEntries, \* JOURNAL_CHECKPOINT_BYTES, in entries
  Scenarios   \* the clients, and what may happen to them: see IsScenario

\* program: client -> its request; journaled: with_journal or new; crashes: the
\* bound on crashes; powerLoss: may a crash lose slot writes not flushed?
IsScenario(s) ==
  /\ IsFiniteSet(DOMAIN s.program)
  /\ \A a \in DOMAIN s.program : LET r == s.program[a] IN
       /\ r.kind \in {"tx", "update", "insert", "replace", "delete"}
       /\ r.ids \in Seq(Ids) \ {<<>>} /\ r.reads \subseteq Ids
       /\ r.kind # "tx" => Len(r.ids) = 1
       /\ a \notin {Absent, Original}
  /\ s.journaled \in BOOLEAN /\ s.crashes \in Nat /\ s.powerLoss \in BOOLEAN

ASSUME ScenarioAssumption ==
  /\ \A s \in Scenarios : IsScenario(s)
  /\ Loaded \subseteq Ids /\ Absent # Original /\ CheckpointEntries \in Nat

VARIABLES
  scenario, \* fixed from the start
  table,    \* Ids -> the value in memory, Absent for no record
  disk,     \* Ids -> the values a power loss may leave there
  locked,   \* the actor inside with_exclusive, if any: a set of at most one
  pc, at,   \* each actor's place, and the operation it is at
  reads,    \* what a snapshot-isolated session has read
  answer,
  journal,  \* entries in the file
  turn,     \* entries of the journal applied, refused or failed
  phase, replayed, crashes,
  \* history: when each actor's writes first and last took effect (0: never)
  first, order

vars == <<scenario, table, disk, locked, pc, at, reads, answer, journal, turn, phase,
          replayed, crashes, first, order>>

histVars == <<first, order>>

actorVars == <<pc, at, reads, answer>>
lifeVars  == <<scenario, phase, replayed, crashes>>

Program   == scenario.program
Actors    == DOMAIN Program
Journaled == scenario.journaled

Txs       == {a \in Actors : Program[a].kind = "tx"}
WrittenBy(a) == {Program[a].ids[i] : i \in DOMAIN Program[a].ids}
Values    == Actors \cup {Absent, Original}

Init ==
  /\ scenario \in Scenarios
  /\ table = [x \in Ids |-> IF x \in Loaded THEN Original ELSE Absent]
  /\ disk = [x \in Ids |-> {table[x]}]
  /\ locked = {}
  /\ pc = [a \in Actors |-> IF a \in Txs THEN "read" ELSE "call"]
  /\ at = [a \in Actors |-> 1]
  /\ reads = [a \in Actors |-> [x \in {} |-> Absent]]
  /\ answer = [a \in Actors |-> "none"]
  /\ journal = <<>> /\ turn = 0
  /\ phase = "up" /\ replayed = 0 /\ crashes = 0
  /\ first = [a \in Actors |-> 0] /\ order = [a \in Actors |-> 0]

------------------------------------------------------------------------------
Free == phase = "up" /\ locked = {}

Stamp(a) ==
  LET now == 1 + Cardinality({b \in Actors : order[b] > 0 /\ b # a}) IN
  /\ order' = [b \in Actors |-> IF b = a THEN now
                                ELSE IF order[a] > 0 /\ order[b] > order[a]
                                THEN order[b] - 1 ELSE order[b]]
  /\ first' = [first EXCEPT ![a] = IF @ = 0 THEN now ELSE @]

Answer(a, code) == /\ answer' = [answer EXCEPT ![a] = code]
                   /\ pc' = [pc EXCEPT ![a] = "done"]

\* A slot write: visible at once, on disk after the next flush.
SlotWrite(x, v) == /\ table' = [table EXCEPT ![x] = v]
                   /\ disk' = [disk EXCEPT ![x] = @ \cup {v}]

\* A write whose log entry is synced before it returns.
LoggedWrite(x, v) == /\ table' = [table EXCEPT ![x] = v]
                     /\ disk' = [disk EXCEPT ![x] = {v}]

Flush == disk' = [x \in Ids |-> {table[x]}]

------------------------------------------------------------------------------
(* The single-record requests, each one acquisition of the store's lock    *)

Call(a, kind) == Free /\ pc[a] = "call" /\ Program[a].kind = kind
Target(a) == Program[a].ids[1]

CallRest == UNCHANGED <<locked, at, reads, journal, turn, lifeVars>>

UpdateField(a) ==
  /\ Call(a, "update") /\ table[Target(a)] # Absent
  /\ SlotWrite(Target(a), a) /\ Stamp(a) /\ Answer(a, "ok") /\ CallRest

InsertRecord(a) ==
  /\ Call(a, "insert") /\ table[Target(a)] = Absent
  /\ LoggedWrite(Target(a), a) /\ Stamp(a) /\ Answer(a, "ok") /\ CallRest

ReplaceRecord(a) ==
  /\ Call(a, "replace") /\ table[Target(a)] # Absent
  /\ SlotWrite(Target(a), a) /\ Stamp(a) /\ Answer(a, "ok") /\ CallRest

DeleteRecord(a) ==
  /\ Call(a, "delete") /\ table[Target(a)] # Absent
  /\ LoggedWrite(Target(a), Absent) /\ Stamp(a) /\ Answer(a, "ok") /\ CallRest

\* A missing record, or a duplicate for an insert: nothing is written.
CallRefused(a) ==
  /\ Free /\ pc[a] = "call"
  /\ (Program[a].kind = "insert") <=> (table[Target(a)] # Absent)
  /\ Answer(a, IF Program[a].kind = "insert" THEN "duplicate" ELSE "not_found")
  /\ UNCHANGED <<table, disk, histVars>> /\ CallRest

------------------------------------------------------------------------------
(* apply_transaction                                                       *)

\* A snapshot-isolated session reads; only found records are tracked, each by the value
\* read last.
Read(a) ==
  /\ Free /\ pc[a] = "read"
  /\ \E x \in {y \in Program[a].reads : table[y] # Absent} :
       reads' = [reads EXCEPT ![a] =
                   [y \in DOMAIN reads[a] \cup {x} |->
                      IF y = x THEN table[x] ELSE reads[a][y]]]
  /\ UNCHANGED <<table, disk, locked, pc, at, answer, journal, turn, lifeVars, histVars>>

Commit(a) ==
  /\ phase = "up" /\ pc[a] = "read"
  /\ pc' = [pc EXCEPT ![a] = "validate"]
  /\ UNCHANGED <<table, disk, locked, at, reads, answer, journal, turn, lifeVars, histVars>>

\* Mutation: the read set is not checked again.
StaleNever(a) == FALSE

\* check_read_set finds a mismatch.
Stale(a) == \E x \in DOMAIN reads[a] : reads[a][x] # table[x]

\* Journaled: validate_batch checks that each record exists with one read per
\* operation, holding no lock in between.
Validate(a) ==
  /\ Free /\ Journaled /\ pc[a] = "validate"
  /\ \/ /\ table[Program[a].ids[at[a]]] # Absent
        /\ IF at[a] < Len(Program[a].ids)
           THEN at' = [at EXCEPT ![a] = @ + 1] /\ UNCHANGED pc
           ELSE at' = [at EXCEPT ![a] = 1] /\ pc' = [pc EXCEPT ![a] = "journal"]
        /\ UNCHANGED answer
     \/ /\ table[Program[a].ids[at[a]]] = Absent
        /\ Answer(a, "not_found") /\ UNCHANGED at
  /\ UNCHANGED <<table, disk, locked, reads, journal, turn, lifeVars, histVars>>

\* CommitGroup::commit appends and syncs; this is the batch's place in line.
Journal(a) ==
  /\ phase = "up" /\ pc[a] = "journal"
  /\ journal' = Append(journal, a)
  /\ pc' = [pc EXCEPT ![a] = "turn"]
  /\ UNCHANGED <<table, disk, locked, at, reads, answer, turn, lifeVars, histVars>>

\* The append or the fsync fails: the batch is refused.  Its entry may be in
\* the journal all the same, and is skipped when its turn comes.
JournalFails(a) ==
  /\ phase = "up" /\ pc[a] = "journal"
  /\ Answer(a, "journal")
  /\ journal' = Append(journal, a) \/ UNCHANGED journal
  /\ UNCHANGED <<table, disk, locked, at, reads, turn, lifeVars, histVars>>

SkipRefused ==
  /\ phase = "up" /\ turn < Len(journal) /\ answer[journal[turn + 1]] = "journal"
  /\ turn' = turn + 1
  /\ UNCHANGED <<table, disk, locked, actorVars, journal, lifeVars, histVars>>

MyTurn(a) == journal[turn + 1] = a

\* Our turn: take the exclusive section and check the read set in it.
Enter(a) ==
  /\ Free /\ pc[a] = "turn" /\ MyTurn(a)
  /\ \/ /\ ~Stale(a)
        /\ locked' = {a} /\ pc' = [pc EXCEPT ![a] = "apply"]
        /\ UNCHANGED <<answer, turn>>
     \/ /\ Stale(a)
        /\ Answer(a, "conflict") /\ turn' = turn + 1 /\ UNCHANGED locked
  /\ UNCHANGED <<table, disk, at, reads, journal, lifeVars, histVars>>

\* Mutation: only the first operation of the batch is validated.
EnterUnjournaledFirst(a) ==
  /\ Free /\ ~Journaled /\ pc[a] = "validate"
  /\ LET missing == table[Target(a)] = Absent
     IN \/ /\ ~missing /\ ~Stale(a)
           /\ locked' = {a} /\ pc' = [pc EXCEPT ![a] = "apply"]
           /\ UNCHANGED answer
        \/ /\ missing \/ Stale(a)
           /\ Answer(a, IF missing THEN "not_found" ELSE "conflict")
           /\ UNCHANGED locked
  /\ UNCHANGED <<table, disk, at, reads, journal, turn, lifeVars, histVars>>

\* Without a journal everything happens in one exclusive section.
EnterUnjournaled(a) ==
  /\ Free /\ ~Journaled /\ pc[a] = "validate"
  /\ LET missing == \E x \in WrittenBy(a) : table[x] = Absent
     IN \/ /\ ~missing /\ ~Stale(a)
           /\ locked' = {a} /\ pc' = [pc EXCEPT ![a] = "apply"]
           /\ UNCHANGED answer
        \/ /\ missing \/ Stale(a)
           /\ Answer(a, IF missing THEN "not_found" ELSE "conflict")
           /\ UNCHANGED locked
  /\ UNCHANGED <<table, disk, at, reads, journal, turn, lifeVars, histVars>>

\* apply_batch, one operation: a record that is gone stops it.
ApplyOp(a) ==
  LET x == Program[a].ids[at[a]] IN
  /\ phase = "up" /\ locked = {a} /\ pc[a] = "apply"
  /\ \/ /\ table[x] # Absent
        /\ SlotWrite(x, a) /\ Stamp(a)
        /\ IF at[a] < Len(Program[a].ids)
           THEN at' = [at EXCEPT ![a] = @ + 1] /\ UNCHANGED pc
           ELSE pc' = [pc EXCEPT ![a] = "leave"] /\ UNCHANGED at
        /\ UNCHANGED <<locked, answer, turn>>
     \/ /\ table[x] = Absent
        /\ Answer(a, "not_found") /\ locked' = {}
        /\ turn' = IF Journaled THEN turn + 1 ELSE turn
        /\ UNCHANGED <<table, disk, at, histVars>>
  /\ UNCHANGED <<reads, journal, lifeVars>>

AtCheckpoint == Journaled /\ Len(journal) > CheckpointEntries /\ turn + 1 = Len(journal)

\* Mutation: the checkpoint truncates without flushing.
LeaveNoFlush(a) ==
  /\ phase = "up" /\ locked = {a} /\ pc[a] = "leave"
  /\ locked' = {} /\ Answer(a, "ok")
  /\ \/ AtCheckpoint /\ journal' = <<>> /\ turn' = 0
     \/ ~AtCheckpoint /\ turn' = (IF Journaled THEN turn + 1 ELSE turn) /\ UNCHANGED journal
  /\ UNCHANGED <<table, disk, at, reads, lifeVars, histVars>>

\* The batch is applied: flush and truncate when the journal is long and this
\* entry is its last, give up the turn, answer.
Leave(a) ==
  /\ phase = "up" /\ locked = {a} /\ pc[a] = "leave"
  /\ locked' = {} /\ Answer(a, "ok")
  /\ \/ AtCheckpoint /\ Flush /\ journal' = <<>> /\ turn' = 0
     \/ /\ ~AtCheckpoint
        /\ turn' = IF Journaled THEN turn + 1 ELSE turn
        /\ UNCHANGED <<disk, journal>>
  /\ UNCHANGED <<table, at, reads, lifeVars, histVars>>

------------------------------------------------------------------------------
(* Crash and with_journal                                                  *)

\* Killed: memory-mapped writes survive.  Power loss: each slot keeps any value
\* written since the last flush.
Crash ==
  /\ crashes < scenario.crashes /\ crashes' = crashes + 1
  /\ phase' = "replay" /\ replayed' = 0 /\ locked' = {}
  /\ \E t \in [Ids -> Values] :
       /\ IF scenario.powerLoss THEN \A x \in Ids : t[x] \in disk[x] ELSE t = table
       /\ table' = t /\ disk' = [x \in Ids |-> {t[x]}]
  /\ pc' = [a \in Actors |-> IF pc[a] \in {"read", "call"} THEN pc[a] ELSE "done"]
  /\ reads' = [a \in Actors |-> [x \in {} |-> Absent]]
  /\ UNCHANGED <<scenario, at, answer, journal, turn, histVars>>

\* The operations of a batch a replay gets to: all, or those before the first
\* one whose record is missing.
Reached(a) == LET ids == Program[a].ids
              IN {i \in DOMAIN ids : \A j \in 1 .. i : table[ids[j]] # Absent}

Replay(a, ops) ==
  LET written == {Program[a].ids[i] : i \in ops}
  IN /\ table' = [x \in Ids |-> IF x \in written THEN a ELSE table[x]]
     /\ disk' = [x \in Ids |-> IF x \in written THEN disk[x] \cup {a} ELSE disk[x]]
     /\ IF ops = {} THEN UNCHANGED histVars ELSE Stamp(a)

\* Mutation: replay skips a missing record, or writes it anew.
ReplayBatchUpserts ==
  /\ phase = "replay" /\ replayed < Len(journal)
  /\ Replay(journal[replayed + 1], DOMAIN Program[journal[replayed + 1]].ids)
  /\ replayed' = replayed + 1
  /\ UNCHANGED <<scenario, phase, locked, actorVars, journal, turn, crashes>>

\* Replay one batch: every operation, or JournalError::Replay at the first
\* record that is missing, and the adapter does not open.
ReplayBatch ==
  LET a == journal[replayed + 1]
  IN /\ phase = "replay" /\ replayed < Len(journal)
     /\ Replay(a, Reached(a))
     /\ \/ /\ Reached(a) = DOMAIN Program[a].ids
           /\ replayed' = replayed + 1 /\ UNCHANGED phase
        \/ /\ Reached(a) # DOMAIN Program[a].ids
           /\ phase' = "broken" /\ UNCHANGED replayed
     /\ UNCHANGED <<scenario, locked, actorVars, journal, turn, crashes>>

\* checkpoint_flush, truncate, and the adapter serves again.
Open ==
  /\ phase = "replay" /\ replayed = Len(journal)
  /\ Flush /\ journal' = <<>> /\ turn' = 0 /\ phase' = "up"
  /\ UNCHANGED <<scenario, table, locked, actorVars, replayed, crashes, histVars>>

------------------------------------------------------------------------------
Next ==
  \/ \E a \in Actors :
       \/ UpdateField(a) \/ InsertRecord(a) \/ ReplaceRecord(a) \/ DeleteRecord(a)
       \/ CallRefused(a)
       \/ Read(a) \/ Commit(a) \/ Validate(a) \/ Journal(a) \/ JournalFails(a) \/ Enter(a)
       \/ EnterUnjournaled(a) \/ ApplyOp(a) \/ Leave(a)
  \/ SkipRefused \/ Crash \/ ReplayBatch \/ Open

Spec == Init /\ [][Next]_vars

------------------------------------------------------------------------------
(* Properties                                                              *)

\* The types of the table, the calls in progress and the journal; at most one holder of
\* the exclusive lock.
TypeOK ==
  /\ table \in [Ids -> Values] /\ disk \in [Ids -> SUBSET Values]
  /\ pc \in [Actors -> {"read", "call", "validate", "journal", "turn", "apply",
                        "leave", "done"}]
  /\ answer \in [Actors -> {"none", "ok", "not_found", "duplicate", "conflict", "journal"}]
  /\ \A a \in Actors : at[a] \in DOMAIN Program[a].ids
  /\ \A a \in Actors : reads[a] \in [DOMAIN reads[a] -> Values]
  /\ Cardinality(locked) <= 1 /\ locked \subseteq Actors
  /\ journal \in Seq(Txs) /\ turn \in 0 .. Len(journal)
  /\ phase \in {"up", "replay", "broken"} /\ replayed \in Nat /\ crashes \in Nat

\* What a writer leaves at an id.
Effect(b) == IF Program[b].kind = "delete" THEN Absent ELSE b

\* State and locals keep their types, the turn stays within the journal, and a
\* transaction is visible whole or not at all, before and after any crash:
\* where one of its values shows, each of its other records holds its value or
\* that of a later writer (apply_transaction: "either every write in `updates`
\* is applied, or none are").  A journaled transaction that a deletion stopped
\* half way is the exception.
AllOrNothing ==
  TypeOK /\ (Free => \A a \in Txs :
    (\E x \in WrittenBy(a) : table[x] = a) /\ ~(Journaled /\ answer[a] = "not_found") =>
      \A y \in WrittenBy(a) : \E b \in Actors :
        y \in WrittenBy(b) /\ order[b] >= order[a] /\ table[y] = Effect(b))

\* An acknowledged write stands until a later writer replaces it; opening the
\* store again never brings an earlier writer back, nor a deleted record.
AckedStand ==
  Free => \A a \in Actors : answer[a] = "ok" =>
            \A x \in WrittenBy(a) : \E b \in Actors :
              x \in WrittenBy(b) /\ first[b] >= first[a] /\ table[x] = Effect(b)

\* Of two sessions that read the same version of a record and write it, at
\* most one commits (snapshot isolation, ISO-FR-002).
NoLostUpdate ==
  \A a, b \in Txs : a # b /\ answer[a] = "ok" /\ answer[b] = "ok" =>
    ~ \E x \in DOMAIN reads[a] \cap DOMAIN reads[b] \cap WrittenBy(a) \cap WrittenBy(b) :
        reads[a][x] = reads[b][x]

\* What was refused for a missing record or a stale read is never seen in the
\* table ("fails the whole call ... before any write happens"): without a journal,
\* and for a stale read while no crash has come.  With a journal a deletion between
\* validation and application leaves the writes before it, and replay brings a
\* refused batch back.
RefusedInvisibleUnlessReplayed ==
  Free => \A a \in Actors :
    \/ answer[a] = "conflict" /\ crashes = 0
    \/ answer[a] \in {"not_found", "duplicate"} /\ ~Journaled
    => \A x \in Ids : table[x] # a
=============================================================================

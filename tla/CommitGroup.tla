----------------------------- MODULE CommitGroup -----------------------------
(***************************************************************************)
(* Group commit of journaled batches: CommitGroup and BatchJournal of      *)
(* server/journal.rs, the commit path of an adapter's apply_transaction    *)
(* (server/dog.rs) and its with_journal recovery.                          *)
(*                                                                         *)
(* A batch is known by its sequence number and writes the whole store, so  *)
(* the store is the number of the batch it holds.  Every section of code   *)
(* between taking and dropping the group's mutex is one action; so are     *)
(* sync_data together with the section that records its result (nothing    *)
(* reads what happens in between), and the adapter's exclusive section.    *)
(***************************************************************************)
EXTENDS Integers

CONSTANTS
  Threads,            \* connection threads that commit
  MaxAppends,         \* bound: batches journaled between two opens
  MaxCrashes,         \* bound: crashes in a behaviour
  CheckpointEntries,  \* JOURNAL_CHECKPOINT_BYTES, counted in entries
  TornAt              \* journal lengths at which a failing write_all may leave bytes

ASSUME BoundsAssumption ==
  MaxAppends \in Nat /\ MaxCrashes \in Nat /\ CheckpointEntries \in Nat

ASSUME TornAtAssumption == TornAt \subseteq Nat

VARIABLES
  \* GroupState
  appended,     \* sequence of the last entry in the journal file
  durable,      \* entries up to here have had an fsync return
  failedUpto,   \* entries above durable at the time, up to here: fsync failed
  syncing,      \* a leader is inside sync_data
  nextApply,    \* the sequence whose turn it is
  turnWaiters,  \* threads registered to be unparked when their turn comes
  \* each thread inside commit
  pc, seq, upto, refused, due, result,
  token,        \* threads holding an unpark token
  \* the journal file and the store's files
  truncated,    \* entries up to here have been truncated away
  synced,       \* entries up to here survive a power loss
  torn,         \* entries followed by the remains of a failed append
  mem,          \* the store as the process sees it
  disk,         \* what each write since the last flush may have left on disk
  \* the adapter's life cycle
  phase, replayed, crashes,
  \* history: answers given, and batches whose covering fsync failed
  acked, syncFailed

groupVars  == <<appended, durable, failedUpto, syncing, nextApply, turnWaiters>>
threadVars == <<pc, seq, upto, refused, due, result, token>>
fileVars   == <<truncated, synced, torn>>
storeVars  == <<mem, disk>>
lifeVars   == <<phase, replayed, crashes>>
histVars   == <<acked, syncFailed>>
vars == <<groupVars, threadVars, fileVars, storeVars, lifeVars, histVars>>

PCs    == {"idle", "wait", "woken", "lead", "sync", "park", "gate", "turn",
           "truncate", "release"}
Phases == {"up", "down", "replay", "flushed"}

Max2(a, b) == IF a >= b THEN a ELSE b

------------------------------------------------------------------------------
\* CommitGroup::open on a journal without entries.
Init ==
  /\ appended = 0 /\ durable = 0 /\ failedUpto = 0 /\ syncing = FALSE
  /\ nextApply = 1 /\ turnWaiters = {}
  /\ pc = [t \in Threads |-> "idle"]
  /\ seq = [t \in Threads |-> 0]
  /\ upto = [t \in Threads |-> 0]
  /\ refused = [t \in Threads |-> FALSE]
  /\ due = [t \in Threads |-> FALSE]
  /\ result = [t \in Threads |-> "none"]
  /\ token = {}
  /\ truncated = 0 /\ synced = 0 /\ torn = {}
  /\ mem = 0 /\ disk = {0}
  /\ phase = "up" /\ replayed = 0 /\ crashes = 0
  /\ acked = {} /\ syncFailed = {}

------------------------------------------------------------------------------
(* BatchJournal                                                            *)

NeedsCheckpoint == appended - truncated > CheckpointEntries

\* truncate: set_len and sync_all leave an empty, durable journal.
TruncateJournal == truncated' = appended /\ synced' = appended /\ torn' = {}

\* open stops at the first incomplete entry, wherever it is.
ReadableEnd == CHOOSE p \in torn \cup {appended} :
                 \A q \in torn \cup {appended} : p <= q

------------------------------------------------------------------------------
(* CommitGroup::commit                                                     *)

\* Mutation: the gate lets a batch through before its predecessors.
TurnGateOpen(t, err, others) ==
  /\ refused' = [refused EXCEPT ![t] = err]
  /\ due' = [due EXCEPT ![t] = ~err /\ NeedsCheckpoint /\ appended = seq[t]]
  /\ pc' = [others EXCEPT ![t] = "turn"]
  /\ UNCHANGED turnWaiters

\* The turn gate, entered with the lock held; err: the batch is refused,
\* others: where the other threads are.
TurnGate(t, err, others) ==
  /\ refused' = [refused EXCEPT ![t] = err]
  /\ \/ /\ nextApply # seq[t]
        /\ turnWaiters' = turnWaiters \cup {t}
        /\ pc' = [others EXCEPT ![t] = "park"]
        /\ UNCHANGED due
     \/ /\ nextApply = seq[t]
        /\ due' = [due EXCEPT ![t] = ~err /\ NeedsCheckpoint /\ appended = seq[t]]
        /\ pc' = [others EXCEPT ![t] = "turn"]
        /\ UNCHANGED turnWaiters

\* append_unsynced and the first pass of the wait loop: no counter can have
\* reached a sequence just taken (CountersInRange), so the thread leads or waits.
AppendBatch(t) ==
  /\ phase = "up" /\ pc[t] = "idle" /\ appended < MaxAppends
  /\ appended' = appended + 1
  /\ seq' = [seq EXCEPT ![t] = appended + 1]
  /\ syncing' = TRUE
  /\ pc' = [pc EXCEPT ![t] = IF syncing THEN "wait" ELSE "lead"]
  /\ result' = [result EXCEPT ![t] = "none"]
  /\ UNCHANGED <<durable, failedUpto, nextApply, turnWaiters, upto, refused,
                 due, token, fileVars, storeVars, lifeVars, histVars>>

\* write_all fails after some bytes: len does not advance, commit returns.
AppendFails(t) ==
  /\ phase = "up" /\ pc[t] = "idle" /\ appended \in TornAt
  /\ torn' = torn \cup {appended}
  /\ result' = [result EXCEPT ![t] = "journal_error"]
  /\ UNCHANGED <<groupVars, pc, seq, upto, refused, due, token, truncated,
                 synced, storeVars, lifeVars, histVars>>

\* Mutation: the leader counts the entry that will be appended next.
LeadPastEnd(t) ==
  /\ pc[t] = "lead"
  /\ upto' = [upto EXCEPT ![t] = appended + 1]
  /\ pc' = [pc EXCEPT ![t] = "sync"]
  /\ UNCHANGED <<groupVars, seq, refused, due, result, token, fileVars,
                 storeVars, lifeVars, histVars>>

\* The leader reads how far to sync as late as possible.
Lead(t) ==
  /\ pc[t] = "lead"
  /\ upto' = [upto EXCEPT ![t] = appended]
  /\ pc' = [pc EXCEPT ![t] = "sync"]
  /\ UNCHANGED <<groupVars, seq, refused, due, result, token, fileVars,
                 storeVars, lifeVars, histVars>>

\* durable.notify_all().
Notified == [u \in Threads |-> IF pc[u] = "wait" THEN "woken" ELSE pc[u]]

\* Mutation: everything appended by the time sync_data returns counts as synced.
SyncOkCoversLater(t) ==
  /\ pc[t] = "sync"
  /\ durable' = appended
  /\ synced' = Max2(synced, upto[t])
  /\ syncing' = FALSE
  /\ TurnGate(t, failedUpto >= seq[t], Notified)
  /\ UNCHANGED <<appended, failedUpto, nextApply, seq, upto, result, token,
                 truncated, torn, storeVars, lifeVars, histVars>>

\* sync_data returns Ok; the leader's own sequence is covered (upto >= seq),
\* but the failure check still comes first.
SyncOk(t) ==
  /\ pc[t] = "sync"
  /\ durable' = Max2(durable, upto[t])
  /\ synced' = Max2(synced, upto[t])
  /\ syncing' = FALSE
  /\ TurnGate(t, failedUpto >= seq[t], Notified)
  /\ UNCHANGED <<appended, failedUpto, nextApply, seq, upto, result, token,
                 truncated, torn, storeVars, lifeVars, histVars>>

\* Mutation: a failing leader forgets to notify.
SyncFailsSilently(t) ==
  /\ pc[t] = "sync"
  /\ failedUpto' = Max2(failedUpto, upto[t])
  /\ syncFailed' = syncFailed \cup (durable + 1 .. upto[t])
  /\ syncing' = FALSE
  /\ TurnGate(t, TRUE, pc)
  /\ UNCHANGED <<appended, durable, nextApply, seq, upto, result, token,
                 fileVars, storeVars, lifeVars, acked>>

\* sync_data fails: every batch it was covering is refused.
SyncFails(t) ==
  /\ pc[t] = "sync"
  /\ failedUpto' = Max2(failedUpto, upto[t])
  /\ syncFailed' = syncFailed \cup (durable + 1 .. upto[t])
  /\ syncing' = FALSE
  /\ TurnGate(t, TRUE, Notified)
  /\ UNCHANGED <<appended, durable, nextApply, seq, upto, result, token,
                 fileVars, storeVars, lifeVars, acked>>

\* Mutation: success is tested before failure.
RecheckDurableFirst(t) ==
  /\ pc[t] = "woken"
  /\ \/ /\ failedUpto >= seq[t] \/ durable >= seq[t]
        /\ TurnGate(t, durable < seq[t], pc)
        /\ UNCHANGED syncing
     \/ /\ failedUpto < seq[t] /\ durable < seq[t]
        /\ syncing' = TRUE
        /\ pc' = [pc EXCEPT ![t] = IF syncing THEN "wait" ELSE "lead"]
        /\ UNCHANGED <<refused, due, turnWaiters>>
  /\ UNCHANGED <<appended, durable, failedUpto, nextApply, seq, upto, result,
                 token, fileVars, storeVars, lifeVars, histVars>>

\* A notified waiter gets the lock back and goes round the wait loop.
Recheck(t) ==
  /\ pc[t] = "woken"
  /\ \/ /\ failedUpto >= seq[t] \/ durable >= seq[t]
        /\ TurnGate(t, failedUpto >= seq[t], pc)
        /\ UNCHANGED syncing
     \/ /\ failedUpto < seq[t] /\ durable < seq[t]
        /\ syncing' = TRUE
        /\ pc' = [pc EXCEPT ![t] = IF syncing THEN "wait" ELSE "lead"]
        /\ UNCHANGED <<refused, due, turnWaiters>>
  /\ UNCHANGED <<appended, durable, failedUpto, nextApply, seq, upto, result,
                 token, fileVars, storeVars, lifeVars, histVars>>

\* park returns because of a token.
ParkReturns(t) ==
  /\ pc[t] = "park" /\ t \in token
  /\ token' = token \ {t}
  /\ pc' = [pc EXCEPT ![t] = "gate"]
  /\ UNCHANGED <<groupVars, seq, upto, refused, due, result, fileVars,
                 storeVars, lifeVars, histVars>>

\* park may also return for no reason.
SpuriousUnpark(t) ==
  /\ pc[t] = "park"
  /\ pc' = [pc EXCEPT ![t] = "gate"]
  /\ UNCHANGED <<groupVars, seq, upto, refused, due, result, token, fileVars,
                 storeVars, lifeVars, histVars>>

\* Back from park: take the lock and test the gate again.
Regate(t) ==
  /\ pc[t] = "gate"
  /\ TurnGate(t, refused[t], pc)
  /\ UNCHANGED <<appended, durable, failedUpto, syncing, nextApply, seq, upto,
                 result, token, fileVars, storeVars, lifeVars, histVars>>

\* Mutation: a failed flush still counts as a checkpoint.
ApplyIgnoresFlush(t) ==
  /\ pc[t] = "turn" /\ ~refused[t]
  /\ mem' = seq[t]
  /\ result' = [result EXCEPT ![t] = "ok"]
  /\ disk' = disk \cup {seq[t]}
  /\ pc' = [pc EXCEPT ![t] = IF due[t] THEN "truncate" ELSE "release"]
  /\ UNCHANGED <<groupVars, seq, upto, refused, due, token, fileVars, lifeVars,
                 histVars>>

\* The apply closure succeeds: the adapter's exclusive section writes the
\* batch and, when a checkpoint is due, flushes the store (or fails to).
Apply(t) ==
  /\ pc[t] = "turn" /\ ~refused[t]
  /\ mem' = seq[t]
  /\ result' = [result EXCEPT ![t] = "ok"]
  /\ \/ /\ due[t] /\ disk' = {seq[t]}
        /\ pc' = [pc EXCEPT ![t] = "truncate"]
     \/ /\ disk' = disk \cup {seq[t]}
        /\ pc' = [pc EXCEPT ![t] = "release"]
  /\ UNCHANGED <<groupVars, seq, upto, refused, due, token, fileVars, lifeVars,
                 histVars>>

\* The closure returns an error having written nothing (a stale read set) or
\* unwinds: TurnGuard releases the turn either way.
ApplyFails(t) ==
  /\ pc[t] = "turn" /\ ~refused[t]
  /\ result' = [result EXCEPT ![t] = "apply_error"]
  /\ pc' = [pc EXCEPT ![t] = "release"]
  /\ UNCHANGED <<groupVars, seq, upto, refused, due, token, fileVars,
                 storeVars, lifeVars, histVars>>

\* Mutation: a refused batch returns without releasing its turn.
RefuseKeepsTurn(t) ==
  /\ pc[t] = "turn" /\ refused[t]
  /\ result' = [result EXCEPT ![t] = "journal_error"]
  /\ pc' = [pc EXCEPT ![t] = "idle"]
  /\ UNCHANGED <<groupVars, seq, upto, refused, due, token, fileVars,
                 storeVars, lifeVars, histVars>>

\* A refused batch is never applied; it only gives its turn up.
Refuse(t) ==
  /\ pc[t] = "turn" /\ refused[t]
  /\ result' = [result EXCEPT ![t] = "journal_error"]
  /\ pc' = [pc EXCEPT ![t] = "release"]
  /\ UNCHANGED <<groupVars, seq, upto, refused, due, token, fileVars,
                 storeVars, lifeVars, histVars>>

\* Mutation: truncate without looking for entries appended meanwhile.
TruncateAlways(t) ==
  /\ pc[t] = "truncate"
  /\ TruncateJournal
  /\ pc' = [pc EXCEPT ![t] = "release"]
  /\ UNCHANGED <<groupVars, seq, upto, refused, due, result, token, storeVars,
                 lifeVars, histVars>>

\* After a flush: truncate if nothing was appended meanwhile.  An error of
\* truncate itself is ignored.
Truncate(t) ==
  /\ pc[t] = "truncate"
  /\ \/ appended = seq[t] /\ TruncateJournal
     \/ UNCHANGED fileVars
  /\ pc' = [pc EXCEPT ![t] = "release"]
  /\ UNCHANGED <<groupVars, seq, upto, refused, due, result, token, storeVars,
                 lifeVars, histVars>>

\* TurnGuard::drop, then commit returns to the client.
ReleaseTurn(t) ==
  LET next == {u \in turnWaiters : seq[u] = nextApply + 1} IN
  /\ pc[t] = "release"
  /\ nextApply' = nextApply + 1
  /\ turnWaiters' = turnWaiters \ next
  /\ token' = token \cup next
  /\ acked' = IF result[t] = "ok" THEN acked \cup {seq[t]} ELSE acked
  /\ pc' = [pc EXCEPT ![t] = "idle"]
  /\ UNCHANGED <<appended, durable, failedUpto, syncing, seq, upto, refused, due,
                 result, fileVars, storeVars, lifeVars, syncFailed>>

------------------------------------------------------------------------------
(* Crash and recovery                                                      *)

\* The process dies, at any moment: every synced entry survives, and some of
\* the ones after it; each slot keeps one of the values it has had since the
\* last flush.  (A process crash alone keeps them all.)
Crash ==
  /\ crashes < MaxCrashes
  /\ crashes' = crashes + 1
  /\ phase' = "down"
  /\ \E last \in synced .. appended :
       /\ appended' = last
       /\ torn' = {p \in torn : p <= last}
  /\ \E v \in disk : mem' = v /\ disk' = {v}
  /\ pc' = [t \in Threads |-> "idle"]
  /\ turnWaiters' = {} /\ token' = {}
  /\ UNCHANGED <<durable, failedUpto, syncing, nextApply, seq, upto, refused,
                 due, result, truncated, synced, replayed, histVars>>

\* BatchJournal::open: keep the complete entries, truncate the tail away.
OpenJournal ==
  /\ phase = "down"
  /\ phase' = "replay"
  /\ appended' = Max2(ReadableEnd, truncated) /\ synced' = appended'
  /\ torn' = {}
  /\ replayed' = truncated
  /\ UNCHANGED <<durable, failedUpto, syncing, nextApply, turnWaiters,
                 threadVars, truncated, storeVars, crashes, histVars>>

\* with_journal applies the batches in order, refused ones included.
ReplayBatch ==
  /\ phase = "replay" /\ replayed < appended
  /\ replayed' = replayed + 1
  /\ mem' = replayed + 1
  /\ disk' = disk \cup {replayed + 1}
  /\ UNCHANGED <<groupVars, threadVars, fileVars, phase, crashes, histVars>>

\* checkpoint_flush at the end of the replay.
FlushReplayed ==
  /\ phase = "replay" /\ replayed = appended
  /\ phase' = "flushed"
  /\ disk' = {mem}
  /\ UNCHANGED <<groupVars, threadVars, fileVars, mem, replayed, crashes, histVars>>

\* truncate, and the adapter is open: the group's counters start from zero,
\* and so does the numbering of batches.
Reopen ==
  /\ phase = "flushed"
  /\ phase' = "up"
  /\ appended' = 0 /\ durable' = 0 /\ failedUpto' = 0 /\ syncing' = FALSE
  /\ nextApply' = 1
  /\ truncated' = 0 /\ synced' = 0
  /\ mem' = 0 /\ disk' = {0} /\ replayed' = 0
  /\ acked' = {} /\ syncFailed' = {}
  /\ UNCHANGED <<turnWaiters, threadVars, torn, crashes>>

------------------------------------------------------------------------------
Step(t) == \/ Lead(t) \/ SyncOk(t) \/ SyncFails(t) \/ Recheck(t)
           \/ ParkReturns(t) \/ Regate(t) \/ Apply(t) \/ ApplyFails(t)
           \/ Refuse(t) \/ Truncate(t) \/ ReleaseTurn(t)

Next == \/ \E t \in Threads : \/ AppendBatch(t) \/ AppendFails(t) \/ Step(t)
                              \/ SpuriousUnpark(t)
        \/ Crash \/ OpenJournal \/ ReplayBatch \/ FlushReplayed \/ Reopen

Spec == Init /\ [][Next]_vars

\* The scheduler runs every thread that is not blocked, and sync_data returns.
FairSpec == Spec /\ \A t \in Threads : WF_vars(Step(t))

------------------------------------------------------------------------------
(* Properties                                                              *)

\* While the adapter is open no counter runs ahead of the journal.
CountersInRange ==
  phase = "up" => /\ durable <= appended /\ failedUpto <= appended
                  /\ 1 <= nextApply /\ nextApply <= appended + 1
                  /\ truncated <= appended /\ synced <= appended

GroupTypes ==
  /\ appended \in Nat /\ durable \in Nat /\ failedUpto \in Nat
  /\ syncing \in BOOLEAN /\ nextApply \in Nat
  /\ turnWaiters \subseteq Threads

ThreadTypes ==
  /\ pc \in [Threads -> PCs] /\ token \subseteq Threads
  /\ seq \in [Threads -> Nat] /\ upto \in [Threads -> Nat]
  /\ refused \in [Threads -> BOOLEAN] /\ due \in [Threads -> BOOLEAN]
  /\ result \in [Threads -> {"none", "ok", "apply_error", "journal_error"}]

FileTypes ==
  /\ truncated \in Nat /\ synced \in Nat /\ torn \subseteq Nat
  /\ mem \in Nat /\ disk \subseteq Nat

LifeTypes ==
  /\ phase \in Phases /\ replayed \in Nat /\ crashes \in Nat
  /\ acked \subseteq Nat /\ syncFailed \subseteq Nat

Types == GroupTypes /\ ThreadTypes /\ FileTypes /\ LifeTypes

TypeOK == Types /\ CountersInRange

\* A batch reaches the store - and so may reach its files - only after its
\* journal entry is durable, and never if the fsync that covered it failed,
\* however many later syncs succeed (commit: "a later successful sync must not
\* rescue a batch whose own sync failed").
WriteAhead ==
  phase = "up" => \A v \in disk : v <= synced /\ v \notin syncFailed

\* At most one thread holds the apply turn, and it is the one whose sequence
\* is next: a turn is never skipped, taken twice or lent.
Holding(t) == pc[t] \in {"turn", "truncate", "release"}

OneTurn ==
  \A t \in Threads : Holding(t) =>
    /\ seq[t] = nextApply
    /\ \A u \in Threads : Holding(u) => u = t

\* Batches reach the store in journal order, so replay order is apply order.
ApplyInOrder == [][phase = "up" /\ phase' = "up" => mem' >= mem]_vars

\* Nothing that an entry is still needed for is truncated: whatever value a
\* crash leaves in the store's files, it is not older than the newest entry
\* dropped from the journal.
TruncatedIsOnDisk == \A v \in disk : truncated <= v

\* A thread blocked on the condvar has a sync in flight that will notify it,
\* and one parked at the gate is registered or already holds a token or a
\* sequence below it has yet to release: no wakeup is lost.
NoLostWakeup ==
  \A t \in Threads :
    /\ pc[t] = "wait" => \E u \in Threads : pc[u] \in {"lead", "sync"}
    /\ pc[t] = "park" => t \in token \/ (t \in turnWaiters /\ nextApply < seq[t])

\* An acknowledged batch outlives every crash: when the adapter is open again
\* the store holds it or a batch after it.
RecoveredValue == IF phase \in {"replay", "flushed"}
                  THEN IF replayed < appended THEN appended ELSE mem
                  ELSE IF ReadableEnd > truncated THEN ReadableEnd ELSE mem

AckedSurvive == phase # "up" => \A s \in acked : s <= RecoveredValue

\* The journaled adapter implements the register that loses no acknowledged
\* batch.
Register == INSTANCE DurableRegister WITH
  value <- IF phase = "up" THEN mem ELSE RecoveredValue,
  open  <- phase = "up"
ImplementsRegister == Register!RegSpec

\* Every commit returns: leaders, waiters and parked threads all finish.
EveryCommitReturns == \A t \in Threads : pc[t] # "idle" ~> pc[t] = "idle"

------------------------------------------------------------------------------
(* The inductive invariant behind the safety properties                    *)

\* Threads inside commit hold distinct sequences not yet released; the holder
\* of the turn is the one whose sequence is next.
ThreadInv ==
  /\ phase # "up" => \A t \in Threads : pc[t] = "idle"
  /\ \A t \in Threads : pc[t] # "idle" =>
       /\ nextApply <= seq[t] /\ seq[t] <= appended
       /\ Holding(t) => seq[t] = nextApply
       /\ pc[t] = "sync" => seq[t] <= upto[t] /\ upto[t] <= appended
  /\ \A t, u \in Threads :
       pc[t] # "idle" /\ pc[u] # "idle" /\ seq[t] = seq[u] => t = u

\* A batch past the wait loop and not refused is durable, and stays so.
DurableInv ==
  /\ phase = "up" => durable <= synced
  /\ \A s \in syncFailed : s <= failedUpto
  /\ \A t \in Threads :
       (pc[t] \in {"park", "gate"} \/ Holding(t)) /\ ~refused[t] =>
         seq[t] <= durable /\ seq[t] \notin syncFailed

\* The files are ahead of the truncated journal and behind the synced one.
StoreInv ==
  /\ mem \in disk
  /\ truncated <= synced /\ synced <= appended
  /\ \A v \in disk : truncated <= v
  /\ phase = "up" => \A v \in disk : v <= mem /\ v <= durable /\ v \notin syncFailed

\* The store is behind every batch not yet applied, and holds the one whose
\* application just succeeded and every batch acknowledged.
AppliedInv ==
  /\ \A t \in Threads :
       /\ pc[t] \notin {"idle", "truncate", "release"} => mem < seq[t]
       /\ pc[t] = "truncate" => result[t] = "ok" /\ disk = {mem}
       /\ pc[t] \in {"truncate", "release"} /\ result[t] = "ok" => mem = seq[t]
  /\ phase = "up" => \A s \in acked : s <= mem

\* While the adapter is down the journal or the store has every acknowledged
\* batch.  A partial append may break this, and only this.
RecoveryInv ==
  /\ \A p \in torn : truncated <= p /\ p <= appended
  /\ phase \in {"replay", "flushed"} =>
       /\ synced = appended /\ torn = {}
       /\ truncated <= replayed /\ replayed <= appended
       /\ replayed > truncated => mem = replayed
       /\ phase = "flushed" => replayed = appended /\ disk = {mem}
  /\ TornAt = {} =>
       torn = {} /\ (phase # "up" => \A s \in acked : s <= synced)

IndInv == TypeOK /\ ThreadInv /\ DurableInv /\ StoreInv /\ AppliedInv
          /\ RecoveryInv
=============================================================================

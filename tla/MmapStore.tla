------------------------------ MODULE MmapStore ------------------------------
(***************************************************************************)
(* GenericMmapStore (generic/mmap_store.rs): one table in four places, the *)
(* record map in memory, the record blob, the insert log and the slot file *)
(* (generic/record_blob.rs, insert_log.rs, slot_file.rs).  The slot is the *)
(* authority for a record's scannable field, blob and log for all others.  *)
(*                                                                         *)
(* The caller holds the store exclusively, so operations do not interleave *)
(* with each other; crashes and I/O errors fall between their steps, and   *)
(* every file operation is a step.  Each write brings a version of its own *)
(* and records are pairs [body, scan] of versions.                         *)
(***************************************************************************)
EXTENDS Naturals, Sequences, FiniteSets, SequencesExt

CONSTANTS
  Ids,
  Loaded,      \* ids with a record when the store is created
  MaxVersion,  \* bound: writes in a behaviour
  MaxLog,      \* bound: entries in the log
  Scenarios    \* what may happen: see IsScenario

\* operations: what clients call; faults: the I/O errors that may happen;
\* writes, crashes: bounds; powerLoss: may a crash lose slot writes not flushed?
IsScenario(s) ==
  /\ s.operations \subseteq {"insert", "update", "replace", "delete", "compact", "flush"}
  /\ s.faults \subseteq {"log_sync", "log_torn", "slot_append", "compact_slots", "compact_log"}
  /\ s.writes \in 1 .. MaxVersion /\ s.crashes \in Nat /\ s.powerLoss \in BOOLEAN

ASSUME StoreAssumption ==
  /\ \A s \in Scenarios : IsScenario(s)
  /\ IsFiniteSet(Ids) /\ Ids # {} /\ Loaded \subseteq Ids /\ MaxVersion \in Nat /\ MaxLog \in Nat

VARIABLES
  scenario,  \* fixed from the start
  records,   \* Ids -> version of the body in memory, 0 for no record
  position,  \* Ids -> its slot, 0 for none
  index,     \* indexed value -> ids in the bucket, in order
  mapped,    \* how many slots of the file are mapped, none after a failed rewrite
  blob, log, slots,  \* the files
  ragged,    \* do bytes of half a slot follow the slots?
  flushed,   \* the slot file as of its last flush
  phase, pc, cur,    \* the process, the operation under way, its id and version
  version, crashes,
  allowed,   \* history: Ids -> what a reader may find, given the answers so far
  misnumbered, \* history: are the positions those of a slot file since replaced?
  stray      \* history: ids whose slots in the file cannot be relied on

vars == <<records, position, index, mapped, blob, log, slots, ragged, flushed, phase, pc,
          cur, version, scenario, crashes, allowed, misnumbered, stray>>

memory == <<records, position, index>>
file   == <<slots, ragged, flushed, stray>>
bounds == <<scenario, crashes>>
life   == <<phase, bounds, misnumbered>>

Operations == scenario.operations
Faults     == scenario.faults
PowerLoss  == scenario.powerLoss

NoRec     == [body |-> 0, scan |-> 0]
Rec(b, s) == [body |-> b, scan |-> s]
Recs      == [body : 0 .. MaxVersion, scan : 0 .. MaxVersion]

Item(x, v)   == [kind |-> "item", id |-> x, body |-> v]
Tombstone(x) == [kind |-> "tombstone", id |-> x, body |-> 0]
Junk(entry)  == [entry EXCEPT !.kind = "junk"]  \* an entry cut short

Slots      == [id : Ids, val : 1 .. MaxVersion, committed : BOOLEAN]
Slot(x, v) == [id |-> x, val |-> v, committed |-> TRUE]

\* Records with the bodies of those in R, and scan or any value in their slots.
WithScan(R, scan) == (R \cap {NoRec}) \cup {Rec(r.body, scan) : r \in R \ {NoRec}}
AnyScan(R) == UNION {WithScan(R, s) : s \in 1 .. MaxVersion}

NoCall == [id |-> CHOOSE x \in Ids : TRUE, v |-> 0]

\* A record's indexed field, of two values, changes with its body.
Bucket(v) == v % 2

Live == {x \in Ids : records[x] # 0}

\* The slice index of a slot access stays within the mapping.
Mapped(x) == position[x] \in 1 .. mapped

\* GetById: the record with its slot's value; a panic where none is mapped.
Unread == [body |-> 0, scan |-> MaxVersion]
View(x) == IF records[x] = 0 THEN NoRec
           ELSE IF Mapped(x) THEN Rec(records[x], slots[position[x]].val)
           ELSE Unread

\* is_gapless: the mapped slots are as many as the live records, so scan reads
\* them blindly.  (A piece of a slot in the mapping makes the code's answer no.)
Gapless == mapped = Cardinality({x \in Ids : position[x] # 0})

Init ==
  /\ scenario \in Scenarios
  /\ records = [x \in Ids |-> IF x \in Loaded THEN 1 ELSE 0]
  /\ slots = SetToSeq({Slot(x, 1) : x \in Loaded}) /\ flushed = slots
  /\ position = [x \in Ids |-> IF x \in Loaded
                               THEN CHOOSE p \in DOMAIN slots : slots[p].id = x ELSE 0]
  /\ index = [b \in {0, 1} |-> IF b = Bucket(1) THEN SetToSeq(Loaded) ELSE <<>>]
  /\ blob = [x \in Ids |-> IF x \in Loaded THEN Rec(1, 1) ELSE NoRec]
  /\ log = <<>> /\ mapped = Len(slots) /\ ragged = FALSE /\ stray = {}
  /\ phase = "up" /\ pc = "idle" /\ cur = NoCall
  /\ version = 1 /\ crashes = 0 /\ misnumbered = FALSE
  /\ allowed = [x \in Ids |-> {blob[x]}]

------------------------------------------------------------------------------
(* The log and the slots                                                   *)

\* merge_log: the last entry of an id wins over the blob.
Fold(b, entries) ==
  [x \in Ids |->
     LET of == {i \in DOMAIN entries : entries[i].id = x /\ entries[i].kind # "junk"}
         last == entries[CHOOSE i \in of : \A j \in of : j <= i]
     IN IF of = {} THEN b[x]
        ELSE IF last.kind = "tombstone" THEN NoRec ELSE Rec(last.body, last.body)]

\* Entries cut short, with others appended behind them.
Torn(entries) == {i \in DOMAIN entries : entries[i].kind = "junk" /\ i # Len(entries)}

Merged == Fold(blob, log)

\* committed_pairs: of several committed slots of an id the last one counts.
Committed(x) == {p \in DOMAIN slots : slots[p].id = x /\ slots[p].committed}
SlotOf(x) == IF Committed(x) = {} THEN 0
             ELSE CHOOSE p \in Committed(x) : \A q \in Committed(x) : q <= p

\* The members of S, each once, those of smaller keys first.
Ordered(S, key) ==
  CHOOSE s \in [1 .. Cardinality(S) -> S] :
    IsInjective(s) /\ \A i, j \in DOMAIN s : i < j => key[s[i]] <= key[s[j]]

\* retain: the others stay, in their order.
Without(bucket, x) ==
  LET others == {i \in DOMAIN bucket : bucket[i] # x}
      at == Ordered(others, [i \in others |-> i])
  IN [i \in DOMAIN at |-> bucket[at[i]]]
Unindex(x) == [index EXCEPT ![Bucket(records[x])] = Without(@, x)]

------------------------------------------------------------------------------
(* insert, replace, delete: first the log entry                            *)

Idle(op) == phase = "up" /\ pc = "idle" /\ op \in Operations

\* append_entry: write_all and sync_data.  An error is the operation's error
\* whether or not the entry, or part of it, reached the file.
LogEntry(op, x, v, entry, outcomes) ==
  /\ Len(log) < MaxLog /\ version' = v
  /\ \/ /\ log' = Append(log, entry) /\ pc' = op /\ cur' = [id |-> x, v |-> v]
        /\ allowed' = [allowed EXCEPT ![x] = @ \cup outcomes]
     \/ /\ "log_sync" \in Faults
        /\ log' = Append(log, entry) /\ UNCHANGED <<pc, cur>>
        /\ allowed' = [allowed EXCEPT ![x] = @ \cup outcomes]
     \/ /\ "log_torn" \in Faults
        /\ log' = Append(log, Junk(entry)) /\ UNCHANGED <<pc, cur, allowed>>
  /\ UNCHANGED <<memory, mapped, blob, file, life>>

Insert(x) ==
  /\ Idle("insert") /\ records[x] = 0 /\ version < scenario.writes
  /\ LogEntry("insert", x, version + 1, Item(x, version + 1),
              {Rec(version + 1, version + 1)})

\* A crash before the slot is written leaves the new body with the old scannable
\* value: the window replace's comment names.
Replace(x) ==
  /\ Idle("replace") /\ records[x] # 0 /\ version < scenario.writes
  /\ LogEntry("replace", x, version + 1, Item(x, version + 1),
              {Rec(version + 1, version + 1)}
                \cup {Rec(version + 1, r.scan) : r \in allowed[x] \ {NoRec}})

Delete(x) ==
  /\ Idle("delete") /\ records[x] # 0
  /\ LogEntry("delete", x, version, Tombstone(x), {NoRec})

------------------------------------------------------------------------------
(* ... then the slot and the maps                                          *)

Done(x, found) == /\ pc' = "idle" /\ cur' = NoCall
                  /\ allowed' = [allowed EXCEPT ![x] = found]

\* A slot written under the number it had in the file before is another record's.
WriteSlot(x, s) ==
  /\ slots' = [slots EXCEPT ![position[x]] = s]
  /\ stray' = IF misnumbered THEN stray \cup {x, slots[position[x]].id} ELSE stray
  /\ UNCHANGED <<ragged, mapped>>

\* What a window over half a slot and the start of the next reads as: any value,
\* and committed only with the id of a slot cut short.
Garbled(x) == {s \in Slots : IF s.committed THEN s.id \in stray ELSE s.id = x}

\* append_committed_slot: the slot lands at the end of the file, behind half a
\* slot out of step with all that read it.
AppendSlot(x, v) ==
  /\ slots' \in {Append(slots, s) : s \in IF ragged THEN Garbled(x) ELSE {Slot(x, v)}}
  /\ ragged' = ragged /\ stray' = IF ragged THEN stray \cup {x} ELSE stray

\* Nothing is written, or part of the slot, which may complete the window of a
\* slot cut short before; or all of it, and the file is not mapped again.
AppendFails(x, v) ==
  \/ UNCHANGED <<slots, ragged, stray>>
  \/ /\ stray' = stray \cup {x}
     /\ \/ slots' = slots /\ ragged' = TRUE
        \/ slots' = Append(slots, Slot(x, v)) /\ ~ragged /\ ragged' = FALSE
        \/ /\ ragged /\ ragged' \in BOOLEAN
           /\ slots' \in {Append(slots, s) : s \in Garbled(x)}

\* append_committed_slots, which maps the whole file again, then the maps.
InsertSlot ==
  LET x == cur.id  v == cur.v IN
  /\ pc = "insert"
  /\ AppendSlot(x, v) /\ mapped' = Len(slots')
  /\ position' = [position EXCEPT ![x] = Len(slots')]
  /\ records' = [records EXCEPT ![x] = v]
  /\ index' = [index EXCEPT ![Bucket(v)] = Append(@, x)]
  /\ Done(x, IF ragged THEN AnyScan({Rec(v, v)}) ELSE {Rec(v, v)})
  /\ UNCHANGED <<blob, log, flushed, life, version>>

\* The slot cannot be appended: an error, and the log entry stays.
InsertSlotFails ==
  /\ pc = "insert" /\ "slot_append" \in Faults
  /\ pc' = "idle" /\ cur' = NoCall
  /\ AppendFails(cur.id, cur.v)
  /\ UNCHANGED <<memory, mapped, blob, log, flushed, life, version, allowed>>

\* Mutation: the id stays in its old bucket.
ReindexKeepsOld(x, v) ==
  index' = IF Bucket(v) = Bucket(records[x]) THEN index
           ELSE [index EXCEPT ![Bucket(v)] = Append(@, x)]

Reindex(x, v) ==
  index' = IF Bucket(v) = Bucket(records[x]) THEN index
           ELSE [Unindex(x) EXCEPT ![Bucket(v)] = Append(@, x)]

ReplaceSlot ==
  LET x == cur.id  v == cur.v IN
  /\ pc = "replace" /\ Mapped(x)
  /\ WriteSlot(x, [slots[position[x]] EXCEPT !.val = v])
  /\ Reindex(x, v)
  /\ records' = [records EXCEPT ![x] = v]
  /\ Done(x, {Rec(v, v)})
  /\ UNCHANGED <<position, blob, log, flushed, life, version>>

\* clear_marker, then the maps; the slot stays in the file.
DeleteSlot ==
  LET x == cur.id IN
  /\ pc = "delete" /\ Mapped(x)
  /\ WriteSlot(x, [slots[position[x]] EXCEPT !.committed = FALSE])
  /\ index' = Unindex(x)
  /\ position' = [position EXCEPT ![x] = 0]
  /\ records' = [records EXCEPT ![x] = 0]
  /\ Done(x, {NoRec})
  /\ UNCHANGED <<blob, log, flushed, life, version>>

\* UpdateField: one value in a slot, no log.  Doubts about the body remain.
Update(x) ==
  LET v == version + 1 IN
  /\ Idle("update") /\ records[x] # 0 /\ Mapped(x) /\ version < scenario.writes
  /\ version' = v
  /\ WriteSlot(x, [slots[position[x]] EXCEPT !.val = v])
  /\ allowed' = [allowed EXCEPT ![x] = IF PowerLoss THEN @ \cup WithScan(@, v) ELSE WithScan(@, v)]
  /\ UNCHANGED <<memory, blob, log, flushed, life, pc, cur>>

\* Flush: msync, of a mapping of the whole file.
FlushSlots ==
  /\ Idle("flush") /\ PowerLoss /\ mapped = Len(slots)
  /\ flushed' = slots
  /\ allowed' = [x \in Ids |-> IF misnumbered \/ x \in stray THEN allowed[x]
                              ELSE {r \in allowed[x] :
                                      r = NoRec \/ records[x] = 0 \/ r.scan = View(x).scan}]
  /\ UNCHANGED <<memory, mapped, blob, log, slots, ragged, stray, life, pc, cur, version>>

------------------------------------------------------------------------------
(* compact                                                                 *)

\* The live records in the order of their slots.
InOrder == Ordered(Live, position)

\* The blob, by write and rename, from the live records and what their slots, or
\* those now under their numbers, hold.
CompactBlob ==
  /\ Idle("compact") /\ \A x \in Live : Mapped(x)
  /\ blob' = [x \in Ids |-> View(x)]
  /\ allowed' = [x \in Ids |-> IF misnumbered /\ x \in Live
                              THEN allowed[x] \cup WithScan(allowed[x], View(x).scan) ELSE allowed[x]]
  /\ pc' = "compact_slots"
  /\ UNCHANGED <<memory, mapped, log, file, life, cur, version>>

\* SlotFile::rewrite, from the records just written to the blob.
Rewritten == [i \in DOMAIN InOrder |-> Slot(InOrder[i], blob[InOrder[i]].scan)]
Rewrite   == slots' = Rewritten /\ flushed' = Rewritten /\ ragged' = FALSE /\ stray' = {}

CompactSlots ==
  /\ pc = "compact_slots"
  /\ Rewrite /\ mapped' = Len(slots')
  /\ pc' = "compact_log"
  /\ UNCHANGED <<memory, blob, log, life, cur, version, allowed>>

\* rewrite fails before it lets go of the old mapping, or between that and the
\* mapping of the new file, with the old file or the new one in place.  Then no
\* slot is mapped until the next insert maps what is there.
CompactSlotsFails ==
  /\ pc = "compact_slots" /\ "compact_slots" \in Faults
  /\ pc' = "idle"
  /\ \/ UNCHANGED <<file, mapped, misnumbered>>
     \/ mapped' = 0 /\ UNCHANGED <<file, misnumbered>>
     \/ mapped' = 0 /\ Rewrite /\ misnumbered' = TRUE
  /\ UNCHANGED <<memory, blob, log, phase, bounds, cur, version, allowed>>

\* Mutation: the positions of before the compaction stay.
CompactLogOldPositions ==
  /\ pc = "compact_log" /\ pc' = "idle" /\ log' = <<>> /\ misnumbered' = FALSE
  /\ allowed' = [x \in Ids |-> {View(x)}]
  /\ UNCHANGED <<memory, mapped, blob, file, phase, bounds, cur, version>>

\* The log goes and the positions are renumbered; nothing is in doubt any more.
CompactLog ==
  /\ pc = "compact_log" /\ pc' = "idle" /\ log' = <<>> /\ misnumbered' = FALSE
  /\ position' = [x \in Ids |-> IF x \in Live THEN CHOOSE i \in DOMAIN InOrder : InOrder[i] = x
                                ELSE 0]
  /\ allowed' = [x \in Ids |-> {blob[x]}]
  /\ UNCHANGED <<records, index, mapped, blob, file, phase, bounds, cur, version>>

\* The log cannot be removed: compact returns before it renumbers.
CompactLogFails ==
  /\ pc = "compact_log" /\ "compact_log" \in Faults
  /\ pc' = "idle" /\ misnumbered' = TRUE
  /\ UNCHANGED <<memory, mapped, blob, log, file, phase, bounds, cur, version, allowed>>

\* A write beyond the mapping panics and poisons the store's lock; so does
\* compact, which reads every slot.  (A reader that panics poisons nothing.)
Panic ==
  /\ phase = "up"
  /\ \/ pc = "idle" /\ {"update", "compact"} \cap Operations # {} /\ \E x \in Live : ~Mapped(x)
     \/ pc \in {"replace", "delete"} /\ ~Mapped(cur.id)
  /\ phase' = "dead" /\ pc' = "idle" /\ cur' = NoCall
  /\ UNCHANGED <<memory, mapped, blob, log, file, bounds, misnumbered, version, allowed>>

------------------------------------------------------------------------------
(* Crash and open_portable                                                 *)

\* A killed process loses nothing in the files.  A power loss may lose, slot by
\* slot, what was written since the last flush, and slots appended since.
Survivors ==
  IF ~PowerLoss THEN {slots}
  ELSE {s \in UNION {[1 .. n -> Range(slots) \cup Range(flushed)] :
                       n \in Len(flushed) .. Len(slots)} :
          \A p \in DOMAIN s : s[p] = slots[p] \/ (p \in DOMAIN flushed /\ s[p] = flushed[p])}

\* Nothing of the store is left in memory, and slots that cannot be relied on
\* may read as anything from now on.
Gone ==
  /\ phase' = "down" /\ pc' = "idle" /\ cur' = NoCall /\ misnumbered' = FALSE
  /\ records' = [x \in Ids |-> 0] /\ position' = [x \in Ids |-> 0] /\ mapped' = 0
  /\ index' = [b \in {0, 1} |-> <<>>]
  /\ allowed' = [x \in Ids |-> IF x \in stray' THEN AnyScan(allowed[x]) ELSE allowed[x]]
  /\ crashes < scenario.crashes /\ crashes' = crashes + 1
  /\ UNCHANGED <<scenario, blob, log, version>>

Crash ==
  /\ slots' \in Survivors /\ flushed' = slots'
  /\ ragged' \in {ragged, ragged /\ ~PowerLoss} /\ stray' = stray
  /\ Gone

\* Bytes behind a torn entry.  Its length may reach beyond the end of the file:
\* then raw_entries stops there.  Or it takes in what follows, part of the next
\* entries or some of them whole, as the rest of its own payload: then reading
\* goes on behind them or stops, and an item of its id may be made of the mixture.
\* What is lost or misread so is what the store holds from now on.
ReadTorn ==
  /\ phase = "down" /\ Torn(log) # {}
  /\ LET t     == Min(Torn(log))
         cut   == SubSeq(log, 1, t - 1)
         lost  == {log[i].id : i \in t .. Len(log)}
         mixed == {<<>>} \cup {<<Item(log[t].id, b)>> : b \in 1 .. (IF log[t].body = 0 THEN 0 ELSE MaxVersion)}
     IN /\ \E m \in mixed, i \in t + 2 .. Len(log) + 1 : log' = cut \o m \o SubSeq(log, i, Len(log))
        /\ allowed' = [x \in Ids |-> IF x \in lost THEN AnyScan({Fold(blob, log')[x]})
                                     ELSE allowed[x]]
  /\ UNCHANGED <<memory, mapped, blob, file, life, pc, cur, version>>

\* The mixture does not decode; or the first entry was cut short in the header
\* that is written with it.
OpenFails ==
  /\ phase = "down" /\ (Torn(log) # {} \/ (log # <<>> /\ log[1].kind = "junk"))
  /\ phase' = "broken"
  /\ UNCHANGED <<memory, mapped, blob, log, file, bounds, misnumbered, pc, cur, version, allowed>>

\* Blob and log are read, the slot file is mapped and its pairs are collected.  A
\* slot whose record is gone, as a deletion cut short leaves it, stays in the file.
OpenRead ==
  /\ phase = "down" /\ Torn(log) = {}
  /\ phase' = "reading" /\ mapped' = Len(slots)
  /\ position' = [x \in Ids |-> IF Merged[x] = NoRec THEN 0 ELSE SlotOf(x)]
  /\ stray' = stray \cup {x \in Ids : Merged[x] = NoRec /\ Committed(x) # {}}
  /\ UNCHANGED <<records, index, blob, log, slots, ragged, flushed, bounds, misnumbered, pc,
                 cur, version, allowed>>

Missing == {x \in Ids : Merged[x] # NoRec /\ position[x] = 0}
NextMissing == CHOOSE x \in Missing : TRUE

\* A record without a slot gets one, seeded from the record.
OpenAppend ==
  LET x == NextMissing IN
  /\ phase = "reading" /\ Missing # {}
  /\ AppendSlot(x, Merged[x].scan) /\ mapped' = Len(slots')
  /\ position' = [position EXCEPT ![x] = Len(slots')]
  /\ allowed' = [allowed EXCEPT ![x] = IF ragged THEN AnyScan(@) ELSE @]
  /\ UNCHANGED <<records, index, blob, log, flushed, life, pc, cur, version>>

\* The slot cannot be appended: open returns the error.
OpenAppendFails ==
  /\ phase = "reading" /\ Missing # {} /\ "slot_append" \in Faults
  /\ AppendFails(NextMissing, Merged[NextMissing].scan) /\ flushed' = flushed
  /\ Gone

\* Mutation: the log is removed before the blob holds its records.
OpenBlobNever ==
  /\ phase = "reading" /\ Missing = {}
  /\ phase' = "blob"
  /\ UNCHANGED <<memory, mapped, blob, log, file, bounds, misnumbered, pc, cur, version, allowed>>

\* The blob is rewritten if it is not that of these records.
OpenBlob ==
  /\ phase = "reading" /\ Missing = {}
  /\ blob' = Merged
  /\ phase' = "blob"
  /\ UNCHANGED <<memory, mapped, log, file, bounds, misnumbered, pc, cur, version, allowed>>

\* The log goes, and the store is what blob and slots say.
OpenLog ==
  /\ phase = "blob"
  /\ log' = <<>> /\ phase' = "opened"
  /\ records' = [x \in Ids |-> Merged[x].body]
  /\ index' = [b \in {0, 1} |->
                 SetToSeq({x \in Ids : Merged[x] # NoRec /\ Bucket(Merged[x].body) = b})]
  /\ UNCHANGED <<position, mapped, blob, file, bounds, misnumbered, pc, cur, version, allowed>>

\* The first reader settles what the crash left in doubt.
Serve ==
  /\ phase = "opened" /\ phase' = "up"
  /\ allowed' = [x \in Ids |-> {View(x)}]
  /\ UNCHANGED <<memory, mapped, blob, log, file, bounds, misnumbered, pc, cur, version>>

------------------------------------------------------------------------------
Next ==
  \/ \E x \in Ids : Insert(x) \/ Replace(x) \/ Delete(x) \/ Update(x)
  \/ InsertSlot \/ InsertSlotFails \/ ReplaceSlot \/ DeleteSlot \/ FlushSlots
  \/ CompactBlob \/ CompactSlots \/ CompactSlotsFails \/ CompactLog \/ CompactLogFails
  \/ Panic \/ Crash \/ ReadTorn \/ OpenFails \/ OpenRead \/ OpenAppend \/ OpenAppendFails
  \/ OpenBlob \/ OpenLog \/ Serve

Spec == Init /\ [][Next]_vars

------------------------------------------------------------------------------
(* Properties                                                              *)

Reading == phase \in {"opened", "up"} /\ pc = "idle"

\* The types of GenericMmapStore's maps and files.
TypeOK ==
  /\ records \in [Ids -> 0 .. MaxVersion] /\ position \in [Ids -> Nat]
  /\ mapped \in 0 .. Len(slots) /\ ragged \in BOOLEAN
  /\ \A b \in {0, 1} : Range(index[b]) \subseteq Ids
  /\ blob \in [Ids -> Recs]
  /\ \A i \in DOMAIN log : log[i] \in [kind : {"item", "tombstone", "junk"}, id : Ids,
                                      body : 0 .. MaxVersion]
  /\ Range(slots) \cup Range(flushed) \subseteq Slots
  /\ phase \in {"up", "down", "reading", "blob", "opened", "broken", "dead"}
  /\ pc \in {"idle", "insert", "replace", "delete", "compact_slots", "compact_log"}
  /\ cur \in [id : Ids, v : 0 .. MaxVersion]
  /\ version \in 1 .. MaxVersion /\ crashes \in 0 .. scenario.crashes
  /\ allowed \in [Ids -> SUBSET Recs] /\ misnumbered \in BOOLEAN /\ stray \subseteq Ids

\* What a reader finds is what the last acknowledged write of the record left,
\* whatever was compacted, crashed or failed since; an operation that was cut
\* short or failed took effect or did not (insert, replace, delete: "`Ok`
\* means ... durable"; compact: "Nothing a reader sees changes").  Two things are
\* not kept, and history says which: entries behind a torn one are lost when the
\* log is read, and values in slots once a failed append or a compaction that
\* failed half way has put the file out of step; all but these values is kept.
Promised ==
  Reading => \A x \in Ids :
    IF misnumbered \/ (x \in Live /\ ~Mapped(x))
    THEN records[x] \in {r.body : r \in allowed[x]}
    ELSE View(x) \in allowed[x]

\* Maps and files keep their types; every live record is read at its own slot,
\* the one open would find for it: compaction, retired slots and slots appended
\* by open or insert never let position_index drift from the file, other than
\* for the records whose appends failed or landed behind half a slot, and while
\* a compaction that failed half way has renumbered the file alone.  As long as
\* a file is mapped no position lies beyond it, and whenever is_gapless lets scan
\* take every slot for a live record's, each one mapped is.
SlotsSound ==
  TypeOK /\ (Reading /\ ~misnumbered =>
    /\ \A x \in Ids \ stray : position[x] = IF x \in Live THEN SlotOf(x) ELSE 0
    /\ mapped # 0 => \A x \in Live : Mapped(x)
    /\ Gapless => \A p \in 1 .. mapped : \E x \in Live : position[x] = p)

\* FilterEq: each bucket holds the live records with its value, each once.
IndexExact ==
  Reading => \A b \in {0, 1} :
    /\ Range(index[b]) = {x \in Live : Bucket(records[x]) = b}
    /\ Len(index[b]) = Cardinality(Range(index[b]))
==============================================================================

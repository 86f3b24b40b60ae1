------------------------------- MODULE Serving -------------------------------
(***************************************************************************)
(* Requests on the memory and entity tables of one server that lock a table *)
(* more than once, both tables in turn, or write more than one record:       *)
(* link_across, delete_across, WriteBatch both ways, Page, Join, Query and    *)
(* Aggregate; and the client's traverse, a request for each hop.             *)
(*                                                                          *)
(* Each operation of a table runs under the lock of its production store and *)
(* is one step.  Gates and sessions are Connection's; I/O errors are         *)
(* MmapStore's, but for the one that delete_across answers for.              *)
(***************************************************************************)
EXTENDS Naturals, Sequences, FiniteSets, SequencesExt, FiniteSetsExt, Queries

CONSTANTS
  Conns,
  Reader,              \* the connection that pages, joins, queries and traverses
  Memories, Entities,  \* record ids
  Stamps,              \* values of the field a page is ordered by, updated_at
  Absent,              \* no record
  PageLimit,
  MaxDepth, MaxNodes,  \* what traverse is asked for
  Scenarios            \* see IsScenario

Ids   == Memories \cup Entities
\* mentions joins a memory and an entity, relates_to two entities.
Edges == {g \in SUBSET Ids : Cardinality(g) = 2 /\ g \cap Entities # {}}
Mentions(edges) == {g \in edges : g \cap Memories # {}}

\* The ReplaceIf guard is that of a sync: the stored stamp is older.
Writes ==
  [kind : {"insert", "replace", "replace_if"}, id : Ids, stamp : Stamps]
    \cup [kind : {"delete"}, id : Ids] \cup [kind : {"link"}, left : Ids, right : Entities]
TableWrites(ids) == {w \in Writes : (IF w.kind = "link" THEN w.left ELSE w.id) \in ids}

\* writers: the connections that write; start: the databases a history starts from;
\* writes: single requests; pipelined, atomic: batches; reads: what Reader does; roots:
\* where a traverse starts; queries: what a scan is for; checked: does the build check
\* arithmetic?  Of an edge that is there at the start, both ends are.
IsScenario(s) ==
  /\ s.start \subseteq {d \in [records : [Ids -> Stamps \cup {Absent}], edges : SUBSET Edges] :
                        \A x \in UNION d.edges : d.records[x] # Absent}
  /\ s.writers \subseteq Conns \ {Reader} /\ s.writes \subseteq Writes /\ s.roots \subseteq Ids
  /\ s.reads \subseteq {"page_index", "page_scan", "join", "traverse", "query"}
  /\ s.checked \in BOOLEAN
  /\ \A b \in s.pipelined \cup s.atomic :
       b \in Seq(TableWrites(Memories)) \cup Seq(TableWrites(Entities)) /\ b # <<>>

ASSUME ServingAssumption ==
  /\ Ids \subseteq Nat /\ Stamps \subseteq Nat \ {0} /\ Memories \cap Entities = {}
  /\ IsFiniteSet(Ids) /\ IsFiniteSet(Stamps)  \* both are 64-bit integers
  /\ Reader \in Conns /\ {PageLimit, MaxDepth, MaxNodes} \subseteq Nat \ {0} /\ Absent \notin Nat
  /\ \A s \in Scenarios : IsScenario(s)

VARIABLES
  scenario, \* fixed from the start
  db,       \* records: id -> its updated_at, or Absent; edges
  conn,     \* the request each connection is in the middle of
  ledger,   \* history: see Init
  walk,     \* the pages of one walk: cursor, and history
  join,     \* history of the last join
  hops,     \* the last traverse: depth of the ids it visited, and history
  ask       \* the last query and its answer, and history

vars == <<scenario, db, conn, ledger, walk, join, hops, ask>>

Idle    == [at |-> "idle"]
NoKey   == <<0, 0>>
Has(d, x)  == d.records[x] # Absent
Live(d, S) == {x \in S : Has(d, x)}

\* Mutation: whatever the dropped edges touch loses all its edges.
OwnEdgesNeighbours(d, x) ==
  {g \in d.edges : \E h \in d.edges : x \in h /\ g \cap h # {} /\ (x \in Memories \/ h \subseteq Entities)}
\* The edges a delete of x drops in its own table, and those detach drops in the
\* other: an entity's mentions are kept by the memory table.
OwnEdges(d, x) == {g \in d.edges : x \in g /\ (x \in Memories \/ g \subseteq Entities)}
FarEdges(d, x) == {g \in Mentions(d.edges) : x \in g}

------------------------------------------------------------------------------
(* One write, under the lock of its table                                  *)

\* MultiSymmetric::link: the right end of a mention is not this table's to check.
LinkResult(d, w) ==
  IF ~Has(d, w.left) \/ (w.left \in Entities /\ ~Has(d, w.right)) THEN "RecordNotFound"
  ELSE IF w.left = w.right THEN "Malformed"
  ELSE IF {w.left, w.right} \in d.edges THEN "AlreadyLinked"
  ELSE "Linked"

Result(d, w) ==
  CASE w.kind = "insert" -> IF Has(d, w.id) THEN "Duplicate" ELSE "Inserted"
    [] w.kind = "link"   -> LinkResult(d, w)
    [] w.kind = "delete" -> IF Has(d, w.id) THEN "Deleted" ELSE "NotFound"
    [] OTHER -> IF ~Has(d, w.id) THEN "NotFound"
                ELSE IF w.kind = "replace_if" /\ d.records[w.id] >= w.stamp THEN "GuardFailed"
                ELSE "Replaced"

Hard == {"RecordNotFound", "Malformed"}

After(d, w) ==
  LET r == Result(d, w) IN
  CASE r \in {"Inserted", "Replaced"} -> [d EXCEPT !.records[w.id] = w.stamp]
    [] r = "Deleted" -> [d EXCEPT !.records[w.id] = Absent, !.edges = @ \ OwnEdges(d, w.id)]
    [] r = "Linked"  -> [d EXCEPT !.edges = @ \cup {{w.left, w.right}}]
    [] OTHER -> d

Detaching(x) == \E c \in Conns : conn[c].at = "detach" /\ conn[c].id = x

\* loose: the far end of a link may have gone since it was checked, or was not.
Noted(l, d, w, loose) ==
  LET r == Result(d, w) IN
  CASE r \in {"Linked", "AlreadyLinked"} ->
         LET g == {w.left, w.right} IN
         [l EXCEPT !.acked = @ \cup {h \in {g} : Has(d, w.right) /\ ~Detaching(w.right)},
                   !.unchecked = @ \cup {h \in {g} : loose /\ w.left \in Memories}]
    [] r = "Deleted" ->
         [l EXCEPT !.acked = {g \in @ : w.id \notin g}, !.unchecked = @ \ OwnEdges(d, w.id),
                   !.stale = @ \cup {c \in Conns : conn[c].at = "link" /\ conn[c].right = w.id}]
    [] OTHER -> l

NoJoin == [done |-> TRUE, rows |-> {}, stood |-> {}, seen |-> {}, met |-> {}]
NoAsk  == [done |-> TRUE, stood |-> {}, was |-> {}, query |-> [kind |-> "none"], answer |-> <<>>]
NoHops == [done |-> TRUE, depth |-> <<>>, stood |-> {}, seen |-> {}]

\* Everything a change of the database makes the histories of open reads remember;
\* those of finished ones are dropped.
Stored(d)   == {[id |-> x, fields |-> [updated_at |-> d.records[x], content |-> "text", tags |-> {}]]
                  : x \in Live(d, Memories)}
Standing(d) == {g \in Mentions(d.edges) : \A x \in g : Has(d, x)}

Change(new) ==
  /\ db' = new
  /\ walk' = [walk EXCEPT !.untouched = {x \in @ : new.records[x] = db.records[x]}]
  /\ join' = IF join.done THEN NoJoin
             ELSE [join EXCEPT !.stood = @ \cap Standing(new), !.seen = @ \cup new.edges,
                               !.met = @ \cup Live(new, Ids)]
  /\ hops' = IF hops.done THEN NoHops
             ELSE [hops EXCEPT !.stood = @ \cap new.edges, !.seen = @ \cup Mentions(new.edges)]
  /\ ask' = IF ask.done THEN NoAsk ELSE [ask EXCEPT !.stood = @ \cap Stored(new), !.was = @ \cup Stored(new)]

Move(c, to) == conn' = [conn EXCEPT ![c] = to]
NoWrite == UNCHANGED <<db, ledger>>
NoRead  == UNCHANGED <<walk, join, hops, ask>>

------------------------------------------------------------------------------
Init ==
  /\ scenario \in Scenarios
  /\ db \in scenario.start
  /\ conn = [c \in Conns |-> Idle]
     \* acked: links answered Ok since their ends were last deleted; unchecked: mentions
     \* made without a standing check of the far end; leftover: entities deleted
     \* without a detach; stale: link requests whose far end has gone since the check.
  /\ ledger = [acked |-> {}, unchecked |-> {}, leftover |-> {}, stale |-> {}]
     \* untouched: memories live and unchanged since the walk began; again: those
     \* returned twice; shifted: did a row change between its choice and its get?
  /\ walk = [done |-> TRUE, cursor |-> NoKey, untouched |-> {}, returned |-> {}, again |-> {},
             shifted |-> FALSE]
     \* stood: mentions that were there all through the join; seen: those there at
     \* some time, met: records there at some time.
  /\ join = NoJoin
     \* stood: mentions that were there all through the traverse; seen: at some time.
  /\ hops = NoHops
     \* stood: the rows that were there all through the scan; was: those there at some time.
  /\ ask = NoAsk

------------------------------------------------------------------------------
(* Single writes                                                           *)

Writer(c) == c \in scenario.writers /\ conn[c].at = "idle"
Starts(c, w) == Writer(c) /\ w \in scenario.writes

\* What dispatch does alone: anything but a mention, and a deletion unless another
\* table has relations into this one.
Write(c, w) ==
  /\ Starts(c, w)
  /\ IF w.kind = "link" THEN w.left \in Entities
     ELSE w.kind = "delete" => w.id \in Memories \/ ~Has(db, w.id)
  /\ Change(After(db, w)) /\ ledger' = Noted(ledger, db, w, FALSE)
  /\ UNCHANGED <<scenario, conn>>

\* delete_across: the record first, then, under the other table's lock, its edges.
DeleteEntity(c, w) ==
  /\ Starts(c, w) /\ w.kind = "delete" /\ w.id \in Entities /\ Has(db, w.id)
  /\ Change(After(db, w)) /\ ledger' = Noted(ledger, db, w, FALSE)
  /\ Move(c, [at |-> "detach", id |-> w.id])
  /\ UNCHANGED scenario

Detach(c) ==
  /\ conn[c].at = "detach"
  /\ LET x == conn[c].id IN
     /\ Change([db EXCEPT !.edges = @ \ FarEdges(db, x)])
     /\ ledger' = [ledger EXCEPT !.unchecked = {g \in @ : x \notin g}, !.leftover = @ \ {x}]
  /\ Move(c, Idle) /\ UNCHANGED scenario

\* The tombstone could not be logged: the client is told Storage.
DetachFails(c) ==
  /\ conn[c].at = "detach"
  /\ ledger' = [ledger EXCEPT !.leftover = @ \cup {conn[c].id}]
  /\ Move(c, Idle) /\ UNCHANGED <<scenario, db>> /\ NoRead

\* Mutation: the far end is not looked up.
CheckRightNever(c, w) ==
  /\ Starts(c, w) /\ w.kind = "link" /\ w.left \in Memories
  /\ Move(c, [at |-> "link", left |-> w.left, right |-> w.right])
  /\ UNCHANGED scenario /\ NoWrite /\ NoRead

\* link_across: the far end is looked up in its own table first.
CheckRight(c, w) ==
  /\ Starts(c, w) /\ w.kind = "link" /\ w.left \in Memories
  /\ Has(db, w.right)
  /\ Move(c, [at |-> "link", left |-> w.left, right |-> w.right])
  /\ UNCHANGED scenario /\ NoWrite /\ NoRead

Link(c) ==
  /\ conn[c].at = "link"
  /\ LET w == [kind |-> "link", left |-> conn[c].left, right |-> conn[c].right] IN
     /\ Change(After(db, w))
     /\ ledger' = [Noted(ledger, db, w, c \in ledger.stale) EXCEPT !.stale = @ \ {c}]
  /\ Move(c, Idle) /\ UNCHANGED scenario

------------------------------------------------------------------------------
(* WriteBatch                                                              *)

NotDetached(ws) == {w.id : w \in {v \in ws : v.kind = "delete" /\ v.id \in Entities}}

\* Pipelined: each write is its single-record method, under its own lock.  Neither
\* link_across nor delete_across is in the way.
BeginBatch(c, ops) ==
  /\ Writer(c) /\ ops \in scenario.pipelined
  /\ Move(c, [at |-> "batch", todo |-> ops])
  /\ UNCHANGED scenario /\ NoWrite /\ NoRead

BatchWrite(c) ==
  /\ conn[c].at = "batch"
  /\ LET w == Head(conn[c].todo) IN
     /\ Change(After(db, w))
     /\ ledger' = [Noted(ledger, db, w, TRUE) EXCEPT !.leftover = @ \cup NotDetached({w})]
  /\ Move(c, IF Len(conn[c].todo) = 1 THEN Idle ELSE [conn[c] EXCEPT !.todo = Tail(@)])
  /\ UNCHANGED scenario

\* Atomic: under one exclusive section every link's left end is looked up, and the batch
\* refused if one is missing; then the writes are applied until one fails, whose
\* predecessors stay.
Missing(ops) == {w \in Range(ops) : w.kind = "link" /\ ~Has(db, w.left)}

ApplyWrite(s, w) ==
  IF s.failed \/ Result(s.db, w) \in Hard THEN [s EXCEPT !.failed = TRUE]
  ELSE [s EXCEPT !.db = After(s.db, w),
                 !.ledger = [Noted(s.ledger, s.db, w, TRUE) EXCEPT !.leftover = @ \cup NotDetached({w})]]

Applied(ops) ==
  LET after[i \in 0 .. Len(ops)] ==
        IF i = 0 THEN [failed |-> FALSE, db |-> db, ledger |-> ledger]
        ELSE ApplyWrite(after[i - 1], ops[i])
  IN after[Len(ops)]

AtomicBatch(c, ops) ==
  /\ Writer(c) /\ ops \in scenario.atomic /\ Missing(ops) = {}
  /\ Change(Applied(ops).db) /\ ledger' = Applied(ops).ledger
  /\ UNCHANGED <<scenario, conn>>

------------------------------------------------------------------------------
(* Page                                                                    *)

Key(d, x) == <<d.records[x], x>>
Before(k, l) == k[1] < l[1] \/ (k[1] = l[1] /\ k[2] < l[2])

Ascending(keys) ==
  CHOOSE s \in [1 .. Cardinality(keys) -> keys] : \A i, j \in DOMAIN s : i < j => Before(s[i], s[j])

\* Mutation: the cursor's own row is not past it.
FirstPageFromCursor(keys, cursor) ==
  LET past == Ascending({k \in keys : ~Before(k, cursor)}) IN
  SubSeq(past, 1, Min({PageLimit, Len(past)}))

\* page_by's range walk, and page_ids' selection: the first keys past the cursor.
FirstPage(keys, cursor) ==
  LET past == Ascending({k \in keys : Before(cursor, k)}) IN
  SubSeq(past, 1, Min({PageLimit, Len(past)}))
Asks(c, what) == c = Reader /\ conn[c].at = "idle" /\ what \in scenario.reads

\* A client walks from the start, each page from the last row of the one before.
BeginWalk(c) ==
  /\ (Asks(c, "page_index") \/ Asks(c, "page_scan")) /\ walk.done
  /\ walk' = [done |-> FALSE, cursor |-> NoKey, untouched |-> Live(db, Memories),
              returned |-> {}, again |-> {}, shifted |-> FALSE]
  /\ UNCHANGED <<scenario, conn, join, hops, ask>> /\ NoWrite

\* An empty page ends the walk.
EndPage(c, last) ==
  /\ Move(c, Idle)
  /\ walk' = IF last = NoKey THEN [walk EXCEPT !.done = TRUE] ELSE [walk EXCEPT !.cursor = last]

\* The ids are chosen; the lock is let go; the rows are still to be read.
Choose(c, keys) ==
  LET page == FirstPage(keys, walk.cursor) IN
  IF page = <<>> THEN EndPage(c, NoKey)
  ELSE Move(c, [at |-> "rows", page |-> page, last |-> NoKey]) /\ UNCHANGED walk

PageByIndex(c) ==
  /\ Asks(c, "page_index") /\ ~walk.done
  /\ Choose(c, {Key(db, x) : x \in Live(db, Memories)})
  /\ UNCHANGED <<scenario, join, hops, ask>> /\ NoWrite

\* page_by_scan: all_ids, a get for each id's key, then page_ids.
PageByScan(c) ==
  /\ Asks(c, "page_scan") /\ ~walk.done
  /\ IF Live(db, Memories) = {} THEN Choose(c, {})
     ELSE /\ Move(c, [at |-> "keys", ids |-> Live(db, Memories), keys |-> {}])
          /\ UNCHANGED walk
  /\ UNCHANGED <<scenario, join, hops, ask>> /\ NoWrite

ReadKey(c) ==
  /\ conn[c].at = "keys"
  /\ \E x \in conn[c].ids :
       LET left == conn[c].ids \ {x}
           keys == conn[c].keys \cup {Key(db, y) : y \in Live(db, {x})} IN
       IF left = {} THEN Choose(c, keys)
       ELSE Move(c, [at |-> "keys", ids |-> left, keys |-> keys]) /\ UNCHANGED walk
  /\ UNCHANGED <<scenario, join, hops, ask>> /\ NoWrite

\* A row that is gone is skipped; one that changed comes as it is now.
GetRow(c) ==
  /\ conn[c].at = "rows"
  /\ LET k    == Head(conn[c].page)
         x    == k[2]
         rest == Tail(conn[c].page)
         got  == Live(db, {x})
         last == IF got = {} THEN conn[c].last ELSE Key(db, x)
         seen == [walk EXCEPT !.returned = @ \cup got,
                              !.again = @ \cup (walk.returned \cap got),
                              !.shifted = @ \/ Key(db, x) # k] IN
     IF rest # <<>>
     THEN Move(c, [at |-> "rows", page |-> rest, last |-> last]) /\ walk' = seen
     ELSE /\ Move(c, Idle)
          /\ walk' = IF last = NoKey THEN [seen EXCEPT !.done = TRUE]
                     ELSE [seen EXCEPT !.cursor = last]
  /\ UNCHANGED <<scenario, join, hops, ask>> /\ NoWrite

------------------------------------------------------------------------------
(* Join from memory over mentions to entity                                *)

\* scan_all's all_ids.
BeginJoin(c) ==
  /\ Asks(c, "join")
  /\ join' = [done |-> FALSE, rows |-> {}, stood |-> Standing(db), seen |-> Mentions(db.edges),
              met |-> Live(db, Ids)]
  /\ Move(c, [at |-> "scan", ids |-> Live(db, Memories), lefts |-> {}])
  /\ UNCHANGED <<scenario, walk, hops, ask>> /\ NoWrite

ScanRow(c) ==
  /\ conn[c].at = "scan"
  /\ \E x \in conn[c].ids :
       Move(c, [conn[c] EXCEPT !.ids = @ \ {x}, !.lefts = @ \cup Live(db, {x})])
  /\ UNCHANGED scenario /\ NoWrite /\ NoRead

\* neighbors_by_relation of one left row, once every row is read.
Neighbours(c) ==
  /\ conn[c].at = "scan" /\ conn[c].ids = {}
  /\ \E x \in conn[c].lefts :
       Move(c, [at |-> "rights", left |-> x, lefts |-> conn[c].lefts \ {x},
                rights |-> {y \in Entities : {x, y} \in db.edges}])
  /\ UNCHANGED scenario /\ NoWrite /\ NoRead

\* Mutation: a missing right row is joined all the same.
GetRightAlways(c) ==
  /\ conn[c].at = "rights"
  /\ \E y \in conn[c].rights :
       /\ Move(c, [conn[c] EXCEPT !.rights = @ \ {y}])
       /\ join' = [join EXCEPT !.rows = @ \cup {{conn[c].left, y}}]
  /\ UNCHANGED <<scenario, walk, hops, ask>> /\ NoWrite

\* A right row that is not there is skipped.
GetRight(c) ==
  /\ conn[c].at = "rights"
  /\ \E y \in conn[c].rights :
       /\ Move(c, [conn[c] EXCEPT !.rights = @ \ {y}])
       /\ join' = [join EXCEPT !.rows = @ \cup {{conn[c].left, z} : z \in Live(db, {y})}]
  /\ UNCHANGED <<scenario, walk, hops, ask>> /\ NoWrite

NextLeft(c) ==
  /\ conn[c].at = "rights" /\ conn[c].rights = {}
  /\ Move(c, [at |-> "scan", ids |-> {}, lefts |-> conn[c].lefts])
  /\ UNCHANGED scenario /\ NoWrite /\ NoRead

EndJoin(c) ==
  /\ conn[c].at = "scan" /\ conn[c].ids = {} /\ conn[c].lefts = {}
  /\ join' = [join EXCEPT !.done = TRUE] /\ Move(c, Idle)
  /\ UNCHANGED <<scenario, walk, hops, ask>> /\ NoWrite

------------------------------------------------------------------------------
(* The client's traverse over mentions, in the memory table                *)

BeginTraverse(c) ==
  /\ Asks(c, "traverse")
  /\ \E x \in scenario.roots :
       /\ Move(c, [at |-> "hops", frontier |-> {x}, next |-> {}, depth |-> 0])
       /\ hops' = [done |-> FALSE, depth |-> [y \in {x} |-> 0], stood |-> Mentions(db.edges),
                   seen |-> Mentions(db.edges)]
  /\ UNCHANGED <<scenario, walk, join, ask>> /\ NoWrite

Visited == DOMAIN hops.depth
Full    == Cardinality(Visited) >= MaxNodes
Beside(x) == {y \in Ids : {x, y} \in Mentions(db.edges)}

\* Mutation: an id that is met again gets the new depth.
HopOverwrites(c) ==
  /\ conn[c].at = "hops" /\ conn[c].depth < MaxDepth /\ ~Full
  /\ \E x \in conn[c].frontier :
       LET rest == conn[c].frontier \ {x}
           next == conn[c].next \cup (Beside(x) \ Visited) IN
       /\ hops' = [hops EXCEPT !.depth = [y \in Visited \cup Beside(x) |->
                                IF y \in Beside(x) THEN conn[c].depth + 1 ELSE hops.depth[y]]]
       /\ Move(c, IF rest # {} THEN [conn[c] EXCEPT !.frontier = rest, !.next = next]
                  ELSE [conn[c] EXCEPT !.frontier = next, !.next = {}, !.depth = @ + 1])
  /\ UNCHANGED <<scenario, walk, join, ask>> /\ NoWrite

\* One request: the neighbours of a node of this depth, as long as there is room.
Hop(c) ==
  /\ conn[c].at = "hops" /\ conn[c].depth < MaxDepth /\ ~Full
  /\ \E x \in conn[c].frontier :
       LET new == Beside(x) \ Visited IN
       \E found \in kSubset(Min({Cardinality(new), MaxNodes - Cardinality(Visited)}), new) :
         LET rest == conn[c].frontier \ {x}
             next == conn[c].next \cup found IN
         /\ hops' = [hops EXCEPT !.depth = [y \in Visited \cup found |->
                                  IF y \in found THEN conn[c].depth + 1 ELSE hops.depth[y]]]
         /\ Move(c, IF rest # {} THEN [conn[c] EXCEPT !.frontier = rest, !.next = next]
                    ELSE [conn[c] EXCEPT !.frontier = next, !.next = {}, !.depth = @ + 1])
  /\ UNCHANGED <<scenario, walk, join, ask>> /\ NoWrite

EndTraverse(c) ==
  /\ conn[c].at = "hops" /\ (Full \/ conn[c].depth = MaxDepth \/ conn[c].frontier = {})
  /\ hops' = [hops EXCEPT !.done = TRUE] /\ Move(c, Idle)
  /\ UNCHANGED <<scenario, walk, join, ask>> /\ NoWrite

------------------------------------------------------------------------------
(* Query and Aggregate on the memory table                                 *)

BeginQuery(c) ==
  /\ Asks(c, "query")
  /\ ask' = [NoAsk EXCEPT !.done = FALSE, !.stood = Stored(db), !.was = Stored(db)]
  /\ Move(c, [at |-> "query", ids |-> Live(db, Memories), rows |-> <<>>])
  /\ UNCHANGED <<scenario, walk, join, hops>> /\ NoWrite

\* scan_all's get, one id after the other, in the order of a hash map.
ReadRow(c) ==
  /\ conn[c].at = "query"
  /\ \E x \in conn[c].ids :
       Move(c, [conn[c] EXCEPT !.ids = @ \ {x},
                  !.rows = @ \o SetToSeq({row \in Stored(db) : row.id = x})])
  /\ UNCHANGED scenario /\ NoWrite /\ NoRead

\* Which of the queries it was matters no sooner.
EndQuery(c, q) ==
  /\ conn[c].at = "query" /\ conn[c].ids = {} /\ q \in scenario.queries /\ Valid(q)
  /\ ask' = [ask EXCEPT !.done = TRUE, !.query = q,
                        !.answer = Evaluate(conn[c].rows, q, scenario.checked)]
  /\ Move(c, Idle)
  /\ UNCHANGED <<scenario, walk, join, hops>> /\ NoWrite

------------------------------------------------------------------------------
Next ==
  \E c \in Conns :
    \/ \E w \in scenario.writes : Write(c, w) \/ DeleteEntity(c, w) \/ CheckRight(c, w)
    \/ Detach(c) \/ DetachFails(c) \/ Link(c)
    \/ \E ops \in scenario.pipelined : BeginBatch(c, ops)
    \/ BatchWrite(c)
    \/ \E ops \in scenario.atomic : AtomicBatch(c, ops)
    \/ BeginWalk(c) \/ PageByIndex(c) \/ PageByScan(c) \/ ReadKey(c) \/ GetRow(c)
    \/ BeginJoin(c) \/ ScanRow(c) \/ Neighbours(c) \/ GetRight(c) \/ NextLeft(c) \/ EndJoin(c)
    \/ BeginTraverse(c) \/ Hop(c) \/ EndTraverse(c)
    \/ BeginQuery(c) \/ ReadRow(c) \/ (\E q \in scenario.queries : EndQuery(c, q))

Spec == Init /\ [][Next]_vars

------------------------------------------------------------------------------
(* Properties                                                              *)

Keys == (Stamps \cup {0, Absent}) \X (Memories \cup {0})
Pending ==
  {Idle} \cup [at : {"detach"}, id : Entities]
    \cup [at : {"link"}, left : Memories, right : Entities]
    \cup [at : {"keys"}, ids : SUBSET Memories, keys : SUBSET (Stamps \X Memories)]
    \cup [at : {"scan"}, ids : SUBSET Memories, lefts : SUBSET Memories]
    \cup [at : {"rights"}, left : Memories, lefts : SUBSET Memories, rights : SUBSET Entities]
    \cup [at : {"hops"}, frontier : SUBSET Ids, next : SUBSET Ids, depth : 0 .. MaxDepth]

\* The types of the two tables and of the locals of the requests in progress.
TypeOK ==
  /\ db \in [records : [Ids -> Stamps \cup {Absent}], edges : SUBSET Edges]
  /\ \A c \in Conns :
       \/ conn[c] \in Pending
       \/ conn[c].at = "query" /\ conn[c].ids \subseteq Memories
          /\ IsInjective([i \in DOMAIN conn[c].rows |-> conn[c].rows[i].id])
       \/ conn[c].at = "batch" /\ conn[c].todo \in Seq(Writes) /\ conn[c].todo # <<>>
       \/ /\ conn[c].at = "rows" /\ Len(conn[c].page) \in 1 .. PageLimit
          /\ Range(conn[c].page) \subseteq Keys /\ conn[c].last \in Keys
  /\ {ledger.acked, ledger.unchecked} \subseteq SUBSET Edges
  /\ ledger.leftover \subseteq Entities /\ ledger.stale \subseteq Conns
  /\ walk.cursor \in Keys
  /\ Visited \subseteq Ids /\ {hops.stood, hops.seen} \subseteq SUBSET Edges
  /\ walk.returned \cup walk.again \cup walk.untouched \subseteq Memories

\* Tables and locals keep their types, no edge outlives a record of its own table, and
\* a mention is without its entity only while delete_across is about to detach it, or after a detach failed, a batch
\* deleted the entity, a batch made the link, or the entity went between the two
\* steps of link_across: nothing else leaves one behind (link_across: "the far
\* endpoint must exist").
EdgesResolve ==
  TypeOK /\ \A g \in db.edges : \A x \in g :
    \/ Has(db, x)
    \/ g \in Mentions(db.edges) /\ x \in Entities
       /\ (Detaching(x) \/ x \in ledger.leftover \/ g \in ledger.unchecked)

\* A link answered Ok stays until one of its ends is deleted: no other record's
\* deletion, replacement or detach takes it, in either table.  Links made while a
\* detach of the same id is still to come are the exception.
AckedLinksStand == ledger.acked \subseteq db.edges

\* Unless a row was changed between being chosen and being read, a walk returns
\* every memory that was there unchanged all along, once, in order: at each page's
\* end exactly those up to the cursor ("a concurrent insert or delete never shifts
\* or repeats rows").
WalkExact ==
  conn[Reader].at \in {"idle", "scan", "rights", "hops", "query"} /\ ~walk.shifted =>
    /\ \A x \in walk.untouched : x \in walk.returned <=> ~Before(walk.cursor, Key(db, x))
    /\ walk.untouched \cap walk.again = {}
    /\ walk.done => walk.untouched \subseteq walk.returned

\* A join returns every mention that stood all through it, both ends included, and
\* only mentions there were, to entities there were.
JoinFaithful ==
  join.done =>
    /\ join.stood \subseteq join.rows /\ join.rows \subseteq join.seen
    /\ UNION join.rows \subseteq join.met

\* The ids within so many hops of a traverse's root.
Within(edges) ==
  LET ball[k \in 0 .. MaxDepth] ==
        IF k = 0 THEN {x \in Visited : hops.depth[x] = 0}
        ELSE ball[k - 1] \cup {y \in Ids : \E x \in ball[k - 1] : {x, y} \in edges}
  IN ball

\* A traverse beside writers: an id's depth is that of a path over mentions there were,
\* and no shorter path stood all along ("its true shortest path"); it stops at MaxNodes
\* ids, and short of them every id within MaxDepth over mentions that stood is in it.
TraverseFaithful ==
  LET stood == Within(hops.stood)
      seen  == Within(hops.seen) IN
  hops.done =>
    /\ \A x \in Visited : /\ x \in seen[hops.depth[x]]
                          /\ hops.depth[x] > 0 => x \notin stood[hops.depth[x] - 1]
    /\ Cardinality(Visited) <= MaxNodes /\ (Full \/ stood[MaxDepth] \subseteq Visited)

\* A Query or an Aggregate answers for some table that has every row that stood all
\* through its scan, and of every other id a row it had at some time, or none; exactly,
\* but for a sum that no i64 can hold (AGG-FR-007, AGG-FR-008: "limit truncates the
\* group count, applied after the full reduction").
QueryFaithful ==
  ask.done /\ ask.query.kind # "none" =>
    \E table \in SUBSET ask.was :
      /\ ask.stood \subseteq table
      /\ \A row, other \in table : row.id = other.id => row = other
      /\ IsAnswer(ask.answer, table, ask.query)
==============================================================================

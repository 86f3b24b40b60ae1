------------------------------ MODULE LayerStack ------------------------------
(***************************************************************************)
(* The layers of generic/store.rs and generic/mmap_scanned.rs composed over *)
(* a store of records, as generic/memory.rs, entity.rs, order_customer.rs, *)
(* relation.rs and the in-memory stacks compose them:                      *)
(*   - in memory: Indexed, Scanned, Reversed, NameIndex, Ordered;          *)
(*   - with files of their own: MmapScanned (one more slot file), Symmetric *)
(*     and MultiSymmetric (an edge blob and log per label, a manifest).    *)
(* The base is what MmapStore promises: a record is there or not, in one   *)
(* durable step.  A stack is held exclusively by the operation under way,  *)
(* so what comes between two steps of one is a crash or an I/O error.      *)
(***************************************************************************)
EXTENDS Naturals, Sequences, FiniteSets, SequencesExt

CONSTANTS
  Ids,      \* this table's
  FarIds,   \* another table's: the far ends of a foreign label
  Stacks,   \* compositions: see IsStack
  MaxLog,   \* bound: entries in an edge log
  MaxSlots, \* bound: slots in MmapScanned's file
  Absent, NoFile, NoLabel

Keys == 0 .. 2     \* of a record's other fields: 0 is a record without a parent
Vals == 0 .. 1     \* of its scannable field
Records == [key : Keys, val : Vals]

Layers == {"indexed", "scanned", "mmap_scanned", "symmetric", "multi",
           "reversed", "names", "ordered", "rekeyed"}

\* ids, records: what clients write; files: may the process crash and come back?
\* named: the labels the table's constructors name; labels: those clients use.
\* "rekeyed" is Ordered by the field that update writes.  Indexed and Scanned have
\* no constructor that opens files; a record's value is in one column at most.
IsStack(s) ==
  /\ s.layers \subseteq Layers /\ s.named \subseteq s.labels /\ s.foreign \subseteq s.labels
  /\ s.ids \subseteq Ids /\ s.records \subseteq Records /\ s.files \in BOOLEAN
  /\ s.layers \cap {"indexed", "scanned"} # {} => ~s.files /\ "mmap_scanned" \notin s.layers

ASSUME StackAssumption ==
  /\ IsFiniteSet(Ids) /\ Ids \cap FarIds = {} /\ MaxLog \in Nat /\ MaxSlots \in Nat
  /\ \A s \in Stacks : IsStack(s)

VARIABLES
  stack,     \* fixed from the start
  base, created,              \* the store beneath and whether its files exist
  slots,                      \* MmapScanned's slot file
  blob, log, manifest,        \* label -> edges, label -> entries, set of labels
  inner,     \* Indexed's buckets and Scanned's cache and positions
  position,  \* MmapScanned: id -> slot, 0 for none
  edges,     \* Symmetric, MultiSymmetric: label -> adjacency, or NoLabel
  outer,     \* Reversed's and NameIndex's lists, Ordered's pairs
  phase, op,
  failed,    \* history: an operation stopped half way since the last opening
  cut,       \* history: deleted ids whose edges may have been left behind
  doubt,     \* history: edges an operation answered an error about
  allowed    \* history: id -> the records a reader may find

disk    == <<base, created, slots, blob, log, manifest>>
memory  == <<inner, position, edges, outer>>
history == <<failed, cut, doubt, allowed>>
vars    == <<stack, disk, memory, phase, op, history>>

Has(layer)  == layer \in stack.layers
Labels      == UNION {s.labels : s \in Stacks}
Edges       == {e \in SUBSET (Ids \cup FarIds) : Cardinality(e) = 2}
Slots       == [id : Ids, val : Vals, live : BOOLEAN]

ASSUME ValueAssumption ==
  /\ Absent \notin Records /\ NoLabel \notin Labels /\ NoFile \notin Seq(Slots)
  /\ \A E \in SUBSET Edges : E # NoLabel /\ E # NoFile

NoOp == [kind |-> "none", step |-> "", id |-> NoLabel, old |-> Absent, new |-> Absent,
         todo |-> {}, label |-> NoLabel, edge |-> {}]
Idle == phase = "open" /\ op = NoOp

------------------------------------------------------------------------------
(* In-memory layers: what each does when a record goes from old to new,    *)
(* either of which may be Absent                                           *)

\* A set of numbers in their order.
Ascending(S) ==
  CHOOSE s \in [1 .. Cardinality(S) -> S] : \A i, j \in DOMAIN s : i < j => s[i] < s[j]

\* retain: the others stay, in their order.
Without(bucket, x) ==
  LET at == Ascending({i \in DOMAIN bucket : bucket[i] # x}) IN [i \in DOMAIN at |-> bucket[at[i]]]
Moved(b, x, losing, gaining) ==
  [k \in Keys |-> IF k \in losing THEN Without(b[k], x)
                  ELSE IF k \in gaining THEN Append(b[k], x) ELSE b[k]]

\* Indexed: the bucket of the indexed value; Reversed: the parent's children.
IndexedKeys(r)  == IF r = Absent THEN {} ELSE {r.key}
ReversedKeys(r) == IndexedKeys(r) \ {0}
\* NameIndex: the label and the aliases.  Two keys share a name.
NameKeys(r) == IF r = Absent THEN {} ELSE {r.key, (r.key + 1) % 3}
OrderPairs(x, r) == IF r = Absent THEN {}
                    ELSE {<<IF Has("rekeyed") THEN r.val ELSE r.key, x>>}

\* Mutation: a replaced record stays under its old key.
KeepsOldBucket(b, x, old, new) == Moved(b, x, {}, IndexedKeys(new) \ IndexedKeys(old))

IndexedStep(b, x, old, new) ==
  Moved(b, x, IndexedKeys(old) \ IndexedKeys(new), IndexedKeys(new) \ IndexedKeys(old))

ReversedStep(b, x, old, new) ==
  Moved(b, x, ReversedKeys(old) \ ReversedKeys(new), ReversedKeys(new) \ ReversedKeys(old))

\* NameIndex looks before it adds.
NamesStep(b, x, old, new) ==
  Moved(b, x, NameKeys(old) \ NameKeys(new),
        {k \in NameKeys(new) : ~Contains(b[k], x)})

OrderedStep(pairs, x, old, new) == (pairs \ OrderPairs(x, old)) \cup OrderPairs(x, new)

\* Scanned: a deletion moves the last value into the place that falls free.
ScannedStep(c, x, new) ==
  LET p == c.at[x]  last == Len(c.cache) IN
  CASE new # Absent /\ p = 0 ->
         [cache |-> Append(c.cache, new.val), at |-> [c.at EXCEPT ![x] = last + 1]]
    [] new # Absent /\ p # 0 -> [c EXCEPT !.cache[p] = new.val]
    [] new = Absent /\ p # 0 ->
         [cache |-> Front([c.cache EXCEPT ![p] = c.cache[last]]),
          at |-> [y \in Ids |-> IF y = x THEN 0
                                ELSE IF c.at[y] = last THEN p ELSE c.at[y]]]
    [] OTHER -> c

InnerStep(x, old, new) ==
  [buckets |-> IF Has("indexed") THEN IndexedStep(inner.buckets, x, old, new)
                                 ELSE inner.buckets,
   scanned |-> IF Has("scanned") THEN ScannedStep(inner.scanned, x, new)
                                 ELSE inner.scanned]

OuterStep(o, x, old, new) ==
  [children |-> IF Has("reversed") THEN ReversedStep(o.children, x, old, new) ELSE o.children,
   names    |-> IF Has("names") THEN NamesStep(o.names, x, old, new) ELSE o.names,
   order    |-> IF Has("ordered") \/ Has("rekeyed")
                THEN OrderedStep(o.order, x, old, new) ELSE o.order]

NoBuckets == [k \in Keys |-> <<>>]
NoInner == [buckets |-> NoBuckets, scanned |-> [cache |-> <<>>, at |-> [x \in Ids |-> 0]]]
NoOuter == [children |-> NoBuckets, names |-> NoBuckets, order |-> {}]

------------------------------------------------------------------------------
(* Files                                                                   *)

Item(e)      == [kind |-> "item", ids |-> e]
Tombstone(x) == [kind |-> "tombstone", ids |-> {x}]
Touching(x, E) == {e \in E : x \in e}

\* merge_edge_lists: the last entry about an edge, its link or the tombstone of an
\* end, wins over the blob.
About(e, entry) == IF entry.kind = "item" THEN entry.ids = e ELSE e \cap entry.ids # {}
Merge(E, entries) ==
  {e \in Edges :
     LET of == {i \in DOMAIN entries : About(e, entries[i])}
     IN IF of = {} THEN e \in E
        ELSE entries[CHOOSE i \in of : \A j \in of : j <= i].kind = "item"}

\* What the next opening will find under a label.
Durable(l) == IF blob[l] = NoFile THEN {} ELSE Merge(blob[l], log[l])

\* committed_pairs: of several committed slots of an id the last one counts.
Committed(x) == {p \in DOMAIN slots : slots[p].id = x /\ slots[p].live}
SlotOf(x) == IF Committed(x) = {} THEN 0
             ELSE CHOOSE p \in Committed(x) : \A q \in Committed(x) : q <= p
Slot(x, v) == [id |-> x, val |-> v, live |-> TRUE]

Live == {x \in Ids : base[x] # Absent}

\* GetById: each layer patches the field it holds into what comes from beneath.
Get(x) ==
  IF base[x] = Absent THEN Absent
  ELSE IF Has("scanned") /\ inner.scanned.at[x] # 0
       THEN [base[x] EXCEPT !.val = inner.scanned.cache[inner.scanned.at[x]]]
  ELSE IF Has("mmap_scanned") /\ position[x] # 0
       THEN [base[x] EXCEPT !.val = slots[position[x]].val]
  ELSE base[x]

\* What may be found of a record written but not acknowledged: a slot written
\* for the id before may stand in for its own.
Unsettled(x, r) ==
  {r} \cup IF slots = NoFile THEN {} ELSE {[r EXCEPT !.val = slots[p].val] : p \in Committed(x)}

------------------------------------------------------------------------------
Init ==
  /\ stack \in Stacks
  /\ base = [x \in Ids |-> Absent] /\ created = FALSE /\ slots = NoFile
  /\ blob = [l \in Labels |-> NoFile] /\ log = [l \in Labels |-> <<>>] /\ manifest = {}
  /\ inner = NoInner /\ position = [x \in Ids |-> 0]
  /\ edges = [l \in Labels |-> NoLabel] /\ outer = NoOuter
  /\ phase = "down" /\ op = NoOp
  /\ failed = FALSE /\ cut = {} /\ doubt = {} /\ allowed = [x \in Ids |-> {Absent}]

------------------------------------------------------------------------------
(* insert, replace, delete: the base and the layers over it that have no   *)
(* file, the slot, the edges of a deleted record, the layers outside       *)

Write(kind, x, r, todo) ==
  /\ base' = [base EXCEPT ![x] = r]
  /\ inner' = InnerStep(x, Get(x), r)
  /\ op' = [NoOp EXCEPT !.kind = kind, !.id = x, !.old = Get(x), !.new = r, !.todo = todo,
                        !.step = IF Has("mmap_scanned") THEN "slot" ELSE "outside"]
  /\ allowed' = [allowed EXCEPT ![x] = IF r = Absent THEN {Absent} ELSE Unsettled(x, r)]
  /\ UNCHANGED <<stack, created, slots, blob, log, manifest, position, edges, outer, phase,
                 failed, cut, doubt>>

Insert(x, r)  == /\ Idle /\ base[x] = Absent /\ Write("insert", x, r, {})
                 /\ Has("mmap_scanned") => Len(slots) < MaxSlots
Replace(x, r) == Idle /\ base[x] # Absent /\ Write("replace", x, r, {})

\* The id a deletion under way may leave edges of: it is not done with them, or
\* memory does not hold them all.
Leaving == IF op.kind = "delete" /\ (op.todo # {} \/ failed) THEN {op.id} ELSE {}

Linked(x) == {l \in Labels : edges[l] # NoLabel /\ Touching(x, edges[l]) # {}}
Room(l) == Len(log[l]) < MaxLog

Delete(x) ==
  /\ Idle /\ base[x] # Absent /\ \A l \in Linked(x) : Room(l)
  /\ Write("delete", x, Absent, Linked(x))

\* MmapScanned: a slot more, the slot's value rewritten, the slot's mark cleared.
SlotStep ==
  LET x == op.id IN
  /\ op.step = "slot"
  /\ \/ /\ op.kind = "insert"
        /\ slots' = Append(slots, Slot(x, op.new.val))
        /\ position' = [position EXCEPT ![x] = Len(slots) + 1]
     \/ /\ op.kind = "replace" /\ position[x] # 0
        /\ slots' = [slots EXCEPT ![position[x]].val = op.new.val] /\ UNCHANGED position
     \/ /\ op.kind = "delete"
        /\ slots' = IF position[x] = 0 THEN slots ELSE [slots EXCEPT ![position[x]].live = FALSE]
        /\ position' = [position EXCEPT ![x] = 0]
  /\ op' = [op EXCEPT !.step = "outside"]
  /\ UNCHANGED <<stack, base, created, blob, log, manifest, inner, edges, outer, phase, history>>

\* The operation answers an error where it stands: the layers outside keep
\* what they had of the record.
StopHere ==
  /\ op' = NoOp /\ failed' = TRUE
  /\ UNCHANGED <<stack, base, created, slots, blob, manifest, memory, phase, allowed>>

\* The slot cannot be appended; a replacement finds none.
SlotFails ==
  /\ op.step = "slot"
  /\ \/ op.kind = "insert" /\ ~failed  \* bound: one I/O error between two openings
     \/ op.kind = "replace" /\ position[op.id] = 0
  /\ StopHere /\ UNCHANGED <<log, cut, doubt>>

\* Mutation: the edges go from memory and no tombstone is logged.
DropsUnlogged(l) ==
  /\ op.kind = "delete" /\ op.step = "outside" /\ l \in op.todo
  /\ edges' = [edges EXCEPT ![l] = @ \ Touching(op.id, @)] /\ log' = log
  /\ op' = [op EXCEPT !.todo = @ \ {l}] /\ doubt' = doubt
  /\ UNCHANGED <<stack, base, created, slots, blob, manifest, inner, position, outer, phase,
                 failed, cut, allowed>>

\* detach_under: label by label, in any order, the tombstone and then memory.
DropEdges(l) ==
  /\ op.kind = "delete" /\ op.step = "outside" /\ l \in op.todo
  /\ log' = [log EXCEPT ![l] = Append(@, Tombstone(op.id))]
  /\ edges' = [edges EXCEPT ![l] = @ \ Touching(op.id, @)]
  /\ op' = [op EXCEPT !.todo = @ \ {l}]
  /\ doubt' = doubt \ ({l} \X Touching(op.id, Edges))
  /\ UNCHANGED <<stack, base, created, slots, blob, manifest, inner, position, outer, phase,
                 failed, cut, allowed>>

\* The tombstone cannot be written, or cannot be synced and is there all the same.
DropFails(l) ==
  /\ op.kind = "delete" /\ op.step = "outside" /\ l \in op.todo /\ ~failed
  /\ cut' = cut \cup Leaving
  /\ \/ UNCHANGED <<log, doubt>>
     \/ /\ log' = [log EXCEPT ![l] = Append(@, Tombstone(op.id))]
        /\ doubt' = doubt \cup ({l} \X Touching(op.id, edges[l]))
  /\ StopHere

\* The layers outside, by the record captured before the operation.
Finish ==
  /\ op.step = "outside" /\ op.todo = {}
  /\ outer' = OuterStep(outer, op.id, op.old, op.new)
  /\ op' = NoOp
  /\ allowed' = [allowed EXCEPT ![op.id] = {op.new}]
  /\ cut' = IF op.kind # "delete" THEN cut
            ELSE (cut \ {op.id}) \cup Leaving
  /\ UNCHANGED <<stack, disk, inner, position, edges, phase, failed, doubt>>

\* update: the value where it lives; an Ordered by that field moves the record.
Update(x, v) ==
  LET new == [Get(x) EXCEPT !.val = v] IN
  /\ Idle /\ base[x] # Absent /\ v # Get(x).val
  /\ IF Has("mmap_scanned")
     THEN /\ position[x] # 0 /\ slots' = [slots EXCEPT ![position[x]].val = v]
          /\ UNCHANGED <<base, inner>>
     ELSE IF Has("scanned")
     THEN /\ inner' = [inner EXCEPT !.scanned = ScannedStep(@, x, new)]
          /\ UNCHANGED <<base, slots>>
     ELSE base' = [base EXCEPT ![x].val = v] /\ UNCHANGED <<slots, inner>>
  /\ outer' = IF Has("rekeyed")
              THEN [outer EXCEPT !.order = OrderedStep(@, x, Get(x), new)] ELSE outer
  /\ allowed' = [allowed EXCEPT ![x] = {new}]
  /\ UNCHANGED <<stack, created, blob, log, manifest, position, edges, phase, op, failed, cut, doubt>>

------------------------------------------------------------------------------
(* link and detach                                                         *)

\* Both ends have a record and differ; a foreign label's far end is the caller's
\* to check.
Linkable(l, x, y) ==
  /\ l \in stack.labels /\ base[x] # Absent
  /\ IF l \in stack.foreign THEN y \in FarIds ELSE y \in Ids /\ base[y] # Absent
  /\ x # y

\* append_item and the adjacency.  An error after the entry reached the file
\* leaves it there.
AppendEdge(l, e, known) ==
  /\ Room(l)
  /\ \/ /\ log' = [log EXCEPT ![l] = Append(@, Item(e))]
        /\ edges' = [edges EXCEPT ![l] = known \cup {e}]
        /\ doubt' = doubt \ {<<l, e>>} /\ UNCHANGED failed
     \/ /\ ~failed /\ log' = [log EXCEPT ![l] = Append(@, Item(e))]
        /\ doubt' = doubt \cup {<<l, e>>} /\ failed' = TRUE /\ UNCHANGED edges
  /\ op' = NoOp
  /\ UNCHANGED <<stack, base, created, slots, blob, manifest, inner, position, outer, phase,
                 cut, allowed>>

Link(l, x, y) ==
  /\ Idle /\ Linkable(l, x, y) /\ edges[l] # NoLabel /\ {x, y} \notin edges[l]
  /\ AppendEdge(l, {x, y}, edges[l])

\* Mutation: the manifest names the label before it has a blob.
ManifestFirst(l, x, y) ==
  /\ Idle /\ Has("multi") /\ Linkable(l, x, y) /\ edges[l] = NoLabel
  /\ manifest' = manifest \cup {l} /\ blob' = blob
  /\ op' = [NoOp EXCEPT !.kind = "link", !.step = "manifest", !.label = l, !.edge = {x, y}]
  /\ UNCHANGED <<stack, base, created, slots, log, memory, phase, history>>

\* A label not seen before: an empty blob, then the manifest, then the edge.
LinkNewLabel(l, x, y) ==
  /\ Idle /\ Has("multi") /\ Linkable(l, x, y) /\ edges[l] = NoLabel
  /\ blob' = [blob EXCEPT ![l] = {}] /\ manifest' = manifest
  /\ op' = [NoOp EXCEPT !.kind = "link", !.step = "manifest", !.label = l, !.edge = {x, y}]
  /\ UNCHANGED <<stack, base, created, slots, log, memory, phase, history>>

LinkManifest ==
  /\ op.step = "manifest"
  /\ manifest' = manifest \cup {op.label}
  /\ edges' = [edges EXCEPT ![op.label] = {}]
  /\ op' = [op EXCEPT !.step = "append"]
  /\ UNCHANGED <<stack, base, created, slots, blob, log, inner, position, outer, phase, history>>

LinkAppend == op.step = "append" /\ AppendEdge(op.label, op.edge, edges[op.label])

\* The manifest, or the entry, cannot be written at all.
LinkFails ==
  /\ op.kind = "link" /\ op' = NoOp
  /\ UNCHANGED <<stack, disk, memory, phase, history>>

\* detach: the edges of another table's id under a foreign label.
Detach(l, x) ==
  /\ Idle /\ l \in stack.foreign /\ edges[l] # NoLabel /\ Touching(x, edges[l]) # {} /\ Room(l)
  /\ log' = [log EXCEPT ![l] = Append(@, Tombstone(x))]
  /\ \/ /\ edges' = [edges EXCEPT ![l] = @ \ Touching(x, @)]
        /\ doubt' = doubt \ ({l} \X Touching(x, Edges)) /\ UNCHANGED failed
     \/ /\ ~failed /\ failed' = TRUE  \* not synced
        /\ doubt' = doubt \cup ({l} \X Touching(x, edges[l])) /\ UNCHANGED edges
  /\ UNCHANGED <<stack, base, created, slots, blob, manifest, inner, position, outer, phase, op,
                 cut, allowed>>

------------------------------------------------------------------------------
(* compact, and opening: per label the blob is written and the log cleared *)

\* MmapScanned: the live slots in their order, and no others.
Compact ==
  LET kept == Ascending({p \in DOMAIN slots : position[slots[p].id] = p}) IN
  /\ Idle
  /\ IF Has("mmap_scanned")
     THEN /\ slots' = [i \in DOMAIN kept |-> slots[kept[i]]]
          /\ position' = [x \in Ids |-> IF position[x] = 0 THEN 0
                            ELSE CHOOSE i \in DOMAIN kept : kept[i] = position[x]]
     ELSE UNCHANGED <<slots, position>>
  /\ op' = [NoOp EXCEPT !.kind = "compact", !.step = "fold",
                        !.todo = {l \in Labels : edges[l] # NoLabel}]
  /\ UNCHANGED <<stack, base, created, blob, log, manifest, inner, edges, outer, phase, history>>

\* Mutation: the log goes first.
ClearsFirst(l) ==
  /\ op.step = "fold" /\ op.label = NoLabel /\ l \in op.todo
  /\ log' = [log EXCEPT ![l] = <<>>] /\ blob' = blob
  /\ op' = [op EXCEPT !.todo = @ \ {l}, !.label = l]
  /\ UNCHANGED <<stack, base, created, slots, manifest, memory, phase, history>>

\* compact_edge_blob takes the adjacency, open the blob with the log merged in.
WriteBlob(l) ==
  /\ op.step = "fold" /\ op.label = NoLabel /\ l \in op.todo
  /\ blob' = [blob EXCEPT ![l] = IF op.kind = "open" THEN Durable(l) ELSE edges[l]]
  /\ log' = log
  /\ op' = [op EXCEPT !.todo = @ \ {l}, !.label = l]
  /\ UNCHANGED <<stack, base, created, slots, manifest, memory, phase, history>>

ClearLog ==
  LET l == op.label IN
  /\ op.step = "fold" /\ l # NoLabel
  /\ log' = [log EXCEPT ![l] = <<>>]
  /\ edges' = [edges EXCEPT ![l] = blob[l]]
  /\ op' = [op EXCEPT !.label = NoLabel]
  /\ UNCHANGED <<stack, base, created, slots, blob, manifest, inner, position, outer, phase, history>>

\* compact is done, or one of its files could not be written.
CompactEnds ==
  /\ op.kind = "compact" /\ op' = NoOp
  /\ UNCHANGED <<stack, disk, memory, phase, history>>

------------------------------------------------------------------------------
(* open_or_create, and crashes                                             *)

\* The table's path does not exist: the store beneath is created there first.
Create ==
  /\ phase = "down" /\ ~created
  /\ created' = TRUE
  /\ phase' = "creating"
  /\ op' = [NoOp EXCEPT !.kind = "create", !.step = "files", !.todo = stack.named]
  /\ UNCHANGED <<stack, base, slots, blob, log, manifest, memory, history>>

CreateLabel(l) ==
  /\ op.kind = "create" /\ l \in op.todo
  /\ log' = [log EXCEPT ![l] = <<>>] /\ blob' = [blob EXCEPT ![l] = {}]
  /\ op' = [op EXCEPT !.todo = @ \ {l}]
  /\ UNCHANGED <<stack, base, created, slots, manifest, memory, phase, history>>

\* MmapScanned's file, or the manifest, is the last.
CreateEnds ==
  /\ op.kind = "create" /\ op.todo = {}
  /\ slots' = IF Has("mmap_scanned") THEN <<>> ELSE slots
  /\ manifest' = IF Has("multi") THEN stack.named ELSE manifest
  /\ edges' = [l \in Labels |-> IF l \in stack.named THEN {} ELSE NoLabel]
  /\ phase' = "open" /\ op' = NoOp
  /\ UNCHANGED <<stack, base, created, blob, log, inner, position, outer, history>>

\* A companion file is missing: reported, never created silently.
Refused == \/ Has("mmap_scanned") /\ slots = NoFile
           \/ \E l \in stack.named \cup manifest : blob[l] = NoFile

OpenRefused ==
  /\ phase \in {"down", "refused"} /\ created /\ Refused
  /\ phase' = "refused"
  /\ UNCHANGED <<stack, disk, memory, op, history>>

\* Mutation: of several slots of an id the first one counts.
SlotsReopenedFirst ==
  LET Firsts(x) == CHOOSE p \in Committed(x) : \A q \in Committed(x) : q >= p
      lacking == SetToSeq({x \in Live : SlotOf(x) = 0})
  IN IF ~Has("mmap_scanned") THEN UNCHANGED <<slots, position>>
     ELSE /\ slots' = slots \o [i \in DOMAIN lacking |-> Slot(lacking[i], base[lacking[i]].val)]
          /\ position' = [x \in Ids |-> IF x \notin Live THEN 0
                            ELSE IF SlotOf(x) # 0 THEN Firsts(x)
                            ELSE Len(slots) + CHOOSE i \in DOMAIN lacking : lacking[i] = x]

\* MmapScanned::open: a record without a slot gets one with its own value.
SlotsReopened ==
  LET lacking == SetToSeq({x \in Live : SlotOf(x) = 0}) IN
  IF ~Has("mmap_scanned") THEN UNCHANGED <<slots, position>>
  ELSE /\ slots' = slots \o [i \in DOMAIN lacking |-> Slot(lacking[i], base[lacking[i]].val)]
       /\ position' = [x \in Ids |-> IF x \notin Live THEN 0
                         ELSE IF SlotOf(x) # 0 THEN SlotOf(x)
                         ELSE Len(slots) + CHOOSE i \in DOMAIN lacking : lacking[i] = x]

Open ==
  /\ phase \in {"down", "refused"} /\ created /\ ~Refused
  /\ SlotsReopened
  /\ phase' = "opening"
  /\ op' = [NoOp EXCEPT !.kind = "open", !.step = "fold",
                        !.todo = stack.named \cup manifest]
  /\ UNCHANGED <<stack, base, created, blob, log, manifest, inner, edges, outer, history>>

\* The in-memory layers are built from the records, one after the other.
Rebuilt ==
  LET listed == SetToSeq(Live)
      built[n \in 0 .. Len(listed)] ==
        IF n = 0 THEN NoOuter
        ELSE OuterStep(built[n - 1], listed[n], Absent, Get(listed[n]))
  IN built[Len(listed)]

OpenEnds ==
  /\ op.kind = "open" /\ op.todo = {} /\ op.label = NoLabel
  /\ manifest' = IF Has("multi") THEN stack.named \cup manifest ELSE manifest
  /\ outer' = Rebuilt
  /\ phase' = "open" /\ op' = NoOp
  /\ failed' = FALSE /\ doubt' = {}
  /\ UNCHANGED <<stack, base, created, slots, blob, log, inner, position, edges, cut, allowed>>

Crash ==
  /\ stack.files /\ phase \in {"creating", "opening", "open"}
  /\ phase' = "down" /\ op' = NoOp
  /\ inner' = NoInner /\ position' = [x \in Ids |-> 0] /\ outer' = NoOuter
  /\ edges' = [l \in Labels |-> NoLabel]
  /\ cut' = cut \cup Leaving
  /\ UNCHANGED <<stack, disk, failed, doubt, allowed>>

Next ==
  \/ \E x \in stack.ids : \/ \E r \in stack.records : Insert(x, r) \/ Replace(x, r)
                          \/ Delete(x)
                          \/ \E v \in {r.val : r \in stack.records} : Update(x, v)
  \/ SlotStep \/ SlotFails \/ Finish
  \/ \E l \in Labels : DropEdges(l) \/ DropFails(l)
  \/ \E l \in Labels, x \in Ids, y \in Ids \cup FarIds : Link(l, x, y) \/ LinkNewLabel(l, x, y)
  \/ LinkManifest \/ LinkAppend \/ LinkFails
  \/ \E l \in Labels, x \in FarIds : Detach(l, x)
  \/ Compact \/ CompactEnds \/ ClearLog
  \/ \E l \in Labels : WriteBlob(l) \/ CreateLabel(l)
  \/ Create \/ CreateEnds \/ Open \/ OpenRefused \/ OpenEnds \/ Crash

Spec == Init /\ [][Next]_vars

------------------------------------------------------------------------------
(* Properties                                                              *)

TypeOK ==
  /\ stack \in Stacks /\ created \in BOOLEAN /\ failed \in BOOLEAN
  /\ base \in [Ids -> Records \cup {Absent}]
  /\ slots = NoFile \/ slots \in Seq(Slots)
  /\ blob \in [Labels -> (SUBSET Edges) \cup {NoFile}]
  /\ \A l \in Labels : Len(log[l]) <= MaxLog
  /\ manifest \subseteq Labels
  /\ edges \in [Labels -> (SUBSET Edges) \cup {NoLabel}]
  /\ position \in [Ids -> Nat]
  /\ phase \in {"creating", "open", "down", "opening", "refused"}
  /\ cut \subseteq Ids /\ doubt \subseteq Labels \X Edges
  /\ allowed \in [Ids -> SUBSET (Records \cup {Absent})]

\* A bucket lists, once each, the ids that belong in it.
Lists(bucket, ids) == ToSet(bucket) = ids /\ IsInjective(bucket)
Under(k, KeysOf(_)) == {x \in Live : k \in KeysOf(Get(x))}

\* scan: all slots blindly if none is retired, else those of the records in order.
Slotted == {x \in Ids : position[x] # 0}
Scan == IF Has("scanned") THEN inner.scanned.cache
        ELSE IF Len(slots) = Cardinality(Slotted) THEN [p \in DOMAIN slots |-> slots[p].val]
        ELSE LET at == Ascending({position[x] : x \in Slotted})
             IN [i \in DOMAIN at |-> slots[at[i]].val]

\* The value column has each record's value, and no other.
ColumnExact ==
  Has("scanned") \/ Has("mmap_scanned") =>
    \A v \in Vals : Cardinality({i \in DOMAIN Scan : Scan[i] = v})
                   = Cardinality({x \in Live : Get(x).val = v})

\* The types; and between operations every layer shows the records there are and nothing else,
\* and memory holds the edges the next opening will find, as long as no operation
\* has stopped half way: each layer's own comment on its insert, replace, delete.
ViewsExact ==
  TypeOK /\ (Idle /\ ~failed =>
    /\ \A k \in Keys :
         /\ Has("indexed") => Lists(inner.buckets[k], Under(k, IndexedKeys))
         /\ Has("reversed") => Lists(outer.children[k], Under(k, ReversedKeys))
         /\ Has("names") => Lists(outer.names[k], Under(k, NameKeys))
    /\ Has("ordered") \/ Has("rekeyed") =>
         outer.order = UNION {OrderPairs(x, Get(x)) : x \in Live}
    /\ ColumnExact
    /\ \A l \in Labels : edges[l] # NoLabel => edges[l] = Durable(l))

\* Wherever a crash falls on an open stack, its files open again: link writes a
\* label's blob before the manifest names the label (LNK-FR-005).
OpensAgain == phase \in {"open", "opening"} => ~Refused

\* An edge to a record of this table that is not there was left by a deletion cut
\* short or made after an operation that stopped half way (DEL-FR-004).
GhostsOnlyFromCutDeletes ==
  \A l \in Labels : \A e \in Durable(l) : e \cap Ids \subseteq Live \cup cut \cup Leaving

\* A reader finds of every record what the last operation on it left, or, if that
\* was cut short, one of the records its crash may leave (INS-FR-005, REP-FR-004).
AnswersStand == Idle => \A x \in Ids : Get(x) \in allowed[x]

Abstract == INSTANCE EdgeSet WITH
  Records <- Ids, live <- Live, edges <- [l \in Labels |-> Durable(l)], doubt <- doubt

\* The label's edges are changed by links, deletions and detachings alone, not by
\* crashes, openings or compaction.
ImplementsEdgeSet == Abstract!Spec
==============================================================================

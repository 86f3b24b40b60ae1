------------------------------ MODULE MCServing ------------------------------
(* Scenarios for Serving: each varies what its properties turn on. *)
EXTENDS Serving, TLC

CONSTANTS c1, c2, c3

Put(kind, x, s) == [kind |-> kind, id |-> x, stamp |-> s]
Del(x)          == [kind |-> "delete", id |-> x]
Join(x, y)      == [kind |-> "link", left |-> x, right |-> y]

Empty   == [x \in Ids |-> Absent]
Holding(S) == [x \in Ids |-> IF x \in S THEN 1 ELSE Absent]
Start(S, edges) == [records |-> Holding(S), edges |-> edges]

Quiet == [writers |-> {c1}, start |-> {}, writes |-> {}, pipelined |-> {}, atomic |-> {},
          reads |-> {}, roots |-> {}, queries |-> {}, checked |-> FALSE]

\* Links, deletions and insertions of two memories and two entities.
Linking ==
  [Quiet EXCEPT !.writers = {c1, c2}, !.start = {Start({1, 2, 11, 12}, {})},
     !.writes = {Put("insert", 1, 1), Put("insert", 11, 1), Put("replace", 1, 1), Del(1), Del(11),
                 Join(1, 11), Join(2, 11), Join(1, 12), Join(11, 12), Join(12, 11), Join(11, 11)}]

\* Batches of every kind of write, beside single writes of the same records.
Batches ==
  [Quiet EXCEPT !.writers = {c1, c2}, !.start = {Start({1, 11}, {}), Start({1, 11, 12}, {{1, 11}, {11, 12}})},
     !.writes = {Join(1, 11), Del(1), Del(11), Put("insert", 11, 1)},
     !.pipelined = {<<Put("insert", 1, 1), Join(1, 11), Del(2)>>, <<Del(11), Put("insert", 12, 1)>>},
     !.atomic = {<<Put("replace", 1, 2), Del(1), Join(1, 11)>>, <<Put("insert", 12, 1), Join(12, 11)>>,
                 <<Put("replace_if", 1, 2), Join(1, 12)>>}]

\* A join beside links and deletions.
Joining ==
  [Quiet EXCEPT !.writers = {c1, c2}, !.start = {Start({1, 2, 11, 12}, {{1, 11}, {2, 11}})}, !.reads = {"join"},
     !.writes = {Put("insert", 1, 1), Put("insert", 11, 1), Del(1), Del(11), Join(1, 11), Join(1, 12)}]

\* Walks over three memories, whose stamps move.
Walking(how) ==
  [Quiet EXCEPT !.start = [records : {r \in [Ids -> Stamps \cup {Absent}] : \A y \in Entities : r[y] = Absent},
                           edges : {{}}],
     !.reads = {how},
     !.writes = [kind : {"insert", "replace"}, id : Memories, stamp : Stamps] \cup {Del(x) : x \in Memories}]

\* Traverses of a path of three memories and two entities, beside deletions, links that
\* shorten it, and links again.
Traversing ==
  [Quiet EXCEPT !.start = {Start({1, 2, 3, 11, 12}, {{1, 11}, {2, 11}, {2, 12}, {3, 12}})},
     !.writes = {Join(1, 12), Join(3, 11), Join(2, 11), Del(2), Del(11), Put("insert", 2, 1),
                 Put("insert", 11, 1)},
     !.reads = {"traverse"}, !.roots = {1, 11}]

\* Filters, groups and every function, over rows that come, go and change; a sum that
\* overflows; a field that has none.
MemoryFields == [updated_at |-> "i64", content |-> "str", tags |-> "list"]
Where(f, op, kind, v) == {[field |-> f, op |-> op, kind |-> kind, value |-> v]}
Newer == Where("updated_at", "gt", "i64", 1)
Rows(filter, limit) == [kind |-> "query", filter |-> filter, limit |-> limit]
Groups(by, func, of, filter, limit) ==
  [kind |-> "aggregate", by |-> by, func |-> func, of |-> of, filter |-> filter, limit |-> limit]

Querying(checked) ==
  [Quiet EXCEPT !.start = {Start({1, 2}, {}), [Start({1, 2, 3}, {}) EXCEPT !.records[2] = 2, !.records[3] = 2]},
     !.writes = [kind : {"insert", "replace"}, id : {1, 2}, stamp : Stamps] \cup {Del(x) : x \in Memories},
     !.reads = {"query"}, !.checked = checked,
     !.queries = {Rows(Newer, 1), Rows(Where("content", "eq", "str", "text"), 3), Rows(Where("content", "lt", "str", "a"), 3),
                  Groups({}, "count", NoField, Newer, 2), Groups({"updated_at"}, "count", NoField, {}, 1),
                  Groups({"content"}, "sum", "updated_at", {}, 2), Groups({}, "avg", "updated_at", Newer, 2),
                  Groups({}, "min", "updated_at", {}, 2), Groups({"content"}, "max", "updated_at", {}, 2),
                  Groups({}, "max", "content", {}, 2),
                  Groups({"tags"}, "count", NoField, {}, 2)}]

All == {Linking, Batches, Joining, Traversing, Walking("page_index"), Walking("page_scan"),
        Querying(TRUE), Querying(FALSE)}
==============================================================================

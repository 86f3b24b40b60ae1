------------------------------- MODULE EdgeSet -------------------------------
(***************************************************************************)
(* What the relation layers of generic/store.rs promise: under each label  *)
(* a set of edges that a link adds to, that only the deletion or detaching *)
(* of an end takes from, and that crashes, reopening and compaction leave  *)
(* alone.  After an operation that answered an error the edges it was      *)
(* about are in doubt: they may be found or not until the next opening.    *)
(***************************************************************************)
CONSTANTS Labels, Edges, Records  \* Records: the ids that may have a record here

VARIABLES live, edges, doubt

vars == <<live, edges, doubt>>

Touching(x, E) == {e \in E : x \in e}
Doubtful(l) == {e \in Edges : <<l, e>> \in doubt}

Init == live = {} /\ edges = [l \in Labels |-> {}] /\ doubt = {}

\* Records come and go; that takes no edge by itself.
Write(x) == live' \in {live \cup {x}, live \ {x}} /\ UNCHANGED <<edges, doubt>>

\* Both ends have a record, unless an end is another table's.
Link(l, e) ==
  /\ e \cap Records \subseteq live
  /\ edges' = [edges EXCEPT ![l] = @ \cup {e}]
  /\ doubt' \in {doubt \ {<<l, e>>}, doubt \cup {<<l, e>>}}  \* acknowledged, or not
  /\ UNCHANGED live

\* All edges of an id without a record go.
Drop(l, x) ==
  /\ x \notin live
  /\ edges' = [edges EXCEPT ![l] = @ \ Touching(x, @)]
  /\ doubt' \in {doubt \ ({l} \X Touching(x, Edges)),
                 doubt \cup ({l} \X Touching(x, edges[l]))}
  /\ UNCHANGED live

\* What is in doubt is settled one way or the other.
Settle(l) ==
  /\ \E E \in SUBSET Doubtful(l) : edges' = [edges EXCEPT ![l] = (@ \ Doubtful(l)) \cup E]
  /\ UNCHANGED <<live, doubt>>

\* An opening shows what there is.
Open == doubt' = {} /\ UNCHANGED <<live, edges>>

\* The deletion of an id could not be recorded: its edges are in doubt.
DropFails(l, x) ==
  /\ x \notin live /\ doubt' = doubt \cup ({l} \X Touching(x, edges[l]))
  /\ UNCHANGED <<live, edges>>

Next ==
  \/ \E x \in Records : Write(x)
  \/ \E l \in Labels : Settle(l) \/ \E e \in Edges : Link(l, e)
  \/ \E l \in Labels : \E x \in UNION Edges : Drop(l, x) \/ DropFails(l, x)
  \/ Open

Spec == Init /\ [][Next]_vars
==============================================================================

---------------------------- MODULE MCLayerStack ----------------------------
(* Instances of LayerStack: the compositions of the production tables and   *)
(* of the in-memory stacks.                                                *)
EXTENDS LayerStack

CONSTANTS a, b, c, f  \* ids of this table, and of another

Rec(k, v) == [key |-> k, val |-> v]
Keyed == {Rec(k, 0) : k \in Keys}

\* generic/memory.rs: edges to entities, memories in the order of a key.
Memory == [ids |-> {a, b}, layers |-> {"multi", "ordered"}, files |-> TRUE, named |-> {"mentions"},
           labels |-> {"mentions"}, foreign |-> {"mentions"}, records |-> {Rec(0, 0), Rec(1, 0)}]

\* generic/entity.rs: names, and labels created by clients.
Entity == [ids |-> {a, b}, layers |-> {"multi", "names"}, files |-> TRUE, named |-> {"relates_to"},
           labels |-> {"relates_to", "works_with"}, foreign |-> {}, records |-> {Rec(1, 0)}]

\* generic/order_customer.rs: a second slot file, orders of a customer.
Order == [ids |-> {a, b}, layers |-> {"mmap_scanned", "reversed"}, files |-> TRUE, named |-> {},
          labels |-> {}, foreign |-> {}, records |-> {Rec(1, 0), Rec(2, 1)}]

\* generic_spike/employee_impl.rs: collaborators, a manager's reports.
Employee == [ids |-> {a, b, c}, layers |-> {"symmetric", "reversed"}, files |-> TRUE, named |-> {"relates_to"},
             labels |-> {"relates_to"}, foreign |-> {}, records |-> {Rec(1, 0)}]

\* generic/relation.rs: ordered by the field that update writes.
Relation == [ids |-> {a, b, c}, layers |-> {"rekeyed"}, files |-> TRUE, named |-> {},
             labels |-> {}, foreign |-> {}, records |-> {Rec(1, 0), Rec(1, 1)}]

\* Reversed over Scanned over Indexed, in memory.
InMemory == [ids |-> {a, b, c}, layers |-> {"indexed", "scanned", "reversed"}, files |-> FALSE, named |-> {},
             labels |-> {}, foreign |-> {},
             records |-> {Rec(0, 0), Rec(1, 1), Rec(2, 0)}]

MCStacks == {Memory, Entity, Order, Employee, Relation, InMemory}
=============================================================================

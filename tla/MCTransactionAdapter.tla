------------------------ MODULE MCTransactionAdapter ------------------------
(* Scenarios for TransactionAdapter. *)
EXTENDS TransactionAdapter, TLC

CONSTANTS c1, c2, c3, c4, r1, r2

Tx(ids, rs)   == [kind |-> "tx", ids |-> ids, reads |-> rs]
Op(kind, id)  == [kind |-> kind, ids |-> <<id>>, reads |-> {}]

InMemory(p)      == [program |-> p, journaled |-> FALSE, crashes |-> 0, powerLoss |-> FALSE]
InJournal(p)     == [program |-> p, journaled |-> TRUE, crashes |-> 0, powerLoss |-> FALSE]
PowerLosses(p)   == [program |-> p, journaled |-> TRUE, crashes |-> 2, powerLoss |-> TRUE]

\* Overlapping transactions in opposite orders.
Transactions == c1 :> Tx(<<r1, r2>>, {}) @@ c2 :> Tx(<<r2, r1>>, {}) @@ c3 :> Tx(<<r1>>, {})

\* Snapshot-isolated sessions on the same record, and an ordinary writer.
Sessions == c1 :> Tx(<<r1, r2>>, {r1}) @@ c2 :> Tx(<<r1>>, {r1}) @@ c3 :> Tx(<<r2, r1>>, {r2})
            @@ c4 :> Op("update", r1)

\* A transaction against an insertion, a replacement and a deletion.
Mixed == c1 :> Tx(<<r1, r2>>, {r1}) @@ c2 :> Op("delete", r2) @@ c3 :> Op("insert", r2)
         @@ c4 :> Op("replace", r1)

\* Transactions and a deletion.
WithDelete == c1 :> Tx(<<r1, r2>>, {}) @@ c2 :> Tx(<<r1>>, {}) @@ c3 :> Op("delete", r2)

All == {PowerLosses(Transactions), InJournal(Sessions), InMemory(Mixed), PowerLosses(WithDelete)}
=============================================================================

----------------------------- MODULE MCDogStore -----------------------------
(* Lists for DogStore: other orders, a dog less, a dog more, a dog twice. *)
EXTENDS DogStore, TLC

CONSTANTS a, b, c

Dogs(ids, age) == [i \in DOMAIN ids |-> [id |-> ids[i], age |-> age]]

AllLists == {Dogs(<<a, b>>, 0), Dogs(<<b, a>>, 0), Dogs(<<b>>, 0), Dogs(<<c, b, a>>, 1), Dogs(<<a, b, a>>, 1)}
=============================================================================

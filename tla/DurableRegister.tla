--------------------------- MODULE DurableRegister ---------------------------
(***************************************************************************)
(* What a journaled adapter promises its clients, with no journal in it.   *)
(* The store is one register holding the number of the last batch applied  *)
(* (0: the state the adapter opened with).  A batch may be acknowledged    *)
(* only once it is in the register, and a crash may leave any value that   *)
(* is not older than the batches acknowledged before it.                   *)
(***************************************************************************)
EXTENDS Naturals

VARIABLES value, acked, open

regVars == <<value, acked, open>>

RegInit == value = 0 /\ acked = {} /\ open = TRUE

\* A batch is applied: the register only moves forward.
RegApply == /\ open
            /\ value' \in Nat /\ value' > value
            /\ UNCHANGED <<acked, open>>

\* A client is told that batch n took effect.
RegAck == /\ open
          /\ \E n \in 0 .. value : acked' = acked \cup {n}
          /\ UNCHANGED <<value, open>>

\* The process or the machine dies, open or already down: what recovery will
\* find keeps everything acknowledged.
RegCrash == /\ open' = FALSE
            /\ value' \in Nat /\ \A n \in acked : n <= value'
            /\ UNCHANGED acked

\* The adapter opens again; its numbering of batches starts over.
RegReopen == ~open /\ open' = TRUE /\ value' = 0 /\ acked' = {}

RegNext == RegApply \/ RegAck \/ RegCrash \/ RegReopen

RegSpec == RegInit /\ [][RegNext]_regVars
=============================================================================

---------------------------- MODULE MCDurability ----------------------------
(* Scenarios for Durability. *)
EXTENDS Durability, TLC

CONSTANTS a, b

FirstAges == a :> 0 @@ b :> 0

Scenario(s) == [store |-> s, power |-> FALSE, faults |-> {}, calls |-> {"checkpoint"},
                updates |-> 3, crashes |-> 2]

All ==
  \* A process killed at any moment.
  {Scenario(s) : s \in Logged \cup Snapshots \cup {"redb"}}
  \* Writes that fail, updates of ids that are not there, create over old files.
  \cup {[Scenario(s) EXCEPT !.faults = {"append", "sync", "write"}, !.updates = 2, !.crashes = 1,
                             !.calls = {"checkpoint", "unknown", "create"}] :
          s \in {"wal_fsync", "wal_buffered", "hybrid", "lsm"}}
  \* Power losses: of a log, of a log and snapshots that are never synced.
  \cup {[Scenario(s) EXCEPT !.power = TRUE, !.calls = {}] : s \in {"wal_fsync", "wal_buffered"}}
  \cup {[Scenario(s) EXCEPT !.power = TRUE, !.updates = 2] : s \in {"hybrid", "redb"} \cup Snapshots}

ASSUME AllPowerSafe == PowerSafe
=============================================================================

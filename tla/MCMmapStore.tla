---------------------------- MODULE MCMmapStore ----------------------------
(* Scenarios for MmapStore. *)
EXTENDS MmapStore, TLC

CONSTANTS r1, r2

Every  == {"insert", "update", "replace", "delete", "compact"}
OfSlots == {"slot_append", "compact_slots", "compact_log"}

Scenario(ops, faults, writes, crash, loss) ==
  [operations |-> ops, faults |-> faults, writes |-> writes, crashes |-> crash,
   powerLoss |-> loss]

All == {Scenario(Every, {}, 4, 2, FALSE),              \* a process killed, also in recovery
        Scenario(Every, {"log_torn"}, 3, 2, FALSE),    \* entries cut short
        Scenario(Every, OfSlots, 3, 1, FALSE),         \* the slot file's and compaction's errors
        Scenario(Every \ {"replace"}, {"compact_slots", "compact_log"}, 4, 1, FALSE),
        Scenario(Every, {"log_sync", "log_torn", "compact_slots"}, 2, 1, FALSE),
        Scenario({"insert", "compact"}, {"slot_append"}, 3, 3, FALSE), \* also in recovery
        Scenario({"insert", "update", "compact", "flush"}, {}, 4, 2, TRUE)} \* power losses
=============================================================================

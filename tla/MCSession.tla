------------------------------ MODULE MCSession -----------------------------
(***************************************************************************)
(* Instances of Session: datagrams are lost, slots paused and left paused, *)
(* a disk is bad; buffers that hold one file; workers late and files that  *)
(* cannot be read; datagrams late and in any order; late and twice.        *)
(***************************************************************************)
EXTENDS Session

Setting(files, room, slotCount, runs, faults) ==
    [files |-> files, room |-> room, slots |-> slotCount, runs |-> runs, faults |-> faults]

Clean == Setting(2, 2, 2, 3, {})
Losses == Setting(2, 2, 2, 2, {"loss", "disk", "pause"})
Pauses == Setting(2, 1, 2, 2, {"pause"})
Slow == Setting(2, 2, 2, 2, {"loss", "slow", "unreadable"})
Delays == Setting(1, 1, 1, 2, {"delay", "reorder"})
Doubles == Setting(1, 1, 1, 2, {"delay", "duplicate"})
AllSettings == {Clean, Losses, Pauses, Slow, Delays, Doubles}
=============================================================================

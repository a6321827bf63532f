----------------------------- MODULE AnchorZone -----------------------------
(***************************************************************************)
(* Anchor with a history variable: left is TRUE when the last word of the   *)
(* connected tag on its zone was WARNING or UWB_STOP.                       *)
(***************************************************************************)
EXTENDS Anchor

VARIABLE left

ZoneInit == Init /\ left = FALSE

Hear(cmd) == IF cmd = "TAG_UWB_READY" THEN left ELSE cmd # "VERIFIED"

ZoneNext ==
  \/ \E cmd \in Central \cap Writes : OnWrite(cmd) /\ left' = Hear(cmd)
  \/ (OnConnect \/ OnDisconnect) /\ left' = FALSE
  \/ (Callback \/ BleTask \/ UwbTask \/ CanTask) /\ left' = left

ZoneSpec == ZoneInit /\ [][ZoneNext]_<<vars, left>>

\* tag_config.h says of the lock threshold "> this -> send WARNING (lock)": when
\* the last word of the tag was WARNING or UWB_STOP, no command was dropped and
\* canTask has nothing left to do, the car is locked.
LeavingLocks ==
  left /\ cb = "idle" /\ can = "idle" /\ canQueue = <<>> /\ lost = {} => ~carUnlocked
=============================================================================

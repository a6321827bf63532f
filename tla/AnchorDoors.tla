---------------------------- MODULE AnchorDoors ----------------------------
(***************************************************************************)
(* Anchor implements DoorLock: its callbacks, canQueue and canTask together  *)
(* are a list of commands that are executed in order.                       *)
(***************************************************************************)
EXTENDS AnchorInv

\* The command canTask has taken and not yet executed.
InHand == IF can = "idle" THEN <<>> ELSE <<canCmd>>

DL == INSTANCE DoorLock WITH
        Depth <- CanDepth,
        connected <- deviceConnected,
        closing <- cb \in {"discDeinit", "discLock"},
        pending <- InHand \o canQueue,
        believed <- carUnlocked,
        door <- door

\* The doors move only by commands that a connected central, or the end of its
\* session, asked for, in that order and each at most once; the LOCK of
\* onDisconnect comes before all commands of the next session.
ImplementsDoorLock == DL!Spec
=============================================================================

------------------------------ MODULE AnchorInv ------------------------------
(***************************************************************************)
(* The inductive invariant of Anchor.  TLC checks it on small instances,    *)
(* AnchorProofs proves it for all.                                          *)
(***************************************************************************)
EXTENDS Anchor

\* The owner of spiMutex is where its task says it is, and the DW3000 is on
\* the air only inside uwbResponderLoop.
MutexInv ==
  /\ spiMutex = "can" <=> can = "frames"
  /\ spiMutex = "uwb" <=> uwb \in {"range", "stop"}
  /\ radio = "busy" <=> uwb = "range"

\* Without a central only onDisconnect can be running.
CallbackInv == ~deviceConnected => cb \in {"idle", "discDeinit", "discLock", "discAdv"}

\* Once onDisconnect has queued LOCK it is the last command canTask will see.
LockSent == ~deviceConnected /\ cb \notin {"discDeinit", "discLock"} /\ "LOCK" \notin lost
LockInv ==
  LockSent => IF canQueue # <<>> THEN canQueue[Len(canQueue)] = "LOCK"
              ELSE IF can # "idle" THEN canCmd = "LOCK"
              ELSE ~carUnlocked /\ ("LOCK" \in CanFaults \/ resets > 0 \/ door = "locked")

\* Once onDisconnect has queued DEINIT it is the last command uwbTask will see.
StopSent == ~deviceConnected /\ cb # "discDeinit" /\ "DEINIT" \notin lost
StopInv ==
  /\ StopSent => IF uwbQueue # <<>> THEN uwbQueue[Len(uwbQueue)] = "DEINIT"
                 ELSE uwb \in {"idle", "deinit", "stop", "clear"}
  /\ uwbActive => uwb \in {"poll", "take", "range", "deinit", "stop", "clear"}
  /\ SlowBus \/ (uwb \in {"idle", "clear"} => radio = "reset")

\* How many more times bleTask can start advertising before its next receive.
Pending == IF ble = "wait" THEN 0 ELSE IF ble = "readv" THEN 2 ELSE 1
Adv == IF advertising THEN 1 ELSE 0

\* A session needs advertising, which only bleTask starts, at most twice for
\* each command it takes.  So when n more sessions may begin before the request
\* m is checked, session s - m.of + n of them is the most it will have seen;
\* and connectionGen, now g, has wrapped at most once since m was queued.
Fresh(m, s, g, n) ==
  /\ m.data \in 0..GenMod - 1
  /\ s - m.of + n <= 2 * BleDepth + 1
  /\ \/ s - m.of = g - m.data
     \/ s - m.of = g - m.data + GenMod

QueueFresh ==
  \A i \in 1..Len(bleQueue) :
    bleQueue[i].type = "SEND_CHALLENGE" =>
      Fresh(bleQueue[i], session, connectionGen, Adv + Pending + 2 * (i - 1))
FreshInv == QueueFresh /\ (ble = "delay" => Fresh(msg, session, connectionGen, Adv))

IndInv == TypeOK /\ MutexInv /\ CallbackInv /\ LockInv /\ StopInv /\ FreshInv
=============================================================================

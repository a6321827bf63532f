--------------------------------- MODULE Tag ---------------------------------
(***************************************************************************)
(* The tag the driver carries (FreeRTOS_Tag.ino): the callbacks of the BLE  *)
(* client and its two tasks.                                                *)
(*                                                                         *)
(*   bleTask   scan, connect, authenticate, arm ranging, then write what    *)
(*             uwbTask queued until the link is lost                        *)
(*   uwbTask   DW3000 ranging: measures the filtered distance, decides the  *)
(*             zone and queues VERIFIED, WARNING or UWB_STOP                *)
(*                                                                         *)
(* They meet in the event group sysEvents, in bleWriteQueue and in four      *)
(* volatile flags; the callbacks run in the BLE stack's own task.  Names     *)
(* carry the prefix Tag where Anchor has the same one, for SmartCarAccess    *)
(* EXTENDS both.  Here the anchor is any peer that notifies AUTH_OK,         *)
(* AUTH_FAIL and UWB_ACTIVE (see TagNext).                                  *)
(***************************************************************************)
EXTENDS Integers, Sequences

CONSTANTS
  WriteDepth,   \* length of bleWriteQueue: 8
  TagFaults,    \* what may fail: a subset of {"init", "rssi"}
  MaxTagResets  \* bound of the model: power losses of the tag in a behaviour

ASSUME TagConstantsOK ==
  WriteDepth \in Nat \ {0} /\ TagFaults \subseteq {"init", "rssi"} /\ MaxTagResets \in Nat

VARIABLES
  connected, authenticated,       \* flags of the callbacks
  events,                         \* EVT_ANCHOR_UWB_READY, _UWB_INIT, _UWB_STOP
  tagInUnlockZone, uwbStoppedFar,
  bleWriteQueue,
  tble,                           \* bleTask: program counter
  tuwb, tout,                     \* uwbTask: program counter, message in hand
  told,                           \* ghost: last word queued in this connection is VERIFIED
  dropped,                        \* ghost: a message found the queue full since then
  tagResets

tagFlags == <<connected, authenticated, uwbStoppedFar>>
tagUwbVars == <<tuwb, tout, tagInUnlockZone>>
tagGhosts == <<told, dropped, tagResets>>
tagVars == <<tagFlags, events, bleWriteQueue, tble, tagUwbVars, tagGhosts>>

ZoneWords == {"VERIFIED", "WARNING", "UWB_STOP"}

\* Where the filtered distance lies: at most UWB_UNLOCK_DISTANCE_M, beyond
\* UWB_LOCK_DISTANCE_M, beyond UWB_FAR_DISTANCE_M.  Between the first two, in the
\* hysteresis, a measurement changes nothing.
Bands == {"near", "away", "far"}

-----------------------------------------------------------------------------
\* What setup() leaves behind.
TagBooted ==
  /\ connected = FALSE /\ authenticated = FALSE /\ events = {}
  /\ tagInUnlockZone = FALSE /\ uwbStoppedFar = FALSE
  /\ bleWriteQueue = <<>>
  /\ tble = "scan" /\ tuwb = "wait" /\ tout = "none"
  /\ told = FALSE /\ dropped = FALSE

TagInit == TagBooted /\ tagResets = 0

TagReboot ==
  /\ connected' = FALSE /\ authenticated' = FALSE /\ events' = {}
  /\ tagInUnlockZone' = FALSE /\ uwbStoppedFar' = FALSE
  /\ bleWriteQueue' = <<>>
  /\ tble' = "scan" /\ tuwb' = "wait" /\ tout' = "none"
  /\ told' = FALSE /\ dropped' = FALSE

\* The battery is taken out.
TagReset == tagResets < MaxTagResets /\ tagResets' = tagResets + 1 /\ TagReboot

\* onDisconnect has set the characteristics to nullptr while connectToServer
\* still polls the challenge or writes the response: the panic restarts the tag.
TagPanic == tble \in {"challenge", "respond"} /\ ~connected /\ TagReboot /\ UNCHANGED tagResets

-----------------------------------------------------------------------------
(* Callbacks of the BLE client                                              *)

\* A scan found the anchor near enough and connectTimeout succeeded.  bleTask
\* slept 1000 ms after the last session, a round of ranging takes at most 620 ms:
\* uwbTask has seen the EVT_UWB_STOP of that session.
StopIgnored == TRUE \* mutant: bleTask does not sleep
StopSeen == "STOP" \notin events \/ tuwb = "wait"
TagConnect ==
  /\ tble = "scan" /\ ~connected /\ StopSeen
  /\ connected' = TRUE /\ events' = events \ {"STOP"}
  /\ tble' = "challenge"
  /\ UNCHANGED <<authenticated, uwbStoppedFar, bleWriteQueue, tagUwbVars, tagGhosts>>

TagOnDisconnectNoStop == \* mutant: uwbTask is not told
  /\ connected
  /\ connected' = FALSE /\ authenticated' = FALSE /\ uwbStoppedFar' = FALSE
  /\ tagInUnlockZone' = FALSE /\ told' = FALSE /\ dropped' = FALSE
  /\ events' = events \ {"READY", "INIT"}
  /\ UNCHANGED <<bleWriteQueue, tble, tuwb, tout, tagResets>>
TagOnDisconnectKeepsAuth == \* mutant: the next session counts as authenticated
  /\ connected
  /\ connected' = FALSE /\ authenticated' = authenticated /\ uwbStoppedFar' = FALSE
  /\ tagInUnlockZone' = FALSE /\ told' = FALSE /\ dropped' = FALSE
  /\ events' = (events \ {"READY", "INIT"}) \cup {"STOP"}
  /\ UNCHANGED <<bleWriteQueue, tble, tuwb, tout, tagResets>>
TagOnDisconnect ==
  /\ connected
  /\ connected' = FALSE /\ authenticated' = FALSE /\ uwbStoppedFar' = FALSE
  /\ tagInUnlockZone' = FALSE /\ told' = FALSE /\ dropped' = FALSE
  /\ events' = (events \ {"READY", "INIT"}) \cup {"STOP"}
  /\ UNCHANGED <<bleWriteQueue, tble, tuwb, tout, tagResets>>

\* notifyCallback
TagNotified(note) ==
  /\ connected
  /\ \/ note = "AUTH_OK" /\ authenticated' = TRUE /\ events' = events
     \/ note = "AUTH_FAIL" /\ authenticated' = FALSE /\ events' = events
     \/ note = "UWB_ACTIVE" /\ events' = events \cup {"READY"} /\ UNCHANGED authenticated
  /\ UNCHANGED <<connected, uwbStoppedFar, bleWriteQueue, tble, tagUwbVars, tagGhosts>>

-----------------------------------------------------------------------------
(* bleTask: connectToServer                                                 *)

TagBleStep(from, to) ==
  tble = from /\ tble' = to /\ UNCHANGED <<connected, tagUwbVars, tagGhosts>>

\* readValue() gave 16 bytes, or gave up: disconnect() and scan again.
TagChallenge ==
  /\ connected /\ TagBleStep("challenge", "respond")
  /\ UNCHANGED <<authenticated, uwbStoppedFar, events, bleWriteQueue>>
TagGiveUp ==
  /\ connected /\ TagBleStep("challenge", "scan")
  /\ UNCHANGED <<authenticated, uwbStoppedFar, events, bleWriteQueue>>

\* The HMAC of the challenge is written.
TagRespond ==
  /\ connected /\ TagBleStep("respond", "auth")
  /\ UNCHANGED <<authenticated, uwbStoppedFar, events, bleWriteQueue>>

TagAuthed ==
  /\ authenticated /\ TagBleStep("auth", "arm")
  /\ UNCHANGED <<authenticated, uwbStoppedFar, events, bleWriteQueue>>

\* After 2 s without AUTH_OK: the value of the characteristic decides, if the
\* link is still there; otherwise, or on another value, back to the scan.
TagAuthRead ==
  /\ connected /\ ~authenticated /\ authenticated' = TRUE /\ TagBleStep("auth", "arm")
  /\ UNCHANGED <<uwbStoppedFar, events, bleWriteQueue>>
TagAuthFail ==
  /\ ~authenticated /\ TagBleStep("auth", "scan")
  /\ UNCHANGED <<authenticated, uwbStoppedFar, events, bleWriteQueue>>

(* bleTask: armUWB                                                          *)

TagArm ==
  /\ TagBleStep("arm", "request") /\ events' = events \ {"READY", "INIT"}
  /\ UNCHANGED <<authenticated, uwbStoppedFar, bleWriteQueue>>

\* TAG_UWB_READY is written.
TagRequest ==
  /\ connected /\ TagBleStep("request", "await")
  /\ UNCHANGED <<authenticated, uwbStoppedFar, events, bleWriteQueue>>

\* The link was lost while arming.
TagNotArmed ==
  /\ ~connected /\ TagBleStep("request", "monitor")
  /\ UNCHANGED <<authenticated, uwbStoppedFar, events, bleWriteQueue>>

\* UWB_REQUEST_RETRY_MS went by.
TagNoRetry == FALSE /\ TagBleStep("await", "request") \* mutant: portMAX_DELAY
TagRetry ==
  /\ "READY" \notin events /\ TagBleStep("await", "request")
  /\ UNCHANGED <<authenticated, uwbStoppedFar, events, bleWriteQueue>>

TagReady ==
  /\ "READY" \in events /\ TagBleStep("await", "set")
  /\ UNCHANGED <<authenticated, uwbStoppedFar, events, bleWriteQueue>>

TagSetInit ==
  /\ TagBleStep("set", "monitor") /\ events' = events \cup {"INIT"}
  /\ UNCHANGED <<authenticated, uwbStoppedFar, bleWriteQueue>>

(* bleTask: the monitor loop                                                *)

TagMonitor ==
  /\ TagBleStep("monitor", IF connected THEN "drain" ELSE "cleanup")
  /\ UNCHANGED <<authenticated, uwbStoppedFar, events, bleWriteQueue>>

\* A queued command is written; after a disconnect it is thrown away.
TagTakeWrite(cmd) ==
  /\ bleWriteQueue # <<>> /\ cmd = Head(bleWriteQueue)
  /\ bleWriteQueue' = Tail(bleWriteQueue)
  /\ TagBleStep("drain", "drain")
  /\ UNCHANGED <<authenticated, uwbStoppedFar, events>>
TagWrite(cmd) == connected /\ TagTakeWrite(cmd)
TagThrowAway == ~connected /\ \E cmd \in ZoneWords : TagTakeWrite(cmd)

\* getRssi() takes its time between the queue and the look at uwbStoppedFar.
TagDrained ==
  /\ bleWriteQueue = <<>> /\ TagBleStep("drain", "check")
  /\ UNCHANGED <<authenticated, uwbStoppedFar, events, bleWriteQueue>>

\* Stopped far away: arm again once the RSSI is good.
TagStay ==
  /\ TagBleStep("check", "monitor")
  /\ uwbStoppedFar => "rssi" \in TagFaults
  /\ UNCHANGED <<authenticated, uwbStoppedFar, events, bleWriteQueue>>
TagRearm ==
  /\ uwbStoppedFar /\ uwbStoppedFar' = FALSE
  /\ TagBleStep("check", "arm")
  /\ UNCHANGED <<authenticated, events, bleWriteQueue>>

TagCleanup ==
  /\ TagBleStep("cleanup", "scan") /\ events' = events \ {"READY", "INIT"}
  /\ UNCHANGED <<authenticated, uwbStoppedFar, bleWriteQueue>>

\* The steps of bleTask that exchange nothing with the anchor.
TagBleLocal ==
  \/ TagAuthed \/ TagArm \/ TagNotArmed \/ TagRetry \/ TagReady \/ TagSetInit
  \/ TagMonitor \/ TagThrowAway \/ TagDrained \/ TagStay \/ TagRearm \/ TagCleanup

-----------------------------------------------------------------------------
(* uwbTask                                                                  *)

TagUwbUnchanged == UNCHANGED <<connected, authenticated, tble, tagResets>>

TagUwbWake ==
  /\ tuwb = "wait" /\ "INIT" \in events /\ tuwb' = "init"
  /\ UNCHANGED <<events, tagInUnlockZone, uwbStoppedFar, bleWriteQueue, tout, told, dropped>>
  /\ TagUwbUnchanged

TagUwbInit ==
  /\ tuwb = "init"
  /\ \/ tuwb' = "loop" /\ events' = events
     \/ "init" \in TagFaults /\ tuwb' = "wait" /\ events' = events \ {"INIT"}
  /\ UNCHANGED <<tagInUnlockZone, uwbStoppedFar, bleWriteQueue, tout, told, dropped>>
  /\ TagUwbUnchanged

\* Head of the ranging loop: EVT_UWB_STOP ends it.
TagUwbStop ==
  /\ tuwb = "loop" /\ "STOP" \in events /\ tuwb' = "deinit"
  /\ UNCHANGED <<events, tagInUnlockZone, uwbStoppedFar, bleWriteQueue, tout, told, dropped>>
  /\ TagUwbUnchanged

\* Otherwise uwbInitiatorLoop ranges once, which takes up to 600 ms.
TagRound ==
  /\ tuwb = "loop" /\ "STOP" \notin events /\ tuwb' = "range"
  /\ UNCHANGED <<events, tagInUnlockZone, uwbStoppedFar, bleWriteQueue, tout, told, dropped>>
  /\ TagUwbUnchanged

\* No distance, or one that leaves the zone as it is.
TagNoChange ==
  /\ tuwb = "range" /\ tuwb' = "loop"
  /\ UNCHANGED <<events, tagInUnlockZone, uwbStoppedFar, bleWriteQueue, tout, told, dropped>>
  /\ TagUwbUnchanged

\* A filtered distance in the band b, the zone it decides, and the word for the
\* anchor if connected.
WordOf(b) == CASE b = "near" -> "VERIFIED" [] b = "away" -> "WARNING" [] b = "far" -> "UWB_STOP"
TagMeasure(b) ==
  /\ tuwb = "range" /\ (b = "far" \/ tagInUnlockZone # (b = "near"))
  /\ tagInUnlockZone' = (b = "near")
  /\ tout' = IF connected THEN WordOf(b) ELSE "none"
  /\ tuwb' = IF connected THEN "send" ELSE IF b = "far" THEN "far" ELSE "loop"
  /\ UNCHANGED <<events, uwbStoppedFar, bleWriteQueue, told, dropped>> /\ TagUwbUnchanged

\* xQueueSend without waiting.
TagSendUnbounded == \* mutant: a queue without an end
  /\ tuwb = "send" /\ tout' = "none"
  /\ tuwb' = (IF tout = "UWB_STOP" THEN "far" ELSE "loop")
  /\ bleWriteQueue' = Append(bleWriteQueue, tout)
  /\ UNCHANGED <<dropped, told, events, tagInUnlockZone, uwbStoppedFar>> /\ TagUwbUnchanged
TagSendGoesOn == \* mutant: ranging goes on after UWB_STOP
  /\ tuwb = "send" /\ tout' = "none"
  /\ tuwb' = "loop"
  /\ IF Len(bleWriteQueue) < WriteDepth
     THEN /\ bleWriteQueue' = Append(bleWriteQueue, tout)
          /\ told' = (connected /\ tout = "VERIFIED") /\ dropped' = dropped
     ELSE dropped' = connected /\ UNCHANGED <<bleWriteQueue, told>>
  /\ UNCHANGED <<events, tagInUnlockZone, uwbStoppedFar>> /\ TagUwbUnchanged
TagSend ==
  /\ tuwb = "send" /\ tout' = "none"
  /\ tuwb' = IF tout = "UWB_STOP" THEN "far" ELSE "loop"
  /\ IF Len(bleWriteQueue) < WriteDepth
     THEN /\ bleWriteQueue' = Append(bleWriteQueue, tout)
          /\ told' = (connected /\ tout = "VERIFIED") /\ dropped' = dropped
     ELSE dropped' = connected /\ UNCHANGED <<bleWriteQueue, told>>
  /\ UNCHANGED <<events, tagInUnlockZone, uwbStoppedFar>> /\ TagUwbUnchanged

\* uwbInitiatorLoop returned true.
TagFar ==
  /\ tuwb = "far" /\ tuwb' = "deinit"
  /\ uwbStoppedFar' = TRUE /\ events' = events \ {"READY", "INIT"}
  /\ UNCHANGED <<tagInUnlockZone, bleWriteQueue, tout, told, dropped>> /\ TagUwbUnchanged

\* deinitUWB, which forgets the zone.
TagDeinitKeepsZone == \* mutant: the zone is remembered
  /\ tuwb = "deinit" /\ tuwb' = "clear"
  /\ UNCHANGED <<tagInUnlockZone, events, uwbStoppedFar, bleWriteQueue, tout, told, dropped>>
  /\ TagUwbUnchanged
TagDeinit ==
  /\ tuwb = "deinit" /\ tuwb' = "clear" /\ tagInUnlockZone' = FALSE
  /\ UNCHANGED <<events, uwbStoppedFar, bleWriteQueue, tout, told, dropped>>
  /\ TagUwbUnchanged

TagClear ==
  /\ tuwb = "clear" /\ tuwb' = "wait" /\ events' = events \ {"INIT", "STOP"}
  /\ UNCHANGED <<tagInUnlockZone, uwbStoppedFar, bleWriteQueue, tout, told, dropped>>
  /\ TagUwbUnchanged

TagUwbTask ==
  \/ TagUwbWake \/ TagUwbInit \/ TagUwbStop \/ TagRound \/ TagNoChange
  \/ TagSend \/ TagFar \/ TagDeinit \/ TagClear
TagUwb == TagUwbTask \/ \E b \in Bands : TagMeasure(b)

-----------------------------------------------------------------------------
\* The exchange with the anchor.  AUTH_OK and AUTH_FAIL may come at any time, UWB_ACTIVE
\* only while uwbTask waits: the anchor confirms once for each TAG_UWB_READY, after an
\* initUWB of 52 ms or more, which is longer than deinitUWB here.  The announcement of
\* an earlier connection that comes at another time is in SmartCarAccess ("stray").
TagExchange ==
  \/ TagChallenge \/ TagGiveUp \/ TagRespond \/ TagAuthRead \/ TagAuthFail \/ TagRequest
  \/ \E cmd \in ZoneWords : TagWrite(cmd)

TagNext ==
  \/ TagConnect \/ TagOnDisconnect \/ TagReset \/ TagPanic
  \/ TagNotified("AUTH_OK") \/ TagNotified("AUTH_FAIL")
  \/ tuwb = "wait" /\ TagNotified("UWB_ACTIVE")
  \/ TagExchange \/ TagBleLocal \/ TagUwb

TagSpec == TagInit /\ [][TagNext]_tagVars

\* The scheduler runs both tasks; nothing is assumed of the anchor, of the link or
\* of where the tag is.
TagFairness == WF_tagVars(TagExchange \/ TagBleLocal \/ TagPanic) /\ WF_tagVars(TagUwbTask)
TagFairSpec == TagSpec /\ TagFairness

-----------------------------------------------------------------------------
(* Types                                                                    *)

TagBlePcs == {"scan", "challenge", "respond", "auth", "arm", "request", "await", "set",
              "monitor", "drain", "check", "cleanup"}
TagUwbPcs == {"wait", "init", "loop", "range", "send", "far", "deinit", "clear"}

\* Every variable stays in its range and bleWriteQueue within its length.
TagTypeOK ==
  /\ connected \in BOOLEAN /\ authenticated \in BOOLEAN /\ uwbStoppedFar \in BOOLEAN
  /\ tagInUnlockZone \in BOOLEAN /\ told \in BOOLEAN /\ dropped \in BOOLEAN
  /\ events \subseteq {"READY", "INIT", "STOP"}
  /\ bleWriteQueue \in Seq(ZoneWords) /\ Len(bleWriteQueue) <= WriteDepth
  /\ tble \in TagBlePcs /\ tuwb \in TagUwbPcs
  /\ tout \in ZoneWords \cup {"none"}
  /\ tagResets \in Nat

-----------------------------------------------------------------------------
(* Properties                                                               *)

\* The zone is never remembered longer than ranging lasts: when uwbTask waits to
\* be armed, the next measurement near the car is a change and says VERIFIED.
ZoneNeedsRanging == tagInUnlockZone => tuwb \in {"loop", "range", "send", "deinit"}

\* The anchor has been told of the zone: between two rounds of ranging the last
\* word queued in this connection is VERIFIED exactly if the tag holds itself to
\* be in the zone, unless the queue was full.
ZoneTold ==
  connected /\ tuwb = "loop" /\ ~dropped => (tagInUnlockZone <=> told)

\* A lost link ends ranging: no disconnect is overlooked because EVT_UWB_STOP was
\* cleared at the end of an earlier round or by the next connection.
StopPending == ~connected /\ tuwb \in {"init", "loop", "range", "send"} => "STOP" \in events

\* So the DW3000 of a tag without a link is switched off in the end.
TagStopsRanging == ~connected ~> (tuwb = "wait" \/ connected)
=============================================================================

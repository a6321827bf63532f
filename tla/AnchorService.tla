---------------------------- MODULE AnchorService ----------------------------
(***************************************************************************)
(* What the anchor is to the tag.  The tag sees three services: a session    *)
(* (a challenge, the answer to it, AUTH_OK), ranging that is switched on and *)
(* announced, and doors that obey in order.  How bleTask, uwbTask and        *)
(* canTask share the SPI bus, when the anchor advertises and how the         *)
(* generation counter keeps challenges fresh does not show.  Anchor is shown *)
(* to implement this module (AnchorServes), and SmartCarAccess puts it       *)
(* together with the tag.                                                   *)
(***************************************************************************)
EXTENDS Integers, Sequences

CONSTANTS
  UwbDepth, CanDepth,  \* lengths of uwbQueue and canQueue: 4, 4
  MaxSessions          \* bound of the model: connections in a behaviour

VARIABLES
  deviceConnected, session,
  cb,                  \* where the running callback is, "idle" if none runs
  authed,
  challenge,           \* the session whose challenge can be read, 0 if none
  responses,           \* responses to be verified, by the challenge they answer
  uwbQueue,
  ranging,             \* "idle", "init", "notify" or "active"
  announce,            \* UWB_ACTIVE notifications to be sent
  pending,             \* door commands accepted and not executed
  carUnlocked, door

sessionVars == <<deviceConnected, session, authed, challenge, responses>>
rangingVars == <<uwbQueue, ranging, announce>>
doorVars == <<pending, carUnlocked, door>>
serviceVars == <<sessionVars, cb, rangingVars, doorVars>>

Lock == INSTANCE DoorLock WITH
          Depth <- CanDepth,
          connected <- deviceConnected,
          closing <- cb \in {"discDeinit", "discLock"},
          believed <- carUnlocked

ServiceInit ==
  /\ deviceConnected = FALSE /\ session = 0 /\ cb = "idle"
  /\ authed = FALSE /\ challenge = 0 /\ responses = <<>>
  /\ uwbQueue = <<>> /\ ranging = "idle" /\ announce = 0
  /\ pending = <<>> /\ carUnlocked = FALSE /\ door = "locked"

ServiceRestart ==
  /\ deviceConnected' = FALSE /\ cb' = "idle"
  /\ authed' = FALSE /\ challenge' = 0 /\ responses' = <<>>
  /\ uwbQueue' = <<>> /\ ranging' = "idle" /\ announce' = 0
  /\ pending' = <<>> /\ carUnlocked' = FALSE
  /\ UNCHANGED <<session, door>>

-----------------------------------------------------------------------------
(* The session                                                              *)

Accept ==
  /\ cb = "idle" /\ ~deviceConnected /\ session < MaxSessions
  /\ deviceConnected' = TRUE /\ session' = session + 1 /\ authed' = FALSE
  /\ cb' = "challenge"
  /\ UNCHANGED <<challenge, responses, rangingVars, doorVars>>

HangUp ==
  /\ cb = "idle" /\ deviceConnected
  /\ deviceConnected' = FALSE /\ authed' = FALSE
  /\ cb' = "discDeinit"
  /\ UNCHANGED <<session, challenge, responses, rangingVars, doorVars>>

\* A challenge is drawn for the last session, once.
Draw ==
  /\ challenge # session /\ challenge' = session
  /\ UNCHANGED <<deviceConnected, session, authed, responses, cb, rangingVars, doorVars>>

\* A response is queued for verification, or dropped.
Answer(resp) ==
  /\ cb = "idle" /\ deviceConnected
  /\ responses' \in {Append(responses, resp), responses}
  /\ UNCHANGED <<deviceConnected, session, authed, challenge, cb, rangingVars, doorVars>>

\* Responses are verified in order, against the challenge of that moment, also
\* when the session that sent them is over.
Verify ==
  /\ responses # <<>> /\ Head(responses) = challenge
  /\ responses' = Tail(responses) /\ authed' = TRUE
  /\ UNCHANGED <<deviceConnected, session, challenge, cb, rangingVars, doorVars>>

\* Wrong, or the HMAC could not be computed.
Refuse ==
  /\ responses # <<>> /\ responses' = Tail(responses)
  /\ UNCHANGED <<deviceConnected, session, authed, challenge, cb, rangingVars, doorVars>>

-----------------------------------------------------------------------------
(* Commands, up to the first send their callback decides on, and the sends. *)

HearsStopOnly(cmd) == \* mutant: UWB_STOP does not lock
  /\ cb = "idle" /\ deviceConnected
  /\ cb' = CASE cmd = "VERIFIED"      -> IF carUnlocked THEN "idle" ELSE "unlock"
             [] cmd = "WARNING"       -> IF carUnlocked THEN "lock" ELSE "idle"
             [] cmd = "UWB_STOP"      -> "stop"
             [] cmd = "TAG_UWB_READY" -> IF authed THEN "init" ELSE "idle"
  /\ UNCHANGED <<sessionVars, rangingVars, doorVars>>
HearsSwapped(cmd) == \* mutant: WARNING locks only a locked car
  /\ cb = "idle" /\ deviceConnected
  /\ cb' = CASE cmd = "VERIFIED"      -> IF carUnlocked THEN "idle" ELSE "unlock"
             [] cmd = "WARNING"       -> IF carUnlocked THEN "idle" ELSE "lock"
             [] cmd = "UWB_STOP"      -> IF carUnlocked THEN "stopLock" ELSE "stop"
             [] cmd = "TAG_UWB_READY" -> IF authed THEN "init" ELSE "idle"
  /\ UNCHANGED <<sessionVars, rangingVars, doorVars>>
Hears(cmd) ==
  /\ cb = "idle" /\ deviceConnected
  /\ cb' = CASE cmd = "VERIFIED"      -> IF carUnlocked THEN "idle" ELSE "unlock"
             [] cmd = "WARNING"       -> IF carUnlocked THEN "lock" ELSE "idle"
             [] cmd = "UWB_STOP"      -> IF carUnlocked THEN "stopLock" ELSE "stop"
             [] cmd = "TAG_UWB_READY" -> IF authed THEN "init" ELSE "idle"
  /\ UNCHANGED <<sessionVars, rangingVars, doorVars>>

Skip(from, to) ==
  /\ cb = from /\ cb' = to /\ UNCHANGED <<sessionVars, rangingVars, doorVars>>

AskDoor(from, cmd, to) ==
  /\ cb = from /\ cb' = to /\ Lock!Ask(cmd)
  /\ UNCHANGED <<sessionVars, rangingVars, carUnlocked, door>>

AskRangingAlways(from, cmd, to) == \* mutant: a queue without an end
  /\ cb = from /\ cb' = to /\ uwbQueue' = Append(uwbQueue, cmd)
  /\ UNCHANGED <<sessionVars, ranging, announce, doorVars>>
AskRanging(from, cmd, to) ==
  /\ cb = from /\ cb' = to
  /\ uwbQueue' = IF Len(uwbQueue) < UwbDepth THEN Append(uwbQueue, cmd) ELSE uwbQueue
  /\ UNCHANGED <<sessionVars, ranging, announce, doorVars>>

Send ==
  \/ Skip("challenge", "idle") \/ Skip("discAdv", "idle")
  \/ AskDoor("unlock", "UNLOCK", "idle") \/ AskDoor("lock", "LOCK", "idle")
  \/ AskDoor("stopLock", "LOCK", "stop") \/ AskDoor("discLock", "LOCK", "discAdv")
  \/ AskRanging("stop", "DEINIT", "idle") \/ AskRanging("init", "INIT", "idle")
  \/ AskRanging("discDeinit", "DEINIT", "discLock")

-----------------------------------------------------------------------------
(* Ranging                                                                  *)

\* A command is taken: INIT starts, DEINIT stops, any other is forgotten.
TakeCommand ==
  /\ uwbQueue # <<>> /\ uwbQueue' = Tail(uwbQueue)
  /\ \/ ranging = "idle" /\ ranging' = (IF Head(uwbQueue) = "INIT" THEN "init" ELSE "idle")
     \/ ranging = "active" /\ ranging' = (IF Head(uwbQueue) = "DEINIT" THEN "idle" ELSE "active")
  /\ UNCHANGED <<sessionVars, cb, announce, doorVars>>

Start ==
  /\ ranging = "init" /\ ranging' \in {"notify", "idle"}
  /\ UNCHANGED <<sessionVars, cb, uwbQueue, announce, doorVars>>

\* The announcement is queued, or dropped.
QueueAnnounce ==
  /\ ranging = "notify" /\ ranging' = "active"
  /\ announce' \in {announce, announce + 1}
  /\ UNCHANGED <<sessionVars, cb, uwbQueue, doorVars>>

\* UWB_ACTIVE goes to whoever is connected.
Announce ==
  /\ announce > 0 /\ announce' = announce - 1
  /\ UNCHANGED <<sessionVars, cb, uwbQueue, ranging, doorVars>>

-----------------------------------------------------------------------------
\* A door command is executed, or the SPI bus is not to be had in time.
Obey == UNCHANGED <<sessionVars, cb, rangingVars>> /\ Lock!Execute
Forget == UNCHANGED <<sessionVars, cb, rangingVars>> /\ Lock!Lose

ServiceInternal == Draw \/ Send \/ TakeCommand \/ Start \/ QueueAnnounce \/ Obey \/ Forget

ServiceNext ==
  \/ Accept \/ HangUp \/ ServiceRestart \/ ServiceInternal
  \/ \E resp \in -1..session : Answer(resp)  \* -1 answers none
  \/ \E cmd \in {"VERIFIED", "WARNING", "UWB_STOP", "TAG_UWB_READY"} : Hears(cmd)
  \/ Verify \/ Refuse \/ Announce

ServiceSpec == ServiceInit /\ [][ServiceNext]_serviceVars
=============================================================================

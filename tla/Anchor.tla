------------------------------- MODULE Anchor -------------------------------
(***************************************************************************)
(* The anchor firmware in the car                                          *)
(* (FreeRTOS_Anchor_TestSimFetchKey.ino): the callbacks of the BLE stack    *)
(* and the three FreeRTOS tasks behind it.                                  *)
(*                                                                         *)
(*   BLE stack callbacks --bleQueue--> bleTask   challenge, authentication, *)
(*                                               notifications, advertising *)
(*                       --uwbQueue--> uwbTask   DW3000 ranging             *)
(*                       --canQueue--> canTask   door frames on the CAN bus *)
(*                                                                         *)
(* uwbTask and canTask share one SPI bus, guarded by spiMutex.  A callback   *)
(* is one action up to its first xQueueSend, and one action per xQueueSend, *)
(* so the tasks on the other core run between a check and the send it       *)
(* decides.  A send that finds the queue full waits 10 or 100 ms: the wait   *)
(* is the step not being taken, and the step of a full queue drops.         *)
(*                                                                         *)
(* The central (tag or phone bridge) is any peer that writes the commands   *)
(* of Central in any order; one central is connected at a time.             *)
(***************************************************************************)
EXTENDS Integers, Sequences

CONSTANTS
  BleDepth, UwbDepth, CanDepth, \* lengths of the three queues: 8, 4, 4
  GenMod,       \* values of connectionGen, a uint8_t: 256
  Central,      \* what the central may do, a subset of CentralOps
  CanFaults,    \* commands whose frames may fail, a subset of {"LOCK", "UNLOCK"}
  SlowBus,      \* TRUE if a wait for spiMutex may expire
  MaxSessions,  \* bound of the model: connections in a behaviour
  MaxResets     \* bound of the model: resets of the board in a behaviour

Writes == {"VERIFIED", "WARNING", "UWB_STOP", "TAG_UWB_READY"}
CentralOps == Writes \cup {"READ", "RESPOND", "GARBLE"}

\* The generation counter must not come back to a value that a challenge
\* request in bleQueue still carries: see ChallengeFresh.
ASSUME ConstantsOK ==
  /\ BleDepth \in Nat \ {0} /\ UwbDepth \in Nat \ {0} /\ CanDepth \in Nat \ {0}
  /\ GenMod \in Nat /\ GenMod > 2 * BleDepth + 1
  /\ Central \subseteq CentralOps
  /\ CanFaults \subseteq {"LOCK", "UNLOCK"} /\ SlowBus \in BOOLEAN
  /\ MaxSessions \in Nat /\ MaxResets \in Nat

VARIABLES
  deviceConnected, connectionGen, \* flags the callbacks keep
  advertising,           \* whether the BLE stack advertises
  cb,                    \* where the running callback is, "idle" if none runs
  authed, uwbActive,     \* EVT_AUTHED and EVT_UWB_ACTIVE of sysEvents
  bleQueue, uwbQueue, canQueue,
  ble, msg,              \* bleTask: program counter, command in hand
  challenge,             \* currentChallenge and its characteristic
  uwb, radio,            \* uwbTask: program counter; the DW3000
  can, canCmd,           \* canTask: program counter, command in hand
  spiMutex,              \* who holds it: "free", "uwb" or "can"
  carUnlocked, door,     \* what the firmware believes, what the doors are
  heard,                 \* central: last challenge it obtained in this session
  session, resets,       \* connections and resets so far
  lost                   \* LOCK, DEINIT dropped since the link last went up or down

bleVars == <<bleQueue, ble, msg, challenge>>
uwbVars == <<uwbQueue, uwb, radio>>
canVars == <<canQueue, can, canCmd, carUnlocked, door>>
linkVars == <<deviceConnected, connectionGen, advertising, session>>
ghosts == <<heard, resets, lost>>
vars == <<linkVars, cb, authed, uwbActive, bleVars, uwbVars, canVars, spiMutex, ghosts>>

\* A challenge is numbered by the session whose request made bleTask draw it:
\* one request per session, so the numbers are as fresh as the random bytes.
\* 0 is the buffer as the program starts with it.
Garbage == -1  \* a response computed with another key
NoChallenge == -2

(***************************************************************************)
(* Messages of bleQueue.  data is the generation of a challenge request or  *)
(* the challenge an HMAC response answers; of, which the code does not      *)
(* have, is the session that queued the message.                            *)
(***************************************************************************)
ChallengeOfLast(gen, s) == \* mutant: the generation is read before its increment
  [type |-> "SEND_CHALLENGE", data |-> IF gen = 0 THEN GenMod - 1 ELSE gen - 1, of |-> s]
Challenge(gen, s) == [type |-> "SEND_CHALLENGE", data |-> gen, of |-> s]
Verify(resp, s)   == [type |-> "AUTH_VERIFY", data |-> resp, of |-> s]
NotifyActive      == [type |-> "NOTIFY_UWB_ACTIVE", data |-> 0, of |-> 0]
RestartAdv        == [type |-> "RESTART_ADV", data |-> 0, of |-> 0]
NoMsg             == [type |-> "none", data |-> 0, of |-> 0]

\* xQueueSend with a timeout: a queue still full when it expires drops m.
Offer(q, depth, m) == IF Len(q) < depth THEN Append(q, m) ELSE q
Dropped(q, depth, m) == IF Len(q) < depth THEN {} ELSE {m} \cap {"LOCK", "DEINIT"}

\* connectionGen++ on eight bits.
SameGen(g) == g       \* mutant: onConnect forgets the increment
WideGen(g) == g + 1   \* mutant: the counter is an int
NextGen(g) == IF g = GenMod - 1 THEN 0 ELSE g + 1

-----------------------------------------------------------------------------
\* What setup() leaves behind; door, session and the ghosts outlive a reset.
Booted ==
  /\ deviceConnected = FALSE /\ connectionGen = 0
  /\ advertising = TRUE
  /\ cb = "idle" /\ authed = FALSE /\ uwbActive = FALSE
  /\ bleQueue = <<>> /\ uwbQueue = <<>> /\ canQueue = <<>>
  /\ ble = "wait" /\ msg = NoMsg /\ challenge = 0
  /\ uwb = "idle" /\ radio = "reset"
  /\ can = "idle" /\ canCmd = "none" /\ spiMutex = "free"
  /\ carUnlocked = FALSE
  /\ heard = NoChallenge /\ lost = {}

Init == Booted /\ door = "locked" /\ session = 0 /\ resets = 0

\* Power loss, brown-out or panic: RAM is gone, the doors stay as they are.
Reset ==
  /\ resets < MaxResets
  /\ resets' = resets + 1
  /\ deviceConnected' = FALSE /\ connectionGen' = 0
  /\ advertising' = TRUE
  /\ cb' = "idle" /\ authed' = FALSE /\ uwbActive' = FALSE
  /\ bleQueue' = <<>> /\ uwbQueue' = <<>> /\ canQueue' = <<>>
  /\ ble' = "wait" /\ msg' = NoMsg /\ challenge' = 0
  /\ uwb' = "idle" /\ radio' = "reset"
  /\ can' = "idle" /\ canCmd' = "none" /\ spiMutex' = "free"
  /\ carUnlocked' = FALSE
  /\ heard' = NoChallenge /\ lost' = {}
  /\ UNCHANGED <<door, session>>

-----------------------------------------------------------------------------
(* BLE stack callbacks.  They run one at a time.                            *)

OnConnect ==
  /\ cb = "idle" /\ ~deviceConnected /\ advertising /\ session < MaxSessions
  /\ deviceConnected' = TRUE /\ advertising' = FALSE
  /\ session' = session + 1
  /\ connectionGen' = NextGen(connectionGen)
  /\ authed' = FALSE /\ uwbActive' = FALSE
  /\ cb' = "challenge"
  /\ heard' = NoChallenge /\ lost' = {}
  /\ UNCHANGED <<bleVars, uwbVars, canVars, spiMutex, resets>>

\* The link is lost at any time, or goes down because bleTask asked for it.
\* onDisconnect clears the flags; its sends start at first.
LinkDown(first) ==
  /\ cb = "idle" /\ deviceConnected
  /\ deviceConnected' = FALSE
  /\ authed' = FALSE /\ uwbActive' = FALSE
  /\ cb' = first
  /\ heard' = NoChallenge /\ lost' = {}
  /\ UNCHANGED <<connectionGen, advertising, session, bleVars, uwbVars, canVars,
                 spiMutex, resets>>

\* Mutants: lock only a car believed unlocked, as the writes do; forget DEINIT.
OnDisconnectIfUnlocked == LinkDown(IF carUnlocked THEN "discDeinit" ELSE "discAdv")
OnDisconnectNoDeinit == LinkDown("discLock")
OnDisconnect == LinkDown("discDeinit")

\* CharacteristicCallbacks::onWrite, up to the first send it decides on.
AfterWrite(cmd) ==
  CASE cmd = "VERIFIED"      -> IF carUnlocked THEN "idle" ELSE "unlock"
    [] cmd = "WARNING"       -> IF carUnlocked THEN "lock" ELSE "idle"
    [] cmd = "UWB_STOP"      -> IF carUnlocked THEN "stopLock" ELSE "stop"
    [] cmd = "TAG_UWB_READY" -> IF authed THEN "init" ELSE "idle"

OnWrite(cmd) ==
  /\ cb = "idle" /\ deviceConnected
  /\ cb' = AfterWrite(cmd)
  /\ UNCHANGED <<linkVars, authed, uwbActive, bleVars, uwbVars, canVars, spiMutex,
                 ghosts>>

\* AuthCharacteristicCallbacks::onWrite once 32 bytes have arrived.
OnResponse(resp) ==
  /\ cb = "idle" /\ deviceConnected
  /\ bleQueue' = Offer(bleQueue, BleDepth, Verify(resp, session))
  /\ UNCHANGED <<linkVars, cb, authed, uwbActive, ble, msg, challenge, uwbVars, canVars,
                 spiMutex, ghosts>>

\* readValue() of the challenge characteristic, answered by the stack; the
\* central polls until it is 16 bytes long, so until a challenge was drawn.
CentralRead ==
  /\ deviceConnected /\ challenge # 0
  /\ heard' = challenge
  /\ UNCHANGED <<linkVars, cb, authed, uwbActive, bleVars, uwbVars, canVars, spiMutex,
                 resets, lost>>

\* The sends of the callbacks, in the order of the code.
CbBleTwice(from, m, to) == \* mutant: sent again until the queue is full
  /\ cb = from /\ cb' = (IF Len(bleQueue) < BleDepth THEN from ELSE to)
  /\ bleQueue' = Offer(bleQueue, BleDepth, m)
  /\ UNCHANGED <<linkVars, authed, uwbActive, ble, msg, challenge, uwbVars, canVars,
                 spiMutex, ghosts>>
CbBle(from, m, to) ==
  /\ cb = from /\ cb' = to
  /\ bleQueue' = Offer(bleQueue, BleDepth, m)
  /\ UNCHANGED <<linkVars, authed, uwbActive, ble, msg, challenge, uwbVars, canVars,
                 spiMutex, ghosts>>

CbUwb(from, c, to) ==
  /\ cb = from /\ cb' = to
  /\ uwbQueue' = Offer(uwbQueue, UwbDepth, c)
  /\ lost' = lost \cup Dropped(uwbQueue, UwbDepth, c)
  /\ UNCHANGED <<linkVars, authed, uwbActive, bleVars, uwb, radio, canVars, spiMutex,
                 heard, resets>>

CbCan(from, c, to) ==
  /\ cb = from /\ cb' = to
  /\ canQueue' = Offer(canQueue, CanDepth, c)
  /\ lost' = lost \cup Dropped(canQueue, CanDepth, c)
  /\ UNCHANGED <<linkVars, authed, uwbActive, bleVars, uwbVars, can, canCmd, carUnlocked,
                 door, spiMutex, heard, resets>>

Callback ==
  \/ CbBle("challenge", Challenge(connectionGen, session), "idle")
  \/ CbCan("unlock", "UNLOCK", "idle")
  \/ CbCan("lock", "LOCK", "idle")
  \/ CbCan("stopLock", "LOCK", "stop")
  \/ CbUwb("stop", "DEINIT", "idle")
  \/ CbUwb("init", "INIT", "idle")
  \/ CbUwb("discDeinit", "DEINIT", "discLock")
  \/ CbCan("discLock", "LOCK", "discAdv")
  \/ CbBle("discAdv", RestartAdv, "idle")

\* The stack sometimes stops advertising on its own.
AdvStops ==
  /\ advertising /\ ~deviceConnected
  /\ advertising' = FALSE
  /\ UNCHANGED <<deviceConnected, connectionGen, session, cb, authed, uwbActive,
                 bleVars, uwbVars, canVars, spiMutex, ghosts>>

-----------------------------------------------------------------------------
(* bleTask.  Only it changes challenge and, link events apart, advertising. *)

BleUnchanged == UNCHANGED <<deviceConnected, connectionGen, session, cb, uwbActive, uwbVars,
                            canVars, spiMutex, resets, lost>>

\* xQueueReceive and the switch, up to the first statement that blocks.
BleReceive ==
  /\ ble = "wait" /\ bleQueue # <<>>
  /\ bleQueue' = Tail(bleQueue)
  /\ LET m == Head(bleQueue)
         stale == m.type = "SEND_CHALLENGE" /\ m.data # connectionGen
     IN /\ msg' = IF stale THEN NoMsg ELSE m
        /\ challenge' = IF m.type = "SEND_CHALLENGE" /\ ~stale THEN m.of ELSE challenge
        /\ \/ stale /\ ble' = "refresh"
           \/ m.type = "SEND_CHALLENGE" /\ ~stale /\ ble' = "delay"
           \/ m.type = "AUTH_VERIFY" /\ m.data = challenge /\ ble' = "match"
           \/ m.type = "AUTH_VERIFY" /\ ble' = "kick" \* wrong, or computeHMAC failed
           \/ m.type = "NOTIFY_UWB_ACTIVE" /\ ble' = "notify"
           \/ m.type = "RESTART_ADV" /\ ble' = "readv"
  /\ UNCHANGED <<advertising, authed, heard>>
  /\ BleUnchanged

BleTimeout ==
  /\ ble = "wait" /\ bleQueue = <<>> /\ ble' = "refresh"
  /\ UNCHANGED <<bleQueue, msg, challenge, advertising, authed, heard>>
  /\ BleUnchanged

\* After CHALLENGE_SEND_DELAY_MS: go on, unless a newer connection exists.
BleCheckChallenge ==
  /\ ble = "delay" /\ msg' = NoMsg
  /\ ble' = IF msg.data = connectionGen THEN "send" ELSE "refresh"
  /\ UNCHANGED <<bleQueue, challenge, advertising, authed, heard>>
  /\ BleUnchanged

\* notify(), to whoever is connected; a central that has not subscribed misses it.
BleNotifyChallenge ==
  /\ ble = "send" /\ ble' = "refresh" /\ msg' = msg
  /\ heard' \in IF deviceConnected THEN {challenge, heard} ELSE {heard}
  /\ UNCHANGED <<bleQueue, challenge, advertising, authed>>
  /\ BleUnchanged

\* memcmp found the response right; the AUTH_OK notification follows.
BleAuthOk ==
  /\ ble = "match" /\ ble' = "refresh" /\ msg' = NoMsg
  /\ authed' = TRUE
  /\ UNCHANGED <<bleQueue, challenge, advertising, heard>>
  /\ BleUnchanged

\* 50 ms after AUTH_FAIL, disconnect(getConnId()): the link of whoever is
\* connected now goes down, by OnDisconnect, which may happen at any time.
BleKick ==
  /\ ble = "kick" /\ ble' = "refresh" /\ msg' = NoMsg
  /\ UNCHANGED <<bleQueue, challenge, advertising, authed, heard>>
  /\ BleUnchanged

BleNotifyActive ==
  /\ ble = "notify" /\ ble' = "refresh" /\ msg' = NoMsg
  /\ UNCHANGED <<bleQueue, challenge, advertising, authed, heard>>
  /\ BleUnchanged

BleRestartAdv ==
  /\ ble = "readv" /\ ble' = "refresh" /\ msg' = NoMsg
  /\ advertising' = TRUE
  /\ UNCHANGED <<bleQueue, challenge, authed, heard>>
  /\ BleUnchanged

\* End of the loop body: the last refresh is less than 10 s old, or more.
BleNoRefresh ==
  /\ ble = "refresh" /\ ble' = "wait"
  /\ UNCHANGED <<bleQueue, msg, challenge, advertising, authed, heard>>
  /\ BleUnchanged

BleRefreshDue ==
  /\ ble = "refresh" /\ ~deviceConnected /\ ble' = "start"
  /\ UNCHANGED <<bleQueue, msg, challenge, advertising, authed, heard>>
  /\ BleUnchanged

\* startAdvertising(), also when a central has just connected.
BleRefreshAdv ==
  /\ ble = "start" /\ ble' = "wait" /\ advertising' = TRUE
  /\ UNCHANGED <<bleQueue, msg, challenge, authed, heard>>
  /\ BleUnchanged

BleTask == \/ BleReceive \/ BleTimeout \/ BleCheckChallenge \/ BleNotifyChallenge
           \/ BleAuthOk \/ BleKick \/ BleNotifyActive \/ BleRestartAdv
           \/ BleNoRefresh \/ BleRefreshDue \/ BleRefreshAdv

-----------------------------------------------------------------------------
\* The SPI bus is taken by a task.
TakeMutexBlindly(task) == spiMutex' = task  \* mutant: the result is not looked at
TakeMutex(task) == spiMutex = "free" /\ spiMutex' = task

(* uwbTask                                                                  *)

UwbUnchanged == UNCHANGED <<linkVars, cb, authed, ble, msg, challenge, canVars, ghosts>>

\* Idle: everything but INIT is discarded.
UwbWake ==
  /\ uwb = "idle" /\ uwbQueue # <<>>
  /\ uwbQueue' = Tail(uwbQueue)
  /\ uwb' = IF Head(uwbQueue) = "INIT" THEN "init" ELSE "idle"
  /\ UNCHANGED <<radio, uwbActive, bleQueue, spiMutex>> /\ UwbUnchanged

\* initUWB, without the mutex; on failure the DW3000 goes back into reset.
UwbInit ==
  /\ uwb = "init"
  /\ \/ uwb' = "notify" /\ radio' = "idle"
     \/ uwb' = "idle" /\ radio' = "reset"
  /\ UNCHANGED <<uwbQueue, uwbActive, bleQueue, spiMutex>> /\ UwbUnchanged

UwbSendNotify ==
  /\ uwb = "notify" /\ uwb' = "setbit"
  /\ bleQueue' = Offer(bleQueue, BleDepth, NotifyActive)
  /\ UNCHANGED <<uwbQueue, radio, uwbActive, spiMutex>> /\ UwbUnchanged

UwbSetBit ==
  /\ uwb = "setbit" /\ uwb' = "poll" /\ uwbActive' = TRUE
  /\ UNCHANGED <<uwbQueue, radio, bleQueue, spiMutex>> /\ UwbUnchanged

\* Active: a command that is not DEINIT is received and forgotten.
UwbPoll ==
  /\ uwb = "poll"
  /\ IF uwbQueue = <<>>
     THEN uwb' = "take" /\ uwbQueue' = uwbQueue
     ELSE /\ uwb' = IF Head(uwbQueue) = "DEINIT" THEN "deinit" ELSE "take"
          /\ uwbQueue' = Tail(uwbQueue)
  /\ UNCHANGED <<radio, uwbActive, bleQueue, spiMutex>> /\ UwbUnchanged

UwbTake ==
  /\ TakeMutex("uwb")
  /\ \/ uwb = "take" /\ uwb' = "range" /\ radio' = "busy"
     \/ uwb = "deinit" /\ uwb' = "stop" /\ radio' = radio
  /\ UNCHANGED <<uwbQueue, uwbActive, bleQueue>> /\ UwbUnchanged

\* The 500 ms (ranging) or 1000 ms (deinit, then skipped) wait expires.
UwbTakeTimeout ==
  /\ SlowBus /\ spiMutex = "can"
  /\ \/ uwb = "take" /\ uwb' = "poll"
     \/ uwb = "deinit" /\ uwb' = "clear"
  /\ UNCHANGED <<uwbQueue, radio, uwbActive, bleQueue, spiMutex>> /\ UwbUnchanged

\* End of uwbResponderLoop: every exit leaves the transceiver off.
UwbRanged ==
  /\ uwb = "range" /\ uwb' = "poll" /\ radio' = "idle" /\ spiMutex' = "free"
  /\ UNCHANGED <<uwbQueue, uwbActive, bleQueue>> /\ UwbUnchanged

UwbDeinitKeepsMutex == \* mutant: no xSemaphoreGive
  /\ uwb = "stop" /\ uwb' = "clear" /\ radio' = "reset"
  /\ UNCHANGED <<spiMutex, uwbQueue, uwbActive, bleQueue>> /\ UwbUnchanged
UwbDeinit ==
  /\ uwb = "stop" /\ uwb' = "clear" /\ radio' = "reset" /\ spiMutex' = "free"
  /\ UNCHANGED <<uwbQueue, uwbActive, bleQueue>> /\ UwbUnchanged

UwbClearBit ==
  /\ uwb = "clear" /\ uwb' = "idle" /\ uwbActive' = FALSE
  /\ UNCHANGED <<uwbQueue, radio, bleQueue, spiMutex>> /\ UwbUnchanged

UwbTask == \/ UwbWake \/ UwbInit \/ UwbSendNotify \/ UwbSetBit \/ UwbPoll \/ UwbTake
           \/ UwbTakeTimeout \/ UwbRanged \/ UwbDeinit \/ UwbClearBit

-----------------------------------------------------------------------------
(* canTask                                                                  *)

CanUnchanged == UNCHANGED <<linkVars, cb, authed, uwbActive, bleVars, uwbQueue, uwb,
                            heard, resets>>

CanReceive ==
  /\ can = "idle" /\ canQueue # <<>>
  /\ can' = "take" /\ canCmd' = Head(canQueue) /\ canQueue' = Tail(canQueue)
  /\ UNCHANGED <<carUnlocked, door, spiMutex, radio, lost>> /\ CanUnchanged

\* With the mutex, dwt_forcetrxoff() if EVT_UWB_ACTIVE is set.
CanTake ==
  /\ can = "take" /\ can' = "frames"
  /\ TakeMutex("can")
  /\ radio' = IF uwbActive /\ radio = "busy" THEN "idle" ELSE radio
  /\ UNCHANGED <<canQueue, canCmd, carUnlocked, door, lost>> /\ CanUnchanged

\* The 2000 ms wait expires: the command is gone.
CanTakeTimeout ==
  /\ SlowBus /\ can = "take" /\ spiMutex = "uwb"
  /\ can' = "idle" /\ canCmd' = "none" /\ lost' = lost \cup ({canCmd} \cap {"LOCK"})
  /\ UNCHANGED <<canQueue, carUnlocked, door, spiMutex, radio>> /\ CanUnchanged

\* The doors after a frame sequence: sure to obey only if every frame went out.
Doors(target, ok) == IF ok THEN {target} ELSE {target, door}

CanLock(ok) ==
  /\ canCmd = "LOCK"
  /\ carUnlocked' = FALSE
  /\ door' \in Doors("locked", ok)

CanUnlock(ok) ==
  /\ canCmd = "UNLOCK"
  /\ IF carUnlocked
     THEN UNCHANGED <<carUnlocked, door>>
     ELSE carUnlocked' = ok /\ door' \in Doors("unlocked", ok)

CanFramesRetry == \* mutant: a command whose frames failed is tried again
  /\ can = "frames" /\ spiMutex' = "free"
  /\ \E ok \in {TRUE, canCmd \notin CanFaults} :
       /\ CanLock(ok) \/ CanUnlock(ok)
       /\ can' = (IF ok THEN "idle" ELSE "take") /\ canCmd' = (IF ok THEN "none" ELSE canCmd)
  /\ UNCHANGED <<canQueue, radio, lost>> /\ CanUnchanged
CanFrames ==
  /\ can = "frames" /\ can' = "idle" /\ canCmd' = "none" /\ spiMutex' = "free"
  /\ \E ok \in {TRUE, canCmd \notin CanFaults} : CanLock(ok) \/ CanUnlock(ok)
  /\ UNCHANGED <<canQueue, radio, lost>> /\ CanUnchanged

CanTask == CanReceive \/ CanTake \/ CanTakeTimeout \/ CanFrames

-----------------------------------------------------------------------------
\* A central that holds the key answers the challenge it heard; another, or one
\* with another key, answers garbage.
CentralWrites ==
  \/ \E cmd \in Central \cap Writes : OnWrite(cmd)
  \/ "READ" \in Central /\ CentralRead
  \/ "RESPOND" \in Central /\ heard # NoChallenge /\ OnResponse(heard)
  \/ "GARBLE" \in Central /\ OnResponse(Garbage)

Next == \/ OnConnect \/ OnDisconnect \/ CentralWrites \/ Callback \/ AdvStops
        \/ BleTask \/ UwbTask \/ CanTask \/ Reset

Spec == Init /\ [][Next]_vars

(***************************************************************************)
(* Fairness: the scheduler runs every task that can run.  The mutex is     *)
(* strongly fair for canTask because uwbTask sleeps 5 ms after each give    *)
(* ("co co hoi lay mutex").  The 10 s advertising timer stays expired until *)
(* the refresh, so the refresh is strongly fair.  Nothing is assumed of the *)
(* central or of the radio link.                                            *)
(***************************************************************************)
Fairness ==
  /\ WF_vars(Callback) /\ WF_vars(BleTask) /\ WF_vars(UwbTask) /\ WF_vars(CanTask)
  /\ SF_vars(CanTake) /\ SF_vars(BleRefreshDue)

FairSpec == Spec /\ Fairness

-----------------------------------------------------------------------------
(* Types                                                                    *)

BlePcs == {"wait", "delay", "send", "match", "kick", "notify", "readv", "refresh",
           "start"}
UwbPcs == {"idle", "init", "notify", "setbit", "poll", "take", "range", "deinit", "stop",
           "clear"}
CbPcs  == {"idle", "challenge", "unlock", "lock", "stopLock", "stop", "init",
           "discDeinit", "discLock", "discAdv"}
BleMsg == [type : {"SEND_CHALLENGE", "AUTH_VERIFY", "NOTIFY_UWB_ACTIVE", "RESTART_ADV",
                   "none"},
           data : Int, of : Nat]
QueueOK(q, S, depth) == q \in Seq(S) /\ Len(q) <= depth

LinkTypes ==
  /\ deviceConnected \in BOOLEAN /\ advertising \in BOOLEAN /\ authed \in BOOLEAN
  /\ cb \in CbPcs
BleTypes ==
  /\ QueueOK(bleQueue, BleMsg, BleDepth)
  /\ ble \in BlePcs /\ msg \in BleMsg /\ challenge \in Nat
UwbTypes ==
  /\ QueueOK(uwbQueue, {"INIT", "DEINIT"}, UwbDepth)
  /\ uwb \in UwbPcs /\ radio \in {"reset", "idle", "busy"} /\ uwbActive \in BOOLEAN
CanTypes ==
  /\ QueueOK(canQueue, {"LOCK", "UNLOCK"}, CanDepth)
  /\ can \in {"idle", "take", "frames"} /\ canCmd \in {"none", "LOCK", "UNLOCK"}
  /\ spiMutex \in {"free", "uwb", "can"}
  /\ carUnlocked \in BOOLEAN /\ door \in {"locked", "unlocked"}
CountTypes ==
  /\ connectionGen \in 0..GenMod - 1 /\ session \in Nat /\ resets \in Nat
  /\ heard \in Int /\ lost \subseteq {"LOCK", "DEINIT"}

\* Every variable stays in its range; no queue grows past its length.
TypeOK == LinkTypes /\ BleTypes /\ UwbTypes /\ CanTypes /\ CountTypes

-----------------------------------------------------------------------------
(* Properties                                                               *)

\* spiMutex does its work: while canTask drives frames to the MCP2515, uwbTask
\* is neither ranging nor shutting the DW3000 down on the shared SPI bus, and
\* the DW3000 is not on the air.
BusExclusive ==
  can = "frames" => uwb \notin {"range", "stop"} /\ radio # "busy"

\* A challenge that passes the generation check of bleTask was drawn for the
\* session that connected last: no stale request survives, also when
\* connectionGen has wrapped.
ChallengeFresh ==
  ble = "delay" /\ msg.data = connectionGen => msg.of = session

\* After a disconnect, whatever was still queued, the car ends up locked:
\* once canTask has nothing left to do the firmware believes the car locked,
\* unless the LOCK of onDisconnect was dropped on the way.  The doors are locked
\* too, also after an unlock that failed half way, if the frames of LOCK arrive
\* and no reset lost what was queued.
DisconnectLocks ==
  ~deviceConnected /\ cb \notin {"discDeinit", "discLock"} /\ "LOCK" \notin lost
    /\ can = "idle" /\ canQueue = <<>>
  => ~carUnlocked /\ ("LOCK" \in CanFaults \/ resets > 0 \/ door = "locked")

\* After a disconnect ranging stops: once uwbTask has nothing left to do it
\* waits for INIT with EVT_UWB_ACTIVE clear and, unless the mutex kept it from
\* shutting down, the DW3000 in reset.
DisconnectStopsUwb ==
  ~deviceConnected /\ cb # "discDeinit" /\ "DEINIT" \notin lost
    /\ uwbQueue = <<>> /\ uwb \in {"idle", "poll", "take", "range"}
  => uwb = "idle" /\ ~uwbActive /\ (SlowBus \/ radio = "reset")

\* While nobody is connected the anchor comes back on the air, although
\* BLE_RESTART_ADV may have been dropped and the stack may stop advertising.
ReAdvertises == ~deviceConnected ~> (advertising \/ deviceConnected)

\* After a disconnect the car is locked in the end, however busy the SPI bus
\* is, unless the LOCK was dropped or a central connects again.
EventuallyLocked ==
  (~deviceConnected /\ carUnlocked)
    ~> (~carUnlocked \/ deviceConnected \/ "LOCK" \in lost)

\* can_commands and DW3000 never meet: "khong can mutex vi CAN chua dung SPI o
\* giai doan nay" (initUWB needs no mutex, CAN does not use SPI at this stage).
InitNeedsNoMutex == ~(can = "frames" /\ uwb = "init")
=============================================================================

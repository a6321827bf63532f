--------------------------- MODULE SmartCarAccess ---------------------------
(***************************************************************************)
(* The tag and the car: Tag and AnchorService joined by one BLE link.  What  *)
(* the tag writes is what the callbacks of the anchor get, and what the      *)
(* anchor notifies is what notifyCallback of the tag gets, as long as the    *)
(* link is up.  Once it is broken each end learns it in its own time,        *)
(* through its onDisconnect; until then what it sends is lost.              *)
(***************************************************************************)
EXTENDS Tag, AnchorService, SequencesExt

CONSTANTS
  Places,        \* bands the driver visits: a subset of Bands
  CarFaults,     \* what may fail in the car: a subset of {"init", "bus", "frames", "queue"}
  MaxCarResets   \* bound of the model: resets of the anchor in a behaviour

ASSUME CarConstantsOK ==
  /\ UwbDepth \in Nat /\ CanDepth \in Nat /\ MaxSessions \in Nat /\ MaxCarResets \in Nat
  /\ Places \subseteq Bands /\ CarFaults \subseteq {"init", "bus", "frames", "queue"}

VARIABLES
  link,      \* TRUE while the BLE connection works
  heard,     \* the challenge connectToServer has read
  authValue, \* value of the auth characteristic: "other", "AUTH_OK", "AUTH_FAIL"
  excused,   \* ghost: what has gone astray in this connection, see Leftovers, Lingers
  carResets

carVars == <<tagVars, serviceVars, link, heard, authValue, excused, carResets>>
TagAlone == UNCHANGED <<serviceVars, heard, authValue, excused, carResets>>
CarAlone == UNCHANGED <<tagVars, heard, excused, carResets>>

CarInit ==
  /\ TagInit /\ ServiceInit
  /\ link = FALSE /\ heard = 0 /\ authValue = "other" /\ excused = {} /\ carResets = 0

-----------------------------------------------------------------------------
(* The link                                                                 *)

\* Of an earlier connection there may be zone words in bleWriteQueue, an INIT or
\* its announcement in the anchor, or an open car, if onDisconnect could not lock it.
StaysOpen == IF pending = <<>> THEN carUnlocked ELSE Last(pending) = "UNLOCK"
Leftovers ==
  (IF bleWriteQueue # <<>> THEN {"word", "ranging"} ELSE IF StaysOpen THEN {"word"} ELSE {})
    \cup IF "INIT" \in Range(uwbQueue) \/ ranging \in {"init", "notify"} \/ announce > 0
         THEN {"ranging"} ELSE {}
\* An announcement of an earlier connection that finds uwbTask of the tag still busy
\* may make it overlook the end of a connection, and range on in the next one.
TagRanges == tuwb \in {"init", "loop", "range", "send"}
\* An anchor that had nothing to stop it ranges on, and hears no request.
Lingers ==
  (IF TagRanges THEN {"stray"} ELSE {})
    \cup IF ranging = "active" /\ "DEINIT" \notin Range(uwbQueue) THEN {"unheard"} ELSE {}
Connect ==
  /\ TagConnect /\ Accept /\ link' = TRUE
  /\ excused' = Leftovers \cup (excused \cap Lingers)
  /\ UNCHANGED <<heard, authValue, carResets>>

\* Out of range, interference, supervision timeout.
Broken == link' = FALSE /\ excused' = excused \cap {"stray", "unheard"} /\ heard' = 0
LinkBreaks ==
  link /\ Broken /\ UNCHANGED <<tagVars, serviceVars, authValue, carResets>>

TagLearns == ~link /\ TagOnDisconnect /\ TagAlone /\ UNCHANGED link
AnchorLearns == ~link /\ HangUp /\ CarAlone /\ UNCHANGED <<link, authValue>>

\* A restarted end is gone for the other.
TagRestarts ==
  /\ TagReset \/ TagPanic
  /\ Broken /\ UNCHANGED <<serviceVars, authValue, carResets>>
AnchorRestarts ==
  /\ carResets < MaxCarResets /\ carResets' = carResets + 1
  /\ ServiceRestart /\ Broken /\ authValue' = "other"
  /\ UNCHANGED tagVars

-----------------------------------------------------------------------------
(* From the tag to the anchor                                               *)

TagSends(cmd) ==
  \/ cmd = "TAG_UWB_READY" /\ TagRequest
  \/ cmd \in ZoneWords /\ TagWrite(cmd)

\* No LOCK is asked for, since the UNLOCK it should undo is not executed yet.
Overtakes(cmd) ==
  cmd \in {"WARNING", "UWB_STOP"} /\ ~carUnlocked /\ pending # <<>>

Arrives(cmd) ==
  /\ link /\ TagSends(cmd) /\ Hears(cmd)
  /\ excused' = excused \cup (IF Overtakes(cmd) THEN {"word"} ELSE {})
  /\ UNCHANGED <<link, heard, authValue, carResets>>

Vanishes(cmd) == ~link /\ TagSends(cmd) /\ TagAlone /\ UNCHANGED link

ReadsChallenge ==
  /\ link /\ TagChallenge /\ challenge # 0 /\ heard' = challenge
  /\ UNCHANGED <<serviceVars, link, authValue, excused, carResets>>

\* The write puts the response into the characteristic, too.
Responds ==
  /\ link /\ TagRespond /\ Answer(heard) /\ authValue' = "other" /\ heard' = 0
  /\ "queue" \in CarFaults \/ responses' # responses
  /\ UNCHANGED <<link, excused, carResets>>
ResponseVanishes == ~link /\ TagRespond /\ TagAlone /\ UNCHANGED link

\* No AUTH_OK within 2 s: the tag reads the characteristic, or finds the link gone.
ReadsAuthOk ==
  link /\ authValue = "AUTH_OK" /\ TagAuthRead /\ TagAlone /\ UNCHANGED link
TagHangsUp ==
  /\ TagGiveUp \/ (TagAuthFail /\ (link => authValue # "AUTH_OK"))
  /\ Broken /\ UNCHANGED <<serviceVars, authValue, carResets>>

-----------------------------------------------------------------------------
(* From the anchor to the tag                                               *)

\* notify() reaches a tag that has subscribed, so one past connectToServer's start.
Notifies(note) ==
  \/ link /\ TagNotified(note)
  \/ (link => tble = "challenge") /\ UNCHANGED tagVars

\* The notification is not acknowledged: without it the tag reads the value.
AuthOk ==
  /\ Verify /\ authValue' = "AUTH_OK"
  /\ Notifies("AUTH_OK") \/ UNCHANGED tagVars
  /\ UNCHANGED <<link, heard, excused, carResets>>

\* AUTH_FAIL, and 50 ms later the disconnect of whoever is connected.
Kick ==
  /\ Refuse /\ Broken /\ authValue' = "AUTH_FAIL"
  /\ UNCHANGED <<tagVars, carResets>>

\* As unacknowledged as AUTH_OK, but here the tag reads no value instead: it asks again.
Active ==
  /\ Announce
  /\ Notifies("UWB_ACTIVE") \/ UNCHANGED tagVars
  /\ excused' = excused
       \cup (IF tuwb # "wait" /\ events' # events THEN {"stray"} ELSE {})
       \cup (IF link /\ "READY" \notin events' THEN {"unheard"} ELSE {})
  /\ UNCHANGED <<link, heard, authValue, carResets>>

-----------------------------------------------------------------------------
AnchorUnseen == UNCHANGED <<tagVars, link, heard, authValue, carResets>>
\* initUWB of the anchor takes 52 ms or more, deinitUWB of the tag about 3 ms.
DeinitIsOver == tuwb \notin {"far", "deinit", "clear"}
\* BLE_NOTIFY_UWB_ACTIVE finds bleQueue full.
Unannounced == ranging = "notify" /\ ranging' = "active" /\ announce' = announce
AnchorWorks ==
  /\ Draw \/ TakeCommand \/ (DeinitIsOver /\ Start) \/ QueueAnnounce \/ Obey
  /\ "init" \in CarFaults \/ ~(ranging = "init" /\ ranging' = "idle")
  /\ "queue" \in CarFaults \/ ~Unannounced
  /\ "frames" \in CarFaults \/ (door' = "unlocked" <=> carUnlocked')
  /\ excused' = excused \cup (IF Unannounced THEN {"unheard"} ELSE {})
  /\ AnchorUnseen

\* A command finds its queue full, or is forgotten when the SPI bus is not to be had.
AnchorSends ==
  /\ Send /\ AnchorUnseen
  /\ excused' = excused
       \cup (IF cb \in {"unlock", "lock", "stopLock"} /\ pending' = pending THEN {"word"} ELSE {})
       \cup (IF cb = "stop" /\ uwbQueue' = uwbQueue THEN {"ranging"} ELSE {})
       \cup (IF cb = "discDeinit" /\ uwbQueue' = uwbQueue THEN {"unheard"} ELSE {})
AnchorForgets ==
  "bus" \in CarFaults /\ Forget /\ excused' = excused \cup {"word"} /\ AnchorUnseen

TagWorks == (TagBleLocal \/ TagUwbTask) /\ TagAlone /\ UNCHANGED link
TagMoves == \E b \in Places : TagMeasure(b) /\ TagAlone /\ UNCHANGED link

TagTalks ==
  \/ \E cmd \in ZoneWords \cup {"TAG_UWB_READY"} : Arrives(cmd) \/ Vanishes(cmd)
  \/ ReadsChallenge \/ Responds \/ ResponseVanishes \/ ReadsAuthOk

CarNext ==
  \/ Connect \/ LinkBreaks \/ TagLearns \/ AnchorLearns \/ TagRestarts \/ AnchorRestarts
  \/ TagTalks \/ TagHangsUp \/ AuthOk \/ Kick \/ Active
  \/ AnchorWorks \/ AnchorSends \/ AnchorForgets \/ TagWorks \/ TagMoves

CarSpec == CarInit /\ [][CarNext]_carVars

\* The two schedulers run every task that can run and the stacks deliver what is
\* written over a working link.  Nothing is assumed of the link or of the driver.
CarFairness ==
  /\ WF_carVars(TagTalks) /\ WF_carVars(TagBleLocal /\ TagWorks)
  /\ WF_carVars(TagUwbTask /\ TagWorks)
  /\ WF_carVars(AnchorSends) /\ WF_carVars(AnchorWorks) /\ WF_carVars(Active)
CarFairSpec == CarSpec /\ CarFairness

-----------------------------------------------------------------------------
\* Every variable stays in its range, the link is up only between two ends that
\* hold themselves connected, and what the anchor keeps for later is bounded.
CarTypeOK ==
  /\ link \in BOOLEAN /\ heard \in 0..session
  /\ excused \subseteq {"word", "ranging", "stray", "unheard"}
  /\ authValue \in {"other", "AUTH_OK", "AUTH_FAIL"} /\ carResets \in 0..MaxCarResets
  /\ link => connected /\ deviceConnected
  /\ Len(responses) <= session /\ Len(uwbQueue) <= UwbDepth /\ Len(pending) <= CanDepth + 1
  /\ announce \in Nat /\ challenge \in 0..session

\* CharacteristicCallbacks::onWrite does not look at EVT_AUTHED before it unlocks:
\* it relies on the tag, which writes of its zone only after AUTH_OK.  Whatever of
\* an earlier session is still under way, a zone word that arrives finds the anchor
\* authenticated.
ZoneWordsAuthed == [][~authed => \A cmd \in ZoneWords : ~Arrives(cmd)]_carVars

\* The tag never ranges alone: while it measures over a working link the anchor
\* ranges too, and no command that would stop it is under way.
RangesTogether ==
  link /\ TagRanges /\ excused \cap {"ranging", "stray"} = {}
  => /\ ranging = "active" /\ "DEINIT" \notin Range(uwbQueue)
     /\ cb \notin {"stop", "stopLock"} /\ "UWB_STOP" \notin Range(bleWriteQueue)

\* Nothing is under way between the measurement and the doors.
Settled ==
  link /\ tuwb = "loop" /\ bleWriteQueue = <<>> /\ cb = "idle" /\ pending = <<>>

\* The car follows the tag.
CarFollowsTag ==
  Settled /\ ~dropped /\ "word" \notin excused => (carUnlocked => tagInUnlockZone)

\* bleTask asks, uwbTask waits, and no word of the last round is left to be written.
Asks == tble = "request" /\ tuwb = "wait" /\ bleWriteQueue = <<>> /\ ~dropped

\* A tag that asks for ranging gets it: however its requests meet a DEINIT still to
\* be taken, a full queue or a command that is forgotten, it ranges in the end or
\* loses the link, unless something of "ranging", "stray" or "unheard" has happened.
\* That armUWB repeats TAG_UWB_READY "until the anchor confirms" is true no further:
\* once UWB_ACTIVE is lost, the anchor ranges and its uwbTask throws every INIT away.
AskedRanges ==
  Asks ~> (tuwb = "loop" \/ ~link \/ excused \cap {"ranging", "stray", "unheard"} # {})
=============================================================================

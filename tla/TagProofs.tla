------------------------------ MODULE TagProofs ------------------------------
(***************************************************************************)
(* Theorems about Tag, for every length of bleWriteQueue, any number of       *)
(* resets and whatever may fail: its types, that no disconnect is overlooked  *)
(* by uwbTask, that the zone is not remembered beyond ranging, and that the   *)
(* anchor has been told of it.                                              *)
(***************************************************************************)
EXTENDS Tag, TLAPS

(* Types, by the groups of variables the tasks change together.             *)

FlagTypes ==
  /\ connected \in BOOLEAN /\ authenticated \in BOOLEAN /\ uwbStoppedFar \in BOOLEAN
  /\ tagInUnlockZone \in BOOLEAN /\ told \in BOOLEAN /\ dropped \in BOOLEAN
EventTypes == events \subseteq {"READY", "INIT", "STOP"}
PcTypes == tble \in TagBlePcs /\ tuwb \in TagUwbPcs /\ tout \in ZoneWords \cup {"none"}
\* A word is in hand where uwbTask sends it.
WordTypes ==
  /\ bleWriteQueue \in Seq(ZoneWords) /\ Len(bleWriteQueue) <= WriteDepth
  /\ tuwb = "send" => tout \in ZoneWords
CountType == tagResets \in Nat

-----------------------------------------------------------------------------
(* Why no disconnect is overlooked.  EVT_UWB_STOP is cleared in two places,   *)
(* where the next session begins and where a round of ranging ends; neither   *)
(* comes between the disconnect and the round it should stop.               *)

\* An INIT that uwbTask has not seen yet comes with the STOP of a link lost since.
InitStopped == "INIT" \in events /\ tuwb = "wait" /\ ~connected => "STOP" \in events

\* armUWB asks with INIT cleared, so uwbTask stays where UWB_ACTIVE found it.
Arming ==
  /\ tble \in {"request", "await", "set"} => "INIT" \notin events
  /\ tble \in {"request", "await"} /\ "READY" \in events => tuwb = "wait"
  /\ tble = "set" => tuwb = "wait"

\* A link lost between the two lines of armUWB that see READY and set INIT.
LostWhileArming ==
  /\ ~connected => "READY" \notin events
  /\ tble = "set" /\ ~connected => "STOP" \in events

StopInv == StopPending /\ InitStopped /\ Arming /\ LostWhileArming

\* UWB_STOP is the word of a measurement outside the zone.
ZoneInv ==
  /\ ZoneNeedsRanging
  /\ tuwb = "send" /\ tout = "UWB_STOP" => ~tagInUnlockZone

\* What has been told, where uwbTask is: the zone it holds itself in between two rounds,
\* the one it is about to tell, none before ranging begins and after it has ended.
ToldInv ==
  /\ connected => "STOP" \notin events
  /\ ~connected => ~told /\ ~dropped
  /\ connected /\ ~dropped /\ tuwb \in {"loop", "range"} => (tagInUnlockZone <=> told)
  /\ connected /\ ~dropped /\ tuwb = "send" => (tagInUnlockZone <=> tout = "VERIFIED")
  /\ connected /\ ~dropped /\ tuwb \notin {"loop", "range", "send"} => ~told

-----------------------------------------------------------------------------
\* The initial state has the types and the invariants.
LEMMA TagStarts ==
  TagInit => FlagTypes /\ EventTypes /\ PcTypes /\ WordTypes /\ CountType
             /\ StopInv /\ ZoneInv /\ ToldInv
<1> SUFFICES ASSUME TagInit
             PROVE  /\ FlagTypes /\ EventTypes /\ PcTypes /\ WordTypes /\ CountType
                    /\ StopInv /\ ZoneInv /\ ToldInv
  OBVIOUS
<1> USE DEF TagInit, TagBooted
<1>1. FlagTypes /\ EventTypes BY DEF FlagTypes, EventTypes
<1>2. PcTypes BY DEF PcTypes, TagBlePcs, TagUwbPcs
<1>3. WordTypes BY TagConstantsOK, SMT DEF WordTypes
<1>4. CountType BY SMT DEF CountType
<1>5. StopInv
  BY DEF StopInv, StopPending, InitStopped, Arming, LostWhileArming
<1>6. ZoneInv BY DEF ZoneInv, ZoneNeedsRanging
<1>7. ToldInv BY DEF ToldInv
<1> QED BY <1>1, <1>2, <1>3, <1>4, <1>5, <1>6, <1>7

-----------------------------------------------------------------------------
(* The steps of bleTask and of uwbTask in two sets, for most properties are    *)
(* disturbed by few of them.                                                *)

BleSteps ==
  \/ TagChallenge \/ TagGiveUp \/ TagRespond \/ TagAuthRead \/ TagAuthFail \/ TagRequest
  \/ TagAuthed \/ TagArm \/ TagNotArmed \/ TagRetry \/ TagReady \/ TagSetInit
  \/ TagMonitor \/ TagDrained \/ TagStay \/ TagRearm \/ TagCleanup
TakesWrite == \E cmd \in ZoneWords : TagTakeWrite(cmd)
Measures == \E b \in Bands : TagMeasure(b)
Restarts == TagReboot /\ (UNCHANGED tagResets \/ tagResets' = tagResets + 1)
Notified ==
  \E note \in {"AUTH_OK", "AUTH_FAIL", "UWB_ACTIVE"} :
    TagNotified(note) /\ (note = "UWB_ACTIVE" => tuwb = "wait")

LEMMA TagStepCases ==
  ASSUME [TagNext]_tagVars
  PROVE  \/ Restarts \/ TagConnect \/ TagOnDisconnect \/ Notified \/ BleSteps \/ TakesWrite
         \/ TagUwbTask \/ Measures \/ UNCHANGED tagVars
<1>1. CASE TagNotified("AUTH_OK") \/ TagNotified("AUTH_FAIL")
  BY <1>1 DEF Notified
<1>2. CASE tuwb = "wait" /\ TagNotified("UWB_ACTIVE")
  BY <1>2 DEF Notified
<1>3. CASE TagReset \/ TagPanic
  BY <1>3 DEF TagReset, TagPanic, Restarts
<1>4. CASE TagExchange \/ TagBleLocal
  BY <1>4 DEF TagExchange, TagBleLocal, TagWrite, TagThrowAway, BleSteps, TakesWrite
<1>5. CASE TagUwb
  BY <1>5 DEF TagUwb, Measures
<1> QED
  BY <1>1, <1>2, <1>3, <1>4, <1>5 DEF TagNext

\* bleTask changes its own variables, the two bits it arms with, and, when it reads
\* AUTH_OK or arms again, a flag.
LEMMA BleFrame ==
  ASSUME BleSteps
  PROVE  /\ UNCHANGED <<connected, tagUwbVars, tagGhosts, bleWriteQueue>>
         /\ authenticated' \in {authenticated, TRUE}
         /\ uwbStoppedFar' \in {uwbStoppedFar, FALSE}
         /\ tble' \in TagBlePcs
BY DEF BleSteps, TagBleStep, TagBlePcs, TagChallenge, TagGiveUp, TagRespond, TagAuthRead,
       TagAuthFail, TagRequest, TagAuthed, TagArm, TagNotArmed, TagRetry, TagReady,
       TagSetInit, TagMonitor, TagDrained, TagStay, TagRearm, TagCleanup

\* What it does to the bits, where it stands.
LEMMA BleBits ==
  ASSUME BleSteps
  PROVE  \/ tble' \notin {"request", "await", "set"} /\ events' = events
         \/ tble' = "request" /\ events' = events \ {"READY", "INIT"}
         \/ tble' \in {"request", "await"} /\ tble \in {"request", "await"} /\ events' = events
         \/ tble' = "set" /\ tble = "await" /\ "READY" \in events /\ events' = events
         \/ tble' = "monitor" /\ tble = "set" /\ events' = events \cup {"INIT"}
         \/ tble' = "scan" /\ events' = events \ {"READY", "INIT"}
BY DEF BleSteps, TagBleStep, TagChallenge, TagGiveUp, TagRespond, TagAuthRead,
       TagAuthFail, TagRequest, TagAuthed, TagArm, TagNotArmed, TagRetry, TagReady,
       TagSetInit, TagMonitor, TagDrained, TagStay, TagRearm, TagCleanup

\* uwbTask changes nothing of bleTask and of the link; it clears bits and sets none.
LEMMA UwbFrame ==
  ASSUME TagUwbTask \/ Measures
  PROVE  /\ UNCHANGED <<connected, authenticated, tble, tagResets>>
         /\ events' \subseteq events
         /\ "STOP" \in events /\ "STOP" \notin events' => tuwb = "clear"
         /\ tuwb' \in TagUwbPcs
BY DEF TagUwbTask, Measures, TagUwbUnchanged, TagUwbWake, TagUwbInit, TagUwbStop, TagRound,
       TagNoChange, TagSend, TagFar, TagDeinit, TagClear, TagMeasure, TagUwbPcs

\* Where uwbTask goes.
LEMMA UwbPath ==
  ASSUME TagUwbTask \/ Measures
  PROVE  \/ tuwb = "wait" /\ tuwb' = "init" /\ "INIT" \in events /\ events' = events
         \/ tuwb = "init" /\ tuwb' = "loop" /\ events' = events
         \/ tuwb \in {"loop", "range", "send"} /\ tuwb' \in {"loop", "range", "send", "far", "deinit"}
            /\ events' = events
         \/ tuwb = "far" /\ tuwb' = "deinit"
         \/ tuwb = "deinit" /\ tuwb' = "clear" /\ events' = events
         \/ tuwb' = "wait" /\ tuwb # "wait" /\ "INIT" \notin events'
BY DEF TagUwbTask, Measures, TagUwbUnchanged, TagUwbWake, TagUwbInit, TagUwbStop, TagRound,
       TagNoChange, TagSend, TagFar, TagDeinit, TagClear, TagMeasure

-----------------------------------------------------------------------------
(* Types                                                                    *)

\* What restarts and callbacks leave behind.
LEMMA RestartState ==
  ASSUME Restarts
  PROVE  /\ connected' = FALSE /\ authenticated' = FALSE /\ events' = {}
         /\ tagInUnlockZone' = FALSE /\ uwbStoppedFar' = FALSE /\ bleWriteQueue' = <<>>
         /\ tble' = "scan" /\ tuwb' = "wait" /\ tout' = "none"
         /\ told' = FALSE /\ dropped' = FALSE
         /\ tagResets' = tagResets \/ tagResets' = tagResets + 1
BY DEF Restarts, TagReboot

LEMMA FlagStep == FlagTypes /\ [TagNext]_tagVars => FlagTypes'
<1> SUFFICES ASSUME FlagTypes, [TagNext]_tagVars PROVE FlagTypes'
  OBVIOUS
<1> USE DEF FlagTypes
<1>1. CASE Restarts BY <1>1, RestartState
<1>2. CASE TagConnect BY <1>2 DEF TagConnect, tagUwbVars, tagGhosts
<1>3. CASE TagOnDisconnect BY <1>3 DEF TagOnDisconnect
<1>4. CASE Notified BY <1>4 DEF Notified, TagNotified, tagUwbVars, tagGhosts
<1>5. CASE BleSteps BY <1>5, BleFrame DEF tagUwbVars, tagGhosts
<1>6. CASE TakesWrite
  BY <1>6 DEF TakesWrite, TagTakeWrite, TagBleStep, tagUwbVars, tagGhosts
<1>7. CASE TagUwbTask \/ Measures
  BY <1>7 DEF TagUwbTask, Measures, TagUwbUnchanged, TagUwbWake, TagUwbInit, TagUwbStop,
              TagRound, TagNoChange, TagSend, TagFar, TagDeinit, TagClear, TagMeasure
<1>8. CASE UNCHANGED tagVars BY <1>8 DEF tagVars, tagFlags, tagUwbVars, tagGhosts
<1> QED
  BY <1>1, <1>2, <1>3, <1>4, <1>5, <1>6, <1>7, <1>8, TagStepCases

LEMMA EventStep == EventTypes /\ [TagNext]_tagVars => EventTypes'
<1> SUFFICES ASSUME EventTypes, [TagNext]_tagVars PROVE EventTypes'
  OBVIOUS
<1> USE DEF EventTypes
<1>1. CASE Restarts BY <1>1, RestartState
<1>2. CASE TagConnect BY <1>2 DEF TagConnect
<1>3. CASE TagOnDisconnect BY <1>3 DEF TagOnDisconnect
<1>4. CASE Notified BY <1>4 DEF Notified, TagNotified
<1>5. CASE BleSteps BY <1>5, BleBits
<1>6. CASE TakesWrite BY <1>6 DEF TakesWrite, TagTakeWrite
<1>7. CASE TagUwbTask \/ Measures BY <1>7, UwbFrame
<1>8. CASE UNCHANGED tagVars BY <1>8 DEF tagVars
<1> QED
  BY <1>1, <1>2, <1>3, <1>4, <1>5, <1>6, <1>7, <1>8, TagStepCases

LEMMA PcStep == PcTypes /\ [TagNext]_tagVars => PcTypes'
<1> SUFFICES ASSUME PcTypes, [TagNext]_tagVars PROVE PcTypes'
  OBVIOUS
<1> USE DEF PcTypes
<1>1. CASE Restarts BY <1>1, RestartState DEF TagBlePcs, TagUwbPcs
<1>2. CASE TagConnect BY <1>2 DEF TagConnect, TagBlePcs, tagUwbVars
<1>3. CASE TagOnDisconnect BY <1>3 DEF TagOnDisconnect
<1>4. CASE Notified BY <1>4 DEF Notified, TagNotified, tagUwbVars
<1>5. CASE BleSteps BY <1>5, BleFrame DEF tagUwbVars
<1>6. CASE TakesWrite
  BY <1>6 DEF TakesWrite, TagTakeWrite, TagBleStep, tagUwbVars
<1>7. CASE TagUwbTask \/ Measures
  <2>1. tout' \in ZoneWords \cup {"none"}
    BY <1>7 DEF TagUwbTask, Measures, TagUwbWake, TagUwbInit, TagUwbStop, TagRound,
                TagNoChange, TagSend, TagFar, TagDeinit, TagClear, TagMeasure, WordOf,
                Bands, ZoneWords
  <2> QED BY <1>7, <2>1, UwbFrame
<1>8. CASE UNCHANGED tagVars BY <1>8 DEF tagVars, tagUwbVars
<1> QED
  BY <1>1, <1>2, <1>3, <1>4, <1>5, <1>6, <1>7, <1>8, TagStepCases

\* The queue and the word in hand.
LEMMA WordStep == WordTypes /\ [TagNext]_tagVars => WordTypes'
<1> SUFFICES ASSUME WordTypes, [TagNext]_tagVars PROVE WordTypes'
  OBVIOUS
<1> USE DEF WordTypes
<1>1. CASE Restarts BY <1>1, RestartState, TagConstantsOK, SMT
<1>2. ASSUME UNCHANGED <<bleWriteQueue, tuwb, tout>> PROVE WordTypes'
  BY <1>2
<1>3. CASE TakesWrite
  <2>1. UNCHANGED <<tuwb, tout>> /\ bleWriteQueue # <<>> /\ bleWriteQueue' = Tail(bleWriteQueue)
    BY <1>3 DEF TakesWrite, TagTakeWrite, TagBleStep, tagUwbVars
  <2> QED BY <2>1, TagConstantsOK, SMT
<1>4. CASE TagSend
  <2>1. tuwb' # "send" /\ tuwb = "send" BY <1>4 DEF TagSend
  <2>2. CASE Len(bleWriteQueue) < WriteDepth
    <3>1. bleWriteQueue' = Append(bleWriteQueue, tout) BY <1>4, <2>2 DEF TagSend
    <3> QED BY <2>1, <2>2, <3>1, TagConstantsOK, SMT
  <2>3. CASE ~(Len(bleWriteQueue) < WriteDepth)
    <3>1. bleWriteQueue' = bleWriteQueue BY <1>4, <2>3 DEF TagSend
    <3> QED BY <2>1, <3>1
  <2> QED BY <2>2, <2>3
<1>5. CASE Measures
  <2>1. /\ bleWriteQueue' = bleWriteQueue
        /\ tuwb' = "send" => tout' \in ZoneWords
    BY <1>5 DEF Measures, TagMeasure, WordOf, Bands, ZoneWords
  <2> QED BY <2>1
<1>6. CASE TagUwbTask /\ ~TagSend
  <2>1. UNCHANGED <<bleWriteQueue, tout>> /\ tuwb' # "send"
    BY <1>6 DEF TagUwbTask, TagUwbWake, TagUwbInit, TagUwbStop, TagRound, TagNoChange,
                TagFar, TagDeinit, TagClear
  <2> QED BY <2>1
<1>7. CASE TagConnect \/ TagOnDisconnect \/ Notified
  BY <1>2, <1>7 DEF TagConnect, TagOnDisconnect, Notified, TagNotified, tagUwbVars
<1>8. CASE BleSteps BY <1>2, <1>8, BleFrame DEF tagUwbVars
<1>9. CASE UNCHANGED tagVars BY <1>2, <1>9 DEF tagVars, tagUwbVars
<1> QED
  BY <1>1, <1>3, <1>4, <1>5, <1>6, <1>7, <1>8, <1>9, TagStepCases

LEMMA CountStep == CountType /\ [TagNext]_tagVars => CountType'
<1> SUFFICES ASSUME CountType, [TagNext]_tagVars PROVE CountType'
  OBVIOUS
<1> USE DEF CountType
<1>1. CASE Restarts
  <2>1. tagResets' = tagResets \/ tagResets' = tagResets + 1 BY <1>1, RestartState
  <2> QED BY <2>1, SMT
<1>2. CASE TagConnect \/ TagOnDisconnect \/ Notified
  BY <1>2 DEF TagConnect, TagOnDisconnect, Notified, TagNotified, tagGhosts
<1>3. CASE BleSteps BY <1>3, BleFrame DEF tagGhosts
<1>4. CASE TakesWrite BY <1>4 DEF TakesWrite, TagTakeWrite, TagBleStep, tagGhosts
<1>5. CASE TagUwbTask \/ Measures BY <1>5, UwbFrame
<1>6. CASE UNCHANGED tagVars BY <1>6 DEF tagVars, tagGhosts
<1> QED
  BY <1>1, <1>2, <1>3, <1>4, <1>5, <1>6, TagStepCases

\* Every variable of the tag stays in its type, and bleWriteQueue never holds more than
\* WriteDepth words.
THEOREM TagTypeCorrect == TagSpec => []TagTypeOK
<1> DEFINE Types == FlagTypes /\ EventTypes /\ PcTypes /\ WordTypes /\ CountType
<1>1. TagInit => Types BY TagStarts
<1>2. Types /\ [TagNext]_tagVars => Types'
  BY FlagStep, EventStep, PcStep, WordStep, CountStep
<1>3. Types => TagTypeOK
  BY DEF TagTypeOK, FlagTypes, EventTypes, PcTypes, WordTypes, CountType
<1> QED BY <1>1, <1>2, <1>3, PTL DEF TagSpec

-----------------------------------------------------------------------------
(* The stop                                                                 *)

LEMMA StopStep == StopInv /\ [TagNext]_tagVars => StopInv'
<1> SUFFICES ASSUME StopInv, [TagNext]_tagVars PROVE StopInv'
  OBVIOUS
<1> USE DEF StopInv, StopPending, InitStopped, Arming, LostWhileArming
<1>1. CASE Restarts BY <1>1, RestartState
<1>2. CASE TagConnect
  <2>1. connected' = TRUE /\ tble' = "challenge" BY <1>2 DEF TagConnect
  <2> QED BY <2>1
<1>3. CASE TagOnDisconnect
  <2>1. /\ events' = (events \ {"READY", "INIT"}) \cup {"STOP"}
        /\ UNCHANGED <<tble, tuwb>>
    BY <1>3 DEF TagOnDisconnect
  <2> QED BY <2>1
<1>4. CASE Notified
  <2>1. PICK note \in {"AUTH_OK", "AUTH_FAIL", "UWB_ACTIVE"} :
          TagNotified(note) /\ (note = "UWB_ACTIVE" => tuwb = "wait")
    BY <1>4 DEF Notified
  <2>2. connected' = connected /\ connected /\ UNCHANGED <<tble, tuwb>>
    BY <2>1 DEF TagNotified, tagUwbVars
  <2>3. \/ events' = events
        \/ events' = events \cup {"READY"} /\ tuwb = "wait"
    BY <2>1 DEF TagNotified
  <2> QED BY <2>2, <2>3
<1>5. CASE BleSteps
  <2>1. UNCHANGED <<connected, tuwb>> BY <1>5, BleFrame DEF tagUwbVars
  <2>2. CASE tble' \notin {"request", "await", "set"} /\ events' = events
    BY <2>1, <2>2
  <2>3. CASE events' = events \ {"READY", "INIT"} /\ tble' \in {"request", "scan"}
    BY <2>1, <2>3
  <2>4. CASE tble' \in {"request", "await"} /\ tble \in {"request", "await"} /\ events' = events
    BY <2>1, <2>4
  <2>5. CASE tble' = "set" /\ tble = "await" /\ "READY" \in events /\ events' = events
    BY <2>1, <2>5
  <2>6. CASE tble' = "monitor" /\ tble = "set" /\ events' = events \cup {"INIT"}
    BY <2>1, <2>6
  <2> QED BY <1>5, <2>2, <2>3, <2>4, <2>5, <2>6, BleBits
<1>6. CASE TakesWrite
  BY <1>6 DEF TakesWrite, TagTakeWrite, TagBleStep, tagUwbVars
<1>7. CASE TagUwbTask \/ Measures
  <2>1. /\ UNCHANGED <<connected, tble>> /\ events' \subseteq events
        /\ "STOP" \in events /\ "STOP" \notin events' => tuwb = "clear"
    BY <1>7, UwbFrame
  <2>2. CASE tuwb = "wait" /\ tuwb' = "init" /\ "INIT" \in events /\ events' = events
    BY <2>1, <2>2
  <2>3. CASE tuwb = "init" /\ tuwb' = "loop" /\ events' = events
    BY <2>1, <2>3
  <2>4. CASE /\ tuwb \in {"loop", "range", "send"}
             /\ tuwb' \in {"loop", "range", "send", "far", "deinit"} /\ events' = events
    BY <2>1, <2>4
  <2>5. CASE tuwb = "far" /\ tuwb' = "deinit"
    BY <2>1, <2>5
  <2>6. CASE tuwb = "deinit" /\ tuwb' = "clear" /\ events' = events
    BY <2>1, <2>6
  <2>7. CASE tuwb' = "wait" /\ tuwb # "wait" /\ "INIT" \notin events'
    BY <2>1, <2>7
  <2> QED BY <1>7, <2>2, <2>3, <2>4, <2>5, <2>6, <2>7, UwbPath
<1>8. CASE UNCHANGED tagVars BY <1>8 DEF tagVars, tagFlags, tagUwbVars
<1> QED
  BY <1>1, <1>2, <1>3, <1>4, <1>5, <1>6, <1>7, <1>8, TagStepCases

\* A lost link ends ranging: uwbTask finds EVT_UWB_STOP wherever the disconnect catches it.
THEOREM StopNeverOverlooked == TagSpec => []StopPending
<1>1. TagInit => StopInv BY TagStarts
<1>2. StopInv => StopPending BY DEF StopInv
<1> QED BY <1>1, <1>2, StopStep, PTL DEF TagSpec

-----------------------------------------------------------------------------
(* The zone                                                                 *)

LEMMA ZoneStep == ZoneInv /\ [TagNext]_tagVars => ZoneInv'
<1> SUFFICES ASSUME ZoneInv, [TagNext]_tagVars PROVE ZoneInv'
  OBVIOUS
<1> USE DEF ZoneInv, ZoneNeedsRanging
<1>1. CASE Restarts BY <1>1, RestartState
<1>2. CASE TagOnDisconnect BY <1>2 DEF TagOnDisconnect
<1>3. CASE TagConnect \/ Notified
  BY <1>3 DEF TagConnect, Notified, TagNotified, tagUwbVars
<1>4. CASE BleSteps BY <1>4, BleFrame DEF tagUwbVars
<1>5. CASE TakesWrite
  BY <1>5 DEF TakesWrite, TagTakeWrite, TagBleStep, tagUwbVars
<1>6. CASE Measures
  BY <1>6 DEF Measures, TagMeasure, WordOf, Bands
<1>7. CASE TagUwbTask
  BY <1>7 DEF TagUwbTask, TagUwbWake, TagUwbInit, TagUwbStop, TagRound, TagNoChange, TagSend,
              TagFar, TagDeinit, TagClear
<1>8. CASE UNCHANGED tagVars BY <1>8 DEF tagVars, tagUwbVars
<1> QED
  BY <1>1, <1>2, <1>3, <1>4, <1>5, <1>6, <1>7, <1>8, TagStepCases

\* The zone is not remembered beyond ranging.
THEOREM ZoneForgotten == TagSpec => []ZoneNeedsRanging
<1>1. TagInit => ZoneInv BY TagStarts
<1>2. ZoneInv => ZoneNeedsRanging BY DEF ZoneInv
<1> QED BY <1>1, <1>2, ZoneStep, PTL DEF TagSpec

-----------------------------------------------------------------------------
(* What the anchor has been told                                            *)

LEMMA ToldStep ==
  FlagTypes /\ PcTypes /\ WordTypes /\ StopInv /\ ZoneInv /\ ToldInv /\ [TagNext]_tagVars
  => ToldInv'
<1> SUFFICES ASSUME FlagTypes, PcTypes, WordTypes, StopInv, ZoneInv, ToldInv,
                    [TagNext]_tagVars
             PROVE  ToldInv'
  OBVIOUS
<1> USE DEF ToldInv
<1>1. CASE Restarts BY <1>1, RestartState
<1>2. CASE TagConnect
  <2>1. tuwb \notin {"init", "loop", "range", "send"}
    BY <1>2 DEF TagConnect, StopSeen, StopInv, StopPending
  <2>2. ~connected /\ connected' = TRUE /\ events' = events \ {"STOP"} /\ UNCHANGED <<tuwb, told>>
    BY <1>2 DEF TagConnect, tagUwbVars, tagGhosts
  <2> QED BY <2>1, <2>2
<1>3. CASE TagOnDisconnect
  BY <1>3 DEF TagOnDisconnect
<1>4. CASE Notified
  <2>1. /\ events' \in {events, events \cup {"READY"}}
        /\ UNCHANGED <<connected, tuwb, tout, tagInUnlockZone, told, dropped>>
    BY <1>4 DEF Notified, TagNotified, tagUwbVars, tagGhosts
  <2> QED BY <2>1
<1>5. CASE BleSteps
  <2>1. "STOP" \in events' => "STOP" \in events BY <1>5, BleBits
  <2>2. UNCHANGED <<connected, tuwb, tout, tagInUnlockZone, told, dropped>>
    BY <1>5, BleFrame DEF tagUwbVars, tagGhosts
  <2> QED BY <2>1, <2>2
<1>6. CASE TakesWrite
  BY <1>6 DEF TakesWrite, TagTakeWrite, TagBleStep, tagUwbVars, tagGhosts
<1>7. CASE Measures
  <2>1. PICK b \in Bands : TagMeasure(b) BY <1>7 DEF Measures
  <2>2. /\ tuwb = "range" /\ tagInUnlockZone' = (b = "near")
        /\ UNCHANGED <<connected, told, dropped, events>>
        /\ connected => tuwb' = "send" /\ (tout' = "VERIFIED" <=> b = "near")
    BY <2>1 DEF TagMeasure, WordOf, Bands, TagUwbUnchanged
  <2> QED BY <2>2
<1>8. CASE TagSend
  <2>1. /\ tuwb = "send" /\ tuwb' = (IF tout = "UWB_STOP" THEN "far" ELSE "loop")
        /\ UNCHANGED <<connected, events, tagInUnlockZone>>
    BY <1>8 DEF TagSend, TagUwbUnchanged
  <2>2. \/ dropped' = dropped /\ told' = (connected /\ tout = "VERIFIED")
        \/ dropped' = connected /\ told' = told
    BY <1>8 DEF TagSend
  <2> QED BY <2>1, <2>2 DEF FlagTypes
<1>9. CASE TagUwbTask /\ ~TagSend
  <2>1. UNCHANGED <<connected, told, dropped>>
    BY <1>9 DEF TagUwbTask, TagUwbUnchanged, TagUwbWake, TagUwbInit, TagUwbStop, TagRound,
                TagNoChange, TagFar, TagDeinit, TagClear
  <2>2. events' \subseteq events BY <1>9, UwbFrame
  <2>3. \/ tuwb = "init" /\ tuwb' = "loop" /\ tagInUnlockZone' = tagInUnlockZone
        \/ tuwb = "loop" /\ "STOP" \in events /\ tuwb' = "deinit"
        \/ tuwb \in {"loop", "range"} /\ tuwb' \in {"loop", "range"}
             /\ tagInUnlockZone' = tagInUnlockZone
        \/ /\ tuwb \in {"wait", "init", "far", "deinit", "clear"}
           /\ tuwb' \notin {"loop", "range", "send"}
    BY <1>9 DEF TagUwbTask, TagUwbWake, TagUwbInit, TagUwbStop, TagRound, TagNoChange, TagFar,
                TagDeinit, TagClear
  <2>4. tuwb = "init" => ~tagInUnlockZone BY DEF ZoneInv, ZoneNeedsRanging
  <2> QED BY <2>1, <2>2, <2>3, <2>4 DEF FlagTypes
<1>10. CASE UNCHANGED tagVars BY <1>10 DEF tagVars, tagFlags, tagUwbVars, tagGhosts
<1> QED
  BY <1>1, <1>2, <1>3, <1>4, <1>5, <1>6, <1>7, <1>8, <1>9, <1>10, TagStepCases

\* The anchor has been told of every change of the zone, unless bleWriteQueue was full.
THEOREM ZoneAlwaysTold == TagSpec => []ZoneTold
<1> DEFINE Inv == FlagTypes /\ PcTypes /\ WordTypes /\ StopInv /\ ZoneInv /\ ToldInv
<1>1. TagInit => Inv BY TagStarts
<1>2. Inv /\ [TagNext]_tagVars => Inv'
  BY FlagStep, PcStep, WordStep, StopStep, ZoneStep, ToldStep
<1>3. Inv => ZoneTold BY DEF ToldInv, ZoneTold
<1> QED BY <1>1, <1>2, <1>3, PTL DEF TagSpec
=============================================================================

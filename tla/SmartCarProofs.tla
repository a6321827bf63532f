--------------------------- MODULE SmartCarProofs ---------------------------
(***************************************************************************)
(* Theorems about SmartCarAccess, for queues of every length, any number of  *)
(* connections and restarts and whatever may fail: its types; the anchor     *)
(* hears of the zone only while it holds its central authenticated; the tag  *)
(* never ranges alone; and the car follows the tag.                         *)
(***************************************************************************)
EXTENDS SmartCarAccess, TagProofs

\* bleTask is past connectToServer, which it leaves by way of AUTH_OK only.
PastAuth == {"arm", "request", "await", "set", "monitor", "drain", "check", "cleanup"}

\* Both ends know of a link that is up.
LinkKnown == link => connected /\ deviceConnected
\* onDisconnect forgets the authentication.
AuthForgotten == authenticated => connected
\* What the tag takes for its authentication comes from this connection: the flag,
\* and the value that the response has overwritten since.
AuthCurrent ==
  /\ link /\ (authenticated \/ tble \in PastAuth) => authed
  /\ link /\ tble = "auth" /\ authValue = "AUTH_OK" => authed
AuthInv == LinkKnown /\ AuthForgotten /\ AuthCurrent

-----------------------------------------------------------------------------
(* The steps, by what they do to the authentication.                        *)

\* The steps that leave the tag's side of it alone, or lead bleTask from the flag to armUWB.
TagKeeps ==
  /\ UNCHANGED <<connected, authenticated>>
  /\ tble' = "auth" => tble = "auth"
  /\ tble' \in PastAuth => tble \in PastAuth \/ (tble = "auth" /\ authenticated)

LEMMA LocalKeeps == TagBleLocal \/ TagUwbTask => TagKeeps
<1>1. TagBleLocal => TagKeeps
  BY DEF TagBleLocal, TagKeeps, PastAuth, TagBleStep, TagAuthed, TagArm, TagNotArmed, TagRetry,
         TagReady, TagSetInit, TagMonitor, TagThrowAway, TagTakeWrite, TagDrained, TagStay,
         TagRearm, TagCleanup
<1>2. TagUwbTask => TagKeeps
  BY DEF TagUwbTask, TagKeeps, TagUwbUnchanged, TagUwbWake, TagUwbInit, TagUwbStop, TagRound,
         TagNoChange, TagSend, TagFar, TagDeinit, TagClear
<1> QED BY <1>1, <1>2

LEMMA MeasureKeeps == ASSUME NEW b, TagMeasure(b) PROVE TagKeeps
BY DEF TagMeasure, TagKeeps, TagUwbUnchanged

LEMMA SendsKeep ==
  ASSUME NEW cmd \in ZoneWords \cup {"TAG_UWB_READY"}, TagSends(cmd)
  PROVE  TagKeeps
BY DEF TagSends, TagKeeps, PastAuth, TagRequest, TagWrite, TagTakeWrite, TagBleStep

\* The steps of the anchor that leave deviceConnected and authed alone.
LEMMA AnchorKeeps ==
  ServiceInternal \/ Forget \/ Announce \/ Refuse => UNCHANGED <<deviceConnected, authed>>
<1>1. Draw \/ TakeCommand \/ Start \/ QueueAnnounce \/ Announce \/ Refuse
      => UNCHANGED <<deviceConnected, authed>>
  BY DEF Draw, TakeCommand, Start, QueueAnnounce, Announce, Refuse, sessionVars
<1>2. Obey \/ Forget => UNCHANGED <<deviceConnected, authed>>
  BY DEF Obey, Forget, sessionVars
<1>3. Send => UNCHANGED <<deviceConnected, authed>>
  BY DEF Send, Skip, AskDoor, AskRanging, sessionVars
<1> QED BY <1>1, <1>2, <1>3 DEF ServiceInternal

-----------------------------------------------------------------------------
LEMMA AuthInit == CarInit => AuthInv
BY DEF CarInit, TagInit, TagBooted, ServiceInit, AuthInv, LinkKnown, AuthForgotten, AuthCurrent,
       PastAuth

\* A step that keeps what the tag knows, and takes nothing from the anchor.
LEMMA KeepStep ==
  AuthInv /\ TagKeeps /\ UNCHANGED <<link, authValue, deviceConnected, authed>> => AuthInv'
BY DEF AuthInv, TagKeeps, LinkKnown, AuthForgotten, AuthCurrent, PastAuth

LEMMA AuthStep == AuthInv /\ [CarNext]_carVars => AuthInv'
<1> SUFFICES ASSUME AuthInv, [CarNext]_carVars PROVE AuthInv'
  OBVIOUS
<1> USE DEF AuthInv, LinkKnown, AuthForgotten, AuthCurrent
<1>1. CASE Connect
  BY <1>1 DEF Connect, TagConnect, Accept, PastAuth
<1>2. CASE LinkBreaks \/ TagHangsUp
  <2>1. ~link' /\ connected' = connected /\ authenticated' = authenticated
    BY <1>2 DEF LinkBreaks, TagHangsUp, Broken, TagGiveUp, TagAuthFail, TagBleStep, tagVars, tagFlags
  <2> QED BY <2>1
<1>3. CASE TagLearns BY <1>3 DEF TagLearns, TagOnDisconnect
<1>4. CASE AnchorLearns
  BY <1>4 DEF AnchorLearns, CarAlone, tagVars, tagFlags
<1>5. CASE TagRestarts
  BY <1>5 DEF TagRestarts, TagReset, TagPanic, TagReboot, Broken
<1>6. CASE AnchorRestarts \/ Kick
  BY <1>6 DEF AnchorRestarts, Kick, Broken, tagVars, tagFlags
<1>7. CASE \E cmd \in ZoneWords \cup {"TAG_UWB_READY"} : Arrives(cmd) \/ Vanishes(cmd)
  <2>1. PICK cmd \in ZoneWords \cup {"TAG_UWB_READY"} : Arrives(cmd) \/ Vanishes(cmd)
    BY <1>7
  <2>2. TagKeeps BY <2>1, SendsKeep DEF Arrives, Vanishes
  <2>3. UNCHANGED <<link, authValue, deviceConnected, authed>>
    BY <2>1 DEF Arrives, Vanishes, TagAlone, Hears, serviceVars, sessionVars
  <2> QED BY <2>2, <2>3, KeepStep
<1>8. CASE ReadsChallenge \/ ResponseVanishes
  BY <1>8 DEF ReadsChallenge, ResponseVanishes, TagChallenge, TagRespond, TagBleStep, TagAlone,
              serviceVars, sessionVars, PastAuth
<1>9. CASE Responds
  <2>1. UNCHANGED <<link, connected, authenticated>> /\ tble' = "auth" /\ authValue' = "other"
    BY <1>9 DEF Responds, TagRespond, TagBleStep
  <2>2. UNCHANGED <<deviceConnected, authed>>
    BY <1>9 DEF Responds, Answer
  <2> QED BY <2>1, <2>2 DEF PastAuth
<1>10. CASE ReadsAuthOk
  BY <1>10 DEF ReadsAuthOk, TagAuthRead, TagBleStep, TagAlone, serviceVars, sessionVars, PastAuth
<1>11. CASE AuthOk
  <2>1. authed' = TRUE /\ UNCHANGED <<link, deviceConnected>> BY <1>11 DEF AuthOk, Verify
  <2>2. connected' = connected /\ (authenticated' => connected)
    BY <1>11 DEF AuthOk, Notifies, TagNotified, tagVars, tagFlags
  <2> QED BY <2>1, <2>2
<1>12. CASE Active
  <2>1. UNCHANGED <<link, authValue, deviceConnected, authed>>
    BY <1>12, AnchorKeeps DEF Active
  <2>2. TagKeeps
    BY <1>12 DEF Active, Notifies, TagNotified, TagKeeps, tagVars, tagFlags
  <2> QED BY <2>1, <2>2, KeepStep
<1>13. CASE AnchorWorks \/ AnchorSends \/ AnchorForgets
  <2>1. UNCHANGED <<deviceConnected, authed>>
    BY <1>13, AnchorKeeps DEF AnchorWorks, AnchorSends, AnchorForgets, ServiceInternal
  <2>2. UNCHANGED <<tagVars, link, authValue>>
    BY <1>13 DEF AnchorWorks, AnchorSends, AnchorForgets, AnchorUnseen
  <2> QED BY <2>1, <2>2 DEF tagVars, tagFlags
<1>14. CASE TagWorks
  BY <1>14, LocalKeeps, KeepStep DEF TagWorks, TagAlone, serviceVars, sessionVars
<1>15. CASE TagMoves
  <2>1. PICK b \in Places : TagMeasure(b) /\ TagAlone /\ UNCHANGED link
    BY <1>15 DEF TagMoves
  <2>2. TagKeeps BY <2>1, MeasureKeeps
  <2> QED BY <2>1, <2>2, KeepStep DEF TagAlone, serviceVars, sessionVars
<1>16. CASE UNCHANGED carVars
  BY <1>16 DEF carVars, tagVars, tagFlags, serviceVars, sessionVars
<1> QED
  BY <1>1, <1>2, <1>3, <1>4, <1>5, <1>6, <1>7, <1>8, <1>9, <1>10, <1>11, <1>12, <1>13, <1>14,
     <1>15, <1>16 DEF CarNext, TagTalks

\* No word of the zone reaches the callback of an anchor that has not authenticated its
\* central, although that callback does not ask.
THEOREM OnlyAuthedOpens == CarSpec => ZoneWordsAuthed
<1>1. AuthInv => (~authed => \A cmd \in ZoneWords : ~Arrives(cmd))
  BY DEF AuthInv, AuthCurrent, PastAuth, Arrives, TagSends, TagWrite, TagTakeWrite, TagBleStep,
         TagRequest
<1>2. CarInit => AuthInv BY AuthInit
<1>3. AuthInv /\ [CarNext]_carVars => AuthInv' BY AuthStep
<1> QED BY <1>1, <1>2, <1>3, PTL DEF CarSpec, ZoneWordsAuthed
-----------------------------------------------------------------------------
(* The two sides of a step                                                  *)

\* A UWB_ACTIVE that finds uwbTask of the tag busy.
LateActive == TagNotified("UWB_ACTIVE") /\ "stray" \in excused'

\* What the tag does together with the car it also does alone, but for that one.
LEMMA TagSide == [CarNext]_carVars => [TagNext]_tagVars \/ LateActive
<1> SUFFICES ASSUME [CarNext]_carVars PROVE [TagNext]_tagVars \/ LateActive
  OBVIOUS
<1> USE DEF TagNext, TagExchange
<1>1. CASE Connect BY <1>1 DEF Connect
<1>2. CASE LinkBreaks BY <1>2 DEF LinkBreaks
<1>3. CASE TagLearns BY <1>3 DEF TagLearns
<1>4. CASE AnchorLearns BY <1>4 DEF AnchorLearns, CarAlone
<1>5. CASE TagRestarts BY <1>5 DEF TagRestarts
<1>6. CASE AnchorRestarts \/ Kick BY <1>6 DEF AnchorRestarts, Kick
<1>7. CASE \E cmd \in ZoneWords \cup {"TAG_UWB_READY"} : Arrives(cmd) \/ Vanishes(cmd)
  BY <1>7 DEF Arrives, Vanishes, TagSends
<1>8. CASE ReadsChallenge \/ ResponseVanishes \/ Responds \/ ReadsAuthOk
  BY <1>8 DEF ReadsChallenge, ResponseVanishes, Responds, ReadsAuthOk
<1>9. CASE TagHangsUp BY <1>9 DEF TagHangsUp
<1>10. CASE AuthOk BY <1>10 DEF AuthOk, Notifies
<1>11. CASE Active
  <2>1. TagNotified("UWB_ACTIVE") \/ UNCHANGED tagVars BY <1>11 DEF Active, Notifies
  <2>2. CASE TagNotified("UWB_ACTIVE") /\ tuwb # "wait" /\ events' # events
    BY <1>11, <2>2 DEF Active, LateActive
  <2>3. CASE TagNotified("UWB_ACTIVE") /\ events' = events
    BY <2>3 DEF TagNotified, tagVars, tagFlags
  <2> QED BY <2>1, <2>2, <2>3
<1>12. CASE AnchorWorks \/ AnchorSends \/ AnchorForgets
  BY <1>12 DEF AnchorWorks, AnchorSends, AnchorForgets, AnchorUnseen
<1>13. CASE TagWorks BY <1>13 DEF TagWorks, TagUwb
<1>14. CASE TagMoves
  BY <1>14, CarConstantsOK DEF TagMoves, TagUwb
<1>15. CASE UNCHANGED carVars BY <1>15 DEF carVars
<1> QED
  BY <1>1, <1>2, <1>3, <1>4, <1>5, <1>6, <1>7, <1>8, <1>9, <1>10, <1>11, <1>12, <1>13, <1>14,
     <1>15 DEF CarNext, TagTalks

\* By the sets of TagProofs; a tag that restarts or learns of the lost link has none.
LEMMA TagSideCases ==
  [CarNext]_carVars =>
    \/ Connect \/ (~link' /\ (Restarts \/ TagOnDisconnect))
    \/ Notified \/ BleSteps \/ TakesWrite \/ TagUwbTask \/ Measures
    \/ LateActive \/ UNCHANGED tagVars
<1> DEFINE Cases == \/ Connect \/ (~link' /\ (Restarts \/ TagOnDisconnect))
                    \/ Notified \/ BleSteps \/ TakesWrite \/ TagUwbTask \/ Measures
                    \/ LateActive \/ UNCHANGED tagVars
<1> SUFFICES ASSUME [CarNext]_carVars PROVE Cases
  OBVIOUS
<1>0. CASE Connect BY <1>0
<1>1. CASE TagLearns BY <1>1 DEF TagLearns
<1>2. CASE TagRestarts
  BY <1>2 DEF TagRestarts, TagReset, TagPanic, Restarts, Broken
<1>3. CASE \E cmd \in ZoneWords \cup {"TAG_UWB_READY"} : Arrives(cmd) \/ Vanishes(cmd)
  BY <1>3 DEF Arrives, Vanishes, TagSends, TagWrite, TakesWrite, BleSteps
<1>4. CASE ReadsChallenge \/ ResponseVanishes \/ Responds \/ ReadsAuthOk \/ TagHangsUp
  BY <1>4 DEF ReadsChallenge, ResponseVanishes, Responds, ReadsAuthOk, TagHangsUp, BleSteps
<1>5. CASE AuthOk BY <1>5 DEF AuthOk, Notifies, Notified
<1>6. CASE Active
  <2>1. TagNotified("UWB_ACTIVE") \/ UNCHANGED tagVars BY <1>6 DEF Active, Notifies
  <2>2. CASE TagNotified("UWB_ACTIVE") /\ tuwb # "wait" /\ events' # events
    BY <1>6, <2>2 DEF Active, LateActive
  <2>3. CASE TagNotified("UWB_ACTIVE") /\ tuwb = "wait" BY <2>3 DEF Notified
  <2>4. CASE TagNotified("UWB_ACTIVE") /\ events' = events
    BY <2>4 DEF TagNotified, tagVars, tagFlags
  <2> QED BY <2>1, <2>2, <2>3, <2>4
<1>7. CASE LinkBreaks \/ AnchorLearns \/ AnchorRestarts \/ Kick
  BY <1>7 DEF LinkBreaks, AnchorLearns, CarAlone, AnchorRestarts, Kick
<1>8. CASE AnchorWorks \/ AnchorSends \/ AnchorForgets
  BY <1>8 DEF AnchorWorks, AnchorSends, AnchorForgets, AnchorUnseen
<1>9. CASE TagWorks
  BY <1>9 DEF TagWorks, TagBleLocal, TagThrowAway, BleSteps, TakesWrite
<1>10. CASE TagMoves BY <1>10, CarConstantsOK DEF TagMoves, Measures
<1>11. CASE UNCHANGED carVars BY <1>11 DEF carVars
<1> HIDE DEF Cases
<1> QED
  BY <1>0, <1>1, <1>2, <1>3, <1>4, <1>5, <1>6, <1>7, <1>8, <1>9, <1>10, <1>11 DEF CarNext, TagTalks

\* What the anchor does is a step of the service.
LEMMA AnchorSide ==
  [CarNext]_carVars =>
    \/ Accept \/ HangUp \/ ServiceRestart \/ ServiceInternal \/ Answer(heard)
    \/ \E cmd \in ZoneWords \cup {"TAG_UWB_READY"} : Hears(cmd)
    \/ Verify \/ Refuse \/ Announce \/ UNCHANGED serviceVars
<1> SUFFICES ASSUME [CarNext]_carVars
             PROVE  \/ Accept \/ HangUp \/ ServiceRestart \/ ServiceInternal \/ Answer(heard)
                    \/ \E cmd \in ZoneWords \cup {"TAG_UWB_READY"} : Hears(cmd)
                    \/ Verify \/ Refuse \/ Announce \/ UNCHANGED serviceVars
  OBVIOUS
<1>1. CASE Connect \/ LinkBreaks \/ AnchorLearns \/ TagRestarts \/ AnchorRestarts
  BY <1>1 DEF Connect, LinkBreaks, AnchorLearns, TagRestarts, AnchorRestarts
<1>2. CASE TagLearns \/ ReadsChallenge \/ ResponseVanishes \/ ReadsAuthOk \/ TagHangsUp
  BY <1>2 DEF TagLearns, ReadsChallenge, ResponseVanishes, ReadsAuthOk, TagHangsUp, TagAlone
<1>3. CASE \E cmd \in ZoneWords \cup {"TAG_UWB_READY"} : Arrives(cmd) \/ Vanishes(cmd)
  BY <1>3 DEF Arrives, Vanishes, TagAlone
<1>4. CASE Responds \/ AuthOk \/ Kick \/ Active
  BY <1>4 DEF Responds, AuthOk, Kick, Active
<1>5. CASE AnchorWorks \/ AnchorSends \/ AnchorForgets
  BY <1>5 DEF AnchorWorks, AnchorSends, AnchorForgets, ServiceInternal
<1>6. CASE TagWorks \/ TagMoves BY <1>6 DEF TagWorks, TagMoves, TagAlone
<1>7. CASE UNCHANGED carVars BY <1>7 DEF carVars
<1> QED
  BY <1>1, <1>2, <1>3, <1>4, <1>5, <1>6, <1>7 DEF CarNext, TagTalks

-----------------------------------------------------------------------------
(* Types                                                                    *)

TagTypes == FlagTypes /\ EventTypes /\ PcTypes /\ WordTypes

LEMMA TagTypesStep == TagTypes /\ [CarNext]_carVars => TagTypes'
<1>1. TagTypes /\ [TagNext]_tagVars => TagTypes'
  BY FlagStep, EventStep, PcStep, WordStep DEF TagTypes
<1>2. TagTypes /\ LateActive => TagTypes'
  BY DEF LateActive, TagNotified, TagTypes, FlagTypes, EventTypes, PcTypes, WordTypes,
         tagUwbVars, tagGhosts
<1> QED BY <1>1, <1>2, TagSide

UwbCommands == {"INIT", "DEINIT"}
DoorCommands == {"LOCK", "UNLOCK"}

\* What the anchor keeps for uwbTask and canTask.
QueueTypes ==
  /\ uwbQueue \in Seq(UwbCommands) /\ Len(uwbQueue) <= UwbDepth /\ announce \in Nat
  /\ pending \in Seq(DoorCommands) /\ Len(pending) <= CanDepth + 1

LEMMA QueueTypesStep == QueueTypes /\ [CarNext]_carVars => QueueTypes'
<1> SUFFICES ASSUME QueueTypes, [CarNext]_carVars PROVE QueueTypes'
  OBVIOUS
<1> USE DEF QueueTypes
<1>1. ASSUME UNCHANGED <<uwbQueue, announce, pending>> PROVE QueueTypes'
  BY <1>1
<1>2. CASE \/ Accept \/ HangUp \/ Answer(heard) \/ Verify \/ Refuse \/ Draw \/ Start
           \/ \E cmd \in ZoneWords \cup {"TAG_UWB_READY"} : Hears(cmd)
  BY <1>1, <1>2 DEF Accept, HangUp, Answer, Verify, Refuse, Draw, Start, Hears, rangingVars,
                    doorVars
<1>3. CASE ServiceRestart
  <2>1. uwbQueue' = <<>> /\ announce' = 0 /\ pending' = <<>>
    BY <1>3 DEF ServiceRestart
  <2> QED BY <2>1, CarConstantsOK, SMT
<1>4. CASE TakeCommand
  <2>1. uwbQueue # <<>> /\ uwbQueue' = Tail(uwbQueue) /\ UNCHANGED <<announce, pending>>
    BY <1>4 DEF TakeCommand, doorVars
  <2> QED BY <2>1, CarConstantsOK, SMT
<1>5. CASE QueueAnnounce \/ Announce
  <2>1. announce' \in {announce, announce + 1} \/ (announce > 0 /\ announce' = announce - 1)
    BY <1>5 DEF QueueAnnounce, Announce
  <2>2. UNCHANGED <<uwbQueue, pending>>
    BY <1>5 DEF QueueAnnounce, Announce, doorVars
  <2> QED BY <2>1, <2>2
<1>6. CASE Obey \/ Forget
  <2>1. pending # <<>> /\ pending' = Tail(pending) /\ UNCHANGED <<uwbQueue, announce>>
    BY <1>6 DEF Obey, Forget, Lock!Execute, Lock!Lose, rangingVars
  <2> QED BY <2>1, CarConstantsOK, SMT
<1>7. CASE Send
  <2>1. CASE Skip("challenge", "idle") \/ Skip("discAdv", "idle")
    BY <1>1, <2>1 DEF Skip, rangingVars, doorVars
  <2>2. ASSUME NEW from, NEW cmd \in DoorCommands, NEW to, AskDoor(from, cmd, to)
        PROVE  QueueTypes'
    <3>1. \/ Len(pending) <= CanDepth /\ pending' = Append(pending, cmd)
          \/ pending' = pending
      BY <2>2 DEF AskDoor, Lock!Ask
    <3>2. UNCHANGED <<uwbQueue, announce>> BY <2>2 DEF AskDoor, rangingVars
    <3> QED BY <3>1, <3>2, CarConstantsOK, SMT
  <2>3. ASSUME NEW from, NEW cmd \in UwbCommands, NEW to, AskRanging(from, cmd, to)
        PROVE  QueueTypes'
    <3>1. \/ Len(uwbQueue) < UwbDepth /\ uwbQueue' = Append(uwbQueue, cmd)
          \/ uwbQueue' = uwbQueue
      BY <2>3 DEF AskRanging
    <3>2. UNCHANGED <<pending, announce>> BY <2>3 DEF AskRanging, doorVars
    <3> QED BY <3>1, <3>2, CarConstantsOK, SMT
  <2> QED BY <1>7, <2>1, <2>2, <2>3 DEF Send, UwbCommands, DoorCommands
<1>8. CASE UNCHANGED serviceVars
  BY <1>1, <1>8 DEF serviceVars, rangingVars, doorVars
<1> QED
  BY <1>2, <1>3, <1>4, <1>5, <1>6, <1>7, <1>8, AnchorSide DEF ServiceInternal

\* The sessions are counted, and each leads to one response at most.
Owing == tble \in {"challenge", "respond"}
Owed == IF Owing THEN 1 ELSE 0
SessionTypes ==
  /\ session \in Nat /\ challenge \in 0..session /\ heard \in 0..session
  /\ responses \in Seq(Int) /\ Len(responses) + Owed <= session

LEMMA OwesNoMore == [CarNext]_carVars => Connect \/ (Owing' => Owing)
<1>1. BleSteps => (Owing' => Owing)
  BY DEF BleSteps, TagBleStep, Owing, TagChallenge, TagGiveUp, TagRespond, TagAuthRead,
         TagAuthFail, TagRequest, TagAuthed, TagArm, TagNotArmed, TagRetry, TagReady,
         TagSetInit, TagMonitor, TagDrained, TagStay, TagRearm, TagCleanup
<1>2. TakesWrite \/ Notified \/ LateActive \/ UNCHANGED tagVars => (Owing' => Owing)
  BY DEF TakesWrite, TagTakeWrite, TagBleStep, Notified, LateActive, TagNotified, tagVars, Owing
<1>3. TagUwbTask \/ Measures => (Owing' => Owing) BY UwbFrame DEF Owing
<1>4. Restarts \/ TagOnDisconnect => (Owing' => Owing)
  BY RestartState DEF TagOnDisconnect, Owing
<1> QED BY <1>1, <1>2, <1>3, <1>4, TagSideCases

LEMMA SessionTypesStep == SessionTypes /\ [CarNext]_carVars => SessionTypes'
<1> SUFFICES ASSUME SessionTypes, [CarNext]_carVars PROVE SessionTypes'
  OBVIOUS
<1> USE DEF SessionTypes, Owed
<1>1. CASE Connect
  <2>1. session' = session + 1 /\ UNCHANGED <<challenge, heard, responses>> /\ ~Owing
    BY <1>1 DEF Connect, Accept, TagConnect, Owing
  <2> QED BY <2>1
<1>2. CASE Responds
  <2>1. Owing /\ ~Owing' /\ heard' = 0 /\ UNCHANGED <<session, challenge>>
    BY <1>2 DEF Responds, Answer, TagRespond, TagBleStep, Owing
  <2>2. responses' = Append(responses, heard) \/ responses' = responses
    BY <1>2 DEF Responds, Answer
  <2> QED BY <2>1, <2>2
<1>3. CASE AnchorRestarts
  <2>1. /\ session' = session /\ challenge' = 0 /\ heard' = 0 /\ responses' = <<>>
        /\ tble' = tble
    BY <1>3 DEF AnchorRestarts, ServiceRestart, Broken, tagVars
  <2> QED BY <2>1 DEF Owing
<1>4. ASSUME session' = session, challenge' \in {challenge, session},
             heard' \in {heard, 0, challenge},
             \/ responses' = responses
             \/ responses # <<>> /\ responses' = Tail(responses)
      PROVE  SessionTypes'
  <2>1. responses' \in Seq(Int) /\ Len(responses') <= Len(responses)
    <3>1. CASE responses # <<>> /\ responses' = Tail(responses) BY <3>1
    <3> QED BY <1>4, <3>1
  <2>2. CASE Owing' => Owing BY <1>4, <2>1, <2>2
  <2> QED BY <1>1, <2>2, OwesNoMore
<1> HIDE DEF SessionTypes, Owed
<1>5. ASSUME UNCHANGED <<session, challenge, responses>>, heard' \in {heard, 0}
      PROVE  SessionTypes'
  BY <1>4, <1>5
<1>6. CASE LinkBreaks \/ TagLearns \/ TagRestarts \/ TagHangsUp
  BY <1>5, <1>6 DEF LinkBreaks, TagLearns, TagRestarts, TagHangsUp, Broken, TagAlone,
                    serviceVars, sessionVars
<1>7. CASE AnchorLearns
  BY <1>5, <1>7 DEF AnchorLearns, HangUp, CarAlone
<1>8. CASE \E cmd \in ZoneWords \cup {"TAG_UWB_READY"} : Arrives(cmd) \/ Vanishes(cmd)
  BY <1>5, <1>8 DEF Arrives, Vanishes, Hears, TagAlone, serviceVars, sessionVars
<1>9. CASE ReadsChallenge
  BY <1>4, <1>9 DEF ReadsChallenge, serviceVars, sessionVars
<1>10. CASE ResponseVanishes \/ ReadsAuthOk \/ TagWorks \/ TagMoves
  BY <1>5, <1>10 DEF ResponseVanishes, ReadsAuthOk, TagWorks, TagMoves, TagAlone, serviceVars,
                     sessionVars
<1>11. CASE AuthOk BY <1>4, <1>11 DEF AuthOk, Verify
<1>12. CASE Kick BY <1>4, <1>12 DEF Kick, Refuse, Broken
<1>13. CASE Active BY <1>5, <1>13 DEF Active, Announce, sessionVars
<1>14. CASE Draw /\ AnchorUnseen
  BY <1>4, <1>14 DEF Draw, AnchorUnseen
<1>15. CASE (TakeCommand \/ Start \/ QueueAnnounce \/ Obey \/ Forget) /\ AnchorUnseen
  BY <1>5, <1>15 DEF TakeCommand, Start, QueueAnnounce, Obey, Forget, sessionVars, AnchorUnseen
<1>16. CASE Send /\ AnchorUnseen
  BY <1>5, <1>16 DEF Send, Skip, AskDoor, AskRanging, sessionVars, AnchorUnseen
<1>17. CASE UNCHANGED carVars
  BY <1>5, <1>17 DEF carVars, serviceVars, sessionVars
<1> QED
  BY <1>1, <1>2, <1>3, <1>6, <1>7, <1>8, <1>9, <1>10, <1>11, <1>12, <1>13, <1>14, <1>15, <1>16,
     <1>17 DEF CarNext, TagTalks, AnchorWorks, AnchorSends, AnchorForgets

\* The ghost, the characteristic and the bound of the model.
OtherTypes ==
  /\ link \in BOOLEAN /\ excused \subseteq {"word", "ranging", "stray", "unheard"}
  /\ authValue \in {"other", "AUTH_OK", "AUTH_FAIL"} /\ carResets \in 0..MaxCarResets

LEMMA OtherTypesStep == OtherTypes /\ [CarNext]_carVars => OtherTypes'
<1> SUFFICES ASSUME OtherTypes, [CarNext]_carVars PROVE OtherTypes'
  OBVIOUS
<1> USE DEF OtherTypes
<1>1. CASE Connect
  BY <1>1 DEF Connect, Leftovers, Lingers
<1>2. CASE AnchorRestarts
  <2>1. /\ carResets < MaxCarResets /\ carResets' = carResets + 1
        /\ link' = FALSE /\ authValue' = "other" /\ excused' = excused \cap {"stray", "unheard"}
    BY <1>2 DEF AnchorRestarts, Broken
  <2>2. carResets' \in 0..MaxCarResets BY <2>1, CarConstantsOK
  <2> QED BY <2>1, <2>2
<1>3. CASE LinkBreaks \/ TagRestarts \/ TagHangsUp \/ Kick
  BY <1>3 DEF LinkBreaks, TagRestarts, TagHangsUp, Kick, Broken
<1>4. CASE \E cmd \in ZoneWords \cup {"TAG_UWB_READY"} : Arrives(cmd) \/ Vanishes(cmd)
  BY <1>4 DEF Arrives, Vanishes, TagAlone
<1>5. CASE Responds \/ AuthOk \/ Active
  BY <1>5 DEF Responds, AuthOk, Active
<1>6. CASE AnchorWorks \/ AnchorSends \/ AnchorForgets
  BY <1>6 DEF AnchorWorks, AnchorSends, AnchorForgets, AnchorUnseen
<1>7. CASE \/ TagLearns \/ AnchorLearns \/ ReadsChallenge \/ ResponseVanishes \/ ReadsAuthOk
           \/ TagWorks \/ TagMoves
  BY <1>7 DEF TagLearns, AnchorLearns, ReadsChallenge, ResponseVanishes, ReadsAuthOk, TagWorks,
              TagMoves, TagAlone, CarAlone
<1>8. CASE UNCHANGED carVars BY <1>8 DEF carVars
<1> QED
  BY <1>1, <1>2, <1>3, <1>4, <1>5, <1>6, <1>7, <1>8 DEF CarNext, TagTalks

CarTypes == TagTypes /\ QueueTypes /\ SessionTypes /\ OtherTypes

LEMMA CarTypesInit == CarInit => CarTypes
<1> SUFFICES ASSUME CarInit PROVE CarTypes
  OBVIOUS
<1>1. TagTypes BY TagStarts DEF CarInit, TagTypes
<1>2. QueueTypes BY CarConstantsOK, SMT DEF CarInit, ServiceInit, QueueTypes
<1>3. SessionTypes
  BY SMT DEF CarInit, TagInit, TagBooted, ServiceInit, SessionTypes, Owed, Owing
<1>4. OtherTypes
  <2>1. carResets \in 0..MaxCarResets BY CarConstantsOK, SMT DEF CarInit
  <2> QED BY <2>1 DEF CarInit, OtherTypes
<1> QED BY <1>1, <1>2, <1>3, <1>4 DEF CarTypes

LEMMA CarTypesStep == CarTypes /\ [CarNext]_carVars => CarTypes'
BY TagTypesStep, QueueTypesStep, SessionTypesStep, OtherTypesStep DEF CarTypes

\* Every variable stays in its range; the link is up only between two ends that know of it;
\* the anchor never has more responses than sessions nor more door commands than canQueue
\* holds and the one canTask has taken.
THEOREM CarTypeCorrect == CarSpec => []CarTypeOK
<1>1. CarTypes /\ AuthInv => CarTypeOK
  <2> SUFFICES ASSUME CarTypes, AuthInv PROVE CarTypeOK
    OBVIOUS
  <2>1. Len(responses) <= session
    BY DEF CarTypes, SessionTypes, Owed
  <2> QED
    BY <2>1 DEF CarTypes, QueueTypes, SessionTypes, OtherTypes, AuthInv, LinkKnown, CarTypeOK
<1> QED BY <1>1, CarTypesInit, CarTypesStep, AuthInit, AuthStep, PTL DEF CarSpec

-----------------------------------------------------------------------------
(* The car follows the tag                                                  *)

\* What the tag has told, one way: told VERIFIED, it holds itself in the zone.  A stray
\* announcement that makes it range on in a new connection leaves this alone.
ToldOnly ==
  /\ connected => "STOP" \notin events
  /\ ~connected => ~told
  /\ ~connected /\ tuwb = "send" => "STOP" \in events
  /\ connected /\ ~dropped /\ tuwb \in {"loop", "range"} => (told => tagInUnlockZone)
  /\ connected /\ ~dropped /\ tuwb = "send" => (tout = "VERIFIED" => tagInUnlockZone)
  /\ connected /\ ~dropped /\ tuwb \notin {"loop", "range", "send"} => ~told

LEMMA ToldOnlyStep == TagTypes /\ ToldOnly /\ [CarNext]_carVars => ToldOnly'
<1> SUFFICES ASSUME TagTypes, ToldOnly, [CarNext]_carVars PROVE ToldOnly'
  OBVIOUS
<1> USE DEF ToldOnly
<1>1. CASE Restarts BY <1>1, RestartState
<1>2. CASE TagConnect
  <2>1. ~connected /\ connected' = TRUE /\ events' = events \ {"STOP"} /\ UNCHANGED <<tuwb, told>>
        /\ tuwb # "send"
    BY <1>2 DEF TagConnect, StopSeen, tagUwbVars, tagGhosts
  <2> QED BY <2>1
<1>3. CASE TagOnDisconnect BY <1>3 DEF TagOnDisconnect
<1>4. CASE Notified \/ LateActive
  <2>1. /\ events' \in {events, events \cup {"READY"}}
        /\ UNCHANGED <<connected, tuwb, tout, tagInUnlockZone, told, dropped>>
    BY <1>4 DEF Notified, LateActive, TagNotified, tagUwbVars, tagGhosts
  <2> QED BY <2>1
<1>5. CASE BleSteps
  <2>1. "STOP" \in events' <=> "STOP" \in events BY <1>5, BleBits
  <2>2. UNCHANGED <<connected, tuwb, tout, tagInUnlockZone, told, dropped>>
    BY <1>5, BleFrame DEF tagUwbVars, tagGhosts
  <2> QED BY <2>1, <2>2
<1>6. CASE TakesWrite
  BY <1>6 DEF TakesWrite, TagTakeWrite, TagBleStep, tagUwbVars, tagGhosts
<1>7. CASE Measures
  <2>1. PICK b \in Bands : TagMeasure(b) BY <1>7 DEF Measures
  <2>2. /\ tuwb = "range" /\ tagInUnlockZone' = (b = "near")
        /\ UNCHANGED <<connected, told, dropped, events>>
        /\ connected => tuwb' = "send" /\ (tout' = "VERIFIED" => b = "near")
        /\ ~connected => tuwb' \in {"far", "loop"}
    BY <2>1 DEF TagMeasure, WordOf, Bands, TagUwbUnchanged
  <2> QED BY <2>2
<1>8. CASE TagSend
  <2>1. /\ tuwb = "send" /\ tuwb' = (IF tout = "UWB_STOP" THEN "far" ELSE "loop")
        /\ UNCHANGED <<connected, events, tagInUnlockZone>>
    BY <1>8 DEF TagSend, TagUwbUnchanged
  <2>2. \/ dropped' = dropped /\ told' = (connected /\ tout = "VERIFIED")
        \/ dropped' = connected /\ told' = told
    BY <1>8 DEF TagSend
  <2> QED BY <2>1, <2>2 DEF TagTypes, FlagTypes
<1>9. CASE TagUwbTask /\ ~TagSend
  <2>1. UNCHANGED <<connected, told, dropped>> /\ tuwb' # "send"
    BY <1>9 DEF TagUwbTask, TagUwbUnchanged, TagUwbWake, TagUwbInit, TagUwbStop, TagRound,
                TagNoChange, TagFar, TagDeinit, TagClear
  <2>2. events' \subseteq events BY <1>9, UwbFrame
  <2>3. \/ tuwb = "init" /\ tuwb' = "loop"
        \/ tuwb = "loop" /\ "STOP" \in events /\ tuwb' = "deinit"
        \/ tuwb \in {"loop", "range"} /\ tuwb' \in {"loop", "range"}
             /\ tagInUnlockZone' = tagInUnlockZone
        \/ /\ tuwb \in {"wait", "init", "far", "deinit", "clear"}
           /\ tuwb' \notin {"loop", "range", "send"}
    BY <1>9 DEF TagUwbTask, TagUwbWake, TagUwbInit, TagUwbStop, TagRound, TagNoChange, TagFar,
                TagDeinit, TagClear
  <2> QED BY <2>1, <2>2, <2>3 DEF TagTypes, FlagTypes
<1>10. CASE UNCHANGED tagVars BY <1>10 DEF tagVars, tagFlags, tagUwbVars, tagGhosts
<1>11. CASE Connect BY <1>2, <1>11 DEF Connect
<1> QED
  BY <1>1, <1>2, <1>3, <1>4, <1>5, <1>6, <1>7, <1>8, <1>9, <1>10, <1>11, TagSideCases

\* Whether the doors may be open when all that the anchor has accepted is executed.
MayOpen ==
  \/ cb = "unlock"
  \/ cb \notin {"unlock", "lock", "stopLock"} /\ StaysOpen

\* The last word still to be written, or the doors if there is none, say no more than the
\* tag has told.
Follows ==
  IF bleWriteQueue = <<>> THEN MayOpen => told ELSE Last(bleWriteQueue) = "VERIFIED" => told
FollowInv == link /\ ~dropped /\ "word" \notin excused => Follows

\* A word of the zone decides the doors, whatever was accepted before.
LEMMA HeardDecides ==
  ASSUME NEW cmd \in ZoneWords, Hears(cmd), ~Overtakes(cmd)
  PROVE  MayOpen' => cmd = "VERIFIED"
<1> SUFFICES ASSUME cmd \in {"WARNING", "UWB_STOP"} PROVE ~MayOpen'
  BY DEF ZoneWords
<1>1. UNCHANGED <<pending, carUnlocked>> BY DEF Hears, doorVars
<1>2. CASE carUnlocked
  <2>1. cb' \in {"lock", "stopLock"} BY <1>2 DEF Hears
  <2> QED BY <2>1 DEF MayOpen
<1>3. CASE ~carUnlocked
  <2>1. cb' \in {"idle", "stop"} BY <1>3 DEF Hears
  <2>2. pending = <<>> BY <1>3 DEF Overtakes
  <2>3. ~StaysOpen' BY <1>1, <1>3, <2>2 DEF StaysOpen
  <2> QED BY <2>1, <2>3 DEF MayOpen
<1> QED BY <1>2, <1>3

\* onDisconnect runs to its end before the next connection.
DiscLater == deviceConnected => cb \notin {"discDeinit", "discLock", "discAdv"}

LEMMA DiscLaterStep == DiscLater /\ [CarNext]_carVars => DiscLater'
<1> SUFFICES ASSUME DiscLater, [CarNext]_carVars PROVE DiscLater'
  OBVIOUS
<1> USE DEF DiscLater
<1>1. CASE Accept \/ HangUp \/ ServiceRestart
  BY <1>1 DEF Accept, HangUp, ServiceRestart
<1>2. CASE \E cmd \in ZoneWords \cup {"TAG_UWB_READY"} : Hears(cmd)
  BY <1>2 DEF Hears, ZoneWords
<1>3. CASE \/ Answer(heard) \/ Verify \/ Refuse \/ Announce
           \/ Draw \/ TakeCommand \/ Start \/ QueueAnnounce \/ Obey \/ Forget
  BY <1>3 DEF Answer, Verify, Refuse, Announce, Draw, TakeCommand, Start, QueueAnnounce, Obey,
              Forget, sessionVars
<1>4. CASE Send
  BY <1>4 DEF Send, Skip, AskDoor, AskRanging, sessionVars
<1>5. CASE UNCHANGED serviceVars BY <1>5 DEF serviceVars, sessionVars
<1> QED BY <1>1, <1>2, <1>3, <1>4, <1>5, AnchorSide DEF ServiceInternal

\* A send does what its callback decided, unless its queue was full.
LEMMA SendsDecided ==
  ASSUME QueueTypes, AnchorSends, link => connected /\ deviceConnected, DiscLater,
         link, "word" \notin excused'
  PROVE  MayOpen' => MayOpen
<1>1. /\ carUnlocked' = carUnlocked
      /\ ~(cb \in {"unlock", "lock", "stopLock"} /\ pending' = pending)
      /\ deviceConnected
  BY DEF AnchorSends, Send, Skip, AskDoor, AskRanging, doorVars
<1>2. ASSUME pending' = pending, cb' \in {"idle", "discLock"} PROVE MayOpen' => MayOpen
  BY <1>1, <1>2 DEF MayOpen, StaysOpen
<1>3. ASSUME NEW from, NEW cmd \in DoorCommands, NEW to, AskDoor(from, cmd, to),
             from \in {"unlock", "lock", "stopLock"}, to \in {"idle", "stop"},
             cmd = "UNLOCK" => from = "unlock"
      PROVE  MayOpen' => MayOpen
  <2>1. cb = from /\ cb' = to /\ pending' = Append(pending, cmd)
    BY <1>1, <1>3 DEF AskDoor, Lock!Ask
  <2>2. pending' # <<>> /\ Last(pending') = cmd
    BY <2>1 DEF QueueTypes, Last
  <2>3. StaysOpen' => cmd = "UNLOCK" BY <2>2 DEF StaysOpen
  <2> QED BY <1>3, <2>1, <2>3 DEF MayOpen
<1>4. CASE \/ Skip("challenge", "idle") \/ Skip("discAdv", "idle")
           \/ AskRanging("stop", "DEINIT", "idle") \/ AskRanging("init", "INIT", "idle")
           \/ AskRanging("discDeinit", "DEINIT", "discLock")
  BY <1>2, <1>4 DEF Skip, AskRanging, doorVars
<1>5. ~AskDoor("discLock", "LOCK", "discAdv")
  BY <1>1 DEF AskDoor, DiscLater
<1> QED BY <1>3, <1>4, <1>5 DEF AnchorSends, Send, DoorCommands

LEMMA LastOfOne ==
  ASSUME NEW S, NEW s \in Seq(S), s # <<>>, Tail(s) = <<>>
  PROVE  Last(s) = Head(s)
<1>1. PICK t : t = Tail(s) OBVIOUS
<1>2. Len(t) = Len(s) - 1 BY ONLY <1>1, s \in Seq(S), s # <<>>
<1>3. Len(t) = 0
  <2>1. t = <<>> BY <1>1
  <2> QED BY ONLY <2>1
<1>4. Len(s) = 1 BY ONLY <1>2, <1>3, s \in Seq(S)
<1> QED BY <1>4 DEF Last

\* What canTask executes was decided before.
LEMMA ObeysDecided == ASSUME QueueTypes, Obey PROVE MayOpen' => MayOpen
<1>1. pending # <<>> /\ pending' = Tail(pending) /\ cb' = cb
  BY DEF Obey, Lock!Execute
<1>2. StaysOpen' => StaysOpen
  <2>1. CASE pending' = <<>>
    <3>1. Last(pending) = Head(pending) BY <1>1, <2>1, LastOfOne DEF QueueTypes
    <3>2. carUnlocked' => Head(pending) = "UNLOCK"
      BY DEF Obey, Lock!Execute
    <3> QED BY <1>1, <2>1, <3>1, <3>2 DEF StaysOpen
  <2>2. CASE pending' # <<>>
    <3>1. Last(pending') = Last(pending) BY <1>1, <2>2 DEF QueueTypes, Last
    <3> QED BY <1>1, <2>2, <3>1 DEF StaysOpen
  <2> QED BY <2>1, <2>2
<1> QED BY <1>1, <1>2 DEF MayOpen

LEMMA FollowStep ==
  CarTypes /\ LinkKnown /\ DiscLater /\ FollowInv /\ [CarNext]_carVars => FollowInv'
<1> SUFFICES ASSUME CarTypes, LinkKnown, DiscLater, FollowInv, [CarNext]_carVars,
                    link', ~dropped', "word" \notin excused'
             PROVE  Follows'
  BY DEF FollowInv
<1>1. QueueTypes /\ WordTypes /\ FlagTypes BY DEF CarTypes, TagTypes
\* A step that leaves the words and what they tell alone.
<1>2. ASSUME link, ~dropped, "word" \notin excused,
             UNCHANGED <<bleWriteQueue, told>>, MayOpen' => MayOpen
      PROVE  Follows'
  BY <1>2 DEF FollowInv, Follows
<1>3. ASSUME link, "word" \notin excused, UNCHANGED serviceVars,
             UNCHANGED <<bleWriteQueue, told, dropped>>
      PROVE  Follows'
  BY <1>2, <1>3 DEF MayOpen, StaysOpen, serviceVars, doorVars
<1>4. CASE Connect
  <2>1. "word" \notin Leftovers /\ cb' = "challenge"
    BY <1>4 DEF Connect, Accept
  <2>2. bleWriteQueue = <<>> /\ ~StaysOpen BY <2>1 DEF Leftovers
  <2>3. UNCHANGED <<bleWriteQueue, pending, carUnlocked>>
    BY <1>4 DEF Connect, TagConnect, Accept, doorVars
  <2> QED BY <2>1, <2>2, <2>3 DEF Follows, MayOpen, StaysOpen
<1>5. CASE LinkBreaks \/ TagRestarts \/ AnchorRestarts \/ TagHangsUp \/ Kick
  BY <1>5 DEF LinkBreaks, TagRestarts, AnchorRestarts, TagHangsUp, Kick, Broken
<1>6. CASE TagLearns \/ AnchorLearns \/ ResponseVanishes
  BY <1>6 DEF TagLearns, AnchorLearns, ResponseVanishes
<1>7. CASE \E cmd \in ZoneWords \cup {"TAG_UWB_READY"} : Arrives(cmd) \/ Vanishes(cmd)
  <2>1. PICK cmd \in ZoneWords \cup {"TAG_UWB_READY"} : Arrives(cmd) BY <1>7 DEF Vanishes
  <2>2. /\ link /\ "word" \notin excused /\ TagSends(cmd) /\ Hears(cmd)
        /\ ~Overtakes(cmd)
    BY <2>1 DEF Arrives
  <2>3. UNCHANGED <<told, dropped, pending, carUnlocked>>
    BY <2>2 DEF TagSends, TagRequest, TagWrite, TagTakeWrite, TagBleStep, tagGhosts, Hears,
                doorVars
  <2>4. CASE cmd = "TAG_UWB_READY"
    <3>1. bleWriteQueue' = bleWriteQueue /\ cb = "idle" /\ cb' \in {"idle", "init"}
      BY <2>2, <2>4 DEF TagSends, TagRequest, Hears, ZoneWords
    <3>2. MayOpen' => MayOpen BY <2>3, <3>1 DEF MayOpen, StaysOpen
    <3> QED BY <1>2, <2>2, <2>3, <3>1, <3>2
  <2>5. CASE cmd \in ZoneWords
    <3>1. /\ bleWriteQueue # <<>> /\ cmd = Head(bleWriteQueue)
          /\ bleWriteQueue' = Tail(bleWriteQueue)
      BY <2>2, <2>5 DEF TagSends, TagRequest, TagWrite, TagTakeWrite, ZoneWords
    <3>2. Last(bleWriteQueue) = "VERIFIED" => told
      BY <2>2, <2>3, <3>1 DEF FollowInv, Follows
    <3>3. CASE bleWriteQueue' = <<>>
      <4>1. Last(bleWriteQueue) = cmd BY <1>1, <3>1, <3>3, LastOfOne DEF WordTypes
      <4>2. MayOpen' => cmd = "VERIFIED" BY <2>2, <2>5, HeardDecides
      <4> QED BY <2>3, <3>2, <3>3, <4>1, <4>2 DEF Follows
    <3>4. CASE bleWriteQueue' # <<>>
      <4>1. Last(bleWriteQueue') = Last(bleWriteQueue)
        BY <1>1, <3>1, <3>4 DEF WordTypes, Last
      <4> QED BY <2>3, <3>2, <3>4, <4>1 DEF Follows
    <3> QED BY <3>3, <3>4
  <2> QED BY <2>4, <2>5
<1>8. CASE ReadsChallenge
  BY <1>3, <1>8 DEF ReadsChallenge, TagChallenge, TagBleStep, tagGhosts
<1>9. CASE ReadsAuthOk
  BY <1>3, <1>9 DEF ReadsAuthOk, TagAuthRead, TagBleStep, TagAlone, tagGhosts
<1>10. CASE Responds
  <2>1. UNCHANGED <<bleWriteQueue, told, dropped, link, excused, cb, pending, carUnlocked>>
    BY <1>10 DEF Responds, TagRespond, TagBleStep, tagGhosts, Answer, doorVars
  <2> QED BY <1>2, <2>1 DEF MayOpen, StaysOpen
<1>11. CASE AuthOk \/ Active
  <2>1. UNCHANGED <<bleWriteQueue, told, dropped, link, cb, pending, carUnlocked>>
    BY <1>11 DEF AuthOk, Active, Notifies, TagNotified, tagVars, tagGhosts, Verify, Announce,
                 doorVars
  <2>2. "word" \notin excused BY <1>11 DEF AuthOk, Active
  <2> QED BY <1>2, <2>1, <2>2 DEF MayOpen, StaysOpen
<1>12. CASE AnchorWorks \/ AnchorSends \/ AnchorForgets
  <2>1. UNCHANGED <<bleWriteQueue, told, dropped, link>>
    BY <1>12 DEF AnchorWorks, AnchorSends, AnchorForgets, AnchorUnseen, tagVars, tagGhosts
  <2>2. "word" \notin excused /\ ~AnchorForgets
    BY <1>12 DEF AnchorWorks, AnchorSends, AnchorForgets
  <2>3. CASE AnchorSends
    BY <1>1, <1>2, <2>1, <2>2, <2>3, SendsDecided DEF LinkKnown
  <2>4. CASE Obey BY <1>1, <1>2, <2>1, <2>2, <2>4, ObeysDecided
  <2>5. CASE Draw \/ TakeCommand \/ Start \/ QueueAnnounce
    <3>1. UNCHANGED <<cb, pending, carUnlocked>>
      BY <2>5 DEF Draw, TakeCommand, Start, QueueAnnounce, doorVars
    <3> QED BY <1>2, <2>1, <2>2, <3>1 DEF MayOpen, StaysOpen
  <2> QED BY <1>12, <2>2, <2>3, <2>4, <2>5 DEF AnchorWorks
<1>13. CASE TagSend /\ TagAlone /\ UNCHANGED link
  <2>1. link /\ "word" \notin excused /\ connected /\ UNCHANGED serviceVars
    BY <1>13 DEF TagAlone, LinkKnown
  <2>2. tout \in ZoneWords BY <1>1, <1>13 DEF WordTypes, TagSend
  <2>3. ~(Len(bleWriteQueue) < WriteDepth) => dropped'
    BY <1>13, <2>1 DEF TagSend
  <2>4. bleWriteQueue' = Append(bleWriteQueue, tout) /\ told' = (connected /\ tout = "VERIFIED")
    BY <1>13, <2>3 DEF TagSend
  <2>5. bleWriteQueue' # <<>> /\ Last(bleWriteQueue') = tout
    BY <1>1, <2>2, <2>4 DEF WordTypes, Last
  <2> QED BY <2>1, <2>4, <2>5 DEF Follows
<1>14. CASE (TagBleLocal \/ (TagUwbTask /\ ~TagSend)) /\ TagAlone /\ UNCHANGED link
  <2>1. link /\ "word" \notin excused /\ connected /\ UNCHANGED serviceVars
    BY <1>14 DEF TagAlone, LinkKnown
  <2>2. TagBleLocal => UNCHANGED <<bleWriteQueue, told, dropped>>
    BY <2>1 DEF TagBleLocal, TagBleStep, TagAuthed, TagArm, TagNotArmed, TagRetry, TagReady,
                TagSetInit, TagMonitor, TagThrowAway, TagDrained, TagStay, TagRearm, TagCleanup,
                tagGhosts
  <2>3. TagUwbTask /\ ~TagSend => UNCHANGED <<bleWriteQueue, told, dropped>>
    BY DEF TagUwbTask, TagUwbWake, TagUwbInit, TagUwbStop, TagRound, TagNoChange, TagFar,
           TagDeinit, TagClear
  <2> QED BY <1>3, <1>14, <2>1, <2>2, <2>3
<1>15. CASE TagMoves
  <2>1. link /\ "word" \notin excused /\ UNCHANGED <<serviceVars, bleWriteQueue, told, dropped>>
    BY <1>15 DEF TagMoves, TagMeasure, TagAlone
  <2> QED BY <1>3, <2>1
<1>16. CASE UNCHANGED carVars
  BY <1>3, <1>16 DEF carVars, tagVars, tagGhosts
<1> QED
  BY <1>4, <1>5, <1>6, <1>7, <1>8, <1>9, <1>10, <1>11, <1>12, <1>13, <1>14, <1>15, <1>16
     DEF CarNext, TagTalks, TagWorks

\* When nothing is under way between the measurement and the doors, and no word of the zone
\* was dropped or overtaken, a car that stands open has its tag in the zone.
THEOREM CarAlwaysFollows == CarSpec => []CarFollowsTag
<1> DEFINE Inv == CarTypes /\ AuthInv /\ DiscLater /\ ToldOnly /\ FollowInv
<1>1. CarInit => Inv
  <2>1. CarInit => DiscLater /\ ToldOnly /\ FollowInv
    BY DEF CarInit, TagInit, TagBooted, ServiceInit, DiscLater, ToldOnly, FollowInv
  <2> QED BY <2>1, CarTypesInit, AuthInit
<1>2. Inv /\ [CarNext]_carVars => Inv'
  BY CarTypesStep, AuthStep, DiscLaterStep, ToldOnlyStep, FollowStep DEF CarTypes, AuthInv
<1>3. Inv => CarFollowsTag
  <2> SUFFICES ASSUME Inv, Settled, ~dropped, "word" \notin excused, carUnlocked
               PROVE  tagInUnlockZone
    BY DEF CarFollowsTag
  <2>1. MayOpen BY DEF Settled, MayOpen, StaysOpen
  <2>2. told BY <2>1 DEF Settled, FollowInv, Follows
  <2>3. connected BY DEF Settled, AuthInv, LinkKnown
  <2> QED BY <2>2, <2>3 DEF Settled, ToldOnly
<1> QED BY <1>1, <1>2, <1>3, PTL DEF CarSpec

-----------------------------------------------------------------------------
(* The tag never ranges alone                                               *)

LEMMA StrayStays == [CarNext]_carVars /\ "stray" \in excused => Connect \/ "stray" \in excused'
<1> SUFFICES ASSUME [CarNext]_carVars, "stray" \in excused, ~Connect
             PROVE  "stray" \in excused'
  OBVIOUS
<1>1. CASE LinkBreaks \/ TagRestarts \/ AnchorRestarts \/ TagHangsUp \/ Kick
  BY <1>1 DEF LinkBreaks, TagRestarts, AnchorRestarts, TagHangsUp, Kick, Broken
<1>2. CASE \E cmd \in ZoneWords \cup {"TAG_UWB_READY"} : Arrives(cmd) \/ Vanishes(cmd)
  BY <1>2 DEF Arrives, Vanishes, TagAlone
<1>3. CASE Responds \/ AuthOk \/ Active \/ AnchorWorks \/ AnchorSends \/ AnchorForgets
  BY <1>3 DEF Responds, AuthOk, Active, AnchorWorks, AnchorSends, AnchorForgets
<1>4. CASE \/ TagLearns \/ AnchorLearns \/ ReadsChallenge \/ ResponseVanishes \/ ReadsAuthOk
           \/ TagWorks \/ TagMoves
  BY <1>4 DEF TagLearns, AnchorLearns, ReadsChallenge, ResponseVanishes, ReadsAuthOk, TagWorks,
              TagMoves, TagAlone, CarAlone
<1>5. CASE UNCHANGED carVars BY <1>5 DEF carVars
<1> QED BY <1>1, <1>2, <1>3, <1>4, <1>5 DEF CarNext, TagTalks

\* Without a stray announcement uwbTask of the tag overlooks no disconnect.
StopUnlessStray == "stray" \notin excused => StopInv

LEMMA StopUnlessStrayStep ==
  StopUnlessStray /\ [CarNext]_carVars => StopUnlessStray'
<1> SUFFICES ASSUME StopUnlessStray, [CarNext]_carVars, "stray" \notin excused' PROVE StopInv'
  BY DEF StopUnlessStray
<1>1. CASE Connect
  <2>1. connected' = TRUE /\ tble' = "challenge" BY <1>1 DEF Connect, TagConnect
  <2> QED BY <2>1 DEF StopInv, StopPending, InitStopped, Arming, LostWhileArming
<1>2. CASE ~Connect
  <2>1. StopInv BY <1>2, StrayStays DEF StopUnlessStray
  <2>2. ~LateActive BY DEF LateActive
  <2> QED BY <2>1, <2>2, TagSide, StopStep
<1> QED BY <1>1, <1>2

\* A round of ranging goes from hand to hand: UWB_ACTIVE under way, the tag that has it and
\* arms, the tag that ranges or is about to, the UWB_STOP that is to be written.
Announced == announce > 0
Asked == tble = "set" \/ (tble \in {"request", "await"} /\ "READY" \in events)
Armed == TagRanges \/ ("INIT" \in events /\ tuwb # "far")
Stopping == \E i \in 1..Len(bleWriteQueue) : bleWriteQueue[i] = "UWB_STOP"
OneHand ==
  /\ announce <= 1
  /\ Announced => ~Asked /\ ~Armed /\ ~Stopping
  /\ Asked => ~Armed /\ ~Stopping
  /\ Armed => ~Stopping
StopLast == \A i \in 1..Len(bleWriteQueue) : bleWriteQueue[i] = "UWB_STOP" => i = Len(bleWriteQueue)

\* Meanwhile the anchor ranges and nothing is about to end that; the round is over when
\* its callback has the UWB_STOP.
Halting == \E i \in 1..Len(uwbQueue) : uwbQueue[i] = "DEINIT"
Going == ranging = "active" /\ ~Halting
CbStops == cb \in {"stop", "stopLock"}
\* An INIT is followed by a DEINIT only if the anchor ranges already, since the beginning
\* of the queue.
InitsFirst ==
  \A i, j \in 1..Len(uwbQueue) :
    i < j /\ uwbQueue[i] = "INIT" /\ uwbQueue[j] = "DEINIT"
    => ranging = "active" /\ \A k \in 1..i : uwbQueue[k] = "INIT"
Kept ==
  /\ Announced \/ Asked \/ Armed \/ Stopping => Going /\ ~CbStops
  /\ CbStops => Going
  /\ ranging \in {"init", "notify"} => ~Halting
  /\ InitsFirst

Round == OneHand /\ StopLast /\ Kept
Undisturbed == link /\ excused \cap {"ranging", "stray"} = {}
RoundInv == Undisturbed => Round

\* INIT is set by armUWB and cleared before it and the scan begin again.
InitWhere == "INIT" \in events => tble \in {"monitor", "drain", "check", "cleanup", "arm"}

LEMMA InitWhereStep == InitWhere /\ [CarNext]_carVars => InitWhere'
<1> SUFFICES ASSUME InitWhere, [CarNext]_carVars PROVE InitWhere'
  OBVIOUS
<1> USE DEF InitWhere
<1>1. CASE Restarts BY <1>1, RestartState
<1>2. CASE Connect BY <1>2 DEF Connect, TagConnect
<1>3. CASE TagOnDisconnect BY <1>3 DEF TagOnDisconnect
<1>4. CASE Notified \/ LateActive BY <1>4 DEF Notified, LateActive, TagNotified
<1>5. CASE BleSteps
  <2>1. CASE UNCHANGED events
    <3>1. tble \in {"monitor", "drain", "check", "cleanup", "arm"}
          => tble' \in {"monitor", "drain", "check", "cleanup", "arm"} \/ "INIT" \notin events'
      BY <1>5 DEF BleSteps, TagBleStep, TagChallenge, TagGiveUp, TagRespond, TagAuthRead,
                  TagAuthFail, TagRequest, TagAuthed, TagArm, TagNotArmed, TagRetry, TagReady,
                  TagSetInit, TagMonitor, TagDrained, TagStay, TagRearm, TagCleanup
    <3> QED BY <2>1, <3>1
  <2> QED BY <1>5, <2>1, BleBits
<1>6. CASE TakesWrite BY <1>6 DEF TakesWrite, TagTakeWrite, TagBleStep
<1>7. CASE TagUwbTask \/ Measures BY <1>7, UwbFrame
<1>8. CASE UNCHANGED tagVars BY <1>8 DEF tagVars
<1> QED BY <1>1, <1>2, <1>3, <1>4, <1>5, <1>6, <1>7, <1>8, TagSideCases

-----------------------------------------------------------------------------
\* The tag hands the round on, and never back.
TagTurn ==
  /\ Asked' => Asked
  /\ Armed' => Armed \/ (Asked /\ ~Asked')
  /\ Stopping' => Stopping \/ (Armed /\ ~Armed')
  /\ StopLast'

LEMMA BleTurn == BleSteps /\ StopLast => TagTurn
<1> SUFFICES ASSUME BleSteps, StopLast PROVE TagTurn
  OBVIOUS
<1>1. UNCHANGED <<tuwb, bleWriteQueue>> BY BleFrame DEF tagUwbVars
<1>2. (Asked' => Asked) /\ ("INIT" \in events' => "INIT" \in events \/ (Asked /\ ~Asked'))
  BY BleBits DEF Asked
<1> QED BY <1>1, <1>2 DEF TagTurn, Armed, TagRanges, Stopping, StopLast

\* The first word leaves the queue.
LEMMA WriteTurn ==
  ASSUME WordTypes, StopLast, NEW cmd, TagTakeWrite(cmd)
  PROVE  TagTurn /\ (cmd = "UWB_STOP" => Stopping /\ ~Stopping')
<1>1. /\ bleWriteQueue # <<>> /\ cmd = Head(bleWriteQueue) /\ bleWriteQueue' = Tail(bleWriteQueue)
      /\ UNCHANGED <<events, tuwb>> /\ tble' = "drain"
  BY DEF TagTakeWrite, TagBleStep, tagUwbVars
<1>2. bleWriteQueue \in Seq(ZoneWords) BY DEF WordTypes
<1>3. /\ Len(bleWriteQueue') = Len(bleWriteQueue) - 1 /\ Len(bleWriteQueue) >= 1
      /\ \A i \in 1..Len(bleWriteQueue') : bleWriteQueue'[i] = bleWriteQueue[i+1]
      /\ cmd = bleWriteQueue[1]
  BY <1>1, <1>2
<1>4. StopLast' /\ (Stopping' => Stopping) BY <1>2, <1>3 DEF StopLast, Stopping
<1>5. ASSUME cmd = "UWB_STOP" PROVE Stopping /\ ~Stopping'
  <2>1. Len(bleWriteQueue) \in Nat BY <1>2
  <2>2. 1 \in 1..Len(bleWriteQueue) /\ bleWriteQueue[1] = "UWB_STOP" BY <1>3, <1>5, <2>1
  <2>3. Len(bleWriteQueue) = 1 BY <2>2 DEF StopLast
  <2>4. Len(bleWriteQueue') = 0 BY <1>3, <2>3
  <2> QED BY <2>2, <2>4 DEF Stopping
<1>6. ~Asked' /\ (Armed' => Armed) BY <1>1 DEF Asked, Armed, TagRanges
<1> QED BY <1>4, <1>5, <1>6 DEF TagTurn

LEMMA UwbTurn ==
  (TagUwbTask \/ Measures) /\ WordTypes /\ StopLast /\ (Armed => ~Stopping) => TagTurn
<1> SUFFICES ASSUME TagUwbTask \/ Measures, WordTypes, StopLast, Armed => ~Stopping PROVE TagTurn
  OBVIOUS
<1>1. tble' = tble /\ events' \subseteq events BY UwbFrame
<1>2. Asked' => Asked BY <1>1 DEF Asked
<1>3. Armed' => Armed
  <2>1. tuwb = "far" => tuwb' = "deinit" /\ "INIT" \notin events'
    BY DEF TagUwbTask, Measures, TagMeasure, TagUwbWake, TagUwbInit, TagUwbStop, TagRound,
           TagNoChange, TagSend, TagFar, TagDeinit, TagClear
  <2> QED BY <1>1, <2>1, UwbPath DEF Armed, TagRanges
<1>4. CASE TagSend /\ Len(bleWriteQueue) < WriteDepth
  <2>1. /\ bleWriteQueue' = Append(bleWriteQueue, tout) /\ tuwb = "send"
        /\ tuwb' = (IF tout = "UWB_STOP" THEN "far" ELSE "loop")
    BY <1>4 DEF TagSend
  <2>2. bleWriteQueue \in Seq(ZoneWords) /\ tout \in ZoneWords BY <2>1 DEF WordTypes
  <2>3. Armed /\ ~Stopping BY <2>1 DEF Armed, TagRanges
  <2>4. /\ Len(bleWriteQueue') = Len(bleWriteQueue) + 1
        /\ \A i \in 1..Len(bleWriteQueue) : bleWriteQueue'[i] = bleWriteQueue[i]
        /\ bleWriteQueue'[Len(bleWriteQueue) + 1] = tout
    BY <2>1, <2>2
  <2>5. Len(bleWriteQueue) \in Nat BY <2>2
  <2>6. StopLast' BY <2>3, <2>4, <2>5 DEF StopLast, Stopping
  <2>7. Stopping' => tout = "UWB_STOP" BY <2>3, <2>4, <2>5 DEF Stopping
  <2>8. tout = "UWB_STOP" => ~Armed' BY <2>1 DEF Armed, TagRanges
  <2> QED BY <1>2, <1>3, <2>3, <2>6, <2>7, <2>8 DEF TagTurn
<1>5. CASE ~(TagSend /\ Len(bleWriteQueue) < WriteDepth)
  <2>1. bleWriteQueue' = bleWriteQueue
    BY <1>5 DEF TagUwbTask, Measures, TagMeasure, TagUwbWake, TagUwbInit, TagUwbStop, TagRound,
                TagNoChange, TagSend, TagFar, TagDeinit, TagClear
  <2> QED BY <1>2, <1>3, <2>1 DEF TagTurn, Stopping, StopLast
<1> QED BY <1>4, <1>5

\* A turn of the tag, of which the anchor learns nothing but that no UWB_STOP was written.
LEMMA TurnKeepsRound ==
  ASSUME Round, TagTurn, UNCHANGED <<announce, ranging, uwbQueue>>, CbStops' => CbStops
  PROVE  Round'
BY DEF Round, OneHand, Kept, TagTurn, Announced, Going, Halting, InitsFirst

\* What the anchor does of its own accord.
LEMMA AnchorKeepsRound ==
  ASSUME CarTypes, Round, DiscLater, deviceConnected,
         AnchorWorks \/ AnchorSends \/ AnchorForgets
  PROVE  Round'
<1>1. UNCHANGED <<tble, events, tuwb, bleWriteQueue>>
  BY DEF AnchorWorks, AnchorSends, AnchorForgets, AnchorUnseen, tagVars, tagUwbVars
<1>2. /\ Asked' = Asked /\ Armed' = Armed /\ Stopping' = Stopping
      /\ StopLast' = StopLast
  BY <1>1 DEF Asked, Armed, TagRanges, Stopping, StopLast
<1>3. uwbQueue \in Seq(UwbCommands) /\ Len(uwbQueue) \in Nat /\ announce \in Nat
  BY DEF CarTypes, QueueTypes
<1> USE DEF Round, OneHand
<1>4. ASSUME UNCHANGED <<announce, ranging, uwbQueue>>, CbStops' => CbStops
      PROVE  Round'
  BY <1>2, <1>4 DEF Kept, Announced, Going, Halting, InitsFirst
<1>5. CASE TakeCommand
  <2>1. /\ uwbQueue # <<>> /\ uwbQueue' = Tail(uwbQueue) /\ UNCHANGED <<cb, announce>>
        /\ \/ ranging = "idle" /\ ranging' = (IF Head(uwbQueue) = "INIT" THEN "init" ELSE "idle")
           \/ ranging = "active" /\ ranging' = (IF Head(uwbQueue) = "DEINIT" THEN "idle" ELSE "active")
    BY <1>5 DEF TakeCommand
  <2>2. /\ Len(uwbQueue') = Len(uwbQueue) - 1 /\ Len(uwbQueue) >= 1 /\ Len(uwbQueue') \in Nat
        /\ \A i \in 1..Len(uwbQueue') : uwbQueue'[i] = uwbQueue[i+1]
        /\ Head(uwbQueue) = uwbQueue[1] /\ uwbQueue[1] \in UwbCommands
    BY <1>3, <2>1
  <2>3. Halting' => \E j \in 1..Len(uwbQueue) : 1 < j /\ uwbQueue[j] = "DEINIT"
    <3> SUFFICES ASSUME NEW i \in 1..Len(uwbQueue'), uwbQueue'[i] = "DEINIT"
                 PROVE  \E j \in 1..Len(uwbQueue) : 1 < j /\ uwbQueue[j] = "DEINIT"
      BY DEF Halting
    <3> QED BY <1>3, <2>2
  <2>4. Halting' => Halting BY <2>3 DEF Halting
  <2>5. uwbQueue[1] = "DEINIT" => Halting BY <1>3, <2>2 DEF Halting
  <2>6. uwbQueue[1] = "INIT" /\ Halting' => ranging = "active"
    BY <1>3, <2>2, <2>3 DEF Kept, InitsFirst
  <2>7. Going => Going' BY <2>1, <2>2, <2>4, <2>5 DEF Going
  <2>8. ranging' \in {"init", "notify"} => ~Halting' BY <2>1, <2>2, <2>6
  <2>9. InitsFirst'
    <3> SUFFICES ASSUME NEW i \in 1..Len(uwbQueue'), NEW j \in 1..Len(uwbQueue'), i < j,
                        uwbQueue'[i] = "INIT", uwbQueue'[j] = "DEINIT"
                 PROVE  ranging' = "active" /\ \A k \in 1..i : uwbQueue'[k] = "INIT"
      BY DEF InitsFirst
    <3>1. /\ i+1 \in 1..Len(uwbQueue) /\ j+1 \in 1..Len(uwbQueue) /\ i+1 < j+1
          /\ uwbQueue[i+1] = "INIT" /\ uwbQueue[j+1] = "DEINIT"
      BY <1>3, <2>2
    <3>2. ranging = "active" /\ \A k \in 1..(i+1) : uwbQueue[k] = "INIT"
      BY <3>1 DEF Kept, InitsFirst
    <3>3. uwbQueue[1] = "INIT" BY <3>1, <3>2
    <3>4. ranging' = "active" BY <2>1, <2>2, <3>2, <3>3
    <3>5. ASSUME NEW k \in 1..i PROVE uwbQueue'[k] = "INIT"
      <4>1. k \in 1..Len(uwbQueue') /\ k+1 \in 1..(i+1) BY <1>3, <2>2
      <4> QED BY <2>2, <3>2, <4>1
    <3> QED BY <3>4, <3>5
  <2> QED BY <1>2, <2>1, <2>7, <2>8, <2>9 DEF Kept, Announced, CbStops
<1>6. CASE Start
  <2>1. ranging = "init" /\ ranging' \in {"notify", "idle"} /\ UNCHANGED <<cb, uwbQueue, announce>>
    BY <1>6 DEF Start
  <2>2. ~Halting' /\ ~Going BY <2>1 DEF Kept, Halting, Going
  <2>3. InitsFirst' BY <2>2 DEF InitsFirst, Halting
  <2> QED BY <1>2, <2>1, <2>2, <2>3 DEF Kept, Announced, CbStops
<1>7. CASE QueueAnnounce
  <2>1. /\ ranging = "notify" /\ ranging' = "active" /\ UNCHANGED <<cb, uwbQueue>>
        /\ announce' \in {announce, announce + 1}
    BY <1>7 DEF QueueAnnounce
  <2>2. ~Halting' /\ ~Going BY <2>1 DEF Kept, Halting, Going
  <2>3. ~Announced /\ ~Asked /\ ~Armed /\ ~Stopping /\ ~CbStops BY <2>2 DEF Kept
  <2>4. announce = 0 BY <1>3, <2>3 DEF Announced
  <2>5. announce' <= 1 BY <2>1, <2>4
  <2>6. InitsFirst' BY <2>2 DEF InitsFirst, Halting
  <2>7. Going' /\ ~CbStops' BY <2>1, <2>2, <2>3 DEF Going, CbStops
  <2> QED BY <1>2, <2>2, <2>3, <2>5, <2>6, <2>7 DEF Kept
<1>8. CASE Draw \/ Obey \/ Forget
  BY <1>4, <1>8 DEF Draw, Obey, Forget, rangingVars, CbStops
<1>9. CASE AnchorSends /\ Send
  <2>1. CASE Skip("challenge", "idle") \/ Skip("discAdv", "idle")
    BY <1>4, <2>1 DEF Skip, rangingVars, CbStops
  <2>2. CASE AskDoor("unlock", "UNLOCK", "idle") \/ AskDoor("lock", "LOCK", "idle")
             \/ AskDoor("stopLock", "LOCK", "stop") \/ AskDoor("discLock", "LOCK", "discAdv")
    BY <1>4, <2>2 DEF AskDoor, rangingVars, CbStops
  <2>3. ~AskRanging("discDeinit", "DEINIT", "discLock") BY DEF AskRanging, DiscLater
  \* The queue grows behind what is in it.
  <2>4. ASSUME NEW cmd \in UwbCommands, uwbQueue' = Append(uwbQueue, cmd)
        PROVE  /\ Len(uwbQueue') = Len(uwbQueue) + 1
               /\ \A i \in 1..Len(uwbQueue) : uwbQueue'[i] = uwbQueue[i]
               /\ uwbQueue'[Len(uwbQueue) + 1] = cmd
    BY <1>3, <2>4
  <2>5. CASE AskRanging("init", "INIT", "idle") /\ Len(uwbQueue) < UwbDepth
    <3>1. cb' = "idle" /\ UNCHANGED <<ranging, announce>> /\ uwbQueue' = Append(uwbQueue, "INIT")
      BY <2>5 DEF AskRanging
    <3>2. /\ Len(uwbQueue') = Len(uwbQueue) + 1
          /\ \A i \in 1..Len(uwbQueue) : uwbQueue'[i] = uwbQueue[i]
          /\ uwbQueue'[Len(uwbQueue) + 1] = "INIT"
      BY <2>4, <3>1 DEF UwbCommands
    <3>3. Halting' <=> Halting BY <1>3, <3>2 DEF Halting
    <3>4. InitsFirst' BY <1>3, <3>1, <3>2 DEF Kept, InitsFirst
    <3> QED BY <1>2, <3>1, <3>3, <3>4 DEF Kept, Announced, Going, CbStops
  <2>6. CASE AskRanging("stop", "DEINIT", "idle") /\ Len(uwbQueue) < UwbDepth
    <3>1. /\ cb = "stop" /\ cb' = "idle" /\ UNCHANGED <<ranging, announce>>
          /\ uwbQueue' = Append(uwbQueue, "DEINIT")
      BY <2>6 DEF AskRanging
    <3>2. /\ Len(uwbQueue') = Len(uwbQueue) + 1
          /\ \A i \in 1..Len(uwbQueue) : uwbQueue'[i] = uwbQueue[i]
      BY <2>4, <3>1 DEF UwbCommands
    <3>3. /\ ranging = "active" /\ ~Halting
          /\ ~Announced /\ ~Asked /\ ~Armed /\ ~Stopping
      BY <3>1 DEF Kept, CbStops, Going
    <3>4. \A i \in 1..Len(uwbQueue) : uwbQueue[i] = "INIT"
      BY <1>3, <3>3 DEF Halting, UwbCommands
    <3>5. InitsFirst'
      <4> SUFFICES ASSUME NEW i \in 1..Len(uwbQueue'), NEW j \in 1..Len(uwbQueue'), i < j
                   PROVE  ranging' = "active" /\ \A k \in 1..i : uwbQueue'[k] = "INIT"
        BY DEF InitsFirst
      <4>1. i \in 1..Len(uwbQueue) BY <1>3, <3>2
      <4>2. ASSUME NEW k \in 1..i PROVE uwbQueue'[k] = "INIT"
        <5>1. k \in 1..Len(uwbQueue) BY <1>3, <4>1
        <5> QED BY <3>2, <3>4, <5>1
      <4> QED BY <3>1, <3>3, <4>2
    <3>6. ~Announced' BY <3>1, <3>3 DEF Announced
    <3> QED BY <1>2, <3>1, <3>3, <3>5, <3>6 DEF Kept, CbStops
  <2>7. CASE \/ AskRanging("init", "INIT", "idle") /\ ~(Len(uwbQueue) < UwbDepth)
             \/ AskRanging("stop", "DEINIT", "idle") /\ ~(Len(uwbQueue) < UwbDepth)
    <3>1. cb' = "idle" /\ UNCHANGED <<ranging, announce, uwbQueue>> BY <2>7 DEF AskRanging
    <3> QED BY <1>4, <3>1 DEF CbStops
  <2> QED BY <1>9, <2>1, <2>2, <2>3, <2>5, <2>6, <2>7 DEF Send
<1> QED
  BY <1>5, <1>6, <1>7, <1>8, <1>9 DEF AnchorWorks, AnchorSends, AnchorForgets

LEMMA RoundStep ==
  /\ CarTypes /\ LinkKnown /\ DiscLater /\ StopUnlessStray /\ InitWhere /\ RoundInv
  /\ [CarNext]_carVars
  => RoundInv'
<1> SUFFICES ASSUME CarTypes, LinkKnown, DiscLater, StopUnlessStray, InitWhere, RoundInv,
                    [CarNext]_carVars, link', excused' \cap {"ranging", "stray"} = {}
             PROVE  Round'
  BY DEF RoundInv, Undisturbed
<1>1. WordTypes /\ QueueTypes BY DEF CarTypes, TagTypes
<1>2. ASSUME link, excused \subseteq excused' PROVE Round /\ deviceConnected
  BY <1>2 DEF RoundInv, Undisturbed, LinkKnown
<1>3. Round => StopLast /\ (Armed => ~Stopping) BY DEF Round, OneHand
<1>4. CASE Connect
  <2>1. /\ "ranging" \notin Leftovers /\ excused' = Leftovers \cup (excused \cap Lingers)
        /\ TagConnect /\ Accept
    BY <1>4 DEF Connect
  <2>2. /\ bleWriteQueue = <<>> /\ "INIT" \notin Range(uwbQueue)
        /\ ranging \notin {"init", "notify"} /\ ~(announce > 0)
    BY <2>1 DEF Leftovers
  <2>3. /\ UNCHANGED <<tuwb, bleWriteQueue, uwbQueue, ranging, announce>>
        /\ tble = "scan" /\ tble' = "challenge" /\ cb' = "challenge"
        /\ events' \subseteq events
    BY <2>1 DEF TagConnect, Accept, tagUwbVars, rangingVars
  <2>4. ~TagRanges
    <3>1. SUFFICES ASSUME TagRanges PROVE FALSE
      OBVIOUS
    <3>2. StopInv BY <2>1, <3>1 DEF StopUnlessStray, Lingers
    <3> QED
      BY <2>1, <3>1, <3>2 DEF TagConnect, StopSeen, StopInv, StopPending, TagRanges
  <2>5. ~Asked' /\ ~Armed' BY <2>3, <2>4 DEF Asked, Armed, TagRanges, InitWhere
  <2>6. ~Stopping' /\ StopLast' BY <2>2, <2>3 DEF Stopping, StopLast
  <2>7. InitsFirst' BY <2>2, <2>3 DEF InitsFirst, Range, QueueTypes
  <2>8. announce' <= 1 /\ ~Announced'
    BY <1>1, <2>2, <2>3 DEF QueueTypes, Announced
  <2> QED BY <2>2, <2>3, <2>5, <2>6, <2>7, <2>8 DEF Round, OneHand, Kept, CbStops
<1>5. CASE LinkBreaks \/ TagRestarts \/ AnchorRestarts \/ TagHangsUp \/ Kick
  BY <1>5 DEF LinkBreaks, TagRestarts, AnchorRestarts, TagHangsUp, Kick, Broken
<1>6. CASE TagLearns \/ AnchorLearns \/ ResponseVanishes
  BY <1>6 DEF TagLearns, AnchorLearns, ResponseVanishes
<1>7. CASE \E cmd \in ZoneWords \cup {"TAG_UWB_READY"} : Arrives(cmd) \/ Vanishes(cmd)
  <2>1. PICK cmd \in ZoneWords \cup {"TAG_UWB_READY"} : Arrives(cmd) BY <1>7 DEF Vanishes
  <2>2. link /\ excused \subseteq excused' /\ TagSends(cmd) /\ Hears(cmd)
    BY <2>1 DEF Arrives
  <2>3. Round BY <1>2, <2>2
  <2>4. UNCHANGED <<announce, ranging, uwbQueue>> BY <2>2 DEF Hears, rangingVars
  <2>5. CASE cmd = "TAG_UWB_READY"
    <3>1. TagRequest /\ cb' \in {"idle", "init"}
      BY <2>2, <2>5 DEF TagSends, Hears, ZoneWords
    <3>2. TagTurn BY <1>3, <2>3, <3>1, BleTurn DEF BleSteps
    <3> QED BY <2>3, <2>4, <3>1, <3>2, TurnKeepsRound DEF CbStops
  <2>6. CASE cmd \in {"VERIFIED", "WARNING"}
    <3>1. TagTakeWrite(cmd) /\ cb' \in {"idle", "unlock", "lock"}
      BY <2>2, <2>6 DEF TagSends, TagWrite, Hears, ZoneWords
    <3>2. TagTurn BY <1>1, <1>3, <2>3, <3>1, WriteTurn
    <3> QED BY <2>3, <2>4, <3>1, <3>2, TurnKeepsRound DEF CbStops
  \* The round is over for the tag, and the anchor still ranges.
  <2>7. CASE cmd = "UWB_STOP"
    <3>1. TagTakeWrite(cmd) BY <2>2, <2>7 DEF TagSends, TagWrite, ZoneWords
    <3>2. TagTurn /\ Stopping /\ ~Stopping' BY <1>1, <1>3, <2>3, <2>7, <3>1, WriteTurn
    <3>3. Going' BY <2>3, <2>4, <3>2 DEF Round, Kept, Going, Halting
    <3>4. ~Announced' /\ ~Asked' /\ ~Armed'
      BY <2>3, <2>4, <3>2 DEF Round, OneHand, TagTurn, Announced
    <3>5. InitsFirst' /\ announce' <= 1
      BY <2>3, <2>4 DEF Round, OneHand, Kept, InitsFirst
    <3> QED BY <3>2, <3>3, <3>4, <3>5 DEF Round, OneHand, Kept, TagTurn, Going
  <2> QED BY <2>5, <2>6, <2>7 DEF ZoneWords
<1>8. CASE ReadsChallenge \/ ReadsAuthOk \/ Responds
  <2>1. link /\ excused' = excused /\ BleSteps
    BY <1>8 DEF ReadsChallenge, ReadsAuthOk, Responds, TagAlone, BleSteps
  <2>2. UNCHANGED <<cb, announce, ranging, uwbQueue>>
    BY <1>8 DEF ReadsChallenge, ReadsAuthOk, Responds, TagAlone, Answer, serviceVars, rangingVars
  <2>3. Round BY <1>2, <2>1
  <2> QED BY <1>3, <2>1, <2>2, <2>3, BleTurn, TurnKeepsRound DEF CbStops
<1>9. CASE AuthOk
  <2>1. link /\ excused' = excused /\ UNCHANGED <<cb, announce, ranging, uwbQueue>>
    BY <1>9 DEF AuthOk, Verify, rangingVars
  <2>2. UNCHANGED <<events, tble, tuwb, bleWriteQueue>>
    BY <1>9 DEF AuthOk, Notifies, TagNotified, tagVars, tagFlags, tagUwbVars
  <2>3. Round BY <1>2, <2>1
  <2>4. TagTurn
    BY <1>3, <2>2, <2>3 DEF TagTurn, Asked, Armed, TagRanges, Stopping, StopLast
  <2> QED BY <2>1, <2>3, <2>4, TurnKeepsRound DEF CbStops
<1>10. CASE Active
  <2>1. /\ link /\ excused \subseteq excused' /\ UNCHANGED <<cb, ranging, uwbQueue>>
        /\ announce > 0 /\ announce' = announce - 1
    BY <1>10 DEF Active, Announce
  <2>2. events' \in {events, events \cup {"READY"}} /\ UNCHANGED <<tble, tuwb, bleWriteQueue>>
    BY <1>10 DEF Active, Notifies, TagNotified, tagVars, tagFlags, tagUwbVars
  <2>3. Round BY <1>2, <2>1
  <2>4. Going /\ ~CbStops /\ ~Armed /\ ~Stopping
    BY <2>1, <2>3 DEF Round, OneHand, Kept, Announced
  <2>5. ~Armed' /\ ~Stopping' /\ StopLast'
    BY <1>3, <2>2, <2>3, <2>4 DEF Armed, TagRanges, Stopping, StopLast
  <2>6. announce' = 0 /\ ~Announced'
    BY <1>1, <2>1, <2>3 DEF Round, OneHand, QueueTypes, Announced
  <2>7. Going' /\ ~CbStops' /\ InitsFirst'
    BY <2>1, <2>3, <2>4 DEF Going, Halting, CbStops, Round, Kept, InitsFirst
  <2> QED BY <2>5, <2>6, <2>7 DEF Round, OneHand, Kept, Going
<1>11. CASE AnchorWorks \/ AnchorSends \/ AnchorForgets
  <2>1. link /\ excused \subseteq excused'
    BY <1>11 DEF AnchorWorks, AnchorSends, AnchorForgets, AnchorUnseen
  <2> QED BY <1>2, <1>11, <2>1, AnchorKeepsRound
<1>12. CASE TagWorks \/ TagMoves
  <2>1. link /\ excused \subseteq excused' /\ UNCHANGED serviceVars
    BY <1>12 DEF TagWorks, TagMoves, TagAlone
  <2>2. Round BY <1>2, <2>1
  <2>3. BleSteps \/ TakesWrite \/ TagUwbTask \/ Measures
    BY <1>12, CarConstantsOK
    DEF TagWorks, TagMoves, TagBleLocal, TagThrowAway, BleSteps, TakesWrite, Measures
  <2>4. TagTurn
    BY <1>1, <1>3, <2>2, <2>3, BleTurn, WriteTurn, UwbTurn DEF TakesWrite
  <2> QED BY <2>1, <2>2, <2>4, TurnKeepsRound DEF CbStops, serviceVars, rangingVars
<1>13. CASE UNCHANGED carVars
  <2>1. link /\ excused \subseteq excused' BY <1>13 DEF carVars
  <2>2. Round BY <1>2, <2>1
  <2>3. TagTurn
    BY <1>3, <1>13, <2>2 DEF TagTurn, Asked, Armed, TagRanges, Stopping, StopLast, carVars,
                           tagVars, tagFlags, tagUwbVars
  <2> QED
    BY <1>13, <2>2, <2>3, TurnKeepsRound DEF CbStops, carVars, serviceVars, rangingVars
<1> QED
  BY <1>4, <1>5, <1>6, <1>7, <1>8, <1>9, <1>10, <1>11, <1>12, <1>13 DEF CarNext, TagTalks

\* While the tag measures over a working link, the anchor ranges too and no command that
\* would stop it is under way, whatever becomes of the connections before.
THEOREM NeverRangesAlone == CarSpec => []RangesTogether
<1> DEFINE Inv == /\ CarTypes /\ AuthInv /\ DiscLater
                  /\ StopUnlessStray /\ InitWhere /\ RoundInv
<1>1. CarInit => Inv
  <2>1. CarInit => DiscLater /\ InitWhere /\ RoundInv
    BY DEF CarInit, TagInit, TagBooted, ServiceInit, DiscLater, InitWhere, RoundInv, Undisturbed
  <2>2. CarInit => StopUnlessStray BY TagStarts DEF CarInit, StopUnlessStray
  <2> QED BY <2>1, <2>2, CarTypesInit, AuthInit
<1>2. Inv /\ [CarNext]_carVars => Inv'
  BY CarTypesStep, AuthStep, DiscLaterStep, StopUnlessStrayStep, InitWhereStep, RoundStep
     DEF AuthInv
<1>3. Inv => RangesTogether
  <2> SUFFICES ASSUME Inv, Undisturbed, TagRanges
               PROVE  /\ ranging = "active" /\ "DEINIT" \notin Range(uwbQueue)
                      /\ cb \notin {"stop", "stopLock"} /\ "UWB_STOP" \notin Range(bleWriteQueue)
    BY DEF RangesTogether, Undisturbed
  <2>1. Going /\ ~CbStops /\ ~Stopping
    BY DEF RoundInv, Round, OneHand, Kept, Armed
  <2>2. uwbQueue \in Seq(UwbCommands) /\ bleWriteQueue \in Seq(ZoneWords)
    BY DEF CarTypes, QueueTypes, TagTypes, WordTypes
  <2> QED BY <2>1, <2>2 DEF Going, Halting, Stopping, CbStops, Range
<1> QED BY <1>1, <1>2, <1>3, PTL DEF CarSpec

-----------------------------------------------------------------------------
(* The anchor in the composed system                                        *)

\* Whatever tag and link do, the anchor of the composed system is the one that Anchor
\* is shown to implement.
THEOREM CarServes == CarSpec => ServiceSpec
<1>1. CarInit => ServiceInit BY DEF CarInit
<1>2. CarTypes /\ [CarNext]_carVars => [ServiceNext]_serviceVars
  <2> SUFFICES ASSUME CarTypes, [CarNext]_carVars PROVE [ServiceNext]_serviceVars
    OBVIOUS
  <2>1. heard \in -1..session BY DEF CarTypes, SessionTypes
  <2>2. ZoneWords \cup {"TAG_UWB_READY"} = {"VERIFIED", "WARNING", "UWB_STOP", "TAG_UWB_READY"}
    BY DEF ZoneWords
  <2> QED BY <2>1, <2>2, AnchorSide, Zenon DEF ServiceNext
<1> QED BY <1>1, <1>2, CarTypesInit, CarTypesStep, PTL DEF CarSpec, ServiceSpec

\* A callback that sends a command of the central runs while there is one, those of
\* onDisconnect while there is none.
CallbackOf ==
  /\ deviceConnected \in BOOLEAN
  /\ cb \in {"unlock", "lock", "stopLock", "stop", "init", "challenge"} => deviceConnected
  /\ cb \in {"discDeinit", "discLock", "discAdv"} => ~deviceConnected

LEMMA CallbackOfStep == CallbackOf /\ [ServiceNext]_serviceVars => CallbackOf'
<1> SUFFICES ASSUME CallbackOf, [ServiceNext]_serviceVars PROVE CallbackOf'
  OBVIOUS
<1> USE DEF CallbackOf
<1>1. CASE Accept \/ HangUp \/ ServiceRestart BY <1>1 DEF Accept, HangUp, ServiceRestart
<1>2. CASE Send
  <2>1. deviceConnected' = deviceConnected
    BY <1>2 DEF Send, Skip, AskDoor, AskRanging, sessionVars
  <2>2. \/ cb' = "idle"
        \/ cb = "stopLock" /\ cb' = "stop"
        \/ cb \in {"discDeinit", "discLock"} /\ cb' \in {"discLock", "discAdv"}
    BY <1>2 DEF Send, Skip, AskDoor, AskRanging
  <2> QED BY <2>1, <2>2
<1>3. ASSUME NEW cmd \in {"VERIFIED", "WARNING", "UWB_STOP", "TAG_UWB_READY"}, Hears(cmd)
      PROVE  CallbackOf'
  <2>1. deviceConnected /\ deviceConnected' = deviceConnected BY <1>3 DEF Hears, sessionVars
  <2>2. cb' \in {"idle", "unlock", "lock", "stopLock", "stop", "init"} BY <1>3 DEF Hears
  <2> QED BY <2>1, <2>2
<1>4. ASSUME UNCHANGED <<deviceConnected, cb>> PROVE CallbackOf' BY <1>4
<1>5. CASE \/ Draw \/ TakeCommand \/ Start \/ QueueAnnounce \/ Obey \/ Forget \/ Verify
           \/ Refuse \/ Announce
  BY <1>4, <1>5 DEF Draw, TakeCommand, Start, QueueAnnounce, Obey, Forget, Verify, Refuse,
                    Announce, sessionVars
<1>6. CASE \E resp \in -1..session : Answer(resp) BY <1>4, <1>6 DEF Answer
<1>7. CASE UNCHANGED serviceVars BY <1>4, <1>7 DEF serviceVars, sessionVars
<1> QED BY <1>1, <1>2, <1>3, <1>5, <1>6, <1>7 DEF ServiceNext, ServiceInternal

\* The doors of the service are those of DoorLock.
LEMMA ServiceDoorStep == CallbackOf /\ [ServiceNext]_serviceVars => [Lock!Next]_(Lock!vars)
<1> SUFFICES ASSUME CallbackOf, [ServiceNext]_serviceVars PROVE [Lock!Next]_(Lock!vars)
  OBVIOUS
<1> DEFINE closing == cb \in {"discDeinit", "discLock"}
<1>1. ASSUME UNCHANGED <<deviceConnected, doorVars>>, closing' = closing
      PROVE  UNCHANGED Lock!vars
  BY <1>1 DEF Lock!vars, doorVars
<1>2. CASE Accept
  <2>1. Lock!Connect BY <1>2 DEF Accept, Lock!Connect, doorVars
  <2> QED BY <2>1 DEF Lock!Next
<1>3. CASE HangUp
  <2>1. Lock!Disconnect BY <1>3 DEF HangUp, Lock!Disconnect, doorVars
  <2> QED BY <2>1 DEF Lock!Next
<1>4. CASE ServiceRestart
  <2>1. Lock!Restart BY <1>4 DEF ServiceRestart, Lock!Restart
  <2> QED BY <2>1 DEF Lock!Next
<1>5. CASE \/ AskDoor("unlock", "UNLOCK", "idle") \/ AskDoor("lock", "LOCK", "idle")
           \/ AskDoor("stopLock", "LOCK", "stop")
  <2>1. \E cmd \in {"LOCK", "UNLOCK"} : Lock!Ask(cmd) BY <1>5 DEF AskDoor
  <2>2. deviceConnected /\ UNCHANGED <<deviceConnected, carUnlocked, door>> /\ closing' = closing
    BY <1>5 DEF AskDoor, CallbackOf, sessionVars
  <2>3. Lock!Request BY <2>1, <2>2 DEF Lock!Request
  <2> QED BY <2>3 DEF Lock!Next
<1>6. CASE AskDoor("discLock", "LOCK", "discAdv")
  <2>1. closing /\ ~closing' /\ Lock!Ask("LOCK") /\ UNCHANGED <<deviceConnected, carUnlocked, door>>
    BY <1>6 DEF AskDoor, sessionVars
  <2>2. Lock!Close BY <2>1 DEF Lock!Close
  <2> QED BY <2>2 DEF Lock!Next
<1>7. CASE \/ Skip("challenge", "idle") \/ Skip("discAdv", "idle")
           \/ AskRanging("stop", "DEINIT", "idle") \/ AskRanging("init", "INIT", "idle")
           \/ AskRanging("discDeinit", "DEINIT", "discLock")
  <2>1. UNCHANGED <<deviceConnected, doorVars>> /\ closing' = closing
    BY <1>7 DEF Skip, AskRanging, sessionVars
  <2> QED BY <1>1, <2>1
<1>8. CASE Obey
  <2>1. Lock!Execute BY <1>8 DEF Obey
  <2> QED BY <2>1 DEF Lock!Next
<1>9. CASE Forget
  <2>1. Lock!Lose BY <1>9 DEF Forget
  <2> QED BY <2>1 DEF Lock!Next
<1>10. CASE Draw \/ TakeCommand \/ Start \/ QueueAnnounce \/ Verify \/ Refuse \/ Announce
  BY <1>1, <1>10 DEF Draw, TakeCommand, Start, QueueAnnounce, Verify, Refuse, Announce,
                     sessionVars
<1>11. CASE \E resp \in -1..session : Answer(resp) BY <1>1, <1>11 DEF Answer
<1>12. ASSUME NEW cmd \in {"VERIFIED", "WARNING", "UWB_STOP", "TAG_UWB_READY"}, Hears(cmd)
       PROVE  UNCHANGED Lock!vars
  <2>1. cb = "idle" /\ cb' \in {"idle", "unlock", "lock", "stopLock", "stop", "init"}
    BY <1>12 DEF Hears
  <2>2. UNCHANGED <<deviceConnected, doorVars>> BY <1>12 DEF Hears, sessionVars
  <2> QED BY <1>1, <2>1, <2>2
<1>13. CASE UNCHANGED serviceVars
  BY <1>1, <1>13 DEF serviceVars, sessionVars
<1> QED
  BY <1>2, <1>3, <1>4, <1>5, <1>6, <1>7, <1>8, <1>9, <1>10, <1>11, <1>12, <1>13
     DEF ServiceNext, ServiceInternal, Send

\* The doors of the composed system obey as DoorLock says: in order, each command at most
\* once, LOCK asked for at the end of every session before the next begins.
THEOREM CarImplementsDoorLock == CarSpec => Lock!Spec
<1>1. ServiceInit => Lock!Init /\ CallbackOf BY DEF ServiceInit, Lock!Init, CallbackOf
<1>2. ServiceSpec => Lock!Spec
  BY <1>1, CallbackOfStep, ServiceDoorStep, PTL DEF ServiceSpec, Lock!Spec
<1> QED BY <1>2, CarServes, PTL
=============================================================================

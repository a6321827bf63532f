------------------------- MODULE AnchorDoorsProofs -------------------------
(***************************************************************************)
(* Anchor implements DoorLock, for every length of the queues, any central  *)
(* and any number of sessions and resets.                                   *)
(***************************************************************************)
EXTENDS AnchorDoors, AnchorProofs

-----------------------------------------------------------------------------
(* The list of pending commands: the one in hand, then the queue            *)

Closing == cb \in {"discDeinit", "discLock"}
AnyCmd == {"none", "LOCK", "UNLOCK"}

LEMMA ListType ==
  ASSUME CanTypes
  PROVE  InHand \in Seq(AnyCmd) /\ canQueue \in Seq(AnyCmd)
<1>1. InHand \in Seq(AnyCmd)
  <2>1. canCmd \in AnyCmd BY DEF CanTypes, AnyCmd
  <2>2. <<canCmd>> \in Seq(AnyCmd) /\ <<>> \in Seq(AnyCmd) BY <2>1
  <2>3. QED BY <2>2 DEF InHand
<1>2. canQueue \in Seq(AnyCmd)
  <2>1. \A i \in 1..Len(canQueue) : canQueue[i] \in AnyCmd
    BY ElementOfSeq DEF CanTypes, QueueOK, AnyCmd
  <2>2. QED BY <2>1 DEF CanTypes, QueueOK
<1> QED BY <1>1, <1>2

\* What a command in hand makes of the list.
LEMMA HandFirst ==
  ASSUME NEW S, NEW c \in S, NEW q \in Seq(S)
  PROVE  /\ <<c>> \o q # <<>>
         /\ Head(<<c>> \o q) = c
         /\ Tail(<<c>> \o q) = q
<1>1. <<c>> \in Seq(S) /\ Len(<<c>>) = 1 /\ <<c>>[1] = c OBVIOUS
<1>2. <<c>> \o q \in Seq(S) /\ Len(<<c>> \o q) = Len(q) + 1
  BY <1>1, ConcatProperties
<1>3. <<c>> \o q # <<>> BY <1>2, EmptySeq
<1> QED BY <1>3

\* To take the first command in hand leaves the list as it is.
LEMMA TakenIsFirst ==
  ASSUME NEW S, NEW q \in Seq(S), q # <<>>
  PROVE  <<Head(q)>> \o Tail(q) = q
BY HeadTailProperties, EmptySeq

\* A send of the callbacks appends to the list, or is refused by a full queue.
LEMMA OfferAsks ==
  ASSUME NEW S, NEW h \in Seq(S), NEW q \in Seq(S), NEW d \in Nat, NEW c \in S,
         Len(h) <= 1
  PROVE  \/ Len(h \o q) <= d /\ h \o Offer(q, d, c) = Append(h \o q, c)
         \/ h \o Offer(q, d, c) = h \o q /\ Len(h \o q) >= d
<1>1. CASE Len(q) < d
  <2>1. Offer(q, d, c) = q \o <<c>> BY <1>1, AppendIsConcat DEF Offer
  <2>2. h \o q \in Seq(S) /\ <<c>> \in Seq(S) BY ConcatProperties
  <2>3. Append(h \o q, c) = (h \o q) \o <<c>> BY <2>2, AppendIsConcat
  <2>4. h \o Offer(q, d, c) = Append(h \o q, c) BY <2>1, <2>2, <2>3, ConcatAssociative
  <2>5. Len(h \o q) = Len(h) + Len(q) /\ Len(h) \in Nat /\ Len(q) \in Nat
    BY ConcatProperties
  <2>6. QED BY <1>1, <2>4, <2>5
<1>2. CASE ~(Len(q) < d)
  <2>1. Offer(q, d, c) = q BY <1>2 DEF Offer
  <2>2. Len(h \o q) = Len(h) + Len(q) /\ Len(h) \in Nat /\ Len(q) \in Nat
    BY ConcatProperties
  <2>3. QED BY <1>2, <2>1, <2>2
<1> QED BY <1>1, <1>2

-----------------------------------------------------------------------------
(* The steps                                                                *)

\* What DoorLock sees of a step that touches neither the doors nor the session.
LEMMA Unseen ==
  ASSUME UNCHANGED <<deviceConnected, canQueue, can, canCmd, carUnlocked, door>>,
         Closing' = Closing
  PROVE  UNCHANGED DL!vars
BY DEF DL!vars, InHand, Closing

\* The callbacks ask for commands, one send at a time.
LEMMA SendStep ==
  ASSUME CanTypes, CallbackInv, NEW from, NEW c \in {"LOCK", "UNLOCK"}, NEW to,
         CbCan(from, c, to),
         \/ from \in {"unlock", "lock"} /\ to = "idle"
         \/ from = "stopLock" /\ to = "stop"
         \/ from = "discLock" /\ c = "LOCK" /\ to = "discAdv"
  PROVE  DL!Next
<1>1. DL!Ask(c)
  <2>1. InHand' = InHand BY DEF CbCan, InHand
  <2>2. canQueue' = Offer(canQueue, CanDepth, c) BY DEF CbCan
  <2>3. CanDepth \in Nat /\ c \in AnyCmd BY Sizes DEF AnyCmd
  <2>4. Len(InHand) <= 1
    <3>1. Len(<<canCmd>>) = 1 /\ Len(<<>>) = 0 OBVIOUS
    <3>2. QED BY <3>1 DEF InHand
  <2>5. QED BY <2>1, <2>2, <2>3, <2>4, ListType, OfferAsks DEF DL!Ask
<1>2. UNCHANGED <<deviceConnected, carUnlocked, door>> BY DEF CbCan, linkVars
<1>3. cb = from /\ cb' = to BY DEF CbCan
<1>4. CASE from = "discLock"
  BY <1>1, <1>2, <1>3, <1>4 DEF DL!Next, DL!Close
<1>5. CASE from # "discLock"
  <2>1. deviceConnected BY <1>3, <1>5 DEF CallbackInv
  <2>2. cb \notin {"discDeinit", "discLock"} /\ cb' \notin {"discDeinit", "discLock"}
    BY <1>3, <1>5
  <2>3. QED BY <1>1, <1>2, <2>1, <2>2 DEF DL!Next, DL!Request
<1> QED BY <1>4, <1>5

\* canTask executes the first command, loses it, or just takes it in hand.
LEMMA CanStep ==
  ASSUME CanTypes, CanTask
  PROVE  DL!Next \/ UNCHANGED DL!vars
<1>1. UNCHANGED <<deviceConnected, cb>>
  BY DEF CanTask, CanReceive, CanTake, CanTakeTimeout, CanFrames, CanUnchanged, linkVars
<1>2. CASE CanReceive
  <2>1. InHand = <<>> /\ InHand' = <<Head(canQueue)>> /\ canQueue' = Tail(canQueue)
    BY <1>2 DEF CanReceive, InHand
  <2>2. (InHand \o canQueue)' = InHand \o canQueue
    BY <1>2, <2>1, ListType, TakenIsFirst, ConcatEmptySeq DEF CanReceive
  <2>3. QED BY <1>1, <1>2, <2>2 DEF DL!vars, CanReceive
<1>3. CASE CanTake
  <2>1. (InHand \o canQueue)' = InHand \o canQueue BY <1>3 DEF CanTake, InHand
  <2>2. QED BY <1>1, <1>3, <2>1 DEF DL!vars, CanTake
<1>4. CASE CanTakeTimeout \/ CanFrames
  <2>1. InHand = <<canCmd>> /\ InHand' = <<>> /\ canQueue' = canQueue /\ canCmd \in AnyCmd
    BY <1>4 DEF CanTakeTimeout, CanFrames, InHand, CanTypes, AnyCmd
  <2>2. /\ InHand \o canQueue # <<>>
        /\ Head(InHand \o canQueue) = canCmd
        /\ (InHand \o canQueue)' = Tail(InHand \o canQueue)
    BY <2>1, ListType, HandFirst, ConcatEmptySeq
  <2>3. CASE CanTakeTimeout
    BY <1>1, <2>2, <2>3 DEF CanTakeTimeout, DL!Lose, DL!Next
  <2>4. CASE CanFrames
    <3>1. PICK ok \in {TRUE, canCmd \notin CanFaults} : CanLock(ok) \/ CanUnlock(ok)
      BY <2>4 DEF CanFrames
    <3>2. \/ canCmd = "LOCK" /\ carUnlocked' = FALSE /\ door' \in {"locked", door}
          \/ canCmd = "UNLOCK" /\ ~carUnlocked /\ carUnlocked' = TRUE /\ door' = "unlocked"
          \/ canCmd = "UNLOCK" /\ ~carUnlocked /\ carUnlocked' = FALSE
             /\ door' \in {"unlocked", door}
          \/ canCmd = "UNLOCK" /\ carUnlocked /\ UNCHANGED <<carUnlocked, door>>
      BY <3>1 DEF CanLock, CanUnlock, Doors
    <3>3. DL!Execute BY <1>1, <2>2, <3>2 DEF DL!Execute
    <3>4. QED BY <3>3 DEF DL!Next
  <2>5. QED BY <1>4, <2>3, <2>4
<1> QED BY <1>2, <1>3, <1>4 DEF CanTask

LEMMA CallbackSteps ==
  ASSUME CanTypes, CallbackInv, Callback
  PROVE  DL!Next \/ UNCHANGED DL!vars
<1>1. CASE CbCan("unlock", "UNLOCK", "idle") BY <1>1, SendStep
<1>2. CASE CbCan("lock", "LOCK", "idle") BY <1>2, SendStep
<1>3. CASE CbCan("stopLock", "LOCK", "stop") BY <1>3, SendStep
<1>4. CASE CbCan("discLock", "LOCK", "discAdv") BY <1>4, SendStep
<1>5. CASE \/ CbBle("challenge", Challenge(connectionGen, session), "idle")
           \/ CbUwb("stop", "DEINIT", "idle")
           \/ CbUwb("init", "INIT", "idle")
           \/ CbUwb("discDeinit", "DEINIT", "discLock")
           \/ CbBle("discAdv", RestartAdv, "idle")
  <2>1. Closing' = Closing BY <1>5 DEF Closing, CbBle, CbUwb
  <2>2. UNCHANGED <<deviceConnected, canQueue, can, canCmd, carUnlocked, door>>
    BY <1>5 DEF CbBle, CbUwb, linkVars, canVars
  <2>3. QED BY <2>1, <2>2, Unseen
<1> QED BY <1>1, <1>2, <1>3, <1>4, <1>5 DEF Callback

\* Every step of the anchor is a step of DoorLock, or DoorLock does not see it.
LEMMA DoorsStep ==
  ASSUME CanTypes, CallbackInv, Next
  PROVE  DL!Next \/ UNCHANGED DL!vars
<1>1. CASE OnConnect
  <2>1. (InHand \o canQueue)' = InHand \o canQueue BY <1>1 DEF OnConnect, canVars, InHand
  <2>2. DL!Connect BY <1>1, <2>1 DEF OnConnect, canVars, DL!Connect
  <2>3. QED BY <2>2 DEF DL!Next
<1>2. CASE OnDisconnect
  <2>1. (InHand \o canQueue)' = InHand \o canQueue
    BY <1>2 DEF OnDisconnect, LinkDown, canVars, InHand
  <2>2. DL!Disconnect BY <1>2, <2>1 DEF OnDisconnect, LinkDown, canVars, DL!Disconnect
  <2>3. QED BY <2>2 DEF DL!Next
<1>3. CASE Callback BY <1>3, CallbackSteps
<1>4. CASE CanTask BY <1>4, CanStep
<1>5. CASE Reset
  <2>1. (InHand \o canQueue)' = <<>> BY <1>5 DEF Reset, InHand
  <2>2. DL!Restart BY <1>5, <2>1 DEF Reset, DL!Restart
  <2>3. QED BY <2>2 DEF DL!Next
<1>6. CASE CentralWrites
  <2>1. Closing' = Closing
    BY <1>6 DEF CentralWrites, OnWrite, AfterWrite, OnResponse, CentralRead, Closing, Writes
  <2>2. UNCHANGED <<deviceConnected, canQueue, can, canCmd, carUnlocked, door>>
    BY <1>6 DEF CentralWrites, OnWrite, OnResponse, CentralRead, linkVars, canVars
  <2>3. QED BY <2>1, <2>2, Unseen
<1>7. CASE AdvStops \/ BleTask \/ UwbTask
  <2>1. UNCHANGED <<deviceConnected, cb, canQueue, can, canCmd, carUnlocked, door>>
    BY <1>7 DEF AdvStops, BleTask, BleReceive, BleTimeout, BleCheckChallenge,
                BleNotifyChallenge, BleAuthOk, BleKick, BleNotifyActive, BleRestartAdv,
                BleRefreshDue, BleRefreshAdv, BleNoRefresh, BleUnchanged, UwbTask,
                UwbWake, UwbInit, UwbSendNotify, UwbSetBit, UwbPoll, UwbTake,
                UwbTakeTimeout, UwbRanged, UwbDeinit, UwbClearBit, UwbUnchanged,
                linkVars, canVars
  <2>2. QED BY <2>1, Unseen DEF Closing
<1> QED BY <1>1, <1>2, <1>3, <1>4, <1>5, <1>6, <1>7 DEF Next

\* The doors move only by commands that a session or its end asked for, in that
\* order and each at most once; the LOCK of onDisconnect comes before all
\* commands of the next session.
THEOREM AnchorImplementsDoorLock == Spec => ImplementsDoorLock
<1>1. Init => DL!Init
  <2>1. Init => InHand \o canQueue = <<>> BY DEF Init, Booted, InHand
  <2>2. QED BY <2>1 DEF Init, Booted, DL!Init
<1>2. CanTypes /\ CallbackInv /\ [Next]_vars => [DL!Next]_DL!vars
  <2>1. UNCHANGED vars => UNCHANGED DL!vars
    BY DEF vars, linkVars, canVars, DL!vars, InHand
  <2>2. QED BY <2>1, DoorsStep
<1>3. Spec => []CanTypes
  <2>1. TypeOK => CanTypes BY DEF TypeOK
  <2>2. QED BY <2>1, TypeCorrect, PTL
<1>4. QED BY <1>1, <1>2, <1>3, LockAlways, PTL DEF Spec, ImplementsDoorLock, DL!Spec
=============================================================================

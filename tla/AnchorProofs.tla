---------------------------- MODULE AnchorProofs ----------------------------
(***************************************************************************)
(* Proofs about Anchor, for every length of the queues, every GenMod, every *)
(* central and any number of sessions and resets.                           *)
(***************************************************************************)
EXTENDS AnchorInv, SequenceTheorems, TLAPS

-----------------------------------------------------------------------------
(* Queues                                                                   *)

\* xQueueSend never makes a queue longer than it is, and keeps what it holds.
LEMMA OfferType ==
  ASSUME NEW S, NEW q, NEW d \in Nat, NEW m \in S, QueueOK(q, S, d)
  PROVE  QueueOK(Offer(q, d, m), S, d)
<1>1. CASE Len(q) < d
  BY <1>1, Len(q) \in Nat, Append(q, m) \in Seq(S), Len(Append(q, m)) = Len(q) + 1
  DEF Offer, QueueOK
<1>2. CASE ~(Len(q) < d)
  BY <1>2 DEF Offer, QueueOK
<1> QED BY <1>1, <1>2

\* What a queue holds after a send: one element more, the last one, or the same.
LEMMA OfferElements ==
  ASSUME NEW S, NEW q \in Seq(S), NEW d \in Nat, NEW m \in S
  PROVE  \/ /\ Offer(q, d, m) = q
            /\ Len(q) >= d
         \/ /\ Len(q) < d
            /\ Len(Offer(q, d, m)) = Len(q) + 1
            /\ Offer(q, d, m)[Len(q) + 1] = m
            /\ \A i \in 1..Len(q) : Offer(q, d, m)[i] = q[i]
<1>1. CASE Len(q) < d
  <2>1. Offer(q, d, m) = Append(q, m) BY <1>1 DEF Offer
  <2>2. QED BY <1>1, <2>1, AppendProperties
<1>2. CASE ~(Len(q) < d)
  <2>1. Offer(q, d, m) = q BY <1>2 DEF Offer
  <2>2. QED BY <1>2, <2>1
<1> QED BY <1>1, <1>2

\* A receive leaves a queue, and hands out one of its elements.
LEMMA TailType ==
  ASSUME NEW S, NEW q, NEW d \in Nat, QueueOK(q, S, d), q # <<>>
  PROVE  QueueOK(Tail(q), S, d) /\ Head(q) \in S
BY HeadTailProperties, EmptySeq DEF QueueOK

\* What a queue holds after a receive.
LEMMA TailElements ==
  ASSUME NEW S, NEW q \in Seq(S), q # <<>>
  PROVE  /\ Tail(q) \in Seq(S)
         /\ Len(q) \in Nat \ {0}
         /\ Len(Tail(q)) = Len(q) - 1
         /\ Head(q) \in S
         /\ Head(q) = q[1]
         /\ \A i \in 1..Len(Tail(q)) : Tail(q)[i] = q[i + 1]
BY HeadTailProperties, EmptySeq

-----------------------------------------------------------------------------
(* Types                                                                    *)

\* What the types need of the constants.
LEMMA Sizes ==
  /\ BleDepth \in Nat /\ UwbDepth \in Nat /\ CanDepth \in Nat
  /\ GenMod \in Nat /\ GenMod > 1
BY ConstantsOK

\* The messages that are queued are messages.
LEMMA FixedMessages == NotifyActive \in BleMsg /\ RestartAdv \in BleMsg /\ NoMsg \in BleMsg
BY DEF NotifyActive, RestartAdv, NoMsg, BleMsg

LEMMA SessionMessages ==
  ASSUME NEW g \in Int, NEW s \in Nat
  PROVE  Challenge(g, s) \in BleMsg /\ Verify(g, s) \in BleMsg
BY DEF BleMsg, Challenge, Verify

\* An empty queue.
LEMMA EmptyType == ASSUME NEW S, NEW d \in Nat PROVE QueueOK(<<>>, S, d)
BY DEF QueueOK

\* The state the program starts in.
LEMMA InitTypeOK == Init => TypeOK
<1> SUFFICES ASSUME Init PROVE TypeOK OBVIOUS
<1>1. LinkTypes BY DEF Init, Booted, LinkTypes, CbPcs
<1>2. BleTypes BY Sizes, FixedMessages, EmptyType DEF Init, Booted, BleTypes, BlePcs
<1>3. UwbTypes BY Sizes, EmptyType DEF Init, Booted, UwbTypes, UwbPcs
<1>4. CanTypes BY Sizes, EmptyType DEF Init, Booted, CanTypes
<1>5. CountTypes BY Sizes DEF Init, Booted, CountTypes, NoChallenge
<1> QED BY <1>1, <1>2, <1>3, <1>4, <1>5 DEF TypeOK

\* The flags and the program counter of the callbacks.
LEMMA LinkTypesStep == ASSUME LinkTypes, Next PROVE LinkTypes'
<1>1. CASE OnConnect BY <1>1 DEF LinkTypes, OnConnect, CbPcs
<1>2. CASE OnDisconnect BY <1>2 DEF LinkTypes, OnDisconnect, LinkDown, CbPcs
<1>3. CASE CentralWrites
  BY <1>3 DEF LinkTypes, CentralWrites, OnWrite, AfterWrite, Writes, CentralRead,
              OnResponse, linkVars, CbPcs
<1>4. CASE Callback
  BY <1>4 DEF LinkTypes, Callback, CbBle, CbUwb, CbCan, linkVars, CbPcs
<1>5. CASE AdvStops BY <1>5 DEF LinkTypes, AdvStops
<1>6. CASE BleTask
  BY <1>6 DEF LinkTypes, BleTask, BleReceive, BleTimeout, BleCheckChallenge,
              BleNotifyChallenge, BleAuthOk, BleKick, BleNotifyActive, BleRestartAdv,
              BleRefreshDue, BleRefreshAdv, BleNoRefresh, BleUnchanged
<1>7. CASE UwbTask
  BY <1>7 DEF LinkTypes, UwbTask, UwbWake, UwbInit, UwbSendNotify, UwbSetBit, UwbPoll,
              UwbTake, UwbTakeTimeout, UwbRanged, UwbDeinit, UwbClearBit, UwbUnchanged,
              linkVars
<1>8. CASE CanTask
  BY <1>8 DEF LinkTypes, CanTask, CanReceive, CanTake, CanTakeTimeout, CanFrames,
              CanUnchanged, linkVars
<1>9. CASE Reset BY <1>9 DEF LinkTypes, Reset, CbPcs
<1> QED BY <1>1, <1>2, <1>3, <1>4, <1>5, <1>6, <1>7, <1>8, <1>9 DEF Next

\* bleTask and its queue, which the callbacks and uwbTask send to.
LEMMA BleTypesStep == ASSUME BleTypes, CountTypes, Next PROVE BleTypes'
<1>1. CASE OnConnect BY <1>1 DEF BleTypes, OnConnect, bleVars
<1>2. CASE OnDisconnect BY <1>2 DEF BleTypes, OnDisconnect, LinkDown, bleVars
<1>3. CASE CentralWrites
  <2>1. ASSUME NEW resp \in Int, OnResponse(resp) PROVE BleTypes'
    <3>1. Verify(resp, session) \in BleMsg BY SessionMessages DEF CountTypes
    <3>2. QueueOK(bleQueue', BleMsg, BleDepth)
      BY <2>1, <3>1, OfferType, Sizes DEF OnResponse, BleTypes
    <3>3. QED BY <2>1, <3>2 DEF OnResponse, BleTypes
  <2>2. CASE ~\E resp \in Int : OnResponse(resp)
    BY <1>3, <2>2 DEF BleTypes, CentralWrites, OnWrite, CentralRead, bleVars, CountTypes,
                      Garbage
  <2>3. QED BY <2>1, <2>2
<1>4. CASE Callback
  <2>1. ASSUME NEW from, NEW m \in BleMsg, NEW to, CbBle(from, m, to) PROVE BleTypes'
    <3>1. QueueOK(bleQueue', BleMsg, BleDepth)
      BY <2>1, OfferType, Sizes DEF CbBle, BleTypes
    <3>2. QED BY <2>1, <3>1 DEF CbBle, BleTypes
  <2>2. Challenge(connectionGen, session) \in BleMsg
    BY SessionMessages DEF CountTypes
  <2>3. ASSUME NEW from, NEW c, NEW to, CbUwb(from, c, to) \/ CbCan(from, c, to)
        PROVE  BleTypes'
    BY <2>3 DEF CbUwb, CbCan, bleVars, BleTypes
  <2>4. QED BY <1>4, <2>1, <2>2, <2>3, FixedMessages DEF Callback
<1>5. CASE AdvStops BY <1>5 DEF BleTypes, AdvStops, bleVars
<1>6. CASE BleTask
  <2>1. CASE BleReceive
    <3>1. QueueOK(Tail(bleQueue), BleMsg, BleDepth) /\ Head(bleQueue) \in BleMsg
      BY <2>1, TailType, Sizes DEF BleReceive, BleTypes
    <3>2. Head(bleQueue).of \in Nat BY <3>1 DEF BleMsg
    <3>3. QED BY <2>1, <3>1, <3>2, FixedMessages DEF BleReceive, BleTypes, BlePcs
  <2>2. CASE ~BleReceive
    BY <1>6, <2>2, FixedMessages
    DEF BleTypes, BlePcs, BleTask, BleTimeout, BleCheckChallenge, BleNotifyChallenge,
        BleAuthOk, BleKick, BleNotifyActive, BleRestartAdv, BleRefreshDue, BleRefreshAdv,
        BleNoRefresh
  <2>3. QED BY <2>1, <2>2
<1>7. CASE UwbTask
  <2>1. CASE UwbSendNotify
    <3>1. QueueOK(bleQueue', BleMsg, BleDepth)
      BY <2>1, OfferType, Sizes, FixedMessages DEF UwbSendNotify, BleTypes
    <3>2. QED BY <2>1, <3>1 DEF UwbSendNotify, UwbUnchanged, BleTypes
  <2>2. CASE ~UwbSendNotify
    BY <1>7, <2>2 DEF BleTypes, UwbTask, UwbWake, UwbInit, UwbSetBit, UwbPoll, UwbTake,
                      UwbTakeTimeout, UwbRanged, UwbDeinit, UwbClearBit, UwbUnchanged
  <2>3. QED BY <2>1, <2>2
<1>8. CASE CanTask
  BY <1>8 DEF BleTypes, CanTask, CanReceive, CanTake, CanTakeTimeout, CanFrames,
              CanUnchanged, bleVars
<1>9. CASE Reset BY <1>9, Sizes, EmptyType, FixedMessages DEF BleTypes, BlePcs, Reset
<1> QED BY <1>1, <1>2, <1>3, <1>4, <1>5, <1>6, <1>7, <1>8, <1>9 DEF Next

\* uwbTask, its queue and the DW3000, which canTask turns off.
LEMMA UwbTypesStep == ASSUME UwbTypes, Next PROVE UwbTypes'
<1>1. CASE OnConnect BY <1>1 DEF UwbTypes, OnConnect, uwbVars
<1>2. CASE OnDisconnect BY <1>2 DEF UwbTypes, OnDisconnect, LinkDown, uwbVars
<1>3. CASE CentralWrites
  BY <1>3 DEF UwbTypes, CentralWrites, OnWrite, CentralRead, OnResponse, uwbVars
<1>4. CASE Callback
  <2>1. ASSUME NEW from, NEW c \in {"INIT", "DEINIT"}, NEW to, CbUwb(from, c, to)
        PROVE  UwbTypes'
    <3>1. QueueOK(uwbQueue', {"INIT", "DEINIT"}, UwbDepth)
      BY <2>1, OfferType, Sizes DEF CbUwb, UwbTypes
    <3>2. QED BY <2>1, <3>1 DEF CbUwb, UwbTypes
  <2>2. ASSUME NEW from, NEW m, NEW to, CbBle(from, m, to) \/ CbCan(from, m, to)
        PROVE  UwbTypes'
    BY <2>2 DEF CbBle, CbCan, uwbVars, UwbTypes
  <2>3. QED BY <1>4, <2>1, <2>2 DEF Callback
<1>5. CASE AdvStops BY <1>5 DEF UwbTypes, AdvStops, uwbVars
<1>6. CASE BleTask
  BY <1>6 DEF UwbTypes, BleTask, BleReceive, BleTimeout, BleCheckChallenge,
              BleNotifyChallenge, BleAuthOk, BleKick, BleNotifyActive, BleRestartAdv,
              BleRefreshDue, BleRefreshAdv, BleNoRefresh, BleUnchanged, uwbVars
<1>7. CASE UwbTask
  BY <1>7, Sizes, TailType
  DEF UwbTypes, UwbPcs, UwbTask, UwbWake, UwbInit, UwbSendNotify, UwbSetBit, UwbPoll,
      UwbTake, UwbTakeTimeout, UwbRanged, UwbDeinit, UwbClearBit
<1>8. CASE CanTask
  BY <1>8 DEF UwbTypes, CanTask, CanReceive, CanTake, CanTakeTimeout, CanFrames,
              CanUnchanged
<1>9. CASE Reset BY <1>9, Sizes, EmptyType DEF UwbTypes, UwbPcs, Reset
<1> QED BY <1>1, <1>2, <1>3, <1>4, <1>5, <1>6, <1>7, <1>8, <1>9 DEF Next

\* canTask, its queue, the doors, and the mutex that uwbTask takes as well.
LEMMA CanTypesStep == ASSUME CanTypes, Next PROVE CanTypes'
<1>1. CASE OnConnect BY <1>1 DEF CanTypes, OnConnect, canVars
<1>2. CASE OnDisconnect BY <1>2 DEF CanTypes, OnDisconnect, LinkDown, canVars
<1>3. CASE CentralWrites
  BY <1>3 DEF CanTypes, CentralWrites, OnWrite, CentralRead, OnResponse, canVars
<1>4. CASE Callback
  <2>1. ASSUME NEW from, NEW c \in {"LOCK", "UNLOCK"}, NEW to, CbCan(from, c, to)
        PROVE  CanTypes'
    <3>1. QueueOK(canQueue', {"LOCK", "UNLOCK"}, CanDepth)
      BY <2>1, OfferType, Sizes DEF CbCan, CanTypes
    <3>2. QED BY <2>1, <3>1 DEF CbCan, CanTypes
  <2>2. ASSUME NEW from, NEW m, NEW to, CbBle(from, m, to) \/ CbUwb(from, m, to)
        PROVE  CanTypes'
    BY <2>2 DEF CbBle, CbUwb, canVars, CanTypes
  <2>3. QED BY <1>4, <2>1, <2>2 DEF Callback
<1>5. CASE AdvStops BY <1>5 DEF CanTypes, AdvStops, canVars
<1>6. CASE BleTask
  BY <1>6 DEF CanTypes, BleTask, BleReceive, BleTimeout, BleCheckChallenge,
              BleNotifyChallenge, BleAuthOk, BleKick, BleNotifyActive, BleRestartAdv,
              BleRefreshDue, BleRefreshAdv, BleNoRefresh, BleUnchanged, canVars
<1>7. CASE UwbTask
  BY <1>7 DEF CanTypes, UwbTask, UwbWake, UwbInit, UwbSendNotify, UwbSetBit, UwbPoll,
              UwbTake, UwbTakeTimeout, UwbRanged, UwbDeinit, UwbClearBit, TakeMutex,
              UwbUnchanged, canVars
<1>8. CASE CanTask
  <2>1. CASE CanReceive
    <3>1. /\ QueueOK(Tail(canQueue), {"LOCK", "UNLOCK"}, CanDepth)
          /\ Head(canQueue) \in {"LOCK", "UNLOCK"}
      BY <2>1, TailType, Sizes DEF CanReceive, CanTypes
    <3>2. QED BY <2>1, <3>1 DEF CanReceive, CanTypes
  <2>2. CASE CanTake \/ CanTakeTimeout
    BY <2>2 DEF CanTypes, CanTake, CanTakeTimeout, TakeMutex
  <2>3. CASE CanFrames
    BY <2>3 DEF CanTypes, CanFrames, CanLock, CanUnlock, Doors
  <2>4. QED BY <1>8, <2>1, <2>2, <2>3 DEF CanTask
<1>9. CASE Reset BY <1>9, Sizes, EmptyType DEF CanTypes, Reset
<1> QED BY <1>1, <1>2, <1>3, <1>4, <1>5, <1>6, <1>7, <1>8, <1>9 DEF Next

\* The counters, and what the central and the callbacks remember.
LEMMA CountTypesStep == ASSUME CountTypes, BleTypes, Next PROVE CountTypes'
<1>1. CASE OnConnect BY <1>1, Sizes DEF CountTypes, OnConnect, NextGen, NoChallenge
<1>2. CASE OnDisconnect BY <1>2 DEF CountTypes, OnDisconnect, LinkDown, NoChallenge
<1>3. CASE CentralWrites
  <2>1. UNCHANGED <<connectionGen, session, resets, lost>> /\ heard' \in {heard, challenge}
    BY <1>3 DEF CentralWrites, OnWrite, CentralRead, OnResponse, linkVars, ghosts
  <2>2. QED BY <2>1 DEF CountTypes, BleTypes
<1>4. CASE Callback
  BY <1>4 DEF CountTypes, Callback, CbBle, CbUwb, CbCan, Dropped, linkVars, ghosts
<1>5. CASE AdvStops BY <1>5 DEF CountTypes, AdvStops, ghosts
<1>6. CASE BleTask
  <2>1. UNCHANGED <<connectionGen, session, resets, lost>>
    BY <1>6 DEF BleTask, BleReceive, BleTimeout, BleCheckChallenge, BleNotifyChallenge,
                BleAuthOk, BleKick, BleNotifyActive, BleRestartAdv, BleRefreshDue,
                BleRefreshAdv, BleNoRefresh, BleUnchanged
  <2>2. heard' \in {heard, challenge}
    BY <1>6 DEF BleTask, BleReceive, BleTimeout, BleCheckChallenge, BleNotifyChallenge,
                BleAuthOk, BleKick, BleNotifyActive, BleRestartAdv, BleRefreshDue,
                BleRefreshAdv, BleNoRefresh
  <2>3. QED BY <2>1, <2>2 DEF CountTypes, BleTypes
<1>7. CASE UwbTask
  BY <1>7 DEF CountTypes, UwbTask, UwbWake, UwbInit, UwbSendNotify, UwbSetBit, UwbPoll,
              UwbTake, UwbTakeTimeout, UwbRanged, UwbDeinit, UwbClearBit, UwbUnchanged,
              linkVars, ghosts
<1>8. CASE CanTask
  BY <1>8 DEF CountTypes, CanTask, CanReceive, CanTake, CanTakeTimeout, CanFrames,
              CanUnchanged, linkVars
<1>9. CASE Reset BY <1>9, Sizes DEF CountTypes, Reset, NoChallenge
<1> QED BY <1>1, <1>2, <1>3, <1>4, <1>5, <1>6, <1>7, <1>8, <1>9 DEF Next

\* Every variable stays in its type and no queue grows past its length.
THEOREM TypeCorrect == Spec => []TypeOK
<1>1. TypeOK /\ [Next]_vars => TypeOK'
  <2>1. CASE UNCHANGED vars
    BY <2>1 DEF TypeOK, LinkTypes, BleTypes, UwbTypes, CanTypes, CountTypes, vars, linkVars,
                bleVars, uwbVars, canVars, ghosts
  <2>2. CASE Next
    BY <2>2, LinkTypesStep, BleTypesStep, UwbTypesStep, CanTypesStep, CountTypesStep
    DEF TypeOK
  <2>3. QED BY <2>1, <2>2
<1>2. QED BY <1>1, InitTypeOK, PTL DEF Spec

-----------------------------------------------------------------------------
(* The SPI bus                                                              *)

\* The mutex is held by the task that is where the code holds it.
LEMMA MutexStep == ASSUME MutexInv, Next PROVE MutexInv'
<1>1. CASE UwbTask
  <2>1. CASE UwbTake BY <2>1 DEF MutexInv, UwbTake, TakeMutex, UwbUnchanged, canVars
  <2>2. CASE ~UwbTake
    BY <1>1, <2>2 DEF MutexInv, UwbTask, UwbWake, UwbInit, UwbSendNotify, UwbSetBit,
                      UwbPoll, UwbTakeTimeout, UwbRanged, UwbDeinit, UwbClearBit,
                      UwbUnchanged, canVars
  <2>3. QED BY <2>1, <2>2
<1>2. CASE CanTask
  BY <1>2 DEF MutexInv, CanTask, CanReceive, CanTake, CanTakeTimeout, CanFrames, TakeMutex,
              CanUnchanged
<1>3. CASE Reset BY <1>3 DEF MutexInv, Reset
<1>4. CASE OnConnect \/ OnDisconnect \/ CentralWrites \/ Callback \/ AdvStops \/ BleTask
  <2>1. UNCHANGED <<spiMutex, can, uwb, radio>>
    BY <1>4 DEF OnConnect, OnDisconnect, LinkDown, CentralWrites, OnWrite, CentralRead,
                OnResponse, Callback, CbBle, CbUwb, CbCan, AdvStops, BleTask, BleReceive,
                BleTimeout, BleCheckChallenge, BleNotifyChallenge, BleAuthOk, BleKick,
                BleNotifyActive, BleRestartAdv, BleRefreshDue, BleRefreshAdv,
                BleNoRefresh, BleUnchanged, uwbVars, canVars
  <2>2. QED BY <2>1 DEF MutexInv
<1> QED BY <1>1, <1>2, <1>3, <1>4 DEF Next

LEMMA MutexAlways == Spec => []MutexInv
<1>1. Init => MutexInv BY DEF Init, Booted, MutexInv
<1>2. MutexInv /\ [Next]_vars => MutexInv'
  BY MutexStep DEF MutexInv, vars, uwbVars, canVars
<1>3. QED BY <1>1, <1>2, PTL DEF Spec

\* canTask drives the bus only while uwbTask neither ranges nor shuts down and
\* the DW3000 is off the air, whatever the timeouts of xSemaphoreTake do.
THEOREM BusSafe == Spec => []BusExclusive
<1>1. MutexInv => BusExclusive BY DEF MutexInv, BusExclusive
<1>2. QED BY <1>1, MutexAlways, PTL

-----------------------------------------------------------------------------
(* Locking after a disconnect                                               *)

\* Only onDisconnect runs while nobody is connected.
LEMMA CallbackStep == ASSUME CallbackInv, Next PROVE CallbackInv'
<1>1. CASE OnConnect BY <1>1 DEF CallbackInv, OnConnect
<1>2. CASE OnDisconnect BY <1>2 DEF CallbackInv, OnDisconnect, LinkDown
<1>3. CASE CentralWrites
  BY <1>3 DEF CallbackInv, CentralWrites, OnWrite, CentralRead, OnResponse, linkVars
<1>4. CASE Callback
  BY <1>4 DEF CallbackInv, Callback, CbBle, CbUwb, CbCan, linkVars
<1>5. CASE AdvStops BY <1>5 DEF CallbackInv, AdvStops
<1>6. CASE BleTask \/ UwbTask \/ CanTask
  <2>1. UNCHANGED <<deviceConnected, cb>>
    BY <1>6 DEF BleTask, BleReceive, BleTimeout, BleCheckChallenge, BleNotifyChallenge,
                BleAuthOk, BleKick, BleNotifyActive, BleRestartAdv, BleRefreshDue,
                BleRefreshAdv, BleNoRefresh, BleUnchanged, UwbTask, UwbWake, UwbInit,
                UwbSendNotify, UwbSetBit, UwbPoll, UwbTake, UwbTakeTimeout, UwbRanged,
                UwbDeinit, UwbClearBit, UwbUnchanged, CanTask, CanReceive, CanTake,
                CanTakeTimeout, CanFrames, CanUnchanged, linkVars
  <2>2. QED BY <2>1 DEF CallbackInv
<1>7. CASE Reset BY <1>7 DEF CallbackInv, Reset
<1> QED BY <1>1, <1>2, <1>3, <1>4, <1>5, <1>6, <1>7 DEF Next

\* The last element of a queue stays the last one when others are taken.
LEMMA LastStays ==
  ASSUME NEW S, NEW q \in Seq(S), q # <<>>
  PROVE  /\ Tail(q) # <<>> => Tail(q)[Len(Tail(q))] = q[Len(q)]
         /\ Tail(q) = <<>> => Head(q) = q[Len(q)]
<1>1. CASE Tail(q) = <<>>
  <2>1. \A t \in Seq(S) : t = <<>> => Len(t) = 0 BY EmptySeq
  <2>2. Len(Tail(q)) = 0 BY <1>1, <2>1, TailElements
  <2>3. Len(Tail(q)) = Len(q) - 1 /\ Len(q) \in Nat /\ Head(q) = q[1] BY TailElements
  <2>4. Len(q) = 1 BY <2>2, <2>3
  <2>5. QED BY <1>1, <2>3, <2>4
<1>2. CASE Tail(q) # <<>>
  <2>1. Len(Tail(q)) \in 1..Len(Tail(q)) BY <1>2, TailElements, EmptySeq
  <2>2. QED BY <1>2, <2>1, TailElements
<1> QED BY <1>1, <1>2

\* A send that is not dropped is the last element.
LEMMA LastSent ==
  ASSUME NEW S, NEW q \in Seq(S), NEW d \in Nat, NEW m \in S
  PROVE  \/ Dropped(q, d, m) = {m} \cap {"LOCK", "DEINIT"}
         \/ Offer(q, d, m) # <<>> /\ Offer(q, d, m)[Len(Offer(q, d, m))] = m
<1>1. CASE Len(q) < d
  <2>1. Len(Offer(q, d, m)) = Len(q) + 1 /\ Offer(q, d, m)[Len(q) + 1] = m
    BY <1>1, OfferElements
  <2>2. Len(q) \in Nat OBVIOUS
  <2>3. QED BY <2>1, <2>2
<1>2. CASE ~(Len(q) < d) BY <1>2 DEF Dropped
<1> QED BY <1>1, <1>2

\* After the LOCK of onDisconnect canTask sees no other command, and obeys it.
LEMMA LockStep == ASSUME CanTypes, CountTypes, CallbackInv, LockInv, Next PROVE LockInv'
<1> DEFINE Last == canQueue[Len(canQueue)]
<1>1. CASE OnConnect \/ OnDisconnect \/ CentralWrites
  <2>1. ~LockSent'
    BY <1>1 DEF LockSent, OnConnect, OnDisconnect, LinkDown, CentralWrites, OnWrite,
                CentralRead, OnResponse, linkVars
  <2>2. QED BY <2>1 DEF LockInv
<1>2. CASE Callback
  <2>1. CASE CbCan("discLock", "LOCK", "discAdv")
    <3>1. canQueue \in Seq({"LOCK", "UNLOCK"}) /\ CanDepth \in Nat
      BY Sizes DEF CanTypes, QueueOK
    <3>2. \/ Dropped(canQueue, CanDepth, "LOCK") = {"LOCK"} \cap {"LOCK", "DEINIT"}
          \/ canQueue' # <<>> /\ canQueue'[Len(canQueue')] = "LOCK"
      BY <2>1, <3>1, LastSent, "LOCK" \in {"LOCK", "UNLOCK"} DEF CbCan
    <3>3. CASE Dropped(canQueue, CanDepth, "LOCK") = {"LOCK"} \cap {"LOCK", "DEINIT"}
      <4>1. ~LockSent' BY <2>1, <3>3 DEF CbCan, LockSent
      <4>2. QED BY <4>1 DEF LockInv
    <3>4. CASE canQueue' # <<>> /\ canQueue'[Len(canQueue')] = "LOCK"
      BY <3>4 DEF LockInv
    <3>5. QED BY <3>2, <3>3, <3>4
  <2>2. CASE ~CbCan("discLock", "LOCK", "discAdv")
    <3>1. LockSent' => LockSent /\ UNCHANGED <<canQueue, can, canCmd, carUnlocked, door, resets>>
      BY <1>2, <2>2 DEF Callback, CbBle, CbUwb, CbCan, LockSent, CallbackInv, canVars,
                        linkVars, ghosts
    <3>2. QED BY <3>1 DEF LockInv
  <2>3. QED BY <2>1, <2>2
<1>3. CASE AdvStops \/ BleTask \/ UwbTask
  <2>1. UNCHANGED <<deviceConnected, cb, lost, canQueue, can, canCmd, carUnlocked, door,
                  resets>>
    BY <1>3 DEF AdvStops, BleTask, BleReceive, BleTimeout, BleCheckChallenge,
                BleNotifyChallenge, BleAuthOk, BleKick, BleNotifyActive, BleRestartAdv,
                BleRefreshDue, BleRefreshAdv, BleNoRefresh, BleUnchanged, UwbTask,
                UwbWake, UwbInit, UwbSendNotify, UwbSetBit, UwbPoll, UwbTake,
                UwbTakeTimeout, UwbRanged, UwbDeinit, UwbClearBit, UwbUnchanged,
                linkVars, canVars, ghosts
  <2>2. QED BY <2>1 DEF LockInv, LockSent
<1>4. CASE CanTask
  <2>1. CASE CanReceive
    <3>1. canQueue \in Seq({"LOCK", "UNLOCK"}) /\ canQueue # <<>>
      BY <2>1 DEF CanTypes, QueueOK, CanReceive
    <3>2. /\ Tail(canQueue) # <<>> => Tail(canQueue)[Len(Tail(canQueue))] = Last
          /\ Tail(canQueue) = <<>> => Head(canQueue) = Last
      BY <3>1, LastStays
    <3>3. LockSent' => LockSent
      BY <2>1 DEF CanReceive, CanUnchanged, LockSent, linkVars
    <3>4. canQueue' = Tail(canQueue) /\ canCmd' = Head(canQueue) /\ can' # "idle"
      BY <2>1 DEF CanReceive
    <3>5. QED BY <3>1, <3>2, <3>3, <3>4 DEF LockInv
  <2>2. CASE CanTake
    BY <2>2 DEF CanTake, CanUnchanged, LockInv, LockSent, linkVars
  <2>3. CASE CanTakeTimeout
    <3>1. LockSent' => LockSent /\ canCmd # "LOCK"
      BY <2>3 DEF CanTakeTimeout, CanUnchanged, LockSent, linkVars
    <3>2. QED BY <2>3, <3>1 DEF CanTakeTimeout, LockInv
  <2>4. CASE CanFrames
    <3>1. LockSent' => LockSent
      BY <2>4 DEF CanFrames, CanUnchanged, LockSent, linkVars
    <3>2. ASSUME canCmd = "LOCK"
          PROVE  carUnlocked' = FALSE /\ ("LOCK" \in CanFaults \/ door' = "locked")
      <4>1. PICK ok \in {TRUE, canCmd \notin CanFaults} : CanLock(ok) \/ CanUnlock(ok)
        BY <2>4 DEF CanFrames
      <4>2. CanLock(ok) BY <3>2, <4>1 DEF CanUnlock
      <4>3. "LOCK" \in CanFaults \/ ok BY <3>2, <4>1
      <4>4. QED BY <4>2, <4>3 DEF CanLock, Doors
    <3>3. /\ canQueue' = canQueue /\ can' = "idle" /\ resets' = resets /\ can # "idle"
      BY <2>4 DEF CanFrames, CanUnchanged
    <3>4. QED BY <3>1, <3>2, <3>3 DEF LockInv
  <2>5. QED BY <1>4, <2>1, <2>2, <2>3, <2>4 DEF CanTask
<1>5. CASE Reset
  <2>1. resets' > 0 BY <1>5 DEF Reset, CountTypes
  <2>2. QED BY <1>5, <2>1 DEF Reset, LockInv, LockSent
<1> QED BY <1>1, <1>2, <1>3, <1>4, <1>5 DEF Next

LEMMA LockAlways == Spec => [](CallbackInv /\ LockInv)
<1>1. Init => CallbackInv /\ LockInv
  BY DEF Init, Booted, CallbackInv, LockInv, LockSent
<1>2. TypeOK /\ CallbackInv /\ LockInv /\ [Next]_vars
        => (CallbackInv /\ LockInv)'
  <2>1. CASE UNCHANGED vars
    BY <2>1 DEF CallbackInv, LockInv, LockSent, vars, linkVars, canVars, ghosts
  <2>2. CASE Next BY <2>2, CallbackStep, LockStep DEF TypeOK
  <2>3. QED BY <2>1, <2>2
<1>3. QED BY <1>1, <1>2, TypeCorrect, PTL DEF Spec

\* After a disconnect, once canTask has drained its queue, the car is locked.
THEOREM DisconnectAlwaysLocks == Spec => []DisconnectLocks
<1>1. LockInv /\ CanTypes => DisconnectLocks
  BY DEF LockInv, LockSent, CanTypes, DisconnectLocks
<1>2. TypeOK => CanTypes BY DEF TypeOK
<1>3. QED BY <1>1, <1>2, LockAlways, TypeCorrect, PTL

-----------------------------------------------------------------------------
(* Ranging stops after a disconnect                                         *)

\* After the DEINIT of onDisconnect uwbTask sees no other command, and obeys it.
LEMMA StopStep == ASSUME UwbTypes, CallbackInv, MutexInv, StopInv, Next PROVE StopInv'
<1> DEFINE Last == uwbQueue[Len(uwbQueue)]
           Ranging == {"poll", "take", "range", "deinit", "stop", "clear"}
           Sent == StopSent => IF uwbQueue # <<>> THEN Last = "DEINIT"
                               ELSE uwb \in {"idle", "deinit", "stop", "clear"}
           Flag == uwbActive => uwb \in Ranging
           Radio == SlowBus \/ (uwb \in {"idle", "clear"} => radio = "reset")
<1>0. Sent /\ Flag /\ Radio BY DEF StopInv
<1>1. Flag' /\ Radio'
  <2>1. CASE UwbTask
    BY <1>0, <2>1 DEF UwbTask, UwbWake, UwbInit, UwbSendNotify, UwbSetBit, UwbPoll, UwbTake,
                      UwbTakeTimeout, UwbRanged, UwbDeinit, UwbClearBit
  <2>2. CASE CanTask
    <3>1. UNCHANGED <<uwbActive, uwb>>
      BY <2>2 DEF CanTask, CanReceive, CanTake, CanTakeTimeout, CanFrames, CanUnchanged
    <3>2. radio' = radio \/ radio = "busy"
      BY <2>2 DEF CanTask, CanReceive, CanTake, CanTakeTimeout, CanFrames
    <3>3. QED BY <1>0, <3>1, <3>2 DEF MutexInv
  <2>3. CASE Reset BY <2>3 DEF Reset
  <2>4. CASE OnConnect \/ OnDisconnect BY <1>0, <2>4 DEF OnConnect, OnDisconnect, LinkDown, uwbVars
  <2>5. CASE CentralWrites \/ Callback \/ AdvStops \/ BleTask
    <3>1. UNCHANGED <<uwbActive, uwb, radio>>
      BY <2>5 DEF CentralWrites, OnWrite, CentralRead, OnResponse, Callback, CbBle,
                  CbUwb, CbCan, AdvStops, BleTask, BleReceive, BleTimeout,
                  BleCheckChallenge, BleNotifyChallenge, BleAuthOk, BleKick,
                  BleNotifyActive, BleRestartAdv, BleRefreshDue, BleRefreshAdv,
                  BleNoRefresh, BleUnchanged, uwbVars
    <3>2. QED BY <1>0, <3>1
  <2>6. QED BY <2>1, <2>2, <2>3, <2>4, <2>5 DEF Next
<1>2. Sent'
  <2>1. CASE OnConnect \/ OnDisconnect \/ CentralWrites
    <3>1. ~StopSent'
      BY <2>1 DEF StopSent, OnConnect, OnDisconnect, LinkDown, CentralWrites, OnWrite,
                  CentralRead, OnResponse, linkVars
    <3>2. QED BY <3>1
  <2>2. CASE CbUwb("discDeinit", "DEINIT", "discLock")
    <3>1. uwbQueue \in Seq({"INIT", "DEINIT"}) /\ UwbDepth \in Nat
      BY Sizes DEF UwbTypes, QueueOK
    <3>2. \/ Dropped(uwbQueue, UwbDepth, "DEINIT") = {"DEINIT"} \cap {"LOCK", "DEINIT"}
          \/ uwbQueue' # <<>> /\ uwbQueue'[Len(uwbQueue')] = "DEINIT"
      BY <2>2, <3>1, LastSent, "DEINIT" \in {"INIT", "DEINIT"} DEF CbUwb
    <3>3. Dropped(uwbQueue, UwbDepth, "DEINIT") = {"DEINIT"} \cap {"LOCK", "DEINIT"}
            => ~StopSent'
      BY <2>2 DEF CbUwb, StopSent
    <3>4. QED BY <3>2, <3>3
  <2>3. CASE Callback /\ ~CbUwb("discDeinit", "DEINIT", "discLock")
    <3>1. StopSent' => StopSent /\ UNCHANGED <<uwbQueue, uwb>>
      BY <2>3 DEF Callback, CbBle, CbUwb, CbCan, Dropped, StopSent, CallbackInv, uwbVars,
                  linkVars, ghosts
    <3>2. QED BY <1>0, <3>1
  <2>4. CASE AdvStops \/ BleTask
    <3>1. UNCHANGED <<deviceConnected, cb, lost, uwbQueue, uwb>>
      BY <2>4 DEF AdvStops, BleTask, BleReceive, BleTimeout, BleCheckChallenge,
                  BleNotifyChallenge, BleAuthOk, BleKick, BleNotifyActive, BleRestartAdv,
                  BleRefreshDue, BleRefreshAdv, BleNoRefresh, BleUnchanged, uwbVars,
                  ghosts
    <3>2. QED BY <1>0, <3>1 DEF StopSent
  <2>5. CASE CanTask
    <3>1. UNCHANGED <<deviceConnected, cb, uwbQueue, uwb>> /\ lost \subseteq lost'
      BY <2>5 DEF CanTask, CanReceive, CanTake, CanTakeTimeout, CanFrames, CanUnchanged,
                  linkVars
    <3>2. QED BY <1>0, <3>1 DEF StopSent
  <2>6. CASE UwbTask
    <3>1. StopSent' = StopSent
      BY <2>6 DEF StopSent, UwbTask, UwbWake, UwbInit, UwbSendNotify, UwbSetBit, UwbPoll,
                  UwbTake, UwbTakeTimeout, UwbRanged, UwbDeinit, UwbClearBit, UwbUnchanged,
                  linkVars, ghosts
    <3>2. CASE (UwbWake \/ UwbPoll) /\ uwbQueue # <<>>
      <4>1. uwbQueue \in Seq({"INIT", "DEINIT"}) BY DEF UwbTypes, QueueOK
      <4>2. /\ Tail(uwbQueue) # <<>> => Tail(uwbQueue)[Len(Tail(uwbQueue))] = Last
            /\ Tail(uwbQueue) = <<>> => Head(uwbQueue) = Last
        BY <3>2, <4>1, LastStays
      <4>3. /\ uwbQueue' = Tail(uwbQueue)
            /\ Head(uwbQueue) = "DEINIT" => uwb' \in {"idle", "deinit"}
        BY <3>2 DEF UwbWake, UwbPoll
      <4>4. QED BY <1>0, <3>1, <3>2, <4>2, <4>3
    <3>3. CASE UwbPoll /\ uwbQueue = <<>>
      BY <1>0, <3>1, <3>3 DEF UwbPoll
    <3>4. CASE ~UwbWake /\ ~UwbPoll
      BY <1>0, <2>6, <3>1, <3>4
      DEF UwbTask, UwbInit, UwbSendNotify, UwbSetBit, UwbTake, UwbTakeTimeout, UwbRanged,
          UwbDeinit, UwbClearBit
    <3>5. QED BY <3>2, <3>3, <3>4 DEF UwbWake
  <2>7. CASE Reset BY <2>7 DEF Reset
  <2>8. QED BY <2>1, <2>2, <2>3, <2>4, <2>5, <2>6, <2>7 DEF Next
<1>3. QED BY <1>1, <1>2 DEF StopInv

LEMMA StopAlways == Spec => []StopInv
<1>1. Init => StopInv BY DEF Init, Booted, StopInv
<1>2. TypeOK /\ CallbackInv /\ MutexInv /\ StopInv /\ [Next]_vars => StopInv'
  <2>1. CASE UNCHANGED vars
    BY <2>1 DEF StopInv, StopSent, vars, linkVars, uwbVars, ghosts
  <2>2. CASE Next BY <2>2, StopStep DEF TypeOK
  <2>3. QED BY <2>1, <2>2
<1>3. QED BY <1>1, <1>2, TypeCorrect, MutexAlways, LockAlways, PTL DEF Spec

\* After a disconnect, once uwbTask has drained its queue, ranging is over.
THEOREM DisconnectAlwaysStopsUwb == Spec => []DisconnectStopsUwb
<1>1. StopInv => DisconnectStopsUwb BY DEF StopInv, StopSent, DisconnectStopsUwb
<1>2. QED BY <1>1, StopAlways, PTL

-----------------------------------------------------------------------------
(* The generation check                                                     *)

\* A request stays fresh when fewer sessions can still begin before its check.
LEMMA FewerToCome ==
  ASSUME NEW m \in BleMsg, NEW s \in Nat, NEW g \in Int, NEW n \in Int, NEW k \in Int,
         k <= n, Fresh(m, s, g, n)
  PROVE  Fresh(m, s, g, k)
BY Sizes DEF Fresh, BleMsg

\* It stays fresh over a new session that was expected, also one that makes
\* connectionGen wrap.
LEMMA SessionExpected ==
  ASSUME NEW m \in BleMsg, NEW s \in Nat, NEW g \in 0..GenMod - 1, NEW n \in Nat,
         n >= 1, Fresh(m, s, g, n)
  PROVE  Fresh(m, s + 1, NextGen(g), n - 1)
<1>1. m.of \in Nat /\ m.data \in 0..GenMod - 1 BY DEF Fresh, BleMsg
<1>2. s + 1 - m.of + (n - 1) <= 2 * BleDepth + 1 BY <1>1, Sizes DEF Fresh
<1>3. CASE s - m.of = g - m.data
  BY <1>1, <1>2, <1>3, Sizes DEF Fresh, NextGen
<1>4. CASE s - m.of = g - m.data + GenMod
  <2>1. g # GenMod - 1 BY <1>1, <1>4, Sizes, ConstantsOK DEF Fresh
  <2>2. QED BY <1>1, <1>2, <1>4, <2>1, Sizes DEF Fresh, NextGen
<1>5. QED BY <1>3, <1>4 DEF Fresh

\* A request just queued is fresh when few sessions can begin before its check.
LEMMA NewRequest ==
  ASSUME NEW s \in Nat, NEW g \in 0..GenMod - 1, NEW n \in Int, n <= 2 * BleDepth + 1
  PROVE  Fresh(Challenge(g, s), s, g, n)
BY Sizes DEF Fresh, Challenge

\* If a fresh request passes the check of bleTask it is of this session.
LEMMA CheckSound ==
  ASSUME NEW m \in BleMsg, NEW s \in Nat, NEW g \in 0..GenMod - 1, NEW n \in Nat,
         Fresh(m, s, g, n), m.data = g
  PROVE  m.of = s
BY Sizes, ConstantsOK DEF Fresh, BleMsg

LEMMA Small ==
  Adv \in 0..1 /\ Adv' \in 0..1 /\ Pending \in 0..2 /\ Pending' \in 0..2
BY DEF Adv, Pending

\* The sessions that can begin before a command is checked, as numbers.
LEMMA Ahead ==
  ASSUME NEW a \in Nat, NEW p \in Nat, NEW b \in Nat, NEW q \in Nat, NEW i \in Nat
  PROVE  /\ a + p + 2 * (i - 1) \in Int
         /\ b + q + 2 * (i - 1) \in Int
         /\ a + p + 2 * ((i + 1) - 1) \in Int
         /\ b + q <= a + p => b + q + 2 * (i - 1) <= a + p + 2 * (i - 1)
         /\ b = a /\ q <= 2 => b + q + 2 * (i - 1) <= a + p + 2 * ((i + 1) - 1)
OBVIOUS

\* A start of advertising counts once, and was expected.
LEMMA OneStart ==
  ASSUME NEW a \in 0..1, NEW b \in 0..1, NEW p \in Nat, NEW q \in Nat, q = p + 1
  PROVE  b + p <= a + q
OBVIOUS

\* What a queued request is, in a state that TypeOK describes.
LEMMA Queued ==
  ASSUME BleTypes, NEW i \in 1..Len(bleQueue)
  PROVE  bleQueue[i] \in BleMsg /\ Len(bleQueue) \in Nat /\ i \in Nat \ {0}
BY DEF BleTypes, QueueOK

\* A step that begins no session keeps requests fresh: commands other than
\* challenge requests are queued, and advertising that bleTask starts counts
\* against what it still had to start.
LEMMA FreshKept ==
  ASSUME BleTypes, CountTypes, FreshInv,
         session' = session, connectionGen' = connectionGen,
         Adv' + Pending' <= Adv + Pending,
         \/ bleQueue' = bleQueue
         \/ \E m \in BleMsg : m.type # "SEND_CHALLENGE"
                              /\ bleQueue' = Offer(bleQueue, BleDepth, m),
         ble' = "delay" => ble = "delay" /\ msg' = msg /\ Adv' <= Adv
  PROVE  FreshInv'
<1> USE Small, Sizes
<1>1. ASSUME NEW i \in 1..Len(bleQueue'), bleQueue'[i].type = "SEND_CHALLENGE"
      PROVE  Fresh(bleQueue'[i], session', connectionGen', Adv' + Pending' + 2 * (i - 1))
  <2>1. i \in 1..Len(bleQueue) /\ bleQueue'[i] = bleQueue[i]
    <3>1. CASE bleQueue' = bleQueue BY <1>1, <3>1
    <3>2. ASSUME NEW m \in BleMsg, m.type # "SEND_CHALLENGE",
                 bleQueue' = Offer(bleQueue, BleDepth, m)
          PROVE  i \in 1..Len(bleQueue) /\ bleQueue'[i] = bleQueue[i]
      <4>1. bleQueue \in Seq(BleMsg) BY DEF BleTypes, QueueOK
      <4>2. Len(bleQueue) \in Nat BY <4>1
      <4>3. \/ bleQueue' = bleQueue
            \/ /\ Len(bleQueue') = Len(bleQueue) + 1
               /\ bleQueue'[Len(bleQueue) + 1] = m
               /\ \A j \in 1..Len(bleQueue) : bleQueue'[j] = bleQueue[j]
        BY <3>2, <4>1, OfferElements
      <4>4. QED BY <1>1, <3>2, <4>2, <4>3
    <3>3. QED BY <3>1, <3>2
  <2>2. Fresh(bleQueue[i], session, connectionGen, Adv + Pending + 2 * (i - 1))
    BY <1>1, <2>1 DEF FreshInv, QueueFresh
  <2> DEFINE n == Adv + Pending + 2 * (i - 1)
             k == Adv' + Pending' + 2 * (i - 1)
  <2>3. bleQueue[i] \in BleMsg /\ i \in Nat BY <2>1, Queued
  <2>4. n \in Int /\ k \in Int /\ k <= n
    <3>1. Adv \in Nat /\ Pending \in Nat /\ Adv' \in Nat /\ Pending' \in Nat OBVIOUS
    <3>2. QED BY <2>3, <3>1, Ahead
  <2>5. Fresh(bleQueue[i], session, connectionGen, n) BY <2>2
  <2> HIDE DEF n, k
  <2>6. Fresh(bleQueue[i], session, connectionGen, k)
    BY <2>3, <2>4, <2>5, FewerToCome DEF CountTypes
  <2>7. QED BY <2>1, <2>6 DEF k
<1>2. ASSUME ble' = "delay" PROVE Fresh(msg', session', connectionGen', Adv')
  BY <1>2, FewerToCome DEF FreshInv, BleTypes, CountTypes
<1>3. QED BY <1>1, <1>2 DEF FreshInv, QueueFresh

\* A new session ages every request by one, and takes the advertising.
LEMMA FreshConnect ==
  ASSUME BleTypes, CountTypes, FreshInv, OnConnect PROVE FreshInv'
<1> USE Small, Sizes
<1>1. Adv = 1 /\ Adv' = 0 /\ Pending' = Pending
  BY DEF OnConnect, Adv, Pending, bleVars
<1>2. /\ bleQueue' = bleQueue /\ ble' = ble /\ msg' = msg
      /\ session' = session + 1 /\ connectionGen' = NextGen(connectionGen)
  BY DEF OnConnect, bleVars
<1>3. session \in Nat /\ connectionGen \in 0..GenMod - 1 BY DEF CountTypes
<1>4. ASSUME NEW i \in 1..Len(bleQueue), bleQueue[i].type = "SEND_CHALLENGE"
      PROVE  Fresh(bleQueue[i], session', connectionGen', Adv' + Pending' + 2 * (i - 1))
  <2> DEFINE n == Adv + Pending + 2 * (i - 1)
  <2>1. Fresh(bleQueue[i], session, connectionGen, n)
    BY <1>4 DEF FreshInv, QueueFresh
  <2>2. n \in Nat /\ n >= 1 /\ n - 1 = Adv' + Pending' + 2 * (i - 1)
    BY <1>1, Queued
  <2> HIDE DEF n
  <2>3. QED BY <1>2, <1>3, <2>1, <2>2, Queued, SessionExpected
<1>5. ASSUME ble = "delay" PROVE Fresh(msg, session', connectionGen', Adv')
  BY <1>1, <1>2, <1>3, <1>5, SessionExpected DEF FreshInv, BleTypes
<1>6. QED BY <1>2, <1>4, <1>5 DEF FreshInv, QueueFresh

\* onConnect queues a request of the session it began.
LEMMA FreshRequest ==
  ASSUME BleTypes, CountTypes, FreshInv,
         CbBle("challenge", Challenge(connectionGen, session), "idle")
  PROVE  FreshInv'
<1> USE Small, Sizes
<1> DEFINE c == Challenge(connectionGen, session)
<1>1. UNCHANGED <<session, connectionGen, advertising, ble, msg>>
      /\ bleQueue' = Offer(bleQueue, BleDepth, c)
  BY DEF CbBle, linkVars
<1>2. Adv' = Adv /\ Pending' = Pending BY <1>1 DEF Adv, Pending
<1>3. session \in Nat /\ connectionGen \in 0..GenMod - 1 /\ c \in BleMsg
  BY SessionMessages DEF CountTypes
<1>4. bleQueue \in Seq(BleMsg) /\ Len(bleQueue) \in Nat BY DEF BleTypes, QueueOK
<1> HIDE DEF c
<1>5. \/ bleQueue' = bleQueue
      \/ /\ Len(bleQueue) < BleDepth
         /\ Len(bleQueue') = Len(bleQueue) + 1
         /\ bleQueue'[Len(bleQueue) + 1] = c
         /\ \A i \in 1..Len(bleQueue) : bleQueue'[i] = bleQueue[i]
  BY <1>1, <1>3, <1>4, OfferElements
<1>6. ASSUME NEW i \in 1..Len(bleQueue'), bleQueue'[i].type = "SEND_CHALLENGE"
      PROVE  Fresh(bleQueue'[i], session, connectionGen, Adv + Pending + 2 * (i - 1))
  <2>1. CASE i \in 1..Len(bleQueue) /\ bleQueue'[i] = bleQueue[i]
    BY <1>6, <2>1 DEF FreshInv, QueueFresh
  <2>2. CASE i = Len(bleQueue) + 1 /\ Len(bleQueue) < BleDepth /\ bleQueue'[i] = c
    <3> DEFINE n == Adv + Pending + 2 * (i - 1)
    <3>1. n \in Int /\ n <= 2 * BleDepth + 1 BY <1>4, <2>2
    <3> HIDE DEF n
    <3>2. Fresh(c, session, connectionGen, n) BY <1>3, <3>1, NewRequest DEF c
    <3>3. QED BY <2>2, <3>2 DEF n
  <2>3. QED BY <1>4, <1>5, <1>6, <2>1, <2>2
<1>7. QED BY <1>1, <1>2, <1>6 DEF FreshInv, QueueFresh

\* bleTask takes a command: those behind it move up.
LEMMA FreshReceive ==
  ASSUME BleTypes, CountTypes, FreshInv, BleReceive PROVE FreshInv'
<1> USE Small, Sizes
<1>1. /\ bleQueue # <<>> /\ bleQueue' = Tail(bleQueue)
      /\ UNCHANGED <<session, connectionGen>>
  BY DEF BleReceive, BleUnchanged
<1>2. Pending = 0 BY DEF BleReceive, Pending
<1>3. Adv' = Adv BY DEF BleReceive, Adv
<1>4. bleQueue \in Seq(BleMsg) BY DEF BleTypes, QueueOK
<1>5. /\ Len(bleQueue) \in Nat \ {0} /\ Len(bleQueue') = Len(bleQueue) - 1
      /\ Head(bleQueue) = bleQueue[1]
      /\ \A i \in 1..Len(bleQueue') : bleQueue'[i] = bleQueue[i + 1]
  BY <1>1, <1>4, TailElements
<1>6. ASSUME NEW i \in 1..Len(bleQueue'), bleQueue'[i].type = "SEND_CHALLENGE"
      PROVE  Fresh(bleQueue'[i], session, connectionGen, Adv' + Pending' + 2 * (i - 1))
  <2>1. i + 1 \in 1..Len(bleQueue) /\ bleQueue'[i] = bleQueue[i + 1] BY <1>5
  <2>2. Fresh(bleQueue[i + 1], session, connectionGen, Adv + Pending + 2 * ((i + 1) - 1))
    BY <1>6, <2>1 DEF FreshInv, QueueFresh
  <2> DEFINE n == Adv + Pending + 2 * ((i + 1) - 1)
             k == Adv' + Pending' + 2 * (i - 1)
  <2>3. bleQueue[i + 1] \in BleMsg BY <2>1, Queued
  <2>4. i \in Nat BY <1>5
  <2>5. n \in Int /\ k \in Int /\ k <= n
    <3>1. Adv \in Nat /\ Pending \in Nat /\ Adv' \in Nat /\ Pending' \in Nat OBVIOUS
    <3>2. Pending' <= 2 OBVIOUS
    <3>3. QED BY <1>3, <2>4, <3>1, <3>2, Ahead
  <2>6. Fresh(bleQueue[i + 1], session, connectionGen, n) BY <2>2
  <2> HIDE DEF n, k
  <2>7. Fresh(bleQueue[i + 1], session, connectionGen, k)
    BY <2>3, <2>5, <2>6, FewerToCome DEF CountTypes
  <2>8. QED BY <2>1, <2>7 DEF k
<1>7. ASSUME ble' = "delay" PROVE Fresh(msg', session, connectionGen, Adv')
  <2>1. msg' = bleQueue[1] /\ bleQueue[1].type = "SEND_CHALLENGE"
    BY <1>5, <1>7 DEF BleReceive
  <2>2. 1 \in 1..Len(bleQueue) BY <1>5
  <2>3. Fresh(bleQueue[1], session, connectionGen, Adv + Pending + 2 * (1 - 1))
    BY <2>1, <2>2 DEF FreshInv, QueueFresh
  <2>4. Adv + Pending + 2 * (1 - 1) = Adv' BY <1>2, <1>3
  <2>5. QED BY <2>1, <2>3, <2>4
<1>8. QED BY <1>1, <1>6, <1>7 DEF FreshInv, QueueFresh

LEMMA FreshStep == ASSUME BleTypes, CountTypes, FreshInv, Next PROVE FreshInv'
<1> USE Small
<1>1. CASE OnConnect BY <1>1, FreshConnect
<1>2. CASE OnDisconnect
  <2>1. UNCHANGED <<session, connectionGen, advertising, bleQueue, ble, msg>>
    BY <1>2 DEF OnDisconnect, LinkDown, bleVars
  <2>2. Adv' = Adv /\ Pending' = Pending BY <2>1 DEF Adv, Pending
  <2>3. QED BY <2>1, <2>2, FreshKept
<1>3. CASE CentralWrites
  <2>1. UNCHANGED <<session, connectionGen, advertising, ble, msg>>
    BY <1>3 DEF CentralWrites, OnWrite, CentralRead, OnResponse, linkVars, bleVars
  <2>2. Adv' = Adv /\ Pending' = Pending BY <2>1 DEF Adv, Pending
  <2>3. CASE \E resp \in Int : OnResponse(resp)
    <3>1. PICK resp \in Int : OnResponse(resp) BY <2>3
    <3>2. Verify(resp, session) \in BleMsg BY SessionMessages DEF CountTypes
    <3>3. Verify(resp, session).type # "SEND_CHALLENGE" BY DEF Verify
    <3>4. bleQueue' = Offer(bleQueue, BleDepth, Verify(resp, session))
      BY <3>1 DEF OnResponse
    <3>5. QED BY <2>1, <2>2, <3>2, <3>3, <3>4, FreshKept
  <2>4. CASE ~\E resp \in Int : OnResponse(resp)
    <3>1. Garbage \in Int /\ heard \in Int BY DEF Garbage, CountTypes
    <3>2. bleQueue' = bleQueue
      BY <1>3, <2>4, <3>1 DEF CentralWrites, OnWrite, CentralRead, bleVars
    <3>3. QED BY <2>1, <2>2, <3>2, FreshKept
  <2>5. QED BY <2>3, <2>4
<1>4. CASE Callback
  <2>1. CASE CbBle("challenge", Challenge(connectionGen, session), "idle")
    BY <2>1, FreshRequest
  <2>2. CASE ~CbBle("challenge", Challenge(connectionGen, session), "idle")
    <3>1. UNCHANGED <<session, connectionGen, advertising, ble, msg>>
      BY <1>4 DEF Callback, CbBle, CbUwb, CbCan, linkVars, bleVars
    <3>2. Adv' = Adv /\ Pending' = Pending BY <3>1 DEF Adv, Pending
    <3>3. bleQueue' = bleQueue \/ bleQueue' = Offer(bleQueue, BleDepth, RestartAdv)
      BY <1>4, <2>2 DEF Callback, CbBle, CbUwb, CbCan, bleVars
    <3>4. RestartAdv.type # "SEND_CHALLENGE" BY DEF RestartAdv
    <3>5. QED BY <3>1, <3>2, <3>3, <3>4, FixedMessages, FreshKept
  <2>3. QED BY <2>1, <2>2
<1>5. CASE AdvStops
  <2>1. UNCHANGED <<session, connectionGen, bleQueue, ble, msg>> /\ advertising' = FALSE
    BY <1>5 DEF AdvStops, bleVars
  <2>2. Adv' = 0 /\ Pending' = Pending BY <2>1 DEF Adv, Pending
  <2>3. QED BY <2>1, <2>2, FreshKept
<1>6. CASE BleTask
  <2>1. CASE BleReceive BY <2>1, FreshReceive
  <2>2. CASE BleTimeout
    <3>1. bleQueue' = <<>> /\ ble' # "delay" BY <2>2 DEF BleTimeout
    <3>2. QED BY <3>1 DEF FreshInv, QueueFresh
  <2>3. CASE ~BleReceive /\ ~BleTimeout
    <3>1. UNCHANGED <<session, connectionGen, bleQueue>> /\ ble' # "delay"
      BY <1>6, <2>3 DEF BleTask, BleCheckChallenge, BleNotifyChallenge, BleAuthOk,
                        BleKick, BleNotifyActive, BleRestartAdv, BleRefreshDue,
                        BleRefreshAdv, BleNoRefresh, BleUnchanged
    <3>2. \/ /\ ble \notin {"wait", "readv"} /\ ble' \notin {"wait", "readv"}
             /\ advertising' = advertising
          \/ ble = "readv" /\ ble' = "refresh"
          \/ ble \in {"refresh", "start"} /\ ble' = "wait"
      BY <1>6, <2>3 DEF BleTask, BleCheckChallenge, BleNotifyChallenge, BleAuthOk,
                        BleKick, BleNotifyActive, BleRestartAdv, BleRefreshDue,
                        BleRefreshAdv, BleNoRefresh
    <3>3. CASE /\ ble \notin {"wait", "readv"} /\ ble' \notin {"wait", "readv"}
               /\ advertising' = advertising
      <4>1. Adv' = Adv /\ Pending' = 1 /\ Pending = 1 BY <3>3 DEF Adv, Pending
      <4>2. QED BY <3>1, <4>1, FreshKept
    <3>4. CASE ble = "readv" /\ ble' = "refresh"
      <4>1. Pending = Pending' + 1 BY <3>4 DEF Pending
      <4>2. Adv' \in 0..1 /\ Adv \in 0..1 /\ Pending' \in Nat /\ Pending \in Nat OBVIOUS
      <4>3. Adv' + Pending' <= Adv + Pending BY <4>1, <4>2, OneStart
      <4>4. QED BY <3>1, <4>3, FreshKept
    <3>5. CASE ble \in {"refresh", "start"} /\ ble' = "wait"
      <4>1. Pending = Pending' + 1 BY <3>5 DEF Pending
      <4>2. Adv' \in 0..1 /\ Adv \in 0..1 /\ Pending' \in Nat /\ Pending \in Nat OBVIOUS
      <4>3. Adv' + Pending' <= Adv + Pending BY <4>1, <4>2, OneStart
      <4>4. QED BY <3>1, <4>3, FreshKept
    <3>6. QED BY <3>2, <3>3, <3>4, <3>5
  <2>4. QED BY <2>1, <2>2, <2>3
<1>7. CASE UwbTask
  <2>1. UNCHANGED <<session, connectionGen, advertising, ble, msg>>
        /\ (bleQueue' = bleQueue \/ bleQueue' = Offer(bleQueue, BleDepth, NotifyActive))
    BY <1>7 DEF UwbTask, UwbWake, UwbInit, UwbSendNotify, UwbSetBit, UwbPoll, UwbTake,
                UwbTakeTimeout, UwbRanged, UwbDeinit, UwbClearBit, UwbUnchanged, linkVars
  <2>2. Adv' = Adv /\ Pending' = Pending BY <2>1 DEF Adv, Pending
  <2>3. NotifyActive.type # "SEND_CHALLENGE" BY DEF NotifyActive
  <2>4. QED BY <2>1, <2>2, <2>3, FixedMessages, FreshKept
<1>8. CASE CanTask
  <2>1. UNCHANGED <<session, connectionGen, advertising, bleQueue, ble, msg>>
    BY <1>8 DEF CanTask, CanReceive, CanTake, CanTakeTimeout, CanFrames, CanUnchanged,
                linkVars, bleVars
  <2>2. Adv' = Adv /\ Pending' = Pending BY <2>1 DEF Adv, Pending
  <2>3. QED BY <2>1, <2>2, FreshKept
<1>9. CASE Reset
  <2>1. bleQueue' = <<>> /\ ble' # "delay" BY <1>9 DEF Reset
  <2>2. QED BY <2>1 DEF FreshInv, QueueFresh
<1> QED BY <1>1, <1>2, <1>3, <1>4, <1>5, <1>6, <1>7, <1>8, <1>9 DEF Next

\* Requests in bleQueue and in the hand of bleTask stay fresh.
THEOREM RequestsFresh == Spec => []FreshInv
<1>1. Init => FreshInv
  <2>1. ASSUME Init PROVE bleQueue = <<>> /\ ble # "delay" BY <2>1 DEF Init, Booted
  <2>2. QED BY <2>1 DEF FreshInv, QueueFresh
<1>2. TypeOK /\ FreshInv /\ [Next]_vars => FreshInv'
  <2>1. CASE UNCHANGED vars
    BY <2>1 DEF FreshInv, QueueFresh, Adv, Pending, vars, linkVars, bleVars
  <2>2. CASE Next BY <2>2, FreshStep DEF TypeOK
  <2>3. QED BY <2>1, <2>2
<1>3. QED BY <1>1, <1>2, TypeCorrect, PTL DEF Spec

\* What passes the generation check is a challenge for the session it serves,
\* however often connectionGen has wrapped, whenever it has more values than
\* twice the length of bleQueue and one.
THEOREM ChallengeAlwaysFresh == Spec => []ChallengeFresh
<1>1. TypeOK /\ FreshInv => ChallengeFresh
  <2> SUFFICES ASSUME BleTypes, CountTypes, FreshInv, ble = "delay",
                      msg.data = connectionGen
               PROVE  msg.of = session
    BY DEF ChallengeFresh, TypeOK
  <2>1. Fresh(msg, session, connectionGen, Adv) /\ Adv \in Nat BY Small DEF FreshInv
  <2>2. QED BY <2>1, CheckSound DEF BleTypes, CountTypes
<1>2. QED BY <1>1, TypeCorrect, RequestsFresh, PTL

\* The invariant that TLC checks on small instances holds in all.
THEOREM InvariantHolds == Spec => []IndInv
<1>1. TypeOK /\ MutexInv /\ CallbackInv /\ LockInv /\ StopInv /\ FreshInv => IndInv
  BY DEF IndInv
<1>2. QED BY <1>1, TypeCorrect, MutexAlways, LockAlways, StopAlways, RequestsFresh, PTL
=============================================================================

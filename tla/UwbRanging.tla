----------------------------- MODULE UwbRanging -----------------------------
(***************************************************************************)
(* A round of ranging: the exchange of poll and response between            *)
(* uwbInitiatorLoop of the tag and uwbResponderLoop of the anchor, the       *)
(* distance computed from its four timestamps, the distance filter and the  *)
(* zone it decides.  Tag has only the outcome of all this, a band.          *)
(*                                                                         *)
(* Timestamps come from two counters of 40 bits that start anywhere and      *)
(* wrap; the code keeps the lower 32 bits, and the anchor sets the time of   *)
(* its delayed transmission in units of 256 ticks, the lowest bit of which   *)
(* the DW3000 ignores.  Distances are counted in ticks of flight.  The two  *)
(* counters run at the same rate and float is exact: clockOffsetRatio and   *)
(* rounding are left out.                                                   *)
(***************************************************************************)
EXTENDS Integers, Sequences, Functions

CONSTANTS
  Full, Low, Unit,   \* 2^40, 2^32, 2^8
  ReplyDelay,        \* POLL_RX_TO_RESP_TX_DLY_UUS * UUS_TO_DWT_TIME
  TxAntDly,          \* TX_ANT_DLY
  MaxDistance,       \* a longer distance is not believed: 100 m
  Size,              \* DIST_FILTER_SIZE: 5
  Unlock, Lock, Far, \* UWB_UNLOCK_, UWB_LOCK_ and UWB_FAR_DISTANCE_M: 3, 3.5, 10
  Flights,           \* the distances there are
  TagClocks, Skews   \* values of the tag's counter, and how far ahead the anchor's is

ASSUME RangingConstantsOK ==
  /\ {Full, Low, Unit} \subseteq Nat \ {0} /\ Unit <= Full
  /\ {ReplyDelay, TxAntDly} \subseteq Nat
  /\ TagClocks \subseteq Nat /\ Skews \subseteq Nat
  /\ Size \in Nat \ {0} /\ Flights \subseteq Nat /\ MaxDistance \in Nat
  /\ Unlock \in Nat /\ Lock \in Nat /\ Far \in Nat /\ Unlock <= Lock /\ Lock <= Far

VARIABLES
  distBuf, distBufIdx, distBufFull, \* the filter
  tagInUnlockZone,
  word,                             \* what this round has decided, "none" if nothing
  flight, distance,                 \* ghost: the true distance; what the tag computed
  recent                            \* ghost: true distances since the filter was reset

filter == <<distBuf, distBufIdx, distBufFull>>
rangingVars == <<filter, tagInUnlockZone, word, flight, distance, recent>>

-----------------------------------------------------------------------------
(* The exchange.  (int32_t) of a difference of two uint32_t.                *)

Int32(x) == IF x % Low < Low \div 2 THEN x % Low ELSE (x % Low) - Low
Lo32(t) == t % Low

\* dwt_setdelayedtrxtime takes 32 bits.
RespTxTime(pollRx) == ((pollRx + ReplyDelay) \div Unit) % (Full \div Unit)

\* When the response leaves the antenna, on the counter of the anchor.
RespTxTsOdd(pollRx) == RespTxTime(pollRx) * Unit + TxAntDly  \* mutant: no & 0xFFFFFFFE
RespTxTs(pollRx) == (RespTxTime(pollRx) - (RespTxTime(pollRx) % 2)) * Unit + TxAntDly
Emission(pollRx) ==
  ((RespTxTime(pollRx) - (RespTxTime(pollRx) % 2)) * Unit + TxAntDly) % Full

\* Twice the time of flight, from pollTx on the counter of the tag.
RoundTrip(pollTx, skew, tof) ==
  LET pollRx == (pollTx + tof + skew) % Full
      respRx == (Emission(pollRx) - skew + tof) % Full
      rtdInit == Int32(Lo32(respRx) - Lo32(pollTx))
      rtdResp == Int32(Lo32(RespTxTs(pollRx)) - Lo32(pollRx))
  IN rtdInit - rtdResp

-----------------------------------------------------------------------------
(* The filter                                                               *)

\* Sum of the distances in the buffer and their number.
SumOf(buf, n) == SumFunctionOnSet(buf, 0..n - 1)
CountOf(idx, full) == IF full THEN Size ELSE idx

\* applyDistanceFilter
StoreNoWrap(raw) == \* mutant: no % DIST_FILTER_SIZE
  /\ distBuf' = [distBuf EXCEPT ![distBufIdx] = raw]
  /\ distBufIdx' = distBufIdx + 1
  /\ distBufFull' = (distBufFull \/ distBufIdx' = Size)
Store(raw) ==
  /\ distBuf' = [distBuf EXCEPT ![distBufIdx] = raw]
  /\ distBufIdx' = (distBufIdx + 1) % Size
  /\ distBufFull' = (distBufFull \/ distBufIdx' = 0)

ResetKeepsFull == \* mutant: distBufFull stays set
  distBuf' = [i \in 0..Size - 1 |-> 0] /\ distBufIdx' = 0 /\ UNCHANGED distBufFull
ResetFilter ==
  distBuf' = [i \in 0..Size - 1 |-> 0] /\ distBufIdx' = 0 /\ distBufFull' = FALSE

\* The average is compared by its sum over the count.
Average(rel(_, _), limit) ==
  LET n == CountOf(distBufIdx', distBufFull') IN rel(SumOf(distBuf', n), limit * n)
AtMost(limit) == Average(LAMBDA a, b : a <= b, limit)
Beyond(limit) == Average(LAMBDA a, b : a > b, limit)

-----------------------------------------------------------------------------
RangingInit ==
  /\ distBuf = [i \in 0..Size - 1 |-> 0] /\ distBufIdx = 0 /\ distBufFull = FALSE
  /\ tagInUnlockZone = FALSE /\ word = "none"
  /\ flight = 0 /\ distance = 0 /\ recent = <<>>

\* The zone and the word that follow from the filtered distance.
Decide ==
  \/ /\ Beyond(Far) /\ word' = "UWB_STOP" /\ tagInUnlockZone' = FALSE
  \/ /\ ~Beyond(Far) /\ AtMost(Unlock) /\ ~tagInUnlockZone
     /\ word' = "VERIFIED" /\ tagInUnlockZone' = TRUE
  \/ /\ ~Beyond(Far) /\ Beyond(Lock) /\ tagInUnlockZone
     /\ word' = "WARNING" /\ tagInUnlockZone' = FALSE
  \/ /\ ~Beyond(Far)
     /\ IF tagInUnlockZone THEN ~Beyond(Lock) ELSE ~AtMost(Unlock)
     /\ word' = "none" /\ UNCHANGED tagInUnlockZone

\* A round with an answer; a distance below 0 or beyond MaxDistance is dropped.
Round(pollTx, skew, tof) ==
  /\ word # "UWB_STOP"
  /\ flight' = tof /\ distance' = RoundTrip(pollTx, skew, tof) \div 2
  /\ IF distance' < 0 \/ distance' > MaxDistance
     THEN word' = "none" /\ UNCHANGED <<filter, tagInUnlockZone, recent>>
     ELSE /\ Store(distance') /\ Decide
          /\ recent' = LET all == Append(recent, tof)
                       IN SubSeq(all, IF Len(all) > Size THEN 2 ELSE 1, Len(all))

\* A round without: no response in time, a bad frame, a poor STS.
NoResponse ==
  word # "UWB_STOP" /\ word' = "none" /\ UNCHANGED <<filter, tagInUnlockZone, flight, distance, recent>>

\* deinitUWB, after UWB_STOP or the loss of the link.
Deinit ==
  /\ ResetFilter /\ tagInUnlockZone' = FALSE /\ word' = "none" /\ recent' = <<>>
  /\ UNCHANGED <<flight, distance>>

RangingNext ==
  \/ \E pollTx \in TagClocks, skew \in Skews, tof \in Flights : Round(pollTx, skew, tof)
  \/ NoResponse \/ Deinit

RangingSpec == RangingInit /\ [][RangingNext]_rangingVars

-----------------------------------------------------------------------------
\* Every variable stays in its range, the index of the ring below its size.
RangingTypeOK ==
  /\ distBuf \in [0..Size - 1 -> 0..MaxDistance]
  /\ distBufIdx \in 0..Size - 1 /\ distBufFull \in BOOLEAN /\ tagInUnlockZone \in BOOLEAN
  /\ word \in {"none", "VERIFIED", "WARNING", "UWB_STOP"}
  /\ flight \in Flights \cup {0} /\ distance \in Int
  /\ recent \in Seq(Flights) /\ Len(recent) <= Size

\* The four timestamps give the true distance, wherever the two counters are: no
\* wrap of 40 or 32 bits in between, no truncated bit of the transmit time shows.
DistanceRight == distance = flight

\* The filter averages the last Size distances since ranging began, fewer if there
\* are fewer: no cell of an earlier session and no empty one counts.
FilterIsRecent ==
  LET n == CountOf(distBufIdx, distBufFull)
  IN n = Len(recent) /\ SumOf(distBuf, n) = SumFunction(recent)

\* No word without a reason: VERIFIED needs a distance in the unlock range among the
\* last ones, WARNING one beyond the lock range and UWB_STOP one beyond the far
\* range, so a driver who stays in the hysteresis hears no clicking.
WordsHaveReason ==
  [][/\ word' = "VERIFIED" => \E i \in DOMAIN recent' : recent'[i] <= Unlock
     /\ word' = "WARNING" => \E i \in DOMAIN recent' : recent'[i] > Lock
     /\ word' = "UWB_STOP" => \E i \in DOMAIN recent' : recent'[i] > Far]_rangingVars
=============================================================================

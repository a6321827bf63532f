------------------------- MODULE AnchorServesProofs -------------------------
(***************************************************************************)
(* Anchor implements AnchorService, for every length of the queues, any      *)
(* central and any number of sessions and resets.                           *)
(***************************************************************************)
EXTENDS AnchorServes, AnchorDoorsProofs, WellFoundedInduction

-----------------------------------------------------------------------------
(* Induction over the naturals, by a least element of a set                 *)

LEMMA LeastNat ==
  ASSUME NEW T, T \subseteq Nat, T # {}
  PROVE  \E n \in T : \A k \in T : n <= k
<1> DEFINE Less == {ss \in Nat \X Nat : ss[1] < ss[2]}
<1>1. Less = OpToRel(<, Nat) BY Zenon DEF OpToRel
<1>2. IsWellFoundedOn(Less, Nat) BY <1>1, NatLessThanWellFounded, Zenon
<1>3. PICK n \in T : \A k \in T : <<k, n>> \notin Less
  <2> HIDE DEF Less
  <2> QED BY <1>2, WFMin
<1>4. ASSUME NEW k \in T PROVE n <= k
  <2>1. <<k, n>> \in Nat \X Nat /\ <<k, n>>[1] = k /\ <<k, n>>[2] = n OBVIOUS
  <2>2. <<k, n>> \notin {ss \in Nat \X Nat : ss[1] < ss[2]} BY <1>3
  <2>3. ~(k < n) BY <2>1, <2>2, Zenon
  <2> QED BY <2>3
<1> QED BY <1>4

\* What holds of 0, and of n + 1 if of n, holds up to any bound.
LEMMA Induction ==
  ASSUME NEW N \in Nat, NEW P, 0 \in P, \A n \in 0..N - 1 : n \in P => n + 1 \in P
  PROVE  0..N \subseteq P
<1> SUFFICES ASSUME ~(0..N \subseteq P) PROVE FALSE OBVIOUS
<1> DEFINE T == {n \in 0..N : n \notin P}
<1>1. T \subseteq Nat /\ T # {} OBVIOUS
<1>2. PICK n \in T : \A k \in T : n <= k
  <2> HIDE DEF T
  <2> QED BY <1>1, LeastNat
<1>3. n \in 0..N /\ n \notin P /\ n # 0 OBVIOUS
<1>4. n - 1 \in 0..N - 1 /\ n - 1 \in P BY <1>2, <1>3
<1>5. (n - 1) + 1 = n BY <1>3
<1> QED BY <1>3, <1>4, <1>5

-----------------------------------------------------------------------------
(* The messages of a type in a queue                                        *)

LEMMA ConcatAppend ==
  ASSUME NEW S, NEW h \in Seq(S), NEW s \in Seq(S), NEW x \in S
  PROVE  h \o Append(s, x) = Append(h \o s, x)
<1>1. <<x>> \in Seq(S) /\ h \o s \in Seq(S) BY ConcatProperties
<1>2. Append(s, x) = s \o <<x>> /\ Append(h \o s, x) = (h \o s) \o <<x>>
  BY <1>1, AppendIsConcat
<1>3. (h \o s) \o <<x>> = h \o (s \o <<x>>) BY <1>1, ConcatAssociative
<1> QED BY <1>2, <1>3

\* One step of Selection.
Step(q, type, s, i) == IF q[i].type = type THEN Append(s, q[i].data) ELSE s
IsSelection(S, q, type, n) ==
  S = [i \in 0..n |-> IF i = 0 THEN <<>> ELSE Step(q, type, S[i - 1], i)]

\* The recursive definition has a solution, up to any message.
LEMMA SelectionExists ==
  ASSUME NEW q, NEW type, NEW N \in Nat
  PROVE  \E S : IsSelection(S, q, type, N)
<1> DEFINE P == {n \in Nat : \E S : IsSelection(S, q, type, n)}
<1>1. 0 \in P
  <2>1. IsSelection([i \in 0..0 |-> <<>>], q, type, 0) BY DEF IsSelection
  <2> QED BY <2>1
<1>2. ASSUME NEW n \in Nat, n \in P PROVE n + 1 \in P
  <2>1. PICK S : IsSelection(S, q, type, n) BY <1>2
  <2> DEFINE R == [i \in 0..n + 1 |-> IF i = n + 1 THEN Step(q, type, S[n], n + 1) ELSE S[i]]
  <2>2. \A i \in 0..n + 1 : R[i] = IF i = 0 THEN <<>> ELSE Step(q, type, R[i - 1], i)
    <3> SUFFICES ASSUME NEW i \in 0..n + 1
                 PROVE  R[i] = IF i = 0 THEN <<>> ELSE Step(q, type, R[i - 1], i)
      OBVIOUS
    <3>1. CASE i = n + 1
      <4>1. i # 0 /\ R[i] = Step(q, type, S[n], n + 1) /\ i - 1 = n BY <3>1
      <4>2. R[n] = S[n] OBVIOUS
      <4> QED BY <3>1, <4>1, <4>2
    <3>2. CASE i # n + 1
      <4>1. i \in 0..n /\ R[i] = S[i] BY <3>2
      <4>2. S[i] = IF i = 0 THEN <<>> ELSE Step(q, type, S[i - 1], i)
        BY <2>1, <4>1 DEF IsSelection
      <4>3. i # 0 => i - 1 \in 0..n + 1 /\ i - 1 # n + 1 /\ R[i - 1] = S[i - 1] BY <4>1
      <4> QED BY <4>1, <4>2, <4>3
    <3> QED BY <3>1, <3>2
  <2>3. IsSelection(R, q, type, n + 1) BY <2>2 DEF IsSelection
  <2> QED BY <2>3
<1>3. 0..N \subseteq P
  <2> HIDE DEF P
  <2> QED BY <1>1, <1>2, Induction
<1> QED BY <1>3

LEMMA SelectionDef ==
  ASSUME NEW q, NEW type, Len(q) \in Nat
  PROVE  /\ Selection(q, type)[0] = <<>>
         /\ \A i \in 1..Len(q) :
              Selection(q, type)[i] = Step(q, type, Selection(q, type)[i - 1], i)
<1> DEFINE S == Selection(q, type)
<1>1. S = CHOOSE F : IsSelection(F, q, type, Len(q)) BY DEF Selection, IsSelection, Step
<1>2. IsSelection(S, q, type, Len(q)) BY <1>1, SelectionExists
<1> HIDE DEF S
<1>3. S[0] = <<>> /\ \A i \in 1..Len(q) : S[i] = Step(q, type, S[i - 1], i)
  BY <1>2 DEF IsSelection
<1> QED BY <1>3 DEF S

\* It selects data.
LEMMA SelectionType ==
  ASSUME NEW q \in Seq(BleMsg), NEW type
  PROVE  \A i \in 0..Len(q) : Selection(q, type)[i] \in Seq(Int)
<1> DEFINE S == Selection(q, type)
           P == {i \in Nat : S[i] \in Seq(Int)}
<1>1. Len(q) \in Nat OBVIOUS
<1>2. S[0] = <<>> /\ \A i \in 1..Len(q) : S[i] = Step(q, type, S[i - 1], i)
  BY <1>1, SelectionDef
<1> HIDE DEF S
<1>3. 0 \in P BY <1>2, EmptySeq
<1>4. ASSUME NEW n \in 0..Len(q) - 1, n \in P PROVE n + 1 \in P
  <2>1. n + 1 \in 1..Len(q) /\ (n + 1) - 1 = n /\ S[n] \in Seq(Int) BY <1>1, <1>4
  <2>2. q[n + 1] \in BleMsg BY <2>1
  <2>3. q[n + 1].data \in Int BY <2>2 DEF BleMsg
  <2>4. S[n + 1] = Step(q, type, S[n], n + 1) BY <1>2, <2>1
  <2>5. S[n + 1] \in Seq(Int) BY <2>1, <2>3, <2>4 DEF Step
  <2> QED BY <2>5
<1>5. 0..Len(q) \subseteq P
  <2> HIDE DEF P
  <2> QED BY <1>1, <1>3, <1>4, Induction
<1> QED BY <1>5 DEF S

LEMMA SelectedType ==
  ASSUME NEW q \in Seq(BleMsg), NEW type
  PROVE  Selected(q, type) \in Seq(Int)
BY SelectionType DEF Selected

\* A message that is appended is selected last, if it is of the type.
LEMMA SelectedAppend ==
  ASSUME NEW q \in Seq(BleMsg), NEW type, NEW m \in BleMsg
  PROVE  Selected(Append(q, m), type)
           = IF m.type = type THEN Append(Selected(q, type), m.data) ELSE Selected(q, type)
<1> DEFINE r == Append(q, m)
           S == Selection(q, type)
           R == Selection(r, type)
           P == {i \in Nat : R[i] = S[i]}
<1>1. /\ Len(q) \in Nat /\ Len(r) = Len(q) + 1 /\ Len(r) \in Nat
      /\ r[Len(q) + 1] = m /\ \A i \in 1..Len(q) : r[i] = q[i]
  OBVIOUS
<1> HIDE DEF r
<1>2. S[0] = <<>> /\ \A i \in 1..Len(q) : S[i] = Step(q, type, S[i - 1], i)
  BY <1>1, SelectionDef
<1>3. R[0] = <<>> /\ \A i \in 1..Len(r) : R[i] = Step(r, type, R[i - 1], i)
  BY <1>1, SelectionDef
<1> HIDE DEF S, R
<1>4. 0 \in P BY <1>2, <1>3
<1>5. ASSUME NEW n \in 0..Len(q) - 1, n \in P PROVE n + 1 \in P
  <2>1. n + 1 \in 1..Len(q) /\ n + 1 \in 1..Len(r) /\ (n + 1) - 1 = n BY <1>1
  <2>2. S[n + 1] = Step(q, type, S[n], n + 1) /\ R[n + 1] = Step(r, type, R[n], n + 1)
    BY <1>2, <1>3, <2>1
  <2>3. r[n + 1] = q[n + 1] /\ R[n] = S[n] BY <1>1, <1>5, <2>1
  <2>4. R[n + 1] = S[n + 1] BY <2>2, <2>3 DEF Step
  <2> QED BY <2>4
<1>6. 0..Len(q) \subseteq P
  <2> HIDE DEF P
  <2> QED BY <1>1, <1>4, <1>5, Induction
<1>7. R[Len(q)] = S[Len(q)] BY <1>1, <1>6
<1>8. R[Len(r)] = Step(r, type, R[Len(q)], Len(r))
  <2>1. Len(r) \in 1..Len(r) /\ Len(r) - 1 = Len(q) BY <1>1
  <2> QED BY <1>3, <2>1
<1>9. R[Len(r)] = IF m.type = type THEN Append(S[Len(q)], m.data) ELSE S[Len(q)]
  BY <1>1, <1>7, <1>8 DEF Step
<1> QED BY <1>9 DEF r, R, S, Selected

\* The message that is taken was selected first, if it is of the type.
LEMMA SelectedTail ==
  ASSUME NEW q \in Seq(BleMsg), q # <<>>, NEW type
  PROVE  Selected(q, type)
           = (IF Head(q).type = type THEN <<Head(q).data>> ELSE <<>>)
             \o Selected(Tail(q), type)
<1> DEFINE r == Tail(q)
           S == Selection(q, type)
           R == Selection(r, type)
<1>1. /\ Len(q) \in Nat \ {0} /\ r \in Seq(BleMsg) /\ Len(r) = Len(q) - 1 /\ Len(r) \in Nat
      /\ Head(q) = q[1] /\ q[1] \in BleMsg /\ \A i \in 1..Len(r) : r[i] = q[i + 1]
  BY TailElements
<1>2. PICK h \in Seq(Int) : h = IF Head(q).type = type THEN <<Head(q).data>> ELSE <<>>
  <2>1. Head(q).data \in Int BY <1>1 DEF BleMsg
  <2>2. (IF Head(q).type = type THEN <<Head(q).data>> ELSE <<>>) \in Seq(Int) BY <2>1
  <2> QED BY <2>2, Zenon
<1> DEFINE P == {i \in Nat : S[i + 1] = h \o R[i]}
<1> HIDE DEF r
<1>3. S[0] = <<>> /\ \A i \in 1..Len(q) : S[i] = Step(q, type, S[i - 1], i)
  BY <1>1, SelectionDef
<1>4. /\ R[0] = <<>> /\ \A i \in 1..Len(r) : R[i] = Step(r, type, R[i - 1], i)
      /\ \A i \in 0..Len(r) : R[i] \in Seq(Int)
  BY <1>1, SelectionDef, SelectionType
<1> HIDE DEF S, R
<1>5. 0 \in P
  <2>1. S[1] = Step(q, type, <<>>, 1)
    <3>1. 1 \in 1..Len(q) /\ 1 - 1 = 0 BY <1>1
    <3> QED BY <1>3, <3>1
  <2>2. S[1] = h
    <3>1. CASE Head(q).type = type
      <4>1. S[1] = Append(<<>>, Head(q).data) BY <1>1, <2>1, <3>1 DEF Step
      <4> QED BY <1>2, <3>1, <4>1
    <3>2. CASE Head(q).type # type BY <1>1, <1>2, <2>1, <3>2 DEF Step
    <3> QED BY <3>1, <3>2
  <2>3. h \o R[0] = h BY <1>2, <1>4, ConcatEmptySeq
  <2>4. 0 + 1 = 1 OBVIOUS
  <2> QED BY <2>2, <2>3, <2>4
<1>6. ASSUME NEW n \in 0..Len(r) - 1, n \in P PROVE n + 1 \in P
  <2>1. /\ n + 1 \in 1..Len(r) /\ (n + 1) - 1 = n
        /\ n + 2 \in 1..Len(q) /\ (n + 2) - 1 = n + 1 /\ (n + 1) + 1 = n + 2
        /\ n \in 0..Len(r)
    BY <1>1
  <2>2. R[n + 1] = Step(r, type, R[n], n + 1) /\ S[n + 2] = Step(q, type, S[n + 1], n + 2)
    BY <1>3, <1>4, <2>1
  <2>3. r[n + 1] = q[n + 2] /\ S[n + 1] = h \o R[n] BY <1>1, <1>6, <2>1
  <2>4. q[n + 2].data \in Int
    <3>1. q[n + 2] \in BleMsg BY <2>1
    <3> QED BY <3>1 DEF BleMsg
  <2>5. R[n] \in Seq(Int) BY <1>4, <2>1
  <2>6. h \o Append(R[n], q[n + 2].data) = Append(h \o R[n], q[n + 2].data)
    <3>1. PICK x : x = q[n + 2].data OBVIOUS
    <3>2. PICK s : s = R[n] OBVIOUS
    <3>3. x \in Int BY <2>4, <3>1
    <3>4. s \in Seq(Int) BY <2>5, <3>2
    <3>5. h \in Seq(Int) BY <1>2
    <3>6. h \o Append(s, x) = Append(h \o s, x) BY <3>3, <3>4, <3>5, ConcatAppend
    <3> QED BY <3>1, <3>2, <3>6
  <2>7. S[n + 2] = h \o R[n + 1]
    <3>1. CASE q[n + 2].type = type
      <4>1. R[n + 1] = Append(R[n], q[n + 2].data) BY <2>2, <2>3, <3>1 DEF Step
      <4>2. S[n + 2] = Append(S[n + 1], q[n + 2].data) BY <2>2, <3>1 DEF Step
      <4> QED BY <2>3, <2>6, <4>1, <4>2
    <3>2. CASE q[n + 2].type # type
      <4>1. R[n + 1] = R[n] BY <2>2, <2>3, <3>2 DEF Step
      <4>2. S[n + 2] = S[n + 1] BY <2>2, <3>2 DEF Step
      <4> QED BY <2>3, <4>1, <4>2
    <3> QED BY <3>1, <3>2
  <2> QED BY <2>1, <2>7
<1>7. 0..Len(r) \subseteq P
  <2> HIDE DEF P
  <2> QED BY <1>1, <1>5, <1>6, Induction
<1>8. S[Len(q)] = h \o R[Len(r)]
  <2>1. Len(r) \in P /\ Len(r) + 1 = Len(q)
    <3> HIDE DEF P
    <3> QED BY <1>1, <1>7
  <2> QED BY <2>1
<1> QED BY <1>2, <1>8 DEF r, R, S, Selected

-----------------------------------------------------------------------------
(* The requests in bleQueue                                                 *)

\* One request of RequestInv.
Due(q, i, c, s, starting) ==
  q[i].type = "SEND_CHALLENGE" =>
    /\ c < q[i].of /\ q[i].of <= s
    /\ starting => q[i].of < s
    /\ \A j \in 1..i - 1 : q[j].type = "SEND_CHALLENGE" => q[j].of < q[i].of

LEMMA RequestsDue ==
  ASSUME Len(bleQueue) \in Nat, DOMAIN bleQueue = 1..Len(bleQueue)
  PROVE  RequestInv <=>
           /\ challenge <= session /\ (cb = "challenge" => challenge < session)
           /\ \A i \in 1..Len(bleQueue) : Due(bleQueue, i, challenge, session, cb = "challenge")
BY DEF RequestInv, Due

\* Everything but a request may be queued.
LEMMA RequestsKept ==
  ASSUME BleTypes, RequestInv, NEW m \in BleMsg, m.type # "SEND_CHALLENGE",
         bleQueue' \in {bleQueue, Offer(bleQueue, BleDepth, m)},
         UNCHANGED <<challenge, session>>, cb' = "challenge" => cb = "challenge"
  PROVE  RequestInv'
<1> USE Sizes
<1>1. bleQueue \in Seq(BleMsg) /\ Len(bleQueue) \in Nat BY DEF BleTypes, QueueOK
<1>2. \A i \in 1..Len(bleQueue) : Due(bleQueue, i, challenge, session, cb = "challenge")
  BY <1>1, RequestsDue
<1>3. CASE bleQueue' = bleQueue BY <1>3 DEF RequestInv
<1>4. CASE bleQueue' = Append(bleQueue, m)
  <2>1. /\ Len(bleQueue') = Len(bleQueue) + 1 /\ bleQueue'[Len(bleQueue) + 1] = m
        /\ DOMAIN bleQueue' = 1..Len(bleQueue) + 1
        /\ \A i \in 1..Len(bleQueue) : bleQueue'[i] = bleQueue[i]
    BY <1>1, <1>4
  <2>2. \A i \in 1..Len(bleQueue') :
          Due(bleQueue', i, challenge', session', cb' = "challenge")
    BY <1>1, <1>2, <2>1 DEF Due
  <2> QED BY <1>1, <2>1, <2>2 DEF RequestInv, Due
<1> QED BY <1>3, <1>4 DEF Offer

LEMMA RequestStep ==
  ASSUME BleTypes, CountTypes, RequestInv, Next
  PROVE  RequestInv'
<1> USE Sizes
<1>1. /\ bleQueue \in Seq(BleMsg) /\ Len(bleQueue) \in Nat /\ DOMAIN bleQueue = 1..Len(bleQueue)
      /\ session \in Nat /\ challenge \in Nat
  BY DEF BleTypes, QueueOK, CountTypes
<1>2. /\ challenge <= session /\ (cb = "challenge" => challenge < session)
      /\ \A i \in 1..Len(bleQueue) : Due(bleQueue, i, challenge, session, cb = "challenge")
  BY <1>1, RequestsDue
<1>3. CASE OnConnect
  <2>1. session' = session + 1 /\ UNCHANGED <<bleQueue, challenge>>
    BY <1>3 DEF OnConnect, bleVars
  <2>2. \A i \in 1..Len(bleQueue) : bleQueue[i].of \in Nat
    <3>1. \A i \in 1..Len(bleQueue) : bleQueue[i] \in BleMsg BY <1>1
    <3> QED BY <3>1 DEF BleMsg
  <2>3. \A i \in 1..Len(bleQueue) : Due(bleQueue, i, challenge, session', cb' = "challenge")
    BY <1>1, <1>2, <2>1, <2>2 DEF Due
  <2> QED BY <1>1, <1>2, <2>1, <2>3 DEF RequestInv, Due
<1>4. CASE CbBle("challenge", Challenge(connectionGen, session), "idle")
  <2> DEFINE m == Challenge(connectionGen, session)
  <2>1. /\ cb = "challenge" /\ cb' = "idle" /\ UNCHANGED <<challenge, session>>
        /\ bleQueue' \in {bleQueue, Append(bleQueue, m)}
        /\ m.of = session
    BY <1>4 DEF CbBle, Offer, linkVars, Challenge
  <2> HIDE DEF m
  <2>2. CASE bleQueue' = bleQueue BY <2>1, <2>2 DEF RequestInv
  <2>3. CASE bleQueue' = Append(bleQueue, m)
    <3>1. /\ Len(bleQueue') = Len(bleQueue) + 1 /\ bleQueue'[Len(bleQueue) + 1] = m
          /\ DOMAIN bleQueue' = 1..Len(bleQueue) + 1
          /\ \A i \in 1..Len(bleQueue) : bleQueue'[i] = bleQueue[i]
      BY <1>1, <2>3
    <3>2. \A i \in 1..Len(bleQueue) : Due(bleQueue', i, challenge, session, FALSE)
      BY <1>1, <1>2, <3>1 DEF Due
    <3>3. Due(bleQueue', Len(bleQueue) + 1, challenge, session, FALSE)
      BY <1>1, <1>2, <2>1, <3>1 DEF Due
    <3> QED BY <1>1, <1>2, <2>1, <3>1, <3>2, <3>3 DEF RequestInv, Due
  <2> QED BY <2>1, <2>2, <2>3
<1>5. CASE BleReceive
  <2> DEFINE h == Head(bleQueue)
  <2>1. /\ bleQueue # <<>> /\ bleQueue' = Tail(bleQueue) /\ UNCHANGED <<cb, session>>
        /\ \/ challenge' = challenge
           \/ h.type = "SEND_CHALLENGE" /\ challenge' = h.of
    BY <1>5 DEF BleReceive, BleUnchanged
  <2>2. /\ h = bleQueue[1] /\ Len(bleQueue) \in Nat \ {0} /\ bleQueue' \in Seq(BleMsg)
        /\ Len(bleQueue') = Len(bleQueue) - 1 /\ DOMAIN bleQueue' = 1..Len(bleQueue')
        /\ \A i \in 1..Len(bleQueue') : bleQueue'[i] = bleQueue[i + 1]
    BY <1>1, <2>1, TailElements
  <2> HIDE DEF h
  <2>3. \A i \in 1..Len(bleQueue') :
          Due(bleQueue', i, challenge', session, cb = "challenge")
    <3> SUFFICES ASSUME NEW i \in 1..Len(bleQueue')
                 PROVE  Due(bleQueue', i, challenge', session, cb = "challenge")
      OBVIOUS
    <3>1. i + 1 \in 1..Len(bleQueue) /\ 1 \in 1..(i + 1) - 1 /\ (i + 1) - 1 = i BY <1>1, <2>2
    <3>2. Due(bleQueue, i + 1, challenge, session, cb = "challenge") BY <1>2, <3>1
    <3>3. \A j \in 1..i - 1 : j + 1 \in 1..(i + 1) - 1 /\ bleQueue'[j] = bleQueue[j + 1]
      BY <1>1, <2>2
    <3> QED BY <2>1, <2>2, <3>1, <3>2, <3>3 DEF Due
  <2>4. challenge' <= session /\ (cb = "challenge" => challenge' < session)
    <3>1. 1 \in 1..Len(bleQueue) BY <2>2
    <3> QED BY <1>2, <2>1, <2>2, <3>1 DEF Due
  <2> QED BY <2>1, <2>2, <2>3, <2>4 DEF RequestInv, Due
<1>6. CASE Reset BY <1>1, <1>6 DEF Reset, RequestInv
<1>7. CASE \/ OnDisconnect \/ CentralWrites \/ AdvStops \/ UwbTask \/ CanTask
           \/ (Callback /\ cb # "challenge") \/ (BleTask /\ ~BleReceive)
  <2>1. UNCHANGED <<challenge, session>> /\ (cb' = "challenge" => cb = "challenge")
    BY <1>7 DEF OnDisconnect, LinkDown, CentralWrites, OnWrite, AfterWrite, Writes,
                OnResponse, CentralRead, AdvStops, UwbTask, UwbWake, UwbInit, UwbSendNotify,
                UwbSetBit, UwbPoll, UwbTake, UwbTakeTimeout, UwbRanged, UwbDeinit,
                UwbClearBit, UwbUnchanged, CanTask, CanReceive, CanTake, CanTakeTimeout,
                CanFrames, CanUnchanged, Callback, CbBle, CbUwb, CbCan, BleTask, BleTimeout,
                BleCheckChallenge, BleNotifyChallenge, BleAuthOk, BleKick, BleNotifyActive,
                BleRestartAdv, BleRefreshDue, BleRefreshAdv, BleNoRefresh, BleUnchanged,
                linkVars, bleVars
  <2>2. PICK m \in BleMsg : /\ m.type # "SEND_CHALLENGE"
                            /\ bleQueue' \in {bleQueue, Offer(bleQueue, BleDepth, m)}
    <3>1. CASE CentralWrites
      <4>1. CASE UNCHANGED bleQueue BY <4>1, FixedMessages DEF RestartAdv
      <4>2. ASSUME NEW r \in Int, OnResponse(r)
            PROVE  \E m \in BleMsg : /\ m.type # "SEND_CHALLENGE"
                                     /\ bleQueue' \in {bleQueue, Offer(bleQueue, BleDepth, m)}
        <5>1. Verify(r, session) \in BleMsg /\ Verify(r, session).type = "AUTH_VERIFY"
          BY <1>1, SessionMessages DEF Verify
        <5> QED BY <4>2, <5>1 DEF OnResponse
      <4>3. heard \in Int /\ Garbage \in Int BY DEF CountTypes, Garbage
      <4> QED
        BY <3>1, <4>1, <4>2, <4>3 DEF CentralWrites, OnWrite, CentralRead, bleVars
    <3>2. CASE UwbTask
      <4>1. bleQueue' \in {bleQueue, Offer(bleQueue, BleDepth, NotifyActive)}
        BY <3>2 DEF UwbTask, UwbWake, UwbInit, UwbSendNotify, UwbSetBit, UwbPoll, UwbTake,
                    UwbTakeTimeout, UwbRanged, UwbDeinit, UwbClearBit
      <4> QED BY <4>1, FixedMessages DEF NotifyActive
    <3>3. CASE Callback /\ cb # "challenge"
      <4>1. bleQueue' \in {bleQueue, Offer(bleQueue, BleDepth, RestartAdv)}
        BY <3>3 DEF Callback, CbBle, CbUwb, CbCan, bleVars
      <4> QED BY <4>1, FixedMessages DEF RestartAdv
    <3>4. CASE OnDisconnect \/ AdvStops \/ CanTask \/ (BleTask /\ ~BleReceive)
      <4>1. UNCHANGED bleQueue
        BY <3>4 DEF OnDisconnect, LinkDown, AdvStops, CanTask, CanReceive, CanTake,
                    CanTakeTimeout, CanFrames, CanUnchanged, BleTask, BleTimeout,
                    BleCheckChallenge, BleNotifyChallenge, BleAuthOk, BleKick,
                    BleNotifyActive, BleRestartAdv, BleRefreshDue, BleRefreshAdv,
                    BleNoRefresh, bleVars
      <4> QED BY <4>1, FixedMessages DEF RestartAdv
    <3> QED BY <1>7, <3>1, <3>2, <3>3, <3>4, Zenon
  <2> QED BY <2>1, <2>2, RequestsKept
<1> QED
  <2>1. Callback => CbBle("challenge", Challenge(connectionGen, session), "idle") \/ cb # "challenge"
    <3>1. ASSUME NEW from, NEW m, NEW to, CbBle(from, m, to) PROVE cb = from
      BY <3>1 DEF CbBle
    <3>2. ASSUME NEW from, NEW c, NEW to, CbUwb(from, c, to) \/ CbCan(from, c, to)
          PROVE  cb = from
      BY <3>2 DEF CbUwb, CbCan
    <3> QED BY <3>1, <3>2, Zenon DEF Callback
  <2>2. BleReceive => BleTask BY DEF BleTask
  <2> QED BY <1>3, <1>4, <1>5, <1>6, <1>7, <2>1, <2>2 DEF Next

-----------------------------------------------------------------------------
(* Responses, and the invariant                                             *)

LEMMA ResponseStep ==
  ASSUME BleTypes, CountTypes, RequestInv, ResponseInv, Next
  PROVE  ResponseInv'
<1>1. session \in Nat /\ challenge \in 0..session BY DEF BleTypes, CountTypes, RequestInv
<1>2. session' \in {session, session + 1}
  BY DEF Next, OnConnect, OnDisconnect, LinkDown, CentralWrites, OnWrite, OnResponse,
         CentralRead, AdvStops, Reset, UwbTask, UwbWake, UwbInit, UwbSendNotify, UwbSetBit,
         UwbPoll, UwbTake, UwbTakeTimeout, UwbRanged, UwbDeinit, UwbClearBit, UwbUnchanged,
         CanTask, CanReceive, CanTake, CanTakeTimeout, CanFrames, CanUnchanged, Callback,
         CbBle, CbUwb, CbCan, BleTask, BleReceive, BleTimeout, BleCheckChallenge,
         BleNotifyChallenge, BleAuthOk, BleKick, BleNotifyActive, BleRestartAdv,
         BleRefreshDue, BleRefreshAdv, BleNoRefresh, BleUnchanged, linkVars
<1>3. heard' \in {heard, challenge, NoChallenge}
  BY DEF Next, OnConnect, OnDisconnect, LinkDown, CentralWrites, OnWrite, OnResponse,
         CentralRead, AdvStops, Reset, UwbTask, UwbWake, UwbInit, UwbSendNotify, UwbSetBit,
         UwbPoll, UwbTake, UwbTakeTimeout, UwbRanged, UwbDeinit, UwbClearBit, UwbUnchanged,
         CanTask, CanReceive, CanTake, CanTakeTimeout, CanFrames, CanUnchanged, Callback,
         CbBle, CbUwb, CbCan, BleTask, BleReceive, BleTimeout, BleCheckChallenge,
         BleNotifyChallenge, BleAuthOk, BleKick, BleNotifyActive, BleRestartAdv,
         BleRefreshDue, BleRefreshAdv, BleNoRefresh, BleUnchanged, ghosts
<1>4. heard' = NoChallenge \/ heard' \in 0..session' BY <1>1, <1>2, <1>3 DEF ResponseInv
<1>5. \/ ble' # "match" \/ UNCHANGED <<ble, msg, challenge>>
      \/ ble' = "match" /\ msg'.data = challenge'
  <2>1. CASE BleReceive BY <2>1 DEF BleReceive
  <2>2. CASE BleTask /\ ~BleReceive
    BY <2>2 DEF BleTask, BleTimeout, BleCheckChallenge, BleNotifyChallenge, BleAuthOk,
                BleKick, BleNotifyActive, BleRestartAdv, BleRefreshDue, BleRefreshAdv,
                BleNoRefresh
  <2>3. CASE ~BleTask
    BY <2>3 DEF Next, OnConnect, OnDisconnect, LinkDown, CentralWrites, OnWrite, OnResponse,
                CentralRead, AdvStops, Reset, UwbTask, UwbWake, UwbInit, UwbSendNotify,
                UwbSetBit, UwbPoll, UwbTake, UwbTakeTimeout, UwbRanged, UwbDeinit,
                UwbClearBit, UwbUnchanged, CanTask, CanReceive, CanTake, CanTakeTimeout,
                CanFrames, CanUnchanged, Callback, CbBle, CbUwb, CbCan, bleVars
  <2> QED BY <2>1, <2>2, <2>3
<1> QED BY <1>4, <1>5 DEF ResponseInv

\* A request is for a session that had no challenge yet, a response answers a
\* challenge that was drawn.
THEOREM ServesAlways == Spec => []ServesInv
<1>1. Init => ServesInv
  BY DEF Init, Booted, ServesInv, RequestInv, ResponseInv
<1>2. TypeOK /\ ServesInv /\ [Next]_vars => ServesInv'
  <2>1. CASE UNCHANGED vars
    BY <2>1 DEF ServesInv, RequestInv, ResponseInv, vars, linkVars, bleVars, ghosts
  <2>2. CASE Next BY <2>2, RequestStep, ResponseStep DEF TypeOK, ServesInv
  <2> QED BY <2>1, <2>2
<1> QED BY <1>1, <1>2, TypeCorrect, PTL DEF Spec

-----------------------------------------------------------------------------
(* What a step makes of the lists AnchorService sees                        *)

LEMMA ListTypes ==
  ASSUME BleTypes
  PROVE  /\ bleQueue \in Seq(BleMsg) /\ Verifying \in Seq(Int) /\ Responses \in Seq(Int)
         /\ \A type : Len(Selected(bleQueue, type)) \in Nat
         /\ Announcements \in Nat
<1>1. bleQueue \in Seq(BleMsg) BY DEF BleTypes, QueueOK
<1>2. \A type : Selected(bleQueue, type) \in Seq(Int) BY <1>1, SelectedType
<1>3. \A type : Len(Selected(bleQueue, type)) \in Nat
  <2> TAKE type
  <2>1. PICK s \in Seq(Int) : s = Selected(bleQueue, type) BY <1>2
  <2> QED BY <2>1
<1>4. Verifying \in Seq(Int)
  <2>1. msg.data \in Int BY DEF BleTypes, BleMsg
  <2>2. <<msg.data>> \in Seq(Int) /\ <<>> \in Seq(Int) BY <2>1
  <2> QED BY <2>2 DEF Verifying
<1>5. Announcements \in Nat BY <1>3 DEF Announcements
<1> QED BY <1>1, <1>2, <1>3, <1>4, <1>5 DEF Responses

LEMMA Unqueued ==
  ASSUME UNCHANGED <<bleQueue, ble, msg>>
  PROVE  UNCHANGED <<Verifying \o Responses, Announcements>>
BY DEF Verifying, Responses, Announcements

LEMMA HandKept == ASSUME UNCHANGED <<can, canCmd, canQueue>> PROVE UNCHANGED (InHand \o canQueue)
BY DEF InHand

LEMMA RangingKept == ASSUME uwb' = uwb PROVE Ranging' = Ranging
BY DEF Ranging

LEMMA NothingSelected == ASSUME NEW type PROVE Selected(<<>>, type) = <<>>
BY SelectionDef DEF Selected

\* A message that is queued, or dropped.
LEMMA OfferSelects ==
  ASSUME BleTypes, NEW m \in BleMsg, NEW type,
         bleQueue' = Offer(bleQueue, BleDepth, m)
  PROVE  Selected(bleQueue', type)
           \in {Selected(bleQueue, type),
                IF m.type = type THEN Append(Selected(bleQueue, type), m.data)
                ELSE Selected(bleQueue, type)}
<1>1. bleQueue \in Seq(BleMsg) BY ListTypes
<1>2. bleQueue' = bleQueue \/ bleQueue' = Append(bleQueue, m) BY DEF Offer
<1> QED BY <1>1, <1>2, SelectedAppend

LEMMA OfferKeeps ==
  ASSUME BleTypes, NEW m \in BleMsg, bleQueue' = Offer(bleQueue, BleDepth, m),
         m.type \notin {"AUTH_VERIFY", "NOTIFY_UWB_ACTIVE"}, UNCHANGED <<ble, msg>>
  PROVE  UNCHANGED <<Verifying \o Responses, Announcements>>
<1>1. Selected(bleQueue', "AUTH_VERIFY") = Selected(bleQueue, "AUTH_VERIFY")
  BY OfferSelects
<1>2. Selected(bleQueue', "NOTIFY_UWB_ACTIVE") = Selected(bleQueue, "NOTIFY_UWB_ACTIVE")
  BY OfferSelects
<1> QED BY <1>1, <1>2 DEF Verifying, Responses, Announcements

\* What bleTask takes to verify or to announce it has in hand.
LEMMA ReceiveKeeps ==
  ASSUME BleTypes, BleReceive
  PROVE  UNCHANGED <<Verifying \o Responses, Announcements>>
<1> DEFINE h == Head(bleQueue)
           A == "AUTH_VERIFY"
           N == "NOTIFY_UWB_ACTIVE"
<1>1. bleQueue \in Seq(BleMsg) /\ bleQueue # <<>> /\ bleQueue' = Tail(bleQueue)
  BY ListTypes DEF BleReceive
<1>2. h \in BleMsg /\ h.data \in Int /\ bleQueue' \in Seq(BleMsg)
  <2>1. h \in BleMsg /\ bleQueue' \in Seq(BleMsg) BY <1>1, TailElements
  <2> QED BY <2>1 DEF BleMsg
<1>3. \A type : Selected(bleQueue', type) \in Seq(Int) BY <1>2, SelectedType
<1>4. \A type : Selected(bleQueue, type)
                  = (IF h.type = type THEN <<h.data>> ELSE <<>>) \o Selected(bleQueue', type)
  BY <1>1, SelectedTail
<1>5. Verifying = <<>> /\ ble = "wait" BY DEF BleReceive, Verifying
<1>6. Verifying' = IF h.type = A THEN <<h.data>> ELSE <<>>
  BY DEF BleReceive, Verifying
<1>7. (ble' = "notify") <=> h.type = N BY DEF BleReceive
<1> HIDE DEF h
<1>8. UNCHANGED (Verifying \o Responses)
  <2>1. PICK s : s = Selected(bleQueue, A) OBVIOUS
  <2>2. PICK r : r = Selected(bleQueue', A) OBVIOUS
  <2>3. s \in Seq(Int) BY <2>1, <1>1, SelectedType
  <2>4. <<>> \o s = s BY <2>3, ConcatEmptySeq
  <2>5. s = (IF h.type = A THEN <<h.data>> ELSE <<>>) \o r BY <1>4, <2>1, <2>2
  <2> QED BY <1>5, <1>6, <2>1, <2>2, <2>4, <2>5 DEF Responses
<1>9. UNCHANGED Announcements
  <2>1. PICK s : s = Selected(bleQueue, N) OBVIOUS
  <2>2. PICK r : r = Selected(bleQueue', N) OBVIOUS
  <2>3. r \in Seq(Int) BY <2>2, <1>3
  <2>4. Len(s) = Len(r) + (IF h.type = N THEN 1 ELSE 0)
    <3>1. s = (IF h.type = N THEN <<h.data>> ELSE <<>>) \o r BY <1>4, <2>1, <2>2
    <3>2. CASE h.type = N
      <4>1. <<h.data>> \in Seq(Int) /\ Len(<<h.data>>) = 1 BY <1>2
      <4>2. Len(<<h.data>> \o r) = Len(<<h.data>>) + Len(r) BY <2>3, <4>1, ConcatProperties
      <4>3. Len(r) \in Nat BY <2>3
      <4> QED BY <3>1, <3>2, <4>1, <4>2, <4>3
    <3>3. CASE h.type # N
      <4>1. <<>> \o r = r /\ Len(r) \in Nat BY <2>3, ConcatEmptySeq
      <4> QED BY <3>1, <3>3, <4>1
    <3> QED BY <3>2, <3>3
  <2>5. Len(r) \in Nat BY <2>3
  <2> QED BY <1>5, <1>7, <2>1, <2>2, <2>4, <2>5 DEF Announcements
<1> QED BY <1>8, <1>9

-----------------------------------------------------------------------------
(* The steps of the callbacks                                               *)

LEMMA ConnectStep ==
  ASSUME OnConnect PROVE AS!Accept
<1>1. UNCHANGED <<Verifying \o Responses, Announcements>>
  BY Unqueued DEF OnConnect, bleVars
<1>2. UNCHANGED (InHand \o canQueue) BY HandKept DEF OnConnect, canVars
<1>3. UNCHANGED Ranging BY RangingKept DEF OnConnect, uwbVars
<1> QED
  BY <1>1, <1>2, <1>3 DEF OnConnect, uwbVars, bleVars, canVars, AS!Accept, AS!rangingVars,
                          AS!doorVars

LEMMA DisconnectStep ==
  ASSUME OnDisconnect PROVE AS!HangUp
<1>1. UNCHANGED <<Verifying \o Responses, Announcements>>
  BY Unqueued DEF OnDisconnect, LinkDown, bleVars
<1>2. UNCHANGED (InHand \o canQueue) BY HandKept DEF OnDisconnect, LinkDown, canVars
<1>3. UNCHANGED Ranging BY RangingKept DEF OnDisconnect, LinkDown, uwbVars
<1> QED
  BY <1>1, <1>2, <1>3 DEF OnDisconnect, LinkDown, uwbVars, bleVars, canVars, AS!HangUp,
                          AS!rangingVars, AS!doorVars

LEMMA ResetStep ==
  ASSUME Reset PROVE AS!ServiceRestart
<1>1. Verifying' = <<>> /\ Responses' = <<>>
  BY NothingSelected DEF Reset, Verifying, Responses
<1>2. (Verifying \o Responses)' = <<>>
  <2>1. <<>> \o <<>> = <<>> BY ConcatEmptySeq, EmptySeq
  <2> QED BY <1>1, <2>1
<1>3. Announcements' = 0
  <2>1. Selected(bleQueue', "NOTIFY_UWB_ACTIVE") = <<>> BY NothingSelected DEF Reset
  <2>2. Len(<<>>) = 0 OBVIOUS
  <2> QED BY <2>1, <2>2 DEF Reset, Announcements
<1>4. (InHand \o canQueue)' = <<>>
  <2>1. <<>> \o <<>> = <<>> BY ConcatEmptySeq, EmptySeq
  <2> QED BY <2>1 DEF Reset, InHand
<1>5. Ranging' = "idle" BY DEF Reset, Ranging
<1> QED BY <1>2, <1>3, <1>4, <1>5 DEF Reset, AS!ServiceRestart

LEMMA WriteStep ==
  ASSUME NEW cmd \in Writes, OnWrite(cmd) PROVE AS!Hears(cmd)
<1>1. UNCHANGED <<Verifying \o Responses, Announcements>>
  BY Unqueued DEF OnWrite, bleVars
<1>2. UNCHANGED (InHand \o canQueue) BY HandKept DEF OnWrite, canVars
<1>3. UNCHANGED Ranging BY RangingKept DEF OnWrite, uwbVars
<1> QED
  BY <1>1, <1>2, <1>3 DEF OnWrite, AfterWrite, uwbVars, bleVars, canVars, linkVars,
                          AS!Hears, AS!sessionVars, AS!rangingVars, AS!doorVars

LEMMA AnswerStep ==
  ASSUME BleTypes, CountTypes, NEW resp \in Int, OnResponse(resp) PROVE AS!Answer(resp)
<1>1. Verify(resp, session) \in BleMsg BY SessionMessages DEF CountTypes
<1>2. /\ Verify(resp, session).type = "AUTH_VERIFY" /\ Verify(resp, session).data = resp
      /\ bleQueue' = Offer(bleQueue, BleDepth, Verify(resp, session))
      /\ UNCHANGED <<ble, msg>>
  BY DEF Verify, OnResponse
<1>3. Responses' \in {Responses, Append(Responses, resp)}
  BY <1>1, <1>2, OfferSelects DEF Responses
<1>4. Verifying' = Verifying BY <1>2 DEF Verifying
<1>5. Verifying \o Append(Responses, resp) = Append(Verifying \o Responses, resp)
  BY ListTypes, ConcatAppend
<1>6. (Verifying \o Responses)'
        \in {Append(Verifying \o Responses, resp), Verifying \o Responses}
  BY <1>3, <1>4, <1>5
<1>7. UNCHANGED Announcements
  <2>1. Selected(bleQueue', "NOTIFY_UWB_ACTIVE") = Selected(bleQueue, "NOTIFY_UWB_ACTIVE")
    BY <1>1, <1>2, OfferSelects
  <2> QED BY <1>2, <2>1 DEF Announcements
<1>8. UNCHANGED (InHand \o canQueue) BY HandKept DEF OnResponse, canVars
<1>9. UNCHANGED Ranging BY RangingKept DEF OnResponse, uwbVars
<1> QED
  BY <1>6, <1>7, <1>8, <1>9 DEF OnResponse, uwbVars, canVars, linkVars, AS!Answer,
                                AS!rangingVars, AS!doorVars

\* What the central does.
LEMMA CentralStep ==
  ASSUME BleTypes, CountTypes, ResponseInv, CentralWrites
  PROVE  AS!ServiceNext \/ UNCHANGED AS!serviceVars
<1>1. ASSUME NEW cmd \in Writes, OnWrite(cmd) PROVE AS!ServiceNext
  BY <1>1, WriteStep DEF AS!ServiceNext, Writes
<1>2. ASSUME NEW resp \in Int, OnResponse(resp), resp \in -1..session PROVE AS!ServiceNext
  BY <1>2, AnswerStep DEF AS!ServiceNext
<1>3. CASE CentralRead
  <2>1. UNCHANGED <<Verifying \o Responses, Announcements>>
    BY <1>3, Unqueued DEF CentralRead, bleVars
  <2>2. UNCHANGED (InHand \o canQueue) BY <1>3, HandKept DEF CentralRead, canVars
  <2>3. UNCHANGED Ranging BY <1>3, RangingKept DEF CentralRead, uwbVars
  <2> QED
    BY <1>3, <2>1, <2>2, <2>3 DEF CentralRead, linkVars, bleVars, uwbVars, canVars,
                                  AS!serviceVars, AS!sessionVars, AS!rangingVars, AS!doorVars
<1>4. heard # NoChallenge => heard \in Int /\ heard \in -1..session
  BY DEF ResponseInv, CountTypes
<1>5. Garbage \in Int /\ Garbage \in -1..session BY DEF Garbage, CountTypes
<1> QED BY <1>1, <1>2, <1>3, <1>4, <1>5 DEF CentralWrites

\* A send for a door.
LEMMA DoorSend ==
  ASSUME CanTypes, NEW from, NEW c \in {"LOCK", "UNLOCK"}, NEW to, CbCan(from, c, to)
  PROVE  AS!AskDoor(from, c, to)
<1>1. AS!Lock!Ask(c)
  <2>1. InHand' = InHand BY DEF CbCan, InHand
  <2>2. canQueue' = Offer(canQueue, CanDepth, c) BY DEF CbCan
  <2>3. CanDepth \in Nat /\ c \in AnyCmd BY Sizes DEF AnyCmd
  <2>4. Len(InHand) <= 1
    <3>1. Len(<<canCmd>>) = 1 /\ Len(<<>>) = 0 OBVIOUS
    <3> QED BY <3>1 DEF InHand
  <2> QED BY <2>1, <2>2, <2>3, <2>4, ListType, OfferAsks DEF AS!Lock!Ask
<1>2. UNCHANGED <<Verifying \o Responses, Announcements>> BY Unqueued DEF CbCan, bleVars
<1>3. UNCHANGED Ranging BY RangingKept DEF CbCan, uwbVars
<1> QED
  BY <1>1, <1>2, <1>3 DEF CbCan, linkVars, bleVars, uwbVars, AS!AskDoor, AS!sessionVars,
                          AS!rangingVars

\* A send for ranging.
LEMMA RangingSend ==
  ASSUME NEW from, NEW c, NEW to, CbUwb(from, c, to)
  PROVE  AS!AskRanging(from, c, to)
<1>1. UNCHANGED <<Verifying \o Responses, Announcements>> BY Unqueued DEF CbUwb, bleVars
<1>2. UNCHANGED Ranging BY RangingKept DEF CbUwb
<1>3. UNCHANGED (InHand \o canQueue) BY HandKept DEF CbUwb, canVars
<1> QED
  BY <1>1, <1>2, <1>3 DEF CbUwb, Offer, linkVars, bleVars, canVars, AS!AskRanging,
                          AS!sessionVars, AS!doorVars

\* A send that AnchorService does not see.
LEMMA SkippedSend ==
  ASSUME BleTypes, NEW from, NEW m \in BleMsg, NEW to, CbBle(from, m, to),
         m.type \notin {"AUTH_VERIFY", "NOTIFY_UWB_ACTIVE"}
  PROVE  AS!Skip(from, to)
<1>1. UNCHANGED <<Verifying \o Responses, Announcements>> BY OfferKeeps DEF CbBle
<1>2. UNCHANGED Ranging BY RangingKept DEF CbBle, uwbVars
<1>3. UNCHANGED (InHand \o canQueue) BY HandKept DEF CbBle, canVars
<1> QED
  BY <1>1, <1>2, <1>3 DEF CbBle, linkVars, uwbVars, canVars, AS!Skip, AS!sessionVars,
                          AS!rangingVars, AS!doorVars

LEMMA SendSteps ==
  ASSUME BleTypes, CountTypes, CanTypes, Callback PROVE AS!ServiceNext
<1>1. AS!Send => AS!ServiceNext BY DEF AS!ServiceNext, AS!ServiceInternal
<1>2. Challenge(connectionGen, session) \in BleMsg BY SessionMessages DEF CountTypes
<1>3. Challenge(connectionGen, session).type = "SEND_CHALLENGE" BY DEF Challenge
<1>4. RestartAdv.type = "RESTART_ADV" BY DEF RestartAdv
<1>5. CASE CbBle("challenge", Challenge(connectionGen, session), "idle")
  BY <1>1, <1>2, <1>3, <1>5, SkippedSend DEF AS!Send
<1>6. CASE CbBle("discAdv", RestartAdv, "idle")
  BY <1>1, <1>4, <1>6, SkippedSend, FixedMessages DEF AS!Send
<1>7. CASE CbCan("unlock", "UNLOCK", "idle") BY <1>1, <1>7, DoorSend DEF AS!Send
<1>8. CASE CbCan("lock", "LOCK", "idle") BY <1>1, <1>8, DoorSend DEF AS!Send
<1>9. CASE CbCan("stopLock", "LOCK", "stop") BY <1>1, <1>9, DoorSend DEF AS!Send
<1>10. CASE CbCan("discLock", "LOCK", "discAdv") BY <1>1, <1>10, DoorSend DEF AS!Send
<1>11. CASE CbUwb("stop", "DEINIT", "idle") BY <1>1, <1>11, RangingSend DEF AS!Send
<1>12. CASE CbUwb("init", "INIT", "idle") BY <1>1, <1>12, RangingSend DEF AS!Send
<1>13. CASE CbUwb("discDeinit", "DEINIT", "discLock")
  BY <1>1, <1>13, RangingSend DEF AS!Send
<1> QED
  BY <1>5, <1>6, <1>7, <1>8, <1>9, <1>10, <1>11, <1>12, <1>13 DEF Callback

-----------------------------------------------------------------------------
(* The steps of the tasks                                                   *)

\* Any other step of a task: AnchorService sees only what is listed.
LEMMA Unnoticed ==
  ASSUME UNCHANGED <<deviceConnected, session, cb, authed, challenge, uwbQueue, carUnlocked,
                     door, Verifying \o Responses, Announcements, Ranging, InHand \o canQueue>>
  PROVE  UNCHANGED AS!serviceVars
BY DEF AS!serviceVars, AS!sessionVars, AS!rangingVars, AS!doorVars

\* What a step of bleTask leaves alone.
LEMMA BleLeaves ==
  ASSUME BleUnchanged
  PROVE  UNCHANGED <<deviceConnected, session, cb, uwbQueue, carUnlocked, door, Ranging,
                     InHand \o canQueue>>
<1>1. UNCHANGED (InHand \o canQueue) BY HandKept DEF BleUnchanged, canVars
<1>2. UNCHANGED Ranging BY RangingKept DEF BleUnchanged, uwbVars
<1> QED BY <1>1, <1>2 DEF BleUnchanged, uwbVars, canVars

\* A challenge is drawn when its request passes the generation check, which is
\* in the session of the request.
LEMMA ReceiveStep ==
  ASSUME BleTypes, CountTypes, FreshInv, RequestInv, BleReceive
  PROVE  AS!Draw \/ UNCHANGED AS!serviceVars
<1> DEFINE h == Head(bleQueue)
           passes == h.type = "SEND_CHALLENGE" /\ h.data = connectionGen
<1>1. UNCHANGED <<Verifying \o Responses, Announcements>> BY ReceiveKeeps
<1>2. /\ UNCHANGED <<deviceConnected, session, cb, uwbQueue, carUnlocked, door, Ranging,
                     InHand \o canQueue>>
      /\ authed' = authed
  BY BleLeaves DEF BleReceive
<1>3. CASE ~passes
  <2>1. challenge' = challenge BY <1>3 DEF BleReceive
  <2> QED BY <1>1, <1>2, <2>1, Unnoticed
<1>4. CASE passes
  <2>1. challenge' = h.of BY <1>4 DEF BleReceive
  <2>2. /\ h \in BleMsg /\ h = bleQueue[1] /\ 1 \in 1..Len(bleQueue)
        /\ 1 \in DOMAIN bleQueue
    <3>1. bleQueue # <<>> BY DEF BleReceive
    <3> QED BY <3>1, ListTypes, TailElements
  <2>3. h.of = session
    <3>1. Fresh(h, session, connectionGen, Adv + Pending + 2 * (1 - 1))
      BY <1>4, <2>2 DEF FreshInv, QueueFresh
    <3>2. Adv + Pending + 2 * (1 - 1) \in Nat BY Small
    <3> QED BY <1>4, <2>2, <3>1, <3>2, CheckSound DEF CountTypes
  <2>4. challenge < h.of BY <1>4, <2>2 DEF RequestInv
  <2>5. challenge # session /\ challenge' = session
    BY <2>1, <2>3, <2>4 DEF CountTypes, BleTypes
  <2>6. AS!Draw
    BY <1>1, <1>2, <2>5 DEF AS!Draw, AS!rangingVars, AS!doorVars
  <2> QED BY <2>6
<1> QED BY <1>3, <1>4

\* bleTask finished the verification it had in hand.
LEMMA VerifyStep ==
  ASSUME BleTypes, ResponseInv, BleAuthOk \/ BleKick
  PROVE  AS!Verify \/ AS!Refuse
<1>1. /\ Verifying = <<msg.data>> /\ Verifying' = <<>> /\ Responses' = Responses
      /\ ble \in {"match", "kick"} /\ ble' = "refresh"
  BY DEF BleAuthOk, BleKick, Verifying, Responses
<1>2. msg.data \in Int BY DEF BleTypes, BleMsg
<1>3. /\ Verifying \o Responses # <<>> /\ Head(Verifying \o Responses) = msg.data
      /\ Tail(Verifying \o Responses) = Responses
  BY <1>1, <1>2, ListTypes, HandFirst
<1>4. (Verifying \o Responses)' = Tail(Verifying \o Responses)
  <2>1. <<>> \o Responses = Responses BY ListTypes, ConcatEmptySeq
  <2> QED BY <1>1, <1>3, <2>1
<1>5. UNCHANGED Announcements BY <1>1 DEF Announcements, BleAuthOk, BleKick
<1>6. UNCHANGED <<deviceConnected, session, cb, uwbQueue, carUnlocked, door, Ranging,
                  InHand \o canQueue, challenge>>
  BY BleLeaves DEF BleAuthOk, BleKick
<1>7. CASE BleAuthOk
  <2>1. msg.data = challenge /\ authed' = TRUE BY <1>7 DEF BleAuthOk, ResponseInv
  <2> QED
    BY <1>3, <1>4, <1>5, <1>6, <2>1 DEF AS!Verify, AS!rangingVars, AS!doorVars
<1>8. CASE BleKick
  <2>1. authed' = authed BY <1>8 DEF BleKick
  <2> QED
    BY <1>3, <1>4, <1>5, <1>6, <2>1 DEF AS!Refuse, AS!rangingVars, AS!doorVars
<1> QED BY <1>7, <1>8

LEMMA AnnounceStep ==
  ASSUME BleTypes, BleNotifyActive PROVE AS!Announce
<1>1. UNCHANGED (Verifying \o Responses) BY DEF BleNotifyActive, Verifying, Responses
<1>2. Announcements > 0 /\ Announcements' = Announcements - 1
  <2>1. PICK n : n = Len(Selected(bleQueue, "NOTIFY_UWB_ACTIVE")) OBVIOUS
  <2>2. n \in Nat BY <2>1, ListTypes
  <2>3. Announcements = n + 1 /\ Announcements' = n + 0
    BY <2>1 DEF BleNotifyActive, Announcements
  <2> QED BY <2>2, <2>3
<1>3. UNCHANGED <<deviceConnected, session, cb, uwbQueue, carUnlocked, door, Ranging,
                  InHand \o canQueue, challenge, authed>>
  BY BleLeaves DEF BleNotifyActive
<1> QED BY <1>1, <1>2, <1>3 DEF AS!Announce, AS!sessionVars, AS!doorVars

LEMMA BleStep ==
  ASSUME BleTypes, CountTypes, FreshInv, RequestInv, ResponseInv, BleTask
  PROVE  AS!ServiceNext \/ UNCHANGED AS!serviceVars
<1>1. CASE BleReceive BY <1>1, ReceiveStep DEF AS!ServiceNext, AS!ServiceInternal
<1>2. CASE BleAuthOk \/ BleKick BY <1>2, VerifyStep DEF AS!ServiceNext
<1>3. CASE BleNotifyActive BY <1>3, AnnounceStep DEF AS!ServiceNext
<1>4. CASE \/ BleTimeout \/ BleCheckChallenge \/ BleNotifyChallenge \/ BleRestartAdv
           \/ BleNoRefresh \/ BleRefreshDue \/ BleRefreshAdv
  <2>1. /\ UNCHANGED <<bleQueue, challenge, authed>> /\ BleUnchanged
        /\ ble \notin {"match", "kick", "notify"} /\ ble' \notin {"match", "kick", "notify"}
    BY <1>4 DEF BleTimeout, BleCheckChallenge, BleNotifyChallenge, BleRestartAdv,
                BleNoRefresh, BleRefreshDue, BleRefreshAdv
  <2>2. UNCHANGED <<Verifying \o Responses, Announcements>>
    BY <2>1 DEF Verifying, Responses, Announcements
  <2> QED BY <2>1, <2>2, BleLeaves, Unnoticed
<1> QED BY <1>1, <1>2, <1>3, <1>4 DEF BleTask

\* What a step of uwbTask leaves alone.
LEMMA UwbLeaves ==
  ASSUME UwbUnchanged
  PROVE  UNCHANGED <<deviceConnected, session, cb, authed, challenge, carUnlocked, door,
                     InHand \o canQueue>>
<1>1. UNCHANGED (InHand \o canQueue) BY HandKept DEF UwbUnchanged, canVars
<1> QED BY <1>1 DEF UwbUnchanged, linkVars, canVars

\* Idle, a command other than INIT is forgotten; polling, one other than DEINIT.
LEMMA TakeStep ==
  ASSUME UwbWake \/ UwbPoll
  PROVE  AS!TakeCommand \/ UNCHANGED AS!serviceVars
<1>1. UNCHANGED <<Verifying \o Responses, Announcements>>
  BY Unqueued DEF UwbWake, UwbPoll, UwbUnchanged
<1>2. UNCHANGED <<deviceConnected, session, cb, authed, challenge, carUnlocked, door,
                  InHand \o canQueue>>
  BY UwbLeaves DEF UwbWake, UwbPoll
<1>3. CASE UwbWake
  <2>1. /\ uwbQueue # <<>> /\ uwbQueue' = Tail(uwbQueue) /\ Ranging = "idle"
        /\ Ranging' = IF Head(uwbQueue) = "INIT" THEN "init" ELSE "idle"
    BY <1>3 DEF UwbWake, Ranging
  <2> QED
    BY <1>1, <1>2, <2>1 DEF AS!TakeCommand, AS!sessionVars, AS!doorVars
<1>4. CASE UwbPoll /\ uwbQueue = <<>>
  <2>1. uwbQueue' = uwbQueue /\ Ranging' = Ranging BY <1>4 DEF UwbPoll, Ranging
  <2> QED BY <1>1, <1>2, <2>1, Unnoticed
<1>5. CASE UwbPoll /\ uwbQueue # <<>>
  <2>1. /\ uwbQueue' = Tail(uwbQueue) /\ Ranging = "active"
        /\ Ranging' = IF Head(uwbQueue) = "DEINIT" THEN "idle" ELSE "active"
    BY <1>5 DEF UwbPoll, Ranging
  <2> QED
    BY <1>1, <1>2, <1>5, <2>1 DEF AS!TakeCommand, AS!sessionVars, AS!doorVars
<1> QED BY <1>3, <1>4, <1>5

LEMMA StartStep ==
  ASSUME UwbInit PROVE AS!Start
<1>1. UNCHANGED <<Verifying \o Responses, Announcements>>
  BY Unqueued DEF UwbInit, UwbUnchanged
<1>2. UNCHANGED <<deviceConnected, session, cb, authed, challenge, carUnlocked, door,
                  InHand \o canQueue, uwbQueue>>
  BY UwbLeaves DEF UwbInit
<1>3. Ranging = "init" /\ Ranging' \in {"notify", "idle"} BY DEF UwbInit, Ranging
<1> QED BY <1>1, <1>2, <1>3 DEF AS!Start, AS!sessionVars, AS!doorVars

LEMMA QueueAnnounceStep ==
  ASSUME BleTypes, UwbSendNotify PROVE AS!QueueAnnounce
<1>1. /\ NotifyActive \in BleMsg /\ NotifyActive.type = "NOTIFY_UWB_ACTIVE"
      /\ NotifyActive.data \in Int
      /\ bleQueue' = Offer(bleQueue, BleDepth, NotifyActive) /\ UNCHANGED <<ble, msg>>
  BY FixedMessages DEF NotifyActive, UwbSendNotify, UwbUnchanged
<1>2. UNCHANGED (Verifying \o Responses)
  <2>1. Selected(bleQueue', "AUTH_VERIFY") = Selected(bleQueue, "AUTH_VERIFY")
    BY <1>1, OfferSelects
  <2> QED BY <1>1, <2>1 DEF Verifying, Responses
<1>3. Announcements' \in {Announcements, Announcements + 1}
  <2>1. PICK s : s = Selected(bleQueue, "NOTIFY_UWB_ACTIVE") OBVIOUS
  <2>2. s \in Seq(Int) BY <2>1, ListTypes, SelectedType
  <2>3. Selected(bleQueue', "NOTIFY_UWB_ACTIVE") \in {s, Append(s, NotifyActive.data)}
    BY <1>1, <2>1, OfferSelects
  <2>4. Len(Append(s, NotifyActive.data)) = Len(s) + 1 /\ Len(s) \in Nat BY <1>1, <2>2
  <2>5. PICK k \in {0, 1} :
          Announcements = Len(s) + k
          /\ Announcements' = Len(Selected(bleQueue', "NOTIFY_UWB_ACTIVE")) + k
    BY <1>1, <2>1 DEF Announcements
  <2> QED BY <2>3, <2>4, <2>5
<1>4. UNCHANGED <<deviceConnected, session, cb, authed, challenge, carUnlocked, door,
                  InHand \o canQueue, uwbQueue>>
  BY UwbLeaves DEF UwbSendNotify
<1>5. Ranging = "notify" /\ Ranging' = "active" BY DEF UwbSendNotify, Ranging
<1> QED
  BY <1>2, <1>3, <1>4, <1>5 DEF AS!QueueAnnounce, AS!sessionVars, AS!doorVars

LEMMA UwbStep ==
  ASSUME BleTypes, UwbTask
  PROVE  AS!ServiceNext \/ UNCHANGED AS!serviceVars
<1>1. CASE UwbWake \/ UwbPoll BY <1>1, TakeStep DEF AS!ServiceNext, AS!ServiceInternal
<1>2. CASE UwbInit BY <1>2, StartStep DEF AS!ServiceNext, AS!ServiceInternal
<1>3. CASE UwbSendNotify BY <1>3, QueueAnnounceStep DEF AS!ServiceNext, AS!ServiceInternal
<1>4. CASE UwbSetBit \/ UwbTake \/ UwbTakeTimeout \/ UwbRanged \/ UwbDeinit \/ UwbClearBit
  <2>1. UwbUnchanged /\ UNCHANGED <<uwbQueue, bleQueue, ble, msg>>
    BY <1>4 DEF UwbSetBit, UwbTake, UwbTakeTimeout, UwbRanged, UwbDeinit, UwbClearBit,
                UwbUnchanged
  <2>2. Ranging' = Ranging
    BY <1>4 DEF UwbSetBit, UwbTake, UwbTakeTimeout, UwbRanged, UwbDeinit, UwbClearBit,
                Ranging
  <2> QED BY <2>1, <2>2, UwbLeaves, Unqueued, Unnoticed
<1> QED BY <1>1, <1>2, <1>3, <1>4 DEF UwbTask

\* What a step of canTask leaves alone.
LEMMA CanLeaves ==
  ASSUME CanUnchanged
  PROVE  UNCHANGED <<deviceConnected, session, cb, authed, challenge, uwbQueue, Ranging,
                     Verifying \o Responses, Announcements>>
<1>1. UNCHANGED <<Verifying \o Responses, Announcements>>
  BY Unqueued DEF CanUnchanged, bleVars
<1>2. UNCHANGED Ranging BY RangingKept DEF CanUnchanged
<1> QED BY <1>1, <1>2 DEF CanUnchanged, linkVars, bleVars

LEMMA ObeyStep ==
  ASSUME CanTypes, CanTask
  PROVE  AS!ServiceNext \/ UNCHANGED AS!serviceVars
<1>1. UNCHANGED <<deviceConnected, session, cb, authed, challenge, uwbQueue, Ranging,
                  Verifying \o Responses, Announcements>>
  BY CanLeaves DEF CanTask, CanReceive, CanTake, CanTakeTimeout, CanFrames
<1>2. CASE CanReceive
  <2>1. InHand = <<>> /\ InHand' = <<Head(canQueue)>> /\ canQueue' = Tail(canQueue)
    BY <1>2 DEF CanReceive, InHand
  <2>2. (InHand \o canQueue)' = InHand \o canQueue
    BY <1>2, <2>1, ListType, TakenIsFirst, ConcatEmptySeq DEF CanReceive
  <2> QED BY <1>1, <1>2, <2>2, Unnoticed DEF CanReceive
<1>3. CASE CanTake
  <2>1. (InHand \o canQueue)' = InHand \o canQueue BY <1>3 DEF CanTake, InHand
  <2> QED BY <1>1, <1>3, <2>1, Unnoticed DEF CanTake
<1>4. CASE CanTakeTimeout \/ CanFrames
  <2>1. InHand = <<canCmd>> /\ InHand' = <<>> /\ canQueue' = canQueue /\ canCmd \in AnyCmd
    BY <1>4 DEF CanTakeTimeout, CanFrames, InHand, CanTypes, AnyCmd
  <2>2. /\ InHand \o canQueue # <<>>
        /\ Head(InHand \o canQueue) = canCmd
        /\ (InHand \o canQueue)' = Tail(InHand \o canQueue)
    BY <2>1, ListType, HandFirst, ConcatEmptySeq
  <2>3. CASE CanTakeTimeout
    <3>1. AS!Lock!Lose BY <1>1, <2>2, <2>3 DEF CanTakeTimeout, AS!Lock!Lose
    <3>2. AS!Forget BY <1>1, <3>1 DEF AS!Forget, AS!sessionVars, AS!rangingVars
    <3> QED BY <3>2 DEF AS!ServiceNext, AS!ServiceInternal
  <2>4. CASE CanFrames
    <3>1. PICK ok \in {TRUE, canCmd \notin CanFaults} : CanLock(ok) \/ CanUnlock(ok)
      BY <2>4 DEF CanFrames
    <3>2. \/ canCmd = "LOCK" /\ carUnlocked' = FALSE /\ door' \in {"locked", door}
          \/ canCmd = "UNLOCK" /\ ~carUnlocked /\ carUnlocked' = TRUE /\ door' = "unlocked"
          \/ canCmd = "UNLOCK" /\ ~carUnlocked /\ carUnlocked' = FALSE
             /\ door' \in {"unlocked", door}
          \/ canCmd = "UNLOCK" /\ carUnlocked /\ UNCHANGED <<carUnlocked, door>>
      BY <3>1 DEF CanLock, CanUnlock, Doors
    <3>3. AS!Lock!Execute BY <1>1, <2>2, <3>2 DEF AS!Lock!Execute
    <3>4. AS!Obey BY <1>1, <3>3 DEF AS!Obey, AS!sessionVars, AS!rangingVars
    <3> QED BY <3>4 DEF AS!ServiceNext, AS!ServiceInternal
  <2> QED BY <1>4, <2>3, <2>4
<1> QED BY <1>2, <1>3, <1>4 DEF CanTask

-----------------------------------------------------------------------------
(* The theorem                                                              *)

\* Every step of the anchor is a step of AnchorService, or does not show.
LEMMA ServiceStep ==
  ASSUME BleTypes, CanTypes, CountTypes, FreshInv, RequestInv, ResponseInv, Next
  PROVE  AS!ServiceNext \/ UNCHANGED AS!serviceVars
<1>1. CASE OnConnect BY <1>1, ConnectStep DEF AS!ServiceNext
<1>2. CASE OnDisconnect BY <1>2, DisconnectStep DEF AS!ServiceNext
<1>3. CASE Reset BY <1>3, ResetStep DEF AS!ServiceNext
<1>4. CASE CentralWrites BY <1>4, CentralStep
<1>5. CASE Callback BY <1>5, SendSteps
<1>6. CASE BleTask BY <1>6, BleStep
<1>7. CASE UwbTask BY <1>7, UwbStep
<1>8. CASE CanTask BY <1>8, ObeyStep
<1>9. CASE AdvStops
  <2>1. UNCHANGED <<deviceConnected, session, cb, authed, bleVars, uwbVars, canVars>>
    BY <1>9 DEF AdvStops
  <2> QED BY <2>1, Unqueued, HandKept, RangingKept, Unnoticed DEF bleVars, uwbVars, canVars
<1> QED BY <1>1, <1>2, <1>3, <1>4, <1>5, <1>6, <1>7, <1>8, <1>9 DEF Next

\* A central sees of the callbacks, the queues and the three tasks one service: a
\* challenge per session, responses verified in order against the challenge of the
\* moment, ranging announced at most once per INIT, doors that obey in order.
THEOREM AnchorImplementsService == Spec => ImplementsService
<1>1. Init => AS!ServiceInit
  <2> SUFFICES ASSUME Init PROVE AS!ServiceInit OBVIOUS
  <2>1. <<>> \o <<>> = <<>> /\ Len(<<>>) = 0 BY ConcatEmptySeq, EmptySeq
  <2>2. Verifying \o Responses = <<>>
    BY <2>1, NothingSelected DEF Init, Booted, Verifying, Responses
  <2>3. Announcements = 0
    <3>1. Selected(bleQueue, "NOTIFY_UWB_ACTIVE") = <<>>
      BY NothingSelected DEF Init, Booted
    <3> QED BY <2>1, <3>1 DEF Init, Booted, Announcements
  <2>4. InHand \o canQueue = <<>> BY <2>1 DEF Init, Booted, InHand
  <2>5. Ranging = "idle" BY DEF Init, Booted, Ranging
  <2> QED BY <2>2, <2>3, <2>4, <2>5 DEF Init, Booted, AS!ServiceInit
<1>2. TypeOK /\ FreshInv /\ ServesInv /\ [Next]_vars => [AS!ServiceNext]_AS!serviceVars
  <2>1. ASSUME UNCHANGED vars PROVE UNCHANGED AS!serviceVars
    BY <2>1, Unqueued, HandKept, RangingKept, Unnoticed
    DEF vars, linkVars, bleVars, uwbVars, canVars
  <2>2. ASSUME TypeOK, FreshInv, ServesInv, Next
        PROVE  AS!ServiceNext \/ UNCHANGED AS!serviceVars
    BY <2>2, ServiceStep DEF TypeOK, ServesInv
  <2> QED BY <2>1, <2>2
<1> QED
  BY <1>1, <1>2, TypeCorrect, RequestsFresh, ServesAlways, PTL
  DEF Spec, ImplementsService, AS!ServiceSpec
=============================================================================

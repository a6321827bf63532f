-------------------------- MODULE UwbRangingProofs --------------------------
(***************************************************************************)
(* The distance of every round is the true one, for the counters as the      *)
(* DW3000 has them, wherever they stand when the round begins.  TLC tries   *)
(* a handful of positions of much smaller counters.  The ring buffer of the  *)
(* filter, of any size, averages the distances since ranging began, and so   *)
(* no word is without a reason.                                             *)
(***************************************************************************)
EXTENDS UwbRanging, FiniteSetTheorems, SequenceTheorems, WellFoundedInduction, TLAPS

\* Counters of 40 bits of which the code keeps 32, a transmit time in units of 8
\* bits, a reply delay of at most 15 ms and at most 18 km between the antennas.
DW3000 ==
  /\ Full = 1099511627776 /\ Low = 4294967296 /\ Unit = 256
  /\ ReplyDelay \in Int /\ 1024 <= ReplyDelay /\ ReplyDelay <= 1000000000
  /\ TxAntDly \in Int /\ 0 <= TxAntDly /\ TxAntDly <= 65535
  /\ \A p \in TagClocks : p \in Int /\ 0 <= p /\ p < 1099511627776
  /\ \A s \in Skews : s \in Int
  /\ \A f \in Flights : f \in Int /\ 0 <= f /\ f <= 4000000

\* RoundTrip with the constants of the DW3000 put in, r the reply delay and y the
\* antenna delay.
Signed(x) == IF x % 4294967296 < 2147483648
             THEN x % 4294967296 ELSE (x % 4294967296) - 4294967296
TwiceFlight(p1, s, f, r, y) ==
  LET r1 == (p1 + f + s) % 1099511627776
      t == ((r1 + r) \div 256) % 4294967296
      p2 == (t - (t % 2)) * 256 + y
      r2 == ((p2 % 1099511627776) - s + f) % 1099511627776
  IN Signed((r2 % 4294967296) - (p1 % 4294967296))
     - Signed((p2 % 4294967296) - (r1 % 4294967296))

\* All its wraps and truncations cancel.
LEMMA WrapsCancel ==
  ASSUME NEW p1 \in Int, 0 <= p1, p1 < 1099511627776,
         NEW s \in Int, NEW f \in Int, 0 <= f, f <= 4000000,
         NEW r \in Int, 1024 <= r, r <= 1000000000,
         NEW y \in Int, 0 <= y, y <= 65535
  PROVE  TwiceFlight(p1, s, f, r, y) = 2 * f
BY SMTT(60) DEF TwiceFlight, Signed

\* A round gives twice the time of flight, whatever the two counters show.
THEOREM TwrExact ==
  ASSUME DW3000,
         NEW pollTx \in Int, 0 <= pollTx, pollTx < 1099511627776, NEW skew \in Int,
         NEW tof \in Int, 0 <= tof, tof <= 4000000
  PROVE  RoundTrip(pollTx, skew, tof) = 2 * tof
<1>1. RoundTrip(pollTx, skew, tof) = TwiceFlight(pollTx, skew, tof, ReplyDelay, TxAntDly)
  <2>1. Full = 1099511627776 /\ Low = 4294967296 /\ Unit = 256 BY SMT DEF DW3000
  <2>2. Full \div Unit = 4294967296 /\ Low \div 2 = 2147483648 BY <2>1, SMT
  <2> QED
    BY <2>1, <2>2, SMT DEF RoundTrip, Emission, RespTxTs, RespTxTime, Int32, Lo32,
                           TwiceFlight, Signed
<1>2. /\ ReplyDelay \in Int /\ 1024 <= ReplyDelay /\ ReplyDelay <= 1000000000
      /\ TxAntDly \in Int /\ 0 <= TxAntDly /\ TxAntDly <= 65535
  BY SMT DEF DW3000
<1> QED BY <1>1, <1>2, WrapsCancel, SMT

\* Hence every distance the filter gets is the true one.
THEOREM RangingExact ==
  ASSUME DW3000
  PROVE  RangingSpec => []DistanceRight
<1>1. RangingInit => DistanceRight BY DEF RangingInit, DistanceRight
<1>2. DistanceRight /\ [RangingNext]_rangingVars => DistanceRight'
  <2> SUFFICES ASSUME DistanceRight, [RangingNext]_rangingVars PROVE DistanceRight'
    OBVIOUS
  <2>1. ASSUME NEW pollTx \in TagClocks, NEW skew \in Skews, NEW tof \in Flights,
               Round(pollTx, skew, tof)
        PROVE  DistanceRight'
    <3>1. /\ pollTx \in Int /\ 0 <= pollTx /\ pollTx < 1099511627776 /\ skew \in Int
          /\ tof \in Int /\ 0 <= tof /\ tof <= 4000000
      BY SMT DEF DW3000
    <3>2. RoundTrip(pollTx, skew, tof) = 2 * tof BY <3>1, TwrExact, SMT
    <3>3. flight' = tof /\ distance' = RoundTrip(pollTx, skew, tof) \div 2
      BY <2>1 DEF Round
    <3>4. (2 * tof) \div 2 = tof BY <3>1, SMT
    <3> QED BY <3>2, <3>3, <3>4 DEF DistanceRight
  <2>2. CASE NoResponse BY <2>2 DEF NoResponse, DistanceRight
  <2>3. CASE Deinit BY <2>3 DEF Deinit, DistanceRight
  <2>4. CASE UNCHANGED rangingVars BY <2>4 DEF rangingVars, DistanceRight
  <2> QED BY <2>1, <2>2, <2>3, <2>4 DEF RangingNext
<1> QED BY <1>1, <1>2, PTL DEF RangingSpec

-----------------------------------------------------------------------------
(* Sums                                                                     *)

LEMMA LeastNat ==
  ASSUME NEW T, T \subseteq Nat, T # {}
  PROVE  \E n \in T : \A k \in T : n <= k
<1> DEFINE Less == {ss \in Nat \X Nat : ss[1] < ss[2]}
<1>1. Less = OpToRel(<, Nat) BY Zenon DEF OpToRel
<1>2. IsWellFoundedOn(Less, Nat) BY <1>1, NatLessThanWellFounded, Zenon
<1>3. PICK n \in T : \A k \in T : <<k, n>> \notin Less
  <2> HIDE DEF Less
  <2> QED BY <1>2, WFMin
<1>4. ASSUME NEW k \in T PROVE n <= k
  <2>1. <<k, n>> \in Nat \X Nat /\ <<k, n>>[1] = k /\ <<k, n>>[2] = n OBVIOUS
  <2>2. <<k, n>> \notin {ss \in Nat \X Nat : ss[1] < ss[2]} BY <1>3
  <2>3. ~(k < n) BY <2>1, <2>2, Zenon
  <2> QED BY <2>3
<1> QED BY <1>4

\* What holds of 0, and of n + 1 if of n, holds up to any bound.
LEMMA Induction ==
  ASSUME NEW N \in Nat, NEW P, 0 \in P, \A n \in 0..N - 1 : n \in P => n + 1 \in P
  PROVE  0..N \subseteq P
<1> SUFFICES ASSUME ~(0..N \subseteq P) PROVE FALSE OBVIOUS
<1> DEFINE T == {n \in 0..N : n \notin P}
<1>1. T \subseteq Nat /\ T # {} OBVIOUS
<1>2. PICK n \in T : \A k \in T : n <= k
  <2> HIDE DEF T
  <2> QED BY <1>1, LeastNat
<1>3. n \in 0..N /\ n \notin P /\ n # 0 OBVIOUS
<1>4. n - 1 \in 0..N - 1 /\ n - 1 \in P BY <1>2, <1>3
<1>5. (n - 1) + 1 = n BY <1>3
<1> QED BY <1>3, <1>4, <1>5

\* The sums of the first cells of h, none, one and so on up to n.
IsPrefix(P, h, n) ==
  P \in [0..n -> Int] /\ P[0] = 0 /\ \A k \in 0..n - 1 : P[k + 1] = P[k] + h[k]

LEMMA PrefixExists ==
  ASSUME NEW N \in Nat, NEW h \in [0..N - 1 -> Int]
  PROVE  \E P : IsPrefix(P, h, N)
<1> DEFINE Have == {n \in Nat : n <= N => \E P : IsPrefix(P, h, n)}
<1>1. 0 \in Have
  <2>1. IsPrefix([k \in 0..0 |-> 0], h, 0) BY DEF IsPrefix
  <2> QED BY <2>1
<1>2. ASSUME NEW n \in 0..N - 1, n \in Have PROVE n + 1 \in Have
  <2>1. PICK P : IsPrefix(P, h, n) BY <1>2
  <2> DEFINE Q == [k \in 0..n + 1 |-> IF k = n + 1 THEN P[n] + h[n] ELSE P[k]]
  <2>2. P \in [0..n -> Int] /\ P[0] = 0 /\ \A k \in 0..n - 1 : P[k + 1] = P[k] + h[k]
    BY <2>1 DEF IsPrefix
  <2>3. h[n] \in Int /\ P[n] \in Int BY <2>2
  <2>4. Q \in [0..n + 1 -> Int] BY <2>2, <2>3
  <2>5. Q[0] = 0 BY <2>2
  <2>6. ASSUME NEW k \in 0..n PROVE Q[k + 1] = Q[k] + h[k]
    <3>1. CASE k = n BY <3>1
    <3>2. CASE k # n
      <4>1. k \in 0..n - 1 /\ k + 1 \in 0..n BY <3>2
      <4> QED BY <2>2, <4>1
    <3> QED BY <3>1, <3>2
  <2> HIDE DEF Q
  <2>7. IsPrefix(Q, h, n + 1) BY <2>4, <2>5, <2>6 DEF IsPrefix
  <2> QED BY <2>7
<1>3. 0..N \subseteq Have
  <2> HIDE DEF Have
  <2> QED BY <1>1, <1>2, Induction
<1> QED BY <1>3

Total(h, N) == (CHOOSE P : IsPrefix(P, h, N))[N]

LEMMA TotalType ==
  ASSUME NEW N \in Nat, NEW h \in [0..N - 1 -> Int]
  PROVE  Total(h, N) \in Int
<1>1. PICK P : P = CHOOSE R : IsPrefix(R, h, N) OBVIOUS
<1>2. IsPrefix(P, h, N) BY <1>1, PrefixExists
<1>3. P[N] \in Int BY <1>2 DEF IsPrefix
<1> QED BY <1>1, <1>3 DEF Total

\* One cell makes its difference to the total.
LEMMA TotalChange ==
  ASSUME NEW N \in Nat, NEW h \in [0..N - 1 -> Int], NEW g \in [0..N - 1 -> Int],
         NEW x \in 0..N - 1, \A i \in 0..N - 1 : i # x => g[i] = h[i]
  PROVE  Total(g, N) = Total(h, N) + (g[x] - h[x])
<1>1. PICK P : P = CHOOSE R : IsPrefix(R, h, N) OBVIOUS
<1>2. PICK Q : Q = CHOOSE R : IsPrefix(R, g, N) OBVIOUS
<1>3. IsPrefix(P, h, N) /\ IsPrefix(Q, g, N) BY <1>1, <1>2, PrefixExists
<1>4. /\ P \in [0..N -> Int] /\ P[0] = 0 /\ \A k \in 0..N - 1 : P[k + 1] = P[k] + h[k]
      /\ Q \in [0..N -> Int] /\ Q[0] = 0 /\ \A k \in 0..N - 1 : Q[k + 1] = Q[k] + g[k]
  BY <1>3 DEF IsPrefix
<1> DEFINE d == g[x] - h[x]
           Right == {k \in Nat : Q[k] = P[k] + (IF k > x THEN d ELSE 0)}
<1>5. 0 \in Right BY <1>4
<1>6. ASSUME NEW n \in 0..N - 1, n \in Right PROVE n + 1 \in Right
  <2>1. g[n] \in Int /\ h[n] \in Int /\ P[n] \in Int /\ Q[n] \in Int BY <1>4
  <2>2. Q[n + 1] = Q[n] + g[n] /\ P[n + 1] = P[n] + h[n] BY <1>4
  <2>3. CASE n = x BY <1>6, <2>1, <2>2, <2>3
  <2>4. CASE n # x
    <3>1. g[n] = h[n] /\ (n + 1 > x <=> n > x) BY <2>4
    <3> QED BY <1>6, <2>1, <2>2, <3>1
  <2> QED BY <2>3, <2>4
<1>7. 0..N \subseteq Right
  <2> HIDE DEF Right
  <2> QED BY <1>5, <1>6, Induction
<1>8. Q[N] = P[N] + d BY <1>7
<1> QED BY <1>1, <1>2, <1>8 DEF Total

LEMMA TotalZero ==
  ASSUME NEW N \in Nat
  PROVE  Total([i \in 0..N - 1 |-> 0], N) = 0
<1> DEFINE h == [i \in 0..N - 1 |-> 0]
<1>1. PICK P : P = CHOOSE R : IsPrefix(R, h, N) OBVIOUS
<1>2. IsPrefix(P, h, N) BY <1>1, PrefixExists
<1>3. P[0] = 0 /\ \A k \in 0..N - 1 : P[k + 1] = P[k] + 0 BY <1>2 DEF IsPrefix
<1> DEFINE Zero == {k \in Nat : P[k] = 0}
<1>4. 0 \in Zero BY <1>3
<1>5. ASSUME NEW n \in 0..N - 1, n \in Zero PROVE n + 1 \in Zero BY <1>3, <1>5
<1>6. 0..N \subseteq Zero
  <2> HIDE DEF Zero
  <2> QED BY <1>4, <1>5, Induction
<1> QED BY <1>1, <1>6 DEF Total

\* The sum over a set of indices below N is the total of the cells outside which there is
\* nothing, for taking one element away makes its difference, whichever it is.
Mask(f, s, N) == [i \in 0..N - 1 |-> IF i \in s THEN f[i] ELSE 0]
Pick(s) == CHOOSE x \in s : TRUE
IsSum(G, f, S) ==
  G = [s \in SUBSET S |-> IF s = {} THEN 0 ELSE f[Pick(s)] + G[s \ {Pick(s)}]]

LEMMA MaskType ==
  ASSUME NEW N \in Nat, NEW s \in SUBSET (0..N - 1), NEW f, \A i \in s : f[i] \in Int
  PROVE  Mask(f, s, N) \in [0..N - 1 -> Int]
BY DEF Mask

LEMMA MaskAdd ==
  ASSUME NEW N \in Nat, NEW s \in SUBSET (0..N - 1), NEW f, \A i \in s : f[i] \in Int,
         NEW x \in s
  PROVE  Total(Mask(f, s, N), N) = f[x] + Total(Mask(f, s \ {x}, N), N)
<1> DEFINE h == Mask(f, s \ {x}, N)
           g == Mask(f, s, N)
<1>1. h \in [0..N - 1 -> Int] /\ g \in [0..N - 1 -> Int] BY MaskType
<1>2. x \in 0..N - 1 /\ g[x] = f[x] /\ h[x] = 0 /\ f[x] \in Int BY DEF Mask
<1>3. \A i \in 0..N - 1 : i # x => g[i] = h[i] BY DEF Mask
<1> HIDE DEF h, g
<1>4. Total(h, N) \in Int BY <1>1, TotalType
<1>5. Total(g, N) = Total(h, N) + (g[x] - h[x])
  <2>1. x \in 0..N - 1 BY <1>2
  <2> QED BY ONLY N \in Nat, <1>1, <2>1, <1>3, TotalChange, Zenon
<1>6. Total(g, N) = f[x] + Total(h, N) BY <1>2, <1>4, <1>5
<1> QED BY <1>6 DEF h, g

LEMMA MaskNone ==
  ASSUME NEW N \in Nat, NEW f
  PROVE  Total(Mask(f, {}, N), N) = 0
<1>1. Mask(f, {}, N) = [i \in 0..N - 1 |-> 0] BY DEF Mask
<1> QED BY <1>1, TotalZero

LEMMA SumIsTotal ==
  ASSUME NEW N \in Nat, NEW S \in SUBSET (0..N - 1), NEW f, \A i \in S : f[i] \in Int
  PROVE  SumFunctionOnSet(f, S) = Total(Mask(f, S, N), N)
<1> DEFINE T == [s \in SUBSET S |-> Total(Mask(f, s, N), N)]
<1>1. SumFunctionOnSet(f, S) = (CHOOSE G : IsSum(G, f, S))[S]
  BY DEF SumFunctionOnSet, FoldFunctionOnSet, MapThenFoldSet, IsSum, Pick
<1>2. ASSUME NEW s \in SUBSET S, s # {}
      PROVE  Pick(s) \in s /\ T[s] = f[Pick(s)] + T[s \ {Pick(s)}]
  <2>1. Pick(s) \in s BY <1>2 DEF Pick
  <2>2. s \ {Pick(s)} \in SUBSET S OBVIOUS
  <2>3. Total(Mask(f, s, N), N) = f[Pick(s)] + Total(Mask(f, s \ {Pick(s)}, N), N)
    <3>1. s \in SUBSET (0..N - 1) /\ \A i \in s : f[i] \in Int OBVIOUS
    <3> QED BY <2>1, <3>1, MaskAdd
  <2> QED BY <2>1, <2>2, <2>3
<1>3. T[{}] = 0 BY MaskNone
<1>4. IsSum(T, f, S)
  <2>1. ASSUME NEW s \in SUBSET S
        PROVE  T[s] = IF s = {} THEN 0 ELSE f[Pick(s)] + T[s \ {Pick(s)}]
    <3> HIDE DEF T
    <3> QED BY <1>2, <1>3
  <2>2. T = [s \in SUBSET S |-> T[s]] OBVIOUS
  <2> HIDE DEF T
  <2> QED BY <2>1, <2>2 DEF IsSum
<1>5. PICK G : G = CHOOSE R : IsSum(R, f, S) OBVIOUS
<1>6. IsSum(G, f, S) BY <1>4, <1>5
<1>7. \A s \in SUBSET S : G[s] = IF s = {} THEN 0 ELSE f[Pick(s)] + G[s \ {Pick(s)}]
  BY <1>6 DEF IsSum
<1>8. IsFiniteSet(S)
  <2>1. IsFiniteSet(0..N - 1) BY FS_Interval
  <2> QED BY <2>1, FS_Subset
<1> DEFINE Same == {k \in Nat : \A s \in SUBSET S : Cardinality(s) = k => G[s] = T[s]}
<1> HIDE DEF T
<1>9. 0 \in Same
  <2> SUFFICES ASSUME NEW s \in SUBSET S, Cardinality(s) = 0 PROVE G[s] = T[s]
    OBVIOUS
  <2>1. s = {} BY <1>8, FS_Subset, FS_EmptySet
  <2> QED BY <1>3, <1>7, <2>1
<1>10. ASSUME NEW n \in 0..Cardinality(S) - 1, n \in Same PROVE n + 1 \in Same
  <2>1. n \in Nat OBVIOUS
  <2>2. SUFFICES ASSUME NEW s \in SUBSET S, Cardinality(s) = n + 1 PROVE G[s] = T[s]
    BY <2>1
  <2>3. IsFiniteSet(s) BY <1>8, FS_Subset
  <2>4. s # {} BY <2>1, <2>2, FS_EmptySet
  <2>5. Pick(s) \in s /\ T[s] = f[Pick(s)] + T[s \ {Pick(s)}] BY <1>2, <2>4
  <2>6. Cardinality(s \ {Pick(s)}) = n
    <3>1. Cardinality(s \ {Pick(s)}) = Cardinality(s) - 1 BY <2>3, <2>5, FS_RemoveElement
    <3> QED BY <2>1, <2>2, <3>1
  <2>7. s \ {Pick(s)} \in SUBSET S OBVIOUS
  <2>8. G[s \ {Pick(s)}] = T[s \ {Pick(s)}] BY <1>10, <2>6, <2>7
  <2> QED BY <1>7, <2>4, <2>5, <2>8
<1>11. Cardinality(S) \in Nat BY <1>8, FS_CardinalityType
<1>12. 0..Cardinality(S) \subseteq Same
  <2> HIDE DEF Same
  <2> QED BY <1>9, <1>10, <1>11, Induction
<1>13. G[S] = T[S] BY <1>11, <1>12
<1> QED BY <1>1, <1>5, <1>13 DEF T

-----------------------------------------------------------------------------
\* What the properties need to know of a sum.

LEMMA SumEmpty == ASSUME NEW f PROVE SumFunctionOnSet(f, {}) = 0
<1>1. SumFunctionOnSet(f, {}) = Total(Mask(f, {}, 0), 0) BY SumIsTotal
<1> QED BY <1>1, MaskNone

LEMMA SumAdd ==
  ASSUME NEW N \in Nat, NEW S \in SUBSET (0..N - 1), NEW f, NEW a \in 0..N - 1, a \notin S,
         \A i \in S \cup {a} : f[i] \in Int
  PROVE  SumFunctionOnSet(f, S \cup {a}) = f[a] + SumFunctionOnSet(f, S)
<1> DEFINE A == S \cup {a}
<1>1. A \in SUBSET (0..N - 1) /\ a \in A /\ A \ {a} = S /\ \A i \in A : f[i] \in Int OBVIOUS
<1> HIDE DEF A
<1>2. Total(Mask(f, A, N), N) = f[a] + Total(Mask(f, S, N), N) BY <1>1, MaskAdd
<1>3. SumFunctionOnSet(f, A) = Total(Mask(f, A, N), N) BY <1>1, SumIsTotal
<1>4. SumFunctionOnSet(f, S) = Total(Mask(f, S, N), N) BY SumIsTotal
<1> QED BY <1>2, <1>3, <1>4 DEF A

LEMMA SumSame ==
  ASSUME NEW N \in Nat, NEW S \in SUBSET (0..N - 1), NEW f, NEW g,
         \A i \in S : f[i] \in Int /\ g[i] = f[i]
  PROVE  SumFunctionOnSet(g, S) = SumFunctionOnSet(f, S)
<1>1. Mask(g, S, N) = Mask(f, S, N) BY DEF Mask
<1>2. SumFunctionOnSet(f, S) = Total(Mask(f, S, N), N) BY SumIsTotal
<1>3. SumFunctionOnSet(g, S) = Total(Mask(g, S, N), N) BY SumIsTotal
<1> QED BY <1>1, <1>2, <1>3

LEMMA SumType ==
  ASSUME NEW N \in Nat, NEW S \in SUBSET (0..N - 1), NEW f, \A i \in S : f[i] \in Int
  PROVE  SumFunctionOnSet(f, S) \in Int
<1>1. Mask(f, S, N) \in [0..N - 1 -> Int] BY MaskType
<1>2. Total(Mask(f, S, N), N) \in Int BY <1>1, TotalType
<1> QED BY <1>2, SumIsTotal

\* One more element behind.
LEMMA SumSnoc ==
  ASSUME NEW n \in Nat, NEW f, \A i \in 1..n + 1 : f[i] \in Int
  PROVE  SumFunctionOnSet(f, 1..n + 1) = SumFunctionOnSet(f, 1..n) + f[n + 1]
<1> DEFINE S == 1..n
           a == n + 1
<1>0. PICK N : N = n + 2 OBVIOUS
<1>1. /\ N \in Nat /\ S \in SUBSET (0..N - 1) /\ a \in 0..N - 1 /\ a \notin S
      /\ \A i \in S \cup {a} : f[i] \in Int
  BY <1>0
<1>2. 1..n + 1 = S \cup {a} OBVIOUS
<1>3. f[a] \in Int OBVIOUS
<1> HIDE DEF S, a
<1>4. SumFunctionOnSet(f, S \cup {a}) = f[a] + SumFunctionOnSet(f, S) BY <1>1, SumAdd
<1>5. SumFunctionOnSet(f, S) \in Int BY <1>1, SumType
<1>6. SumFunctionOnSet(f, S \cup {a}) = SumFunctionOnSet(f, S) + f[a] BY <1>3, <1>4, <1>5
<1> QED BY <1>2, <1>6 DEF S, a

LEMMA SumSnocType ==
  ASSUME NEW n \in Nat, NEW f, \A i \in 1..n : f[i] \in Int
  PROVE  SumFunctionOnSet(f, 1..n) \in Int
<1>1. PICK N : N = n + 1 OBVIOUS
<1>2. N \in Nat /\ 1..n \in SUBSET (0..N - 1) BY <1>1
<1> QED BY <1>2, SumType

LEMMA SumNone == ASSUME NEW f PROVE SumFunctionOnSet(f, 1..0) = 0
<1>1. 1..0 = {} OBVIOUS
<1> QED BY <1>1, SumEmpty

\* A sequence that loses its first element.
LEMMA SumShift ==
  ASSUME NEW n \in Nat, NEW f, NEW g, \A i \in 1..n + 1 : f[i] \in Int,
         \A i \in 1..n : g[i] = f[i + 1]
  PROVE  SumFunctionOnSet(g, 1..n) = SumFunctionOnSet(f, 1..n + 1) - f[1]
<1> DEFINE Right == {k \in Nat :
             k <= n => SumFunctionOnSet(g, 1..k) = SumFunctionOnSet(f, 1..k + 1) - f[1]}
<1>1. 0 \in Right
  <2>1. PICK m : m = 0 OBVIOUS
  <2>2. m \in Nat /\ \A i \in 1..m + 1 : f[i] \in Int BY <2>1
  <2>3. SumFunctionOnSet(f, 1..m + 1) = SumFunctionOnSet(f, 1..m) + f[m + 1] BY <2>2, SumSnoc
  <2>4. f[1] \in Int /\ m + 1 = 1 BY <2>1
  <2>5. SumFunctionOnSet(f, 1..m) = 0 /\ SumFunctionOnSet(g, 1..m) = 0 BY <2>1, SumNone
  <2>6. SumFunctionOnSet(g, 1..m) = SumFunctionOnSet(f, 1..m + 1) - f[1]
    BY <2>3, <2>4, <2>5
  <2> QED BY <2>1, <2>6
<1>2. ASSUME NEW k \in 0..n - 1, k \in Right PROVE k + 1 \in Right
  <2>1. /\ k \in Nat /\ k + 1 \in Nat /\ (k + 1) + 1 = k + 2
        /\ \A i \in 1..k + 1 : g[i] \in Int /\ f[i] \in Int
        /\ \A i \in 1..(k + 1) + 1 : f[i] \in Int
    OBVIOUS
  <2>2. SumFunctionOnSet(g, 1..k + 1) = SumFunctionOnSet(g, 1..k) + g[k + 1]
    BY <2>1, SumSnoc
  <2>3. SumFunctionOnSet(f, 1..(k + 1) + 1) = SumFunctionOnSet(f, 1..k + 1) + f[(k + 1) + 1]
    BY <2>1, SumSnoc
  <2>4. SumFunctionOnSet(g, 1..k) = SumFunctionOnSet(f, 1..k + 1) - f[1] BY <1>2, <2>1
  <2>5. SumFunctionOnSet(f, 1..k + 1) \in Int BY <2>1, SumSnocType
  <2>6. g[k + 1] = f[(k + 1) + 1] /\ g[k + 1] \in Int /\ f[1] \in Int BY <2>1
  <2>7. SumFunctionOnSet(g, 1..k + 1) = SumFunctionOnSet(f, 1..(k + 1) + 1) - f[1]
    BY <2>2, <2>3, <2>4, <2>5, <2>6
  <2> QED BY <2>1, <2>7
<1>3. 0..n \subseteq Right
  <2> HIDE DEF Right
  <2> QED BY <1>1, <1>2, Induction
<1>4. n \in Right BY <1>3
<1> QED BY <1>4

\* A sum of n numbers none of which is below, or above, a limit.
LEMMA SumAtLeast ==
  ASSUME NEW n \in Nat, NEW f, NEW limit \in Int, \A i \in 1..n : f[i] \in Int /\ limit <= f[i]
  PROVE  limit * n <= SumFunctionOnSet(f, 1..n)
<1> DEFINE Right == {k \in Nat : k <= n => limit * k <= SumFunctionOnSet(f, 1..k)}
<1>1. 0 \in Right BY SumNone
<1>2. ASSUME NEW k \in 0..n - 1, k \in Right PROVE k + 1 \in Right
  <2>1. k \in Nat /\ k + 1 \in 1..n /\ \A i \in 1..k + 1 : f[i] \in Int OBVIOUS
  <2>2. SumFunctionOnSet(f, 1..k + 1) = SumFunctionOnSet(f, 1..k) + f[k + 1] BY <2>1, SumSnoc
  <2>3. SumFunctionOnSet(f, 1..k) \in Int BY <2>1, SumSnocType
  <2>4. limit * (k + 1) = limit * k + limit BY <2>1
  <2>5. limit <= f[k + 1] /\ f[k + 1] \in Int /\ limit * k \in Int BY <2>1
  <2>6. limit * k <= SumFunctionOnSet(f, 1..k) BY <1>2, <2>1
  <2>7. limit * (k + 1) <= SumFunctionOnSet(f, 1..k + 1) BY <2>2, <2>3, <2>4, <2>5, <2>6
  <2> QED BY <2>1, <2>7
<1>3. 0..n \subseteq Right
  <2> HIDE DEF Right
  <2> QED BY <1>1, <1>2, Induction
<1>4. n \in Right BY <1>3
<1> QED BY <1>4

LEMMA SumAtMost ==
  ASSUME NEW n \in Nat, NEW f, NEW limit \in Int, \A i \in 1..n : f[i] \in Int /\ f[i] <= limit
  PROVE  SumFunctionOnSet(f, 1..n) <= limit * n
<1> DEFINE Right == {k \in Nat : k <= n => SumFunctionOnSet(f, 1..k) <= limit * k}
<1>1. 0 \in Right BY SumNone
<1>2. ASSUME NEW k \in 0..n - 1, k \in Right PROVE k + 1 \in Right
  <2>1. k \in Nat /\ k + 1 \in 1..n /\ \A i \in 1..k + 1 : f[i] \in Int OBVIOUS
  <2>2. SumFunctionOnSet(f, 1..k + 1) = SumFunctionOnSet(f, 1..k) + f[k + 1] BY <2>1, SumSnoc
  <2>3. SumFunctionOnSet(f, 1..k) \in Int BY <2>1, SumSnocType
  <2>4. limit * (k + 1) = limit * k + limit BY <2>1
  <2>5. f[k + 1] <= limit /\ f[k + 1] \in Int /\ limit * k \in Int BY <2>1
  <2>6. SumFunctionOnSet(f, 1..k) <= limit * k BY <1>2, <2>1
  <2>7. SumFunctionOnSet(f, 1..k + 1) <= limit * (k + 1) BY <2>2, <2>3, <2>4, <2>5, <2>6
  <2> QED BY <2>1, <2>7
<1>3. 0..n \subseteq Right
  <2> HIDE DEF Right
  <2> QED BY <1>1, <1>2, Induction
<1>4. n \in Right BY <1>3
<1> QED BY <1>4

\* One cell of the ring is written: behind the others, or over one of them.
LEMMA SumGrow ==
  ASSUME NEW n \in Nat, NEW b, NEW c, \A i \in 0..n - 1 : b[i] \in Int /\ c[i] = b[i], c[n] \in Int
  PROVE  SumFunctionOnSet(c, 0..n) = SumFunctionOnSet(b, 0..n - 1) + c[n]
<1> DEFINE S == 0..n - 1
<1>0. PICK N : N = n + 1 OBVIOUS
<1>1. /\ N \in Nat /\ S \in SUBSET (0..N - 1) /\ n \in 0..N - 1 /\ n \notin S
      /\ \A i \in S \cup {n} : c[i] \in Int
      /\ \A i \in S : b[i] \in Int /\ c[i] = b[i]
  BY <1>0
<1>2. 0..n = S \cup {n} OBVIOUS
<1> HIDE DEF S
<1>3. SumFunctionOnSet(c, S \cup {n}) = c[n] + SumFunctionOnSet(c, S) BY <1>1, SumAdd
<1>4. SumFunctionOnSet(c, S) = SumFunctionOnSet(b, S) BY <1>1, SumSame
<1>5. SumFunctionOnSet(b, S) \in Int BY <1>1, SumType
<1>6. SumFunctionOnSet(c, S \cup {n}) = SumFunctionOnSet(b, S) + c[n] BY <1>3, <1>4, <1>5
<1> QED BY <1>2, <1>6 DEF S

LEMMA SumOver ==
  ASSUME NEW n \in Nat, NEW b \in [0..n - 1 -> Int], NEW c \in [0..n - 1 -> Int],
         NEW x \in 0..n - 1, \A i \in 0..n - 1 : i # x => c[i] = b[i]
  PROVE  SumFunctionOnSet(c, 0..n - 1) = SumFunctionOnSet(b, 0..n - 1) - b[x] + c[x]
<1> DEFINE S == (0..n - 1) \ {x}
<1>1. /\ S \in SUBSET (0..n - 1) /\ x \notin S
      /\ \A i \in S \cup {x} : c[i] \in Int /\ b[i] \in Int
      /\ \A i \in S : b[i] \in Int /\ c[i] = b[i]
  OBVIOUS
<1>2. 0..n - 1 = S \cup {x} OBVIOUS
<1>3. b[x] \in Int /\ c[x] \in Int OBVIOUS
<1> HIDE DEF S
<1>4. SumFunctionOnSet(c, S \cup {x}) = c[x] + SumFunctionOnSet(c, S) BY <1>1, SumAdd
<1>5. SumFunctionOnSet(b, S \cup {x}) = b[x] + SumFunctionOnSet(b, S) BY <1>1, SumAdd
<1>6. SumFunctionOnSet(c, S) = SumFunctionOnSet(b, S) BY <1>1, SumSame
<1>7. SumFunctionOnSet(b, S) \in Int BY <1>1, SumType
<1>8. SumFunctionOnSet(c, S \cup {x}) = SumFunctionOnSet(b, S \cup {x}) - b[x] + c[x]
  BY <1>3, <1>4, <1>5, <1>6, <1>7
<1> QED BY <1>2, <1>8

-----------------------------------------------------------------------------
(* Types                                                                    *)

LEMMA TripType ==
  ASSUME NEW pollTx \in Int, NEW skew \in Int, NEW tof \in Int
  PROVE  RoundTrip(pollTx, skew, tof) \in Int
<1>1. /\ Full \in Nat \ {0} /\ Low \in Nat \ {0} /\ Unit \in Nat \ {0} /\ Unit <= Full
      /\ ReplyDelay \in Int /\ TxAntDly \in Int
  BY RangingConstantsOK
<1>2. Full \div Unit \in Nat \ {0} BY <1>1
<1>3. ASSUME NEW x \in Int PROVE Int32(x) \in Int /\ Lo32(x) \in Int
  BY <1>1 DEF Int32, Lo32
<1>4. ASSUME NEW t \in Int PROVE RespTxTs(t) \in Int /\ Emission(t) \in Int
  <2>1. (t + ReplyDelay) \div Unit \in Int BY <1>1
  <2>2. RespTxTime(t) \in Int BY <1>2, <2>1 DEF RespTxTime
  <2>3. RespTxTs(t) \in Int BY <1>1, <2>2 DEF RespTxTs
  <2>4. Emission(t) = RespTxTs(t) % Full BY DEF Emission, RespTxTs
  <2> QED BY <1>1, <2>3, <2>4
<1>5. PICK a : a = (pollTx + tof + skew) % Full OBVIOUS
<1>6. a \in Int BY <1>1, <1>5
<1>7. PICK b : b = (Emission(a) - skew + tof) % Full OBVIOUS
<1>8. b \in Int BY <1>1, <1>4, <1>6, <1>7
<1>9. Int32(Lo32(b) - Lo32(pollTx)) \in Int BY <1>3, <1>8
<1>10. Int32(Lo32(RespTxTs(a)) - Lo32(a)) \in Int BY <1>3, <1>4, <1>6
<1>11. RoundTrip(pollTx, skew, tof)
       = Int32(Lo32(b) - Lo32(pollTx)) - Int32(Lo32(RespTxTs(a)) - Lo32(a))
  BY <1>5, <1>7 DEF RoundTrip
<1> QED BY <1>9, <1>10, <1>11

FilterTypes ==
  /\ distBuf \in [0..Size - 1 -> 0..MaxDistance]
  /\ distBufIdx \in 0..Size - 1 /\ distBufFull \in BOOLEAN
  /\ recent \in Seq(Flights) /\ Len(recent) <= Size
OtherTypes ==
  /\ tagInUnlockZone \in BOOLEAN /\ word \in {"none", "VERIFIED", "WARNING", "UWB_STOP"}
  /\ flight \in Flights \cup {0} /\ distance \in Int

\* The true distances the filter has got, the oldest of them gone if there are more than Size.
Remembered(tof) ==
  LET all == Append(recent, tof)
  IN SubSeq(all, IF Len(all) > Size THEN 2 ELSE 1, Len(all))

LEMMA RememberedIs ==
  ASSUME NEW tof \in Flights, recent \in Seq(Flights), Len(recent) <= Size
  PROVE  /\ Remembered(tof) \in Seq(Flights)
         /\ Len(recent) < Size => Remembered(tof) = Append(recent, tof)
         /\ Len(recent) = Size =>
              /\ Len(Remembered(tof)) = Size
              /\ \A i \in 1..Size : Remembered(tof)[i] = Append(recent, tof)[i + 1]
<1> DEFINE all == Append(recent, tof)
<1>1. Size \in Nat \ {0} BY RangingConstantsOK
<1>2. all \in Seq(Flights) /\ Len(all) = Len(recent) + 1 /\ Len(recent) \in Nat OBVIOUS
<1>3. Remembered(tof) = SubSeq(all, IF Len(all) > Size THEN 2 ELSE 1, Len(all))
  BY DEF Remembered
<1> HIDE DEF all
<1>4. CASE Len(recent) < Size
  <2>1. ~(Len(all) > Size) BY <1>1, <1>2, <1>4
  <2>2. Remembered(tof) = all BY <1>2, <1>3, <2>1
  <2> QED BY <1>2, <1>4, <2>2 DEF all
<1>5. CASE Len(recent) = Size
  <2>1. Len(all) = Size + 1 BY <1>1, <1>2, <1>5
  <2>2. Remembered(tof) = SubSeq(all, 2, Size + 1) BY <1>1, <1>3, <2>1
  <2>3. PICK m : m = Size + 1 OBVIOUS
  <2>4. m \in Int /\ m <= Len(all) BY <1>1, <2>1, <2>3
  <2>5. /\ SubSeq(all, 2, m) \in Seq(Flights)
        /\ Len(SubSeq(all, 2, m)) = (IF 2 <= m THEN m - 2 + 1 ELSE 0)
        /\ \A i \in 1..m - 2 + 1 : SubSeq(all, 2, m)[i] = all[2 + i - 1]
    <3>1. 2 \in 1..Len(all) + 1 BY <1>1, <2>1
    <3>2. m \in 2 - 1..Len(all) BY <1>1, <2>1, <2>3
    <3> QED BY <1>2, <3>1, <3>2, SubSeqProperties
  <2>6. m - 2 + 1 = Size /\ 2 <= m BY <1>1, <2>3
  <2>7. \A i \in 1..Size : 2 + i - 1 = i + 1 OBVIOUS
  <2> QED BY <1>1, <1>5, <2>2, <2>3, <2>5, <2>6, <2>7 DEF all
<1> QED BY <1>1, <1>2, <1>4, <1>5

LEMMA StoreTypes ==
  ASSUME FilterTypes, NEW raw \in Int, 0 <= raw, raw <= MaxDistance, Store(raw)
  PROVE  /\ distBuf' \in [0..Size - 1 -> 0..MaxDistance]
         /\ distBufIdx' \in 0..Size - 1 /\ distBufFull' \in BOOLEAN
         /\ distBufIdx' = IF distBufIdx + 1 = Size THEN 0 ELSE distBufIdx + 1
         /\ distBufFull' = (distBufFull \/ distBufIdx + 1 = Size)
<1>1. Size \in Nat \ {0} /\ MaxDistance \in Nat BY RangingConstantsOK
<1>2. distBufIdx \in 0..Size - 1 BY DEF FilterTypes
<1>3. distBufIdx' = (distBufIdx + 1) % Size BY DEF Store
<1>4. (distBufIdx + 1) % Size = IF distBufIdx + 1 = Size THEN 0 ELSE distBufIdx + 1
  BY <1>1, <1>2
<1>5. distBufIdx' = 0 <=> distBufIdx + 1 = Size BY <1>1, <1>2, <1>3, <1>4
<1>6. distBufFull' = (distBufFull \/ distBufIdx' = 0) BY DEF Store
<1>7. distBufIdx' \in 0..Size - 1 BY <1>1, <1>2, <1>3, <1>4
<1>8. raw \in 0..MaxDistance BY <1>1
<1>9. distBuf' \in [0..Size - 1 -> 0..MaxDistance] BY <1>8 DEF FilterTypes, Store
<1>10. distBufFull' \in BOOLEAN BY <1>6 DEF FilterTypes
<1>11. distBufFull' = (distBufFull \/ distBufIdx + 1 = Size) BY <1>5, <1>6
<1> QED BY <1>3, <1>4, <1>7, <1>9, <1>10, <1>11

\* A round that believes its distance.
Believed(pollTx, skew, tof) ==
  /\ Round(pollTx, skew, tof) /\ distance' \in Int /\ 0 <= distance' /\ distance' <= MaxDistance
  /\ Store(distance') /\ Decide /\ recent' = Remembered(tof)

LEMMA RoundIs ==
  ASSUME NEW pollTx \in TagClocks, NEW skew \in Skews, NEW tof \in Flights,
         Round(pollTx, skew, tof)
  PROVE  /\ distance' \in Int /\ flight' = tof
         /\ \/ Believed(pollTx, skew, tof)
            \/ word' = "none" /\ UNCHANGED <<filter, tagInUnlockZone, recent>>
<1>1. pollTx \in Int /\ skew \in Int /\ tof \in Int /\ MaxDistance \in Nat
  BY RangingConstantsOK
<1>2. PICK d : d = RoundTrip(pollTx, skew, tof) OBVIOUS
<1>3. d \in Int BY <1>1, <1>2, TripType
<1>4. distance' = d \div 2 /\ flight' = tof BY <1>2 DEF Round
<1>5. distance' \in Int BY <1>3, <1>4
<1>6. CASE distance' < 0 \/ distance' > MaxDistance BY <1>4, <1>5, <1>6 DEF Round
<1>7. CASE ~(distance' < 0 \/ distance' > MaxDistance)
  <2>1. 0 <= distance' /\ distance' <= MaxDistance BY <1>1, <1>5, <1>7
  <2>2. Store(distance') /\ Decide /\ recent' = Remembered(tof)
    BY <1>7 DEF Round, Remembered
  <2> QED BY <1>4, <1>5, <2>1, <2>2 DEF Believed
<1> QED BY <1>6, <1>7

\* Every variable stays in its range; the index of the ring never reaches its size.
THEOREM RangingTypeCorrect == RangingSpec => []RangingTypeOK
<1> DEFINE Types == FilterTypes /\ OtherTypes
<1>1. Types <=> RangingTypeOK BY DEF FilterTypes, OtherTypes, RangingTypeOK
<1>2. Size \in Nat \ {0} /\ MaxDistance \in Nat BY RangingConstantsOK
<1>3. /\ [i \in 0..Size - 1 |-> 0] \in [0..Size - 1 -> 0..MaxDistance] /\ 0 \in 0..Size - 1
      /\ <<>> \in Seq(Flights) /\ Len(<<>>) <= Size
  <2>1. 0 \in 0..MaxDistance /\ 0 \in 0..Size - 1 BY <1>2
  <2>2. Len(<<>>) = 0 /\ <<>> \in Seq(Flights) OBVIOUS
  <2>3. Len(<<>>) <= Size BY <1>2, <2>2
  <2>4. [i \in 0..Size - 1 |-> 0] \in [0..Size - 1 -> 0..MaxDistance] BY <2>1
  <2> QED BY <2>1, <2>2, <2>3, <2>4
<1>4. RangingInit => Types
  <2>1. RangingInit => FilterTypes
    <3> SUFFICES ASSUME RangingInit PROVE FilterTypes OBVIOUS
    <3>1. /\ distBuf = [i \in 0..Size - 1 |-> 0] /\ distBufIdx = 0 /\ distBufFull = FALSE
          /\ recent = <<>>
      BY DEF RangingInit
    <3>2. distBuf \in [0..Size - 1 -> 0..MaxDistance] BY <1>3, <3>1
    <3>3. recent \in Seq(Flights) /\ Len(recent) <= Size BY <1>3, <3>1
    <3> QED BY <1>3, <3>1, <3>2, <3>3 DEF FilterTypes
  <2>2. RangingInit => OtherTypes
    <3> SUFFICES ASSUME RangingInit PROVE OtherTypes OBVIOUS
    <3>1. tagInUnlockZone = FALSE /\ word = "none" /\ flight = 0 /\ distance = 0
      BY DEF RangingInit
    <3>2. distance \in Int BY <3>1
    <3> QED BY <3>1, <3>2, Zenon DEF OtherTypes
  <2> QED BY <2>1, <2>2
<1>5. Types /\ [RangingNext]_rangingVars => Types'
  <2> SUFFICES ASSUME Types, [RangingNext]_rangingVars PROVE Types' OBVIOUS
  <2>1. ASSUME NEW pollTx \in TagClocks, NEW skew \in Skews, NEW tof \in Flights,
               Round(pollTx, skew, tof)
        PROVE  Types'
    <3>1. distance' \in Int /\ flight' \in Flights BY <2>1, RoundIs
    <3>2. CASE Believed(pollTx, skew, tof)
      <4>1. /\ distBuf' \in [0..Size - 1 -> 0..MaxDistance]
            /\ distBufIdx' \in 0..Size - 1 /\ distBufFull' \in BOOLEAN
        BY <3>1, <3>2, StoreTypes DEF Believed
      <4>2. recent \in Seq(Flights) /\ Len(recent) \in Nat /\ Len(recent) <= Size
        BY DEF FilterTypes
      <4>3. recent' \in Seq(Flights) BY <3>2, <4>2, RememberedIs DEF Believed
      <4>4. Len(recent') <= Size
        <5>1. CASE Len(recent) = Size BY <3>2, <4>2, <5>1, <1>2, RememberedIs DEF Believed
        <5>2. CASE Len(recent) < Size
          <6>1. recent' = Append(recent, tof) BY <3>2, <4>2, <5>2, RememberedIs DEF Believed
          <6>2. Len(recent') = Len(recent) + 1 BY <4>2, <6>1
          <6> QED BY <1>2, <4>2, <5>2, <6>2
        <5> QED BY <1>2, <4>2, <5>1, <5>2
      <4>5. tagInUnlockZone' \in BOOLEAN /\ word' \in {"none", "VERIFIED", "WARNING", "UWB_STOP"}
        <5>1. Decide BY <3>2 DEF Believed
        <5> QED BY <5>1 DEF Decide, OtherTypes
      <4> QED BY <3>1, <4>1, <4>3, <4>4, <4>5 DEF FilterTypes, OtherTypes
    <3>3. CASE word' = "none" /\ UNCHANGED <<filter, tagInUnlockZone, recent>>
      BY <3>1, <3>3 DEF FilterTypes, OtherTypes, filter
    <3> QED BY <2>1, <3>2, <3>3, RoundIs
  <2>2. CASE NoResponse BY <2>2 DEF NoResponse, FilterTypes, OtherTypes, filter
  <2>3. CASE Deinit BY <2>3, <1>3 DEF Deinit, ResetFilter, FilterTypes, OtherTypes
  <2>4. CASE UNCHANGED rangingVars
    BY <2>4 DEF rangingVars, filter, FilterTypes, OtherTypes
  <2> QED BY <2>1, <2>2, <2>3, <2>4 DEF RangingNext
<1> QED BY <1>1, <1>4, <1>5, PTL DEF RangingSpec

-----------------------------------------------------------------------------
(* The filter remembers                                                     *)

\* Where the ring keeps the ith of the distances it has got.
Cell(i) == IF ~distBufFull THEN i - 1
           ELSE IF distBufIdx + i - 1 < Size THEN distBufIdx + i - 1
                ELSE distBufIdx + i - 1 - Size

\* The ring holds what it has got, in order, and nothing else is counted.
FilterInv ==
  /\ FilterTypes
  /\ CountOf(distBufIdx, distBufFull) = Len(recent)
  /\ \A i \in 1..Len(recent) : recent[i] = distBuf[Cell(i)]
  /\ SumOf(distBuf, Len(recent)) = SumFunctionOnSet(recent, 1..Len(recent))

LEMMA FlightOfSeq ==
  ASSUME NEW s \in Seq(Flights), NEW i \in 1..Len(s) PROVE s[i] \in Flights /\ s[i] \in Int
<1>1. s[i] \in Flights BY ElementOfSeq
<1>2. Flights \subseteq Nat BY RangingConstantsOK
<1>3. s[i] \in Nat BY <1>1, <1>2
<1> QED BY <1>1, <1>3

\* A cell more, as long as there is an empty one.
LEMMA StoreGrows ==
  ASSUME FilterInv, ~distBufFull, NEW tof \in Flights, tof <= MaxDistance,
         Store(tof), recent' = Remembered(tof)
  PROVE  FilterInv'
<1> DEFINE n == Len(recent)
<1>1. Size \in Nat \ {0} /\ MaxDistance \in Nat /\ tof \in Nat BY RangingConstantsOK
<1>2. /\ recent \in Seq(Flights) /\ n \in Nat /\ n = distBufIdx /\ n \in 0..Size - 1
      /\ distBuf \in [0..Size - 1 -> 0..MaxDistance]
  BY DEF FilterInv, FilterTypes, CountOf
<1>3. n < Size BY <1>1, <1>2
<1>4. /\ recent' = Append(recent, tof) /\ recent' \in Seq(Flights) /\ Len(recent') = n + 1
      /\ \A i \in 1..n : recent'[i] = recent[i]
      /\ \A i \in 1..n : recent[i] \in Int
  <2>1. Len(recent) <= Size BY <1>1, <1>2, <1>3
  <2>2. recent' = Append(recent, tof) BY <1>2, <1>3, <2>1, RememberedIs
  <2>3. \A i \in 1..n : recent[i] \in Int BY <1>2, FlightOfSeq
  <2> QED BY <1>2, <2>2, <2>3
<1>5. recent'[n + 1] = tof BY <1>2, <1>4
<1>6. /\ distBuf' \in [0..Size - 1 -> 0..MaxDistance]
      /\ distBufIdx' \in 0..Size - 1 /\ distBufFull' \in BOOLEAN
      /\ distBufIdx' = IF n + 1 = Size THEN 0 ELSE n + 1
      /\ distBufFull' = (n + 1 = Size)
  <2>1. 0 <= tof BY <1>1
  <2> QED BY <1>1, <1>2, <2>1, StoreTypes DEF FilterInv
<1>7. distBuf' = [distBuf EXCEPT ![n] = tof] BY <1>2 DEF Store
<1>8. distBuf'[n] = tof /\ \A i \in 0..Size - 1 : i # n => distBuf'[i] = distBuf[i]
  BY <1>2, <1>7
<1>9. FilterTypes' BY <1>1, <1>3, <1>4, <1>6 DEF FilterTypes
<1>10. CountOf(distBufIdx', distBufFull') = Len(recent')
  BY <1>4, <1>6 DEF CountOf
<1>11. \A i \in 1..n + 1 : Cell(i)' = i - 1 /\ i - 1 \in 0..Size - 1
  <2> SUFFICES ASSUME NEW i \in 1..n + 1 PROVE Cell(i)' = i - 1 /\ i - 1 \in 0..Size - 1
    OBVIOUS
  <2>1. i - 1 \in 0..Size - 1 BY <1>1, <1>2, <1>3
  <2>2. CASE n + 1 = Size
    <3>1. distBufFull' /\ distBufIdx' = 0 BY <1>6, <2>2
    <3>2. 0 + i - 1 = i - 1 /\ i - 1 < Size BY <1>1, <2>1
    <3> QED BY <2>1, <3>1, <3>2 DEF Cell
  <2>3. CASE n + 1 # Size BY <1>6, <2>1, <2>3 DEF Cell
  <2> QED BY <2>2, <2>3
<1>12. \A i \in 1..n : recent[i] = distBuf[i - 1] BY DEF FilterInv, Cell
<1>13. \A i \in 1..n + 1 : recent'[i] = distBuf'[Cell(i)']
  <2> SUFFICES ASSUME NEW i \in 1..n + 1 PROVE recent'[i] = distBuf'[Cell(i)'] OBVIOUS
  <2>1. Cell(i)' = i - 1 /\ i - 1 \in 0..Size - 1 BY <1>11
  <2>2. CASE i = n + 1
    <3>1. i - 1 = n BY <1>2, <2>2
    <3> QED BY <1>5, <1>8, <2>1, <2>2, <3>1
  <2>3. CASE i # n + 1
    <3>1. i \in 1..n /\ i - 1 # n BY <1>2, <2>3
    <3> QED BY <1>4, <1>8, <1>12, <2>1, <3>1
  <2> QED BY <2>2, <2>3
<1>14. SumOf(distBuf', n + 1) = SumFunctionOnSet(recent', 1..n + 1)
  <2>1. \A i \in 0..n - 1 : distBuf[i] \in Int /\ distBuf'[i] = distBuf[i]
    <3>1. \A i \in 0..n - 1 : i \in 0..Size - 1 /\ i # n BY <1>1, <1>2, <1>3
    <3> QED BY <1>1, <1>2, <1>8, <3>1
  <2>2. distBuf'[n] \in Int BY <1>1, <1>8
  <2>3. SumFunctionOnSet(distBuf', 0..n) = SumFunctionOnSet(distBuf, 0..n - 1) + tof
    <3> HIDE DEF n
    <3>1. SumFunctionOnSet(distBuf', 0..n)
          = SumFunctionOnSet(distBuf, 0..n - 1) + distBuf'[n]
      BY <1>2, <2>1, <2>2, SumGrow
    <3> QED BY <1>8, <3>1
  <2>4. \A i \in 1..n + 1 : recent'[i] \in Int
    <3> SUFFICES ASSUME NEW i \in 1..n + 1 PROVE recent'[i] \in Int OBVIOUS
    <3>1. CASE i = n + 1 BY <1>1, <1>5, <3>1
    <3>2. CASE i \in 1..n BY <1>4, <3>2
    <3> QED BY <1>2, <3>1, <3>2
  <2>5. SumFunctionOnSet(recent', 1..n + 1) = SumFunctionOnSet(recent', 1..n) + tof
    <3> HIDE DEF n
    <3>1. SumFunctionOnSet(recent', 1..n + 1)
          = SumFunctionOnSet(recent', 1..n) + recent'[n + 1]
      BY <1>2, <2>4, SumSnoc
    <3> QED BY <1>5, <3>1
  <2>6. SumFunctionOnSet(recent', 1..n) = SumFunctionOnSet(recent, 1..n)
    <3>1. PICK N : N = n + 1 OBVIOUS
    <3>2. N \in Nat /\ 1..n \in SUBSET (0..N - 1) BY <1>2, <3>1
    <3>3. \A i \in 1..n : recent[i] \in Int /\ recent'[i] = recent[i] BY <1>4
    <3> HIDE DEF n
    <3> QED BY ONLY <3>2, <3>3, SumSame, Zenon
  <2>7. SumOf(distBuf, n) = SumFunctionOnSet(recent, 1..n) BY DEF FilterInv
  <2>8. n + 1 - 1 = n BY <1>2
  <2> QED BY <2>3, <2>5, <2>6, <2>7, <2>8 DEF SumOf
<1> QED BY <1>4, <1>9, <1>10, <1>13, <1>14 DEF FilterInv

\* The oldest distance is overwritten and forgotten.
LEMMA StoreReplaces ==
  ASSUME FilterInv, distBufFull, NEW tof \in Flights, tof <= MaxDistance,
         Store(tof), recent' = Remembered(tof)
  PROVE  FilterInv'
<1> DEFINE all == Append(recent, tof)
<1>1. Size \in Nat \ {0} /\ MaxDistance \in Nat /\ tof \in Nat BY RangingConstantsOK
<1>3. PICK x : x = distBufIdx OBVIOUS
<1>4. /\ recent \in Seq(Flights) /\ Len(recent) = Size
      /\ x \in 0..Size - 1 /\ distBuf \in [0..Size - 1 -> 0..MaxDistance]
  BY <1>3 DEF FilterInv, FilterTypes, CountOf
<1>5. recent' \in Seq(Flights) /\ Len(recent') = Size
      /\ \A i \in 1..Size : recent'[i] = all[i + 1]
  <2>1. Len(recent) <= Size BY <1>1, <1>4
  <2> QED BY <1>4, <2>1, RememberedIs, Zenon
<1>6. /\ distBuf' \in [0..Size - 1 -> 0..MaxDistance]
      /\ distBufIdx' \in 0..Size - 1 /\ distBufFull' = TRUE
      /\ distBufIdx' = IF x + 1 = Size THEN 0 ELSE x + 1
  <2>1. 0 <= tof BY <1>1
  <2> QED BY <1>1, <1>3, <2>1, StoreTypes DEF FilterInv
<1>7. distBuf' = [distBuf EXCEPT ![x] = tof] BY <1>3 DEF Store
<1>8. distBuf'[x] = tof /\ \A i \in 0..Size - 1 : i # x => distBuf'[i] = distBuf[i]
  BY <1>4, <1>7
<1>9. \A i \in 1..Size : all[i] = recent[i] /\ all[i] \in Flights
  BY <1>1, <1>4
<1>10. all[Size + 1] = tof BY <1>1, <1>4
<1>11. FilterTypes' BY <1>1, <1>5, <1>6 DEF FilterTypes
<1>12. CountOf(distBufIdx', distBufFull') = Len(recent') BY <1>5, <1>6 DEF CountOf
<1>13. \A i \in 1..Size : recent[i] = distBuf[IF x + i - 1 < Size THEN x + i - 1
                                             ELSE x + i - 1 - Size]
  BY <1>3, <1>4 DEF FilterInv, Cell
<1>14. \A i \in 1..Size : recent'[i] = distBuf'[Cell(i)']
  <2> SUFFICES ASSUME NEW i \in 1..Size PROVE recent'[i] = distBuf'[Cell(i)'] OBVIOUS
  <2>1. PICK c : c = Cell(i)' OBVIOUS
  <2>2. c = IF distBufIdx' + i - 1 < Size THEN distBufIdx' + i - 1
            ELSE distBufIdx' + i - 1 - Size
    BY <1>6, <2>1 DEF Cell
  <2>3. c = IF x + i < Size THEN x + i ELSE x + i - Size
    BY <1>1, <1>4, <1>6, <2>2
  <2>4. CASE i = Size
    <3>1. c = x BY <1>1, <1>4, <2>3, <2>4
    <3>2. recent'[i] = tof BY <1>5, <1>10, <2>4
    <3> QED BY <1>8, <2>1, <3>1, <3>2
  <2>5. CASE i # Size
    <3>1. i + 1 \in 1..Size /\ c \in 0..Size - 1 /\ c # x BY <1>1, <1>4, <2>3, <2>5
    <3>2. recent'[i] = recent[i + 1] BY <1>5, <1>9, <3>1
    <3>3. c = IF x + (i + 1) - 1 < Size THEN x + (i + 1) - 1 ELSE x + (i + 1) - 1 - Size
      BY <1>1, <1>4, <2>3
    <3>4. recent[i + 1] = distBuf[c] BY <1>13, <3>1, <3>3
    <3> QED BY <1>8, <2>1, <3>1, <3>2, <3>4
  <2> QED BY <2>4, <2>5
<1>15. SumOf(distBuf', Size) = SumFunctionOnSet(recent', 1..Size)
  <2>1. \A i \in 0..Size - 1 : distBuf[i] \in Int /\ distBuf'[i] \in Int
                               /\ (i # x => distBuf'[i] = distBuf[i])
    BY <1>1, <1>4, <1>6, <1>8
  <2>2. SumFunctionOnSet(distBuf', 0..Size - 1)
        = SumFunctionOnSet(distBuf, 0..Size - 1) - distBuf[x] + distBuf'[x]
    <3>1. PICK b, c : b = distBuf /\ c = distBuf' OBVIOUS
    <3>2. b \in [0..Size - 1 -> Int] /\ c \in [0..Size - 1 -> Int] BY <1>1, <1>4, <1>6, <3>1
    <3>3. \A i \in 0..Size - 1 : i # x => c[i] = b[i] BY <1>8, <3>1
    <3>4. Size \in Nat /\ x \in 0..Size - 1 BY <1>1, <1>4
    <3>5. SumFunctionOnSet(c, 0..Size - 1) = SumFunctionOnSet(b, 0..Size - 1) - b[x] + c[x]
      BY ONLY <3>2, <3>3, <3>4, SumOver
    <3> QED BY <3>1, <3>5
  <2>3. \A i \in 1..Size + 1 : all[i] \in Int
    <3> HIDE DEF all
    <3> SUFFICES ASSUME NEW i \in 1..Size + 1 PROVE all[i] \in Int OBVIOUS
    <3>1. i = Size + 1 \/ i \in 1..Size BY <1>1
    <3>2. CASE i = Size + 1 BY <1>1, <1>10, <3>2
    <3>3. CASE i \in 1..Size BY <1>4, <1>9, <3>3, FlightOfSeq
    <3> QED BY <3>1, <3>2, <3>3
  <2>4. SumFunctionOnSet(recent', 1..Size) = SumFunctionOnSet(all, 1..Size + 1) - all[1]
    <3> HIDE DEF all
    <3> QED BY <1>1, <1>5, <2>3, SumShift
  <2>5. SumFunctionOnSet(all, 1..Size + 1) = SumFunctionOnSet(all, 1..Size) + tof
    <3> HIDE DEF all
    <3> QED BY <1>1, <1>10, <2>3, SumSnoc
  <2>6. SumFunctionOnSet(all, 1..Size) = SumFunctionOnSet(recent, 1..Size)
    <3>1. PICK N : N = Size + 1 OBVIOUS
    <3>2. N \in Nat /\ 1..Size \in SUBSET (0..N - 1) BY <1>1, <3>1
    <3>3. \A i \in 1..Size : recent[i] \in Int /\ all[i] = recent[i]
      BY <1>4, <1>9, FlightOfSeq
    <3> HIDE DEF all
    <3> QED BY ONLY <3>2, <3>3, SumSame, Zenon
  <2>7. SumOf(distBuf, Size) = SumFunctionOnSet(recent, 1..Size) BY <1>4 DEF FilterInv
  <2>8. all[1] = distBuf[x]
    <3>1. 1 \in 1..Size BY <1>1
    <3>2. x + 1 - 1 = x /\ x < Size BY <1>1, <1>4
    <3> HIDE DEF all
    <3> QED BY <1>9, <1>13, <3>1, <3>2
  <2>9. /\ SumFunctionOnSet(distBuf, 0..Size - 1) \in Int
        /\ distBuf[x] \in Int /\ tof \in Int
    <3>1. 0..Size - 1 \in SUBSET (0..Size - 1) BY <1>1
    <3>2. \A i \in 0..Size - 1 : distBuf[i] \in Int BY <2>1
    <3>3. Size \in Nat /\ tof \in Int BY <1>1
    <3>4. SumFunctionOnSet(distBuf, 0..Size - 1) \in Int
      BY ONLY <3>1, <3>2, <3>3, SumType, Zenon
    <3> QED BY <1>4, <3>2, <3>3, <3>4
  <2> HIDE DEF all
  <2>10. SumFunctionOnSet(recent', 1..Size)
         = (SumFunctionOnSet(distBuf, 0..Size - 1) + tof) - distBuf[x]
    BY <2>4, <2>5, <2>6, <2>7, <2>8 DEF SumOf
  <2>11. SumFunctionOnSet(distBuf', 0..Size - 1)
         = SumFunctionOnSet(distBuf, 0..Size - 1) - distBuf[x] + tof
    BY <1>8, <2>2
  <2>12. PICK A, d : A = SumFunctionOnSet(distBuf, 0..Size - 1) /\ d = distBuf[x] OBVIOUS
  <2>13. (A + tof) - d = A - d + tof BY <2>9, <2>12
  <2> QED BY <2>10, <2>11, <2>12, <2>13 DEF SumOf
<1> QED BY <1>5, <1>11, <1>12, <1>14, <1>15 DEF FilterInv

\* A round the tag believes puts the true distance in the ring.
LEMMA BelievedIsTrue ==
  ASSUME DW3000, FilterInv, NEW pollTx \in TagClocks, NEW skew \in Skews,
         NEW tof \in Flights, Believed(pollTx, skew, tof)
  PROVE  FilterInv' /\ Len(recent') \in Nat \ {0} /\ Decide
<1>1. /\ pollTx \in Int /\ 0 <= pollTx /\ pollTx < 1099511627776 /\ skew \in Int
      /\ tof \in Int /\ 0 <= tof /\ tof <= 4000000
  BY SMT DEF DW3000
<1>2. RoundTrip(pollTx, skew, tof) = 2 * tof BY <1>1, TwrExact, SMT
<1>3. (2 * tof) \div 2 = tof BY <1>1, SMT
<1>4. distance' = tof BY <1>2, <1>3 DEF Believed, Round
<1>5. tof <= MaxDistance /\ Store(tof) /\ recent' = Remembered(tof) /\ Decide
  BY <1>4 DEF Believed
<1>6. FilterInv' BY <1>5, StoreGrows, StoreReplaces
<1>7. recent \in Seq(Flights) /\ Len(recent) \in Nat /\ Len(recent) <= Size
      /\ Size \in Nat \ {0}
  BY RangingConstantsOK DEF FilterInv, FilterTypes
<1>8. Len(recent') \in Nat \ {0}
  <2>1. CASE Len(recent) = Size BY <1>5, <1>7, <2>1, RememberedIs
  <2>2. CASE Len(recent) < Size
    <3>1. recent' = Append(recent, tof) BY <1>5, <1>7, <2>2, RememberedIs
    <3>2. Len(recent') = Len(recent) + 1 BY <1>7, <3>1
    <3> QED BY <1>7, <3>2
  <2> QED BY <1>7, <2>1, <2>2
<1> QED BY <1>5, <1>6, <1>8

LEMMA FilterInvInit == RangingInit => FilterInv
<1> SUFFICES ASSUME RangingInit PROVE FilterInv OBVIOUS
<1>1. Size \in Nat \ {0} /\ MaxDistance \in Nat BY RangingConstantsOK
<1>2. /\ distBuf = [i \in 0..Size - 1 |-> 0] /\ distBufIdx = 0 /\ distBufFull = FALSE
      /\ recent = <<>>
  BY DEF RangingInit
<1>3. recent \in Seq(Flights) /\ Len(recent) = 0 BY <1>2
<1>4. 0 \in 0..MaxDistance /\ 0 \in 0..Size - 1 /\ 0 <= Size BY <1>1
<1>5. distBuf \in [0..Size - 1 -> 0..MaxDistance] BY <1>2, <1>4
<1>6. FilterTypes BY <1>2, <1>3, <1>4, <1>5 DEF FilterTypes
<1>7. SumOf(distBuf, 0) = SumFunctionOnSet(recent, 1..0)
  <2>1. 0..0 - 1 = {} /\ 1..0 = {} OBVIOUS
  <2> QED BY <2>1, SumEmpty DEF SumOf
<1> QED BY <1>2, <1>3, <1>6, <1>7 DEF FilterInv, CountOf

LEMMA FilterInvReset ==
  ASSUME ResetFilter, recent' = <<>> PROVE FilterInv'
<1>1. Size \in Nat \ {0} /\ MaxDistance \in Nat BY RangingConstantsOK
<1>2. /\ distBuf' = [i \in 0..Size - 1 |-> 0] /\ distBufIdx' = 0 /\ distBufFull' = FALSE
  BY DEF ResetFilter
<1>3. recent' \in Seq(Flights) /\ Len(recent') = 0 OBVIOUS
<1>4. 0 \in 0..MaxDistance /\ 0 \in 0..Size - 1 /\ 0 <= Size BY <1>1
<1>5. distBuf' \in [0..Size - 1 -> 0..MaxDistance] BY <1>2, <1>4
<1>6. FilterTypes' BY <1>2, <1>3, <1>4, <1>5 DEF FilterTypes
<1>7. SumOf(distBuf', 0) = SumFunctionOnSet(recent', 1..0)
  <2>1. 0..0 - 1 = {} /\ 1..0 = {} OBVIOUS
  <2> QED BY <2>1, SumEmpty DEF SumOf
<1> QED BY <1>2, <1>3, <1>6, <1>7 DEF FilterInv, CountOf

LEMMA FilterInvNext ==
  ASSUME DW3000, FilterInv, [RangingNext]_rangingVars PROVE FilterInv'
<1>1. ASSUME NEW pollTx \in TagClocks, NEW skew \in Skews, NEW tof \in Flights,
             Round(pollTx, skew, tof)
      PROVE  FilterInv'
  <2>1. CASE Believed(pollTx, skew, tof) BY <2>1, BelievedIsTrue
  <2>2. CASE UNCHANGED <<filter, tagInUnlockZone, recent>>
    BY <2>2 DEF FilterInv, FilterTypes, Cell, filter
  <2> QED BY <1>1, <2>1, <2>2, RoundIs
<1>2. CASE NoResponse BY <1>2 DEF NoResponse, FilterInv, FilterTypes, Cell, filter
<1>3. CASE Deinit BY <1>3, FilterInvReset DEF Deinit
<1>4. CASE UNCHANGED rangingVars
  BY <1>4 DEF rangingVars, filter, FilterInv, FilterTypes, Cell
<1> QED BY <1>1, <1>2, <1>3, <1>4 DEF RangingNext

\* A ring of any size, over any history of rounds, resets and losses: what is averaged
\* are the last Size true distances since ranging began.
THEOREM FilterRemembers ==
  ASSUME DW3000
  PROVE  RangingSpec => []FilterIsRecent
<1>1. FilterInv => FilterIsRecent
  <2> SUFFICES ASSUME FilterInv PROVE FilterIsRecent OBVIOUS
  <2>1. DOMAIN recent = 1..Len(recent) BY DEF FilterInv, FilterTypes
  <2> QED BY <2>1 DEF FilterInv, FilterIsRecent, SumFunction
<1>2. FilterInv /\ [RangingNext]_rangingVars => FilterInv' BY FilterInvNext
<1> QED BY <1>1, <1>2, FilterInvInit, PTL DEF RangingSpec

\* An average at or below a limit has a distance at or below it behind it.
LEMMA AtMostHasReason ==
  ASSUME FilterInv', Len(recent') \in Nat \ {0}, NEW limit \in Nat, AtMost(limit)
  PROVE  \E i \in DOMAIN recent' : recent'[i] <= limit
<1>1. PICK n, r : n = Len(recent') /\ r = recent' OBVIOUS
<1>2. r \in Seq(Flights) /\ n = Len(r) /\ n \in Nat \ {0} /\ DOMAIN r = 1..n
  BY <1>1 DEF FilterInv, FilterTypes
<1>3. SumFunctionOnSet(r, 1..n) <= limit * n
  <2>1. CountOf(distBufIdx', distBufFull') = n /\ SumOf(distBuf', n) = SumFunctionOnSet(r, 1..n)
    BY <1>1 DEF FilterInv
  <2> QED BY <2>1 DEF AtMost, Average
<1> SUFFICES ASSUME \A i \in 1..n : ~(r[i] <= limit) PROVE FALSE BY <1>1, <1>2
<1>4. \A i \in 1..n : r[i] \in Int /\ limit + 1 <= r[i]
  <2> SUFFICES ASSUME NEW i \in 1..n PROVE r[i] \in Int /\ limit + 1 <= r[i] OBVIOUS
  <2>1. r[i] \in Int BY <1>2, FlightOfSeq
  <2> QED BY <2>1
<1>5. (limit + 1) * n <= SumFunctionOnSet(r, 1..n)
  <2>1. PICK l : l = limit + 1 OBVIOUS
  <2>2. l \in Int /\ n \in Nat /\ \A i \in 1..n : r[i] \in Int /\ l <= r[i]
    BY <1>2, <1>4, <2>1
  <2>3. l * n <= SumFunctionOnSet(r, 1..n) BY ONLY <2>2, SumAtLeast
  <2> QED BY <2>1, <2>3
<1>6. SumFunctionOnSet(r, 1..n) \in Int BY <1>2, <1>4, SumSnocType
<1>7. PICK p : p = limit * n OBVIOUS
<1>8. p \in Int /\ (limit + 1) * n = p + n BY <1>2, <1>7
<1> QED BY <1>2, <1>3, <1>5, <1>6, <1>7, <1>8

\* And one beyond a limit, a distance beyond it.
LEMMA BeyondHasReason ==
  ASSUME FilterInv', Len(recent') \in Nat \ {0}, NEW limit \in Nat, Beyond(limit)
  PROVE  \E i \in DOMAIN recent' : recent'[i] > limit
<1>1. PICK n, r : n = Len(recent') /\ r = recent' OBVIOUS
<1>2. r \in Seq(Flights) /\ n = Len(r) /\ n \in Nat \ {0} /\ DOMAIN r = 1..n
  BY <1>1 DEF FilterInv, FilterTypes
<1>3. SumFunctionOnSet(r, 1..n) > limit * n
  <2>1. CountOf(distBufIdx', distBufFull') = n /\ SumOf(distBuf', n) = SumFunctionOnSet(r, 1..n)
    BY <1>1 DEF FilterInv
  <2> QED BY <2>1 DEF Beyond, Average
<1> SUFFICES ASSUME \A i \in 1..n : ~(r[i] > limit) PROVE FALSE BY <1>1, <1>2
<1>4. \A i \in 1..n : r[i] \in Int /\ r[i] <= limit
  <2> SUFFICES ASSUME NEW i \in 1..n PROVE r[i] \in Int /\ r[i] <= limit OBVIOUS
  <2>1. r[i] \in Int BY <1>2, FlightOfSeq
  <2> QED BY <2>1
<1>5. SumFunctionOnSet(r, 1..n) <= limit * n BY <1>2, <1>4, SumAtMost
<1>6. SumFunctionOnSet(r, 1..n) \in Int BY <1>2, <1>4, SumSnocType
<1>7. limit * n \in Int BY <1>2
<1> QED BY <1>3, <1>5, <1>6, <1>7

\* No word without a reason, for every size of the filter and all limits.
THEOREM ReasonForWords ==
  ASSUME DW3000
  PROVE  RangingSpec => WordsHaveReason
<1> DEFINE Reason ==
      /\ word' = "VERIFIED" => \E i \in DOMAIN recent' : recent'[i] <= Unlock
      /\ word' = "WARNING" => \E i \in DOMAIN recent' : recent'[i] > Lock
      /\ word' = "UWB_STOP" => \E i \in DOMAIN recent' : recent'[i] > Far
<1>1. FilterInv /\ [RangingNext]_rangingVars => [Reason]_rangingVars
  <2> SUFFICES ASSUME FilterInv, RangingNext PROVE Reason OBVIOUS
  <2>1. CASE word' = "none" BY <2>1
  <2>2. ASSUME NEW pollTx \in TagClocks, NEW skew \in Skews, NEW tof \in Flights,
               Round(pollTx, skew, tof), word' # "none"
        PROVE  Reason
    <3>1. Believed(pollTx, skew, tof) BY <2>2, RoundIs
    <3>2. FilterInv' /\ Len(recent') \in Nat \ {0} /\ Decide BY <3>1, BelievedIsTrue
    <3>3. /\ word' = "VERIFIED" => AtMost(Unlock)
          /\ word' = "WARNING" => Beyond(Lock)
      BY <3>2, Zenon DEF Decide
    <3>4. word' = "UWB_STOP" => Beyond(Far) BY <3>2, Zenon DEF Decide
    <3>5. Unlock \in Nat /\ Lock \in Nat /\ Far \in Nat BY RangingConstantsOK
    <3>6. word' = "VERIFIED" => \E i \in DOMAIN recent' : recent'[i] <= Unlock
      BY <3>2, <3>3, <3>5, AtMostHasReason
    <3>7. word' = "WARNING" => \E i \in DOMAIN recent' : recent'[i] > Lock
      BY <3>2, <3>3, <3>5, BeyondHasReason
    <3>8. word' = "UWB_STOP" => \E i \in DOMAIN recent' : recent'[i] > Far
      BY <3>2, <3>4, <3>5, BeyondHasReason
    <3> QED BY <3>6, <3>7, <3>8
  <2>3. CASE NoResponse \/ Deinit BY <2>1, <2>3 DEF NoResponse, Deinit
  <2> QED BY <2>1, <2>2, <2>3 DEF RangingNext
<1>2. FilterInv /\ [RangingNext]_rangingVars => FilterInv' BY FilterInvNext
<1>3. (RangingInit /\ [][RangingNext]_rangingVars) => [][Reason]_rangingVars
  BY <1>1, <1>2, FilterInvInit, PTL
<1> QED BY <1>3 DEF RangingSpec, WordsHaveReason
=============================================================================

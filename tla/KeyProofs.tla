----------------------------- MODULE KeyProofs -----------------------------
(***************************************************************************)
(* Theorems about KeyProvisioning, for any number of requests: its types,    *)
(* what revoking a share promises, and when phone and anchor hold one key.   *)
(***************************************************************************)
EXTENDS KeyProvisioning, FiniteSetTheorems, TLAPS

(* The inductive invariant, in four parts.                                  *)

\* A key is drawn for a request that is then answered or given up.
Done == {r \in Pairs : pair[r].st \in {"served", "over"}}
Counted == drawn \in Nat /\ drawn <= Cardinality(Done)

\* Every key in use has been drawn.
Drawn ==
  /\ pairing \in 0..drawn /\ prefs \in 0..drawn /\ disk \in 0..drawn /\ bleKey \in 0..drawn
  /\ \A r \in Pairs : pair[r].ans \in 0..drawn
  /\ call["anchor"].ans \in 0..drawn

\* The rest of the types.
Shapes ==
  /\ share \in {"none", "live", "revoked"} /\ expired \in BOOLEAN
  /\ known \subseteq {"id", "revoked", "bundle"}
  /\ pair \in [Pairs -> PairRequest] /\ call \in [Clients -> Request]
  /\ keyPair \in 0..MaxPairs /\ anchor \in {"start", "fetching", "noKey", "ble"}
  /\ excused \subseteq {"overlap", "lost", "apply"}

\* A share whose owner knows it revoked is revoked, it is created once, and a late
\* request is one for a share withdrawn before.
Revoked ==
  /\ ("revoked" \in known \/ Ends("owner", "revoke")) => share = "revoked"
  /\ call["owner"].st = "looked" => call["owner"].op = "create"
  /\ call["owner"].op = "create" /\ call["owner"].st \in {"sent", "looked"} => share = "none"
  /\ call["friend"].late => Withdrawn /\ call["friend"].ans = 0

\* With no excuse one request is made in all: it runs alone, its answer is the first key,
\* and the next tap on Confirm finds that key in SharedPreferences.
OneKey ==
  excused = {} =>
    /\ drawn <= 1
    /\ \A r, s \in Open : r = s
    /\ \A r \in Open : prefs = 0 /\ IF pair[r].st = "served" THEN drawn = 1 /\ pair[r].ans = 1
                                    ELSE drawn = 0
    /\ Open = {} /\ prefs = 0 => drawn = 0

KeysInv == Counted /\ Drawn /\ Shapes /\ Revoked /\ OneKey

-----------------------------------------------------------------------------
LEMMA PairsFinite == IsFiniteSet(Pairs) /\ Cardinality(Pairs) = MaxPairs
  BY FS_Interval, KeyServerConstantsOK DEF Pairs

LEMMA ZeroAns == 0 \in 0..MaxPairs /\ 1 \in 0..MaxPairs
  BY KeyServerConstantsOK

\* There are at least as many requests as keys.
LEMMA DrawnBounded == Counted => IsFiniteSet(Done) /\ drawn \in 0..MaxPairs
<1>1. IsFiniteSet(Done) /\ Cardinality(Done) \in Nat /\ Cardinality(Done) <= MaxPairs
  BY PairsFinite, FS_Subset, FS_CardinalityType DEF Done
<1> QED
  BY <1>1, KeyServerConstantsOK DEF Counted

\* The invariant holds in the beginning.
LEMMA KeysInitInv == KeysInit => KeysInv
<1> SUFFICES ASSUME KeysInit PROVE KeysInv
  OBVIOUS
<1> USE KeyServerConstantsOK
<1>1. \A r \in Pairs : pair[r] = [st |-> "new", ans |-> 0, kp |-> 0]
  BY DEF KeysInit, ServerInit
<1>2. \A c \in Clients : call[c] = Idle
  BY DEF KeysInit, ServerInit
<1>3. Counted
  <2>1. Done = {}
    BY <1>1 DEF Done
  <2> QED
    BY <2>1, FS_EmptySet DEF Counted, KeysInit, ServerInit
<1>4. Drawn
  BY <1>1, <1>2 DEF Drawn, KeysInit, ServerInit, Clients, Idle
<1>5. Shapes
  <2>1. pair \in [Pairs -> PairRequest]
    BY DEF KeysInit, ServerInit, PairRequest, Pairs
  <2>2. Idle \in Request
    BY ZeroAns, Zenon DEF Idle, Request
  <2>3. call \in [Clients -> Request]
    BY <2>2 DEF KeysInit, ServerInit
  <2> QED
    BY <2>1, <2>3, ZeroAns, Zenon DEF Shapes, KeysInit, ServerInit
<1>6. Revoked
  BY <1>2 DEF Revoked, KeysInit, ServerInit, Clients, Idle, Ends
<1>7. OneKey
  BY <1>1 DEF OneKey, Open, KeysInit, ServerInit
<1> QED
  BY <1>3, <1>4, <1>5, <1>6, <1>7 DEF KeysInv

-----------------------------------------------------------------------------
\* What a step does to the phone's requests.
PairsStep == \* apart from OwnerPairing
  /\ pair' \in [Pairs -> PairRequest] /\ drawn' = drawn
  /\ \A r \in Pairs : pair[r].st \in {"served", "over"} => pair'[r].st \in {"served", "over"}
  /\ \A r \in Pairs : pair'[r].ans \in {0, pair[r].ans}

LEMMA PhonePairs == Shapes /\ Phone => PairsStep
<1> SUFFICES ASSUME Shapes, Phone PROVE PairsStep
  OBVIOUS
<1>0. pair \in [Pairs -> PairRequest] /\ keyPair \in 0..MaxPairs /\ drawn' = drawn
  BY DEF Shapes, Phone
<1>1. ASSUME NEW r \in Pairs, Confirm(r) PROVE PairsStep
  BY <1>0, <1>1 DEF PairsStep, Confirm, Becomes, PairRequest
<1>2. ASSUME NEW r \in Pairs, ResetKeyPair(r) PROVE PairsStep
  BY <1>0, <1>2 DEF PairsStep, ResetKeyPair, Becomes, PairRequest, Pairs
<1>3. ASSUME NEW r \in Pairs, Post(r) PROVE PairsStep
  <2>1. keyPair' \in 0..MaxPairs
    BY <1>0, <1>3, KeyServerConstantsOK DEF Post, Pairs
  <2>2. pair' = [pair EXCEPT ![r].st = "sent", ![r].kp = keyPair'] /\ pair[r].st = "reset"
    BY <1>3 DEF Post
  <2> QED
    BY <1>0, <2>1, <2>2 DEF PairsStep, PairRequest
<1>4. ASSUME NEW r \in Pairs, PairingKey(r) PROVE PairsStep
  BY <1>0, <1>4, KeyServerConstantsOK DEF PairsStep, PairingKey, Close, Closed, PairRequest
<1>5. ASSUME NEW r \in Pairs, NoPairingKey(r) PROVE PairsStep
  BY <1>0, <1>5, KeyServerConstantsOK DEF PairsStep, NoPairingKey, Close, Closed, PairRequest
<1>6. CASE Apply
  BY <1>0, <1>6 DEF PairsStep, Apply
<1>7. CASE Kill
  <2>1. Closed \in PairRequest
    BY KeyServerConstantsOK DEF Closed, PairRequest
  <2>2. \A r \in Pairs : [pair[r] EXCEPT !.kp = 0] \in PairRequest
    BY <1>0, KeyServerConstantsOK DEF PairRequest
  <2>3. \A r \in Pairs :
          pair'[r] = IF pair[r].st \in {"begun", "reset", "served"}
                     THEN Closed ELSE [pair[r] EXCEPT !.kp = 0]
    BY <1>7 DEF Kill
  <2>4. pair' \in [Pairs -> PairRequest]
    BY <1>7, <2>1, <2>2 DEF Kill
  <2> QED
    BY <1>0, <2>3, <2>4 DEF PairsStep, Closed, PairRequest
<1> QED
  BY <1>1, <1>2, <1>3, <1>4, <1>5, <1>6, <1>7 DEF Phone

\* What OwnerPairing does to them.
LEMMA PairingPairs ==
  ASSUME Counted, Shapes, NEW r \in Pairs, OwnerPairing(r)
  PROVE  /\ pair' \in [Pairs -> PairRequest] /\ Counted' /\ drawn' = drawn + 1
         /\ \A s \in Pairs : s # r => pair'[s] = pair[s]
         /\ pair'[r].st = "served" /\ pair'[r].ans = drawn'
<1>0. pair \in [Pairs -> PairRequest] /\ drawn \in Nat
  BY DEF Shapes, Counted
<1>1. /\ pair[r].st = "sent" /\ drawn' = drawn + 1
      /\ pair' = [pair EXCEPT ![r].st = "served", ![r].ans = drawn']
  BY DEF OwnerPairing
<1>2. Done' = Done \cup {r} /\ r \notin Done
  BY <1>0, <1>1 DEF Done, PairRequest
<1>3. Counted'
  <2>1. IsFiniteSet(Done) /\ Cardinality(Done) \in Nat
    BY PairsFinite, FS_Subset, FS_CardinalityType DEF Done
  <2>2. Cardinality(Done') = Cardinality(Done) + 1
    BY <1>2, <2>1, FS_AddElement
  <2> QED
    BY <1>1, <2>1, <2>2 DEF Counted
<1>4. drawn' \in 0..MaxPairs
  <2>1. IsFiniteSet(Done') /\ Cardinality(Done') \in Nat /\ Cardinality(Done') <= MaxPairs
    BY PairsFinite, FS_Subset, FS_CardinalityType DEF Done
  <2> QED
    BY <1>3, <2>1, KeyServerConstantsOK DEF Counted
<1> QED
  BY <1>0, <1>1, <1>3, <1>4 DEF PairRequest

\* The steps that leave the phone's requests alone.
OtherStep ==
  \/ SecureCheckPairing \/ DeleteVehicle \/ CreateLooksUp \/ CreateInserts
  \/ FriendKey \/ RevokeFriendKey \/ Expire \/ OwnerAndFriend
ServerStep == OtherStep /\ UNCHANGED <<phoneVars, anchorVars, excused>>

LEMMA StepCases ==
  ASSUME [KeysNext]_keyVars
  PROVE  \/ \E r \in Pairs : OwnerPairing(r) /\ UNCHANGED <<phoneVars, anchorVars, excused>>
         \/ ServerStep \/ Phone \/ AnchorStart \/ UNCHANGED keyVars
  BY DEF KeysNext, Endpoints, ServerStep, OtherStep

LEMMA OtherPairs == (ServerStep \/ AnchorStart \/ UNCHANGED keyVars) => UNCHANGED <<pair, drawn>>
  BY DEF ServerStep, OtherStep, SecureCheckPairing, DeleteVehicle, CreateLooksUp,
         CreateInserts, FriendKey, RevokeFriendKey, Expire, OwnerAndFriend, AnchorStart,
         keyVars, serverVars

-----------------------------------------------------------------------------
LEMMA CountedStep == KeysInv /\ [KeysNext]_keyVars => Counted'
<1> SUFFICES ASSUME KeysInv, [KeysNext]_keyVars PROVE Counted'
  OBVIOUS
<1> USE DEF KeysInv
<1>1. CASE \E r \in Pairs : OwnerPairing(r) /\ UNCHANGED <<phoneVars, anchorVars, excused>>
  BY <1>1, PairingPairs
<1>2. ASSUME drawn' = drawn, Done \subseteq Done' PROVE Counted'
  <2>1. IsFiniteSet(Done') /\ Cardinality(Done') \in Nat
    BY PairsFinite, FS_Subset, FS_CardinalityType DEF Done
  <2>2. Cardinality(Done) <= Cardinality(Done') /\ Cardinality(Done) \in Nat
    BY <1>2, <2>1, FS_Subset, FS_CardinalityType
  <2> QED
    BY <1>2, <2>1, <2>2 DEF Counted
<1>3. CASE Phone
  BY <1>2, <1>3, PhonePairs DEF PairsStep, Done
<1>4. CASE ServerStep \/ AnchorStart \/ UNCHANGED keyVars
  BY <1>2, <1>4, OtherPairs DEF Done
<1> QED
  BY <1>1, <1>3, <1>4, StepCases

-----------------------------------------------------------------------------
\* The keys move along: drawn, answered, kept, fetched.
LEMMA DrawnStep == KeysInv /\ [KeysNext]_keyVars => Drawn'
<1> SUFFICES ASSUME KeysInv, [KeysNext]_keyVars PROVE Drawn'
  OBVIOUS
<1>0. Drawn /\ drawn \in Nat /\ call \in [Clients -> Request] /\ pair \in [Pairs -> PairRequest]
  BY DEF KeysInv, Counted, Shapes
<1> DEFINE Kept == UNCHANGED <<pairing, drawn>>
           AnchorAns == call'["anchor"].ans \in {0, pairing, call["anchor"].ans}
<1>1. CASE \E r \in Pairs : OwnerPairing(r) /\ UNCHANGED <<phoneVars, anchorVars, excused>>
  <2>1. PICK r \in Pairs : OwnerPairing(r) /\ UNCHANGED <<phoneVars, anchorVars, excused>>
    BY <1>1
  <2>2. \A s \in Pairs : pair'[s].ans \in {pair[s].ans, drawn'}
    BY <2>1, PairingPairs DEF KeysInv
  <2>3. drawn' = drawn + 1 /\ pairing' = drawn' /\ call' = call
    BY <2>1 DEF OwnerPairing
  <2> QED
    BY <1>0, <2>1, <2>2, <2>3 DEF Drawn, phoneVars, anchorVars
<1>2. CASE ServerStep
  <2>1. /\ pairing' \in {0, pairing} /\ AnchorAns
        /\ UNCHANGED <<pair, drawn, prefs, disk, bleKey>>
    <3>1. UNCHANGED <<pair, drawn, prefs, disk, bleKey>>
      BY <1>2, OtherPairs DEF ServerStep, phoneVars, anchorVars
    <3>2. pairing' \in {0, pairing} /\ AnchorAns
      <4>1. CASE SecureCheckPairing
        BY <1>0, <4>1 DEF SecureCheckPairing, Answer, Clients
      <4>2. CASE DeleteVehicle \/ CreateInserts \/ FriendKey \/ RevokeFriendKey
        BY <1>0, <4>2
        DEF DeleteVehicle, CreateInserts, FriendKey, RevokeFriendKey, Answer, Clients
      <4>3. CASE CreateLooksUp \/ Expire
        BY <1>0, <4>3 DEF CreateLooksUp, Expire, Answer, Clients
      <4>4. CASE OwnerAndFriend
        BY <1>0, <4>4 DEF OwnerAndFriend, Ask, Idle, Clients
      <4> QED
        BY <1>2, <4>1, <4>2, <4>3, <4>4 DEF ServerStep, OtherStep
    <3> QED
      BY <3>1, <3>2
  <2> QED
    BY <1>0, <2>1 DEF Drawn
<1>3. CASE Phone
  <2>1. \A r \in Pairs : pair'[r].ans \in {0, pair[r].ans}
    BY <1>3, PhonePairs DEF KeysInv, PairsStep
  <2>2. prefs' \in {prefs, disk} \/ \E r \in Pairs : prefs' = pair[r].ans
    BY <1>3 DEF Phone, Confirm, ResetKeyPair, Post, PairingKey, NoPairingKey, Apply, Kill,
                phoneVars
  <2>3. disk' \in {prefs, disk} /\ UNCHANGED <<pairing, drawn, call, bleKey>>
    BY <1>3 DEF Phone, Confirm, ResetKeyPair, Post, PairingKey, NoPairingKey, Apply, Kill,
                phoneVars, anchorVars
  <2> QED
    BY <1>0, <2>1, <2>2, <2>3 DEF Drawn
<1>4. CASE AnchorStart
  <2>1. UNCHANGED <<pairing, drawn, pair, prefs, disk>>
    BY <1>4 DEF AnchorStart, phoneVars
  <2>2. bleKey' \in {bleKey, call["anchor"].ans} /\ AnchorAns
    BY <1>0, <1>4 DEF AnchorStart, CheckStoredKey, FetchPairingKey, FetchFails, Restart, Ask,
                      Idle, Clients
  <2> QED
    BY <1>0, <2>1, <2>2 DEF Drawn
<1>5. CASE UNCHANGED keyVars
  BY <1>0, <1>5 DEF Drawn, keyVars, serverVars, phoneVars, anchorVars
<1> QED
  BY <1>1, <1>2, <1>3, <1>4, <1>5, StepCases

\* A call is answered with a key, with 1 or with 0.
LEMMA CallShape ==
  ASSUME KeysInv, [KeysNext]_keyVars PROVE call' \in [Clients -> Request]
<1>0. call \in [Clients -> Request] /\ pairing \in 0..MaxPairs
  <2>1. drawn \in 0..MaxPairs /\ pairing \in 0..drawn
    BY DrawnBounded DEF KeysInv, Drawn
  <2> QED
    BY <2>1, KeyServerConstantsOK DEF KeysInv, Shapes
<1>1. \A c \in Clients, op \in {"check", "delete", "create", "revoke", "claim", "validate"} :
        Ask(c, op) => call' \in [Clients -> Request]
  <2>1. SUFFICES ASSUME NEW c \in Clients, NEW late \in BOOLEAN,
                        NEW op \in {"check", "delete", "create", "revoke", "claim", "validate"}
                 PROVE  [op |-> op, st |-> "sent", ans |-> 0, late |-> late] \in Request
    BY <1>0 DEF Ask
  <2> QED
    BY <2>1, ZeroAns, Zenon DEF Request
<1>2. \A c \in Clients, k \in 0..MaxPairs : Answer(c, k) => call' \in [Clients -> Request]
  <2>1. SUFFICES ASSUME NEW c \in Clients, NEW k \in 0..MaxPairs
                 PROVE  [call[c] EXCEPT !.st = "served", !.ans = k] \in Request
    BY <1>0 DEF Answer
  <2> QED
    BY <1>0, <2>1 DEF Request
<1>3. Idle \in Request
  BY ZeroAns, Zenon DEF Idle, Request
<1>4. \A c \in Clients : call' = [call EXCEPT ![c] = Idle] => call' \in [Clients -> Request]
  BY <1>0, <1>3
<1>5. "anchor" \in Clients /\ "owner" \in Clients /\ "friend" \in Clients
  BY DEF Clients
<1>6. CASE OtherStep
  <2>1. CASE SecureCheckPairing
    BY <1>0, <1>2, <1>5, <2>1 DEF SecureCheckPairing
  <2>2. CASE DeleteVehicle \/ CreateInserts \/ FriendKey \/ RevokeFriendKey
    BY <1>2, <1>5, <2>2, ZeroAns, Zenon
    DEF DeleteVehicle, CreateInserts, FriendKey, RevokeFriendKey
  <2>3. CASE CreateLooksUp
    <3>1. [call["owner"] EXCEPT !.st = "looked"] \in Request
      BY <1>0, <1>5 DEF Request
    <3>2. Answer("owner", 0) \/ call' = [call EXCEPT !["owner"].st = "looked"]
      BY <2>3 DEF CreateLooksUp
    <3> QED
      BY <1>0, <1>2, <1>5, <3>1, <3>2, ZeroAns
  <2>4. CASE Expire
    BY <1>0, <2>4 DEF Expire
  <2>5. CASE OwnerAndFriend
    BY <1>1, <1>4, <1>5, <2>5, Zenon DEF OwnerAndFriend
  <2> QED
    BY <1>6, <2>1, <2>2, <2>3, <2>4, <2>5 DEF OtherStep
<1>7. CASE AnchorStart
  BY <1>0, <1>1, <1>4, <1>5, <1>7
  DEF AnchorStart, CheckStoredKey, FetchPairingKey, FetchFails, Restart
<1>8. CASE call' = call
  BY <1>0, <1>8
<1> QED
  BY <1>6, <1>7, <1>8, StepCases
  DEF ServerStep, OwnerPairing, Phone, keyVars, serverVars

LEMMA ShapesStep == KeysInv /\ [KeysNext]_keyVars => Shapes'
<1> SUFFICES ASSUME KeysInv, [KeysNext]_keyVars PROVE Shapes'
  OBVIOUS
<1>0. Shapes
  BY DEF KeysInv
<1>1. pair' \in [Pairs -> PairRequest]
  BY <1>0, StepCases, PairingPairs, PhonePairs, OtherPairs DEF KeysInv, PairsStep, Shapes
<1>2. call' \in [Clients -> Request]
  BY CallShape
<1>3. share' \in {"none", "live", "revoked"} /\ expired' \in BOOLEAN
  BY <1>0, StepCases
  DEF Shapes, OwnerPairing, ServerStep, OtherStep, SecureCheckPairing, DeleteVehicle,
      CreateLooksUp, CreateInserts, FriendKey, RevokeFriendKey, Expire, OwnerAndFriend,
      Phone, AnchorStart, keyVars, serverVars
<1>4. known' \subseteq {"id", "revoked", "bundle"}
  BY <1>0, StepCases
  DEF Shapes, OwnerPairing, ServerStep, OtherStep, SecureCheckPairing, DeleteVehicle,
      CreateLooksUp, CreateInserts, FriendKey, RevokeFriendKey, Expire, OwnerAndFriend, Learns,
      Phone, AnchorStart, keyVars, serverVars
<1>5. keyPair' \in 0..MaxPairs
  <2>1. CASE Phone
    <3>1. keyPair' \in {0, keyPair} \/ keyPair' \in Pairs
      BY <2>1 DEF Phone, Confirm, ResetKeyPair, Post, PairingKey, NoPairingKey, Apply, Kill,
                  phoneVars
    <3> QED
      BY <1>0, <3>1, KeyServerConstantsOK DEF Shapes, Pairs
  <2> QED
    BY <1>0, <2>1, StepCases DEF Shapes, ServerStep, AnchorStart, phoneVars, keyVars
<1>6. anchor' \in {"start", "fetching", "noKey", "ble"}
  BY <1>0, StepCases
  DEF Shapes, ServerStep, AnchorStart, Phone, anchorVars, keyVars,
      CheckStoredKey, FetchPairingKey, FetchFails, Restart
<1>7. excused' \subseteq {"overlap", "lost", "apply"}
  BY <1>0, StepCases
  DEF Shapes, ServerStep, AnchorStart, Phone, keyVars, Excuse, Confirm, ResetKeyPair, Post,
      PairingKey, NoPairingKey, Apply, Kill
<1> QED
  BY <1>1, <1>2, <1>3, <1>4, <1>5, <1>6, <1>7 DEF Shapes

-----------------------------------------------------------------------------
\* The owner's and the friend's requests, one action at a time.
LEMMA RevokedStep == KeysInv /\ [KeysNext]_keyVars => Revoked'
<1> SUFFICES ASSUME KeysInv, [KeysNext]_keyVars PROVE Revoked'
  OBVIOUS
<1>0. Revoked /\ call \in [Clients -> Request] /\ known \subseteq {"id", "revoked", "bundle"}
  BY DEF KeysInv, Shapes
<1>1. "owner" \in Clients /\ "friend" \in Clients /\ "anchor" \in Clients
  BY DEF Clients
<1> DEFINE Same == call'["owner"] = call["owner"] /\ call'["friend"] = call["friend"]
<1>2. ASSUME Same, UNCHANGED <<share, expired, known>> PROVE Revoked'
  BY <1>0, <1>2 DEF Revoked, Ends, Withdrawn
<1>3. CASE SecureCheckPairing \/ AnchorStart
  BY <1>0, <1>1, <1>2, <1>3
  DEF SecureCheckPairing, AnchorStart, CheckStoredKey, FetchPairingKey, FetchFails, Restart,
      Ask, Answer
<1>4. CASE (\E r \in Pairs : OwnerPairing(r)) \/ Phone \/ UNCHANGED keyVars
  BY <1>2, <1>4 DEF OwnerPairing, Phone, keyVars, serverVars
<1>5. CASE DeleteVehicle
  BY <1>0, <1>1, <1>5 DEF DeleteVehicle, Asked, Answer, Revoked, Ends, Withdrawn, Clients, Request
<1>6. CASE CreateLooksUp
  BY <1>0, <1>1, <1>6 DEF CreateLooksUp, Asked, Answer, Revoked, Ends, Withdrawn, Clients, Request
<1>7. CASE CreateInserts
  BY <1>0, <1>1, <1>7 DEF CreateInserts, Answer, Revoked, Ends, Withdrawn, Clients, Request
<1>8. CASE FriendKey
  <2>1. PICK op \in {"claim", "validate"} :
          Asked("friend", op) /\ Answer("friend", IF Granted(op) THEN 1 ELSE 0)
    BY <1>8 DEF FriendKey
  <2>2. call["friend"].late => ~Granted(op)
    BY <1>0 DEF Revoked, Withdrawn, Granted
  <2> QED
    BY <1>0, <1>1, <1>8, <2>1, <2>2 DEF FriendKey, Answer, Revoked, Ends, Withdrawn, Clients, Request
<1>9. CASE RevokeFriendKey
  BY <1>0, <1>1, <1>9
  DEF RevokeFriendKey, Asked, Answer, Revoked, Ends, Withdrawn, Clients, Request
<1>10. CASE Expire
  BY <1>0, <1>10 DEF Expire, Revoked, Ends, Withdrawn
<1>11. CASE OwnerAndFriend
  <2>0. UNCHANGED <<share, expired>>
    BY <1>11 DEF OwnerAndFriend
  <2>1. CASE share = "none" /\ Ask("owner", "create") /\ UNCHANGED known
    BY <1>0, <1>1, <2>0, <2>1 DEF Ask, Revoked, Ends, Withdrawn, Clients
  <2>2. CASE (Ask("owner", "delete") \/ Ask("owner", "revoke")) /\ UNCHANGED known
    BY <1>0, <1>1, <2>0, <2>2 DEF Ask, Revoked, Ends, Withdrawn, Clients
  <2>3. CASE (Ask("friend", "claim") \/ Ask("friend", "validate")) /\ UNCHANGED known
    <3>1. call'["owner"] = call["owner"] /\ call'["friend"].ans = 0
      BY <1>0, <1>1, <2>3 DEF Ask, Clients
    <3>2. call'["friend"].late => Withdrawn
      <4>1. PICK op \in {"claim", "validate"} : Ask("friend", op)
        BY <2>3
      <4>2. call'["friend"] = [op |-> op, st |-> "sent", ans |-> 0,
                               late |-> op \in {"claim", "validate"} /\ Withdrawn]
        BY <1>0, <1>1, <4>1, Zenon DEF Ask
      <4>3. call'["friend"].late = (op \in {"claim", "validate"} /\ Withdrawn)
        BY <4>2
      <4> QED
        BY <4>3, Zenon
    <3> QED
      BY <1>0, <2>0, <2>3, <3>1, <3>2 DEF Revoked, Ends, Withdrawn
  <2>4. ASSUME NEW c \in {"owner", "friend"}, call' = [call EXCEPT ![c] = Idle],
               known' = known \cup Learns
        PROVE  Revoked'
    <3>1. "revoked" \in known' <=> "revoked" \in known \/ Ends("owner", "revoke")
      BY <2>4 DEF Learns
    <3> QED
      BY <1>0, <1>1, <2>0, <2>4, <3>1 DEF Revoked, Ends, Withdrawn, Idle, Clients
  <2> QED
    BY <1>11, <2>1, <2>2, <2>3, <2>4 DEF OwnerAndFriend
<1> QED
  BY <1>3, <1>4, <1>5, <1>6, <1>7, <1>8, <1>9, <1>10, <1>11, StepCases DEF ServerStep, OtherStep

-----------------------------------------------------------------------------
\* The one request of a phone without an excuse, step by step.
LEMMA OneKeyStep == KeysInv /\ [KeysNext]_keyVars => OneKey'
<1> SUFFICES ASSUME KeysInv, [KeysNext]_keyVars, excused' = {} PROVE OneKey'
  BY DEF OneKey
<1>0. /\ pair \in [Pairs -> PairRequest] /\ drawn \in Nat /\ prefs \in Nat
      /\ \A r \in Pairs : pair[r].ans \in 0..drawn
  BY DEF KeysInv, Shapes, Counted, Drawn
<1>1. CASE \E r \in Pairs : OwnerPairing(r) /\ UNCHANGED <<phoneVars, anchorVars, excused>>
  <2>1. PICK r \in Pairs : OwnerPairing(r) /\ UNCHANGED <<phoneVars, anchorVars, excused>>
    BY <1>1
  <2>2. r \in Open /\ drawn = 0 /\ prefs = 0 /\ \A s \in Open : s = r
    BY <1>0, <2>1 DEF KeysInv, OneKey, Open, OwnerPairing
  <2>3. /\ Open' = Open /\ drawn' = 1 /\ prefs' = 0
        /\ pair'[r].st = "served" /\ pair'[r].ans = 1
    <3>1. drawn' = drawn + 1 /\ pair'[r].st = "served" /\ pair[r].st = "sent"
          /\ pair'[r].ans = drawn'
          /\ \A s \in Pairs : s # r => pair'[s] = pair[s]
      BY <2>1, PairingPairs DEF KeysInv, OwnerPairing
    <3> QED
      BY <2>1, <2>2, <3>1 DEF Open, phoneVars
  <2> QED
    BY <2>2, <2>3 DEF OneKey
<1>2. CASE ServerStep \/ AnchorStart \/ UNCHANGED keyVars
  <2>1. UNCHANGED <<pair, drawn, prefs, excused>>
    BY <1>2, OtherPairs DEF ServerStep, AnchorStart, keyVars, phoneVars
  <2> QED
    BY <2>1 DEF KeysInv, OneKey, Open
<1>3. CASE Phone
  <2>0. drawn' = drawn
    BY <1>3 DEF Phone
  <2>1. ASSUME NEW r \in Pairs, Confirm(r) PROVE OneKey'
    <3>1. Open = {} /\ excused = {} /\ prefs = 0 /\ drawn = 0
      BY <2>1 DEF Confirm, Excuse, KeysInv, OneKey
    <3>2. Open' = {r} /\ pair'[r].st = "begun"
      BY <1>0, <2>1, <3>1 DEF Confirm, Becomes, Open, PairRequest
    <3> QED
      BY <2>0, <2>1, <3>1, <3>2 DEF Confirm, OneKey, phoneVars
  <2>2. ASSUME NEW r \in Pairs, ResetKeyPair(r) \/ Post(r) PROVE OneKey'
    <3>1. /\ Open' = Open /\ UNCHANGED <<prefs, excused>>
          /\ \A s \in Pairs : /\ pair'[s].st = "served" <=> pair[s].st = "served"
                              /\ pair'[s].ans = pair[s].ans
      BY <1>0, <2>2 DEF ResetKeyPair, Post, Becomes, Open, PairRequest
    <3> QED
      BY <2>0, <3>1 DEF KeysInv, OneKey, Open
  <2>3. ASSUME NEW r \in Pairs, PairingKey(r) PROVE OneKey'
    <3>1. r \in Open /\ pair[r].st = "served" /\ excused = {}
      BY <2>3 DEF PairingKey, Open
    <3>2. drawn = 1 /\ \A s \in Open : s = r
      BY <1>0, <3>1 DEF KeysInv, OneKey
    <3>3. Open' = {}
      BY <1>0, <2>3, <3>2 DEF PairingKey, Close, Closed, Open
    <3>4. prefs' = 1
      BY <2>3, <3>1, <3>2 DEF PairingKey, KeysInv, OneKey
    <3> QED
      BY <2>0, <3>2, <3>3, <3>4 DEF OneKey
  <2>4. ASSUME NEW r \in Pairs, NoPairingKey(r) PROVE OneKey'
    BY <2>4 DEF NoPairingKey, Excuse
  <2>5. CASE Apply
    BY <2>0, <2>5 DEF Apply, KeysInv, OneKey, Open
  <2>6. CASE Kill
    <3>1. prefs = disk /\ Open = {} /\ excused = {}
      BY <2>6 DEF Kill, Excuse
    <3>2. Open' = {} /\ prefs' = prefs
      BY <1>0, <2>6, <3>1 DEF Kill, Open, Closed, PairRequest
    <3> QED
      BY <2>0, <3>1, <3>2 DEF KeysInv, OneKey
  <2> QED
    BY <1>3, <2>1, <2>2, <2>3, <2>4, <2>5, <2>6 DEF Phone
<1> QED
  BY <1>1, <1>2, <1>3, StepCases

-----------------------------------------------------------------------------
LEMMA KeysInvariant == KeysSpec => []KeysInv
<1>1. KeysInv /\ [KeysNext]_keyVars => KeysInv'
  BY CountedStep, DrawnStep, ShapesStep, RevokedStep, OneKeyStep DEF KeysInv
<1> QED
  BY <1>1, KeysInitInv, PTL DEF KeysSpec

\* Every variable stays in its type, in particular the keys (vehicles, NVS, SharedPreferences):
\* none is in use that was not drawn, and no more are drawn than requests were made.
THEOREM KeysTypeCorrect == KeysSpec => []KeysTypeOK
<1>1. KeysInv => KeysTypeOK
  BY DrawnBounded DEF KeysInv, Drawn, Shapes, KeysTypeOK, ServerTypeOK
<1> QED
  BY <1>1, KeysInvariant, PTL

\* A friend's request sent after the share was withdrawn is never granted (revoke_friend_key,
\* claim_friend_key, validate_friend_key), in whatever order the threads serve them.
THEOREM RevokedIsRefused == KeysSpec => []NoGrantAfterRevoke
<1>1. KeysInv => NoGrantAfterRevoke
  BY DEF KeysInv, Revoked, NoGrantAfterRevoke
<1> QED
  BY <1>1, KeysInvariant, PTL

\* Phone and anchor hold the same key (savePairingKey, saveKeyToNVS) unless a tap on Confirm
\* overlapped another one, an answer was lost or the phone was killed before apply() wrote.
THEOREM OneKeyForBoth == KeysSpec => []SameKeyUnlessExcused
<1>1. KeysInv => SameKeyUnlessExcused
  BY DEF KeysInv, Counted, Drawn, OneKey, SameKeyUnlessExcused, SameKey
<1> QED
  BY <1>1, KeysInvariant, PTL
=============================================================================

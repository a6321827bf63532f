---------------------------- MODULE BridgeProofs ----------------------------
(***************************************************************************)
(* Theorems about UsbBridge, for every set of keys: its types, and that a    *)
(* key the anchor refused is not tried again.                               *)
(***************************************************************************)
EXTENDS UsbBridge, TLAPS

(* Types, by the groups of variables that change together.                  *)

KeyTypes ==
  /\ pairingKey \in Keys \cup {None} /\ setting \in Keys \cup {None}
  /\ response \in Keys \cup {None, Torn}
AuthTypes ==
  authValue \in {"none", "AUTH_OK", "AUTH_FAIL"} /\ news \in {"none", authValue}
BitTypes ==
  /\ keySet \in BOOLEAN /\ authFailed \in BOOLEAN /\ refused \in BOOLEAN
  /\ connected \in BOOLEAN /\ authed \in BOOLEAN
PcType == ble \in {"wait", "scan", "authenticating", "sent", "failed", "session"}
LinkNeeded == authed => connected

(* Why a refused key rests.  notifyCallback and connectToServer clear         *)
(* EVT_KEY_SET together with setting authFailed; what could still start an    *)
(* attempt is the attempt under way, and it ends at authFailed.             *)

\* AUTH_OK precedes everything a session rests on.
Earned == authed \/ ble = "session" => authValue = "AUTH_OK"
\* The attempt that was refused has not ended, or bleTask waits for a key.
Resting ==
  refused =>
    /\ ~keySet /\ ~authed /\ ble \in {"wait", "sent", "failed"}
    /\ ble \in {"sent", "failed"} => authFailed
    /\ ble = "sent" => authValue = "AUTH_FAIL"
\* AUTH_FAIL is notified to an attempt that has sent its response.
FailureKnown == news = "AUTH_FAIL" => ble = "sent" /\ ~authed
\* Between attempts there is no link, and no notification without one.
Offline ==
  /\ ble \in {"wait", "scan", "failed"} => ~connected
  /\ ~connected => news = "none"

BridgeInv ==
  AuthTypes /\ PcType /\ LinkNeeded /\ Earned /\ Resting /\ FailureKnown /\ Offline

-----------------------------------------------------------------------------
LEMMA BridgeStarts == BridgeInit => KeyTypes /\ BitTypes /\ BridgeInv
BY DEF BridgeInit, KeyTypes, BitTypes, BridgeInv, AuthTypes, PcType, LinkNeeded, Earned, Resting,
       FailureKnown, Offline

LEMMA BridgeStepCases ==
  [BridgeNext]_bridgeVars =>
    \/ \E k \in Keys : SetKey(k)
    \/ KeyOk \/ Verify \/ NotifyCallback \/ OnDisconnect
    \/ KeyReady \/ Connect \/ ConnectFails \/ Respond \/ AwaitAuth \/ Panic \/ Failed
    \/ SessionEnds \/ UNCHANGED bridgeVars
BY DEF BridgeNext, BleTask

\* computeHMAC finds a key, no key, or a torn one.
LEMMA KeyTypesStep == KeyTypes /\ [BridgeNext]_bridgeVars => KeyTypes'
<1> SUFFICES ASSUME KeyTypes, [BridgeNext]_bridgeVars PROVE KeyTypes'
  OBVIOUS
<1> USE DEF KeyTypes
<1>1. CASE \E k \in Keys : SetKey(k) BY <1>1 DEF SetKey, linkVars
<1>2. CASE KeyOk BY <1>2 DEF KeyOk, linkVars
<1>3. CASE Respond BY <1>3 DEF Respond, KeyRead, usbVars
<1>4. CASE Connect BY <1>4 DEF Connect, usbVars
<1>5. CASE Panic BY <1>5 DEF Panic
<1>6. CASE KeyReady \/ ConnectFails \/ Failed \/ SessionEnds \/ UNCHANGED bridgeVars
  BY <1>6 DEF KeyReady, ConnectFails, Failed, SessionEnds, bridgeVars, usbVars, linkVars
<1>7. CASE Verify \/ NotifyCallback \/ OnDisconnect \/ AwaitAuth
  BY <1>7 DEF Verify, NotifyCallback, OnDisconnect, AwaitAuth, usbVars
<1> QED BY <1>1, <1>2, <1>3, <1>4, <1>5, <1>6, <1>7, BridgeStepCases

LEMMA BitTypesStep == BitTypes /\ [BridgeNext]_bridgeVars => BitTypes'
<1> SUFFICES ASSUME BitTypes, [BridgeNext]_bridgeVars PROVE BitTypes'
  OBVIOUS
<1> USE DEF BitTypes
<1>1. CASE (\E k \in Keys : SetKey(k)) \/ KeyOk BY <1>1 DEF SetKey, KeyOk, linkVars
<1>2. CASE Verify \/ OnDisconnect BY <1>2 DEF Verify, OnDisconnect
<1>3. CASE NotifyCallback BY <1>3 DEF NotifyCallback, BadKey
<1>4. CASE AwaitAuth BY <1>4 DEF AwaitAuth, BadKey
<1>5. CASE Respond \/ Panic \/ Connect BY <1>5 DEF Respond, Panic, Connect
<1>6. CASE KeyReady \/ ConnectFails \/ Failed \/ SessionEnds \/ UNCHANGED bridgeVars
  BY <1>6 DEF KeyReady, ConnectFails, Failed, SessionEnds, bridgeVars, linkVars
<1> QED BY <1>1, <1>2, <1>3, <1>4, <1>5, <1>6, BridgeStepCases

LEMMA RestStep == BitTypes /\ BridgeInv /\ [BridgeNext]_bridgeVars => BridgeInv'
<1> SUFFICES ASSUME BitTypes, BridgeInv, [BridgeNext]_bridgeVars PROVE BridgeInv'
  OBVIOUS
<1> USE DEF BridgeInv, AuthTypes, PcType, LinkNeeded, Earned, Resting, FailureKnown, Offline
<1>1. CASE (\E k \in Keys : SetKey(k)) \/ KeyOk BY <1>1 DEF SetKey, KeyOk, linkVars
<1>2. CASE Verify
  <2>1. ble = "sent" /\ ~refused /\ ~authed BY <1>2 DEF Verify
  <2>2. /\ authValue' \in {"AUTH_OK", "AUTH_FAIL"} /\ news' = authValue' /\ connected
        /\ UNCHANGED <<keySet, authFailed, ble, connected, authed, refused>>
    BY <1>2 DEF Verify
  <2> QED BY <2>1, <2>2
<1>3. CASE NotifyCallback
  <2>1. CASE news = "AUTH_FAIL" BY <1>3, <2>1 DEF NotifyCallback, BadKey
  <2>2. CASE news = "AUTH_OK" BY <1>3, <2>2 DEF NotifyCallback
  <2> QED BY <1>3, <2>1, <2>2 DEF NotifyCallback
<1>4. CASE OnDisconnect BY <1>4 DEF OnDisconnect
<1>5. CASE KeyReady BY <1>5 DEF KeyReady, linkVars
<1>6. CASE Connect BY <1>6 DEF Connect
<1>7. CASE ConnectFails BY <1>7 DEF ConnectFails, linkVars
<1>8. CASE Respond BY <1>8 DEF Respond
<1>9. CASE AwaitAuth
  <2>1. ble = "sent" /\ connected /\ authValue' = authValue BY <1>9 DEF AwaitAuth
  <2>2. CASE /\ authed \/ authValue = "AUTH_OK"
             /\ ble' = "session" /\ authed' = TRUE
             /\ UNCHANGED <<keySet, authFailed, refused, connected, news>>
    BY <2>1, <2>2
  <2>3. CASE /\ ~authed /\ authValue = "AUTH_FAIL" /\ BadKey
             /\ ble' = "failed" /\ connected' = FALSE /\ news' = "none" /\ authed' = authed
    BY <2>1, <2>3 DEF BadKey
  <2>4. CASE /\ ~authed /\ authValue = "none"
             /\ UNCHANGED <<keySet, authFailed, refused, authed>>
             /\ ble' = "failed" /\ connected' = FALSE /\ news' = "none"
    BY <2>1, <2>4
  <2> QED BY <1>9, <2>2, <2>3, <2>4 DEF AwaitAuth
<1>10. CASE Panic BY <1>10 DEF Panic
<1>11. CASE Failed BY <1>11 DEF Failed, linkVars
<1>12. CASE SessionEnds BY <1>12 DEF SessionEnds, linkVars
<1>13. CASE UNCHANGED bridgeVars BY <1>13 DEF bridgeVars, linkVars
<1> QED
  BY <1>1, <1>2, <1>3, <1>4, <1>5, <1>6, <1>7, <1>8, <1>9, <1>10, <1>11, <1>12, <1>13,
     BridgeStepCases

\* The state of the bridge is well formed, and authenticated means connected.
THEOREM BridgeTypeCorrect == BridgeSpec => []BridgeTypeOK
<1> DEFINE Inv == KeyTypes /\ BitTypes /\ BridgeInv
<1>1. BridgeInit => Inv BY BridgeStarts
<1>2. Inv /\ [BridgeNext]_bridgeVars => Inv' BY KeyTypesStep, BitTypesStep, RestStep
<1>3. Inv => BridgeTypeOK
  BY DEF KeyTypes, BitTypes, BridgeInv, AuthTypes, PcType, LinkNeeded, BridgeTypeOK
<1> QED BY <1>1, <1>2, <1>3, PTL DEF BridgeSpec

\* The anchor is not asked again with a key it is known to refuse.
THEOREM RefusedKeyWaits == BridgeSpec => []RefusedKeyRests
<1> DEFINE Inv == BitTypes /\ BridgeInv
<1>1. BridgeInit => Inv BY BridgeStarts
<1>2. Inv /\ [BridgeNext]_bridgeVars => Inv' BY BitTypesStep, RestStep
<1>3. Inv => RefusedKeyRests BY DEF BridgeInv, Resting, RefusedKeyRests
<1> QED BY <1>1, <1>2, <1>3, PTL DEF BridgeSpec
=============================================================================

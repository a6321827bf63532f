----------------------------- MODULE UsbBridge -----------------------------
(***************************************************************************)
(* s3_super_mini_central.ino, the ESP32-S3 that plays the tag for a phone on  *)
(* its USB port, up to the point where a session begins: usbSerialTask takes *)
(* the pairing key from the phone, bleTask waits for it, connects and        *)
(* authenticates with it, and the BLE stack calls notifyCallback and         *)
(* onDisconnect in between.  From then on it is a Tag.  The phone and the     *)
(* anchor are the environment.  Challenges are left out: a response stands    *)
(* for the key it was made with.                                            *)
(***************************************************************************)
EXTENDS Naturals

CONSTANTS
  Keys, CarKey, \* pairing keys a phone may send; the one of the anchor
  None, Torn    \* no key; a mixture of two
ASSUME BridgeConstantsOK ==
  CarKey \in Keys /\ None \notin Keys /\ Torn \notin Keys /\ None # Torn

VARIABLES
  pairingKey, setting, \* the key; the one usbSerialTask is writing over it, or None
  keySet, authFailed,  \* EVT_KEY_SET; the flag
  ble,                 \* what bleTask is doing
  connected, authed,   \* the link; authenticated and EVT_AUTHED
  response,            \* the response sent
  authValue, news,     \* the value of pAuthChar, and of the notification on its way
  refused              \* ghost: AUTH_FAIL was seen and no key was set since

usbVars == <<pairingKey, setting>>
linkVars == <<connected, authed, response, authValue, news>>
bridgeVars == <<usbVars, keySet, authFailed, ble, linkVars, refused>>

-----------------------------------------------------------------------------
(* usbSerialTask.  SET_KEY: the key is written byte by byte, then the flags.  *)
(* Forwarding it to the anchor changes nothing: the anchor ignores it.       *)

SetKey(k) ==
  /\ setting = None /\ setting' = k
  /\ UNCHANGED <<pairingKey, keySet, authFailed, ble, linkVars, refused>>

KeyOkSilent == \* mutant: EVT_KEY_SET is set for the first key only
  /\ setting # None /\ pairingKey' = setting /\ setting' = None
  /\ authFailed' = FALSE /\ keySet' = (keySet \/ pairingKey = None) /\ refused' = FALSE
  /\ UNCHANGED <<ble, linkVars>>
KeyOk ==
  /\ setting # None /\ pairingKey' = setting /\ setting' = None
  /\ authFailed' = FALSE /\ keySet' = TRUE /\ refused' = FALSE
  /\ UNCHANGED <<ble, linkVars>>

\* What computeHMAC may find.
KeyRead == IF setting = None THEN {pairingKey} ELSE {pairingKey, setting, Torn}

-----------------------------------------------------------------------------
(* The anchor and the callbacks                                             *)

\* The anchor verifies the response and notifies.
Verify ==
  /\ ble = "sent" /\ connected /\ authValue = "none"
  /\ authValue' = (IF response = CarKey THEN "AUTH_OK" ELSE "AUTH_FAIL") /\ news' = authValue'
  /\ UNCHANGED <<usbVars, keySet, authFailed, ble, connected, authed, response, refused>>

\* notifyCallback
BadKey == authFailed' = TRUE /\ keySet' = FALSE /\ refused' = TRUE
NotifyCallback ==
  /\ connected /\ news # "none" /\ news' = "none"
  /\ authed' = (news = "AUTH_OK")
  /\ IF news = "AUTH_FAIL" THEN BadKey ELSE UNCHANGED <<keySet, authFailed, refused>>
  /\ UNCHANGED <<usbVars, ble, connected, response, authValue>>

\* The link is lost, the anchor hangs up after AUTH_FAIL, the phone says DISCONNECT.
OnDisconnectKeepsAuth == \* mutant: authenticated survives the link
  /\ connected /\ connected' = FALSE /\ news' = "none"
  /\ UNCHANGED <<usbVars, keySet, authFailed, ble, authed, response, authValue, refused>>
OnDisconnect ==
  /\ connected /\ connected' = FALSE /\ authed' = FALSE /\ news' = "none"
  /\ UNCHANGED <<usbVars, keySet, authFailed, ble, response, authValue, refused>>

-----------------------------------------------------------------------------
(* bleTask                                                                  *)

KeyReady ==
  /\ ble = "wait" /\ keySet /\ ble' = "scan"
  /\ UNCHANGED <<usbVars, keySet, authFailed, linkVars, refused>>

\* An anchor is found and connected; three failures end the attempt.
Connect ==
  /\ ble = "scan" /\ ble' = "authenticating"
  /\ connected' = TRUE /\ authed' = FALSE /\ response' = None
  /\ authValue' = "none" /\ news' = "none"
  /\ UNCHANGED <<usbVars, keySet, authFailed, refused>>
ConnectFails ==
  /\ ble = "scan" /\ ble' = "failed"
  /\ UNCHANGED <<usbVars, keySet, authFailed, linkVars, refused>>

Respond ==
  /\ ble = "authenticating" /\ connected /\ ble' = "sent" /\ response' \in KeyRead
  /\ UNCHANGED <<usbVars, keySet, authFailed, connected, authed, authValue, news, refused>>

\* EVT_AUTHED, or 2 s without and then readValue.
AwaitAuth ==
  /\ ble = "sent" /\ connected
  /\ \/ /\ authed \/ authValue = "AUTH_OK"
        /\ ble' = "session" /\ authed' = TRUE
        /\ UNCHANGED <<keySet, authFailed, refused, connected, news>>
     \/ /\ ~authed /\ authValue # "AUTH_OK"
        /\ ble' = "failed" /\ connected' = FALSE /\ news' = "none" /\ UNCHANGED authed
        /\ IF authValue = "AUTH_FAIL" THEN BadKey ELSE UNCHANGED <<keySet, authFailed, refused>>
  /\ UNCHANGED <<usbVars, response, authValue>>

\* onDisconnect has cleared pChallengeChar and pAuthChar, which connectToServer uses all
\* the same: the ESP32 panics and restarts.
Panic ==
  /\ ble \in {"authenticating", "sent"} /\ ~connected
  /\ pairingKey' = None /\ setting' = None /\ keySet' = FALSE /\ authFailed' = FALSE
  /\ ble' = "wait" /\ refused' = FALSE /\ response' = None /\ authValue' = "none"
  /\ UNCHANGED <<connected, authed, news>>

\* connectToServer has returned false.
FailedRetries == \* mutant: authFailed is not looked at
  /\ ble = "failed" /\ ble' = "scan"
  /\ UNCHANGED <<usbVars, keySet, authFailed, linkVars, refused>>
Failed ==
  /\ ble = "failed" /\ ble' = (IF authFailed THEN "wait" ELSE "scan") /\ authFailed' = FALSE
  /\ UNCHANGED <<usbVars, keySet, linkVars, refused>>

SessionEnds ==
  /\ ble = "session" /\ ~connected /\ ble' = "scan"
  /\ UNCHANGED <<usbVars, keySet, authFailed, linkVars, refused>>

-----------------------------------------------------------------------------
BridgeInit ==
  /\ pairingKey = None /\ setting = None /\ keySet = FALSE /\ authFailed = FALSE
  /\ ble = "wait" /\ connected = FALSE /\ authed = FALSE /\ response = None
  /\ authValue = "none" /\ news = "none" /\ refused = FALSE

BleTask ==
  \/ KeyReady \/ Connect \/ ConnectFails \/ Respond \/ AwaitAuth \/ Panic \/ Failed \/ SessionEnds

BridgeNext ==
  \/ \E k \in Keys : SetKey(k)
  \/ KeyOk \/ Verify \/ NotifyCallback \/ OnDisconnect \/ BleTask

\* The tasks get their turn, and an anchor in range is reached if tried again and again.
BridgeSpec ==
  /\ BridgeInit /\ [][BridgeNext]_bridgeVars
  /\ WF_bridgeVars(KeyOk) /\ WF_bridgeVars(BleTask) /\ SF_bridgeVars(Connect)

-----------------------------------------------------------------------------
\* Every variable stays in its type, and nobody is authenticated without a link.
BridgeTypeOK ==
  /\ pairingKey \in Keys \cup {None} /\ setting \in Keys \cup {None}
  /\ keySet \in BOOLEAN /\ authFailed \in BOOLEAN /\ refused \in BOOLEAN
  /\ ble \in {"wait", "scan", "authenticating", "sent", "failed", "session"}
  /\ connected \in BOOLEAN /\ authed \in BOOLEAN /\ (authed => connected)
  /\ response \in Keys \cup {None, Torn}
  /\ authValue \in {"none", "AUTH_OK", "AUTH_FAIL"} /\ news \in {"none", authValue}

\* A key the anchor is known to refuse is not tried again: bleTask waits for SET_KEY.
RefusedKeyRests == refused => ble \notin {"scan", "authenticating"}

\* A key that SET_KEY brings while bleTask waits for one is tried, unless the phone sends
\* another one meanwhile or the ESP32 restarts.
SetKeyIsTried ==
  \A k \in Keys :
    (ble = "wait" /\ setting = k) ~>
      \/ ble = "sent" /\ response = k
      \/ setting \notin {k, None} \/ (setting = k /\ ble # "wait")
      \/ setting = None /\ pairingKey = None
=============================================================================

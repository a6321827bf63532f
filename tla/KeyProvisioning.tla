-------------------------- MODULE KeyProvisioning --------------------------
(***************************************************************************)
(* How the owner's phone and the anchor come to hold the pairing key: the    *)
(* phone has the server draw one (EnterVinFragment, PairingRepository) and   *)
(* keeps it (KeyManager), the anchor fetches the one the server holds when    *)
(* it starts without (executeMainFlow).  Neither ever asks again once it     *)
(* has a key, so they must get the same.                                     *)
(***************************************************************************)
EXTENDS KeyServer

VARIABLES
  keyPair,        \* GeneratePrivateKeyEcc.keyPair: the request that made it, 0 for null
  prefs, disk,    \* the key in SharedPreferences, and what apply() has written
  bleKey, anchor, \* the key in NVS; what executeMainFlow is doing
  excused         \* ghost: why the phone may have asked twice

phoneVars == <<keyPair, prefs, disk>>
anchorVars == <<bleKey, anchor>>
keyVars == <<serverVars, phoneVars, anchorVars, excused>>

-----------------------------------------------------------------------------
(* The phone.  A tap on Confirm starts a coroutine on Dispatchers.IO; the    *)
(* button stays enabled, and all coroutines share one key pair.              *)

Open == {r \in Pairs : pair[r].st \notin {"new", "over"}}
Excuse(why) == excused' = excused \cup why
Becomes(r, st) == pair' = [pair EXCEPT ![r].st = st]
Closed == [st |-> "over", ans |-> 0, kp |-> 0]
Close(r) == pair' = [pair EXCEPT ![r] = Closed]

\* sendVinToServer.  With a key in SharedPreferences nothing is asked.
ConfirmAgain(r) == \* mutant: the key that was kept is not looked at
  /\ pair[r].st = "new" /\ Becomes(r, "begun")
  /\ Excuse(IF Open = {} THEN {} ELSE {"overlap"}) /\ UNCHANGED phoneVars
Confirm(r) ==
  /\ prefs = 0 /\ pair[r].st = "new" /\ Becomes(r, "begun")
  /\ Excuse(IF Open = {} THEN {} ELSE {"overlap"}) /\ UNCHANGED phoneVars

\* pairVehicle: reset(), then getOrCreateKeyPair() and the POST.
ResetKeyPair(r) ==
  /\ pair[r].st = "begun" /\ Becomes(r, "reset")
  /\ keyPair' = 0 /\ UNCHANGED <<prefs, disk, excused>>
Post(r) ==
  /\ pair[r].st = "reset" /\ keyPair' = (IF keyPair = 0 THEN r ELSE keyPair)
  /\ pair' = [pair EXCEPT ![r].st = "sent", ![r].kp = keyPair']
  /\ UNCHANGED <<prefs, disk, excused>>

\* The answer is read with the key pair there is now; savePairingKey.
PairingKey(r) ==
  /\ pair[r].st = "served" /\ pair[r].kp # 0 /\ keyPair = pair[r].kp
  /\ prefs' = pair[r].ans /\ Close(r) /\ UNCHANGED <<keyPair, disk, excused>>

\* Another key pair, no answer in 30 s, the fragment is gone.  The request may reach the
\* server even so: then nobody waits for it (kp = 0).
NoPairingKey(r) ==
  /\ \/ pair[r].st \in {"sent", "served"} /\ Close(r)
     \/ pair[r].st = "sent" /\ pair' = [pair EXCEPT ![r].kp = 0]
  /\ Excuse({"lost"}) /\ UNCHANGED phoneVars

\* apply() writes in the background.
Apply == prefs # disk /\ disk' = prefs /\ UNCHANGED <<keyPair, prefs, pair, excused>>

\* The process is killed and started anew.  What it sent still reaches the server.
Kill ==
  /\ keyPair' = 0 /\ prefs' = disk /\ UNCHANGED disk
  /\ pair' = [r \in Pairs |-> IF pair[r].st \in {"begun", "reset", "served"}
                              THEN Closed ELSE [pair[r] EXCEPT !.kp = 0]]
  /\ Excuse({x \in {"apply"} : prefs # disk} \cup {x \in {"lost"} : Open # {}})

Phone ==
  /\ \/ \E r \in Pairs :
          Confirm(r) \/ ResetKeyPair(r) \/ Post(r) \/ PairingKey(r) \/ NoPairingKey(r)
     \/ Apply \/ Kill
  /\ UNCHANGED <<pairing, drawn, share, expired, call, known, anchorVars>>

-----------------------------------------------------------------------------
(* The anchor: executeMainFlow, once per start.                             *)

CheckStoredKey ==
  /\ anchor = "start"
  /\ \/ bleKey # 0 /\ anchor' = "ble" /\ UNCHANGED call
     \/ bleKey = 0 /\ anchor' = "fetching" /\ Ask("anchor", "check")
  /\ UNCHANGED bleKey

\* fetchPairingKeyViaSim, saveKeyToNVS.  Without a key BLE is not started.
FetchPairingKey ==
  /\ anchor = "fetching" /\ call["anchor"].st = "served"
  /\ bleKey' = call["anchor"].ans /\ anchor' = (IF bleKey' = 0 THEN "noKey" ELSE "ble")
  /\ call' = [call EXCEPT !["anchor"] = Idle]

\* No modem, no answer.
FetchFails ==
  /\ anchor = "fetching" /\ anchor' = "noKey" /\ UNCHANGED bleKey
  /\ call' = [call EXCEPT !["anchor"] = Idle]

Restart ==
  /\ anchor # "start" /\ anchor' = "start" /\ UNCHANGED bleKey
  /\ call' = [call EXCEPT !["anchor"] = Idle]

AnchorStart ==
  /\ CheckStoredKey \/ FetchPairingKey \/ FetchFails \/ Restart
  /\ UNCHANGED <<pairing, drawn, share, expired, pair, known, phoneVars, excused>>

-----------------------------------------------------------------------------
KeysInit ==
  /\ ServerInit /\ keyPair = 0 /\ prefs = 0 /\ disk = 0
  /\ bleKey = 0 /\ anchor = "start" /\ excused = {}

KeysNext ==
  \/ (Endpoints \/ OwnerAndFriend) /\ UNCHANGED <<phoneVars, anchorVars, excused>>
  \/ Phone \/ AnchorStart

KeysSpec == KeysInit /\ [][KeysNext]_keyVars

-----------------------------------------------------------------------------
\* Every variable stays in its type.
KeysTypeOK ==
  /\ ServerTypeOK /\ keyPair \in 0..MaxPairs
  /\ prefs \in 0..drawn /\ disk \in 0..drawn /\ bleKey \in 0..drawn
  /\ anchor \in {"start", "fetching", "noKey", "ble"}
  /\ excused \subseteq {"overlap", "lost", "apply"}

\* The claim of KeyManager: the key the phone has kept is the one the anchor keeps.
SameKey == prefs # 0 /\ bleKey # 0 => prefs = bleKey

\* What is true of it: phone, anchor and table differ only if a tap on Confirm overlapped
\* another, an answer was lost, or the process was killed before its key was on disk.
SameKeyUnlessExcused ==
  excused = {} => SameKey /\ (prefs # 0 => pairing \in {prefs, 0})
=============================================================================

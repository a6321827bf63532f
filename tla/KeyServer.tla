----------------------------- MODULE KeyServer -----------------------------
(***************************************************************************)
(* The tables of Server/main.py for one vehicle, and the requests on them.  *)
(* The endpoints are plain functions, so they run in a pool of threads and    *)
(* requests overlap; every call of the database is a transaction of its own.  *)
(* A request is sent, served and answered in separate steps: what happens     *)
(* in between is what a client can get wrong.  Keys are numbered in the order *)
(* in which they are drawn; encryption and HTTP are left out.                *)
(*                                                                         *)
(* Requests of a kind are records in a function.  The phone's requests for   *)
(* a key may overlap each other; the anchor, the owner and the friend have    *)
(* one request at a time each.                                               *)
(***************************************************************************)
EXTENDS Naturals

CONSTANT MaxPairs \* bound on the phone's requests for a key
ASSUME KeyServerConstantsOK == MaxPairs \in Nat \ {0}

VARIABLES
  pairing, drawn,  \* vehicles.pairing_key, 0 without a row; the keys drawn so far
  share, expired,  \* is_revoked of the one row of friend_keys; utcnow() > expires_at
  pair,            \* the phone's requests
  call,            \* the last request of each other client
  known            \* what the owner and the friend have been answered

serverVars == <<pairing, drawn, share, expired, pair, call, known>>

\* "new" is a request not made yet, begun and reset are steps of the phone before it
\* sends; kp is the key pair whose public half it sends; ans is a key, 0 for none.
Pairs == 1..MaxPairs
PairRequest == [st : {"new", "begun", "reset", "sent", "served", "over"},
                ans : 0..MaxPairs, kp : 0..MaxPairs]

\* looked is between the two transactions of create_friend_share.  ans is a key for the
\* anchor, 1 for success for the others; 0 is any refusal.
Clients == {"anchor", "owner", "friend"}
Request == [op : {"none", "check", "delete", "create", "revoke", "claim", "validate"},
            st : {"idle", "sent", "looked", "served"}, ans : 0..MaxPairs, late : BOOLEAN]

\* The share was withdrawn, and its owner knows, or has run out: ghost.
Withdrawn == "revoked" \in known \/ expired

Idle == [op |-> "none", st |-> "idle", ans |-> 0, late |-> FALSE]
Ask(c, op) ==
  /\ call[c].st = "idle"
  /\ call' = [call EXCEPT ![c] = [op |-> op, st |-> "sent", ans |-> 0,
                                  late |-> op \in {"claim", "validate"} /\ Withdrawn]]
Asked(c, op) == call[c].op = op /\ call[c].st = "sent"
Answer(c, ans) == call' = [call EXCEPT ![c].st = "served", ![c].ans = ans]

-----------------------------------------------------------------------------
(* The endpoints                                                            *)

\* owner_pairing: a new key whatever there was, INSERT OR REPLACE, the answer.
OwnerPairingTwice(r) == \* mutant: one key for the table, another one for the answer
  /\ pair[r].st = "sent" /\ drawn' = drawn + 2 /\ pairing' = drawn + 1
  /\ pair' = [pair EXCEPT ![r].st = "served", ![r].ans = drawn']
  /\ UNCHANGED <<share, expired, call, known>>
OwnerPairing(r) ==
  /\ pair[r].st = "sent" /\ drawn' = drawn + 1 /\ pairing' = drawn'
  /\ pair' = [pair EXCEPT ![r].st = "served", ![r].ans = drawn']
  /\ UNCHANGED <<share, expired, call, known>>

SecureCheckPairing ==
  /\ Asked("anchor", "check") /\ Answer("anchor", pairing)
  /\ UNCHANGED <<pairing, drawn, share, expired, pair, known>>

\* The rows of friend_keys stay.
DeleteVehicle ==
  /\ Asked("owner", "delete") /\ Answer("owner", IF pairing = 0 THEN 0 ELSE 1)
  /\ pairing' = 0 /\ UNCHANGED <<drawn, share, expired, pair, known>>

\* create_friend_share looks the vehicle up and inserts in another transaction.
CreateLooksUp ==
  /\ Asked("owner", "create")
  /\ IF pairing = 0 THEN Answer("owner", 0) ELSE call' = [call EXCEPT !["owner"].st = "looked"]
  /\ UNCHANGED <<pairing, drawn, share, expired, pair, known>>
CreateInserts ==
  /\ call["owner"].st = "looked" /\ share' = "live" /\ Answer("owner", 1)
  /\ UNCHANGED <<pairing, drawn, expired, pair, known>>

\* claim_friend_key and validate_friend_key test the row they have read; neither looks
\* at vehicles.
GrantedUnchecked(op) == \* mutant: validate_friend_key without is_revoked
  (share = "live" \/ (op = "validate" /\ share = "revoked")) /\ ~expired
Granted(op) == share = "live" /\ ~expired
FriendKey ==
  /\ \E op \in {"claim", "validate"} :
       Asked("friend", op) /\ Answer("friend", IF Granted(op) THEN 1 ELSE 0)
  /\ UNCHANGED <<pairing, drawn, share, expired, pair, known>>

RevokeFriendKey ==
  /\ Asked("owner", "revoke") /\ Answer("owner", 1) /\ share' = "revoked"
  /\ UNCHANGED <<pairing, drawn, expired, pair, known>>

\* ttl_hours have passed.
Expire ==
  /\ share # "none" /\ ~expired /\ expired' = TRUE
  /\ UNCHANGED <<pairing, drawn, share, pair, call, known>>

Endpoints ==
  \/ \E r \in Pairs : OwnerPairing(r)
  \/ SecureCheckPairing \/ DeleteVehicle
  \/ CreateLooksUp \/ CreateInserts \/ FriendKey \/ RevokeFriendKey \/ Expire

-----------------------------------------------------------------------------
(* The owner and the friend of friend_client.py, each with what it must have  *)
(* been answered before: the owner the id, the friend the link and then the   *)
(* bundle.  One share is made.                                              *)

Ends(c, op) == call[c].op = op /\ call[c].st = "served" /\ call[c].ans # 0
Learns ==
     {x \in {"id"} : Ends("owner", "create")} \cup {x \in {"revoked"} : Ends("owner", "revoke")}
     \cup {x \in {"bundle"} : Ends("friend", "claim")}

OwnerAndFriend ==
  /\ \/ /\ \/ Ask("owner", "delete")
           \/ share = "none" /\ Ask("owner", "create")
           \/ "id" \in known /\ (Ask("owner", "revoke") \/ Ask("friend", "claim"))
           \/ "bundle" \in known /\ Ask("friend", "validate")
        /\ UNCHANGED known
     \/ \E c \in {"owner", "friend"} :
          call[c].st = "served" /\ call' = [call EXCEPT ![c] = Idle] /\ known' = known \cup Learns
  /\ UNCHANGED <<pairing, drawn, share, expired, pair>>

ServerInit ==
  /\ pairing = 0 /\ drawn = 0 /\ share = "none" /\ expired = FALSE
  /\ pair = [r \in Pairs |-> [st |-> "new", ans |-> 0, kp |-> 0]]
  /\ call = [c \in Clients |-> Idle] /\ known = {}

-----------------------------------------------------------------------------
\* Every variable stays in its type, and no key is in use that was not drawn.
ServerTypeOK ==
  /\ drawn \in 0..MaxPairs /\ pairing \in 0..drawn
  /\ share \in {"none", "live", "revoked"} /\ expired \in BOOLEAN
  /\ pair \in [Pairs -> PairRequest] /\ call \in [Clients -> Request]
  /\ known \subseteq {"id", "revoked", "bundle"}

\* "Owner revokes a friend sharing key immediately": no claim and no validation that is
\* sent after the owner has the answer of revoke_friend_key, or after the share has run
\* out, is granted, however it overlaps with other requests.
NoGrantAfterRevoke == call["friend"].late => call["friend"].ans = 0
=============================================================================

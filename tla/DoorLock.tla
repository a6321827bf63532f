------------------------------ MODULE DoorLock ------------------------------
(***************************************************************************)
(* What the anchor promises of the doors: commands are accepted from a      *)
(* connected central and executed one by one, in order, each at most once;  *)
(* a command is refused only when Depth others wait; and the end of a       *)
(* session asks for LOCK before another session can begin.                  *)
(***************************************************************************)
EXTENDS Integers, Sequences

CONSTANT Depth  \* commands that can always wait

VARIABLES
  connected,  \* whether there is a session
  closing,    \* a session ended, its LOCK is not asked for yet
  pending,    \* commands accepted and not executed
  believed,   \* unlocked, as far as the firmware knows
  door

vars == <<connected, closing, pending, believed, door>>

Init ==
  /\ ~connected /\ ~closing /\ pending = <<>>
  /\ believed = FALSE /\ door = "locked"

Connect ==
  /\ ~connected /\ ~closing /\ connected' = TRUE
  /\ UNCHANGED <<closing, pending, believed, door>>

Disconnect ==
  /\ connected /\ connected' = FALSE /\ closing' = TRUE
  /\ UNCHANGED <<pending, believed, door>>

\* Accepted, with at most Depth commands waiting behind the first, or refused
\* because Depth commands wait.
Ask(cmd) ==
  \/ Len(pending) <= Depth /\ pending' = Append(pending, cmd)
  \/ Len(pending) >= Depth /\ pending' = pending

Request ==
  /\ connected /\ \E cmd \in {"LOCK", "UNLOCK"} : Ask(cmd)
  /\ UNCHANGED <<connected, closing, believed, door>>

Close ==
  /\ closing /\ closing' = FALSE /\ Ask("LOCK")
  /\ UNCHANGED <<connected, believed, door>>

\* LOCK always, UNLOCK only of a car believed locked; the frames may fail.
Execute ==
  /\ pending # <<>> /\ pending' = Tail(pending)
  /\ \/ Head(pending) = "LOCK" /\ believed' = FALSE /\ door' \in {"locked", door}
     \/ Head(pending) = "UNLOCK" /\ ~believed /\ believed' = TRUE /\ door' = "unlocked"
     \/ Head(pending) = "UNLOCK" /\ ~believed /\ believed' = FALSE
        /\ door' \in {"unlocked", door}
     \/ Head(pending) = "UNLOCK" /\ believed /\ UNCHANGED <<believed, door>>
  /\ UNCHANGED <<connected, closing>>

\* The SPI bus was not to be had in time.
Lose ==
  /\ pending # <<>> /\ pending' = Tail(pending)
  /\ UNCHANGED <<connected, closing, believed, door>>

Restart ==
  /\ connected' = FALSE /\ closing' = FALSE /\ pending' = <<>> /\ believed' = FALSE
  /\ UNCHANGED door

Next == Connect \/ Disconnect \/ Request \/ Close \/ Execute \/ Lose \/ Restart

Spec == Init /\ [][Next]_vars
=============================================================================

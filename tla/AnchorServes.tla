---------------------------- MODULE AnchorServes ----------------------------
(***************************************************************************)
(* Anchor implements AnchorService: what a central can see of the callbacks, *)
(* the queues and the three tasks.                                          *)
(***************************************************************************)
EXTENDS AnchorDoors

\* data of the messages of a type in a queue, in order: of the first i messages.
Selection(q, type) ==
  LET S[i \in 0..Len(q)] ==
        IF i = 0 THEN <<>>
        ELSE IF q[i].type = type THEN Append(S[i - 1], q[i].data) ELSE S[i - 1]
  IN S
Selected(q, type) == Selection(q, type)[Len(q)]

\* The responses in bleQueue, after the one bleTask is verifying.
Responses == Selected(bleQueue, "AUTH_VERIFY")
Verifying == IF ble \in {"match", "kick"} THEN <<msg.data>> ELSE <<>>

\* The announcements in bleQueue and the one bleTask has in hand.
Announcements ==
  Len(Selected(bleQueue, "NOTIFY_UWB_ACTIVE")) + (IF ble = "notify" THEN 1 ELSE 0)

\* Shutting down is over as soon as DEINIT has been taken.
Ranging == CASE uwb \in {"idle", "deinit", "stop", "clear"} -> "idle"
             [] uwb = "init" -> "init"
             [] uwb = "notify" -> "notify"
             [] OTHER -> "active"

AS == INSTANCE AnchorService WITH
        responses <- Verifying \o Responses,
        ranging <- Ranging,
        announce <- Announcements,
        pending <- InHand \o canQueue

\* The anchor serves its central as AnchorService says: a challenge per session,
\* verified responses, ranging announced once per INIT it was idle for, doors
\* that obey in order.
ImplementsService == AS!ServiceSpec
-----------------------------------------------------------------------------
(* What the step by step proof needs to know besides IndInv.                *)

\* bleQueue holds one request per session, oldest first, and none for a session that
\* had its challenge.
RequestInv ==
  /\ challenge <= session /\ (cb = "challenge" => challenge < session)
  /\ \A i \in DOMAIN bleQueue :
       bleQueue[i].type = "SEND_CHALLENGE" =>
         /\ challenge < bleQueue[i].of /\ bleQueue[i].of <= session
         /\ cb = "challenge" => bleQueue[i].of < session
         /\ \A j \in 1..i - 1 :
              bleQueue[j].type = "SEND_CHALLENGE" => bleQueue[j].of < bleQueue[i].of

\* A central answers a challenge that was drawn in its session or before, and bleTask
\* finds a response right for the challenge that stands.
ResponseInv ==
  /\ heard = NoChallenge \/ heard \in 0..session
  /\ ble = "match" => msg.data = challenge

\* The inductive invariant of the implementation, on top of IndInv.
ServesInv == RequestInv /\ ResponseInv
=============================================================================

------------------------------ MODULE MCAnchor ------------------------------
(* Small instances of Anchor for TLC: what the central does in each of them. *)
EXTENDS AnchorServes

\* Authentication and sessions: the central reads, answers right or wrong.
SessionCentral == {"READ", "RESPOND", "GARBLE"}
\* A tag that authenticates, ranges, opens, leaves and stops ranging far away.
TaskCentral == Writes \cup {"RESPOND"}
\* A tag that authenticates, ranges, opens and leaves.
LiveCentral == {"RESPOND", "VERIFIED", "WARNING", "TAG_UWB_READY"}
=============================================================================

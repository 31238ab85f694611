------------------------------ MODULE MCOverlap ------------------------------
(***************************************************************************)
(* Workers that overlap, for TLC: an old deploy still has a row in hand    *)
(* when the new one begins and resets it.  They run either the re-marks of *)
(* StudentCorrections or, with whatever rows and keys come, the bare queue *)
(* of JobStore.                                                            *)
(***************************************************************************)
EXTENDS MCStudentCorrections

VARIABLE which  \* what the queue is used for: "corrections" or "anything"

OverlapInit == CorrInit /\ which \in {"corrections", "anything"}

OverlapNext ==
    /\ \/ which = "corrections" /\ CorrNext
       \/ which = "anything" /\ JobNext /\ UNCHANGED <<window, corr, photo, about, remark, request>>
    /\ UNCHANGED which

OverlapSpec == OverlapInit /\ [][OverlapNext]_<<which, corrVars>>
=============================================================================

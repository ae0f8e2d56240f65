------------------------ MODULE MCResumableDownload ------------------------
(* TLC instances of ResumableDownload. *)
EXTENDS ResumableDownload, TLC

AllKinds == {"blob", "archive", "shared", "pulled"}

\* The code has 5, 6, 3 and 1.
FewTries == [blob |-> 2, archive |-> 2, shared |-> 2, pulled |-> 1]

OpsCore == {"bad", "crash", "cancel"}
=============================================================================

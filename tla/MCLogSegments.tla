---------------------------- MODULE MCLogSegments ----------------------------
(* Instance of LogSegments for TLC. *)
EXTENDS LogSegments

=============================================================================

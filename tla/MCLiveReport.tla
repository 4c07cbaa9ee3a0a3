---------------------------- MODULE MCLiveReport ----------------------------
(* Instances of LiveReport for TLC. *)
EXTENDS LiveReport

CONSTANTS r1, r2, r3, p1, p2

\* All reports of a run go to one column, so that its limit is reached; the
\* columns of a page share no state.
MCKindOf == [r \in Reports |-> "attempt"]

=============================================================================

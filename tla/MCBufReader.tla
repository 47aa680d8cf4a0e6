------------------------------ MODULE MCBufReader ------------------------------
(* Instances of BufReader for TLC.                                          *)
EXTENDS BufReader

MCCounts == -1 .. Size + 1

\* An operation that was called goes on, and the underlying reader answers.
RdFairSpec == RdSpec /\ WF_rdVars(RdStep)

================================================================================

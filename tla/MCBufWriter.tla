------------------------------ MODULE MCBufWriter ------------------------------
(* Instances of BufWriter for TLC.                                          *)
EXTENDS BufWriter

MCLengths == -1 .. 2 * Size + 1

================================================================================

-------------------------------- MODULE MCCodec --------------------------------
(* Three services, one of them for uploads, with two methods each; three     *)
(* values; the function of each method adds a number of its own.             *)
EXTENDS Codec

MCValues == 0 .. 2
MCAdd == [p \in Services \X Methods |-> IF p[2] = "Get" THEN 1 ELSE 2]
MCAnswer == [p \in Services \X Methods |-> [v \in MCValues |-> (v + MCAdd[p]) % 3]]

================================================================================

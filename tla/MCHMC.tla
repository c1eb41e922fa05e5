------------------------------- MODULE MCHMC --------------------------------
(* Small instances of HMC: see MCHMC.cfg.   Packets are those of 32-byte  *)
(* blocks: a read request is 1 flit, its response 3, a write request 3,    *)
(* its response 1.                                                         *)
EXTENDS HMC

TwoQuads == [a \in Addr |-> a % 2]
Req32 == [w \in BOOLEAN |-> IF w THEN 3 ELSE 1]
Resp32 == [w \in BOOLEAN |-> IF w THEN 1 ELSE 3]
=============================================================================

------------------------------- MODULE MemPort -------------------------------
(***************************************************************************)
(* What a memory channel promises its user: every transaction handed over  *)
(* with AddTransaction is answered by exactly one callback, read by read   *)
(* and write by write, and nothing else is ever called back.  When the     *)
(* answer comes, and in which order, is left open.                         *)
(***************************************************************************)
EXTENDS Naturals

CONSTANT Addr           \* the line addresses the channel serves

VARIABLES outRd,        \* outRd[a]: reads of a accepted and not yet answered
          outWr         \* outWr[a]: writes of a accepted and not yet answered

portVars == <<outRd, outWr>>

PortInit == /\ outRd = [a \in Addr |-> 0]
            /\ outWr = [a \in Addr |-> 0]

PortAccept(a) ==
    \/ outRd' = [outRd EXCEPT ![a] = @ + 1] /\ outWr' = outWr
    \/ outWr' = [outWr EXCEPT ![a] = @ + 1] /\ outRd' = outRd

PortRespond(a) ==
    \/ outRd[a] > 0 /\ outRd' = [outRd EXCEPT ![a] = @ - 1] /\ outWr' = outWr
    \/ outWr[a] > 0 /\ outWr' = [outWr EXCEPT ![a] = @ - 1] /\ outRd' = outRd

PortNext == \E a \in Addr : PortAccept(a) \/ PortRespond(a)

PortSpec == PortInit /\ [][PortNext]_portVars
=============================================================================

------------------------------ MODULE LineStore ------------------------------
(***************************************************************************)
(* What one set of a write-back cache promises the cores, whatever its     *)
(* replacement policy: it holds at most Assoc lines; a line that is read   *)
(* is there afterwards; a line leaves only to make room for another one in *)
(* a full set; and a line that has been written since it came is handed    *)
(* back when it leaves.  The cache of module FrontEnd is this one.         *)
(***************************************************************************)
EXTENDS Naturals, FiniteSets

CONSTANTS Line, Assoc

VARIABLES present,      \* the lines that are held
          written,      \* those written since they came
          handedBack    \* what the last fill had to write back

storeVars == <<present, written, handedBack>>

StoreInit == present = {} /\ written = {} /\ handedBack = {}

StoreWrite(l) ==
    /\ l \in present
    /\ written' = written \cup {l}
    /\ UNCHANGED <<present, handedBack>>

StoreFill(l, victims) ==
    /\ l \notin present
    /\ Cardinality(victims) <= 1
    /\ victims # {} => Cardinality(present) = Assoc
    /\ present' = (present \ victims) \cup {l}
    /\ written' = written \ victims
    /\ handedBack' = victims \cap written
    /\ Cardinality(present') <= Assoc

StoreNext ==
    \E l \in Line :
       \/ StoreWrite(l)
       \/ \E victims \in SUBSET present : StoreFill(l, victims)

StoreSpec == StoreInit /\ [][StoreNext]_storeVars
=============================================================================

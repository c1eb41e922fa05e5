-------------------------------- MODULE OS ----------------------------------
(***************************************************************************)
(* The page allocator of os.cpp: pages are mapped on first touch to a      *)
(* random free frame, and every core address is translated through it.     *)
(* Frame 0 is reserved, so that the core can use line address 0 for "no    *)
(* write-back".  The model ends at the first assertion that fails; a build *)
(* without assertions goes on and hands frame 0 out, or the same frame to  *)
(* two threads.                                                            *)
(***************************************************************************)
EXTENDS Integers

CONSTANTS
    NumThreads,     \* num_threads
    VaLine,         \* the virtual line addresses the traces use
    LinesInPage,    \* OS::lines_in_page
    TidShift,       \* 2^36: the weight of the thread id in a page-table key
    NumPages,       \* OS::num_pages
    UsablePercent,  \* 95: the share of the frames that may be handed out
    NoPage          \* a key the page table does not contain

Tid == 0 .. NumThreads - 1
Pfn == 0 .. NumPages - 1

ASSUME OSConstants ==
    /\ NumThreads \in Nat \ {0}
    /\ VaLine \subseteq Nat
    /\ LinesInPage \in Nat \ {0}
    /\ TidShift \in Nat \ {0}
    /\ NumPages \in Nat \ {0}
    /\ UsablePercent \in 0 .. 100
    /\ NoPage \notin Pfn

VARIABLES
    pt,         \* OS::pt, from keys to frames
    ipt,        \* OS::ipt: the frames in use
    missCount,  \* OS::s_miss_count
    died        \* an assertion ended the program

vars == <<pt, ipt, missCount, died>>

VpnOf(va) == va \div LinesInPage
LineId(va) == va % LinesInPage

\* Embed tid information in high bits.
TidVpn(tid, vpn) == tid * TidShift + vpn

Key == {TidVpn(t, VpnOf(va)) : t \in Tid, va \in VaLine}

TypeOK ==
    /\ pt \in [Key -> Pfn \cup {NoPage}]
    /\ ipt \subseteq Pfn
    /\ missCount \in Nat
    /\ died \in BOOLEAN

\* Mutant: frame 0 is not reserved.
Init_FrameZeroFree ==
    pt = [k \in Key |-> NoPage] /\ ipt = {} /\ missCount = 0 /\ died = FALSE

Init ==
    /\ pt = [k \in Key |-> NoPage]
    /\ ipt = {0}
    /\ missCount = 0
    /\ died = FALSE

Die == died' = TRUE /\ UNCHANGED <<pt, ipt, missCount>>

\* assert(s_miss_count < 0.95*num_pages) would fail.
Exhausted == missCount * 100 >= UsablePercent * NumPages

\* Mutant: the frame is not marked as used.
os_get_victim_from_ipt_Unmarked(k) ==
    /\ ~Exhausted
    /\ \E victim \in Pfn \ ipt : pt' = [pt EXCEPT ![k] = victim]
    /\ missCount' = missCount + 1
    /\ UNCHANGED <<ipt, died>>

\* MAX_TRIES random picks find a free frame, or all hit frames in use.
os_get_victim_from_ipt(k) ==
    \/ (Exhausted \/ ipt # {}) /\ Die
    \/ /\ ~Exhausted
       /\ \E victim \in Pfn \ ipt :
             /\ ipt' = ipt \cup {victim}
             /\ pt' = [pt EXCEPT ![k] = victim]
             /\ missCount' = missCount + 1
             /\ UNCHANGED died

\* The first access to a page maps it; a mapped page is only looked up.
os_vpn_to_pfn(tid, vpn) ==
    \/ vpn >= TidShift /\ Die
    \/ /\ vpn < TidShift
       /\ pt[TidVpn(tid, vpn)] = NoPage
       /\ os_get_victim_from_ipt(TidVpn(tid, vpn))

Next == ~died /\ \E t \in Tid, va \in VaLine : os_vpn_to_pfn(t, VpnOf(va))

Spec == Init /\ [][Next]_vars

-----------------------------------------------------------------------------
(* Properties.                                                             *)

Mapped(tid, va) ==
    VpnOf(va) < TidShift /\ pt[TidVpn(tid, VpnOf(va))] # NoPage

os_v2p_lineaddr(tid, va) ==
    pt[TidVpn(tid, VpnOf(va))] * LinesInPage + LineId(va)

\* Two accesses reach the same physical line only if they are the same
\* thread's accesses to the same virtual line: the cores never share lines,
\* which FrontEnd assumes of LinesOf.
TranslationInjective ==
    \A t, u \in Tid, va, vb \in VaLine :
       /\ Mapped(t, va) /\ Mapped(u, vb)
       /\ os_v2p_lineaddr(t, va) = os_v2p_lineaddr(u, vb)
       => t = u /\ va = vb

\* No access is translated to line 0, which mcore_cycle and memsys_access use
\* for "nothing to write back".
LineZeroUnused ==
    \A t \in Tid, va \in VaLine :
       Mapped(t, va) => os_v2p_lineaddr(t, va) # 0

\* The inductive invariant: the page table is injective into the frames in
\* use, and frame 0 is in use without being mapped.
OSInv ==
    /\ TypeOK
    /\ 0 \in ipt
    /\ \A k \in Key : pt[k] # NoPage => pt[k] \in ipt /\ pt[k] # 0
    /\ \A j, k \in Key : pt[j] = pt[k] /\ pt[k] # NoPage => j = k
=============================================================================

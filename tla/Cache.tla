-------------------------------- MODULE Cache --------------------------------
(***************************************************************************)
(* One set of the last-level cache (mcache.cpp): its ways, the replacement *)
(* policies and the write-back budget of LRU_WBT with the epochs of the    *)
(* main loop (sim.cpp).  Sets do not share anything but s_count and the    *)
(* budget, so one set stands for all.  The callers are in mcore_fetch: a   *)
(* read that misses installs its line at once, a write marks a line dirty. *)
(***************************************************************************)
EXTENDS Integers, FiniteSets, FiniteSetsExt

CONSTANTS
    Line,               \* line addresses of the set
    Assoc,              \* assocs
    ReplPolicies,       \* values of repl_policy, one of which a run uses
    LruWbTth,           \* LRU_WB_TTH
    EpochLen,           \* 2048: cycles of a write-back epoch
    MaxAccesses         \* bound: s_count

ASSUME CacheConstants ==
    /\ ReplPolicies \subseteq {"LRU", "RND", "SRRIP", "LRU_WBT"}
    /\ {Assoc, EpochLen, MaxAccesses} \subseteq Nat \ {0}
    /\ EpochLen % 2 = 0
    /\ LruWbTth \in Nat

Way == 1 .. Assoc
RipMax == 7             \* MCACHE_SRRIP_MAX
RipInit == 1            \* MCACHE_SRRIP_INIT

VARIABLES
    replPolicy,         \* repl_policy, which does not change
    entries,            \* entries of the set
    count,              \* s_count
    evictedDirty,       \* evicted_line_addr if evicted_dirty_line
    wbInEpoch,          \* wb_in_2k_epoch
    cycle,              \* cycle, modulo EpochLen
    older               \* history: the pairs of lines <<m, l>> of which m was read
                        \* less recently than l

vars == <<replPolicy, entries, count, evictedDirty, wbInEpoch, cycle, older>>

Init ==
    /\ replPolicy \in ReplPolicies
    /\ entries = [w \in Way |-> [valid |-> FALSE, dirty |-> FALSE, tag |-> 0,
                                 ripctr |-> 0, lastAccess |-> 0]]
    /\ count = 0 /\ evictedDirty = {} /\ wbInEpoch = 0 /\ cycle = 0
    /\ older = {}

-----------------------------------------------------------------------------
(* The victim.  In a set that is not full it is the first invalid way.     *)

Invalid == {w \in Way : ~entries[w].valid}
Holding(l) == {w \in Way : entries[w].valid /\ entries[w].tag = l}
Present == {l \in Line : Holding(l) # {}}

\* The way of ws that was accessed longest ago, the first of equals.
Oldest(ws) ==
    CHOOSE w \in ws : \A v \in ws :
        \/ entries[w].lastAccess < entries[v].lastAccess
        \/ entries[w].lastAccess = entries[v].lastAccess /\ w <= v

LruVictim == Oldest(Way)

\* Every counter goes down until one is 0: by the smallest one, all at once.
RipMin == Min({entries[w].ripctr : w \in Way})

RipStep == RipMin
SrripVictim == Min({w \in Way : entries[w].ripctr = RipMin})

\* Mutant: the budget is not looked at.
WbtCandidates_All == Way

\* The lines that may leave without exceeding the write-back budget.
WbtCandidates == {w \in Way : ~entries[w].dirty \/ wbInEpoch < LruWbTth}
WbtVictim == IF WbtCandidates = {} THEN LruVictim ELSE Oldest(WbtCandidates)

Victims ==
    CASE Invalid # {} -> {Min(Invalid)}
      [] Invalid = {} /\ replPolicy = "LRU" -> {LruVictim}
      [] Invalid = {} /\ replPolicy = "RND" -> Way
      [] Invalid = {} /\ replPolicy = "SRRIP" -> {SrripVictim}
      [] Invalid = {} /\ replPolicy = "LRU_WBT" -> {WbtVictim}

-----------------------------------------------------------------------------
\* The line l is read and becomes the youngest; those in gone leave.
Touch(l, gone) ==
    LET stay == Present \ (gone \cup {l})
    IN  older' = (older \cap (stay \X stay)) \cup (stay \X {l})

\* mcache_access, a hit.
Hit(l) ==
    /\ Holding(l) # {} /\ count < MaxAccesses
    /\ count' = count + 1
    /\ entries' = [w \in Way |->
          IF w \in Holding(l)
          THEN [entries[w] EXCEPT !.lastAccess = count + 1, !.ripctr = RipMax]
          ELSE entries[w]]
    /\ Touch(l, {})
    /\ UNCHANGED <<replPolicy, evictedDirty, wbInEpoch, cycle>>

\* Mutant: the new line keeps the dirty bit of the old one.
Filled_KeepsDirty(w, l) ==
    [entries[w] EXCEPT !.valid = TRUE, !.tag = l, !.ripctr = RipInit,
                       !.lastAccess = count + 1]

Filled(w, l) == [valid |-> TRUE, dirty |-> FALSE, tag |-> l, ripctr |-> RipInit,
                 lastAccess |-> count + 1]

\* mcache_access, a miss, and mcache_install.  The line that leaves is reported
\* if it is dirty; a full set ages (SRRIP) and pays (LRU_WBT) for its victim.
Miss(l) ==
    /\ Holding(l) = {} /\ count < MaxAccesses
    /\ \E w \in Victims :
       LET full == Invalid = {}
           aged == [v \in Way |-> IF full /\ replPolicy = "SRRIP"
                                  THEN [entries[v] EXCEPT !.ripctr = @ - RipStep]
                                  ELSE entries[v]]
           wb == entries[w].valid /\ entries[w].dirty
       IN  /\ entries' = [aged EXCEPT ![w] = Filled(w, l)]
           /\ evictedDirty' = IF wb THEN {entries[w].tag} ELSE {}
           /\ wbInEpoch' = wbInEpoch
                + (IF full /\ wb /\ replPolicy = "LRU_WBT" THEN 1 ELSE 0)
           /\ Touch(l, IF full THEN {entries[w].tag} ELSE {})
    /\ count' = count + 1
    /\ UNCHANGED <<replPolicy, cycle>>

\* mcache_mark_dirty; a write to a line that is not there is dropped.
MarkDirty(l) ==
    /\ entries' = [w \in Way |-> IF w \in Holding(l)
                                 THEN [entries[w] EXCEPT !.dirty = TRUE]
                                 ELSE entries[w]]
    /\ UNCHANGED <<replPolicy, count, evictedDirty, wbInEpoch, cycle, older>>

\* cycle & 2047 == 0, which C reads as cycle & (2047 == 0).
StartsEpoch ==
    LET bit == IF EpochLen - 1 = 0 THEN 1 ELSE 0 IN (cycle % 2) * bit # 0

Tick ==
    /\ wbInEpoch' = IF StartsEpoch THEN 0 ELSE wbInEpoch
    /\ cycle' = (cycle + 1) % EpochLen
    /\ UNCHANGED <<replPolicy, entries, count, evictedDirty, older>>

Next ==
    \/ \E l \in Line : Hit(l) \/ Miss(l) \/ MarkDirty(l)
    \/ Tick

Spec == Init /\ [][Next]_vars

-----------------------------------------------------------------------------
Dirty == {l \in Line : \E w \in Holding(l) : entries[w].dirty}

TypeOK ==
    /\ replPolicy \in ReplPolicies
    /\ entries \in [Way -> [valid : BOOLEAN, dirty : BOOLEAN, tag : Line \cup {0},
                            ripctr : 0 .. RipMax, lastAccess : 0 .. MaxAccesses]]
    /\ count \in 0 .. MaxAccesses
    /\ evictedDirty \in SUBSET Line
    /\ wbInEpoch \in Nat
    /\ cycle \in 0 .. EpochLen - 1

\* Under LRU the line leaves that was read least recently; neither writes nor
\* write-backs make a line younger.  LRU_WBT differs in one case: when the epoch's
\* budget of write-backs is spent it spares dirty lines and takes a younger clean
\* one, and it exceeds the budget only in a set without a clean line.
VictimFollowsPolicy ==
    [][/\ replPolicy \in {"LRU", "LRU_WBT"} =>
            \A l \in Present \ Present', m \in Present :
               <<m, l>> \in older =>
                  /\ replPolicy = "LRU_WBT" /\ wbInEpoch >= LruWbTth
                  /\ m \in Dirty /\ l \notin Dirty
       /\ wbInEpoch' > wbInEpoch /\ wbInEpoch >= LruWbTth
            => Present \subseteq Dirty]_vars

\* The set keeps the promise of a write-back cache, whichever policy it uses.
Store == INSTANCE LineStore WITH
            present <- Present, written <- Dirty, handedBack <- evictedDirty
KeepsLines == Store!StoreSpec
=============================================================================

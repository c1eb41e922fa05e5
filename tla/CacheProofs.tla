----------------------------- MODULE CacheProofs -----------------------------
(***************************************************************************)
(* Proofs, for every associativity, set of lines and replacement policy,   *)
(* that a set of the last-level cache keeps the promise of LineStore and   *)
(* that its victim is the one the policy asks for.                         *)
(***************************************************************************)
EXTENDS Cache, FiniteSetTheorems, FunctionTheorems, TLAPS

Entry == [valid : BOOLEAN, dirty : BOOLEAN, tag : Line \cup {0},
          ripctr : 0 .. RipMax, lastAccess : 0 .. MaxAccesses]

\* No line is in two ways, a valid way holds a line of the set, and the
\* counters last_access tell which of two lines was read less recently.
OneWayPerLine ==
    \A v, w \in Way : entries[v].valid /\ entries[w].valid
                         /\ entries[v].tag = entries[w].tag => v = w
ValidWaysHoldLines == \A w \in Way : entries[w].valid => entries[w].tag \in Line
AccessesInOrder ==
    /\ \A w \in Way : entries[w].lastAccess <= count
    /\ \A v, w \in Way :
          /\ entries[v].valid /\ entries[w].valid
          /\ <<entries[v].tag, entries[w].tag>> \in older
          => entries[v].lastAccess < entries[w].lastAccess

CacheInv == TypeOK /\ OneWayPerLine /\ ValidWaysHoldLines /\ AccessesInOrder

-----------------------------------------------------------------------------
(* Minima, and the victims defined by them.                                *)

\* A set of naturals has a least element.  The sets 0 .. n of its elements n
\* are finite sets, among which there is a minimal one.
LEMMA LeastNat ==
    ASSUME NEW S \in SUBSET Nat, S # {}
    PROVE  \E n \in S : \A m \in S : n <= m
<1> DEFINE R == StrictSubsetOrdering(Nat)
           Below == {T \in FiniteSubsetsOf(Nat) : \E n \in S : T = 0 .. n}
<1>1. IsWellFoundedOn(R, FiniteSubsetsOf(Nat))
  BY FS_StrictSubsetOrderingWellFounded
<1>2. \A n \in S : 0 .. n \in Below
  BY FS_Interval DEF FiniteSubsetsOf
<1>3. Below # {} /\ Below \subseteq FiniteSubsetsOf(Nat)
  BY <1>2
<1>4. PICK T \in Below : \A U \in Below : <<U, T>> \notin R
  <2> HIDE DEF Below, R
  <2> QED BY <1>1, <1>3, WFMin
<1>5. PICK n \in S : T = 0 .. n
  BY <1>4
<1>6. ASSUME NEW m \in S, m < n PROVE FALSE
  <2>1. 0 .. m \in Below
    BY <1>2
  <2>2. 0 .. m \subseteq 0 .. n /\ 0 .. m # 0 .. n
    BY <1>6
  <2>3. <<0 .. m, T>> \in R
    BY <1>5, <2>2 DEF StrictSubsetOrdering
  <2> QED BY <1>4, <2>1, <2>3
<1> QED BY <1>5, <1>6

LEMMA MinOfNats ==
    ASSUME NEW S \in SUBSET Nat, S # {}
    PROVE  Min(S) \in S /\ \A m \in S : Min(S) <= m
BY LeastNat DEF Min

\* The scan of mcache_find_victim_lru finds a way that was accessed no later
\* than any other candidate.
LEMMA OldestIsOldest ==
    ASSUME TypeOK, NEW ws \in SUBSET Way, ws # {}
    PROVE  /\ Oldest(ws) \in ws
           /\ \A v \in ws : entries[Oldest(ws)].lastAccess <= entries[v].lastAccess
<1> DEFINE At == {entries[w].lastAccess : w \in ws}
           first == {w \in ws : entries[w].lastAccess = Min(At)}
<1>0. /\ \A w \in Way : w \in Nat /\ entries[w].lastAccess \in Nat
      /\ At \subseteq Nat /\ At # {}
  <2>1. MaxAccesses \in Nat
    BY CacheConstants
  <2>2. \A w \in Way : w \in Nat /\ entries[w].lastAccess \in 0 .. MaxAccesses
    BY DEF TypeOK, Way
  <2>3. \A w \in Way : entries[w].lastAccess \in Nat
    BY <2>1, <2>2
  <2> QED BY <2>2, <2>3
<1>1. Min(At) \in At /\ \A n \in At : Min(At) <= n
  <2> HIDE DEF At
  <2> QED BY <1>0, MinOfNats
<1>2. first \subseteq Nat /\ first # {}
  BY <1>0, <1>1
<1>3. Min(first) \in first /\ \A n \in first : Min(first) <= n
  <2> HIDE DEF first
  <2> QED BY <1>2, MinOfNats
<1>4. \E w \in ws : \A v \in ws :
          \/ entries[w].lastAccess < entries[v].lastAccess
          \/ entries[w].lastAccess = entries[v].lastAccess /\ w <= v
  <2>1. Min(first) \in ws /\ entries[Min(first)].lastAccess = Min(At)
    BY <1>3
  <2>2. ASSUME NEW v \in ws
        PROVE  \/ entries[Min(first)].lastAccess < entries[v].lastAccess
               \/ entries[Min(first)].lastAccess = entries[v].lastAccess
                    /\ Min(first) <= v
    <3>1. Min(At) <= entries[v].lastAccess /\ Min(At) \in Nat
      BY <1>0, <1>1
    <3>2. entries[v].lastAccess = Min(At) => Min(first) <= v
      BY <1>3
    <3>3. entries[v].lastAccess \in Nat
      BY <1>0
    <3> HIDE DEF At, first
    <3> QED BY <2>1, <3>1, <3>2, <3>3
  <2> HIDE DEF At, first
  <2> QED BY <2>1, <2>2
<1>5. /\ Oldest(ws) \in ws
      /\ \A v \in ws :
          \/ entries[Oldest(ws)].lastAccess < entries[v].lastAccess
          \/ entries[Oldest(ws)].lastAccess = entries[v].lastAccess /\ Oldest(ws) <= v
  BY <1>4, Zenon DEF Oldest
<1> QED BY <1>0, <1>5

\* Every policy names a way, and an invalid one as long as there is one.
LEMMA VictimsAreWays ==
    ASSUME TypeOK, NEW w \in Victims
    PROVE  w \in Way /\ (Invalid # {} => w \in Invalid)
<1>0. Invalid \subseteq Nat /\ Invalid \subseteq Way /\ Way # {} /\ 1 \in Way
  BY CacheConstants DEF Invalid, Way
<1>1. CASE Invalid # {}
  <2>1. Victims = {Min(Invalid)}
    BY <1>1 DEF Victims
  <2>2. Min(Invalid) \in Invalid
    BY <1>0, <1>1, MinOfNats
  <2> QED BY <1>0, <2>1, <2>2
<1>2. CASE Invalid = {}
  <2>1. CASE replPolicy = "LRU"
    <3>1. LruVictim \in Way
      BY <1>0, OldestIsOldest DEF LruVictim
    <3> QED BY <1>2, <2>1, <3>1 DEF Victims
  <2>2. CASE replPolicy = "RND"
    BY <1>2, <2>2 DEF Victims
  <2>3. CASE replPolicy = "SRRIP"
    <3> DEFINE least == {v \in Way : entries[v].ripctr = RipMin}
    <3>1. {entries[v].ripctr : v \in Way} \subseteq Nat
      BY DEF TypeOK, RipMax
    <3>2. RipMin \in {entries[v].ripctr : v \in Way}
      <4> DEFINE S == {entries[v].ripctr : v \in Way}
      <4>1. S \subseteq Nat /\ S # {}
        BY <1>0, <3>1
      <4>2. Min(S) \in S
        <5> HIDE DEF S
        <5> QED BY <4>1, MinOfNats
      <4> QED BY <4>2 DEF RipMin
    <3>3. least \subseteq Nat /\ least # {}
      BY <3>2 DEF Way
    <3>4. Min(least) \in least
      <4> HIDE DEF least
      <4> QED BY <3>3, MinOfNats
    <3>5. SrripVictim \in Way
      BY <3>4 DEF SrripVictim
    <3> QED BY <1>2, <2>3, <3>5 DEF Victims
  <2>4. CASE replPolicy = "LRU_WBT"
    <3>1. WbtVictim \in Way
      <4>1. WbtCandidates \in SUBSET Way
        BY DEF WbtCandidates
      <4>2. LruVictim \in Way
        BY <1>0, OldestIsOldest DEF LruVictim
      <4>3. WbtCandidates # {} => Oldest(WbtCandidates) \in WbtCandidates
        BY <4>1, OldestIsOldest
      <4> QED BY <4>1, <4>2, <4>3 DEF WbtVictim
    <3> QED BY <1>2, <2>4, <3>1 DEF Victims
  <2>5. replPolicy \in {"LRU", "RND", "SRRIP", "LRU_WBT"}
    BY CacheConstants DEF TypeOK
  <2> QED BY <1>2, <2>1, <2>2, <2>3, <2>4, <2>5
<1> QED BY <1>1, <1>2

-----------------------------------------------------------------------------
(* CacheInv is an inductive invariant.                                     *)

LEMMA InitEstablishes == Init => CacheInv
<1> SUFFICES ASSUME Init PROVE CacheInv
  OBVIOUS
<1>1. MaxAccesses \in Nat /\ EpochLen \in Nat \ {0}
  BY CacheConstants
<1>2. TypeOK
  BY <1>1 DEF Init, TypeOK, RipMax
<1>3. OneWayPerLine /\ ValidWaysHoldLines /\ AccessesInOrder
  BY DEF Init, OneWayPerLine, ValidWaysHoldLines, AccessesInOrder
<1> QED BY <1>2, <1>3 DEF CacheInv

\* A hit leaves the lines where they are, and makes one of them the youngest.
LEMMA HitKeeps ==
    ASSUME CacheInv, NEW l \in Line, Hit(l)
    PROVE  /\ CacheInv'
           /\ \A w \in Way : /\ entries'[w].valid = entries[w].valid
                             /\ entries'[w].dirty = entries[w].dirty
                             /\ entries'[w].tag = entries[w].tag
<1>0. TypeOK /\ OneWayPerLine /\ ValidWaysHoldLines /\ AccessesInOrder
  BY DEF CacheInv
<1>1. /\ count \in 0 .. MaxAccesses /\ count < MaxAccesses /\ MaxAccesses \in Nat
      /\ count' = count + 1
  BY <1>0, CacheConstants DEF TypeOK, Hit
<1>2. /\ \A w \in Way :
            /\ entries'[w] \in Entry
            /\ entries'[w].valid = entries[w].valid /\ entries'[w].tag = entries[w].tag
            /\ entries'[w].dirty = entries[w].dirty
            /\ entries'[w].lastAccess = IF w \in Holding(l) THEN count + 1
                                                            ELSE entries[w].lastAccess
      /\ entries' \in [Way -> Entry]
  <2>1. /\ \A w \in Way : entries[w] \in Entry
        /\ count + 1 \in 0 .. MaxAccesses /\ RipMax \in 0 .. RipMax
    BY <1>0, <1>1 DEF TypeOK, RipMax, Entry
  <2>2. /\ DOMAIN entries' = Way
        /\ \A w \in Way : entries'[w] = IF w \in Holding(l)
             THEN [entries[w] EXCEPT !.lastAccess = count + 1, !.ripctr = RipMax]
             ELSE entries[w]
        /\ entries' = [w \in Way |-> entries'[w]]
    BY DEF Hit
  <2>3. ASSUME NEW w \in Way
        PROVE  /\ entries'[w] \in Entry
               /\ entries'[w].valid = entries[w].valid
               /\ entries'[w].tag = entries[w].tag
               /\ entries'[w].dirty = entries[w].dirty
               /\ entries'[w].lastAccess = IF w \in Holding(l) THEN count + 1
                                          ELSE entries[w].lastAccess
    <3>1. CASE w \in Holding(l)
      <4>1. entries'[w] = [entries[w] EXCEPT !.lastAccess = count + 1, !.ripctr = RipMax]
        BY <2>2, <3>1
      <4> QED BY <2>1, <3>1, <4>1 DEF Entry
    <3>2. CASE w \notin Holding(l)
      BY <2>1, <2>2, <3>2
    <3> QED BY <3>1, <3>2
  <2>4. \A w \in Way : entries'[w] \in Entry
    BY <2>1, <2>2, <2>3
  <2>5. entries' \in [Way -> Entry]
    <3> QED BY <2>2, <2>4
  <2> QED BY <2>1, <2>2, <2>3, <2>4, <2>5
<1>3. TypeOK'
  <2>1. UNCHANGED <<replPolicy, evictedDirty, wbInEpoch, cycle>>
    BY DEF Hit
  <2> QED BY <1>0, <1>1, <1>2, <2>1 DEF TypeOK, Entry
<1>4. OneWayPerLine' /\ ValidWaysHoldLines'
  BY <1>0, <1>2 DEF OneWayPerLine, ValidWaysHoldLines
<1>5. AccessesInOrder'
  <2>1. \A w \in Way : entries[w].lastAccess \in Nat /\ entries[w].lastAccess <= count
    BY <1>0, <1>1 DEF TypeOK, AccessesInOrder
  <2>2. \A w \in Way : entries'[w].lastAccess <= count'
    BY <1>1, <1>2, <2>1
  <2>3. ASSUME NEW v \in Way, NEW w \in Way, entries'[v].valid, entries'[w].valid,
               <<entries'[v].tag, entries'[w].tag>> \in older'
        PROVE  entries'[v].lastAccess < entries'[w].lastAccess
    <3>1. /\ entries[v].tag # l
          /\ \/ <<entries[v].tag, entries[w].tag>> \in older /\ entries[w].tag # l
             \/ entries[w].tag = l
      <4>1. older' = (older \cap ((Present \ {l}) \X (Present \ {l})))
                       \cup ((Present \ {l}) \X {l})
        BY DEF Hit, Touch
      <4> QED BY <1>2, <2>3, <4>1
    <3>2. entries'[v].lastAccess = entries[v].lastAccess
      BY <1>2, <3>1 DEF Holding
    <3>3. CASE entries[w].tag = l
      <4>1. entries'[w].lastAccess = count + 1
        BY <1>2, <2>3, <3>3 DEF Holding
      <4> QED BY <1>1, <2>1, <3>2, <4>1
    <3>4. CASE <<entries[v].tag, entries[w].tag>> \in older /\ entries[w].tag # l
      <4>1. entries'[w].lastAccess = entries[w].lastAccess
        BY <1>2, <3>4 DEF Holding
      <4> QED BY <1>0, <1>2, <2>3, <3>2, <3>4, <4>1 DEF AccessesInOrder
    <3> QED BY <3>1, <3>3, <3>4
  <2> QED BY <2>2, <2>3 DEF AccessesInOrder
<1> QED BY <1>2, <1>3, <1>4, <1>5 DEF CacheInv

\* What a miss on l makes of the set when w is the victim.
MissOutcome(w, l) ==
    /\ w \in Way /\ (Invalid # {} => w \in Invalid)
    /\ entries'[w] = Filled(w, l)
    /\ \A v \in Way \ {w} :
          /\ entries'[v] \in Entry
          /\ entries'[v].valid = entries[v].valid
          /\ entries'[v].dirty = entries[v].dirty
          /\ entries'[v].tag = entries[v].tag
          /\ entries'[v].lastAccess = entries[v].lastAccess
    /\ entries' = [v \in Way |-> entries'[v]]
    /\ evictedDirty' = IF entries[w].valid /\ entries[w].dirty
                       THEN {entries[w].tag} ELSE {}
    /\ wbInEpoch' = wbInEpoch
         + (IF Invalid = {} /\ (entries[w].valid /\ entries[w].dirty)
               /\ replPolicy = "LRU_WBT" THEN 1 ELSE 0)
    /\ Touch(l, IF Invalid = {} THEN {entries[w].tag} ELSE {})

LEMMA MissShape ==
    ASSUME TypeOK, NEW l \in Line, Miss(l)
    PROVE  \E w \in Victims : MissOutcome(w, l)
<1> DEFINE aged == [v \in Way |-> IF Invalid = {} /\ replPolicy = "SRRIP"
                                  THEN [entries[v] EXCEPT !.ripctr = @ - RipStep]
                                  ELSE entries[v]]
<1>1. PICK w \in Victims :
         /\ entries' = [aged EXCEPT ![w] = Filled(w, l)]
         /\ evictedDirty' = IF entries[w].valid /\ entries[w].dirty
                            THEN {entries[w].tag} ELSE {}
         /\ wbInEpoch' = wbInEpoch
              + (IF Invalid = {} /\ (entries[w].valid /\ entries[w].dirty)
                    /\ replPolicy = "LRU_WBT" THEN 1 ELSE 0)
         /\ Touch(l, IF Invalid = {} THEN {entries[w].tag} ELSE {})
  BY DEF Miss
<1>2. w \in Way /\ (Invalid # {} => w \in Invalid)
  BY VictimsAreWays
<1>3. \A v \in Way : entries[v] \in Entry
  BY DEF TypeOK, Entry
<1>4. ASSUME NEW v \in Way
      PROVE  entries[v].ripctr - RipMin \in 0 .. RipMax
  <2> DEFINE S == {entries[u].ripctr : u \in Way}
  <2>1. S \subseteq Nat /\ S # {} /\ \A n \in S : n <= RipMax
    BY <1>3 DEF RipMax, Entry
  <2>2. Min(S) \in S /\ \A n \in S : Min(S) <= n
    <3> HIDE DEF S
    <3> QED BY <2>1, MinOfNats
  <2>3. entries[v].ripctr \in S /\ RipMin = Min(S)
    BY DEF RipMin
  <2> HIDE DEF S
  <2>4. Min(S) \in Nat /\ entries[v].ripctr \in Nat
    BY <2>1, <2>2, <2>3
  <2> QED BY <2>1, <2>2, <2>3, <2>4 DEF RipMax
<1>5. \A v \in Way : /\ aged[v] \in Entry
                      /\ aged[v].valid = entries[v].valid
                      /\ aged[v].dirty = entries[v].dirty
                      /\ aged[v].tag = entries[v].tag
                      /\ aged[v].lastAccess = entries[v].lastAccess
  BY <1>3, <1>4 DEF RipStep, Entry
<1>6. \A v \in Way \ {w} : entries'[v] = aged[v]
  BY <1>1
<1>7. entries'[w] = Filled(w, l) /\ entries' = [v \in Way |-> entries'[v]]
  BY <1>1, <1>2
<1> HIDE DEF aged
<1>8. MissOutcome(w, l)
  BY <1>1, <1>2, <1>5, <1>6, <1>7 DEF MissOutcome
<1> QED BY <1>8

\* A miss replaces the victim by the new line, which no other way holds.
LEMMA MissKeeps == ASSUME CacheInv, NEW l \in Line, Miss(l) PROVE CacheInv'
<1>0. TypeOK /\ OneWayPerLine /\ ValidWaysHoldLines /\ AccessesInOrder
  BY DEF CacheInv
<1>1. /\ count \in 0 .. MaxAccesses /\ count < MaxAccesses /\ MaxAccesses \in Nat
      /\ count' = count + 1 /\ Holding(l) = {}
      /\ UNCHANGED <<replPolicy, cycle>>
  BY <1>0, CacheConstants DEF TypeOK, Miss
<1>2. PICK u \in Victims : MissOutcome(u, l)
  BY <1>0, MissShape
<1> USE DEF MissOutcome
<1>3. /\ u \in Way /\ entries'[u] \in Entry /\ entries'[u].valid
      /\ entries'[u].tag = l /\ entries'[u].lastAccess = count + 1
  BY <1>1, <1>2 DEF Filled, RipInit, RipMax, Entry
<1>4. \A v \in Way \ {u} : entries'[v].valid => entries'[v].tag # l
  BY <1>1, <1>2 DEF Holding
<1>5. TypeOK'
  <2>1. \A v \in Way : entries'[v] \in Entry
    BY <1>2, <1>3
  <2>2. entries' \in [Way -> Entry]
    BY <1>2, <2>1
  <2>3. evictedDirty' \in SUBSET Line
    BY <1>0, <1>2 DEF ValidWaysHoldLines
  <2>4. wbInEpoch' \in Nat
    BY <1>0, <1>2 DEF TypeOK
  <2> QED BY <1>0, <1>1, <2>2, <2>3, <2>4 DEF TypeOK, Entry
<1>6. OneWayPerLine'
  BY <1>0, <1>2, <1>3, <1>4 DEF OneWayPerLine
<1>7. ValidWaysHoldLines'
  BY <1>0, <1>2, <1>3 DEF ValidWaysHoldLines
<1>8. AccessesInOrder'
  <2>1. \A v \in Way : entries[v].lastAccess \in Nat /\ entries[v].lastAccess <= count
    BY <1>0, <1>1 DEF TypeOK, AccessesInOrder
  <2>2. \A v \in Way : entries'[v].lastAccess <= count'
    BY <1>1, <1>2, <1>3, <2>1
  <2>3. ASSUME NEW v \in Way, NEW w \in Way, entries'[v].valid, entries'[w].valid,
               <<entries'[v].tag, entries'[w].tag>> \in older'
        PROVE  entries'[v].lastAccess < entries'[w].lastAccess
    <3>1. /\ entries'[v].tag # l
          /\ \/ <<entries'[v].tag, entries'[w].tag>> \in older /\ entries'[w].tag # l
             \/ entries'[w].tag = l
      <4> DEFINE stay == Present \ ((IF Invalid = {} THEN {entries[u].tag} ELSE {})
                                       \cup {l})
      <4>1. older' = (older \cap (stay \X stay)) \cup (stay \X {l})
        BY <1>2 DEF Touch
      <4>2. l \notin stay
        OBVIOUS
      <4> HIDE DEF stay
      <4> QED BY <2>3, <4>1, <4>2
    <3>2. v # u /\ entries'[v].lastAccess = entries[v].lastAccess
      BY <1>2, <1>3, <3>1
    <3>3. CASE entries'[w].tag = l
      <4>1. w = u
        BY <1>4, <2>3, <3>3
      <4> QED BY <1>1, <1>3, <2>1, <3>2, <4>1
    <3>4. CASE <<entries'[v].tag, entries'[w].tag>> \in older /\ entries'[w].tag # l
      <4>1. w # u
        BY <1>3, <3>4
      <4> QED BY <1>0, <1>2, <2>3, <3>2, <3>4, <4>1 DEF AccessesInOrder
    <3> QED BY <3>1, <3>3, <3>4
  <2> QED BY <2>2, <2>3 DEF AccessesInOrder
<1> QED BY <1>5, <1>6, <1>7, <1>8 DEF CacheInv

\* A write changes nothing but the dirty bit of a way.
LEMMA MarkDirtyKeeps ==
    ASSUME CacheInv, NEW l \in Line, MarkDirty(l)
    PROVE  /\ CacheInv'
           /\ \A w \in Way :
                 /\ entries'[w].valid = entries[w].valid
                 /\ entries'[w].tag = entries[w].tag
                 /\ entries'[w].dirty = IF w \in Holding(l) THEN TRUE
                                        ELSE entries[w].dirty
<1>0. TypeOK /\ OneWayPerLine /\ ValidWaysHoldLines /\ AccessesInOrder
  BY DEF CacheInv
<1>1. UNCHANGED <<replPolicy, count, evictedDirty, wbInEpoch, cycle, older>>
  BY DEF MarkDirty
<1>2. ASSUME NEW w \in Way
      PROVE  /\ entries'[w] \in Entry
             /\ entries'[w].valid = entries[w].valid
             /\ entries'[w].tag = entries[w].tag
             /\ entries'[w].dirty = IF w \in Holding(l) THEN TRUE ELSE entries[w].dirty
             /\ entries'[w].lastAccess = entries[w].lastAccess
  <2>1. /\ entries[w] \in Entry
        /\ entries'[w] = IF w \in Holding(l) THEN [entries[w] EXCEPT !.dirty = TRUE]
                         ELSE entries[w]
    BY <1>0 DEF MarkDirty, TypeOK, Entry
  <2>2. CASE w \in Holding(l)
    <3>1. entries'[w] = [entries[w] EXCEPT !.dirty = TRUE]
      BY <2>1, <2>2
    <3> QED BY <2>1, <2>2, <3>1 DEF Entry
  <2>3. CASE w \notin Holding(l)
    BY <2>1, <2>3
  <2> QED BY <2>2, <2>3
<1>3. TypeOK'
  <2>1. entries' = [w \in Way |-> entries'[w]]
    BY DEF MarkDirty
  <2>2. entries' \in [Way -> Entry]
    <3> QED BY <1>2, <2>1
  <2> QED BY <1>0, <1>1, <2>2 DEF TypeOK, Entry
<1>4. OneWayPerLine' /\ ValidWaysHoldLines' /\ AccessesInOrder'
  BY <1>0, <1>1, <1>2 DEF OneWayPerLine, ValidWaysHoldLines, AccessesInOrder
<1> QED BY <1>2, <1>3, <1>4 DEF CacheInv

LEMMA TickKeeps == ASSUME CacheInv, Tick \/ UNCHANGED vars PROVE CacheInv'
<1>0. TypeOK /\ OneWayPerLine /\ ValidWaysHoldLines /\ AccessesInOrder
  BY DEF CacheInv
<1>1. UNCHANGED <<replPolicy, entries, count, evictedDirty, older>>
  BY DEF Tick, vars
<1>2. EpochLen \in Nat \ {0}
  BY CacheConstants
<1>3. cycle' \in 0 .. EpochLen - 1 /\ wbInEpoch' \in Nat
  BY <1>0, <1>2 DEF Tick, vars, TypeOK
<1>4. TypeOK'
  BY <1>0, <1>1, <1>3 DEF TypeOK
<1>5. OneWayPerLine' /\ ValidWaysHoldLines' /\ AccessesInOrder'
  BY <1>0, <1>1 DEF OneWayPerLine, ValidWaysHoldLines, AccessesInOrder
<1> QED BY <1>4, <1>5 DEF CacheInv

LEMMA NextKeeps == CacheInv /\ [Next]_vars => CacheInv'
BY HitKeeps, MissKeeps, MarkDirtyKeeps, TickKeeps DEF Next

\* Every state of a set: types, one way for a line, and last_access in the order
\* of the reads.
THEOREM CacheInvariant == Spec => []CacheInv
BY InitEstablishes, NextKeeps, PTL DEF Spec

-----------------------------------------------------------------------------
(* What the ways say about the lines that are present.                     *)

\* Different lines are in different ways, so there is a way for each.
LEMMA PresentFits ==
    CacheInv => IsFiniteSet(Present) /\ Cardinality(Present) <= Assoc
<1> SUFFICES ASSUME CacheInv
             PROVE  IsFiniteSet(Present) /\ Cardinality(Present) <= Assoc
  OBVIOUS
<1> DEFINE f == [l \in Present |-> CHOOSE w \in Way : w \in Holding(l)]
<1>0. Assoc \in Nat \ {0}
  BY CacheConstants
<1>1. IsFiniteSet(Way) /\ Cardinality(Way) = Assoc
  BY <1>0, FS_Interval DEF Way
<1>2. \A l \in Present : f[l] \in Way /\ entries[f[l]].tag = l
  BY DEF Present, Holding
<1>3. f \in [Present -> Way]
  BY <1>2
<1>4. \A l, m \in Present : f[l] = f[m] => l = m
  BY <1>2
<1>5. f \in Injection(Present, Way)
  <2> HIDE DEF f
  <2> QED BY <1>3, <1>4, Fun_IsInj
<1> HIDE DEF f
<1> QED BY <1>1, <1>5, FS_Injection

\* A set without an invalid way holds Assoc lines.
LEMMA FullSet ==
    ASSUME CacheInv, Invalid = {}
    PROVE  /\ Cardinality(Present) = Assoc
           /\ \A w \in Way : entries[w].valid /\ entries[w].tag \in Present
<1> DEFINE f == [w \in Way |-> entries[w].tag]
<1>0. Assoc \in Nat \ {0} /\ OneWayPerLine /\ ValidWaysHoldLines
  BY CacheConstants DEF CacheInv
<1>1. IsFiniteSet(Way) /\ Cardinality(Way) = Assoc
  BY <1>0, FS_Interval DEF Way
<1>2. \A w \in Way : entries[w].valid /\ entries[w].tag \in Present
  BY <1>0 DEF Invalid, ValidWaysHoldLines, Present, Holding
<1>3. f \in [Way -> Present]
  BY <1>2
<1>4. \A v, w \in Way : f[v] = f[w] => v = w
  BY <1>0, <1>2 DEF OneWayPerLine
<1>5. f \in Injection(Way, Present)
  <2> HIDE DEF f
  <2> QED BY <1>3, <1>4, Fun_IsInj
<1>6. Cardinality(Way) <= Cardinality(Present) /\ IsFiniteSet(Present)
  <2> HIDE DEF f
  <2> QED BY <1>5, PresentFits, FS_Injection
<1>7. Cardinality(Present) \in Nat
  BY <1>6, FS_CardinalityType
<1> QED BY <1>0, <1>1, <1>2, <1>6, <1>7, PresentFits

\* A miss on l lets the victim's line go, if the set is full, and brings in l.
LEMMA MissChangesLines ==
    ASSUME CacheInv, NEW l \in Line, Miss(l), NEW w, MissOutcome(w, l)
    PROVE  LET gone == IF Invalid = {} THEN {entries[w].tag} ELSE {} IN
           /\ l \notin Present
           /\ gone \subseteq Present
           /\ Present' = (Present \ gone) \cup {l}
           /\ Dirty' = Dirty \ gone
           /\ evictedDirty' = gone \cap Dirty
<1> DEFINE gone == IF Invalid = {} THEN {entries[w].tag} ELSE {}
<1>0. TypeOK /\ OneWayPerLine /\ ValidWaysHoldLines
  BY DEF CacheInv
<1>1. /\ w \in Way /\ (Invalid # {} => ~entries[w].valid)
      /\ entries'[w].valid /\ ~entries'[w].dirty /\ entries'[w].tag = l
      /\ \A v \in Way \ {w} :
            /\ entries'[v].valid = entries[v].valid
            /\ entries'[v].dirty = entries[v].dirty
            /\ entries'[v].tag = entries[v].tag
      /\ evictedDirty' = IF entries[w].valid /\ entries[w].dirty
                         THEN {entries[w].tag} ELSE {}
  BY DEF MissOutcome, Filled, Invalid
<1>2. l \notin Present /\ \A v \in Way : entries[v].valid => entries[v].tag # l
  BY DEF Miss, Present, Holding
<1>3. gone \subseteq Present
  BY <1>1, FullSet
<1>4. ASSUME NEW m \in Line
      PROVE  m \in Present' <=> m \in (Present \ gone) \cup {l}
  <2>1. CASE m = l
    BY <1>1, <2>1 DEF Present, Holding
  <2>2. CASE m # l
    <3>1. m \in Present' <=> \E v \in Way \ {w} : entries[v].valid /\ entries[v].tag = m
      BY <1>1, <2>2 DEF Present, Holding
    <3>2. CASE Invalid = {}
      BY <1>0, <1>1, <2>2, <3>1, <3>2, FullSet DEF Present, Holding, OneWayPerLine
    <3>3. CASE Invalid # {}
      BY <1>1, <2>2, <3>1, <3>3 DEF Present, Holding
    <3> QED BY <3>2, <3>3
  <2> QED BY <2>1, <2>2
<1>5. Present' = (Present \ gone) \cup {l}
  <2>1. Present \subseteq Line /\ Present' \subseteq Line
    BY DEF Present
  <2> HIDE DEF gone
  <2> QED BY <1>4, <2>1
<1>6. ASSUME NEW m \in Line
      PROVE  m \in Dirty' <=> m \in Dirty \ gone
  <2>1. CASE m = l
    <3>1. m \notin Dirty' /\ m \notin Dirty
      BY <1>1, <1>2, <2>1 DEF Dirty, Holding
    <3> QED BY <3>1
  <2>2. CASE m # l
    <3>1. m \in Dirty' <=> \E v \in Way \ {w} : /\ entries[v].valid /\ entries[v].dirty
                                                /\ entries[v].tag = m
      BY <1>1, <2>2 DEF Dirty, Holding
    <3>2. CASE Invalid = {}
      BY <1>0, <1>1, <2>2, <3>1, <3>2, FullSet DEF Dirty, Holding, OneWayPerLine
    <3>3. CASE Invalid # {}
      BY <1>1, <2>2, <3>1, <3>3 DEF Dirty, Holding
    <3> QED BY <3>2, <3>3
  <2> QED BY <2>1, <2>2
<1>7. Dirty' = Dirty \ gone
  <2>1. Dirty \subseteq Line /\ Dirty' \subseteq Line
    BY DEF Dirty
  <2> HIDE DEF gone
  <2> QED BY <1>6, <2>1
<1>8. evictedDirty' = gone \cap Dirty
  <2>1. CASE Invalid = {}
    <3>1. entries[w].valid /\ gone = {entries[w].tag} /\ entries[w].tag \in Line
      BY <1>0, <1>1, <2>1, FullSet DEF ValidWaysHoldLines
    <3>2. entries[w].tag \in Dirty <=> entries[w].dirty
      BY <1>0, <1>1, <3>1 DEF Dirty, Holding, OneWayPerLine
    <3> QED BY <1>1, <3>1, <3>2
  <2>2. CASE Invalid # {}
    BY <1>1, <2>2
  <2> QED BY <2>1, <2>2
<1> QED BY <1>2, <1>3, <1>5, <1>7, <1>8

\* A set of the cache is a store of lines: it never holds a line twice or more
\* lines than ways, drops a line only from a full set, and hands back every line
\* that was written, under each policy.
THEOREM ImplementsLineStore == Spec => KeepsLines
<1>1. Init => Store!StoreInit
  BY DEF Init, Store!StoreInit, Present, Dirty, Holding
<1>2. CacheInv /\ [Next]_vars => [Store!StoreNext]_(Store!storeVars)
  <2> SUFFICES ASSUME CacheInv, [Next]_vars
               PROVE  Store!StoreNext \/ UNCHANGED Store!storeVars
    OBVIOUS
  <2>1. CASE UNCHANGED <<Present, Dirty, evictedDirty>>
    BY <2>1 DEF Store!storeVars
  <2>2. ASSUME NEW l \in Line, Hit(l) PROVE UNCHANGED <<Present, Dirty, evictedDirty>>
    <3>1. \A w \in Way : /\ entries'[w].valid = entries[w].valid
                         /\ entries'[w].dirty = entries[w].dirty
                         /\ entries'[w].tag = entries[w].tag
      BY <2>2, HitKeeps
    <3>2. evictedDirty' = evictedDirty
      BY <2>2 DEF Hit
    <3>3. \A m : Holding(m)' = Holding(m)
      BY <3>1 DEF Holding
    <3>4. Present' = Present
      BY <3>3 DEF Present
    <3>5. Dirty' = Dirty
      BY <3>1, <3>3 DEF Dirty, Holding
    <3> QED BY <3>2, <3>4, <3>5
  <2>3. ASSUME NEW l \in Line, Miss(l)
        PROVE  \E victims \in SUBSET Present : Store!StoreFill(l, victims)
    <3>1. PICK w \in Victims : MissOutcome(w, l)
      BY <2>3, MissShape DEF CacheInv
    <3> DEFINE gone == IF Invalid = {} THEN {entries[w].tag} ELSE {}
    <3>2. /\ l \notin Present /\ gone \subseteq Present
          /\ Present' = (Present \ gone) \cup {l}
          /\ Dirty' = Dirty \ gone /\ evictedDirty' = gone \cap Dirty
      BY <2>3, <3>1, MissChangesLines
    <3>3. Cardinality(gone) <= 1
      <4>1. gone = {} \/ gone = {entries[w].tag}
        OBVIOUS
      <4>2. Cardinality({}) = 0 /\ Cardinality({entries[w].tag}) = 1
        BY FS_EmptySet, FS_Singleton
      <4> QED BY <4>1, <4>2
    <3>4. gone # {} => Cardinality(Present) = Assoc
      BY FullSet
    <3>5. CacheInv'
      BY <2>3, MissKeeps
    <3>6. Cardinality(Present') <= Assoc
      <4>1. (CacheInv => IsFiniteSet(Present) /\ Cardinality(Present) <= Assoc)'
        BY PresentFits, PTL
      <4> QED BY <3>5, <4>1
    <3> HIDE DEF gone
    <3>7. Store!StoreFill(l, gone)
      <4>1. \A S : Store!Cardinality(S) = Cardinality(S)
        BY DEF Cardinality, Store!Cardinality
      <4> QED BY <3>2, <3>3, <3>4, <3>6, <4>1 DEF Store!StoreFill
    <3> QED BY <3>2, <3>7
  <2>4. ASSUME NEW l \in Line, MarkDirty(l)
        PROVE  Store!StoreWrite(l) \/ UNCHANGED <<Present, Dirty, evictedDirty>>
    <3>1. /\ \A w \in Way : /\ entries'[w].valid = entries[w].valid
                            /\ entries'[w].tag = entries[w].tag
                            /\ entries'[w].dirty = IF w \in Holding(l) THEN TRUE
                                                   ELSE entries[w].dirty
          /\ evictedDirty' = evictedDirty
      BY <2>4, MarkDirtyKeeps DEF MarkDirty
    <3>2. \A m : Holding(m)' = Holding(m)
      BY <3>1 DEF Holding
    <3>3. Present' = Present
      BY <3>2 DEF Present
    <3>4. CASE Holding(l) = {}
      <4>1. Dirty' = Dirty
        BY <3>1, <3>2, <3>4 DEF Dirty, Holding
      <4> QED BY <3>1, <3>3, <4>1
    <3>5. CASE Holding(l) # {}
      <4>1. l \in Present
        BY <3>5 DEF Present
      <4>2. Dirty' = Dirty \cup {l}
        BY <3>1, <3>2, <3>5 DEF Dirty, Holding
      <4> QED BY <3>1, <3>3, <4>1, <4>2 DEF Store!StoreWrite
    <3> QED BY <3>4, <3>5
  <2>5. CASE Tick \/ UNCHANGED vars
    <3>1. UNCHANGED <<entries, evictedDirty>>
      BY <2>5 DEF Tick, vars
    <3> QED BY <2>1, <3>1 DEF Present, Dirty, Holding
  <2> QED BY <2>1, <2>2, <2>3, <2>4, <2>5 DEF Next, Store!StoreNext
<1> QED BY <1>1, <1>2, CacheInvariant, PTL DEF Spec, KeepsLines, Store!StoreSpec

-----------------------------------------------------------------------------
(* The victim.                                                             *)

\* A way that LRU or LRU_WBT prefers to one accessed before it is clean, the
\* other dirty, and the budget spent; LRU_WBT pays beyond the budget only if no
\* way is clean.
LEMMA VictimOfPolicy ==
    ASSUME TypeOK, NEW w \in Victims, Invalid = {}, replPolicy \in {"LRU", "LRU_WBT"}
    PROVE  /\ \A v \in Way : entries[v].lastAccess < entries[w].lastAccess =>
                 /\ replPolicy = "LRU_WBT" /\ ~(wbInEpoch < LruWbTth)
                 /\ entries[v].dirty /\ ~entries[w].dirty
           /\ /\ replPolicy = "LRU_WBT" /\ ~(wbInEpoch < LruWbTth) /\ entries[w].dirty
              => \A v \in Way : entries[v].dirty
<1>0. /\ Way # {} /\ Way \in SUBSET Way /\ WbtCandidates \in SUBSET Way
      /\ \A v \in Way : entries[v].lastAccess \in Nat
  <2>1. MaxAccesses \in Nat /\ Assoc \in Nat \ {0}
    BY CacheConstants
  <2>2. 1 \in Way /\ WbtCandidates \in SUBSET Way
    BY <2>1 DEF Way, WbtCandidates
  <2>3. \A v \in Way : entries[v].lastAccess \in 0 .. MaxAccesses
    BY DEF TypeOK
  <2> QED BY <2>1, <2>2, <2>3
<1>1. CASE w = LruVictim
  <2>1. w \in Way /\ \A v \in Way : entries[w].lastAccess <= entries[v].lastAccess
    BY <1>0, <1>1, OldestIsOldest DEF LruVictim
  <2>2. \A v \in Way : ~(entries[v].lastAccess < entries[w].lastAccess)
    BY <1>0, <2>1
  <2>3. CASE replPolicy = "LRU"
    BY <2>2, <2>3
  <2>4. CASE replPolicy = "LRU_WBT" /\ WbtCandidates = {}
    BY <2>2, <2>4 DEF WbtCandidates
  <2>5. CASE replPolicy = "LRU_WBT" /\ WbtCandidates # {}
    <3>1. w = WbtVictim
      BY <2>5 DEF Victims
    <3>2. w = Oldest(WbtCandidates)
      BY <2>5, <3>1 DEF WbtVictim
    <3>3. w \in WbtCandidates
      BY <1>0, <2>5, <3>2, OldestIsOldest
    <3> QED BY <2>2, <3>3 DEF WbtCandidates
  <2> QED BY <2>3, <2>4, <2>5
<1>2. CASE w # LruVictim
  <2>1. replPolicy = "LRU_WBT" /\ w = WbtVictim /\ WbtCandidates # {}
    <3>1. replPolicy = "LRU" => w = LruVictim
      BY DEF Victims
    <3>2. replPolicy = "LRU_WBT" => w = WbtVictim
      BY DEF Victims
    <3> QED BY <1>2, <3>1, <3>2 DEF WbtVictim
  <2>2. /\ w \in WbtCandidates
        /\ \A v \in WbtCandidates : entries[w].lastAccess <= entries[v].lastAccess
    BY <1>0, <2>1, OldestIsOldest DEF WbtVictim
  <2>3. w \in Way
    BY <1>0, <2>2
  <2>4. ASSUME NEW v \in Way, entries[v].lastAccess < entries[w].lastAccess
        PROVE  ~(wbInEpoch < LruWbTth) /\ entries[v].dirty /\ ~entries[w].dirty
    <3>1. v \notin WbtCandidates
      <4>1. entries[v].lastAccess \in Nat /\ entries[w].lastAccess \in Nat
        BY <1>0, <2>3
      <4> QED BY <2>2, <2>4, <4>1
    <3> QED BY <2>2, <3>1 DEF WbtCandidates
  <2>5. ~(wbInEpoch < LruWbTth) => ~entries[w].dirty
    BY <2>2 DEF WbtCandidates
  <2> QED BY <2>1, <2>4, <2>5
<1> QED BY <1>1, <1>2

\* LRU evicts the line that was read least recently; LRU_WBT spares dirty lines
\* once the budget of the epoch is spent, as long as there is a clean one.
THEOREM Victim == Spec => VictimFollowsPolicy
<1> DEFINE Follows ==
      /\ replPolicy \in {"LRU", "LRU_WBT"} =>
           \A l \in Present \ Present', m \in Present :
              <<m, l>> \in older =>
                 /\ replPolicy = "LRU_WBT" /\ wbInEpoch >= LruWbTth
                 /\ m \in Dirty /\ l \notin Dirty
      /\ wbInEpoch' > wbInEpoch /\ wbInEpoch >= LruWbTth
           => Present \subseteq Dirty
<1>1. ASSUME CacheInv, [Next]_vars PROVE Follows
  <2>0. /\ TypeOK /\ OneWayPerLine /\ AccessesInOrder
        /\ wbInEpoch \in Nat /\ LruWbTth \in Nat
    BY <1>1, CacheConstants DEF CacheInv, TypeOK
  <2>1. CASE Present \subseteq Present' /\ ~(wbInEpoch' > wbInEpoch)
    BY <2>1
  <2>2. ASSUME NEW l \in Line, Hit(l) \/ MarkDirty(l)
        PROVE  Present \subseteq Present' /\ ~(wbInEpoch' > wbInEpoch)
    <3>1. \A w \in Way : entries'[w].valid = entries[w].valid
                           /\ entries'[w].tag = entries[w].tag
      BY <1>1, <2>2, HitKeeps, MarkDirtyKeeps
    <3>2. wbInEpoch' = wbInEpoch
      BY <2>2 DEF Hit, MarkDirty
    <3> QED BY <2>0, <3>1, <3>2 DEF Present, Holding
  <2>3. CASE Tick \/ UNCHANGED vars
    <3>1. entries' = entries /\ wbInEpoch' \in {0, wbInEpoch}
      BY <2>3 DEF Tick, vars
    <3>2. Present' = Present
      BY <3>1 DEF Present, Holding
    <3> QED BY <2>0, <2>1, <3>1, <3>2
  <2>4. ASSUME NEW l \in Line, Miss(l) PROVE Follows
    <3>1. PICK w \in Victims : MissOutcome(w, l)
      BY <2>0, <2>4, MissShape
    <3>2. CASE Invalid # {}
      <4>1. Present \subseteq Present'
        BY <1>1, <2>4, <3>1, <3>2, MissChangesLines
      <4>2. wbInEpoch' = wbInEpoch
        BY <2>0, <3>1, <3>2 DEF MissOutcome
      <4> QED BY <2>0, <2>1, <4>1, <4>2
    <3>3. CASE Invalid = {}
      <4>1. /\ w \in Way /\ \A v \in Way : entries[v].valid
            /\ Present' = (Present \ {entries[w].tag}) \cup {l}
        BY <1>1, <2>4, <3>1, <3>3, MissChangesLines, FullSet DEF MissOutcome
      <4>2. ASSUME replPolicy \in {"LRU", "LRU_WBT"},
                   NEW k \in Present \ Present', NEW m \in Present, <<m, k>> \in older
            PROVE  /\ replPolicy = "LRU_WBT" /\ ~(wbInEpoch < LruWbTth)
                   /\ m \in Dirty /\ k \notin Dirty
        <5>1. k = entries[w].tag
          BY <4>1
        <5>2. PICK v \in Way : entries[v].tag = m
          BY DEF Present, Holding
        <5>3. entries[v].lastAccess < entries[w].lastAccess
          BY <2>0, <4>1, <4>2, <5>1, <5>2 DEF AccessesInOrder
        <5>4. /\ replPolicy = "LRU_WBT" /\ ~(wbInEpoch < LruWbTth)
              /\ entries[v].dirty /\ ~entries[w].dirty
          BY <2>0, <3>3, <4>2, <5>3, VictimOfPolicy
        <5>5. m \in Dirty
          BY <4>1, <5>2, <5>4 DEF Dirty, Present, Holding
        <5>6. k \notin Dirty
          BY <2>0, <4>1, <5>1, <5>4 DEF Dirty, Holding, OneWayPerLine
        <5> QED BY <5>4, <5>5, <5>6
      <4>3. ASSUME wbInEpoch' > wbInEpoch, ~(wbInEpoch < LruWbTth)
            PROVE  Present \subseteq Dirty
        <5>1. replPolicy = "LRU_WBT" /\ entries[w].dirty
          BY <2>0, <3>1, <4>3 DEF MissOutcome
        <5>2. \A v \in Way : entries[v].dirty
          BY <2>0, <3>3, <4>3, <5>1, VictimOfPolicy
        <5> QED BY <5>2 DEF Present, Dirty, Holding
      <4> QED BY <2>0, <4>2, <4>3
    <3> QED BY <3>2, <3>3
  <2> HIDE DEF Follows
  <2>5. Present \subseteq Present' /\ ~(wbInEpoch' > wbInEpoch) => Follows
    BY <2>1
  <2> QED BY <1>1, <2>2, <2>3, <2>4, <2>5 DEF Next
<1>2. CacheInv /\ [Next]_vars => [Follows]_vars
  BY <1>1
<1> QED BY <1>2, CacheInvariant, PTL DEF Spec, VictimFollowsPolicy
=============================================================================

---------------------------- MODULE LegacyProofs ----------------------------
(***************************************************************************)
(* Proofs, for every configuration of the simulator's own memory, that a   *)
(* registered miss has exactly one read on its way, and that RFMs keep up  *)
(* with the activations if a bank rests for long enough.                   *)
(***************************************************************************)
EXTENDS Legacy, SequenceTheorems, FiniteSetTheorems, TLAPS

Slot == [line : Line, wb : BOOLEAN, ready : Nat]

Types ==
    /\ config \in Configs
    /\ queue \in [Bank -> Seq(Request)]
    /\ bus \in [Bank -> SUBSET Slot]
    /\ row \in [Bank -> {NoRow} \cup {RowOf(l) : l \in Line}]
    /\ open \in [Bank -> Int] /\ sleep \in [Bank -> Nat \cup {-1}]
    /\ busy \in [Bank -> BOOLEAN] /\ raa \in [Bank -> Nat]
    /\ clk \in Bank
    /\ sinceBus \in 0 .. tRDRD /\ sinceRef \in 0 .. tREFI + 1
    /\ rfmSb \subseteq 0 .. Groups - 1 /\ refsbPtr \in 0 .. Groups - 1
    /\ mshr \subseteq Line

LEMMA ConfigFacts ==
    ASSUME config \in Configs
    PROVE  /\ Banks \in Nat /\ Banks > 1 /\ GroupSize \in Nat /\ GroupSize > 0
           /\ Banks % GroupSize = 0
           /\ RefMode = "SB" => GroupSize * GroupSize <= Banks
           /\ Bank \subseteq Nat
           /\ Line \subseteq Nat /\ config.lines \subseteq Line
           /\ config.writeBacks \subseteq Line
           /\ QueueSize \in Nat /\ QueueSize > 0
           /\ tPRE \in Nat /\ tRAS \in Nat /\ tRDRD \in Nat /\ tRDRD > 0
           /\ tRFC \in Nat /\ tREFI \in Nat /\ MaxOpen \in Nat /\ MaxOpen >= tRAS
           /\ RfmTh \in Nat /\ RfmTh > 0 /\ config.rfmRefTh \in Nat
           /\ config.tACT \in Nat /\ config.tDRFM \in Nat
           /\ config.pageTimeout \in BOOLEAN
           /\ RfmPolicy \in {"none", "SB", "AB"} /\ RefMode \in {"none", "SB", "AB"}
           /\ OpenMax \in Nat
<1> DEFINE c == config
<1>1. c \in Config /\ c.banks > 1 /\ c.banks % c.groupSize = 0 /\ c.maxOpen >= c.tRAS
      /\ (c.refMode = "SB" => c.groupSize * c.groupSize <= c.banks)
  BY LegacyConstants
<1> QED BY <1>1 DEF Config, Banks, Bank, GroupSize, Line, QueueSize, tPRE, tRAS, tRDRD,
             tRFC, tREFI, MaxOpen, RfmTh, RfmPolicy, RefMode, OpenMax

\* The operators of the configuration keep their values.
LEMMA SteadyConfig ==
    ASSUME config' = config
    PROVE  /\ Banks' = Banks /\ Bank' = Bank /\ GroupSize' = GroupSize
           /\ Groups' = Groups /\ Line' = Line /\ QueueSize' = QueueSize
           /\ tRDRD' = tRDRD /\ tREFI' = tREFI /\ RfmTh' = RfmTh
           /\ RfmPolicy' = RfmPolicy /\ Request' = Request /\ Slot' = Slot
           /\ RefMode' = RefMode /\ OpenMax' = OpenMax
           /\ \A l : RowOf(l)' = RowOf(l)
           /\ \A l : BankOf(l)' = BankOf(l)
           /\ \A g : BanksOf(g)' = BanksOf(g)
BY DEF Banks, Bank, GroupSize, Groups, Line, QueueSize, tRDRD, tREFI, RfmTh, RfmPolicy,
       Request, Slot, RefMode, OpenMax, MaxOpen, tRAS, tPRE, RowOf, BankOf, BanksOf

LEMMA Division ==
    ASSUME NEW n \in Nat, NEW d \in Nat, d > 0
    PROVE  /\ n \div d \in Nat /\ n % d \in 0 .. d - 1
           /\ n = d * (n \div d) + (n % d)
<1>1. n \div d \in Int /\ n % d \in 0 .. d - 1
  OBVIOUS
<1>2. n = d * (n \div d) + (n % d)
  OBVIOUS
<1>3. n \div d >= 0
  BY <1>1, <1>2
<1> QED BY <1>1, <1>2, <1>3

LEMMA Times ==
    ASSUME NEW d \in Nat, NEW p \in Nat, NEW q \in Nat, d > 0, d * p < d * q
    PROVE  p < q
OBVIOUS

\* A bank is in one of the groups.
LEMMA GroupOf ==
    ASSUME config \in Configs, NEW b \in Bank
    PROVE  /\ Groups \in Nat /\ Groups > 0 /\ GroupSize * Groups = Banks
           /\ b \div GroupSize \in 0 .. Groups - 1
           /\ b \in BanksOf(b \div GroupSize)
<1>1. /\ Banks \in Nat /\ Banks > 1 /\ GroupSize \in Nat /\ GroupSize > 0
      /\ Banks % GroupSize = 0 /\ b \in Nat /\ b < Banks
  BY ConfigFacts DEF Bank
<1>2. Groups \in Nat /\ GroupSize * Groups = Banks
  BY <1>1, Division DEF Groups
<1>3. /\ b \div GroupSize \in Nat /\ b % GroupSize \in 0 .. GroupSize - 1
      /\ b = GroupSize * (b \div GroupSize) + (b % GroupSize)
  BY <1>1, Division
<1>4. GroupSize * (b \div GroupSize) \in Nat
  BY <1>1, <1>3
<1>5. GroupSize * (b \div GroupSize) < GroupSize * Groups
  BY <1>1, <1>2, <1>3, <1>4
<1>6. b \div GroupSize < Groups
  BY <1>1, <1>2, <1>3, <1>5, Times
<1> QED BY <1>2, <1>3, <1>6 DEF BanksOf

-----------------------------------------------------------------------------
(* Least and largest numbers.                                              *)

\* A set of naturals has a least element.  The sets 0 .. n of its elements n
\* are finite sets, among which there is a minimal one.
LEMMA LeastNat ==
    ASSUME NEW S \in SUBSET Nat, S # {}
    PROVE  \E n \in S : \A m \in S : n <= m
<1> DEFINE R == StrictSubsetOrdering(Nat)
           Below == {T \in FiniteSubsetsOf(Nat) : \E n \in S : T = 0 .. n}
<1>1. IsWellFoundedOn(R, FiniteSubsetsOf(Nat))
  BY FS_StrictSubsetOrderingWellFounded
<1>2. \A n \in S : 0 .. n \in Below
  BY FS_Interval DEF FiniteSubsetsOf
<1>3. Below # {} /\ Below \subseteq FiniteSubsetsOf(Nat)
  BY <1>2
<1>4. PICK T \in Below : \A U \in Below : <<U, T>> \notin R
  <2> HIDE DEF Below, R
  <2> QED BY <1>1, <1>3, WFMin
<1>5. PICK n \in S : T = 0 .. n
  BY <1>4
<1>6. ASSUME NEW m \in S, m < n PROVE FALSE
  <2>1. 0 .. m \in Below
    BY <1>2
  <2>2. 0 .. m \subseteq 0 .. n /\ 0 .. m # 0 .. n
    BY <1>6
  <2>3. <<0 .. m, T>> \in R
    BY <1>5, <2>2 DEF StrictSubsetOrdering
  <2> QED BY <1>4, <2>1, <2>3
<1> QED BY <1>5, <1>6

\* A set that contains 0 and with each number below n the next one contains n.
LEMMA Induction ==
    ASSUME NEW n \in Nat, NEW P, 0 \in P,
           \A i \in 0 .. n - 1 : i \in P => i + 1 \in P
    PROVE  \A i \in 0 .. n : i \in P
<1> DEFINE S == {i \in 0 .. n : i \notin P}
<1>1. SUFFICES ASSUME S # {} PROVE FALSE
  OBVIOUS
<1>2. S \in SUBSET Nat
  OBVIOUS
<1>3. PICK m \in S : \A i \in S : m <= i
  <2> HIDE DEF S
  <2> QED BY <1>1, <1>2, LeastNat
<1>4. m # 0 /\ m - 1 \in 0 .. n - 1 /\ m - 1 \notin S
  BY <1>3
<1> QED BY <1>4

LEMMA MinOfNats ==
    ASSUME NEW S \in SUBSET Nat, S # {}
    PROVE  Min(S) \in S /\ \A m \in S : Min(S) <= m
BY LeastNat DEF Min

\* A function on the banks is bounded, by induction on the banks.
LEMMA BoundOnBanks ==
    ASSUME config \in Configs, NEW f \in [Bank -> Int]
    PROVE  \E u \in Nat : \A b \in Bank : f[b] <= u
<1>1. Banks \in Nat /\ Banks > 1
  BY ConfigFacts
<1> DEFINE P == {n \in Nat : \E u \in Nat : \A b \in Bank : b < n => f[b] <= u}
<1>2. 0 \in P
  BY <1>1 DEF Bank
<1>3. ASSUME NEW i \in 0 .. Banks - 1, i \in P
      PROVE  i + 1 \in P
  <2>1. PICK u \in Nat : \A b \in Bank : b < i => f[b] <= u
    BY <1>3
  <2>2. i \in Bank /\ f[i] \in Int
    BY <1>1 DEF Bank
  <2>3. PICK v \in Nat : u <= v /\ f[i] <= v
    <3>1. CASE f[i] <= u
      BY <3>1
    <3>2. CASE f[i] > u
      BY <3>2, <2>2
    <3> QED BY <3>1, <3>2, <2>2
  <2>4. ASSUME NEW b \in Bank, b < i + 1
        PROVE  f[b] <= v
    <3>1. b \in Int /\ f[b] \in Int
      BY <1>1 DEF Bank
    <3>2. b = i \/ b < i
      BY <2>4, <3>1
    <3> QED BY <3>1, <3>2, <2>1, <2>3
  <2> QED BY <2>4, <1>1
<1>4. Banks \in P
  <2> HIDE DEF P
  <2> QED BY <1>1, <1>2, <1>3, Induction
<1>5. \A b \in Bank : b < Banks
  BY <1>1 DEF Bank
<1> QED BY <1>4, <1>5

LEMMA WaitForAll ==
    ASSUME config \in Configs, NEW s \in [Bank -> Int], NEW bs \in SUBSET Bank
    PROVE  WaitFor(s, bs) \in Nat /\ \A b \in bs : s[b] <= WaitFor(s, bs)
<1> DEFINE V == {0} \cup {s[b] : b \in bs}
           U == {u \in Nat : \A x \in V : x <= u}
<1>1. V \subseteq Int
  OBVIOUS
<1>2. U # {}
  BY BoundOnBanks
<1>3. PICK u \in U : \A v \in U : u <= v
  <2>1. U \in SUBSET Nat
    OBVIOUS
  <2> HIDE DEF U
  <2> QED BY <1>2, <2>1, LeastNat
<1>4. u \in V
  <2> SUFFICES ASSUME u \notin V PROVE FALSE
    OBVIOUS
  <2>1. u - 1 \in U
    <3>1. u > 0
      BY <1>3
    <3>2. \A x \in V : x <= u /\ x # u
      BY <1>3
    <3> QED BY <1>1, <3>1, <3>2
  <2> QED BY <1>3, <2>1
<1>5. \E x \in V : \A y \in V : x >= y
  BY <1>1, <1>3, <1>4
<1>6. WaitFor(s, bs) \in V /\ \A y \in V : WaitFor(s, bs) >= y
  <2>1. WaitFor(s, bs) = CHOOSE x \in V : \A y \in V : x >= y
    BY DEF WaitFor, Max
  <2> HIDE DEF V
  <2> QED BY <1>5, <2>1
<1> QED BY <1>1, <1>6

\* What is left of a sequence without its element i.
LEMMA RemoveAtShape ==
    ASSUME NEW S, NEW s \in Seq(S), NEW i \in 1 .. Len(s)
    PROVE  /\ RemoveAt(s, i) \in Seq(S)
           /\ Len(RemoveAt(s, i)) = Len(s) - 1
           /\ \A j \in 1 .. Len(s) - 1 :
                 RemoveAt(s, i)[j] = IF j < i THEN s[j] ELSE s[j + 1]
<1> DEFINE f == SubSeq(s, 1, i - 1)
           g == SubSeq(s, i + 1, Len(s))
<1>1. f \in Seq(S) /\ Len(f) = i - 1 /\ \A j \in 1 .. i - 1 : f[j] = s[j]
  OBVIOUS
<1>2. /\ g \in Seq(S)
      /\ Len(g) = Len(s) - i
      /\ \A j \in 1 .. Len(s) - i : g[j] = s[j + i]
  OBVIOUS
<1>3. RemoveAt(s, i) = f \o g
  BY DEF RemoveAt
<1>4. /\ f \o g \in Seq(S)
      /\ Len(f \o g) = Len(s) - 1
      /\ \A j \in 1 .. Len(s) - 1 :
            (f \o g)[j] = IF j < i THEN f[j] ELSE g[j - (i - 1)]
  <2> HIDE DEF f, g
  <2>1. /\ f \o g \in Seq(S)
        /\ Len(f \o g) = Len(f) + Len(g)
        /\ \A j \in 1 .. Len(f) + Len(g) :
              (f \o g)[j] = IF j <= Len(f) THEN f[j] ELSE g[j - Len(f)]
    BY <1>1, <1>2, ConcatProperties
  <2> QED BY <1>1, <1>2, <2>1
<1>5. ASSUME NEW j \in 1 .. Len(s) - 1
      PROVE  (f \o g)[j] = IF j < i THEN s[j] ELSE s[j + 1]
  <2>1. CASE j < i
    <3> HIDE DEF f, g
    <3> QED BY <2>1, <1>1, <1>4
  <2>2. CASE ~(j < i)
    <3>1. j - (i - 1) \in 1 .. Len(s) - i
      BY <2>2
    <3>2. g[j - (i - 1)] = s[j + 1]
      <4> HIDE DEF f, g
      <4> QED BY <3>1, <1>2
    <3> HIDE DEF f, g
    <3> QED BY <2>2, <3>2, <1>4
  <2> QED BY <2>1, <2>2
<1> QED BY <1>3, <1>4, <1>5

-----------------------------------------------------------------------------
(* What a cycle does, bank by bank.                                        *)

\* The request a bank takes up, the banks that open a row for theirs, those that
\* ask for an RFM, and the groups whose RFM is due.
Served(b) == queue[b][Schedule(b)]
Opening == {b \in Serving(Moving) : ~RowHit(b, RowOf(Served(b).line))}
Wants == IF RfmPolicy = "none" THEN {} ELSE {b \in Opening : WantsRfm(b)}
Due == IF RfmPolicy = "SB" THEN rfmSb \cup {b \div GroupSize : b \in Wants} ELSE {}
Counted(b) == IF RfmPolicy # "none" /\ b \in Opening THEN raa[b] + 1 ELSE raa[b]

\* The bank that gets the bus has something ready to be moved.
LEMMA MovingIsReady ==
    ASSUME Types
    PROVE  Moving \subseteq ReadySlots /\ Moving \subseteq Bank
<1>1. ReadySlots \subseteq Bank
  BY DEF ReadySlots
<1>2. CASE ReadySlots = {}
  BY <1>2 DEF Moving
<1>3. CASE ReadySlots # {}
  <2> DEFINE D == {Distance(b) : b \in ReadySlots}
  <2>1. ASSUME NEW b \in Bank PROVE Distance(b) \in Nat
    <3>1. Banks \in Nat /\ Banks > 0 /\ b \in Int /\ clk \in Int
      BY ConfigFacts DEF Types, Bank
    <3>2. b - clk \in Int
      BY <3>1
    <3> QED BY <3>1, <3>2 DEF Distance
  <2>2. D \in SUBSET Nat /\ D # {}
    BY <1>1, <1>3, <2>1
  <2>3. PICK d \in D : \A e \in D : d <= e
    <3> HIDE DEF D
    <3> QED BY <2>2, LeastNat
  <2>4. \E b \in ReadySlots : \A c \in ReadySlots : Distance(b) <= Distance(c)
    BY <2>3
  <2>5. FirstSlot \in ReadySlots
    BY <2>4 DEF FirstSlot
  <2> QED BY <1>1, <2>5 DEF Moving
<1> QED BY <1>2, <1>3

\* A bank takes up a request of its queue.
LEMMA ServedIsQueued ==
    ASSUME Types, NEW b \in Serving(Moving)
    PROVE  /\ b \in Bank /\ queue[b] \in Seq(Request)
           /\ Schedule(b) \in 1 .. Len(queue[b])
           /\ Served(b) \in Request
           /\ Served(b).line \in Line /\ Served(b).wb \in BOOLEAN
<1>1. b \in Bank /\ queue[b] \in Seq(Request) /\ queue[b] # << >>
  BY DEF Types, Serving
<1>2. Len(queue[b]) \in Nat /\ Len(queue[b]) > 0 /\ DOMAIN queue[b] = 1 .. Len(queue[b])
  BY <1>1
<1>3. Schedule(b) \in 1 .. Len(queue[b])
  <2> DEFINE hits == {i \in DOMAIN queue[b] : /\ ~queue[b][i].wb
                                              /\ RowOf(queue[b][i].line) = row[b]}
  <2>1. hits \in SUBSET Nat /\ hits \subseteq 1 .. Len(queue[b])
    BY <1>2
  <2>2. hits # {} => Min(hits) \in hits
    <3> HIDE DEF hits
    <3> QED BY <2>1, MinOfNats
  <2>3. Schedule(b) = IF Sched = "FRFCFS" /\ row[b] # NoRow /\ hits # {}
                      THEN Min(hits) ELSE 1
    BY DEF Schedule
  <2>4. Schedule(b) = 1 \/ (hits # {} /\ Schedule(b) = Min(hits))
    BY <2>3
  <2>5. CASE Schedule(b) = 1
    BY <1>2, <2>5
  <2>6. CASE hits # {} /\ Schedule(b) = Min(hits)
    <3> HIDE DEF hits
    <3>1. Schedule(b) \in hits
      BY <2>2, <2>6
    <3> QED BY <2>1, <3>1
  <2> QED BY <2>4, <2>5, <2>6
<1>4. Served(b) \in Request
  BY <1>1, <1>3 DEF Served
<1> QED BY <1>1, <1>3, <1>4 DEF Request

LEMMA RowOfLine ==
    ASSUME config \in Configs, NEW l \in Line
    PROVE  RowOf(l) \in Nat /\ BankOf(l) \in Bank
<1>1. Banks \in Nat /\ Banks > 0 /\ l \in Nat
  BY ConfigFacts
<1> QED BY <1>1, Division DEF RowOf, BankOf, Bank

\* To open a row takes at least tACT.
LEMMA Delays ==
    ASSUME Types, NEW b \in Bank, NEW r
    PROVE  /\ OpenDelay(b, r) \in Nat /\ ActDelay(b, r) \in Nat
           /\ ~RowHit(b, r) => ActDelay(b, r) >= config.tACT
<1>1. /\ open[b] \in Int /\ tRAS \in Nat /\ tPRE \in Nat /\ MaxOpen \in Nat
      /\ config.tACT \in Nat
  BY ConfigFacts DEF Types
<1>2. RasDelay(b) \in Nat
  BY <1>1 DEF RasDelay
<1>3. Precharging(b) \in Nat
  BY <1>1 DEF Precharging
<1> QED BY <1>1, <1>2, <1>3 DEF OpenDelay, ActDelay

\* The part of the state that Refreshing works on.
Rows == {NoRow} \cup {RowOf(l) : l \in Line}
Banking == [row : [Bank -> Rows], busy : [Bank -> BOOLEAN],
            sleep : [Bank -> Nat \cup {-1}], raa : [Bank -> Nat]]

\* A refresh or an RFM wakes no bank and adds nothing to a count, and the banks
\* it is for sleep for its time.
LEMMA RefreshingBanks ==
    ASSUME config \in Configs, NEW x \in Banking, NEW bs \in SUBSET Bank,
           NEW t \in Nat, NEW d \in Nat
    PROVE  LET y == Refreshing(x, bs, t, d) IN
           /\ y \in Banking
           /\ \A b \in Bank : /\ x.busy[b] => y.busy[b]
                              /\ x.sleep[b] <= y.sleep[b]
                              /\ y.raa[b] <= x.raa[b]
           /\ \A b \in bs : /\ y.busy[b] /\ y.sleep[b] >= t
                            /\ y.raa[b] = Reduced(x.raa[b], d)
           /\ \A b \in Bank \ bs : y.raa[b] = x.raa[b]
<1> DEFINE y == Refreshing(x, bs, t, d)
           until == WaitFor(x.sleep, bs) + t
           z == [row  |-> [b \in Bank |-> IF b \in bs THEN NoRow ELSE x.row[b]],
                 busy |-> [b \in Bank |-> b \in bs \/ x.busy[b]],
                 sleep |-> [b \in Bank |-> IF b \in bs THEN until ELSE x.sleep[b]],
                 raa  |-> [b \in Bank |-> IF b \in bs THEN Reduced(x.raa[b], d)
                                          ELSE x.raa[b]]]
<1>0. /\ x.row \in [Bank -> Rows] /\ x.busy \in [Bank -> BOOLEAN]
      /\ x.sleep \in [Bank -> Nat \cup {-1}] /\ x.raa \in [Bank -> Nat]
  BY DEF Banking
<1>1. CASE bs = {}
  <2>1. y = x
    BY <1>1 DEF Refreshing
  <2>2. \A b \in Bank : x.sleep[b] \in Int /\ x.raa[b] \in Int
    BY <1>0
  <2> QED BY <1>1, <2>1, <2>2
<1>2. CASE bs # {}
  <2>1. y = z
    BY <1>2 DEF Refreshing
  <2>2. WaitFor(x.sleep, bs) \in Nat /\ \A b \in bs : x.sleep[b] <= WaitFor(x.sleep, bs)
    <3>1. x.sleep \in [Bank -> Int]
      BY <1>0
    <3> QED BY <3>1, WaitForAll
  <2>3. until \in Nat /\ until >= t /\ \A b \in bs : x.sleep[b] <= until
    BY <1>0, <2>2
  <2>4. \A n \in Nat : Reduced(n, d) \in Nat /\ Reduced(n, d) <= n
    BY DEF Reduced
  <2> HIDE DEF until
  <2>5. z \in Banking
    BY <1>0, <2>3, <2>4 DEF Banking, Rows
  <2>6. \A b \in Bank : (x.busy[b] => z.busy[b])
    BY <1>0
  <2>7. \A b \in Bank : x.sleep[b] <= z.sleep[b]
    BY <1>0, <2>3
  <2>8. \A b \in Bank : z.raa[b] <= x.raa[b]
    BY <1>0, <2>4
  <2>9. \A b \in bs : z.busy[b] /\ z.sleep[b] >= t /\ z.raa[b] = Reduced(x.raa[b], d)
    BY <1>0, <2>3
  <2>10. \A b \in Bank \ bs : z.raa[b] = x.raa[b]
    OBVIOUS
  <2> HIDE DEF z
  <2> QED BY <2>1, <2>5, <2>6, <2>7, <2>8, <2>9, <2>10
<1> QED BY <1>1, <1>2

\* The queues, the bus and the table of misses after a cycle.
LEMMA CycleQueues ==
    ASSUME Types, Cycle
    PROVE  /\ config' = config
           /\ queue' = [b \in Bank |-> IF b \in Serving(Moving)
                                       THEN RemoveAt(queue[b], Schedule(b)) ELSE queue[b]]
           /\ bus' = [b \in Bank |->
                        IF b \in Serving(Moving)
                        THEN {[line |-> Served(b).line, wb |-> Served(b).wb,
                               ready |-> Less(ActDelay(b, RowOf(Served(b).line)))]}
                        ELSE IF b \in Moving THEN {}
                        ELSE {[e EXCEPT !.ready = Less(@)] : e \in bus[b]}]
           /\ mshr' = mshr \ {e.line : e \in {f \in UNION {bus[b] : b \in Moving} : ~f.wb}}
           /\ clk' = (clk + 1) % Banks
<1>1. PICK drfm \in SUBSET Bank : CycleWith(drfm)
  BY DEF Cycle
<1> QED BY <1>1 DEF CycleWith, Served

\* The banks after a cycle.
LEMMA CycleBanks ==
    ASSUME Types, Cycle
    PROVE  /\ row' \in [Bank -> Rows] /\ busy' \in [Bank -> BOOLEAN]
           /\ sleep' \in [Bank -> Nat \cup {-1}] /\ raa' \in [Bank -> Nat]
           /\ \A b \in Bank :
                 /\ b \in Serving(Moving) \/ StillBusy(b, Moving) => busy'[b]
                 /\ raa'[b] <= Counted(b)
                 /\ b \notin Serving(Moving) => sleep'[b] >= Sleep(b, Moving) - 1
                 /\ b \in Opening => sleep'[b] >= config.tACT + tRDRD - 1
                 /\ RfmPolicy = "AB" /\ Wants # {} => raa'[b] <= Reduced(Counted(b), RfmTh)
                 /\ Due # {} /\ b \in BanksOf(Min(Due)) =>
                       /\ busy'[b] /\ sleep'[b] >= (tRFC \div 2) - 1
                       /\ raa'[b] <= Reduced(Counted(b), RfmTh)
           /\ rfmSb' = IF Due = {} THEN {} ELSE Due \ {Min(Due)}
<1>1. PICK drfm \in SUBSET Bank : CycleWith(drfm)
  BY DEF Cycle
<1> DEFINE moving == Moving
           serving == Serving(moving)
           pos    == [b \in serving |-> Schedule(b)]
           served == [b \in serving |-> queue[b][pos[b]]]
           to     == [b \in serving |-> RowOf(served[b].line)]
           delay  == [b \in serving |-> ActDelay(b, to[b])]
           opening == {b \in serving : ~RowHit(b, to[b])}
           closed == drfm \cap opening
           wants  == IF RfmPolicy = "none" THEN {} ELSE {b \in opening : WantsRfm(b)}
           sb     == IF RfmPolicy = "SB"
                     THEN rfmSb \cup {b \div GroupSize : b \in wants} ELSE {}
           r0 == [b \in Bank |-> IF b \in closed THEN NoRow
                                 ELSE IF b \in serving THEN to[b] ELSE row[b]]
           b0 == [b \in Bank |-> b \in serving \/ StillBusy(b, moving)]
           s0 == [b \in Bank |->
                    IF b \in closed THEN delay[b] + tRDRD + tPRE + config.tDRFM
                    ELSE IF b \in serving THEN delay[b] + tRDRD
                    ELSE Sleep(b, moving)]
           n0 == [b \in Bank |-> IF RfmPolicy # "none" /\ b \in opening
                                 THEN raa[b] + 1 ELSE raa[b]]
           x0 == [row |-> r0, busy |-> b0, sleep |-> s0, raa |-> n0]
           p1 == IF RfmPolicy = "AB" /\ wants # {} THEN Bank ELSE {}
           p2 == IF sb # {} THEN BanksOf(Min(sb)) ELSE {}
           half == tRFC \div 2
           x1 == Refreshing(x0, p1, half, RfmTh)
           x2 == Refreshing(x1, p2, half, RfmTh)
           x3 == Refreshing(x2, RefreshDue, tRFC, config.rfmRefTh)
<1>2. /\ row' = x3.row /\ busy' = x3.busy /\ raa' = x3.raa
      /\ sleep' = [b \in Bank |-> IF x3.sleep[b] >= 0 THEN x3.sleep[b] - 1 ELSE -1]
      /\ rfmSb' = IF sb = {} THEN {} ELSE sb \ {Min(sb)}
  BY <1>1 DEF CycleWith
<1>3. ASSUME NEW b \in serving
      PROVE  to[b] = RowOf(Served(b).line) /\ delay[b] = ActDelay(b, to[b])
  BY DEF Served
<1>4. opening = Opening
  BY <1>3 DEF Opening
<1>5. wants = Wants /\ sb = Due
  BY <1>4 DEF Wants, Due
<1>6. \A b \in Bank : n0[b] = Counted(b) /\ n0[b] \in Nat
  <2>1. \A b \in Bank : raa[b] \in Nat
    BY DEF Types
  <2> HIDE DEF opening
  <2> QED BY <1>4, <2>1 DEF Counted
<1>7. /\ tRDRD \in Nat /\ tPRE \in Nat /\ config.tDRFM \in Nat /\ config.tACT \in Nat
      /\ tRFC \in Nat /\ RfmTh \in Nat /\ config.rfmRefTh \in Nat
      /\ config \in Configs
  BY ConfigFacts DEF Types
<1>8. half \in Nat
  BY <1>7, Division
<1>9. ASSUME NEW b \in serving
      PROVE  /\ b \in Bank /\ to[b] \in Rows /\ delay[b] \in Nat
             /\ b \in opening => delay[b] >= config.tACT
  <2>1. b \in Bank /\ Served(b).line \in Line
    BY ServedIsQueued
  <2>2. to[b] = RowOf(Served(b).line) /\ delay[b] = ActDelay(b, to[b])
    BY <1>3
  <2>3. ActDelay(b, to[b]) \in Nat
        /\ (~RowHit(b, to[b]) => ActDelay(b, to[b]) >= config.tACT)
    <3> HIDE DEF to
    <3> QED BY <2>1, Delays
  <2>4. b \in opening => ~RowHit(b, to[b])
    OBVIOUS
  <2> HIDE DEF to, delay, opening
  <2> QED BY <2>1, <2>2, <2>3, <2>4 DEF Rows
<1>10. x0 \in Banking
  <2>1. r0 \in [Bank -> Rows]
    <3>1. row \in [Bank -> Rows] /\ NoRow \in Rows
      BY DEF Types, Rows
    <3> HIDE DEF to, closed, serving
    <3> QED BY <1>9, <3>1
  <2>2. b0 \in [Bank -> BOOLEAN]
    BY DEF StillBusy, Types
  <2>3. s0 \in [Bank -> Nat \cup {-1}]
    <3>1. \A b \in Bank : Sleep(b, moving) \in Nat \cup {-1}
      BY <1>7 DEF Sleep, Types
    <3>2. closed \subseteq serving
      OBVIOUS
    <3> HIDE DEF delay, closed, serving, moving
    <3> QED BY <1>7, <1>9, <3>1, <3>2
  <2>4. n0 \in [Bank -> Nat]
    BY <1>6
  <2> HIDE DEF r0, b0, s0, n0
  <2> QED BY <2>1, <2>2, <2>3, <2>4 DEF Banking
<1>11. \A b \in Bank : /\ b \in serving \/ StillBusy(b, moving) => x0.busy[b]
                       /\ b \notin serving => x0.sleep[b] = Sleep(b, moving)
                       /\ b \in opening => x0.sleep[b] >= config.tACT + tRDRD
                       /\ x0.raa[b] = Counted(b) /\ x0.raa[b] \in Nat
  <2>1. ASSUME NEW b \in Bank PROVE b \in serving \/ StillBusy(b, moving) => b0[b]
    OBVIOUS
  <2>2. opening \subseteq serving /\ closed \subseteq opening
    OBVIOUS
  <2>3. ASSUME NEW b \in Bank
        PROVE /\ b \notin serving => s0[b] = Sleep(b, moving)
              /\ b \in opening => s0[b] >= config.tACT + tRDRD
    <3> HIDE DEF delay, closed, opening, serving, moving
    <3> QED BY <1>7, <1>9, <2>2
  <2> HIDE DEF b0, s0, n0, opening, serving, moving
  <2> QED BY <2>1, <2>3, <1>6
<1>12. p1 \in SUBSET Bank /\ p2 \in SUBSET Bank /\ RefreshDue \in SUBSET Bank
  BY DEF BanksOf, RefreshDue
<1> HIDE DEF half, x0, p1, p2, moving, serving, opening
<1>13. /\ x1 \in Banking
       /\ \A b \in Bank : /\ x0.busy[b] => x1.busy[b]
                          /\ x0.sleep[b] <= x1.sleep[b]
                          /\ x1.raa[b] <= x0.raa[b]
       /\ \A b \in p1 : x1.raa[b] = Reduced(x0.raa[b], RfmTh)
       /\ \A b \in Bank \ p1 : x1.raa[b] = x0.raa[b]
  <2>1. half \in Nat /\ RfmTh \in Nat /\ config \in Configs
    BY <1>7, <1>8
  <2>2. x0 \in Banking /\ p1 \in SUBSET Bank
    BY <1>10, <1>12
  <2>3. x1 \in Banking
    BY <2>1, <2>2, RefreshingBanks
  <2>4. \A b \in Bank : /\ x0.busy[b] => x1.busy[b]
                        /\ x0.sleep[b] <= x1.sleep[b]
                        /\ x1.raa[b] <= x0.raa[b]
    BY <2>1, <2>2, RefreshingBanks
  <2>5. \A b \in p1 : x1.busy[b] /\ x1.sleep[b] >= half
    BY <2>1, <2>2, RefreshingBanks
  <2>6. \A b \in p1 : x1.raa[b] = Reduced(x0.raa[b], RfmTh)
    BY <2>1, <2>2, RefreshingBanks
  <2>7. \A b \in Bank \ p1 : x1.raa[b] = x0.raa[b]
    BY <2>1, <2>2, RefreshingBanks
  <2> HIDE DEF x1
  <2> QED BY <2>3, <2>4, <2>5, <2>6, <2>7
<1> HIDE DEF x1
<1>14. /\ x2 \in Banking
       /\ \A b \in Bank : /\ x1.busy[b] => x2.busy[b]
                          /\ x1.sleep[b] <= x2.sleep[b]
                          /\ x2.raa[b] <= x1.raa[b]
       /\ \A b \in p2 : /\ x2.busy[b] /\ x2.sleep[b] >= half
                        /\ x2.raa[b] = Reduced(x1.raa[b], RfmTh)
  <2>1. half \in Nat /\ RfmTh \in Nat /\ config \in Configs
    BY <1>7, <1>8
  <2>2. x1 \in Banking /\ p2 \in SUBSET Bank
    BY <1>13, <1>12
  <2>3. x2 \in Banking
    BY <2>1, <2>2, RefreshingBanks
  <2>4. \A b \in Bank : /\ x1.busy[b] => x2.busy[b]
                        /\ x1.sleep[b] <= x2.sleep[b]
                        /\ x2.raa[b] <= x1.raa[b]
    BY <2>1, <2>2, RefreshingBanks
  <2>5. \A b \in p2 : x2.busy[b] /\ x2.sleep[b] >= half
    BY <2>1, <2>2, RefreshingBanks
  <2>6. \A b \in p2 : x2.raa[b] = Reduced(x1.raa[b], RfmTh)
    BY <2>1, <2>2, RefreshingBanks
  <2>7. \A b \in Bank \ p2 : x2.raa[b] = x1.raa[b]
    BY <2>1, <2>2, RefreshingBanks
  <2> HIDE DEF x2
  <2> QED BY <2>3, <2>4, <2>5, <2>6, <2>7
<1> HIDE DEF x2
<1>15. /\ x3 \in Banking
       /\ \A b \in Bank : /\ x2.busy[b] => x3.busy[b]
                          /\ x2.sleep[b] <= x3.sleep[b]
                          /\ x3.raa[b] <= x2.raa[b]
  BY <1>7, <1>12, <1>14, RefreshingBanks
<1> HIDE DEF x3
<1>16. /\ x3.row \in [Bank -> Rows] /\ x3.busy \in [Bank -> BOOLEAN]
       /\ x3.sleep \in [Bank -> Nat \cup {-1}] /\ x3.raa \in [Bank -> Nat]
       /\ \A b \in Bank : /\ x0.sleep[b] \in Nat \cup {-1} /\ x0.raa[b] \in Nat
                          /\ x1.sleep[b] \in Nat \cup {-1} /\ x1.raa[b] \in Nat
                          /\ x2.sleep[b] \in Nat \cup {-1} /\ x2.raa[b] \in Nat
                          /\ x3.sleep[b] \in Nat \cup {-1} /\ x3.raa[b] \in Nat
  BY <1>10, <1>13, <1>14, <1>15 DEF Banking
<1>17. \A b \in Bank : sleep'[b] >= x3.sleep[b] - 1 /\ sleep'[b] \in Nat \cup {-1}
  BY <1>2, <1>16
<1>18. ASSUME NEW b \in Bank
       PROVE  /\ b \in Serving(Moving) \/ StillBusy(b, Moving) => busy'[b]
              /\ raa'[b] <= Counted(b)
              /\ b \notin Serving(Moving) => sleep'[b] >= Sleep(b, Moving) - 1
              /\ b \in Opening => sleep'[b] >= config.tACT + tRDRD - 1
  <2>1. x0.busy[b] => busy'[b]
    BY <1>2, <1>13, <1>14, <1>15
  <2>2. raa'[b] <= x0.raa[b] /\ sleep'[b] >= x0.sleep[b] - 1
    BY <1>2, <1>13, <1>14, <1>15, <1>16, <1>17
  <2>3. /\ b \in Serving(Moving) \/ StillBusy(b, Moving) => x0.busy[b]
        /\ b \notin Serving(Moving) => x0.sleep[b] = Sleep(b, Moving)
        /\ b \in Opening => x0.sleep[b] >= config.tACT + tRDRD
        /\ x0.raa[b] = Counted(b)
    BY <1>4, <1>11 DEF serving, moving
  <2> QED BY <2>1, <2>2, <2>3, <1>7, <1>16, <1>17
<1>19. ASSUME NEW b \in Bank, RfmPolicy = "AB", Wants # {}
       PROVE  raa'[b] <= Reduced(Counted(b), RfmTh)
  <2>1. b \in p1
    BY <1>5, <1>19 DEF p1
  <2>2. x1.raa[b] = Reduced(Counted(b), RfmTh)
    BY <1>11, <1>13, <2>1
  <2> QED BY <1>2, <1>14, <1>15, <1>16, <2>2
<1>20. ASSUME NEW b \in Bank, Due # {}, b \in BanksOf(Min(Due))
       PROVE  /\ busy'[b] /\ sleep'[b] >= (tRFC \div 2) - 1
              /\ raa'[b] <= Reduced(Counted(b), RfmTh)
  <2>1. b \in p2
    BY <1>5, <1>20 DEF p2
  <2>2. RfmPolicy = "SB"
    BY <1>20 DEF Due
  <2>3. b \in Bank \ p1
    BY <2>2 DEF p1
  <2>4. x2.raa[b] = Reduced(Counted(b), RfmTh)
    BY <1>11, <1>13, <1>14, <2>1, <2>3
  <2>5. raa'[b] <= Reduced(Counted(b), RfmTh)
    BY <1>2, <1>15, <1>16, <2>4
  <2>6. busy'[b] /\ sleep'[b] >= half - 1
    BY <1>2, <1>8, <1>14, <1>15, <1>16, <1>17, <2>1
  <2> QED BY <2>5, <2>6 DEF half
<1>21. /\ row' \in [Bank -> Rows] /\ busy' \in [Bank -> BOOLEAN]
       /\ sleep' \in [Bank -> Nat \cup {-1}] /\ raa' \in [Bank -> Nat]
  BY <1>2, <1>16, <1>17
<1>22. rfmSb' = IF Due = {} THEN {} ELSE Due \ {Min(Due)}
  BY <1>2, <1>5
<1> HIDE DEF moving, serving, opening, wants, sb, delay, to, closed
<1> QED BY <1>18, <1>19, <1>20, <1>21, <1>22

-----------------------------------------------------------------------------
(* The types of the state.                                                 *)

LEMMA InsertedType ==
    ASSUME config \in Configs, NEW qs \in [Bank -> Seq(Request)],
           NEW l \in Line, NEW wb \in BOOLEAN,
           \A b \in Bank : Len(qs[b]) <= QueueSize
    PROVE  /\ Inserted(qs, l, wb) \in [Bank -> Seq(Request)]
           /\ \A b \in Bank : Len(Inserted(qs, l, wb)[b]) <= QueueSize
<1>1. [line |-> l, wb |-> wb] \in Request
  BY DEF Request
<1>2. BankOf(l) \in Bank
  BY RowOfLine
<1>3. QueueSize \in Nat
  BY ConfigFacts
<1>4. CASE Len(qs[BankOf(l)]) = QueueSize
  BY <1>4 DEF Inserted
<1>5. CASE Len(qs[BankOf(l)]) # QueueSize
  <2> DEFINE k == BankOf(l)
             e == [line |-> l, wb |-> wb]
  <2>1. Inserted(qs, l, wb) = [qs EXCEPT ![k] = Append(qs[k], e)]
    BY <1>5 DEF Inserted
  <2>2. k \in Bank /\ e \in Request
    BY <1>1, <1>2
  <2>3. Len(qs[k]) \in Nat /\ Len(qs[k]) < QueueSize
    BY <1>3, <1>5, <2>2
  <2> HIDE DEF k, e
  <2>4. Append(qs[k], e) \in Seq(Request) /\ Len(Append(qs[k], e)) = Len(qs[k]) + 1
    BY <2>2
  <2> QED BY <1>3, <2>1, <2>2, <2>3, <2>4
<1> QED BY <1>4, <1>5

InRoom == \A b \in Bank : Len(queue[b]) <= QueueSize

LEMMA InitTypes == Init => Types /\ InRoom
<1> SUFFICES ASSUME Init PROVE Types /\ InRoom
  OBVIOUS
<1>1. config \in Configs
  BY DEF Init
<1>2. 0 \in Bank /\ QueueSize \in Nat /\ tRDRD \in Nat /\ tREFI \in Nat /\ OpenMax \in Nat
  BY <1>1, ConfigFacts DEF Bank
<1>3. Groups \in Nat /\ Groups > 0
  BY <1>1, <1>2, GroupOf
<1>4. InRoom
  BY <1>2 DEF Init, InRoom
<1> QED BY <1>1, <1>2, <1>3, <1>4 DEF Init, Types

LEMMA AccessTypes ==
    ASSUME Types, InRoom, NEW l \in config.lines, NEW ws \in SUBSET config.writeBacks,
           Access(l, ws)
    PROVE  Types' /\ InRoom'
<1>0. config \in Configs /\ l \in Line /\ ws \subseteq Line
  BY ConfigFacts DEF Types
<1>1. config' = config
  BY DEF Access
<1> DEFINE q == Inserted(queue, l, FALSE)
           w == CHOOSE v \in ws : TRUE
<1>2. q \in [Bank -> Seq(Request)] /\ \A b \in Bank : Len(q[b]) <= QueueSize
  BY <1>0, InsertedType DEF Types, InRoom
<1>3. ASSUME ws # {}
      PROVE  /\ Inserted(q, w, TRUE) \in [Bank -> Seq(Request)]
             /\ \A b \in Bank : Len(Inserted(q, w, TRUE)[b]) <= QueueSize
  <2>1. w \in Line
    BY <1>0, <1>3
  <2> HIDE DEF q, w
  <2> QED BY <1>0, <1>2, <2>1, InsertedType
<1>4. queue' = IF ws = {} THEN q ELSE Inserted(q, w, TRUE)
  BY DEF Access
<1> HIDE DEF q, w
<1>5. /\ queue' \in [Bank -> Seq(Request)]
      /\ \A b \in Bank : Len(queue'[b]) <= QueueSize
  BY <1>2, <1>3, <1>4
<1>6. mshr' \subseteq Line
  BY <1>0 DEF Access, Registered, Types
<1>7. /\ row' = row /\ open' = open /\ busy' = busy /\ sleep' = sleep /\ raa' = raa
      /\ bus' = bus /\ sinceBus' = sinceBus /\ rfmSb' = rfmSb
      /\ refsbPtr' = refsbPtr /\ sinceRef' = sinceRef /\ clk' = clk
  BY DEF Access, rfmVars
<1>8. /\ Bank' = Bank /\ Line' = Line /\ QueueSize' = QueueSize /\ Groups' = Groups
      /\ tRDRD' = tRDRD /\ tREFI' = tREFI /\ Request' = Request /\ Slot' = Slot
      /\ {RowOf(k) : k \in Line}' = {RowOf(k) : k \in Line}
  <2>1. /\ Bank' = Bank /\ Line' = Line /\ QueueSize' = QueueSize /\ Groups' = Groups
        /\ tRDRD' = tRDRD /\ tREFI' = tREFI /\ Request' = Request /\ Slot' = Slot
    BY <1>1, SteadyConfig
  <2>2. {RowOf(k) : k \in Line}' = {RowOf(k) : k \in Line}
    BY <1>1, <2>1 DEF RowOf, Banks
  <2> QED BY <2>1, <2>2
<1> QED BY <1>1, <1>5, <1>6, <1>7, <1>8 DEF Types, InRoom

LEMMA CycleTypes ==
    ASSUME Types, InRoom, Cycle
    PROVE  Types' /\ InRoom'
<1>0. /\ config \in Configs /\ Banks \in Nat /\ Banks > 1 /\ tRDRD \in Nat /\ tRDRD > 0
      /\ tREFI \in Nat /\ QueueSize \in Nat /\ OpenMax \in Nat /\ Bank = 0 .. Banks - 1
  BY ConfigFacts DEF Types, Bank
<1>1. config' = config
  BY CycleQueues
<1>2. /\ queue' \in [Bank -> Seq(Request)]
      /\ \A b \in Bank : Len(queue'[b]) <= QueueSize
  <2>1. ASSUME NEW b \in Bank
        PROVE  queue'[b] \in Seq(Request) /\ Len(queue'[b]) <= QueueSize
    <3>1. queue[b] \in Seq(Request) /\ Len(queue[b]) <= QueueSize /\ Len(queue[b]) \in Nat
      BY DEF Types, InRoom
    <3>2. CASE b \in Serving(Moving)
      <4>1. queue'[b] = RemoveAt(queue[b], Schedule(b))
        BY <3>2, CycleQueues
      <4>2. Schedule(b) \in 1 .. Len(queue[b])
        BY <3>2, ServedIsQueued
      <4>3. /\ RemoveAt(queue[b], Schedule(b)) \in Seq(Request)
            /\ Len(RemoveAt(queue[b], Schedule(b))) = Len(queue[b]) - 1
        BY <3>1, <4>2, RemoveAtShape
      <4> QED BY <1>0, <3>1, <4>1, <4>3
    <3>3. CASE b \notin Serving(Moving)
      BY <3>1, <3>3, CycleQueues
    <3> QED BY <3>2, <3>3
  <2>2. queue' = [b \in Bank |-> queue'[b]]
    BY CycleQueues
  <2> QED BY <2>1, <2>2
<1>3. \A n \in Int : Less(n) \in Nat
  BY DEF Less
<1>4. bus' \in [Bank -> SUBSET Slot]
  <2>1. ASSUME NEW b \in Bank PROVE bus'[b] \in SUBSET Slot
    <3>1. CASE b \in Serving(Moving)
      <4> DEFINE d == ActDelay(b, RowOf(Served(b).line))
      <4>1. bus'[b] = {[line |-> Served(b).line, wb |-> Served(b).wb, ready |-> Less(d)]}
        BY <3>1, CycleQueues
      <4>2. d \in Nat
        BY Delays
      <4>3. Served(b).line \in Line /\ Served(b).wb \in BOOLEAN
        BY <3>1, ServedIsQueued
      <4> HIDE DEF d
      <4>4. Less(d) \in Nat
        BY <1>3, <4>2
      <4> QED BY <4>1, <4>3, <4>4 DEF Slot
    <3>2. CASE b \notin Serving(Moving)
      <4>1. bus'[b] = {} \/ bus'[b] = {[e EXCEPT !.ready = Less(@)] : e \in bus[b]}
        BY <3>2, CycleQueues
      <4>2. ASSUME NEW e \in bus[b] PROVE [e EXCEPT !.ready = Less(@)] \in Slot
        <5>1. e \in Slot /\ e.ready \in Nat
          BY DEF Types, Slot
        <5>2. Less(e.ready) \in Nat
          BY <1>3, <5>1
        <5> QED BY <5>1, <5>2 DEF Slot
      <4> QED BY <4>1, <4>2
    <3> QED BY <3>1, <3>2
  <2>2. bus' = [b \in Bank |-> bus'[b]]
    BY CycleQueues
  <2> QED BY <2>1, <2>2
<1>5. mshr' \subseteq Line
  BY CycleQueues DEF Types
<1>6. clk' \in Bank
  <2>1. clk + 1 \in Nat
    BY <1>0 DEF Types
  <2>2. (clk + 1) % Banks \in 0 .. Banks - 1
    BY <1>0, <2>1, Division
  <2> QED BY <1>0, <2>2, CycleQueues
<1>7. PICK drfm \in SUBSET Bank : CycleWith(drfm)
  BY DEF Cycle
<1>8. sinceBus' \in 0 .. tRDRD /\ sinceRef' \in 0 .. tREFI + 1
  <2>1. /\ sinceBus' = IF Moving # {} THEN 1
                       ELSE IF sinceBus < tRDRD THEN sinceBus + 1 ELSE tRDRD
        /\ sinceRef' = IF RefMode = "none" THEN 0
                       ELSE IF sinceRef > tREFI THEN 1 ELSE sinceRef + 1
    BY <1>7 DEF CycleWith
  <2> QED BY <1>0, <2>1 DEF Types
<1>9. open' \in [Bank -> Int]
  <2>1. /\ \A b \in Serving(Moving) : b \in Bank
        /\ open' = [b \in Bank |->
                      IF b \in Opening THEN 1 - OpenDelay(b, RowOf(Served(b).line))
                      ELSE IF open[b] < OpenMax THEN open[b] + 1 ELSE OpenMax]
    BY <1>7 DEF CycleWith, Served, Opening, Serving
  <2>2. ASSUME NEW b \in Bank PROVE OpenDelay(b, RowOf(Served(b).line)) \in Nat
    BY Delays
  <2>3. \A b \in Bank : open[b] \in Int
    BY DEF Types
  <2> QED BY <1>0, <2>1, <2>2, <2>3
<1>10. refsbPtr' \in 0 .. Groups - 1
  <2>1. refsbPtr' = NextRefSb
    BY <1>7 DEF CycleWith
  <2>2. CASE refsbPtr' = refsbPtr
    BY <2>2 DEF Types
  <2>3. CASE refsbPtr' # refsbPtr
    <3>1. RefMode = "SB" /\ refsbPtr' = (refsbPtr + 1) % GroupSize
      BY <2>1, <2>3 DEF NextRefSb
    <3>2. GroupSize \in Nat /\ GroupSize > 0 /\ GroupSize * GroupSize <= Banks
      BY <3>1, <1>0, ConfigFacts
    <3>3. Groups \in Nat /\ Groups > 0 /\ GroupSize * Groups = Banks
      BY <1>0, GroupOf
    <3>4. GroupSize <= Groups
      <4> SUFFICES ASSUME Groups < GroupSize PROVE FALSE
        BY <3>2, <3>3
      <4>1. GroupSize * Groups < GroupSize * GroupSize
        BY <3>2, <3>3
      <4> QED BY <3>2, <3>3, <4>1, <1>0
    <3>5. refsbPtr + 1 \in Nat
      BY <3>3 DEF Types
    <3>6. (refsbPtr + 1) % GroupSize \in 0 .. GroupSize - 1
      BY <3>2, <3>5, Division
    <3> QED BY <3>1, <3>2, <3>3, <3>4, <3>6
  <2> QED BY <2>2, <2>3
<1>11. rfmSb' \subseteq 0 .. Groups - 1
  <2>1. Wants \subseteq Bank
    BY DEF Wants, Opening, Serving
  <2>2. Due \subseteq 0 .. Groups - 1
    BY <1>0, <2>1, GroupOf DEF Due, Types
  <2>3. rfmSb' \subseteq Due
    BY CycleBanks
  <2> QED BY <2>2, <2>3
<1>12. /\ row' \in [Bank -> Rows] /\ busy' \in [Bank -> BOOLEAN]
       /\ sleep' \in [Bank -> Nat \cup {-1}] /\ raa' \in [Bank -> Nat]
  BY CycleBanks
<1>13. /\ Bank' = Bank /\ Line' = Line /\ QueueSize' = QueueSize /\ Groups' = Groups
       /\ tRDRD' = tRDRD /\ tREFI' = tREFI /\ Request' = Request /\ Slot' = Slot
  BY <1>1, SteadyConfig
<1>14. Rows' = Rows /\ Rows = {NoRow} \cup {RowOf(l) : l \in Line}
  BY <1>1, <1>13 DEF Rows, RowOf, Banks
<1>15. ({NoRow} \cup {RowOf(l) : l \in Line})' = Rows
  BY <1>14 DEF Rows
<1> QED BY <1>0, <1>1, <1>2, <1>4, <1>5, <1>6, <1>8, <1>9, <1>10, <1>11, <1>12, <1>13,
           <1>15 DEF Types, InRoom

-----------------------------------------------------------------------------
(* Every registered miss has one read.                                     *)

\* What holds of bank b with the queue q and the slot s, when the lines m are
\* registered: its requests are for the bank, the slot holds at most one, a read is
\* registered and there is no other of its line, and a registered line has a read.
Bankwise(b, q, s, m) ==
    /\ \A i \in 1 .. Len(q) : BankOf(q[i].line) = b
    /\ \A e \in s : BankOf(e.line) = b
    /\ \A e, f \in s : e = f
    /\ \A i \in 1 .. Len(q) : ~q[i].wb =>
          /\ q[i].line \in m
          /\ \A e \in s : ~e.wb => e.line # q[i].line
          /\ \A j \in 1 .. Len(q) : ~q[j].wb /\ q[j].line = q[i].line => i = j
    /\ \A e \in s : ~e.wb => e.line \in m
    /\ \A l \in m : BankOf(l) = b => \/ \E i \in 1 .. Len(q) : IsReadOf(q[i], l)
                                     \/ \E e \in s : IsReadOf(e, l)

OneReadEach == \A b \in Bank : Bankwise(b, queue[b], bus[b], mshr)

\* A read of a line that was not registered joins the queue.
LEMMA BankTakesRead ==
    ASSUME NEW b, NEW q \in Seq(Request), NEW s, NEW m, NEW l \in Line,
           Bankwise(b, q, s, m), l \notin m, BankOf(l) = b
    PROVE  Bankwise(b, Append(q, [line |-> l, wb |-> FALSE]), s, m \cup {l})
<1> DEFINE r == [line |-> l, wb |-> FALSE]
           p == Append(q, r)
<1>1. /\ r \in Request /\ r.line = l /\ ~r.wb
  BY DEF Request
<1>2. /\ Len(p) = Len(q) + 1 /\ p[Len(q) + 1] = r /\ Len(q) \in Nat
      /\ \A i \in 1 .. Len(q) : p[i] = q[i]
  BY <1>1
<1> HIDE DEF p, r
<1>3. \A i \in 1 .. Len(p) : i \in 1 .. Len(q) \/ i = Len(q) + 1
  BY <1>2
<1>4. \A i \in 1 .. Len(p) : BankOf(p[i].line) = b
  BY <1>1, <1>2, <1>3 DEF Bankwise
<1>5. /\ \A e \in s : BankOf(e.line) = b
      /\ \A e, f \in s : e = f
      /\ \A e \in s : ~e.wb => e.line \in m \cup {l}
  BY DEF Bankwise
<1>6. ASSUME NEW i \in 1 .. Len(p), ~p[i].wb
      PROVE  /\ p[i].line \in m \cup {l}
             /\ \A e \in s : ~e.wb => e.line # p[i].line
             /\ \A j \in 1 .. Len(p) : ~p[j].wb /\ p[j].line = p[i].line => i = j
  <2>1. CASE i = Len(q) + 1
    <3>1. \A e \in s : ~e.wb => e.line # l
      BY DEF Bankwise
    <3>2. \A j \in 1 .. Len(q) : ~q[j].wb => q[j].line # l
      BY DEF Bankwise
    <3> QED BY <1>1, <1>2, <1>3, <2>1, <3>1, <3>2
  <2>2. CASE i \in 1 .. Len(q)
    <3>1. /\ ~q[i].wb /\ q[i].line \in m /\ q[i].line # l
          /\ \A e \in s : ~e.wb => e.line # q[i].line
          /\ \A j \in 1 .. Len(q) : ~q[j].wb /\ q[j].line = q[i].line => i = j
      BY <1>2, <1>6, <2>2 DEF Bankwise
    <3> QED BY <1>1, <1>2, <1>3, <2>2, <3>1
  <2> QED BY <1>3, <2>1, <2>2
<1>7. ASSUME NEW k \in m \cup {l}, BankOf(k) = b
      PROVE  \/ \E i \in 1 .. Len(p) : IsReadOf(p[i], k)
             \/ \E e \in s : IsReadOf(e, k)
  <2>1. CASE k = l
    <3>1. Len(q) + 1 \in 1 .. Len(p) /\ IsReadOf(p[Len(q) + 1], k)
      BY <1>1, <1>2, <2>1 DEF IsReadOf
    <3> QED BY <3>1
  <2>2. CASE k \in m
    <3>1. \/ \E i \in 1 .. Len(q) : IsReadOf(q[i], k)
          \/ \E e \in s : IsReadOf(e, k)
      BY <1>7, <2>2 DEF Bankwise
    <3>2. ASSUME NEW i \in 1 .. Len(q), IsReadOf(q[i], k)
          PROVE  i \in 1 .. Len(p) /\ IsReadOf(p[i], k)
      BY <1>2, <3>2
    <3> QED BY <3>1, <3>2
  <2> QED BY <2>1, <2>2
<1>8. Bankwise(b, p, s, m \cup {l})
  BY <1>4, <1>5, <1>6, <1>7 DEF Bankwise
<1> QED BY <1>8 DEF p, r

\* A write-back joins the queue.
LEMMA BankTakesWriteBack ==
    ASSUME NEW b, NEW q \in Seq(Request), NEW s, NEW m, NEW l \in Line,
           Bankwise(b, q, s, m), BankOf(l) = b
    PROVE  Bankwise(b, Append(q, [line |-> l, wb |-> TRUE]), s, m)
<1> DEFINE r == [line |-> l, wb |-> TRUE]
           p == Append(q, r)
<1>1. /\ r \in Request /\ r.line = l /\ r.wb
  BY DEF Request
<1>2. /\ Len(p) = Len(q) + 1 /\ p[Len(q) + 1] = r /\ Len(q) \in Nat
      /\ \A i \in 1 .. Len(q) : p[i] = q[i]
  BY <1>1
<1> HIDE DEF p, r
<1>3. \A i \in 1 .. Len(p) : i \in 1 .. Len(q) \/ i = Len(q) + 1
  BY <1>2
<1>4. \A i \in 1 .. Len(p) : BankOf(p[i].line) = b
  BY <1>1, <1>2, <1>3 DEF Bankwise
<1>5. ASSUME NEW i \in 1 .. Len(p), ~p[i].wb
      PROVE  /\ p[i].line \in m
             /\ \A e \in s : ~e.wb => e.line # p[i].line
             /\ \A j \in 1 .. Len(p) : ~p[j].wb /\ p[j].line = p[i].line => i = j
  <2>1. i \in 1 .. Len(q) /\ ~q[i].wb
    BY <1>1, <1>2, <1>3, <1>5
  <2>2. /\ q[i].line \in m
        /\ \A e \in s : ~e.wb => e.line # q[i].line
        /\ \A j \in 1 .. Len(q) : ~q[j].wb /\ q[j].line = q[i].line => i = j
    BY <2>1 DEF Bankwise
  <2> QED BY <1>1, <1>2, <1>3, <2>1, <2>2
<1>6. ASSUME NEW k \in m, BankOf(k) = b
      PROVE  \/ \E i \in 1 .. Len(p) : IsReadOf(p[i], k)
             \/ \E e \in s : IsReadOf(e, k)
  <2>1. \/ \E i \in 1 .. Len(q) : IsReadOf(q[i], k)
        \/ \E e \in s : IsReadOf(e, k)
    BY <1>6 DEF Bankwise
  <2>2. ASSUME NEW i \in 1 .. Len(q), IsReadOf(q[i], k)
        PROVE  i \in 1 .. Len(p) /\ IsReadOf(p[i], k)
    BY <1>2, <2>2
  <2> QED BY <2>1, <2>2
<1>7. Bankwise(b, p, s, m)
  BY <1>4, <1>5, <1>6 DEF Bankwise
<1> QED BY <1>7 DEF p, r

\* The slot of the bank gets the bus: its line is no longer registered.
LEMMA BankMoves ==
    ASSUME NEW b, NEW q \in Seq(Request), NEW s, NEW m, NEW n, Bankwise(b, q, s, m),
           n \subseteq m,
           \A l \in m : BankOf(l) = b => (l \in n <=> ~\E e \in s : IsReadOf(e, l))
    PROVE  Bankwise(b, q, {}, n)
<1>1. ASSUME NEW i \in 1 .. Len(q), ~q[i].wb PROVE q[i].line \in n
  <2>1. /\ q[i].line \in m /\ BankOf(q[i].line) = b
        /\ \A e \in s : ~e.wb => e.line # q[i].line
    BY <1>1 DEF Bankwise
  <2>2. ~\E e \in s : IsReadOf(e, q[i].line)
    BY <2>1 DEF IsReadOf
  <2> QED BY <2>1, <2>2
<1>2. ASSUME NEW l \in n, BankOf(l) = b
      PROVE  \E i \in 1 .. Len(q) : IsReadOf(q[i], l)
  <2>1. l \in m /\ ~\E e \in s : IsReadOf(e, l)
    BY <1>2
  <2> QED BY <1>2, <2>1 DEF Bankwise
<1> QED BY <1>1, <1>2 DEF Bankwise

\* A request goes from the queue to the empty slot.
LEMMA BankServes ==
    ASSUME NEW b, NEW q \in Seq(Request), NEW m, Bankwise(b, q, {}, m),
           NEW i \in 1 .. Len(q), NEW r \in Nat
    PROVE  Bankwise(b, RemoveAt(q, i),
                    {[line |-> q[i].line, wb |-> q[i].wb, ready |-> r]}, m)
<1> DEFINE p == RemoveAt(q, i)
           f == [line |-> q[i].line, wb |-> q[i].wb, ready |-> r]
           Old(j) == IF j < i THEN j ELSE j + 1
<1>1. Len(q) \in Nat /\ Len(p) = Len(q) - 1
      /\ \A j \in 1 .. Len(p) : p[j] = q[Old(j)]
  <2>1. /\ Len(RemoveAt(q, i)) = Len(q) - 1
        /\ \A j \in 1 .. Len(q) - 1 :
              RemoveAt(q, i)[j] = IF j < i THEN q[j] ELSE q[j + 1]
    BY RemoveAtShape
  <2> QED BY <2>1
<1>2. f.line = q[i].line /\ (f.wb <=> q[i].wb)
  OBVIOUS
<1>3. /\ \A j \in 1 .. Len(p) : Old(j) \in 1 .. Len(q) /\ Old(j) # i
      /\ \A j, k \in 1 .. Len(p) : Old(j) = Old(k) => j = k
  BY <1>1
<1>4. \A j \in 1 .. Len(q) : j # i => \E k \in 1 .. Len(p) : Old(k) = j
  <2> SUFFICES ASSUME NEW j \in 1 .. Len(q), j # i
               PROVE  \E k \in 1 .. Len(p) : Old(k) = j
    OBVIOUS
  <2>1. CASE j < i
    BY <1>1, <2>1
  <2>2. CASE j > i
    <3>1. j - 1 \in 1 .. Len(p) /\ Old(j - 1) = j
      BY <1>1, <2>2
    <3> QED BY <3>1
  <2> QED BY <2>1, <2>2
<1> HIDE DEF p, f, Old
<1>5. \A j \in 1 .. Len(p) : BankOf(p[j].line) = b
  BY <1>1, <1>3 DEF Bankwise
<1>6. \A e \in {f} : BankOf(e.line) = b /\ (~e.wb => e.line \in m)
  BY <1>2 DEF Bankwise
<1>7. ASSUME NEW j \in 1 .. Len(p), ~p[j].wb
      PROVE  /\ p[j].line \in m
             /\ \A e \in {f} : ~e.wb => e.line # p[j].line
             /\ \A k \in 1 .. Len(p) : ~p[k].wb /\ p[k].line = p[j].line => j = k
  <2>1. p[j] = q[Old(j)] /\ Old(j) \in 1 .. Len(q) /\ Old(j) # i /\ ~q[Old(j)].wb
    BY <1>1, <1>3, <1>7
  <2>2. /\ q[Old(j)].line \in m
        /\ \A k \in 1 .. Len(q) : ~q[k].wb /\ q[k].line = q[Old(j)].line => Old(j) = k
    BY <2>1 DEF Bankwise
  <2>3. ~f.wb => f.line # p[j].line
    BY <1>2, <2>1, <2>2
  <2>4. ASSUME NEW k \in 1 .. Len(p), ~p[k].wb, p[k].line = p[j].line PROVE j = k
    <3>1. p[k] = q[Old(k)] /\ Old(k) \in 1 .. Len(q)
      BY <1>1, <1>3
    <3>2. Old(j) = Old(k)
      BY <2>1, <2>2, <2>4, <3>1
    <3> QED BY <1>3, <3>2
  <2> QED BY <2>1, <2>2, <2>3, <2>4
<1>8. ASSUME NEW l \in m, BankOf(l) = b
      PROVE  \/ \E j \in 1 .. Len(p) : IsReadOf(p[j], l)
             \/ \E e \in {f} : IsReadOf(e, l)
  <2>1. PICK j \in 1 .. Len(q) : IsReadOf(q[j], l)
    BY <1>8 DEF Bankwise
  <2>2. CASE j = i
    BY <1>2, <2>1, <2>2 DEF IsReadOf
  <2>3. CASE j # i
    <3>1. PICK k \in 1 .. Len(p) : Old(k) = j
      BY <1>4, <2>3
    <3>2. p[k] = q[j]
      BY <1>1, <3>1
    <3> QED BY <2>1, <3>2
  <2> QED BY <2>2, <2>3
<1>9. Bankwise(b, p, {f}, m)
  BY <1>5, <1>6, <1>7, <1>8 DEF Bankwise
<1> QED BY <1>9 DEF p, f

\* A slot that waits, and a bank whose lines stay registered.
LEMMA BankWaits ==
    ASSUME NEW b, NEW q \in Seq(Request), NEW s \in SUBSET Slot, NEW m, NEW n,
           Bankwise(b, q, s, m), n \subseteq m,
           \A l \in m : BankOf(l) = b => l \in n
    PROVE  Bankwise(b, q, {[e EXCEPT !.ready = Less(@)] : e \in s}, n)
<1> DEFINE t == {[e EXCEPT !.ready = Less(@)] : e \in s}
<1>1. ASSUME NEW f \in t
      PROVE  \E e \in s : /\ f = [e EXCEPT !.ready = Less(@)]
                          /\ f.line = e.line /\ (f.wb <=> e.wb)
  <2>1. PICK e \in s : f = [e EXCEPT !.ready = Less(@)]
    OBVIOUS
  <2>2. e \in Slot
    OBVIOUS
  <2> QED BY <2>1, <2>2 DEF Slot
<1>2. ASSUME NEW e \in s
      PROVE  \E f \in t : f.line = e.line /\ (f.wb <=> e.wb)
  <2>1. e \in Slot /\ [e EXCEPT !.ready = Less(@)] \in t
    OBVIOUS
  <2> QED BY <2>1 DEF Slot
<1> HIDE DEF t
<1>3. \A f, g \in t : f = g
  BY <1>1 DEF Bankwise
<1>4. /\ \A i \in 1 .. Len(q) : BankOf(q[i].line) = b
      /\ \A f \in t : BankOf(f.line) = b
      /\ \A f \in t : ~f.wb => f.line \in n
  BY <1>1 DEF Bankwise
<1>5. ASSUME NEW i \in 1 .. Len(q), ~q[i].wb
      PROVE  /\ q[i].line \in n
             /\ \A f \in t : ~f.wb => f.line # q[i].line
             /\ \A j \in 1 .. Len(q) : ~q[j].wb /\ q[j].line = q[i].line => i = j
  BY <1>1, <1>5 DEF Bankwise
<1>6. ASSUME NEW l \in n, BankOf(l) = b
      PROVE  \/ \E i \in 1 .. Len(q) : IsReadOf(q[i], l)
             \/ \E f \in t : IsReadOf(f, l)
  <2>1. \/ \E i \in 1 .. Len(q) : IsReadOf(q[i], l)
        \/ \E e \in s : IsReadOf(e, l)
    BY <1>6 DEF Bankwise
  <2> QED BY <1>2, <2>1 DEF IsReadOf
<1>7. Bankwise(b, q, t, n)
  BY <1>3, <1>4, <1>5, <1>6 DEF Bankwise
<1> QED BY <1>7 DEF t

\* What is registered for other banks does not matter.
LEMMA OtherBanksLines ==
    ASSUME NEW b, NEW q, NEW s, NEW m, NEW n, Bankwise(b, q, s, m), m \subseteq n,
           \A l \in n : BankOf(l) = b => l \in m
    PROVE  Bankwise(b, q, s, n)
BY DEF Bankwise

LEMMA InsertedElsewhere ==
    ASSUME config \in Configs, NEW qs \in [Bank -> Seq(Request)], NEW l \in Line,
           NEW wb \in BOOLEAN
    PROVE  /\ \A b \in Bank : b # BankOf(l) => Inserted(qs, l, wb)[b] = qs[b]
           /\ Inserted(qs, l, wb)[BankOf(l)] =
                 IF Len(qs[BankOf(l)]) = QueueSize THEN qs[BankOf(l)]
                 ELSE Append(qs[BankOf(l)], [line |-> l, wb |-> wb])
<1>1. BankOf(l) \in Bank
  BY RowOfLine
<1> DEFINE k == BankOf(l)
<1>2. Inserted(qs, l, wb) = IF Len(qs[k]) = QueueSize THEN qs
                            ELSE [qs EXCEPT ![k] = Append(qs[k], [line |-> l, wb |-> wb])]
  BY DEF Inserted
<1> HIDE DEF k
<1>3. k \in Bank
  BY <1>1 DEF k
<1>4. CASE Len(qs[k]) = QueueSize
  BY <1>2, <1>4 DEF k
<1>5. CASE Len(qs[k]) # QueueSize
  <2>1. Inserted(qs, l, wb) = [qs EXCEPT ![k] = Append(qs[k], [line |-> l, wb |-> wb])]
    BY <1>2, <1>5
  <2>2. \A b \in Bank : b # k => Inserted(qs, l, wb)[b] = qs[b]
    BY <2>1
  <2>3. Inserted(qs, l, wb)[k] = Append(qs[k], [line |-> l, wb |-> wb])
    BY <1>3, <2>1
  <2> QED BY <1>5, <2>2, <2>3 DEF k
<1> QED BY <1>4, <1>5

LEMMA AccessReads ==
    ASSUME Types, InRoom, OneReadEach, NEW l \in config.lines,
           NEW ws \in SUBSET config.writeBacks, Access(l, ws)
    PROVE  OneReadEach'
<1>0. config \in Configs /\ l \in Line /\ ws \subseteq Line /\ BankOf(l) \in Bank
  BY ConfigFacts, RowOfLine DEF Types
<1>1. /\ config' = config /\ bus' = bus
      /\ l \notin mshr \/ Len(queue[BankOf(l)]) = QueueSize
  BY DEF Access
<1> DEFINE q == Inserted(queue, l, FALSE)
           w == CHOOSE v \in ws : TRUE
<1>2. q \in [Bank -> Seq(Request)]
  BY <1>0, InsertedType DEF Types, InRoom
<1>3. ASSUME NEW b \in Bank PROVE Bankwise(b, q[b], bus[b], mshr')
  <2>1. Bankwise(b, queue[b], bus[b], mshr) /\ queue[b] \in Seq(Request)
    BY DEF OneReadEach, Types
  <2>2. CASE b # BankOf(l)
    <3>1. q[b] = queue[b]
      BY <1>0, <2>2, InsertedElsewhere DEF Types
    <3>2. mshr' = mshr \/ mshr' = mshr \cup {l}
      BY DEF Access, Registered
    <3>3. \A k \in mshr' : BankOf(k) = b => k \in mshr
      BY <2>2, <3>2
    <3>4. mshr \subseteq mshr'
      BY <3>2
    <3> HIDE DEF q
    <3> QED BY <2>1, <3>1, <3>3, <3>4, OtherBanksLines
  <2>3. CASE b = BankOf(l) /\ Len(queue[b]) = QueueSize
    <3>1. q[b] = queue[b]
      BY <1>0, <2>3, InsertedElsewhere DEF Types
    <3>2. mshr' = mshr
      BY <2>3 DEF Access, Registered
    <3> HIDE DEF q
    <3> QED BY <2>1, <3>1, <3>2
  <2>4. CASE b = BankOf(l) /\ Len(queue[b]) # QueueSize
    <3>1. q[b] = Append(queue[b], [line |-> l, wb |-> FALSE])
      BY <1>0, <2>4, InsertedElsewhere DEF Types
    <3>2. mshr' = mshr \cup {l}
      BY <2>4 DEF Access, Registered
    <3>3. Bankwise(b, Append(queue[b], [line |-> l, wb |-> FALSE]), bus[b], mshr \cup {l})
      BY <1>0, <1>1, <2>1, <2>4, BankTakesRead
    <3> HIDE DEF q
    <3> QED BY <3>1, <3>2, <3>3
  <2> QED BY <2>2, <2>3, <2>4
<1>4. ASSUME NEW b \in Bank PROVE Bankwise(b, queue'[b], bus[b], mshr')
  <2>1. CASE ws = {}
    <3>1. queue' = q
      BY <2>1 DEF Access
    <3> HIDE DEF q
    <3> QED BY <1>3, <3>1
  <2>2. CASE ws # {}
    <3>1. queue' = Inserted(q, w, TRUE)
      BY <2>2 DEF Access
    <3>2. w \in Line
      BY <1>0, <2>2
    <3> HIDE DEF q, w
    <3>3. Bankwise(b, q[b], bus[b], mshr') /\ q[b] \in Seq(Request)
      BY <1>2, <1>3
    <3>4. CASE b # BankOf(w)
      <4>1. queue'[b] = q[b]
        BY <1>0, <1>2, <3>1, <3>2, <3>4, InsertedElsewhere
      <4> QED BY <3>3, <4>1
    <3>5. CASE b = BankOf(w)
      <4>1. \/ queue'[b] = q[b]
            \/ queue'[b] = Append(q[b], [line |-> w, wb |-> TRUE])
        BY <1>0, <1>2, <3>1, <3>2, <3>5, InsertedElsewhere
      <4>2. Bankwise(b, Append(q[b], [line |-> w, wb |-> TRUE]), bus[b], mshr')
        BY <3>2, <3>3, <3>5, BankTakesWriteBack
      <4> QED BY <3>3, <4>1, <4>2
    <3> QED BY <3>4, <3>5
  <2> QED BY <2>1, <2>2
<1>5. Bank' = Bank
  BY <1>1, SteadyConfig
<1> QED BY <1>1, <1>4, <1>5 DEF OneReadEach, Bankwise, BankOf, Banks, IsReadOf

LEMMA CycleReads ==
    ASSUME Types, OneReadEach, Cycle
    PROVE  OneReadEach'
<1>0. config \in Configs /\ config' = config /\ Bank' = Bank
  BY CycleQueues, SteadyConfig DEF Types
<1> DEFINE gone == {e.line : e \in {f \in UNION {bus[b] : b \in Moving} : ~f.wb}}
<1>1. mshr' = mshr \ gone /\ mshr' \subseteq mshr /\ Moving \subseteq Bank
  BY CycleQueues, MovingIsReady
<1>2. ASSUME NEW b \in Bank, NEW l \in mshr, BankOf(l) = b
      PROVE  l \in gone <=> b \in Moving /\ \E e \in bus[b] : IsReadOf(e, l)
  <2>1. \A c \in Bank : \A e \in bus[c] : BankOf(e.line) = c
    BY DEF OneReadEach, Bankwise
  <2>2. ASSUME l \in gone PROVE b \in Moving /\ \E e \in bus[b] : IsReadOf(e, l)
    <3>1. PICK c \in Moving : \E e \in bus[c] : ~e.wb /\ e.line = l
      BY <2>2
    <3>2. c = b
      BY <1>1, <1>2, <2>1, <3>1
    <3> QED BY <3>1, <3>2 DEF IsReadOf
  <2>3. ASSUME b \in Moving, NEW e \in bus[b], IsReadOf(e, l) PROVE l \in gone
    BY <2>3 DEF IsReadOf
  <2> QED BY <2>2, <2>3
<1> HIDE DEF gone
<1>3. ASSUME NEW b \in Bank PROVE Bankwise(b, queue'[b], bus'[b], mshr')
  <2>1. /\ Bankwise(b, queue[b], bus[b], mshr)
        /\ queue[b] \in Seq(Request) /\ bus[b] \in SUBSET Slot
    BY DEF OneReadEach, Types
  <2>2. CASE b \in Moving \/ bus[b] = {}
    <3>1. \A l \in mshr : BankOf(l) = b =>
             (l \in mshr' <=> ~\E e \in bus[b] : IsReadOf(e, l))
      BY <1>1, <1>2, <2>2
    <3>2. Bankwise(b, queue[b], {}, mshr')
      BY <1>1, <2>1, <3>1, BankMoves
    <3>3. CASE b \in Serving(Moving)
      <4> DEFINE r == Less(ActDelay(b, RowOf(Served(b).line)))
                 p == Schedule(b)
      <4>1. /\ queue'[b] = RemoveAt(queue[b], p)
            /\ bus'[b] = {[line |-> queue[b][p].line, wb |-> queue[b][p].wb, ready |-> r]}
        BY <3>3, CycleQueues DEF Served
      <4>2. p \in 1 .. Len(queue[b])
        BY <3>3, ServedIsQueued
      <4>3. r \in Nat
        <5>1. ActDelay(b, RowOf(Served(b).line)) \in Nat
          BY Delays
        <5> QED BY <5>1 DEF Less
      <4> HIDE DEF r, p
      <4>4. Bankwise(b, RemoveAt(queue[b], p),
                     {[line |-> queue[b][p].line, wb |-> queue[b][p].wb, ready |-> r]},
                     mshr')
        BY <2>1, <3>2, <4>2, <4>3, BankServes
      <4> QED BY <4>1, <4>4
    <3>4. CASE b \notin Serving(Moving)
      <4>1. queue'[b] = queue[b] /\ bus'[b] = {}
        BY <2>2, <3>4, CycleQueues
      <4> QED BY <3>2, <4>1
    <3> QED BY <3>3, <3>4
  <2>3. CASE b \notin Moving /\ bus[b] # {}
    <3>1. b \notin Serving(Moving)
      BY <2>3 DEF Serving
    <3>2. queue'[b] = queue[b] /\ bus'[b] = {[e EXCEPT !.ready = Less(@)] : e \in bus[b]}
      BY <2>3, <3>1, CycleQueues
    <3>3. \A l \in mshr : BankOf(l) = b => l \in mshr'
      BY <1>1, <1>2, <2>3
    <3>4. Bankwise(b, queue[b], {[e EXCEPT !.ready = Less(@)] : e \in bus[b]}, mshr')
      BY <1>1, <2>1, <3>3, BankWaits
    <3> QED BY <3>2, <3>4
  <2> QED BY <2>2, <2>3
<1> QED BY <1>0, <1>3 DEF OneReadEach, Bankwise, BankOf, Banks, IsReadOf

LEMMA InitReads == Init => OneReadEach
BY DEF Init, OneReadEach, Bankwise

LEMMA ReadsAreWaiters ==
    ASSUME Types, OneReadEach
    PROVE  EveryWaiterHasItsRead
<1> SUFFICES ASSUME NEW l \in Line PROVE Reads(l) = IF l \in mshr THEN 1 ELSE 0
  BY DEF EveryWaiterHasItsRead
<1> DEFINE b == BankOf(l)
<1>1. /\ b \in Bank /\ Bankwise(b, queue[b], bus[b], mshr)
      /\ queue[b] \in Seq(Request)
  BY RowOfLine DEF Types, OneReadEach
<1>2. DOMAIN queue[b] = 1 .. Len(queue[b])
  BY <1>1
<1>3. /\ \A i, j \in Queued(l) : i = j
      /\ \A e, f \in OnBus(l) : e = f
      /\ \A i \in Queued(l) : OnBus(l) = {}
      /\ l \in mshr <=> (Queued(l) # {} \/ OnBus(l) # {})
  <2>1. /\ Queued(l) = {i \in 1 .. Len(queue[b]) : IsReadOf(queue[b][i], l)}
        /\ OnBus(l) = {e \in bus[b] : IsReadOf(e, l)}
    BY <1>2 DEF Queued, OnBus
  <2>2. BankOf(l) = b
    OBVIOUS
  <2> HIDE DEF b
  <2>3. /\ \A i, j \in Queued(l) : i = j
        /\ \A e, f \in OnBus(l) : e = f
        /\ \A i \in Queued(l) : OnBus(l) = {}
    BY <1>1, <2>1 DEF Bankwise, IsReadOf
  <2>4. l \in mshr <=> (Queued(l) # {} \/ OnBus(l) # {})
    BY <1>1, <2>1, <2>2 DEF Bankwise, IsReadOf
  <2> QED BY <2>3, <2>4
<1>4. \A S : (S # {} /\ \A x, y \in S : x = y) => Cardinality(S) = 1
  <2> SUFFICES ASSUME NEW S, S # {}, \A x, y \in S : x = y PROVE Cardinality(S) = 1
    OBVIOUS
  <2>1. PICK x \in S : TRUE
    OBVIOUS
  <2>2. S = {x}
    BY <2>1
  <2> QED BY <2>2, FS_Singleton
<1>5. Cardinality({}) = 0
  BY FS_EmptySet
<1>6. CASE Queued(l) # {}
  <2>1. Cardinality(Queued(l)) = 1 /\ OnBus(l) = {} /\ l \in mshr
    BY <1>3, <1>4, <1>6
  <2> QED BY <1>5, <2>1 DEF Reads
<1>7. CASE Queued(l) = {} /\ OnBus(l) # {}
  <2>1. Cardinality(OnBus(l)) = 1 /\ l \in mshr
    BY <1>3, <1>4, <1>7
  <2> QED BY <1>5, <1>7, <2>1 DEF Reads
<1>8. CASE Queued(l) = {} /\ OnBus(l) = {}
  <2>1. l \notin mshr
    BY <1>3, <1>8
  <2> QED BY <1>5, <1>8, <2>1 DEF Reads
<1> QED BY <1>6, <1>7, <1>8

-----------------------------------------------------------------------------
(* RFMs keep up with the activations.                                      *)

\* Bank b serves no request in the next k cycles: it sleeps, and the transfer that
\* would shorten its sleep cannot be made so early that the bank wakes.
Rest(b, k) == /\ busy[b] /\ sleep[b] >= k - 1
              /\ \A e \in bus[b] : e.ready + tRDRD + 1 >= k

\* A bank at the limit has been waiting for as many cycles as groups had their RFM
\* before its own; none of them asks for another while their banks rest.
WaitsForRfm(b) ==
    /\ raa[b] = 3 * RfmTh /\ b \div GroupSize \in rfmSb
    /\ \E S \in SUBSET (0 .. (b \div GroupSize) - 1) :
          /\ S # {}
          /\ Rest(b, Groups - Cardinality(S))
          /\ \A g \in S : g \notin rfmSb /\ \A c \in BanksOf(g) :
                Rest(c, Groups - Cardinality(S))

RfmsOnTheirWay ==
    /\ RfmPolicy = "none" => \A b \in Bank : raa[b] = 0
    /\ RfmPolicy # "SB" => rfmSb = {} /\ \A b \in Bank : raa[b] < 3 * RfmTh
    /\ RfmPolicy = "SB" => \A b \in Bank : raa[b] < 3 * RfmTh \/ WaitsForRfm(b)

\* The hypothesis: to open a row, to move data and to do an RFM each takes so long
\* that every other group can have its RFM in the meantime.  The defaults are 8 groups
\* and tACT, tRDRD and tRFC of 48, 12 and 1640 cycles.
RestIsLongEnough ==
    \A c \in Configs : c.rfmPolicy = "SB" =>
        LET others == (c.banks \div c.groupSize) - 1 IN
        /\ c.tACT > 0
        /\ others <= c.tRDRD + 1
        /\ others <= c.tRFC \div 2

\* The same of the next state.
RestNext(b, k) == /\ busy'[b] /\ sleep'[b] >= k - 1
                  /\ \A e \in bus'[b] : e.ready + tRDRD + 1 >= k

LEMMA RestPasses ==
    ASSUME Types, Cycle, NEW b \in Bank, NEW k \in Int, k >= 1, Rest(b, k)
    PROVE  b \notin Serving(Moving) /\ RestNext(b, k - 1)
<1>1. /\ busy[b] /\ sleep[b] >= k - 1 /\ sleep[b] \in Int /\ bus[b] \subseteq Slot
      /\ \A e \in bus[b] : e.ready + tRDRD + 1 >= k
      /\ tRDRD \in Nat /\ tRDRD > 0
  <2>1. busy[b] /\ sleep[b] >= k - 1 /\ \A e \in bus[b] : e.ready + tRDRD + 1 >= k
    BY DEF Rest
  <2>2. sleep[b] \in Int /\ bus[b] \subseteq Slot
    BY DEF Types
  <2>3. tRDRD \in Nat /\ tRDRD > 0
    BY ConfigFacts DEF Types
  <2> QED BY <2>1, <2>2, <2>3
<1>2. StillBusy(b, Moving)
  BY <1>1 DEF StillBusy, Sleep
<1>3. b \notin Serving(Moving)
  BY <1>2 DEF Serving
<1>4. /\ busy'[b] /\ sleep'[b] >= Sleep(b, Moving) - 1 /\ sleep'[b] \in Int
  <2>1. sleep' \in [Bank -> Nat \cup {-1}] /\ busy'[b]
        /\ sleep'[b] >= Sleep(b, Moving) - 1
    BY <1>2, <1>3, CycleBanks
  <2> QED BY <2>1
<1>5. CASE b \in Moving
  <2>1. PICK e \in bus[b] : e.ready <= 0
    BY <1>5, MovingIsReady DEF ReadySlots
  <2>2. e.ready \in Nat
    BY <1>1 DEF Slot
  <2>3. tRDRD + 1 >= k
    BY <1>1, <2>1, <2>2
  <2>4. Sleep(b, Moving) = tRDRD
    BY <1>5 DEF Sleep
  <2>5. sleep'[b] >= k - 2
    BY <1>1, <1>4, <2>3, <2>4
  <2>6. bus'[b] = {}
    BY <1>3, <1>5, CycleQueues
  <2> QED BY <1>3, <1>4, <2>5, <2>6 DEF RestNext
<1>6. CASE b \notin Moving
  <2>1. Sleep(b, Moving) = sleep[b]
    BY <1>6 DEF Sleep
  <2>2. sleep'[b] >= k - 2
    BY <1>1, <1>4, <2>1
  <2>3. bus'[b] = {[e EXCEPT !.ready = Less(@)] : e \in bus[b]}
    BY <1>3, <1>6, CycleQueues
  <2>4. ASSUME NEW f \in bus'[b] PROVE f.ready + tRDRD + 1 >= k - 1
    <3>1. PICK e \in bus[b] : f = [e EXCEPT !.ready = Less(@)]
      BY <2>3
    <3>2. e \in Slot /\ e.ready \in Nat /\ e.ready + tRDRD + 1 >= k
      BY <1>1 DEF Slot
    <3>3. f.ready = Less(e.ready)
      BY <3>1, <3>2 DEF Slot
    <3>4. Less(e.ready) \in Nat /\ Less(e.ready) >= e.ready - 1
      BY <3>2 DEF Less
    <3> QED BY <1>1, <3>2, <3>3, <3>4
  <2> QED BY <1>3, <1>4, <2>2, <2>4 DEF RestNext
<1> QED BY <1>5, <1>6

LEMMA RestBegins ==
    ASSUME Types, InRoom, Cycle, NEW b \in Bank, NEW k \in Int, k <= tRDRD + 1,
           \/ b \in Opening /\ config.tACT > 0
           \/ Due # {} /\ b \in BanksOf(Min(Due)) /\ k <= tRFC \div 2
    PROVE  RestNext(b, k)
<1>1. tRDRD \in Nat /\ tRFC \in Nat /\ config.tACT \in Nat
  BY ConfigFacts DEF Types
<1>2. sleep'[b] \in Int
  <2>1. sleep' \in [Bank -> Nat \cup {-1}]
    BY CycleBanks
  <2> QED BY <2>1
<1>3. \A e \in bus'[b] : e.ready + tRDRD + 1 >= k
  <2>1. bus' \in [Bank -> SUBSET Slot]
    <3>1. config' = config /\ Types'
      BY CycleQueues, CycleTypes
    <3>2. Bank' = Bank /\ Slot' = Slot
      BY <3>1, SteadyConfig
    <3> QED BY <3>1, <3>2 DEF Types
  <2>2. \A e \in bus'[b] : e.ready \in Nat
    BY <2>1 DEF Slot
  <2> QED BY <1>1, <2>2
<1>4. CASE b \in Opening /\ config.tACT > 0
  <2>1. busy'[b] /\ sleep'[b] >= config.tACT + tRDRD - 1
    BY <1>4, CycleBanks DEF Opening
  <2>2. sleep'[b] >= k - 1
    BY <1>1, <1>2, <1>4, <2>1
  <2> QED BY <1>3, <2>1, <2>2 DEF RestNext
<1>5. CASE Due # {} /\ b \in BanksOf(Min(Due)) /\ k <= tRFC \div 2
  <2>1. busy'[b] /\ sleep'[b] >= (tRFC \div 2) - 1
    BY <1>5, CycleBanks
  <2>2. tRFC \div 2 \in Nat
    BY <1>1, Division
  <2>3. sleep'[b] >= k - 1
    BY <1>2, <1>5, <2>1, <2>2
  <2> QED BY <1>3, <2>1, <2>3 DEF RestNext
<1> QED BY <1>4, <1>5

\* The groups whose RFM is due, of which the first one has its own.
LEMMA FirstDue ==
    ASSUME Types, NEW g \in Due
    PROVE  /\ Due \subseteq 0 .. Groups - 1 /\ Min(Due) \in Due
           /\ Min(Due) \in Nat /\ g \in Nat /\ Min(Due) <= g
<1>1. Wants \subseteq Bank
  BY DEF Wants, Opening, Serving
<1>2. config \in Configs
  BY DEF Types
<1>3. Due \subseteq 0 .. Groups - 1
  BY <1>1, <1>2, GroupOf DEF Due, Types
<1>4. Due \in SUBSET Nat /\ Due # {}
  BY <1>3
<1> QED BY <1>3, <1>4, MinOfNats

\* One bank in a cycle with RFMs per group.
LEMMA CycleRfm ==
    ASSUME RestIsLongEnough, Types, InRoom, RfmsOnTheirWay, Cycle, RfmPolicy = "SB",
           NEW b \in Bank
    PROVE  raa'[b] < 3 * RfmTh \/ WaitsForRfm(b)'
<1> DEFINE g == b \div GroupSize
           h == Min(Due)
           G == Groups
           Th == RfmTh
<1>1. /\ config \in Configs /\ Th \in Nat /\ Th > 0 /\ raa[b] \in Nat
      /\ tRDRD \in Nat /\ tRFC \in Nat
  BY ConfigFacts DEF Types
<1>2. G \in Nat /\ G > 0 /\ g \in 0 .. G - 1 /\ b \in BanksOf(g)
  BY <1>1, GroupOf
<1>3. config.tACT > 0 /\ G - 1 <= tRDRD + 1 /\ G - 1 <= tRFC \div 2
  BY <1>1 DEF RestIsLongEnough, RfmPolicy, Groups, Banks, GroupSize, tRDRD, tRFC
<1>4. raa'[b] \in Nat /\ raa'[b] <= Counted(b)
  <2>1. raa' \in [Bank -> Nat] /\ raa'[b] <= Counted(b)
    BY CycleBanks
  <2> QED BY <2>1
<1>5. rfmSb' = IF Due = {} THEN {} ELSE Due \ {h}
  BY CycleBanks
<1>6. config' = config
  BY CycleQueues
<1>7. /\ GroupSize' = GroupSize /\ Groups' = Groups /\ RfmTh' = RfmTh /\ tRDRD' = tRDRD
  BY <1>6, SteadyConfig
<1>8. \A i : BanksOf(i)' = BanksOf(i)
  BY <1>6, SteadyConfig
<1>9. SUFFICES ASSUME raa'[b] >= 3 * Th PROVE WaitsForRfm(b)'
  BY <1>1, <1>4
\* The bank is at the limit: its group waits, another one has its RFM.
<1>10. ASSUME Counted(b) <= 3 * Th, Counted(b) \in Nat, g \in Due
       PROVE  /\ raa'[b] = 3 * Th /\ g \in rfmSb'
              /\ h \in 0 .. g - 1 /\ h \notin rfmSb'
              /\ \A c \in BanksOf(h) : RestNext(c, G - 1)
  <2>1. raa'[b] = 3 * Th
    BY <1>1, <1>4, <1>9, <1>10
  <2>2. h \in Due /\ h \in Nat /\ g \in Nat /\ h <= g
    BY <1>10, FirstDue
  <2>3. h # g
    <3> SUFFICES ASSUME h = g PROVE FALSE
      OBVIOUS
    <3>1. raa'[b] <= Reduced(Counted(b), RfmTh)
      BY <1>2, <1>10, CycleBanks
    <3> QED BY <1>1, <1>10, <2>1, <3>1 DEF Reduced
  <2>4. \A c \in BanksOf(h) : c \in Bank
    BY DEF BanksOf
  <2>5. ASSUME NEW c \in BanksOf(h) PROVE RestNext(c, G - 1)
    <3>1. c \in Bank /\ G - 1 \in Int /\ Due # {} /\ c \in BanksOf(Min(Due))
      BY <1>2, <2>2, <2>4
    <3> HIDE DEF h, G
    <3> QED BY <1>3, <3>1, RestBegins
  <2> HIDE DEF h, g, G
  <2> QED BY <1>5, <1>10, <2>1, <2>2, <2>3, <2>5
<1>11. ASSUME NEW S \in SUBSET (0 .. g - 1), S # {},
              raa'[b] = 3 * Th, g \in rfmSb', RestNext(b, G - Cardinality(S)),
              \A i \in S : i \notin rfmSb' /\ \A c \in BanksOf(i) :
                              RestNext(c, G - Cardinality(S))
       PROVE  WaitsForRfm(b)'
  BY <1>6, <1>7, <1>8, <1>11 DEF WaitsForRfm, Rest, RestNext, BanksOf, Bank, Banks,
     GroupSize
<1>12. CASE raa[b] < 3 * Th
  <2>1. Counted(b) <= 3 * Th /\ Counted(b) \in Nat
    BY <1>1, <1>12 DEF Counted
  <2>2. b \in Opening /\ raa[b] + 1 >= 3 * Th
    BY <1>1, <1>4, <1>9, <1>12 DEF Counted
  <2>3. g \in Due
    BY <2>2 DEF Due, Wants, WantsRfm
  <2>4. /\ raa'[b] = 3 * Th /\ g \in rfmSb'
        /\ h \in 0 .. g - 1 /\ h \notin rfmSb'
        /\ \A c \in BanksOf(h) : RestNext(c, G - 1)
    BY <1>10, <2>1, <2>3
  <2>5. RestNext(b, G - 1)
    <3>1. G - 1 \in Int
      BY <1>2
    <3> HIDE DEF G
    <3> QED BY <1>3, <2>2, <3>1, RestBegins
  <2>6. Cardinality({h}) = 1
    BY FS_Singleton
  <2> HIDE DEF h, g, G
  <2> QED BY <1>11, <2>4, <2>5, <2>6
<1>13. CASE WaitsForRfm(b)
  <2>1. PICK S \in SUBSET (0 .. g - 1) :
           /\ S # {} /\ Rest(b, G - Cardinality(S))
           /\ \A i \in S : i \notin rfmSb /\ \A c \in BanksOf(i) :
                 Rest(c, G - Cardinality(S))
    BY <1>13 DEF WaitsForRfm
  <2> DEFINE n == Cardinality(S)
  <2>2. IsFiniteSet(S) /\ n \in Nat /\ n >= 1 /\ n <= g
    <3>1. IsFiniteSet(0 .. g - 1) /\ Cardinality(0 .. g - 1) = g
      <4>1. 0 \in Int /\ g - 1 \in Int /\ g \in Nat
        BY <1>2
      <4>2. /\ IsFiniteSet(0 .. g - 1)
            /\ Cardinality(0 .. g - 1) = IF 0 > g - 1 THEN 0 ELSE (g - 1) - 0 + 1
        <5> HIDE DEF g
        <5> QED BY <4>1, FS_Interval
      <4> HIDE DEF g
      <4> QED BY <4>1, <4>2
    <3>2. IsFiniteSet(S) /\ n <= g
      BY <3>1, FS_Subset
    <3>3. n \in Nat /\ n # 0
      BY <2>1, <3>2, FS_CardinalityType, FS_EmptySet
    <3> QED BY <3>2, <3>3
  <2>3. G - n \in Int /\ G - n >= 1
    BY <1>2, <2>2
  <2> DEFINE k == G - n
  <2>4. b \notin Serving(Moving) /\ RestNext(b, k - 1)
    <3>1. k \in Int /\ k >= 1 /\ Rest(b, k)
      BY <2>1, <2>3
    <3> HIDE DEF k
    <3> QED BY <3>1, RestPasses
  <2>5. ASSUME NEW i \in S, NEW c \in BanksOf(i)
        PROVE  c \notin Serving(Moving) /\ RestNext(c, k - 1)
    <3>1. k \in Int /\ k >= 1 /\ Rest(c, k) /\ c \in Bank
      BY <2>1, <2>3 DEF BanksOf
    <3> HIDE DEF k
    <3> QED BY <3>1, RestPasses
  <2>6. ASSUME NEW i \in S PROVE i \notin Due
    <3>1. ASSUME NEW c \in Wants PROVE c \div GroupSize # i
      <4>1. c \in Serving(Moving) /\ c \in Bank
        BY DEF Wants, Opening, Serving
      <4> QED BY <2>5, <4>1 DEF BanksOf
    <3> QED BY <2>1, <3>1 DEF Due
  <2>7. Counted(b) = 3 * Th /\ g \in Due
    BY <1>13, <2>4 DEF Counted, Opening, WaitsForRfm, Due
  <2>8. /\ raa'[b] = 3 * Th /\ g \in rfmSb'
        /\ h \in 0 .. g - 1 /\ h \notin rfmSb'
        /\ \A c \in BanksOf(h) : RestNext(c, G - 1)
    BY <1>1, <1>10, <2>7
  <2>9. h \in Due
    BY <2>7, FirstDue
  <2>10. h \notin S
    BY <2>6, <2>9
  <2> DEFINE T == S \cup {h}
  <2>11. Cardinality(T) = n + 1
    BY <2>2, <2>10, FS_AddElement
  <2>12. T \in SUBSET (0 .. g - 1) /\ T # {}
    BY <2>8
  <2>13. G - Cardinality(T) = k - 1 /\ k - 1 \in Int /\ k - 1 <= G - 1
    BY <1>2, <2>2, <2>11
  <2>14. ASSUME NEW c \in BanksOf(h) PROVE RestNext(c, k - 1)
    <3>1. RestNext(c, G - 1)
      BY <2>8
    <3>2. sleep'[c] \in Int /\ \A e \in bus'[c] : e.ready \in Nat
      <4>1. c \in Bank
        BY DEF BanksOf
      <4>2. Types' /\ Bank' = Bank /\ Slot' = Slot
        BY <1>6, CycleTypes, SteadyConfig
      <4>3. sleep' \in [Bank -> Nat \cup {-1}] /\ bus' \in [Bank -> SUBSET Slot]
        BY <4>2 DEF Types
      <4>4. bus'[c] \in SUBSET Slot
        BY <4>1, <4>3
      <4> QED BY <4>1, <4>3, <4>4 DEF Slot
    <3> HIDE DEF k, G
    <3>3. G \in Int
      BY <1>2
    <3> QED BY <1>1, <2>13, <3>1, <3>2, <3>3 DEF RestNext
  <2>15. ASSUME NEW i \in T
         PROVE  i \notin rfmSb' /\ \A c \in BanksOf(i) : RestNext(c, k - 1)
    <3>1. rfmSb' \subseteq Due
      BY <1>5
    <3> HIDE DEF k, h
    <3>2. CASE i \in S
      BY <2>5, <2>6, <3>1, <3>2
    <3>3. CASE i = h
      BY <2>8, <2>14, <3>3
    <3> QED BY <3>2, <3>3
  <2> HIDE DEF T, h, k, G, g
  <2> QED BY <1>11, <2>4, <2>8, <2>12, <2>13, <2>15
<1> QED BY <1>12, <1>13 DEF RfmsOnTheirWay

LEMMA NextRfm ==
    ASSUME RestIsLongEnough, Types, InRoom, RfmsOnTheirWay, Cycle
    PROVE  RfmsOnTheirWay'
<1>1. /\ config \in Configs /\ RfmTh \in Nat /\ RfmTh > 0
      /\ RfmPolicy \in {"none", "SB", "AB"} /\ raa \in [Bank -> Nat]
  BY ConfigFacts DEF Types
<1>2. config' = config
  BY CycleQueues
<1>3. RfmPolicy' = RfmPolicy /\ Bank' = Bank /\ RfmTh' = RfmTh
  BY <1>2, SteadyConfig
<1>4. raa' \in [Bank -> Nat] /\ \A b \in Bank : raa'[b] <= Counted(b)
  BY CycleBanks
<1>5. CASE RfmPolicy = "none"
  <2>1. rfmSb' = {}
    BY <1>5, CycleBanks DEF Due
  <2>2. ASSUME NEW b \in Bank PROVE raa'[b] = 0
    <3>1. Counted(b) = 0
      BY <1>5 DEF Counted, RfmsOnTheirWay
    <3> QED BY <1>4, <3>1
  <2> QED BY <1>1, <1>3, <1>5, <2>1, <2>2 DEF RfmsOnTheirWay
<1>6. CASE RfmPolicy = "AB"
  <2>1. rfmSb' = {}
    BY <1>6, CycleBanks DEF Due
  <2>2. ASSUME NEW b \in Bank PROVE raa'[b] < 3 * RfmTh
    <3>1. raa[b] \in Nat /\ raa[b] < 3 * RfmTh /\ raa'[b] \in Nat
      BY <1>1, <1>4, <1>6 DEF RfmsOnTheirWay
    <3>2. CASE Wants = {}
      <4>1. ~(b \in Opening /\ raa[b] + 1 >= 3 * RfmTh)
        BY <1>6, <3>2 DEF Wants, WantsRfm
      <4>2. Counted(b) < 3 * RfmTh /\ Counted(b) \in Nat
        BY <1>1, <3>1, <4>1 DEF Counted
      <4> QED BY <1>1, <1>4, <3>1, <4>2
    <3>3. CASE Wants # {}
      <4>1. raa'[b] <= Reduced(Counted(b), RfmTh)
        BY <1>6, <3>3, CycleBanks
      <4>2. Counted(b) <= 3 * RfmTh /\ Counted(b) \in Nat
        BY <1>1, <3>1 DEF Counted
      <4>3. Reduced(Counted(b), RfmTh) < 3 * RfmTh /\ Reduced(Counted(b), RfmTh) \in Nat
        BY <1>1, <4>2 DEF Reduced
      <4> QED BY <1>1, <3>1, <4>1, <4>3
    <3> QED BY <3>2, <3>3
  <2> QED BY <1>3, <1>6, <2>1, <2>2 DEF RfmsOnTheirWay
<1>7. CASE RfmPolicy = "SB"
  <2>1. \A b \in Bank : raa'[b] < 3 * RfmTh \/ WaitsForRfm(b)'
    BY <1>7, CycleRfm
  <2> QED BY <1>3, <1>7, <2>1 DEF RfmsOnTheirWay
<1> QED BY <1>1, <1>5, <1>6, <1>7

LEMMA AccessRfm ==
    ASSUME Types, RfmsOnTheirWay, NEW l, NEW ws, Access(l, ws)
    PROVE  RfmsOnTheirWay'
<1>1. /\ config' = config /\ busy' = busy /\ sleep' = sleep /\ raa' = raa
      /\ bus' = bus /\ rfmSb' = rfmSb
  BY DEF Access, rfmVars
<1> QED BY <1>1 DEF RfmsOnTheirWay, WaitsForRfm, Rest, RfmPolicy, RfmTh, Bank, Banks,
             Groups, GroupSize, BanksOf, tRDRD

LEMMA InitRfm == Init => RfmsOnTheirWay
<1> SUFFICES ASSUME Init PROVE RfmsOnTheirWay
  OBVIOUS
<1>1. config \in Configs
  BY DEF Init
<1>2. RfmTh \in Nat /\ RfmTh > 0
  BY <1>1, ConfigFacts
<1> QED BY <1>2 DEF Init, RfmsOnTheirWay

-----------------------------------------------------------------------------
(* The theorems.                                                           *)

LegacyInv == Types /\ InRoom /\ OneReadEach

LEMMA InductiveStep == LegacyInv /\ [Next]_vars => LegacyInv'
<1> SUFFICES ASSUME LegacyInv, [Next]_vars PROVE LegacyInv'
  OBVIOUS
<1> USE DEF LegacyInv
<1>1. ASSUME NEW l \in config.lines, Access(l, {}) PROVE LegacyInv'
  <2>1. {} \in SUBSET config.writeBacks
    OBVIOUS
  <2> QED BY <1>1, <2>1, AccessTypes, AccessReads
<1>2. ASSUME NEW l \in config.lines, NEW w \in config.writeBacks \ {l}, Access(l, {w})
      PROVE  LegacyInv'
  <2>1. {w} \in SUBSET config.writeBacks
    OBVIOUS
  <2> QED BY <1>2, <2>1, AccessTypes, AccessReads
<1>3. CASE Cycle
  BY <1>3, CycleTypes, CycleReads
<1>4. CASE UNCHANGED vars
  <2>1. /\ config' = config /\ queue' = queue /\ row' = row /\ open' = open
        /\ busy' = busy /\ sleep' = sleep /\ raa' = raa /\ bus' = bus
        /\ sinceBus' = sinceBus /\ rfmSb' = rfmSb /\ refsbPtr' = refsbPtr
        /\ sinceRef' = sinceRef /\ clk' = clk /\ mshr' = mshr
    BY <1>4 DEF vars, bankVars, rfmVars
  <2>2. /\ Bank' = Bank /\ Line' = Line /\ QueueSize' = QueueSize /\ Groups' = Groups
        /\ tRDRD' = tRDRD /\ tREFI' = tREFI /\ Request' = Request /\ Slot' = Slot
    BY <2>1, SteadyConfig
  <2>3. {RowOf(k) : k \in Line}' = {RowOf(k) : k \in Line}
    BY <2>1, <2>2 DEF RowOf, Banks
  <2>4. Types' /\ InRoom'
    BY <2>1, <2>2, <2>3 DEF Types, InRoom
  <2>5. OneReadEach'
    BY <2>1, <2>2 DEF OneReadEach, Bankwise, IsReadOf, BankOf, Banks
  <2> QED BY <2>4, <2>5
<1> QED BY <1>1, <1>2, <1>3, <1>4 DEF Next

\* In every configuration the queues of the banks stay within NUM_DRAM_BANK_ENTRIES
\* and a bank has at most one request on the bus; sleeping times, activation counts,
\* the groups whose RFM waits and refsb_ptr keep their ranges.
THEOREM TypeInvariant == Spec => []TypeOK
<1>1. Init => LegacyInv
  BY InitTypes, InitReads DEF LegacyInv
<1>2. LegacyInv => TypeOK
  <2> SUFFICES ASSUME LegacyInv PROVE TypeOK
    OBVIOUS
  <2>1. Types /\ InRoom /\ OneReadEach
    BY DEF LegacyInv
  <2>2. ASSUME NEW b \in Bank
        PROVE  /\ queue[b] \in Seq(Request) /\ Len(queue[b]) <= QueueSize
               /\ Cardinality(bus[b]) <= 1
               /\ \A e \in bus[b] : e.ready \in Nat
    <3>1. \A e, f \in bus[b] : e = f
      BY <2>1 DEF OneReadEach, Bankwise
    <3>2. bus[b] = {} \/ \E e \in bus[b] : bus[b] = {e}
      BY <3>1
    <3>3. Cardinality(bus[b]) <= 1
      <4>1. Cardinality({}) = 0 /\ \A e : Cardinality({e}) = 1
        BY FS_EmptySet, FS_Singleton
      <4> QED BY <3>2, <4>1
    <3>4. bus[b] \in SUBSET Slot
      BY <2>1 DEF Types
    <3>5. \A e \in bus[b] : e.ready \in Nat
      BY <3>4 DEF Slot
    <3>6. queue[b] \in Seq(Request) /\ Len(queue[b]) <= QueueSize
      BY <2>1 DEF Types, InRoom
    <3> QED BY <3>3, <3>5, <3>6
  <2> QED BY <2>1, <2>2 DEF TypeOK, Types
<1> QED BY <1>1, <1>2, InductiveStep, PTL DEF Spec

\* A line is registered in MemSys::mshr exactly while one read of it is in the queue
\* of its bank or waits for the bus: memsys_callback finds the line, and no miss waits
\* for a read that the DRAM lost, whatever the sizes, the scheduling and the policies.
THEOREM OneReadPerWaiter == Spec => []EveryWaiterHasItsRead
<1>1. Init => LegacyInv
  BY InitTypes, InitReads DEF LegacyInv
<1>2. LegacyInv => EveryWaiterHasItsRead
  BY ReadsAreWaiters DEF LegacyInv
<1> QED BY <1>1, <1>2, InductiveStep, PTL DEF Spec

\* If a bank rests for long enough, no bank is activated more than 3 * RFM_TH times
\* that no refresh or RFM has made up for, although only one group has its RFM in a
\* cycle and the groups with lower numbers always go first.
THEOREM RfmsInTime == RestIsLongEnough /\ Spec => []RaaBounded
<1> SUFFICES ASSUME RestIsLongEnough PROVE Spec => []RaaBounded
  OBVIOUS
<1> DEFINE Inv == LegacyInv /\ RfmsOnTheirWay
<1>1. Init => Inv
  BY InitTypes, InitReads, InitRfm DEF LegacyInv
<1>2. Inv /\ [Next]_vars => Inv'
  <2> SUFFICES ASSUME LegacyInv, RfmsOnTheirWay, [Next]_vars
               PROVE  RfmsOnTheirWay'
    BY InductiveStep
  <2>1. Types /\ InRoom
    BY DEF LegacyInv
  <2>2. ASSUME NEW l, NEW ws, Access(l, ws) PROVE RfmsOnTheirWay'
    BY <2>1, <2>2, AccessRfm
  <2>3. CASE Cycle
    BY <2>1, <2>3, NextRfm
  <2>4. CASE UNCHANGED vars
    BY <2>4 DEF vars, bankVars, rfmVars, RfmsOnTheirWay, WaitsForRfm, Rest, RfmPolicy,
       RfmTh, Bank, Banks, Groups, GroupSize, BanksOf, tRDRD
  <2> QED BY <2>2, <2>3, <2>4 DEF Next
<1>3. Inv => RaaBounded
  <2> SUFFICES ASSUME LegacyInv, RfmsOnTheirWay PROVE RaaBounded
    OBVIOUS
  <2>1. RfmPolicy \in {"none", "SB", "AB"}
    BY ConfigFacts DEF LegacyInv, Types
  <2> QED BY <2>1 DEF RfmsOnTheirWay, WaitsForRfm, RaaBounded
<1> HIDE DEF Inv
<1> QED BY <1>1, <1>2, <1>3, PTL DEF Spec
====

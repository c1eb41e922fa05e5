-------------------------- MODULE ChannelStateProofs --------------------------
(***************************************************************************)
(* Proofs, for every set of configurations, of the safety properties of    *)
(* refreshes, refresh management and self-refresh in a channel.            *)
(***************************************************************************)
EXTENDS ChannelState, SequenceTheorems, FiniteSetTheorems, TLAPS

RfmCmds == {RankCmd("RFMab", r) : r \in RankIds}
           \cup {SbCmd("RFMsb", r, k) : r \in RankIds, k \in 0 .. config.banksPerGroup - 1}

Types ==
    /\ config \in Configs
    /\ next \in Bank
    /\ refreshQ \in Seq(Units(config)) /\ rfmQ \in Seq(RfmCmds)
    /\ inRef \in BOOLEAN /\ inRfm \in BOOLEAN
    /\ state \in [Bank -> {"OPEN", "CLOSED", "SREF"}]
    /\ raa \in [Bank -> Nat]
    /\ cmds \in [Bank -> Nat]
    /\ rankQEmpty \in [RankIds -> BOOLEAN]

\* A rank sleeps as a whole, and only with enable_self_refresh.
RanksSleepWhole ==
    \A a, b \in Bank : a.rank = b.rank /\ state[a] = "SREF" =>
                          state[b] = "SREF" /\ config.enableSelfRefresh

\* The refresh or RFM that has been taken up is the one at the head of its queue,
\* and the blocked banks are the ones it goes to.
TakenUp ==
    /\ IF inRef THEN refreshQ # << >> /\ refIdx = Targets(Head(refreshQ))
       ELSE refIdx = {}
    /\ IF inRfm THEN rfmQ # << >> /\ rfmIdx = Targets(Head(rfmQ))
       ELSE rfmIdx = {}

\* rank_q_empty is false for a rank with demand commands and for one with an RFM,
\* which a demand command has asked for; or else an alert that is over turns away
\* the bank refresh that has asked for it.
QueuesWereFilled ==
    /\ \A b \in Bank : cmds[b] > 0 => ~rankQEmpty[b.rank]
    /\ \A i \in 1 .. Len(rfmQ) :
          \/ ~rankQEmpty[rfmQ[i].rank]
          \/ /\ alert = "over" /\ refreshQ # << >>
             /\ Head(refreshQ).type = "REFRESH_BANK"
             /\ Head(refreshQ).rank = rfmQ[i].rank

ChannelInv == Types /\ RanksSleepWhole /\ TakenUp /\ QueuesWereFilled /\ RfmsKeepUp

\* Where ranks sleep, one refresh is due at most.
OneRefreshDue == \A c \in Configs : c.enableSelfRefresh => c.maxRefreshes <= 1

\* A refresh never waits for a rank that sleeps.
NoRefreshAsleep ==
    /\ config.enableSelfRefresh => Len(refreshQ) <= 1
    /\ \A i \in 1 .. Len(refreshQ), b \in Bank :
          b.rank = refreshQ[i].rank => state[b] # "SREF"

SleepInv == ChannelInv /\ NoRefreshAsleep /\ NoIllegalCommand

-----------------------------------------------------------------------------
(* Sequences.                                                              *)

\* What is left of a sequence without its element i.
LEMMA RemoveAtShape ==
    ASSUME NEW S, NEW s \in Seq(S), NEW i \in 1 .. Len(s)
    PROVE  /\ RemoveAt(s, i) \in Seq(S)
           /\ Len(RemoveAt(s, i)) = Len(s) - 1
           /\ \A j \in 1 .. Len(s) - 1 :
                 RemoveAt(s, i)[j] = IF j < i THEN s[j] ELSE s[j + 1]
<1> DEFINE f == SubSeq(s, 1, i - 1)
           g == SubSeq(s, i + 1, Len(s))
<1>1. f \in Seq(S) /\ Len(f) = i - 1 /\ \A j \in 1 .. i - 1 : f[j] = s[j]
  OBVIOUS
<1>2. /\ g \in Seq(S)
      /\ Len(g) = Len(s) - i
      /\ \A j \in 1 .. Len(s) - i : g[j] = s[j + i]
  OBVIOUS
<1>3. RemoveAt(s, i) = f \o g
  BY DEF RemoveAt
<1>4. /\ f \o g \in Seq(S)
      /\ Len(f \o g) = Len(s) - 1
      /\ \A j \in 1 .. Len(s) - 1 :
            (f \o g)[j] = IF j < i THEN f[j] ELSE g[j - (i - 1)]
  <2> HIDE DEF f, g
  <2>1. /\ f \o g \in Seq(S)
        /\ Len(f \o g) = Len(f) + Len(g)
        /\ \A j \in 1 .. Len(f) + Len(g) :
              (f \o g)[j] = IF j <= Len(f) THEN f[j] ELSE g[j - Len(f)]
    BY <1>1, <1>2, ConcatProperties
  <2> QED BY <1>1, <1>2, <2>1
<1>5. ASSUME NEW j \in 1 .. Len(s) - 1
      PROVE  (f \o g)[j] = IF j < i THEN s[j] ELSE s[j + 1]
  <2>1. CASE j < i
    <3> HIDE DEF f, g
    <3> QED BY <2>1, <1>1, <1>4
  <2>2. CASE ~(j < i)
    <3>1. j - (i - 1) \in 1 .. Len(s) - i
      BY <2>2
    <3>2. g[j - (i - 1)] = s[j + 1]
      <4> HIDE DEF f, g
      <4> QED BY <3>1, <1>2
    <3> HIDE DEF f, g
    <3> QED BY <2>2, <3>2, <1>4
  <2> QED BY <2>1, <2>2
<1> QED BY <1>3, <1>4, <1>5

Longer(q, r) == Len(q) <= Len(r) /\ \A i \in 1 .. Len(q) : r[i] = q[i]

LEMMA LongerIsPrefix ==
    ASSUME NEW S, NEW q \in Seq(S), NEW r \in Seq(S), Longer(q, r)
    PROVE  IsPrefix(q, r)
<1>1. /\ Len(q) \in Nat /\ Len(r) \in Nat /\ Len(q) <= Len(r)
      /\ \A i \in 1 .. Len(q) : r[i] = q[i]
  BY DEF Longer
<1> DEFINE f == SubSeq(q, 1, Len(q))
           g == SubSeq(r, 1, Len(q))
<1>2. f \in Seq(S) /\ Len(f) = Len(q) /\ \A i \in 1 .. Len(q) : f[i] = q[i]
  BY <1>1
<1>3. g \in Seq(S) /\ Len(g) = Len(q) /\ \A i \in 1 .. Len(q) : g[i] = r[i]
  BY <1>1
<1> HIDE DEF f, g
<1>4. f = g
  <2>1. \A i \in 1 .. Len(f) : f[i] = g[i]
    BY <1>1, <1>2, <1>3
  <2> QED BY <1>2, <1>3, <2>1, SeqEqual
<1> QED BY <1>1, <1>4 DEF IsPrefix, f, g

\* A set of at most one element as a sequence.
LEMMA SmallSetToSeq ==
    ASSUME NEW U, NEW S \in SUBSET U, \A u, v \in S : u = v
    PROVE  /\ SetToSeq(S) \in Seq(U)
           /\ Len(SetToSeq(S)) <= 1
           /\ \A i \in 1 .. Len(SetToSeq(S)) : SetToSeq(S)[i] \in S
           /\ S # {} => Len(SetToSeq(S)) = 1
<1>1. CASE S = {}
  <2>1. Cardinality(S) = 0
    BY <1>1, FS_EmptySet
  <2>2. SetToSeq(S) = CHOOSE f \in [1 .. 0 -> S] : IsInjective(f)
    BY <2>1 DEF SetToSeq
  <2>3. << >> \in [1 .. 0 -> S] /\ IsInjective(<< >>)
    BY DEF IsInjective
  <2>4. SetToSeq(S) \in [1 .. 0 -> S]
    BY <2>2, <2>3
  <2>5. SetToSeq(S) = << >>
    BY <2>4
  <2>6. /\ SetToSeq(S) \in Seq(U)
        /\ Len(SetToSeq(S)) <= 1
        /\ \A i \in 1 .. Len(SetToSeq(S)) : SetToSeq(S)[i] \in S
    BY <2>5
  <2> QED BY <1>1, <2>6
<1>2. CASE S # {}
  <2>1. PICK u \in S : S = {u}
    BY <1>2
  <2>2. Cardinality(S) = 1
    BY <2>1, FS_Singleton
  <2>3. SetToSeq(S) = CHOOSE f \in [1 .. 1 -> S] : IsInjective(f)
    BY <2>2 DEF SetToSeq
  <2>4. [i \in 1 .. 1 |-> u] \in [1 .. 1 -> S] /\ IsInjective([i \in 1 .. 1 |-> u])
    BY DEF IsInjective
  <2>5. SetToSeq(S) \in [1 .. 1 -> S]
    BY <2>3, <2>4
  <2>6. SetToSeq(S) \in [1 .. 1 -> U] /\ SetToSeq(S)[1] \in S
    BY <2>5
  <2>7. SetToSeq(S) \in Seq(U) /\ Len(SetToSeq(S)) = 1
    <3> DEFINE f == SetToSeq(S)
    <3>1. f \in Seq(U)
      <4>1. \E n \in Nat : f \in [1 .. n -> U]
        BY <2>6
      <4> HIDE DEF f
      <4> QED BY <4>1, SeqDef
    <3>2. DOMAIN f = 1 .. 1
      BY <2>6
    <3> HIDE DEF f
    <3>3. DOMAIN f = 1 .. Len(f) /\ Len(f) \in Nat
      BY <3>1, LenProperties
    <3>4. Len(f) = 1
      BY <3>2, <3>3
    <3> QED BY <3>1, <3>4 DEF f
  <2> QED BY <2>6, <2>7
<1> QED BY <1>1, <1>2

-----------------------------------------------------------------------------
(* Configurations, addresses and the queues.                               *)

LEMMA ConfigTypes ==
    ASSUME Types
    PROVE  /\ config \in Configuration
           /\ config.policy \in Policies
           /\ config.ranks \in Nat \ {0} /\ config.bankGroups \in Nat \ {0}
           /\ config.banksPerGroup \in Nat \ {0}
           /\ config.enableSelfRefresh \in BOOLEAN /\ config.maxRefreshes \in Nat
           /\ config.rfmMode \in 0 .. 2 /\ config.raammt \in Nat
           /\ config.refRaaDecrement \in Nat /\ config.rfmRaaDecrement \in Nat
           /\ config.alertMode \in 0 .. 1 /\ config.aboGrace \in BOOLEAN
           /\ config.aboDelayActs \in Nat
<1>1. config \in Configuration
  BY ChannelConstants DEF Types
<1> QED BY <1>1 DEF Configuration

LEMMA BankFields ==
    ASSUME NEW b \in Bank
    PROVE  /\ b.rank \in RankIds /\ b.bg \in 0 .. config.bankGroups - 1
           /\ b.bank \in 0 .. config.banksPerGroup - 1
           /\ b.bg # All /\ b.bank # All
           /\ b = [rank |-> b.rank, bg |-> b.bg, bank |-> b.bank]
BY DEF Bank, BankAddr, RankIds, All

\* A bank command goes to its bank, a rank command to all banks of its rank.
LEMMA TargetsFacts ==
    /\ \A type : \A b \in Bank : Targets(Cmd(type, b)) = {b}
    /\ \A type, r : Targets(RankCmd(type, r)) = {b \in Bank : b.rank = r}
<1>1. ASSUME NEW type, NEW b \in Bank PROVE Targets(Cmd(type, b)) = {b}
  <2>1. \A a \in Bank : a \in Targets(Cmd(type, b)) <=>
            a.rank = b.rank /\ a.bg = b.bg /\ a.bank = b.bank
    <3>1. b.bg # All /\ b.bank # All
      BY BankFields
    <3> QED BY <3>1 DEF Targets, Cmd
  <2>2. ASSUME NEW a \in Bank, a.rank = b.rank, a.bg = b.bg, a.bank = b.bank
        PROVE  a = b
    BY <2>2, BankFields
  <2>3. Targets(Cmd(type, b)) \subseteq Bank
    BY DEF Targets
  <2> QED BY <2>1, <2>2, <2>3
<1>2. ASSUME NEW type, NEW r PROVE Targets(RankCmd(type, r)) = {b \in Bank : b.rank = r}
  BY DEF Targets, RankCmd
<1> QED BY <1>1, <1>2

LEMMA UnitFacts ==
    ASSUME NEW u \in Units(config)
    PROVE  /\ u.rank \in RankIds /\ IsRefresh(u) /\ ~IsRFM(u)
           /\ Covers(u, u)
           /\ u.type \notin {"ACTIVATE", "PRECHARGE", "COLUMN", "COLUMN_PRECHARGE",
                             "SREF_ENTER", "SREF_EXIT", "none"}
<1>1. PICK b \in Bank : u = UnitOf(config, b)
  BY DEF Units, Bank
<1>2. RefreshType(config) \in {"REFab", "REFsb", "REFRESH_BANK"}
  BY DEF RefreshType
<1>3. u.type = RefreshType(config) /\ u.rank = b.rank
  BY <1>1 DEF UnitOf
<1>4. u.rank \in RankIds
  BY <1>3, BankFields
<1> QED BY <1>2, <1>3, <1>4 DEF IsRefresh, IsRFM, Covers

LEMMA RfmCmdFacts ==
    ASSUME NEW c \in RfmCmds
    PROVE  /\ c.rank \in RankIds /\ IsRFM(c) /\ ~IsRefresh(c)
           /\ Covers(c, c) /\ c.bg = All
           /\ c.type \notin {"ACTIVATE", "PRECHARGE", "COLUMN", "COLUMN_PRECHARGE",
                             "SREF_ENTER", "SREF_EXIT", "none"}
BY DEF RfmCmds, RankCmd, SbCmd, IsRFM, IsRefresh, Covers

\* Refresh::InsertRefresh asks for one refresh at most, of a rank that is awake.
LEMMA NewRefreshesFacts ==
    ASSUME Types
    PROVE  /\ NewRefreshes \in Seq(Units(config)) /\ Len(NewRefreshes) <= 1
           /\ \A i \in 1 .. Len(NewRefreshes) : NewRefreshes[i].rank \notin Asleep
<1> DEFINE S == Requested(config, next, Asleep)
<1>1. /\ S \subseteq Units(config)
      /\ \A u \in S : u.rank \notin Asleep
      /\ \A u, v \in S : u = v
  <2>1. CASE config.policy = "RANK_LEVEL_SIMULTANEOUS"
    <3>1. S = {u \in Units(config) : /\ u.rank \notin Asleep
                                     /\ \A r \in 0 .. u.rank - 1 : r \in Asleep}
      BY <2>1 DEF Requested
    <3>2. RefreshType(config) = "REFab"
      BY <2>1 DEF RefreshType
    <3>3. ASSUME NEW u \in Units(config)
          PROVE  u = [type |-> "REFab", rank |-> u.rank, bg |-> All, bank |-> All]
                   /\ u.rank \in Nat
      <4>1. PICK b \in Bank : u = UnitOf(config, b)
        BY DEF Units, Bank
      <4>2. b.rank \in Nat
        BY BankFields DEF RankIds
      <4> QED BY <3>2, <4>1, <4>2 DEF UnitOf
    <3>4. ASSUME NEW u \in S, NEW v \in S PROVE u = v
      <4>1. u.rank \in Nat /\ v.rank \in Nat
        BY <3>1, <3>3
      <4>2. u.rank = v.rank
        <5>1. ~(u.rank < v.rank) /\ ~(v.rank < u.rank)
          BY <3>1, <4>1
        <5> QED BY <4>1, <5>1
      <4> QED BY <3>1, <3>3, <4>2
    <3> QED BY <3>1, <3>4
  <2>2. CASE config.policy # "RANK_LEVEL_SIMULTANEOUS"
    <3>1. S = {UnitOf(config, b) : b \in {x \in {next} : x.rank \notin Asleep}}
      BY <2>2 DEF Requested
    <3>2. next \in Bank
      BY DEF Types
    <3>3. UnitOf(config, next) \in Units(config) /\ UnitOf(config, next).rank = next.rank
      BY <3>2 DEF Units, Bank, UnitOf
    <3> QED BY <3>1, <3>3
  <2> QED BY <2>1, <2>2
<1>2. NewRefreshes = SetToSeq(S)
  BY DEF NewRefreshes
<1> HIDE DEF S
<1> QED BY <1>1, <1>2, SmallSetToSeq

LEMMA DueFacts ==
    ASSUME Types, NEW rq \in DueQueues
    PROVE  /\ rq \in Seq(Units(config)) /\ Longer(refreshQ, rq)
           /\ rq # << >> => rq[1] \in Units(config)
           /\ \A i \in Len(refreshQ) + 1 .. Len(rq) : rq[i].rank \notin Asleep
           /\ Len(rq) <= Len(refreshQ) + 1
<1> DEFINE new == NewRefreshes
<1>1. /\ refreshQ \in Seq(Units(config)) /\ Len(refreshQ) \in Nat
      /\ new \in Seq(Units(config)) /\ Len(new) \in Nat /\ Len(new) <= 1
      /\ \A i \in 1 .. Len(new) : new[i].rank \notin Asleep
  <2>1. refreshQ \in Seq(Units(config)) /\ Len(refreshQ) \in Nat
    BY DEF Types
  <2> QED BY <2>1, NewRefreshesFacts
<1> HIDE DEF new
<1>2. CASE rq = refreshQ
  BY <1>1, <1>2 DEF Longer
<1>3. CASE rq = refreshQ \o new
  <2>1. /\ rq \in Seq(Units(config)) /\ Len(rq) = Len(refreshQ) + Len(new)
        /\ \A i \in 1 .. Len(refreshQ) + Len(new) :
              rq[i] = IF i <= Len(refreshQ) THEN refreshQ[i] ELSE new[i - Len(refreshQ)]
    BY <1>1, <1>3, ConcatProperties
  <2>2. Longer(refreshQ, rq)
    BY <1>1, <2>1 DEF Longer
  <2>3. ASSUME NEW i \in Len(refreshQ) + 1 .. Len(rq) PROVE rq[i].rank \notin Asleep
    <3>1. i - Len(refreshQ) \in 1 .. Len(new) /\ rq[i] = new[i - Len(refreshQ)]
      BY <1>1, <2>1
    <3> QED BY <1>1, <3>1
  <2> QED BY <1>1, <2>1, <2>2, <2>3
<1> QED BY <1>2, <1>3 DEF DueQueues, new

\* The search for the refresh or RFM that is at the head ends at the head.
LEMMA EraseHead ==
    ASSUME NEW S, NEW q \in Seq(S), q # << >>, Covers(Head(q), Head(q))
    PROVE  /\ Erase(q, Head(q)) \in Seq(S)
           /\ Len(Erase(q, Head(q))) = Len(q) - 1
           /\ \A i \in 1 .. Len(q) - 1 : Erase(q, Head(q))[i] = q[i + 1]
           /\ Erase(q, Head(q)) = Tail(q)
<1> DEFINE c == Head(q)
           I == {i \in 1 .. Len(q) : Covers(c, q[i])}
<1>1. Len(q) \in Nat \ {0} /\ c = q[1] /\ 1 \in 1 .. Len(q)
  OBVIOUS
<1>2. 1 \in I /\ I \subseteq 1 .. Len(q)
  BY <1>1
<1>3. Erase(q, c) = IF (IF I # {} THEN Min(I) ELSE 0) = 0 THEN q
                    ELSE RemoveAt(q, IF I # {} THEN Min(I) ELSE 0)
  BY DEF Erase, SelectInSeq
<1> HIDE DEF I, c
<1>4. Min(I) = 1
  <2>1. \A x \in I : 1 <= x
    BY <1>2
  <2>2. Min(I) \in I /\ \A y \in I : Min(I) <= y
    BY <1>2, <2>1 DEF Min
  <2>3. Min(I) <= 1 /\ 1 <= Min(I) /\ Min(I) \in Int
    <3> DEFINE m == Min(I)
    <3>1. m \in I /\ \A y \in I : m <= y
      BY <2>2
    <3> HIDE DEF m
    <3>2. m <= 1 /\ 1 <= m /\ m \in 1 .. Len(q)
      BY <1>2, <2>1, <3>1
    <3> QED BY <1>1, <3>2 DEF m
  <2> QED BY <2>3
<1>5. Erase(q, c) = RemoveAt(q, 1)
  BY <1>2, <1>3, <1>4
<1>6. /\ RemoveAt(q, 1) \in Seq(S) /\ Len(RemoveAt(q, 1)) = Len(q) - 1
      /\ \A j \in 1 .. Len(q) - 1 : RemoveAt(q, 1)[j] = IF j < 1 THEN q[j] ELSE q[j + 1]
  BY <1>1, RemoveAtShape
<1>7. \A j \in 1 .. Len(q) - 1 : RemoveAt(q, 1)[j] = q[j + 1]
  BY <1>6
<1>8. RemoveAt(q, 1) = Tail(q)
  <2>1. Tail(q) \in Seq(S) /\ Len(Tail(q)) = Len(q) - 1
          /\ \A j \in 1 .. Len(q) - 1 : Tail(q)[j] = q[j + 1]
    BY <1>1
  <2>2. \A j \in 1 .. Len(RemoveAt(q, 1)) : RemoveAt(q, 1)[j] = Tail(q)[j]
    BY <1>6, <1>7, <2>1
  <2> QED BY <1>6, <2>1, <2>2, SeqEqual
<1> QED BY <1>5, <1>6, <1>7, <1>8 DEF c

Distinct(q) == \A i, j \in 1 .. Len(q) :
                  q[i].rank = q[j].rank /\ q[i].bank = q[j].bank => i = j

\* The bank refresh at hand is turned away by an alert.
Refused(rq) == alert = "over" /\ rq # << >> /\ Head(rq).type = "REFRESH_BANK"

\* A queue of RFMs after the requests of a tick.
GoodRfms(rq, fq) ==
    /\ fq \in Seq(RfmCmds) /\ Longer(rfmQ, fq) /\ Distinct(fq)
    /\ \A i \in 1 .. Len(fq) : \/ ~rankQEmpty[fq[i].rank]
                               \/ Refused(rq) /\ Head(rq).rank = fq[i].rank

LEMMA HeadStays ==
    ASSUME Types, NEW rq \in DueQueues, refreshQ # << >>
    PROVE  rq # << >> /\ Head(rq) = Head(refreshQ)
<1>1. /\ refreshQ \in Seq(Units(config)) /\ rq \in Seq(Units(config))
      /\ Longer(refreshQ, rq)
  BY DueFacts DEF Types
<1> QED BY <1>1 DEF Longer

LEMMA OldRfmsGood ==
    ASSUME ChannelInv, NEW rq \in DueQueues
    PROVE  GoodRfms(rq, rfmQ)
<1>1. Types /\ rfmQ \in Seq(RfmCmds) /\ Longer(rfmQ, rfmQ) /\ Distinct(rfmQ)
  BY DEF ChannelInv, Types, Longer, RfmsKeepUp, Distinct
<1>2. ASSUME NEW i \in 1 .. Len(rfmQ)
      PROVE  \/ ~rankQEmpty[rfmQ[i].rank]
             \/ Refused(rq) /\ Head(rq).rank = rfmQ[i].rank
  <2>1. CASE ~rankQEmpty[rfmQ[i].rank]
    BY <2>1
  <2>2. CASE /\ alert = "over" /\ refreshQ # << >>
             /\ Head(refreshQ).type = "REFRESH_BANK"
             /\ Head(refreshQ).rank = rfmQ[i].rank
    BY <1>1, <2>2, HeadStays DEF Refused
  <2> QED BY <2>1, <2>2 DEF ChannelInv, QueuesWereFilled
<1> QED BY <1>1, <1>2 DEF GoodRfms

LEMMA AsksAreRfms ==
    ASSUME Types, NEW b \in Bank, NEW c \in Asks(b)
    PROVE  c \in RfmCmds /\ c.rank = b.rank
<1>1. b.rank \in RankIds /\ b.bank \in 0 .. config.banksPerGroup - 1
  BY BankFields
<1>2. /\ RankCmd("RFMab", b.rank) \in RfmCmds /\ RankCmd("RFMab", b.rank).rank = b.rank
      /\ SbCmd("RFMsb", b.rank, b.bank) \in RfmCmds
      /\ SbCmd("RFMsb", b.rank, b.bank).rank = b.rank
  BY <1>1 DEF RfmCmds, RankCmd, SbCmd
<1>3. CASE alert = "over"
  BY <1>2, <1>3 DEF Asks
<1>4. CASE alert # "over"
  <2>1. c \in Required(b) /\ IsRFM(c)
    BY <1>4 DEF Asks
  <2>2. state[b] \in {"OPEN", "CLOSED", "SREF"}
    BY DEF Types
  <2>3. CASE state[b] = "CLOSED" /\ RfmDue(b)
    <3>1. Required(b) = {IF RfmMode = 1 THEN SbCmd("RFMsb", b.rank, b.bank)
                         ELSE RankCmd("RFMab", b.rank)}
      BY <2>3 DEF Required
    <3> QED BY <1>2, <2>1, <3>1
  <2>4. CASE state[b] = "CLOSED" /\ ~RfmDue(b)
    <3>1. Required(b) = {Cmd("ACTIVATE", b)}
      BY <2>4 DEF Required
    <3> QED BY <2>1, <3>1 DEF Cmd, IsRFM
  <2>5. CASE state[b] = "OPEN"
    <3>1. Required(b) = {Cmd(t, b) : t \in {"COLUMN", "COLUMN_PRECHARGE", "PRECHARGE"}}
      BY <2>5 DEF Required
    <3> QED BY <2>1, <3>1 DEF Cmd, IsRFM
  <2>6. CASE state[b] = "SREF"
    <3>1. Required(b) = {RankCmd("SREF_EXIT", b.rank)}
      BY <2>6 DEF Required
    <3> QED BY <2>1, <3>1 DEF RankCmd, IsRFM
  <2> QED BY <2>2, <2>3, <2>4, <2>5, <2>6
<1> QED BY <1>3, <1>4

\* A request for an RFM is queued once, behind the others.
LEMMA NeedRFMGood ==
    ASSUME ChannelInv, NEW rq \in DueQueues, NEW c \in RfmCmds,
           \/ ~rankQEmpty[c.rank]
           \/ Refused(rq) /\ Head(rq).rank = c.rank
    PROVE  GoodRfms(rq, NeedRFM(rfmQ, c))
<1>1. GoodRfms(rq, rfmQ)
  BY OldRfmsGood
<1>2. CASE \E i \in 1 .. Len(rfmQ) : Covers(c, rfmQ[i])
  BY <1>1, <1>2 DEF NeedRFM
<1>3. CASE ~\E i \in 1 .. Len(rfmQ) : Covers(c, rfmQ[i])
  <2> DEFINE n == Len(rfmQ)
             q == Append(rfmQ, c)
  <2>1. NeedRFM(rfmQ, c) = q
    BY <1>3 DEF NeedRFM
  <2>2. /\ n \in Nat /\ q \in Seq(RfmCmds) /\ Len(q) = n + 1
        /\ \A i \in 1 .. n : q[i] = rfmQ[i]
        /\ q[n + 1] = c
    <3>1. rfmQ \in Seq(RfmCmds)
      BY <1>1 DEF GoodRfms
    <3> QED BY <3>1
  <2> HIDE DEF q, n
  <2>3. Longer(rfmQ, q)
    BY <2>2 DEF Longer, n
  <2>4. Distinct(q)
    <3>1. \A i \in 1 .. n : ~(rfmQ[i].rank = c.rank /\ rfmQ[i].bank = c.bank)
      <4>1. c.bg = All
        BY RfmCmdFacts
      <4> QED BY <1>3, <4>1 DEF Covers, n
    <3>2. \A i, j \in 1 .. n :
             rfmQ[i].rank = rfmQ[j].rank /\ rfmQ[i].bank = rfmQ[j].bank => i = j
      BY <1>1 DEF GoodRfms, Distinct, n
    <3>3. SUFFICES ASSUME NEW i \in 1 .. n + 1, NEW j \in 1 .. n + 1,
                          q[i].rank = q[j].rank, q[i].bank = q[j].bank
                   PROVE  i = j
      BY <2>2 DEF Distinct
    <3>4. CASE i \in 1 .. n /\ j \in 1 .. n
      BY <2>2, <3>2, <3>3, <3>4
    <3>5. CASE i = n + 1 /\ j \in 1 .. n
      BY <2>2, <3>1, <3>3, <3>5
    <3>6. CASE i \in 1 .. n /\ j = n + 1
      BY <2>2, <3>1, <3>3, <3>6
    <3>7. CASE i = n + 1 /\ j = n + 1
      BY <3>7
    <3> QED BY <2>2, <3>4, <3>5, <3>6, <3>7
  <2>5. ASSUME NEW i \in 1 .. Len(q)
        PROVE  \/ ~rankQEmpty[q[i].rank]
               \/ Refused(rq) /\ Head(rq).rank = q[i].rank
    <3>1. CASE i = n + 1
      BY <2>2, <3>1
    <3>2. CASE i \in 1 .. n
      BY <1>1, <2>2, <3>2 DEF GoodRfms, n
    <3> QED BY <2>2, <3>1, <3>2
  <2> QED BY <2>1, <2>2, <2>3, <2>4, <2>5 DEF GoodRfms
<1> QED BY <1>2, <1>3

LEMMA RequestsGood ==
    ASSUME ChannelInv, NEW rq \in DueQueues, NEW fq \in WithRequest(rq)
    PROVE  GoodRfms(rq, fq)
<1>0. Types
  BY DEF ChannelInv
<1>1. CASE fq = rfmQ
  BY <1>1, OldRfmsGood
<1>2. ASSUME NEW c \in RefreshAsks(rq), fq = NeedRFM(rfmQ, c)
      PROVE  GoodRfms(rq, fq)
  <2>1. PICK p \in Pending(rq) : /\ p.type = "REFRESH_BANK" /\ alert = "over"
                                 /\ c = RankCmd("RFMab", p.rank)
    BY DEF RefreshAsks
  <2>2. rq # << >> /\ p = Head(rq)
    <3>1. CASE rq = << >>
      <4>1. rfmQ # << >> /\ p = Head(rfmQ)
        BY <2>1, <3>1 DEF Pending
      <4>2. p \in RfmCmds
        BY <1>0, <4>1 DEF Types
      <4> QED BY <2>1, <4>2 DEF RfmCmds, RankCmd, SbCmd
    <3> QED BY <3>1 DEF Pending
  <2>3. p.rank \in RankIds
    BY <1>0, <2>2, DueFacts, UnitFacts
  <2>4. c \in RfmCmds /\ c.rank = p.rank
    BY <2>1, <2>3 DEF RfmCmds, RankCmd
  <2>5. Refused(rq) /\ Head(rq).rank = c.rank
    BY <2>1, <2>2, <2>4 DEF Refused
  <2> QED BY <1>2, <2>4, <2>5, NeedRFMGood
<1>3. ASSUME NEW b \in Unblocked(rq), NEW c \in Asks(b), fq = NeedRFM(rfmQ, c)
      PROVE  GoodRfms(rq, fq)
  <2>1. b \in Bank /\ cmds[b] > 0
    BY DEF Unblocked
  <2>2. ~rankQEmpty[b.rank]
    BY <2>1 DEF ChannelInv, QueuesWereFilled
  <2>3. c \in RfmCmds /\ c.rank = b.rank
    BY <1>0, <2>1, AsksAreRfms
  <2> QED BY <1>3, <2>2, <2>3, NeedRFMGood
<1> QED BY <1>1, <1>2, <1>3 DEF WithRequest

-----------------------------------------------------------------------------
(* Parts of a tick.                                                        *)

\* The cursor of the refresh timer stays on a bank.
LEMMA CursorStep ==
    ASSUME Types, NEW rq, RefreshTick(rq)
    PROVE  config' = config /\ next' \in Bank
<1>0. config' = config /\ next \in Bank
  BY DEF RefreshTick, Types
<1>1. config.ranks \in Nat \ {0} /\ config.bankGroups \in Nat \ {0}
        /\ config.banksPerGroup \in Nat \ {0} /\ config.policy \in Policies
  BY ConfigTypes
<1>2. ASSUME NEW n \in Bank
      PROVE  NextRank(config, n) \in Bank
  BY <1>1 DEF NextRank, Bank, BankAddr
<1>3. ASSUME NEW n \in Bank
      PROVE  NextBank(config, n) \in Bank
  <2> DEFINE m == [n EXCEPT !.bank = (@ + 1) % config.banksPerGroup]
  <2>1. m \in Bank
    BY <1>1 DEF Bank, BankAddr
  <2>2. NextBank(config, n) \in {m, NextRank(config, m)}
    BY DEF NextBank
  <2> HIDE DEF m
  <2> QED BY <1>2, <2>1, <2>2
<1>4. ASSUME NEW n \in Bank
      PROVE  NextGroup(config, n) \in Bank
  <2> DEFINE m == [n EXCEPT !.bg = (@ + 1) % config.bankGroups]
  <2>1. m \in Bank
    BY <1>1 DEF Bank, BankAddr
  <2>2. NextGroup(config, n) \in {m, NextBank(config, m)}
    BY DEF NextGroup
  <2> HIDE DEF m
  <2> QED BY <1>3, <2>1, <2>2
<1>5. IterateNext(config, next) \in Bank
  <2>1. CASE config.policy = "RANK_LEVEL_SIMULTANEOUS"
    BY <1>0, <2>1 DEF IterateNext
  <2>2. CASE config.policy = "RANK_LEVEL_STAGGERED"
    BY <1>0, <1>2, <2>2 DEF IterateNext
  <2>3. CASE config.policy = "BANKSET_LEVEL_STAGGERED"
    <3>1. IterateNext(config, next) = NextGroup(config, NextBank(config, next))
      BY <2>3 DEF IterateNext
    <3> QED BY <1>0, <1>3, <1>4, <3>1
  <2>4. CASE config.policy = "BANK_LEVEL_STAGGERED"
    BY <1>0, <1>4, <2>4 DEF IterateNext
  <2> QED BY <1>1, <2>1, <2>2, <2>3, <2>4 DEF Policies
<1> QED BY <1>0, <1>5 DEF RefreshTick

\* ScheduleTransaction: rank_q_empty is only ever cleared.
LEMMA ScheduleFacts ==
    ASSUME ChannelInv, NEW cq \in [Bank -> Nat], \A b \in Bank : cq[b] <= cmds[b],
           Schedule(cq)
    PROVE  /\ cmds' \in [Bank -> Nat]
           /\ rankQEmpty' \in [RankIds -> BOOLEAN]
           /\ \A r \in RankIds : rankQEmpty'[r] => rankQEmpty[r]
           /\ \A b \in Bank : cmds'[b] > 0 => ~rankQEmpty'[b.rank]
<1>0. /\ cmds \in [Bank -> Nat] /\ rankQEmpty \in [RankIds -> BOOLEAN]
      /\ \A b \in Bank : cmds[b] > 0 => ~rankQEmpty[b.rank]
  BY DEF ChannelInv, Types, QueuesWereFilled
<1>1. \A b \in Bank : cq[b] > 0 => ~rankQEmpty[b.rank]
  BY <1>0
<1>2. CASE cmds' = cq /\ UNCHANGED rankQEmpty
  BY <1>0, <1>1, <1>2
<1>3. ASSUME NEW a \in Bank, cmds' = [cq EXCEPT ![a] = @ + 1],
             rankQEmpty' = [rankQEmpty EXCEPT ![a.rank] = FALSE]
      PROVE  /\ cmds' \in [Bank -> Nat]
             /\ rankQEmpty' \in [RankIds -> BOOLEAN]
             /\ \A r \in RankIds : rankQEmpty'[r] => rankQEmpty[r]
             /\ \A b \in Bank : cmds'[b] > 0 => ~rankQEmpty'[b.rank]
  <2>1. a.rank \in RankIds /\ \A b \in Bank : b.rank \in RankIds
    BY BankFields
  <2>2. /\ rankQEmpty' \in [RankIds -> BOOLEAN] /\ ~rankQEmpty'[a.rank]
        /\ \A r \in RankIds : rankQEmpty'[r] => rankQEmpty[r]
    BY <1>0, <1>3, <2>1
  <2>3. cmds' \in [Bank -> Nat] /\ \A b \in Bank : b # a => cmds'[b] = cq[b]
    BY <1>3
  <2> QED BY <1>1, <2>1, <2>2, <2>3
<1> QED BY <1>2, <1>3 DEF Schedule

\* FinishRefresh and FinishRFM together with the queues, for a command c that is
\* the refresh or RFM at hand or neither a refresh nor an RFM.
LEMMA QueueStep ==
    ASSUME ChannelInv, config' = config, NEW rq \in DueQueues, NEW c, NEW fq,
           GoodRfms(rq, fq), Finish(rq, c),
           refreshQ' = IF IsRefresh(c) THEN Erase(rq, c) ELSE rq,
           rfmQ' = IF IsRFM(c) THEN Erase(fq, c) ELSE fq,
           IsRefresh(c) => ~IsRFM(c) /\ rq # << >> /\ c = Head(rq),
           IsRFM(c) => rq = << >> /\ rfmQ # << >> /\ c = Head(rfmQ) /\ fq = rfmQ
    PROVE  /\ refreshQ' \in Seq(Units(config)) /\ rfmQ' \in Seq(RfmCmds)
           /\ inRef' \in BOOLEAN /\ inRfm' \in BOOLEAN
           /\ TakenUp'
           /\ Distinct(rfmQ')
           /\ \A i \in 1 .. Len(refreshQ') : \E j \in 1 .. Len(rq) : refreshQ'[i] = rq[j]
           /\ \A i \in 1 .. Len(rfmQ') : \E j \in 1 .. Len(fq) : rfmQ'[i] = fq[j]
           /\ Len(refreshQ') <= Len(rq)
           /\ IsRefresh(c) => refreshQ' = Tail(rq)
           /\ IsRFM(c) => rfmQ' = Tail(rfmQ)
<1>0. /\ Types /\ refreshQ \in Seq(Units(config)) /\ rfmQ \in Seq(RfmCmds)
      /\ inRef \in BOOLEAN /\ inRfm \in BOOLEAN
  BY DEF ChannelInv, Types
<1>1. /\ rq \in Seq(Units(config)) /\ Longer(refreshQ, rq)
      /\ rq # << >> => Head(rq) \in Units(config)
  BY <1>0, DueFacts
<1>2. fq \in Seq(RfmCmds) /\ Longer(rfmQ, fq) /\ Distinct(fq)
  BY DEF GoodRfms
<1>3. /\ inRef' = IF rq = << >> THEN inRef ELSE ~IsRefresh(c)
      /\ refIdx' = IF IsRefresh(c) THEN {} ELSE RefIdx(rq)
      /\ inRfm' = IF rq # << >> \/ rfmQ = << >> THEN inRfm ELSE ~IsRFM(c)
      /\ rfmIdx' = IF IsRFM(c) THEN {} ELSE RfmIdx(rq)
  BY DEF Finish
<1>4. /\ refreshQ # << >> => rq # << >> /\ Head(rq) = Head(refreshQ)
      /\ rfmQ # << >> => fq # << >> /\ Head(fq) = Head(rfmQ)
  BY <1>0, <1>1, <1>2 DEF Longer
<1>5. /\ IF inRef THEN refreshQ # << >> /\ refIdx = Targets(Head(refreshQ))
         ELSE refIdx = {}
      /\ IF inRfm THEN rfmQ # << >> /\ rfmIdx = Targets(Head(rfmQ))
         ELSE rfmIdx = {}
  BY DEF ChannelInv, TakenUp
<1>7. inRef' \in BOOLEAN /\ inRfm' \in BOOLEAN
  BY <1>0, <1>3
<1>8. ASSUME IsRefresh(c)
      PROVE  /\ refreshQ' \in Seq(Units(config)) /\ Len(refreshQ') = Len(rq) - 1
             /\ \A i \in 1 .. Len(rq) - 1 : refreshQ'[i] = rq[i + 1]
             /\ refreshQ' = Tail(rq)
  <2>1. rq # << >> /\ c = Head(rq) /\ refreshQ' = Erase(rq, Head(rq))
    BY <1>8
  <2>2. Covers(Head(rq), Head(rq))
    BY <1>1, <2>1, UnitFacts
  <2> QED BY <1>1, <2>1, <2>2, EraseHead
<1>9. ASSUME IsRFM(c)
      PROVE  /\ rfmQ' \in Seq(RfmCmds) /\ Len(rfmQ') = Len(rfmQ) - 1
             /\ \A i \in 1 .. Len(rfmQ) - 1 : rfmQ'[i] = rfmQ[i + 1]
             /\ fq = rfmQ /\ rfmQ' = Tail(rfmQ)
  <2>1. rfmQ # << >> /\ c = Head(rfmQ) /\ fq = rfmQ /\ rfmQ' = Erase(rfmQ, Head(rfmQ))
    BY <1>9
  <2>2. Head(rfmQ) \in RfmCmds
    BY <1>0, <2>1
  <2>3. Covers(Head(rfmQ), Head(rfmQ))
    BY <2>2, RfmCmdFacts
  <2> QED BY <1>0, <2>1, <2>3, EraseHead
<1>10. /\ refreshQ' \in Seq(Units(config)) /\ Len(refreshQ') <= Len(rq)
       /\ \A i \in 1 .. Len(refreshQ') : \E j \in 1 .. Len(rq) : refreshQ'[i] = rq[j]
  <2>1. CASE IsRefresh(c)
    <3>1. \A i \in 1 .. Len(refreshQ') : i + 1 \in 1 .. Len(rq) /\ refreshQ'[i] = rq[i + 1]
      BY <1>1, <1>8, <2>1
    <3> QED BY <1>1, <1>8, <2>1, <3>1
  <2>2. CASE ~IsRefresh(c)
    <3>1. refreshQ' = rq
      BY <2>2
    <3> QED BY <1>1, <3>1
  <2> QED BY <2>1, <2>2
<1>11. /\ rfmQ' \in Seq(RfmCmds) /\ Distinct(rfmQ')
       /\ \A i \in 1 .. Len(rfmQ') : \E j \in 1 .. Len(fq) : rfmQ'[i] = fq[j]
  <2>1. CASE IsRFM(c)
    <3>0. rfmQ # << >> /\ Len(rfmQ) \in Nat
      BY <1>0, <2>1
    <3>1. \A i \in 1 .. Len(rfmQ') : i + 1 \in 1 .. Len(rfmQ) /\ rfmQ'[i] = rfmQ[i + 1]
      BY <1>0, <1>9, <2>1, <3>0
    <3>2. Distinct(rfmQ')
      <4>1. SUFFICES ASSUME NEW i \in 1 .. Len(rfmQ'), NEW j \in 1 .. Len(rfmQ'),
                            rfmQ'[i].rank = rfmQ'[j].rank, rfmQ'[i].bank = rfmQ'[j].bank
                     PROVE  i = j
        BY DEF Distinct
      <4>2. i + 1 = j + 1
        BY <1>2, <1>9, <2>1, <3>1, <4>1 DEF Distinct
      <4> QED BY <4>2
    <3> QED BY <1>9, <2>1, <3>0, <3>1, <3>2
  <2>2. CASE ~IsRFM(c)
    <3>1. rfmQ' = fq
      BY <2>2
    <3> QED BY <1>2, <3>1
  <2> QED BY <2>1, <2>2
<1>12. TakenUp'
  <2>1. IF inRef' THEN refreshQ' # << >> /\ refIdx' = Targets(Head(refreshQ'))
        ELSE refIdx' = {}
    <3>1. CASE rq = << >>
      BY <1>3, <1>4, <1>5, <3>1 DEF RefIdx
    <3>2. CASE rq # << >> /\ IsRefresh(c)
      BY <1>3, <3>2
    <3>3. CASE rq # << >> /\ ~IsRefresh(c)
      BY <1>3, <1>4, <1>5, <3>3 DEF RefIdx
    <3> QED BY <3>1, <3>2, <3>3
  <2>2. IF inRfm' THEN rfmQ' # << >> /\ rfmIdx' = Targets(Head(rfmQ'))
        ELSE rfmIdx' = {}
    <3>1. CASE rq # << >> \/ rfmQ = << >>
      <4>1. ~IsRFM(c) /\ rfmQ' = fq
        BY <3>1
      <4> QED BY <1>3, <1>4, <1>5, <3>1, <4>1 DEF RfmIdx
    <3>2. CASE rq = << >> /\ rfmQ # << >> /\ IsRFM(c)
      BY <1>3, <3>2
    <3>3. CASE rq = << >> /\ rfmQ # << >> /\ ~IsRFM(c)
      BY <1>3, <1>4, <1>5, <3>3 DEF RfmIdx
    <3> QED BY <3>1, <3>2, <3>3
  <2>3. /\ Targets(Head(refreshQ))' = Targets(Head(refreshQ'))
        /\ Targets(Head(rfmQ))' = Targets(Head(rfmQ'))
    BY DEF Targets, Bank
  <2> QED BY <2>1, <2>2, <2>3 DEF TakenUp
<1> QED BY <1>7, <1>8, <1>9, <1>10, <1>11, <1>12

OrdinaryTypes == {"ACTIVATE", "PRECHARGE", "COLUMN", "COLUMN_PRECHARGE",
                  "REFab", "REFsb", "REFRESH_BANK", "RFMab", "RFMsb"}

\* The banks after a command that they can take, and that neither puts a rank to
\* sleep nor wakes it up.
LEMMA OrdinaryIssue ==
    ASSUME ChannelInv, config' = config, NEW c, NEW rq, NEW fq, Issue(c, rq, fq),
           Legal(c), c.type \in OrdinaryTypes
    PROVE  /\ state' \in [Bank -> {"OPEN", "CLOSED", "SREF"}]
           /\ \A b \in Bank : state'[b] = "SREF" <=> state[b] = "SREF"
           /\ \A b \in Bank : state[b] = "CLOSED" /\ state'[b] # "CLOSED" =>
                                 b \in Targets(c) /\ c.type = "ACTIVATE"
           /\ RanksSleepWhole' /\ exited' = FALSE
<1>0. state \in [Bank -> {"OPEN", "CLOSED", "SREF"}]
  BY DEF ChannelInv, Types
<1>1. /\ exited' = ~Legal(c)
      /\ state' = [b \in Bank |-> IF b \in Targets(c) THEN StateAfter(c, state[b])
                                  ELSE state[b]]
  BY DEF Issue
<1>2. \A b \in Targets(c) : state[b] \in {"OPEN", "CLOSED"}
  BY DEF Legal, OrdinaryTypes
<1>3. ASSUME NEW x \in {"OPEN", "CLOSED"}
      PROVE  /\ StateAfter(c, x) \in {"OPEN", "CLOSED"}
             /\ x = "CLOSED" /\ StateAfter(c, x) # "CLOSED" => c.type = "ACTIVATE"
  BY DEF StateAfter, OrdinaryTypes
<1>4. /\ state' \in [Bank -> {"OPEN", "CLOSED", "SREF"}]
      /\ \A b \in Bank : state'[b] = "SREF" <=> state[b] = "SREF"
      /\ \A b \in Bank : state[b] = "CLOSED" /\ state'[b] # "CLOSED" =>
                            b \in Targets(c) /\ c.type = "ACTIVATE"
  BY <1>0, <1>1, <1>2, <1>3
<1>5. RanksSleepWhole'
  BY <1>4 DEF ChannelInv, RanksSleepWhole, Bank
<1> QED BY <1>1, <1>4, <1>5

\* SREF_ENTER and SREF_EXIT go to a whole rank.
LEMMA SleepIssue ==
    ASSUME ChannelInv, config' = config, NEW r \in RankIds,
           NEW type \in {"SREF_ENTER", "SREF_EXIT"},
           NEW rq \in DueQueues, NEW fq \in WithRequest(rq), Issue(RankCmd(type, r), rq, fq),
           Legal(RankCmd(type, r)), config.enableSelfRefresh
    PROVE  /\ state' = [b \in Bank |-> IF b.rank = r
                                       THEN IF type = "SREF_ENTER" THEN "SREF" ELSE "CLOSED"
                                       ELSE state[b]]
           /\ state' \in [Bank -> {"OPEN", "CLOSED", "SREF"}]
           /\ RanksSleepWhole' /\ exited' = FALSE
<1> DEFINE c == RankCmd(type, r)
           to == IF type = "SREF_ENTER" THEN "SREF" ELSE "CLOSED"
<1>0. state \in [Bank -> {"OPEN", "CLOSED", "SREF"}]
  BY DEF ChannelInv, Types
<1>1. /\ exited' = ~Legal(c)
      /\ state' = [b \in Bank |-> IF b \in Targets(c) THEN StateAfter(c, state[b])
                                  ELSE state[b]]
  BY DEF Issue
<1>2. Targets(c) = {b \in Bank : b.rank = r}
  BY TargetsFacts
<1>3. \A x : StateAfter(c, x) = to
  BY DEF StateAfter, RankCmd
<1>4. state' = [b \in Bank |-> IF b.rank = r THEN to ELSE state[b]]
  <2>1. \A b \in Bank : state'[b] = IF b.rank = r THEN to ELSE state[b]
    BY <1>1, <1>2, <1>3
  <2>2. state' = [b \in Bank |-> state'[b]]
    BY <1>1
  <2> QED BY <2>1, <2>2
<1>5. state' \in [Bank -> {"OPEN", "CLOSED", "SREF"}]
  BY <1>0, <1>4
<1>6. RanksSleepWhole'
  <2>1. \A b \in Bank : state'[b] = IF b.rank = r THEN to ELSE state[b]
    BY <1>4
  <2>2. SUFFICES ASSUME NEW a \in Bank, NEW b \in Bank, a.rank = b.rank,
                        state'[a] = "SREF"
                 PROVE  state'[b] = "SREF"
    BY DEF RanksSleepWhole, Bank
  <2>3. CASE a.rank = r
    BY <2>1, <2>2, <2>3
  <2>4. CASE a.rank # r
    BY <2>1, <2>2, <2>4 DEF ChannelInv, RanksSleepWhole
  <2> QED BY <2>3, <2>4
<1> QED BY <1>1, <1>4, <1>5, <1>6

\* The RAA counters stay within RAAMMT when no bank that needs an RFM is activated.
LEMMA RaaStep ==
    ASSUME ChannelInv, config' = config, NEW c, NEW rq, NEW fq, Issue(c, rq, fq),
           c.type = "ACTIVATE" => \A b \in Targets(c) : ~RfmDue(b)
    PROVE  raa' \in [Bank -> Nat] /\ \A b \in Bank : raa'[b] <= config.raammt
<1>0. /\ raa \in [Bank -> Nat] /\ \A b \in Bank : raa[b] <= config.raammt
      /\ config.raammt \in Nat /\ config.refRaaDecrement \in Nat
      /\ config.rfmRaaDecrement \in Nat
  BY ConfigTypes DEF ChannelInv, Types, RfmsKeepUp
<1>1. raa' = [b \in Bank |-> IF b \in Targets(c) THEN RaaAfter(c, raa[b]) ELSE raa[b]]
  BY DEF Issue
<1>2. \A n, d \in Nat : RaaMinus(n, d) \in Nat /\ RaaMinus(n, d) <= n
  BY DEF RaaMinus
<1>3. ASSUME NEW b \in Bank, b \in Targets(c)
      PROVE  RaaAfter(c, raa[b]) \in Nat /\ RaaAfter(c, raa[b]) <= config.raammt
  <2>0. raa[b] \in Nat /\ raa[b] <= config.raammt
    BY <1>0
  <2>1. CASE RfmMode = 0
    <3>1. RaaAfter(c, raa[b]) = raa[b]
      BY <2>1 DEF RaaAfter
    <3> QED BY <2>0, <3>1
  <2>2. CASE RfmMode # 0 /\ IsRefresh(c)
    <3> DEFINE n == raa[b]
               d == config.refRaaDecrement
    <3>1. RaaAfter(c, n) = RaaMinus(n, d)
      BY <2>2 DEF RaaAfter, IsRefresh, IsRFM
    <3>2. d \in Nat /\ n \in Nat /\ n <= config.raammt
      BY <1>0, <2>0
    <3> HIDE DEF n, d
    <3>3. RaaMinus(n, d) \in Nat /\ RaaMinus(n, d) <= n
      BY <1>2, <3>2
    <3>4. RaaMinus(n, d) <= config.raammt
      BY <1>0, <3>2, <3>3
    <3> QED BY <3>1, <3>3, <3>4 DEF n
  <2>3. CASE RfmMode # 0 /\ IsRFM(c)
    <3> DEFINE n == raa[b]
               d == config.rfmRaaDecrement
    <3>1. RaaAfter(c, n) = RaaMinus(n, d)
      BY <2>3 DEF RaaAfter, IsRefresh, IsRFM
    <3>2. d \in Nat /\ n \in Nat /\ n <= config.raammt
      BY <1>0, <2>0
    <3> HIDE DEF n, d
    <3>3. RaaMinus(n, d) \in Nat /\ RaaMinus(n, d) <= n
      BY <1>2, <3>2
    <3>4. RaaMinus(n, d) <= config.raammt
      BY <1>0, <3>2, <3>3
    <3> QED BY <3>1, <3>3, <3>4 DEF n
  <2>4. CASE RfmMode # 0 /\ c.type = "ACTIVATE"
    <3>1. RaaAfter(c, raa[b]) = raa[b] + 1
      BY <2>4 DEF RaaAfter, IsRefresh, IsRFM
    <3>2. raa[b] < config.raammt
      BY <1>0, <1>3, <2>0, <2>4 DEF RfmDue
    <3> QED BY <1>0, <2>0, <3>1, <3>2
  <2>5. CASE RfmMode # 0 /\ ~IsRefresh(c) /\ ~IsRFM(c) /\ c.type # "ACTIVATE"
    <3>1. RaaAfter(c, raa[b]) = raa[b]
      BY <2>5 DEF RaaAfter
    <3> QED BY <2>0, <3>1
  <2> QED BY <2>1, <2>2, <2>3, <2>4, <2>5
<1>4. \A b \in Bank : raa'[b] \in Nat /\ raa'[b] <= config.raammt
  BY <1>0, <1>1, <1>3
<1>5. raa' \in [Bank -> Nat]
  BY <1>1, <1>4
<1> QED BY <1>4, <1>5

\* An alert that is over stays so, unless an all-bank RFM or refresh ends it.
LEMMA AlertStays ==
    ASSUME NEW c, NEW rq, NEW fq, Issue(c, rq, fq), alert = "over",
           c.type \notin {"RFMab", "REFab"}
    PROVE  alert' = "over"
<1>1. PICK h \in HotAfter(c) : alert' = AlertAfter(c, h)
  BY DEF Issue
<1>2. \A n, banks : Trigger(alert, n, banks, h) = alert
  BY DEF Trigger
<1> QED BY <1>1, <1>2 DEF AlertAfter

-----------------------------------------------------------------------------
(* The steps of a tick.                                                    *)

\* What TakenInOrder and ClosedBanksStayClosed say of a step.
InOrder ==
    [/\ IF IsRefresh(issued')
        THEN \E rq \in DueQueues :
                rq # << >> /\ issued' = Head(rq) /\ refreshQ' = Tail(rq)
        ELSE refreshQ' \in DueQueues
     /\ IF IsRFM(issued')
        THEN rfmQ # << >> /\ issued' = Head(rfmQ) /\ rfmQ' = Tail(rfmQ)
        ELSE IsPrefix(rfmQ, rfmQ')]_vars
StayClosed == \A b \in refIdx \cup rfmIdx : state[b] = "CLOSED" => state'[b] = "CLOSED"

\* The refreshes that are left come from those due in the tick, and a rank falls
\* asleep only if the one at hand is not for it.
QuietQueue(rq) ==
    /\ Len(refreshQ') <= Len(rq)
    /\ \A i \in 1 .. Len(refreshQ') : \E j \in 1 .. Len(rq) : refreshQ'[i] = rq[j]
    /\ \A b \in Bank : state'[b] = "SREF" /\ state[b] # "SREF" =>
                          (rq # << >> => Head(rq).rank # b.rank)

LEMMA NothingIssued == ~IsRefresh(NoCmd) /\ ~IsRFM(NoCmd)
BY DEF NoCmd, RankCmd, IsRefresh, IsRFM

LEMMA TickStep ==
    ASSUME ChannelInv, NEW rq \in DueQueues, RefreshTick(rq), NEW c, NEW fq,
           GoodRfms(rq, fq), Finish(rq, c),
           refreshQ' = IF IsRefresh(c) THEN Erase(rq, c) ELSE rq,
           rfmQ' = IF IsRFM(c) THEN Erase(fq, c) ELSE fq,
           IsRefresh(c) => ~IsRFM(c) /\ rq # << >> /\ c = Head(rq),
           IsRFM(c) => rq = << >> /\ rfmQ # << >> /\ c = Head(rfmQ) /\ fq = rfmQ,
           issued' = IF IsRefresh(c) \/ IsRFM(c) THEN c ELSE NoCmd,
           Refused(rq) => alert' = "over" /\ ~IsRefresh(c),
           NEW cq \in [Bank -> Nat], \A b \in Bank : cq[b] <= cmds[b], Schedule(cq),
           state' \in [Bank -> {"OPEN", "CLOSED", "SREF"}], RanksSleepWhole',
           raa' \in [Bank -> Nat], \A b \in Bank : raa'[b] <= config.raammt
    PROVE  /\ ChannelInv' /\ InOrder
           /\ Len(refreshQ') <= Len(rq)
           /\ \A i \in 1 .. Len(refreshQ') : \E j \in 1 .. Len(rq) : refreshQ'[i] = rq[j]
<1>0. Types /\ config' = config /\ next' \in Bank
  BY CursorStep DEF ChannelInv
<1>1. /\ refreshQ' \in Seq(Units(config)) /\ rfmQ' \in Seq(RfmCmds)
      /\ inRef' \in BOOLEAN /\ inRfm' \in BOOLEAN
      /\ TakenUp'
      /\ Distinct(rfmQ')
      /\ \A i \in 1 .. Len(refreshQ') : \E j \in 1 .. Len(rq) : refreshQ'[i] = rq[j]
      /\ \A i \in 1 .. Len(rfmQ') : \E j \in 1 .. Len(fq) : rfmQ'[i] = fq[j]
      /\ Len(refreshQ') <= Len(rq)
      /\ IsRefresh(c) => refreshQ' = Tail(rq)
      /\ IsRFM(c) => rfmQ' = Tail(rfmQ)
  BY <1>0, QueueStep
<1>2. /\ cmds' \in [Bank -> Nat]
      /\ rankQEmpty' \in [RankIds -> BOOLEAN]
      /\ \A r \in RankIds : rankQEmpty'[r] => rankQEmpty[r]
      /\ \A b \in Bank : cmds'[b] > 0 => ~rankQEmpty'[b.rank]
  BY ScheduleFacts
<1>3. Bank' = Bank /\ RankIds' = RankIds /\ RfmCmds' = RfmCmds
  BY <1>0 DEF Bank, RankIds, RfmCmds
<1>4. Types'
  BY <1>0, <1>1, <1>2, <1>3 DEF Types
<1>5. QueuesWereFilled'
  <2>1. SUFFICES ASSUME NEW i \in 1 .. Len(rfmQ')
                 PROVE  \/ ~rankQEmpty'[rfmQ'[i].rank]
                        \/ /\ alert' = "over" /\ refreshQ' # << >>
                           /\ Head(refreshQ').type = "REFRESH_BANK"
                           /\ Head(refreshQ').rank = rfmQ'[i].rank
    BY <1>2, <1>3 DEF QueuesWereFilled
  <2>2. PICK j \in 1 .. Len(fq) : rfmQ'[i] = fq[j]
    BY <1>1
  <2>3. fq[j].rank \in RankIds
    <3>1. fq \in Seq(RfmCmds)
      BY DEF GoodRfms
    <3>2. fq[j] \in RfmCmds
      BY <3>1
    <3> QED BY <3>2, RfmCmdFacts
  <2>4. CASE ~rankQEmpty[fq[j].rank]
    BY <1>2, <2>2, <2>3, <2>4
  <2>5. CASE Refused(rq) /\ Head(rq).rank = fq[j].rank
    <3>1. refreshQ' = rq /\ alert' = "over"
      BY <2>5
    <3> QED BY <2>2, <2>5, <3>1 DEF Refused
  <2> QED BY <2>4, <2>5 DEF GoodRfms
<1>6. RfmsKeepUp'
  BY <1>0, <1>1, <1>3 DEF RfmsKeepUp, Distinct
<1>7. InOrder
  <2>1. IsPrefix(rfmQ, fq)
    <3>1. rfmQ \in Seq(RfmCmds) /\ fq \in Seq(RfmCmds) /\ Longer(rfmQ, fq)
      BY <1>0 DEF Types, GoodRfms
    <3> QED BY <3>1, LongerIsPrefix
  <2>2. CASE IsRefresh(c)
    <3>1. IsRefresh(issued') /\ ~IsRFM(issued') /\ issued' = Head(rq) /\ rq # << >>
      BY <2>2
    <3>2. refreshQ' = Tail(rq) /\ rfmQ' = fq
      BY <1>1, <2>2
    <3> QED BY <2>1, <3>1, <3>2 DEF InOrder
  <2>3. CASE IsRFM(c)
    <3>1. ~IsRefresh(issued') /\ IsRFM(issued') /\ issued' = Head(rfmQ) /\ rfmQ # << >>
      BY <2>3
    <3>2. refreshQ' = rq /\ rfmQ' = Tail(rfmQ)
      BY <1>1, <2>3
    <3> QED BY <3>1, <3>2 DEF InOrder
  <2>4. CASE ~IsRefresh(c) /\ ~IsRFM(c)
    <3>1. ~IsRefresh(issued') /\ ~IsRFM(issued')
      BY <2>4, NothingIssued
    <3>2. refreshQ' = rq /\ rfmQ' = fq
      BY <2>4
    <3> QED BY <2>1, <3>1, <3>2 DEF InOrder
  <2> QED BY <2>2, <2>3, <2>4
<1> QED BY <1>1, <1>4, <1>5, <1>6, <1>7 DEF ChannelInv

\* The banks of the refresh or RFM that was taken up are not served meanwhile.
LEMMA BlockedBanks ==
    ASSUME ChannelInv, NEW rq \in DueQueues, NEW b \in Unblocked(rq)
    PROVE  b \in Bank /\ cmds[b] > 0 /\ b \notin refIdx \cup rfmIdx
BY DEF Unblocked, RefIdx, RfmIdx, ChannelInv, TakenUp

LEMMA PendingFacts ==
    ASSUME Types, NEW rq \in DueQueues, NEW p \in Pending(rq)
    PROVE  /\ p.type \in OrdinaryTypes \ {"ACTIVATE", "PRECHARGE", "COLUMN",
                                          "COLUMN_PRECHARGE"}
           /\ p.rank \in RankIds
           /\ \/ rq # << >> /\ p = Head(rq) /\ IsRefresh(p) /\ ~IsRFM(p)
              \/ rq = << >> /\ rfmQ # << >> /\ p = Head(rfmQ) /\ IsRFM(p) /\ ~IsRefresh(p)
<1>1. CASE rq # << >>
  <2>1. p = Head(rq)
    BY <1>1 DEF Pending
  <2>2. p \in Units(config)
    <3>1. rq \in Seq(Units(config))
      BY DueFacts
    <3> QED BY <1>1, <2>1, <3>1
  <2>3. p.rank \in RankIds /\ IsRefresh(p) /\ ~IsRFM(p)
    BY <2>2, UnitFacts
  <2> QED BY <1>1, <2>1, <2>3 DEF IsRefresh, OrdinaryTypes
<1>2. CASE rq = << >>
  <2>1. rfmQ # << >> /\ p = Head(rfmQ)
    BY <1>2 DEF Pending
  <2>2. p \in RfmCmds
    <3>1. rfmQ \in Seq(RfmCmds)
      BY DEF Types
    <3> QED BY <2>1, <3>1
  <2>3. p.rank \in RankIds /\ IsRFM(p) /\ ~IsRefresh(p)
    BY <2>2, RfmCmdFacts
  <2> QED BY <1>2, <2>1, <2>3 DEF IsRFM, OrdinaryTypes
<1> QED BY <1>1, <1>2

LEMMA ServePendingStep ==
    ASSUME ChannelInv, NEW rq \in DueQueues, RefreshTick(rq), ServePending(rq)
    PROVE  ChannelInv' /\ InOrder /\ StayClosed /\ QuietQueue(rq) /\ exited' = FALSE
<1>0. Types /\ config' = config
  BY DEF ChannelInv, RefreshTick
<1>14. PICK p \in Pending(rq) : \E c \in PendingReady(p) :
         Issue(c, rq, rfmQ) /\ Finish(rq, c) /\ Schedule(cmds)
  BY DEF ServePending
<1>1. PICK c \in PendingReady(p) : Issue(c, rq, rfmQ) /\ Finish(rq, c) /\ Schedule(cmds)
  BY <1>14
<1>2. /\ p.type \in OrdinaryTypes \ {"ACTIVATE", "PRECHARGE", "COLUMN", "COLUMN_PRECHARGE"}
      /\ \/ rq # << >> /\ p = Head(rq) /\ IsRefresh(p) /\ ~IsRFM(p)
         \/ rq = << >> /\ rfmQ # << >> /\ p = Head(rfmQ) /\ IsRFM(p) /\ ~IsRefresh(p)
  BY <1>0, PendingFacts
<1>3. ~(p.type = "REFRESH_BANK" /\ alert = "over")
  BY <1>1 DEF PendingReady
<1>4. ~Refused(rq)
  BY <1>2, <1>3 DEF Refused
<1>5. \/ c = p /\ \A b \in Targets(p) : state[b] = "CLOSED"
      \/ \E b \in Bank : c = Cmd("PRECHARGE", b) /\ state[b] = "OPEN"
  <2>1. Targets(p) \subseteq Bank
    BY DEF Targets
  <2> QED BY <1>1, <1>3, <2>1 DEF PendingReady
<1>6. /\ Legal(c) /\ c.type \in OrdinaryTypes \ {"ACTIVATE"}
      /\ IsRefresh(c) => ~IsRFM(c) /\ rq # << >> /\ c = Head(rq)
      /\ IsRFM(c) => rq = << >> /\ rfmQ # << >> /\ c = Head(rfmQ)
  <2>1. CASE c = p /\ \A b \in Targets(p) : state[b] = "CLOSED"
    <3>1. Legal(c)
      BY <1>2, <2>1 DEF Legal, OrdinaryTypes
    <3> QED BY <1>2, <2>1, <3>1
  <2>2. ASSUME NEW b \in Bank, c = Cmd("PRECHARGE", b), state[b] = "OPEN"
        PROVE  /\ Legal(c) /\ c.type \in OrdinaryTypes \ {"ACTIVATE"}
               /\ ~IsRefresh(c) /\ ~IsRFM(c)
    <3>1. Targets(c) = {b} /\ c.type = "PRECHARGE"
      BY <2>2, TargetsFacts DEF Cmd
    <3> QED BY <2>2, <3>1 DEF Legal, OrdinaryTypes, IsRefresh, IsRFM
  <2> QED BY <1>5, <2>1, <2>2
<1>7. /\ state' \in [Bank -> {"OPEN", "CLOSED", "SREF"}]
      /\ \A b \in Bank : state'[b] = "SREF" <=> state[b] = "SREF"
      /\ \A b \in Bank : state[b] = "CLOSED" /\ state'[b] # "CLOSED" =>
                            b \in Targets(c) /\ c.type = "ACTIVATE"
      /\ RanksSleepWhole' /\ exited' = FALSE
  BY <1>0, <1>1, <1>6, OrdinaryIssue
<1>8. raa' \in [Bank -> Nat] /\ \A b \in Bank : raa'[b] <= config.raammt
  BY <1>0, <1>1, <1>6, RaaStep
<1>9. /\ refreshQ' = IF IsRefresh(c) THEN Erase(rq, c) ELSE rq
      /\ rfmQ' = IF IsRFM(c) THEN Erase(rfmQ, c) ELSE rfmQ
      /\ issued' = IF IsRefresh(c) \/ IsRFM(c) THEN c ELSE NoCmd
  BY <1>1 DEF Issue
<1>10. cmds \in [Bank -> Nat] /\ \A b \in Bank : cmds[b] <= cmds[b]
  BY <1>0 DEF Types
<1>11. /\ ChannelInv' /\ InOrder /\ Len(refreshQ') <= Len(rq)
       /\ \A i \in 1 .. Len(refreshQ') : \E j \in 1 .. Len(rq) : refreshQ'[i] = rq[j]
  <2>1. GoodRfms(rq, rfmQ)
    BY OldRfmsGood
  <2> QED BY <1>1, <1>4, <1>6, <1>7, <1>8, <1>9, <1>10, <2>1, TickStep
<1>12. StayClosed
  <2>1. refIdx \cup rfmIdx \subseteq Bank
    BY DEF ChannelInv, TakenUp, Targets
  <2> QED BY <1>6, <1>7, <2>1 DEF StayClosed
<1> QED BY <1>7, <1>11, <1>12 DEF QuietQueue

\* The commands that a demand command gives rise to, and the bank it meets.
LEMMA DemandFacts ==
    ASSUME Types, NEW b \in Bank, NEW c \in DemandReady(b)
    PROVE  /\ alert # "over"
           /\ \/ c = Cmd("ACTIVATE", b) /\ state[b] = "CLOSED" /\ ~RfmDue(b)
              \/ /\ c \in {Cmd("COLUMN", b), Cmd("COLUMN_PRECHARGE", b), Cmd("PRECHARGE", b)}
                 /\ state[b] = "OPEN"
              \/ c = RankCmd("SREF_EXIT", b.rank) /\ state[b] = "SREF"
<1>1. alert # "over" /\ c \in Required(b) /\ ~IsRFM(c)
  BY DEF DemandReady
<1>2. state[b] \in {"OPEN", "CLOSED", "SREF"}
  BY DEF Types
<1>3. CASE state[b] = "CLOSED" /\ RfmDue(b)
  <2>1. Required(b) = {IF RfmMode = 1 THEN SbCmd("RFMsb", b.rank, b.bank)
                       ELSE RankCmd("RFMab", b.rank)}
    BY <1>3 DEF Required
  <2> QED BY <1>1, <2>1 DEF SbCmd, RankCmd, IsRFM
<1>4. CASE state[b] = "CLOSED" /\ ~RfmDue(b)
  <2>1. Required(b) = {Cmd("ACTIVATE", b)}
    BY <1>4 DEF Required
  <2> QED BY <1>1, <1>4, <2>1
<1>5. CASE state[b] = "OPEN"
  <2>1. Required(b) = {Cmd(t, b) : t \in {"COLUMN", "COLUMN_PRECHARGE", "PRECHARGE"}}
    BY <1>5 DEF Required
  <2> QED BY <1>1, <1>5, <2>1
<1>6. CASE state[b] = "SREF"
  <2>1. Required(b) = {RankCmd("SREF_EXIT", b.rank)}
    BY <1>6 DEF Required
  <2> QED BY <1>1, <1>6, <2>1
<1> QED BY <1>2, <1>3, <1>4, <1>5, <1>6

LEMMA ServeDemandStep ==
    ASSUME ChannelInv, NEW rq \in DueQueues, RefreshTick(rq), NEW b, NEW types,
           ServeDemand(rq, b, types)
    PROVE  ChannelInv' /\ InOrder /\ StayClosed /\ QuietQueue(rq) /\ exited' = FALSE
<1>0. Types /\ config' = config
  BY DEF ChannelInv, RefreshTick
<1>1. PICK c \in DemandReady(b), fq \in WithRequest(rq) :
         /\ Issue(c, rq, fq) /\ Finish(rq, NoCmd)
         /\ Schedule(IF c.type \in {"COLUMN", "COLUMN_PRECHARGE"}
                     THEN [cmds EXCEPT ![b] = @ - 1] ELSE cmds)
  BY DEF ServeDemand
<1>2. b \in Bank /\ cmds[b] > 0 /\ b \notin refIdx \cup rfmIdx
  BY BlockedBanks DEF ServeDemand
<1>3. /\ alert # "over"
      /\ \/ c = Cmd("ACTIVATE", b) /\ state[b] = "CLOSED" /\ ~RfmDue(b)
         \/ /\ c \in {Cmd("COLUMN", b), Cmd("COLUMN_PRECHARGE", b), Cmd("PRECHARGE", b)}
            /\ state[b] = "OPEN"
         \/ c = RankCmd("SREF_EXIT", b.rank) /\ state[b] = "SREF"
  BY <1>0, <1>2, DemandFacts
<1>4. GoodRfms(rq, fq)
  BY RequestsGood
<1>5. ~IsRefresh(c) /\ ~IsRFM(c) /\ ~IsRefresh(NoCmd) /\ ~IsRFM(NoCmd) /\ ~Refused(rq)
  BY <1>3 DEF Cmd, RankCmd, NoCmd, IsRefresh, IsRFM, Refused
<1>6. /\ state' \in [Bank -> {"OPEN", "CLOSED", "SREF"}]
      /\ RanksSleepWhole' /\ exited' = FALSE
      /\ \A a \in Bank : state'[a] = "SREF" => state[a] = "SREF"
      /\ \A a \in Bank : a # b /\ state[a] = "CLOSED" => state'[a] = "CLOSED"
  <2>1. CASE c.type # "SREF_EXIT"
    <3>1. /\ Targets(c) = {b}
          /\ Legal(c) /\ c.type \in OrdinaryTypes
      <4>1. CASE c = Cmd("ACTIVATE", b) /\ state[b] = "CLOSED"
        <5>1. Targets(c) = {b} /\ c.type = "ACTIVATE"
          BY <1>2, <4>1, TargetsFacts DEF Cmd
        <5> QED BY <4>1, <5>1 DEF Legal, OrdinaryTypes
      <4>2. CASE /\ c \in {Cmd("COLUMN", b), Cmd("COLUMN_PRECHARGE", b), Cmd("PRECHARGE", b)}
                 /\ state[b] = "OPEN"
        <5>1. Targets(c) = {b} /\ c.type \in {"COLUMN", "COLUMN_PRECHARGE", "PRECHARGE"}
          BY <1>2, <4>2, TargetsFacts DEF Cmd
        <5> QED BY <4>2, <5>1 DEF Legal, OrdinaryTypes
      <4>3. ~(c = RankCmd("SREF_EXIT", b.rank))
        BY <2>1 DEF RankCmd
      <4> QED BY <1>3, <4>1, <4>2, <4>3
    <3>2. /\ state' \in [Bank -> {"OPEN", "CLOSED", "SREF"}]
          /\ \A a \in Bank : state'[a] = "SREF" <=> state[a] = "SREF"
          /\ \A a \in Bank : state[a] = "CLOSED" /\ state'[a] # "CLOSED" =>
                                a \in Targets(c) /\ c.type = "ACTIVATE"
          /\ RanksSleepWhole' /\ exited' = FALSE
      BY <1>0, <1>1, <3>1, OrdinaryIssue
    <3> QED BY <3>1, <3>2
  <2>2. CASE c.type = "SREF_EXIT"
    <3>1. c = RankCmd("SREF_EXIT", b.rank) /\ state[b] = "SREF"
      BY <1>3, <2>2 DEF Cmd
    <3>2. \A a \in Bank : a.rank = b.rank => state[a] = "SREF" /\ config.enableSelfRefresh
      BY <1>2, <3>1 DEF ChannelInv, RanksSleepWhole
    <3>3. Legal(c) /\ config.enableSelfRefresh
      <4>1. Targets(c) = {a \in Bank : a.rank = b.rank}
        BY <3>1, TargetsFacts
      <4> QED BY <1>2, <2>2, <3>2, <4>1 DEF Legal
    <3>4. /\ state' = [a \in Bank |-> IF a.rank = b.rank THEN "CLOSED" ELSE state[a]]
          /\ state' \in [Bank -> {"OPEN", "CLOSED", "SREF"}]
          /\ RanksSleepWhole' /\ exited' = FALSE
      <4> DEFINE type == "SREF_EXIT"
      <4>1. type \in {"SREF_ENTER", "SREF_EXIT"} /\ Issue(RankCmd(type, b.rank), rq, fq)
              /\ Legal(RankCmd(type, b.rank)) /\ type # "SREF_ENTER"
              /\ b.rank \in RankIds
        BY <1>1, <1>2, <3>1, <3>3, BankFields
      <4> HIDE DEF type
      <4>2. /\ state' = [a \in Bank |-> IF a.rank = b.rank
                                         THEN IF type = "SREF_ENTER" THEN "SREF" ELSE "CLOSED"
                                         ELSE state[a]]
            /\ state' \in [Bank -> {"OPEN", "CLOSED", "SREF"}]
            /\ RanksSleepWhole' /\ exited' = FALSE
        BY <1>0, <3>3, <4>1, SleepIssue
      <4> QED BY <4>1, <4>2
    <3> QED BY <3>4
  <2> QED BY <2>1, <2>2
<1>7. raa' \in [Bank -> Nat] /\ \A a \in Bank : raa'[a] <= config.raammt
  <2>1. c.type = "ACTIVATE" => \A a \in Targets(c) : ~RfmDue(a)
    <3>1. ASSUME c.type = "ACTIVATE" PROVE c = Cmd("ACTIVATE", b) /\ ~RfmDue(b)
      BY <1>3, <3>1 DEF Cmd, RankCmd
    <3>2. Targets(Cmd("ACTIVATE", b)) = {b}
      BY <1>2, TargetsFacts
    <3> QED BY <3>1, <3>2
  <2> QED BY <1>0, <1>1, <2>1, RaaStep
<1>8. /\ refreshQ' = IF IsRefresh(NoCmd) THEN Erase(rq, NoCmd) ELSE rq
      /\ rfmQ' = IF IsRFM(NoCmd) THEN Erase(fq, NoCmd) ELSE fq
      /\ issued' = NoCmd
  BY <1>1, <1>5 DEF Issue
<1> DEFINE cq == IF c.type \in {"COLUMN", "COLUMN_PRECHARGE"}
                 THEN [cmds EXCEPT ![b] = @ - 1] ELSE cmds
<1>9. cq \in [Bank -> Nat] /\ (\A a \in Bank : cq[a] <= cmds[a]) /\ Schedule(cq)
  <2>1. cmds \in [Bank -> Nat]
    BY <1>0 DEF Types
  <2> QED BY <1>1, <1>2, <2>1
<1> HIDE DEF cq
<1>10. /\ ChannelInv' /\ InOrder /\ Len(refreshQ') <= Len(rq)
       /\ \A i \in 1 .. Len(refreshQ') : \E j \in 1 .. Len(rq) : refreshQ'[i] = rq[j]
  BY <1>1, <1>4, <1>5, <1>6, <1>7, <1>8, <1>9, TickStep
<1>11. StayClosed
  <2>1. refIdx \cup rfmIdx \subseteq Bank
    BY DEF ChannelInv, TakenUp, Targets
  <2> QED BY <1>2, <1>6, <2>1 DEF StayClosed
<1> QED BY <1>6, <1>10, <1>11 DEF QuietQueue

LEMMA NoCommandStep ==
    ASSUME ChannelInv, NEW rq \in DueQueues, RefreshTick(rq), NoCommand(rq)
    PROVE  ChannelInv' /\ InOrder /\ StayClosed /\ QuietQueue(rq) /\ exited' = exited
<1>0. Types /\ config' = config
  BY DEF ChannelInv, RefreshTick
<1>1. PICK fq \in WithRequest(rq) : IssueNothing(rq, fq)
  BY DEF NoCommand
<1>2. Finish(rq, NoCmd) /\ Schedule(cmds) /\ exited' = exited
  BY DEF NoCommand
<1>3. GoodRfms(rq, fq)
  BY RequestsGood
<1>4. /\ refreshQ' = rq /\ rfmQ' = fq /\ issued' = NoCmd
      /\ state' = state /\ raa' = raa /\ alert' = alert
  BY <1>1 DEF IssueNothing
<1>5. ~IsRefresh(NoCmd) /\ ~IsRFM(NoCmd)
  BY DEF NoCmd, RankCmd, IsRefresh, IsRFM
<1>6. Refused(rq) => alert' = "over"
  BY <1>4 DEF Refused
<1>7. /\ state' \in [Bank -> {"OPEN", "CLOSED", "SREF"}]
      /\ cmds \in [Bank -> Nat] /\ \A b \in Bank : cmds[b] <= cmds[b]
  BY <1>0, <1>4 DEF Types
<1>8. raa' \in [Bank -> Nat] /\ \A b \in Bank : raa'[b] <= config.raammt
  BY <1>0, <1>4 DEF Types, ChannelInv, RfmsKeepUp
<1>9. RanksSleepWhole'
  BY <1>0, <1>4 DEF ChannelInv, RanksSleepWhole, Bank
<1>10. /\ ChannelInv' /\ InOrder /\ Len(refreshQ') <= Len(rq)
       /\ \A i \in 1 .. Len(refreshQ') : \E j \in 1 .. Len(rq) : refreshQ'[i] = rq[j]
  BY <1>2, <1>3, <1>4, <1>5, <1>6, <1>7, <1>8, <1>9, TickStep
<1> QED BY <1>2, <1>4, <1>10 DEF StayClosed, QuietQueue

LEMMA EnterSelfRefreshStep ==
    ASSUME ChannelInv, NEW rq \in DueQueues, RefreshTick(rq), NEW r \in RankIds,
           EnterSelfRefresh(rq, r)
    PROVE  ChannelInv' /\ InOrder /\ StayClosed /\ QuietQueue(rq) /\ exited' = FALSE
<1>0. Types /\ config' = config
  BY DEF ChannelInv, RefreshTick
<1> DEFINE type == "SREF_ENTER"
           c == RankCmd(type, r)
<1>1. PICK fq \in WithRequest(rq) : Issue(c, rq, fq)
  BY DEF EnterSelfRefresh
<1>2. /\ Finish(rq, NoCmd) /\ Schedule(cmds) /\ config.enableSelfRefresh
      /\ rankQEmpty[r] /\ \A p \in Pending(rq) : p.rank # r
      /\ \A b \in Targets(RankCmd("", r)) : state[b] = "CLOSED"
  BY DEF EnterSelfRefresh
<1>3. GoodRfms(rq, fq)
  BY RequestsGood
<1>4. ~IsRefresh(c) /\ ~IsRFM(c) /\ ~IsRefresh(NoCmd) /\ ~IsRFM(NoCmd) /\ c.type = type
  BY DEF NoCmd, RankCmd, IsRefresh, IsRFM
<1>5. Legal(c)
  <2>1. Targets(c) = {b \in Bank : b.rank = r}
          /\ Targets(RankCmd("", r)) = {b \in Bank : b.rank = r}
    BY DEF Targets, RankCmd
  <2> QED BY <1>2, <1>4, <2>1 DEF Legal
<1>6. /\ state' = [b \in Bank |-> IF b.rank = r THEN "SREF" ELSE state[b]]
      /\ state' \in [Bank -> {"OPEN", "CLOSED", "SREF"}]
      /\ RanksSleepWhole' /\ exited' = FALSE
  <2>1. type \in {"SREF_ENTER", "SREF_EXIT"} /\ type = "SREF_ENTER"
    OBVIOUS
  <2>2. Issue(RankCmd(type, r), rq, fq) /\ Legal(RankCmd(type, r))
    BY <1>1, <1>5
  <2>5. config.enableSelfRefresh /\ config' = config
    BY <1>0, <1>2
  <2> HIDE DEF type, c
  <2>3. /\ state' = [b \in Bank |-> IF b.rank = r
                                     THEN IF type = "SREF_ENTER" THEN "SREF" ELSE "CLOSED"
                                     ELSE state[b]]
        /\ state' \in [Bank -> {"OPEN", "CLOSED", "SREF"}]
        /\ RanksSleepWhole' /\ exited' = FALSE
    BY <2>1, <2>2, <2>5, SleepIssue
  <2>4. state' = [b \in Bank |-> IF b.rank = r THEN "SREF" ELSE state[b]]
    <3>1. \A b \in Bank : state'[b] = IF b.rank = r THEN "SREF" ELSE state[b]
      BY <2>1, <2>3
    <3>2. state' = [b \in Bank |-> state'[b]]
      BY <2>3
    <3> QED BY <3>1, <3>2
  <2> QED BY <2>3, <2>4
<1>7. raa' \in [Bank -> Nat] /\ \A a \in Bank : raa'[a] <= config.raammt
  BY <1>0, <1>1, <1>4, RaaStep
<1>8. Refused(rq) => alert' = "over"
  BY <1>1, <1>4, AlertStays DEF Refused
<1>9. /\ refreshQ' = IF IsRefresh(NoCmd) THEN Erase(rq, NoCmd) ELSE rq
      /\ rfmQ' = IF IsRFM(NoCmd) THEN Erase(fq, NoCmd) ELSE fq
      /\ cmds \in [Bank -> Nat] /\ \A b \in Bank : cmds[b] <= cmds[b]
      /\ issued' = NoCmd
  BY <1>0, <1>1, <1>4 DEF Issue, Types
<1>10. /\ ChannelInv' /\ InOrder /\ Len(refreshQ') <= Len(rq)
       /\ \A i \in 1 .. Len(refreshQ') : \E j \in 1 .. Len(rq) : refreshQ'[i] = rq[j]
  BY <1>2, <1>3, <1>4, <1>6, <1>7, <1>8, <1>9, TickStep
<1>11. rq # << >> => Head(rq).rank # r
  BY <1>2 DEF Pending
<1>12. StayClosed
  <2>1. SUFFICES ASSUME NEW b \in refIdx \cup rfmIdx
                 PROVE  b \in Bank /\ b.rank # r
    BY <1>6 DEF StayClosed
  <2>2. CASE b \in refIdx
    <3>1. refreshQ # << >> /\ b \in Targets(Head(refreshQ))
      BY <2>2 DEF ChannelInv, TakenUp
    <3>2. rq # << >> /\ Head(rq) = Head(refreshQ)
      BY <1>0, <3>1, HeadStays
    <3> QED BY <1>11, <3>1, <3>2 DEF Targets
  <2>3. CASE b \in rfmIdx
    <3>1. rfmQ # << >> /\ b \in Targets(Head(rfmQ)) /\ rfmQ \in Seq(RfmCmds)
      BY <2>3 DEF ChannelInv, TakenUp, Types
    <3>2. 1 \in 1 .. Len(rfmQ) /\ Head(rfmQ) = rfmQ[1]
      BY <3>1
    <3>3. b \in Bank /\ b.rank = rfmQ[1].rank
      BY <3>1, <3>2 DEF Targets
    <3>4. \/ ~rankQEmpty[rfmQ[1].rank]
          \/ refreshQ # << >> /\ Head(refreshQ).rank = rfmQ[1].rank
      BY <3>2 DEF ChannelInv, QueuesWereFilled
    <3>5. refreshQ # << >> => Head(refreshQ).rank # r
      BY <1>0, <1>11, HeadStays
    <3> QED BY <1>2, <3>3, <3>4, <3>5
  <2> QED BY <2>1, <2>2, <2>3
<1> QED BY <1>6, <1>10, <1>11, <1>12 DEF QuietQueue

\* The steps that leave the queues and the banks alone.
LEMMA SameStep ==
    ASSUME ChannelInv, config' = config, next' \in Bank,
           UNCHANGED <<refreshQ, rfmQ, inRef, refIdx, inRfm, rfmIdx, state, raa, cmds,
                       rankQEmpty>>,
           alert = "over" => alert' = "over",
           issued' = NoCmd \/ UNCHANGED vars
    PROVE  ChannelInv' /\ InOrder /\ StayClosed
<1>1. Bank' = Bank /\ RankIds' = RankIds /\ RfmCmds' = RfmCmds
  BY DEF Bank, RankIds, RfmCmds
<1>2. Types'
  BY <1>1 DEF ChannelInv, Types
<1>3. RanksSleepWhole'
  BY <1>1 DEF ChannelInv, RanksSleepWhole
<1>4. TakenUp'
  <2>1. /\ Targets(Head(refreshQ))' = Targets(Head(refreshQ))
        /\ Targets(Head(rfmQ))' = Targets(Head(rfmQ))
    BY <1>1 DEF Targets
  <2> QED BY <2>1 DEF ChannelInv, TakenUp
<1>5. QueuesWereFilled'
  BY <1>1 DEF ChannelInv, QueuesWereFilled
<1>6. RfmsKeepUp'
  BY <1>1 DEF ChannelInv, RfmsKeepUp
<1>7. InOrder
  <2>1. refreshQ \in Seq(Units(config)) /\ rfmQ \in Seq(RfmCmds)
    BY DEF ChannelInv, Types
  <2>2. Longer(rfmQ, rfmQ)
    BY <2>1 DEF Longer
  <2>3. IsPrefix(rfmQ, rfmQ')
    BY <2>1, <2>2, LongerIsPrefix
  <2>4. refreshQ' \in DueQueues
    BY DEF DueQueues
  <2> QED BY <2>3, <2>4, NothingIssued DEF InOrder
<1>8. StayClosed
  BY DEF StayClosed
<1> QED BY <1>2, <1>3, <1>4, <1>5, <1>6, <1>7, <1>8 DEF ChannelInv

\* A tick in which the program does not exit.
Tick(rq) ==
    /\ RefreshTick(rq)
    /\ \/ ServePending(rq)
       \/ \E b, types : ServeDemand(rq, b, types)
       \/ NoCommand(rq)
       \/ \E r \in RankIds : EnterSelfRefresh(rq, r)

LEMMA NextCases ==
    ASSUME [Next]_vars
    PROVE  \/ ~exited /\ \E rq \in DueQueues : Tick(rq)
           \/ ~exited /\ \E rq \in DueQueues : Abort(rq) /\ RefreshTick(rq)
           \/ AboElapses
           \/ UNCHANGED vars
<1>1. CASE Refreshing
  BY <1>1 DEF Refreshing, Tick
<1>2. CASE \E b \in Bank : RowCommand(b) \/ Column(b)
  BY <1>2 DEF RowCommand, Column, Tick
<1>3. CASE Idle
  BY <1>3 DEF Idle, Tick
<1>4. CASE Sleep
  BY <1>4 DEF Sleep, Tick
<1>5. CASE Exit
  BY <1>5 DEF Exit
<1> QED BY <1>1, <1>2, <1>3, <1>4, <1>5 DEF Next

LEMMA TickKeeps ==
    ASSUME ChannelInv, NEW rq \in DueQueues, Tick(rq)
    PROVE  /\ ChannelInv' /\ InOrder /\ StayClosed /\ QuietQueue(rq)
           /\ exited' \in {FALSE, exited}
<1>0. RefreshTick(rq)
  BY DEF Tick
<1>1. CASE ServePending(rq)
  BY <1>0, <1>1, ServePendingStep
<1>2. ASSUME NEW b, NEW types, ServeDemand(rq, b, types)
      PROVE  ChannelInv' /\ InOrder /\ StayClosed /\ QuietQueue(rq) /\ exited' = FALSE
  BY <1>0, <1>2, ServeDemandStep
<1>3. CASE NoCommand(rq)
  BY <1>0, <1>3, NoCommandStep
<1>4. ASSUME NEW r \in RankIds, EnterSelfRefresh(rq, r)
      PROVE  ChannelInv' /\ InOrder /\ StayClosed /\ QuietQueue(rq) /\ exited' = FALSE
  BY <1>0, <1>4, EnterSelfRefreshStep
<1> QED BY <1>1, <1>2, <1>3, <1>4 DEF Tick

LEMMA ChannelStep ==
    ASSUME ChannelInv, [Next]_vars
    PROVE  ChannelInv' /\ InOrder /\ StayClosed
<1>0. Types
  BY DEF ChannelInv
<1>1. ASSUME NEW rq \in DueQueues, Tick(rq)
      PROVE  ChannelInv' /\ InOrder /\ StayClosed
  BY <1>1, TickKeeps
<1>2. ASSUME NEW rq \in DueQueues, Abort(rq), RefreshTick(rq)
      PROVE  ChannelInv' /\ InOrder /\ StayClosed
  <2>1. config' = config /\ next' \in Bank
    BY <1>0, <1>2, CursorStep
  <2> QED BY <1>2, <2>1, SameStep DEF Abort
<1>3. CASE AboElapses
  <2>1. config' = config /\ next' \in Bank
    BY <1>0, <1>3 DEF AboElapses, timerVars, Types
  <2> QED BY <1>3, <2>1, SameStep DEF AboElapses
<1>4. CASE UNCHANGED vars
  <2>1. config' = config /\ next' \in Bank
    BY <1>0, <1>4 DEF vars, timerVars, Types
  <2> QED BY <1>4, <2>1, SameStep DEF vars
<1> QED BY <1>1, <1>2, <1>3, <1>4, NextCases

LEMMA ChannelInit == Init => ChannelInv
<1> SUFFICES ASSUME Init PROVE ChannelInv
  OBVIOUS
<1>1. /\ config \in Configs /\ next = Cursor0 /\ refreshQ = << >> /\ rfmQ = << >>
      /\ inRef = FALSE /\ inRfm = FALSE /\ refIdx = {} /\ rfmIdx = {}
      /\ state = [b \in Bank |-> "CLOSED"] /\ raa = [b \in Bank |-> 0]
      /\ cmds = [b \in Bank |-> 0] /\ rankQEmpty = [r \in RankIds |-> TRUE]
  BY DEF Init
<1>2. /\ config.ranks \in Nat \ {0} /\ config.bankGroups \in Nat \ {0}
      /\ config.banksPerGroup \in Nat \ {0} /\ config.raammt \in Nat
  BY <1>1, ChannelConstants DEF Configuration
<1>3. next \in Bank
  BY <1>1, <1>2 DEF Cursor0, Bank, BankAddr
<1>4. refreshQ \in Seq(Units(config)) /\ rfmQ \in Seq(RfmCmds)
        /\ Len(refreshQ) = 0 /\ Len(rfmQ) = 0
  BY <1>1
<1>5. Types
  BY <1>1, <1>3, <1>4 DEF Types
<1>6. RanksSleepWhole /\ TakenUp /\ QueuesWereFilled /\ RfmsKeepUp
  BY <1>1, <1>2, <1>4 DEF RanksSleepWhole, TakenUp, QueuesWereFilled, RfmsKeepUp
<1> QED BY <1>5, <1>6 DEF ChannelInv

-----------------------------------------------------------------------------
(* Self-refresh.                                                           *)

LEMMA WholeRankAsleep ==
    ASSUME ChannelInv, NEW b \in Bank, state[b] = "SREF"
    PROVE  b.rank \in Asleep /\ config.enableSelfRefresh
<1>1. b.rank \in RankIds
  BY BankFields
<1>2. \A a \in Bank : a.rank = b.rank => state[a] = "SREF"
  BY DEF ChannelInv, RanksSleepWhole
<1>3. Targets(RankCmd("", b.rank)) = {a \in Bank : a.rank = b.rank}
  BY DEF Targets, RankCmd
<1>4. IsRankSelfRefreshing(b.rank)
  BY <1>2, <1>3 DEF IsRankSelfRefreshing
<1> QED BY <1>1, <1>4 DEF Asleep, ChannelInv, RanksSleepWhole

\* The refreshes that are due in a tick are for ranks that are awake.
LEMMA DueAwake ==
    ASSUME ChannelInv, NoRefreshAsleep, NEW rq \in DueQueues, NEW j \in 1 .. Len(rq),
           NEW b \in Bank, b.rank = rq[j].rank
    PROVE  state[b] # "SREF"
<1>1. /\ Types /\ rq \in Seq(Units(config)) /\ Longer(refreshQ, rq)
      /\ \A i \in Len(refreshQ) + 1 .. Len(rq) : rq[i].rank \notin Asleep
      /\ refreshQ \in Seq(Units(config))
  BY DueFacts DEF ChannelInv, Types
<1>2. CASE j \in 1 .. Len(refreshQ)
  BY <1>1, <1>2 DEF Longer, NoRefreshAsleep
<1>3. CASE j \in Len(refreshQ) + 1 .. Len(rq)
  BY <1>1, <1>3, WholeRankAsleep
<1> QED BY <1>1, <1>2, <1>3

LEMMA TickAwake ==
    ASSUME OneRefreshDue, ChannelInv, NoRefreshAsleep, NEW rq \in DueQueues,
           RefreshTick(rq), QuietQueue(rq), ChannelInv'
    PROVE  NoRefreshAsleep'
<1>1. /\ Types /\ config' = config /\ Bank' = Bank
      /\ rq \in Seq(Units(config)) /\ Len(rq) <= Len(refreshQ) + 1
      /\ Len(rq) \in Nat /\ Len(refreshQ) \in Nat /\ Len(refreshQ') \in Nat
  <2>1. Types /\ Types' /\ config' = config
    BY DEF ChannelInv, RefreshTick
  <2>2. rq \in Seq(Units(config)) /\ Len(rq) <= Len(refreshQ) + 1
    BY <2>1, DueFacts
  <2>3. refreshQ \in Seq(Units(config)) /\ refreshQ' \in Seq(Units(config)')
    BY <2>1 DEF Types
  <2> QED BY <2>1, <2>2, <2>3 DEF Bank
<1>2. config.enableSelfRefresh => Len(rq) <= 1
  <2>1. SUFFICES ASSUME config.enableSelfRefresh PROVE Len(rq) <= 1
    OBVIOUS
  <2>2. config.maxRefreshes \in Nat /\ config.maxRefreshes <= 1 /\ Len(refreshQ) <= 1
    BY <1>1, <2>1, ConfigTypes DEF OneRefreshDue, NoRefreshAsleep, Types
  <2>3. rq = refreshQ \/ Len(refreshQ) < config.maxRefreshes
    BY DEF RefreshTick
  <2> QED BY <1>1, <2>2, <2>3
<1>3. ASSUME NEW i \in 1 .. Len(refreshQ'), NEW b \in Bank, b.rank = refreshQ'[i].rank
      PROVE  state'[b] # "SREF"
  <2>1. SUFFICES ASSUME state'[b] = "SREF" PROVE FALSE
    OBVIOUS
  <2>2. PICK j \in 1 .. Len(rq) : refreshQ'[i] = rq[j]
    BY DEF QuietQueue
  <2>3. state[b] # "SREF"
    BY <1>3, <2>2, DueAwake
  <2>4. rq # << >> => Head(rq).rank # b.rank
    BY <2>1, <2>3 DEF QuietQueue
  <2>5. config.enableSelfRefresh
    BY <1>1, <2>1 DEF ChannelInv, RanksSleepWhole
  <2>6. j = 1 /\ rq # << >> /\ Head(rq) = rq[1]
    BY <1>1, <1>2, <2>2, <2>5
  <2> QED BY <1>3, <2>2, <2>4, <2>6
<1>4. config.enableSelfRefresh => Len(refreshQ') <= 1
  BY <1>1, <1>2 DEF QuietQueue
<1> QED BY <1>1, <1>3, <1>4 DEF NoRefreshAsleep

\* The program exits in front of a rank that sleeps only if the rank has to wake up.
LEMMA ExitWakesUp ==
    ASSUME ChannelInv, NoRefreshAsleep, NEW rq \in DueQueues, Abort(rq)
    PROVE  \E r \in RankIds : WakesUp(r)
<1>0. Types
  BY DEF ChannelInv
<1>1. SUFFICES ASSUME ~Takeable(rq) PROVE \E r \in RankIds : WakesUp(r)
  BY DEF Abort
<1>2. PICK p \in Pending(rq), b \in Bank : b \in Targets(p) /\ state[b] = "SREF"
  BY <1>1 DEF Takeable
<1>3. b.rank = p.rank
  BY <1>2 DEF Targets
<1>4. CASE rq # << >>
  <2>1. p = rq[1] /\ 1 \in 1 .. Len(rq)
    <3>1. rq \in Seq(Units(config))
      BY <1>0, DueFacts
    <3> QED BY <1>4, <3>1 DEF Pending
  <2> QED BY <1>2, <1>3, <2>1, DueAwake
<1>5. CASE rq = << >>
  <2>1. rfmQ # << >> /\ p = rfmQ[1] /\ 1 \in 1 .. Len(rfmQ)
    BY <1>0, <1>5 DEF Pending, Types
  <2>2. refreshQ = << >>
    BY <1>0, <1>5, HeadStays
  <2>3. ~rankQEmpty[b.rank]
    BY <1>3, <2>1, <2>2 DEF ChannelInv, QueuesWereFilled
  <2>4. b.rank \in Asleep /\ config.enableSelfRefresh
    BY <1>2, WholeRankAsleep
  <2> QED BY <2>3, <2>4 DEF WakesUp, Asleep
<1> QED BY <1>4, <1>5

LEMMA SleepSame ==
    ASSUME NEW r, config' = config, UNCHANGED <<state, rankQEmpty>>
    PROVE  WakesUp(r)' <=> WakesUp(r)
<1>1. Targets(RankCmd("", r))' = Targets(RankCmd("", r))
  BY DEF Targets, RankCmd, Bank
<1> QED BY <1>1 DEF WakesUp, IsRankSelfRefreshing

LEMMA SleepStep ==
    ASSUME OneRefreshDue, SleepInv, [Next]_vars
    PROVE  SleepInv'
<1>0. ChannelInv /\ NoRefreshAsleep /\ NoIllegalCommand
  BY DEF SleepInv
<1>1. ChannelInv'
  BY <1>0, ChannelStep
<1>2. ASSUME ~exited, NEW rq \in DueQueues, Tick(rq)
      PROVE  NoRefreshAsleep' /\ NoIllegalCommand'
  <2>1. RefreshTick(rq) /\ QuietQueue(rq) /\ exited' \in {FALSE, exited}
    BY <1>0, <1>2, TickKeeps DEF Tick
  <2>2. NoRefreshAsleep'
    BY <1>0, <1>1, <2>1, TickAwake
  <2>3. ~exited'
    BY <1>2, <2>1
  <2> QED BY <2>2, <2>3 DEF NoIllegalCommand
<1>3. ASSUME refreshQ' = refreshQ, state' = state, rankQEmpty' = rankQEmpty,
             config' = config,
             exited' = exited \/ \E r \in RankIds : WakesUp(r)
      PROVE  NoRefreshAsleep' /\ NoIllegalCommand'
  <2>1. Bank' = Bank /\ RankIds' = RankIds
    BY <1>3 DEF Bank, RankIds
  <2>2. NoRefreshAsleep'
    BY <1>0, <1>3, <2>1 DEF NoRefreshAsleep
  <2>3. exited' => \E r \in RankIds : WakesUp(r)
    BY <1>0, <1>3 DEF NoIllegalCommand
  <2>4. \A r \in RankIds : WakesUp(r)' <=> WakesUp(r)
    BY <1>3, SleepSame
  <2>5. NoIllegalCommand'
    BY <2>1, <2>3, <2>4 DEF NoIllegalCommand
  <2> QED BY <2>2, <2>5
<1>4. ASSUME NEW rq \in DueQueues, Abort(rq), RefreshTick(rq)
      PROVE  NoRefreshAsleep' /\ NoIllegalCommand'
  <2>1. \E r \in RankIds : WakesUp(r)
    BY <1>0, <1>4, ExitWakesUp
  <2> QED BY <1>3, <1>4, <2>1 DEF Abort, RefreshTick
<1>5. CASE AboElapses
  <2>1. refreshQ' = refreshQ /\ state' = state /\ rankQEmpty' = rankQEmpty
          /\ config' = config /\ exited' = exited
    BY <1>5 DEF AboElapses, timerVars
  <2> QED BY <1>1, <1>3, <2>1 DEF SleepInv
<1>6. CASE UNCHANGED vars
  <2>1. refreshQ' = refreshQ /\ state' = state /\ rankQEmpty' = rankQEmpty
          /\ config' = config /\ exited' = exited
    BY <1>6 DEF vars, timerVars
  <2> QED BY <1>1, <1>3, <2>1 DEF SleepInv
<1> QED BY <1>1, <1>2, <1>4, <1>5, <1>6, NextCases DEF SleepInv

-----------------------------------------------------------------------------
(* The rotation of the refresh timer.                                      *)

Staggered == config.policy \in {"RANK_LEVEL_STAGGERED", "BANK_LEVEL_STAGGERED"}

\* The order in which units have their turn, and those that have had theirs between
\* the turn of u and the one of c, which is next.
Before(u, v) ==
    \/ u.rank < v.rank
    \/ u.rank = v.rank /\ u.bank < v.bank
    \/ u.rank = v.rank /\ u.bank = v.bank /\ u.bg < v.bg
Between(u, c) ==
    {v \in Units(config) : IF Before(u, c) THEN Before(u, v) /\ Before(v, c)
                           ELSE Before(u, v) \/ Before(v, c)}

\* No unit has seen more requests than units that have had their turn since its own.
TurnsTaken ==
    /\ age \in [Units(config) -> Nat]
    /\ Staggered => \A u \in Units(config) :
                       age[u] <= Cardinality(Between(u, UnitOf(config, next)))

LEMMA UnitShape ==
    ASSUME Types
    PROVE  /\ \A u \in Units(config) : u.rank \in Int /\ u.bank \in Int /\ u.bg \in Int
           /\ \A u, v \in Units(config) :
                 u.rank = v.rank /\ u.bank = v.bank /\ u.bg = v.bg => u = v
<1>1. ASSUME NEW u \in Units(config)
      PROVE  /\ u.rank \in Int /\ u.bank \in Int /\ u.bg \in Int
             /\ u = [type |-> RefreshType(config), rank |-> u.rank, bg |-> u.bg,
                     bank |-> u.bank]
  <2>1. PICK b \in Bank : u = UnitOf(config, b)
    BY DEF Units, Bank
  <2>2. b.rank \in Int /\ b.bg \in Int /\ b.bank \in Int /\ All \in Int
    BY BankFields DEF RankIds, All
  <2> QED BY <2>1, <2>2 DEF UnitOf
<1>2. ASSUME NEW u \in Units(config), NEW v \in Units(config),
             u.rank = v.rank, u.bank = v.bank, u.bg = v.bg
      PROVE  u = v
  <2>1. /\ u = [type |-> RefreshType(config), rank |-> u.rank, bg |-> u.bg,
                bank |-> u.bank]
        /\ v = [type |-> RefreshType(config), rank |-> v.rank, bg |-> v.bg,
                bank |-> v.bank]
    BY <1>1
  <2> QED BY <1>2, <2>1
<1> QED BY <1>1, <1>2

LEMMA BeforeIsTotal ==
    ASSUME Types, NEW u \in Units(config), NEW v \in Units(config)
    PROVE  /\ u = v \/ Before(u, v) \/ Before(v, u)
           /\ ~(Before(u, v) /\ Before(v, u)) /\ ~Before(u, u)
           /\ \A w \in Units(config) : Before(u, v) /\ Before(v, w) => Before(u, w)
<1>1. /\ u.rank \in Int /\ u.bank \in Int /\ u.bg \in Int
      /\ v.rank \in Int /\ v.bank \in Int /\ v.bg \in Int
      /\ (u.rank = v.rank /\ u.bank = v.bank /\ u.bg = v.bg => u = v)
      /\ \A w \in Units(config) : w.rank \in Int /\ w.bank \in Int /\ w.bg \in Int
  BY UnitShape
<1>2. u = v \/ Before(u, v) \/ Before(v, u)
  BY <1>1 DEF Before
<1>3. ~(Before(u, v) /\ Before(v, u)) /\ ~Before(u, u)
  BY <1>1 DEF Before
<1>4. \A w \in Units(config) : Before(u, v) /\ Before(v, w) => Before(u, w)
  BY <1>1 DEF Before
<1> QED BY <1>2, <1>3, <1>4

LEMMA UnitsAreFinite ==
    ASSUME Types
    PROVE  IsFiniteSet(Units(config)) /\ Round \in Nat
<1> DEFINE R == 0 .. config.ranks - 1
           G == All .. config.bankGroups - 1
           B == All .. config.banksPerGroup - 1
           f == [u \in Units(config) |-> <<u.rank, <<u.bg, u.bank>>>>]
<1>1. /\ config.ranks \in Nat /\ config.bankGroups \in Nat /\ config.banksPerGroup \in Nat
      /\ All \in Int
  BY ConfigTypes DEF All
<1>2. IsFiniteSet(R) /\ IsFiniteSet(G) /\ IsFiniteSet(B)
  <2>1. /\ 0 \in Int /\ config.ranks - 1 \in Int /\ config.bankGroups - 1 \in Int
        /\ config.banksPerGroup - 1 \in Int
    BY <1>1
  <2> QED BY <1>1, <2>1, FS_Interval
<1> HIDE DEF R, G, B
<1>3. IsFiniteSet(R \X (G \X B))
  BY <1>2, FS_Product
<1>4. ASSUME NEW u \in Units(config) PROVE f[u] \in R \X (G \X B)
  <2>1. PICK b \in Bank : u = UnitOf(config, b)
    BY DEF Units, Bank
  <2>2. /\ b.rank \in RankIds /\ b.bg \in 0 .. config.bankGroups - 1
        /\ b.bank \in 0 .. config.banksPerGroup - 1
    BY BankFields
  <2>3. u.rank = b.rank /\ u.bg \in {All, b.bg} /\ u.bank \in {All, b.bank}
    BY <2>1 DEF UnitOf
  <2>4. u.rank \in R
    BY <2>2, <2>3 DEF R, RankIds
  <2>5. u.bg \in G /\ u.bank \in B
    BY <1>1, <2>2, <2>3 DEF G, B, All
  <2> QED BY <2>4, <2>5
<1>5. ASSUME NEW u \in Units(config), NEW v \in Units(config), f[u] = f[v] PROVE u = v
  <2>1. u.rank = v.rank /\ u.bank = v.bank /\ u.bg = v.bg
    BY <1>5
  <2> QED BY <2>1, UnitShape
<1>6. f \in Injection(Units(config), R \X (G \X B))
  <2>1. f \in [Units(config) -> R \X (G \X B)]
    BY <1>4
  <2> HIDE DEF f
  <2> QED BY <1>5, <2>1 DEF Injection, IsInjective
<1>7. IsFiniteSet(Units(config))
  <2> HIDE DEF f
  <2> QED BY <1>3, <1>6, FS_Injection
<1> QED BY <1>7, FS_CardinalityType DEF Round

\* The unit after c is the next one in the order, or the first one after the last.
Follows(d, c) ==
    \/ /\ \A v \in Units(config) : ~Before(v, d) /\ ~Before(c, v)
    \/ /\ \A v \in Units(config) : Before(v, d) <=> Before(v, c) \/ v = c

LEMMA OneMore ==
    ASSUME NEW m \in Nat \ {0}, NEW i \in 0 .. m - 1
    PROVE  (i + 1) % m = IF i = m - 1 THEN 0 ELSE i + 1
<1>1. CASE i = m - 1
  BY <1>1
<1>2. CASE i # m - 1
  BY <1>2
<1> QED BY <1>1, <1>2

LEMMA NextFollows ==
    ASSUME Types, Staggered
    PROVE  /\ UnitOf(config, next) \in Units(config)
           /\ UnitOf(config, IterateNext(config, next)) \in Units(config)
           /\ Follows(UnitOf(config, IterateNext(config, next)), UnitOf(config, next))
<1> DEFINE n == next
           ra == config.ranks
           bs == config.banksPerGroup
           gs == config.bankGroups
           c == UnitOf(config, n)
<1>1. /\ ra \in Nat \ {0} /\ bs \in Nat \ {0} /\ gs \in Nat \ {0}
      /\ n \in Bank /\ n.rank \in 0 .. ra - 1 /\ n.bank \in 0 .. bs - 1
      /\ n.bg \in 0 .. gs - 1
      /\ n = [rank |-> n.rank, bg |-> n.bg, bank |-> n.bank]
  BY ConfigTypes, BankFields DEF Types, RankIds
<1>2. \A b \in Bank : UnitOf(config, b) \in Units(config)
  BY DEF Units, Bank
<1>3. ASSUME NEW b \in Bank, IterateNext(config, n) = b,
             Follows(UnitOf(config, b), c)
      PROVE  /\ UnitOf(config, next) \in Units(config)
             /\ UnitOf(config, IterateNext(config, next)) \in Units(config)
             /\ Follows(UnitOf(config, IterateNext(config, next)), UnitOf(config, next))
  BY <1>1, <1>2, <1>3
<1>4. CASE config.policy = "RANK_LEVEL_STAGGERED"
  <2>1. \A b \in Bank : UnitOf(config, b) = [type |-> "REFab", rank |-> b.rank,
                                             bg |-> All, bank |-> All]
    BY <1>4 DEF UnitOf, RefreshType
  <2>2. ASSUME NEW v \in Units(config)
        PROVE  v.rank \in 0 .. ra - 1 /\ v.bg = All /\ v.bank = All
               /\ (v.rank = n.rank => v = c)
    <3>1. PICK b \in Bank : v = UnitOf(config, b)
      BY DEF Units, Bank
    <3>2. b.rank \in 0 .. ra - 1
      BY BankFields DEF RankIds
    <3> QED BY <1>1, <2>1, <3>1, <3>2
  <2> DEFINE b == [n EXCEPT !.rank = (@ + 1) % ra]
  <2>3. IterateNext(config, n) = b
    BY <1>4 DEF IterateNext, NextRank
  <2>4. b = [rank |-> (n.rank + 1) % ra, bg |-> n.bg, bank |-> n.bank]
    BY <1>1
  <2>5. (n.rank + 1) % ra = IF n.rank = ra - 1 THEN 0 ELSE n.rank + 1
    BY <1>1, OneMore
  <2>6. (n.rank + 1) % ra \in 0 .. ra - 1
    BY <1>1, <2>5
  <2> HIDE DEF b
  <2>7. b \in Bank /\ b.rank = (n.rank + 1) % ra
    BY <1>1, <2>4, <2>6 DEF Bank, BankAddr
  <2>8. /\ UnitOf(config, b).rank = b.rank /\ UnitOf(config, b).bg = All
        /\ UnitOf(config, b).bank = All
        /\ c.rank = n.rank /\ c.bg = All /\ c.bank = All /\ c \in Units(config)
    BY <1>1, <1>2, <2>1, <2>7
  <2>9. All \in Int /\ ~(All < All)
    BY DEF All
  <2> HIDE DEF c
  <2>10. CASE n.rank = ra - 1
    <3>1. \A v \in Units(config) : ~Before(v, UnitOf(config, b)) /\ ~Before(c, v)
      BY <1>1, <2>2, <2>5, <2>7, <2>8, <2>9, <2>10 DEF Before
    <3> QED BY <1>3, <2>3, <2>7, <3>1 DEF Follows
  <2>11. CASE n.rank # ra - 1
    <3>1. ASSUME NEW v \in Units(config)
          PROVE  Before(v, UnitOf(config, b)) <=> Before(v, c) \/ v = c
      <4>1. Before(v, UnitOf(config, b)) <=> v.rank < n.rank + 1
        BY <1>1, <2>2, <2>5, <2>7, <2>8, <2>9, <2>11 DEF Before
      <4>2. Before(v, c) <=> v.rank < n.rank
        BY <1>1, <2>2, <2>8, <2>9 DEF Before
      <4>3. v = c <=> v.rank = n.rank
        BY <2>2, <2>8
      <4> QED BY <1>1, <2>2, <4>1, <4>2, <4>3
    <3> QED BY <1>3, <2>3, <2>7, <3>1 DEF Follows
  <2> QED BY <2>10, <2>11
<1>5. CASE config.policy = "BANK_LEVEL_STAGGERED"
  <2>1. \A b \in Bank : UnitOf(config, b) = [type |-> "REFRESH_BANK", rank |-> b.rank,
                                             bg |-> b.bg, bank |-> b.bank]
    BY <1>5 DEF UnitOf, RefreshType
  <2>2. ASSUME NEW v \in Units(config)
        PROVE  /\ v.rank \in 0 .. ra - 1 /\ v.bg \in 0 .. gs - 1 /\ v.bank \in 0 .. bs - 1
               /\ v = c <=> (v.rank = n.rank /\ v.bg = n.bg /\ v.bank = n.bank)
    <3>1. PICK b \in Bank : v = UnitOf(config, b)
      BY DEF Units, Bank
    <3>2. b.rank \in 0 .. ra - 1 /\ b.bg \in 0 .. gs - 1 /\ b.bank \in 0 .. bs - 1
      BY BankFields DEF RankIds
    <3>3. v = c => (v.rank = n.rank /\ v.bg = n.bg /\ v.bank = n.bank)
      BY <1>1, <2>1
    <3>4. (v.rank = n.rank /\ v.bg = n.bg /\ v.bank = n.bank) => v = c
      BY <1>1, <2>1, <3>1
    <3> QED BY <2>1, <3>1, <3>2, <3>3, <3>4
  <2>3. c.rank = n.rank /\ c.bg = n.bg /\ c.bank = n.bank
    BY <1>1, <2>1
  <2> DEFINE At(r, k, g) == [rank |-> r, bg |-> g, bank |-> k]
             d == IterateNext(config, n)
  <2>4. d = NextGroup(config, n)
    BY <1>5 DEF IterateNext
  <2>5. /\ (n.bg + 1) % gs = IF n.bg = gs - 1 THEN 0 ELSE n.bg + 1
        /\ (n.bank + 1) % bs = IF n.bank = bs - 1 THEN 0 ELSE n.bank + 1
        /\ (n.rank + 1) % ra = IF n.rank = ra - 1 THEN 0 ELSE n.rank + 1
    BY <1>1, OneMore
  <2>6. [n EXCEPT !.bg = (@ + 1) % gs] = At(n.rank, n.bank, (n.bg + 1) % gs)
    BY <1>1
  <2>7. [At(n.rank, n.bank, 0) EXCEPT !.bank = (@ + 1) % bs]
          = At(n.rank, (n.bank + 1) % bs, 0)
    OBVIOUS
  <2>8. [At(n.rank, 0, 0) EXCEPT !.rank = (@ + 1) % ra] = At((n.rank + 1) % ra, 0, 0)
    OBVIOUS
  <2>9. ASSUME NEW r \in 0 .. ra - 1, NEW k \in 0 .. bs - 1, NEW g \in 0 .. gs - 1
        PROVE  /\ At(r, k, g) \in Bank
               /\ UnitOf(config, At(r, k, g)).rank = r
               /\ UnitOf(config, At(r, k, g)).bank = k
               /\ UnitOf(config, At(r, k, g)).bg = g
    <3>1. At(r, k, g) \in Bank
      BY DEF Bank, BankAddr
    <3> QED BY <2>1, <3>1
  <2>10. CASE n.bg # gs - 1
    <3>1. d = At(n.rank, n.bank, n.bg + 1)
      BY <1>1, <2>4, <2>5, <2>6, <2>10 DEF NextGroup
    <3>2. n.bg + 1 \in 0 .. gs - 1
      BY <1>1, <2>10
    <3> DEFINE e == At(n.rank, n.bank, n.bg + 1)
               u == UnitOf(config, e)
    <3>3. e \in Bank /\ u.rank = n.rank /\ u.bank = n.bank /\ u.bg = n.bg + 1
      BY <1>1, <2>9, <3>2
    <3> HIDE DEF e, u, c
    <3>4. \A v \in Units(config) : Before(v, u) <=> Before(v, c) \/ v = c
      BY <1>1, <2>2, <2>3, <3>3 DEF Before
    <3>5. Follows(UnitOf(config, e), c)
      BY <3>4 DEF Follows, u
    <3>6. IterateNext(config, n) = e
      BY <3>1 DEF e
    <3> QED BY <1>3, <3>3, <3>5, <3>6
  <2>11. CASE n.bg = gs - 1 /\ n.bank # bs - 1
    <3>1. d = At(n.rank, n.bank + 1, 0)
      <4>1. d = NextBank(config, At(n.rank, n.bank, 0))
        BY <1>1, <2>4, <2>5, <2>6, <2>11 DEF NextGroup
      <4> QED BY <1>1, <4>1, <2>5, <2>7, <2>11 DEF NextBank
    <3>2. n.bank + 1 \in 0 .. bs - 1 /\ 0 \in 0 .. gs - 1
      BY <1>1, <2>11
    <3> DEFINE e == At(n.rank, n.bank + 1, 0)
               u == UnitOf(config, e)
    <3>3. e \in Bank /\ u.rank = n.rank /\ u.bank = n.bank + 1 /\ u.bg = 0
      BY <1>1, <2>9, <3>2
    <3> HIDE DEF e, u, c
    <3>4. \A v \in Units(config) : Before(v, u) <=> Before(v, c) \/ v = c
      BY <1>1, <2>2, <2>3, <2>11, <3>3 DEF Before
    <3>5. Follows(UnitOf(config, e), c)
      BY <3>4 DEF Follows, u
    <3>6. IterateNext(config, n) = e
      BY <3>1 DEF e
    <3> QED BY <1>3, <3>3, <3>5, <3>6
  <2>12. ASSUME n.bg = gs - 1, n.bank = bs - 1
         PROVE  d = At((n.rank + 1) % ra, 0, 0)
    <3>1. d = NextBank(config, At(n.rank, n.bank, 0))
      BY <1>1, <2>4, <2>5, <2>6, <2>12 DEF NextGroup
    <3>2. d = NextRank(config, At(n.rank, 0, 0))
      BY <1>1, <3>1, <2>5, <2>7, <2>12 DEF NextBank
    <3> QED BY <3>2, <2>8 DEF NextRank
  <2>13. CASE n.bg = gs - 1 /\ n.bank = bs - 1
    <3>1. d = At((n.rank + 1) % ra, 0, 0)
      BY <2>12, <2>13
    <3>2. (n.rank + 1) % ra \in 0 .. ra - 1 /\ 0 \in 0 .. bs - 1 /\ 0 \in 0 .. gs - 1
      BY <1>1, <2>5
    <3> DEFINE e == At((n.rank + 1) % ra, 0, 0)
               u == UnitOf(config, e)
    <3>3. e \in Bank /\ u.rank = (n.rank + 1) % ra /\ u.bank = 0 /\ u.bg = 0
      BY <2>9, <3>2
    <3> HIDE DEF e, u, c
    <3>4. ASSUME n.rank # ra - 1 PROVE Follows(u, c)
      <4>1. u.rank = n.rank + 1
        BY <2>5, <3>3, <3>4
      <4>2. \A v \in Units(config) : Before(v, u) <=> Before(v, c) \/ v = c
        BY <1>1, <2>2, <2>3, <2>13, <3>3, <4>1 DEF Before
      <4> QED BY <4>2 DEF Follows
    <3>5. ASSUME n.rank = ra - 1 PROVE Follows(u, c)
      <4>1. u.rank = 0
        BY <2>5, <3>3, <3>5
      <4>2. \A v \in Units(config) : ~Before(v, u) /\ ~Before(c, v)
        BY <1>1, <2>2, <2>3, <2>13, <3>3, <3>5, <4>1 DEF Before
      <4> QED BY <4>2 DEF Follows
    <3>6. Follows(UnitOf(config, e), c)
      BY <3>4, <3>5 DEF u
    <3>7. IterateNext(config, n) = e
      BY <3>1 DEF e
    <3> QED BY <1>3, <3>3, <3>6, <3>7
  <2> QED BY <2>10, <2>11, <2>13
<1> QED BY <1>4, <1>5 DEF Staggered

\* A turn adds the unit that had it to those since the turn of any other unit.
LEMMA BetweenStep ==
    ASSUME Types, NEW u \in Units(config), NEW c \in Units(config),
           NEW d \in Units(config), Follows(d, c)
    PROVE  /\ u # c => Between(u, d) = Between(u, c) \cup {c} /\ c \notin Between(u, c)
           /\ u \notin Between(u, c)
<1>1. \A v, w \in Units(config) :
         /\ v = w \/ Before(v, w) \/ Before(w, v)
         /\ ~(Before(v, w) /\ Before(w, v)) /\ ~Before(v, v)
  BY BeforeIsTotal
<1>2. \A v, w, x \in Units(config) : Before(v, w) /\ Before(w, x) => Before(v, x)
  BY BeforeIsTotal
<1>3. u \notin Between(u, c)
  BY <1>1 DEF Between
<1>4. c \notin Between(u, c)
  BY <1>1 DEF Between
<1>5. ASSUME u # c PROVE Between(u, d) = Between(u, c) \cup {c}
  <2>1. ASSUME NEW v \in Units(config)
        PROVE  v \in Between(u, d) <=> v \in Between(u, c) \/ v = c
    <3>1. CASE \A w \in Units(config) : ~Before(w, d) /\ ~Before(c, w)
      BY <1>1, <1>2, <1>5, <3>1 DEF Between
    <3>2. CASE \A w \in Units(config) : Before(w, d) <=> Before(w, c) \/ w = c
      BY <1>1, <1>2, <1>5, <3>2 DEF Between
    <3> QED BY <3>1, <3>2 DEF Follows
  <2>2. Between(u, d) \subseteq Units(config) /\ Between(u, c) \subseteq Units(config)
    BY DEF Between
  <2> QED BY <2>1, <2>2
<1> QED BY <1>3, <1>4, <1>5

LEMMA BetweenSize ==
    ASSUME Types, NEW u \in Units(config), NEW c \in Units(config)
    PROVE  /\ IsFiniteSet(Between(u, c)) /\ Cardinality(Between(u, c)) \in Nat
           /\ Cardinality(Between(u, c)) < Round
<1> DEFINE B == Between(u, c)
           U == Units(config)
<1>1. IsFiniteSet(U) /\ Round = Cardinality(U) /\ Round \in Nat
  BY UnitsAreFinite DEF Round
<1>2. B \subseteq U /\ u \notin B /\ u \in U
  BY BeforeIsTotal DEF Between
<1> HIDE DEF B, U
<1>3. IsFiniteSet(B) /\ Cardinality(B) \in Nat
  BY <1>1, <1>2, FS_Subset, FS_CardinalityType
<1>4. IsFiniteSet(U \ {u}) /\ Cardinality(U \ {u}) = Cardinality(U) - 1
  BY <1>1, <1>2, FS_RemoveElement
<1>5. B \subseteq U \ {u}
  BY <1>2
<1>6. Cardinality(B) <= Cardinality(U \ {u})
  BY <1>4, <1>5, FS_Subset
<1>7. Cardinality(B) < Round
  BY <1>1, <1>3, <1>4, <1>6
<1> QED BY <1>3, <1>7 DEF B

\* The unit whose turn it is is asked for, unless its rank sleeps.
LEMMA TurnIsTaken ==
    ASSUME Types, Staggered, UnitOf(config, next).rank \notin Asleep
    PROVE  UnitOf(config, next) \in Range(NewRefreshes)
<1> DEFINE c == UnitOf(config, next)
           S == {UnitOf(config, b) : b \in {x \in {next} : x.rank \notin Asleep}}
<1>1. c.rank = next.rank /\ c \in Units(config)
  BY DEF UnitOf, Types, Units, Bank
<1>2. S = {c}
  BY <1>1
<1>3. NewRefreshes = SetToSeq(S)
  BY DEF NewRefreshes, Requested, Staggered
<1> HIDE DEF S, c
<1>4. NewRefreshes \in Seq(Units(config)) /\ Len(NewRefreshes) = 1 /\ NewRefreshes[1] \in S
  <2>1. S \in SUBSET Units(config) /\ S # {} /\ \A u, v \in S : u = v
    BY <1>1, <1>2
  <2>2. /\ SetToSeq(S) \in Seq(Units(config)) /\ Len(SetToSeq(S)) = 1
        /\ \A i \in 1 .. Len(SetToSeq(S)) : SetToSeq(S)[i] \in S
    BY <2>1, SmallSetToSeq
  <2> QED BY <1>3, <2>2
<1>5. 1 \in DOMAIN NewRefreshes
  BY <1>4, LenProperties
<1> QED BY <1>2, <1>4, <1>5 DEF Range, c

LEMMA TurnsStep ==
    ASSUME Types, TurnsTaken, NEW rq, RefreshTick(rq)
    PROVE  TurnsTaken'
<1> DEFINE C == UnitOf(config, next)
           D == UnitOf(config, next')
<1>1. config' = config /\ Units(config') = Units(config) /\ (Staggered' <=> Staggered)
  BY DEF RefreshTick, Staggered
<1>2. \A u, c : Between(u, c)' = Between(u, c)
  BY <1>1 DEF Between
<1>3. CASE next' = next /\ age' = age
  BY <1>1, <1>2, <1>3 DEF TurnsTaken, Between
<1>4. CASE /\ next' = IterateNext(config, next)
           /\ age' = [u \in Units(config) |->
                        IF u \in Range(NewRefreshes) \/ u.rank \in Asleep THEN 0
                        ELSE IF age[u] < Round THEN age[u] + 1 ELSE age[u]]
  <2>1. \A u \in Units(config) :
           /\ age[u] \in Nat
           /\ age'[u] \in {0, age[u], age[u] + 1} /\ age'[u] \in Nat
           /\ u \in Range(NewRefreshes) \/ u.rank \in Asleep => age'[u] = 0
    BY <1>4 DEF TurnsTaken
  <2>2. age' \in [Units(config) -> Nat]
    BY <1>4, <2>1
  <2>3. ASSUME Staggered, NEW u \in Units(config)
        PROVE  age'[u] <= Cardinality(Between(u, D))
    <3>1. C \in Units(config) /\ D \in Units(config) /\ Follows(D, C)
      BY <1>4, <2>3, NextFollows
    <3> HIDE DEF C, D
    <3>2. /\ IsFiniteSet(Between(u, C)) /\ Cardinality(Between(u, C)) \in Nat
          /\ Cardinality(Between(u, D)) \in Nat
      BY <3>1, BetweenSize
    <3>3. CASE u = C
      <4>1. age'[u] = 0
        BY <2>1, <2>3, <3>3, TurnIsTaken DEF C
      <4> QED BY <3>2, <4>1
    <3>4. CASE u # C
      <4>1. Between(u, D) = Between(u, C) \cup {C} /\ C \notin Between(u, C)
        BY <3>1, <3>4, BetweenStep
      <4>2. Cardinality(Between(u, D)) = Cardinality(Between(u, C)) + 1
        BY <3>2, <4>1, FS_AddElement
      <4>3. age[u] <= Cardinality(Between(u, C))
        BY <2>3 DEF TurnsTaken, C
      <4> QED BY <2>1, <3>2, <4>2, <4>3
    <3> QED BY <3>3, <3>4
  <2> HIDE DEF D
  <2>4. UnitOf(config', next') = D
    BY <1>1 DEF D
  <2> QED BY <1>1, <1>2, <2>2, <2>3, <2>4 DEF TurnsTaken, Between
<1> QED BY <1>3, <1>4 DEF RefreshTick

LEMMA TurnsInit == Init => TurnsTaken
<1> SUFFICES ASSUME Init PROVE TurnsTaken
  OBVIOUS
<1>1. Types
  BY ChannelInit DEF ChannelInv
<1>2. age = [u \in Units(config) |-> 0]
  BY DEF Init
<1>3. UnitOf(config, next) \in Units(config)
  BY <1>1 DEF Types, Units, Bank
<1>4. ASSUME NEW u \in Units(config)
      PROVE  age[u] <= Cardinality(Between(u, UnitOf(config, next)))
  <2> DEFINE c == UnitOf(config, next)
  <2> HIDE DEF c
  <2>1. c \in Units(config)
    BY <1>3 DEF c
  <2>2. Cardinality(Between(u, c)) \in Nat
    BY <1>1, <2>1, BetweenSize
  <2>3. age[u] = 0
    BY <1>2
  <2> QED BY <2>2, <2>3 DEF c
<1> QED BY <1>2, <1>4 DEF TurnsTaken

-----------------------------------------------------------------------------
(* The theorems.                                                           *)

\* In every state of every configuration: the queues of refreshes and RFMs, the
\* banks that they block and the sleeping ranks fit together (ChannelInv).
THEOREM ChannelInvariant == Spec => []ChannelInv
<1>1. ChannelInv /\ [Next]_vars => ChannelInv'
  BY ChannelStep
<1> QED BY ChannelInit, <1>1, PTL DEF Spec

\* One RFM waits for a rank or bank set at most and no RAA counter passes RAAMMT
\* (RankNeedRFM, BanksetNeedRFM and BankState::GetReadyCommand).
THEOREM Rfms == Spec => []RfmsKeepUp
<1>1. ChannelInv => RfmsKeepUp
  BY DEF ChannelInv
<1> QED BY <1>1, ChannelInvariant, PTL

\* The refresh or RFM that is sent is the oldest request, which leaves its queue by
\* that, and nothing else leaves a queue: requests are served in order, each once (the
\* search by rank and bank in the *NeedRefresh and *NeedRFM functions).
THEOREM Order == Spec => TakenInOrder
<1>1. ChannelInv /\ [Next]_vars =>
         [/\ IF IsRefresh(issued')
             THEN \E rq \in DueQueues :
                     rq # << >> /\ issued' = Head(rq) /\ refreshQ' = Tail(rq)
             ELSE refreshQ' \in DueQueues
          /\ IF IsRFM(issued')
             THEN rfmQ # << >> /\ issued' = Head(rfmQ) /\ rfmQ' = Tail(rfmQ)
             ELSE IsPrefix(rfmQ, rfmQ')]_vars
  BY ChannelStep DEF InOrder
<1> QED BY <1>1, ChannelInvariant, PTL DEF Spec, TakenInOrder

\* A closed bank that a refresh or RFM waits for is not opened before it is issued
\* (GetCommandToIssue skips the queues of ref_q_indices_ and rfm_q_indices_).
THEOREM StayingClosed == Spec => ClosedBanksStayClosed
<1>1. ChannelInv /\ [Next]_vars =>
         [\A b \in refIdx \cup rfmIdx :
             state[b] = "CLOSED" => state'[b] = "CLOSED"]_vars
  BY ChannelStep DEF StayClosed
<1> QED BY <1>1, ChannelInvariant, PTL DEF Spec, ClosedBanksStayClosed

\* Where one refresh at most is due at a time if ranks may sleep, no bank is sent a
\* command that it cannot take: the program exits only in waking up a rank.
THEOREM NoIllegal == OneRefreshDue /\ Spec => []NoIllegalCommand
<1> SUFFICES ASSUME OneRefreshDue PROVE Spec => []NoIllegalCommand
  OBVIOUS
<1>1. Init => SleepInv
  <2>1. SUFFICES ASSUME Init PROVE NoRefreshAsleep /\ NoIllegalCommand
    BY ChannelInit DEF SleepInv
  <2>2. refreshQ = << >> /\ exited = FALSE
    BY <2>1 DEF Init
  <2>3. Len(refreshQ) = 0
    BY <2>2
  <2>4. NoRefreshAsleep
    BY <2>3 DEF NoRefreshAsleep
  <2> QED BY <2>2, <2>4 DEF NoIllegalCommand
<1>2. SleepInv /\ [Next]_vars => SleepInv'
  BY SleepStep
<1>3. SleepInv => NoIllegalCommand
  BY DEF SleepInv
<1> QED BY <1>1, <1>2, <1>3, PTL DEF Spec

\* With staggered refresh a unit whose rank is awake is asked for within a round of
\* requests (Refresh::InsertRefresh and IterateNext).
THEOREM Turns == Spec => []EveryUnitInTurn
<1>1. ChannelInv /\ TurnsTaken /\ [Next]_vars => TurnsTaken'
  <2> SUFFICES ASSUME ChannelInv, TurnsTaken, [Next]_vars PROVE TurnsTaken'
    OBVIOUS
  <2>1. Types
    BY DEF ChannelInv
  <2>2. CASE \E rq : RefreshTick(rq)
    BY <2>1, <2>2, TurnsStep
  <2>3. CASE UNCHANGED timerVars
    <3>1. config' = config /\ next' = next /\ age' = age
      BY <2>3 DEF timerVars
    <3> QED BY <3>1 DEF TurnsTaken, Staggered, Between
  <2>4. (\E rq : RefreshTick(rq)) \/ UNCHANGED timerVars
    <3>1. CASE UNCHANGED vars
      BY <3>1 DEF vars
    <3>2. CASE AboElapses
      BY <3>2 DEF AboElapses
    <3>3. CASE \/ Refreshing \/ Idle \/ Sleep \/ Exit
               \/ \E b \in Bank : RowCommand(b) \/ Column(b)
      BY <3>3 DEF Refreshing, Idle, Sleep, Exit, RowCommand, Column
    <3> QED BY <3>1, <3>2, <3>3 DEF Next
  <2> QED BY <2>2, <2>3, <2>4
<1>2. ChannelInv /\ TurnsTaken => EveryUnitInTurn
  <2> SUFFICES ASSUME ChannelInv, TurnsTaken, Staggered, NEW u \in Units(config)
               PROVE  age[u] < Round
    BY DEF EveryUnitInTurn, Staggered
  <2> DEFINE c == UnitOf(config, next)
  <2>1. Types /\ c \in Units(config) /\ age[u] \in Nat
    BY DEF ChannelInv, Types, Units, Bank, TurnsTaken
  <2>2. age[u] <= Cardinality(Between(u, c))
    BY DEF TurnsTaken
  <2> HIDE DEF c
  <2>3. Cardinality(Between(u, c)) \in Nat /\ Cardinality(Between(u, c)) < Round
    BY <2>1, BetweenSize
  <2>4. Round \in Nat
    BY <2>1, UnitsAreFinite
  <2> QED BY <2>1, <2>2, <2>3, <2>4
<1> QED BY <1>1, <1>2, ChannelInvariant, TurnsInit, PTL DEF Spec
=============================================================================

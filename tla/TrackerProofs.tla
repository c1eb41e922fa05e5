---------------------------- MODULE TrackerProofs ----------------------------
(***************************************************************************)
(* Proofs, for every number of rows and every setting of the thresholds    *)
(* and of MOPAC's buffer, that a bank's tracker loses no activation, that  *)
(* the row it tracks is worth a mitigation, and that no counter of MOAT    *)
(* or PAC passes the alert threshold.                                      *)
(***************************************************************************)
EXTENDS Tracker, SequenceTheorems, FiniteSetTheorems, TLAPS

BufEntry == [row : Row, sctr : Nat \ {0}]
Counters == [prac : [Row -> Nat], row : Row \cup {NoRow}]

\* A row is opened below the bound of the model on its activations.
OpenRowBelowBound ==
    openRow # NoRow /\ impl # "MOPAC" => acc[openRow] < MaxCount

\* The one row that can be at the alert threshold is the tracked row, and then
\* no row is open.
OneRowAtAth ==
    alertStops /\ impl # "MOPAC" =>
        \A r \in Row : trk.prac[r] < Ath \/ (/\ trk.prac[r] = Ath
                                             /\ trk.row = r /\ openRow = NoRow)

TrackerInv == /\ TypeOK /\ impl \in Impls /\ OpenRowBelowBound
              /\ TrackedRowIsEligible /\ OneRowAtAth /\ CountsNeverLost

LEMMA ConstantsAreNats ==
    /\ Rows \in Nat \ {0} /\ RowsRefreshed \in Nat \ {0} /\ Ath \in Nat \ {0}
    /\ PacProb \in Nat \ {0} /\ DrainFreq \in Nat \ {0} /\ QueueTh \in Nat \ {0}
    /\ MaxCount \in Nat \ {0} /\ MaxCritical \in Nat \ {0}
    /\ BufSize \in Nat /\ AboUpdates \in Nat /\ RefUpdates \in Nat
    /\ Eth \in Nat /\ Eth <= Ath
BY TrackerConstants DEF Eth

-----------------------------------------------------------------------------
(* Induction over the entries of the buffer.                               *)

\* A set of naturals has a least element.  The sets 0 .. n of its elements n
\* are finite sets, among which there is a minimal one.
LEMMA LeastNat ==
    ASSUME NEW S \in SUBSET Nat, S # {}
    PROVE  \E n \in S : \A m \in S : n <= m
<1> DEFINE R == StrictSubsetOrdering(Nat)
           Below == {T \in FiniteSubsetsOf(Nat) : \E n \in S : T = 0 .. n}
<1>1. IsWellFoundedOn(R, FiniteSubsetsOf(Nat))
  BY FS_StrictSubsetOrderingWellFounded
<1>2. \A n \in S : 0 .. n \in Below
  BY FS_Interval DEF FiniteSubsetsOf
<1>3. Below # {} /\ Below \subseteq FiniteSubsetsOf(Nat)
  BY <1>2
<1>4. PICK T \in Below : \A U \in Below : <<U, T>> \notin R
  <2> HIDE DEF Below, R
  <2> QED BY <1>1, <1>3, WFMin
<1>5. PICK n \in S : T = 0 .. n
  BY <1>4
<1>6. ASSUME NEW m \in S, m < n PROVE FALSE
  <2>1. 0 .. m \in Below
    BY <1>2
  <2>2. 0 .. m \subseteq 0 .. n /\ 0 .. m # 0 .. n
    BY <1>6
  <2>3. <<0 .. m, T>> \in R
    BY <1>5, <2>2 DEF StrictSubsetOrdering
  <2> QED BY <1>4, <2>1, <2>3
<1> QED BY <1>5, <1>6

\* A set that contains 0 and with each number below n the next one contains n.
LEMMA Induction ==
    ASSUME NEW n \in Nat, NEW P, 0 \in P,
           \A i \in 0 .. n - 1 : i \in P => i + 1 \in P
    PROVE  \A i \in 0 .. n : i \in P
<1> DEFINE S == {i \in 0 .. n : i \notin P}
<1>1. SUFFICES ASSUME S # {} PROVE FALSE
  OBVIOUS
<1>2. S \in SUBSET Nat
  OBVIOUS
<1>3. PICK m \in S : \A i \in S : m <= i
  <2> HIDE DEF S
  <2> QED BY <1>1, <1>2, LeastNat
<1>4. m # 0 /\ m - 1 \in 0 .. n - 1 /\ m - 1 \notin S
  BY <1>3
<1> QED BY <1>4

LEMMA MinOfNats ==
    ASSUME NEW S \in SUBSET Nat, S # {}
    PROVE  Min(S) \in S /\ \A m \in S : Min(S) <= m
BY LeastNat DEF Min

\* FlushCtrs updates the counters entry by entry.  Its recursion has a solution,
\* by induction on the number of entries.
LEMMA FlushSteps ==
    ASSUME NEW t \in Counters, NEW q \in Seq(BufEntry), NEW n \in Nat
    PROVE  \E f : /\ FlushCtrs(t, q, n) = f[AtMost(n, q)]
                  /\ f[0] = t
                  /\ \A i \in 0 .. AtMost(n, q) - 1 :
                        f[i + 1] = UpdatePRAC(f[i], q[i + 1].row, q[i + 1].sctr)
<1> DEFINE P == {k \in Nat : \E f : f = [i \in 0 .. k |-> IF i = 0 THEN t
                          ELSE UpdatePRAC(f[i - 1], q[i].row, q[i].sctr)]}
<1>1. 0 \in P
  <2> DEFINE f == [i \in 0 .. 0 |-> t]
  <2>1. f = [i \in 0 .. 0 |-> IF i = 0 THEN t
                          ELSE UpdatePRAC(f[i - 1], q[i].row, q[i].sctr)]
    OBVIOUS
  <2> HIDE DEF f
  <2> QED BY <2>1
<1>2. ASSUME NEW k \in Nat, k \in P PROVE k + 1 \in P
  <2>1. PICK f : f = [i \in 0 .. k |-> IF i = 0 THEN t
                          ELSE UpdatePRAC(f[i - 1], q[i].row, q[i].sctr)]
    BY <1>2
  <2> DEFINE g == [i \in 0 .. k + 1 |-> IF i <= k THEN f[i]
                      ELSE UpdatePRAC(f[k], q[k + 1].row, q[k + 1].sctr)]
  <2>2. g = [i \in 0 .. k + 1 |-> IF i = 0 THEN t
                          ELSE UpdatePRAC(g[i - 1], q[i].row, q[i].sctr)]
    <3>1. ASSUME NEW i \in 0 .. k + 1
          PROVE  g[i] = IF i = 0 THEN t
                        ELSE UpdatePRAC(g[i - 1], q[i].row, q[i].sctr)
      <4>1. CASE i = 0
        BY <2>1, <4>1
      <4>2. CASE i # 0 /\ i <= k
        <5>1. i \in 0 .. k /\ i - 1 \in 0 .. k /\ i - 1 \in 0 .. k + 1
          BY <4>2
        <5>2. g[i] = f[i] /\ g[i - 1] = f[i - 1]
          BY <4>2, <5>1
        <5>3. f[i] = UpdatePRAC(f[i - 1], q[i].row, q[i].sctr)
          BY <2>1, <4>2, <5>1
        <5> QED BY <4>2, <5>2, <5>3
      <4>3. CASE i = k + 1
        <5>1. g[i] = UpdatePRAC(f[k], q[k + 1].row, q[k + 1].sctr)
          BY <4>3
        <5>2. g[i - 1] = f[k] /\ i # 0
          BY <4>3
        <5> HIDE DEF g
        <5> QED BY <4>3, <5>1, <5>2
      <4> QED BY <4>1, <4>2, <4>3
    <3> QED BY <3>1
  <2> HIDE DEF g
  <2> QED BY <2>2
<1> DEFINE m == AtMost(n, q)
<1>3. m \in Nat
  BY DEF AtMost
<1>4. \E f : f = [i \in 0 .. m |-> IF i = 0 THEN t
                          ELSE UpdatePRAC(f[i - 1], q[i].row, q[i].sctr)]
  <2>1. m \in P
    <3> HIDE DEF P, m
    <3>1. \A i \in 0 .. m : i \in P
      BY <1>1, <1>2, <1>3, Induction
    <3> QED BY <1>3, <3>1
  <2> HIDE DEF m
  <2> QED BY <2>1
<1> DEFINE f == CHOOSE f : f = [i \in 0 .. m |-> IF i = 0 THEN t
                          ELSE UpdatePRAC(f[i - 1], q[i].row, q[i].sctr)]
<1>5. f = [i \in 0 .. m |-> IF i = 0 THEN t
                          ELSE UpdatePRAC(f[i - 1], q[i].row, q[i].sctr)]
  <2> HIDE DEF m, P
  <2> QED BY <1>4, Zenon
<1>6. FlushCtrs(t, q, n) = f[m]
  BY DEF FlushCtrs
<1> HIDE DEF f, m, P
<1>7. f[0] = t
  BY <1>3, <1>5
<1>8. ASSUME NEW i \in 0 .. m - 1
      PROVE  f[i + 1] = UpdatePRAC(f[i], q[i + 1].row, q[i + 1].sctr)
  <2>1. i + 1 \in 0 .. m /\ i + 1 # 0 /\ (i + 1) - 1 = i
    BY <1>3
  <2> QED BY <1>5, <2>1
<1> QED BY <1>6, <1>7, <1>8 DEF m

Eligible(t) == t.row # NoRow => t.prac[t.row] >= Eth

LEMMA UpdateFacts ==
    ASSUME NEW t \in Counters, NEW r \in Row, NEW by \in Nat
    PROVE  /\ UpdatePRAC(t, r, by) \in Counters
           /\ \A x \in Row : UpdatePRAC(t, r, by).prac[x] =
                               IF x = r THEN t.prac[x] + by ELSE t.prac[x]
           /\ Eligible(t) => Eligible(UpdatePRAC(t, r, by))
<1> DEFINE p == [t.prac EXCEPT ![r] = @ + by]
           u == UpdatePRAC(t, r, by)
<1>1. t.prac \in [Row -> Nat] /\ t.row \in Row \cup {NoRow}
  BY DEF Counters
<1>2. /\ p \in [Row -> Nat]
      /\ \A x \in Row : p[x] = IF x = r THEN t.prac[x] + by ELSE t.prac[x]
  BY <1>1
<1>3. /\ u.prac = p
      /\ u.row = IF p[r] >= Eth /\ (t.row = NoRow \/ p[r] > p[t.row])
                 THEN r ELSE t.row
      /\ u = [prac |-> u.prac, row |-> u.row]
  BY DEF UpdatePRAC
<1> HIDE DEF p, u
<1>4. u \in Counters
  BY <1>1, <1>2, <1>3 DEF Counters
<1>5. ASSUME Eligible(t) PROVE Eligible(u)
  <2>1. NoRow \notin Row /\ Eth \in Nat
    BY ConstantsAreNats DEF Row, NoRow
  <2>2. CASE u.row = r /\ p[r] >= Eth
    BY <1>3, <2>2 DEF Eligible
  <2>3. CASE u.row = t.row /\ t.row # NoRow
    <3>1. t.prac[t.row] >= Eth /\ t.row \in Row /\ p[t.row] >= t.prac[t.row]
      BY <1>1, <1>2, <1>5, <2>3 DEF Eligible
    <3> QED BY <1>1, <1>2, <1>3, <2>1, <2>3, <3>1 DEF Eligible
  <2>4. CASE u.row = t.row /\ t.row = NoRow
    BY <2>4 DEF Eligible
  <2> QED BY <1>3, <2>2, <2>3, <2>4
<1> QED BY <1>2, <1>3, <1>4, <1>5 DEF u

\* Flushing keeps the counters in order: none is lowered, and each row that is
\* flushed gets what waited for it.
LEMMA FlushFacts ==
    ASSUME NEW t \in Counters, NEW q \in Seq(BufEntry), NEW n \in Nat
    PROVE  LET u == FlushCtrs(t, q, n)
           IN  /\ u \in Counters
               /\ Eligible(t) => Eligible(u)
               /\ \A r \in Row : u.prac[r] >= t.prac[r]
               /\ \A i \in 1 .. AtMost(n, q) :
                     u.prac[q[i].row] >= t.prac[q[i].row] + q[i].sctr
<1> DEFINE m == AtMost(n, q)
<1>1. PICK f : /\ FlushCtrs(t, q, n) = f[m]
               /\ f[0] = t
               /\ \A i \in 0 .. m - 1 :
                    f[i + 1] = UpdatePRAC(f[i], q[i + 1].row, q[i + 1].sctr)
  BY FlushSteps
<1>2. m \in Nat /\ m <= Len(q)
  BY DEF AtMost
<1>3. \A i \in 1 .. m : q[i] \in BufEntry /\ q[i].row \in Row /\ q[i].sctr \in Nat
  <2>1. \A i \in 1 .. Len(q) : q[i] \in BufEntry
    OBVIOUS
  <2> QED BY <1>2, <2>1 DEF BufEntry
<1> HIDE DEF m
<1> DEFINE Good(u, k) ==
              /\ u \in Counters
              /\ Eligible(t) => Eligible(u)
              /\ \A r \in Row : u.prac[r] >= t.prac[r]
              /\ \A i \in 1 .. k : u.prac[q[i].row] >= t.prac[q[i].row] + q[i].sctr
           P == {k \in 0 .. m : Good(f[k], k)}
<1>4. 0 \in P
  <2>1. \A r \in Row : t.prac[r] \in Nat
    BY DEF Counters
  <2> QED BY <1>1, <1>2, <2>1
<1>5. ASSUME NEW k \in 0 .. m - 1, k \in P PROVE k + 1 \in P
  <2> DEFINE u == f[k]
             v == f[k + 1]
             e == q[k + 1]
  <2>1. v = UpdatePRAC(u, e.row, e.sctr)
    BY <1>1
  <2>2. k + 1 \in 1 .. m /\ k + 1 \in 0 .. m /\ k \in Nat
    BY <1>2
  <2>3. e.row \in Row /\ e.sctr \in Nat
    BY <1>3, <2>2
  <2>4. Good(u, k)
    BY <1>5
  <2> HIDE DEF u, v, e
  <2>5. /\ v \in Counters
        /\ \A x \in Row : v.prac[x] = IF x = e.row THEN u.prac[x] + e.sctr
                                      ELSE u.prac[x]
        /\ Eligible(u) => Eligible(v)
    <3>1. u \in Counters
      BY <2>4
    <3> HIDE DEF Good
    <3> QED BY <2>1, <2>3, <3>1, UpdateFacts
  <2>6. \A r \in Row : u.prac[r] \in Nat /\ t.prac[r] \in Nat /\ v.prac[r] \in Nat
    BY <2>4, <2>5 DEF Counters
  <2>7. \A r \in Row : v.prac[r] >= u.prac[r]
    BY <2>3, <2>5, <2>6
  <2>8. \A r \in Row : v.prac[r] >= t.prac[r]
    BY <2>4, <2>6, <2>7
  <2>9. ASSUME NEW i \in 1 .. k + 1
        PROVE  v.prac[q[i].row] >= t.prac[q[i].row] + q[i].sctr
    <3>1. q[i].row \in Row /\ q[i].sctr \in Nat
      BY <1>2, <1>3, <2>2
    <3>2. CASE i = k + 1
      <4>1. q[i] = e
        BY <3>2 DEF e
      <4>2. v.prac[e.row] = u.prac[e.row] + e.sctr /\ u.prac[e.row] >= t.prac[e.row]
        BY <2>3, <2>4, <2>5
      <4> QED BY <2>3, <2>6, <4>1, <4>2
    <3>3. CASE i # k + 1
      <4>1. i \in 1 .. k
        BY <2>2, <3>3
      <4>2. u.prac[q[i].row] >= t.prac[q[i].row] + q[i].sctr
        BY <2>4, <4>1
      <4> QED BY <2>6, <2>7, <3>1, <4>2
    <3> QED BY <3>2, <3>3
  <2>10. Good(v, k + 1)
    BY <2>4, <2>5, <2>8, <2>9
  <2> QED BY <2>2, <2>10 DEF v
<1>6. m \in P
  <2> HIDE DEF P
  <2>1. \A i \in 0 .. m : i \in P
    BY <1>2, <1>4, <1>5, Induction
  <2> QED BY <1>2, <2>1
<1> QED BY <1>1, <1>6 DEF m

\* Entry i of a buffer is the first one of its row.
FirstAt(q, r, i) == /\ i \in 1 .. Len(q) /\ q[i].row = r
                    /\ \A j \in 1 .. i - 1 : q[j].row # r

KeptStep(k, i) == IF InWindow(buf[i].row) THEN k ELSE Append(k, buf[i])

LEMMA KeptSteps ==
    ASSUME buf \in Seq(BufEntry)
    PROVE  \E f : /\ Kept = f[Len(buf)]
                  /\ f[0] = << >>
                  /\ \A i \in 0 .. Len(buf) - 1 : f[i + 1] = KeptStep(f[i], i + 1)
<1> DEFINE P == {k \in Nat : \E f : f = [i \in 0 .. k |-> IF i = 0 THEN << >>
                                             ELSE KeptStep(f[i - 1], i)]}
<1>1. 0 \in P
  <2> DEFINE f == [i \in 0 .. 0 |-> << >>]
  <2>1. f = [i \in 0 .. 0 |-> IF i = 0 THEN << >> ELSE KeptStep(f[i - 1], i)]
    OBVIOUS
  <2> HIDE DEF f
  <2> QED BY <2>1
<1>2. ASSUME NEW k \in Nat, k \in P PROVE k + 1 \in P
  <2>1. PICK f : f = [i \in 0 .. k |-> IF i = 0 THEN << >> ELSE KeptStep(f[i - 1], i)]
    BY <1>2
  <2> DEFINE g == [i \in 0 .. k + 1 |-> IF i <= k THEN f[i] ELSE KeptStep(f[k], k + 1)]
  <2>2. g = [i \in 0 .. k + 1 |-> IF i = 0 THEN << >> ELSE KeptStep(g[i - 1], i)]
    <3>1. ASSUME NEW i \in 0 .. k + 1
          PROVE  g[i] = IF i = 0 THEN << >> ELSE KeptStep(g[i - 1], i)
      <4>1. CASE i = 0
        BY <2>1, <4>1
      <4>2. CASE i # 0 /\ i <= k
        <5>1. i \in 0 .. k /\ i - 1 \in 0 .. k /\ i - 1 \in 0 .. k + 1
          BY <4>2
        <5>2. g[i] = f[i] /\ g[i - 1] = f[i - 1]
          BY <4>2, <5>1
        <5>3. f[i] = KeptStep(f[i - 1], i)
          BY <2>1, <4>2, <5>1
        <5> QED BY <4>2, <5>2, <5>3
      <4>3. CASE i = k + 1
        <5>1. g[i] = KeptStep(f[k], k + 1)
          BY <4>3
        <5>2. g[i - 1] = f[k] /\ i # 0
          BY <4>3
        <5> HIDE DEF g
        <5> QED BY <4>3, <5>1, <5>2
      <4> QED BY <4>1, <4>2, <4>3
    <3> QED BY <3>1
  <2> HIDE DEF g
  <2> QED BY <2>2
<1> DEFINE m == Len(buf)
<1>3. m \in Nat
  OBVIOUS
<1>4. \E f : f = [i \in 0 .. m |-> IF i = 0 THEN << >> ELSE KeptStep(f[i - 1], i)]
  <2>1. m \in P
    <3> HIDE DEF P, m
    <3>1. \A i \in 0 .. m : i \in P
      BY <1>1, <1>2, <1>3, Induction
    <3> QED BY <1>3, <3>1
  <2> HIDE DEF m
  <2> QED BY <2>1
<1> DEFINE f == CHOOSE f : f = [i \in 0 .. m |-> IF i = 0 THEN << >>
                                   ELSE KeptStep(f[i - 1], i)]
<1>5. f = [i \in 0 .. m |-> IF i = 0 THEN << >> ELSE KeptStep(f[i - 1], i)]
  <2> HIDE DEF m, P
  <2> QED BY <1>4, Zenon
<1>6. Kept = f[m]
  BY DEF Kept, KeptStep
<1> HIDE DEF f, m, P
<1>7. f[0] = << >>
  BY <1>3, <1>5
<1>8. ASSUME NEW i \in 0 .. m - 1 PROVE f[i + 1] = KeptStep(f[i], i + 1)
  <2>1. i + 1 \in 0 .. m /\ i + 1 # 0 /\ (i + 1) - 1 = i
    BY <1>3
  <2> QED BY <1>5, <2>1
<1> QED BY <1>6, <1>7, <1>8 DEF m

\* The entries of rows that are not refreshed stay in the buffer, in their order.
LEMMA KeptFacts ==
    ASSUME buf \in Seq(BufEntry)
    PROVE  /\ Kept \in Seq(BufEntry)
           /\ \A j \in 1 .. Len(Kept) : \E i \in 1 .. Len(buf) : Kept[j] = buf[i]
           /\ \A r \in Row, i \in 1 .. Len(buf) :
                 ~InWindow(r) /\ FirstAt(buf, r, i) =>
                     \E j \in 1 .. Len(Kept) : FirstAt(Kept, r, j) /\ Kept[j] = buf[i]
<1>1. PICK f : /\ Kept = f[Len(buf)]
               /\ f[0] = << >>
               /\ \A i \in 0 .. Len(buf) - 1 : f[i + 1] = KeptStep(f[i], i + 1)
  BY KeptSteps
<1> DEFINE m == Len(buf)
           From(q, k) == \A j \in 1 .. Len(q) : \E i \in 1 .. k : q[j] = buf[i]
           Firsts(q, k) == \A r \in Row, i \in 1 .. k :
                 ~InWindow(r) /\ FirstAt(buf, r, i) =>
                     \E j \in 1 .. Len(q) : FirstAt(q, r, j) /\ q[j] = buf[i]
           Good(q, k) == q \in Seq(BufEntry) /\ From(q, k) /\ Firsts(q, k)
           P == {k \in 0 .. m : Good(f[k], k)}
<1>2. m \in Nat /\ \A i \in 1 .. m : buf[i] \in BufEntry
  OBVIOUS
<1>3. 0 \in P
  <2>1. f[0] \in Seq(BufEntry) /\ Len(f[0]) = 0
    BY <1>1
  <2> QED BY <1>2, <2>1
<1>4. ASSUME NEW k \in 0 .. m - 1, k \in P PROVE k + 1 \in P
  <2> DEFINE q == f[k]
             v == f[k + 1]
             e == buf[k + 1]
  <2>1. v = KeptStep(q, k + 1)
    BY <1>1
  <2>2. k + 1 \in 1 .. m /\ k + 1 \in 0 .. m /\ k \in Nat /\ k < m
    BY <1>2
  <2>3. e \in BufEntry
    BY <1>2, <2>2
  <2>4. q \in Seq(BufEntry) /\ From(q, k) /\ Firsts(q, k)
    BY <1>4
  <2> HIDE DEF q, v, P, m
  <2>5. CASE InWindow(e.row)
    <3>1. v = q
      BY <2>1, <2>5 DEF KeptStep
    <3>2. From(v, k + 1)
      BY <2>2, <2>4, <3>1
    <3>3. Firsts(v, k + 1)
      <4>1. SUFFICES ASSUME NEW r \in Row, NEW i \in 1 .. k + 1,
                            ~InWindow(r), FirstAt(buf, r, i)
                     PROVE  \E j \in 1 .. Len(v) : FirstAt(v, r, j) /\ v[j] = buf[i]
        OBVIOUS
      <4>2. i # k + 1
        BY <2>5, <4>1 DEF FirstAt
      <4>3. i \in 1 .. k
        BY <2>2, <4>2
      <4> QED BY <2>4, <3>1, <4>1, <4>3
    <3> QED BY <2>2, <2>4, <3>1, <3>2, <3>3 DEF P, q, v
  <2>6. CASE ~InWindow(e.row)
    <3>1. v = Append(q, e)
      BY <2>1, <2>6 DEF KeptStep
    <3>2. /\ v \in Seq(BufEntry) /\ Len(v) = Len(q) + 1 /\ Len(q) \in Nat
          /\ v[Len(q) + 1] = e
          /\ \A j \in 1 .. Len(q) : v[j] = q[j]
      BY <2>3, <2>4, <3>1
    <3>3. From(v, k + 1)
      <4>1. SUFFICES ASSUME NEW j \in 1 .. Len(v)
                     PROVE  \E i \in 1 .. k + 1 : v[j] = buf[i]
        OBVIOUS
      <4>2. CASE j = Len(q) + 1
        BY <2>2, <3>2, <4>2
      <4>3. CASE j \in 1 .. Len(q)
        <5>1. PICK i \in 1 .. k : q[j] = buf[i]
          BY <2>4, <4>3
        <5> QED BY <2>2, <3>2, <4>3, <5>1
      <4> QED BY <3>2, <4>2, <4>3
    <3>4. Firsts(v, k + 1)
      <4>1. SUFFICES ASSUME NEW r \in Row, NEW i \in 1 .. k + 1,
                            ~InWindow(r), FirstAt(buf, r, i)
                     PROVE  \E j \in 1 .. Len(v) : FirstAt(v, r, j) /\ v[j] = buf[i]
        OBVIOUS
      <4>2. CASE i \in 1 .. k
        <5>1. PICK j \in 1 .. Len(q) : FirstAt(q, r, j) /\ q[j] = buf[i]
          BY <2>4, <4>1, <4>2
        <5>2. j \in 1 .. Len(v) /\ v[j] = q[j] /\ \A x \in 1 .. j - 1 : v[x] = q[x]
          BY <3>2
        <5>3. FirstAt(v, r, j)
          BY <5>1, <5>2 DEF FirstAt
        <5> QED BY <5>1, <5>2, <5>3
      <4>3. CASE i = k + 1
        <5>1. e.row = r /\ \A x \in 1 .. k : buf[x].row # r
          BY <2>2, <4>1, <4>3 DEF FirstAt
        <5>2. \A j \in 1 .. Len(q) : q[j].row # r
          BY <2>4, <5>1
        <5>3. FirstAt(v, r, Len(q) + 1)
          BY <3>2, <5>1, <5>2 DEF FirstAt
        <5> QED BY <3>2, <4>3, <5>3
      <4> QED BY <2>2, <4>2, <4>3
    <3> QED BY <2>2, <3>2, <3>3, <3>4 DEF P, q, v
  <2> QED BY <2>5, <2>6
<1>5. m \in P
  <2> HIDE DEF P
  <2>1. \A i \in 0 .. m : i \in P
    BY <1>2, <1>3, <1>4, Induction
  <2> QED BY <1>2, <2>1
<1> QED BY <1>1, <1>5

\* What waits for a row is in its first entry.
LEMMA WaitingFacts ==
    buf \in Seq(BufEntry) =>
        \A r \in Row :
           /\ Waiting(r) \in Nat
           /\ \A i \in 1 .. Len(buf) : FirstAt(buf, r, i) => Waiting(r) = buf[i].sctr
           /\ \/ Waiting(r) = 0
              \/ \E i \in 1 .. Len(buf) : FirstAt(buf, r, i)
<1> SUFFICES ASSUME buf \in Seq(BufEntry), NEW r \in Row
             PROVE  /\ Waiting(r) \in Nat
                    /\ \A i \in 1 .. Len(buf) :
                          FirstAt(buf, r, i) => Waiting(r) = buf[i].sctr
                    /\ \/ Waiting(r) = 0
                       \/ \E i \in 1 .. Len(buf) : FirstAt(buf, r, i)
  OBVIOUS
<1> DEFINE I == {i \in 1 .. Len(buf) : buf[i].row = r}
<1>1. Waiting(r) = IF (IF I # {} THEN Min(I) ELSE 0) = 0 THEN 0
                   ELSE buf[IF I # {} THEN Min(I) ELSE 0].sctr
  BY DEF Waiting, SelectInSeq
<1>2. \A i \in 1 .. Len(buf) : buf[i].sctr \in Nat
  <2>1. \A i \in 1 .. Len(buf) : buf[i] \in BufEntry
    OBVIOUS
  <2> QED BY <2>1 DEF BufEntry
<1>3. I \in SUBSET Nat /\ I \subseteq 1 .. Len(buf)
  OBVIOUS
<1>4. CASE I = {}
  <2>1. Waiting(r) = 0
    BY <1>1, <1>4
  <2> QED BY <1>4, <2>1 DEF FirstAt
<1>5. CASE I # {}
  <2>1. Min(I) \in I /\ \A i \in I : Min(I) <= i
    <3> HIDE DEF I
    <3> QED BY <1>3, <1>5, MinOfNats
  <2>2. Waiting(r) = buf[Min(I)].sctr /\ Min(I) \in 1 .. Len(buf)
    <3>1. Min(I) # 0
      BY <2>1
    <3> HIDE DEF I
    <3> QED BY <1>1, <1>3, <1>5, <2>1, <3>1
  <2>3. FirstAt(buf, r, Min(I))
    <3>1. \A j \in 1 .. Min(I) - 1 : j \in 1 .. Len(buf) /\ j \notin I
      BY <2>1, <2>2
    <3>2. \A j \in 1 .. Min(I) - 1 : buf[j].row # r
      BY <3>1
    <3> QED BY <2>1, <2>2, <3>2 DEF FirstAt
  <2>4. ASSUME NEW i \in 1 .. Len(buf), FirstAt(buf, r, i) PROVE i = Min(I)
    BY <2>1, <2>4 DEF FirstAt
  <2> HIDE DEF I
  <2> QED BY <1>2, <2>2, <2>3, <2>4
<1> QED BY <1>4, <1>5

-----------------------------------------------------------------------------
(* The initial state and the steps.                                        *)

LEMMA WaitingFactsNext ==
    buf' \in Seq(BufEntry) =>
        \A r \in Row :
           /\ Waiting(r)' \in Nat
           /\ \A i \in 1 .. Len(buf') : FirstAt(buf', r, i) => Waiting(r)' = buf'[i].sctr
           /\ \/ Waiting(r)' = 0
              \/ \E i \in 1 .. Len(buf') : FirstAt(buf', r, i)
<1>1. (buf \in Seq(BufEntry) =>
        \A r \in Row :
           /\ Waiting(r) \in Nat
           /\ \A i \in 1 .. Len(buf) : FirstAt(buf, r, i) => Waiting(r) = buf[i].sctr
           /\ \/ Waiting(r) = 0
              \/ \E i \in 1 .. Len(buf) : FirstAt(buf, r, i))'
  BY WaitingFacts, PTL
<1> QED BY <1>1 DEF FirstAt

LEMMA Initially == Init => TrackerInv
<1> SUFFICES ASSUME Init PROVE TrackerInv
  OBVIOUS
<1>0. 0 \in Row /\ NoRow \notin Row
  BY ConstantsAreNats DEF Row, NoRow
<1>1. trk.prac = [r \in Row |-> 0] /\ trk.row = NoRow
  BY DEF Init
<1>2. TypeOK
  <2>1. trk \in [prac : [Row -> Nat], row : Row \cup {NoRow}]
    BY DEF Init
  <2>2. buf \in Seq([row : Row, sctr : Nat \ {0}])
    BY DEF Init
  <2>3. acc \in [Row -> 0 .. MaxCount]
    BY ConstantsAreNats DEF Init
  <2> QED BY <1>0, <2>1, <2>2, <2>3, ConstantsAreNats DEF Init, TypeOK, MitigationPeriod
<1>3. CountsNeverLost
  <2>1. \A r \in Row : Waiting(r) \in Nat
    BY <1>2, WaitingFacts DEF TypeOK, BufEntry
  <2>2. \A r \in Row : trk.prac[r] = 0 /\ acc[r] = 0
    BY <1>1 DEF Init
  <2> QED BY <2>1, <2>2 DEF CountsNeverLost
<1>4. OneRowAtAth
  BY <1>1, ConstantsAreNats DEF OneRowAtAth
<1> QED BY <1>1, <1>2, <1>3, <1>4
        DEF Init, TrackerInv, OpenRowBelowBound, TrackedRowIsEligible

\* One more sampled activation of a row.
LEMMA CtrUpdateFacts ==
    ASSUME TypeOK, CountsNeverLost, NEW r \in Row, MopacCtrUpdate(r), trk' = trk,
           acc[r] < MaxCount
    PROVE  /\ buf' \in Seq(BufEntry) /\ critical' \in Nat
           /\ actCtr' \in 0 .. PacProb - 1 /\ mintSel' \in 0 .. PacProb - 1
           /\ acc' \in [Row -> 0 .. MaxCount]
           /\ CountsNeverLost'
<1> DEFINE I == {i \in 1 .. Len(buf) : buf[i].row = r}
           s == IF I # {} THEN Min(I) ELSE 0
<1>0. /\ buf \in Seq(BufEntry) /\ critical \in Nat /\ acc \in [Row -> 0 .. MaxCount]
      /\ actCtr \in 0 .. PacProb - 1 /\ mintSel \in 0 .. PacProb - 1
      /\ trk.prac \in [Row -> Nat]
  BY DEF TypeOK, BufEntry
<1>1. /\ IF ~Sampled THEN UNCHANGED <<buf, critical, acc>>
         ELSE /\ acc' = [acc EXCEPT ![r] = @ + 1]
              /\ IF s = 0
                 THEN /\ buf' = Append(buf, [row |-> r, sctr |-> 1])
                      /\ UNCHANGED critical
                 ELSE /\ buf' = [buf EXCEPT ![s].sctr = @ + 1]
                      /\ critical' = critical
                           + (IF buf[s].sctr + 1 = QueueTh THEN 1 ELSE 0)
                      /\ critical' <= MaxCritical
      /\ IF actCtr + 1 = PacProb
         THEN actCtr' = 0 /\ mintSel' \in 0 .. PacProb - 1
         ELSE actCtr' = actCtr + 1 /\ UNCHANGED mintSel
  BY DEF MopacCtrUpdate, SelectInSeq
<1>2. actCtr' \in 0 .. PacProb - 1 /\ mintSel' \in 0 .. PacProb - 1
  <2>1. IF actCtr + 1 = PacProb
        THEN actCtr' = 0 /\ mintSel' \in 0 .. PacProb - 1
        ELSE actCtr' = actCtr + 1 /\ UNCHANGED mintSel
    BY <1>1
  <2> QED BY <1>0, <2>1, ConstantsAreNats
<1>3. \A i \in 1 .. Len(buf) : buf[i] \in BufEntry /\ buf[i].sctr \in Nat \ {0}
                                /\ buf[i].row \in Row
  <2>1. \A i \in 1 .. Len(buf) : buf[i] \in BufEntry
    BY <1>0
  <2> QED BY <2>1 DEF BufEntry
<1>4. \A x \in Row : trk.prac[x] \in Nat /\ acc[x] \in Nat /\ Waiting(x) \in Nat
                      /\ trk.prac[x] + Waiting(x) >= acc[x]
  <2>1. \A x \in Row : acc[x] \in Nat
    BY <1>0, ConstantsAreNats
  <2> QED BY <1>0, <2>1, WaitingFacts DEF CountsNeverLost
<1>5. CASE ~Sampled
  <2>1. buf' = buf /\ critical' = critical /\ acc' = acc
    BY <1>1, <1>5
  <2>2. \A x \in Row : Waiting(x)' = Waiting(x)
    BY <2>1 DEF Waiting, SelectInSeq
  <2>3. CountsNeverLost'
    BY <1>4, <2>1, <2>2 DEF CountsNeverLost
  <2> QED BY <1>0, <1>2, <2>1, <2>3
<1>6. CASE Sampled
  <2>1. /\ acc' = [acc EXCEPT ![r] = @ + 1] /\ acc' \in [Row -> 0 .. MaxCount]
        /\ acc'[r] = acc[r] + 1
        /\ \A x \in Row : x # r => acc'[x] = acc[x]
    <3>1. acc' = [acc EXCEPT ![r] = @ + 1]
      BY <1>1, <1>6
    <3>2. acc[r] + 1 \in 0 .. MaxCount
      BY <1>0, ConstantsAreNats
    <3> QED BY <1>0, <3>1, <3>2
  <2>2. CASE I = {}
    <3> DEFINE e == [row |-> r, sctr |-> 1]
    <3>1. buf' = Append(buf, e) /\ critical' = critical
      BY <1>1, <1>6, <2>2
    <3>2. e \in BufEntry /\ e.row = r /\ e.sctr = 1
      BY DEF BufEntry
    <3> HIDE DEF e
    <3>3. /\ buf' \in Seq(BufEntry) /\ Len(buf') = Len(buf) + 1 /\ Len(buf) \in Nat
          /\ \A i \in 1 .. Len(buf) : buf'[i] = buf[i]
          /\ buf'[Len(buf) + 1] = e
      BY <1>0, <3>1, <3>2
    <3>4. \A i \in 1 .. Len(buf) : buf[i].row # r
      BY <2>2
    <3>5. FirstAt(buf', r, Len(buf) + 1)
      BY <3>2, <3>3, <3>4 DEF FirstAt
    <3>6. Waiting(r)' = 1
      BY <3>2, <3>3, <3>5, WaitingFactsNext
    <3>7. Waiting(r) = 0
      <4>1. \A i \in 1 .. Len(buf) : ~FirstAt(buf, r, i)
        BY <3>4 DEF FirstAt
      <4> QED BY <1>0, <4>1, WaitingFacts
    <3>8. \A x \in Row : x # r => Waiting(x)' >= Waiting(x)
      <4>1. SUFFICES ASSUME NEW x \in Row, x # r, Waiting(x) # 0
                     PROVE  Waiting(x)' >= Waiting(x)
        BY <1>4, <3>3, WaitingFactsNext
      <4>2. PICK i \in 1 .. Len(buf) : FirstAt(buf, x, i)
        BY <1>0, <4>1, WaitingFacts
      <4>3. FirstAt(buf', x, i)
        BY <3>3, <4>2 DEF FirstAt
      <4>4. Waiting(x) = buf[i].sctr /\ Waiting(x)' = buf[i].sctr
        BY <1>0, <3>3, <4>2, <4>3, WaitingFacts, WaitingFactsNext
      <4> QED BY <1>3, <4>4
    <3>9. CountsNeverLost'
      <4>1. \A x \in Row : Waiting(x)' \in Nat
        BY <3>3, WaitingFactsNext
      <4>2. ASSUME NEW x \in Row PROVE trk'.prac[x] + Waiting(x)' >= acc'[x]
        <5>1. CASE x = r
          BY <1>4, <2>1, <3>6, <3>7, <5>1
        <5>2. CASE x # r
          BY <1>4, <2>1, <3>8, <4>1, <5>2
        <5> QED BY <5>1, <5>2
      <4> QED BY <4>2 DEF CountsNeverLost
    <3> QED BY <1>0, <1>2, <2>1, <3>1, <3>3, <3>9
  <2>3. CASE I # {}
    <3>1. Min(I) \in I /\ \A i \in I : Min(I) <= i
      <4>1. I \in SUBSET Nat
        OBVIOUS
      <4> HIDE DEF I
      <4> QED BY <2>3, <4>1, MinOfNats
    <3>2. s = Min(I) /\ s \in 1 .. Len(buf) /\ s # 0 /\ buf[s].row = r
      BY <2>3, <3>1
    <3>3. FirstAt(buf, r, s)
      <4>1. \A j \in 1 .. s - 1 : j \in 1 .. Len(buf) /\ j \notin I
        BY <3>1, <3>2
      <4>2. \A j \in 1 .. s - 1 : buf[j].row # r
        BY <4>1
      <4> QED BY <3>2, <4>2 DEF FirstAt
    <3> HIDE DEF s, I
    <3>4. /\ buf' = [buf EXCEPT ![s].sctr = @ + 1]
          /\ critical' = critical + (IF buf[s].sctr + 1 = QueueTh THEN 1 ELSE 0)
      BY <1>1, <1>6, <3>2
    <3>5. /\ buf' \in Seq(BufEntry) /\ Len(buf') = Len(buf)
          /\ \A i \in 1 .. Len(buf) : i # s => buf'[i] = buf[i]
          /\ buf'[s].row = r /\ buf'[s].sctr = buf[s].sctr + 1
      <4> DEFINE e == [buf[s] EXCEPT !.sctr = @ + 1]
      <4>1. buf' = [buf EXCEPT ![s] = e]
        BY <3>4
      <4>2. e \in BufEntry /\ e.row = r /\ e.sctr = buf[s].sctr + 1
        BY <1>3, <3>2 DEF BufEntry
      <4> HIDE DEF e
      <4> QED BY <1>0, <3>2, <4>1, <4>2
    <3>6. FirstAt(buf', r, s)
      BY <3>2, <3>3, <3>5 DEF FirstAt
    <3>7. Waiting(r)' = Waiting(r) + 1
      BY <1>0, <3>2, <3>3, <3>5, <3>6, WaitingFacts, WaitingFactsNext
    <3>8. \A x \in Row : x # r => Waiting(x)' >= Waiting(x)
      <4>1. SUFFICES ASSUME NEW x \in Row, x # r, Waiting(x) # 0
                     PROVE  Waiting(x)' >= Waiting(x)
        BY <1>4, <3>5, WaitingFactsNext
      <4>2. PICK i \in 1 .. Len(buf) : FirstAt(buf, x, i)
        BY <1>0, <4>1, WaitingFacts
      <4>3. i # s
        BY <3>2, <4>1, <4>2 DEF FirstAt
      <4>4. FirstAt(buf', x, i)
        BY <3>5, <4>1, <4>2, <4>3 DEF FirstAt
      <4>5. Waiting(x) = buf[i].sctr /\ Waiting(x)' = buf[i].sctr
        BY <1>0, <3>5, <4>2, <4>3, <4>4, WaitingFacts, WaitingFactsNext
      <4> QED BY <1>3, <4>5
    <3>9. CountsNeverLost'
      <4>1. \A x \in Row : Waiting(x)' \in Nat
        BY <3>5, WaitingFactsNext
      <4>2. ASSUME NEW x \in Row PROVE trk'.prac[x] + Waiting(x)' >= acc'[x]
        <5>1. CASE x = r
          BY <1>4, <2>1, <3>7, <5>1
        <5>2. CASE x # r
          BY <1>4, <2>1, <3>8, <4>1, <5>2
        <5> QED BY <5>1, <5>2
      <4> QED BY <4>2 DEF CountsNeverLost
    <3>10. critical' \in Nat
      BY <1>0, <3>4
    <3> QED BY <1>2, <2>1, <3>5, <3>9, <3>10
  <2> QED BY <2>2, <2>3
<1> QED BY <1>5, <1>6

\* What is left of a sequence without its element i.
LEMMA RemoveAtShape ==
    ASSUME NEW S, NEW s \in Seq(S), NEW i \in 1 .. Len(s)
    PROVE  /\ RemoveAt(s, i) \in Seq(S)
           /\ Len(RemoveAt(s, i)) = Len(s) - 1
           /\ \A j \in 1 .. Len(s) - 1 :
                 RemoveAt(s, i)[j] = IF j < i THEN s[j] ELSE s[j + 1]
<1> DEFINE f == SubSeq(s, 1, i - 1)
           g == SubSeq(s, i + 1, Len(s))
<1>1. f \in Seq(S) /\ Len(f) = i - 1 /\ \A j \in 1 .. i - 1 : f[j] = s[j]
  OBVIOUS
<1>2. /\ g \in Seq(S)
      /\ Len(g) = Len(s) - i
      /\ \A j \in 1 .. Len(s) - i : g[j] = s[j + i]
  OBVIOUS
<1>3. RemoveAt(s, i) = f \o g
  BY DEF RemoveAt
<1>4. /\ f \o g \in Seq(S)
      /\ Len(f \o g) = Len(s) - 1
      /\ \A j \in 1 .. Len(s) - 1 :
            (f \o g)[j] = IF j < i THEN f[j] ELSE g[j - (i - 1)]
  <2> HIDE DEF f, g
  <2>1. /\ f \o g \in Seq(S)
        /\ Len(f \o g) = Len(f) + Len(g)
        /\ \A j \in 1 .. Len(f) + Len(g) :
              (f \o g)[j] = IF j <= Len(f) THEN f[j] ELSE g[j - Len(f)]
    BY <1>1, <1>2, ConcatProperties
  <2> QED BY <1>1, <1>2, <2>1
<1>5. ASSUME NEW j \in 1 .. Len(s) - 1
      PROVE  (f \o g)[j] = IF j < i THEN s[j] ELSE s[j + 1]
  <2>1. CASE j < i
    <3> HIDE DEF f, g
    <3> QED BY <2>1, <1>1, <1>4
  <2>2. CASE ~(j < i)
    <3>1. j - (i - 1) \in 1 .. Len(s) - i
      BY <2>2
    <3>2. g[j - (i - 1)] = s[j + 1]
      <4> HIDE DEF f, g
      <4> QED BY <3>1, <1>2
    <3> HIDE DEF f, g
    <3> QED BY <2>2, <3>2, <1>4
  <2> QED BY <2>1, <2>2
<1> QED BY <1>3, <1>4, <1>5

\* Counters that are flushed are found in prac_, the others still in the buffer.
LEMMA FlushedFacts ==
    ASSUME NEW t \in Counters, NEW q \in Seq(BufEntry), NEW n \in Nat,
           buf' = Flushed(q, n)
    PROVE  /\ buf' \in Seq(BufEntry)
           /\ \A r \in Row, i \in 1 .. Len(q) : FirstAt(q, r, i) =>
                 FlushCtrs(t, q, n).prac[r] + Waiting(r)' >= t.prac[r] + q[i].sctr
<1> DEFINE m == AtMost(n, q)
           u == FlushCtrs(t, q, n)
<1>1. m \in Nat /\ m <= Len(q) /\ Len(q) \in Nat
  BY DEF AtMost
<1>2. buf' = SubSeq(q, m + 1, Len(q))
  BY DEF Flushed
<1>3. /\ u \in Counters
      /\ \A r \in Row : u.prac[r] >= t.prac[r]
      /\ \A i \in 1 .. m : u.prac[q[i].row] >= t.prac[q[i].row] + q[i].sctr
  BY FlushFacts
<1> HIDE DEF m, u
<1>4. /\ buf' \in Seq(BufEntry) /\ Len(buf') = Len(q) - m
      /\ \A j \in 1 .. Len(q) - m : buf'[j] = q[j + m]
  BY <1>1, <1>2
<1>5. ASSUME NEW r \in Row, NEW i \in 1 .. Len(q), FirstAt(q, r, i)
      PROVE  u.prac[r] + Waiting(r)' >= t.prac[r] + q[i].sctr
  <2>1. Waiting(r)' \in Nat /\ u.prac[r] \in Nat /\ t.prac[r] \in Nat
          /\ q[i].sctr \in Nat
    <3>1. q[i] \in BufEntry
      OBVIOUS
    <3> QED BY <1>3, <1>4, <3>1, WaitingFactsNext DEF Counters, BufEntry
  <2>2. CASE i <= m
    <3>1. i \in 1 .. m /\ q[i].row = r
      BY <1>1, <1>5, <2>2 DEF FirstAt
    <3>2. u.prac[r] >= t.prac[r] + q[i].sctr
      BY <1>3, <3>1
    <3> QED BY <2>1, <3>2
  <2>3. CASE i > m
    <3>1. i - m \in 1 .. Len(buf') /\ buf'[i - m] = q[i]
      BY <1>1, <1>4, <2>3
    <3>2. \A j \in 1 .. (i - m) - 1 : buf'[j] = q[j + m] /\ j + m \in 1 .. i - 1
      BY <1>1, <1>4, <2>3
    <3>3. FirstAt(buf', r, i - m)
      BY <1>5, <3>1, <3>2 DEF FirstAt
    <3>4. Waiting(r)' = q[i].sctr
      BY <1>4, <3>1, <3>3, WaitingFactsNext
    <3> QED BY <1>3, <2>1, <3>4
  <2> QED BY <1>1, <2>2, <2>3
<1> QED BY <1>4, <1>5 DEF u

LEMMA ActivateStep ==
    ASSUME TrackerInv, NEW r \in Row, Activate(r)
    PROVE  TrackerInv'
<1>0. /\ TypeOK /\ acc[r] < MaxCount /\ openRow' = r /\ trk' = trk
      /\ r # NoRow /\ acc \in [Row -> 0 .. MaxCount]
  BY ConstantsAreNats DEF Activate, TrackerInv, Row, NoRow, TypeOK
<1>1. CASE impl = "MOPAC"
  <2>1. MopacCtrUpdate(r)
    BY <1>1 DEF Activate
  <2>2. /\ buf' \in Seq(BufEntry) /\ critical' \in Nat
        /\ actCtr' \in 0 .. PacProb - 1 /\ mintSel' \in 0 .. PacProb - 1
        /\ acc' \in [Row -> 0 .. MaxCount]
        /\ CountsNeverLost'
    BY <1>0, <2>1, CtrUpdateFacts DEF TrackerInv
  <2>3. TypeOK'
    BY <1>0, <2>2 DEF TypeOK, Activate, BufEntry
  <2> QED BY <1>0, <1>1, <2>2, <2>3 DEF TrackerInv, Activate, build,
        OpenRowBelowBound, TrackedRowIsEligible, OneRowAtAth
<1>2. CASE impl # "MOPAC"
  <2>1. buf' = buf /\ critical' = critical /\ actCtr' = actCtr /\ mintSel' = mintSel
          /\ acc' = acc
    BY <1>2 DEF Activate
  <2>2. TypeOK'
    BY <1>0, <2>1 DEF TypeOK, Activate
  <2>3. CountsNeverLost'
    <3>1. \A x \in Row : Waiting(x)' = Waiting(x)
      BY <2>1 DEF Waiting, SelectInSeq
    <3> QED BY <1>0, <2>1, <3>1 DEF TrackerInv, CountsNeverLost
  <2>4. OneRowAtAth'
    <3>1. SUFFICES ASSUME alertStops, NEW x \in Row PROVE trk.prac[x] < Ath
      BY <1>0 DEF OneRowAtAth, Activate, build
    <3>2. ~Overloaded(trk)
      BY <3>1 DEF Activate, CheckAlert
    <3>3. \/ trk.prac[x] < Ath
          \/ trk.prac[x] = Ath /\ trk.row = x
      BY <1>2, <3>1 DEF TrackerInv, OneRowAtAth
    <3>4. x # NoRow /\ Ath \in Nat
      BY ConstantsAreNats DEF Row, NoRow
    <3> QED BY <3>2, <3>3, <3>4 DEF Overloaded
  <2>5. OpenRowBelowBound' /\ TrackedRowIsEligible'
    BY <1>0, <2>1 DEF OpenRowBelowBound, TrackedRowIsEligible, TrackerInv
  <2> QED BY <2>2, <2>3, <2>4, <2>5 DEF TrackerInv, Activate, build
<1> QED BY <1>1, <1>2

LEMMA RowpressStep ==
    ASSUME TrackerInv, PrechargeRowpress
    PROVE  TrackerInv'
<1> DEFINE r == openRow
<1>0. /\ TypeOK /\ r \in Row /\ acc[r] < MaxCount /\ trk' = trk /\ openRow' = NoRow
      /\ MopacCtrUpdate(r) /\ impl = "MOPAC" /\ impl' = impl
  BY DEF PrechargeRowpress, TrackerInv, TypeOK, build
<1>1. /\ buf' \in Seq(BufEntry) /\ critical' \in Nat
      /\ actCtr' \in 0 .. PacProb - 1 /\ mintSel' \in 0 .. PacProb - 1
      /\ acc' \in [Row -> 0 .. MaxCount]
      /\ CountsNeverLost'
  <2> HIDE DEF r
  <2> QED BY <1>0, CtrUpdateFacts DEF TrackerInv
<1>2. TypeOK'
  BY <1>0, <1>1 DEF TypeOK, PrechargeRowpress, BufEntry
<1> QED BY <1>0, <1>1, <1>2 DEF TrackerInv, OpenRowBelowBound,
      TrackedRowIsEligible, OneRowAtAth

LEMMA PrechargeStep ==
    ASSUME TrackerInv, Precharge
    PROVE  TrackerInv'
<1> DEFINE r == openRow
<1>0. /\ TypeOK /\ r \in Row /\ openRow' = NoRow /\ impl' = impl
      /\ alertStops' = alertStops /\ trefiCnt' = trefiCnt /\ refIdx' = refIdx
      /\ buf' = buf /\ critical' = critical /\ actCtr' = actCtr
      /\ mintSel' = mintSel /\ countdown' = countdown
      /\ NoRow \notin Row
  BY ConstantsAreNats
     DEF Precharge, TrackerInv, TypeOK, build, mopac, Row, NoRow
<1>1. trk \in Counters /\ acc \in [Row -> 0 .. MaxCount] /\ buf \in Seq(BufEntry)
  BY <1>0 DEF TypeOK, Counters, BufEntry
<1>2. \A x \in Row : Waiting(x)' = Waiting(x) /\ Waiting(x) \in Nat
                      /\ trk.prac[x] \in Nat /\ acc[x] \in 0 .. MaxCount
                      /\ trk.prac[x] + Waiting(x) >= acc[x]
  <2>1. \A x \in Row : Waiting(x)' = Waiting(x)
    BY <1>0 DEF Waiting, SelectInSeq
  <2>2. \A x \in Row : Waiting(x) \in Nat
    BY <1>1, WaitingFacts
  <2> QED BY <1>1, <2>1, <2>2 DEF Counters, TrackerInv, CountsNeverLost
<1>3. CASE acc' = acc /\ trk' = trk
  <2>1. TypeOK'
    BY <1>0, <1>3 DEF TypeOK
  <2>2. CountsNeverLost'
    BY <1>2, <1>3 DEF CountsNeverLost
  <2> QED BY <1>0, <1>3, <2>1, <2>2 DEF TrackerInv, OpenRowBelowBound,
        TrackedRowIsEligible, OneRowAtAth
<1>4. CASE /\ impl # "MOPAC"
           /\ acc' = [acc EXCEPT ![r] = @ + 1]
           /\ trk' = UpdatePRAC(trk, r, 1)
  <2>1. /\ trk' \in Counters
        /\ \A x \in Row : trk'.prac[x] = IF x = r THEN trk.prac[x] + 1 ELSE trk.prac[x]
        /\ Eligible(trk) => Eligible(trk')
    <3>1. 1 \in Nat
      OBVIOUS
    <3> HIDE DEF r
    <3> QED BY <1>0, <1>1, <1>4, <3>1, UpdateFacts
  <2>2. /\ acc' \in [Row -> 0 .. MaxCount]
        /\ \A x \in Row : acc'[x] = IF x = r THEN acc[x] + 1 ELSE acc[x]
    <3>1. acc[r] < MaxCount
      BY <1>0, <1>4 DEF TrackerInv, OpenRowBelowBound
    <3>2. acc[r] + 1 \in 0 .. MaxCount
      BY <1>0, <1>2, <3>1, ConstantsAreNats
    <3> QED BY <1>0, <1>1, <1>4, <3>2
  <2>3. TypeOK'
    BY <1>0, <1>1, <2>1, <2>2 DEF TypeOK, Counters
  <2>4. CountsNeverLost'
    <3>1. ASSUME NEW x \in Row PROVE trk'.prac[x] + Waiting(x)' >= acc'[x]
      <4>1. acc[x] \in Nat
        BY <1>2, ConstantsAreNats
      <4> QED BY <1>2, <2>1, <2>2, <4>1
    <3> QED BY <3>1 DEF CountsNeverLost
  <2>5. OneRowAtAth'
    <3>1. SUFFICES ASSUME alertStops, NEW x \in Row
                   PROVE  trk'.prac[x] < Ath \/ (trk'.prac[x] = Ath /\ trk'.row = x)
      BY <1>0 DEF OneRowAtAth
    <3>2. \A y \in Row : trk.prac[y] < Ath
      BY <1>0, <1>4, <3>1 DEF TrackerInv, OneRowAtAth
    <3>3. CASE x # r
      BY <2>1, <3>2, <3>3
    <3>4. CASE x = r
      <4>1. trk'.prac[x] = trk.prac[x] + 1 /\ trk'.prac[x] <= Ath
        BY <1>0, <1>2, <2>1, <3>2, <3>4, ConstantsAreNats
      <4>2. ASSUME trk'.prac[x] = Ath PROVE trk'.row = x
        <5> DEFINE p == [trk.prac EXCEPT ![r] = @ + 1]
        <5>1. /\ trk'.prac = p
              /\ trk'.row = IF p[r] >= Eth /\ (trk.row = NoRow \/ p[r] > p[trk.row])
                            THEN r ELSE trk.row
          BY <1>4 DEF UpdatePRAC
        <5>2. p[r] = Ath /\ p[r] >= Eth
          BY <3>4, <4>2, <5>1, ConstantsAreNats
        <5> HIDE DEF p
        <5>3. trk.row \in Row /\ trk.row # r => p[r] > p[trk.row]
          BY <1>2, <2>1, <3>2, <5>1, <5>2, ConstantsAreNats
        <5>4. trk.row \in Row \cup {NoRow}
          BY <1>1 DEF Counters
        <5> QED BY <3>4, <5>1, <5>2, <5>3, <5>4
      <4> QED BY <1>0, <2>1, <4>1, <4>2, ConstantsAreNats DEF Counters
    <3> QED BY <3>3, <3>4
  <2>6. TrackedRowIsEligible' /\ OpenRowBelowBound'
    BY <1>0, <2>1 DEF TrackerInv, TrackedRowIsEligible, Eligible, OpenRowBelowBound
  <2> QED BY <1>0, <2>3, <2>4, <2>5, <2>6 DEF TrackerInv
<1>5. PICK counts \in Counts :
          IF counts
          THEN /\ acc' = [acc EXCEPT ![openRow] = @ + 1]
               /\ trk' = UpdatePRAC(trk, openRow, 1)
          ELSE UNCHANGED <<acc, trk>>
  BY DEF Precharge
<1>6. impl = "MOPAC" => counts = FALSE
  BY DEF Counts
<1>7. counts \in BOOLEAN
  <2>1. impl \in {"MOAT", "PAC", "MOPAC"}
    BY TrackerConstants DEF TrackerInv
  <2> QED BY <2>1, Zenon DEF Counts
<1> QED BY <1>3, <1>4, <1>5, <1>6, <1>7

\* Counters and buffer after a step that counts nothing: a row whose counter was
\* lowered is one that was mitigated or refreshed.
LEMMA CountsKept ==
    ASSUME TrackerInv, trk' \in Counters, buf' \in Seq(BufEntry),
           NEW gone \in SUBSET Row,
           acc' = [r \in Row |-> IF r \in gone THEN 0 ELSE acc[r]],
           \A r \in Row \ gone :
              trk'.prac[r] + Waiting(r)' >= trk.prac[r] + Waiting(r)
    PROVE  CountsNeverLost' /\ acc' \in [Row -> 0 .. MaxCount]
<1>1. \A r \in Row : /\ trk'.prac[r] \in Nat /\ trk.prac[r] \in Nat
                     /\ Waiting(r) \in Nat /\ Waiting(r)' \in Nat
  BY WaitingFacts, WaitingFactsNext DEF TrackerInv, TypeOK, Counters, BufEntry
<1>2. acc \in [Row -> 0 .. MaxCount] /\ MaxCount \in Nat
  BY ConstantsAreNats DEF TrackerInv, TypeOK
<1>3. acc' \in [Row -> 0 .. MaxCount]
  BY <1>2
<1>4. ASSUME NEW r \in Row PROVE trk'.prac[r] + Waiting(r)' >= acc'[r]
  <2>1. CASE r \in gone
    BY <1>1, <2>1
  <2>2. CASE r \notin gone
    <3>1. trk'.prac[r] + Waiting(r)' >= trk.prac[r] + Waiting(r)
      BY <2>2
    <3>2. trk.prac[r] + Waiting(r) >= acc[r] /\ acc'[r] = acc[r]
      BY <2>2 DEF TrackerInv, CountsNeverLost
    <3>3. acc[r] \in Nat
      BY <1>2
    <3> QED BY <1>1, <3>1, <3>2, <3>3
  <2> QED BY <2>1, <2>2
<1> QED BY <1>3, <1>4 DEF CountsNeverLost

\* MoatMitigate forgets the row it mitigates.
LEMMA MitigateFacts ==
    ASSUME NEW t \in Counters
    PROVE  /\ MoatMitigate(t) \in Counters
           /\ MoatMitigate(t).row = NoRow
           /\ \A r \in Row : MoatMitigate(t).prac[r] = IF r = t.row THEN 0 ELSE t.prac[r]
           /\ Eligible(MoatMitigate(t))
<1>1. t.prac \in [Row -> Nat] /\ t.row \in Row \cup {NoRow} /\ NoRow \notin Row
  BY ConstantsAreNats DEF Counters, Row, NoRow
<1>2. CASE t.row = NoRow
  BY <1>1, <1>2 DEF MoatMitigate, Eligible
<1>3. CASE t.row # NoRow
  <2> DEFINE p == [t.prac EXCEPT ![t.row] = 0]
  <2>1. MoatMitigate(t) = [prac |-> p, row |-> NoRow]
    BY <1>3 DEF MoatMitigate
  <2>2. p \in [Row -> Nat] /\ \A r \in Row : p[r] = IF r = t.row THEN 0 ELSE t.prac[r]
    BY <1>1
  <2> HIDE DEF p
  <2> QED BY <2>1, <2>2 DEF Counters, Eligible
<1> QED BY <1>2, <1>3

\* Whatever happens to the counters on a refresh, the row that is refreshed is
\* forgotten and its counter is 0.
LEMMA ForgetFacts ==
    ASSUME NEW t \in Counters
    PROVE  /\ ForgetIfRefreshed(t) \in Counters
           /\ ForgetIfRefreshed(t).prac = t.prac
           /\ ForgetIfRefreshed(t).row = IF InWindow(t.row) THEN NoRow ELSE t.row
BY DEF ForgetIfRefreshed, Counters

LEMMA RefreshRowsFacts ==
    ASSUME NEW t \in Counters
    PROVE  /\ RefreshRows(t) \in Counters
           /\ RefreshRows(t).row = t.row
           /\ \A r \in Row : RefreshRows(t).prac[r] = IF InWindow(r) THEN 0 ELSE t.prac[r]
<1> DEFINE p == [r \in Row |-> IF InWindow(r) THEN 0 ELSE t.prac[r]]
<1>1. p \in [Row -> Nat]
  BY DEF Counters
<1>2. RefreshRows(t) = [t EXCEPT !.prac = p]
  BY DEF RefreshRows
<1>3. \A r \in Row : p[r] = IF InWindow(r) THEN 0 ELSE t.prac[r]
  OBVIOUS
<1> HIDE DEF p
<1> QED BY <1>1, <1>2, <1>3 DEF Counters

LEMMA NoRowOutside == refIdx \in Row => ~InWindow(NoRow)
BY ConstantsAreNats DEF InWindow, NoRow, Row

\* MOAT and PAC on a refresh.
LEMMA MoatRefreshFacts ==
    ASSUME TrackerInv, trk' = MoatHandleRef(RefreshRows(trk))
    PROVE  /\ trk' \in Counters /\ Eligible(trk')
           /\ \A r \in Row : trk'.prac[r] \in {0, trk.prac[r]}
           /\ \A r \in Row : trk'.prac[r] # 0 /\ trk.row = r => trk'.row = r
<1> DEFINE t == RefreshRows(trk)
           u == IF trefiCnt + 1 = MitigationPeriod THEN MoatMitigate(t) ELSE t
<1>1. trk' = ForgetIfRefreshed(u)
  BY DEF MoatHandleRef
<1>2. trk \in Counters /\ Eligible(trk) /\ refIdx \in Row
  BY DEF TrackerInv, TypeOK, Counters, TrackedRowIsEligible, Eligible
<1>3. /\ t \in Counters /\ t.row = trk.row
      /\ \A r \in Row : t.prac[r] = IF InWindow(r) THEN 0 ELSE trk.prac[r]
  BY <1>2, RefreshRowsFacts
<1> HIDE DEF t
<1>4. CASE u = t
  <2>1. trk' \in Counters /\ trk'.prac = t.prac
          /\ trk'.row = IF InWindow(t.row) THEN NoRow ELSE t.row
    BY <1>1, <1>3, <1>4, ForgetFacts
  <2>2. Eligible(trk')
    BY <1>2, <1>3, <2>1 DEF Eligible, Counters
  <2> QED BY <1>3, <2>1, <2>2
<1>5. CASE u = MoatMitigate(t)
  <2>1. /\ u \in Counters /\ u.row = NoRow
        /\ \A r \in Row : u.prac[r] = IF r = t.row THEN 0 ELSE t.prac[r]
    BY <1>3, <1>5, MitigateFacts
  <2>2. trk' \in Counters /\ trk'.prac = u.prac /\ trk'.row = NoRow
    <3> HIDE DEF u
    <3> QED BY <1>1, <1>2, <2>1, ForgetFacts, NoRowOutside
  <2> HIDE DEF u
  <2> QED BY <1>3, <2>1, <2>2 DEF Eligible
<1> QED BY <1>4, <1>5

LEMMA RefreshStep ==
    ASSUME TrackerInv, Refresh
    PROVE  TrackerInv'
<1>0. /\ TypeOK /\ openRow = NoRow /\ openRow' = NoRow /\ impl' = impl
      /\ alertStops' = alertStops
      /\ refIdx \in Row /\ trk \in Counters /\ Eligible(trk) /\ buf \in Seq(BufEntry)
  BY DEF TrackerInv, TypeOK, Refresh, build, Counters, BufEntry,
         TrackedRowIsEligible, Eligible
<1> DEFINE gone == {r \in Row : InWindow(r) \/ trk'.prac[r] < trk.prac[r]}
<1>1. acc' = [r \in Row |-> IF r \in gone THEN 0 ELSE acc[r]]
  BY DEF Refresh
<1>2. refIdx' \in Row
  <2>1. refIdx' = (refIdx + RowsRefreshed) % Rows
    BY DEF Refresh
  <2> QED BY <1>0, <2>1, ConstantsAreNats DEF Row
<1>3. CASE impl # "MOPAC"
  <2>1. /\ trk' = MoatHandleRef(RefreshRows(trk)) /\ UNCHANGED mopac
        /\ trefiCnt' = (trefiCnt + 1) % MitigationPeriod
    BY <1>3 DEF Refresh
  <2>2. /\ trk' \in Counters /\ Eligible(trk')
        /\ \A r \in Row : trk'.prac[r] \in {0, trk.prac[r]}
        /\ \A r \in Row : trk'.prac[r] # 0 /\ trk.row = r => trk'.row = r
    BY <2>1, MoatRefreshFacts
  <2>3. \A r \in Row : trk.prac[r] \in Nat /\ trk'.prac[r] \in Nat
    BY <1>0, <2>2 DEF Counters
  <2>4. buf' = buf /\ \A r \in Row : Waiting(r)' = Waiting(r) /\ Waiting(r) \in Nat
    <3>1. buf' = buf
      BY <2>1 DEF mopac
    <3>2. \A r \in Row : Waiting(r) \in Nat
      BY <1>0, WaitingFacts
    <3> QED BY <3>1, <3>2 DEF Waiting, SelectInSeq
  <2>5. \A r \in Row \ gone : trk'.prac[r] + Waiting(r)' >= trk.prac[r] + Waiting(r)
    BY <2>2, <2>3, <2>4
  <2>6. CountsNeverLost' /\ acc' \in [Row -> 0 .. MaxCount]
    <3>1. gone \in SUBSET Row /\ buf' \in Seq(BufEntry)
      BY <1>0, <2>4
    <3> HIDE DEF gone
    <3> QED BY <1>1, <2>2, <2>5, <3>1, CountsKept
  <2>7. trefiCnt' \in 0 .. MitigationPeriod - 1
    BY <1>0, <2>1 DEF TypeOK, MitigationPeriod
  <2>8. TypeOK'
    BY <1>0, <1>2, <2>1, <2>2, <2>6, <2>7 DEF TypeOK, mopac, Counters
  <2>9. OneRowAtAth'
    <3>1. SUFFICES ASSUME alertStops, NEW r \in Row
                   PROVE  trk'.prac[r] < Ath \/ (trk'.prac[r] = Ath /\ trk'.row = r)
      BY <1>0 DEF OneRowAtAth
    <3>2. trk.prac[r] < Ath \/ (trk.prac[r] = Ath /\ trk.row = r)
      BY <1>3, <3>1 DEF TrackerInv, OneRowAtAth
    <3> QED BY <2>2, <3>2, ConstantsAreNats
  <2>10. TrackedRowIsEligible' /\ OpenRowBelowBound'
    BY <1>0, <2>2 DEF TrackedRowIsEligible, Eligible, OpenRowBelowBound
  <2> QED BY <1>0, <2>6, <2>8, <2>9, <2>10 DEF TrackerInv
<1>4. CASE impl = "MOPAC"
  <2> DEFINE n == IF countdown = 0 THEN RefUpdates ELSE 0
             t == FlushCtrs(trk, Kept, n)
             u == ForgetIfRefreshed(t)
  <2>1. /\ buf' = Flushed(Kept, n)
        /\ countdown' = (IF countdown = 0 THEN DrainFreq ELSE countdown) - 1
        /\ trk' = RefreshRows(u)
        /\ trefiCnt' = trefiCnt /\ critical' = critical /\ actCtr' = actCtr
        /\ mintSel' = mintSel
    BY <1>4 DEF Refresh, MopacHandleRef
  <2>2. countdown' \in 0 .. DrainFreq - 1
    BY <1>0, <2>1, ConstantsAreNats DEF TypeOK
  <2>3. n \in Nat
    BY ConstantsAreNats
  <2>4. /\ Kept \in Seq(BufEntry)
        /\ \A r \in Row, i \in 1 .. Len(buf) :
             ~InWindow(r) /\ FirstAt(buf, r, i) =>
                 \E j \in 1 .. Len(Kept) : FirstAt(Kept, r, j) /\ Kept[j] = buf[i]
    BY <1>0, KeptFacts
  <2>5. /\ t \in Counters /\ Eligible(t)
        /\ \A r \in Row : t.prac[r] >= trk.prac[r]
    <3> HIDE DEF n
    <3> QED BY <1>0, <2>3, <2>4, FlushFacts
  <2>6. /\ buf' \in Seq(BufEntry)
        /\ \A r \in Row, i \in 1 .. Len(Kept) : FirstAt(Kept, r, i) =>
              t.prac[r] + Waiting(r)' >= trk.prac[r] + Kept[i].sctr
    <3> HIDE DEF n
    <3> QED BY <1>0, <2>1, <2>3, <2>4, FlushedFacts
  <2> HIDE DEF n, t
  <2>7. u \in Counters /\ u.prac = t.prac
          /\ u.row = IF InWindow(t.row) THEN NoRow ELSE t.row
    BY <2>5, ForgetFacts
  <2> HIDE DEF u
  <2>8. /\ trk' \in Counters /\ trk'.row = u.row
        /\ \A r \in Row : trk'.prac[r] = IF InWindow(r) THEN 0 ELSE u.prac[r]
    BY <2>1, <2>7, RefreshRowsFacts
  <2>9. Eligible(trk')
    <3>1. SUFFICES ASSUME trk'.row # NoRow PROVE trk'.prac[trk'.row] >= Eth
      BY DEF Eligible
    <3>2. trk'.row = t.row /\ ~InWindow(t.row) /\ t.row \in Row
      BY <2>5, <2>7, <2>8, <3>1 DEF Counters
    <3> QED BY <2>5, <2>7, <2>8, <3>1, <3>2 DEF Eligible
  <2>10. ASSUME NEW r \in Row \ gone
         PROVE  trk'.prac[r] + Waiting(r)' >= trk.prac[r] + Waiting(r)
    <3>1. ~InWindow(r) /\ trk'.prac[r] = t.prac[r] /\ t.prac[r] >= trk.prac[r]
      BY <2>5, <2>7, <2>8
    <3>2. Waiting(r) \in Nat /\ Waiting(r)' \in Nat /\ t.prac[r] \in Nat
            /\ trk.prac[r] \in Nat
      BY <1>0, <2>5, <2>6, WaitingFacts, WaitingFactsNext DEF Counters
    <3>3. CASE Waiting(r) = 0
      BY <3>1, <3>2, <3>3
    <3>4. CASE Waiting(r) # 0
      <4>1. PICK i \in 1 .. Len(buf) : FirstAt(buf, r, i)
        BY <1>0, <3>4, WaitingFacts
      <4>2. Waiting(r) = buf[i].sctr
        BY <1>0, <4>1, WaitingFacts
      <4>3. PICK j \in 1 .. Len(Kept) : FirstAt(Kept, r, j) /\ Kept[j] = buf[i]
        BY <2>4, <3>1, <4>1
      <4>4. t.prac[r] + Waiting(r)' >= trk.prac[r] + buf[i].sctr
        BY <2>6, <4>3
      <4> QED BY <3>1, <4>2, <4>4
    <3> QED BY <3>3, <3>4
  <2>11. CountsNeverLost' /\ acc' \in [Row -> 0 .. MaxCount]
    <3>1. gone \in SUBSET Row
      OBVIOUS
    <3> HIDE DEF gone
    <3> QED BY <1>1, <2>6, <2>8, <2>10, <3>1, CountsKept
  <2>12. TypeOK'
    BY <1>0, <1>2, <2>1, <2>2, <2>6, <2>8, <2>11 DEF TypeOK, Counters, BufEntry
  <2>13. TrackedRowIsEligible' /\ OpenRowBelowBound' /\ OneRowAtAth'
    BY <1>0, <1>4, <2>9 DEF TrackedRowIsEligible, Eligible, OpenRowBelowBound,
       OneRowAtAth
  <2> QED BY <1>0, <2>11, <2>12, <2>13 DEF TrackerInv
<1> QED BY <1>3, <1>4

\* The row that leaves the buffer out of turn is counted.
LEMMA CriticalRowFacts ==
    ASSUME TrackerInv, HandleCriticalRow
    PROVE  /\ trk' \in Counters /\ Eligible(trk') /\ buf' \in Seq(BufEntry)
           /\ \A r \in Row : trk'.prac[r] + Waiting(r)' >= trk.prac[r] + Waiting(r)
<1> DEFINE I == {i \in 1 .. Len(buf) : buf[i].sctr >= QueueTh}
           s == IF I # {} THEN Min(I) ELSE 0
<1>0. trk \in Counters /\ Eligible(trk) /\ buf \in Seq(BufEntry)
  BY DEF TrackerInv, TypeOK, Counters, BufEntry, TrackedRowIsEligible, Eligible
<1>1. IF s = 0 THEN UNCHANGED <<trk, buf>>
      ELSE /\ trk' = UpdatePRAC(trk, buf[s].row, buf[s].sctr)
           /\ buf' = RemoveAt(buf, s)
  BY DEF HandleCriticalRow, SelectInSeq
<1>2. \A r \in Row : Waiting(r) \in Nat /\ trk.prac[r] \in Nat
  BY <1>0, WaitingFacts DEF Counters
<1>3. s = 0 \/ s \in 1 .. Len(buf)
  <2>1. CASE I # {}
    <3>1. I \in SUBSET Nat /\ I \subseteq 1 .. Len(buf)
      OBVIOUS
    <3> HIDE DEF I
    <3> QED BY <2>1, <3>1, MinOfNats
  <2> QED BY <2>1
<1> HIDE DEF s, I
<1>4. CASE s = 0
  <2>1. trk' = trk /\ buf' = buf
    BY <1>1, <1>4
  <2>2. \A r \in Row : Waiting(r)' = Waiting(r)
    BY <2>1 DEF Waiting, SelectInSeq
  <2> QED BY <1>0, <1>2, <2>1, <2>2
<1>5. CASE s \in 1 .. Len(buf)
  <2> DEFINE e == buf[s]
  <2>1. trk' = UpdatePRAC(trk, e.row, e.sctr) /\ buf' = RemoveAt(buf, s)
    BY <1>1, <1>5
  <2>2. e \in BufEntry /\ e.row \in Row /\ e.sctr \in Nat
    <3>1. e \in BufEntry
      BY <1>0, <1>5
    <3> QED BY <3>1 DEF BufEntry
  <2>3. /\ trk' \in Counters /\ Eligible(trk')
        /\ \A x \in Row : trk'.prac[x] = IF x = e.row THEN trk.prac[x] + e.sctr
                                         ELSE trk.prac[x]
    <3> HIDE DEF e
    <3> QED BY <1>0, <2>1, <2>2, UpdateFacts
  <2>4. /\ buf' \in Seq(BufEntry) /\ Len(buf') = Len(buf) - 1
        /\ \A j \in 1 .. Len(buf) - 1 : buf'[j] = IF j < s THEN buf[j] ELSE buf[j + 1]
    BY <1>0, <1>5, <2>1, RemoveAtShape
  <2>5. ASSUME NEW r \in Row
        PROVE  trk'.prac[r] + Waiting(r)' >= trk.prac[r] + Waiting(r)
    <3>1. Waiting(r) \in Nat /\ Waiting(r)' \in Nat /\ trk.prac[r] \in Nat
            /\ trk'.prac[r] \in Nat /\ trk'.prac[r] >= trk.prac[r]
      <4>1. trk'.prac[r] \in Nat /\ Waiting(r)' \in Nat
        BY <2>3, <2>4, WaitingFactsNext DEF Counters
      <4>2. trk'.prac[r] >= trk.prac[r]
        <5> HIDE DEF e
        <5> QED BY <1>2, <2>2, <2>3
      <4> QED BY <1>2, <4>1, <4>2
    <3>2. CASE Waiting(r) = 0
      BY <3>1, <3>2
    <3>3. CASE Waiting(r) # 0
      <4>1. PICK i \in 1 .. Len(buf) : FirstAt(buf, r, i)
        BY <1>0, <3>3, WaitingFacts
      <4>2. Waiting(r) = buf[i].sctr
        BY <1>0, <4>1, WaitingFacts
      <4>3. CASE i = s
        <5>1. e.row = r /\ e.sctr = Waiting(r)
          BY <4>1, <4>2, <4>3 DEF FirstAt
        <5>2. trk'.prac[r] = trk.prac[r] + Waiting(r)
          <6> HIDE DEF e
          <6> QED BY <2>3, <5>1
        <5> QED BY <3>1, <5>2
      <4>4. CASE i < s
        <5>1. i \in 1 .. Len(buf') /\ \A j \in 1 .. i : buf'[j] = buf[j]
          BY <1>0, <1>5, <2>4, <4>4
        <5>2. FirstAt(buf', r, i)
          BY <4>1, <5>1 DEF FirstAt
        <5>3. Waiting(r)' = Waiting(r)
          BY <2>4, <4>2, <5>1, <5>2, WaitingFactsNext
        <5> QED BY <3>1, <5>3
      <4>5. CASE i > s
        <5>1. /\ i - 1 \in 1 .. Len(buf') /\ buf'[i - 1] = buf[i]
              /\ \A j \in 1 .. (i - 1) - 1 :
                    \E k \in 1 .. i - 1 : buf'[j] = buf[k]
          <6>1. i - 1 \in 1 .. Len(buf') /\ buf'[i - 1] = buf[(i - 1) + 1]
            BY <1>0, <1>5, <2>4, <4>5
          <6>2. ASSUME NEW j \in 1 .. (i - 1) - 1
                PROVE  \E k \in 1 .. i - 1 : buf'[j] = buf[k]
            <7>1. j \in 1 .. Len(buf) - 1 /\ j \in 1 .. i - 1 /\ j + 1 \in 1 .. i - 1
              BY <1>0
            <7> QED BY <2>4, <7>1
          <6> QED BY <6>1, <6>2
        <5>2. FirstAt(buf', r, i - 1)
          BY <4>1, <5>1 DEF FirstAt
        <5>3. Waiting(r)' = Waiting(r)
          BY <2>4, <4>2, <5>1, <5>2, WaitingFactsNext
        <5> QED BY <3>1, <5>3
      <4> QED BY <1>5, <4>3, <4>4, <4>5
    <3> QED BY <3>2, <3>3
  <2> QED BY <2>3, <2>4, <2>5
<1> QED BY <1>3, <1>4, <1>5

LEMMA RFMStep ==
    ASSUME TrackerInv, RFM
    PROVE  TrackerInv'
<1>0. /\ TypeOK /\ openRow = NoRow /\ openRow' = NoRow /\ impl' = impl
      /\ alertStops' = alertStops /\ trefiCnt' = trefiCnt /\ refIdx' = refIdx
      /\ trk \in Counters /\ Eligible(trk) /\ buf \in Seq(BufEntry)
  BY DEF TrackerInv, TypeOK, RFM, build, Counters, BufEntry,
         TrackedRowIsEligible, Eligible
<1> DEFINE gone == {r \in Row : trk'.prac[r] < trk.prac[r]}
<1>1. acc' = [r \in Row |-> IF r \in gone THEN 0 ELSE acc[r]] /\ gone \in SUBSET Row
  BY DEF RFM
<1>2. ASSUME trk' \in Counters, Eligible(trk'), buf' \in Seq(BufEntry),
             \A r \in Row \ gone :
                trk'.prac[r] + Waiting(r)' >= trk.prac[r] + Waiting(r),
             UNCHANGED <<critical, actCtr, mintSel, countdown>>,
             OneRowAtAth'
      PROVE  TrackerInv'
  <2>1. CountsNeverLost' /\ acc' \in [Row -> 0 .. MaxCount]
    <3> HIDE DEF gone
    <3> QED BY <1>1, <1>2, CountsKept
  <2>2. TypeOK'
    BY <1>0, <1>2, <2>1 DEF TypeOK, Counters, BufEntry
  <2> QED BY <1>0, <1>2, <2>1, <2>2 DEF TrackerInv, OpenRowBelowBound,
        TrackedRowIsEligible, Eligible
<1>3. \A r \in Row : trk.prac[r] \in Nat /\ Waiting(r) \in Nat
  BY <1>0, WaitingFacts DEF Counters
<1>4. ASSUME trk' = MoatMitigate(trk), buf' = buf
      PROVE  /\ trk' \in Counters /\ Eligible(trk') /\ buf' \in Seq(BufEntry)
             /\ \A r \in Row \ gone :
                  trk'.prac[r] + Waiting(r)' >= trk.prac[r] + Waiting(r)
             /\ OneRowAtAth'
  <2>1. /\ trk' \in Counters /\ Eligible(trk')
        /\ \A r \in Row : trk'.prac[r] = IF r = trk.row THEN 0 ELSE trk.prac[r]
    BY <1>0, <1>4, MitigateFacts
  <2>2. \A r \in Row : Waiting(r)' = Waiting(r)
    BY <1>4 DEF Waiting, SelectInSeq
  <2>3. ASSUME NEW r \in Row \ gone
        PROVE  trk'.prac[r] + Waiting(r)' >= trk.prac[r] + Waiting(r)
    <3>1. trk'.prac[r] = trk.prac[r]
      BY <1>3, <2>1
    <3> QED BY <1>3, <2>2, <3>1
  <2>4. OneRowAtAth'
    <3>1. SUFFICES ASSUME alertStops, impl # "MOPAC", NEW r \in Row
                   PROVE  trk'.prac[r] < Ath
      BY <1>0 DEF OneRowAtAth
    <3>2. trk.prac[r] < Ath \/ trk.row = r
      BY <3>1 DEF TrackerInv, OneRowAtAth
    <3> QED BY <2>1, <3>2, ConstantsAreNats
  <2> QED BY <1>0, <1>4, <2>1, <2>3, <2>4
<1>5. CASE impl # "MOPAC"
  <2>1. trk' = MoatMitigate(trk) /\ UNCHANGED mopac
    BY <1>5 DEF RFM
  <2>2. buf' = buf /\ UNCHANGED <<critical, actCtr, mintSel, countdown>>
    BY <2>1 DEF mopac
  <2> QED BY <1>2, <1>4, <2>1, <2>2
<1>6. CASE impl = "MOPAC"
  <2>1. MopacMitigate /\ UNCHANGED <<critical, actCtr, mintSel, countdown>>
    BY <1>6 DEF RFM, MopacMitigate
  <2>2. OneRowAtAth'
    BY <1>0, <1>6 DEF OneRowAtAth
  <2>3. CASE HandleCriticalRow
    <3>1. /\ trk' \in Counters /\ Eligible(trk') /\ buf' \in Seq(BufEntry)
          /\ \A r \in Row : trk'.prac[r] + Waiting(r)' >= trk.prac[r] + Waiting(r)
      BY <2>3, CriticalRowFacts
    <3> QED BY <1>2, <2>1, <2>2, <3>1
  <2>4. CASE trk' = MoatMitigate(trk) /\ buf' = buf
    BY <1>2, <1>4, <2>1, <2>4
  <2>5. CASE trk' = FlushCtrs(trk, buf, AboUpdates) /\ buf' = Flushed(buf, AboUpdates)
    <3>1. AboUpdates \in Nat
      BY ConstantsAreNats
    <3>2. /\ trk' \in Counters /\ Eligible(trk')
          /\ \A r \in Row : trk'.prac[r] >= trk.prac[r]
      BY <1>0, <2>5, <3>1, FlushFacts
    <3>3. /\ buf' \in Seq(BufEntry)
          /\ \A r \in Row, i \in 1 .. Len(buf) : FirstAt(buf, r, i) =>
                trk'.prac[r] + Waiting(r)' >= trk.prac[r] + buf[i].sctr
      BY <1>0, <2>5, <3>1, FlushedFacts
    <3>4. ASSUME NEW r \in Row
          PROVE  trk'.prac[r] + Waiting(r)' >= trk.prac[r] + Waiting(r)
      <4>1. Waiting(r)' \in Nat /\ trk'.prac[r] \in Nat
        BY <3>2, <3>3, WaitingFactsNext DEF Counters
      <4>2. CASE Waiting(r) = 0
        BY <1>3, <3>2, <4>1, <4>2
      <4>3. CASE Waiting(r) # 0
        <5>1. PICK i \in 1 .. Len(buf) : FirstAt(buf, r, i)
          BY <1>0, <4>3, WaitingFacts
        <5>2. Waiting(r) = buf[i].sctr
          BY <1>0, <5>1, WaitingFacts
        <5> QED BY <3>3, <5>1, <5>2
      <4> QED BY <4>2, <4>3
    <3> QED BY <1>2, <2>1, <2>2, <3>2, <3>3, <3>4
  <2> QED BY <2>1, <2>3, <2>4, <2>5 DEF MopacMitigate
<1> QED BY <1>5, <1>6

LEMMA Unchanged ==
    ASSUME TrackerInv, UNCHANGED vars
    PROVE  TrackerInv'
<1>1. \A r \in Row : Waiting(r)' = Waiting(r)
  BY DEF vars, mopac, Waiting, SelectInSeq
<1>2. TypeOK'
  BY DEF TrackerInv, TypeOK, vars, mopac
<1>3. CountsNeverLost'
  BY <1>1 DEF TrackerInv, CountsNeverLost, vars
<1> QED BY <1>2, <1>3 DEF TrackerInv, vars, build, OpenRowBelowBound,
      TrackedRowIsEligible, OneRowAtAth

-----------------------------------------------------------------------------
(* The theorems.                                                           *)

\* The inductive invariant of a bank's tracker, for MOAT, PAC and MOPAC.
THEOREM TrackerInvariant == Spec => []TrackerInv
<1>1. TrackerInv /\ [Next]_vars => TrackerInv'
  BY ActivateStep, PrechargeStep, RowpressStep, RefreshStep, RFMStep, Unchanged
     DEF Next
<1> QED BY <1>1, Initially, PTL DEF Spec

\* The tracked row's counter is at the eligibility threshold, although refreshes
\* clear counters, mitigations forget rows and MOPAC flushes counters late.
THEOREM Tracked == Spec => []TrackedRowIsEligible
<1>1. TrackerInv => TrackedRowIsEligible
  BY DEF TrackerInv
<1> QED BY <1>1, TrackerInvariant, PTL

\* With one tracked row per bank no counter of MOAT or PAC passes moat_ath, for
\* every number of rows and every threshold, if an alert stops activations.
THEOREM WithinAth == Spec => []RowsWithinAth
<1>1. TrackerInv => RowsWithinAth
  <2>1. \A r \in Row : TrackerInv => trk.prac[r] \in Nat
    BY DEF TrackerInv, TypeOK
  <2> QED BY <2>1, ConstantsAreNats DEF TrackerInv, OneRowAtAth, RowsWithinAth
<1> QED BY <1>1, TrackerInvariant, PTL

\* An activation that was counted or sampled is in the row's counter or in
\* MOPAC's buffer until the row is refreshed or mitigated, whatever the size of
\* the buffer and the number of updates on an alert or a refresh.
THEOREM NoCountLost == Spec => []CountsNeverLost
<1>1. TrackerInv => CountsNeverLost
  BY DEF TrackerInv
<1> QED BY <1>1, TrackerInvariant, PTL
=============================================================================

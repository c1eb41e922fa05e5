------------------------- MODULE PathAndCubeProofs --------------------------
(***************************************************************************)
(* Proofs about the path of an address, for every size: the translation of *)
(* the page allocator is injective; under the four mappings of the         *)
(* simulator's own memory every row exists and holds as many lines as fit; *)
(* and under the field orders of the configuration files distinct lines    *)
(* have distinct cells.  The lemmas on induction and on division also      *)
(* serve the last part, about the Hybrid Memory Cube: every packet that    *)
(* comes out of a vault finds its response.                                *)
(***************************************************************************)
EXTENDS Path, HMC, FiniteSetTheorems, FunctionTheorems, SequenceTheorems, TLAPS

-----------------------------------------------------------------------------
(* The page allocator.                                                     *)

\* A number is determined by its multiple of m and its remainder, the shape of
\* both page-table keys and physical line addresses.
LEMMA DigitsUnique ==
    ASSUME NEW m \in Nat \ {0},
           NEW a \in Nat, NEW b \in Nat, NEW i \in 0 .. m - 1, NEW j \in 0 .. m - 1,
           a * m + i = b * m + j
    PROVE  a = b /\ i = j
<1>1. CASE a = b
  BY <1>1
<1>2. CASE a < b
  <2>1. PICK d \in Nat : b = a + 1 + d
    <3>1. b - a - 1 \in Nat /\ b = a + 1 + (b - a - 1)
      BY <1>2
    <3>2. QED
      BY <3>1
  <2>2. b * m = a * m + m + d * m
    BY <2>1
  <2>3. d * m \in Nat /\ a * m \in Nat
    OBVIOUS
  <2>4. QED
    BY <2>2, <2>3
<1>3. CASE b < a
  <2>1. PICK d \in Nat : a = b + 1 + d
    <3>1. a - b - 1 \in Nat /\ a = b + 1 + (a - b - 1)
      BY <1>3
    <3>2. QED
      BY <3>1
  <2>2. a * m = b * m + m + d * m
    BY <2>1
  <2>3. d * m \in Nat /\ b * m \in Nat
    OBVIOUS
  <2>4. QED
    BY <2>2, <2>3
<1>4. QED
  BY <1>1, <1>2, <1>3

\* A line address is its page number and its place in the page.
LEMMA SplitAddress ==
    ASSUME NEW va \in Nat
    PROVE  /\ VpnOf(va) \in Nat
           /\ LineId(va) \in 0 .. LinesInPage - 1
           /\ va = LinesInPage * VpnOf(va) + LineId(va)
<1>1. LinesInPage \in Int /\ LinesInPage > 0
  BY OSConstants
<1>2. VpnOf(va) \in Nat /\ LineId(va) \in 0 .. LinesInPage - 1
  BY <1>1 DEF VpnOf, LineId
<1>3. \A m, v \in Int : m > 0 => v = m * (v \div m) + (v % m)
  BY Z3T(30)
<1>4. va = LinesInPage * VpnOf(va) + LineId(va)
  BY <1>1, <1>3 DEF VpnOf, LineId
<1>5. QED
  BY <1>1, <1>2, <1>4

\* os_new reserves frame 0 and maps nothing.
LEMMA InitEstablishes == Init => OSInv
<1> SUFFICES ASSUME Init PROVE OSInv
  OBVIOUS
<1>1. 0 \in Pfn
  BY OSConstants DEF Pfn
<1>2. \A k \in Key : pt[k] = NoPage
  BY DEF Init
<1>3. TypeOK
  BY <1>1 DEF Init, TypeOK
<1>4. QED
  BY <1>2, <1>3 DEF Init, OSInv

\* A new page gets a frame that no page has.
LEMMA NextKeeps == OSInv /\ [Next]_vars => OSInv'
<1> SUFFICES ASSUME OSInv, [Next]_vars PROVE OSInv'
  OBVIOUS
<1>1. CASE UNCHANGED vars
  BY <1>1 DEF vars, OSInv, TypeOK
<1>2. CASE Next
  <2>1. PICK t \in Tid, va \in VaLine : os_vpn_to_pfn(t, VpnOf(va))
    BY <1>2 DEF Next
  <2> DEFINE k == TidVpn(t, VpnOf(va))
  <2>2. k \in Key
    BY DEF Key
  <2>3. CASE Die
    BY <2>3 DEF Die, OSInv, TypeOK
  <2>4. CASE \E victim \in Pfn \ ipt :
               /\ ipt' = ipt \cup {victim}
               /\ pt' = [pt EXCEPT ![k] = victim]
               /\ missCount' = missCount + 1
               /\ UNCHANGED died
    <3>1. PICK victim \in Pfn \ ipt :
               /\ ipt' = ipt \cup {victim}
               /\ pt' = [pt EXCEPT ![k] = victim]
               /\ missCount' = missCount + 1
               /\ UNCHANGED died
      BY <2>4
    <3> HIDE DEF k
    <3>2. TypeOK'
      BY <3>1, <2>2 DEF OSInv, TypeOK
    <3>3. \A j \in Key : pt'[j] = IF j = k THEN victim ELSE pt[j]
      BY <3>1 DEF OSInv, TypeOK
    <3>4. victim \notin ipt /\ victim # 0
      BY <3>1 DEF OSInv
    <3>5. QED
      BY <3>1, <3>2, <3>3, <3>4 DEF OSInv, TypeOK
  <2>5. QED
    BY <2>1, <2>3, <2>4 DEF os_vpn_to_pfn, os_get_victim_from_ipt
<1>3. QED
  BY <1>1, <1>2

\* The page table stays injective and keeps clear of frame 0.
THEOREM OSInvariant == Spec => []OSInv
BY InitEstablishes, NextKeeps, PTL DEF Spec

\* Distinct keys have distinct frames, and a line address is a frame and an offset.
LEMMA InjectiveFromInv == OSInv => TranslationInjective
<1> SUFFICES ASSUME OSInv, NEW t \in Tid, NEW u \in Tid,
                    NEW va \in VaLine, NEW vb \in VaLine,
                    Mapped(t, va), Mapped(u, vb),
                    os_v2p_lineaddr(t, va) = os_v2p_lineaddr(u, vb)
             PROVE  t = u /\ va = vb
  BY DEF TranslationInjective
<1> DEFINE ka == TidVpn(t, VpnOf(va))
           kb == TidVpn(u, VpnOf(vb))
<1>1. va \in Nat /\ vb \in Nat /\ t \in Nat /\ u \in Nat
  BY OSConstants DEF Tid
<1>2. /\ VpnOf(va) \in Nat /\ LineId(va) \in 0 .. LinesInPage - 1
      /\ va = LinesInPage * VpnOf(va) + LineId(va)
  BY <1>1, SplitAddress
<1>3. /\ VpnOf(vb) \in Nat /\ LineId(vb) \in 0 .. LinesInPage - 1
      /\ vb = LinesInPage * VpnOf(vb) + LineId(vb)
  BY <1>1, SplitAddress
<1>4. ka \in Key /\ kb \in Key
  BY DEF Key
<1>5. pt[ka] \in Nat /\ pt[kb] \in Nat /\ pt[ka] # NoPage /\ pt[kb] # NoPage
  BY <1>4 DEF OSInv, TypeOK, Mapped, Pfn
<1>6. pt[ka] = pt[kb] /\ LineId(va) = LineId(vb)
  <2>1. pt[ka] * LinesInPage + LineId(va) = pt[kb] * LinesInPage + LineId(vb)
    BY DEF os_v2p_lineaddr
  <2>2. LinesInPage \in Nat \ {0}
    BY OSConstants
  <2> HIDE DEF ka, kb
  <2>3. PICK p \in Nat, q \in Nat : p = pt[ka] /\ q = pt[kb]
    BY <1>5
  <2>4. PICK i \in 0 .. LinesInPage - 1, j \in 0 .. LinesInPage - 1 :
           i = LineId(va) /\ j = LineId(vb)
    BY <1>2, <1>3
  <2>5. p * LinesInPage + i = q * LinesInPage + j
    BY <2>1, <2>3, <2>4, Zenon
  <2>6. p = q /\ i = j
    BY <2>2, <2>5, DigitsUnique
  <2>7. QED
    BY <2>3, <2>4, <2>6
<1>7. ka = kb
  BY <1>4, <1>5, <1>6 DEF OSInv
<1>8. t = u /\ VpnOf(va) = VpnOf(vb)
  <2>1. /\ VpnOf(va) \in 0 .. TidShift - 1
        /\ VpnOf(vb) \in 0 .. TidShift - 1
    BY <1>2, <1>3, OSConstants DEF Mapped
  <2>2. t * TidShift + VpnOf(va) = u * TidShift + VpnOf(vb)
    BY <1>7 DEF TidVpn
  <2>3. QED
    BY <2>1, <2>2, <1>1, DigitsUnique, OSConstants
<1>9. QED
  BY <1>2, <1>3, <1>6, <1>8

\* No two threads, and no two virtual lines, share a physical line.
THEOREM Injective == Spec => []TranslationInjective
BY OSInvariant, InjectiveFromInv, PTL

\* Only frame 0 contains line 0.
LEMMA NonZeroFromInv == OSInv => LineZeroUnused
<1> SUFFICES ASSUME OSInv, NEW t \in Tid, NEW va \in VaLine, Mapped(t, va)
             PROVE  os_v2p_lineaddr(t, va) # 0
  BY DEF LineZeroUnused
<1> DEFINE k == TidVpn(t, VpnOf(va))
<1>1. va \in Nat
  BY OSConstants
<1>2. LineId(va) \in 0 .. LinesInPage - 1
  BY <1>1, SplitAddress
<1>3. k \in Key
  BY DEF Key
<1>4. pt[k] \in Nat /\ pt[k] # 0
  BY <1>3 DEF OSInv, TypeOK, Mapped, Pfn
<1>5. pt[k] * LinesInPage # 0
  <2>1. LinesInPage \in Nat /\ LinesInPage # 0
    BY OSConstants
  <2>2. PICK d \in Nat : pt[k] = 1 + d
    <3>1. pt[k] - 1 \in Nat /\ pt[k] = 1 + (pt[k] - 1)
      BY <1>4
    <3>2. QED
      BY <3>1
  <2>3. pt[k] * LinesInPage = LinesInPage + d * LinesInPage
    BY <2>1, <2>2
  <2>4. d * LinesInPage \in Nat
    BY <2>1
  <2>5. QED
    BY <2>1, <2>3, <2>4
<1>6. pt[k] * LinesInPage \in Nat
  BY <1>4, OSConstants
<1>7. QED
  BY <1>2, <1>5, <1>6, OSConstants DEF os_v2p_lineaddr

\* Line 0 stands for "no write-back" without ambiguity.
THEOREM LineZero == Spec => []LineZeroUnused
BY OSInvariant, NonZeroFromInv, PTL

\* The allocator of the path is the allocator: what is proved of Spec holds of PathSpec.
LEMMA PathAllocates == PathSpec => Spec
<1>1. PathInit => Init
  BY DEF PathInit
<1>2. [PathNext]_<<vars, mapping>> => [Next]_vars
  BY DEF PathNext
<1> QED BY <1>1, <1>2, PTL DEF PathSpec, Spec

-----------------------------------------------------------------------------
(* The mappings of the simulator's own memory.                             *)

\* Division with remainder.
LEMMA QuotientRemainder ==
    ASSUME NEW m \in Nat \ {0}, NEW v \in Nat
    PROVE  v \div m \in Nat /\ v % m \in 0 .. m - 1 /\ v = (v \div m) * m + (v % m)
<1>1. \A n, w \in Int : n > 0 => w = n * (w \div n) + (w % n)
  BY Z3T(30)
<1>2. v = m * (v \div m) + (v % m)
  BY <1>1
<1>3. v \div m \in Nat /\ v % m \in 0 .. m - 1
  OBVIOUS
<1> QED BY <1>2, <1>3

\* a * m + i is below r * m just when its higher digit a is below r.
LEMMA Below ==
    ASSUME NEW m \in Nat \ {0}, NEW r \in Nat, NEW a \in Nat, NEW i \in 0 .. m - 1
    PROVE  a * m + i \in Nat /\ r * m \in Nat /\ (a * m + i < r * m <=> a < r)
<1>1. a * m \in Nat /\ r * m \in Nat
  OBVIOUS
<1>2. ASSUME a < r PROVE a * m + i < r * m
  <2>1. PICK d \in Nat : r = a + 1 + d
    <3>1. r - a - 1 \in Nat /\ r = a + 1 + (r - a - 1)
      BY <1>2
    <3> QED BY <3>1
  <2>2. r * m = a * m + m + d * m
    BY <2>1
  <2>3. d * m \in Nat
    OBVIOUS
  <2> QED BY <1>1, <2>2, <2>3
<1>3. ASSUME ~(a < r) PROVE ~(a * m + i < r * m)
  <2>1. PICK d \in Nat : a = r + d
    <3>1. a - r \in Nat /\ a = r + (a - r)
      BY <1>3
    <3> QED BY <3>1
  <2>2. a * m = r * m + d * m
    BY <2>1
  <2>3. d * m \in Nat
    OBVIOUS
  <2> QED BY <1>1, <2>2, <2>3
<1> QED BY <1>1, <1>2, <1>3

\* One digit of base m below numbers that are less than r.
LEMMA OneDigit ==
    ASSUME NEW m \in Nat \ {0}, NEW r \in Nat \ {0}
    PROVE  /\ r * m \in Nat \ {0}
           /\ \A l \in 0 .. r * m - 1 : l \div m \in 0 .. r - 1 /\ l % m \in 0 .. m - 1
           /\ \A k, l \in Nat : k \div m = l \div m /\ k % m = l % m => k = l
           /\ \A a \in 0 .. r - 1, i \in 0 .. m - 1 :
                 \E l \in 0 .. r * m - 1 : l \div m = a /\ l % m = i
<1>1. \A a \in Nat, i \in 0 .. m - 1 :
         a * m + i \in Nat /\ (a * m + i < r * m <=> a < r)
  BY Below
<1>2. r * m \in Nat \ {0}
  <2>1. 0 * m + 0 < r * m
    BY <1>1
  <2> QED BY <2>1
<1>3. ASSUME NEW l \in 0 .. r * m - 1
      PROVE  l \div m \in 0 .. r - 1 /\ l % m \in 0 .. m - 1
  <2> DEFINE a == l \div m
             i == l % m
  <2>1. a \in Nat /\ i \in 0 .. m - 1 /\ l = a * m + i
    BY QuotientRemainder
  <2>2. l < r * m
    BY <1>2
  <2> HIDE DEF a, i
  <2>3. a < r
    BY <1>1, <2>1, <2>2
  <2>4. a \in 0 .. r - 1
    BY <2>1, <2>3
  <2> QED BY <2>1, <2>4 DEF a, i
<1>4. ASSUME NEW k \in Nat, NEW l \in Nat, k \div m = l \div m, k % m = l % m
      PROVE  k = l
  <2> DEFINE a == k \div m
             i == k % m
             b == l \div m
             j == l % m
  <2>1. k = a * m + i /\ l = b * m + j
    BY QuotientRemainder
  <2>2. a = b /\ i = j
    BY <1>4
  <2> HIDE DEF a, b, i, j
  <2> QED BY <2>1, <2>2
<1>5. ASSUME NEW a \in 0 .. r - 1, NEW i \in 0 .. m - 1
      PROVE  \E l \in 0 .. r * m - 1 : l \div m = a /\ l % m = i
  <2>1. PICK l \in Nat : l = a * m + i /\ l < r * m
    BY <1>1
  <2> DEFINE b == l \div m
             j == l % m
  <2>2. b \in Nat /\ j \in 0 .. m - 1 /\ l = b * m + j
    BY QuotientRemainder
  <2> HIDE DEF b, j
  <2>3. b = a /\ j = i
    BY <2>1, <2>2, DigitsUnique
  <2>4. l \in 0 .. r * m - 1
    BY <1>2, <2>1
  <2> QED BY <2>3, <2>4 DEF b, j
<1> QED BY <1>2, <1>3, <1>4, <1>5

\* The digits of the numbers below N to the bases m1 to m4 are in range; they tell
\* which number it is; and all combinations of digits occur.
Digit1(l, m1) == l % m1
Digit2(l, m1, m2) == (l \div m1) % m2
Digit3(l, m1, m2, m3) == ((l \div m1) \div m2) % m3
Digit4(l, m1, m2, m3, m4) == (((l \div m1) \div m2) \div m3) % m4
Digit5(l, m1, m2, m3, m4) == (((l \div m1) \div m2) \div m3) \div m4

DigitsInRange(N, m1, m2, m3, m4, r) ==
    \A l \in 0 .. N - 1 :
       /\ Digit1(l, m1) \in 0 .. m1 - 1
       /\ Digit2(l, m1, m2) \in 0 .. m2 - 1
       /\ Digit3(l, m1, m2, m3) \in 0 .. m3 - 1
       /\ Digit4(l, m1, m2, m3, m4) \in 0 .. m4 - 1
       /\ Digit5(l, m1, m2, m3, m4) \in 0 .. r - 1
DigitsTell(N, m1, m2, m3, m4) ==
    \A k, l \in 0 .. N - 1 :
       /\ Digit1(k, m1) = Digit1(l, m1)
       /\ Digit2(k, m1, m2) = Digit2(l, m1, m2)
       /\ Digit3(k, m1, m2, m3) = Digit3(l, m1, m2, m3)
       /\ Digit4(k, m1, m2, m3, m4) = Digit4(l, m1, m2, m3, m4)
       /\ Digit5(k, m1, m2, m3, m4) = Digit5(l, m1, m2, m3, m4)
       => k = l
DigitsOccur(N, m1, m2, m3, m4, r) ==
    \A d1 \in 0 .. m1 - 1, d2 \in 0 .. m2 - 1, d3 \in 0 .. m3 - 1,
       d4 \in 0 .. m4 - 1, d5 \in 0 .. r - 1 :
       \E l \in 0 .. N - 1 :
          /\ Digit1(l, m1) = d1
          /\ Digit2(l, m1, m2) = d2
          /\ Digit3(l, m1, m2, m3) = d3
          /\ Digit4(l, m1, m2, m3, m4) = d4
          /\ Digit5(l, m1, m2, m3, m4) = d5

\* The three facts for numbers of five digits, one digit at a time.
LEMMA FiveDigits ==
    ASSUME NEW m1 \in Nat \ {0}, NEW m2 \in Nat \ {0}, NEW m3 \in Nat \ {0},
           NEW m4 \in Nat \ {0}, NEW r \in Nat \ {0},
           NEW N \in Nat, N = (((r * m4) * m3) * m2) * m1
    PROVE  /\ DigitsInRange(N, m1, m2, m3, m4, r)
           /\ DigitsTell(N, m1, m2, m3, m4)
           /\ DigitsOccur(N, m1, m2, m3, m4, r)
<1> DEFINE r4 == r * m4
           r3 == r4 * m3
           r2 == r3 * m2
<1>1. /\ r4 \in Nat \ {0}
      /\ \A l \in 0 .. r4 - 1 : l \div m4 \in 0 .. r - 1 /\ l % m4 \in 0 .. m4 - 1
      /\ \A k, l \in Nat : k \div m4 = l \div m4 /\ k % m4 = l % m4 => k = l
      /\ \A a \in 0 .. r - 1, i \in 0 .. m4 - 1 :
            \E l \in 0 .. r4 - 1 : l \div m4 = a /\ l % m4 = i
  BY OneDigit
<1> HIDE DEF r4
<1>2. /\ r3 \in Nat \ {0}
      /\ \A l \in 0 .. r3 - 1 : l \div m3 \in 0 .. r4 - 1 /\ l % m3 \in 0 .. m3 - 1
      /\ \A k, l \in Nat : k \div m3 = l \div m3 /\ k % m3 = l % m3 => k = l
      /\ \A a \in 0 .. r4 - 1, i \in 0 .. m3 - 1 :
            \E l \in 0 .. r3 - 1 : l \div m3 = a /\ l % m3 = i
  BY <1>1, OneDigit
<1> HIDE DEF r3
<1>3. /\ r2 \in Nat \ {0}
      /\ \A l \in 0 .. r2 - 1 : l \div m2 \in 0 .. r3 - 1 /\ l % m2 \in 0 .. m2 - 1
      /\ \A k, l \in Nat : k \div m2 = l \div m2 /\ k % m2 = l % m2 => k = l
      /\ \A a \in 0 .. r3 - 1, i \in 0 .. m2 - 1 :
            \E l \in 0 .. r2 - 1 : l \div m2 = a /\ l % m2 = i
  BY <1>2, OneDigit
<1> HIDE DEF r2
<1> DEFINE r1 == r2 * m1
<1>4. N = r1
  BY DEF r2, r3, r4
<1>5. /\ N \in Nat \ {0}
      /\ \A l \in 0 .. N - 1 : l \div m1 \in 0 .. r2 - 1 /\ l % m1 \in 0 .. m1 - 1
      /\ \A k, l \in Nat : k \div m1 = l \div m1 /\ k % m1 = l % m1 => k = l
      /\ \A a \in 0 .. r2 - 1, i \in 0 .. m1 - 1 :
            \E l \in 0 .. N - 1 : l \div m1 = a /\ l % m1 = i
  <2>1. /\ r1 \in Nat \ {0}
        /\ \A l \in 0 .. r1 - 1 : l \div m1 \in 0 .. r2 - 1 /\ l % m1 \in 0 .. m1 - 1
        /\ \A k, l \in Nat : k \div m1 = l \div m1 /\ k % m1 = l % m1 => k = l
        /\ \A a \in 0 .. r2 - 1, i \in 0 .. m1 - 1 :
              \E l \in 0 .. r1 - 1 : l \div m1 = a /\ l % m1 = i
    BY <1>3, OneDigit
  <2> HIDE DEF r1
  <2> QED BY <1>4, <2>1
<1> DEFINE q1(l) == l \div m1
           q2(l) == q1(l) \div m2
           q3(l) == q2(l) \div m3
           q4(l) == q3(l) \div m4
<1>6. ASSUME NEW l \in 0 .. N - 1
      PROVE  /\ q1(l) \in 0 .. r2 - 1 /\ l % m1 \in 0 .. m1 - 1
             /\ q2(l) \in 0 .. r3 - 1 /\ q1(l) % m2 \in 0 .. m2 - 1
             /\ q3(l) \in 0 .. r4 - 1 /\ q2(l) % m3 \in 0 .. m3 - 1
             /\ q4(l) \in 0 .. r - 1 /\ q3(l) % m4 \in 0 .. m4 - 1
  <2>1. q1(l) \in 0 .. r2 - 1 /\ l % m1 \in 0 .. m1 - 1
    BY <1>5
  <2> HIDE DEF q1
  <2>2. q2(l) \in 0 .. r3 - 1 /\ q1(l) % m2 \in 0 .. m2 - 1
    BY <1>3, <2>1
  <2> HIDE DEF q2
  <2>3. q3(l) \in 0 .. r4 - 1 /\ q2(l) % m3 \in 0 .. m3 - 1
    BY <1>2, <2>2
  <2> HIDE DEF q3
  <2>4. q4(l) \in 0 .. r - 1 /\ q3(l) % m4 \in 0 .. m4 - 1
    BY <1>1, <2>3
  <2> HIDE DEF q4
  <2> QED BY <2>1, <2>2, <2>3, <2>4
<1>7. ASSUME NEW k \in 0 .. N - 1, NEW l \in 0 .. N - 1,
             k % m1 = l % m1, q1(k) % m2 = q1(l) % m2, q2(k) % m3 = q2(l) % m3,
             q3(k) % m4 = q3(l) % m4, q4(k) = q4(l)
      PROVE  k = l
  <2>1. /\ q1(k) \in Nat /\ q2(k) \in Nat /\ q3(k) \in Nat
        /\ q1(l) \in Nat /\ q2(l) \in Nat /\ q3(l) \in Nat
    <3> HIDE DEF q1, q2, q3, q4
    <3> QED BY <1>6
  <2>2. q3(k) = q3(l)
    <3> HIDE DEF q1, q2, q3
    <3> QED BY <1>1, <1>7, <2>1
  <2>3. q2(k) = q2(l)
    <3>1. q2(k) \div m3 = q2(l) \div m3
      BY <2>2
    <3> HIDE DEF q1, q2, q3, q4
    <3> QED BY <1>2, <1>7, <2>1, <3>1
  <2>4. q1(k) = q1(l)
    <3>1. q1(k) \div m2 = q1(l) \div m2
      BY <2>3
    <3> HIDE DEF q1, q2, q3, q4
    <3> QED BY <1>3, <1>7, <2>1, <3>1
  <2>5. k \div m1 = l \div m1
    BY <2>4
  <2> HIDE DEF q1, q2, q3, q4
  <2> QED BY <1>5, <1>7, <2>5
<1>9. \A l \in 0 .. N - 1 :
         /\ l % m1 \in 0 .. m1 - 1 /\ q1(l) % m2 \in 0 .. m2 - 1
         /\ q2(l) % m3 \in 0 .. m3 - 1 /\ q3(l) % m4 \in 0 .. m4 - 1
         /\ q4(l) \in 0 .. r - 1
  <2> HIDE DEF q1, q2, q3, q4
  <2> QED BY <1>6
<1>10. \A k, l \in 0 .. N - 1 :
          /\ k % m1 = l % m1 /\ q1(k) % m2 = q1(l) % m2 /\ q2(k) % m3 = q2(l) % m3
          /\ q3(k) % m4 = q3(l) % m4 /\ q4(k) = q4(l)
          => k = l
  <2> HIDE DEF q1, q2, q3, q4
  <2> QED BY <1>7
<1>12. DigitsInRange(N, m1, m2, m3, m4, r)
  BY <1>9 DEF DigitsInRange, Digit1, Digit2, Digit3, Digit4, Digit5
<1>13. DigitsTell(N, m1, m2, m3, m4)
  BY <1>10 DEF DigitsTell, Digit1, Digit2, Digit3, Digit4, Digit5
<1>14. DigitsOccur(N, m1, m2, m3, m4, r)
  <2> SUFFICES ASSUME NEW d1 \in 0 .. m1 - 1, NEW d2 \in 0 .. m2 - 1,
                      NEW d3 \in 0 .. m3 - 1, NEW d4 \in 0 .. m4 - 1,
                      NEW d5 \in 0 .. r - 1
               PROVE  \E l \in 0 .. N - 1 :
                         /\ Digit1(l, m1) = d1
                         /\ Digit2(l, m1, m2) = d2
                         /\ Digit3(l, m1, m2, m3) = d3
                         /\ Digit4(l, m1, m2, m3, m4) = d4
                         /\ Digit5(l, m1, m2, m3, m4) = d5
    BY DEF DigitsOccur
  <2>1. PICK k4 \in 0 .. r4 - 1 : k4 \div m4 = d5 /\ k4 % m4 = d4
    BY <1>1
  <2>2. PICK k3 \in 0 .. r3 - 1 : k3 \div m3 = k4 /\ k3 % m3 = d3
    BY <1>2
  <2>3. PICK k2 \in 0 .. r2 - 1 : k2 \div m2 = k3 /\ k2 % m2 = d2
    BY <1>3
  <2>4. PICK k1 \in 0 .. N - 1 : k1 \div m1 = k2 /\ k1 % m1 = d1
    BY <1>5
  <2>5. /\ Digit1(k1, m1) = d1
        /\ Digit2(k1, m1, m2) = d2
        /\ Digit3(k1, m1, m2, m3) = d3
        /\ Digit4(k1, m1, m2, m3, m4) = d4
        /\ Digit5(k1, m1, m2, m3, m4) = d5
    BY <2>1, <2>2, <2>3, <2>4 DEF Digit1, Digit2, Digit3, Digit4, Digit5
  <2> QED BY <2>4, <2>5
<1> QED BY <1>12, <1>13, <1>14

\* If a number is told by its row p and by its place s in the row, and every place
\* of X is taken, a row has as many numbers as X has elements.
RowOfNumber(D, p, l) == {k \in D : p[k] = p[l]}
Told(D, p, s) == \A k, l \in D : p[k] = p[l] /\ s[k] = s[l] => k = l
Taken(D, p, s, X) == \A l \in D, x \in X : \E k \in D : p[k] = p[l] /\ s[k] = x
RowsAndPlaces(D, p, s, X) ==
    IsFiniteSet(X) /\ s \in [D -> X] /\ Told(D, p, s) /\ Taken(D, p, s, X)
RowsHold(D, p, n) == \A l \in D : Cardinality(RowOfNumber(D, p, l)) = n

\* s is a bijection from the row of l onto X.
LEMMA RowSize ==
    ASSUME NEW D, NEW X, NEW p, NEW s, RowsAndPlaces(D, p, s, X)
    PROVE  RowsHold(D, p, Cardinality(X))
<1> SUFFICES ASSUME NEW l \in D
             PROVE  Cardinality(RowOfNumber(D, p, l)) = Cardinality(X)
  BY DEF RowsHold
<1> DEFINE K == {k \in D : p[k] = p[l]}
           f == [k \in K |-> s[k]]
<1>1. f \in [K -> X] /\ IsFiniteSet(X)
  BY DEF RowsAndPlaces
<1>2. \A j, k \in K : f[j] = f[k] => j = k
  BY DEF RowsAndPlaces, Told
<1>3. \A x \in X : \E k \in K : f[k] = x
  BY DEF RowsAndPlaces, Taken
<1> HIDE DEF K, f
<1>4. f \in Bijection(K, X)
  BY <1>1, <1>2, <1>3, Fun_IsBij
<1>5. ExistsBijection(X, K)
  <2>1. ExistsBijection(K, X)
    BY <1>4 DEF ExistsBijection
  <2> QED BY <2>1, Fun_ExistsBijSymmetric
<1>6. Cardinality(K) = Cardinality(X)
  BY <1>1, <1>5, FS_Bijection
<1> QED BY <1>6 DEF K, RowOfNumber

\* The places of a row, as pairs of digits.
LEMMA PairsCount ==
    ASSUME NEW m \in Nat, NEW n \in Nat
    PROVE  /\ IsFiniteSet((0 .. m - 1) \X (0 .. n - 1))
           /\ Cardinality((0 .. m - 1) \X (0 .. n - 1)) = m * n
<1>1. 0 \in Int /\ m - 1 \in Int /\ n - 1 \in Int
  OBVIOUS
<1>2. /\ IsFiniteSet(0 .. m - 1)
      /\ Cardinality(0 .. m - 1) = IF 0 > m - 1 THEN 0 ELSE (m - 1) - 0 + 1
  BY <1>1, FS_Interval
<1>3. /\ IsFiniteSet(0 .. n - 1)
      /\ Cardinality(0 .. n - 1) = IF 0 > n - 1 THEN 0 ELSE (n - 1) - 0 + 1
  BY <1>1, FS_Interval
<1>4. Cardinality(0 .. m - 1) = m /\ Cardinality(0 .. n - 1) = n
  BY <1>2, <1>3
<1>5. /\ IsFiniteSet((0 .. m - 1) \X (0 .. n - 1))
      /\ Cardinality((0 .. m - 1) \X (0 .. n - 1))
            = Cardinality(0 .. m - 1) * Cardinality(0 .. n - 1)
  BY <1>2, <1>3, FS_Product
<1> QED BY <1>4, <1>5

\* The same with the row given by the digits ch, ba and ro and the place by hi and lo.
AllTold(D, ch, ba, ro, hi, lo) ==
    \A k, l \in D : /\ ch[k] = ch[l] /\ ba[k] = ba[l] /\ ro[k] = ro[l]
                    /\ hi[k] = hi[l] /\ lo[k] = lo[l]
                    => k = l
AllTaken(D, C, B, R, A, E, ch, ba, ro, hi, lo) ==
    \A c \in C, b \in B, r \in R, x \in A, y \in E :
       \E l \in D : ch[l] = c /\ ba[l] = b /\ ro[l] = r /\ hi[l] = x /\ lo[l] = y
RowOfDigits(D, ch, ba, ro, l) ==
    {k \in D : ch[k] = ch[l] /\ ba[k] = ba[l] /\ ro[k] = ro[l]}

AllDigits(D, C, B, R, A, E, ch, ba, ro, hi, lo) ==
    /\ IsFiniteSet(A \X E)
    /\ ch \in [D -> C] /\ ba \in [D -> B] /\ ro \in [D -> R]
    /\ hi \in [D -> A] /\ lo \in [D -> E]
    /\ AllTold(D, ch, ba, ro, hi, lo)
    /\ AllTaken(D, C, B, R, A, E, ch, ba, ro, hi, lo)
RowsOfDigitsHold(D, ch, ba, ro, n) ==
    \A l \in D : Cardinality(RowOfDigits(D, ch, ba, ro, l)) = n

\* The digits ch, ba and ro together are the row, hi and lo together the place.
LEMMA DigitsFillRows ==
    ASSUME NEW D, NEW C, NEW B, NEW R, NEW A, NEW E,
           NEW ch, NEW ba, NEW ro, NEW hi, NEW lo,
           AllDigits(D, C, B, R, A, E, ch, ba, ro, hi, lo)
    PROVE  RowsOfDigitsHold(D, ch, ba, ro, Cardinality(A \X E))
<1> DEFINE X == A \X E
           p == [k \in D |-> <<ch[k], ba[k], ro[k]>>]
           s == [k \in D |-> <<hi[k], lo[k]>>]
<1> USE DEF AllDigits
<1>1. \A k \in D : p[k] = <<ch[k], ba[k], ro[k]>> /\ s[k] = <<hi[k], lo[k]>>
  OBVIOUS
<1>2. s \in [D -> X]
  OBVIOUS
<1> HIDE DEF p, s
<1>3. ASSUME NEW k \in D, NEW j \in D
      PROVE  /\ p[k] = p[j] <=> ch[k] = ch[j] /\ ba[k] = ba[j] /\ ro[k] = ro[j]
             /\ s[k] = s[j] <=> hi[k] = hi[j] /\ lo[k] = lo[j]
  BY <1>1
<1>4. Told(D, p, s)
  <2> SUFFICES ASSUME NEW k \in D, NEW j \in D, p[k] = p[j], s[k] = s[j]
               PROVE  k = j
    BY DEF Told
  <2>1. /\ ch[k] = ch[j] /\ ba[k] = ba[j] /\ ro[k] = ro[j]
        /\ hi[k] = hi[j] /\ lo[k] = lo[j]
    BY <1>3
  <2> QED BY <2>1 DEF AllTold
<1>5. Taken(D, p, s, X)
  <2> SUFFICES ASSUME NEW j \in D, NEW t \in X
               PROVE  \E k \in D : p[k] = p[j] /\ s[k] = t
    BY DEF Taken
  <2>1. PICK x \in A, y \in E : t = <<x, y>>
    OBVIOUS
  <2>2. ch[j] \in C /\ ba[j] \in B /\ ro[j] \in R
    OBVIOUS
  <2>3. PICK k \in D : /\ ch[k] = ch[j] /\ ba[k] = ba[j] /\ ro[k] = ro[j]
                       /\ hi[k] = x /\ lo[k] = y
    BY <2>2 DEF AllTaken
  <2>4. p[k] = p[j] /\ s[k] = t
    BY <1>1, <2>1, <2>3
  <2> QED BY <2>4
<1> HIDE DEF X
<1>6. IsFiniteSet(X)
  BY DEF X
<1> SUFFICES ASSUME NEW l \in D
             PROVE  Cardinality(RowOfDigits(D, ch, ba, ro, l)) = Cardinality(X)
  BY DEF RowsOfDigitsHold, X
<1>7. Cardinality(RowOfNumber(D, p, l)) = Cardinality(X)
  <2>1. RowsAndPlaces(D, p, s, X)
    BY <1>2, <1>4, <1>5, <1>6 DEF RowsAndPlaces
  <2>2. RowsHold(D, p, Cardinality(X))
    BY <2>1, RowSize
  <2> QED BY <2>2 DEF RowsHold
<1>8. RowOfDigits(D, ch, ba, ro, l) = RowOfNumber(D, p, l)
  BY <1>3 DEF RowOfDigits, RowOfNumber
<1> QED BY <1>7, <1>8

\* A size that g divides is a multiple of g.
LEMMA Divides ==
    ASSUME NEW n \in Nat \ {0}, NEW g \in Nat \ {0}, n % g = 0
    PROVE  n \div g \in Nat \ {0} /\ (n \div g) * g = n
<1> DEFINE q == n \div g
<1>1. q \in Nat /\ n = q * g + (n % g)
  BY QuotientRemainder
<1> HIDE DEF q
<1>2. n = q * g
  BY <1>1
<1>3. q # 0
  BY <1>2
<1> QED BY <1>1, <1>2, <1>3 DEF q

MemLine == 0 .. LinesInMem - 1

\* The sizes of LegacyMapConstants, one by one.
LEMMA MapSizes ==
    /\ NumChannels \in Nat \ {0} /\ BanksInChannel \in Nat \ {0}
    /\ LinesInRow \in Nat \ {0} /\ RowsInBank \in Nat \ {0} /\ Gang \in Nat \ {0}
    /\ LinesInRow % 2 = 0 /\ LinesInRow % Gang = 0
    /\ LinesInMem \in Nat
<1>1. /\ NumChannels \in Nat \ {0} /\ BanksInChannel \in Nat \ {0}
      /\ LinesInRow \in Nat \ {0} /\ RowsInBank \in Nat \ {0} /\ Gang \in Nat \ {0}
      /\ LinesInRow % 2 = 0 /\ LinesInRow % Gang = 0
  BY LegacyMapConstants
<1> QED BY <1>1 DEF LinesInMem

\* What is wanted of the places at[l] of the lines: they exist, and the row of each
\* has as many lines as fit.
Filled(at, l) ==
    /\ at[l].bank < BanksInChannel /\ at[l].row < RowsInBank
    /\ Cardinality({j \in MemLine : at[j] = at[l]}) = LinesInRow

PlacesOfDigits(ch, ba, ro) ==
    [l \in MemLine |-> [channel |-> ch[l], bank |-> ba[l], row |-> ro[l]]]

MemDigits(m, n, ch, ba, ro, hi, lo) ==
    AllDigits(MemLine, 0 .. NumChannels - 1, 0 .. BanksInChannel - 1,
              0 .. RowsInBank - 1, 0 .. m - 1, 0 .. n - 1, ch, ba, ro, hi, lo)

\* A mapping that reads channel, bank and row off digits, and leaves m * n lines to
\* the other two, fills its rows.
LEMMA FilledFromDigits ==
    ASSUME NEW m \in Nat, NEW n \in Nat, m * n = LinesInRow,
           NEW ch, NEW ba, NEW ro, NEW hi, NEW lo,
           MemDigits(m, n, ch, ba, ro, hi, lo)
    PROVE  \A l \in MemLine : Filled(PlacesOfDigits(ch, ba, ro), l)
<1> DEFINE at == PlacesOfDigits(ch, ba, ro)
<1>1. RowsOfDigitsHold(MemLine, ch, ba, ro, Cardinality((0 .. m - 1) \X (0 .. n - 1)))
  BY DigitsFillRows DEF MemDigits
<1>2. Cardinality((0 .. m - 1) \X (0 .. n - 1)) = LinesInRow
  BY PairsCount
<1>3. \A j \in MemLine : at[j] = [channel |-> ch[j], bank |-> ba[j], row |-> ro[j]]
  BY DEF PlacesOfDigits
<1> HIDE DEF at
<1> SUFFICES ASSUME NEW l \in MemLine PROVE Filled(at, l)
  BY DEF at
<1>4. ASSUME NEW j \in MemLine
      PROVE  at[j] = at[l] <=> ch[j] = ch[l] /\ ba[j] = ba[l] /\ ro[j] = ro[l]
  <2>1. /\ at[j] = [channel |-> ch[j], bank |-> ba[j], row |-> ro[j]]
        /\ at[l] = [channel |-> ch[l], bank |-> ba[l], row |-> ro[l]]
    BY <1>3
  <2> QED BY <2>1
<1>5. {j \in MemLine : at[j] = at[l]} = RowOfDigits(MemLine, ch, ba, ro, l)
  BY <1>4 DEF RowOfDigits
<1>6. Cardinality(RowOfDigits(MemLine, ch, ba, ro, l)) = LinesInRow
  BY <1>1, <1>2 DEF RowsOfDigitsHold
<1>7. ba[l] \in 0 .. BanksInChannel - 1 /\ ro[l] \in 0 .. RowsInBank - 1
  BY DEF MemDigits, AllDigits
<1>8. at[l].bank = ba[l] /\ at[l].row = ro[l]
  <2>1. at[l] = [channel |-> ch[l], bank |-> ba[l], row |-> ro[l]]
    BY <1>3
  <2> QED BY <2>1
<1>9. ba[l] < BanksInChannel /\ ro[l] < RowsInBank
  BY <1>7, MapSizes
<1> QED BY <1>5, <1>6, <1>8, <1>9 DEF Filled

\* Units of g lines that go round the channels and then the banks, k of them to a row.
LEMMA StripedRows ==
    ASSUME NEW g \in Nat \ {0}, NEW k \in Nat \ {0}, k * g = LinesInRow
    PROVE  \A l \in MemLine : Filled([j \in MemLine |-> Striped(j \div g, k)], l)
<1> DEFINE C == NumChannels
           B == BanksInChannel
           R == RowsInBank
           ch == [l \in MemLine |-> Digit2(l, g, C)]
           ba == [l \in MemLine |-> Digit3(l, g, C, B)]
           ro == [l \in MemLine |-> Digit5(l, g, C, B, k)]
           hi == [l \in MemLine |-> Digit4(l, g, C, B, k)]
           lo == [l \in MemLine |-> Digit1(l, g)]
<1>1. /\ DigitsInRange(LinesInMem, g, C, B, k, R) /\ DigitsTell(LinesInMem, g, C, B, k)
      /\ DigitsOccur(LinesInMem, g, C, B, k, R)
  <2>1. LinesInMem = (((R * k) * B) * C) * g
    BY MapSizes DEF LinesInMem
  <2> QED BY <2>1, MapSizes, FiveDigits
<1>2. MemDigits(k, g, ch, ba, ro, hi, lo)
  <2>1. IsFiniteSet((0 .. k - 1) \X (0 .. g - 1))
    BY PairsCount
  <2>2. /\ ch \in [MemLine -> 0 .. C - 1] /\ ba \in [MemLine -> 0 .. B - 1]
        /\ ro \in [MemLine -> 0 .. R - 1]
        /\ hi \in [MemLine -> 0 .. k - 1] /\ lo \in [MemLine -> 0 .. g - 1]
    BY <1>1 DEF DigitsInRange, MemLine
  <2>3. AllTold(MemLine, ch, ba, ro, hi, lo)
    BY <1>1 DEF AllTold, DigitsTell, MemLine
  <2>4. AllTaken(MemLine, 0 .. C - 1, 0 .. B - 1, 0 .. R - 1, 0 .. k - 1, 0 .. g - 1,
                 ch, ba, ro, hi, lo)
    BY <1>1 DEF AllTaken, DigitsOccur, MemLine
  <2> HIDE DEF ch, ba, ro, hi, lo
  <2> QED BY <2>1, <2>2, <2>3, <2>4 DEF MemDigits, AllDigits
<1>3. PlacesOfDigits(ch, ba, ro) = [l \in MemLine |-> Striped(l \div g, k)]
  BY DEF PlacesOfDigits, Striped, Digit2, Digit3, Digit5
<1> HIDE DEF ch, ba, ro, hi, lo
<1>4. \A l \in MemLine : Filled(PlacesOfDigits(ch, ba, ro), l)
  BY <1>2, FilledFromDigits
<1> QED BY <1>3, <1>4

\* Skylake reads the digits to the bases 2, channels, half a row and banks.
LEMMA SkylakeRows == \A l \in MemLine : Filled([j \in MemLine |-> Skylake(j)], l)
<1> DEFINE C == NumChannels
           B == BanksInChannel
           R == RowsInBank
           T == 2
           H == LinesInRow \div T
           ch == [l \in MemLine |-> Digit2(l, T, C)]
           ba == [l \in MemLine |-> Digit4(l, T, C, H, B)]
           ro == [l \in MemLine |-> Digit5(l, T, C, H, B)]
           hi == [l \in MemLine |-> Digit3(l, T, C, H)]
           lo == [l \in MemLine |-> Digit1(l, T)]
<1>1. T \in Nat \ {0} /\ H \in Nat \ {0} /\ H * T = LinesInRow
  BY MapSizes, Divides
<1>2. PlacesOfDigits(ch, ba, ro) = [l \in MemLine |-> Skylake(l)]
  BY DEF PlacesOfDigits, Skylake, Digit2, Digit4, Digit5
<1> HIDE DEF T, H
<1>3. /\ DigitsInRange(LinesInMem, T, C, H, B, R) /\ DigitsTell(LinesInMem, T, C, H, B)
      /\ DigitsOccur(LinesInMem, T, C, H, B, R)
  <2>1. LinesInMem = (((R * B) * H) * C) * T
    BY <1>1, MapSizes DEF LinesInMem
  <2> QED BY <1>1, <2>1, MapSizes, FiveDigits
<1>4. MemDigits(H, T, ch, ba, ro, hi, lo)
  <2>1. IsFiniteSet((0 .. H - 1) \X (0 .. T - 1))
    BY <1>1, PairsCount
  <2>2. /\ ch \in [MemLine -> 0 .. C - 1] /\ ba \in [MemLine -> 0 .. B - 1]
        /\ ro \in [MemLine -> 0 .. R - 1]
        /\ hi \in [MemLine -> 0 .. H - 1] /\ lo \in [MemLine -> 0 .. T - 1]
    BY <1>3 DEF DigitsInRange, MemLine
  <2>3. AllTold(MemLine, ch, ba, ro, hi, lo)
    BY <1>3 DEF AllTold, DigitsTell, MemLine
  <2>4. AllTaken(MemLine, 0 .. C - 1, 0 .. B - 1, 0 .. R - 1, 0 .. H - 1, 0 .. T - 1,
                 ch, ba, ro, hi, lo)
    BY <1>3 DEF AllTaken, DigitsOccur, MemLine
  <2> HIDE DEF ch, ba, ro, hi, lo
  <2> QED BY <2>1, <2>2, <2>3, <2>4 DEF MemDigits, AllDigits
<1> HIDE DEF ch, ba, ro, hi, lo
<1>5. \A l \in MemLine : Filled(PlacesOfDigits(ch, ba, ro), l)
  BY <1>1, <1>4, FilledFromDigits
<1> QED BY <1>2, <1>5

\* Zen reads the digits to the bases channels, 2, banks and half a row.
LEMMA ZenRows == \A l \in MemLine : Filled([j \in MemLine |-> Zen(j)], l)
<1> DEFINE C == NumChannels
           B == BanksInChannel
           R == RowsInBank
           T == 2
           H == LinesInRow \div T
           ch == [l \in MemLine |-> Digit1(l, C)]
           ba == [l \in MemLine |-> Digit3(l, C, T, B)]
           ro == [l \in MemLine |-> Digit5(l, C, T, B, H)]
           hi == [l \in MemLine |-> Digit4(l, C, T, B, H)]
           lo == [l \in MemLine |-> Digit2(l, C, T)]
<1>1. T \in Nat \ {0} /\ H \in Nat \ {0} /\ H * T = LinesInRow
  BY MapSizes, Divides
<1>2. PlacesOfDigits(ch, ba, ro) = [l \in MemLine |-> Zen(l)]
  BY DEF PlacesOfDigits, Zen, Digit1, Digit3, Digit5
<1> HIDE DEF T, H
<1>3. /\ DigitsInRange(LinesInMem, C, T, B, H, R) /\ DigitsTell(LinesInMem, C, T, B, H)
      /\ DigitsOccur(LinesInMem, C, T, B, H, R)
  <2>1. LinesInMem = (((R * H) * B) * T) * C
    BY <1>1, MapSizes DEF LinesInMem
  <2> QED BY <1>1, <2>1, MapSizes, FiveDigits
<1>4. MemDigits(H, T, ch, ba, ro, hi, lo)
  <2>1. IsFiniteSet((0 .. H - 1) \X (0 .. T - 1))
    BY <1>1, PairsCount
  <2>2. /\ ch \in [MemLine -> 0 .. C - 1] /\ ba \in [MemLine -> 0 .. B - 1]
        /\ ro \in [MemLine -> 0 .. R - 1]
        /\ hi \in [MemLine -> 0 .. H - 1] /\ lo \in [MemLine -> 0 .. T - 1]
    BY <1>3 DEF DigitsInRange, MemLine
  <2>3. AllTold(MemLine, ch, ba, ro, hi, lo)
    BY <1>3 DEF AllTold, DigitsTell, MemLine
  <2>4. AllTaken(MemLine, 0 .. C - 1, 0 .. B - 1, 0 .. R - 1, 0 .. H - 1, 0 .. T - 1,
                 ch, ba, ro, hi, lo)
    BY <1>3 DEF AllTaken, DigitsOccur, MemLine
  <2> HIDE DEF ch, ba, ro, hi, lo
  <2> QED BY <2>1, <2>2, <2>3, <2>4 DEF MemDigits, AllDigits
<1> HIDE DEF ch, ba, ro, hi, lo
<1>5. \A l \in MemLine : Filled(PlacesOfDigits(ch, ba, ro), l)
  BY <1>1, <1>4, FilledFromDigits
<1> QED BY <1>2, <1>5

\* All four policies fill the rows.
LEMMA PolicyRows ==
    ASSUME NEW p \in Policies
    PROVE  \A l \in MemLine : Filled([j \in MemLine |-> dram_parseaddr(p, j)], l)
<1>1. CASE p = "COFFEELAKE"
  <2>1. [j \in MemLine |-> dram_parseaddr(p, j)]
           = [j \in MemLine |-> Striped(j \div LinesInRow, 1)]
    BY <1>1 DEF dram_parseaddr
  <2>2. 1 \in Nat \ {0} /\ 1 * LinesInRow = LinesInRow
    BY MapSizes
  <2> QED BY <2>1, <2>2, MapSizes, StripedRows
<1>2. CASE p = "SKYLAKE"
  <2>1. [j \in MemLine |-> dram_parseaddr(p, j)] = [j \in MemLine |-> Skylake(j)]
    BY <1>2 DEF dram_parseaddr
  <2> QED BY <2>1, SkylakeRows
<1>3. CASE p = "MOP"
  <2> DEFINE k == LinesInRow \div Gang
  <2>1. [j \in MemLine |-> dram_parseaddr(p, j)]
           = [j \in MemLine |-> Striped(j \div Gang, k)]
    BY <1>3 DEF dram_parseaddr, Mop
  <2>2. k \in Nat \ {0} /\ k * Gang = LinesInRow
    BY MapSizes, Divides
  <2> HIDE DEF k
  <2> QED BY <2>1, <2>2, MapSizes, StripedRows
<1>4. CASE p = "ZEN"
  <2>1. [j \in MemLine |-> dram_parseaddr(p, j)] = [j \in MemLine |-> Zen(j)]
    BY <1>4 DEF dram_parseaddr
  <2> QED BY <2>1, ZenRows
<1> QED BY <1>1, <1>2, <1>3, <1>4 DEF Policies

\* A translated line is a line of a frame.
LEMMA TranslatedLine ==
    ASSUME OSInv, NEW t \in Tid, NEW va \in VaLine, Mapped(t, va)
    PROVE  /\ os_v2p_lineaddr(t, va) \in Nat /\ NumPages * LinesInPage \in Nat
           /\ os_v2p_lineaddr(t, va) < NumPages * LinesInPage
<1> DEFINE f == pt[TidVpn(t, VpnOf(va))]
           i == LineId(va)
<1>1. TidVpn(t, VpnOf(va)) \in Key
  BY DEF Key
<1>2. f \in Nat /\ f < NumPages
  BY <1>1, OSConstants DEF OSInv, TypeOK, Mapped, Pfn
<1>3. i \in 0 .. LinesInPage - 1 /\ LinesInPage \in Nat \ {0} /\ NumPages \in Nat
  BY SplitAddress, OSConstants
<1>4. os_v2p_lineaddr(t, va) = f * LinesInPage + i
  BY DEF os_v2p_lineaddr
<1> HIDE DEF f, i
<1>5. /\ f * LinesInPage + i \in Nat /\ NumPages * LinesInPage \in Nat
      /\ f * LinesInPage + i < NumPages * LinesInPage
  BY <1>2, <1>3, Below
<1> QED BY <1>4, <1>5

\* A translated line is a line of the memory: the allocator's frames fit into it.
LEMMA TranslatedInMemory ==
    ASSUME OSInv, NEW t \in Tid, NEW va \in VaLine, Mapped(t, va)
    PROVE  os_v2p_lineaddr(t, va) \in MemLine
<1>1. /\ os_v2p_lineaddr(t, va) \in Nat /\ NumPages * LinesInPage \in Nat
      /\ os_v2p_lineaddr(t, va) < NumPages * LinesInPage
  BY TranslatedLine
<1>2. NumPages * LinesInPage <= LinesInMem /\ LinesInMem \in Nat
  BY PathConstants, MapSizes
<1> QED BY <1>1, <1>2 DEF MemLine

\* The invariant of the path: that of the allocator, and a mapping that is one of the
\* configurations' orders or a policy of the simulator's own memory.
PathInv == OSInv /\ mapping \in Orders \cup {<<p>> : p \in Policies}

\* A mapping outside Orders is one of the four policies.
LEMMA RowsFromInv == PathInv => RowsAreFilled
<1> SUFFICES ASSUME PathInv, mapping \notin Orders,
                    NEW t \in Tid, NEW va \in VaLine, Mapped(t, va)
             PROVE  LET at == dram_parseaddr(mapping[1], os_v2p_lineaddr(t, va))
                    IN  /\ at.bank < BanksInChannel /\ at.row < RowsInBank
                        /\ Cardinality({l \in 0 .. LinesInMem - 1 :
                                          dram_parseaddr(mapping[1], l) = at}) = LinesInRow
  BY DEF RowsAreFilled
<1>1. mapping[1] \in Policies
  BY DEF PathInv
<1> DEFINE p == mapping[1]
           v == os_v2p_lineaddr(t, va)
           at == [j \in MemLine |-> dram_parseaddr(p, j)]
<1>2. v \in MemLine
  BY TranslatedInMemory DEF PathInv
<1> HIDE DEF p, v
<1>3. Filled(at, v)
  BY <1>1, <1>2, PolicyRows DEF p
<1>4. \A j \in MemLine : at[j] = dram_parseaddr(p, j)
  OBVIOUS
<1> HIDE DEF at
<1>5. {j \in MemLine : at[j] = at[v]}
         = {l \in 0 .. LinesInMem - 1 : dram_parseaddr(p, l) = dram_parseaddr(p, v)}
  BY <1>2, <1>4 DEF MemLine
<1>6. at[v] = dram_parseaddr(p, v)
  BY <1>2, <1>4
<1> QED BY <1>3, <1>5, <1>6 DEF Filled, p, v

\* The mapping is chosen once and kept.
LEMMA PathInvHolds == PathSpec => []PathInv
<1>1. PathInit => PathInv
  BY InitEstablishes DEF PathInit, PathInv
<1>2. PathInv /\ [PathNext]_<<vars, mapping>> => PathInv'
  BY NextKeeps DEF PathInv, PathNext
<1> QED BY <1>1, <1>2, PTL DEF PathSpec

\* For every size of the memory and under each policy, an access reaches a bank and a
\* row that dram_channel_insert and dram_bank_insert accept, and the row it reaches is
\* given exactly the lines that fit.
THEOREM RowsFilled == PathSpec => []RowsAreFilled
BY PathInvHolds, RowsFromInv, PTL

-----------------------------------------------------------------------------
(* Induction over the naturals, and functions computed step by step.       *)

\* A set of naturals has a least element.  The sets 0 .. n of its elements n
\* are finite sets, among which there is a minimal one.
LEMMA LeastNat ==
    ASSUME NEW S \in SUBSET Nat, S # {}
    PROVE  \E n \in S : \A m \in S : n <= m
<1> DEFINE R == StrictSubsetOrdering(Nat)
           Upto == {T \in FiniteSubsetsOf(Nat) : \E n \in S : T = 0 .. n}
<1>1. IsWellFoundedOn(R, FiniteSubsetsOf(Nat))
  BY FS_StrictSubsetOrderingWellFounded
<1>2. \A n \in S : 0 .. n \in Upto
  BY FS_Interval DEF FiniteSubsetsOf
<1>3. Upto # {} /\ Upto \subseteq FiniteSubsetsOf(Nat)
  BY <1>2
<1>4. PICK T \in Upto : \A U \in Upto : <<U, T>> \notin R
  <2> HIDE DEF Upto, R
  <2> QED BY <1>1, <1>3, WFMin
<1>5. PICK n \in S : T = 0 .. n
  BY <1>4
<1>6. ASSUME NEW m \in S, m < n PROVE FALSE
  <2>1. 0 .. m \in Upto
    BY <1>2
  <2>2. 0 .. m \subseteq 0 .. n /\ 0 .. m # 0 .. n
    BY <1>6
  <2>3. <<0 .. m, T>> \in R
    BY <1>5, <2>2 DEF StrictSubsetOrdering
  <2> QED BY <1>4, <2>1, <2>3
<1> QED BY <1>5, <1>6

\* A set that contains 0 and with each number below n the next one contains n.
LEMMA Induction ==
    ASSUME NEW n \in Nat, NEW P, 0 \in P,
           \A i \in 0 .. n - 1 : i \in P => i + 1 \in P
    PROVE  \A i \in 0 .. n : i \in P
<1> DEFINE S == {i \in 0 .. n : i \notin P}
<1>1. SUFFICES ASSUME S # {} PROVE FALSE
  OBVIOUS
<1>2. S \in SUBSET Nat
  OBVIOUS
<1>3. PICK m \in S : \A i \in S : m <= i
  <2> HIDE DEF S
  <2> QED BY <1>1, <1>2, LeastNat
<1>4. m # 0 /\ m - 1 \in 0 .. n - 1 /\ m - 1 \notin S
  BY <1>3
<1> QED BY <1>4

\* The values b, step[1][b], step[2][step[1][b]] and so on of a computation of n steps.
Iterates(n, S, b, step) ==
    \E g \in [0 .. n -> S] : /\ g[0] = b
                             /\ \A i \in 1 .. n : g[i] = step[i][g[i - 1]]

\* A computation that stays in S has values at all its steps.
LEMMA Iteration ==
    ASSUME NEW n \in Nat, NEW S, NEW b \in S, NEW step \in [1 .. n -> [S -> S]]
    PROVE  Iterates(n, S, b, step)
<1> DEFINE Upto(k, g) == g[0] = b /\ \A i \in 1 .. k : g[i] = step[i][g[i - 1]]
           P == {k \in 0 .. n : \E g \in [0 .. k -> S] : Upto(k, g)}
<1>1. 0 \in P
  <2> DEFINE g == [i \in 0 .. 0 |-> b]
  <2>1. g \in [0 .. 0 -> S] /\ Upto(0, g) /\ 0 \in 0 .. n
    OBVIOUS
  <2> HIDE DEF g
  <2>2. \E f \in [0 .. 0 -> S] : Upto(0, f)
    BY <2>1
  <2> QED BY <2>1, <2>2
<1>2. ASSUME NEW k \in 0 .. n - 1, k \in P
      PROVE  k + 1 \in P
  <2>1. PICK g \in [0 .. k -> S] : Upto(k, g)
    BY <1>2
  <2> DEFINE h == [i \in 0 .. k + 1 |-> IF i <= k THEN g[i] ELSE step[k + 1][g[k]]]
  <2>2. g[k] \in S /\ step[k + 1][g[k]] \in S
    OBVIOUS
  <2>3. h \in [0 .. k + 1 -> S]
    BY <2>2
  <2>4. h[0] = b
    BY <2>1
  <2>5. ASSUME NEW i \in 1 .. k + 1
        PROVE  h[i] = step[i][h[i - 1]]
    <3>1. CASE i <= k
      BY <2>1, <3>1
    <3>2. CASE i = k + 1
      BY <3>2
    <3> QED BY <3>1, <3>2
  <2>6. k + 1 \in 0 .. n
    OBVIOUS
  <2> HIDE DEF h
  <2> QED BY <2>3, <2>4, <2>5, <2>6
<1> HIDE DEF P
<1>3. \A k \in 0 .. n : k \in P
  BY <1>1, <1>2, Induction
<1>4. n \in P
  BY <1>3
<1> QED BY <1>4 DEF P, Iterates

-----------------------------------------------------------------------------
(* Powers of two.                                                          *)

\* g is the function of Pow2 as far as k.
Doubling(k, g) == g = [i \in 0 .. k |-> IF i = 0 THEN 1 ELSE 2 * g[i - 1]]

\* Doubling is possible as far as one likes.
LEMMA DoublingExists ==
    ASSUME NEW k \in Nat
    PROVE  \E g : Doubling(k, g)
<1> DEFINE step == [i \in 1 .. k |-> [v \in Int |-> 2 * v]]
<1>1. step \in [1 .. k -> [Int -> Int]]
  OBVIOUS
<1>2. \A i \in 1 .. k, v \in Int : step[i][v] = 2 * v
  OBVIOUS
<1> HIDE DEF step
<1>3. PICK g \in [0 .. k -> Int] : /\ g[0] = 1
                                   /\ \A i \in 1 .. k : g[i] = step[i][g[i - 1]]
  <2> DEFINE S == Int
             b == 1
  <2>1. b \in S /\ step \in [1 .. k -> [S -> S]]
    BY <1>1
  <2> HIDE DEF S, b
  <2>2. Iterates(k, S, b, step)
    BY <2>1, Iteration
  <2> QED BY <2>2 DEF Iterates, S, b
<1>4. \A i \in 0 .. k : g[i] = IF i = 0 THEN 1 ELSE 2 * g[i - 1]
  <2> TAKE i \in 0 .. k
  <2>1. CASE i = 0
    BY <1>3, <2>1
  <2>2. CASE i # 0
    <3>1. i \in 1 .. k /\ i - 1 \in 0 .. k
      BY <2>2
    <3>2. g[i] = step[i][g[i - 1]] /\ g[i - 1] \in Int
      BY <1>3, <3>1
    <3> QED BY <1>2, <2>2, <3>1, <3>2
  <2> QED BY <2>1, <2>2
<1>5. Doubling(k, g)
  BY <1>4 DEF Doubling
<1> QED BY <1>5

\* Two such functions agree as far as both go.
LEMMA DoublingUnique ==
    ASSUME NEW j \in Nat, NEW k \in Nat, NEW g, NEW h, Doubling(j, g), Doubling(k, h),
           j <= k
    PROVE  \A i \in 0 .. j : g[i] = h[i]
<1> DEFINE P == {i \in 0 .. j : g[i] = h[i]}
<1>1. /\ \A i \in 0 .. j : g[i] = IF i = 0 THEN 1 ELSE 2 * g[i - 1]
      /\ \A i \in 0 .. k : h[i] = IF i = 0 THEN 1 ELSE 2 * h[i - 1]
  <2>1. /\ g = [i \in 0 .. j |-> IF i = 0 THEN 1 ELSE 2 * g[i - 1]]
        /\ h = [i \in 0 .. k |-> IF i = 0 THEN 1 ELSE 2 * h[i - 1]]
    BY DEF Doubling
  <2> QED BY <2>1
<1>2. 0 \in P
  BY <1>1
<1>3. \A i \in 0 .. j - 1 : i \in P => i + 1 \in P
  BY <1>1
<1> HIDE DEF P
<1>4. \A i \in 0 .. j : i \in P
  BY <1>2, <1>3, Induction
<1> QED BY <1>4 DEF P

\* Pow2 satisfies its recursive definition: it is put together from the functions of
\* Doubling.
LEMMA Pow2Def == Pow2 = [k \in Nat |-> IF k = 0 THEN 1 ELSE 2 * Pow2[k - 1]]
<1> DEFINE c(k) == CHOOSE g : Doubling(k, g)
           p == [k \in Nat |-> c(k)[k]]
<1>1. \A k \in Nat : Doubling(k, c(k))
  BY DoublingExists
<1> HIDE DEF c
<1>2. ASSUME NEW k \in Nat
      PROVE  p[k] = IF k = 0 THEN 1 ELSE 2 * p[k - 1]
  <2>1. c(k) = [i \in 0 .. k |-> IF i = 0 THEN 1 ELSE 2 * c(k)[i - 1]]
    BY <1>1 DEF Doubling
  <2>2. c(k)[k] = IF k = 0 THEN 1 ELSE 2 * c(k)[k - 1]
    BY <2>1
  <2>3. CASE k = 0
    BY <2>2, <2>3
  <2>4. CASE k # 0
    <3>1. k - 1 \in Nat
      BY <2>4
    <3>2. Doubling(k - 1, c(k - 1)) /\ Doubling(k, c(k))
      BY <1>1, <3>1
    <3>3. \A i \in 0 .. k - 1 : c(k - 1)[i] = c(k)[i]
      BY <3>1, <3>2, DoublingUnique
    <3>4. c(k - 1)[k - 1] = c(k)[k - 1]
      BY <3>1, <3>3
    <3> QED BY <2>2, <2>4, <3>1, <3>4
  <2> QED BY <2>3, <2>4
<1>3. p = [k \in Nat |-> IF k = 0 THEN 1 ELSE 2 * p[k - 1]]
  BY <1>2
<1> HIDE DEF p
<1>4. \E q : q = [k \in Nat |-> IF k = 0 THEN 1 ELSE 2 * q[k - 1]]
  BY <1>3
<1>5. Pow2 = CHOOSE q : q = [k \in Nat |-> IF k = 0 THEN 1 ELSE 2 * q[k - 1]]
  BY DEF Pow2
<1> QED BY <1>4, <1>5

\* The first power, and the next one.
LEMMA Pow2Type ==
    ASSUME NEW k \in Nat
    PROVE  /\ Pow2[k] \in Nat \ {0}
           /\ Pow2[0] = 1 /\ Pow2[k + 1] = 2 * Pow2[k]
<1>1. \A i \in Nat : Pow2[i] = IF i = 0 THEN 1 ELSE 2 * Pow2[i - 1]
  <2> HIDE DEF Pow2
  <2> QED BY Pow2Def
<1> DEFINE P == {i \in 0 .. k : Pow2[i] \in Nat \ {0}}
<1> HIDE DEF Pow2
<1>2. 0 \in P
  BY <1>1
<1>3. \A i \in 0 .. k - 1 : i \in P => i + 1 \in P
  BY <1>1
<1> HIDE DEF P
<1>4. \A i \in 0 .. k : i \in P
  BY <1>2, <1>3, Induction
<1>5. Pow2[k] \in Nat \ {0}
  BY <1>4 DEF P
<1> QED BY <1>1, <1>5

\* 1 << (j + k) is (1 << j) * (1 << k).
LEMMA Pow2Sum ==
    ASSUME NEW j \in Nat, NEW k \in Nat
    PROVE  Pow2[j + k] = Pow2[j] * Pow2[k]
<1> HIDE DEF Pow2
<1>1. \A i \in Nat : /\ Pow2[i] \in Nat \ {0}
                     /\ Pow2[0] = 1 /\ Pow2[i + 1] = 2 * Pow2[i]
  BY Pow2Type
<1> DEFINE P == {i \in 0 .. k : Pow2[j + i] = Pow2[j] * Pow2[i]}
<1>2. 0 \in P
  BY <1>1
<1>3. ASSUME NEW i \in 0 .. k - 1, i \in P
      PROVE  i + 1 \in P
  <2>1. Pow2[(j + i) + 1] = 2 * Pow2[j + i] /\ Pow2[i + 1] = 2 * Pow2[i]
    BY <1>1
  <2>2. Pow2[j + i] = Pow2[j] * Pow2[i]
    BY <1>3
  <2>3. Pow2[j] * (2 * Pow2[i]) = 2 * (Pow2[j] * Pow2[i])
    BY <1>1
  <2>4. (j + i) + 1 = j + (i + 1) /\ i + 1 \in 0 .. k
    OBVIOUS
  <2> QED BY <2>1, <2>2, <2>3, <2>4
<1> HIDE DEF P
<1>4. \A i \in 0 .. k : i \in P
  BY <1>2, <1>3, Induction
<1> QED BY <1>4 DEF P

\* Greater exponents have greater powers.
LEMMA Pow2Less ==
    ASSUME NEW j \in Nat, NEW k \in Nat
    PROVE  Pow2[j] < Pow2[k] <=> j < k
<1> HIDE DEF Pow2
<1>1. ASSUME NEW m \in Nat, NEW n \in Nat, m < n
      PROVE  Pow2[m] < Pow2[n]
  <2> DEFINE d == n - m - 1
  <2>1. d \in Nat /\ n = m + (d + 1)
    BY <1>1
  <2> HIDE DEF d
  <2>2. Pow2[n] = Pow2[m] * Pow2[d + 1]
    BY <2>1, Pow2Sum
  <2>3. Pow2[d + 1] = 2 * Pow2[d] /\ Pow2[d] \in Nat \ {0} /\ Pow2[m] \in Nat \ {0}
    BY <2>1, Pow2Type
  <2>4. Pow2[n] = Pow2[m] + (Pow2[m] + 2 * (Pow2[m] * (Pow2[d] - 1)))
    BY <2>2, <2>3
  <2>5. Pow2[m] * (Pow2[d] - 1) \in Nat
    BY <2>3
  <2> QED BY <2>3, <2>4, <2>5
<1>2. Pow2[j] \in Nat /\ Pow2[k] \in Nat
  BY Pow2Type
<1>3. CASE j < k
  BY <1>1, <1>3
<1>4. CASE j = k
  BY <1>2, <1>4
<1>5. CASE k < j
  BY <1>1, <1>2, <1>5
<1> QED BY <1>3, <1>4, <1>5

\* LogBase2 finds the exponent of a power of two.
LEMMA LogOfPower ==
    ASSUME NEW n \in PowersOfTwo
    PROVE  LogBase2(n) \in 0 .. 20 /\ Pow2[LogBase2(n)] = n
<1> HIDE DEF Pow2
<1>1. PICK k \in 0 .. 20 : n = Pow2[k]
  BY DEF PowersOfTwo
<1> DEFINE Log(m) == Pow2[m] <= n /\ n < Pow2[m + 1]
<1>2. Pow2[k] \in Nat /\ Pow2[k] < Pow2[k + 1]
  BY Pow2Less, Pow2Type
<1>3. Log(k)
  BY <1>1, <1>2
<1>4. LogBase2(n) \in 0 .. 20 /\ Log(LogBase2(n))
  <2>1. LogBase2(n) = CHOOSE m \in 0 .. 20 : Log(m)
    BY DEF LogBase2
  <2> HIDE DEF Log
  <2> QED BY <1>3, <2>1
<1> DEFINE m == LogBase2(n)
<1> HIDE DEF m
<1>5. m \in 0 .. 20 /\ Pow2[m] <= Pow2[k] /\ Pow2[k] < Pow2[m + 1]
  BY <1>1, <1>4 DEF m
<1>6. Pow2[m] \in Nat /\ m \in Nat /\ k \in Nat
  BY <1>5, Pow2Type
<1>7. ~(k < m)
  BY <1>2, <1>5, <1>6, Pow2Less
<1>8. k < m + 1
  BY <1>5, <1>6, Pow2Less
<1>9. m = k
  BY <1>6, <1>7, <1>8
<1> QED BY <1>1, <1>5, <1>9 DEF m

\* A field of a configuration has as many values as its width allows; the two halves
\* of a column together are as wide as the column.
LEMMA Widths ==
    /\ field_widths.ch \in Nat /\ Pow2[field_widths.ch] = Channels
    /\ field_widths.ra \in Nat /\ Pow2[field_widths.ra] = Ranks
    /\ field_widths.bg \in Nat /\ Pow2[field_widths.bg] = Bankgroups
    /\ field_widths.ba \in Nat /\ Pow2[field_widths.ba] = BanksPerGroup
    /\ field_widths.ro \in Nat /\ Pow2[field_widths.ro] = Rows
    /\ field_widths.co \in Nat /\ Pow2[field_widths.co] = Columns
    /\ field_widths.lo \in Nat /\ Pow2[field_widths.lo] = MopSize
    /\ field_widths.hi \in Nat /\ field_widths.hi + field_widths.lo = field_widths.co
    /\ LogBase2(RequestSize) \in Nat /\ Pow2[LogBase2(RequestSize)] = RequestSize
<1> HIDE DEF Pow2
<1>1. /\ Channels \in PowersOfTwo /\ Ranks \in PowersOfTwo /\ Bankgroups \in PowersOfTwo
      /\ BanksPerGroup \in PowersOfTwo /\ Rows \in PowersOfTwo /\ Columns \in PowersOfTwo
      /\ MopSize \in PowersOfTwo /\ RequestSize \in PowersOfTwo /\ MopSize <= Columns
  BY AddressMapConstants
<1>2. \A n \in PowersOfTwo : LogBase2(n) \in 0 .. 20 /\ Pow2[LogBase2(n)] = n
  BY LogOfPower
<1>3. LogBase2(MopSize) <= LogBase2(Columns)
  <2> DEFINE m == LogBase2(MopSize)
             c == LogBase2(Columns)
  <2>1. m \in Nat /\ c \in Nat /\ Pow2[m] = MopSize /\ Pow2[c] = Columns
    BY <1>1, <1>2
  <2> HIDE DEF m, c
  <2>2. Pow2[c] < Pow2[m] <=> c < m
    BY <2>1, Pow2Less
  <2>3. Pow2[c] \in Nat /\ Pow2[m] \in Nat
    BY <2>1, Pow2Type
  <2>4. m <= c
    BY <1>1, <2>1, <2>2, <2>3
  <2> QED BY <2>4 DEF m, c
<1> HIDE DEF LogBase2, PowersOfTwo
<1>4. /\ field_widths.ch = LogBase2(Channels) /\ field_widths.ra = LogBase2(Ranks)
      /\ field_widths.bg = LogBase2(Bankgroups) /\ field_widths.ba = LogBase2(BanksPerGroup)
      /\ field_widths.ro = LogBase2(Rows) /\ field_widths.co = LogBase2(Columns)
      /\ field_widths.hi = LogBase2(Columns) - LogBase2(MopSize)
      /\ field_widths.lo = LogBase2(MopSize)
  BY DEF field_widths
<1>5. \A n \in PowersOfTwo : LogBase2(n) \in Nat /\ Pow2[LogBase2(n)] = n
  BY <1>2
<1> QED BY <1>1, <1>3, <1>4, <1>5

\* What the lower digit and the next one determine.
LEMMA TwoDigits ==
    ASSUME NEW m \in Nat \ {0}, NEW k \in Nat \ {0}, NEW x \in Nat, NEW y \in Nat,
           x % m = y % m, (x \div m) % k = (y \div m) % k
    PROVE  x % (m * k) = y % (m * k)
<1>1. m * k \in Nat \ {0} /\ m * k = k * m
  BY OneDigit
<1>2. ASSUME NEW z \in Nat
      PROVE  z % (m * k) = ((z \div m) % k) * m + (z % m)
  <2> DEFINE q == z \div m
             r == z % m
             u == q \div k
             t == q % k
             n == m * k
  <2>1. q \in Nat /\ r \in 0 .. m - 1 /\ z = q * m + r
    BY QuotientRemainder
  <2> HIDE DEF q, r
  <2>2. u \in Nat /\ t \in 0 .. k - 1 /\ q = u * k + t
    BY <2>1, QuotientRemainder
  <2> HIDE DEF u, t
  <2>3. z = u * n + (t * m + r)
    BY <2>1, <2>2
  <2>4. t * m + r \in Nat /\ t * m + r < k * m
    BY <2>1, <2>2, Below
  <2> HIDE DEF n
  <2>5. n \in Nat \ {0} /\ t * m + r \in 0 .. n - 1
    BY <1>1, <2>4 DEF n
  <2>6. z \div n \in Nat /\ z % n \in 0 .. n - 1 /\ z = (z \div n) * n + (z % n)
    BY <2>5, QuotientRemainder
  <2> DEFINE a == z \div n
             b == z % n
             c == t * m + r
  <2>7. a \in Nat /\ b \in 0 .. n - 1 /\ c \in 0 .. n - 1 /\ a * n + b = u * n + c
    BY <2>3, <2>5, <2>6
  <2> HIDE DEF a, b, c
  <2>8. b = c
    BY <2>2, <2>5, <2>7, DigitsUnique
  <2> QED BY <2>8 DEF b, c, n, q, r, t
<1> QED BY <1>2

\* The orders of n positions that name each field of F once.
OrderOf(n, F) == {o \in [1 .. n -> F] : /\ \A f \in F : \E i \in 1 .. n : o[i] = f
                                        /\ \A i, j \in 1 .. n : o[i] = o[j] => i = j}

\* n positions for n fields: none is named twice.
LEMMA NamedOnce ==
    ASSUME NEW n \in Nat, NEW F, IsFiniteSet(F), Cardinality(F) = n,
           NEW o \in [1 .. n -> F], Range(o) = F
    PROVE  o \in OrderOf(n, F)
<1>1. \A f \in F : \E i \in 1 .. n : o[i] = f
  BY DEF Range
<1>2. o \in Surjection(1 .. n, F)
  BY <1>1, Fun_IsSurj
<1>3. IsFiniteSet(1 .. n) /\ Cardinality(1 .. n) = n
  <2>1. /\ IsFiniteSet(1 .. n)
        /\ Cardinality(1 .. n) = IF 1 > n THEN 0 ELSE n - 1 + 1
    BY FS_Interval
  <2> QED BY <2>1
<1>4. o \in Injection(1 .. n, F)
  BY <1>2, <1>3, FS_SurjSameCardinalityImpliesInj
<1>5. \A i, j \in 1 .. n : o[i] = o[j] => i = j
  BY <1>4 DEF Injection, IsInjective
<1> QED BY <1>1, <1>5 DEF OrderOf

-----------------------------------------------------------------------------
(* The field orders of the configuration files.                            *)

Fields == PlainFields \cup MopFields

\* There are six fields, and seven where the column is split.
LEMMA FieldSets ==
    /\ IsFiniteSet(PlainFields) /\ Cardinality(PlainFields) = 6
    /\ IsFiniteSet(MopFields) /\ Cardinality(MopFields) = 7
<1>1. /\ IsFiniteSet({}) /\ Cardinality({}) = 0
  BY FS_EmptySet
<1>2. /\ IsFiniteSet({"ch"}) /\ Cardinality({"ch"}) = 1
  BY FS_Singleton
<1> DEFINE a2 == {"ch"} \cup {"ra"}
           a3 == a2 \cup {"bg"}
           a4 == a3 \cup {"ba"}
           a5 == a4 \cup {"ro"}
           p6 == a5 \cup {"co"}
           m6 == a5 \cup {"hi"}
           m7 == m6 \cup {"lo"}
<1>3. IsFiniteSet(a2) /\ Cardinality(a2) = 2
  BY <1>2, FS_AddElement
<1>4. IsFiniteSet(a3) /\ Cardinality(a3) = 3
  <2>1. "bg" \notin a2
    OBVIOUS
  <2> HIDE DEF a2
  <2> QED BY <1>3, <2>1, FS_AddElement
<1>5. IsFiniteSet(a4) /\ Cardinality(a4) = 4
  <2>1. "ba" \notin a3
    OBVIOUS
  <2> HIDE DEF a3
  <2> QED BY <1>4, <2>1, FS_AddElement
<1>6. IsFiniteSet(a5) /\ Cardinality(a5) = 5
  <2>1. "ro" \notin a4
    OBVIOUS
  <2> HIDE DEF a4
  <2> QED BY <1>5, <2>1, FS_AddElement
<1>7. /\ IsFiniteSet(p6) /\ Cardinality(p6) = 6
      /\ IsFiniteSet(m6) /\ Cardinality(m6) = 6
  <2>1. "co" \notin a5 /\ "hi" \notin a5
    OBVIOUS
  <2> HIDE DEF a5
  <2> QED BY <1>6, <2>1, FS_AddElement
<1>8. IsFiniteSet(m7) /\ Cardinality(m7) = 7
  <2>1. "lo" \notin m6
    OBVIOUS
  <2> HIDE DEF m6
  <2> QED BY <1>7, <2>1, FS_AddElement
<1>9. p6 = PlainFields /\ m7 = MopFields
  BY DEF PlainFields, MopFields
<1> QED BY <1>7, <1>8, <1>9

\* The sum of the widths of a set of fields.
Share(S, f) == IF f \in S THEN field_widths[f] ELSE 0
SumOfWidths(S) ==
    Share(S, "ch") + Share(S, "ra") + Share(S, "bg") + Share(S, "ba")
      + Share(S, "ro") + Share(S, "co") + Share(S, "hi") + Share(S, "lo")

\* No field has a negative width: the low part of a column is not wider than it.
LEMMA WidthsAreNats == \A f \in Fields : field_widths[f] \in Nat
<1> HIDE DEF field_widths
<1> QED BY Widths DEF Fields, PlainFields, MopFields

\* One field more adds its width.
LEMMA SumGrows ==
    ASSUME NEW S \in SUBSET Fields, NEW f \in Fields, f \notin S
    PROVE  SumOfWidths(S \cup {f}) = SumOfWidths(S) + field_widths[f]
<1> HIDE DEF field_widths
<1>1. \A g \in Fields : Share(S, g) \in Nat /\ field_widths[g] \in Nat
  BY WidthsAreNats DEF Share
<1>2. \A g \in Fields : Share(S \cup {f}, g) = IF g = f THEN field_widths[f] ELSE Share(S, g)
  BY DEF Share
<1>3. Share(S, f) = 0
  BY DEF Share
<1>4. Fields = {"ch", "ra", "bg", "ba", "ro", "co", "hi", "lo"}
  BY DEF Fields, PlainFields, MopFields
<1> QED BY <1>1, <1>2, <1>3, <1>4 DEF SumOfWidths

\* The last i fields of an order, the ones SetAddressMapping takes first.
Behind(n, o, i) == {o[j] : j \in n - i + 1 .. n}

\* Pos satisfies its recursive definition.
LEMMA PosDef ==
    ASSUME NEW n \in Nat, NEW o \in [1 .. n -> Fields]
    PROVE  \A i \in 0 .. n :
              Pos(o)[i] = IF i = 0 THEN 0 ELSE Pos(o)[i - 1] + field_widths[o[n - i + 1]]
<1> HIDE DEF field_widths
<1> DEFINE step == [i \in 1 .. n |-> [v \in Int |-> v + field_widths[o[n - i + 1]]]]
           S == Int
           b == 0
<1>1. \A i \in 1 .. n : o[n - i + 1] \in Fields /\ field_widths[o[n - i + 1]] \in Int
  <2> TAKE i \in 1 .. n
  <2>1. o[n - i + 1] \in Fields
    OBVIOUS
  <2> QED BY <2>1, WidthsAreNats
<1>2. b \in S /\ step \in [1 .. n -> [S -> S]]
  BY <1>1
<1>3. \A i \in 1 .. n, v \in S : step[i][v] = v + field_widths[o[n - i + 1]]
  OBVIOUS
<1> HIDE DEF step, S, b
<1>4. PICK g \in [0 .. n -> S] : /\ g[0] = b
                                 /\ \A i \in 1 .. n : g[i] = step[i][g[i - 1]]
  <2>1. Iterates(n, S, b, step)
    BY <1>2, Iteration
  <2> QED BY <2>1 DEF Iterates
<1>5. \A i \in 0 .. n : g[i] = IF i = 0 THEN 0 ELSE g[i - 1] + field_widths[o[n - i + 1]]
  <2> TAKE i \in 0 .. n
  <2>1. CASE i = 0
    BY <1>4, <2>1 DEF b
  <2>2. CASE i # 0
    <3>1. i \in 1 .. n /\ i - 1 \in 0 .. n
      BY <2>2
    <3>2. g[i] = step[i][g[i - 1]] /\ g[i - 1] \in S
      BY <1>4, <3>1
    <3> QED BY <1>3, <2>2, <3>1, <3>2
  <2> QED BY <2>1, <2>2
<1>6. Len(o) = n
  OBVIOUS
<1>7. g = [i \in 0 .. n |-> IF i = 0 THEN 0 ELSE g[i - 1] + field_widths[o[n - i + 1]]]
  BY <1>5
<1> DEFINE Eq(q) == q = [i \in 0 .. n |-> IF i = 0 THEN 0
                                          ELSE q[i - 1] + field_widths[o[n - i + 1]]]
<1>8. Pos(o) = CHOOSE q : Eq(q)
  BY <1>6 DEF Pos
<1>9. Eq(Pos(o))
  <2>1. Eq(g)
    BY <1>7
  <2> HIDE DEF Eq
  <2> QED BY <1>8, <2>1
<1> QED BY <1>9

\* pos, when i fields have been taken, is the sum of their widths.
LEMMA PosIsSum ==
    ASSUME NEW n \in Nat, NEW F \in SUBSET Fields, NEW o \in OrderOf(n, F)
    PROVE  /\ \A i \in 0 .. n : Pos(o)[i] \in Nat
           /\ Pos(o)[n] = SumOfWidths(F)
<1> HIDE DEF field_widths
<1>1. /\ o \in [1 .. n -> F] /\ o \in [1 .. n -> Fields]
      /\ \A f \in F : \E i \in 1 .. n : o[i] = f
      /\ \A i, j \in 1 .. n : o[i] = o[j] => i = j
  BY DEF OrderOf
<1> DEFINE pos == Pos(o)
           P == {i \in 0 .. n : pos[i] \in Nat /\ pos[i] = SumOfWidths(Behind(n, o, i))}
<1>2. \A i \in 0 .. n :
         pos[i] = IF i = 0 THEN 0 ELSE pos[i - 1] + field_widths[o[n - i + 1]]
  BY <1>1, PosDef
<1> HIDE DEF pos
<1>3. 0 \in P
  <2>1. Behind(n, o, 0) = {}
    BY DEF Behind
  <2>2. SumOfWidths({}) = 0
    BY DEF SumOfWidths, Share
  <2> QED BY <1>2, <2>1, <2>2
<1>4. ASSUME NEW i \in 0 .. n - 1, i \in P
      PROVE  i + 1 \in P
  <2> DEFINE f == o[n - i]
             S == Behind(n, o, i)
  <2>1. pos[i + 1] = pos[i] + field_widths[f]
    BY <1>2
  <2>2. f \in Fields /\ S \in SUBSET Fields /\ f \notin S
    BY <1>1 DEF Behind
  <2>3. Behind(n, o, i + 1) = S \cup {f}
    BY DEF Behind
  <2> HIDE DEF f, S
  <2>4. SumOfWidths(S \cup {f}) = SumOfWidths(S) + field_widths[f]
    BY <2>2, SumGrows
  <2>5. pos[i] \in Nat /\ pos[i] = SumOfWidths(S) /\ field_widths[f] \in Nat
    BY <1>4, <2>2, WidthsAreNats DEF S
  <2> QED BY <2>1, <2>3, <2>4, <2>5
<1> HIDE DEF P
<1>5. \A i \in 0 .. n : i \in P
  BY <1>3, <1>4, Induction
<1>6. Behind(n, o, n) = F
  BY <1>1 DEF Behind
<1> QED BY <1>5, <1>6 DEF P, pos

\* The whole memory has a cell for each value of the fields.
LEMMA SizeOfMemory ==
    ASSUME NEW F \in {PlainFields, MopFields}
    PROVE  /\ SumOfWidths(F) \in Nat
           /\ Pow2[SumOfWidths(F)]
                = Channels * Ranks * Bankgroups * BanksPerGroup * Rows * Columns
<1> HIDE DEF field_widths, Pow2
<1>1. PICK ch \in Nat, ra \in Nat, bg \in Nat, ba \in Nat, ro \in Nat, co \in Nat :
         /\ ch = field_widths.ch /\ ra = field_widths.ra /\ bg = field_widths.bg
         /\ ba = field_widths.ba /\ ro = field_widths.ro /\ co = field_widths.co
  BY Widths
<1>2. SumOfWidths(F) = ((((ch + ra) + bg) + ba) + ro) + co
  <2>1. CASE F = PlainFields
    BY <1>1, <2>1 DEF SumOfWidths, Share, PlainFields
  <2>2. CASE F = MopFields
    BY <1>1, <2>2, Widths DEF SumOfWidths, Share, MopFields
  <2> QED BY <2>1, <2>2
<1>3. /\ Pow2[ch] = Channels /\ Pow2[ra] = Ranks /\ Pow2[bg] = Bankgroups
      /\ Pow2[ba] = BanksPerGroup /\ Pow2[ro] = Rows /\ Pow2[co] = Columns
  BY <1>1, Widths
<1>4. \A j, k \in Nat : j + k \in Nat /\ Pow2[j + k] = Pow2[j] * Pow2[k]
  BY Pow2Sum
<1>5. Pow2[((((ch + ra) + bg) + ba) + ro) + co]
         = ((((Pow2[ch] * Pow2[ra]) * Pow2[bg]) * Pow2[ba]) * Pow2[ro]) * Pow2[co]
  <2>1. PICK s1 \in Nat : s1 = ch + ra /\ Pow2[s1] = Pow2[ch] * Pow2[ra]
    BY <1>4
  <2>2. PICK s2 \in Nat : s2 = s1 + bg /\ Pow2[s2] = Pow2[s1] * Pow2[bg]
    BY <1>4
  <2>3. PICK s3 \in Nat : s3 = s2 + ba /\ Pow2[s3] = Pow2[s2] * Pow2[ba]
    BY <1>4
  <2>4. PICK s4 \in Nat : s4 = s3 + ro /\ Pow2[s4] = Pow2[s3] * Pow2[ro]
    BY <1>4
  <2>5. Pow2[s4 + co] = Pow2[s4] * Pow2[co]
    BY <1>4
  <2> QED BY <2>1, <2>2, <2>3, <2>4, <2>5, Zenon
<1> QED BY <1>2, <1>3, <1>5

MemSize == Channels * Ranks * Bankgroups * BanksPerGroup * Rows * Columns

\* A line is told by its fields: by induction over the fields from the lowest one,
\* the remainder of the line modulo what lies below pos is told by those below.
LEMMA FieldsTell ==
    ASSUME NEW n \in Nat, NEW F \in {PlainFields, MopFields}, NEW o \in OrderOf(n, F),
           NEW x \in Nat, NEW y \in Nat, x < MemSize, y < MemSize,
           \A f \in F : Cut(o, x * LineSize, f) = Cut(o, y * LineSize, f)
    PROVE  x = y
<1> HIDE DEF field_widths, Pow2
<1>1. /\ o \in [1 .. n -> F] /\ o \in [1 .. n -> Fields] /\ F \in SUBSET Fields
      /\ \A i, j \in 1 .. n : o[i] = o[j] => i = j
  BY DEF OrderOf, Fields
<1> DEFINE pos == Pos(o)
<1>2. /\ \A i \in 0 .. n : pos[i] \in Nat
      /\ pos[n] = SumOfWidths(F)
  BY <1>1, PosIsSum
<1>3. \A i \in 0 .. n :
         pos[i] = IF i = 0 THEN 0 ELSE pos[i - 1] + field_widths[o[n - i + 1]]
  BY <1>1, PosDef
<1>4. ASSUME NEW i \in 1 .. n
      PROVE  FieldPos(o, o[i]) = pos[n - i]
  <2>1. Len(o) = n /\ DOMAIN o = 1 .. n
    BY <1>1
  <2>2. (CHOOSE j \in 1 .. n : o[j] = o[i]) = i
    BY <1>1
  <2> QED BY <2>1, <2>2 DEF FieldPos
<1> HIDE DEF pos
<1>5. ASSUME NEW z \in Nat
      PROVE  (z * LineSize) \div Pow2[LogBase2(RequestSize)] = z
  <2> DEFINE m == LineSize
             a == (z * m) \div m
             b == (z * m) % m
  <2>1. m = Pow2[LogBase2(RequestSize)] /\ m \in Nat \ {0}
    BY PathConstants, Widths, Pow2Type
  <2> HIDE DEF m
  <2>2. z * m \in Nat
    BY <2>1
  <2>3. a \in Nat /\ b \in 0 .. m - 1 /\ z * m = a * m + b
    BY <2>1, <2>2, QuotientRemainder
  <2> HIDE DEF a, b
  <2>4. z * m + 0 = a * m + b /\ 0 \in 0 .. m - 1
    BY <2>1, <2>2, <2>3
  <2>5. z = a
    BY <2>1, <2>3, <2>4, DigitsUnique
  <2> QED BY <2>1, <2>5 DEF a, m
<1>6. ASSUME NEW z \in Nat, NEW i \in 1 .. n
      PROVE  Cut(o, z * LineSize, o[i])
                = (z \div Pow2[pos[n - i]]) % Pow2[field_widths[o[i]]]
  BY <1>4, <1>5 DEF Cut
<1> DEFINE P == {i \in 0 .. n : x % Pow2[pos[i]] = y % Pow2[pos[i]]}
<1>7. 0 \in P
  <2>1. pos[0] = 0 /\ Pow2[0] = 1
    BY <1>3, Pow2Type
  <2>2. x % 1 = 0 /\ y % 1 = 0
    OBVIOUS
  <2> QED BY <2>1, <2>2
<1>8. ASSUME NEW i \in 0 .. n - 1, i \in P
      PROVE  i + 1 \in P
  <2> DEFINE w == field_widths[o[n - i]]
             m == Pow2[pos[i]]
             k == Pow2[w]
  <2>1. n - i \in 1 .. n /\ n - (n - i) = i /\ o[n - i] \in F /\ o[n - i] \in Fields
    BY <1>1
  <2>2. w \in Nat /\ pos[i] \in Nat
    BY <1>2, <2>1, WidthsAreNats
  <2>3. pos[i + 1] = pos[i] + w
    BY <1>3
  <2>4. (x \div m) % k = (y \div m) % k
    <3>1. /\ Cut(o, x * LineSize, o[n - i]) = (x \div m) % k
          /\ Cut(o, y * LineSize, o[n - i]) = (y \div m) % k
      BY <1>6, <2>1
    <3> QED BY <2>1, <3>1
  <2>5. x % m = y % m
    BY <1>8
  <2> HIDE DEF w
  <2>6. m \in Nat \ {0} /\ k \in Nat \ {0} /\ Pow2[pos[i + 1]] = m * k
    <3>1. m \in Nat \ {0} /\ k \in Nat \ {0}
      BY <2>2, Pow2Type
    <3>2. Pow2[pos[i] + w] = m * k
      BY <2>2, Pow2Sum
    <3> QED BY <2>3, <3>1, <3>2
  <2> HIDE DEF m, k
  <2>7. x % (m * k) = y % (m * k)
    BY <2>4, <2>5, <2>6, TwoDigits
  <2> QED BY <2>6, <2>7
<1> HIDE DEF P
<1>9. \A i \in 0 .. n : i \in P
  BY <1>7, <1>8, Induction
<1>10. x % Pow2[pos[n]] = y % Pow2[pos[n]]
  BY <1>9 DEF P
<1>11. Pow2[pos[n]] = MemSize /\ MemSize \in Nat \ {0}
  BY <1>2, SizeOfMemory, Pow2Type DEF MemSize
<1> HIDE DEF MemSize
<1>12. ASSUME NEW z \in Nat, z < MemSize
       PROVE  z % MemSize = z
  BY <1>11, <1>12
<1> QED BY <1>10, <1>11, <1>12

\* A cell has the same fields only for one line.
LEMMA CellsTell ==
    ASSUME NEW o \in Orders, NEW x \in Nat, NEW y \in Nat, x < MemSize, y < MemSize,
           AddressMapping(o, x * LineSize) = AddressMapping(o, y * LineSize)
    PROVE  x = y
<1> HIDE DEF field_widths, Pow2
<1> DEFINE a == x * LineSize
           b == y * LineSize
<1>1. /\ Cut(o, a, "ch") = Cut(o, b, "ch") /\ Cut(o, a, "ra") = Cut(o, b, "ra")
      /\ Cut(o, a, "bg") = Cut(o, b, "bg") /\ Cut(o, a, "ba") = Cut(o, b, "ba")
      /\ Cut(o, a, "ro") = Cut(o, b, "ro") /\ Column(o, a) = Column(o, b)
  BY DEF AddressMapping
<1>2. CASE o \in [1 .. 6 -> PlainFields] /\ Range(o) = PlainFields
  <2>1. o \in OrderOf(6, PlainFields)
    BY <1>2, FieldSets, NamedOnce
  <2>2. Len(o) = 6
    BY <1>2
  <2>3. Cut(o, a, "co") = Cut(o, b, "co")
    BY <1>1, <2>2 DEF Column, MopEnabled
  <2>4. \A f \in PlainFields : Cut(o, a, f) = Cut(o, b, f)
    BY <1>1, <2>3 DEF PlainFields
  <2> QED BY <2>1, <2>4, FieldsTell
<1>3. CASE o \in [1 .. 7 -> MopFields] /\ Range(o) = MopFields
  <2>1. o \in OrderOf(7, MopFields)
    BY <1>3, FieldSets, NamedOnce
  <2>2. Len(o) = 7
    BY <1>3
  <2>3. ASSUME NEW z \in Nat, NEW f \in {"hi", "lo"}
        PROVE  Cut(o, z * LineSize, f) \in 0 .. Pow2[field_widths[f]] - 1
    <3>1. LineSize \in Nat /\ z * LineSize \in Nat
      BY PathConstants, Widths, Pow2Type
    <3>2. /\ Pow2[LogBase2(RequestSize)] \in Nat \ {0}
          /\ Pow2[field_widths[f]] \in Nat \ {0}
      BY Widths, Pow2Type
    <3>3. FieldPos(o, f) \in Nat
      <4>1. PICK i \in 1 .. 7 : o[i] = f
        BY <2>1 DEF OrderOf, MopFields
      <4>2. (CHOOSE j \in 1 .. 7 : o[j] = f) \in 1 .. 7
        BY <4>1
      <4>3. \A j \in 0 .. 7 : Pos(o)[j] \in Nat
        BY <2>1, PosIsSum DEF Fields
      <4>4. DOMAIN o = 1 .. 7
        BY <1>3
      <4> DEFINE c == CHOOSE j \in 1 .. 7 : o[j] = f
      <4>5. FieldPos(o, f) = Pos(o)[7 - c]
        BY <2>2, <4>4 DEF FieldPos
      <4>6. 7 - c \in 0 .. 7
        <5> HIDE DEF c
        <5>1. c \in 1 .. 7
          BY <4>2 DEF c
        <5> QED BY <5>1
      <4> QED BY <4>3, <4>5, <4>6
    <3>4. Pow2[FieldPos(o, f)] \in Nat \ {0}
      BY <3>3, Pow2Type
    <3> DEFINE u == (z * LineSize) \div Pow2[LogBase2(RequestSize)]
               v == u \div Pow2[FieldPos(o, f)]
    <3>5. u \in Nat
      BY <3>1, <3>2, QuotientRemainder
    <3> HIDE DEF u
    <3>6. v \in Nat
      BY <3>4, <3>5, QuotientRemainder
    <3>7. Cut(o, z * LineSize, f) = v % Pow2[field_widths[f]]
      BY DEF Cut, u
    <3> HIDE DEF v
    <3> QED BY <3>2, <3>6, <3>7, QuotientRemainder
  <2>4. Cut(o, a, "hi") * MopSize + Cut(o, a, "lo")
           = Cut(o, b, "hi") * MopSize + Cut(o, b, "lo")
    BY <1>1, <2>2 DEF Column, MopEnabled
  <2>5. Cut(o, a, "hi") = Cut(o, b, "hi") /\ Cut(o, a, "lo") = Cut(o, b, "lo")
    <3> DEFINE h == Cut(o, a, "hi")
               l == Cut(o, a, "lo")
               g == Cut(o, b, "hi")
               k == Cut(o, b, "lo")
    <3>1. MopSize \in Nat \ {0}
      BY Widths, Pow2Type
    <3>2. h \in Nat /\ g \in Nat /\ l \in 0 .. MopSize - 1 /\ k \in 0 .. MopSize - 1
      BY <2>3, Widths
    <3>3. h * MopSize + l = g * MopSize + k
      BY <2>4
    <3> HIDE DEF h, l, g, k
    <3>4. h = g /\ l = k
      BY <3>1, <3>2, <3>3, DigitsUnique
    <3> QED BY <3>4 DEF h, l, g, k
  <2>6. \A f \in MopFields : Cut(o, a, f) = Cut(o, b, f)
    BY <1>1, <2>5 DEF MopFields
  <2> QED BY <2>1, <2>6, FieldsTell
<1> QED BY <1>2, <1>3, PathConstants

\* Mapped lines are lines of the memory, so what tells their cells apart tells them
\* apart, and the page allocator does the rest.
LEMMA CellsFromInv == PathInv => CellsAreDistinct
<1> SUFFICES ASSUME PathInv, mapping \in Orders,
                    NEW t \in Tid, NEW u \in Tid, NEW va \in VaLine, NEW vb \in VaLine,
                    Mapped(t, va), Mapped(u, vb),
                    AddressMapping(mapping, ByteAddress(t, va))
                      = AddressMapping(mapping, ByteAddress(u, vb))
             PROVE  t = u /\ va = vb
  BY DEF CellsAreDistinct
<1> DEFINE x == os_v2p_lineaddr(t, va)
           y == os_v2p_lineaddr(u, vb)
<1>1. AddressMapping(mapping, x * LineSize) = AddressMapping(mapping, y * LineSize)
  BY DEF ByteAddress
<1>2. /\ x \in Nat /\ y \in Nat /\ NumPages * LinesInPage \in Nat
      /\ x < NumPages * LinesInPage /\ y < NumPages * LinesInPage
  BY TranslatedLine DEF PathInv
<1>3. NumPages * LinesInPage <= MemSize /\ MemSize \in Nat
  <2>1. MemSize \in Nat
    <3> HIDE DEF Pow2
    <3> QED BY SizeOfMemory, Pow2Type DEF MemSize
  <2> QED BY <2>1, PathConstants DEF MemSize
<1> HIDE DEF x, y, MemSize
<1>4. x < MemSize /\ y < MemSize
  BY <1>2, <1>3
<1>5. x = y
  BY <1>1, <1>2, <1>4, CellsTell
<1>6. TranslationInjective
  BY InjectiveFromInv DEF PathInv
<1> QED BY <1>5, <1>6 DEF TranslationInjective, x, y

\* For every size of the memory and every order of the configuration files, no two
\* lines of any threads share a cell of the DRAM: SetAddressMapping and AddressMapping
\* lose no bit of a translated address.
THEOREM CellsDistinct == PathSpec => []CellsAreDistinct
BY PathInvHolds, CellsFromInv, PTL

-----------------------------------------------------------------------------
(* Counting the packets of an address.                                     *)

\* A finite family of queues of bounded length.
Queues(D, T, K) == {q \in [D -> Seq(T)] : \A d \in D : Len(q[d]) <= K}

\* The places of the packets of a, spelt out.
LEMMA PlacesAre ==
    ASSUME NEW D, NEW T, NEW q \in [D -> Seq(T)], NEW a
    PROVE  \A z : z \in PlacesInAll(q, a)
                    <=> \E d \in D, i \in Nat : /\ z = <<d, i>> /\ i \in 1 .. Len(q[d])
                                                /\ q[d][i].addr = a
<1>1. \A d \in D : DOMAIN q[d] = 1 .. Len(q[d])
  OBVIOUS
<1>2. DOMAIN q = D
  OBVIOUS
<1> QED BY <1>1, <1>2 DEF PlacesInAll, Places

\* Queues of bounded length hold finitely many packets.
LEMMA FinitePlaces ==
    ASSUME NEW D, IsFiniteSet(D), NEW T, NEW K \in Nat, NEW q \in Queues(D, T, K), NEW a
    PROVE  IsFiniteSet(PlacesInAll(q, a)) /\ InAll(q, a) \in Nat
<1>1. q \in [D -> Seq(T)] /\ \A d \in D : Len(q[d]) <= K /\ Len(q[d]) \in Nat
  BY DEF Queues
<1>2. IsFiniteSet(1 .. K)
  BY FS_Interval
<1>3. IsFiniteSet(D \X (1 .. K))
  BY <1>2, FS_Product
<1>4. PlacesInAll(q, a) \subseteq D \X (1 .. K)
  <2> SUFFICES ASSUME NEW z \in PlacesInAll(q, a) PROVE z \in D \X (1 .. K)
    OBVIOUS
  <2>1. PICK d \in D, i \in Nat : z = <<d, i>> /\ i \in 1 .. Len(q[d])
    BY <1>1, PlacesAre
  <2>2. i \in 1 .. K
    BY <1>1, <2>1
  <2> QED BY <2>1, <2>2
<1>5. IsFiniteSet(PlacesInAll(q, a))
  BY <1>3, <1>4, FS_Subset
<1> QED BY <1>5, FS_CardinalityType DEF InAll

\* What is done to packets without changing their addresses changes no count.
LEMMA SamePlaces ==
    ASSUME NEW D, NEW T, NEW q \in [D -> Seq(T)], NEW r \in [D -> Seq(T)], NEW a,
           \A d \in D : /\ Len(r[d]) = Len(q[d])
                        /\ \A i \in 1 .. Len(q[d]) : r[d][i].addr = q[d][i].addr
    PROVE  PlacesInAll(r, a) = PlacesInAll(q, a)
<1>1. ASSUME NEW d \in D PROVE Places(r[d], a) = Places(q[d], a)
  <2>1. DOMAIN q[d] = 1 .. Len(q[d]) /\ DOMAIN r[d] = 1 .. Len(q[d])
    OBVIOUS
  <2> QED BY <2>1 DEF Places
<1>2. DOMAIN q = D /\ DOMAIN r = D
  OBVIOUS
<1> QED BY <1>1, <1>2 DEF PlacesInAll

\* Sets of the same size.
LEMMA SameSize ==
    ASSUME NEW A, NEW B, IsFiniteSet(B), NEW f \in [A -> B],
           \A x, y \in A : f[x] = f[y] => x = y,
           \A y \in B : \E x \in A : f[x] = y
    PROVE  IsFiniteSet(A) /\ Cardinality(A) = Cardinality(B)
<1>1. f \in Bijection(A, B)
  BY Fun_IsBij
<1>2. ExistsBijection(A, B)
  BY <1>1 DEF ExistsBijection
<1>3. ExistsBijection(B, A)
  BY <1>2, Fun_ExistsBijSymmetric
<1> QED BY <1>3, FS_Bijection

\* The queues of E, and their places, are as many.
LEMMA AsManyPlaces ==
    ASSUME NEW E, IsFiniteSet(E), NEW at
    PROVE  /\ IsFiniteSet({<<d, at[d]>> : d \in E})
           /\ Cardinality({<<d, at[d]>> : d \in E}) = Cardinality(E)
<1> DEFINE Z == {<<d, at[d]>> : d \in E}
           f == [z \in Z |-> z[1]]
<1>1. f \in [Z -> E]
  OBVIOUS
<1>2. \A x, y \in Z : f[x] = f[y] => x = y
  OBVIOUS
<1>3. ASSUME NEW d \in E PROVE \E x \in Z : f[x] = d
  <2>1. <<d, at[d]>> \in Z /\ f[<<d, at[d]>>] = d
    OBVIOUS
  <2> QED BY <2>1
<1> HIDE DEF Z, f
<1>4. IsFiniteSet(Z) /\ Cardinality(Z) = Cardinality(E)
  BY <1>1, <1>2, <1>3, SameSize
<1> QED BY <1>4 DEF Z

\* r is q with one more packet p[d] in each queue d of E.
Longer(D, q, r, E, p) ==
    \A d \in D : r[d] = IF d \in E THEN Append(q[d], p[d]) ELSE q[d]

\* The packets that come are counted.
LEMMA AppendCounts ==
    ASSUME NEW D, IsFiniteSet(D), NEW T, NEW K \in Nat, NEW q \in Queues(D, T, K),
           NEW E \in SUBSET D, NEW p, \A d \in E : p[d] \in T,
           NEW r \in [D -> Seq(T)], Longer(D, q, r, E, p), NEW a
    PROVE  /\ Cardinality({d \in E : p[d].addr = a}) \in Nat
           /\ InAll(r, a) = InAll(q, a) + Cardinality({d \in E : p[d].addr = a})
<1> DEFINE F == {d \in E : p[d].addr = a}
           at == [d \in D |-> Len(q[d]) + 1]
           Z == {<<d, at[d]>> : d \in F}
<1>1. q \in [D -> Seq(T)] /\ \A d \in D : q[d] \in Seq(T) /\ Len(q[d]) \in Nat
  BY DEF Queues
<1>2. ASSUME NEW d \in D PROVE at[d] = Len(q[d]) + 1 /\ at[d] \in Nat \ {0}
  BY <1>1
<1> HIDE DEF at
<1>3. ASSUME NEW d \in D
      PROVE  Places(r[d], a) = IF d \in F THEN Places(q[d], a) \cup {at[d]}
                               ELSE Places(q[d], a)
  <2> DEFINE s == q[d]
             t == r[d]
             n == at[d]
  <2>1. s \in Seq(T) /\ n \in Nat \ {0} /\ n = Len(s) + 1
    BY <1>1, <1>2
  <2>2. CASE d \in E
    <3>1. t = Append(s, p[d]) /\ p[d] \in T
      BY <2>2 DEF Longer
    <3> HIDE DEF s, t, n
    <3>2. /\ DOMAIN s = 1 .. n - 1 /\ DOMAIN t = 1 .. n
          /\ \A i \in 1 .. n : t[i] = IF i = n THEN p[d] ELSE s[i]
      BY <2>1, <3>1
    <3>3. Places(t, a) = IF p[d].addr = a THEN Places(s, a) \cup {n} ELSE Places(s, a)
      BY <2>1, <3>2 DEF Places
    <3> QED BY <2>2, <3>3 DEF s, t, n
  <2>3. CASE d \notin E
    BY <2>3 DEF Longer
  <2> QED BY <2>2, <2>3
<1>4. DOMAIN q = D /\ DOMAIN r = D
  BY <1>1
<1>5. ASSUME NEW d \in D PROVE at[d] \notin Places(q[d], a)
  BY <1>1, <1>2 DEF Places
<1>6. IsFiniteSet(PlacesInAll(q, a)) /\ InAll(q, a) \in Nat
  BY FinitePlaces
<1>7. IsFiniteSet(F)
  BY FS_Subset
<1>8. IsFiniteSet(Z) /\ Cardinality(Z) = Cardinality(F) /\ Cardinality(F) \in Nat
  <2> HIDE DEF F
  <2> QED BY <1>7, AsManyPlaces, FS_CardinalityType
<1>9. PlacesInAll(r, a) = PlacesInAll(q, a) \cup Z
  <2>1. F \subseteq D
    OBVIOUS
  <2> HIDE DEF F
  <2> QED BY <1>3, <1>4, <2>1 DEF PlacesInAll
<1>10. PlacesInAll(q, a) \cap Z = {}
  BY <1>4, <1>5 DEF PlacesInAll
<1> HIDE DEF Z, F
<1>11. Cardinality(PlacesInAll(q, a) \cup Z)
          = Cardinality(PlacesInAll(q, a)) + Cardinality(Z)
  <2>1. Cardinality({}) = 0
    BY FS_EmptySet
  <2>2. Cardinality(PlacesInAll(q, a) \cup Z) = Cardinality(PlacesInAll(q, a))
           + Cardinality(Z) - Cardinality(PlacesInAll(q, a) \cap Z)
    BY <1>6, <1>8, FS_Union
  <2>3. Cardinality(PlacesInAll(q, a) \cap Z) = 0
    BY <1>10, <2>1, Zenon
  <2>4. Cardinality(PlacesInAll(q, a)) \in Nat /\ Cardinality(Z) \in Nat
    BY <1>6, <1>8 DEF InAll
  <2> QED BY <2>2, <2>3, <2>4
<1>12. InAll(r, a) = InAll(q, a) + Cardinality(F)
  BY <1>8, <1>9, <1>11 DEF InAll
<1> QED BY <1>8, <1>12 DEF F

\* s is t without its i-th element.
Without(s, t, i) ==
    /\ Len(s) = Len(t) - 1
    /\ \A j \in 1 .. Len(s) : s[j] = t[IF j < i THEN j ELSE j + 1]

\* r is q without the at[d]-th packet of each queue d of E.
Shorter(D, q, r, E, at) ==
    \A d \in D : IF d \in E THEN at[d] \in 1 .. Len(q[d]) /\ Without(r[d], q[d], at[d])
                 ELSE r[d] = q[d]

\* The packets that go are counted: the places behind a packet that goes move up.
LEMMA RemoveCounts ==
    ASSUME NEW D, IsFiniteSet(D), NEW T, NEW K \in Nat, NEW q \in Queues(D, T, K),
           NEW E \in SUBSET D, NEW at, NEW r \in [D -> Seq(T)], Shorter(D, q, r, E, at),
           NEW a
    PROVE  /\ Cardinality({d \in E : q[d][at[d]].addr = a}) \in Nat
           /\ InAll(r, a) = InAll(q, a) - Cardinality({d \in E : q[d][at[d]].addr = a})
<1> DEFINE F == {d \in E : q[d][at[d]].addr = a}
           Z == {<<d, at[d]>> : d \in F}
           up(d, j) == IF d \in E /\ j >= at[d] THEN j + 1 ELSE j
           A == PlacesInAll(r, a)
           B == PlacesInAll(q, a) \ Z
           f == [x \in A |-> <<x[1], up(x[1], x[2])>>]
<1>1. q \in [D -> Seq(T)] /\ \A d \in D : Len(q[d]) \in Nat
  BY DEF Queues
<1>2. ASSUME NEW d \in D, NEW j \in Nat, j \in 1 .. Len(r[d])
      PROVE  /\ up(d, j) \in Nat /\ up(d, j) \in 1 .. Len(q[d])
             /\ q[d][up(d, j)] = r[d][j] /\ (d \in E => up(d, j) # at[d])
  <2>1. CASE d \in E
    <3>1. /\ at[d] \in 1 .. Len(q[d]) /\ Len(r[d]) = Len(q[d]) - 1
          /\ r[d][j] = q[d][IF j < at[d] THEN j ELSE j + 1]
      BY <1>2, <2>1 DEF Shorter, Without
    <3>2. CASE j < at[d]
      BY <1>1, <1>2, <2>1, <3>1, <3>2
    <3>3. CASE j >= at[d]
      BY <1>1, <1>2, <2>1, <3>1, <3>3
    <3> QED BY <1>1, <3>1, <3>2, <3>3
  <2>2. CASE d \notin E
    BY <1>2, <2>2 DEF Shorter
  <2> QED BY <2>1, <2>2
<1>3. ASSUME NEW d \in D, NEW j \in Nat, NEW k \in Nat, up(d, j) = up(d, k)
      PROVE  j = k
  <2>1. CASE d \in E
    <3>1. at[d] \in Nat
      BY <2>1 DEF Shorter
    <3> QED BY <1>3, <3>1
  <2>2. CASE d \notin E
    BY <1>3, <2>2
  <2> QED BY <2>1, <2>2
<1>4. ASSUME NEW d \in D, NEW k \in Nat, k \in 1 .. Len(q[d]), d \in E => k # at[d]
      PROVE  \E j \in Nat : j \in 1 .. Len(r[d]) /\ up(d, j) = k
  <2>1. CASE d \notin E
    BY <1>4, <2>1 DEF Shorter
  <2>2. CASE d \in E
    <3>1. at[d] \in 1 .. Len(q[d]) /\ Len(r[d]) = Len(q[d]) - 1 /\ at[d] # k
      BY <1>4, <2>2 DEF Shorter, Without
    <3>2. CASE k < at[d]
      <4>1. k \in 1 .. Len(r[d]) /\ up(d, k) = k
        BY <1>1, <1>4, <3>1, <3>2
      <4> QED BY <4>1
    <3>3. CASE k > at[d]
      <4>1. k - 1 \in Nat /\ k - 1 \in 1 .. Len(r[d]) /\ up(d, k - 1) = k
        BY <1>1, <1>4, <2>2, <3>1, <3>3
      <4> HIDE DEF up
      <4> QED BY <4>1
    <3> QED BY <1>1, <3>1, <3>2, <3>3
  <2> QED BY <2>1, <2>2
<1> HIDE DEF up
<1>5. \A x : x \in A <=> \E d \in D, j \in Nat : /\ x = <<d, j>> /\ j \in 1 .. Len(r[d])
                                                /\ r[d][j].addr = a
  BY PlacesAre
<1>6. \A x : x \in PlacesInAll(q, a)
               <=> \E d \in D, j \in Nat : /\ x = <<d, j>> /\ j \in 1 .. Len(q[d])
                                           /\ q[d][j].addr = a
  BY <1>1, PlacesAre
<1> HIDE DEF A
<1>7. \A d \in D, j \in Nat : <<d, j>> \in Z <=> d \in F /\ j = at[d]
  OBVIOUS
<1>8. ASSUME NEW d \in D, NEW j \in Nat
      PROVE  <<d, j>> \in B <=> /\ j \in 1 .. Len(q[d]) /\ q[d][j].addr = a
                                /\ ~(d \in E /\ j = at[d])
  BY <1>6, <1>7
<1>9. \A x \in B : \E d \in D, j \in Nat : x = <<d, j>>
  BY <1>6
<1> HIDE DEF Z, F, B
<1>10. ASSUME NEW d \in D, NEW j \in Nat, <<d, j>> \in A
       PROVE  f[<<d, j>>] = <<d, up(d, j)>> /\ j \in 1 .. Len(r[d]) /\ r[d][j].addr = a
  BY <1>5, <1>10
<1> HIDE DEF f
<1>11. f \in [A -> B]
  <2>1. ASSUME NEW x \in A PROVE f[x] \in B
    <3>1. PICK d \in D, j \in Nat : x = <<d, j>>
      BY <1>5
    <3>2. f[x] = <<d, up(d, j)>> /\ j \in 1 .. Len(r[d]) /\ r[d][j].addr = a
      BY <1>10, <3>1
    <3> QED BY <1>2, <1>8, <3>2
  <2> QED BY <2>1 DEF f
<1>12. \A x, y \in A : f[x] = f[y] => x = y
  <2> SUFFICES ASSUME NEW x \in A, NEW y \in A, f[x] = f[y] PROVE x = y
    OBVIOUS
  <2>1. PICK d \in D, j \in Nat : x = <<d, j>>
    BY <1>5
  <2>2. PICK e \in D, k \in Nat : y = <<e, k>>
    BY <1>5
  <2>3. <<d, up(d, j)>> = <<e, up(e, k)>>
    BY <1>10, <2>1, <2>2
  <2> QED BY <1>3, <2>1, <2>2, <2>3
<1>13. \A y \in B : \E x \in A : f[x] = y
  <2> SUFFICES ASSUME NEW y \in B PROVE \E x \in A : f[x] = y
    OBVIOUS
  <2>1. PICK d \in D, k \in Nat : y = <<d, k>>
    BY <1>9
  <2>2. k \in 1 .. Len(q[d]) /\ q[d][k].addr = a /\ (d \in E => k # at[d])
    BY <1>8, <2>1
  <2>3. PICK j \in Nat : j \in 1 .. Len(r[d]) /\ up(d, j) = k
    BY <1>4, <2>2
  <2>4. r[d][j].addr = a
    BY <1>2, <2>2, <2>3
  <2>5. <<d, j>> \in A
    BY <1>5, <2>3, <2>4
  <2>6. f[<<d, j>>] = y
    BY <1>10, <2>1, <2>3, <2>5
  <2> QED BY <2>5, <2>6
<1>14. IsFiniteSet(PlacesInAll(q, a)) /\ InAll(q, a) \in Nat
  BY FinitePlaces
<1>15. Cardinality(A) = Cardinality(B)
  <2>1. IsFiniteSet(B)
    BY <1>14, FS_Subset DEF B
  <2> QED BY <1>11, <1>12, <1>13, <2>1, SameSize
<1>16. IsFiniteSet(Z) /\ Cardinality(Z) = Cardinality(F) /\ Cardinality(F) \in Nat
  <2>1. IsFiniteSet(F)
    BY FS_Subset DEF F
  <2> QED BY <2>1, AsManyPlaces, FS_CardinalityType DEF Z
<1>17. Z \subseteq PlacesInAll(q, a)
  <2> SUFFICES ASSUME NEW d \in F PROVE <<d, at[d]>> \in PlacesInAll(q, a)
    BY DEF Z
  <2>1. d \in D /\ d \in E /\ q[d][at[d]].addr = a
    BY DEF F
  <2>2. at[d] \in 1 .. Len(q[d]) /\ at[d] \in Nat
    BY <2>1 DEF Shorter
  <2> QED BY <1>6, <2>1, <2>2
<1>18. Cardinality(B) = Cardinality(PlacesInAll(q, a)) - Cardinality(Z)
  <2>1. PlacesInAll(q, a) \cap Z = Z
    BY <1>17
  <2>2. Cardinality(PlacesInAll(q, a) \ Z)
           = Cardinality(PlacesInAll(q, a)) - Cardinality(PlacesInAll(q, a) \cap Z)
    BY <1>14, FS_Difference
  <2> QED BY <2>1, <2>2 DEF B
<1> QED BY <1>15, <1>16, <1>18 DEF InAll, A, F

\* Min of a set of naturals, the way SelectInSeq uses it.
LEMMA LeastOf ==
    ASSUME NEW I \in SUBSET Nat, I # {}
    PROVE  Min(I) \in I /\ \A j \in I : Min(I) <= j
<1>1. \E n \in I : \A m \in I : n <= m
  BY LeastNat
<1> QED BY <1>1 DEF Min

\* RemoveAt and Tail leave out one element.
LEMMA RemovedAt ==
    ASSUME NEW T, NEW s \in Seq(T), NEW i \in 1 .. Len(s)
    PROVE  RemoveAt(s, i) \in Seq(T) /\ Without(RemoveAt(s, i), s, i)
<1> DEFINE f == SubSeq(s, 1, i - 1)
           g == SubSeq(s, i + 1, Len(s))
<1>1. f \in Seq(T) /\ Len(f) = i - 1 /\ \A j \in 1 .. i - 1 : f[j] = s[j]
  OBVIOUS
<1>2. g \in Seq(T) /\ Len(g) = Len(s) - i /\ \A j \in 1 .. Len(s) - i : g[j] = s[i + j]
  OBVIOUS
<1>3. RemoveAt(s, i) = f \o g
  BY DEF RemoveAt
<1> HIDE DEF f, g
<1>4. f \o g \in Seq(T) /\ Len(f \o g) = Len(s) - 1
  <2>1. f \o g \in Seq(T) /\ Len(f \o g) = Len(f) + Len(g)
    BY <1>1, <1>2, ConcatProperties
  <2> QED BY <1>1, <1>2, <2>1
<1>5. ASSUME NEW j \in 1 .. Len(f \o g)
      PROVE  (f \o g)[j] = s[IF j < i THEN j ELSE j + 1]
  <2>1. CASE j < i
    <3>1. (f \o g)[j] = f[j] /\ j \in 1 .. i - 1
      BY <1>1, <1>2, <1>4, <2>1, ConcatProperties
    <3> QED BY <1>1, <2>1, <3>1
  <2>2. CASE j >= i
    <3>1. (f \o g)[j] = g[j - (i - 1)] /\ j - (i - 1) \in 1 .. Len(s) - i
      BY <1>1, <1>2, <1>4, <2>2, ConcatProperties
    <3>2. g[j - (i - 1)] = s[i + (j - (i - 1))] /\ i + (j - (i - 1)) = j + 1
      BY <1>2, <3>1
    <3> QED BY <2>2, <3>1, <3>2
  <2> QED BY <1>4, <2>1, <2>2
<1> QED BY <1>3, <1>4, <1>5 DEF Without

\* Tail leaves out the first packet.
LEMMA TailWithout ==
    ASSUME NEW T, NEW s \in Seq(T), s # << >>
    PROVE  /\ Tail(s) \in Seq(T) /\ Head(s) \in T /\ Head(s) = s[1]
           /\ 1 \in 1 .. Len(s) /\ Without(Tail(s), s, 1) /\ Len(Tail(s)) = Len(s) - 1
<1>1. /\ Tail(s) \in Seq(T) /\ Head(s) \in T /\ Head(s) = s[1]
      /\ Len(Tail(s)) = Len(s) - 1 /\ 1 \in 1 .. Len(s)
      /\ \A i \in 1 .. Len(Tail(s)) : Tail(s)[i] = s[i + 1]
  OBVIOUS
<1> QED BY <1>1 DEF Without

\* One packet.
Of(p, a) == IF p.addr = a THEN 1 ELSE 0

\* For one queue the count is 0 or 1.
LEMMA OneQueue ==
    ASSUME NEW d, NEW p, NEW a
    PROVE  Cardinality({e \in {d} : p[e].addr = a}) = Of(p[d], a)
<1>1. Cardinality({}) = 0 /\ Cardinality({d}) = 1
  BY FS_EmptySet, FS_Singleton
<1>2. CASE p[d].addr = a
  <2>1. {e \in {d} : p[e].addr = a} = {d}
    BY <1>2
  <2> QED BY <1>1, <1>2, <2>1 DEF Of
<1>3. CASE p[d].addr # a
  <2>1. {e \in {d} : p[e].addr = a} = {}
    BY <1>3
  <2> QED BY <1>1, <1>3, <2>1 DEF Of
<1> QED BY <1>2, <1>3

\* A packet more in queue d; s for queue d.
Enqueued(q, d, p) == [q EXCEPT ![d] = Append(@, p)]
Replaced(q, d, s) == [q EXCEPT ![d] = s]

\* A packet comes.
LEMMA AppendOne ==
    ASSUME NEW D, IsFiniteSet(D), NEW T, NEW K \in Nat, NEW q \in Queues(D, T, K),
           NEW d \in D, NEW p \in T, NEW a
    PROVE  InAll(Enqueued(q, d, p), a) = InAll(q, a) + Of(p, a)
<1> DEFINE r == Enqueued(q, d, p)
           f == [e \in D |-> p]
           E == {d}
<1>1. q \in [D -> Seq(T)]
  BY DEF Queues
<1>2. r \in [D -> Seq(T)] /\ Longer(D, q, r, E, f)
  BY <1>1 DEF Longer, Enqueued
<1>3. E \in SUBSET D /\ f[d] = p /\ \A e \in E : f[e] \in T
  OBVIOUS
<1>4. Cardinality({e \in E : f[e].addr = a}) = Of(f[d], a)
  BY OneQueue
<1> HIDE DEF r, f, E
<1>5. InAll(r, a) = InAll(q, a) + Cardinality({e \in E : f[e].addr = a})
  BY <1>2, <1>3, AppendCounts
<1> QED BY <1>3, <1>4, <1>5 DEF r

\* A packet goes.
LEMMA RemoveOne ==
    ASSUME NEW D, IsFiniteSet(D), NEW T, NEW K \in Nat, NEW q \in Queues(D, T, K),
           NEW d \in D, NEW i \in 1 .. Len(q[d]), NEW s \in Seq(T), Without(s, q[d], i),
           NEW a
    PROVE  InAll(Replaced(q, d, s), a) = InAll(q, a) - Of(q[d][i], a)
<1> DEFINE r == Replaced(q, d, s)
           at == [e \in D |-> i]
           f == [e \in D |-> q[e][at[e]]]
           E == {d}
<1>1. q \in [D -> Seq(T)]
  BY DEF Queues
<1>2. r \in [D -> Seq(T)] /\ Shorter(D, q, r, E, at)
  BY <1>1 DEF Shorter, Replaced
<1>3. E \in SUBSET D /\ f[d] = q[d][i] /\ \A e \in E : f[e] = q[e][at[e]]
  OBVIOUS
<1>4. Cardinality({e \in E : f[e].addr = a}) = Of(f[d], a)
  BY OneQueue
<1> HIDE DEF r, at, f, E
<1>5. InAll(r, a) = InAll(q, a) - Cardinality({e \in E : q[e][at[e]].addr = a})
  BY <1>2, <1>3, RemoveCounts
<1>6. {e \in E : q[e][at[e]].addr = a} = {e \in E : f[e].addr = a}
  BY <1>3
<1> QED BY <1>3, <1>4, <1>5, <1>6 DEF r

\* One sequence is a family of one queue.
LEMMA CountIsInAll ==
    ASSUME NEW T, NEW s \in Seq(T), NEW a
    PROVE  /\ Count(s, a) = InAll([e \in {0} |-> s], a)
           /\ Count(s, a) \in Nat
           /\ (\E i \in 1 .. Len(s) : s[i].addr = a) <=> Count(s, a) # 0
<1> DEFINE q == [e \in {0} |-> s]
           A == PlacesInAll(q, a)
           B == Places(s, a)
           f == [z \in A |-> z[2]]
<1>1. A = {0} \X B
  BY DEF PlacesInAll
<1>2. IsFiniteSet(B)
  <2>1. B \subseteq 1 .. Len(s)
    BY DEF Places
  <2>2. IsFiniteSet(1 .. Len(s))
    BY FS_Interval
  <2> QED BY <2>1, <2>2, FS_Subset
<1>3. f \in [A -> B] /\ \A x, y \in A : f[x] = f[y] => x = y
  BY <1>1
<1>4. ASSUME NEW y \in B PROVE \E x \in A : f[x] = y
  <2>1. <<0, y>> \in A /\ f[<<0, y>>] = y
    BY <1>1
  <2> QED BY <2>1
<1>5. (\E i \in 1 .. Len(s) : s[i].addr = a) <=> B # {}
  BY DEF Places
<1> HIDE DEF A, B, f
<1>6. Cardinality(A) = Cardinality(B)
  BY <1>2, <1>3, <1>4, SameSize
<1>7. Cardinality(B) \in Nat /\ (Cardinality(B) = 0 <=> B = {})
  BY <1>2, FS_CardinalityType, FS_EmptySet
<1>8. Count(s, a) = Cardinality(B) /\ InAll(q, a) = Cardinality(A)
  BY DEF Count, InAll, A, B
<1> QED BY <1>5, <1>6, <1>7, <1>8

\* The response table gains and loses responses like a queue.
LEMMA CountChanges ==
    ASSUME NEW T, NEW t \in Seq(T), NEW a
    PROVE  /\ \A p \in T : Count(Append(t, p), a) = Count(t, a) + Of(p, a)
           /\ \A i \in 1 .. Len(t), s \in Seq(T) :
                 Without(s, t, i) => Count(s, a) = Count(t, a) - Of(t[i], a)
<1> DEFINE D == {0}
           K == Len(t)
           q == [e \in D |-> t]
           d == 0
<1>1. IsFiniteSet(D) /\ K \in Nat /\ d \in D /\ q[d] = t
  <2>1. IsFiniteSet(D)
    BY FS_Singleton
  <2> QED BY <2>1
<1>2. q \in [D -> Seq(T)] /\ q \in Queues(D, T, K) /\ Count(t, a) = InAll(q, a)
  <2>1. Count(t, a) = InAll(q, a)
    BY CountIsInAll
  <2>2. q \in [D -> Seq(T)] /\ \A e \in D : Len(q[e]) <= K
    OBVIOUS
  <2> HIDE DEF q, K
  <2> QED BY <2>1, <2>2 DEF Queues
<1>3. ASSUME NEW s \in Seq(T)
      PROVE  Count(s, a) = InAll(Replaced(q, d, s), a)
  <2>1. Replaced(q, d, s) = [e \in {0} |-> s]
    BY DEF Replaced
  <2> HIDE DEF q
  <2> QED BY <2>1, CountIsInAll
<1> HIDE DEF D, K, q, d
<1>4. ASSUME NEW p \in T
      PROVE  Count(Append(t, p), a) = Count(t, a) + Of(p, a)
  <2>1. Replaced(q, d, Append(t, p)) = Enqueued(q, d, p)
    BY <1>1, <1>2 DEF Replaced, Enqueued
  <2>2. InAll(Enqueued(q, d, p), a) = InAll(q, a) + Of(p, a)
    BY <1>1, <1>2, AppendOne
  <2>3. Append(t, p) \in Seq(T)
    OBVIOUS
  <2> QED BY <1>2, <1>3, <2>1, <2>2, <2>3
<1>5. ASSUME NEW i \in 1 .. Len(t), NEW s \in Seq(T), Without(s, t, i)
      PROVE  Count(s, a) = Count(t, a) - Of(t[i], a)
  <2>1. i \in 1 .. Len(q[d]) /\ Without(s, q[d], i)
    BY <1>1, <1>5
  <2>2. InAll(Replaced(q, d, s), a) = InAll(q, a) - Of(q[d][i], a)
    BY <1>1, <1>2, <2>1, RemoveOne
  <2> QED BY <1>1, <1>2, <1>3, <2>2
<1> QED BY <1>4, <1>5

-----------------------------------------------------------------------------
(* BuildAgeQueue.                                                          *)

\* w is v with p at one more place.
WithOneMore(v, w, p) == \E m \in 1 .. Len(w) : w[m] = p /\ Without(v, w, m)

\* InsertAt makes room for one element.
LEMMA InsertedAt ==
    ASSUME NEW T, NEW v \in Seq(T), NEW p \in T, NEW i \in 1 .. Len(v)
    PROVE  InsertAt(v, i, p) \in Seq(T) /\ WithOneMore(v, InsertAt(v, i, p), p)
<1> DEFINE f == SubSeq(v, 1, i - 1)
           g == SubSeq(v, i, Len(v))
           h == f \o <<p>>
           w == h \o g
<1>1. f \in Seq(T) /\ Len(f) = i - 1 /\ \A j \in 1 .. i - 1 : f[j] = v[j]
  OBVIOUS
<1>2. /\ g \in Seq(T) /\ Len(g) = Len(v) - i + 1
      /\ \A j \in 1 .. Len(v) - i + 1 : g[j] = v[i + j - 1]
  OBVIOUS
<1>3. InsertAt(v, i, p) = w
  BY DEF InsertAt
<1> HIDE DEF f, g
<1>4. h \in Seq(T) /\ Len(h) = i /\ h[i] = p /\ \A j \in 1 .. i - 1 : h[j] = v[j]
  <2>1. h = Append(f, p)
    BY <1>1, AppendIsConcat
  <2> HIDE DEF h
  <2> QED BY <1>1, <2>1
<1> HIDE DEF h
<1>5. /\ w \in Seq(T) /\ Len(w) = Len(h) + Len(g)
      /\ \A j \in 1 .. Len(h) + Len(g) : w[j] = IF j <= Len(h) THEN h[j] ELSE g[j - Len(h)]
  BY <1>2, <1>4, ConcatProperties
<1> HIDE DEF w
<1>6. Len(w) = Len(v) + 1
  BY <1>2, <1>4, <1>5
<1>7. i \in 1 .. Len(w) /\ w[i] = p
  BY <1>2, <1>4, <1>5, <1>6
<1>8. ASSUME NEW j \in 1 .. Len(v)
      PROVE  v[j] = w[IF j < i THEN j ELSE j + 1]
  <2>1. CASE j < i
    <3>1. w[j] = h[j] /\ h[j] = v[j]
      BY <1>2, <1>4, <1>5, <2>1
    <3> QED BY <2>1, <3>1
  <2>2. CASE j >= i
    <3>1. j + 1 \in 1 .. Len(h) + Len(g) /\ j + 1 > Len(h)
      BY <1>2, <1>4, <2>2
    <3>2. w[j + 1] = g[j + 1 - i]
      BY <1>4, <1>5, <3>1
    <3>3. j + 1 - i \in 1 .. Len(v) - i + 1 /\ i + (j + 1 - i) - 1 = j
      BY <2>2
    <3>4. g[j + 1 - i] = v[j]
      BY <1>2, <3>3
    <3> QED BY <2>2, <3>2, <3>4
  <2> QED BY <2>1, <2>2
<1>9. Without(v, w, i)
  BY <1>6, <1>8 DEF Without
<1> QED BY <1>3, <1>5, <1>7, <1>9 DEF WithOneMore

\* Wherever BuildAgeQueue puts a source, it adds it and no other.
LEMMA InsertedPlace ==
    ASSUME NEW T, NEW v \in Seq(T), NEW p \in T, NEW c
    PROVE  Inserted(v, p, c) \in Seq(T) /\ WithOneMore(v, Inserted(v, p, c), p)
<1> DEFINE I == {i \in 1 .. Len(v) : c > v[i]}
           k == IF I # {} THEN Min(I) ELSE 0
<1>1. Inserted(v, p, c) = IF k = 0 THEN Append(v, p) ELSE InsertAt(v, k, p)
  BY DEF Inserted, SelectInSeq
<1>2. k \in 0 .. Len(v)
  <2>1. CASE I = {}
    BY <2>1
  <2>2. CASE I # {}
    <3>1. I \in SUBSET Nat /\ I \subseteq 1 .. Len(v)
      OBVIOUS
    <3> HIDE DEF I
    <3>2. Min(I) \in I
      BY <2>2, <3>1, LeastOf
    <3>3. Min(I) \in 1 .. Len(v)
      BY <3>1, <3>2, Zenon
    <3>4. \A x \in 1 .. Len(v) : x \in 0 .. Len(v)
      OBVIOUS
    <3> QED BY <2>2, <3>3, <3>4
  <2> QED BY <2>1, <2>2
<1> HIDE DEF k
<1>3. CASE k = 0
  <2> DEFINE w == Append(v, p)
             m == Len(v) + 1
  <2>1. w \in Seq(T) /\ Len(w) = m /\ w[m] = p /\ \A j \in 1 .. Len(v) : w[j] = v[j]
    OBVIOUS
  <2>2. m \in 1 .. m /\ \A j \in 1 .. Len(v) : j < m
    OBVIOUS
  <2> HIDE DEF w
  <2>3. Without(v, w, m)
    BY <2>1, <2>2 DEF Without
  <2>4. WithOneMore(v, w, p)
    BY <2>1, <2>2, <2>3 DEF WithOneMore
  <2> QED BY <1>1, <1>3, <2>1, <2>4 DEF w
<1>4. CASE k # 0
  <2>1. k \in 1 .. Len(v)
    BY <1>2, <1>4
  <2> QED BY <1>1, <1>4, <2>1, InsertedAt
<1> QED BY <1>3, <1>4

\* The sources in the order BuildAgeQueue looks at them: none comes twice.
Turn(i, n) == (i - 1 + clk) % n

\* Starting at any clock, n sources have their turns in n different steps.
LEMMA TurnsDiffer ==
    ASSUME NEW n \in Nat \ {0}, clk \in Nat, NEW i \in 1 .. n, NEW j \in 1 .. n,
           Turn(i, n) = Turn(j, n)
    PROVE  i = j
<1> DEFINE x == i - 1 + clk
           y == j - 1 + clk
           a == x \div n
           b == y \div n
           r == x % n
<1>1. x \in Nat /\ y \in Nat /\ y % n = r
  BY DEF Turn
<1> HIDE DEF x, y
<1>2. a \in Nat /\ b \in Nat /\ r \in 0 .. n - 1 /\ x = a * n + r /\ y = b * n + r
  BY <1>1, QuotientRemainder
<1> HIDE DEF a, b, r
<1>3. ASSUME NEW u \in Nat, NEW w \in Nat, u < w
      PROVE  w * n >= u * n + n
  <2> DEFINE d == w - u - 1
  <2>1. d \in Nat /\ w = u + 1 + d
    BY <1>3
  <2> HIDE DEF d
  <2>2. w * n = u * n + n + d * n /\ d * n \in Nat /\ u * n \in Nat
    BY <2>1
  <2> QED BY <2>2
<1>4. a * n \in Int /\ b * n \in Int
  BY <1>2
<1>5. x - y = i - j /\ i - j < n /\ j - i < n
  BY DEF x, y
<1>6. ~(a < b)
  <2> SUFFICES ASSUME a < b PROVE FALSE
    OBVIOUS
  <2>1. b * n >= a * n + n
    BY <1>2, <1>3
  <2>2. y - x = b * n - a * n /\ y - x = j - i
    BY <1>1, <1>2, <1>4, <1>5
  <2> QED BY <1>4, <1>5, <2>1, <2>2
<1>7. ~(b < a)
  <2> SUFFICES ASSUME b < a PROVE FALSE
    OBVIOUS
  <2>1. a * n >= b * n + n
    BY <1>2, <1>3
  <2>2. x - y = a * n - b * n
    BY <1>1, <1>2, <1>4
  <2> QED BY <1>4, <1>5, <2>1, <2>2
<1>8. a = b
  BY <1>2, <1>6, <1>7
<1> QED BY <1>2, <1>5, <1>8

\* The queue of the sources that have had their turn: those that wait, each once.
InTurn(v, age, n, i) ==
    /\ \A k \in 1 .. Len(v) : age[v[k]] > 0 /\ \E j \in 1 .. i : v[k] = Turn(j, n)
    /\ \A k, l \in 1 .. Len(v) : v[k] = v[l] => k = l

\* A source that waits and has its turn was not in the queue.
LEMMA InTurnGrows ==
    ASSUME NEW n \in Nat \ {0}, clk \in Nat, NEW age, NEW i \in 1 .. n,
           NEW v \in Seq(0 .. n - 1), InTurn(v, age, n, i - 1),
           NEW w \in Seq(0 .. n - 1), age[Turn(i, n)] > 0, WithOneMore(v, w, Turn(i, n))
    PROVE  InTurn(w, age, n, i)
<1>1. PICK m \in 1 .. Len(w) : w[m] = Turn(i, n) /\ Without(v, w, m)
  BY DEF WithOneMore
<1>2. Len(v) = Len(w) - 1 /\ Len(w) \in Nat
  BY <1>1 DEF Without
<1> DEFINE dn(k) == IF k < m THEN k ELSE k - 1
<1>3. ASSUME NEW k \in 1 .. Len(w), k # m
      PROVE  dn(k) \in 1 .. Len(v) /\ w[k] = v[dn(k)]
  <2>1. dn(k) \in 1 .. Len(v)
    BY <1>2, <1>3
  <2>2. v[dn(k)] = w[IF dn(k) < m THEN dn(k) ELSE dn(k) + 1]
    <3> HIDE DEF dn
    <3> QED BY <1>1, <2>1 DEF Without
  <2>3. (IF dn(k) < m THEN dn(k) ELSE dn(k) + 1) = k
    BY <1>3
  <2> QED BY <2>1, <2>2, <2>3
<1>4. ASSUME NEW k \in 1 .. Len(w), NEW l \in 1 .. Len(w), k # m, l # m, dn(k) = dn(l)
      PROVE  k = l
  BY <1>4
<1> HIDE DEF dn
<1>5. ASSUME NEW k \in 1 .. Len(w), k # m
      PROVE  w[k] # w[m]
  <2>1. PICK j \in 1 .. i - 1 : w[k] = Turn(j, n)
    BY <1>3, <1>5 DEF InTurn
  <2>2. j \in 1 .. n /\ j # i
    OBVIOUS
  <2> QED BY <1>1, <2>1, <2>2, TurnsDiffer
<1>6. ASSUME NEW k \in 1 .. Len(w)
      PROVE  age[w[k]] > 0 /\ \E j \in 1 .. i : w[k] = Turn(j, n)
  <2>1. CASE k = m
    <3>1. w[k] = Turn(i, n) /\ i \in 1 .. i
      BY <1>1, <2>1
    <3> QED BY <3>1
  <2>2. CASE k # m
    <3>1. dn(k) \in 1 .. Len(v) /\ w[k] = v[dn(k)]
      BY <1>3, <2>2
    <3>2. age[v[dn(k)]] > 0 /\ \E j \in 1 .. i - 1 : v[dn(k)] = Turn(j, n)
      BY <3>1 DEF InTurn
    <3>3. \A j \in 1 .. i - 1 : j \in 1 .. i
      OBVIOUS
    <3> QED BY <3>1, <3>2, <3>3
  <2> QED BY <2>1, <2>2
<1>7. ASSUME NEW k \in 1 .. Len(w), NEW l \in 1 .. Len(w), w[k] = w[l]
      PROVE  k = l
  <2>1. CASE k # m /\ l # m
    <3>1. v[dn(k)] = v[dn(l)] /\ dn(k) \in 1 .. Len(v) /\ dn(l) \in 1 .. Len(v)
      BY <1>3, <1>7, <2>1
    <3>2. dn(k) = dn(l)
      BY <3>1 DEF InTurn
    <3> QED BY <1>4, <2>1, <3>2
  <2>2. CASE k = m \/ l = m
    BY <1>5, <1>7, <2>2
  <2> QED BY <2>1, <2>2
<1> QED BY <1>6, <1>7 DEF InTurn

\* The age queue holds sources that wait, each once.
AgeQueue(v, age, n) ==
    /\ v \in Seq(0 .. n - 1)
    /\ \A k \in 1 .. Len(v) : age[v[k]] > 0
    /\ \A k, l \in 1 .. Len(v) : v[k] = v[l] => k = l

\* BuildAgeQueue returns such a queue, whatever the ages.
LEMMA AgeQueueHolds ==
    ASSUME NEW n \in Nat \ {0}, clk \in Nat, NEW age
    PROVE  AgeQueue(BuildAgeQueue(age, n), age, n)
<1> DEFINE S == Seq(0 .. n - 1)
           b == << >>
           add(i, v) == IF age[Turn(i, n)] > 0
                        THEN Inserted(v, Turn(i, n), age[Turn(i, n)]) ELSE v
           step == [i \in 1 .. n |-> [v \in S |-> add(i, v)]]
<1>1. ASSUME NEW i \in 1 .. n, NEW v \in S
      PROVE  /\ add(i, v) \in S /\ Turn(i, n) \in 0 .. n - 1
             /\ age[Turn(i, n)] > 0 => WithOneMore(v, add(i, v), Turn(i, n))
  <2>1. Turn(i, n) \in 0 .. n - 1
    BY DEF Turn
  <2> QED BY <2>1, InsertedPlace
<1>2. b \in S /\ n \in Nat
  OBVIOUS
<1> HIDE DEF add
<1>3. step \in [1 .. n -> [S -> S]] /\ \A i \in 1 .. n, v \in S : step[i][v] = add(i, v)
  <2> HIDE DEF S
  <2> QED BY <1>1
<1> HIDE DEF step, b
<1>4. PICK g \in [0 .. n -> S] : /\ g[0] = b
                                 /\ \A i \in 1 .. n : g[i] = step[i][g[i - 1]]
  <2> HIDE DEF S
  <2>1. Iterates(n, S, b, step)
    BY <1>2, <1>3, Iteration
  <2> QED BY <2>1 DEF Iterates
<1> HIDE DEF S
<1>5. ASSUME NEW i \in 0 .. n
      PROVE  g[i] = IF i = 0 THEN << >> ELSE add(i, g[i - 1])
  <2>1. CASE i = 0
    BY <1>4, <2>1 DEF b
  <2>2. CASE i # 0
    <3>1. i \in 1 .. n /\ i - 1 \in 0 .. n
      BY <2>2
    <3>2. g[i] = step[i][g[i - 1]] /\ g[i - 1] \in S
      BY <1>4, <3>1
    <3> QED BY <1>3, <2>2, <3>1, <3>2
  <2> QED BY <2>1, <2>2
<1> DEFINE Eq(q) == q = [i \in 0 .. n |-> IF i = 0 THEN << >> ELSE add(i, q[i - 1])]
<1>6. Eq(g)
  BY <1>5
<1>7. BuildAgeQueue(age, n) = (CHOOSE q : Eq(q))[n]
  BY DEF BuildAgeQueue, add, Turn
<1>8. PICK q : Eq(q) /\ BuildAgeQueue(age, n) = q[n]
  <2> HIDE DEF Eq
  <2> QED BY <1>6, <1>7
<1>9. \A i \in 0 .. n : q[i] = IF i = 0 THEN << >> ELSE add(i, q[i - 1])
  BY <1>8
<1> HIDE DEF Eq
<1> DEFINE P == {i \in 0 .. n : q[i] \in S /\ InTurn(q[i], age, n, i)}
<1>10. 0 \in P
  <2>1. q[0] = << >> /\ q[0] \in S
    BY <1>2, <1>9 DEF b
  <2>2. InTurn(<< >>, age, n, 0)
    BY DEF InTurn
  <2> QED BY <2>1, <2>2
<1>11. ASSUME NEW j \in 0 .. n - 1, j \in P PROVE j + 1 \in P
  <2> DEFINE i == j + 1
             v == q[j]
             w == q[i]
  <2>1. i \in 1 .. n /\ i \in 0 .. n /\ i - 1 = j /\ i # 0 /\ v \in S
    BY <1>11
  <2>2. InTurn(v, age, n, i - 1)
    BY <1>11, <2>1
  <2> HIDE DEF i
  <2>3. w = add(i, v)
    BY <1>9, <2>1
  <2>4. w \in S
    BY <1>1, <2>1, <2>3
  <2> HIDE DEF v, w
  <2>5. CASE age[Turn(i, n)] > 0
    <3>1. WithOneMore(v, w, Turn(i, n))
      BY <1>1, <2>1, <2>3, <2>5
    <3>2. InTurn(w, age, n, i)
      BY <2>1, <2>2, <2>4, <2>5, <3>1, InTurnGrows DEF S
    <3> QED BY <2>1, <2>4, <3>2 DEF i, w
  <2>6. CASE ~(age[Turn(i, n)] > 0)
    <3>1. w = v
      BY <2>3, <2>6 DEF add
    <3>2. InTurn(v, age, n, i)
      BY <2>1, <2>2 DEF InTurn
    <3> QED BY <2>1, <3>1, <3>2 DEF i, w
  <2> QED BY <2>5, <2>6
<1> HIDE DEF P
<1>12. \A i \in 0 .. n : i \in P
  BY <1>2, <1>10, <1>11, Induction
<1>13. q[n] \in S /\ InTurn(q[n], age, n, n)
  BY <1>12 DEF P
<1> QED BY <1>8, <1>13 DEF InTurn, AgeQueue, S

-----------------------------------------------------------------------------
(* The crossbar.                                                           *)

\* Packets of T can go to D.
Routed(back, D, T) ==
    \A p \in T : /\ Dest(p, back) \in D /\ Flits(p, back) \in Nat
                 /\ \A n \in Nat : /\ [p EXCEPT !.left = n] \in T
                                   /\ [p EXCEPT !.left = n].addr = p.addr

\* Requests are routed to quadrants and responses to links.
LEMMA BothWays == Routed(FALSE, Quad, Request) /\ Routed(TRUE, Link, Response)
<1>1. /\ QuadOf \in [Addr -> 0 .. Quads - 1]
      /\ ReqFlits \in [BOOLEAN -> Nat] /\ RespFlits \in [BOOLEAN -> Nat]
  BY HMCConstants
<1>2. ASSUME NEW p \in Request
      PROVE  /\ Dest(p, FALSE) \in Quad /\ Flits(p, FALSE) \in Nat
             /\ \A n \in Nat : /\ [p EXCEPT !.left = n] \in Request
                               /\ [p EXCEPT !.left = n].addr = p.addr
  <2>1. p.addr \in Addr /\ p.write \in BOOLEAN
    BY DEF Request
  <2>2. Dest(p, FALSE) \in Quad /\ Flits(p, FALSE) \in Nat
    BY <1>1, <2>1 DEF Dest, Flits, Quad
  <2>3. ASSUME NEW n \in Nat
        PROVE  [p EXCEPT !.left = n] \in Request /\ [p EXCEPT !.left = n].addr = p.addr
    BY DEF Request
  <2> QED BY <2>2, <2>3
<1>3. ASSUME NEW p \in Response
      PROVE  /\ Dest(p, TRUE) \in Link /\ Flits(p, TRUE) \in Nat
             /\ \A n \in Nat : /\ [p EXCEPT !.left = n] \in Response
                               /\ [p EXCEPT !.left = n].addr = p.addr
  <2>1. p.addr \in Addr /\ p.write \in BOOLEAN /\ p.link \in Link
    BY DEF Response
  <2>2. Dest(p, TRUE) \in Link /\ Flits(p, TRUE) \in Nat
    BY <1>1, <2>1 DEF Dest, Flits
  <2>3. ASSUME NEW n \in Nat
        PROVE  [p EXCEPT !.left = n] \in Response /\ [p EXCEPT !.left = n].addr = p.addr
    BY DEF Response
  <2> QED BY <2>2, <2>3
<1> QED BY <1>2, <1>3 DEF Routed

\* A crossbar whose destinations are not overfull, and whose sources are counted as
\* waiting just when they have a packet.
Xbar(S, D, T) ==
    [from : [S -> Seq(T)], to : [D -> Seq(T)], busy : [D -> Int], age : [S -> Nat]]
XbarOK(x, S, D, T) ==
    /\ x \in Xbar(S, D, T)
    /\ \A d \in D : Len(x.to[d]) <= QueueDepth
    /\ \A s \in S : x.age[s] > 0 <=> x.from[s] # << >>

\* What a step from x to y does to the other sources, and to the packets of an address.
OnlyServes(x, y, s, S) ==
    \A e \in S : Len(y.from[e]) <= Len(x.from[e]) /\ (e # s => y.age[e] = x.age[e])
SameTotal(x, y) ==
    \A a : InAll(y.from, a) + InAll(y.to, a) = InAll(x.from, a) + InAll(x.to, a)

\* Serving a source that waits: its head crosses or it grows older.
LEMMA Crosses ==
    ASSUME NEW S, NEW D, NEW T, NEW back, Routed(back, D, T),
           NEW x, XbarOK(x, S, D, T), NEW s \in S, x.age[s] > 0,
           IsFiniteSet(S), IsFiniteSet(D)
    PROVE  LET y == Cross(x, s, back)
           IN  /\ XbarOK(y, S, D, T) /\ OnlyServes(x, y, s, S)
               /\ (\A e \in S : Len(x.from[e]) <= QueueDepth) => SameTotal(x, y)
<1> DEFINE p == Head(x.from[s])
           d == Dest(p, back)
           n == Flits(p, back)
           p1 == [p EXCEPT !.left = n]
           y == Cross(x, s, back)
<1>1. /\ x \in Xbar(S, D, T) /\ x.from \in [S -> Seq(T)] /\ x.to \in [D -> Seq(T)]
      /\ x.busy \in [D -> Int] /\ x.age \in [S -> Nat]
      /\ \A e \in D : Len(x.to[e]) <= QueueDepth
      /\ \A e \in S : x.age[e] > 0 <=> x.from[e] # << >>
      /\ x = [from |-> x.from, to |-> x.to, busy |-> x.busy, age |-> x.age]
  BY DEF XbarOK, Xbar
<1>2. x.from[s] \in Seq(T) /\ x.from[s] # << >>
  BY <1>1
<1>3. /\ Tail(x.from[s]) \in Seq(T) /\ p \in T /\ p = x.from[s][1]
      /\ 1 \in 1 .. Len(x.from[s]) /\ Without(Tail(x.from[s]), x.from[s], 1)
      /\ Len(Tail(x.from[s])) = Len(x.from[s]) - 1 /\ Len(x.from[s]) \in Nat
  BY <1>2, TailWithout
<1>4. d \in D /\ n \in Nat /\ p1 \in T /\ p1.addr = p.addr
  <2> HIDE DEF p
  <2> QED BY <1>3 DEF Routed
<1>5. CASE Len(x.to[d]) < QueueDepth /\ x.busy[d] <= 0
  <2> DEFINE from == Replaced(x.from, s, Tail(x.from[s]))
             to == Enqueued(x.to, d, p1)
             busy == [x.busy EXCEPT ![d] = n]
             age == [x.age EXCEPT ![s] = IF Len(x.from[s]) = 1 THEN 0 ELSE 1]
  <2>1. y = [from |-> from, to |-> to, busy |-> busy, age |-> age]
    BY <1>5 DEF Cross, Replaced, Enqueued
  <2> HIDE DEF y, p, d, n, p1
  <2>2. /\ from \in [S -> Seq(T)] /\ from[s] = Tail(x.from[s])
        /\ \A e \in S : e # s => from[e] = x.from[e]
    BY <1>1, <1>3 DEF Replaced
  <2>3. /\ to \in [D -> Seq(T)] /\ to[d] = Append(x.to[d], p1)
        /\ \A e \in D : e # d => to[e] = x.to[e]
    BY <1>1, <1>4 DEF Enqueued
  <2>4. busy \in [D -> Int]
    BY <1>1, <1>4
  <2>5. /\ age \in [S -> Nat] /\ age[s] = IF Len(x.from[s]) = 1 THEN 0 ELSE 1
        /\ \A e \in S : e # s => age[e] = x.age[e]
    BY <1>1
  <2> HIDE DEF from, to, busy, age
  <2>6. y.from = from /\ y.to = to /\ y.busy = busy /\ y.age = age
    BY <2>1
  <2>7. y \in Xbar(S, D, T)
    BY <2>1, <2>2, <2>3, <2>4, <2>5 DEF Xbar
  <2>8. ASSUME NEW e \in D PROVE Len(to[e]) <= QueueDepth
    <3>1. CASE e = d
      <4>1. Len(to[d]) = Len(x.to[d]) + 1 /\ Len(x.to[d]) \in Nat
        BY <1>1, <1>4, <2>3
      <4> QED BY <1>5, <3>1, <4>1, HMCConstants
    <3>2. CASE e # d
      BY <1>1, <2>3, <3>2
    <3> QED BY <3>1, <3>2
  <2>9. ASSUME NEW e \in S PROVE age[e] > 0 <=> from[e] # << >>
    <3>1. CASE e = s
      <4>1. from[s] = << >> <=> Len(x.from[s]) = 1
        <5>1. from[s] \in Seq(T) /\ Len(from[s]) = Len(x.from[s]) - 1
          BY <1>3, <2>2
        <5>2. from[s] = << >> <=> Len(from[s]) = 0
          BY <5>1, EmptySeq
        <5> QED BY <1>3, <5>1, <5>2
      <4> QED BY <2>5, <3>1, <4>1
    <3>2. CASE e # s
      BY <1>1, <2>2, <2>5, <3>2
    <3> QED BY <3>1, <3>2
  <2>10. XbarOK(y, S, D, T)
    BY <2>6, <2>7, <2>8, <2>9 DEF XbarOK
  <2>11. ASSUME NEW e \in S PROVE Len(from[e]) <= Len(x.from[e])
    <3>1. CASE e = s
      BY <1>3, <2>2, <3>1
    <3>2. CASE e # s
      <4>1. Len(x.from[e]) \in Nat
        BY <1>1
      <4> QED BY <2>2, <3>2, <4>1
    <3> QED BY <3>1, <3>2
  <2>12. OnlyServes(x, y, s, S)
    BY <2>5, <2>6, <2>11 DEF OnlyServes
  <2>13. ASSUME \A e \in S : Len(x.from[e]) <= QueueDepth PROVE SameTotal(x, y)
    <3>1. /\ QueueDepth \in Nat /\ x.from \in Queues(S, T, QueueDepth)
          /\ x.to \in Queues(D, T, QueueDepth)
      BY <1>1, <2>13, HMCConstants DEF Queues
    <3> SUFFICES ASSUME NEW a
                 PROVE  InAll(from, a) + InAll(to, a) = InAll(x.from, a) + InAll(x.to, a)
      BY <2>6 DEF SameTotal
    <3> DEFINE r == Tail(x.from[s])
               u == x.from
               v == x.to
               i == 1
    <3>2. /\ u \in Queues(S, T, QueueDepth) /\ i \in 1 .. Len(u[s]) /\ r \in Seq(T)
          /\ Without(r, u[s], i) /\ u[s][i] = p
      BY <1>3, <3>1
    <3>3. v \in Queues(D, T, QueueDepth)
      BY <3>1
    <3>4. from = Replaced(u, s, r) /\ to = Enqueued(v, d, p1)
      BY DEF from, to
    <3> HIDE DEF r, u, v, i
    <3>5. InAll(from, a) = InAll(u, a) - Of(p, a)
      BY <3>1, <3>2, <3>4, RemoveOne
    <3>6. InAll(to, a) = InAll(v, a) + Of(p1, a)
      BY <1>4, <3>1, <3>3, <3>4, AppendOne
    <3>7. Of(p1, a) = Of(p, a) /\ Of(p, a) \in Nat
      BY <1>4 DEF Of
    <3>8. InAll(u, a) \in Nat /\ InAll(v, a) \in Nat
      BY <3>1, <3>2, <3>3, FinitePlaces
    <3> QED BY <3>5, <3>6, <3>7, <3>8 DEF u, v
  <2> QED BY <2>10, <2>12, <2>13 DEF y
<1>6. CASE ~(Len(x.to[d]) < QueueDepth /\ x.busy[d] <= 0)
  <2> DEFINE older == IF x.age[s] >= MaxAge THEN x.age[s] ELSE x.age[s] + 1
             age == [x.age EXCEPT ![s] = older]
  <2>1. y = [x EXCEPT !.age = age]
    BY <1>1, <1>6 DEF Cross
  <2>2. y = [from |-> x.from, to |-> x.to, busy |-> x.busy, age |-> age]
    BY <1>1, <2>1
  <2> HIDE DEF y, p, d, n, p1
  <2>3. x.age[s] \in Nat /\ older \in Nat /\ older > 0
    BY <1>1
  <2> HIDE DEF older
  <2>4. /\ age \in [S -> Nat] /\ age[s] = older
        /\ \A e \in S : e # s => age[e] = x.age[e]
    BY <1>1, <2>3
  <2> HIDE DEF age
  <2>5. y.from = x.from /\ y.to = x.to /\ y.busy = x.busy /\ y.age = age
    BY <2>2
  <2>6. y \in Xbar(S, D, T)
    BY <1>1, <2>2, <2>4 DEF Xbar
  <2>7. ASSUME NEW e \in S PROVE age[e] > 0 <=> x.from[e] # << >>
    BY <1>1, <1>2, <2>3, <2>4
  <2>8. XbarOK(y, S, D, T)
    BY <1>1, <2>5, <2>6, <2>7 DEF XbarOK
  <2>9. \A e \in S : Len(x.from[e]) \in Nat
    BY <1>1
  <2>10. OnlyServes(x, y, s, S) /\ SameTotal(x, y)
    BY <2>4, <2>5, <2>9 DEF OnlyServes, SameTotal
  <2> QED BY <2>8, <2>10 DEF y
<1> QED BY <1>5, <1>6

\* The crossbar as a whole: what holds of one step holds of all.
Served(x, queue, back, q) ==
    q = [i \in 0 .. Len(queue) |-> IF i = 0 THEN x ELSE Cross(q[i - 1], queue[i], back)]

\* The sources can be served one after the other.
LEMMA ServedExists ==
    ASSUME NEW x, NEW T, NEW queue \in Seq(T), NEW back
    PROVE  \E q : Served(x, queue, back, q)
<1> DEFINE n == Len(queue)
           C(v, i) == Cross(v, queue[i], back)
           F(k, q) == q = [i \in 0 .. k |-> IF i = 0 THEN x ELSE C(q[i - 1], i)]
           P == {k \in 0 .. n : \E q : F(k, q)}
<1>1. n \in Nat
  OBVIOUS
<1> HIDE DEF n, C
<1>2. 0 \in P
  <2> DEFINE g == [i \in 0 .. 0 |-> x]
  <2>1. F(0, g)
    OBVIOUS
  <2> HIDE DEF F
  <2> QED BY <1>1, <2>1
<1>3. ASSUME NEW k \in 0 .. n - 1, k \in P PROVE k + 1 \in P
  <2>1. PICK g : F(k, g)
    BY <1>3
  <2> DEFINE h == [i \in 0 .. k + 1 |-> IF i <= k THEN g[i] ELSE C(g[k], k + 1)]
  <2>2. \A i \in 0 .. k : g[i] = IF i = 0 THEN x ELSE C(g[i - 1], i)
    BY <2>1
  <2>3. ASSUME NEW i \in 0 .. k + 1
        PROVE  h[i] = IF i = 0 THEN x ELSE C(h[i - 1], i)
    <3>1. CASE i <= k
      <4>1. h[i] = g[i] /\ (i # 0 => h[i - 1] = g[i - 1]) /\ i \in 0 .. k
        BY <3>1
      <4> QED BY <2>2, <4>1
    <3>2. CASE i = k + 1
      <4>1. h[i] = C(g[k], i) /\ h[i - 1] = g[k] /\ i # 0
        BY <3>2
      <4> QED BY <4>1
    <3> QED BY <3>1, <3>2
  <2>4. F(k + 1, h)
    BY <2>3
  <2>5. k + 1 \in 0 .. n
    BY <1>1
  <2> HIDE DEF F
  <2> QED BY <2>4, <2>5
<1> HIDE DEF P
<1>4. \A k \in 0 .. n : k \in P
  BY <1>1, <1>2, <1>3, Induction
<1>5. n \in P
  BY <1>1, <1>4
<1>6. PICK q : F(n, q)
  BY <1>5 DEF P
<1>7. Served(x, queue, back, q)
  BY <1>6 DEF Served, n, C
<1> QED BY <1>7

\* The packets of the sources and of the destinations are conserved.
Carries(x, y, S) ==
    /\ \A e \in S : Len(y.from[e]) <= Len(x.from[e])
    /\ (\A e \in S : Len(x.from[e]) <= QueueDepth) => SameTotal(x, y)

\* A source that is still to be served has the age that put it into the queue, so its
\* head is never taken from an empty queue.
LEMMA CrossbarCarries ==
    ASSUME NEW n \in Nat \ {0}, NEW S, S = 0 .. n - 1, NEW D, IsFiniteSet(D), NEW T,
           NEW back, Routed(back, D, T), NEW x, XbarOK(x, S, D, T),
           NEW queue, AgeQueue(queue, x.age, n)
    PROVE  LET y == Crossbar(x, queue, back)
           IN  XbarOK(y, S, D, T) /\ Carries(x, y, S)
<1> DEFINE m == Len(queue)
<1>1. /\ queue \in Seq(S) /\ m \in Nat
      /\ \A k \in 1 .. m : queue[k] \in S /\ x.age[queue[k]] > 0
      /\ \A k, l \in 1 .. m : queue[k] = queue[l] => k = l
  BY DEF AgeQueue
<1>2. PICK q : Served(x, queue, back, q) /\ Crossbar(x, queue, back) = q[m]
  <2>1. \E q : Served(x, queue, back, q)
    BY <1>1, ServedExists
  <2>2. Crossbar(x, queue, back) = (CHOOSE q : Served(x, queue, back, q))[m]
    BY DEF Crossbar, Served
  <2> QED BY <2>1, <2>2
<1>3. \A i \in 0 .. m : q[i] = IF i = 0 THEN x ELSE Cross(q[i - 1], queue[i], back)
  BY <1>2 DEF Served
<1> HIDE DEF m
<1>4. IsFiniteSet(S)
  BY FS_Interval
<1> DEFINE Later(y, i) == \A k \in i + 1 .. m : y.age[queue[k]] = x.age[queue[k]]
           P == {i \in 0 .. m : /\ XbarOK(q[i], S, D, T) /\ Carries(x, q[i], S)
                                /\ Later(q[i], i)}
<1>5. ASSUME NEW y, XbarOK(y, S, D, T)
      PROVE  \A e \in S : Len(y.from[e]) \in Nat
  <2>1. y.from \in [S -> Seq(T)]
    BY <1>5 DEF XbarOK, Xbar
  <2> QED BY <2>1
<1>6. 0 \in P
  <2>1. q[0] = x
    BY <1>1, <1>3
  <2>2. Carries(x, x, S)
    BY <1>5 DEF Carries, SameTotal
  <2> QED BY <1>1, <2>1, <2>2
<1>7. ASSUME NEW i \in 0 .. m - 1, i \in P PROVE i + 1 \in P
  <2> DEFINE y == q[i]
             z == q[i + 1]
             s == queue[i + 1]
  <2>1. i + 1 \in 1 .. m /\ i + 1 \in 0 .. m /\ z = Cross(y, s, back)
    BY <1>1, <1>3
  <2>2. XbarOK(y, S, D, T) /\ Carries(x, y, S) /\ Later(y, i)
    BY <1>7
  <2>3. s \in S /\ y.age[s] > 0
    <3>1. y.age[s] = x.age[s]
      BY <2>1, <2>2
    <3> QED BY <1>1, <2>1, <3>1
  <2> HIDE DEF y, z, s
  <2>4. /\ XbarOK(z, S, D, T) /\ OnlyServes(y, z, s, S)
        /\ (\A e \in S : Len(y.from[e]) <= QueueDepth) => SameTotal(y, z)
    BY <1>4, <2>1, <2>2, <2>3, Crosses
  <2>5. Carries(x, z, S)
    <3> DEFINE a(e) == Len(x.from[e])
               b(e) == Len(y.from[e])
               c(e) == Len(z.from[e])
    <3>1. \A e \in S : /\ a(e) \in Nat /\ b(e) \in Nat /\ c(e) \in Nat
                       /\ c(e) <= b(e) /\ b(e) <= a(e)
      BY <1>5, <2>2, <2>4 DEF OnlyServes, Carries
    <3> HIDE DEF a, b, c
    <3>2. \A e \in S : c(e) <= a(e) /\ (a(e) <= QueueDepth => b(e) <= QueueDepth)
      BY <3>1, HMCConstants
    <3>3. ASSUME \A e \in S : Len(x.from[e]) <= QueueDepth PROVE SameTotal(x, z)
      <4>1. \A e \in S : Len(y.from[e]) <= QueueDepth
        BY <3>2, <3>3 DEF a, b
      <4>2. SameTotal(x, y) /\ SameTotal(y, z)
        BY <2>2, <2>4, <3>3, <4>1 DEF Carries
      <4> QED BY <4>2 DEF SameTotal
    <3> QED BY <3>2, <3>3 DEF Carries, a, c
  <2>6. Later(z, i + 1)
    <3> SUFFICES ASSUME NEW k \in i + 1 + 1 .. m PROVE z.age[queue[k]] = x.age[queue[k]]
      OBVIOUS
    <3>1. k \in 1 .. m /\ k \in i + 1 .. m /\ k # i + 1
      BY <1>1
    <3>2. queue[k] \in S /\ queue[k] # s
      BY <1>1, <2>1, <3>1 DEF s
    <3> QED BY <2>2, <2>4, <3>1, <3>2 DEF OnlyServes
  <2> QED BY <2>1, <2>4, <2>5, <2>6 DEF z
<1> HIDE DEF P
<1>8. \A i \in 0 .. m : i \in P
  BY <1>1, <1>6, <1>7, Induction
<1>9. m \in P
  BY <1>1, <1>8
<1> QED BY <1>2, <1>9 DEF P

-----------------------------------------------------------------------------
(* The cube.                                                               *)

\* The sizes of HMCConstants, one by one.
LEMMA CubeSizes ==
    /\ Links \in Nat \ {0} /\ Quads \in Nat \ {0}
    /\ QueueDepth \in Nat \ {0} /\ VaultDepth \in Nat \ {0} /\ MaxRequests \in Nat
    /\ IsFiniteSet(Link) /\ IsFiniteSet(Quad)
<1>1. /\ Links \in Nat \ {0} /\ Quads \in Nat \ {0}
      /\ QueueDepth \in Nat \ {0} /\ VaultDepth \in Nat \ {0} /\ MaxRequests \in Nat
  BY HMCConstants
<1>2. IsFiniteSet(Link) /\ IsFiniteSet(Quad)
  BY <1>1, FS_Interval DEF Link, Quad
<1> QED BY <1>1, <1>2

\* Some link that is not full is found.
LEMMA LinkFound ==
    ASSUME nextLink \in Link, WillAcceptTransaction
    PROVE  ChosenLink \in Link /\ ~Full(ChosenLink)
<1> DEFINE I == {i \in 0 .. Links - 1 : ~Full((nextLink + i) % Links)}
<1>1. Links \in Nat \ {0}
  BY CubeSizes
<1>2. ASSUME NEW l \in Link
      PROVE  \E i \in 0 .. Links - 1 : (nextLink + i) % Links = l
  <2>1. l \in 0 .. Links - 1 /\ nextLink \in 0 .. Links - 1
    BY DEF Link
  <2>2. CASE l >= nextLink
    <3>1. l - nextLink \in 0 .. Links - 1 /\ nextLink + (l - nextLink) = l
      BY <1>1, <2>1, <2>2
    <3>2. l % Links = l
      BY <1>1, <2>1
    <3> QED BY <3>1, <3>2
  <2>3. CASE l < nextLink
    <3> DEFINE i == l - nextLink + Links
               c == l + Links
               a == c \div Links
               r == c % Links
    <3>1. c \in Nat
      BY <1>1, <2>1
    <3>2. i \in 0 .. Links - 1 /\ nextLink + i = c
      BY <1>1, <2>1, <2>3
    <3>3. /\ a \in Nat /\ r \in 0 .. Links - 1 /\ c = a * Links + r
      <4> HIDE DEF c
      <4> QED BY <1>1, <3>1, QuotientRemainder
    <3> HIDE DEF a, r, i
    <3> DEFINE b == 1
    <3>4. b \in Nat /\ a * Links + r = b * Links + l
      BY <1>1, <2>1, <3>3
    <3> HIDE DEF b
    <3>5. r = l
      BY <1>1, <2>1, <3>3, <3>4, DigitsUnique
    <3> QED BY <3>2, <3>5 DEF r
  <2> QED BY <2>1, <2>2, <2>3
<1>3. I # {} /\ I \in SUBSET Nat
  BY <1>2 DEF WillAcceptTransaction
<1>4. Min(I) \in I
  <2> HIDE DEF I
  <2> QED BY <1>3, LeastOf
<1>5. ChosenLink = (nextLink + Min(I)) % Links
  BY DEF ChosenLink
<1>6. PICK d : d = Min(I)
  OBVIOUS
<1>7. d \in 0 .. Links - 1 /\ ~Full((nextLink + d) % Links)
  BY <1>4, <1>6
<1>8. (nextLink + d) % Links \in Link
  BY <1>1, <1>7 DEF Link
<1> QED BY <1>5, <1>6, <1>7, <1>8

\* A packet that is nearer is a packet of the same address.
LEMMA NearerKeeps ==
    ASSUME NEW D, NEW T \in {Request, Response}, NEW q \in [D -> Seq(T)]
    PROVE  /\ Nearer(q) \in [D -> Seq(T)]
           /\ \A d \in D : Len(Nearer(q)[d]) = Len(q[d])
           /\ \A a : InAll(Nearer(q), a) = InAll(q, a)
<1> DEFINE near(p) == [p EXCEPT !.left = IF @ > 0 THEN @ - 1 ELSE 0]
<1>1. ASSUME NEW p \in T PROVE near(p) \in T /\ near(p).addr = p.addr
  <2>1. CASE T = Request
    <3>1. p \in Request /\ p.left \in Nat
      BY <2>1 DEF Request
    <3>2. (IF p.left > 0 THEN p.left - 1 ELSE 0) \in Nat
      BY <3>1
    <3> QED BY <2>1, <3>1, <3>2 DEF Request
  <2>2. CASE T = Response
    <3>1. p \in Response /\ p.left \in Nat
      BY <2>2 DEF Response
    <3>2. (IF p.left > 0 THEN p.left - 1 ELSE 0) \in Nat
      BY <3>1
    <3> QED BY <2>2, <3>1, <3>2 DEF Response
  <2> QED BY <2>1, <2>2
<1>2. Nearer(q) = [d \in D |-> [i \in DOMAIN q[d] |-> near(q[d][i])]]
  BY DEF Nearer
<1> HIDE DEF near
<1>3. ASSUME NEW d \in D
      PROVE  /\ Nearer(q)[d] \in Seq(T) /\ Len(Nearer(q)[d]) = Len(q[d])
             /\ \A i \in 1 .. Len(q[d]) : Nearer(q)[d][i].addr = q[d][i].addr
  <2> DEFINE s == q[d]
             n == Len(s)
             t == [i \in 1 .. n |-> near(s[i])]
  <2>1. Nearer(q)[d] = t
    BY <1>2
  <2>2. n \in Nat /\ \A i \in 1 .. n : s[i] \in T
    OBVIOUS
  <2> HIDE DEF s, n
  <2>3. \A i \in 1 .. n : t[i] = near(s[i]) /\ t[i] \in T /\ t[i].addr = s[i].addr
    BY <1>1, <2>2
  <2>4. t \in Seq(T) /\ Len(t) = n
    BY <2>2, <2>3
  <2> HIDE DEF t
  <2> QED BY <2>1, <2>3, <2>4 DEF s, n
<1>4. Nearer(q) \in [D -> Seq(T)]
  BY <1>2, <1>3
<1>5. ASSUME NEW a PROVE InAll(Nearer(q), a) = InAll(q, a)
  <2>1. PlacesInAll(Nearer(q), a) = PlacesInAll(q, a)
    <3> DEFINE r == Nearer(q)
    <3>1. r \in [D -> Seq(T)]
      BY <1>4
    <3>2. \A d \in D : /\ Len(r[d]) = Len(q[d])
                       /\ \A i \in 1 .. Len(q[d]) : r[d][i].addr = q[d][i].addr
      BY <1>3
    <3> HIDE DEF r
    <3>3. PlacesInAll(r, a) = PlacesInAll(q, a)
      BY <3>1, <3>2, SamePlaces
    <3> QED BY <3>3 DEF r
  <2> QED BY <2>1 DEF InAll
<1> QED BY <1>3, <1>4, <1>5

\* busy counts down.
LEMMA DrainedType ==
    ASSUME NEW D, NEW busy \in [D -> Int]
    PROVE  Drained(busy) \in [D -> Int]
BY DEF Drained

\* The invariant of the cube.
HMCInv == HMCTypeOK /\ AgeMeansWaiting /\ LookupNeverFails

\* The queues that the counts are about.
LEMMA CubeQueues ==
    ASSUME HMCTypeOK
    PROVE  /\ linkReq \in Queues(Link, Request, QueueDepth)
           /\ quadReq \in Queues(Quad, Request, QueueDepth)
           /\ vault \in Queues(Quad, Request, VaultDepth)
BY DEF HMCTypeOK, Queues

\* An empty cube.
LEMMA HMCInitEstablishes == HMCInit => HMCInv
<1> SUFFICES ASSUME HMCInit PROVE HMCInv
  OBVIOUS
<1>1. \A T : << >> \in Seq(T) /\ Len(<< >>) = 0
  OBVIOUS
<1>2. 0 \in Link /\ 0 \in Nat /\ 0 \in Int
  BY CubeSizes DEF Link
<1>3. HMCTypeOK
  BY <1>1, <1>2, CubeSizes DEF HMCInit, HMCTypeOK
<1>4. AgeMeansWaiting
  BY DEF HMCInit, AgeMeansWaiting
<1>5. ASSUME NEW D, NEW a PROVE InAll([d \in D |-> << >>], a) = 0
  <2> DEFINE q == [d \in D |-> << >>]
  <2>1. \A d \in D : Places(q[d], a) = {}
    BY DEF Places
  <2>2. PlacesInAll(q, a) = {}
    BY <2>1 DEF PlacesInAll
  <2> HIDE DEF q
  <2>3. InAll(q, a) = 0
    BY <2>2, FS_EmptySet DEF InAll
  <2> QED BY <2>3 DEF q
<1>6. ASSUME NEW a PROVE Count(<< >>, a) = 0
  <2>1. Places(<< >>, a) = {}
    BY DEF Places
  <2> QED BY <2>1, FS_EmptySet DEF Count
<1>7. ASSUME NEW a \in Addr PROVE Count(table, a) = Unfinished(a)
  <2>1. InAll(linkReq, a) = 0 /\ InAll(quadReq, a) = 0 /\ InAll(vault, a) = 0
    BY <1>5 DEF HMCInit
  <2>2. Count(table, a) = 0
    BY <1>6 DEF HMCInit
  <2> QED BY <2>1, <2>2 DEF Unfinished
<1> QED BY <1>3, <1>4, <1>7 DEF HMCInv, LookupNeverFails

\* A request and its response are created together.
LEMMA AddKeeps ==
    ASSUME HMCInv, NEW a0 \in Addr, NEW w \in BOOLEAN, AddTransaction(a0, w)
    PROVE  HMCInv'
<1> DEFINE l == ChosenLink
           p == [addr |-> a0, write |-> w, left |-> 0]
           e == [addr |-> a0, write |-> w, link |-> l, left |-> 0]
<1>1. HMCTypeOK /\ AgeMeansWaiting /\ LookupNeverFails
  BY DEF HMCInv
<1>2. l \in Link /\ Len(linkReq[l]) < QueueDepth /\ Len(linkReq[l]) \in Nat
  <2>1. ChosenLink \in Link /\ ~Full(ChosenLink)
    BY <1>1, LinkFound DEF HMCTypeOK, AddTransaction
  <2>2. Len(linkReq[l]) \in Nat
    BY <1>1, <2>1 DEF HMCTypeOK
  <2> QED BY <2>1, <2>2, CubeSizes DEF Full
<1>3. /\ linkReq' = Enqueued(linkReq, l, p) /\ table' = Append(table, e)
      /\ linkAge' = [linkAge EXCEPT ![l] = 1] /\ nextLink' = (l + 1) % Links
      /\ requests' \in {requests, requests + 1}
      /\ UNCHANGED <<quadReq, quadBusy, quadResp, linkResp, linkBusy, quadAge, vault,
                     clk, draining>>
  BY DEF AddTransaction, Lookup, Enqueued, respVars
<1> HIDE DEF l
<1>4. p \in Request /\ e \in Response /\ p.addr = a0 /\ e.addr = a0
  BY <1>2 DEF Request, Response
<1> HIDE DEF p, e
<1>5. /\ linkReq' \in [Link -> Seq(Request)] /\ linkReq'[l] = Append(linkReq[l], p)
      /\ \A k \in Link : k # l => linkReq'[k] = linkReq[k]
  BY <1>1, <1>2, <1>3, <1>4 DEF HMCTypeOK, Enqueued
<1>6. ASSUME NEW k \in Link
      PROVE  Len(linkReq'[k]) <= QueueDepth /\ Len(linkResp'[k]) <= QueueDepth
  <2>1. Len(linkResp'[k]) <= QueueDepth
    BY <1>1, <1>3 DEF HMCTypeOK
  <2>2. CASE k = l
    <3>1. Len(linkReq'[l]) = Len(linkReq[l]) + 1
      BY <1>1, <1>2, <1>4, <1>5 DEF HMCTypeOK
    <3> QED BY <1>2, <2>1, <2>2, <3>1, CubeSizes
  <2>3. CASE k # l
    BY <1>1, <1>5, <2>1, <2>3 DEF HMCTypeOK
  <2> QED BY <2>2, <2>3
<1>7. table' \in Seq(Response) /\ linkAge' \in [Link -> Nat] /\ requests' \in Nat
  BY <1>1, <1>2, <1>3, <1>4 DEF HMCTypeOK
<1>8. nextLink' \in Link
  <2>1. l \in Nat /\ Links \in Nat \ {0}
    BY <1>2, CubeSizes DEF Link
  <2> QED BY <1>3, <2>1 DEF Link
<1>9. HMCTypeOK'
  BY <1>1, <1>3, <1>5, <1>6, <1>7, <1>8 DEF HMCTypeOK
<1>10. AgeMeansWaiting'
  <2>1. ASSUME NEW k \in Link PROVE linkAge'[k] > 0 <=> linkReq'[k] # << >>
    <3>1. CASE k = l
      <4>1. linkAge'[l] = 1
        BY <1>1, <1>2, <1>3 DEF HMCTypeOK
      <4>2. Append(linkReq[l], p) # << >>
        <5>1. linkReq[l] \in Seq(Request)
          BY <1>1, <1>2 DEF HMCTypeOK
        <5>2. Len(Append(linkReq[l], p)) = Len(linkReq[l]) + 1
          BY <1>4, <5>1
        <5> QED BY <1>2, <5>2
      <4> QED BY <1>5, <3>1, <4>1, <4>2
    <3>2. CASE k # l
      <4>1. linkAge'[k] = linkAge[k] /\ linkReq'[k] = linkReq[k]
        BY <1>1, <1>2, <1>3, <1>5, <3>2 DEF HMCTypeOK
      <4> QED BY <1>1, <4>1 DEF AgeMeansWaiting
    <3> QED BY <3>1, <3>2
  <2> QED BY <1>1, <1>3, <2>1 DEF AgeMeansWaiting
<1>11. ASSUME NEW a \in Addr PROVE Count(table', a) = Unfinished(a)'
  <2>1. InAll(linkReq', a) = InAll(linkReq, a) + Of(p, a)
    <3>1. linkReq \in Queues(Link, Request, QueueDepth)
      BY <1>1, CubeQueues
    <3> QED BY <1>2, <1>3, <1>4, <3>1, AppendOne, CubeSizes
  <2>2. Count(table', a) = Count(table, a) + Of(e, a)
    <3>1. table \in Seq(Response)
      BY <1>1 DEF HMCTypeOK
    <3> QED BY <1>3, <1>4, <3>1, CountChanges
  <2>3. Of(p, a) = Of(e, a) /\ Of(p, a) \in Nat
    BY <1>4 DEF Of
  <2>4. Count(table, a) = InAll(linkReq, a) + InAll(quadReq, a) + InAll(vault, a)
    BY <1>1 DEF LookupNeverFails, Unfinished
  <2>5. InAll(linkReq, a) \in Nat /\ InAll(quadReq, a) \in Nat /\ InAll(vault, a) \in Nat
    BY <1>1, CubeQueues, FinitePlaces, CubeSizes
  <2>6. Unfinished(a)' = InAll(linkReq', a) + InAll(quadReq, a) + InAll(vault, a)
    BY <1>3 DEF Unfinished
  <2> QED BY <2>1, <2>2, <2>3, <2>4, <2>5, <2>6
<1> QED BY <1>9, <1>10, <1>11 DEF HMCInv, LookupNeverFails

\* The queues of the quadrants without the requests that enter, and the vaults with them.
Kept == [q \in Quad |-> IF q \in Entering THEN Tail(quadReq[q]) ELSE quadReq[q]]
Into == [q \in Quad |-> IF q \in Entering THEN Append(vault[q], Head(quadReq[q]))
                        ELSE vault[q]]

\* None is lost or doubled on the way into the vault.
LEMMA EnteringCounts ==
    ASSUME HMCTypeOK
    PROVE  /\ Kept \in Queues(Quad, Request, QueueDepth)
           /\ Into \in Queues(Quad, Request, VaultDepth)
           /\ \A a : InAll(Kept, a) + InAll(Into, a) = InAll(quadReq, a) + InAll(vault, a)
<1> DEFINE E == Entering
           at == [q \in Quad |-> 1]
           p == [q \in Quad |-> Head(quadReq[q])]
<1>1. /\ quadReq \in [Quad -> Seq(Request)] /\ vault \in [Quad -> Seq(Request)]
      /\ \A q \in Quad : Len(quadReq[q]) <= QueueDepth /\ Len(vault[q]) <= VaultDepth
  BY DEF HMCTypeOK
<1>2. E \in SUBSET Quad /\ \A q \in E : quadReq[q] # << >> /\ Len(vault[q]) < VaultDepth
  BY DEF Entering
<1> HIDE DEF E
<1>3. ASSUME NEW q \in E
      PROVE  /\ Tail(quadReq[q]) \in Seq(Request) /\ Head(quadReq[q]) \in Request
             /\ Head(quadReq[q]) = quadReq[q][1]
             /\ 1 \in 1 .. Len(quadReq[q]) /\ Without(Tail(quadReq[q]), quadReq[q], 1)
             /\ Len(Tail(quadReq[q])) = Len(quadReq[q]) - 1
  <2>1. quadReq[q] \in Seq(Request) /\ quadReq[q] # << >>
    BY <1>1, <1>2
  <2> QED BY <2>1, TailWithout
<1>4. ASSUME NEW q \in Quad
      PROVE  /\ Kept[q] = IF q \in E THEN Tail(quadReq[q]) ELSE quadReq[q]
             /\ Into[q] = IF q \in E THEN Append(vault[q], p[q]) ELSE vault[q]
             /\ at[q] = 1 /\ p[q] = Head(quadReq[q])
  BY DEF E, Kept, Into
<1>5. Kept \in [Quad -> Seq(Request)] /\ Into \in [Quad -> Seq(Request)]
  <2>1. ASSUME NEW q \in Quad PROVE Kept[q] \in Seq(Request) /\ Into[q] \in Seq(Request)
    <3>1. quadReq[q] \in Seq(Request) /\ vault[q] \in Seq(Request)
      BY <1>1
    <3>2. CASE q \in E
      <4>1. /\ Kept[q] = Tail(quadReq[q]) /\ Into[q] = Append(vault[q], p[q])
            /\ p[q] \in Request
        BY <1>3, <1>4, <3>2
      <4>2. Append(vault[q], p[q]) \in Seq(Request)
        BY <3>1, <4>1
      <4> QED BY <1>3, <3>2, <4>1, <4>2
    <3>3. CASE q \notin E
      BY <1>4, <3>1, <3>3
    <3> QED BY <3>2, <3>3
  <2>2. /\ Kept = [q \in Quad |-> Kept[q]] /\ Into = [q \in Quad |-> Into[q]]
    <3>1. DOMAIN Kept = Quad /\ DOMAIN Into = Quad
      BY DEF Kept, Into
    <3> QED BY <3>1 DEF Kept, Into
  <2> QED BY <2>1, <2>2
<1> HIDE DEF at, p
<1>6. ASSUME NEW q \in Quad PROVE Len(Kept[q]) <= QueueDepth /\ Len(Into[q]) <= VaultDepth
  <2>1. Len(quadReq[q]) \in Nat /\ Len(vault[q]) \in Nat /\ vault[q] \in Seq(Request)
    BY <1>1
  <2>2. CASE q \in E
    <3>1. Len(Kept[q]) = Len(quadReq[q]) - 1
      BY <1>3, <1>4, <2>2
    <3>2. Into[q] = Append(vault[q], p[q])
      BY <1>4, <2>2
    <3>3. Len(Into[q]) = Len(vault[q]) + 1
      BY <2>1, <3>2
    <3> QED BY <1>1, <1>2, <2>1, <2>2, <3>1, <3>3, CubeSizes
  <2>3. CASE q \notin E
    BY <1>1, <1>4, <2>3
  <2> QED BY <2>2, <2>3
<1>7. /\ Kept \in Queues(Quad, Request, QueueDepth)
      /\ Into \in Queues(Quad, Request, VaultDepth)
      /\ quadReq \in Queues(Quad, Request, QueueDepth)
      /\ vault \in Queues(Quad, Request, VaultDepth)
  BY <1>1, <1>5, <1>6 DEF Queues
<1>8. Shorter(Quad, quadReq, Kept, E, at)
  BY <1>3, <1>4 DEF Shorter
<1>9. Longer(Quad, vault, Into, E, p) /\ \A q \in E : p[q] \in Request
  BY <1>2, <1>3, <1>4 DEF Longer
<1>10. ASSUME NEW a
       PROVE  InAll(Kept, a) + InAll(Into, a) = InAll(quadReq, a) + InAll(vault, a)
  <2> DEFINE F == {q \in E : quadReq[q][at[q]].addr = a}
             G == {q \in E : p[q].addr = a}
             Q == Quad
             T == Request
             K == QueueDepth
             V == VaultDepth
  <2>1. /\ IsFiniteSet(Q) /\ K \in Nat /\ V \in Nat /\ E \in SUBSET Q
    BY <1>2, CubeSizes
  <2>2. /\ quadReq \in Queues(Q, T, K) /\ Kept \in [Q -> Seq(T)]
        /\ Shorter(Q, quadReq, Kept, E, at)
    BY <1>5, <1>7, <1>8
  <2>3. /\ vault \in Queues(Q, T, V) /\ Into \in [Q -> Seq(T)]
        /\ Longer(Q, vault, Into, E, p) /\ \A q \in E : p[q] \in T
    BY <1>5, <1>7, <1>9
  <2> HIDE DEF Q, T, K, V, F, G
  <2>4. Cardinality(F) \in Nat /\ InAll(Kept, a) = InAll(quadReq, a) - Cardinality(F)
    BY <2>1, <2>2, RemoveCounts DEF F
  <2>5. InAll(Into, a) = InAll(vault, a) + Cardinality(G)
    BY <2>1, <2>3, AppendCounts DEF G
  <2>6. F = G
    <3>1. ASSUME NEW q \in E PROVE quadReq[q][at[q]] = p[q]
      BY <1>2, <1>3, <1>4
    <3> QED BY <3>1 DEF F, G
  <2>7. InAll(quadReq, a) \in Nat /\ InAll(vault, a) \in Nat
    BY <1>7, FinitePlaces, CubeSizes
  <2> QED BY <2>4, <2>5, <2>6, <2>7
<1> QED BY <1>7, <1>10

\* Requests cross to the quadrants, and those that have arrived enter the vaults.
LEMMA DrainRequestsKeeps ==
    ASSUME HMCInv, DrainRequests
    PROVE  HMCInv'
<1> DEFINE x == [from |-> linkReq, to |-> Kept, busy |-> Drained(quadBusy), age |-> linkAge]
           y == Crossbar(x, BuildAgeQueue(linkAge, Links), FALSE)
<1>1. HMCTypeOK /\ AgeMeansWaiting /\ LookupNeverFails
  BY DEF HMCInv
<1>2. /\ draining' = "responses" /\ vault' = Into
      /\ linkReq' = y.from /\ quadReq' = Nearer(y.to)
      /\ quadBusy' = y.busy /\ linkAge' = y.age /\ linkResp' = Nearer(linkResp)
      /\ clk' = (clk + 1) % (Links * Quads)
      /\ UNCHANGED <<quadResp, linkBusy, quadAge, table, nextLink, requests>>
  BY DEF DrainRequests, Kept, Into
<1>3. /\ linkReq \in [Link -> Seq(Request)] /\ quadBusy \in [Quad -> Int]
      /\ linkAge \in [Link -> Nat] /\ linkResp \in [Link -> Seq(Response)]
      /\ clk \in Nat /\ \A l \in Link : Len(linkReq[l]) <= QueueDepth
  BY <1>1 DEF HMCTypeOK
<1>4. /\ Kept \in Queues(Quad, Request, QueueDepth)
      /\ Into \in Queues(Quad, Request, VaultDepth)
      /\ \A a : InAll(Kept, a) + InAll(Into, a) = InAll(quadReq, a) + InAll(vault, a)
  BY <1>1, EnteringCounts
<1>5. x.from = linkReq /\ x.to = Kept /\ x.busy = Drained(quadBusy) /\ x.age = linkAge
  OBVIOUS
<1>6. XbarOK(x, Link, Quad, Request)
  <2>1. x \in Xbar(Link, Quad, Request)
    <3>1. Drained(quadBusy) \in [Quad -> Int] /\ Kept \in [Quad -> Seq(Request)]
      BY <1>3, <1>4, DrainedType DEF Queues
    <3> QED BY <1>3, <3>1 DEF Xbar
  <2> HIDE DEF x
  <2>2. \A q \in Quad : Len(x.to[q]) <= QueueDepth
    BY <1>4, <1>5 DEF Queues
  <2>3. \A l \in Link : x.age[l] > 0 <=> x.from[l] # << >>
    BY <1>1, <1>5 DEF AgeMeansWaiting
  <2> QED BY <2>1, <2>2, <2>3 DEF XbarOK
<1> HIDE DEF x
<1>7. XbarOK(y, Link, Quad, Request) /\ Carries(x, y, Link)
  <2> DEFINE queue == BuildAgeQueue(linkAge, Links)
  <2>1. AgeQueue(queue, x.age, Links)
    BY <1>3, <1>5, CubeSizes, AgeQueueHolds
  <2>2. Routed(FALSE, Quad, Request)
    BY BothWays
  <2>3. Link = 0 .. Links - 1 /\ Links \in Nat \ {0} /\ IsFiniteSet(Quad)
    BY CubeSizes DEF Link
  <2> HIDE DEF queue
  <2>4. LET z == Crossbar(x, queue, FALSE)
        IN  XbarOK(z, Link, Quad, Request) /\ Carries(x, z, Link)
    BY <1>6, <2>1, <2>2, <2>3, CrossbarCarries
  <2> QED BY <2>4 DEF queue
<1> HIDE DEF y
<1>8. /\ y.from \in [Link -> Seq(Request)] /\ y.to \in [Quad -> Seq(Request)]
      /\ y.busy \in [Quad -> Int] /\ y.age \in [Link -> Nat]
      /\ \A q \in Quad : Len(y.to[q]) <= QueueDepth
      /\ \A l \in Link : y.age[l] > 0 <=> y.from[l] # << >>
  BY <1>7 DEF XbarOK, Xbar
<1>9. \A l \in Link : Len(y.from[l]) <= QueueDepth
  <2> SUFFICES ASSUME NEW l \in Link PROVE Len(y.from[l]) <= QueueDepth
    OBVIOUS
  <2>1. Len(y.from[l]) <= Len(linkReq[l]) /\ Len(linkReq[l]) <= QueueDepth
    BY <1>3, <1>5, <1>7 DEF Carries
  <2>2. Len(y.from[l]) \in Nat /\ Len(linkReq[l]) \in Nat
    BY <1>3, <1>8
  <2> QED BY <2>1, <2>2, CubeSizes
<1>10. /\ quadReq' \in [Quad -> Seq(Request)] /\ linkResp' \in [Link -> Seq(Response)]
       /\ \A q \in Quad : Len(quadReq'[q]) <= QueueDepth
       /\ \A l \in Link : Len(linkResp'[l]) = Len(linkResp[l])
       /\ \A a : InAll(quadReq', a) = InAll(y.to, a)
  <2> DEFINE z == y.to
  <2>1. z \in [Quad -> Seq(Request)] /\ \A q \in Quad : Len(z[q]) <= QueueDepth
    BY <1>8
  <2> HIDE DEF z
  <2>2. /\ Nearer(z) \in [Quad -> Seq(Request)]
        /\ \A q \in Quad : Len(Nearer(z)[q]) = Len(z[q])
        /\ \A a : InAll(Nearer(z), a) = InAll(z, a)
    BY <2>1, NearerKeeps
  <2>3. /\ Nearer(linkResp) \in [Link -> Seq(Response)]
        /\ \A l \in Link : Len(Nearer(linkResp)[l]) = Len(linkResp[l])
    BY <1>3, NearerKeeps
  <2> QED BY <1>2, <2>1, <2>2, <2>3 DEF z
<1>11. clk' \in Nat
  <2>1. Links * Quads \in Nat \ {0}
    BY CubeSizes, OneDigit
  <2> QED BY <1>2, <1>3, <2>1
<1>12. HMCTypeOK'
  <2>1. vault' \in [Quad -> Seq(Request)] /\ \A q \in Quad : Len(vault'[q]) <= VaultDepth
    BY <1>2, <1>4 DEF Queues
  <2> QED BY <1>1, <1>2, <1>8, <1>9, <1>10, <1>11, <2>1 DEF HMCTypeOK
<1>13. AgeMeansWaiting'
  BY <1>1, <1>2, <1>8 DEF AgeMeansWaiting
<1>14. ASSUME NEW a \in Addr PROVE Count(table', a) = Unfinished(a)'
  <2>1. InAll(y.from, a) + InAll(y.to, a) = InAll(linkReq, a) + InAll(Kept, a)
    <3>1. SameTotal(x, y)
      BY <1>3, <1>5, <1>7 DEF Carries
    <3> QED BY <1>5, <3>1 DEF SameTotal
  <2>2. InAll(Kept, a) + InAll(Into, a) = InAll(quadReq, a) + InAll(vault, a)
    BY <1>4
  <2>3. Count(table, a) = InAll(linkReq, a) + InAll(quadReq, a) + InAll(vault, a)
    BY <1>1 DEF LookupNeverFails, Unfinished
  <2>4. Unfinished(a)' = InAll(y.from, a) + InAll(y.to, a) + InAll(Into, a)
    BY <1>2, <1>10 DEF Unfinished
  <2>5. /\ InAll(linkReq, a) \in Nat /\ InAll(quadReq, a) \in Nat /\ InAll(vault, a) \in Nat
        /\ InAll(Kept, a) \in Nat /\ InAll(Into, a) \in Nat
    BY <1>1, <1>4, CubeQueues, FinitePlaces, CubeSizes
  <2>6. /\ y.from \in Queues(Link, Request, QueueDepth)
        /\ y.to \in Queues(Quad, Request, QueueDepth)
    BY <1>8, <1>9 DEF Queues
  <2>7. InAll(y.from, a) \in Nat /\ InAll(y.to, a) \in Nat
    BY <2>6, FinitePlaces, CubeSizes
  <2>8. table' = table
    BY <1>2
  <2> QED BY <2>1, <2>2, <2>3, <2>4, <2>5, <2>7, <2>8
<1> QED BY <1>12, <1>13, <1>14 DEF HMCInv, LookupNeverFails

\* Responses cross to the links, and those that have arrived leave the cube.
LEMMA DrainResponsesKeeps ==
    ASSUME HMCInv, DrainResponses
    PROVE  HMCInv'
<1> DEFINE kept == [l \in Link |-> IF l \in Answering THEN Tail(linkResp[l]) ELSE linkResp[l]]
           x == [from |-> quadResp, to |-> kept, busy |-> Drained(linkBusy), age |-> quadAge]
           y == Crossbar(x, BuildAgeQueue(quadAge, Quads), TRUE)
<1>1. HMCTypeOK /\ AgeMeansWaiting /\ LookupNeverFails
  BY DEF HMCInv
<1>2. /\ draining' = "requests" /\ quadResp' = y.from /\ linkResp' = y.to
      /\ linkBusy' = y.busy /\ quadAge' = y.age
      /\ UNCHANGED <<linkReq, quadReq, quadBusy, linkAge, vault, table, nextLink,
                     clk, requests>>
  BY DEF DrainResponses, reqVars
<1>3. /\ quadResp \in [Quad -> Seq(Response)] /\ linkBusy \in [Link -> Int]
      /\ quadAge \in [Quad -> Nat] /\ linkResp \in [Link -> Seq(Response)]
      /\ clk \in Nat /\ \A l \in Link : Len(linkResp[l]) <= QueueDepth
  BY <1>1 DEF HMCTypeOK
<1>4. ASSUME NEW l \in Link
      PROVE  kept[l] \in Seq(Response) /\ Len(kept[l]) <= QueueDepth
  <2>1. /\ linkResp[l] \in Seq(Response)
        /\ Len(linkResp[l]) <= QueueDepth /\ Len(linkResp[l]) \in Nat
    BY <1>3
  <2>2. CASE l \in Answering
    <3>1. linkResp[l] # << >> /\ kept[l] = Tail(linkResp[l])
      BY <2>2 DEF Answering
    <3>2. Tail(linkResp[l]) \in Seq(Response) /\ Len(Tail(linkResp[l])) = Len(linkResp[l]) - 1
      BY <2>1, <3>1, TailWithout
    <3> QED BY <2>1, <3>1, <3>2, CubeSizes
  <2>3. CASE l \notin Answering
    BY <2>1, <2>3
  <2> QED BY <2>2, <2>3
<1>5. kept \in [Link -> Seq(Response)]
  BY <1>4
<1> HIDE DEF kept
<1>6. x.from = quadResp /\ x.to = kept /\ x.busy = Drained(linkBusy) /\ x.age = quadAge
  OBVIOUS
<1>7. XbarOK(x, Quad, Link, Response)
  <2>1. x \in Xbar(Quad, Link, Response)
    <3>1. Drained(linkBusy) \in [Link -> Int]
      BY <1>3, DrainedType
    <3> QED BY <1>3, <1>5, <3>1 DEF Xbar
  <2> HIDE DEF x
  <2>2. \A q \in Quad : x.age[q] > 0 <=> x.from[q] # << >>
    BY <1>1, <1>6 DEF AgeMeansWaiting
  <2> QED BY <1>4, <1>6, <2>1, <2>2 DEF XbarOK
<1> HIDE DEF x
<1>8. XbarOK(y, Quad, Link, Response)
  <2> DEFINE queue == BuildAgeQueue(quadAge, Quads)
  <2>1. AgeQueue(queue, x.age, Quads)
    BY <1>3, <1>6, CubeSizes, AgeQueueHolds
  <2>2. Routed(TRUE, Link, Response)
    BY BothWays
  <2>3. Quad = 0 .. Quads - 1 /\ Quads \in Nat \ {0} /\ IsFiniteSet(Link)
    BY CubeSizes DEF Quad
  <2> HIDE DEF queue
  <2>4. LET z == Crossbar(x, queue, TRUE)
        IN  XbarOK(z, Quad, Link, Response) /\ Carries(x, z, Quad)
    BY <1>7, <2>1, <2>2, <2>3, CrossbarCarries
  <2> QED BY <2>4 DEF queue
<1> HIDE DEF y
<1>9. /\ y.from \in [Quad -> Seq(Response)] /\ y.to \in [Link -> Seq(Response)]
      /\ y.busy \in [Link -> Int] /\ y.age \in [Quad -> Nat]
      /\ \A l \in Link : Len(y.to[l]) <= QueueDepth
      /\ \A q \in Quad : y.age[q] > 0 <=> y.from[q] # << >>
  BY <1>8 DEF XbarOK, Xbar
<1>10. HMCTypeOK'
  BY <1>1, <1>2, <1>9 DEF HMCTypeOK
<1>11. AgeMeansWaiting'
  BY <1>1, <1>2, <1>9 DEF AgeMeansWaiting
<1>12. LookupNeverFails'
  BY <1>1, <1>2 DEF LookupNeverFails, Unfinished
<1> QED BY <1>10, <1>11, <1>12 DEF HMCInv

\* What the vault has finished and the response that is taken have the same address.
LEMMA VaultDoneKeeps ==
    ASSUME HMCInv, NEW q \in Quad, NEW i \in DOMAIN vault[q], VaultDone(q, i)
    PROVE  HMCInv'
<1> DEFINE b == vault[q][i].addr
           I == {j \in 1 .. Len(table) : table[j].addr = b}
           k == IF I # {} THEN Min(I) ELSE 0
           s == RemoveAt(vault[q], i)
           t == RemoveAt(table, k)
           e == table[k]
<1>1. HMCTypeOK /\ AgeMeansWaiting /\ LookupNeverFails
  BY DEF HMCInv
<1>2. /\ k > 0 /\ vault' = Replaced(vault, q, s) /\ table' = t
      /\ quadResp' = [quadResp EXCEPT ![q] = Append(@, e)]
      /\ quadAge' = [quadAge EXCEPT ![q] = 1]
      /\ UNCHANGED <<linkReq, quadReq, quadBusy, linkAge, linkResp, linkBusy, nextLink,
                     clk, draining, requests>>
  BY DEF VaultDone, SelectInSeq, Replaced, Waiting, reqVars
<1>3. k \in 1 .. Len(table) /\ e.addr = b
  <2>1. k = Min(I) /\ I # {}
    BY <1>2
  <2>2. I \in SUBSET Nat /\ \A j \in I : j \in 1 .. Len(table) /\ table[j].addr = b
    OBVIOUS
  <2> HIDE DEF I, k, b
  <2>3. k \in I
    BY <2>1, <2>2, LeastOf
  <2> QED BY <2>2, <2>3
<1> HIDE DEF k, b, I
<1>4. /\ vault \in [Quad -> Seq(Request)] /\ table \in Seq(Response)
      /\ quadResp \in [Quad -> Seq(Response)] /\ quadAge \in [Quad -> Nat]
      /\ \A d \in Quad : Len(vault[d]) <= VaultDepth
  BY <1>1 DEF HMCTypeOK
<1>5. vault[q] \in Seq(Request) /\ i \in 1 .. Len(vault[q]) /\ e \in Response
  BY <1>3, <1>4
<1>6. s \in Seq(Request) /\ Without(s, vault[q], i)
  BY <1>5, RemovedAt
<1>7. t \in Seq(Response) /\ Without(t, table, k)
  BY <1>3, <1>4, RemovedAt
<1> HIDE DEF s, t, e
<1>8. /\ vault' \in [Quad -> Seq(Request)] /\ vault'[q] = s
      /\ \A d \in Quad : d # q => vault'[d] = vault[d]
  BY <1>2, <1>4, <1>6 DEF Replaced
<1>9. ASSUME NEW d \in Quad PROVE Len(vault'[d]) <= VaultDepth
  <2>1. CASE d = q
    <3>1. Len(s) = Len(vault[q]) - 1 /\ Len(vault[q]) \in Nat
      BY <1>5, <1>6 DEF Without
    <3> QED BY <1>4, <1>8, <2>1, <3>1, CubeSizes
  <2>2. CASE d # q
    BY <1>4, <1>8, <2>2
  <2> QED BY <2>1, <2>2
<1>10. /\ quadResp' \in [Quad -> Seq(Response)] /\ quadResp'[q] = Append(quadResp[q], e)
       /\ \A d \in Quad : d # q => quadResp'[d] = quadResp[d]
       /\ quadAge' \in [Quad -> Nat] /\ quadAge'[q] = 1
       /\ \A d \in Quad : d # q => quadAge'[d] = quadAge[d]
  BY <1>2, <1>4, <1>5
<1>11. HMCTypeOK'
  BY <1>1, <1>2, <1>7, <1>8, <1>9, <1>10 DEF HMCTypeOK
<1>12. AgeMeansWaiting'
  <2>1. ASSUME NEW d \in Quad PROVE quadAge'[d] > 0 <=> quadResp'[d] # << >>
    <3>1. CASE d = q
      <4>1. quadResp[q] \in Seq(Response) /\ Len(quadResp[q]) \in Nat
        BY <1>4
      <4>2. Len(Append(quadResp[q], e)) = Len(quadResp[q]) + 1
        BY <4>1
      <4>3. Append(quadResp[q], e) # << >>
        BY <4>1, <4>2
      <4> QED BY <1>10, <3>1, <4>3
    <3>2. CASE d # q
      BY <1>1, <1>10, <3>2 DEF AgeMeansWaiting
    <3> QED BY <3>1, <3>2
  <2> QED BY <1>1, <1>2, <2>1 DEF AgeMeansWaiting
<1>13. ASSUME NEW a \in Addr PROVE Count(table', a) = Unfinished(a)'
  <2>1. InAll(vault', a) = InAll(vault, a) - Of(vault[q][i], a)
    <3>1. vault \in Queues(Quad, Request, VaultDepth)
      BY <1>1, CubeQueues
    <3>2. VaultDepth \in Nat /\ IsFiniteSet(Quad)
      BY CubeSizes
    <3> QED BY <1>2, <1>5, <1>6, <3>1, <3>2, RemoveOne
  <2>2. Count(table', a) = Count(table, a) - Of(e, a)
    BY <1>2, <1>3, <1>4, <1>7, CountChanges DEF e
  <2>3. Of(e, a) = Of(vault[q][i], a) /\ Of(e, a) \in Nat
    BY <1>3 DEF Of, b
  <2>4. Count(table, a) = InAll(linkReq, a) + InAll(quadReq, a) + InAll(vault, a)
    BY <1>1 DEF LookupNeverFails, Unfinished
  <2>5. InAll(linkReq, a) \in Nat /\ InAll(quadReq, a) \in Nat /\ InAll(vault, a) \in Nat
    BY <1>1, CubeQueues, FinitePlaces, CubeSizes
  <2>6. Unfinished(a)' = InAll(linkReq, a) + InAll(quadReq, a) + InAll(vault', a)
    BY <1>2 DEF Unfinished
  <2> QED BY <2>1, <2>2, <2>3, <2>4, <2>5, <2>6
<1> QED BY <1>11, <1>12, <1>13 DEF HMCInv, LookupNeverFails

\* Every step keeps the invariant.
LEMMA HMCNextKeeps == HMCInv /\ [HMCNext]_hmcVars => HMCInv'
<1> SUFFICES ASSUME HMCInv, [HMCNext]_hmcVars PROVE HMCInv'
  OBVIOUS
<1>1. CASE UNCHANGED hmcVars
  BY <1>1 DEF hmcVars, reqVars, respVars, HMCInv, HMCTypeOK, AgeMeansWaiting,
              LookupNeverFails, Unfinished
<1>2. CASE \E a \in Addr, w \in BOOLEAN : AddTransaction(a, w)
  BY <1>2, AddKeeps
<1>3. CASE DrainRequests
  BY <1>3, DrainRequestsKeeps
<1>4. CASE DrainResponses
  BY <1>4, DrainResponsesKeeps
<1>5. CASE \E q \in Quad : FinishVault(q)
  BY <1>5, VaultDoneKeeps DEF FinishVault
<1> QED BY <1>1, <1>2, <1>3, <1>4, <1>5 DEF HMCNext

\* For any number of links and quadrants, any depth of their queues and any vaults, the
\* queues of hmc.cc stay within their depths, the table and the age counters agree with
\* the queues.
THEOREM HMCInvariant == HMCSpec => []HMCInv
BY HMCInitEstablishes, HMCNextKeeps, PTL DEF HMCSpec

\* resp_lookup_table_ holds exactly one response for each request that no vault has
\* finished, for every address: InsertReqToLink and VaultCallback lose and leave none.
THEOREM LookupsSucceed == HMCSpec => []LookupNeverFails
<1>1. HMCInv => LookupNeverFails
  BY DEF HMCInv
<1> QED BY <1>1, HMCInvariant, PTL

\* The response that VaultCallback looks for is there.
ResponseThere ==
    \A q \in Quad : \A i \in DOMAIN vault[q] :
       \E j \in DOMAIN table : table[j].addr = vault[q][i].addr

\* A request in a vault is unfinished, so it has a response in the table.
LEMMA ThereFromInv == HMCInv => ResponseThere
<1> SUFFICES ASSUME HMCInv, NEW q \in Quad, NEW i \in DOMAIN vault[q]
             PROVE  \E j \in DOMAIN table : table[j].addr = vault[q][i].addr
  BY DEF ResponseThere
<1> DEFINE a == vault[q][i].addr
<1>1. HMCTypeOK /\ LookupNeverFails
  BY DEF HMCInv
<1>2. /\ vault \in [Quad -> Seq(Request)] /\ table \in Seq(Response)
      /\ vault \in Queues(Quad, Request, VaultDepth)
  BY <1>1, CubeQueues DEF HMCTypeOK
<1>3. i \in 1 .. Len(vault[q]) /\ vault[q][i] \in Request /\ a \in Addr
  <2>1. i \in 1 .. Len(vault[q]) /\ vault[q][i] \in Request
    BY <1>2
  <2>2. \A p \in Request : p.addr \in Addr
    BY DEF Request
  <2> QED BY <2>1, <2>2
<1>4. <<q, i>> \in PlacesInAll(vault, a)
  <2>1. vault[q][i].addr = a /\ i \in Nat
    BY <1>2, <1>3
  <2> HIDE DEF a
  <2>2. \A z : z \in PlacesInAll(vault, a)
                 <=> \E d \in Quad, j \in Nat : /\ z = <<d, j>> /\ j \in 1 .. Len(vault[d])
                                                 /\ vault[d][j].addr = a
    BY <1>2, PlacesAre
  <2> QED BY <1>3, <2>1, <2>2
<1> HIDE DEF a
<1>5. InAll(vault, a) \in Nat /\ InAll(vault, a) # 0
  <2>1. IsFiniteSet(PlacesInAll(vault, a)) /\ InAll(vault, a) \in Nat
    BY <1>2, FinitePlaces, CubeSizes
  <2>2. Cardinality(PlacesInAll(vault, a)) = 0 <=> PlacesInAll(vault, a) = {}
    BY <2>1, FS_EmptySet
  <2> QED BY <1>4, <2>1, <2>2 DEF InAll
<1>6. InAll(linkReq, a) \in Nat /\ InAll(quadReq, a) \in Nat
  BY <1>1, CubeQueues, FinitePlaces, CubeSizes
<1>7. Count(table, a) = InAll(linkReq, a) + InAll(quadReq, a) + InAll(vault, a)
  BY <1>1, <1>3 DEF LookupNeverFails, Unfinished
<1>8. Count(table, a) # 0
  BY <1>5, <1>6, <1>7
<1>9. \E j \in 1 .. Len(table) : table[j].addr = a
  BY <1>2, <1>8, CountIsInAll
<1> QED BY <1>2, <1>9 DEF a

\* VaultCallback never fails: the guard of VaultDone holds for every transaction that a
\* vault may finish, in whatever order.
THEOREM ResponseFound == HMCSpec => []ResponseThere
BY HMCInvariant, ThereFromInv, PTL

\* A crossbar serves exactly the queues that hold packets: DrainRequests and
\* DrainResponses never take the front of an empty queue and forget no packet.
THEOREM AgesWait == HMCSpec => []AgeMeansWaiting
<1>1. HMCInv => AgeMeansWaiting
  BY DEF HMCInv
<1> QED BY <1>1, HMCInvariant, PTL
=============================================================================

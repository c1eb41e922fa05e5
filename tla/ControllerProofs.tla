-------------------------- MODULE ControllerProofs --------------------------
(***************************************************************************)
(* Proofs, for every configuration of a channel, that ControllerInv is an  *)
(* inductive invariant of Controller and that Controller implements        *)
(* MemPort.  The queue lemmas come first: they say what appending to and   *)
(* erasing from a queue does to the three predicates Holds, Distinct and   *)
(* ReadsFirst, and everything after them reasons with those predicates     *)
(* and never with positions.                                               *)
(***************************************************************************)
EXTENDS Controller, SequenceTheorems, FiniteSetTheorems, TLAPS

-----------------------------------------------------------------------------
(* Queue lemmas.                                                           *)

\* RemoveAt shifts the entries behind the erased one by one place.
LEMMA RemoveAtShape ==
    ASSUME NEW S, NEW s \in Seq(S), NEW i \in 1 .. Len(s)
    PROVE  /\ RemoveAt(s, i) \in Seq(S)
           /\ Len(RemoveAt(s, i)) = Len(s) - 1
           /\ \A j \in 1 .. Len(s) - 1 :
                 RemoveAt(s, i)[j] = IF j < i THEN s[j] ELSE s[j + 1]
<1> DEFINE f == SubSeq(s, 1, i - 1)
           g == SubSeq(s, i + 1, Len(s))
<1>1. f \in Seq(S) /\ Len(f) = i - 1 /\ \A j \in 1 .. i - 1 : f[j] = s[j]
  OBVIOUS
<1>2. /\ g \in Seq(S)
      /\ Len(g) = Len(s) - i
      /\ \A j \in 1 .. Len(s) - i : g[j] = s[j + i]
  OBVIOUS
<1>3. RemoveAt(s, i) = f \o g
  BY DEF RemoveAt
<1>4. /\ f \o g \in Seq(S)
      /\ Len(f \o g) = Len(s) - 1
      /\ \A j \in 1 .. Len(s) - 1 :
            (f \o g)[j] = IF j < i THEN f[j] ELSE g[j - (i - 1)]
  <2> HIDE DEF f, g
  <2>1. /\ f \o g \in Seq(S)
        /\ Len(f \o g) = Len(f) + Len(g)
        /\ \A j \in 1 .. Len(f) + Len(g) :
              (f \o g)[j] = IF j <= Len(f) THEN f[j] ELSE g[j - Len(f)]
    BY <1>1, <1>2, ConcatProperties
  <2> QED BY <1>1, <1>2, <2>1
<1>5. ASSUME NEW j \in 1 .. Len(s) - 1
      PROVE  (f \o g)[j] = IF j < i THEN s[j] ELSE s[j + 1]
  <2>1. CASE j < i
    <3> HIDE DEF f, g
    <3> QED BY <2>1, <1>1, <1>4
  <2>2. CASE ~(j < i)
    <3>1. j - (i - 1) \in 1 .. Len(s) - i
      BY <2>2
    <3>2. g[j - (i - 1)] = s[j + 1]
      <4> HIDE DEF f, g
      <4> QED BY <3>1, <1>2
    <3> HIDE DEF f, g
    <3> QED BY <2>2, <3>2, <1>4
  <2> QED BY <2>1, <2>2
<1> QED BY <1>3, <1>4, <1>5

\* Erasing one entry of a duplicate-free queue removes that entry only.
LEMMA RemoveAtKeeps ==
    ASSUME NEW S, NEW s \in Seq(S), NEW i \in 1 .. Len(s), Distinct(s)
    PROVE  /\ Distinct(RemoveAt(s, i))
           /\ ReadsFirst(s) => ReadsFirst(RemoveAt(s, i))
           /\ \A a, op : Holds(RemoveAt(s, i), a, op)
                          <=> Holds(s, a, op) /\ ~(s[i].addr = a /\ s[i].op = op)
<1> DEFINE r == RemoveAt(s, i)
           n == Len(s)
<1> HIDE DEF r
<1>1. /\ n \in Nat /\ Len(r) = n - 1
      /\ \A j \in 1 .. n - 1 : r[j] = IF j < i THEN s[j] ELSE s[j + 1]
  <2>1. n \in Nat
    OBVIOUS
  <2> QED BY <2>1, RemoveAtShape, Zenon DEF r
<1>2. Distinct(r)
  <2> SUFFICES ASSUME NEW j \in 1 .. Len(r), NEW k \in 1 .. Len(r),
                      r[j].addr = r[k].addr, r[j].op = r[k].op
               PROVE  j = k
    BY DEF Distinct
  <2>1. PICK x \in 1 .. n, y \in 1 .. n :
           /\ r[j] = s[x] /\ x = IF j < i THEN j ELSE j + 1
           /\ r[k] = s[y] /\ y = IF k < i THEN k ELSE k + 1
    BY <1>1
  <2>2. x = y
    BY <2>1 DEF Distinct
  <2>3. QED
    BY <2>1, <2>2
<1>3. ReadsFirst(s) => ReadsFirst(r)
  <2> SUFFICES ASSUME ReadsFirst(s), NEW j \in 1 .. Len(r), NEW k \in 1 .. Len(r),
                      r[j].addr = r[k].addr, r[j].op = "READ", r[k].op = "WRITE"
               PROVE  j < k
    BY DEF ReadsFirst
  <2>1. PICK x \in 1 .. n, y \in 1 .. n :
           /\ r[j] = s[x] /\ x = IF j < i THEN j ELSE j + 1
           /\ r[k] = s[y] /\ y = IF k < i THEN k ELSE k + 1
    BY <1>1
  <2>2. x < y
    BY <2>1 DEF ReadsFirst
  <2>3. QED
    BY <2>1, <2>2
<1>4. ASSUME NEW a, NEW op, Holds(r, a, op)
      PROVE  Holds(s, a, op) /\ ~(s[i].addr = a /\ s[i].op = op)
  <2>1. PICK j \in 1 .. Len(r) : r[j].addr = a /\ r[j].op = op
    BY <1>4 DEF Holds
  <2>2. PICK x \in 1 .. n : x # i /\ r[j] = s[x]
    BY <1>1
  <2>3. Holds(s, a, op)
    BY <2>1, <2>2 DEF Holds
  <2>4. ~(s[i].addr = a /\ s[i].op = op)
    BY <2>1, <2>2 DEF Distinct
  <2> QED BY <2>3, <2>4
<1>5. ASSUME NEW a, NEW op, Holds(s, a, op), ~(s[i].addr = a /\ s[i].op = op)
      PROVE  Holds(r, a, op)
  <2>1. PICK k \in 1 .. n : s[k].addr = a /\ s[k].op = op
    BY <1>5 DEF Holds
  <2>2. CASE k < i
    BY <2>1, <2>2, <1>1 DEF Holds
  <2>3. CASE k > i
    <3>1. k - 1 \in 1 .. n - 1 /\ r[k - 1] = s[k]
      BY <2>3, <1>1
    <3> QED BY <3>1, <2>1, <1>1 DEF Holds
  <2> QED BY <2>1, <2>2, <2>3, <1>5
<1> QED BY <1>2, <1>3, <1>4, <1>5 DEF r

\* Appending an entry adds that entry only.
LEMMA AppendKeeps ==
    ASSUME NEW S, NEW s \in Seq(S), NEW e \in S
    PROVE  /\ Append(s, e) \in Seq(S)
           /\ Distinct(s) /\ ~Holds(s, e.addr, e.op) => Distinct(Append(s, e))
           /\ ReadsFirst(s) /\ (e.op = "WRITE" \/ ~Holds(s, e.addr, "WRITE"))
                 => ReadsFirst(Append(s, e))
           /\ \A a, op : Holds(Append(s, e), a, op)
                          <=> Holds(s, a, op) \/ (e.addr = a /\ e.op = op)
<1> DEFINE r == Append(s, e)
           n == Len(s)
<1>1. /\ n \in Nat /\ r \in Seq(S) /\ Len(r) = n + 1 /\ r[n + 1] = e
      /\ \A j \in 1 .. n : r[j] = s[j]
  OBVIOUS
<1> HIDE DEF r
<1>2. Distinct(s) /\ ~Holds(s, e.addr, e.op) => Distinct(r)
  BY <1>1 DEF Distinct, Holds
<1>3. ReadsFirst(s) /\ (e.op = "WRITE" \/ ~Holds(s, e.addr, "WRITE")) => ReadsFirst(r)
  BY <1>1 DEF ReadsFirst, Holds
<1>4. ASSUME NEW a, NEW op
      PROVE  Holds(r, a, op) <=> Holds(s, a, op) \/ (e.addr = a /\ e.op = op)
  BY <1>1 DEF Holds
<1> QED BY <1>1, <1>2, <1>3, <1>4 DEF r

-----------------------------------------------------------------------------
(* The three ways the queues change.                                       *)

\* A transaction of an address and direction that is not queued joins the
\* transaction queue; a read only while no write of its address waits.
LEMMA EnqueueKeeps ==
    ASSUME NEW a \in Addr, NEW op \in Op, TypeOK,
           NEW pr \in [Addr -> Nat], NEW pw \in [Addr -> BOOLEAN],
           OneCommandPerPending, ReadsAheadOfWrites(tq, cmdq),
           Enqueue(a, op),
           IF op = "WRITE" THEN
              /\ ~pendingWr[a] /\ pr = pendingRd /\ pw = [pendingWr EXCEPT ![a] = TRUE]
           ELSE
              /\ pendingRd[a] = 0 /\ ~pendingWr[a] /\ pw = pendingWr
              /\ pr = [pendingRd EXCEPT ![a] = @ + 1]
    PROVE  /\ tq' \in [QName -> Seq(Trans)]
           /\ QueuesAgree(tq', cmdq, pr, pw)
           /\ ReadsAheadOfWrites(tq', cmdq)
           /\ Len(tq'["write"]) >= Len(tq["write"])
<1> DEFINE e == [addr |-> a, op |-> op]
           q0 == QueueFor(op)
<1>1. /\ tq \in [QName -> Seq(Trans)] /\ pendingRd \in [Addr -> Nat]
      /\ pendingWr \in [Addr -> BOOLEAN] /\ cmdq \in [Bank -> Seq(Command)]
  BY DEF TypeOK
<1>2. /\ QueuesSorted(tq, cmdq) /\ EntriesUnique(tq, cmdq)
      /\ PendingIffQueued(tq, cmdq, pendingRd, pendingWr)
  BY DEF OneCommandPerPending, QueuesAgree
<1>3. q0 \in QName /\ e \in Trans /\ e.addr = a /\ e.op = op
  BY DEF QueueFor, QName, Trans
<1>4. /\ tq' = [tq EXCEPT ![q0] = Append(tq[q0], e)]
      /\ tq'[q0] = Append(tq[q0], e)
      /\ \A q \in QName : q # q0 => tq'[q] = tq[q]
  BY <1>1, <1>3 DEF Enqueue
<1> HIDE DEF e, q0
<1>5. ~Holds(tq[q0], a, op) /\ ~Holds(cmdq[BankOf[a]], a, op)
  <2>1. CASE op = "WRITE"
    BY <2>1, <1>2 DEF PendingIffQueued, q0
  <2>2. CASE op = "READ"
    BY <2>2, <1>1, <1>2 DEF PendingIffQueued, q0
  <2> QED BY <2>1, <2>2 DEF Op
<1>6. op = "WRITE" \/ ~Holds(tq[q0], a, "WRITE")
  <2> SUFFICES ASSUME op # "WRITE", Holds(tq[q0], a, "WRITE") PROVE FALSE
    OBVIOUS
  <2>1. PICK i \in 1 .. Len(tq[q0]) : tq[q0][i].addr = a /\ tq[q0][i].op = "WRITE"
    BY DEF Holds
  <2>2. QueueFor("WRITE") = q0
    BY <2>1, <1>2, <1>3 DEF QueuesSorted
  <2>3. pendingWr[a]
    BY <2>2, <1>2 DEF PendingIffQueued
  <2> QED BY <2>3
<1>7. tq[q0] \in Seq(Trans) /\ \A i \in 1 .. Len(tq[q0]) : tq[q0][i].op \in Op
  <2>1. tq[q0] \in Seq(Trans)
    BY <1>1, <1>3
  <2>2. ASSUME NEW i \in 1 .. Len(tq[q0])
        PROVE  tq[q0][i].op \in Op
    <3>1. tq[q0][i] \in Trans
      BY <2>1, ElementOfSeq
    <3> QED BY <3>1 DEF Trans
  <2> QED BY <2>1, <2>2
<1>8. /\ Append(tq[q0], e) \in Seq(Trans)
      /\ Distinct(tq[q0]) => Distinct(Append(tq[q0], e))
      /\ ReadsFirst(tq[q0]) => ReadsFirst(Append(tq[q0], e))
      /\ \A x, v : Holds(Append(tq[q0], e), x, v)
                     <=> Holds(tq[q0], x, v) \/ (a = x /\ op = v)
  <2>1. /\ ~Holds(tq[q0], e.addr, e.op)
        /\ e.op = "WRITE" \/ ~Holds(tq[q0], e.addr, "WRITE")
    BY <1>3, <1>5, <1>6
  <2>2. /\ Append(tq[q0], e) \in Seq(Trans)
        /\ Distinct(tq[q0]) => Distinct(Append(tq[q0], e))
        /\ ReadsFirst(tq[q0]) => ReadsFirst(Append(tq[q0], e))
        /\ \A x, v : Holds(Append(tq[q0], e), x, v)
                       <=> Holds(tq[q0], x, v) \/ (e.addr = x /\ e.op = v)
    BY <1>3, <1>7, <2>1, AppendKeeps, Zenon
  <2> QED BY <2>2, <1>3
<1>9. tq' \in [QName -> Seq(Trans)] /\ Len(tq'["write"]) >= Len(tq["write"])
  <2>1. tq' \in [QName -> Seq(Trans)]
    BY <1>1, <1>3, <1>4, <1>8
  <2>2. CASE q0 = "write"
    <3>1. Len(Append(tq[q0], e)) = Len(tq[q0]) + 1 /\ Len(tq[q0]) \in Nat
      BY <1>3, <1>7
    <3> QED BY <2>1, <2>2, <3>1, <1>4
  <2>3. CASE q0 # "write"
    <3>1. tq'["write"] = tq["write"] /\ Len(tq["write"]) \in Nat
      BY <2>3, <1>1, <1>4 DEF QName
    <3> QED BY <2>1, <3>1
  <2> QED BY <2>1, <2>2, <2>3
<1>10. \A x \in Addr, v \in Op :
          Holds(tq'[QueueFor(v)], x, v)
             <=> Holds(tq[QueueFor(v)], x, v) \/ (a = x /\ op = v)
  <2> TAKE x \in Addr, v \in Op
  <2>1. QueueFor(v) \in QName
    BY DEF QueueFor, QName
  <2>2. CASE QueueFor(v) = q0
    BY <2>2, <1>4, <1>8
  <2>3. CASE QueueFor(v) # q0
    BY <2>1, <2>3, <1>4 DEF q0
  <2> QED BY <2>2, <2>3
<1>11. QueuesSorted(tq', cmdq)
  <2>1. ASSUME NEW i \in 1 .. Len(Append(tq[q0], e))
        PROVE  QueueFor(Append(tq[q0], e)[i].op) = q0
    <3>1. CASE i = Len(tq[q0]) + 1
      BY <3>1, <1>7, <1>3 DEF q0
    <3>2. CASE i \in 1 .. Len(tq[q0])
      BY <3>2, <1>2, <1>3, <1>7 DEF QueuesSorted
    <3> QED BY <3>1, <3>2, <1>3, <1>7
  <2> QED BY <2>1, <1>2, <1>4 DEF QueuesSorted
<1>12. EntriesUnique(tq', cmdq)
  <2>1. \A q \in QName : Distinct(tq'[q])
    BY <1>2, <1>4, <1>8, <1>3 DEF EntriesUnique
  <2>2. \A x \in Addr, v \in Op :
           ~(Holds(tq'[QueueFor(v)], x, v) /\ Holds(cmdq[BankOf[x]], x, v))
    BY <1>2, <1>5, <1>10 DEF EntriesUnique
  <2> QED BY <2>1, <2>2, <1>2 DEF EntriesUnique
<1>13. PendingIffQueued(tq', cmdq, pr, pw)
  <2>1. CASE op = "WRITE"
    <3>1. pr = pendingRd /\ pw = [pendingWr EXCEPT ![a] = TRUE]
      BY <2>1
    <3> QED BY <2>1, <3>1, <1>1, <1>2, <1>10 DEF PendingIffQueued, Op
  <2>2. CASE op = "READ"
    <3>1. pw = pendingWr /\ pr = [pendingRd EXCEPT ![a] = @ + 1]
      BY <2>2
    <3> QED BY <2>2, <3>1, <1>1, <1>2, <1>10 DEF PendingIffQueued, Op
  <2> QED BY <2>1, <2>2 DEF Op
<1>14. ReadsAheadOfWrites(tq', cmdq)
  <2>1. \A q \in QName : ReadsFirst(tq'[q])
    BY <1>4, <1>8, <1>3 DEF ReadsAheadOfWrites
  <2>2. ASSUME NEW x \in Addr, Holds(cmdq[BankOf[x]], x, "WRITE")
        PROVE  ~Holds(tq'[QueueFor("READ")], x, "READ")
    <3>1. ~Holds(tq[QueueFor("READ")], x, "READ")
      BY <2>2 DEF ReadsAheadOfWrites
    <3>2. pendingWr[x]
      BY <2>2, <1>2 DEF PendingIffQueued
    <3>3. ~(a = x /\ op = "READ")
      BY <3>2
    <3> QED BY <3>1, <3>3, <1>10 DEF Op
  <2> QED BY <2>1, <2>2 DEF ReadsAheadOfWrites
<1> QED BY <1>9, <1>11, <1>12, <1>13, <1>14 DEF QueuesAgree

\* pr and pw are the pending maps without the entry of command c.
Cleared(c, pr, pw) ==
    \A x \in Addr :
       /\ pr[x] > 0 <=> pendingRd[x] > 0 /\ ~(c.addr = x /\ c.op = "READ")
       /\ pw[x] <=> pendingWr[x] /\ ~(c.addr = x /\ c.op = "WRITE")

\* A column command leaves its queue and clears its pending entry.
LEMMA EraseKeeps ==
    ASSUME NEW b \in Bank, NEW k \in 1 .. Len(cmdq[b]), TypeOK,
           OneCommandPerPending, ReadsAheadOfWrites(tq, cmdq),
           NEW cq, cq = [cmdq EXCEPT ![b] = RemoveAt(@, k)],
           NEW pr \in [Addr -> Nat], NEW pw \in [Addr -> BOOLEAN],
           Cleared(cmdq[b][k], pr, pw)
    PROVE  /\ cq \in [Bank -> Seq(Command)]
           /\ QueuesAgree(tq, cq, pr, pw)
           /\ ReadsAheadOfWrites(tq, cq)
<1> DEFINE c == cmdq[b][k]
           r == RemoveAt(cmdq[b], k)
<1>1. cmdq \in [Bank -> Seq(Command)] /\ cmdq[b] \in Seq(Command)
  BY DEF TypeOK
<1>2. /\ QueuesSorted(tq, cmdq) /\ EntriesUnique(tq, cmdq)
      /\ PendingIffQueued(tq, cmdq, pendingRd, pendingWr)
  BY DEF OneCommandPerPending, QueuesAgree
<1>3. c \in Command /\ c.addr \in Addr /\ c.op \in Op /\ BankOf[c.addr] = b
  <2>1. c \in Command
    BY <1>1, ElementOfSeq
  <2> QED BY <2>1, <1>2 DEF Command, QueuesSorted
<1>4. cq[b] = r /\ \A x \in Bank : x # b => cq[x] = cmdq[x]
  BY <1>1
<1> HIDE DEF c, r
<1>5. /\ r \in Seq(Command)
      /\ Len(r) = Len(cmdq[b]) - 1
      /\ \A j \in 1 .. Len(cmdq[b]) - 1 :
            r[j] = IF j < k THEN cmdq[b][j] ELSE cmdq[b][j + 1]
  BY <1>1, RemoveAtShape DEF r
<1>6. Distinct(cmdq[b])
  BY <1>2 DEF EntriesUnique
<1>7. /\ Distinct(r)
      /\ ReadsFirst(cmdq[b]) => ReadsFirst(r)
      /\ \A x, op : Holds(r, x, op)
                       <=> Holds(cmdq[b], x, op) /\ ~(c.addr = x /\ c.op = op)
  BY <1>1, <1>6, RemoveAtKeeps DEF r, c
<1>8. cq \in [Bank -> Seq(Command)]
  BY <1>1, <1>5 DEF r
<1>9. \A x \in Addr, op \in Op :
         Holds(cq[BankOf[x]], x, op)
            <=> Holds(cmdq[BankOf[x]], x, op) /\ ~(c.addr = x /\ c.op = op)
  <2> TAKE x \in Addr, op \in Op
  <2>0. BankOf[x] \in Bank
    BY ControllerConstants
  <2>1. CASE BankOf[x] = b
    BY <2>1, <1>4, <1>7
  <2>2. CASE BankOf[x] # b
    BY <2>0, <2>2, <1>3, <1>4
  <2> QED BY <2>1, <2>2
<1>10. QueuesSorted(tq, cq)
  <2>1. ASSUME NEW i \in 1 .. Len(r) PROVE BankOf[r[i].addr] = b
    <3>1. PICK j \in 1 .. Len(cmdq[b]) : r[i] = cmdq[b][j]
      <4>1. /\ i \in 1 .. Len(cmdq[b]) - 1 /\ i \in 1 .. Len(cmdq[b])
            /\ i + 1 \in 1 .. Len(cmdq[b])
        BY <1>1, <1>5
      <4> QED BY <1>5, <4>1, Zenon
    <3> QED BY <3>1, <1>2 DEF QueuesSorted
  <2> QED BY <2>1, <1>2, <1>4 DEF QueuesSorted
<1>11. EntriesUnique(tq, cq)
  <2>1. \A x \in Bank : Distinct(cq[x])
    BY <1>2, <1>4, <1>7 DEF EntriesUnique
  <2> QED BY <2>1, <1>2, <1>9 DEF EntriesUnique
<1>12. PendingIffQueued(tq, cq, pr, pw)
  <2> SUFFICES ASSUME NEW x \in Addr
               PROVE  /\ pr[x] > 0 <=> \/ Holds(tq[QueueFor("READ")], x, "READ")
                                       \/ Holds(cq[BankOf[x]], x, "READ")
                      /\ pw[x] <=> \/ Holds(tq[QueueFor("WRITE")], x, "WRITE")
                                   \/ Holds(cq[BankOf[x]], x, "WRITE")
    BY DEF PendingIffQueued
  <2>1. \A op \in Op : c.addr = x /\ c.op = op => ~Holds(tq[QueueFor(op)], x, op)
    <3>1. Holds(cmdq[b], c.addr, c.op)
      BY DEF Holds, c
    <3> QED BY <3>1, <1>2, <1>3 DEF EntriesUnique
  <2>2. /\ pr[x] > 0 <=> pendingRd[x] > 0 /\ ~(c.addr = x /\ c.op = "READ")
        /\ pw[x] <=> pendingWr[x] /\ ~(c.addr = x /\ c.op = "WRITE")
    BY DEF c, Cleared
  <2>3. /\ pendingRd[x] > 0 <=> \/ Holds(tq[QueueFor("READ")], x, "READ")
                                \/ Holds(cmdq[BankOf[x]], x, "READ")
        /\ pendingWr[x] <=> \/ Holds(tq[QueueFor("WRITE")], x, "WRITE")
                            \/ Holds(cmdq[BankOf[x]], x, "WRITE")
    BY <1>2 DEF PendingIffQueued
  <2> QED BY <2>1, <2>2, <2>3, <1>9 DEF Op
<1>13. ReadsAheadOfWrites(tq, cq)
  BY <1>4, <1>7, <1>9 DEF ReadsAheadOfWrites, Op
<1> QED BY <1>8, <1>10, <1>11, <1>12, <1>13 DEF QueuesAgree

\* The tail of a tick: one transaction becomes a command, or none does.
LEMMA ScheduleKeeps ==
    ASSUME NEW cq \in [Bank -> Seq(Command)], NEW pr \in [Addr -> Nat],
           NEW pw \in [Addr -> BOOLEAN],
           tq \in [QName -> Seq(Trans)], writeDraining \in Nat,
           DrainWithinBuffer, QueuesAgree(tq, cq, pr, pw),
           ReadsAheadOfWrites(tq, cq), ScheduleTransaction(cq, pr)
    PROVE  /\ tq' \in [QName -> Seq(Trans)]
           /\ cmdq' \in [Bank -> Seq(Command)]
           /\ writeDraining' \in Nat
           /\ DrainWithinBuffer'
           /\ QueuesAgree(tq', cmdq', pr, pw)
           /\ ReadsAheadOfWrites(tq', cmdq')
<1> DEFINE q == SourceQueue(cq)
           d == DrainLevel(cq)
           n == Len(tq["write"])
<1>1. /\ n \in Nat /\ writeDraining \in Nat /\ writeDraining <= n
      /\ d \in Nat /\ d <= n
  <2>1. n \in Nat
    BY DEF QName
  <2> QED BY <2>1 DEF DrainLevel, DrainWithinBuffer
<1>2. q \in QName
  BY DEF SourceQueue, QName
<1> HIDE DEF q, d
<1>3. CASE NothingAcceptable(cq, q)
  BY <1>1, <1>3 DEF NothingAcceptable, DrainWithinBuffer, d
<1>4. ASSUME NEW i \in 1 .. Len(tq[q]), ScheduleFirst(cq, pr, q, i)
      PROVE  /\ tq' \in [QName -> Seq(Trans)]
             /\ cmdq' \in [Bank -> Seq(Command)]
             /\ writeDraining' \in Nat
             /\ DrainWithinBuffer'
             /\ QueuesAgree(tq', cmdq', pr, pw)
             /\ ReadsAheadOfWrites(tq', cmdq')
  <2> DEFINE t == tq[q][i]
             b == BankOf[t.addr]
             c == TransToCommand(q, i)
             r == RemoveAt(tq[q], i)
  <2>1. tq[q] \in Seq(Trans) /\ t \in Trans /\ t.addr \in Addr /\ t.op \in Op
    <3>1. tq[q] \in Seq(Trans)
      BY <1>2
    <3>2. t \in Trans
      BY <3>1, ElementOfSeq
    <3> QED BY <3>1, <3>2 DEF Trans
  <2>2. b \in Bank /\ c \in Command /\ c.addr = t.addr /\ c.op = t.op
    <3>1. b \in Bank
      BY <2>1, ControllerConstants
    <3> QED BY <2>1, <3>1 DEF TransToCommand, Command
  <2>3. CASE WriteHeldBack(cq, pr, t)
    BY <2>3, <1>4, <1>1 DEF ScheduleFirst, DrainWithinBuffer
  <2>4. CASE ~WriteHeldBack(cq, pr, t)
    <3>1. /\ writeDraining' = d - (IF ~UnifiedQueue /\ t.op = "WRITE" THEN 1 ELSE 0)
          /\ cmdq' = [cq EXCEPT ![b] = Append(@, c)]
          /\ tq' = [tq EXCEPT ![q] = r]
          /\ FirstAcceptable(cq, q, i)
      BY <2>4, <1>4 DEF ScheduleFirst, d
    <3> HIDE DEF t, b, c, r
    <3>2. /\ QueuesSorted(tq, cq) /\ EntriesUnique(tq, cq)
          /\ PendingIffQueued(tq, cq, pr, pw)
      BY DEF QueuesAgree
    <3>3. QueueFor(t.op) = q
      BY <3>2, <1>2 DEF QueuesSorted, t
    <3>4. /\ tq'[q] = r /\ \A p \in QName : p # q => tq'[p] = tq[p]
          /\ cmdq'[b] = Append(cq[b], c)
          /\ \A x \in Bank : x # b => cmdq'[x] = cq[x]
      BY <3>1, <1>2, <2>2
    <3>5. /\ Holds(tq[q], t.addr, t.op)
          /\ ~Holds(cq[b], t.addr, t.op)
      <4>1. Holds(tq[q], t.addr, t.op)
        BY DEF Holds, t
      <4> QED BY <4>1, <3>2, <3>3, <2>1 DEF EntriesUnique, b
    <3>6. /\ Distinct(tq[q]) /\ ReadsFirst(tq[q])
          /\ Distinct(cq[b]) /\ ReadsFirst(cq[b])
      BY <3>2, <1>2, <2>2 DEF EntriesUnique, ReadsAheadOfWrites
    \* The transaction leaves its queue ...
    <3>7. /\ r \in Seq(Trans) /\ Len(r) = Len(tq[q]) - 1
          /\ \A j \in 1 .. Len(tq[q]) - 1 :
                r[j] = IF j < i THEN tq[q][j] ELSE tq[q][j + 1]
      BY <2>1, RemoveAtShape DEF r
    <3>8. /\ Distinct(r) /\ ReadsFirst(r)
          /\ \A x, op : Holds(r, x, op)
                           <=> Holds(tq[q], x, op) /\ ~(t.addr = x /\ t.op = op)
      BY <2>1, <3>6, RemoveAtKeeps DEF r, t
    \* ... a write only when no read of its address is left behind ...
    <3>9. t.op = "WRITE" => ~Holds(tq[QueueFor("READ")], t.addr, "READ")
      <4> SUFFICES ASSUME t.op = "WRITE", Holds(tq[QueueFor("READ")], t.addr, "READ")
                   PROVE  FALSE
        OBVIOUS
      <4>1. CASE ~UnifiedQueue
        <5>1. pr[t.addr] > 0
          BY <3>2, <2>1 DEF PendingIffQueued
        <5> QED BY <5>1, <4>1, <2>4 DEF WriteHeldBack
      <4>2. CASE UnifiedQueue
        <5>1. QueueFor("READ") = q
          BY <4>2, <3>3 DEF QueueFor
        <5>2. PICK j \in 1 .. Len(tq[q]) : tq[q][j].addr = t.addr /\ tq[q][j].op = "READ"
          BY <5>1 DEF Holds
        <5>3. j < i
          BY <5>2, <3>6 DEF ReadsFirst, t
        <5>4. j \in 1 .. i - 1
          BY <5>3
        <5> QED BY <5>2, <5>4, <3>1 DEF FirstAcceptable, WillAcceptCommand, t
      <4> QED BY <4>1, <4>2
    \* ... and joins the end of its bank's queue, a read only when no write of
    \* its address is there.
    <3>10. t.op = "WRITE" \/ ~Holds(cq[b], t.addr, "WRITE")
      <4>1. ASSUME t.op = "READ" PROVE ~Holds(cq[b], t.addr, "WRITE")
        BY <4>1, <3>3, <3>5, <2>1 DEF ReadsAheadOfWrites, b
      <4> QED BY <4>1, <2>1 DEF Op
    <3>11. cq[b] \in Seq(Command)
      BY <2>2
    <3>12. /\ Append(cq[b], c) \in Seq(Command)
           /\ Distinct(Append(cq[b], c)) /\ ReadsFirst(Append(cq[b], c))
           /\ \A x, op : Holds(Append(cq[b], c), x, op)
                            <=> Holds(cq[b], x, op) \/ (c.addr = x /\ c.op = op)
      <4>1. /\ ~Holds(cq[b], c.addr, c.op)
            /\ c.op = "WRITE" \/ ~Holds(cq[b], c.addr, "WRITE")
        BY <2>2, <3>5, <3>10
      <4> QED BY <4>1, <2>2, <3>6, <3>11, AppendKeeps
    <3>13. tq' \in [QName -> Seq(Trans)] /\ cmdq' \in [Bank -> Seq(Command)]
      BY <3>1, <3>7, <3>12, <1>2
    <3>14. \A x \in Addr, op \in Op :
              Holds(tq'[QueueFor(op)], x, op)
                <=> Holds(tq[QueueFor(op)], x, op) /\ ~(t.addr = x /\ t.op = op)
      <4> TAKE x \in Addr, op \in Op
      <4>0. QueueFor(op) \in QName
        BY DEF QueueFor, QName
      <4>1. CASE QueueFor(op) = q
        BY <4>1, <3>4, <3>8
      <4>2. CASE QueueFor(op) # q
        BY <4>0, <4>2, <3>3, <3>4
      <4> QED BY <4>1, <4>2
    <3>15. \A x \in Addr, op \in Op :
              Holds(cmdq'[BankOf[x]], x, op)
                <=> Holds(cq[BankOf[x]], x, op) \/ (t.addr = x /\ t.op = op)
      <4> TAKE x \in Addr, op \in Op
      <4>0. BankOf[x] \in Bank
        BY ControllerConstants
      <4>1. CASE BankOf[x] = b
        BY <4>1, <3>4, <3>12, <2>2
      <4>2. CASE BankOf[x] # b
        BY <4>0, <4>2, <3>4 DEF b
      <4> QED BY <4>1, <4>2
    <3>16. QueuesSorted(tq', cmdq')
      <4>1. ASSUME NEW j \in 1 .. Len(r) PROVE QueueFor(r[j].op) = q
        <5>1. PICK m \in 1 .. Len(tq[q]) : r[j] = tq[q][m]
          <6>1. /\ j \in 1 .. Len(tq[q]) - 1 /\ j \in 1 .. Len(tq[q])
                /\ j + 1 \in 1 .. Len(tq[q])
            BY <2>1, <3>7
          <6> QED BY <3>7, <6>1, Zenon
        <5> QED BY <5>1, <3>2, <1>2 DEF QueuesSorted
      <4>2. ASSUME NEW j \in 1 .. Len(Append(cq[b], c))
            PROVE  BankOf[Append(cq[b], c)[j].addr] = b
        <5>1. CASE j = Len(cq[b]) + 1
          BY <5>1, <3>11, <2>2 DEF b
        <5>2. CASE j \in 1 .. Len(cq[b])
          BY <5>2, <3>11, <3>2, <2>2 DEF QueuesSorted
        <5>3. j = Len(cq[b]) + 1 \/ j \in 1 .. Len(cq[b])
          BY <3>11, <2>2
        <5> QED BY <5>1, <5>2, <5>3
      <4>3. ASSUME NEW p \in QName, NEW j \in 1 .. Len(tq'[p])
            PROVE  QueueFor(tq'[p][j].op) = p
        <5>1. CASE p = q
          BY <5>1, <4>1, <3>4
        <5>2. CASE p # q
          BY <5>2, <3>2, <3>4 DEF QueuesSorted
        <5> QED BY <5>1, <5>2
      <4>4. ASSUME NEW x \in Bank, NEW j \in 1 .. Len(cmdq'[x])
            PROVE  BankOf[cmdq'[x][j].addr] = x
        <5>1. CASE x = b
          BY <5>1, <4>2, <3>4
        <5>2. CASE x # b
          <6>1. cmdq'[x] = cq[x]
            BY <5>2, <3>4
          <6>2. \A k \in 1 .. Len(cq[x]) : BankOf[cq[x][k].addr] = x
            BY <3>2 DEF QueuesSorted
          <6> QED BY <6>1, <6>2
        <5> QED BY <5>1, <5>2
      <4> QED BY <4>3, <4>4 DEF QueuesSorted
    <3>17. EntriesUnique(tq', cmdq')
      <4>1. /\ \A p \in QName : Distinct(tq'[p])
            /\ \A x \in Bank : Distinct(cmdq'[x])
        BY <3>2, <3>4, <3>8, <3>12 DEF EntriesUnique
      <4> QED BY <4>1, <3>2, <3>14, <3>15 DEF EntriesUnique
    <3>18. PendingIffQueued(tq', cmdq', pr, pw)
      <4>1. \A x \in Addr, op \in Op :
               \/ Holds(tq'[QueueFor(op)], x, op)
               \/ Holds(cmdq'[BankOf[x]], x, op)
               <=> \/ Holds(tq[QueueFor(op)], x, op)
                   \/ Holds(cq[BankOf[x]], x, op)
        BY <3>3, <3>5, <3>14, <3>15
      <4> QED BY <4>1, <3>2 DEF PendingIffQueued, Op
    <3>19. ReadsAheadOfWrites(tq', cmdq')
      <4>1. /\ \A p \in QName : ReadsFirst(tq'[p])
            /\ \A x \in Bank : ReadsFirst(cmdq'[x])
        BY <3>4, <3>8, <3>12 DEF ReadsAheadOfWrites
      <4>2. ASSUME NEW x \in Addr, Holds(cmdq'[BankOf[x]], x, "WRITE")
            PROVE  ~Holds(tq'[QueueFor("READ")], x, "READ")
        BY <4>2, <3>9, <3>14, <3>15 DEF ReadsAheadOfWrites, Op
      <4> QED BY <4>1, <4>2 DEF ReadsAheadOfWrites
    <3>20. writeDraining' \in Nat /\ DrainWithinBuffer'
      <4>1. CASE q = "write"
        <5>1. ~UnifiedQueue /\ d > 0 /\ t.op = "WRITE"
          BY <4>1, <3>3, <2>1 DEF q, d, SourceQueue, QueueFor, Op
        <5> QED BY <5>1, <4>1, <1>1, <3>1, <3>4, <3>7 DEF DrainWithinBuffer
      <4>2. CASE q # "write"
        <5>1. UnifiedQueue \/ t.op # "WRITE"
          BY <4>2, <3>3 DEF QueueFor
        <5>2. tq'["write"] = tq["write"]
          BY <4>2, <3>4 DEF QName
        <5>3. writeDraining' = d
          BY <5>1, <1>1, <3>1, ControllerConstants
        <5> QED BY <5>2, <5>3, <1>1 DEF DrainWithinBuffer
      <4> QED BY <4>1, <4>2
    <3> QED BY <3>13, <3>16, <3>17, <3>18, <3>19, <3>20 DEF QueuesAgree
  <2> QED BY <2>3, <2>4
<1> QED BY <1>3, <1>4 DEF ScheduleTransaction, q

-----------------------------------------------------------------------------
(* Every action keeps the invariant.                                       *)

\* The empty channel satisfies the invariant.
LEMMA InitEstablishes == Init => ControllerInv
<1> SUFFICES ASSUME Init PROVE ControllerInv
  OBVIOUS
<1> USE ControllerConstants
<1>1. TypeOK
  <2>1. << >> \in Seq(Trans) /\ << >> \in Seq(Command)
    OBVIOUS
  <2>2. want \in [Addr -> SUBSET Nat] /\ rowHits \in [Bank -> 0 .. RowHitLimit]
    BY DEF Init
  <2>3. /\ tq \in [QName -> Seq(Trans)] /\ cmdq \in [Bank -> Seq(Command)]
        /\ openRow \in [Bank -> Row \cup {NoRow}]
    BY <2>1 DEF Init
  <2> QED BY <2>2, <2>3 DEF Init, TypeOK
<1>2. /\ \A q \in QName : tq[q] = << >>
      /\ \A b \in Bank : cmdq[b] = << >>
      /\ \A op \in Op : QueueFor(op) \in QName
      /\ \A a \in Addr : BankOf[a] \in Bank
  BY DEF Init, QueueFor, QName
<1>3. \A a, op : ~Holds(<< >>, a, op)
  BY DEF Holds
<1>4. Distinct(<< >>) /\ ReadsFirst(<< >>)
  BY DEF Distinct, ReadsFirst
<1>5. OneCommandPerPending
  <2>1. QueuesSorted(tq, cmdq)
    BY <1>2 DEF QueuesSorted
  <2>2. EntriesUnique(tq, cmdq)
    BY <1>2, <1>3, <1>4 DEF EntriesUnique
  <2>3. PendingIffQueued(tq, cmdq, pendingRd, pendingWr)
    BY <1>2, <1>3 DEF PendingIffQueued, Init, Op
  <2> QED BY <2>1, <2>2, <2>3 DEF OneCommandPerPending, QueuesAgree
<1>6. ReadsAheadOfWrites(tq, cmdq)
  BY <1>2, <1>3, <1>4 DEF ReadsAheadOfWrites, Op
<1>7. /\ ReadsObserveLatestWrite /\ NeverExits /\ DrainWithinBuffer
      /\ \A a \in Addr : want[a] # {} => pendingRd[a] > 0
  BY DEF Init, ReadsObserveLatestWrite, NeverExits, DrainWithinBuffer, QName
<1> QED BY <1>1, <1>5, <1>6, <1>7 DEF ControllerInv

\* The front end hands over a write: merged, or queued behind every read.
LEMMA AddWriteKeeps ==
    ASSUME NEW a \in Addr, ControllerInv, AddWrite(a),
           accepted' = accepted + 1,
           UNCHANGED <<writeDraining, cmdq, openRow, rowHits, halted, dram>>
    PROVE  ControllerInv'
<1>1. TypeOK /\ OneCommandPerPending /\ ReadsAheadOfWrites(tq, cmdq)
  BY DEF ControllerInv
<1>2. /\ pendingWr' = [pendingWr EXCEPT ![a] = TRUE] /\ pendingRd' = pendingRd
      /\ pendingWr' \in [Addr -> BOOLEAN] /\ pendingRd' \in [Addr -> Nat]
  BY <1>1 DEF AddWrite, TypeOK
<1>3. /\ tq' \in [QName -> Seq(Trans)]
      /\ QueuesAgree(tq', cmdq, pendingRd', pendingWr')
      /\ ReadsAheadOfWrites(tq', cmdq)
      /\ Len(tq'["write"]) >= Len(tq["write"])
  <2>1. CASE pendingWr[a]
    <3>1. tq' = tq /\ pendingWr' = pendingWr
      BY <2>1, <1>1, <1>2 DEF AddWrite, TypeOK
    <3>2. Len(tq["write"]) \in Nat
      BY <1>1 DEF TypeOK, QName
    <3> QED BY <3>1, <3>2, <1>1, <1>2 DEF TypeOK, OneCommandPerPending
  <2>2. CASE ~pendingWr[a]
    <3>1. Enqueue(a, "WRITE")
      BY <2>2 DEF AddWrite
    <3> QED BY <3>1, <2>2, <1>1, <1>2, EnqueueKeeps DEF Op
  <2> QED BY <2>1, <2>2
<1>4. TypeOK'
  BY <1>1, <1>2, <1>3 DEF TypeOK, AddWrite
<1>5. ReadsObserveLatestWrite'
  BY <1>1, <1>2 DEF ControllerInv, ReadsObserveLatestWrite, AddWrite, TypeOK
<1>6. DrainWithinBuffer'
  <2>1. /\ Len(tq["write"]) \in Nat /\ Len(tq'["write"]) \in Nat
        /\ writeDraining \in Nat
    BY <1>1, <1>3 DEF TypeOK, QName
  <2> QED BY <2>1, <1>3 DEF ControllerInv, DrainWithinBuffer
<1>7. NeverExits' /\ \A x \in Addr : want'[x] # {} => pendingRd'[x] > 0
  BY DEF ControllerInv, NeverExits, AddWrite
<1> QED BY <1>3, <1>4, <1>5, <1>6, <1>7 DEF ControllerInv, OneCommandPerPending

\* The front end hands over a read: forwarded, merged, or queued.
LEMMA AddReadKeeps ==
    ASSUME NEW a \in Addr, ControllerInv,
           AddForwardedRead(a) \/ AddPendingRead(a),
           accepted' = accepted + 1,
           UNCHANGED <<writeDraining, cmdq, openRow, rowHits, halted, dram>>
    PROVE  ControllerInv'
<1>1. TypeOK /\ OneCommandPerPending /\ ReadsAheadOfWrites(tq, cmdq)
  BY DEF ControllerInv
<1>2. CASE AddForwardedRead(a)
  <2>1. TypeOK'
    BY <1>1, <1>2 DEF AddForwardedRead, TypeOK
  <2>2. UNCHANGED <<tq, pendingRd, pendingWr, latest, want, dram, cmdq,
                    writeDraining, halted>>
    BY <1>2 DEF AddForwardedRead
  <2> QED BY <2>1, <2>2 DEF ControllerInv, OneCommandPerPending, NeverExits,
                           ReadsObserveLatestWrite, DrainWithinBuffer
<1>3. CASE AddPendingRead(a)
  <2>1. /\ ~pendingWr[a] /\ pendingWr' = pendingWr
        /\ pendingRd' = [pendingRd EXCEPT ![a] = @ + 1]
        /\ pendingWr' \in [Addr -> BOOLEAN] /\ pendingRd' \in [Addr -> Nat]
    BY <1>1, <1>3 DEF AddPendingRead, TypeOK
  <2>2. /\ tq' \in [QName -> Seq(Trans)]
        /\ QueuesAgree(tq', cmdq, pendingRd', pendingWr')
        /\ ReadsAheadOfWrites(tq', cmdq)
        /\ Len(tq'["write"]) >= Len(tq["write"])
    <3>1. CASE pendingRd[a] = 0
      <4>1. Enqueue(a, "READ")
        BY <3>1, <1>3 DEF AddPendingRead
      <4> QED BY <4>1, <3>1, <2>1, <1>1, EnqueueKeeps DEF Op
    <3>2. CASE pendingRd[a] # 0
      <4>1. tq' = tq
        BY <3>2, <1>3 DEF AddPendingRead
      <4>2. Len(tq["write"]) \in Nat /\ tq \in [QName -> Seq(Trans)]
        BY <1>1 DEF TypeOK, QName
      <4>3. \A x \in Addr : pendingRd'[x] > 0 <=> pendingRd[x] > 0
        BY <3>2, <2>1, <1>1 DEF TypeOK
      <4>4. QueuesAgree(tq', cmdq, pendingRd', pendingWr')
        BY <4>1, <4>3, <2>1, <1>1
           DEF OneCommandPerPending, QueuesAgree, PendingIffQueued
      <4> QED BY <4>1, <4>2, <4>4, <1>1
    <3> QED BY <3>1, <3>2
  <2>3. TypeOK'
    BY <1>1, <1>3, <2>1, <2>2 DEF TypeOK, AddPendingRead
  <2>4. ReadsObserveLatestWrite'
    BY <1>1, <1>3, <2>1
       DEF ControllerInv, ReadsObserveLatestWrite, AddPendingRead, TypeOK
  <2>5. DrainWithinBuffer'
    <3>1. /\ Len(tq["write"]) \in Nat /\ Len(tq'["write"]) \in Nat
          /\ writeDraining \in Nat
      BY <1>1, <2>2 DEF TypeOK, QName
    <3> QED BY <3>1, <2>2 DEF ControllerInv, DrainWithinBuffer
  <2>6. NeverExits' /\ \A x \in Addr : want'[x] # {} => pendingRd'[x] > 0
    BY <1>1, <1>3, <2>1 DEF ControllerInv, NeverExits, AddPendingRead, TypeOK
  <2> QED BY <2>2, <2>3, <2>4, <2>5, <2>6 DEF ControllerInv, OneCommandPerPending
<1> QED BY <1>2, <1>3

\* A tick whose command touches no pending map: activate, precharge, or none.
LEMMA RowTickKeeps ==
    ASSUME ControllerInv, ScheduleTransaction(cmdq, pendingRd),
           openRow' \in [Bank -> Row \cup {NoRow}],
           rowHits' \in [Bank -> 0 .. RowHitLimit],
           UNCHANGED <<pendingRd, pendingWr, retRd, retWr, halted, accepted,
                       latest, dram, want>>
    PROVE  ControllerInv'
<1>1. TypeOK /\ OneCommandPerPending /\ ReadsAheadOfWrites(tq, cmdq)
  BY DEF ControllerInv
<1>2. /\ tq' \in [QName -> Seq(Trans)] /\ cmdq' \in [Bank -> Seq(Command)]
      /\ writeDraining' \in Nat /\ DrainWithinBuffer'
      /\ QueuesAgree(tq', cmdq', pendingRd, pendingWr)
      /\ ReadsAheadOfWrites(tq', cmdq')
  BY <1>1, ScheduleKeeps DEF ControllerInv, TypeOK, OneCommandPerPending
<1>3. TypeOK'
  BY <1>1, <1>2 DEF TypeOK
<1> QED BY <1>2, <1>3 DEF ControllerInv, OneCommandPerPending, NeverExits,
                         ReadsObserveLatestWrite

\* BankState::UpdateState leaves a legal row and hit count.
LEMMA UpdateRowType ==
    ASSUME TypeOK, NEW b \in Bank, NEW c \in Command, UpdateRow(b, c)
    PROVE  /\ openRow' \in [Bank -> Row \cup {NoRow}]
           /\ rowHits' \in [Bank -> 0 .. RowHitLimit]
<1> USE ControllerConstants
<1>1. /\ openRow \in [Bank -> Row \cup {NoRow}]
      /\ rowHits \in [Bank -> 0 .. RowHitLimit]
  BY DEF TypeOK
<1>2. CASE c.pre
  <2>1. /\ openRow' = [openRow EXCEPT ![b] = NoRow]
        /\ rowHits' = [rowHits EXCEPT ![b] = 0]
    BY <1>2 DEF UpdateRow
  <2> QED BY <1>1, <2>1
<1>3. CASE ~c.pre
  <2>1. /\ openRow' = openRow
        /\ rowHits' = [rowHits EXCEPT ![b] =
                          IF rowHits[b] < RowHitLimit THEN rowHits[b] + 1 ELSE rowHits[b]]
    BY <1>3 DEF UpdateRow
  <2> QED BY <1>1, <2>1
<1> QED BY <1>2, <1>3

\* The type of a ready column command tells its direction: the row is open
\* and the entry itself is what the bank needs.
LEMMA ReadyDirection ==
    ASSUME TypeOK, NEW b \in Bank, NEW i \in 1 .. Len(cmdq[b]), NEW type,
           FirstReadyInQueue(b, type, i)
    PROVE  /\ cmdq[b][i] \in Command
           /\ type \in ReadType => cmdq[b][i].op = "READ"
           /\ type \in WriteType => cmdq[b][i].op = "WRITE" /\ ~HasRWDependency(b, i)
<1>1. cmdq[b] \in Seq(Command)
  BY DEF TypeOK
<1>2. cmdq[b][i] \in Command
  BY <1>1, ElementOfSeq
<1>3. RequiredType(b, cmdq[b][i]) = type
  BY DEF FirstReadyInQueue, Selectable
<1>4. type \in WriteType => ~HasRWDependency(b, i)
  BY DEF FirstReadyInQueue, Selectable
<1>5. cmdq[b][i].op \in {"READ", "WRITE"}
  BY <1>2 DEF Command, Op
<1>6. /\ type \in ReadType => RWType(cmdq[b][i]) = type
      /\ type \in WriteType => RWType(cmdq[b][i]) = type
  BY <1>3 DEF RequiredType, ReadType, WriteType
<1>7. CASE cmdq[b][i].op = "READ"
  BY <1>7, <1>2, <1>4, <1>6 DEF RWType, ReadType, WriteType
<1>8. CASE cmdq[b][i].op = "WRITE"
  BY <1>8, <1>2, <1>4, <1>6 DEF RWType, ReadType, WriteType
<1> QED BY <1>5, <1>7, <1>8

\* A read command finds its pending reads, and answers all of them.
LEMMA IssueReadKeeps ==
    ASSUME ControllerInv, NEW b \in Bank, NEW type \in ReadType, IssueRead(b, type)
    PROVE  ControllerInv'
<1>1. TypeOK /\ OneCommandPerPending /\ ReadsAheadOfWrites(tq, cmdq)
  BY DEF ControllerInv
<1>2. PICK i \in 1 .. Len(cmdq[b]), k \in 1 .. Len(cmdq[b]) :
         LET c == cmdq[b][i]
             cq == [cmdq EXCEPT ![b] = RemoveAt(@, k)]
             pr == [pendingRd EXCEPT ![c.addr] = 0]
         IN /\ FirstReadyInQueue(b, type, i)
            /\ EraseRWCommand(cmdq[b], c, k)
            /\ halted' = (pendingRd[c.addr] = 0)
            /\ pendingRd' = pr
            /\ retRd' = [retRd EXCEPT ![c.addr] = @ + pendingRd[c.addr]]
            /\ want' = [want EXCEPT ![c.addr] = {}]
            /\ UpdateRow(b, c)
            /\ ScheduleTransaction(cq, pr)
            /\ UNCHANGED <<pendingWr, retWr, accepted, latest, dram>>
  BY DEF IssueRead
<1> DEFINE c == cmdq[b][i]
           a == c.addr
           cq == [cmdq EXCEPT ![b] = RemoveAt(@, k)]
           pr == [pendingRd EXCEPT ![a] = 0]
<1>3. c \in Command /\ c.op = "READ" /\ a \in Addr /\ BankOf[a] = b
  <2>1. c \in Command /\ c.op = "READ"
    BY <1>1, <1>2, ReadyDirection
  <2> QED BY <2>1, <1>1
      DEF Command, OneCommandPerPending, QueuesAgree, QueuesSorted
<1>4. cmdq[b][k].addr = a /\ cmdq[b][k].op = "READ"
  BY <1>2, <1>3 DEF EraseRWCommand
<1>5. pendingRd[a] > 0
  <2>1. Holds(cmdq[BankOf[a]], a, "READ")
    BY <1>3 DEF Holds
  <2> QED BY <2>1, <1>1, <1>3 DEF OneCommandPerPending, QueuesAgree, PendingIffQueued
<1>6. /\ pr \in [Addr -> Nat] /\ pendingRd \in [Addr -> Nat]
      /\ pendingWr \in [Addr -> BOOLEAN] /\ writeDraining \in Nat
      /\ tq \in [QName -> Seq(Trans)]
  BY <1>1 DEF TypeOK
<1>7. Cleared(cmdq[b][k], pr, pendingWr)
  BY <1>4, <1>6 DEF Cleared
<1>8. /\ pendingRd' = pr /\ halted' = (pendingRd[a] = 0)
      /\ retRd' = [retRd EXCEPT ![a] = @ + pendingRd[a]]
      /\ want' = [want EXCEPT ![a] = {}]
      /\ UpdateRow(b, c) /\ ScheduleTransaction(cq, pr)
      /\ UNCHANGED <<pendingWr, retWr, accepted, latest, dram>>
  BY <1>2
<1> HIDE DEF c, a, cq, pr
<1>9. /\ cq \in [Bank -> Seq(Command)] /\ QueuesAgree(tq, cq, pr, pendingWr)
      /\ ReadsAheadOfWrites(tq, cq)
  <2>1. cq = [cmdq EXCEPT ![b] = RemoveAt(@, k)]
    BY DEF cq
  <2> QED BY <1>1, <1>6, <1>7, <2>1, EraseKeeps
<1>10. /\ tq' \in [QName -> Seq(Trans)] /\ cmdq' \in [Bank -> Seq(Command)]
       /\ writeDraining' \in Nat /\ DrainWithinBuffer'
       /\ QueuesAgree(tq', cmdq', pr, pendingWr)
       /\ ReadsAheadOfWrites(tq', cmdq')
  BY <1>6, <1>8, <1>9, ScheduleKeeps DEF ControllerInv
<1>11. TypeOK'
  <2>1. /\ openRow' \in [Bank -> Row \cup {NoRow}]
        /\ rowHits' \in [Bank -> 0 .. RowHitLimit]
    BY <1>1, <1>3, <1>8, UpdateRowType
  <2>2. retRd' \in [Addr -> Nat] /\ want' \in [Addr -> SUBSET Nat]
    BY <1>1, <1>3, <1>6, <1>8 DEF TypeOK
  <2> QED BY <2>1, <2>2, <1>1, <1>5, <1>6, <1>8, <1>10 DEF TypeOK
<1>12. ReadsObserveLatestWrite'
  BY <1>1, <1>3, <1>8 DEF ControllerInv, ReadsObserveLatestWrite, TypeOK
<1>13. \A x \in Addr : want'[x] # {} => pendingRd'[x] > 0
  BY <1>1, <1>3, <1>6, <1>8 DEF ControllerInv, TypeOK, pr
<1>14. NeverExits'
  <2>1. pendingRd[a] # 0
    BY <1>3, <1>5, <1>6
  <2> QED BY <2>1, <1>8 DEF NeverExits
<1> QED BY <1>8, <1>10, <1>11, <1>12, <1>13, <1>14
        DEF ControllerInv, OneCommandPerPending

\* A write command finds its pending write, and no read of its address waits.
LEMMA IssueWriteKeeps ==
    ASSUME ControllerInv, NEW b \in Bank, NEW type \in WriteType, IssueWrite(b, type)
    PROVE  ControllerInv'
<1>1. TypeOK /\ OneCommandPerPending /\ ReadsAheadOfWrites(tq, cmdq)
  BY DEF ControllerInv
<1>2. PICK i \in 1 .. Len(cmdq[b]), k \in 1 .. Len(cmdq[b]) :
         LET c == cmdq[b][i]
             cq == [cmdq EXCEPT ![b] = RemoveAt(@, k)]
         IN /\ FirstReadyInQueue(b, type, i)
            /\ EraseRWCommand(cmdq[b], c, k)
            /\ halted' = ~pendingWr[c.addr]
            /\ pendingWr' = [pendingWr EXCEPT ![c.addr] = FALSE]
            /\ dram' = [dram EXCEPT ![c.addr] = latest[c.addr]]
            /\ UpdateRow(b, c)
            /\ ScheduleTransaction(cq, pendingRd)
            /\ UNCHANGED <<pendingRd, retRd, retWr, accepted, latest, want>>
  BY DEF IssueWrite
<1> DEFINE c == cmdq[b][i]
           a == c.addr
           cq == [cmdq EXCEPT ![b] = RemoveAt(@, k)]
           pw == [pendingWr EXCEPT ![a] = FALSE]
<1>3. /\ c \in Command /\ c.op = "WRITE" /\ a \in Addr /\ BankOf[a] = b
      /\ ~HasRWDependency(b, i)
  <2>1. c \in Command /\ c.op = "WRITE" /\ ~HasRWDependency(b, i)
    BY <1>1, <1>2, ReadyDirection
  <2> QED BY <2>1, <1>1
      DEF Command, OneCommandPerPending, QueuesAgree, QueuesSorted
<1>4. cmdq[b][k].addr = a /\ cmdq[b][k].op = "WRITE"
  BY <1>2, <1>3 DEF EraseRWCommand
<1>5. /\ PendingIffQueued(tq, cmdq, pendingRd, pendingWr)
      /\ Holds(cmdq[BankOf[a]], a, "WRITE")
  BY <1>1, <1>3 DEF Holds, OneCommandPerPending, QueuesAgree
<1>6. /\ pw \in [Addr -> BOOLEAN] /\ pendingRd \in [Addr -> Nat]
      /\ pendingWr \in [Addr -> BOOLEAN] /\ writeDraining \in Nat
      /\ tq \in [QName -> Seq(Trans)]
  BY <1>1 DEF TypeOK
<1>7. Cleared(cmdq[b][k], pendingRd, pw)
  BY <1>4, <1>6 DEF Cleared
<1>8. /\ pendingWr' = pw /\ halted' = ~pendingWr[a]
      /\ dram' = [dram EXCEPT ![a] = latest[a]]
      /\ UpdateRow(b, c) /\ ScheduleTransaction(cq, pendingRd)
      /\ UNCHANGED <<pendingRd, retRd, retWr, accepted, latest, want>>
  BY <1>2
<1>9. ~Holds(cmdq[BankOf[a]], a, "READ") /\ ~Holds(tq[QueueFor("READ")], a, "READ")
  <2>1. ~Holds(tq[QueueFor("READ")], a, "READ")
    BY <1>1, <1>3, <1>5 DEF ReadsAheadOfWrites
  <2>2. ASSUME NEW j \in 1 .. Len(cmdq[b]), cmdq[b][j].addr = a, cmdq[b][j].op = "READ"
        PROVE  FALSE
    <3>1. j < i
      BY <2>2, <1>1, <1>3 DEF ReadsAheadOfWrites, ReadsFirst
    <3>2. j \in 1 .. i - 1
      BY <3>1
    <3> QED BY <2>2, <3>2, <1>3 DEF HasRWDependency
  <2> QED BY <2>1, <2>2, <1>3 DEF Holds
<1>10. pendingWr[a] /\ want[a] = {}
  <2>1. pendingWr[a] /\ ~(pendingRd[a] > 0)
    BY <1>3, <1>5, <1>9 DEF PendingIffQueued
  <2> QED BY <2>1, <1>3 DEF ControllerInv
<1> HIDE DEF c, a, cq, pw
<1>11. /\ cq \in [Bank -> Seq(Command)] /\ QueuesAgree(tq, cq, pendingRd, pw)
       /\ ReadsAheadOfWrites(tq, cq)
  <2>1. cq = [cmdq EXCEPT ![b] = RemoveAt(@, k)]
    BY DEF cq
  <2> QED BY <1>1, <1>6, <1>7, <2>1, EraseKeeps
<1>12. /\ tq' \in [QName -> Seq(Trans)] /\ cmdq' \in [Bank -> Seq(Command)]
       /\ writeDraining' \in Nat /\ DrainWithinBuffer'
       /\ QueuesAgree(tq', cmdq', pendingRd, pw)
       /\ ReadsAheadOfWrites(tq', cmdq')
  BY <1>6, <1>8, <1>11, ScheduleKeeps DEF ControllerInv
<1>13. NeverExits' /\ \A x \in Addr : want'[x] # {} => pendingRd'[x] > 0
  BY <1>8, <1>10 DEF ControllerInv, NeverExits
<1>14. TypeOK'
  <2>1. /\ openRow' \in [Bank -> Row \cup {NoRow}]
        /\ rowHits' \in [Bank -> 0 .. RowHitLimit]
    BY <1>1, <1>3, <1>8, UpdateRowType
  <2>2. dram' \in [Addr -> Nat]
    BY <1>1, <1>3, <1>8 DEF TypeOK
  <2>3. halted' \in BOOLEAN
    BY <1>8, Zenon
  <2> QED BY <2>1, <2>2, <2>3, <1>1, <1>6, <1>8, <1>12 DEF TypeOK
<1>15. ReadsObserveLatestWrite'
  <2> SUFFICES ASSUME NEW x \in Addr
               PROVE  want'[x] \subseteq {dram'[x]} /\ (~pendingWr'[x] => dram'[x] = latest'[x])
    BY DEF ReadsObserveLatestWrite
  <2>1. CASE x = a
    BY <2>1, <1>1, <1>8, <1>10 DEF TypeOK
  <2>2. CASE x # a
    BY <2>2, <1>1, <1>6, <1>8 DEF TypeOK, pw, ControllerInv, ReadsObserveLatestWrite
  <2> QED BY <2>1, <2>2
<1> QED BY <1>8, <1>12, <1>13, <1>14, <1>15 DEF ControllerInv, OneCommandPerPending

\* Every step of the channel, and every step that leaves it alone.
LEMMA NextKeeps == ControllerInv /\ [Next]_vars => ControllerInv'
<1> SUFFICES ASSUME ControllerInv, [Next]_vars PROVE ControllerInv'
  OBVIOUS
<1>0. TypeOK
  BY DEF ControllerInv
<1>1. ASSUME NEW a \in Addr, NEW op \in Op, AddTransaction(a, op)
      PROVE  ControllerInv'
  <2>1. /\ accepted' = accepted + 1
        /\ UNCHANGED <<writeDraining, cmdq, openRow, rowHits, halted, dram>>
    BY <1>1 DEF AddTransaction
  <2>2. CASE AddWrite(a)
    BY <2>1, <2>2, AddWriteKeeps
  <2>3. CASE AddForwardedRead(a) \/ AddPendingRead(a)
    BY <2>1, <2>3, AddReadKeeps
  <2> QED BY <1>1, <2>2, <2>3 DEF AddTransaction
<1>2. ASSUME NEW a \in Addr, ReturnDoneTrans(a)
      PROVE  ControllerInv'
  <2>1. retRd' \in [Addr -> Nat] /\ retWr' \in [Addr -> Nat]
    <3>1. retRd \in [Addr -> Nat] /\ retWr \in [Addr -> Nat]
      BY <1>0 DEF TypeOK
    <3>2. CASE retRd[a] > 0 /\ retRd' = [retRd EXCEPT ![a] = @ - 1] /\ retWr' = retWr
      BY <3>1, <3>2
    <3>3. CASE retWr[a] > 0 /\ retWr' = [retWr EXCEPT ![a] = @ - 1] /\ retRd' = retRd
      BY <3>1, <3>3
    <3> QED BY <1>2, <3>2, <3>3 DEF ReturnDoneTrans
  <2>2. UNCHANGED <<tq, pendingRd, pendingWr, writeDraining, cmdq, openRow,
                    rowHits, halted, accepted, latest, dram, want>>
    BY <1>2 DEF ReturnDoneTrans
  <2>3. TypeOK'
    BY <1>0, <2>1, <2>2 DEF TypeOK
  <2> QED BY <2>2, <2>3 DEF ControllerInv, OneCommandPerPending, NeverExits,
                           ReadsObserveLatestWrite, DrainWithinBuffer
<1>3. CASE IdleTick
  BY <1>0, <1>3, RowTickKeeps DEF IdleTick, TypeOK
<1>4. ASSUME NEW b \in Bank, IssueActivate(b)
      PROVE  ControllerInv'
  <2>1. PICK i \in 1 .. Len(cmdq[b]) :
           openRow' = [openRow EXCEPT ![b] = RowOf[cmdq[b][i].addr]]
    BY <1>4 DEF IssueActivate
  <2>2. cmdq[b][i] \in Command
    BY <1>0, ElementOfSeq DEF TypeOK
  <2>3. openRow' \in [Bank -> Row \cup {NoRow}]
    BY <1>0, <2>1, <2>2, ControllerConstants DEF TypeOK, Command
  <2>4. rowHits' \in [Bank -> 0 .. RowHitLimit]
    BY <1>0, <1>4 DEF TypeOK, IssueActivate
  <2> QED BY <1>4, <2>3, <2>4, RowTickKeeps DEF IssueActivate
<1>5. ASSUME NEW b \in Bank, CloseRow(b)
      PROVE  ControllerInv'
  <2>1. /\ openRow' \in [Bank -> Row \cup {NoRow}]
        /\ rowHits' \in [Bank -> 0 .. RowHitLimit]
    BY <1>0, <1>5, ControllerConstants DEF CloseRow, TypeOK
  <2> QED BY <1>5, <2>1, RowTickKeeps DEF CloseRow
<1>6. ASSUME NEW b \in Bank, IssuePrecharge(b) \/ RefreshPrecharge(b)
      PROVE  ControllerInv'
  BY <1>5, <1>6 DEF IssuePrecharge, RefreshPrecharge
<1>7. ASSUME NEW b \in Bank, IssueColumn(b)
      PROVE  ControllerInv'
  BY <1>7, IssueReadKeeps, IssueWriteKeeps DEF IssueColumn
<1>8. CASE UNCHANGED vars
  BY <1>8 DEF vars, ControllerInv, TypeOK, OneCommandPerPending, NeverExits,
              ReadsObserveLatestWrite, DrainWithinBuffer
<1> QED BY <1>1, <1>2, <1>3, <1>4, <1>6, <1>7, <1>8 DEF Next, ClockTick

-----------------------------------------------------------------------------
(* The theorems.                                                           *)

\* ControllerInv holds of every channel configuration, number of banks and
\* queue size: pending maps and queues agree, reads stay ahead of younger
\* writes, and a write drain never outlives the writes it counted.
THEOREM ControllerInvariant == Spec => []ControllerInv
BY InitEstablishes, NextKeeps, PTL DEF Spec

\* One access of a kind to an address waits in one place, or none.
LEMMA OnePlace ==
    ASSUME ControllerInv, NEW a \in Addr, NEW op \in Op
    PROVE  Cardinality(Places(a, op)) =
              IF \/ Holds(tq[QueueFor(op)], a, op)
                 \/ Holds(cmdq[BankOf[a]], a, op) THEN 1 ELSE 0
<1>1. QueuesSorted(tq, cmdq) /\ EntriesUnique(tq, cmdq)
  BY DEF ControllerInv, OneCommandPerPending, QueuesAgree
<1>2. QueueFor(op) \in QName /\ BankOf[a] \in Bank
  BY ControllerConstants DEF QueueFor, QName
<1>3. \A q \in QName : Holds(tq[q], a, op) => q = QueueFor(op)
  BY <1>1 DEF QueuesSorted, Holds
<1>4. \A b \in Bank : Holds(cmdq[b], a, op) => b = BankOf[a]
  BY <1>1 DEF QueuesSorted, Holds
<1>5. ~(Holds(tq[QueueFor(op)], a, op) /\ Holds(cmdq[BankOf[a]], a, op))
  BY <1>1 DEF EntriesUnique
<1>6. CASE Holds(tq[QueueFor(op)], a, op)
  <2>1. Places(a, op) = {<<"trans", QueueFor(op)>>}
    BY <1>2, <1>3, <1>4, <1>5, <1>6 DEF Places
  <2> QED BY <1>6, <2>1, FS_Singleton
<1>7. CASE Holds(cmdq[BankOf[a]], a, op)
  <2>1. Places(a, op) = {<<"cmd", BankOf[a]>>}
    BY <1>2, <1>3, <1>4, <1>5, <1>7 DEF Places
  <2> QED BY <1>7, <2>1, FS_Singleton
<1>8. CASE ~Holds(tq[QueueFor(op)], a, op) /\ ~Holds(cmdq[BankOf[a]], a, op)
  <2>1. Places(a, op) = {}
    BY <1>3, <1>4, <1>8 DEF Places
  <2> QED BY <1>8, <2>1, FS_EmptySet
<1> QED BY <1>6, <1>7, <1>8

\* pending_rd_q_ and pending_wr_q_ agree with the queues of controller.cc, for a
\* unified queue and for separate ones.
THEOREM OneCommand == Spec => []PendingMeansQueued
<1>1. ControllerInv => PendingMeansQueued
  <2> SUFFICES ASSUME ControllerInv PROVE PendingMeansQueued
    OBVIOUS
  <2>1. EntriesUnique(tq, cmdq) /\ PendingIffQueued(tq, cmdq, pendingRd, pendingWr)
    BY DEF ControllerInv, OneCommandPerPending, QueuesAgree
  <2>2. ASSUME NEW a \in Addr
        PROVE  /\ Cardinality(Places(a, "READ")) = IF pendingRd[a] > 0 THEN 1 ELSE 0
               /\ Cardinality(Places(a, "WRITE")) = IF pendingWr[a] THEN 1 ELSE 0
    <3>1. "READ" \in Op /\ "WRITE" \in Op
      BY DEF Op
    <3>2. pendingRd[a] > 0 <=> \/ Holds(tq[QueueFor("READ")], a, "READ")
                               \/ Holds(cmdq[BankOf[a]], a, "READ")
      BY <2>1 DEF PendingIffQueued
    <3>3. pendingWr[a] <=> \/ Holds(tq[QueueFor("WRITE")], a, "WRITE")
                           \/ Holds(cmdq[BankOf[a]], a, "WRITE")
      BY <2>1 DEF PendingIffQueued
    <3> QED BY <3>1, <3>2, <3>3, OnePlace
  <2> QED BY <2>1, <2>2 DEF PendingMeansQueued, EntriesUnique
<1> QED BY <1>1, ControllerInvariant, PTL

\* IssueCommand's two exit(1) calls are unreachable.
THEOREM Exits == Spec => []NeverExits
<1>1. ControllerInv => NeverExits
  BY DEF ControllerInv
<1> QED BY <1>1, ControllerInvariant, PTL

\* Forwarding, merging and the two dependency checks together give every read
\* the last write accepted before it.
THEOREM ReadsLatest == Spec => []ReadsObserveLatestWrite
<1>1. ControllerInv => ReadsObserveLatestWrite
  BY DEF ControllerInv
<1> QED BY <1>1, ControllerInvariant, PTL

\* write_draining_ never exceeds the number of buffered writes.
THEOREM Drain == Spec => []DrainWithinBuffer
<1>1. ControllerInv => DrainWithinBuffer
  BY DEF ControllerInv
<1> QED BY <1>1, ControllerInvariant, PTL

\* The pending reads and the return queue as MemPort sees them.
outRdBar == [x \in Addr |-> pendingRd[x] + retRd[x]]

\* A step that moves no transaction in or out changes neither count.
LEMMA TickIsInvisible ==
    ASSUME TypeOK, ClockTick PROVE UNCHANGED <<outRdBar, retWr>>
<1>1. pendingRd \in [Addr -> Nat] /\ retRd \in [Addr -> Nat]
  BY DEF TypeOK
<1>2. CASE UNCHANGED <<pendingRd, retRd, retWr>>
  BY <1>2 DEF outRdBar
<1>3. ASSUME NEW b \in Bank, NEW type \in ReadType, IssueRead(b, type)
      PROVE  UNCHANGED <<outRdBar, retWr>>
  <2>1. PICK i \in 1 .. Len(cmdq[b]) :
           /\ pendingRd' = [pendingRd EXCEPT ![cmdq[b][i].addr] = 0]
           /\ retRd' = [retRd EXCEPT ![cmdq[b][i].addr]
                            = @ + pendingRd[cmdq[b][i].addr]]
           /\ retWr' = retWr
    BY <1>3 DEF IssueRead
  <2> QED BY <2>1, <1>1 DEF outRdBar
<1> QED BY <1>2, <1>3 DEF ClockTick, IdleTick, IssueActivate, IssuePrecharge,
       RefreshPrecharge, CloseRow, IssueColumn, IssueWrite

\* A channel answers every accepted transaction exactly once: merging,
\* forwarding, batching reads and posting writes neither lose nor repeat a
\* callback.
THEOREM ImplementsMemPort == Spec => AnsweredOnce
<1>1. Init => Port!PortInit
  BY DEF Init, Port!PortInit
<1>2. ControllerInv /\ [Next]_vars => [Port!PortNext]_(Port!portVars)
  <2> SUFFICES ASSUME ControllerInv, [Next]_vars
               PROVE  Port!PortNext \/ UNCHANGED Port!portVars
    OBVIOUS
  <2>1. /\ TypeOK /\ pendingRd \in [Addr -> Nat]
        /\ retRd \in [Addr -> Nat] /\ retWr \in [Addr -> Nat]
    BY DEF ControllerInv, TypeOK
  <2>2. CASE UNCHANGED <<outRdBar, retWr>>
    BY <2>2 DEF Port!portVars, outRdBar
  <2>3. ASSUME NEW a \in Addr, AddWrite(a) PROVE Port!PortAccept(a)
    BY <2>1, <2>3 DEF AddWrite, Port!PortAccept
  <2>4. ASSUME NEW a \in Addr, AddForwardedRead(a) PROVE Port!PortAccept(a)
    <3>1. /\ retWr' = retWr
          /\ \A x \in Addr : pendingRd'[x] + retRd'[x]
                = IF x = a THEN pendingRd[x] + retRd[x] + 1 ELSE pendingRd[x] + retRd[x]
      BY <2>1, <2>4 DEF AddForwardedRead
    <3>2. outRdBar' = [outRdBar EXCEPT ![a] = @ + 1]
      BY <3>1 DEF outRdBar
    <3> QED BY <3>1, <3>2 DEF Port!PortAccept, outRdBar
  <2>5. ASSUME NEW a \in Addr, AddPendingRead(a) PROVE Port!PortAccept(a)
    <3>1. /\ retWr' = retWr
          /\ \A x \in Addr : pendingRd'[x] + retRd'[x]
                = IF x = a THEN pendingRd[x] + retRd[x] + 1 ELSE pendingRd[x] + retRd[x]
      BY <2>1, <2>5 DEF AddPendingRead
    <3>2. outRdBar' = [outRdBar EXCEPT ![a] = @ + 1]
      BY <3>1 DEF outRdBar
    <3> QED BY <3>1, <3>2 DEF Port!PortAccept, outRdBar
  <2>6. ASSUME NEW a \in Addr, ReturnDoneTrans(a) PROVE Port!PortRespond(a)
    <3>1. pendingRd' = pendingRd
      BY <2>6 DEF ReturnDoneTrans
    <3>2. CASE retRd[a] > 0 /\ retRd' = [retRd EXCEPT ![a] = @ - 1] /\ retWr' = retWr
      <4>1. pendingRd[a] + retRd[a] > 0
        <5>1. pendingRd[a] \in Nat /\ retRd[a] \in Nat
          BY <2>1
        <5> QED BY <5>1, <3>2
      <4>2. outRdBar' = [outRdBar EXCEPT ![a] = @ - 1]
        <5>1. ASSUME NEW x \in Addr
              PROVE  pendingRd'[x] + retRd'[x]
                       = IF x = a THEN (pendingRd[a] + retRd[a]) - 1
                                  ELSE pendingRd[x] + retRd[x]
          BY <2>1, <3>1, <3>2
        <5>2. outRdBar' = [x \in Addr |-> pendingRd'[x] + retRd'[x]]
          BY DEF outRdBar
        <5> QED BY <5>1, <5>2, Zenon DEF outRdBar
      <4> QED BY <3>2, <4>1, <4>2 DEF Port!PortRespond, outRdBar
    <3>3. CASE retWr[a] > 0 /\ retWr' = [retWr EXCEPT ![a] = @ - 1] /\ retRd' = retRd
      BY <2>1, <3>1, <3>3 DEF Port!PortRespond
    <3> QED BY <2>6, <3>2, <3>3 DEF ReturnDoneTrans
  <2>7. CASE UNCHANGED vars
    BY <2>7 DEF vars, Port!portVars
  <2>8. CASE ClockTick
    BY <2>1, <2>2, <2>8, TickIsInvisible
  <2> QED BY <2>3, <2>4, <2>5, <2>6, <2>7, <2>8
          DEF Next, AddTransaction, Port!PortNext
<1> QED BY <1>1, <1>2, ControllerInvariant, PTL DEF Spec, AnsweredOnce, Port!PortSpec
=============================================================================

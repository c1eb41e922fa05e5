----------------------------- MODULE Controller -----------------------------
(***************************************************************************)
(* One channel of the DRAMsim3 memory system: the transaction queues and   *)
(* pending maps of Controller (controller.cc), the per-bank command queues *)
(* of CommandQueue (command_queue.cc) and the open row of each BankState   *)
(* (bankstate.cc).                                                         *)
(*                                                                         *)
(* Time is abstract: whether a command's timing constraint has elapsed is  *)
(* a free choice of each clock tick, made per bank and command type (the   *)
(* index of BankState::cmd_timing_), and a finished transaction is called  *)
(* back at any later point.  What is kept is the order in which the code   *)
(* decides: which command of a queue is the first ready one, which         *)
(* transaction is scheduled after it, and when a write drain starts and    *)
(* ends.                                                                   *)
(***************************************************************************)
EXTENDS Integers, Sequences, SequencesExt

CONSTANTS
    Addr,               \* line addresses (hex_addr)
    Bank,               \* banks of the channel; PER_BANK: one queue each
    Row,                \* rows of a bank
    BankOf, RowOf,      \* Config::AddressMapping, restricted to bank and row
    NoRow,              \* BankState::open_row_ == -1
    UnifiedQueue,       \* Config::unified_queue
    InfWriteBuffer,     \* built with WB_HAS_INF_CAPACITY
    TransQueueSize,     \* Config::trans_queue_size
    CmdQueueSize,       \* Config::cmd_queue_size
    DrainFloor,         \* the constant 8 of ScheduleTransaction
    RowHitLimit,        \* the constant 4 of ArbitratePrecharge
    RowBufPolicy,       \* Config::row_buf_policy
    MaxTrans            \* bound: transactions offered by the front end

ASSUME ControllerConstants ==
    /\ BankOf \in [Addr -> Bank]
    /\ RowOf \in [Addr -> Row]
    /\ NoRow \notin Row
    /\ UnifiedQueue \in BOOLEAN
    /\ InfWriteBuffer \in BOOLEAN
    /\ TransQueueSize \in Nat \ {0}
    /\ CmdQueueSize \in Nat \ {0}
    /\ DrainFloor \in Nat
    /\ RowHitLimit \in Nat
    /\ RowBufPolicy \in {"OPEN_PAGE", "CLOSE_PAGE", "SOFT_CLOSE_PAGE"}
    /\ MaxTrans \in Nat

VARIABLES
    tq,             \* unified_queue_, read_queue_ and write_buffer_
    pendingRd,      \* pending_rd_q_ (multimap): reads waiting, per address
    pendingWr,      \* pending_wr_q_: is a write of the address waiting
    retRd, retWr,   \* return_queue_: reads / writes to call back, per address
    writeDraining,  \* write_draining_
    cmdq,           \* CommandQueue::queues_
    openRow,        \* BankState::open_row_
    rowHits,        \* BankState::row_hit_count_, saturated at RowHitLimit
    halted,         \* IssueCommand or EraseRWCommand called exit(1)
    accepted,       \* transactions accepted so far (for MaxTrans)
    latest,         \* history: number of writes of the address accepted
    dram,           \* history: the write whose value the DRAM cell holds
    want            \* history: the writes that waiting reads must observe

vars == <<tq, pendingRd, pendingWr, retRd, retWr, writeDraining, cmdq,
          openRow, rowHits, halted, accepted, latest, dram, want>>

QName == {"unified", "read", "write"}
Op == {"READ", "WRITE"}     \* Transaction::is_write, Command::IsWrite
Trans == [addr : Addr, op : Op]
Command == [addr : Addr, op : Op, pre : BOOLEAN]   \* pre: auto-precharge
ReadType == {"READ", "READ_PRECHARGE"}
WriteType == {"WRITE", "WRITE_PRECHARGE"}

TypeOK ==
    /\ tq \in [QName -> Seq(Trans)]
    /\ pendingRd \in [Addr -> Nat]
    /\ pendingWr \in [Addr -> BOOLEAN]
    /\ retRd \in [Addr -> Nat]
    /\ retWr \in [Addr -> Nat]
    /\ writeDraining \in Nat
    /\ cmdq \in [Bank -> Seq(Command)]
    /\ openRow \in [Bank -> Row \cup {NoRow}]
    /\ rowHits \in [Bank -> 0 .. RowHitLimit]
    /\ halted \in BOOLEAN
    /\ accepted \in Nat
    /\ latest \in [Addr -> Nat]
    /\ dram \in [Addr -> Nat]
    /\ want \in [Addr -> SUBSET Nat]

Init ==
    /\ tq = [q \in QName |-> << >>]
    /\ pendingRd = [a \in Addr |-> 0]
    /\ pendingWr = [a \in Addr |-> FALSE]
    /\ retRd = [a \in Addr |-> 0]
    /\ retWr = [a \in Addr |-> 0]
    /\ writeDraining = 0
    /\ cmdq = [b \in Bank |-> << >>]
    /\ openRow = [b \in Bank |-> NoRow]
    /\ rowHits = [b \in Bank |-> 0]
    /\ halted = FALSE
    /\ accepted = 0
    /\ latest = [a \in Addr |-> 0]
    /\ dram = [a \in Addr |-> 0]
    /\ want = [a \in Addr |-> {}]

-----------------------------------------------------------------------------
(* The front end hands over a transaction and takes back finished ones.    *)

QueueFor(op) ==
    IF UnifiedQueue THEN "unified" ELSE IF op = "WRITE" THEN "write" ELSE "read"

WillAcceptTransaction(op) ==
    \/ ~UnifiedQueue /\ op = "WRITE" /\ InfWriteBuffer
    \/ Len(tq[QueueFor(op)]) < TransQueueSize

Enqueue(a, op) ==
    tq' = [tq EXCEPT ![QueueFor(op)] = Append(@, [addr |-> a, op |-> op])]

\* Mutant: a write is queued although one of its address is waiting.
AddWrite_NoMerge(a) ==
    /\ Enqueue(a, "WRITE")
    /\ pendingWr' = [pendingWr EXCEPT ![a] = TRUE]
    /\ retWr' = [retWr EXCEPT ![a] = @ + 1]
    /\ latest' = [latest EXCEPT ![a] = @ + 1]
    /\ UNCHANGED <<pendingRd, retRd, want>>

\* A write is merged into a waiting write of the same address; it is called
\* back in any case, at once.
AddWrite(a) ==
    /\ IF pendingWr[a] THEN UNCHANGED tq ELSE Enqueue(a, "WRITE")
    /\ pendingWr' = [pendingWr EXCEPT ![a] = TRUE]
    /\ retWr' = [retWr EXCEPT ![a] = @ + 1]
    /\ latest' = [latest EXCEPT ![a] = @ + 1]
    /\ UNCHANGED <<pendingRd, retRd, want>>

\* A read of an address with a waiting write takes the write's value.
AddForwardedRead(a) ==
    /\ pendingWr[a]
    /\ retRd' = [retRd EXCEPT ![a] = @ + 1]
    /\ UNCHANGED <<tq, pendingRd, pendingWr, retWr, latest, want>>

\* Mutant: every waiting read is queued.
AddPendingRead_NoMerge(a) ==
    /\ ~pendingWr[a]
    /\ pendingRd' = [pendingRd EXCEPT ![a] = @ + 1]
    /\ Enqueue(a, "READ")
    /\ want' = [want EXCEPT ![a] = @ \cup {latest[a]}]
    /\ UNCHANGED <<pendingWr, retRd, retWr, latest>>

\* Only the first waiting read of an address is queued.
AddPendingRead(a) ==
    /\ ~pendingWr[a]
    /\ pendingRd' = [pendingRd EXCEPT ![a] = @ + 1]
    /\ IF pendingRd[a] = 0 THEN Enqueue(a, "READ") ELSE UNCHANGED tq
    /\ want' = [want EXCEPT ![a] = @ \cup {latest[a]}]
    /\ UNCHANGED <<pendingWr, retRd, retWr, latest>>

AddTransaction(a, op) ==
    /\ ~halted
    /\ accepted < MaxTrans
    /\ WillAcceptTransaction(op)
    /\ accepted' = accepted + 1
    /\ \/ op = "WRITE" /\ AddWrite(a)
       \/ op = "READ" /\ (AddForwardedRead(a) \/ AddPendingRead(a))
    /\ UNCHANGED <<writeDraining, cmdq, openRow, rowHits, halted, dram>>

ReturnDoneTrans(a) ==
    /\ ~halted
    /\ \/ retRd[a] > 0 /\ retRd' = [retRd EXCEPT ![a] = @ - 1] /\ retWr' = retWr
       \/ retWr[a] > 0 /\ retWr' = [retWr EXCEPT ![a] = @ - 1] /\ retRd' = retRd
    /\ UNCHANGED <<tq, pendingRd, pendingWr, writeDraining, cmdq, openRow,
                   rowHits, halted, accepted, latest, dram, want>>

-----------------------------------------------------------------------------
(* CommandQueue: the first ready command of a bank's queue.                *)

RWType(c) ==
    CASE c.op = "WRITE" -> IF c.pre THEN "WRITE_PRECHARGE" ELSE "WRITE"
      [] c.op = "READ"  -> IF c.pre THEN "READ_PRECHARGE" ELSE "READ"

\* BankState::GetReadyCommand: what the bank needs next to serve command c.
RequiredType(b, c) ==
    CASE openRow[b] = NoRow         -> "ACTIVATE"
      [] openRow[b] = RowOf[c.addr] -> RWType(c)
      [] OTHER                      -> "PRECHARGE"

\* Mutant: both conditions for closing the row are asked for.
ArbitratePrecharge_Both(b, i) ==
    /\ i = 1
    /\ \A j \in i .. Len(cmdq[b]) : RowOf[cmdq[b][j].addr] # openRow[b]
    /\ rowHits[b] >= RowHitLimit

\* Only the oldest command of the bank may close a row, and only once no
\* waiting command hits it or it has been hit often enough.
ArbitratePrecharge(b, i) ==
    /\ i = 1
    /\ \/ \A j \in i .. Len(cmdq[b]) : RowOf[cmdq[b][j].addr] # openRow[b]
       \/ rowHits[b] >= RowHitLimit

HasRWDependency(b, i) ==
    \E j \in 1 .. i - 1 : /\ cmdq[b][j].op = "READ"
                          /\ cmdq[b][j].addr = cmdq[b][i].addr

Selectable(b, i, type) ==
    /\ RequiredType(b, cmdq[b][i]) = type
    /\ type = "PRECHARGE" => ArbitratePrecharge(b, i)
    /\ type \in WriteType => ~HasRWDependency(b, i)

FirstReadyInQueue(b, type, i) ==
    /\ i \in 1 .. Len(cmdq[b])
    /\ Selectable(b, i, type)
    /\ \A j \in 1 .. i - 1 : ~Selectable(b, j, type)

\* EraseRWCommand removes the first entry with the address and direction.
EraseRWCommand(q, c, k) ==
    /\ k \in 1 .. Len(q)
    /\ q[k].addr = c.addr /\ q[k].op = c.op
    /\ \A j \in 1 .. k - 1 : ~(q[j].addr = c.addr /\ q[j].op = c.op)

-----------------------------------------------------------------------------
(* ScheduleTransaction, run at the end of every tick on the command queues *)
(* cq and pending reads pr that the tick's command has left behind.        *)

StartsDrain(cq) ==
    /\ ~UnifiedQueue
    /\ writeDraining = 0
    /\ \/ ~InfWriteBuffer /\ Len(tq["write"]) >= TransQueueSize
       \/ Len(tq["write"]) > DrainFloor /\ \A b \in Bank : cq[b] = << >>

DrainLevel(cq) == IF StartsDrain(cq) THEN Len(tq["write"]) ELSE writeDraining

SourceQueue(cq) ==
    IF UnifiedQueue THEN "unified"
    ELSE IF DrainLevel(cq) > 0 THEN "write" ELSE "read"

WillAcceptCommand(cq, a) == Len(cq[BankOf[a]]) < CmdQueueSize

FirstAcceptable(cq, q, i) ==
    /\ i \in 1 .. Len(tq[q])
    /\ WillAcceptCommand(cq, tq[q][i].addr)
    /\ \A j \in 1 .. i - 1 : ~WillAcceptCommand(cq, tq[q][j].addr)

\* SOFT_CLOSE_PAGE keeps the row open for a later transaction of the queue.
TransToCommand(q, i) ==
    LET t == tq[q][i]
        rowWanted == \E j \in i + 1 .. Len(tq[q]) :
                        /\ BankOf[tq[q][j].addr] = BankOf[t.addr]
                        /\ RowOf[tq[q][j].addr] = RowOf[t.addr]
    IN  [addr |-> t.addr, op |-> t.op,
         pre |-> \/ RowBufPolicy = "CLOSE_PAGE"
                 \/ RowBufPolicy = "SOFT_CLOSE_PAGE" /\ ~rowWanted]

NothingAcceptable(cq, q) ==
    /\ \A i \in 1 .. Len(tq[q]) : ~WillAcceptCommand(cq, tq[q][i].addr)
    /\ writeDraining' = DrainLevel(cq)
    /\ cmdq' = cq
    /\ tq' = tq

\* Mutant: pending reads are not looked at.
WriteHeldBack_Never(cq, pr, t) == FALSE

\* "Enforce R->W dependency": the drain ends, the write stays.
WriteHeldBack(cq, pr, t) == ~UnifiedQueue /\ t.op = "WRITE" /\ pr[t.addr] > 0

\* Mutant: the drain counter counts no write.
ScheduleFirst_NoCount(cq, pr, q, i) ==
    LET t == tq[q][i] IN
    /\ FirstAcceptable(cq, q, i)
    /\ ~WriteHeldBack(cq, pr, t)
    /\ writeDraining' = DrainLevel(cq)
    /\ cmdq' = [cq EXCEPT ![BankOf[t.addr]] = Append(@, TransToCommand(q, i))]
    /\ tq' = [tq EXCEPT ![q] = RemoveAt(@, i)]

ScheduleFirst(cq, pr, q, i) ==
    LET t == tq[q][i] IN
    /\ FirstAcceptable(cq, q, i)
    /\ \/ /\ WriteHeldBack(cq, pr, t)
          /\ writeDraining' = 0
          /\ cmdq' = cq
          /\ tq' = tq
       \/ /\ ~WriteHeldBack(cq, pr, t)
          /\ writeDraining' = DrainLevel(cq)
                              - (IF ~UnifiedQueue /\ t.op = "WRITE" THEN 1 ELSE 0)
          /\ cmdq' = [cq EXCEPT ![BankOf[t.addr]]
                                   = Append(@, TransToCommand(q, i))]
          /\ tq' = [tq EXCEPT ![q] = RemoveAt(@, i)]

ScheduleTransaction(cq, pr) ==
    \/ NothingAcceptable(cq, SourceQueue(cq))
    \/ \E i \in 1 .. Len(tq[SourceQueue(cq)]) :
          ScheduleFirst(cq, pr, SourceQueue(cq), i)

-----------------------------------------------------------------------------
(* Controller::ClockTick, one action per kind of command it issues.        *)

\* BankState::UpdateState on a column command with or without precharge.
UpdateRow(b, c) ==
    IF c.pre
    THEN /\ openRow' = [openRow EXCEPT ![b] = NoRow]
         /\ rowHits' = [rowHits EXCEPT ![b] = 0]
    ELSE /\ openRow' = openRow
         /\ rowHits' = [rowHits EXCEPT ![b] =
                            IF @ < RowHitLimit THEN @ + 1 ELSE @]

IssueActivate(b) ==
    \E i \in 1 .. Len(cmdq[b]) :
       /\ ~halted
       /\ FirstReadyInQueue(b, "ACTIVATE", i)
       /\ openRow' = [openRow EXCEPT ![b] = RowOf[cmdq[b][i].addr]]
       /\ ScheduleTransaction(cmdq, pendingRd)
       /\ UNCHANGED <<pendingRd, pendingWr, retRd, retWr, rowHits, halted,
                      accepted, latest, dram, want>>

CloseRow(b) ==
    /\ openRow' = [openRow EXCEPT ![b] = NoRow]
    /\ rowHits' = [rowHits EXCEPT ![b] = 0]
    /\ ScheduleTransaction(cmdq, pendingRd)
    /\ UNCHANGED <<pendingRd, pendingWr, retRd, retWr, halted, accepted,
                   latest, dram, want>>

IssuePrecharge(b) ==
    \E i \in 1 .. Len(cmdq[b]) :
       ~halted /\ FirstReadyInQueue(b, "PRECHARGE", i) /\ CloseRow(b)

\* FinishRefresh and FinishRFM close rows without asking the queue.
RefreshPrecharge(b) == ~halted /\ openRow[b] # NoRow /\ CloseRow(b)

\* Mutant: one callback, however many reads wait for the address.
IssueRead_ForgetsRest(b, type) ==
    \E i, k \in 1 .. Len(cmdq[b]) :
       LET c == cmdq[b][i]
           pr == [pendingRd EXCEPT ![c.addr] = 0]
       IN /\ FirstReadyInQueue(b, type, i)
          /\ EraseRWCommand(cmdq[b], c, k)
          /\ pendingRd' = pr
          /\ retRd' = [retRd EXCEPT ![c.addr] = @ + 1]
          /\ want' = [want EXCEPT ![c.addr] = {}]
          /\ UpdateRow(b, c)
          /\ ScheduleTransaction([cmdq EXCEPT ![b] = RemoveAt(@, k)], pr)
          /\ UNCHANGED <<pendingWr, retWr, halted, accepted, latest, dram>>

\* All the reads waiting for the address are answered by the one command.
IssueRead(b, type) ==
    \E i, k \in 1 .. Len(cmdq[b]) :
       LET c == cmdq[b][i]
           cq == [cmdq EXCEPT ![b] = RemoveAt(@, k)]
           pr == [pendingRd EXCEPT ![c.addr] = 0]
       IN /\ ~halted
          /\ FirstReadyInQueue(b, type, i)
          /\ EraseRWCommand(cmdq[b], c, k)
          /\ halted' = (pendingRd[c.addr] = 0)
          /\ pendingRd' = pr
          /\ retRd' = [retRd EXCEPT ![c.addr] = @ + pendingRd[c.addr]]
          /\ want' = [want EXCEPT ![c.addr] = {}]
          /\ UpdateRow(b, c)
          /\ ScheduleTransaction(cq, pr)
          /\ UNCHANGED <<pendingWr, retWr, accepted, latest, dram>>

IssueWrite(b, type) ==
    \E i, k \in 1 .. Len(cmdq[b]) :
       LET c == cmdq[b][i]
           cq == [cmdq EXCEPT ![b] = RemoveAt(@, k)]
       IN /\ ~halted
          /\ FirstReadyInQueue(b, type, i)
          /\ EraseRWCommand(cmdq[b], c, k)
          /\ halted' = ~pendingWr[c.addr]
          /\ pendingWr' = [pendingWr EXCEPT ![c.addr] = FALSE]
          /\ dram' = [dram EXCEPT ![c.addr] = latest[c.addr]]
          /\ UpdateRow(b, c)
          /\ ScheduleTransaction(cq, pendingRd)
          /\ UNCHANGED <<pendingRd, retRd, retWr, accepted, latest, want>>

IssueColumn(b) == \/ \E type \in ReadType : IssueRead(b, type)
                  \/ \E type \in WriteType : IssueWrite(b, type)

\* No command is ready, or a refresh, which no variable here records.
IdleTick ==
    /\ ~halted
    /\ ScheduleTransaction(cmdq, pendingRd)
    /\ UNCHANGED <<pendingRd, pendingWr, retRd, retWr, openRow, rowHits,
                   halted, accepted, latest, dram, want>>

ClockTick ==
    \/ IdleTick
    \/ \E b \in Bank :
          \/ IssueActivate(b)
          \/ IssuePrecharge(b)
          \/ RefreshPrecharge(b)
          \/ IssueColumn(b)

Next ==
    \/ \E a \in Addr, op \in Op : AddTransaction(a, op)
    \/ \E a \in Addr : ReturnDoneTrans(a)
    \/ ClockTick

Spec == Init /\ [][Next]_vars

\* The clock never stops, so what can be scheduled is; finished transactions
\* are called back; every timing constraint elapses and the round-robin of
\* GetNextQueue reaches every bank.  A refresh may close a row before its
\* column command is issued, but not forever (tREFI is far longer than tRCD),
\* hence the strong fairness of the column commands.  No refresh is promised.
Fairness ==
    /\ WF_vars(IdleTick)
    /\ WF_vars(\E a \in Addr : ReturnDoneTrans(a))
    /\ \A b \in Bank : /\ WF_vars(IssueActivate(b) \/ IssuePrecharge(b))
                       /\ SF_vars(IssueColumn(b))

FairSpec == Spec /\ Fairness

-----------------------------------------------------------------------------
(* Properties.                                                             *)

\* About one queue s of transactions or commands.
Holds(s, a, op) == \E i \in 1 .. Len(s) : s[i].addr = a /\ s[i].op = op
Distinct(s) ==
    \A i, j \in 1 .. Len(s) :
       s[i].addr = s[j].addr /\ s[i].op = s[j].op => i = j
ReadsFirst(s) ==
    \A i, j \in 1 .. Len(s) :
       s[i].addr = s[j].addr /\ s[i].op = "READ" /\ s[j].op = "WRITE"
          => i < j

\* About all queues: t transactions, c commands; pr and pw the pending maps.
QueuesSorted(t, c) ==
    /\ \A q \in QName : \A i \in 1 .. Len(t[q]) : QueueFor(t[q][i].op) = q
    /\ \A b \in Bank : \A i \in 1 .. Len(c[b]) : BankOf[c[b][i].addr] = b

EntriesUnique(t, c) ==
    /\ \A q \in QName : Distinct(t[q])
    /\ \A b \in Bank : Distinct(c[b])
    /\ \A a \in Addr, op \in Op :
          ~(Holds(t[QueueFor(op)], a, op) /\ Holds(c[BankOf[a]], a, op))

PendingIffQueued(t, c, pr, pw) ==
    \A a \in Addr :
       /\ pr[a] > 0 <=> \/ Holds(t[QueueFor("READ")], a, "READ")
                        \/ Holds(c[BankOf[a]], a, "READ")
       /\ pw[a] <=> \/ Holds(t[QueueFor("WRITE")], a, "WRITE")
                    \/ Holds(c[BankOf[a]], a, "WRITE")

QueuesAgree(t, c, pr, pw) ==
    QueuesSorted(t, c) /\ EntriesUnique(t, c) /\ PendingIffQueued(t, c, pr, pw)

OneCommandPerPending == QueuesAgree(tq, cmdq, pendingRd, pendingWr)

\* Where accesses of address a wait, as transactions or as commands.
Places(a, op) ==
    {<<"trans", q>> : q \in {x \in QName : Holds(tq[x], a, op)}}
    \cup {<<"cmd", b>> : b \in {x \in Bank : Holds(cmdq[x], a, op)}}

\* The pending maps and the queues agree, whatever the queue structure: an address
\* is in pending_rd_q_ (pending_wr_q_) exactly when a read (write) of it is queued,
\* once and in one place, so no merged or forwarded transaction is forgotten and no
\* command is orphaned.
PendingMeansQueued ==
    /\ \A q \in QName : Distinct(tq[q])
    /\ \A b \in Bank : Distinct(cmdq[b])
    /\ \A a \in Addr :
          /\ Cardinality(Places(a, "READ")) = IF pendingRd[a] > 0 THEN 1 ELSE 0
          /\ Cardinality(Places(a, "WRITE")) = IF pendingWr[a] THEN 1 ELSE 0

\* A write never stands in front of an older read of its address, and never
\* enters the command queue while that read is still a transaction.
ReadsAheadOfWrites(t, c) ==
    /\ \A q \in QName : ReadsFirst(t[q])
    /\ \A b \in Bank : ReadsFirst(c[b])
    /\ \A a \in Addr : Holds(c[BankOf[a]], a, "WRITE")
                           => ~Holds(t[QueueFor("READ")], a, "READ")

\* IssueCommand never reaches "not in read queue!" or "not in write queue!".
NeverExits == ~halted

\* Reads return the value of the last write accepted before them: a waiting
\* read's write is the one in the DRAM cell until the read command is issued
\* (a write may not overtake it), and an address with no waiting write has its
\* last write in the cell (a read may not overtake a write).
ReadsObserveLatestWrite ==
    \A a \in Addr : /\ want[a] \subseteq {dram[a]}
                    /\ ~pendingWr[a] => dram[a] = latest[a]

\* A drain never promises more writes than the buffer holds: an overrun would
\* leave the scheduler on an empty write buffer and the reads unserved.
DrainWithinBuffer == writeDraining <= Len(tq["write"])

\* The inductive invariant behind the three invariants above.
ControllerInv ==
    /\ TypeOK
    /\ OneCommandPerPending
    /\ ReadsAheadOfWrites(tq, cmdq)
    /\ ReadsObserveLatestWrite
    /\ \A a \in Addr : want[a] # {} => pendingRd[a] > 0
    /\ DrainWithinBuffer
    /\ NeverExits

\* Exactly one callback per accepted transaction, and no other.
Port == INSTANCE MemPort WITH outRd <- [a \in Addr |-> pendingRd[a] + retRd[a]],
                              outWr <- retWr
AnsweredOnce == Port!PortSpec

\* Every read is answered; mcore.cpp:298 dies with LOST-PACKET on one that is
\* not.
EveryReadReturns == \A a \in Addr : pendingRd[a] > 0 ~> pendingRd[a] = 0
=============================================================================

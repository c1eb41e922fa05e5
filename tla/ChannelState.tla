---------------------------- MODULE ChannelState ----------------------------
(***************************************************************************)
(* How one channel carries out refreshes: the requests of the refresh      *)
(* timer (refresh_q_), refresh management (rfm_q_, the RAA counters) and   *)
(* alert back-off of ChannelState (channel_state.cc) and BankState         *)
(* (bankstate.cc), the hand-over with the demand commands in CommandQueue  *)
(* (FinishRefresh, FinishRFM, GetCommandToIssue) and self-refresh in       *)
(* Controller::ClockTick.                                                  *)
(*                                                                         *)
(* Abstracted: timing (a command whose bank is in the right state may or   *)
(* may not be ready in a tick), rows (a demand command hits or misses the  *)
(* open row, as it likes) and the verdict of the row trackers, hot (module *)
(* Tracker).  Queues are PER_BANK, so a queue index is a bank.             *)
(***************************************************************************)
EXTENDS Refresh, Sequences, SequencesExt

CONSTANT Configs        \* the configurations to be checked: see Configuration

Configuration ==        \* fields of Config and, where noted, bounds
    [policy : Policies, ranks : Nat \ {0}, bankGroups : Nat \ {0},
     banksPerGroup : Nat \ {0},
     rfmMode : 0 .. 2,          \* off, RFMsb, RFMab
     alertMode : 0 .. 1,
     aboDelayActs : Nat,        \* ABO_delay_acts
     aboGrace : BOOLEAN,        \* tABO is longer than ACTIVATE to column
     raammt : Nat, refRaaDecrement : Nat, rfmRaaDecrement : Nat,
     enableSelfRefresh : BOOLEAN,
     cmdQueueSize : Nat \ {0},
     maxRefreshes : Nat,        \* bound: refreshes that can be due at once
     fair : BOOLEAN]            \* small enough for the temporal properties

ASSUME ChannelConstants == Configs \subseteq Configuration

VARIABLES
    config,             \* the configuration; it never changes
    next,               \* next_rank_, next_bg_ and next_bank_ of Refresh
    age,                \* history: requests since the unit's own last one
    refreshQ,           \* refresh_q_
    rfmQ,               \* rfm_q_
    inRef, refIdx,      \* is_in_ref_ and ref_q_indices_
    inRfm, rfmIdx,      \* is_in_rfm_ and rfm_q_indices_
    state,              \* BankState::state_
    raa,                \* BankState::raa_ctr_, left at 0 if RfmMode = 0
    alert,              \* alert_n: "off"; "grace" and, after tABO, "over"
    acts,               \* num_acts_abo_, saturated at AboDelayActs
    hot,                \* banks for which CheckAlert answers true
    cmds,               \* demand commands in the bank's queue
    rankQEmpty,         \* CommandQueue::rank_q_empty
    exited,             \* AbruptExit was called
    issued              \* history: the refresh or RFM sent in the last tick

timerVars == <<config, next, age>>
vars == <<timerVars, refreshQ, rfmQ, inRef, refIdx, inRfm, rfmIdx, state, raa,
          alert, acts, hot, cmds, rankQEmpty, exited, issued>>

RankIds == 0 .. config.ranks - 1
Bank == BankAddr(config)
RfmMode == config.rfmMode
AboDelayActs == config.aboDelayActs

Cmd(type, b) == [type |-> type, rank |-> b.rank, bg |-> b.bg, bank |-> b.bank]
RankCmd(type, r) == [type |-> type, rank |-> r, bg |-> All, bank |-> All]
SbCmd(type, r, k) == [type |-> type, rank |-> r, bg |-> All, bank |-> k]
NoCmd == RankCmd("none", All)

IsRefresh(c) == c.type \in {"REFab", "REFsb", "REFRESH_BANK"}
IsRFM(c) == c.type \in {"RFMab", "RFMsb"}

\* IsRankCMD, IsSbCMD or neither: the banks that a command is sent to.
Targets(c) == {b \in Bank : /\ b.rank = c.rank
                            /\ c.bg \in {All, b.bg}
                            /\ c.bank \in {All, b.bank}}

IsRankSelfRefreshing(r) == \A b \in Targets(RankCmd("", r)) : state[b] = "SREF"

Asleep == {r \in RankIds : IsRankSelfRefreshing(r)}

Init ==
    /\ config \in Configs
    /\ next = Cursor0 /\ age = [u \in Units(config) |-> 0]
    /\ refreshQ = << >> /\ rfmQ = << >>
    /\ inRef = FALSE /\ refIdx = {} /\ inRfm = FALSE /\ rfmIdx = {}
    /\ state = [b \in Bank |-> "CLOSED"]
    /\ raa = [b \in Bank |-> 0]
    /\ alert = "off" /\ acts = 0 /\ hot = {}
    /\ cmds = [b \in Bank |-> 0]
    /\ rankQEmpty = [r \in RankIds |-> TRUE]
    /\ exited = FALSE
    /\ issued = NoCmd

-----------------------------------------------------------------------------
(* The queues of refreshes and RFMs.                                       *)

\* The entries that the search for command c in RankNeedRefresh,
\* BanksetNeedRFM and the like accepts.
Covers(c, e) == /\ e.rank = c.rank
                /\ c.bg \in {All, e.bg}
                /\ c.bank \in {All, e.bank}

\* Mutant: the newest request is dropped instead.
Erase_Newest(q, c) == SubSeq(q, 1, Len(q) - 1)

\* The *NeedRefresh and *NeedRFM functions with need = false.
Erase(q, c) ==
    LET i == SelectInSeq(q, LAMBDA e : Covers(c, e))
    IN  IF i = 0 THEN q ELSE RemoveAt(q, i)

\* RankNeedRFM and BanksetNeedRFM with need = true.
NeedRFM(q, c) ==
    IF \E i \in 1 .. Len(q) : Covers(c, q[i]) THEN q ELSE Append(q, c)

\* Refresh::InsertRefresh, if a refresh falls due, and the queue before and after.
NewRefreshes == SetToSeq(Requested(config, next, Asleep))
DueQueues == {refreshQ, refreshQ \o NewRefreshes}

\* The number of requests within which each unit has its turn.
Round == Cardinality(Units(config))

\* Refresh::ClockTick, after which the queue is rq.
RefreshTick(rq) ==
    /\ UNCHANGED config
    /\ \/ rq = refreshQ /\ UNCHANGED <<next, age>>
       \/ /\ Len(refreshQ) < config.maxRefreshes
          /\ rq = refreshQ \o NewRefreshes
          /\ next' = IterateNext(config, next)
          /\ age' = [u \in Units(config) |->
                        IF u \in Range(NewRefreshes) \/ u.rank \in Asleep THEN 0
                        ELSE IF age[u] < Round THEN age[u] + 1 ELSE age[u]]

-----------------------------------------------------------------------------
(* UpdateTimingAndStates on a command c that is issued.                    *)

\* BankState::UpdateState exits on a command that the bank cannot take.
Legal(c) ==
    \A b \in Targets(c) :
       state[b] = CASE c.type \in {"PRECHARGE", "COLUMN", "COLUMN_PRECHARGE"}
                          -> "OPEN"
                    [] c.type = "SREF_EXIT" -> "SREF"
                    [] OTHER -> "CLOSED"

StateAfter(c, s) ==
    CASE c.type = "ACTIVATE" -> "OPEN"
      [] c.type \in {"PRECHARGE", "COLUMN_PRECHARGE", "SREF_EXIT"} -> "CLOSED"
      [] c.type = "SREF_ENTER" -> "SREF"
      [] OTHER -> s

RaaMinus(n, d) == IF n > d THEN n - d ELSE 0

RaaAfter(c, n) ==
    IF RfmMode = 0 THEN n
    ELSE CASE IsRefresh(c) -> RaaMinus(n, config.refRaaDecrement)
           [] IsRFM(c) -> RaaMinus(n, config.rfmRaaDecrement)
           [] c.type = "ACTIVATE" -> n + 1
           [] OTHER -> n

\* The trackers: rows grow hot when they are opened or closed, and a refresh
\* or an RFM may cool the bank or, by flushing counters, heat it.
HotAfter(c) ==
    IF config.alertMode = 0 THEN {hot}
    ELSE CASE c.type \in {"ACTIVATE", "PRECHARGE", "COLUMN_PRECHARGE"}
                 -> {hot, hot \cup Targets(c)}
           [] IsRefresh(c) \/ IsRFM(c)
                 -> {h \cup (hot \ Targets(c)) : h \in SUBSET Targets(c)}
           [] OTHER -> {hot}

ActsAfter(c) ==
    CASE c.type = "ACTIVATE" -> IF acts < AboDelayActs THEN acts + 1 ELSE acts
      [] c.type = "RFMab" -> 0
      [] OTHER -> acts

\* TriggerSameBankAlert and TriggerSameRankAlert.
Trigger(a, n, banks, h) ==
    IF a # "off" \/ n < AboDelayActs \/ config.alertMode = 0 \/ banks \cap h = {}
    THEN a ELSE IF config.aboGrace THEN "grace" ELSE "over"

AlertAfter(c, h) ==
    LET rank == Targets(RankCmd("", c.rank)) IN
    CASE c.type \in {"ACTIVATE", "PRECHARGE", "COLUMN_PRECHARGE"}
            -> Trigger(alert, ActsAfter(c), Targets(c), h)
      [] c.type \in {"RFMab", "REFab"}
            -> Trigger("off", ActsAfter(c), rank, h)
      [] c.type \in {"RFMsb", "REFsb"}
            -> Trigger(alert, acts, rank, h)
      [] OTHER -> alert

\* Given the queues rq and fq of the tick.
Issue(c, rq, fq) ==
    /\ exited' = ~Legal(c)
    /\ state' = [b \in Bank |-> IF b \in Targets(c) THEN StateAfter(c, state[b])
                               ELSE state[b]]
    /\ raa' = [b \in Bank |-> IF b \in Targets(c) THEN RaaAfter(c, raa[b])
                             ELSE raa[b]]
    /\ refreshQ' = IF IsRefresh(c) THEN Erase(rq, c) ELSE rq
    /\ rfmQ' = IF IsRFM(c) THEN Erase(fq, c) ELSE fq
    /\ issued' = IF IsRefresh(c) \/ IsRFM(c) THEN c ELSE NoCmd
    /\ acts' = ActsAfter(c)
    /\ \E h \in HotAfter(c) : hot' = h /\ alert' = AlertAfter(c, h)

IssueNothing(rq, fq) ==
    /\ refreshQ' = rq /\ rfmQ' = fq /\ issued' = NoCmd
    /\ UNCHANGED <<state, raa, alert, acts, hot>>

-----------------------------------------------------------------------------
(* CommandQueue: the refresh or RFM at hand, and the demand commands.      *)

\* Refreshes go first; an RFM that is under way waits.
Pending(rq) == IF rq # << >> THEN {Head(rq)}
               ELSE IF rfmQ # << >> THEN {Head(rfmQ)} ELSE {}

\* GetRefQIndices and GetRFMQIndices, when a refresh or RFM is taken up.
RefIdx(rq) == IF inRef \/ rq = << >> THEN refIdx ELSE Targets(Head(rq))
RfmIdx(rq) == IF inRfm \/ rq # << >> \/ rfmQ = << >> THEN rfmIdx
              ELSE Targets(Head(rfmQ))

\* Mutant: the queue indices are kept when the refresh has been issued.
Finish_KeepsIndices(rq, c) ==
    /\ inRef' = IF rq = << >> THEN inRef ELSE ~IsRefresh(c)
    /\ refIdx' = RefIdx(rq)
    /\ inRfm' = IF rq # << >> \/ rfmQ = << >> THEN inRfm ELSE ~IsRFM(c)
    /\ rfmIdx' = RfmIdx(rq)

\* FinishRefresh or FinishRFM, which c ends if it is the refresh or RFM.
Finish(rq, c) ==
    /\ inRef' = IF rq = << >> THEN inRef ELSE ~IsRefresh(c)
    /\ refIdx' = IF IsRefresh(c) THEN {} ELSE RefIdx(rq)
    /\ inRfm' = IF rq # << >> \/ rfmQ = << >> THEN inRfm ELSE ~IsRFM(c)
    /\ rfmIdx' = IF IsRFM(c) THEN {} ELSE RfmIdx(rq)

\* Mutant: a refresh is sent as soon as one of its banks is ready.
PendingReady_AnyBank(p) ==
    {Cmd("PRECHARGE", b) : b \in {x \in Targets(p) : state[x] = "OPEN"}}
    \cup (IF \E b \in Targets(p) : state[b] = "CLOSED" THEN {p} ELSE {})

\* Mutant: the alert holds up every refresh and RFM.
PendingReady_Alert(p) ==
    IF alert = "over" THEN {}
    ELSE {Cmd("PRECHARGE", b) : b \in {x \in Targets(p) : state[x] = "OPEN"}}
         \cup (IF \A b \in Targets(p) : state[b] = "CLOSED" THEN {p} ELSE {})

\* ChannelState::GetReadyCommand on the refresh or RFM p: first the open rows
\* of its banks are closed.  Only the bank refresh passes the alert's check.
PendingReady(p) ==
    IF p.type = "REFRESH_BANK" /\ alert = "over" THEN {}
    ELSE {Cmd("PRECHARGE", b) : b \in {x \in Targets(p) : state[x] = "OPEN"}}
         \cup (IF \A b \in Targets(p) : state[b] = "CLOSED" THEN {p} ELSE {})

\* Mutant: banks that wait for the refresh are still served.
Unblocked_Ref(rq) == {b \in Bank : cmds[b] > 0 /\ b \notin RfmIdx(rq)}

\* The queues that GetCommandToIssue does not skip.
Unblocked(rq) ==
    {b \in Bank : cmds[b] > 0 /\ b \notin RefIdx(rq) \cup RfmIdx(rq)}

\* Mutant: the counter is tested after it has passed the limit.
RfmDue_Late(b) == RfmMode # 0 /\ raa[b] > config.raammt

RfmDue(b) == RfmMode # 0 /\ raa[b] >= config.raammt

\* BankState::GetReadyCommand on a demand command of bank b.
Required(b) ==
    CASE state[b] = "CLOSED" /\ RfmDue(b)
            -> {IF RfmMode = 1 THEN SbCmd("RFMsb", b.rank, b.bank)
                ELSE RankCmd("RFMab", b.rank)}
      [] state[b] = "CLOSED" /\ ~RfmDue(b) -> {Cmd("ACTIVATE", b)}
      [] state[b] = "OPEN" -> {Cmd(t, b) : t \in {"COLUMN", "COLUMN_PRECHARGE",
                                                 "PRECHARGE"}}
      [] state[b] = "SREF" -> {RankCmd("SREF_EXIT", b.rank)}

\* The end of ChannelState::GetReadyCommand: after tABO every bank command
\* only asks for an RFM, and so does one that needs an RFM first.
DemandReady(b) ==
    IF alert = "over" THEN {} ELSE {c \in Required(b) : ~IsRFM(c)}

Asks(b) == IF alert = "over" THEN {RankCmd("RFMab", b.rank)}
           ELSE {c \in Required(b) : IsRFM(c)}

RefreshAsks(rq) == {RankCmd("RFMab", p.rank) :
    p \in {x \in Pending(rq) : x.type = "REFRESH_BANK" /\ alert = "over"}}

\* A tick may meet several such commands; two requests are as good as two
\* ticks with one each.
WithRequest(rq) ==
    {rfmQ} \cup {NeedRFM(rfmQ, c) :
        c \in RefreshAsks(rq) \cup UNION {Asks(b) : b \in Unblocked(rq)}}

-----------------------------------------------------------------------------
(* Controller::ClockTick, with rq the refreshes after Refresh::ClockTick.  *)

\* ScheduleTransaction may add one command; AddCommand clears rank_q_empty,
\* which nothing sets again.
Schedule(cq) ==
    \/ cmds' = cq /\ UNCHANGED rankQEmpty
    \/ \E b \in Bank :
          /\ cq[b] < config.cmdQueueSize
          /\ cmds' = [cq EXCEPT ![b] = @ + 1]
          /\ rankQEmpty' = [rankQEmpty EXCEPT ![b.rank] = FALSE]

\* FinishRefresh and FinishRFM exit on a bank in self-refresh.
Takeable(rq) == \A p \in Pending(rq), b \in Bank :
                   b \in Targets(p) => state[b] # "SREF"

ServePending(rq) ==
    \E p \in Pending(rq) : \E c \in PendingReady(p) :
       /\ Takeable(rq)
       /\ Issue(c, rq, rfmQ)
       /\ Finish(rq, c)
       /\ Schedule(cmds)

ServeDemand(rq, b, types) ==
    /\ Takeable(rq)
    /\ b \in Unblocked(rq)
    /\ \E c \in DemandReady(b), fq \in WithRequest(rq) :
          /\ c.type \in types
          /\ Issue(c, rq, fq)
          /\ Finish(rq, NoCmd)
          /\ Schedule(IF c.type \in {"COLUMN", "COLUMN_PRECHARGE"}
                      THEN [cmds EXCEPT ![b] = @ - 1] ELSE cmds)

\* "wake up!": GetReadyCommand exits on SREF_EXIT for a bank in state SREF.
WakesUp(r) == /\ config.enableSelfRefresh
              /\ IsRankSelfRefreshing(r)
              /\ ~rankQEmpty[r]

NoCommand(rq) ==
    /\ Takeable(rq)
    /\ ~\E r \in RankIds : WakesUp(r)
    /\ \E fq \in WithRequest(rq) : IssueNothing(rq, fq)
    /\ Finish(rq, NoCmd)
    /\ Schedule(cmds)
    /\ UNCHANGED exited

\* A rank without open rows may have been idle for sref_threshold cycles.  A
\* REFab of the rank would be ready at the same time and has been issued.
EnterSelfRefresh(rq, r) ==
    /\ config.enableSelfRefresh
    /\ Takeable(rq)
    /\ rankQEmpty[r]
    /\ \A b \in Targets(RankCmd("", r)) : state[b] = "CLOSED"
    /\ \A p \in Pending(rq) : p.rank # r
    /\ ~\E i \in RankIds : i < r /\ WakesUp(i)
    /\ \E fq \in WithRequest(rq) :
          Issue(RankCmd("SREF_ENTER", r), rq, fq)
    /\ Finish(rq, NoCmd)
    /\ Schedule(cmds)

Abort(rq) ==
    /\ ~Takeable(rq) \/ \E r \in RankIds : WakesUp(r)
    /\ exited' = TRUE
    /\ issued' = NoCmd
    /\ UNCHANGED <<refreshQ, rfmQ, inRef, refIdx, inRfm, rfmIdx, state, raa,
                   alert, acts, hot, cmds, rankQEmpty>>

RowTypes == {"ACTIVATE", "PRECHARGE", "SREF_EXIT"}
ColumnTypes == {"COLUMN", "COLUMN_PRECHARGE"}

Refreshing == ~exited /\ \E rq \in DueQueues : ServePending(rq) /\ RefreshTick(rq)
RowCommand(b) == ~exited /\ \E rq \in DueQueues : ServeDemand(rq, b, RowTypes) /\ RefreshTick(rq)
Column(b) == ~exited /\ \E rq \in DueQueues : ServeDemand(rq, b, ColumnTypes) /\ RefreshTick(rq)
Idle == ~exited /\ \E rq \in DueQueues : NoCommand(rq) /\ RefreshTick(rq)
Sleep == /\ ~exited
         /\ \E rq \in DueQueues, r \in RankIds :
               EnterSelfRefresh(rq, r) /\ RefreshTick(rq)
Exit == ~exited /\ \E rq \in DueQueues : Abort(rq) /\ RefreshTick(rq)

\* clk_ passes last_alert_clk_ + tABO.
AboElapses ==
    /\ alert = "grace"
    /\ alert' = "over"
    /\ issued' = NoCmd
    /\ UNCHANGED <<timerVars, refreshQ, rfmQ, inRef, refIdx, inRfm, rfmIdx, state,
                   raa, acts, hot, cmds, rankQEmpty, exited>>

Next ==
    \/ Refreshing
    \/ \E b \in Bank : RowCommand(b) \/ Column(b)
    \/ Idle
    \/ Sleep
    \/ Exit
    \/ AboElapses

Spec == Init /\ [][Next]_vars

\* An RFM, with no refresh due.
ServeRfm == /\ ~exited /\ refreshQ = << >>
            /\ ServePending(refreshQ) /\ RefreshTick(refreshQ)

\* An RFM after which its banks are no longer hot.
CoolingRfm == ServeRfm /\ IsRFM(issued') /\ hot' \cap Targets(issued') = {}

\* Only the banks of these configurations count.
AnyBank == UNION {BankAddr(c) : c \in {x \in Configs : x.fair}}

\* The clock never stops and every timing constraint elapses, so the refresh at
\* hand proceeds and tABO ends.  tREFI is longer than tRFC, so the queue of refreshes
\* runs empty and stays empty while RFMs are served; a bank is not always activated
\* just when a refresh or RFM is taken up; and a command held up again and again still
\* gets its turn.  The trackers (AlertEnds of module Tracker): again and again an RFM
\* leaves no hot row, after which it takes more than one activation to the next alert.
Fairness ==
    /\ WF_vars(config.fair /\ Idle)
    /\ WF_vars(config.fair /\ Refreshing)
    /\ SF_vars(config.fair /\ Refreshing /\ refreshQ' = << >>)
    /\ SF_vars(config.fair /\ ServeRfm)
    /\ SF_vars(config.fair /\ CoolingRfm)
    /\ WF_vars(config.fair /\ AboElapses)
    /\ SF_vars(config.fair /\ Idle /\ rfmQ' # rfmQ)
    /\ \A b \in AnyBank :
          /\ SF_vars(/\ config.fair /\ b \in Bank
                     /\ RowCommand(b) /\ refreshQ' = << >> /\ rfmQ' = << >>)
          /\ SF_vars(/\ config.fair /\ b \in Bank /\ RowCommand(b)
                     /\ refreshQ' = << >> /\ rfmQ' = << >> /\ alert' # "over")
          /\ SF_vars(config.fair /\ b \in Bank /\ Column(b))

FairSpec == Spec /\ Fairness

-----------------------------------------------------------------------------
(* Properties.                                                             *)

BlankOr(S) == S \cup {All}
CmdSet(T) == [type : T, rank : RankIds, bg : BlankOr({b.bg : b \in Bank}),
              bank : BlankOr({b.bank : b \in Bank})]

TypeOK ==
    /\ next \in Bank /\ age \in [Units(config) -> 0 .. Round]
    /\ refreshQ \in Seq(Units(config)) /\ Len(refreshQ) <= config.maxRefreshes
    /\ rfmQ \in Seq(CmdSet({"RFMab", "RFMsb"}))
    /\ {inRef, inRfm, exited} \subseteq BOOLEAN
    /\ refIdx \subseteq Bank /\ rfmIdx \subseteq Bank /\ hot \subseteq Bank
    /\ state \in [Bank -> {"OPEN", "CLOSED", "SREF"}]
    /\ raa \in [Bank -> 0 .. config.raammt]
    /\ alert \in {"off", "grace", "over"}
    /\ acts \in 0 .. AboDelayActs
    /\ cmds \in [Bank -> 0 .. config.cmdQueueSize]
    /\ rankQEmpty \in [RankIds -> BOOLEAN]
    /\ issued = NoCmd \/ IsRefresh(issued) \/ IsRFM(issued)

\* No command reaches a bank in a state that cannot take it: a refresh, an RFM
\* or an activation of a bank with an open row ends the program (AbruptExit), and so
\* does a refresh of a rank that sleeps.  Only waking up a rank does so.
NoIllegalCommand == exited => \E r \in RankIds : WakesUp(r)

\* Once taken up, a refresh or RFM only makes progress: a bank it waits for
\* that is closed stays closed until it is issued, whatever is in the queues
\* and even while a refresh interrupts an RFM.
ClosedBanksStayClosed ==
    [][\A b \in refIdx \cup rfmIdx :
          state[b] = "CLOSED" => state'[b] = "CLOSED"]_vars

\* Every refresh and RFM asked for is sent exactly once, in the order of the
\* requests: what is sent is the oldest request, the search by rank and bank in the
\* *NeedRefresh and *NeedRFM functions takes that one out of its queue, and
\* nothing else leaves a queue.
TakenInOrder ==
    [][/\ IF IsRefresh(issued')
          THEN \E rq \in DueQueues :
                  rq # << >> /\ issued' = Head(rq) /\ refreshQ' = Tail(rq)
          ELSE refreshQ' \in DueQueues
       /\ IF IsRFM(issued')
          THEN rfmQ # << >> /\ issued' = Head(rfmQ) /\ rfmQ' = Tail(rfmQ)
          ELSE IsPrefix(rfmQ, rfmQ')]_vars

\* One RFM is waiting for a rank or bank set at most, so that the queue of
\* RFMs is bounded although every blocked command asks again in every tick; and
\* no bank is activated past RAAMMT while its RFM waits for others and for refreshes.
RfmsKeepUp ==
    /\ \A i, j \in 1 .. Len(rfmQ) :
          rfmQ[i].rank = rfmQ[j].rank /\ rfmQ[i].bank = rfmQ[j].bank => i = j
    /\ \A b \in Bank : raa[b] <= config.raammt

\* Staggered refresh of ranks and of banks: whichever ranks sleep, a unit whose rank
\* is awake is asked for within one round of requests, even if requests wait.  A unit
\* that waits longer would lose its data in a real device.
EveryUnitInTurn ==
    config.policy \in {"RANK_LEVEL_STAGGERED", "BANK_LEVEL_STAGGERED"} =>
        \A u \in Units(config) : u.rank \notin Asleep => age[u] < Round

\* A refresh or RFM that has been taken up is issued in the end.
RefreshesFinish == config.fair => (inRef ~> ~inRef) /\ (inRfm ~> ~inRfm)

\* No bank is kept waiting for ever by refreshes, RFMs and alerts: its queue
\* runs empty again and again or column commands are issued again and again.  This
\* includes tABO = 0, where an activation may set off the alert that stops its own
\* column command, and the RFM that ends the alert closes the row again.
DemandServed ==
    config.fair =>
        \A b \in AnyBank : \/ []<>(b \notin Bank \/ cmds[b] = 0)
                           \/ []<><<Column(b)>>_vars
=============================================================================

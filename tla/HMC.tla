--------------------------------- MODULE HMC ---------------------------------
(***************************************************************************)
(* The Hybrid Memory Cube (hmc.cc): requests wait in the queue of a link,  *)
(* cross a crossbar to the queue of a quadrant and enter its vault; the    *)
(* response that InsertReqToLink put aside is looked up by address when    *)
(* the vault is done, and goes back the same way.                          *)
(*                                                                         *)
(* A vault is a memory controller: it takes transactions up to a limit and *)
(* finishes them in any order (module MemPort).  Each quadrant has one     *)
(* vault here.  The ratio of the logic clock to the DRAM clock is left     *)
(* open: DrainResponses and DrainRequests alternate, one logic cycle each  *)
(* time round, and the vaults run freely beside them.                      *)
(***************************************************************************)
EXTENDS Integers, Sequences, SequencesExt, FiniteSets

CONSTANTS
    Links,              \* Config::num_links
    Quads,              \* 4
    QueueDepth,         \* Config::xbar_queue_depth
    VaultDepth,         \* transactions a vault takes
    Addr, QuadOf,       \* addresses and GetChannel(addr) % 4
    ReqFlits, RespFlits, \* packet lengths: [write : BOOLEAN] -> Nat
    MaxRequests         \* bound: requests in all, 0 for no bound

ASSUME HMCConstants ==
    /\ {Links, Quads, QueueDepth, VaultDepth} \subseteq Nat \ {0}
    /\ MaxRequests \in Nat
    /\ QuadOf \in [Addr -> 0 .. Quads - 1]
    /\ {ReqFlits, RespFlits} \subseteq [BOOLEAN -> Nat]

Link == 0 .. Links - 1
Quad == 0 .. Quads - 1

\* left is what remains of exit_time.
Request == [addr : Addr, write : BOOLEAN, left : Nat]
Response == [addr : Addr, write : BOOLEAN, link : Link, left : Nat]

VARIABLES
    linkReq, quadReq,   \* link_req_queues_, quad_req_queues_
    vault,              \* transactions in the vault of each quadrant
    table,              \* resp_lookup_table_, oldest first
    quadResp, linkResp, \* quad_resp_queues_, link_resp_queues_
    linkBusy, quadBusy, \* link_busy_, quad_busy_
    linkAge, quadAge,   \* link_age_counter_, quad_age_counter_
    nextLink,           \* next_link_
    clk,                \* logic_clk_, modulo Links * Quads
    draining,           \* which half of the logic cycle comes next
    requests            \* requests so far (for MaxRequests)

reqVars == <<linkReq, quadReq, quadBusy, linkAge>>
respVars == <<quadResp, linkResp, linkBusy, quadAge>>
hmcVars == <<reqVars, respVars, vault, table, nextLink, clk, draining, requests>>

HMCInit ==
    /\ linkReq = [l \in Link |-> << >>] /\ linkResp = [l \in Link |-> << >>]
    /\ quadReq = [q \in Quad |-> << >>] /\ quadResp = [q \in Quad |-> << >>]
    /\ vault = [q \in Quad |-> << >>]
    /\ table = << >>
    /\ linkBusy = [l \in Link |-> 0] /\ quadBusy = [q \in Quad |-> 0]
    /\ linkAge = [l \in Link |-> 0] /\ quadAge = [q \in Quad |-> 0]
    /\ nextLink = 0 /\ clk = 0 /\ draining = "responses" /\ requests = 0

-----------------------------------------------------------------------------
(* Accepting a request.                                                    *)

Full(l) == Len(linkReq[l]) >= QueueDepth
WillAcceptTransaction == \E l \in Link : ~Full(l)

\* The links from next_link_ on, round robin; the first that is not full takes
\* the request.
ChosenLink ==
    LET d == Min({i \in 0 .. Links - 1 : ~Full((nextLink + i) % Links)})
    IN  (nextLink + d) % Links

\* Mutant: the response is not entered into resp_lookup_table_.
Lookup_None(a, w, l) == table

Lookup(a, w, l) == Append(table, [addr |-> a, write |-> w, link |-> l, left |-> 0])

\* AddTransaction, InsertHMCReq and InsertReqToLink.
AddTransaction(a, w) ==
    /\ WillAcceptTransaction
    /\ MaxRequests > 0 => requests < MaxRequests
    /\ requests' = IF MaxRequests > 0 THEN requests + 1 ELSE requests
    /\ LET l == ChosenLink
       IN  /\ linkReq' = [linkReq EXCEPT ![l] =
                            Append(@, [addr |-> a, write |-> w, left |-> 0])]
           /\ table' = Lookup(a, w, l)
           /\ linkAge' = [linkAge EXCEPT ![l] = 1]
           /\ nextLink' = (l + 1) % Links
    /\ UNCHANGED <<quadReq, quadBusy, respVars, vault, clk, draining>>

-----------------------------------------------------------------------------
(* The crossbar, the same in both directions: sources with an age above 0  *)
(* are served in the order of BuildAgeQueue.                               *)

\* The ages of the waiting sources are compared with the indices of the ones
\* that are in the queue already.
Inserted(q, pos, age) ==
    LET i == SelectInSeq(q, LAMBDA it : age > it)
    IN  IF i = 0 THEN Append(q, pos) ELSE InsertAt(q, i, pos)

BuildAgeQueue(age, n) ==
    LET queue[i \in 0 .. n] ==
            IF i = 0 THEN << >>
            ELSE LET pos == (i - 1 + clk) % n
                 IN  IF age[pos] > 0 THEN Inserted(queue[i - 1], pos, age[pos])
                     ELSE queue[i - 1]
    IN  queue[n]

\* Ages are compared with indices only, so greater ones need not be told apart.
MaxAge == IF Links > Quads THEN Links ELSE Quads

\* On the way back a packet goes to the link of its request, on the way there to the
\* quadrant of its address.
Dest(p, back) == IF back THEN p.link ELSE QuadOf[p.addr]
Flits(p, back) == IF back THEN RespFlits[p.write] ELSE ReqFlits[p.write]

\* One packet of source s crosses, or s is stalled and grows older.
Cross(x, s, back) ==
    LET p == Head(x.from[s])
        d == Dest(p, back)
        n == Flits(p, back)
    IN  IF Len(x.to[d]) < QueueDepth /\ x.busy[d] <= 0
        THEN [from |-> [x.from EXCEPT ![s] = Tail(@)],
              to   |-> [x.to EXCEPT ![d] = Append(@, [p EXCEPT !.left = n])],
              busy |-> [x.busy EXCEPT ![d] = n],
              age  |-> [x.age EXCEPT ![s] = IF Len(x.from[s]) = 1 THEN 0 ELSE 1]]
        ELSE [x EXCEPT !.age[s] = IF @ >= MaxAge THEN @ ELSE @ + 1]

\* The sources of the age queue are served one after the other.
Crossbar(x, queue, back) ==
    LET served[i \in 0 .. Len(queue)] ==
            IF i = 0 THEN x ELSE Cross(served[i - 1], queue[i], back)
    IN  served[Len(queue)]

\* The crossbar moves two flits a cycle.
Drained(busy) == [d \in DOMAIN busy |-> IF busy[d] > 0 THEN busy[d] - 2 ELSE busy[d]]

Arrived(p) == p.left = 0
Nearer(queues) == [d \in DOMAIN queues |-> [i \in DOMAIN queues[d] |->
                      [queues[d][i] EXCEPT !.left = IF @ > 0 THEN @ - 1 ELSE 0]]]

-----------------------------------------------------------------------------
(* The requests that enter their vaults in this cycle.                     *)

Entering ==
    {q \in Quad : /\ quadReq[q] # << >>
                  /\ Len(quadResp[q]) < QueueDepth
                  /\ Arrived(Head(quadReq[q]))
                  /\ Len(vault[q]) < VaultDepth}

DrainRequests ==
    /\ draining = "requests" /\ draining' = "responses"
    /\ vault' = [q \in Quad |-> IF q \in Entering
                                THEN Append(vault[q], Head(quadReq[q])) ELSE vault[q]]
    /\ LET kept == [q \in Quad |-> IF q \in Entering THEN Tail(quadReq[q]) ELSE quadReq[q]]
           x == Crossbar([from |-> linkReq, to |-> kept, busy |-> Drained(quadBusy),
                          age |-> linkAge],
                         BuildAgeQueue(linkAge, Links), FALSE)
       IN  /\ linkReq' = x.from /\ quadReq' = Nearer(x.to)
           /\ quadBusy' = x.busy /\ linkAge' = x.age
    /\ linkResp' = Nearer(linkResp)
    /\ clk' = (clk + 1) % (Links * Quads)
    /\ UNCHANGED <<quadResp, linkBusy, quadAge, table, nextLink, requests>>

\* The links whose first response leaves the cube: read_callback_ or
\* write_callback_ is called.
Answering == {l \in Link : linkResp[l] # << >> /\ Arrived(Head(linkResp[l]))}

DrainResponses ==
    /\ draining = "responses" /\ draining' = "requests"
    /\ LET kept == [l \in Link |-> IF l \in Answering THEN Tail(linkResp[l]) ELSE linkResp[l]]
           x == Crossbar([from |-> quadResp, to |-> kept, busy |-> Drained(linkBusy),
                          age |-> quadAge],
                         BuildAgeQueue(quadAge, Quads), TRUE)
       IN  /\ quadResp' = x.from /\ linkResp' = x.to
           /\ linkBusy' = x.busy /\ quadAge' = x.age
    /\ UNCHANGED <<reqVars, vault, table, nextLink, clk, requests>>

\* Mutant: the quadrant is not marked as waiting.
Waiting_NotSet(q) == quadAge

Waiting(q) == [quadAge EXCEPT ![q] = 1]

\* VaultCallback: the vault has finished its i-th transaction.  The first
\* response with its address is taken, read or write.
VaultDone(q, i) ==
    LET a == vault[q][i].addr
        k == SelectInSeq(table, LAMBDA e : e.addr = a)
    IN  /\ k > 0
        /\ vault' = [vault EXCEPT ![q] = RemoveAt(@, i)]
        /\ table' = RemoveAt(table, k)
        /\ quadResp' = [quadResp EXCEPT ![q] = Append(@, table[k])]
        /\ quadAge' = Waiting(q)
        /\ UNCHANGED <<reqVars, linkResp, linkBusy, nextLink, clk, draining, requests>>

FinishVault(q) == \E i \in DOMAIN vault[q] : VaultDone(q, i)

HMCNext ==
    \/ \E a \in Addr, w \in BOOLEAN : AddTransaction(a, w)
    \/ DrainRequests
    \/ DrainResponses
    \/ \E q \in Quad : FinishVault(q)

HMCSpec == HMCInit /\ [][HMCNext]_hmcVars

\* ClockTick runs the logic die for ever (one of its halves is always enabled), and
\* the vaults finish what they take.
HMCFairSpec == /\ HMCSpec
               /\ []<><<DrainRequests \/ DrainResponses>>_hmcVars
               /\ \A q \in Quad : WF_hmcVars(FinishVault(q))

-----------------------------------------------------------------------------
HMCTypeOK ==
    /\ linkReq \in [Link -> Seq(Request)] /\ quadReq \in [Quad -> Seq(Request)]
    /\ vault \in [Quad -> Seq(Request)]
    /\ linkResp \in [Link -> Seq(Response)] /\ quadResp \in [Quad -> Seq(Response)]
    /\ table \in Seq(Response)
    /\ linkBusy \in [Link -> Int] /\ quadBusy \in [Quad -> Int]
    /\ linkAge \in [Link -> Nat] /\ quadAge \in [Quad -> Nat]
    /\ nextLink \in Link /\ clk \in Nat /\ requests \in Nat
    /\ draining \in {"requests", "responses"}
    /\ \A l \in Link : Len(linkReq[l]) <= QueueDepth /\ Len(linkResp[l]) <= QueueDepth
    /\ \A q \in Quad : Len(quadReq[q]) <= QueueDepth /\ Len(vault[q]) <= VaultDepth

\* The places of a queue, and of all queues, that hold a packet of address a.
Places(s, a) == {i \in DOMAIN s : s[i].addr = a}
PlacesInAll(queues, a) == UNION {{d} \X Places(queues[d], a) : d \in DOMAIN queues}
Count(s, a) == Cardinality(Places(s, a))
InAll(queues, a) == Cardinality(PlacesInAll(queues, a))

\* Requests of a that the vaults have not finished.
Unfinished(a) == InAll(linkReq, a) + InAll(quadReq, a) + InAll(vault, a)

\* VaultCallback finds a response for what the vault has finished, and none is
\* left over: the table holds a response for each unfinished request of an
\* address.
LookupNeverFails ==
    \A a \in Addr : Count(table, a) = Unfinished(a)

\* A source that waits is one with a packet: a crossbar never takes the head of
\* an empty queue, and no packet is forgotten.
AgeMeansWaiting ==
    /\ \A l \in Link : linkAge[l] > 0 <=> linkReq[l] # << >>
    /\ \A q \in Quad : quadAge[q] > 0 <=> quadResp[q] # << >>

\* Every request is answered in the end, when no more come: nothing is lost, and
\* nothing stays in a queue of a crossbar.
AllAnswered ==
    <>[](/\ table = << >>
         /\ \A l \in Link : linkReq[l] = << >> /\ linkResp[l] = << >>
         /\ \A q \in Quad : quadResp[q] = << >>)
=============================================================================

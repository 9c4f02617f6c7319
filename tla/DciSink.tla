------------------------------ MODULE DciSink ------------------------------
(***************************************************************************)
(* The DCI sink: the server inside NG-Scope sends the target UE's DCIs over*)
(* UDP to every client that asked for them; a client keeps the last ones of*)
(* each cell in ring buffers and the range of TTIs that all cells cover.   *)
(*                                                                         *)
(* Three threads and the network interleave: the server thread, which      *)
(* answers connection requests; the cell status thread, which sends a DCI  *)
(* whenever a cell's ring buffer moves on; a client's thread.  Packets to a*)
(* client stay in order and may be lost (a connecting client reads ten of  *)
(* them a second while DCIs come every millisecond).                       *)
(*                                                                         *)
(* A DCI of a cell is the number n of its subframe, whose TTI is           *)
(* n % MaxTti.  The DCI carries the tti stored in the cell's ring buffer:  *)
(* that of n, or, if the subframe was given up, what the slot held before. *)
(***************************************************************************)
EXTENDS Integers, Sequences, FiniteSets, FiniteSetsExt, SequencesExt

CONSTANTS
    Clients,      \* client addresses
    MaxClient,    \* MAX_CLIENT
    NofRfDev,      \* cells of the configuration
    NofLogDci,    \* NOF_LOG_DCI: entries of a client's ring buffer
    MaxTti,       \* MAX_TTI
    RingSize,     \* CELL_STATUS_RING_BUF_SIZE: slots of a cell on the server
    StaleTimes,   \* low 16 bits of recent_dl_reTx_t_us
    NoClient,     \* no address
    FirstDci,     \* number of the first DCI
    LastDci,      \* bound: number of the last one
    MaxAhead,      \* bound: how far one cell is ahead of another
    MaxQueue,     \* bound: packets on the way to a client
    MaxGivenUp,   \* bound: DCIs sent for subframes that were given up
    MaxLostPkt    \* bound: packets lost

ASSUME SinkAssumption ==
    /\ IsFiniteSet(Clients) /\ NoClient \notin Clients
    /\ StaleTimes \subseteq Nat /\ 0 \in StaleTimes
    /\ MaxClient \in Nat \ {0} /\ NofRfDev \in Nat \ {0} /\ NofLogDci \in Nat \ {0}
    /\ MaxTti \in Nat \ {0} /\ MaxTti % 2 = 0
    /\ RingSize \in Nat \ {0} /\ MaxGivenUp \in Nat
    /\ FirstDci \in Nat /\ LastDci \in Nat /\ FirstDci <= LastDci
    /\ MaxAhead \in Nat \ {0} /\ MaxQueue \in Nat \ {0} /\ MaxLostPkt \in Nat

RfDevs == 0 .. NofRfDev - 1
NoDci == -1

Connect(c) == [type |-> "connect", from |-> c]
Close(c) == [type |-> "close", from |-> c]
Ack == [type |-> "ack"]
Config == [type |-> "config"]
Dci(cell, n) == [type |-> "dci", cell |-> cell, n |-> n]

VARIABLES
    requests,     \* packets to the server, in order
    client_list,  \* the clients in the order they were accepted
    serving,      \* what the server thread does next, and for whom
    next,         \* the next DCI of each cell
    dci_tti,      \* the tti each DCI of each cell is sent with
    pc,           \* a client: "off", "connecting", "connected" or "closed"
    nof_serv_pkt, \* packets a connecting client took for an answer
    queue,        \* packets to each client, in order
    ring,         \* each client's dci_CA_buf
    lostPkt,      \* history: the clients of the lost packets to clients
    lostReq       \* history: the clients of the lost packets to the server

sinkVars == <<requests, client_list, serving, next, dci_tti, pc, nof_serv_pkt, queue, ring,
              lostPkt, lostReq>>
senderVars == <<next, dci_tti>>
lossVars == <<lostPkt, lostReq>>
serverVars == <<client_list, serving>>
clientVars == <<pc, nof_serv_pkt, ring>>

Listed == ToSet(client_list)
Idle == [step |-> "recv", client |-> NoClient, left |-> 0]

EmptyCell == [header |-> 0, nof |-> 0, dci |-> [i \in 0 .. NofLogDci - 1 |-> NoDci]]

Tti(n) == n % MaxTti

\* ngscope_dciSink_ringBuf_init
EmptyCaBuf == [nof_cell |-> 1, ca_ready |-> FALSE, header |-> 0, tail |-> 0,
              cell |-> [i \in RfDevs |-> EmptyCell]]

SinkInit ==
    /\ requests = << >> /\ client_list = << >>
    /\ serving = Idle
    /\ next = [i \in RfDevs |-> FirstDci]
    /\ dci_tti = [i \in RfDevs |-> [n \in FirstDci .. LastDci |-> Tti(n)]]
    /\ pc = [c \in Clients |-> "off"]
    /\ nof_serv_pkt = [c \in Clients |-> 0]
    /\ queue = [c \in Clients |-> << >>]
    /\ ring = [c \in Clients |-> EmptyCaBuf]
    /\ lostPkt = << >> /\ lostReq = << >>

\* Packets to clients; a closed socket takes none.
Send(q, to, msgs) ==
    [c \in Clients |-> IF c \in to /\ pc[c] # "closed" THEN q[c] \o msgs ELSE q[c]]

-----------------------------------------------------------------------------
(* dci_sink_serv.c: dci_sink_server_thread                                 *)

(* Slip: off by one in the limit.                                          *)
PushClientOff(c) ==
    IF c \in Listed \/ Len(client_list) >= MaxClient - 1 THEN client_list ELSE Append(client_list, c)

\* push_client_to_vec and sock_update_client_list_addr: the list with a new
\* client, or as it was if it is full or the address is known.  The thread's
\* own vector and the shared list always hold the same addresses.
PushClient(c) ==
    IF c \in Listed \/ Len(client_list) >= MaxClient THEN client_list ELSE Append(client_list, c)

(* Slip: a single answer.                                                  *)
NofRepliesOne == 1

NofReplies == 2

\* A request is taken; only a new client's is acted on.  A close request is
\* read and ignored.
ServerRecv ==
    /\ serving.step = "recv" /\ requests # << >>
    /\ requests' = Tail(requests)
    /\ LET m == Head(requests)
       IN  \/ /\ m.type = "connect" /\ PushClient(m.from) # client_list
              /\ client_list' = PushClient(m.from)
              /\ serving' = [step |-> "reply", client |-> m.from, left |-> NofReplies]
           \/ /\ m.type = "close" \/ PushClient(m.from) = client_list
              /\ UNCHANGED serverVars
    /\ UNCHANGED <<senderVars, queue, clientVars, lossVars>>

\* One of the answers; a DCI may be sent between two of them.
ServerReply ==
    /\ serving.step = "reply"
    /\ queue' = Send(queue, {serving.client}, <<Ack>>)
    /\ serving' = [serving EXCEPT !.left = @ - 1,
                                  !.step = IF serving.left = 1 THEN "config" ELSE @]
    /\ UNCHANGED <<requests, client_list, senderVars, clientVars, lossVars>>

\* sock_send_config, to all clients.
ServerConfig ==
    /\ serving.step = "config"
    /\ queue' = Send(queue, Listed, <<Config>>)
    /\ serving' = Idle
    /\ UNCHANGED <<requests, client_list, senderVars, clientVars, lossVars>>

\* The loop goes round with nothing to read.
ServerPoll == serving.step = "recv" /\ requests = << >> /\ UNCHANGED sinkVars

-----------------------------------------------------------------------------
(* dci_sink_sock.c: sock_send_single_dci, called by the cell status thread *)

\* The slot of a subframe that was given up still holds the tti of an earlier
\* lap, or 0 if nothing was ever stored there.
GivenUpTtis(n) == {0} \cup {Tti(m) : m \in {k \in 0 .. n - 1 : k % RingSize = n % RingSize}}

GivenUp == {x \in RfDevs \X (FirstDci .. LastDci) : dci_tti[x[1]][x[2]] # Tti(x[2])}

\* push_dci_to_remote takes the tti from the slot.
SendDci(i) ==
    /\ next[i] <= LastDci
    /\ \A j \in RfDevs : next[i] - next[j] < MaxAhead
    /\ \A c \in Listed : Len(queue[c]) < MaxQueue
    /\ next' = [next EXCEPT ![i] = @ + 1]
    /\ \/ UNCHANGED dci_tti
       \/ /\ Cardinality(GivenUp) < MaxGivenUp
          /\ \E t \in GivenUpTtis(next[i]) : dci_tti' = [dci_tti EXCEPT ![i][next[i]] = t]
    /\ queue' = Send(queue, Listed, <<Dci(i, next[i])>>)
    /\ UNCHANGED <<requests, serverVars, clientVars, lossVars>>

-----------------------------------------------------------------------------
(* dci_sink_ring_buffer.c                                                  *)

Abs(x) == IF x < 0 THEN -x ELSE x

(* Slip: the TTIs are compared without unwrapping.                         *)
UnwrapNot(f) == f

\* unwrap_tti_array
Unwrap(f) ==
    LET top == Max(Range(f))
    IN  [i \in DOMAIN f |-> IF Abs(top - f[i]) > Abs(top - (f[i] + MaxTti)) THEN f[i] + MaxTti ELSE f[i]]

\* find_dci_cell_tail
Oldest(cell) == cell.dci[(cell.header - cell.nof + NofLogDci) % NofLogDci]

EntryTti(i, n) == IF n = NoDci THEN 0 ELSE dci_tti[i][n]

\* ca_update_header.  For a cell with header 0 it reads dci[-1], which lies on
\* the fields before the array: its tti is the low half of the time of the
\* last downlink retransmission.
CaUpdate(r, stale) ==
    LET used  == 0 .. r.nof_cell - 1
        heads == [i \in used |-> IF r.cell[i].header = 0 THEN stale[i]
                                 ELSE EntryTti(i, r.cell[i].dci[r.cell[i].header - 1])]
        tails == {EntryTti(i, Oldest(r.cell[i])) : i \in used}
    IN  IF r.ca_ready
        THEN [r EXCEPT !.header = Tti(Min(Range(Unwrap(heads)))), !.tail = Tti(Max(tails) + 1)]
        ELSE [r EXCEPT !.ca_ready = \A i \in used : r.cell[i].header # 0]

(* Slip: a full ring does not move on.                                     *)
InsertStuck(r, i, n) ==
    LET c == r.cell[i]
    IN  [r EXCEPT !.cell[i] = [header |-> IF c.nof < NofLogDci THEN (c.header + 1) % NofLogDci ELSE c.header,
                               nof    |-> IF c.nof < NofLogDci THEN c.nof + 1 ELSE c.nof,
                               dci    |-> [c.dci EXCEPT ![c.header] = n]]]

\* insert_single_dci, up to its call of ca_update_header
Insert(r, i, n) ==
    LET c == r.cell[i]
    IN  [r EXCEPT !.cell[i] = [header |-> (c.header + 1) % NofLogDci,
                               nof    |-> IF c.nof < NofLogDci THEN c.nof + 1 ELSE c.nof,
                               dci    |-> [c.dci EXCEPT ![c.header] = n]]]

-----------------------------------------------------------------------------
(* dci_sink_client.c                                                       *)

\* The request is sent twice, and never again.
ClientConnect(c) ==
    /\ pc[c] = "off"
    /\ pc' = [pc EXCEPT ![c] = "connecting"]
    /\ requests' = requests \o <<Connect(c), Connect(c)>>
    /\ UNCHANGED <<serverVars, senderVars, nof_serv_pkt, queue, ring, lossVars>>

\* Any packet with preamble 0xAA counts as an answer, a DCI too; a
\* configuration that comes now is thrown away.
ClientAwait(c) ==
    /\ pc[c] = "connecting" /\ queue[c] # << >>
    /\ queue' = [queue EXCEPT ![c] = Tail(@)]
    /\ nof_serv_pkt' = [nof_serv_pkt EXCEPT ![c] = @ + (IF Head(queue[c]).type = "config" THEN 0 ELSE 1)]
    /\ pc' = [pc EXCEPT ![c] = IF nof_serv_pkt'[c] >= 2 THEN "connected" ELSE @]
    /\ UNCHANGED <<requests, serverVars, senderVars, ring, lossVars>>

\* ngscope_dci_sink_recv_buffer: an answer that comes late is too short for a
\* DCI and dropped.
ClientRecv(c) ==
    /\ pc[c] = "connected" /\ queue[c] # << >>
    /\ queue' = [queue EXCEPT ![c] = Tail(@)]
    /\ LET m == Head(queue[c])
       IN  \/ m.type = "ack" /\ UNCHANGED ring
           \/ m.type = "config" /\ ring' = [ring EXCEPT ![c].nof_cell = NofRfDev]
           \/ /\ m.type = "dci"
              /\ \E stale \in [RfDevs -> StaleTimes] :
                     ring' = [ring EXCEPT ![c] = CaUpdate(Insert(@, m.cell, m.n), stale)]
    /\ UNCHANGED <<requests, serverVars, senderVars, pc, nof_serv_pkt, lossVars>>

\* go_exit in the client's process.
ClientClose(c) ==
    /\ pc[c] \in {"connecting", "connected"}
    /\ pc' = [pc EXCEPT ![c] = "closed"]
    /\ queue' = [queue EXCEPT ![c] = << >>]
    /\ requests' = requests \o <<Close(c), Close(c), Close(c)>>
    /\ UNCHANGED <<serverVars, senderVars, nof_serv_pkt, ring, lossVars>>

-----------------------------------------------------------------------------
(* The network.                                                            *)

LoseToClient(c) ==
    /\ \E i \in 1 .. Len(queue[c]) : queue' = [queue EXCEPT ![c] = RemoveAt(@, i)]
    /\ lostPkt' = Append(lostPkt, c)
    /\ UNCHANGED <<requests, serverVars, senderVars, clientVars, lostReq>>

LoseToServer ==
    \E i \in 1 .. Len(requests) :
        /\ requests' = RemoveAt(requests, i)
        /\ lostReq' = Append(lostReq, requests[i].from)
        /\ UNCHANGED <<serverVars, senderVars, queue, clientVars, lostPkt>>

LosePkt ==
    /\ Len(lostPkt) + Len(lostReq) < MaxLostPkt
    /\ LoseToServer \/ \E c \in Clients : LoseToClient(c)

Server == ServerRecv \/ ServerReply \/ ServerConfig

SinkNext ==
    \/ Server \/ ServerPoll
    \/ \E i \in RfDevs : SendDci(i)
    \/ \E c \in Clients : ClientConnect(c) \/ ClientAwait(c) \/ ClientRecv(c) \/ ClientClose(c)
    \/ LosePkt

\* The server and a connecting client poll their sockets for ever.
SinkFairness == WF_sinkVars(Server) /\ \A c \in Clients : WF_sinkVars(ClientAwait(c))

SinkSpec == SinkInit /\ [][SinkNext]_sinkVars /\ SinkFairness

-----------------------------------------------------------------------------
(* Properties.                                                             *)

(* Types; the list never outgrows MAX_CLIENT nor holds an address twice, a *)
(* client's header stays inside its array.                                 *)
SinkTypeOK ==
    /\ client_list \in Seq(Clients) /\ Len(client_list) <= MaxClient
    /\ Cardinality(Listed) = Len(client_list)
    /\ serving \in [step : {"recv", "reply", "config"}, client : Clients \cup {NoClient}, left : 0 .. 2]
    /\ \A i \in RfDevs : next[i] \in FirstDci .. LastDci + 1
    /\ dci_tti \in [RfDevs -> [FirstDci .. LastDci -> 0 .. MaxTti - 1]]
    /\ pc \in [Clients -> {"off", "connecting", "connected", "closed"}]
    /\ nof_serv_pkt \in [Clients -> 0 .. 2]
    /\ \A c \in Clients, i \in RfDevs :
           /\ ring[c].cell[i].header \in 0 .. NofLogDci - 1
           /\ ring[c].cell[i].nof \in 0 .. NofLogDci

\* No packet to client c was lost; neither of its two requests arrived.
Unharmed(c) == c \notin ToSet(lostPkt)
Unheard(c) == \E j, k \in DOMAIN lostReq : j # k /\ lostReq[j] = c /\ lostReq[k] = c

(* A connected client that has read everything sent to it, and lost none of*)
(* it, knows the number of cells: the configuration always comes after the *)
(* second answer, also when DCIs come between the answers and are taken for*)
(* answers, and when one of the client's requests was lost.                *)
ConfigUnlessLost ==
    \A c \in Clients :
        pc[c] = "connected" /\ queue[c] = << >> /\ serving.client # c /\ Unharmed(c)
            => ring[c].nof_cell = NofRfDev

\* The DCIs of cell i that client c holds, oldest first, and where in its
\* queue those are that are on the way.
Held(c, i) ==
    LET cell == ring[c].cell[i]
    IN  [k \in 1 .. cell.nof |-> cell.dci[(cell.header - cell.nof + k - 1 + NofLogDci) % NofLogDci]]
OfCell(q, i) == {p \in DOMAIN q : q[p].type = "dci" /\ q[p].cell = i}
Coming(c, i) == OfCell(queue[c], i)

(* What a connected client holds of a cell, followed by what is on the way,*)
(* is the consecutive run of DCIs up to the last one sent, unless packets  *)
(* were lost: no gap, no duplicate, none out of order, whatever number of  *)
(* DCIs the client took for answers and however often its ring wrapped.    *)
(* (A DCI is as far before the next one to be sent as there are others     *)
(* after it.)                                                              *)
NoGapUnlessLost ==
    \A c \in Clients, i \in RfDevs : pc[c] = "connected" /\ Unharmed(c) =>
        LET coming == Coming(c, i)
            held   == Held(c, i)
        IN  /\ \A p \in coming : queue[c][p].n = next[i] - Cardinality({r \in coming : r >= p})
            /\ \A k \in DOMAIN held : held[k] = next[i] - Cardinality(coming) - (Len(held) - k + 1)

\* An insertion at client c that recomputes the window when every cell has data.
Recomputed(c) ==
    /\ ring[c].ca_ready /\ ring'[c].cell # ring[c].cell
    /\ \A i \in 0 .. ring[c].nof_cell - 1 : ring'[c].cell[i].nof > 0

\* The position of the newest DCI before a header.
Before(h) == (h - 1 + NofLogDci) % NofLogDci

\* DCI n of cell i carries the TTI of its subframe, which was not given up.
OwnTti(i, n) == dci_tti[i][n] = Tti(n)

(* The window of a client with several cells ends at the newest DCI that   *)
(* all cells have, also across the wrap of the TTI, unless the newest DCI  *)
(* of a cell is one of a subframe that was given up, sent with the tti of  *)
(* an earlier lap, or lies at the end of its ring, so that the header is 0 *)
(* and dci[-1] is read.  It starts after the latest of the cells' oldest   *)
(* DCIs, whatever the headers are, provided that none of these was given up*)
(* and that they lie in one round of TTIs (the tails are compared without  *)
(* unwrapping).  A subframe that was given up does no harm in between.     *)
CaWindow ==
    [][\A c \in Clients : Recomputed(c) =>
           LET used      == 0 .. ring[c].nof_cell - 1
               Newest(i) == ring'[c].cell[i].dci[Before(ring'[c].cell[i].header)]
               First(i)  == Held(c, i)'[1]
               newest    == {Newest(i) : i \in used}
               oldest    == {First(i) : i \in used}
           IN  /\ (\A i \in used : ring'[c].cell[i].header # 0 /\ OwnTti(i, Newest(i)))
                      => ring'[c].header = Tti(Min(newest))
               /\ /\ \A i \in used : OwnTti(i, First(i))
                  /\ \A m, n \in oldest : m \div MaxTti = n \div MaxTti
                  => ring'[c].tail = Tti(Max(oldest) + 1)]_sinkVars

(* A client gets connected, or closed, unless the list of clients is full, *)
(* both of its requests were lost or a packet to it was: one request and   *)
(* two answers suffice.  (A lost answer is made up for only by DCIs; a     *)
(* request is never repeated.)                                             *)
Connects ==
    \A c \in Clients :
        pc[c] = "connecting" ~> \/ pc[c] # "connecting" \/ ~Unharmed(c) \/ Unheard(c)
                                \/ c \notin Listed /\ Len(client_list) = MaxClient
=============================================================================

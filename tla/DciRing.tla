------------------------------ MODULE DciRing ------------------------------
(***************************************************************************)
(* The DCI ring buffer of one cell, which turns the decoders' out-of-order *)
(* results back into TTI order: each result is stored in slot tti % buf_size*)
(* and cell_header walks over the filled slots, handing every slot it      *)
(* passes to the remote clients.  The cell status thread and the DCI logger*)
(* each keep such a ring for every cell.                                   *)
(*                                                                         *)
(* A subframe is its number n counted from the first one received.  Its TTI*)
(* is n modulo 10240, a multiple of buf_size, so its slot is n % BufSize.  *)
(***************************************************************************)
EXTENDS Integers, Sequences, FiniteSets, FiniteSetsExt

CONSTANTS
    BufSize,      \* CELL_STATUS_RING_BUF_SIZE, DCI_LOGGER_RING_BUF_SIZE
    DecodeTimeout \* DCI_DECODE_TIMEOUT, in subframes

ASSUME RingAssumption ==
    /\ BufSize \in Nat /\ BufSize >= 8 /\ BufSize % 8 = 0
    /\ DecodeTimeout \in Nat \ {0}

Slots == 0 .. BufSize - 1
None == -1              \* content of a slot calloc left zeroed

\* filled is the set of slots with the flag up, content their tti.  The rest
\* is history.  head is the subframe cell_header stands for, not wrapped, and
\* first the result that set it; early are the slots last filled by an older
\* result than that, behind the header, and clean says that the header has
\* walked over none of them, which takes it a lap.  pushed is what the calls
\* since it was last emptied handed on, in order.
EmptyRing ==
    [filled |-> {}, content |-> [s \in Slots |-> None],
     cell_ready |-> FALSE, cell_header |-> 0, most_recent_sf |-> 0, nof_logged_dci |-> 0,
     head |-> None, first |-> None, early |-> {}, clean |-> TRUE, pushed |-> << >>]

Dist(a, b) == (b - a) % BufSize          \* slots from a forward to b

\* The first DCI of a cell sets the header to the slot before its own.
FirstHeader(index) == (index - 1) % BufSize

(* Slip: the case where the new subframe lies across the end is missing.   *)
MostRecentNoWrap(recent, index) ==
    IF index > recent /\ index - recent < BufSize \div 8 THEN index ELSE recent

\* The new most_recent_sf: forward by less than an eighth of the buffer, or
\* across its end.
MostRecent(recent, index) ==
    IF \/ index > recent /\ index - recent < BufSize \div 8
       \/ index < recent /\ recent - index > (6 * BufSize) \div 8
    THEN index ELSE recent

(* Slip: the timeout fires one subframe early.                             *)
TimedOutEarly(filled, header, recent) ==
    {(header + k) % BufSize : k \in 1 .. Dist(header + 1, recent) - DecodeTimeout + 1} \ filled

(* Slip: the timeout never fires.                                          *)
TimedOutNever(filled, header, recent) == {}

\* The slots check_dci_decoding_timeout gives up on: from the one after the
\* header up to, not including, the most recent one.
TimedOut(filled, header, recent) ==
    {(header + k) % BufSize : k \in 1 .. Dist(header + 1, recent) - DecodeTimeout} \ filled

(* Slip: an if where the code has a while.                                 *)
AdvanceOne(filled, header) == IF (header + 1) % BufSize \in filled THEN 1 ELSE 0

\* How far the loop of update_cell_status_header walks; it clears each flag
\* it passes, so it stops after one lap at the latest.
Advance(filled, header) ==
    IF filled = Slots THEN BufSize
    ELSE Min({Dist(header + 1, s) : s \in Slots \ filled})

\* dci_ring_buffer_put_dci of subframe n.
Put(r, n) ==
    LET index  == n % BufSize
        header == IF r.cell_ready THEN r.cell_header ELSE FirstHeader(index)
        recent == MostRecent(IF r.cell_ready THEN r.most_recent_sf ELSE header, index)
        nof    == IF r.nof_logged_dci < BufSize THEN r.nof_logged_dci + 1 ELSE r.nof_logged_dci
        slots  == [r.content EXCEPT ![index] = n]
        fill   == r.filled \cup {index}
        active == nof >= BufSize \div 8
        known  == IF active THEN fill \cup TimedOut(fill, header, recent) ELSE fill
        steps  == IF active THEN Advance(known, header) ELSE 0
        first  == IF r.cell_ready THEN r.first ELSE n
        early  == IF n < first THEN r.early \cup {index} ELSE r.early \ {index}
    IN  [filled         |-> {s \in known : Dist(header + 1, s) >= steps},
         content        |-> slots,
         cell_ready     |-> TRUE,
         cell_header    |-> IF steps = 0 THEN header ELSE (header + steps) % BufSize,
         most_recent_sf |-> recent,
         nof_logged_dci |-> nof,
         head           |-> (IF r.cell_ready THEN r.head ELSE n - 1) + steps,
         first          |-> first,
         early          |-> early,
         clean          |-> r.clean /\ \A s \in early : Dist(header + 1, s) >= steps,
         pushed         |-> r.pushed \o [k \in 1 .. steps |-> slots[(header + k) % BufSize]]]
=============================================================================

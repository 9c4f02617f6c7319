----------------------------- MODULE DciLogger -----------------------------
(***************************************************************************)
(* The DCI logger thread: it takes the results the status tracker collected*)
(* for it, puts them into the ring buffers of their cells and writes the   *)
(* subframes that the cells' headers passed to the log files of each cell. *)
(* Nothing is written before every cell delivered a result.                *)
(*                                                                         *)
(* The environment is the decoder pool of each cell: up to MaxInFlight     *)
(* subframes are being decoded and any of them may finish next, the very   *)
(* first ones too; MaxLost of them never produce a result (sync loss, or   *)
(* dropped from a full skip list).  A result that finds log_stat_buffer    *)
(* full overwrites the oldest entry.  The rings belong to this thread      *)
(* alone, so one round of its loop is one step.                            *)
(***************************************************************************)
EXTENDS DciRing, SequencesExt

CONSTANTS
    NofCell,      \* nof_rf_dev
    Kinds,        \* kinds of log files: downlink, uplink, PHICH
    NofMsg(_, _), \* messages of a kind in a subframe
    LogsOf,       \* per cell the kinds that are switched on: log_dl, log_ul, log_phich
    FirstTti,     \* number of the first subframe the pools decode
    LastTti,      \* bound: number of the last one
    MaxInFlight,  \* per cell the subframes being decoded at the same time
    MaxLag,       \* bound: how far behind the newest subframe one may finish
    MaxSkew,      \* bound: how far one cell is ahead of another
    MaxBuffer,    \* MAX_DCI_BUFFER: entries of log_stat_buffer
    MaxLost,      \* bound: per cell the subframes whose result is lost
    LogInterval   \* log_interval > 0: files are replaced as time goes by

Cells == 0 .. NofCell - 1

ASSUME LoggerAssumption ==
    /\ NofCell \in Nat \ {0}
    /\ LogsOf \in [Cells -> SUBSET Kinds]
    /\ FirstTti \in Nat /\ LastTti \in Nat /\ FirstTti <= LastTti
    /\ MaxInFlight \in [Cells -> Nat \ {0}] /\ MaxLost \in [Cells -> Nat]
    /\ \A k \in Kinds : \A n \in {None} \cup (FirstTti .. LastTti) : NofMsg(k, n) \in Nat
    /\ MaxLag \in Nat /\ MaxSkew \in Nat \ {0} /\ MaxBuffer \in Nat \ {0}
    /\ LogInterval \in BOOLEAN

VARIABLES
    nextTti,         \* per cell the next subframe handed to its pool
    inFlight,        \* per cell the subframes being decoded
    lost,            \* per cell the subframes whose result never gets to the logger
    log_stat_buffer, \* results for the logger: cell and subframe, slot by slot
    log_stat_header, \* log_stat_ready.header: the slot written next
    overrun,         \* history: a result was overwritten before the logger saw it
    cell_status,     \* the logger's rings
    all_cell_ready,  \* ca_status.all_cell_ready
    log_config,      \* per cell cell_ready and curr_header; tti is history:
                     \* the subframe curr_header stands for, counting what was logged
    logged,          \* per cell the slot contents logged in the last round
    file,            \* per kind and cell: "empty", "[]" (no record yet), "array" or "broken"
    isFirstCall      \* per kind: the static variable of its log function

vars == <<nextTti, inFlight, lost, log_stat_buffer, log_stat_header, overrun, cell_status,
          all_cell_ready, log_config, logged, file, isFirstCall>>
loggerVars == <<cell_status, all_cell_ready, log_config, logged, file, isFirstCall>>

Init ==
    /\ nextTti = [i \in Cells |-> FirstTti]
    /\ inFlight = [i \in Cells |-> {}] /\ lost = [i \in Cells |-> {}]
    /\ log_stat_buffer = << >> /\ log_stat_header = 0 /\ overrun = FALSE
    /\ cell_status = [i \in Cells |-> EmptyRing]
    /\ all_cell_ready = FALSE
    /\ log_config = [i \in Cells |-> [cell_ready |-> FALSE, curr_header |-> 0, tti |-> None]]
    /\ logged = [i \in Cells |-> << >>]
    /\ file = [k \in Kinds |-> [i \in Cells |-> "empty"]]
    /\ isFirstCall = [k \in Kinds |-> TRUE]

-----------------------------------------------------------------------------
(* dci_log.c                                                               *)

(* Slip: the span across the end of the ring is not unwrapped.             *)
SpanNoWrap(start, end) == IF start > end THEN << >> ELSE [k \in 1 .. end - start |-> start + k]

\* The slots log_per_cell writes: after start up to and including end.
Span(start, end) == [k \in 1 .. Dist(start, end) |-> (start + k) % BufSize]

(* Slip: nothing is written for a subframe without messages.               *)
NofRecordsBare(k, n) == NofMsg(k, n)

\* "We must fill the TTI even if there is no dci message inside this subframe"
NofRecords(k, n) == Max({1, NofMsg(k, n)})

\* A log function writes an empty array when it is called first, or at
\* position 0 of a file.
OpensArray(first, f) == first \/ f = "empty"

\* log_dl_subframe, log_ul_subframe and log_phich_subframe for subframe n of
\* cell i.  The first record comes without a comma if it is the first call.
LogSubframe(k, st, i, n) ==
    LET opens  == OpensArray(st.first, st.file[i])
        opened == IF ~opens THEN st.file[i] ELSE IF st.file[i] = "empty" THEN "[]" ELSE "broken"
        joined == IF opened = (IF opens THEN "[]" ELSE "array") THEN "array" ELSE "broken"
    IN  IF NofRecords(k, n) = 0
        THEN [first |-> opens, file |-> [st.file EXCEPT ![i] = opened]]
        ELSE [first |-> FALSE, file |-> [st.file EXCEPT ![i] = joined]]

\* The loop of log_per_cell, for kind k: slot after slot.
LogPerCell(k, st, i, out) ==
    LET done[j \in 0 .. Len(out)] == IF j = 0 THEN st ELSE LogSubframe(k, done[j - 1], i, out[j])
    IN  done[Len(out)]

\* The loop of log_multi_cell, for kind k: cell after cell.
LogMultiCell(k, out) ==
    LET done[c \in 0 .. NofCell] ==
            IF c = 0 THEN [first |-> isFirstCall[k], file |-> file[k]]
            ELSE IF k \in LogsOf[c - 1] THEN LogPerCell(k, done[c - 1], c - 1, out[c - 1])
            ELSE done[c - 1]
    IN  done[NofCell]

\* dci_ring_buffer_clear_cell_fill_flag, called with the first ring for each
\* cell: it clears slot i of that ring, i being the cell's index.
Cleared(rings) == [rings EXCEPT ![0].filled = @ \ Cells]

\* The loop's puts, after the rings' pushed was emptied.
Filled ==
    LET rings[b \in 0 .. Len(log_stat_buffer)] ==
            IF b = 0 THEN [i \in Cells |-> [cell_status[i] EXCEPT !.pushed = << >>]]
            ELSE [rings[b - 1] EXCEPT ![log_stat_buffer[b][1]] = Put(@, log_stat_buffer[b][2])]
    IN  rings[Len(log_stat_buffer)]

(* log_multi_cell while cells are missing, the first time they are there,  *)
(* when it only takes their headers, and from then on.                     *)
LogNothing(rings) ==
    /\ ~ \A i \in Cells : rings[i].cell_ready
    /\ cell_status' = rings
    /\ logged' = [i \in Cells |-> << >>]
    /\ UNCHANGED <<all_cell_ready, log_config, file, isFirstCall>>

LogFirst(rings) ==
    /\ ~all_cell_ready /\ \A i \in Cells : rings[i].cell_ready
    /\ all_cell_ready' = TRUE
    /\ cell_status' = Cleared(rings)
    /\ log_config' = [i \in Cells |-> [cell_ready |-> TRUE, curr_header |-> rings[i].cell_header,
                                       tti |-> rings[i].head]]
    /\ logged' = [i \in Cells |-> << >>]
    /\ UNCHANGED <<file, isFirstCall>>

LogCells(rings) ==
    /\ all_cell_ready
    /\ cell_status' = rings
    /\ LET span  == [i \in Cells |-> Span(log_config[i].curr_header, rings[i].cell_header)]
           out   == [i \in Cells |-> [j \in DOMAIN span[i] |-> rings[i].content[span[i][j]]]]
           after == [k \in Kinds |-> LogMultiCell(k, out)]
       IN  /\ logged' = out
           /\ log_config' = [i \in Cells |-> [log_config[i] EXCEPT !.curr_header = rings[i].cell_header,
                                                                   !.tti = @ + Len(out[i])]]
           /\ isFirstCall' = [k \in Kinds |-> after[k].first]
           \* The files are closed and new ones opened if the interval is over.
           /\ \/ file' = [k \in Kinds |-> after[k].file]
              \/ LogInterval /\ file' = [k \in Kinds |-> [i \in Cells |-> "empty"]]
    /\ UNCHANGED all_cell_ready

\* One round of dci_log_thread.
Log ==
    /\ log_stat_buffer # << >>
    /\ log_stat_buffer' = << >> /\ log_stat_header' = 0
    /\ \E rings \in {Filled} : LogNothing(rings) \/ LogFirst(rings) \/ LogCells(rings)
    /\ UNCHANGED <<nextTti, inFlight, lost, overrun>>

-----------------------------------------------------------------------------
(* status_tracker.c: the status tracker hands a result to the logger.      *)

\* It is written to the slot log_stat_header; nof_dci stops at MaxBuffer, and
\* then the entry that stood there, the oldest, is gone.
Store(e) ==
    /\ log_stat_header' = (log_stat_header + 1) % MaxBuffer
    /\ \/ /\ Len(log_stat_buffer) < MaxBuffer
          /\ log_stat_buffer' = Append(log_stat_buffer, e)
          /\ UNCHANGED <<lost, overrun>>
       \/ /\ Len(log_stat_buffer) = MaxBuffer
          /\ log_stat_buffer' = [log_stat_buffer EXCEPT ![log_stat_header + 1] = e]
          /\ overrun' = TRUE
          /\ LET old == log_stat_buffer[log_stat_header + 1]
             IN  /\ Cardinality(lost[old[1]]) < MaxLost[old[1]]
                 /\ lost' = [lost EXCEPT ![old[1]] = @ \cup {old[2]}]

-----------------------------------------------------------------------------
(* The decoder pools, as the logger sees them.                             *)

InStep(i, n) == n <= LastTti /\ \A j \in Cells \ {i} : n - nextTti[j] < MaxSkew

\* A subframe counts as handed to its pool when it or a later one finishes.
Finish(i, n) ==
    LET started == nextTti[i] .. n
    IN  /\ n \in inFlight[i] \/ (n >= nextTti[i] /\ InStep(i, n))
        /\ nextTti' = [nextTti EXCEPT ![i] = Max({@, n + 1})]
        /\ inFlight' = [inFlight EXCEPT ![i] = (@ \cup started) \ {n}]
        /\ Cardinality(inFlight'[i]) < MaxInFlight[i]
        /\ \A m \in inFlight'[i] : n - m < MaxLag
        /\ Store(<<i, n>>)
        /\ UNCHANGED loggerVars

Lose(i) ==
    /\ InStep(i, nextTti[i])
    /\ Cardinality(lost[i]) < MaxLost[i]
    /\ nextTti' = [nextTti EXCEPT ![i] = @ + 1]
    /\ lost' = [lost EXCEPT ![i] = @ \cup {nextTti[i]}]
    /\ UNCHANGED <<inFlight, log_stat_buffer, log_stat_header, overrun, loggerVars>>

Waiting(i) == {b[2] : b \in {x \in ToSet(log_stat_buffer) : x[1] = i}}

\* The bounded input is used up.
Done ==
    /\ \A i \in Cells : nextTti[i] > LastTti /\ inFlight[i] = {}
    /\ log_stat_buffer = << >>
    /\ UNCHANGED vars

Next ==
    \/ \E i \in Cells : Lose(i) \/ \E n \in inFlight[i] \cup (nextTti[i] .. nextTti[i] + MaxLag) : Finish(i, n)
    \/ Log \/ Done

Spec == Init /\ [][Next]_vars

-----------------------------------------------------------------------------
(* Properties of the rings.                                                *)

\* The results put into cell i's ring.
Received(i) == (FirstTti .. nextTti[i] - 1) \ (inFlight[i] \cup lost[i] \cup Waiting(i))
Newest(i) == Max(Received(i))
Active(i) == cell_status[i].nof_logged_dci >= BufSize \div 8

\* No result was overwritten, and the header of cell i has not come round to
\* the flag of a result that is older than the cell's first one.  Both happen:
\* the logger may be slow, and a cell takes the result that comes first for
\* its oldest.  The header then passes a slot on the strength of an old flag.
Regular(i) == ~overrun /\ cell_status[i].clean

\* The subframe whose turn it was when the k-th element was handed on.
Expected(i, k) == cell_status[i].head - Len(cell_status[i].pushed) + k

(* Variables keep their types; most_recent_sf and cell_header are slots.   *)
TypeOK ==
    /\ \A i \in Cells :
           /\ nextTti[i] \in FirstTti .. LastTti + 1
           /\ inFlight[i] \subseteq FirstTti .. LastTti /\ lost[i] \subseteq FirstTti .. LastTti
           /\ cell_status[i].filled \subseteq Slots
           /\ cell_status[i].content \in [Slots -> {None} \cup (FirstTti .. LastTti)]
           /\ cell_status[i].cell_header \in Slots /\ cell_status[i].most_recent_sf \in Slots
           /\ cell_status[i].nof_logged_dci \in 0 .. BufSize
           /\ log_config[i].curr_header \in Slots
    /\ all_cell_ready \in BOOLEAN
    /\ log_stat_buffer \in Seq(Cells \X (FirstTti .. LastTti)) /\ Len(log_stat_buffer) <= MaxBuffer
    /\ log_stat_header \in 0 .. MaxBuffer - 1
    /\ file \in [Kinds -> [Cells -> {"empty", "[]", "array", "broken"}]]
    /\ isFirstCall \in [Kinds -> BOOLEAN]

(* A subframe that did produce a result is handed on in its turn; only the *)
(* turn of one that produced none may be taken by the slot's old content.  *)
(* This and what follows holds from the first result of a cell on, which   *)
(* need not be its oldest subframe, until the header walks over the flag of*)
(* an older one, if that was not raised again in time a lap later.         *)
InOrderButLost ==
    \A i \in Cells : Regular(i) => \A k \in DOMAIN cell_status[i].pushed :
        cell_status[i].pushed[k] = Expected(i, k) \/ Expected(i, k) \in lost[i]

(* cell_header never stands for a subframe newer than every result put in. *)
HeaderBehindNewest ==
    \A i \in Cells :
        Regular(i) /\ cell_status[i].cell_ready => cell_status[i].head <= Newest(i)

(* check_dci_decoding_timeout gives up on a subframe only when it lags the *)
(* newest result by more than DCI_DECODE_TIMEOUT subframes.                *)
GiveUpOnlyAfterTimeout ==
    \A i \in Cells : Regular(i) => \A k \in DOMAIN cell_status[i].pushed :
        Expected(i, k) \in Received(i) \/ Newest(i) - Expected(i, k) > DecodeTimeout

(* A subframe that takes too long does not hold the header back, nor does  *)
(* the flag that log_multi_cell clears in the wrong slot: it stays within  *)
(* the decoding timeout of the newest result.                              *)
BoundedLag ==
    \A i \in Cells : Regular(i) /\ cell_status[i].cell_ready /\ Active(i) =>
        Newest(i) - cell_status[i].head <= DecodeTimeout + 1

(* When every subframe has been decoded the header stands at the last one; *)
(* the cleared flag has held nothing back for good.                        *)
Drained ==
    \A i \in Cells :
        Regular(i) /\ nextTti[i] > LastTti /\ Received(i) = FirstTti .. LastTti /\ Active(i)
            => cell_status[i].head = LastTti

(* Properties of the log files.                                            *)

(* Every subframe a header passes after the logger first saw the cells is  *)
(* written to the cell's files once: the number of subframes logged is the *)
(* distance the header went, across any number of laps.  And what is       *)
(* written is the subframe whose turn it is, with the content its decoder  *)
(* reported: its slot has not been reused between the header's pass and the*)
(* logging, and the flag cleared in the wrong ring costs no record.        *)
LoggedInOrder ==
    \A i \in Cells : Regular(i) =>
        /\ all_cell_ready => log_config[i].tti = cell_status[i].head
        /\ \A k \in DOMAIN logged[i] :
               LET turn == log_config[i].tti - Len(logged[i]) + k
               IN  logged[i][k] = turn \/ turn \in lost[i]

(* Every log file is a well-formed JSON array or still empty, although one *)
(* static variable per kind decides the separators in the files of all     *)
(* cells and the files are replaced while it keeps its value.              *)
WellFormed == \A k \in Kinds, i \in Cells : file[k][i] \in {"empty", "array"}
=============================================================================

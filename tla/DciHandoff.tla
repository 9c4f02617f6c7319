----------------------------- MODULE DciHandoff -----------------------------
(***************************************************************************)
(* The path of a decoded subframe from the DCI decoders to its consumers:  *)
(*                                                                         *)
(*   decoders -> dci_buffer -> status tracker -> cell_stat_buffer -> cell  *)
(*                                          \-> log_stat_buffer -> logger  *)
(*                                                                         *)
(* Each arrow is a buffer of MAX_DCI_BUFFER entries with a header and a    *)
(* count, guarded by its own mutex and condition variable.  A writer that  *)
(* finds it full overwrites the oldest entry; a reader takes everything.   *)
(* Results are numbered in the order in which the decoders store them.     *)
(*                                                                         *)
(* Every wait re-checks its predicate in a loop under the mutex the writer *)
(* signals under, so a wait is the guard nof > 0 of the reader's action.   *)
(***************************************************************************)
EXTENDS Naturals, Sequences, SequencesExt

CONSTANTS
    MaxDciBuffer,   \* MAX_DCI_BUFFER
    NofDci,         \* bound: results the decoders produce
    HasLogger       \* ngscope_config_check_log: a DCI logger thread exists

ASSUME HandoffAssumption ==
    /\ MaxDciBuffer \in Nat \ {0}
    /\ NofDci \in Nat
    /\ HasLogger \in BOOLEAN

VARIABLES
    produced,   \* results stored in dci_buffer so far
    dci,        \* dci_ready and dci_buffer
    cell,       \* cell_stat_ready and cell_stat_buffer
    log,        \* log_stat_ready and log_stat_buffer
    tpc,        \* where the status tracker thread is
    queue,      \* dci_queue, the tracker's private copy
    cellGot,    \* history: what the cell status thread took, in order
    logGot,     \* history: what the DCI logger took, in order
    full        \* history: the buffers that have overwritten an entry

vars == <<produced, dci, cell, log, tpc, queue, cellGot, logGot, full>>

Results == 1 .. NofDci
Slots == 0 .. MaxDciBuffer - 1
EmptyBuffer == [data |-> [s \in Slots |-> 0], header |-> 0, nof |-> 0]

Init ==
    /\ produced = 0
    /\ dci = EmptyBuffer /\ cell = EmptyBuffer /\ log = EmptyBuffer
    /\ tpc = "drain" /\ queue = << >>
    /\ cellGot = << >> /\ logGot = << >>
    /\ full = {}

-----------------------------------------------------------------------------
(* Slip: a full buffer does not advance its header.                        *)
PushStuck(b, x) ==
    [data |-> [b.data EXCEPT ![b.header] = x],
     header |-> IF b.nof < MaxDciBuffer THEN (b.header + 1) % MaxDciBuffer ELSE b.header,
     nof |-> IF b.nof < MaxDciBuffer THEN b.nof + 1 ELSE b.nof]

(* Slip: the count grows past the size of the buffer.                      *)
PushUncounted(b, x) ==
    [data |-> [b.data EXCEPT ![b.header] = x],
     header |-> (b.header + 1) % MaxDciBuffer,
     nof |-> b.nof + 1]

\* Store one entry at the header; a full buffer loses its oldest entry.
Push(b, x) ==
    [data |-> [b.data EXCEPT ![b.header] = x],
     header |-> (b.header + 1) % MaxDciBuffer,
     nof |-> IF b.nof < MaxDciBuffer THEN b.nof + 1 ELSE b.nof]

PushAll(b, q) ==
    LET pushed[n \in 0 .. Len(q)] == IF n = 0 THEN b ELSE Push(pushed[n - 1], q[n])
    IN  pushed[Len(q)]

\* The memcpy of a reader: entries 0 .. nof_dci - 1, whatever the header is.
Contents(b) == [k \in 1 .. b.nof |-> b.data[k - 1]]

(* Slip: the header is not reset together with the count.                  *)
ClearedCount(b) ==
    [data |-> [s \in Slots |-> IF s < b.nof THEN 0 ELSE b.data[s]],
     header |-> b.header, nof |-> 0]

\* The reader zeroes the entries it took and resets header and count.
Cleared(b) ==
    [data |-> [s \in Slots |-> IF s < b.nof THEN 0 ELSE b.data[s]],
     header |-> 0, nof |-> 0]

Overflows(b, n) == b.nof + n > MaxDciBuffer

-----------------------------------------------------------------------------
(* End of a decoder's loop, under dci_ready.mutex.                         *)
DecoderStore ==
    /\ produced < NofDci
    /\ produced' = produced + 1
    /\ dci' = Push(dci, produced + 1)
    /\ full' = IF Overflows(dci, 1) THEN full \cup {"dci"} ELSE full
    /\ UNCHANGED <<cell, log, tpc, queue, cellGot, logGot>>

(* The status tracker empties dci_buffer into its own dci_queue.           *)
TrackerDrain ==
    /\ tpc = "drain"
    /\ dci.nof > 0
    /\ queue' = Contents(dci)
    /\ dci' = Cleared(dci)
    /\ tpc' = "toCell"
    /\ UNCHANGED <<produced, cell, log, cellGot, logGot, full>>

(* It stores the whole batch for the cell status thread ...                *)
TrackerToCell ==
    /\ tpc = "toCell"
    /\ cell' = PushAll(cell, queue)
    /\ full' = IF Overflows(cell, Len(queue)) THEN full \cup {"cell"} ELSE full
    /\ tpc' = "toLog"
    /\ UNCHANGED <<produced, dci, log, queue, cellGot, logGot>>

(* Slip: the logger is handed only the newest result of a batch.           *)
TrackerToLogLast ==
    /\ tpc = "toLog"
    /\ log' = Push(log, Last(queue))
    /\ full' = IF Overflows(log, Len(queue)) THEN full \cup {"log"} ELSE full
    /\ tpc' = "drain"
    /\ queue' = << >>
    /\ UNCHANGED <<produced, dci, cell, cellGot, logGot>>

(* ... and for the DCI logger, whether there is one or not.                *)
TrackerToLog ==
    /\ tpc = "toLog"
    /\ log' = PushAll(log, queue)
    /\ full' = IF Overflows(log, Len(queue)) THEN full \cup {"log"} ELSE full
    /\ tpc' = "drain"
    /\ queue' = << >>          \* memset at the top of the loop
    /\ UNCHANGED <<produced, dci, cell, cellGot, logGot>>

CellTake ==
    /\ cell.nof > 0
    /\ cellGot' = cellGot \o Contents(cell)
    /\ cell' = Cleared(cell)
    /\ UNCHANGED <<produced, dci, log, tpc, queue, logGot, full>>

LoggerTake ==
    /\ HasLogger
    /\ log.nof > 0
    /\ logGot' = logGot \o Contents(log)
    /\ log' = Cleared(log)
    /\ UNCHANGED <<produced, dci, cell, tpc, queue, cellGot, full>>

Tracker == TrackerDrain \/ TrackerToCell \/ TrackerToLog

\* The bounded input has been consumed.
Done ==
    /\ produced = NofDci /\ dci.nof = 0 /\ tpc = "drain" /\ cell.nof = 0
    /\ HasLogger => log.nof = 0
    /\ UNCHANGED vars

Next == DecoderStore \/ Tracker \/ CellTake \/ LoggerTake \/ Done

Fairness == WF_vars(Tracker) /\ WF_vars(CellTake) /\ WF_vars(LoggerTake)

Spec == Init /\ [][Next]_vars
FairSpec == Spec /\ Fairness

-----------------------------------------------------------------------------
(* Properties.                                                             *)

BufferType == [data : [Slots -> 0 .. NofDci], header : Slots, nof : 0 .. MaxDciBuffer]

(* Types; in particular a count never exceeds the size of its array, which *)
(* the readers' memcpy relies on.                                          *)
TypeOK ==
    /\ produced \in 0 .. NofDci
    /\ dci \in BufferType /\ cell \in BufferType /\ log \in BufferType
    /\ tpc \in {"drain", "toCell", "toLog"}
    /\ queue \in Seq(Results) /\ Len(queue) <= MaxDciBuffer
    /\ cellGot \in Seq(Results) /\ logGot \in Seq(Results)
    /\ full \subseteq {"dci", "cell", "log"}

(* An overflow costs exactly the oldest results: what dci_buffer holds is  *)
(* the newest nof_dci results stored, even after its header wrapped.       *)
KeepsNewest ==
    ToSet(Contents(dci)) = (produced - dci.nof + 1) .. produced

Upto(n) == [k \in 1 .. n |-> k]

ForCell == IF tpc = "toCell" THEN queue ELSE << >>

(* As long as no buffer on its way was full, the cell status thread takes  *)
(* every result exactly once and in the order the decoders stored them, and*)
(* so does the DCI logger, though each has its own buffer and pace.        *)
ConsumersGetAll ==
    /\ full \cap {"dci", "cell"} = {} =>
           cellGot \o Contents(cell) \o ForCell \o Contents(dci) = Upto(produced)
    /\ full \cap {"dci", "log"} = {} =>
           logGot \o Contents(log) \o queue \o Contents(dci) = Upto(produced)

(* No consumer takes a result twice or an entry that was never stored,     *)
(* overflow or not.                                                        *)
NoDuplicates == IsInjective(cellGot) /\ IsInjective(logGot)

(* The newest result always gets through to every consumer: a signal sent  *)
(* while a reader is busy is not lost, and overflow never hits the newest. *)
NewestDelivered ==
    (produced = NofDci) ~> /\ NofDci \in ToSet(cellGot)
                           /\ HasLogger => NofDci \in ToSet(logGot)
=============================================================================

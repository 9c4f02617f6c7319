----------------------------- MODULE TmpBuffer -----------------------------
(***************************************************************************)
(* The arrays behind the tmp buffer: task_tmp_buffer, a ring with header,  *)
(* tail, len and a full flag, and skip_tti, two parallel arrays of frame   *)
(* and subframe numbers with a count.  Every operation runs under          *)
(* tmp_buf_mutex, so it is one step.                                       *)
(***************************************************************************)
EXTENDS Naturals, Sequences

CONSTANTS
    MaxTmpBuffer,   \* MAX_TMP_BUFFER
    MaxSkipTti,     \* MAX_NOF_SKIP_TTI
    SfPerFrame,     \* 10 subframes in a frame
    LastTti         \* bound: TTIs 0 .. LastTti are stored, in order

ASSUME BufferAssumption ==
    /\ MaxTmpBuffer \in Nat \ {0}
    /\ MaxSkipTti \in Nat \ {0}
    /\ SfPerFrame \in Nat \ {0}
    /\ LastTti \in Nat

VARIABLES
    ring,       \* task_tmp_buffer[rf_idx]
    skipped,    \* skip_tti[rf_idx]
    next,       \* TTI of the next subframe that finds no idle decoder
    dropped,    \* TTIs skip_tti_put refused
    taken       \* TTI the handler took last

bufferVars == <<ring, skipped, next, dropped, taken>>

Sf(tti) == [sfn |-> tti \div SfPerFrame, sf_idx |-> tti % SfPerFrame]
Tti(sf) == (sf.sfn * SfPerFrame) + sf.sf_idx

BufferInit ==
    /\ ring = [sf_buf |-> [k \in 0 .. MaxTmpBuffer - 1 |-> Sf(0)],
               header |-> 0, tail |-> 0, len |-> 0, full |-> FALSE]
    /\ skipped = [sf |-> [k \in 0 .. MaxSkipTti - 1 |-> Sf(0)], nof_tti |-> 0]
    /\ next = 0
    /\ dropped = {}
    /\ taken = 0

(* Slip: the full flag is raised one entry late.                           *)
RingPutLate(q, sf) ==
    [q EXCEPT !.sf_buf[q.header] = sf,
              !.len = @ + 1,
              !.header = (@ + 1) % MaxTmpBuffer,
              !.full = (q.len + 1 > MaxTmpBuffer)]

\* task_sf_ring_buffer_put on a ring that is not full
RingPut(q, sf) ==
    [q EXCEPT !.sf_buf[q.header] = sf,
              !.len = @ + 1,
              !.header = (@ + 1) % MaxTmpBuffer,
              !.full = @ \/ q.len + 1 = MaxTmpBuffer]

(* Slip: the full flag is never lowered.                                   *)
RingGetKeepsFull(q) ==
    [q EXCEPT !.len = @ - 1,
              !.tail = (@ + 1) % MaxTmpBuffer]

\* task_sf_ring_buffer_get
RingGet(q) ==
    [q EXCEPT !.len = @ - 1,
              !.tail = (@ + 1) % MaxTmpBuffer,
              !.full = @ /\ ~(q.len - 1 < MaxTmpBuffer)]

\* skip_tti_put on a list that is not full, and skip_tti_get on one that is
\* not empty
SkipPut(q, sf) == [q EXCEPT !.sf[q.nof_tti] = sf, !.nof_tti = @ + 1]
SkipGet(q) == [q EXCEPT !.sf[q.nof_tti - 1] = Sf(0), !.nof_tti = @ - 1]

\* get_nof_buffered_sf: steps from tail to header
GetNofBufferedSf == (ring.header + MaxTmpBuffer - ring.tail) % MaxTmpBuffer

-----------------------------------------------------------------------------
\* The scheduler found no idle decoder.
StoreSubframe ==
    /\ next <= LastTti
    /\ next' = next + 1
    /\ \/ ~ring.full /\ ring' = RingPut(ring, Sf(next)) /\ UNCHANGED <<skipped, dropped>>
       \/ /\ ring.full
          /\ skipped.nof_tti # MaxSkipTti
          /\ skipped' = SkipPut(skipped, Sf(next))
          /\ UNCHANGED <<ring, dropped>>
       \/ /\ ring.full
          /\ skipped.nof_tti = MaxSkipTti
          /\ dropped' = dropped \cup {next}
          /\ UNCHANGED <<ring, skipped>>
    /\ UNCHANGED taken

\* The handler assigned the subframe at the tail.
TakeFromRing ==
    /\ ring.len > 0
    /\ taken' = Tti(ring.sf_buf[ring.tail])
    /\ ring' = RingGet(ring)
    /\ UNCHANGED <<skipped, next, dropped>>

\* The handler assigned the newest skipped TTI as an empty subframe.
TakeFromSkip ==
    /\ skipped.nof_tti > 0
    /\ taken' = Tti(skipped.sf[skipped.nof_tti - 1])
    /\ skipped' = SkipGet(skipped)
    /\ UNCHANGED <<ring, next, dropped>>

\* The bounded input is used up.
Done == next > LastTti /\ ring.len = 0 /\ skipped.nof_tti = 0 /\ UNCHANGED bufferVars

BufferNext == StoreSubframe \/ TakeFromRing \/ TakeFromSkip \/ Done

BufferSpec == BufferInit /\ [][BufferNext]_bufferVars

-----------------------------------------------------------------------------
(* Types; the ring never counts more subframes than it has slots.          *)
BufferTypeOK ==
    /\ ring \in [sf_buf : [0 .. MaxTmpBuffer - 1 -> {Sf(t) : t \in 0 .. LastTti}],
                 header : 0 .. MaxTmpBuffer - 1, tail : 0 .. MaxTmpBuffer - 1,
                 len : 0 .. MaxTmpBuffer, full : BOOLEAN]
    /\ skipped \in [sf : [0 .. MaxSkipTti - 1 -> {Sf(t) : t \in 0 .. LastTti}],
                    nof_tti : 0 .. MaxSkipTti]
    /\ next \in 0 .. LastTti + 1 /\ taken \in 0 .. LastTti

(* header, tail, len and full describe the same ring; the occupancy the    *)
(* scheduler logs from header and tail alone is right unless it is full.   *)
RingConsistent ==
    /\ ring.header = (ring.tail + ring.len) % MaxTmpBuffer
    /\ ring.full <=> ring.len = MaxTmpBuffer
    /\ GetNofBufferedSf = IF ring.full THEN 0 ELSE ring.len

View == INSTANCE TmpStore WITH
    tmp <- [k \in 1 .. ring.len |-> Tti(ring.sf_buf[(ring.tail + k - 1) % MaxTmpBuffer])],
    skip <- [k \in 1 .. skipped.nof_tti |-> Tti(skipped.sf[k - 1])]

(* The arrays implement the bounded queue and stack of TmpStore: no slot   *)
(* that holds a waiting subframe is overwritten, subframes with IQ samples *)
(* leave in arrival order, and a TTI survives being split and rebuilt.     *)
ImplementsTmpStore == View!StoreSpec
=============================================================================

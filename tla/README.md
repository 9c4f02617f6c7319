# A TLA+ verification project for NG-Scope

NG-Scope decodes the downlink control channel of several LTE cells at once: it
receives one subframe per millisecond and cell, decodes each in a pool of
threads, and puts the results back into order for logging, for the cell status
and for remote clients.  What it adds to the srsRAN library it vendors lives in
`ngscope/src`, a program of about ten kinds of threads around shared buffers,
tokens, condition variables and polling loops, and in `lib/src/phy/ue/ngscope*.c`
the blind search for control messages.  That pipeline and that search are what this
project models; the signal processing below them is not.

Paths below are relative to `ngscope/src/dciLib` unless they say otherwise.

## 1. Inventory

### The pipeline

    radio --> task scheduler --> DCI decoders --> status tracker --> cell status --> ring buffer --> remote clients
                   |  ^              (pool)              |
                   v  |                                  +---------> DCI logger  --> ring buffer --> files
              tmp buffer handler

| component | state | operations | interacts through |
|---|---|---|---|
| Task scheduler (`task_scheduler.c`), one thread per RF device | `sfn`, `decode_pdcch`, `sync_buffer` | receive a subframe, name it (SFN, TTI), find an idle decoder, assign or buffer it | `sf_token` under `token_mutex`; `sf_buffer` under `sf_mutex`/`sf_cond`; `task_tmp_buffer`, `skip_tti` under `tmp_buf_mutex` |
| Tmp buffer handler (`handle_tmp_buffer_thread`), one per RF device | none of its own | move skipped TTIs and buffered subframes to idle decoders | the same tokens, mailboxes and containers |
| Containers (`task_sf_ring_buffer.c`, `skip_tti.c`) | ring of `MAX_TMP_BUFFER` subframes, stack of `MAX_NOF_SKIP_TTI` TTIs | put, get, full, empty | called under `tmp_buf_mutex` |
| DCI decoders (`dci_decoder.c`), several per RF device | token, mailbox | free the token, wait, decode, store the result | `dci_buffer` under `dci_ready.mutex` |
| Status tracker (`status_tracker.c`) | `dci_queue` | drain `dci_buffer`, copy to both consumers | `cell_stat_buffer`, `log_stat_buffer` with a mutex and condition each |
| Cell status (`cell_status.c`) | one DCI ring buffer per cell, UE list | drain, `dci_ring_buffer_put_dci` | socket to remote clients |
| DCI ring buffer (`dci_ring_buffer.c`) | slots with `filled`, `cell_header`, `most_recent_sf`, `nof_logged_dci` | put, time out, advance the header | called by cell status and logger |
| DCI logger (`dci_log.c`) | its own ring buffers, log files | drain, put, walk the ring, write | files |
| Thread exit (`thread_exit.c`, `ngscope_main.c`, `../main.c`) | `go_exit`, `task_scheduler_up`, `task_scheduler_closed`, `dci_decoder_up` | poll the flags, signal, join | unlocked flags |
| UE tracker (`ue_tracker.c`), one per RF device | activity, count and last TTI per RNTI, top-N array | filter, count, insert, expire | called by the decoders under `ue_tracker_mutex` |
| UE list (`ue_list.c`) | counters per RNTI | count, print | called by the status threads |
| DCI search (`lib/src/phy/ue/ngscope*.c`) | tree of candidate locations, output of the subframe | decode, match, take, prune, filter | called by each decoder; the filter under `ue_tracker_mutex` |
| PHICH (`phich_decoder.c`) | pending acknowledgements | set, reset, read | all decoders, `ack_mutex` for some accesses |
| DCI sink (`dci_sink_*.c`) | clients, ring of received DCIs | connect, reply, stream, close | UDP |
| Cell configuration (`decode_sib.cpp`) | `have_sib1`, `have_sib2`, `sib_json_record`, `cellcfg.json` | find, save | all decoders, `token_mutex[0]` for the saving only |
| ASN.1 thread (`asn_decoder.c`) | queue of payloads | push, pop, decode | nobody calls it |

### What is hard about it

* **Interleavings.** Scheduler and handler compete for decoders; a decoder frees
  its token some steps before it waits for its condition; the wait has no
  predicate loop, so a signal must never come early, nor a wake-up unasked.
* **Order.** Decoders finish in any order; the ring buffer restores it over the
  end of the array, with a timeout for subframes that never finish.
* **Limits.** A full ring, then a full skip list, then drops; three bounded
  buffers that overwrite their oldest entry; slot arithmetic at 0 and at the end.
* **Shutdown.** SIGINT at any moment; polling loops, joins and condition waits
  that depend on each other, and memory freed while other threads still run.
* **Unreliable delivery.** The DCI sink talks UDP: requests, answers, the
  configuration and DCIs may be lost, and DCIs come in between the answers.
* **Time.** A `sleep(1)` stands in for the decoders' start-up, a counter of
  subframes for a decoding timeout.

`PROJECT.json` lists the hazards one by one, at their lines, with the properties
that cover them.  For each component correctness means:

* pool: no decoder is given to two threads, no subframe is lost or reported
  twice, the backlog is worked off when the radio pauses, the scheduler never blocks;
* containers: a bounded queue and a bounded stack;
* hand-off: every consumer gets every result once and in order unless a buffer
  overflowed, and overflow costs the oldest results only;
* ring buffer: results leave in TTI order, late ones do not stop the header, and
  nothing is given up before its time;
* exit: devices and decoders close in order, nobody uses what was freed, and
  everything ends;
* SFN: a subframe is dispatched under its true TTI;
* UE tracker: the top-N array agrees with the counts, a UE on the air is kept and
  one that left is forgotten, over the wrap-around of the TTIs;
* search: no two messages on the same CCEs, none that was not decoded, and the
  target's among them;
* logger: every subframe once, in order, with its own content, in well-formed files;
* PHICH: a decoder looks for an acknowledgement in exactly the subframes that carry one;
* sink: a client that loses nothing is connected, configured and misses no DCI;
* cell configuration: once both SIBs were seen, the file shows both.

## 2. Modules

| module | models | remarks |
|---|---|---|
| `DecoderPool` | scheduler, handler and decoders of one RF device | one action per lock region |
| `SubframeDelivery` | what the pool promises | abstract, no threads |
| `TmpBuffer` | the arrays of the tmp buffer and the skip list | |
| `TmpStore` | a bounded queue and a bounded stack | abstract; the view `DecoderPool` has of the containers |
| `DciHandoff` | `dci_buffer`, `cell_stat_buffer`, `log_stat_buffer` and their writers and readers | |
| `CellConfig` | what the decoders save of SIB1 and SIB2 | |
| `DecoderResults` | a decoder's turn from the SIB search to the stored result | composes `CellConfig` and `DciHandoff` |
| `DciRing` | the operations of the ring buffer of one cell | no state; used by `DciLogger` |
| `DciLogger` | the logger thread, its rings and its files | its environment is the pools: results in any order |
| `ThreadExit` | the end of all threads after SIGINT | pool and buffers reduced to what ending depends on |
| `SfnTracking` | how a subframe gets its TTI | |
| `PhichAcks` | the pending acknowledgements of the target's uplink | extends `SfnTracking`: the list is indexed with its TTIs |
| `DciTree` | the search for DCIs in one subframe | one decoder; the signal is arbitrary |
| `DciSink` | server, sender and clients of the DCI sink, and the network | |
| `UeTracker` | the UE tracker of one RF device and the decoders' use of it | |
| `DecoderPoolProofs`, `DecoderResultsProofs`, `PhichAcksProofs`, `DciTreeProofs`, `UeTrackerProofs` | theorems about the module of that name | `DecoderResultsProofs` also about `DciHandoff` and `CellConfig`, `PhichAcksProofs` about `SfnTracking` |
| `SchedulerProofs` | theorems about `ThreadExit` and `TmpBuffer` | the scheduler's end and its containers |
| `DciOutputProofs` | theorems about `DciSink` and `DciLogger` | the two ends the collected DCIs have |
| `IndexLemmas` | what replaces induction in the proofs | lowest and highest counterexample, tables, loops, counting |
| `MC...` | the instances TLC checks | each extends its module; the bounds are in the `.cfg` files |

Definitions whose comment starts with "Slip:" are plausible errors in the code.
They are no part of a specification; put in place of the definition they vary,
they break a property, which shows that the property depends on the code.

### DecoderPool

`token`, `sf_buffer`, `tmp` and `skip` are the shared state of that name; `pc`,
`spc`, `hpc` say where each thread is, and stand for the mutexes as well:
`sf_mutex` of a decoder is held exactly while its `pc` is `released` or
`decoding`, `tmp_buf_mutex` exactly while `hpc` is not `sleep`.  `token_mutex` is
never held across a blocking call, so `find_idle_decoder` is one step.  So is
`assign_task_to_decoder`, which runs under `sf_mutex`: its guard says the mutex is
free.  Finding a decoder and assigning to it are two steps, as in the code, and
so are freeing the token and waiting for the condition.  A subframe is its arrival number; a mailbox keeps the TTI, the
`empty_sf` flag and the samples separately, because `assign_empty_task_to_decoder`
leaves the old samples where they are.  `SpuriousWakeUp` is a return of
`pthread_cond_wait` that nobody asked for, which POSIX permits.  `reported` and
`dropped` are history.

### TmpBuffer

The ring with `header`, `tail`, `len` and `full`, and the skip arrays with their
count, as the code has them; SFN and subframe index are kept apart and put
together again as in `skip_tti_get`.  The refinement mapping reads the ring from
`tail` over `len` entries and the skip arrays from the bottom.

### DciHandoff

Each buffer is `[data, header, nof]`.  A writer stores at the header and counts
up to the size; a reader copies the entries `0 .. nof - 1` *in that order*, and
resets header and count.  After an overflow the copy is therefore rotated:
the newest results are all there, in an order that the ring buffers downstream
have to repair.  The properties say exactly that.  All waits of these threads
re-check their predicate under the writer's mutex, so a wait is a guard.

### CellConfig and DecoderResults

Every decoder tests `have_sib1` or `have_sib2` when it has found a SIB of that kind,
without a lock, and saves it some time later under `token_mutex[0]`; `FindSib1` and
`SaveSib1` are therefore two steps, and two decoders may both be between them.  Which
SIB a subframe holds is an input.  Of the record only the two parts matter, the one
from SIB1 and the power from SIB2.  `DecoderResults` lets each decoder store its result
(`DecoderStore` of `DciHandoff`) when it is done with the SIBs.

### DciRing and DciLogger

`Put` is `dci_ring_buffer_put_dci` as a whole: first header, slot, count,
`most_recent_sf`, timeout, header walk.  The loops are sets (`TimedOut`: the slots
between header and newest result that are empty and late) and a maximum
(`Advance`: how far the walk gets).  `pushed` is what the calls hand on;
`head` is the header without wrap-around.  Subframe numbers are not wrapped
at 10240, a multiple of the 320 slots, so the slot of a subframe is the same.
Three more fields are history: `first` is the cell's first result, whichever subframe that
is; `early` are the slots whose flag an older one raised, behind the header; `clean` says that
the header has not walked over such a flag.

`Log` is one round of `dci_log_thread`: put everything that waits, find out whether
all cells are there, then write the slots each header passed, cell after cell (`LogMultiCell`) and
slot after slot (`LogPerCell`).  The rings and files belong
to this thread alone, so a round is one step.  A file is reduced to what its framing
can be: empty, `[]`, an array with records, or broken; `isFirstCall` is one variable per kind
of log, as the static variables are, not one per file.  `Cleared` is the call in
`log_multi_cell` as it stands: slot `i` of the *first* cell's ring for cell `i`.
`Finish` and `Lose` stand for the decoder pools: any subframe in flight may finish next, and
any of them first.  `Finish` ends with `Store`, the tracker's writing to
`log_stat_buffer`: a full one loses the entry at its header, its oldest, and is rotated from then on until
the logger empties it; `overrun` records that this happened and the lost result counts in `lost`.  The properties of
a ring speak of cells that are `Regular`: nothing was overwritten and the ring is still
`clean`.  Section 4 says what happens to the others.

### DciTree

The candidate locations of a block of `BlockCces` CCEs (eight in the code) are a heap of
`2 * BlockCces - 1` nodes (fifteen).  `Above` is the chain of parents up to the root, `Below`
its inverse, and the CCEs of a location are the leaves below it; `LocationsOfLoops` in
`MCDciTree`, which TLC evaluates, says that these are the locations the loops of
`ngscope_search_space.c` compute.
`Search` is one turn of the loop of `srsran_ngscope_search_all_space_array_yx`: put
what was decoded into the array, take a paging DCI at the first CCE, else match.
Taking a DCI (`CopyDci`) clears the nodes above and below it and marks those below as checked.
`CpMatch` looks at every parent of the block whose left child has been reached;
`Match` is `match_two_dci_vec` and `prune_node`, where several results are possible
because the correlation decides.  `CopyRnti` and the pruning end the search, `Filter` is
`filter_dci_from_tree` location by location.  `by` records who reported a DCI.

### PhichAcks

One entry per TTI modulo 100.  Every set, reset and read is a step of its own, because only
the setting is locked, and a decoder may be anywhere between them while the next
subframes are decoded.  `tti` of a task is the name the scheduler gave, `air` the TTI on
the air; `due` is history, the TTIs on the air in which the base station answers.
A decoder with an empty subframe reads the list under its *old* `dl_sf.tti`, as the code does.

### DciSink

`requests` and `queue` are the sockets, in order; `LoseToClient` and `LoseToServer` take
one packet out.  `SendDci` is called by the cell status thread and interleaves with the
server thread between its two answers and the configuration.  A connecting client counts any packet
with the preamble as an answer.  A DCI is the number of its subframe; `dci_tti` is the tti it
is sent with, which `push_dci_to_remote` reads from the slot of the cell's ring: the subframe's own, or, when
the ring gave the subframe up, what an earlier lap left there or 0 (`GivenUpTtis`).
`ring` is the client's buffer; the window of
`ca_update_header` is computed from these ttis as in the code, including the read of `dci[-1]` for
header 0, which lies on the time of the last retransmission and yields any value of
`StaleTimes`.  Lost packets to a client and lost requests are counted apart (`lostPkt`, `lostReq`), because a client
survives the loss of one of its two requests.

### ThreadExit

Every thread is reduced to the positions that matter for ending.  A decoder has
`locked` (has tested `go_exit` and holds `sf_mutex`) apart from `waiting` (in
`pthread_cond_wait`): between the two a signal is lost.  The exit loop of the
scheduler signals one decoder per step, without the mutex.  Joins are guards.
Cell status and logger have the same loop and the same exit, so they are one
process per member of `Consumers`; `NofDecoder` is a function of the device.

### SfnTracking

The base station's clock runs in `air`; `Synced` is one turn of the scheduler's loop
with `ret == 1`, `LoseSubframe` one without.  `gap` is history: a frame boundary
went by unseen since the last accepted MIB, or since the start.

### UeTracker

`q` is `ngscope_ue_tracker_t` without the uplink, downlink and enter-time
statistics, which nothing reads.  `Decode` is the region of `dci_decoder_decode`
under `ue_tracker_mutex` as a whole: filter, count, expire.  The subframes with the
decoders are the set `pending` of distances behind the newest one; they are decoded
in any order, or not at all.  One candidate location per subframe stands for
all.  A location has at most one RNTI per DCI format; three formats tell apart what
`update_ue_dci_per_loc` does: format 0, index 4, and any other.  `age` is history: how long a
UE has really been silent, which the program knows only modulo the TTIs.

## 3. What TLC checks

| run | instance | shows |
|---|---|---|
| `pool` | 2 decoders, ring 2, skip list 1, 6 subframes, fair | `TypeOK`, `TakenExclusive`, `AtMostOnce`, `Accounted`, `ImplementsDelivery`; `BacklogWorkedOff` under fairness |
| `pool_spurious` | 4 subframes, 2 spurious wake-ups, decoders that start late, fair | what survives both: `IqMatchesTti`, `SchedulerReturnsToRadio` |
| `tmp_buffer` | ring 3, skip list 2 | `RingConsistent`, `ImplementsTmpStore` |
| `handoff` | `DecoderResults`: 2 decoders, buffers of 3, 7 results, fair | `TypeOK`, `KeepsNewest`, `ConsumersGetAll`, `NoDuplicates`, `ConfigComplete`; `NewestDelivered` under fairness |
| `logger` | 2 cells, 32 slots, timeout 2, 1 lost or overwritten, 34 subframes | `InOrderButLost`, `GiveUpOnlyAfterTimeout`, `BoundedLag`, `Drained`, `LoggedInOrder`, `WellFormed` |
| `exit` | 2 devices with 2 decoders and 1, cell status | `ClosedInOrder`, `NoDecodeAfterFree`, `ConsumersOutliveProducers`, `NoCircularWait` |
| `ue_tracker` | 3 UEs, array of 2, TTIs modulo 10 | `TopConsistent`, `StaleRemoved`, `FreshKept` |
| `timing` | `PhichAcks`: 8 frames of 3 subframes, 2 decoders, list of 9, delay 2 | `TtiCorrect`, `ReadsWhatIsDue` |
| `tree` | blocks of 4 CCEs, 3 or 5 CCEs, 2 formats, 4 events | `TypeOK`, `NoOverlap`, `ReportedDecoded`, `TargetReported`, `RepeatedTaken` |
| `sink` | 1 client, 2 cells, rings of 2, 2 packets lost, 1 subframe given up, fair | `ConfigUnlessLost`, `NoGapUnlessLost`, `CaWindow`; `Connects` under fairness |
| `ring_late` | 1 cell, results may be later than the timeout | **violated:** `HeaderBehindNewest` |
| `exit_main` | 1 device, 1 decoder, fair | **violated:** `MainReturns` |

Every module states its types in `TypeOK`.  A run lists it where it says that an array
is not overrun; elsewhere the listed properties already fail on a value of the wrong type.
The `logger` run does not list `HeaderBehindNewest`: a header ahead of the newest result has passed a subframe
that was not given up in time, which `GiveUpOnlyAfterTimeout` already forbids.

### Bounds

* `pool`: two decoders let both assigning threads hold one at the same time; six
  subframes fill two decoders, a ring of two and a skip list of one, and drop
  one.  The theorems remove all of these bounds for safety.
* `tmp_buffer`: more TTIs than slots, so header and tail wrap and every put meets
  an exactly full and an exactly empty ring.
* `handoff`: seven results overflow each of the three buffers.
* `handoff`, the SIBs: two decoders are enough for both to be between test and saving, of
  the same SIB or of one each.
* `logger`: 34 subframes are more than one lap of 32 slots, starting in slot 0, where the
  first header wraps; the flag of a result that is older than the first one is met again at the end of that lap.
  A buffer of two is overwritten as soon as a third result comes before the logger.  The code has 320 slots and a timeout of 30, below an eighth of
  the buffer (40); the instance keeps that order, 2 below 4.  Two in flight in one cell, one lost
  and a lag of up to exactly the timeout give every order of finishing around it; the
  second cell decides when logging begins, so that any slot may be the one whose flag is
  cleared.  Files are replaced after any round.  Consecutive results stay less than an
  eighth of the ring apart, as they do in the code while fewer than 40 subframes are lost or
  in flight; section 4 says what happens beyond that.
* `tree`: blocks of four CCEs have three levels instead of four, and still every kind of node: a root, an inner node
  that is a left or a right child, leaves.  3 CCEs are a partial block, 5 a whole and a
  partial one.  Formats 0 and 4 are both directions; four events (candidates or locations with low
  LLR) allow a pair to be matched, one more DCI on its CCEs, and the target.
* `timing`: two 40 ms periods of four frames, so both the low bits and the wrap of
  the counter are exercised; losses span more than a frame.  24 TTIs leave a rest
  modulo the 9 slots that is larger than delay and lag together, as 10240 modulo 100
  (40) is larger than 8 and a lag below 8.  After the first subframe that was not decoded nothing
  is claimed of the acknowledgements, so no new ones are issued then (`MaxAfter`).
* `sink`: rings of two wrap within three DCIs, numbered 6 to 8 so that TTIs wrap at 8; two lost packets, at any
  place, so that one request or both, an answer, the configuration or DCIs are missing; one DCI with an old TTI, of
  an earlier lap of a server ring of four or 0; one cell up to two DCIs ahead of the other (`MaxAhead`).
  One client suffices: clients share nothing but the list, whose limit `Connects` excepts, and the safety theorems
  are for any number.
* `exit`: two devices for the order between devices, two decoders in one of them
  for the order within a device.  The logger is left out here (`HasLogger`): it
  ends as cell status does, and the number of states doubles with it.
* `ue_tracker`: three UEs compete for two places.  The thresholds 3 and 2 are below
  half of the 10 TTIs, as 5000 and 500 are below half of 10240, so the distance
  the short way round can pass a threshold and fall below it again.  A UE is seen at most
  three times, enough to become active, to tie and to overtake.  Subframes finish one
  turn late at most, and at most one in a row is not decoded.

### Fairness

Weak fairness of each thread, no more: a thread that can run is scheduled.  The
radio and the user owe nothing, so receiving a subframe and SIGINT are not fair.
The sink's server and a connecting client poll their sockets in endless loops, so
their receiving is fair; the network may still lose a packet, and the properties say so.
The mutex waits are guards, and weak fairness of a thread that waits for a mutex
is enough in `DecoderPool` because the holder gives it up and only the scheduler
and the handler compete for it.  It is not enough for a decoder's token: the handler looks for an idle
decoder from time to time, and nothing makes it look while one is idle.  `BacklogWorkedOff` therefore
promises what is buffered only for the time when the scheduler stays in `srsran_ue_sync_zerocopy`, waiting
for the radio; the finite input of the instance makes no difference to it.  The polling loops of `thread_exit.c` sleep
between their tests; they are guards on flags that never return to their old
value.

### Deadlock

TLC checks it everywhere but in `ThreadExit`; where a bounded input ends, the state in which it
may end is named by an action of its own (`Idle`, `Done`).  In `ThreadExit` the
program is meant to stop; that it stops in the right state is what the
properties are about.

## 4. What the runs say about the code

The passing runs carry the assumptions that make them pass as constants; each of
these is an assumption the code makes silently, and the violated runs lift one.

1. **A late result at a header that caught up** (`ring_late`, `dci_ring_buffer.c:248`).
   When `cell_header` equals `most_recent_sf`, the loop of
   `check_dci_decoding_timeout` starts one slot past its end and walks the whole
   ring; empty slots count as timed out and the header runs ahead of every result.
2. **Consumers that wait for ever** (`exit_main`, `status_tracker.c:176`).  The waits for
   `dci_ready`, `cell_stat_ready` and `log_stat_ready` do not test `go_exit`, and nobody
   signals them at exit.

Further observations, which other values of the same constants or a look at the
same definitions show:

* The first result decides the header (`dci_ring_buffer.c:377`): it goes to the slot before
  whichever result arrives first.  An older subframe still being decoded lands behind it and
  its flag stays up.  If the result a lap later comes in time it takes the slot over and nothing happens.  If not,
  the header walks over the old flag: it passes a subframe that is still being decoded, without
  waiting for the timeout, and its old content is handed on and logged in its place, the header may stand ahead of the newest result
  and beyond the last one.  From then on (`clean` is false) none of `InOrderButLost`,
  `GiveUpOnlyAfterTimeout`, `HeaderBehindNewest`, `LoggedInOrder` and `Drained` holds; without the
  condition TLC finds each of them violated in the instance of the `logger` run.  `BoundedLag` it finds true there also
  without: the old flag moves the header on, not back.
* `log_stat_buffer` has `MAX_DCI_BUFFER` entries (`status_tracker.c:217`).  When the logger is slower, the oldest results are
  overwritten, and the rest is read from slot 0 on and not from the oldest: results reach the ring
  in an order the pools did not produce, with jumps that `most_recent_sf` may ignore.
  `WellFormed` and the types hold all the same; the other properties of the logger are stated for
  `~overrun`.
* A subframe that was given up is sent to the sink's clients with the tti its slot held before
  (`dci_ring_buffer.c:153`, `253`).  While it is the newest or the oldest DCI a client holds of a cell, the window
  ends or starts at that TTI.
* A stream without end may starve the backlog: the scheduler looks for an idle decoder at every subframe, the
  handler in its own time, and the scheduler may win always.  Then the tmp buffer and the skip list stay full and what
  is in them is never decoded.
* A signal is lost at exit (`task_scheduler.c:682`): the scheduler signals each decoder once,
  without `sf_mutex`.  A decoder between its test of `go_exit` and its wait misses it and
  waits for ever, and so does the scheduler's join.  `DevicesClose` in `ThreadExit` states
  what the comment at `task_scheduler.c:679` promises; checked in place of
  `MainReturns` it is violated.
* The flag cleared in the wrong ring (`dci_log.c:510`) delays one subframe by the
  timeout at most and costs no record; the flags it was meant to clear stay up.
  Subframes from before the last cell was ready are never logged.
* `copy_rnti` (`ngscope_tree.c:510`) reports every candidate with the target's RNTI and does not
  clear the tree: two reported DCIs may then share a CCE, against the comment at
  `ngscope.c:92`.  `NoOverlap` excepts exactly these.
* When the target ends the scan of `match_two_dci_vec`, a match of an earlier format stays first
  in the vector and is the format taken (`ngscope_tree.c:68`).  With a target of 0 the
  empty entries count as matches.
* A full direction of the output drops the target's DCI and clears its node
  all the same; `TargetReported` excepts this.
* The acknowledgement of a decoder that is eight subframes late or more is missed, and its entry is
  found again 100 subframes later.  All RF devices share one `ack_list`, and each task scheduler
  initialises it (`task_scheduler.c:248`).
* The record and the flags of `decode_sib.cpp` are shared by all RF devices too:
  `cellcfg.json` may mix cells.  `have_sib1` is set although the file could not be opened,
  and the CRC of the message is not looked at before it is unpacked.
* A sink client asks twice and then never again, and a repeated request is not answered
  (`dci_sink_serv.c:99`); closed clients stay on the list (`dci_sink_serv.c:119`).  A
  configuration that is lost, or comes before the client stopped waiting, leaves it with
  one cell; a client that finds the list full waits for ever.  The tails of the window are compared without unwrapping, and with
  header 0 its end is computed from what lies before the array (`dci_sink_ring_buffer.c:57`).
* A subframe decoded after a newer one overwrites the newer sighting (`ue_tracker.c:182`): the UE is forgotten early,
  by as much as the decoders are apart.
* One spurious wake-up (`MaxSpurious = 1` in `MCDecoderPool.cfg`) breaks
  `TakenExclusive`: the decoder reports its old mailbox again and then frees a token
  somebody else holds.  The wait at `dci_decoder.c:546` is the only one without a loop.
* Without `SleepSuffices`, `Accounted` fails: a task assigned before the decoder
  first waits is lost, since the decoder then frees the token it was given.
* `task_scheduler.c:359` says buffered subframes have priority; the scheduler never
  looks at the tmp buffer before it takes an idle decoder for a new one.
* A gap of an eighth of the ring or more (three subframes in flight are enough with 32 slots)
  freezes `most_recent_sf` (`dci_ring_buffer.c:290`), after which subframes are given up
  that are not late.
* The IQ buffers are freed (`task_scheduler.c:694`) before the tmp buffer handler is
  joined (`task_scheduler.c:710`): in `ThreadExit`, `iqFreed` with `hpc = "assign"` is reachable.
* A decoded SFN of 0 counts as no MIB (`task_scheduler.c:590`); the counter survives it
  unless a frame boundary was missed.
* `find_top_n_ue` (`ue_tracker.c:41`) looks for counts strictly below the last one in the
  array: after a removal an active UE that ties with that one is not put back, and the
  array misses one of the most frequent UEs.  `TopConsistent` therefore does not say that the array is complete.
* `ue_last_active` of a UE that was never seen is 0, so one first seen close to TTI 0
  counts as active at once (`ue_tracker.c:176`).
* An active UE is over its threshold for 241 of the 10240 TTIs only.  If no subframe is
  decoded in that time it survives; `StaleRemoved` needs `MaxLost` to be small.
* `ngscope_ue_tracker_init` is never called; the trackers are global and start as zeros.
* `get_nof_buffered_sf` computes 0 for a full ring; it is only logged (`RingConsistent`
  states it as it is).

## 5. What is proved

Eight modules hold theorems, seven about the models and `IndexLemmas`; each theorem is for every value
of the constants that the named assumption of
its model admits (positive sizes, distinct model values).  Every inductive invariant below
was first checked by TLC on the instance of the run, as an invariant of its own.

| module | theorem | statement |
|---|---|---|
| `DecoderPoolProofs` | `TypeCorrect` | `Spec => []TypeOK` |
| | `Exclusive` | `Platform => (Spec => []TakenExclusive)` |
| | `NothingLost` | `Platform => (Spec => []Accounted)` |
| | `NothingTwice` | `Platform => (Spec => []AtMostOnce)` |
| | `Refinement` | `Platform => (Spec => ImplementsDelivery)` |
| | `SamplesMatch` | `Spec => []IqMatchesTti` |
| `DecoderResultsProofs` | `TypeCorrect` | `Spec => []TypeOK` |
| | `OverflowKeepsNewest` | `Spec => []KeepsNewest` |
| | `NothingTakenTwice` | `Spec => []NoDuplicates` |
| | `AllInOrder` | `Spec => []ConsumersGetAll` |
| | `TurnsImplementHandoff` | `TurnSpec => FairSpec` |
| | `ConfigurationComplete` | `TurnSpec => []ConfigComplete` |
| `SchedulerProofs` | `TypeCorrect` | `Spec => []TypeOK` |
| | `ClosesInOrder` | `Spec => []ClosedInOrder` |
| | `FreedAfterLastDecode` | `Spec => []NoDecodeAfterFree` |
| | `ConsumersEndLast` | `Spec => []ConsumersOutliveProducers` |
| | `NoCircle` | between the last decoder's loop and the last closed device some thread's guard is true |
| | `BufferTypeCorrect` | `BufferSpec => []BufferTypeOK` |
| | `RingStaysConsistent` | `BufferSpec => []RingConsistent` |
| | `Refinement` | `BufferSpec => ImplementsTmpStore` |
| `PhichAcksProofs` | `SfnTypeCorrect` | `Spec => []TypeOK` |
| | `TtiStaysCorrect`, `PhichTtiCorrect` | `Spec => TtiCorrect`, `PhichSpec => TtiCorrect` |
| | `ReadsRight` | `Sizes => (PhichSpec => ReadsWhatIsDue)` |
| `UeTrackerProofs` | `TopStaysConsistent` | `Spec => []TopConsistent` |
| | `FreshStayKept` | `Window < InactiveThd => (Spec => FreshKept)` |
| | `StaleStayRemoved` | `Slack => (Spec => []StaleRemoved)` |
| `DciTreeProofs` | `TreeTypes` | `Spec => []TypeOK` |
| | `NeverOverlap` | `Spec => []NoOverlap` |
| | `OnlyDecoded` | `Spec => []ReportedDecoded` |
| | `TargetNotLost` | `Spec => []TargetReported` |
| | `PairsNotLeft` | `Spec => []RepeatedTaken` |
| `DciOutputProofs` | `SinkTypeCorrect` | `SinkSpec => []SinkTypeOK` |
| | `ConfigIfNothingLost` | `SinkSpec => []ConfigUnlessLost` |
| | `NoGapIfNothingLost` | `SinkSpec => []NoGapUnlessLost` |
| | `WindowOfAllCells` | `SinkSpec => CaWindow`, if `2 * (MaxAhead + MaxLostPkt) < MaxTti` |
| | `LoggerTypeCorrect` | `Spec => []TypeOK` |
| | `LogsWellFormed` | `Spec => []WellFormed` |
| | `HandedInOrder` | `Spec => []InOrderButLost`, if `Sizes` |
| | `GivesUpLate` | `Spec => []GiveUpOnlyAfterTimeout`, if `Sizes` |
| | `HeaderKeepsUp` | `Spec => []BoundedLag`, if `Sizes` |
| | `HeaderNotAhead` | `Spec => []HeaderBehindNewest`, if `Sizes` |
| | `LogsInOrder` | `Spec => []LoggedInOrder`, if `Sizes` |
| | `HeaderArrives` | `Spec => []Drained`, if `Sizes` and `LongEnough` |

Some hypotheses are not assumptions of a model, because their negation is of interest too:

* `Platform`: no wake-up is spurious and the decoders have started before the first
  subframe.  Section 4 shows that the four theorems are false without it.
* `Sizes` of `PhichAcksProofs`: delay and greatest lag of a decoder fit into the list of pending acknowledgements, also at
  the turn of the TTIs, which the length of the list does not divide.
* `Slack`: `2 * ActiveThd + 2 * Window + MaxLost <= MaxTti`.  Twice 5000 and twice the
  lag of a pool leave about 200 of the 10240 TTIs for subframes lost in a row; the instance
  of the run has 9 of 10.
* The half round of `WindowOfAllCells`: how far cells are apart and the packets lost stay together
  below half of the TTIs.  Beyond it the short way round, by which
  `ca_update_header` unwraps, is the wrong one.  The code has 10240 TTIs; the instance of the run stands at the
  limit, 8 of 8, but sends only three DCIs per cell, whose numbers cannot be more than two apart.
* `Window < InactiveThd` of `FreshStayKept`: decoders are closer together than the shorter threshold (500 in the code).
* `Sizes` of `DciOutputProofs`: a decoder is done with a subframe before the ring gives it up
  (`MaxLag <= DecodeTimeout`), the timeout is below an eighth of the ring (30 below 40 in the code), and
  so are the subframes in flight and lost of a cell together, while what waits for the logger is at most half of the
  ring (30 of 320).  `ring_late` violates the first part, and section 4 says what happens
  beyond the eighth.  `MaxLost` bounds the losses of a whole behaviour, so the theorems claim less than
  what an account of the losses within one lap would give.  The instance of the run satisfies it
  with 2 and 2, 2 below 4, 3 below 4, 2 of 16.
* `LongEnough`: the input goes on for `MaxSkew + MaxBuffer + MaxInFlight + MaxLost + DecodeTimeout` subframes at
  least (8 in the instance, of 33).  In a shorter one the flag that
  `log_multi_cell` clears in the wrong ring may be one the header still needs, and no later result comes
  to time it out.

### The pool

None of these invariants is inductive alone.  `TakenExclusive` says
nothing about the token, so a decoder could free a token that is in use; the missing
half is `Handshake`: a decoder that was handed out is marked *and* has not passed its
condition wait, and a decoder that is not marked is not working.  From it follows
what the design relies on: an assignment gets `sf_mutex` only when the decoder is in
`pthread_cond_wait` (lemma `AssignWaits`), so its signal is never lost and a mailbox is
never overwritten.  `Started` excludes the decoders that have not reached their loop.
`Quiet` and `HandlerBusy` say that the scheduler holds a real subframe and the handler
takes only from a container that is not empty.  `Accounted` and `AtMostOnce` are the two
halves of a conservation law, that each subframe has at least one place and
`OnePlace`, that it has at most one, with the entries of each container
distinct; the lemmas `AppendRange`, `TailRange`, `FrontRange`, `AssignHolds` and
`DecoderHolds` say how each operation moves one subframe.  Their conjunction `PoolInv`
is inductive (`NextType`, `NextQuiet`, `NextStarted`, `NextHandshake`, `NextPlaces`, one step per
action), and `Refinement` follows because a report finds its subframe `Open` and a drop
finds it held by the scheduler only.  `SamplesMatch` needs none of this: the samples in a mailbox
belong to its TTI unless it is marked empty, and `sf_mutex` keeps the mailbox as it is while
its decoder decodes (`MailboxCoherent`), whatever woke the decoder up.

### The containers

`RingShape` relates the four fields: `header` is `tail` plus `len` around the ring, and `full`
holds exactly at `len = MaxTmpBuffer`.  With it the ring, read from `tail` over `len` entries,
is a sequence to which a put appends and from which a get takes the first; the mapping of a TTI
to SFN and subframe index and back is undone by `skip_tti_get`.

### The hand-off and the configuration

The two folds (storing a whole queue into a buffer, copying a buffer out) are turned into a closed
form: `After(b, q, n)` is the buffer after `n` entries of `q`, in one comprehension.  The
invariant `HandoffInv` says that a buffer is filled from slot 0 and that only a full one has wrapped (`Filled`), that
`dci_buffer` holds exactly the newest results, oldest at the header (`Newest`), and
that what a consumer took, what its buffer holds and what the tracker still has for it are different
results, none of them in `dci_buffer` (`Apart`).  `ConsumersGetAll` is a conjunct of its own.
`ConfigInv` says that the record has the power once `have_sib2` is set, and that the file is the record and has the
part of SIB1 once that was saved.  A decoder's turn is a storing of the hand-off or changes nothing of it, and
the decoders' storing is not fair in `FairSpec`, so `TurnSpec` implements it with its fairness.

### The exit

`ExitInv` adds to the types what the unlocked flags mean.  `SchedulerFlags`: `task_scheduler_up`,
`task_scheduler_closed` and the freed samples say where a scheduler is.  `DeviceOrder`: a device goes down after those
above it have closed, frees after its decoders ended and closes after its handler did.
`DecoderOrder`, `ConsumerLast` and `SawExit` say the same of decoders, consumers and `go_exit`.
`NoCircle` takes the highest device that is not closed and its highest decoder that has not
ended, and shows that one of them can go on: everyone waits for someone higher up or earlier in the same
chain.  It is `NoCircularWait` with the guards written out instead of ENABLED.

### SFN and PHICH

`SfnInv`: unless a frame boundary went by unseen since the last accepted MIB, the counter
is the frame on the air.  `ListInv` holds while every subframe has been decoded: every enabled entry is for a
TTI that is due or being decoded (`Entries`), and by `Sizes` no two of those share a slot; an acknowledgement that is due
has not been read yet (`DueUnread`) and is in the list, about to be set, or overridden by a new
grant (`DueNoted`); `OwnEntry` says what each step of a decoder knows of its own slot,
although reset and read are not locked.

### The UE tracker

`TopOk` is the invariant of the top-N array through insertion, bubbling, removal and
the refill of `find_top_n_ue`; the loops over RNTIs and positions are recursive functions
or folds, for which a lemma each says what one call preserves.  `AgeKept` relates the last TTI the
program remembers to the true age of a UE, modulo the TTIs and up to the spread of the decoders (`Window`).
`LagKept` bounds that age: a UE that is still there has not been silent for longer than `Reach`,
its threshold plus what is pending or lost, and by `Slack` this is before the short way round
shrinks again.

### The search

`TreeInv` says of tree and output (`Good`) that what stands in the tree was decoded at that place inside the control
region, that what was reported was decoded, that reports other than those of `copy_rnti` lie apart, that the tree is empty *around* each
of them (`Around`), and that there is room.  `Around` is what makes `NoOverlap`
inductive: a new report comes from a place that is not empty, hence is not around an old one.  That
two locations share a CCE exactly if one is above the other is `OverlapIs`, from the chain of
parents.  While the search runs, nothing ahead of `loc_idx` has been decoded, what is around a report is behind `loc_idx` or
marked as checked (so a later location cannot fill it again), every decoded candidate of the
target still stands or is covered by a report (`TargetKept`), and no pair of a parent and its
left child stands behind `loc_idx` (`PairsTaken`).  After `copy_rnti` every candidate of the target is
covered; that it takes each of them unless a direction is full is a counting argument (`TakenInOrder`).

### The sink

`SinkInv` has three parts.  `SinkBase` is the handshake: where the server is in its answers, what a client that is
off, connecting or closed cannot have yet.  `ConfigOk` counts answers: while the server
serves a connecting client, the packets it counted, those on the way and those still to be sent are two
at least and no configuration is among them (`Served`); afterwards the configuration is behind as many packets as the
client needs to stop waiting (`Answered`).  A DCI that comes in between counts as an answer
and only makes this easier, so no order between sender and server is assumed.  `LinkOk` looks at the newest DCI a
client holds of a cell followed by those in its queue (`Ahead`): they are the last ones
that were sent, in order, with no more missing than packets were lost (`Kept`) and none missing if this client
lost nothing (`Exact`, `Whole`);
`Without` says how a lost packet moves the others.  `Near` says that
the newest DCIs of two cells are apart by no more than the sender's lead and the losses, the one fact about
several cells at once that `WindowOfAllCells` needs: with the half round it makes unwrapping against any
of them the same as comparing the numbers that were never wrapped.

### The logger

`LoggerTypeCorrect` and `LogsWellFormed` follow from `Types`, which holds for any sizes: the flag of a log function is
up only while all its files are empty, and after any number of calls again (`LogPerCell` and
`LogMultiCell` stay in the set `Logs`).

The rest needs `LoggerInv`: the types and, until a result is overwritten, `KeptUp`, which says of each ring that is
`clean` how it stands.  `RingAt(r, R, L, N, p)` says of a ring into which the results `R` were put, `N` the newest,
that `cell_header` and `most_recent_sf` are the slots of `head` and `N`, that the flags which are up are those of results the
header did not pass (`Marked`), that the results of the last lap are in their slots (`Contents`), that what the header passed will
not come any more (`Passed`), and that the header waits at an empty slot, at most the timeout behind (`Lag`).  With
`Gaps` (fewer subframes are missing than the pool has in work, none older than its lag) and
`Sizes`, the subframes between header and newest result are fewer than an eighth of the ring, so they have different slots
(`SameSlot`), a new result is inside the window that moves `most_recent_sf`, and the loop of
`check_dci_decoding_timeout` gives up lost subframes only.  One `Put` preserves this for the set of results with one more;
The first result need not be the oldest, so the header starts at `first`, with flags up behind it
(`Earlies`: such results are older by less than the lag of a decoder, and their slots are known as early for a lap); `Marked` excepts
these flags.  An older result may also come when the header has caught up with the newest one; the
loop of `check_dci_decoding_timeout`, which then goes round the whole ring, would carry the header over an early flag, and the ring
would no longer be clean (`NotCaughtUp`).
`BufOk` says that the queued results can be put in their order (each prefix of the queue leaves
a set that satisfies `Gaps`), so it holds after the loop of a round (`RingsOk`).  `Logging` ties the
logger's header to the ring's: it copies after all puts of a round, and as no more than half a ring was put
since the header passed, no slot it copies has been written again.

A flag cleared by `Cleared` is a result the header may then pass as timed out.  It costs no record, since its content is
there (`Passed` speaks of results, not of flags), but it may hold the header back.  `Drained` therefore
needs more than `LoggerInv`: `DrainInv` adds that the clearing happens early (`Awaits`, `Skewed`, `Working`: it is the round in which
the last cell delivers its first result) and that the results of the last subframes, within the timeout of the end, keep
their flags up until the header passes them (`LateOk`).

### Without induction

The provers cannot use induction schemata.  `IndexLemmas` states what these proofs need instead, about
sets of numbers: a set that is not empty has a lowest and, if bounded, a highest member, from which
a least counterexample is refuted.  A recursive function is used through its defining equation, which
needs that a function with that equation exists; `TableExists` and `RecursionExists` show this
when each entry depends on an earlier one, as the union of the tables up to `n`.  `LoopListed` says the same of a loop that runs
through a sequence, as `Filled`, `LogPerCell` and `LogMultiCell` do: the list of its states exists.

### Only model-checked

* All liveness: `BacklogWorkedOff`, `SchedulerReturnsToRadio`, `NewestDelivered`, `Connects`; and
  `NoCircularWait` in the form that speaks of ENABLED.  Both are out of the prover's reach.
* That `LocationsOfLoops` holds for other sizes of a block than that of the run.

## 6. Not modelled

* srsRAN (`lib` without `ngscope*.c`, `srsue`, `srsenb`, `srsepc`): vendored, and by far the largest
  part of the repository.  `srsran_ue_sync_zerocopy`, the MIB decoder and what a candidate
  location decodes to are inputs of the models.
* PRB counts, throughput, timestamps, plots, the wording of log records: data the
  properties do not tell apart.
* The search for a single UE (`decode_single_ue`), which scans all locations for one RNTI
  without a tree, and the TDD timing tables of PHICH.
* Configuration, arguments, radio set-up: run once, no state afterwards.
* The old remote protocol (`sync_dci_remote.c`, `socket.c`): superseded by the DCI sink.
* The UE list: counters that are printed at exit.
* The ASN.1 thread (`asn_decoder.c`): nothing pushes to its queue in this version.

## 7. Plan

Every safety property of a run is stated by a theorem, `NoCircularWait` without its ENABLED.  What the theorems could still gain is a weaker `Sizes` for
the logger: losses counted within a lap instead of over the whole behaviour.

Models: a composition of pool and hand-off in place of the environment of `DciLogger`, to
find out whether the pool can produce the order of the first observation above.

----------------------------- MODULE UeTracker -----------------------------
(***************************************************************************)
(* The UE tracker of one RF device: which RNTIs are in use in the cell, how*)
(* often each was seen, and an array of the most frequent ones.  Every     *)
(* decoder thread filters the candidates of its subframe against the       *)
(* tracker, counts them and expires old UEs, in one region under           *)
(* ue_tracker_mutex; the regions of different subframes come in the order  *)
(* in which the decoders finish.                                           *)
(*                                                                         *)
(* One candidate location per subframe stands for all: a location holds at *)
(* most one RNTI for each DCI format, and 0 is no RNTI.                    *)
(***************************************************************************)
EXTENDS Integers, FiniteSets, FiniteSetsExt

CONSTANTS
    MaxRnti,        \* RNTIs are 1 .. MaxRnti
    TopN,           \* TOPN: length of the array of most frequent UEs
    MaxTti,         \* MAX_TTI: TTIs wrap around here
    ActiveTti,      \* ACTIVE_TTI_T
    ActiveCnt,      \* ACTIVE_UE_CNT_THD
    ActiveThd,      \* ACTIVE_UE_THD_T: subframes after which an active UE goes
    InactiveThd,    \* INACTIVE_UE_THD_T: the same for one that is not active
    MaxCnt,         \* bound: sightings of one UE
    Window,         \* bound: how many subframes later than its turn one is decoded
    MaxLost         \* bound: subframes in a row that are not decoded

ASSUME TrackerAssumption ==
    /\ MaxRnti \in Nat \ {0}
    /\ TopN \in Nat /\ TopN >= 2
    /\ MaxTti \in Nat \ {0} /\ MaxTti % 2 = 0
    /\ ActiveTti \in Nat /\ ActiveCnt \in Nat
    /\ ActiveThd \in 1 .. MaxTti \div 2 /\ InactiveThd \in 1 .. ActiveThd
    /\ MaxCnt \in Nat \ {0}
    /\ Window \in 0 .. MaxTti - 1 /\ MaxLost \in Nat

Rntis == 1 .. MaxRnti
Formats == 0 .. 2         \* uplink format 0, another one, and format index 4

VARIABLES
    q,          \* ue_tracker[rf_idx]
    newest,     \* TTI of the newest subframe with the decoders
    pending,    \* how far behind newest the subframes are that are in work
    lost,       \* subframes in a row that were not decoded
    age         \* history: subframes since each UE in q was last on the air

vars == <<q, newest, pending, lost, age>>

NoUe == [rnti |-> 0, freq |-> 0]

Init ==
    /\ q = [active |-> [r \in Rntis |-> FALSE],
            cnt    |-> [r \in Rntis |-> 0],
            last   |-> [r \in Rntis |-> 0],
            top    |-> [i \in 1 .. TopN |-> NoUe]]
    /\ newest \in 0 .. MaxTti - 1
    /\ pending = {} /\ lost = 0
    /\ age = [r \in Rntis |-> 0]

-----------------------------------------------------------------------------
(* ngscope_util.c and ue_tracker.c                                         *)

(* Slip: the TTIs are not unwrapped.                                       *)
TtiDifferencePlain(a, b) == IF a > b THEN a - b ELSE b - a

\* The distance of two TTIs the shorter way round.
TtiDifference(a, b) ==
    LET d == IF a > b THEN a - b ELSE b - a
    IN  IF d > MaxTti - d THEN MaxTti - d ELSE d

\* Shifting the two arrays apart and writing the open position; the last
\* entry falls off.
InsertTop(top, i, e) ==
    [j \in 1 .. TopN |-> IF j < i THEN top[j] ELSE IF j = i THEN e ELSE top[j - 1]]

\* Shifting left over position i; the last position is cleared.
RemoveTop(top, i) ==
    [j \in 1 .. TopN |-> IF j < i THEN top[j] ELSE IF j < TopN THEN top[j + 1] ELSE NoUe]

InTop(top, r) == {i \in 1 .. TopN : top[i].rnti = r}

\* The active UE seen most often among those seen less than the one at
\* position n; the smallest RNTI of several, 0 if there is none.
FindTopN(s, n) ==
    LET below == {r \in Rntis : s.active[r] /\ s.cnt[r] > 0 /\ s.cnt[r] < s.top[n].freq}
    IN  IF below = {} THEN 0
        ELSE Min({r \in below : \A o \in below : s.cnt[o] <= s.cnt[r]})

(* Slip: the position that opens at the end is not cleared.                *)
RemoveUeStale(s, r) ==
    LET cleared == [s EXCEPT !.cnt[r] = 0, !.last[r] = 0, !.active[r] = FALSE]
    IN  IF InTop(s.top, r) = {} THEN cleared
        ELSE [cleared EXCEPT !.top = [RemoveTop(@, Min(InTop(s.top, r))) EXCEPT ![TopN] = s.top[TopN]]]

RemoveUe(s, r) ==
    LET cleared == [s EXCEPT !.cnt[r] = 0, !.last[r] = 0, !.active[r] = FALSE]
        shifted == [cleared EXCEPT !.top = RemoveTop(@, Min(InTop(s.top, r)))]
        index   == FindTopN(shifted, TopN - 1)
    IN  IF InTop(s.top, r) = {} THEN cleared
        ELSE IF index = 0 THEN shifted
        ELSE [shifted EXCEPT !.top[TopN] = [rnti |-> index, freq |-> s.cnt[index]]]

\* update_ue_tracker_topN: a UE in the array changes places with the first
\* one it has overtaken; an active one that is not is inserted before the
\* first it exceeds.
UpdateTop(s, r) ==
    LET e     == [rnti |-> r, freq |-> s.cnt[r]]
        idx   == Min(InTop(s.top, r))
        low   == {i \in 1 .. TopN : s.top[i].freq < s.cnt[r]}
        above == {i \in low : i < idx}
    IN  IF InTop(s.top, r) # {}
        THEN IF above = {} THEN [s EXCEPT !.top[idx] = e]
             ELSE [s EXCEPT !.top[idx] = s.top[Min(above)], !.top[Min(above)] = e]
        ELSE IF ~s.active[r] \/ low = {} THEN s
        ELSE [s EXCEPT !.top = InsertTop(@, Min(low), e)]

\* ngscope_ue_tracker_enqueue_ue_rnti
EnqueueUe(s, tti, r) ==
    LET cnt == s.cnt[r] + 1
        now == s.active[r] \/ TtiDifference(s.last[r], tti) < ActiveTti \/ cnt > ActiveCnt
    IN  UpdateTop([s EXCEPT !.cnt[r] = cnt, !.last[r] = tti, !.active[r] = now], r)

Expired(s, tti, r) ==
    /\ s.cnt[r] > 0
    /\ TtiDifference(s.last[r], tti) >= (IF s.active[r] THEN ActiveThd ELSE InactiveThd)

Kick(s, tti, r) == IF Expired(s, tti, r) THEN RemoveUe(s, r) ELSE s

(* Slip: the loop ends one RNTI early.                                     *)
KickInactiveShort(s, tti) ==
    LET kicked[r \in 0 .. MaxRnti] == IF r = 0 THEN s ELSE Kick(kicked[r - 1], tti, r)
    IN  kicked[MaxRnti - 1]

\* kick_inactive_ue goes through the RNTIs in ascending order.
KickInactive(s, tti) ==
    LET kicked[r \in 0 .. MaxRnti] == IF r = 0 THEN s ELSE Kick(kicked[r - 1], tti, r)
    IN  kicked[MaxRnti]

-----------------------------------------------------------------------------
(* dci_decoder.c                                                           *)

\* filter_dci_from_tree: the formats of a location whose RNTI is in the
\* array or, failing that, active; the first one is pushed to dci_per_sub.
Accepted(s, loc) ==
    LET top == {f \in Formats : loc[f] # 0 /\ InTop(s.top, loc[f]) # {}}
        act == {f \in Formats : loc[f] # 0 /\ s.active[loc[f]]}
    IN  IF top # {} THEN {Min(top)} ELSE IF act # {} THEN {Min(act)} ELSE {}

\* What update_ue_dci_per_tti counts: the accepted DCI, whose location was
\* cleared; or else the only candidate, or those of two of the formats.
Counted(s, loc) ==
    LET found == {f \in Formats : loc[f] # 0}
    IN  IF Accepted(s, loc) # {} THEN Accepted(s, loc)
        ELSE IF Cardinality(found) = 1 THEN found
        ELSE found \cap {0, 2}

TtiOf(o) == (newest + MaxTti - o) % MaxTti

\* Those formats are counted in ascending order.
Count(s, tti, loc) ==
    LET Enqueued(t, f) == IF f \in Counted(s, loc) THEN EnqueueUe(t, tti, loc[f]) ELSE t
    IN  Enqueued(Enqueued(Enqueued(s, 0), 1), 2)

\* The locked region of a decoder that works on the subframe o behind newest.
Tracked(s, o, loc) == KickInactive(Count(s, TtiOf(o), loc), TtiOf(o))

Decode(o, loc) ==
    /\ o \in pending
    /\ \A f \in Formats : loc[f] # 0 => q.cnt[loc[f]] + 1 < MaxCnt
    /\ q' = Tracked(q, o, loc)
    /\ pending' = pending \ {o}
    /\ lost' = 0
    /\ LET seen == {loc[f] : f \in Counted(q, loc)}
       IN  age' = [r \in Rntis |-> IF q'.cnt[r] = 0 THEN 0
                                   ELSE IF r \in seen /\ (q.cnt[r] = 0 \/ o < age[r]) THEN o
                                   ELSE age[r]]
    /\ UNCHANGED newest

\* An empty subframe, or one that was dropped.
NotDecoded(o) ==
    /\ o \in pending
    /\ lost < MaxLost
    /\ lost' = lost + 1
    /\ pending' = pending \ {o}
    /\ UNCHANGED <<q, newest, age>>

\* The next subframe reaches the decoders; none is left behind further than
\* Window.
Receive ==
    /\ Window \notin pending
    /\ newest' = (newest + 1) % MaxTti
    /\ pending' = {o + 1 : o \in pending} \cup {0}
    /\ age' = [r \in Rntis |-> IF q.cnt[r] = 0 THEN 0 ELSE age[r] + 1]
    /\ UNCHANGED <<q, lost>>

Locations == [Formats -> {0} \cup Rntis]

Next ==
    \/ Receive
    \/ \E o \in pending : NotDecoded(o) \/ \E loc \in Locations : Decode(o, loc)

Spec == Init /\ [][Next]_vars

-----------------------------------------------------------------------------
(* Properties.                                                             *)

Tracking(r) == q.cnt[r] > 0

(* Types; ages stay below a full turn of the TTIs, so none is ambiguous.   *)
TypeOK ==
    /\ q \in [active : [Rntis -> BOOLEAN], cnt : [Rntis -> 0 .. MaxCnt],
              last : [Rntis -> 0 .. MaxTti - 1],
              top : [1 .. TopN -> [rnti : {0} \cup Rntis, freq : 0 .. MaxCnt]]]
    /\ newest \in 0 .. MaxTti - 1
    /\ pending \subseteq 0 .. Window
    /\ lost \in 0 .. MaxLost
    /\ age \in [Rntis -> 0 .. MaxTti - 1]

(* "NOTE: TOP-N array ue freq is always sorted" (ue_tracker.c:83): through *)
(* any sequence of sightings and removals the array is sorted, has its     *)
(* empty entries at the end, no UE twice, and for each UE in it, which is  *)
(* active, the current count.                                              *)
TopConsistent ==
    /\ \A i \in 1 .. TopN - 1 : q.top[i].freq >= q.top[i + 1].freq
    /\ \A i \in 1 .. TopN : \/ q.top[i] = NoUe
                            \/ /\ q.top[i].rnti \in Rntis
                               /\ q.top[i].freq > 0
                               /\ q.active[q.top[i].rnti]
                               /\ q.top[i].freq = q.cnt[q.top[i].rnti]
    /\ \A i, j \in 1 .. TopN : (q.top[i].rnti = q.top[j].rnti /\ i # j) => q.top[i] = NoUe

(* A UE that left the cell does not outlive the wrap-around of the TTIs:   *)
(* tti_difference measures the shorter way round and falls again after half*)
(* a turn, so kick_inactive_ue has to meet the UE within the MaxTti minus  *)
(* twice the threshold subframes (240 for an active UE) that it is over.   *)
StaleRemoved ==
    \A r \in Rntis :
        Tracking(r) => age[r] <= MaxTti - (IF q.active[r] THEN ActiveThd ELSE InactiveThd)

(* When the sighting recorded last is the newest one, kick_inactive_ue     *)
(* forgets the UE only after its full threshold without a sighting, in     *)
(* whatever order the subframes after it are decoded and across the wrap of*)
(* the TTIs. When an older subframe was decoded after a newer one, its TTI *)
(* overwrites the newer in ue_last_active and the UE may go early: by no   *)
(* more than the decoders are apart.                                       *)
FreshKept ==
    [][\A r \in Rntis : (Tracking(r) /\ q'.cnt[r] = 0) =>
            age[r] + (IF q.last[r] = TtiOf(age[r]) THEN 0 ELSE Window)
                >= (IF q.active[r] THEN ActiveThd ELSE InactiveThd)]_vars
=============================================================================

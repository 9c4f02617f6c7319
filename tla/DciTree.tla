------------------------------ MODULE DciTree ------------------------------
(***************************************************************************)
(* The blind search for DCIs in one subframe.  The CCEs of the control     *)
(* region are cut into blocks; the candidate locations of a block form a   *)
(* binary tree in heap order, from the root over all CCEs of the block     *)
(* down to one leaf per CCE.  Locations are decoded in index order.  A DCI *)
(* is taken when an RNTI appears in a node and in its left child, when it  *)
(* is the target UE's, or when it is a paging RNTI at the first CCE.  What *)
(* is left goes to the UE tracker's filter.                                *)
(*                                                                         *)
(* What a decoder makes of the signal at a location is arbitrary: for each *)
(* DCI format an RNTI or none.                                             *)
(***************************************************************************)
EXTENDS Integers, FiniteSets, FiniteSetsExt

CONSTANTS
    BlockCces,    \* CCEs of a block: 8
    CceCounts,    \* numbers of CCEs a control region may have
    Formats,      \* DCI format indices, 0 for the uplink
    None,         \* rnti == 0
    Target,       \* targetRNTI, not 0
    Paging,       \* an RNTI in 0xFFF4 .. 0xFFFF
    Others,       \* RNTIs of other UEs
    MaxDci,       \* MAX_DCI_PER_SUB
    MaxEvents     \* bound: candidates decoded plus locations skipped for low LLR

ASSUME TreeAssumption ==
    /\ BlockCces \in Nat \ {0} /\ \E l \in 0 .. BlockCces : BlockCces = 2 ^ l
    /\ CceCounts \subseteq Nat \ {0} /\ IsFiniteSet(CceCounts)
    /\ Formats \subseteq 0 .. 4 /\ 0 \in Formats
    /\ None \notin {Target, Paging} \cup Others
    /\ Target \notin {Paging} \cup Others /\ Paging \notin Others
    /\ MaxDci \in Nat \ {0} /\ MaxEvents \in Nat

Rntis == {Target, Paging} \cup Others
NofParents == BlockCces - 1             \* 7
BlockLocs == NofParents + BlockCces     \* 15

VARIABLES
    nof_cce,      \* CCEs of this subframe
    phase,        \* "search", "filter", then "done"
    loc_idx,      \* the next location
    skipped,      \* locations whose LLR is too small
    tree,         \* dci_array, the checked locations and the output
    known,        \* the tracker's most frequent UEs and its other active ones
    decoded       \* history: every candidate put into the array

vars == <<nof_cce, phase, loc_idx, skipped, tree, known, decoded>>

-----------------------------------------------------------------------------
(* ngscope_search_space.c: the locations                                   *)

NofBlocks(n) == (n + BlockCces - 1) \div BlockCces
NofLocations(n) == NofBlocks(n) * BlockLocs
Locs == 0 .. NofLocations(nof_cce) - 1

Block(loc) == loc \div BlockLocs
InTree(loc) == loc % BlockLocs
Indices == 0 .. BlockLocs - 1

\* An index in the tree and everything above it, and below it.
Above[i \in Indices] == IF i = 0 THEN {0} ELSE {i} \cup Above[(i - 1) \div 2]
Below == [i \in Indices |-> {j \in Indices : i \in Above[j]}]

\* A leaf is one CCE; every other location has the CCEs of the leaves below
\* it: 8, 4 or 2, from ncce on.
LeafCces == [i \in Indices |-> {j \in 0 .. BlockCces - 1 : NofParents + j \in Below[i]}]
Cces(loc) == {BlockCces * Block(loc) + j : j \in LeafCces[InTree(loc)]}
Ncce(loc) == Min(Cces(loc))

(* Slip: the leaves beyond the last CCE of a partial block stay valid.     *)
InvalidRootOnly(n) == {loc \in 0 .. NofLocations(n) - 1 : InTree(loc) = 0 /\ BlockCces * (Block(loc) + 1) > n}

\* The locations of a partial block that do not fit: its root, the leaves
\* beyond the last CCE, and every node with such a child.
Invalid(n) ==
    {loc \in 0 .. NofLocations(n) - 1 : \E cce \in Cces(loc) : cce >= n}

-----------------------------------------------------------------------------
(* ngscope_tree.c                                                          *)

\* The nodes check_node marks.
At(loc, indices) == {Block(loc) * BlockLocs + i : i \in indices}
Subtree(loc) == At(loc, Below[InTree(loc)])

(* Slip: only the children are cleared.                                    *)
ClearedBelow(loc) == Subtree(loc)

\* The nodes clear_dciArray_nodes empties: children and parents.
Cleared(loc) == Subtree(loc) \cup At(loc, Above[InTree(loc)])

Empty == [f \in Formats |-> None]
NofDci(out, ul) == Cardinality({d \in out : (d.format = 0) <=> ul})

(* Slip: the room is not looked at.                                        *)
PushAlways(out, f, loc, rnti, by) ==
    out \cup {[rnti |-> rnti, format |-> f, loc |-> loc, by |-> by]}

\* One more DCI in dci_per_sub, if its direction has room.
Push(out, f, loc, rnti, by) ==
    IF NofDci(out, f = 0) < MaxDci
    THEN out \cup {[rnti |-> rnti, format |-> f, loc |-> loc, by |-> by]}
    ELSE out

\* copy_dci_to_output
CopyDci(t, f, loc) ==
    [arr     |-> [m \in DOMAIN t.arr |-> IF m \in Cleared(loc) THEN Empty ELSE t.arr[m]],
     checked |-> t.checked \cup Subtree(loc),
     out     |-> Push(t.out, f, loc, t.arr[loc][f], "search")]

\* Formats in which the target's RNTI is in one of two nodes; in which both
\* hold the same RNTI.
WithTarget(arr, root, child) == {f \in Formats : Target \in {arr[root][f], arr[child][f]}}
Matching(arr, root, child) ==
    {f \in Formats : arr[root][f] # None /\ arr[root][f] = arr[child][f]}

\* match_two_dci_vec and tree_prune_node: the <<format, node>> that may be
\* taken for a root and its left child.  The target ends the scan of the
\* formats; a match found before it stays first in the vector.  Among several
\* matches formats 0 and 4 come first, then the correlation decides.
Match(arr, root, child) ==
    LET target  == WithTarget(arr, root, child)
        matched == Matching(arr, root, child)
        first   == Min(target)
        best    == IF matched \cap {0, 4} # {} THEN matched \cap {0, 4} ELSE matched
    IN  IF target # {}
        THEN {<<Min({f \in matched : f < first} \cup {first}),
                IF arr[root][first] = Target THEN root ELSE child>>}
        ELSE {<<f, root>> : f \in best}

Left(loc, i) == Block(loc) * BlockLocs + 2 * i + 1

(* Slip: the location just decoded is not yet compared.                    *)
CpMatchLate(arr, loc) ==
    LET base  == Block(loc) * BlockLocs
        roots == {i \in 0 .. NofParents - 1 :
                    Left(loc, i) < loc /\ Match(arr, base + i, Left(loc, i)) # {}}
    IN  IF roots = {} THEN {} ELSE Match(arr, base + Min(roots), Left(loc, Min(roots)))

\* CP_match: the first parent of the block whose left child was reached and
\* that matches it.
CpMatch(arr, loc) ==
    LET base  == Block(loc) * BlockLocs
        roots == {i \in 0 .. NofParents - 1 :
                    Left(loc, i) <= loc /\ Match(arr, base + i, Left(loc, i)) # {}}
    IN  IF roots = {} THEN {} ELSE Match(arr, base + Min(roots), Left(loc, Min(roots)))

-----------------------------------------------------------------------------
(* ngscope.c: srsran_ngscope_search_all_space_array_yx                     *)

Searching == phase = "search" /\ loc_idx \in Locs

\* The loop passes over the checked locations.
NextLoc(checked, from) ==
    Min({loc \in Locs : loc >= from /\ loc \notin checked} \cup {NofLocations(nof_cce)})

Init ==
    /\ nof_cce \in CceCounts
    /\ phase = "search" /\ skipped = {} /\ decoded = {}
    /\ known = [top |-> {}, active |-> {}]
    /\ tree = [arr |-> [loc \in Locs |-> Empty], checked |-> Invalid(nof_cce), out |-> {}]
    /\ loc_idx = NextLoc(tree.checked, 0)

Events == Cardinality(decoded) + Cardinality(skipped)

SkipLowLlr ==
    /\ Searching
    /\ Events < MaxEvents
    /\ skipped' = skipped \cup {loc_idx}
    /\ loc_idx' = NextLoc(tree.checked, loc_idx + 1)
    /\ UNCHANGED <<nof_cce, phase, tree, known, decoded>>

Put(found) == [tree EXCEPT !.arr[loc_idx] = found]
PagingFormats(found) == {f \in Formats : found[f] = Paging}

\* A paging RNTI at the first CCE is taken at once.
TakePaging(found) ==
    /\ Ncce(loc_idx) = 0 /\ PagingFormats(found) # {}
    /\ tree' = CopyDci(Put(found), Min(PagingFormats(found)), loc_idx)

\* Child-parent matching; the location counts as checked afterwards.
MatchTree(found) ==
    /\ ~(Ncce(loc_idx) = 0 /\ PagingFormats(found) # {})
    /\ LET t       == Put(found)
           taken   == CpMatch(t.arr, loc_idx)
           results == IF taken = {} THEN {t} ELSE {CopyDci(t, m[1], m[2]) : m \in taken}
       IN  \E r \in results : tree' = [r EXCEPT !.checked = @ \cup {loc_idx}]

Search(found) ==
    /\ Searching
    /\ TakePaging(found) \/ MatchTree(found)
    /\ decoded' = decoded \cup {<<loc_idx, f, found[f]>> : f \in {g \in Formats : found[g] # None}}
    /\ loc_idx' = NextLoc(tree'.checked, loc_idx + 1)
    /\ UNCHANGED <<nof_cce, phase, skipped, known>>

\* The signals a subframe may hold: formats 0 and 1A (index 2) are readings of
\* one payload; within the bound on candidates; a paging RNTI only where it is
\* looked for.
Found ==
    {found \in [Formats -> Rntis \cup {None}] :
        /\ Events + Cardinality({f \in Formats : found[f] # None}) <= MaxEvents
        /\ {0, 2} \subseteq Formats => None \in {found[0], found[2]}
        /\ Ncce(loc_idx) # 0 => PagingFormats(found) = {}}

Candidates(arr) == {c \in (DOMAIN arr) \X Formats : arr[c[1]][c[2]] # None}
Without(arr, gone) ==
    [loc \in DOMAIN arr |-> [f \in Formats |-> IF <<loc, f>> \in gone THEN None ELSE arr[loc][f]]]

(* Slip: the last look for the target UE is left out.                      *)
CopyRntiNot(t) == t

\* copy_rnti: what is left of the target UE, in location and format order.
CopyRnti(t) ==
    LET mine   == {c \in Candidates(t.arr) : t.arr[c[1]][c[2]] = Target}
        before(c) == {d \in mine : /\ (d[2] = 0) <=> (c[2] = 0)
                                   /\ d[1] < c[1] \/ (d[1] = c[1] /\ d[2] < c[2])}
        room(c) == MaxDci - NofDci(t.out, c[2] = 0)
        taken  == {c \in mine : Cardinality(before(c)) < room(c)}
    IN  [arr     |-> Without(t.arr, mine),
         checked |-> t.checked,
         out     |-> t.out \cup {[rnti |-> Target, format |-> c[2], loc |-> c[1], by |-> "copy"] : c \in taken}]

\* The end of the search: copy_rnti, then dci_prune drops the candidates with
\* a low correlation or probability, or outside their UE's search space.  The
\* decoder then takes ue_tracker_mutex and finds some UEs known.
EndSearch(top, active) ==
    /\ phase = "search" /\ loc_idx \notin Locs
    /\ LET t == CopyRnti(tree)
       IN  \E pruned \in SUBSET Candidates(t.arr) :
               tree' = [t EXCEPT !.arr = Without(@, pruned)]
    /\ phase' = "filter" /\ loc_idx' = 0
    /\ known' = [top |-> top, active |-> active]
    /\ UNCHANGED <<nof_cce, skipped, decoded>>

-----------------------------------------------------------------------------
(* dci_decoder.c: filter_dci_from_tree, under ue_tracker_mutex             *)

\* The first format of a location that holds one of these UEs is reported and
\* the tree around it cleared.
TakeKnown(t, loc, ues) ==
    LET fs == {f \in Formats : t.arr[loc][f] \in ues}
    IN  IF fs = {} THEN t
        ELSE [arr     |-> [m \in DOMAIN t.arr |-> IF m \in Cleared(loc) THEN Empty ELSE t.arr[m]],
              checked |-> t.checked,
              out     |-> Push(t.out, Min(fs), loc, t.arr[loc][Min(fs)], "filter")]

\* prune_based_on_topN, then prune_based_on_activeUE
FilterLoc(t, loc) == TakeKnown(TakeKnown(t, loc, known.top), loc, known.active)

\* The loop over the locations; the empty ones change nothing.
Filter ==
    /\ phase = "filter" /\ loc_idx \in Locs
    /\ tree' = FilterLoc(tree, loc_idx)
    /\ loc_idx' = Min({c[1] : c \in {d \in Candidates(tree'.arr) : d[1] > loc_idx}}
                        \cup {NofLocations(nof_cce)})
    /\ UNCHANGED <<nof_cce, phase, skipped, known, decoded>>

EndFilter ==
    /\ phase = "filter" /\ loc_idx \notin Locs
    /\ phase' = "done"
    /\ UNCHANGED <<nof_cce, loc_idx, skipped, tree, known, decoded>>

\* The subframe's result is with the status tracker.
Done == phase = "done" /\ UNCHANGED vars

Next ==
    \/ SkipLowLlr
    \/ Searching /\ \E found \in Found : Search(found)
    \/ \E top \in SUBSET Others : \E active \in SUBSET (Others \ top) : EndSearch(top, active)
    \/ Filter \/ EndFilter
    \/ Done

Spec == Init /\ [][Next]_vars

-----------------------------------------------------------------------------
(* Properties.                                                             *)

Overlap(a, b) == Cces(a) \cap Cces(b) # {}

(* Variables keep their types and no direction holds more than             *)
(* MAX_DCI_PER_SUB messages.                                               *)
TypeOK ==
    /\ phase \in {"search", "filter", "done"}
    /\ loc_idx \in 0 .. NofLocations(nof_cce)
    /\ skipped \subseteq Locs
    /\ tree.arr \in [Locs -> [Formats -> Rntis \cup {None}]]
    /\ tree.checked \subseteq Locs
    /\ \A ul \in BOOLEAN : NofDci(tree.out, ul) <= MaxDci

(* "We should only decode one dci from each node a tree": two reported DCIs*)
(* never use the same CCE, whatever mixture of paging, matching and filter *)
(* found them.  Only copy_rnti, which takes what looks like the target     *)
(* without clearing the tree around it, may report such a pair.            *)
NoOverlap ==
    \A a, b \in tree.out :
        a # b /\ Overlap(a.loc, b.loc) => "copy" \in {a.by, b.by}

(* Every DCI reported is one that was decoded at its location, inside the  *)
(* control region.                                                         *)
ReportedDecoded ==
    \A d \in tree.out :
        <<d.loc, d.format, d.rnti>> \in decoded /\ \A cce \in Cces(d.loc) : cce < nof_cce

(* A candidate with the target's RNTI is reported, or something else on its*)
(* CCEs is, or one direction of the output is full.                        *)
TargetReported ==
    phase # "search" =>
        \A c \in decoded : c[3] = Target =>
            \/ \E d \in tree.out : Overlap(d.loc, c[1])
            \/ \E ul \in BOOLEAN : NofDci(tree.out, ul) = MaxDci

(* An RNTI found at a node and at its left child is taken: when the search *)
(* is over no such pair is left, unless the target was taken in its block. *)
RepeatedTaken ==
    (phase = "search" /\ loc_idx \notin Locs) =>
        \A loc \in Locs : InTree(loc) < NofParents =>
            \/ Matching(tree.arr, loc, Left(loc, InTree(loc))) = {}
            \/ \E c \in decoded : c[3] = Target /\ Block(c[1]) = Block(loc)
=============================================================================

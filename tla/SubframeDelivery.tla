-------------------------- MODULE SubframeDelivery --------------------------
(***************************************************************************)
(* What the decoder pool promises the rest of NG-Scope: every subframe the *)
(* radio delivers is reported at most once, in any order, and the only     *)
(* other end it can meet is to be dropped on arrival.                      *)
(***************************************************************************)
EXTENDS Naturals

CONSTANT NofSubframes

VARIABLES arrived, reports, dropped

deliveryVars == <<arrived, reports, dropped>>

DeliveryInit ==
    /\ arrived = 0
    /\ reports = [i \in 1 .. NofSubframes |-> 0]
    /\ dropped = {}

Arrive ==
    /\ arrived < NofSubframes
    /\ arrived' = arrived + 1
    /\ UNCHANGED <<reports, dropped>>

Deliver(i) ==
    /\ reports[i] = 0 /\ i \notin dropped
    /\ reports' = [reports EXCEPT ![i] = 1]
    /\ UNCHANGED <<arrived, dropped>>

Drop ==
    /\ arrived > 0
    /\ reports[arrived] = 0 /\ arrived \notin dropped
    /\ dropped' = dropped \cup {arrived}
    /\ UNCHANGED <<arrived, reports>>

DeliveryNext == Arrive \/ Drop \/ \E i \in 1 .. arrived : Deliver(i)

Spec == DeliveryInit /\ [][DeliveryNext]_deliveryVars
=============================================================================

--------------------------- MODULE NotificationChannel --------------------------
(***************************************************************************)
(* What the sender of collision notifications promises: the notifications   *)
(* put by the workers are published one at a time, each at most once, in    *)
(* the order in which they were put.  The k-th put is notification k.       *)
(***************************************************************************)
EXTENDS Naturals, Sequences

VARIABLES
    accepted,       \* the notifications put
    published       \* those of them that are published

ncVars == <<accepted, published>>

NCInit == accepted = <<>> /\ published = <<>>

Accept == accepted' = Append(accepted, Len(accepted) + 1) /\ UNCHANGED published

\* The oldest one that is not published yet.
Publish ==
    /\ Len(published) < Len(accepted)
    /\ published' = Append(published, accepted[Len(published) + 1])
    /\ UNCHANGED accepted

NCSpec == NCInit /\ [][Accept \/ Publish]_ncVars
=============================================================================

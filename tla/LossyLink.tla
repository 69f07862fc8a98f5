----------------------------- MODULE LossyLink -----------------------------
(***************************************************************************)
(* What the wrapper's transport promises, and what SessionReplay and       *)
(* CommandDelivery assume of it: a FIFO that exists while the link is up.  *)
(* Whatever is in it when the link goes is lost, a new link starts with    *)
(* the wrapper's hello, and nothing crosses from one link to the next.     *)
(***************************************************************************)
EXTENDS Sequences

CONSTANTS Frames, Hello

VARIABLES
    up,     \* the link is up
    q,      \* frames accepted and not yet written
    wire    \* frames written on this link

vars == <<up, q, wire>>

Init == up = FALSE /\ q = <<>> /\ wire = <<>>

Up == ~up /\ up' = TRUE /\ q' = <<Hello>> /\ wire' = <<>>

Put == up /\ (\E f \in Frames : q' = Append(q, f)) /\ UNCHANGED <<up, wire>>

Write == up /\ q # <<>> /\ q' = Tail(q) /\ wire' = Append(wire, Head(q)) /\ UNCHANGED up

Down == up /\ up' = FALSE /\ q' = <<>> /\ wire' = <<>>

Next == Up \/ Put \/ Write \/ Down

Spec == Init /\ [][Next]_vars
=============================================================================

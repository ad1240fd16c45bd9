--------------------------- MODULE ReliableStream ---------------------------
(***************************************************************************)
(* What the control channel promises to the TLS contexts that use it: a    *)
(* stream.  One side puts in items 1, 2, 3, ... and the other side gets    *)
(* them in that order, none left out and none twice.  The stream may stop  *)
(* at any item.                                                            *)
(***************************************************************************)
EXTENDS Integers, Sequences

CONSTANT Burst   \* most items put in at once

VARIABLES
    sent,        \* items put in so far
    delivered    \* items that came out, in order

\* Some items may be in before anything comes out.
Init == sent \in Nat /\ delivered = <<>>

Put ==
    /\ \E n \in 1 .. Burst : sent' = sent + n
    /\ UNCHANGED delivered

\* One arrival may make several items available.
Get ==
    /\ \E n \in 1 .. (sent - Len(delivered)) :
          delivered' = delivered \o [i \in 1 .. n |-> Len(delivered) + i]
    /\ UNCHANGED sent

Next == Put \/ Get

Spec == Init /\ [][Next]_<<sent, delivered>>

=============================================================================

----------------------------- MODULE AntiReplay -----------------------------
(***************************************************************************)
(* What a replay filter promises, without any bitmap: it remembers every   *)
(* id it ever accepted.  An id is accepted exactly when it is not the      *)
(* reserved 0, was never accepted before, and is less than WINDOW_SIZE     *)
(* behind every accepted id (the doc comment of check_and_set in           *)
(* src/src/replay.rs:24-26).                                               *)
(***************************************************************************)
EXTENDS Integers

CONSTANTS
    WINDOW_SIZE,   \* how far behind the newest accepted id is too old
    PacketIds      \* the ids a packet may carry

VARIABLES
    accepted,      \* every id accepted so far
    verdict        \* the answer given to the last packet, with its id

Acceptable(p) ==
    /\ p # 0
    /\ p \notin accepted
    /\ \A q \in accepted : q - p < WINDOW_SIZE

Init ==
    /\ accepted = {}
    /\ verdict = <<>>

Check(p) ==
    /\ accepted' = IF Acceptable(p) THEN accepted \cup {p} ELSE accepted
    /\ verdict' = <<p, Acceptable(p)>>

Next == \E p \in PacketIds : Check(p)

Spec == Init /\ [][Next]_<<accepted, verdict>>
=============================================================================

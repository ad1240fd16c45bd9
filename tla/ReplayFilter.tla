---------------------------- MODULE ReplayFilter ----------------------------
(***************************************************************************)
(* One ReplayWindow fed with packet ids in any order and any number of     *)
(* times: what the network may deliver to a key slot's window              *)
(* (src/src/server.rs, decrypt_and_forward) or to a session's tls-auth     *)
(* window (handle_control_packet).  accepted and verdict are history       *)
(* variables: the code keeps neither.                                      *)
(***************************************************************************)
EXTENDS ReplayWindow

CONSTANT MaxPacketId   \* the largest id, u32::MAX in the code

ASSUME MaxPacketIdAssumption == MaxPacketId \in Nat

PacketIds == 0 .. MaxPacketId

VARIABLES
    window,     \* the ReplayWindow
    accepted,   \* every id check_and_set answered true for
    verdict     \* the last id checked and the answer

vars == <<window, accepted, verdict>>

TypeOK ==
    /\ window \in [highest : PacketIds, bitmap : SUBSET (0 .. BITS - 1)]
    /\ accepted \in SUBSET PacketIds
    /\ verdict \in {<<>>} \cup (PacketIds \X BOOLEAN)

Init ==
    /\ window = NewWindow
    /\ accepted = {}
    /\ verdict = <<>>

Check(p) ==
    /\ window' = CheckAndSet(window, p)
    /\ accepted' = IF Accepts(window, p) THEN accepted \cup {p} ELSE accepted
    /\ verdict' = <<p, Accepts(window, p)>>

Next == \E p \in PacketIds : Check(p)

Spec == Init /\ [][Next]_vars

-----------------------------------------------------------------------------
(***************************************************************************)
(* The window is the newest BITS ids of the history: highest is the        *)
(* largest accepted id and a bit is one exactly when its id was accepted.  *)
(* This is what the field comments of struct ReplayWindow say              *)
(* (src/src/replay.rs:13-16); it is inductive and everything else follows  *)
(* from it.                                                                *)
(***************************************************************************)
HighestIsNewest ==
    /\ 0 \notin accepted
    /\ \A p \in accepted : p <= window.highest
    /\ window.highest = 0 \/ window.highest \in accepted

BitmapIsHistory ==
    \A n \in 0 .. BITS - 1 :
        n \in window.bitmap <=> window.highest - n \in accepted

WindowInv == HighestIsNewest /\ BitmapIsHistory

(***************************************************************************)
(* check_and_set answers true for an id at most once, however the network  *)
(* repeats and reorders packets and however far the window moves between   *)
(* two copies of one packet.                                               *)
(***************************************************************************)
NeverAcceptedTwice ==
    [][\A p \in PacketIds : verdict' = <<p, TRUE>> => p \notin accepted]_vars

\* The bitmap answers every packet as the filter with full memory would:
\* nothing new and recent is rejected, nothing old or repeated is accepted.
Abstract == INSTANCE AntiReplay
ImplementsAntiReplay == Abstract!Spec
=============================================================================

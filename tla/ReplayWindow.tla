---------------------------- MODULE ReplayWindow ----------------------------
(***************************************************************************)
(* The sliding replay window of src/src/replay.rs, as operators on a       *)
(* record with the fields of struct ReplayWindow.                          *)
(*                                                                         *)
(* bitmap is the set of the positions of its one bits: bit n stands for    *)
(* the packet id highest - n.  A u64 has BITS = 64 positions and a left    *)
(* shift loses the bits that leave it.  The code's shift test uses the     *)
(* width of the integer and its age test uses WINDOW_SIZE; both are 64     *)
(* there and are kept apart here.                                          *)
(***************************************************************************)
EXTENDS Integers

CONSTANTS
    WINDOW_SIZE,   \* how many ids back from the highest are still accepted
    BITS           \* width of the bitmap

ASSUME WindowAssumption ==
    /\ WINDOW_SIZE \in Nat \ {0}
    /\ BITS \in Nat
    /\ WINDOW_SIZE <= BITS

\* ReplayWindow::new
NewWindow == [highest |-> 0, bitmap |-> {}]

\* Mutant of ShiftIn: the shift amount is taken modulo the width, as the
\* machine instruction does when the shift >= 64 test is missing.
ShiftInModulo(bitmap, shift) ==
    {0} \cup {n \in 0 .. BITS - 1 : n - (shift % BITS) \in bitmap}

\* Mutant of ShiftIn: bits leaving the bitmap are kept.
ShiftInUnbounded(bitmap, shift) ==
    {0} \cup {n + shift : n \in bitmap}

\* (bitmap << shift) | 1, or 1 when the shift would be as wide as the bitmap.
ShiftIn(bitmap, shift) ==
    IF shift >= BITS
    THEN {0}
    ELSE {0} \cup {n \in 0 .. BITS - 1 : n - shift \in bitmap}

\* Mutant of Accepts: the age test is off by one.
AcceptsOneTooOld(w, packet_id) ==
    /\ packet_id # 0
    /\ \/ packet_id > w.highest
       \/ /\ w.highest - packet_id <= WINDOW_SIZE
          /\ w.highest - packet_id \notin w.bitmap

\* What check_and_set returns for packet_id.
Accepts(w, packet_id) ==
    /\ packet_id # 0
    /\ \/ packet_id > w.highest
       \/ /\ w.highest - packet_id < WINDOW_SIZE
          /\ w.highest - packet_id \notin w.bitmap

\* Mutant of Record: a late id is accepted without setting its bit.
RecordNewestOnly(w, packet_id) ==
    IF packet_id > w.highest
    THEN [highest |-> packet_id,
          bitmap  |-> ShiftIn(w.bitmap, packet_id - w.highest)]
    ELSE w

\* What an accepting check_and_set leaves in the window.
Record(w, packet_id) ==
    IF packet_id > w.highest
    THEN [highest |-> packet_id,
          bitmap  |-> ShiftIn(w.bitmap, packet_id - w.highest)]
    ELSE [w EXCEPT !.bitmap = @ \cup {w.highest - packet_id}]

\* The window after check_and_set(packet_id): a rejection changes nothing.
CheckAndSet(w, packet_id) ==
    IF Accepts(w, packet_id) THEN Record(w, packet_id) ELSE w
=============================================================================

------------------------- MODULE ReplayFilterProofs -------------------------
(***************************************************************************)
(* The replay window is correct for every window size, every bitmap at     *)
(* least that wide and every id space: it never accepts an id twice, and   *)
(* its few bits answer exactly as a filter with full memory would.         *)
(***************************************************************************)
EXTENDS ReplayFilter, TLAPS

\* The types and the meaning of the window, together inductive.
IInv == TypeOK /\ WindowInv

\* check_and_set keeps a window in its type.
LEMMA CheckAndSetType ==
    ASSUME TypeOK, NEW p \in PacketIds
    PROVE  CheckAndSet(window, p)
               \in [highest : PacketIds, bitmap : SUBSET (0 .. BITS - 1)]
<1>1. CASE ~Accepts(window, p)
    BY <1>1 DEF CheckAndSet, TypeOK
<1>2. CASE Accepts(window, p) /\ p > window.highest
    <2>1. 0 \in 0 .. BITS - 1
        BY WindowAssumption
    <2>2. ShiftIn(window.bitmap, p - window.highest) \in SUBSET (0 .. BITS - 1)
        BY <2>1 DEF ShiftIn
    <2>3. QED
        BY <1>2, <2>2 DEF CheckAndSet, Record, TypeOK
<1>3. CASE Accepts(window, p) /\ ~(p > window.highest)
    <2>1. window.highest - p \in 0 .. BITS - 1
        BY <1>3, WindowAssumption, MaxPacketIdAssumption
        DEF Accepts, TypeOK, PacketIds
    <2>2. QED
        BY <1>3, <2>1 DEF CheckAndSet, Record, TypeOK
<1>4. QED
    BY <1>1, <1>2, <1>3

\* A window whose bits are the history accepts exactly what the filter with
\* full memory accepts.
LEMMA AcceptsIsAcceptable ==
    ASSUME IInv, NEW p \in PacketIds
    PROVE  Accepts(window, p) <=> Abstract!Acceptable(p)
<1> USE WindowAssumption, MaxPacketIdAssumption DEF PacketIds
<1>1. /\ window.highest \in Nat
      /\ window.bitmap \subseteq 0 .. BITS - 1
      /\ accepted \subseteq Nat
      /\ p \in Nat
    BY DEF IInv, TypeOK
<1>2. CASE p > window.highest
    <2>1. p \notin accepted /\ \A q \in accepted : q - p < WINDOW_SIZE
        BY <1>1, <1>2 DEF IInv, WindowInv, HighestIsNewest
    <2>2. QED
        BY <1>2, <2>1 DEF Accepts, Abstract!Acceptable
<1>3. CASE p <= window.highest /\ p # 0
    <2>1. window.highest \in accepted
        BY <1>1, <1>3 DEF IInv, WindowInv, HighestIsNewest
    <2>2. (\A q \in accepted : q - p < WINDOW_SIZE)
              <=> window.highest - p < WINDOW_SIZE
        BY <1>1, <2>1 DEF IInv, WindowInv, HighestIsNewest
    <2>3. ASSUME window.highest - p < WINDOW_SIZE
          PROVE  window.highest - p \in window.bitmap <=> p \in accepted
        <3>1. window.highest - p \in 0 .. BITS - 1
            BY <1>1, <1>3, <2>3
        <3>2. window.highest - (window.highest - p) = p
            BY <1>1
        <3>3. QED
            BY <3>1, <3>2 DEF IInv, WindowInv, BitmapIsHistory
    <2>4. QED
        BY <1>1, <1>3, <2>2, <2>3 DEF Accepts, Abstract!Acceptable
<1>4. CASE p = 0
    BY <1>4 DEF Accepts, Abstract!Acceptable
<1>5. QED
    BY <1>1, <1>2, <1>3, <1>4

\* Accepting an id newer than all others slides the bitmap along.
LEMMA SlideKeepsHistory ==
    ASSUME IInv, NEW p \in PacketIds, Check(p), p > window.highest
    PROVE  WindowInv'
<1> USE WindowAssumption, MaxPacketIdAssumption DEF PacketIds
<1>1. /\ window.highest \in Nat
      /\ window.bitmap \subseteq 0 .. BITS - 1
      /\ accepted \subseteq Nat
      /\ p \in Nat /\ p # 0
    BY DEF IInv, TypeOK
<1>2. /\ window'.highest = p
      /\ window'.bitmap = ShiftIn(window.bitmap, p - window.highest)
      /\ accepted' = accepted \cup {p}
    BY <1>1 DEF Check, CheckAndSet, Accepts, Record
<1>3. HighestIsNewest'
    BY <1>1, <1>2 DEF HighestIsNewest, IInv, WindowInv
<1>4. ASSUME NEW n \in 0 .. BITS - 1
      PROVE  n \in window'.bitmap <=> p - n \in accepted'
    <2> DEFINE shift == p - window.highest
    <2>1. p - n \in accepted' <=> n = 0 \/ p - n \in accepted
        BY <1>1, <1>2
    <2>2. shift \in Nat \ {0} /\ p - n = window.highest - (n - shift)
        BY <1>1
    <2>3. CASE n >= shift
        <3>1. n - shift \in 0 .. BITS - 1 /\ n # 0 /\ shift < BITS
            BY <2>2, <2>3
        <3>2. n - shift \in window.bitmap <=> p - n \in accepted
            BY <2>2, <3>1 DEF IInv, WindowInv, BitmapIsHistory
        <3>3. n \in window'.bitmap <=> n - shift \in window.bitmap
            BY <1>2, <2>2, <3>1 DEF ShiftIn
        <3>4. QED
            BY <2>1, <3>1, <3>2, <3>3
    <2>4. CASE n < shift
        <3>1. p - n > window.highest
            BY <1>1, <2>4
        <3>2. p - n \notin accepted
            BY <1>1, <3>1 DEF IInv, WindowInv, HighestIsNewest
        <3>3. n - shift \notin window.bitmap
            BY <1>1, <2>2, <2>4
        <3>4. n \in window'.bitmap <=> n = 0
            BY <1>2, <3>3 DEF ShiftIn
        <3>5. QED
            BY <2>1, <3>2, <3>4
    <2>5. QED
        BY <2>2, <2>3, <2>4
<1>5. BitmapIsHistory'
    BY <1>2, <1>4 DEF BitmapIsHistory
<1>6. QED
    BY <1>3, <1>5 DEF WindowInv

\* Accepting a late id sets the one bit that stands for it.
LEMMA LateKeepsHistory ==
    ASSUME IInv, NEW p \in PacketIds, Check(p),
           Accepts(window, p), ~(p > window.highest)
    PROVE  WindowInv'
<1> USE WindowAssumption, MaxPacketIdAssumption DEF PacketIds
<1>1. /\ window.highest \in Nat
      /\ accepted \subseteq Nat
      /\ p \in Nat /\ p # 0
    BY DEF IInv, TypeOK, Accepts
<1>2. /\ window'.highest = window.highest
      /\ window'.bitmap = window.bitmap \cup {window.highest - p}
      /\ accepted' = accepted \cup {p}
    BY DEF IInv, TypeOK, Check, CheckAndSet, Record
<1>3. HighestIsNewest'
    BY <1>1, <1>2 DEF HighestIsNewest, IInv, WindowInv
<1>4. ASSUME NEW n \in 0 .. BITS - 1
      PROVE  n \in window'.bitmap <=> window'.highest - n \in accepted'
    <2>1. n = window.highest - p <=> window.highest - n = p
        BY <1>1
    <2>2. n \in window.bitmap <=> window.highest - n \in accepted
        BY DEF IInv, WindowInv, BitmapIsHistory
    <2>3. QED
        BY <1>2, <2>1, <2>2
<1>5. QED
    BY <1>3, <1>4 DEF WindowInv, BitmapIsHistory

\* A new window has accepted nothing.
LEMMA InitIInv == Init => IInv
<1> SUFFICES ASSUME Init PROVE IInv
    OBVIOUS
<1>1. TypeOK
    BY MaxPacketIdAssumption DEF Init, NewWindow, TypeOK, PacketIds
<1>2. WindowInv
    BY DEF Init, NewWindow, WindowInv, HighestIsNewest, BitmapIsHistory
<1>3. QED
    BY <1>1, <1>2 DEF IInv

\* Every step keeps bitmap and history together.
LEMMA NextIInv == IInv /\ [Next]_vars => IInv'
<1> SUFFICES ASSUME IInv, [Next]_vars PROVE IInv'
    OBVIOUS
<1>1. ASSUME NEW p \in PacketIds, Check(p) PROVE IInv'
    <2>1. TypeOK'
        <3>1. window' \in [highest : PacketIds, bitmap : SUBSET (0 .. BITS - 1)]
            BY <1>1, CheckAndSetType DEF IInv, Check
        <3>2. accepted' \in SUBSET PacketIds
            BY <1>1 DEF IInv, TypeOK, Check
        <3>3. Accepts(window, p) \in BOOLEAN
            BY DEF Accepts
        <3>4. verdict' \in PacketIds \X BOOLEAN
            BY <1>1, <3>3 DEF Check
        <3>5. QED
            BY <3>1, <3>2, <3>4 DEF TypeOK
    <2>2. WindowInv'
        <3>1. CASE Accepts(window, p) /\ p > window.highest
            BY <1>1, <3>1, SlideKeepsHistory
        <3>2. CASE Accepts(window, p) /\ ~(p > window.highest)
            BY <1>1, <3>2, LateKeepsHistory
        <3>3. CASE ~Accepts(window, p)
            BY <1>1, <3>3
            DEF IInv, Check, CheckAndSet, WindowInv, HighestIsNewest,
                BitmapIsHistory
        <3>4. QED
            BY <3>1, <3>2, <3>3
    <2>3. QED
        BY <2>1, <2>2 DEF IInv
<1>2. CASE UNCHANGED vars
    BY <1>2 DEF IInv, TypeOK, WindowInv, HighestIsNewest, BitmapIsHistory, vars
<1>3. QED
    BY <1>1, <1>2 DEF Next

\* The window keeps its type: highest stays an id and no bit leaves the
\* bitmap (struct ReplayWindow, src/src/replay.rs:12-17).
THEOREM TypeCorrect == Spec => []TypeOK
<1>1. IInv => TypeOK
    BY DEF IInv
<1>2. QED
    BY <1>1, InitIInv, NextIInv, PTL DEF Spec

\* The field comments of struct ReplayWindow hold: bit n is one exactly when
\* the id highest - n was accepted, and highest is the newest accepted id.
THEOREM WindowIsHistory == Spec => []WindowInv
<1>1. IInv => WindowInv
    BY DEF IInv
<1>2. QED
    BY <1>1, InitIInv, NextIInv, PTL DEF Spec

\* check_and_set never answers true twice for one id.
THEOREM NoReplay == Spec => NeverAcceptedTwice
<1>1. ASSUME IInv, [Next]_vars
      PROVE  [\A p \in PacketIds :
                 verdict' = <<p, TRUE>> => p \notin accepted]_vars
    <2>1. ASSUME NEW p \in PacketIds, NEW q \in PacketIds, Check(q),
                 verdict' = <<p, TRUE>>
          PROVE  p \notin accepted
        <3>1. <<q, Accepts(window, q)>> = <<p, TRUE>>
            BY <2>1 DEF Check
        <3>2. q = p /\ Accepts(window, q) = TRUE
            BY <3>1, Zenon
        <3>3. QED
            BY <1>1, <2>1, <3>2, AcceptsIsAcceptable DEF Abstract!Acceptable
    <2>2. QED
        BY <1>1, <2>1 DEF Next
<1>2. QED
    BY <1>1, InitIInv, NextIInv, PTL DEF Spec, NeverAcceptedTwice

\* The bitmap of check_and_set implements the filter that remembers every
\* accepted id: the same packets are accepted and the same are rejected.
THEOREM Refinement == Spec => ImplementsAntiReplay
<1>1. Init => Abstract!Init
    BY DEF Init, Abstract!Init
<1>2. ASSUME IInv, [Next]_vars
      PROVE  [Abstract!Next]_<<accepted, verdict>>
    <2>1. ASSUME NEW p \in PacketIds, Check(p)
          PROVE  Abstract!Check(p)
        <3>1. Accepts(window, p) <=> Abstract!Acceptable(p)
            BY <1>2, AcceptsIsAcceptable
        <3>2. Accepts(window, p) \in BOOLEAN /\ Abstract!Acceptable(p) \in BOOLEAN
            BY DEF Accepts, Abstract!Acceptable
        <3>3. Accepts(window, p) = Abstract!Acceptable(p)
            BY <3>1, <3>2
        <3>4. QED
            BY <2>1, <3>3 DEF Check, Abstract!Check
    <2>2. QED
        BY <1>2, <2>1 DEF Next, Abstract!Next, vars
<1>3. QED
    BY <1>1, <1>2, InitIInv, NextIInv, PTL
    DEF Spec, ImplementsAntiReplay, Abstract!Spec
=============================================================================

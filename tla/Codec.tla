-------------------------------- MODULE Codec --------------------------------
(***************************************************************************)
(* The packet formats of protocol.rs and the control messages of           *)
(* control_channel.rs.                                                     *)
(*                                                                         *)
(* A byte string is a sequence of cells.  A cell stands for one field of   *)
(* fixed width, or for one byte of a variable part, and is a sequence of   *)
(* numbers: a single number, except for the cells that cryptography makes  *)
(* (see Envelope).  A parser that fails returns Bad, and one that has not  *)
(* got all of its input yet returns NeedMore.                              *)
(***************************************************************************)
EXTENDS Integers, Sequences, SequencesExt

CONSTANTS
    AckCountSpace,   \* 256 in the code; the ACK count is one byte
    StringLenSpace,  \* 2^16 in the code; the length of a string
    None,
    Bad,
    NeedMore

\* The number in a cell, and the cells of a sequence of numbers.
Num(cell) == cell[1]
Cells(nums) == [i \in DOMAIN nums |-> <<nums[i]>>]

From(buf, n) == SubSeq(buf, n, Len(buf))

-----------------------------------------------------------------------------
ControlV1 == 4
AckV1 == 5
DataV1 == 6
DataV2 == 9
OpCode == 1 .. 11
IsData(op) == op \in {DataV1, DataV2}

\* The first byte of a packet
First(op, key_id) == (op * 8) + (key_id % 8)
OpOf(first) == first \div 8
KeyIdOf(first) == first % 8

\* ControlPacket::parse.  The fields after the ACKs are there or not depending
\* on the number of ACKs and on the opcode.
ParseControl(buf) ==
    LET op == OpOf(Num(buf[1]))
        n == Num(buf[3])
        remote == IF n > 0 THEN 1 ELSE 0
        id == IF op = AckV1 THEN 0 ELSE 1
        end == 3 + n + remote + id
    IN  IF Len(buf) < 3 \/ op \notin OpCode \/ IsData(op) THEN Bad
        ELSE IF Len(buf) < end THEN Bad
        ELSE [op |-> op,
              key_id |-> KeyIdOf(Num(buf[1])),
              session_id |-> Num(buf[2]),
              acks |-> [i \in 1 .. n |-> Num(buf[3 + i])],
              remote_session_id |-> IF remote = 1 THEN Num(buf[4 + n]) ELSE None,
              packet_id |-> IF id = 1 THEN Num(buf[end]) ELSE None,
              payload |-> From(buf, end + 1)]

\* ControlPacket::encode.  The ACK count is cut to a byte; the ACKs are not.
EncodeControl(p) ==
    Cells(<<First(p.op, p.key_id), p.session_id, Len(p.acks) % AckCountSpace>>
             \o p.acks
             \o (IF p.acks = <<>> THEN <<>>
                 ELSE <<IF p.remote_session_id = None THEN 0
                        ELSE p.remote_session_id>>)
             \o (IF p.packet_id = None THEN <<>> ELSE <<p.packet_id>>))
       \o p.payload

\* DataPacketV2::parse.  The first three cells are the 8 bytes of the header.
ParseData(buf) ==
    IF Len(buf) < 3 \/ OpOf(Num(buf[1])) # DataV2 THEN Bad
    ELSE [key_id |-> KeyIdOf(Num(buf[1])),
          peer_id |-> Num(buf[2]),
          packet_id |-> Num(buf[3]),
          ciphertext |-> From(buf, 4)]

-----------------------------------------------------------------------------
NUL == <<0>>

\* write_lp_string: the length counts the NUL and is cut to its width.
WriteLpString(s) == <<<<(Len(s) + 1) % StringLenSpace>>>> \o s \o <<NUL>>

\* Mutant of ReadLpString: a string that has not all arrived is cut short.
ReadLpStringCut(buf, off) ==
    IF Len(buf) < off THEN NeedMore
    ELSE LET end == off + Num(buf[off])
             text == IF Len(buf) < end THEN From(buf, off + 1) ELSE SubSeq(buf, off + 1, end)
         IN  [text |-> IF text # <<>> /\ Last(text) = NUL THEN Front(text) ELSE text,
              next |-> off + Len(text) + 1]

\* read_lp_string at offset off: the text and the offset after it.
ReadLpString(buf, off) ==
    IF Len(buf) < off THEN NeedMore
    ELSE LET end == off + Num(buf[off])
             text == SubSeq(buf, off + 1, end)
         IN  IF Len(buf) < end THEN NeedMore
             ELSE [text |-> IF text # <<>> /\ Last(text) = NUL
                            THEN Front(text) ELSE text,
                   next |-> end + 1]

\* The fixed part of key-method 2: zeros, method, and the client's secrets as
\* one cell.
KEY_METHOD_2 == 2
FixedLen == 3

\* ClientKeyMethod2::try_parse: four strings follow the fixed part.
TryParseKeyMethod2(buf) ==
    LET string[i \in 0 .. 4] ==
           IF i = 0 THEN [text |-> <<>>, next |-> FixedLen + 1]
           ELSE IF string[i - 1] = NeedMore THEN NeedMore
           ELSE ReadLpString(buf, string[i - 1].next)
    IN  IF Len(buf) < FixedLen THEN NeedMore
        ELSE IF buf[1] # NUL \/ Num(buf[2]) # KEY_METHOD_2 THEN Bad
        ELSE IF string[4] = NeedMore THEN NeedMore
        ELSE [secrets |-> Num(buf[3]),
              strings |-> [i \in 1 .. 4 |-> string[i].text],
              used |-> string[4].next - 1]

\* What a client sends, and what try_parse has to give back; the server's own
\* message (ServerKeyMethod2::encode) has the same form.
EncodeKeyMethod2(secrets, strings) ==
    Cells(<<0, KEY_METHOD_2, secrets>>) \o FlattenSeq([i \in 1 .. 4 |-> WriteLpString(strings[i])])

\* try_pop_ascii: the text up to the first NUL, and the bytes used.
TryPopAscii(buf) ==
    LET ends == {i \in DOMAIN buf : buf[i] = NUL}
    IN  IF ends = {} THEN NeedMore
        ELSE LET end == CHOOSE i \in ends : \A j \in ends : i <= j
             IN  [text |-> SubSeq(buf, 1, end - 1), used |-> end]

=============================================================================

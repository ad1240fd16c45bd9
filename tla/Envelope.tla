------------------------------ MODULE Envelope ------------------------------
(***************************************************************************)
(* The envelope around a control packet: tls_crypt.rs, tls_auth.rs and the *)
(* choice between them in server.rs.  Cells are those of Codec.            *)
(*                                                                         *)
(* Cryptography is symbolic.  A MAC is a cell made of its key and of all   *)
(* that it covers, so two are equal only when those are.  The keystream is *)
(* a prefix made of the cipher key and of the IV; applying it to a cell    *)
(* that has it takes it off, and to any other cell puts it on.             *)
(***************************************************************************)
EXTENDS Codec

\* The settings of an envelope; the number is tls-auth's key-direction.
EnvelopeKind == {"none", "tls_auth_0", "tls_auth_1", "tls_crypt"}

\* from_static_key_server of TlsCryptKey and of TlsAuthKey: which of the four
\* slots of the static key each use takes.
TlsCryptKeys ==
    [enc_cipher |-> 0, enc_hmac |-> 1, dec_cipher |-> 2, dec_hmac |-> 3]
TlsAuthKeys(direction) ==
    [enc_hmac |-> IF direction = 1 THEN 3 ELSE 1, dec_hmac |-> 1]

ServerKeys(kind) ==
    CASE kind = "tls_crypt"  -> TlsCryptKeys
      [] kind = "tls_auth_0" -> TlsAuthKeys(0)
      [] kind = "tls_auth_1" -> TlsAuthKeys(1)
      [] kind = "none"       -> <<>>

\* External: the peer's ends of OpenVPN's static key.
ClientKeys(kind) ==
    CASE kind = "tls_crypt"  -> [enc_cipher |-> 2, enc_hmac |-> 3,
                                 dec_cipher |-> 0, dec_hmac |-> 1]
      [] kind = "tls_auth_0" -> [enc_hmac |-> 1, dec_hmac |-> 1]
      [] kind = "tls_auth_1" -> [enc_hmac |-> 1, dec_hmac |-> 3]
      [] kind = "none"       -> <<>>

Hmac(key, covered) == <<key>> \o FlattenSeq(covered)

ApplyKeystream(key, iv, cells) ==
    LET stream == <<key>> \o iv
    IN  [i \in DOMAIN cells |->
           IF IsPrefix(stream, cells[i])
           THEN SubSeq(cells[i], Len(stream) + 1, Len(cells[i]))
           ELSE stream \o cells[i]]

\* op and session id stay in front; the body is the rest of the inner packet.
HeaderLen == 2

-----------------------------------------------------------------------------
(***************************************************************************)
(* tls-auth:  op, session id, HMAC, packet id, time, body.                 *)
(***************************************************************************)
\* compose_hmac_input
HmacInput(header, pid, time, body) == <<pid, time>> \o header \o body

TlsAuthWrap(keys, inner, pid, time) ==
    LET header == SubSeq(inner, 1, HeaderLen)
        body == From(inner, HeaderLen + 1)
    IN  IF Len(inner) < HeaderLen THEN Bad
        ELSE header
               \o <<Hmac(keys.enc_hmac, HmacInput(header, pid, time, body)), pid, time>>
               \o body

TlsAuthUnwrap(keys, pkt) ==
    LET header == SubSeq(pkt, 1, HeaderLen)
        body == From(pkt, HeaderLen + 4)
    IN  IF Len(pkt) < HeaderLen + 3 THEN Bad
        ELSE IF pkt[3] # Hmac(keys.dec_hmac, HmacInput(header, pkt[4], pkt[5], body))
        THEN Bad
        ELSE [inner |-> header \o body, pid |-> Num(pkt[4])]

-----------------------------------------------------------------------------
(***************************************************************************)
(* tls-crypt:  op, session id, packet id, time, tag, encrypted body.  The  *)
(* tag covers the body before encryption and is the IV.                    *)
(***************************************************************************)
TlsCryptWrap(keys, inner, pid, time) ==
    LET header == SubSeq(inner, 1, HeaderLen) \o <<pid, time>>
        body == From(inner, HeaderLen + 1)
        tag == Hmac(keys.enc_hmac, header \o body)
    IN  IF Len(inner) < HeaderLen THEN Bad
        ELSE header \o <<tag>> \o ApplyKeystream(keys.enc_cipher, tag, body)

TlsCryptUnwrap(keys, pkt) ==
    LET header == SubSeq(pkt, 1, HeaderLen + 2)
        tag == pkt[HeaderLen + 3]
        body == ApplyKeystream(keys.dec_cipher, tag, From(pkt, HeaderLen + 4))
    IN  IF Len(pkt) < HeaderLen + 3 THEN Bad
        ELSE IF tag # Hmac(keys.dec_hmac, header \o body) THEN Bad
        ELSE [inner |-> SubSeq(pkt, 1, HeaderLen) \o body, pid |-> Num(pkt[3])]

-----------------------------------------------------------------------------
\* wrap_for_wire, and what the client does with its own keys.
Wrap(kind, keys, inner, pid, time) ==
    CASE kind = "tls_crypt" -> TlsCryptWrap(keys, inner, <<pid>>, <<time>>)
      [] kind = "none"      -> inner
      [] OTHER              -> TlsAuthWrap(keys, inner, <<pid>>, <<time>>)

\* Mutant of UnwrapControl: the HMAC of tls-auth is not verified.
UnwrapControlUnverified(kind, keys, pkt) ==
    CASE kind = "tls_crypt" -> TlsCryptUnwrap(keys, pkt)
      [] kind = "none"      -> [inner |-> pkt, pid |-> None]
      [] OTHER              ->
           IF Len(pkt) < HeaderLen + 3 THEN Bad
           ELSE [inner |-> SubSeq(pkt, 1, HeaderLen) \o From(pkt, HeaderLen + 4),
                 pid |-> Num(pkt[4])]

\* unwrap_control
UnwrapControl(kind, keys, pkt) ==
    CASE kind = "tls_crypt" -> TlsCryptUnwrap(keys, pkt)
      [] kind = "none"      -> [inner |-> pkt, pid |-> None]
      [] OTHER              -> TlsAuthUnwrap(keys, pkt)
=============================================================================

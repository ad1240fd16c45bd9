--------------------------- MODULE MCReceivePath ---------------------------
(***************************************************************************)
(* ReceivePath for TLC.                                                    *)
(***************************************************************************)
EXTENDS ReceivePath

Ascii(text) == [kind |-> "ascii", text |-> Cells(text)]

KeyMethod2 ==
    [kind |-> "KeyMethod2", secrets |-> 50,
     strings |-> <<Cells(<<60>>), <<>>, <<>>, Cells(<<61, 62>>)>>]

\* A message that means nothing to the server comes before the PUSH_REQUEST and
\* one after the EXIT; the PUSH_REQUEST is repeated, as clients do.
Messages ==
    <<KeyMethod2, Ascii(<<70>>), Ascii(PUSH_REQUEST), Ascii(PUSH_REQUEST),
      Ascii(EXIT), Ascii(<<71>>)>>

\* IPv4, keepalive, neither, IPv6.
Payloads == <<69, PING_PAYLOAD, 1, 96>>

\* Control over UDP: packets are damaged, repeated and sent again.
Udp(envelope) ==
    [transport |-> "udp", envelope |-> envelope, script |-> Messages,
     assign_ip |-> None, pool_v6 |-> envelope = "none",
     chunks |-> {0, 15, 24}, payloads |-> <<>>, retransmits |-> 1, junk |-> 0]

\* Control over TCP: packets end anywhere in a message.
Tcp(envelope, assign_ip, chunks) ==
    [transport |-> "tcp", envelope |-> envelope, script |-> Messages,
     assign_ip |-> assign_ip, pool_v6 |-> TRUE,
     chunks |-> chunks, payloads |-> <<>>, retransmits |-> 0,
     junk |-> IF envelope \in {"none", "tls_crypt"} THEN 1 ELSE 0]

\* Data, once one packet has set the session up.
Data(transport, payloads) ==
    [transport |-> transport, envelope |-> "none",
     script |-> <<KeyMethod2, Ascii(PUSH_REQUEST)>>,
     assign_ip |-> None, pool_v6 |-> FALSE,
     chunks |-> {24}, payloads |-> payloads, retransmits |-> 0, junk |-> 0]

MCModes ==
    {Udp(e) : e \in EnvelopeKind}
      \cup {Tcp("none", None, {0, 1, 4}), Tcp("tls_crypt", 4, {0, 5, 7}),
            Tcp("tls_auth_0", None, {0, 5, 7}), Tcp("tls_auth_1", Bad, {0, 5, 7})}
      \cup {Data("udp", <<69, 96>>), Data("tcp", Payloads)}

MCPushRoutes == <<DefaultRoute, BadCidr, 402>>
MCExtraRoutes == <<DefaultRoute>>
=============================================================================

--------------------------- MODULE MCSessionTable ---------------------------
EXTENDS SessionTable, TLC

CONSTANTS a1, a2, alice

\* alice has a static address outside the pool, or inside it, or none.
NoStatic == [c \in CommonName |-> None]
StaticOutsidePool == [c \in CommonName |-> 9]

StaticInPool == [c \in CommonName |-> PoolStart]

\* UDP addresses differ only in name.
UdpSymmetry == Permutations(UdpAddr)

=============================================================================

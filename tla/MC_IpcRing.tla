----------------------------- MODULE MC_IpcRing -----------------------------
EXTENDS IpcRing

\* The priorities of ipc_ring_demo.c.
RealPrios == {[producer |-> <<35, 36>>, consumer |-> <<30, 31>>]}

\* ... and producers above consumers: the ring fills, and the producers wait for
\* places.
BothPrios == RealPrios \cup {[producer |-> <<30, 31>>, consumer |-> <<35, 36>>]}
=============================================================================

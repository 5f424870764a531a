----------------------------- MODULE MCChannel -----------------------------
EXTENDS Channel, TLC

\* Four calls on any threads from nothing, or five of one thread on channels
\* that exist.
MCStarts ==
  {<<{}, f>> : f \in {g \in [Threads -> 0 .. 4] : \A t, u \in Threads : t # u => g[t] + g[u] = 4}}
  \cup {<<Channels, f>> : f \in {g \in [Threads -> {0, 5}] : Cardinality({t \in Threads : g[t] = 5}) = 1}}
MCWaits == {{READABLE, PEER_CLOSED}, {WRITABLE}}
MCSymmetry == Permutations(Threads) \cup Permutations(Channels)
=============================================================================

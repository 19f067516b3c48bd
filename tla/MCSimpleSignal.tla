--------------------------- MODULE MCSimpleSignal ---------------------------
(* Circumstances for SimpleSignal.                                         *)
EXTENDS SimpleSignal, TLC

Circumstances(n, k, faults, late) ==
  {w \in [clients : SUBSET Client, killed : SUBSET Client, faults : {faults}, late : {late}] :
     w.killed \subseteq w.clients /\ Cardinality(w.clients) = n /\ Cardinality(w.killed) = k}

\* Two clients of which both may be killed and a network that does its worst;
\* three on a network that loses packets; three of which one may be killed, on
\* a prompt network.  No client is told from another.
Safety == Circumstances(2, 2, {"lose", "repeat"}, 0) \cup Circumstances(3, 0, {"lose"}, 0)
          \cup Circumstances(3, 1, {}, 0)

Symmetry == Permutations(Client)

\* Two clients of which a certain one may be killed: packets are lost, or one
\* at a time is late.
Liveness ==
  LET k == CHOOSE c \in Client : TRUE
  IN  {w \in Circumstances(2, 1, {"lose"}, 0) \cup Circumstances(2, 1, {}, 1) : w.killed = {k}}
=============================================================================

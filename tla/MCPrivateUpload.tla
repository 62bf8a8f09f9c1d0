-------------------------- MODULE MCPrivateUpload --------------------------
(* Instances of PrivateUpload for TLC. *)
EXTENDS PrivateUpload, TLC

CONSTANTS c1, c2, h1, h2, b1, b2

OneConnection == {c1}
TwoConnections == {c1, c2}
OneKey == {1}
TwoKeys == {1, 2}
OneHash == {h1}
TwoHashes == {h1, h2}
OneBody == {b1}
TwoBodies == {b1, b2}

\* Two kinds of behaviour: two contents race under the first key while the
\* reconciliation runs, or the two keys race with one content between two runs.
Used(k, h) ==
  \/ \E c \in Connections : pc[c] # "idle" /\ request[c] = [key |-> k, hash |-> h]
  \/ objects[k] = h \/ attached[k] = h \/ (table[k] # NoRow /\ table[k].hash = h)
OneKeyOrOneContent ==
  \/ ~Used(2, h1) /\ ~Used(2, h2)
  \/ ~Used(1, h2) /\ ~Used(2, h2) /\ run = NoRun

Symmetry == Permutations(TwoConnections) \cup Permutations(TwoBodies)
=============================================================================

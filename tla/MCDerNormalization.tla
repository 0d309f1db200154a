------------------------- MODULE MCDerNormalization -------------------------
\* Bytes of three bits: all inputs of up to five, and longer ones that open a
\* constructed element of known or of unknown length.
EXTENDS DerNormalization

MCConstructed == {2, 3, 6, 7}
MCLongTag == {3, 5}
Few == {0, 1, 2, 4}

MCInputs ==
  UNION {[1..n -> 0..7] : n \in 0..5}
  \cup {<<2, 4>> \o s : s \in [1..6 -> Few]}
  \cup {<<2, 5, 4>> \o s : s \in [1..4 -> Few]}
=============================================================================

---------------------------- MODULE MCTrustedList ----------------------------
\* Two services, that may share their certificate, and two certificates.
EXTENDS TrustedList, TLC

CONSTANTS s1, s2, c1, c2, root

MCServices == {s1, s2}
MCCert == {c1, c2, root}
MCTypes == {"CA/QC", "TSA/QTST"}
MCStatus == {"granted", "withdrawn"}
MCDefaults == {root}
MCOffset == 5
Symmetry == Permutations(MCServices) \cup Permutations({c1, c2})
=============================================================================

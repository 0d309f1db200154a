---------------------------- MODULE MCTrustChain ----------------------------
(***************************************************************************)
(* Four certificates: a leaf, issued in the name A, and three more of the  *)
(* names A and B.  Each world has at most one defect, so that the bag may  *)
(* offer a sound issuer and a bad one of the same name.                    *)
(***************************************************************************)
EXTENDS TrustChain

MCNames == {"L", "A", "B"}
MCKeys == MCNames \cup {"other"}

Singles == {{}} \cup {{c} : c \in Cert}

Defects ==
  {<<"none", Leaf>>} \cup ({"expired", "notCa", "unreadable", "otherKey", "forged"} \X Cert)

\* The certificates that have a defect.
With(defect, kind) == IF defect[1] = kind THEN {defect[2]} ELSE {}

\* Bags and anchors: every certificate is in one of them.
\* Either the leaf is an anchor or at most two others are.
Stores ==
  {s \in Cert \X SUBSET Cert :
     /\ s[2] \cup 1..s[1] = Cert
     /\ s[2] = {Leaf} \/ (Leaf \notin s[2] /\ Cardinality(s[2]) <= 2)}

\* Only a signer has preferred anchors, only a timestamp has pins.
MakeWorld(names, issuers, defect, store, marked, purpose) ==
  [subject |-> names,
   issuer |-> issuers,
   key |-> [c \in Cert |-> IF defect = <<"otherKey", c>> THEN "other" ELSE names[c]],
   signer |-> [c \in Cert |-> IF defect = <<"forged", c>> THEN "other" ELSE issuers[c]],
   expired |-> With(defect, "expired"),
   notCa |-> With(defect, "notCa"),
   unreadable |-> With(defect, "unreadable"),
   bag |-> store[1], anchors |-> store[2],
   preferred |-> IF purpose = "signer" THEN marked \cap store[2] ELSE {},
   pins |-> IF purpose = "timestamp" THEN marked \cap 1..store[1] ELSE {},
   purpose |-> purpose]

Subjects == {names \in [Cert -> {"L", "A", "B"}] : \A c \in Cert : names[c] = "L" <=> c = Leaf}
Issuers == {names \in [Cert -> {"A", "B"}] : names[Leaf] = "A"}

MCWorlds ==
  {MakeWorld(names, issuers, defect, store, marked, purpose) :
     names \in Subjects, issuers \in Issuers, defect \in Defects, store \in Stores,
     marked \in Singles, purpose \in {"signer", "timestamp"}}
=============================================================================

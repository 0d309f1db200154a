---------------------------- MODULE Certificates ----------------------------
(***************************************************************************)
(* Certificates and what a certification path is, as far as the path       *)
(* search of rust/sd_trust_kit/src/trust.rs can tell certificates apart.   *)
(***************************************************************************)
EXTENDS Naturals, Sequences

CONSTANTS
  N,        \* the certificates are 1..N, in the order the search lists them
  Name,     \* distinguished names
  Key,      \* public keys
  Worlds    \* the certificates and options to search with

ASSUME NAssumption == N \in Nat \ {0}

Cert == 1..N
Leaf == 1

Mode == {"anchors", "pins"}

(* The bag is what came with the signature or the token: the first `bag'   *)
(* certificates.  The code lists the anchors behind it.                    *)
World ==
  [subject : [Cert -> Name], issuer : [Cert -> Name],
   key : [Cert -> Key],         \* its public key
   signer : [Cert -> Key],      \* the public key that verifies its signature
   expired : SUBSET Cert,       \* not valid at the time it is checked for
   notCa : SUBSET Cert,         \* may not issue certificates
   unreadable : SUBSET Cert,    \* cannot be parsed
   bag : Cert,
   anchors : SUBSET Cert, preferred : SUBSET Cert, pins : SUBSET Cert,
   purpose : {"signer", "timestamp"}]

ASSUME WorldsAssumption == Worlds \subseteq World

\* The preferred anchors are those of the trusted lists (lib.rs: the call of
\* trust_anchors_for_time without own anchors), and they are among the anchors.
ASSUME PreferredAssumption == \A w \in Worlds : w.preferred \subseteq w.anchors

\* What a path may end at: the configured anchors, or the pinned certificates
\* among those that came with the token.
Goal(w, m) == IF m = "anchors" THEN w.anchors ELSE w.pins \cap 1..w.bag

\* The certificates that are looked at, `certs' in the code.
Universe(w, m) ==
  (1..w.bag \cup (IF m = "anchors" THEN w.anchors ELSE {})) \ w.unreadable

\* certificate_is_valid_at; pins are searched without a validation time.
InTime(w, m, c) == m = "pins" \/ c \notin w.expired

\* Name chaining, verify_certificate_signature, certificate_can_delegate and
\* the validity of both; an anchor's own validity is not checked.
Issues(w, m, parent, child) ==
  /\ w.subject[parent] = w.issuer[child]
  /\ InTime(w, m, child)
  /\ parent \in Goal(w, m) \/ InTime(w, m, parent)
  /\ parent \notin w.notCa
  /\ w.key[parent] = w.signer[child]

Distinct(path) == \A j, k \in 1..Len(path) : path[j] = path[k] => j = k

\* Each certificate of the path is issued by the next one.
IsChain(w, m, path) ==
  /\ path \in Seq(Cert)
  /\ Len(path) > 0
  /\ path[1] = Leaf
  /\ Distinct(path)
  /\ \A k \in 1..Len(path) - 1 :
       /\ path[k] \in Universe(w, m) /\ path[k + 1] \in Universe(w, m)
       /\ Issues(w, m, path[k + 1], path[k])

\* The chain ends at the first certificate the caller trusts.
IsTrustPath(w, m, path) ==
  /\ IsChain(w, m, path)
  /\ \A k \in 1..Len(path) : path[k] \in Goal(w, m) <=> k = Len(path)
=============================================================================

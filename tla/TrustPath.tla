----------------------------- MODULE TrustPath -----------------------------
(***************************************************************************)
(* What a certification path search promises: it answers once, and if it   *)
(* answers `trusted' it shows a path of certificates, each issued by the   *)
(* next, from the leaf to a certificate the caller trusts.  A signer is    *)
(* never trusted by a pin.  It promises nothing about how it looks for a   *)
(* path, nor that it finds one.                                            *)
(***************************************************************************)
EXTENDS Certificates

VARIABLES world, answer

vars == <<world, answer>>

Answer(status, m, path) == [status |-> status, mode |-> m, path |-> path]

Searching == Answer("searching", "anchors", <<>>)

IsUntrusted(a) == \E m \in Mode : a = Answer("untrusted", m, <<>>)

IsTrusted(w, a) ==
  \E m \in Mode :
    /\ a = Answer("trusted", m, a.path)
    /\ IsTrustPath(w, m, a.path)
    /\ m = "pins" => w.purpose = "timestamp"

Init ==
  /\ world \in World
  /\ answer = Searching

Decide ==
  /\ answer = Searching
  /\ IsUntrusted(answer') \/ IsTrusted(world, answer')
  /\ UNCHANGED world

Spec == Init /\ [][Decide]_vars
=============================================================================

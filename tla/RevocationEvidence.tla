------------------------- MODULE RevocationEvidence -------------------------
(***************************************************************************)
(* What a revocation check promises: whenever it is asked, it answers      *)
(* `good' or `revoked' only if some piece of evidence says so that is      *)
(* about this certificate, signed by its issuer or by a responder the      *)
(* issuer appointed, and not out of date.  It promises nothing about the   *)
(* order in which evidence is looked at, nor that any is found.            *)
(***************************************************************************)
EXTENDS Evidence

VARIABLES world, now, answer

vars == <<world, now, answer>>

Elements(s) == {s[k] : k \in DOMAIN s}

\* A responder certificate with which the issuer lets another key answer.
Appoints(issuer, c, producedAt) ==
  /\ c.issuer = issuer.subject /\ c.signer = issuer.key
  /\ c.ocspSigning /\ c.digitalSignature
  /\ c.from <= producedAt /\ producedAt <= c.until

SignedFor(issuer, r) ==
  /\ r.readable /\ r.sha2
  /\ \/ r.key = issuer.key
     \/ \E c \in Elements(r.certs) : r.key = c.key /\ Appoints(issuer, c, r.producedAt)

Says(s, a) ==
  \/ s.status = "good" /\ a = Good
  \/ s.status = "revoked" /\ a = Revoked(s.revokedAt)

\* The certificate had been issued and its revocation was still recorded.
Covers(w, s) ==
  /\ w.cert.from <= s.thisUpdate
  /\ \/ s.certHash = "matches"
     \/ /\ s.certHash = "absent"
        /\ (IF s.archiveCutoff = 0 THEN s.thisUpdate ELSE s.archiveCutoff) <= w.cert.until

\* live: the response has to be current at time t, like one fetched now.
ResponseBacks(w, r, live, t, a) ==
  \E issuer \in Elements(w.issuers), s \in Elements(r.singles) :
    /\ issuer.subject = w.cert.issuer
    /\ s.own /\ s.issuerName = issuer.subject /\ s.issuerKey = issuer.key
    /\ SignedFor(issuer, r)
    /\ 1 <= s.thisUpdate /\ s.thisUpdate <= r.producedAt
    /\ w.control <= s.thisUpdate
    /\ Covers(w, s)
    /\ live => s.thisUpdate <= t /\ t < s.nextUpdate
    /\ Says(s, a)

CrlBacks(w, entry, t, a) ==
  LET list == entry.crl IN
  /\ \/ \E point \in Elements(w.points) : point.scheme # "ldap" /\ point.url = entry.url
     \/ w.cei /\ entry.url = CeiUrl
  /\ t < entry.validUntil
  /\ list.readable
  /\ list.nextUpdate = 0 \/ t < list.nextUpdate
  /\ \E issuer \in Elements(w.issuers) \cup {w.cert} :
       /\ issuer.subject = w.cert.issuer /\ issuer.subject = list.issuer
       /\ issuer.key = list.key
  /\ a = IF list.listed THEN Revoked(list.revokedAt) ELSE Good

Backed(w, t, a) ==
  \/ a = Unavailable
  \/ \E entry \in Elements(w.cache) :
       t < entry.validUntil /\ ResponseBacks(w, entry.response, TRUE, t, a)
  \/ \E r \in Elements(w.embedded) : ResponseBacks(w, r, w.control = 0, t, a)
  \/ \E entry \in Elements(w.crls) : CrlBacks(w, entry, t, a)

Init ==
  /\ world \in World
  /\ now = 1
  /\ answer = NoAnswer

Decide ==
  /\ Backed(world, Clock(world, now), answer')
  /\ UNCHANGED <<world, now>>

TimePasses ==
  /\ now < LastTime
  /\ now' = now + 1
  /\ UNCHANGED <<world, answer>>

Spec == Init /\ [][Decide \/ TimePasses]_vars
=============================================================================

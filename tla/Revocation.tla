----------------------------- MODULE Revocation -----------------------------
(***************************************************************************)
(* The revocation check of rust/sd_trust_kit/src/revocation.rs:            *)
(* check_certificate_status and check_ocsp_status with the evidence that   *)
(* append_revocation_step (lib.rs) hands them.  OCSP responses are tried   *)
(* one after the other, then the revocation lists the certificate points   *)
(* to.  Which message explains an `unavailable' is left out.  The check    *)
(* may be repeated at later times with the same evidence.  Faulty...       *)
(* operators are slips this code could contain; no definition uses them.   *)
(***************************************************************************)
EXTENDS Evidence

VARIABLES
  world,    \* the certificate and the evidence
  now,      \* the time of this check
  pc,       \* "enter", "ocsp", "crl" or "done"
  next,     \* the response or the distribution point to try next
  answer    \* of the last check that is over

vars == <<world, now, pc, next, answer>>

At == Clock(world, now)

-----------------------------------------------------------------------------
(* OCSP responses.                                                         *)

Cached(entry) == [response |-> entry.response, validUntil |-> entry.validUntil, live |-> TRUE]

\* Slip: embedded responses have to be current like cached ones.
FaultyEmbedded(w, r) == [response |-> r, validUntil |-> LastTime + 1, live |-> TRUE]

\* Embedded responses never lapse, and need not be current if a trusted
\* timestamp says when the signature was there.
Embedded(w, r) == [response |-> r, validUntil |-> LastTime + 1, live |-> w.control = 0]

Entries(w) ==
  [k \in 1..Len(w.cache) + Len(w.embedded) |->
     IF k <= Len(w.cache) THEN Cached(w.cache[k])
     ELSE Embedded(w, w.embedded[k - Len(w.cache)])]

Current(entry, t) == ~ entry.live \/ entry.validUntil > t

Positions(w, r) == (DOMAIN w.issuers) \X (DOMAIN r.singles)

\* The CertID names the issuer with its name and key, and the serial.
Matches(w, r, at) ==
  LET issuer == w.issuers[at[1]]
      s == r.singles[at[2]]
  IN  /\ issuer.subject = w.cert.issuer
      /\ s.own
      /\ s.issuerName = issuer.subject
      /\ s.issuerKey = issuer.key

\* The issuer and the single response that are looked at: the first that match.
IsFirstMatch(w, r, at) ==
  /\ Matches(w, r, at)
  /\ \A other \in Positions(w, r) :
       Matches(w, r, other) =>
         at[1] < other[1] \/ (at[1] = other[1] /\ at[2] <= other[2])

Delegated(c, issuer, producedAt) ==
  /\ c.ocspSigning /\ c.digitalSignature
  /\ c.from <= producedAt /\ producedAt <= c.until
  /\ c.issuer = issuer.subject /\ c.signer = issuer.key

IsResponder(r, c) == r.responder \in {c.subject, c.key} /\ r.key = c.key

Authentic(r, issuer) ==
  /\ r.sha2
  /\ \/ IsResponder(r, issuer)
     \/ \E k \in DOMAIN r.certs :
          /\ IsResponder(r, r.certs[k])
          /\ r.certs[k] = issuer \/ Delegated(r.certs[k], issuer, r.producedAt)

Consistent(s, c) ==
  /\ c.from <= s.thisUpdate
  /\ \/ s.certHash = "matches"
     \/ /\ s.certHash = "absent"
        /\ (IF s.archiveCutoff = 0 THEN s.thisUpdate ELSE s.archiveCutoff) <= c.until

Fresh(s, t) == s.nextUpdate # 0 /\ s.thisUpdate <= t /\ t < s.nextUpdate

\* Slip: how the response relates to the trusted time is not looked at.
FaultyTimely(w, r, s) == s.thisUpdate # 0 /\ s.thisUpdate <= r.producedAt

Timely(w, r, s) ==
  s.thisUpdate # 0 /\ w.control <= s.thisUpdate /\ s.thisUpdate <= r.producedAt

\* No `continue' of the loop applies to the response: it decides.
Usable(w, t, k, at) ==
  LET entry == Entries(w)[k]
      r == entry.response
      s == r.singles[at[2]]
  IN  /\ Current(entry, t)
      /\ r.readable
      /\ IsFirstMatch(w, r, at)
      /\ Authentic(r, w.issuers[at[1]])
      /\ entry.live => Fresh(s, t)
      /\ Timely(w, r, s)
      /\ Consistent(s, w.cert)

UsableResponse(w, t, k) ==
  \E at \in Positions(w, Entries(w)[k].response) : Usable(w, t, k, at)

Said(s) == IF s.status = "revoked" THEN Revoked(s.revokedAt) ELSE Good

-----------------------------------------------------------------------------
(* Revocation lists.                                                       *)

IsHttp(point) == point.scheme \in {"http", "https"}

Points(w) ==
  IF w.cei /\ \A k \in DOMAIN w.points : ~ IsHttp(w.points[k])
  THEN <<[scheme |-> "https", url |-> CeiUrl]>> ELSE w.points

\* Addresses are tried once, whatever their scheme.
IsUrl(w, k) ==
  /\ IsHttp(Points(w)[k])
  /\ \A j \in 1..k - 1 : ~ (IsHttp(Points(w)[j]) /\ Points(w)[j].url = Points(w)[k].url)

\* data_for_url: the first cached list of that address that has not lapsed.
IsCachedFor(w, t, k, c) ==
  /\ w.crls[c].url = Points(w)[k].url
  /\ w.crls[c].validUntil > t
  /\ \A d \in 1..c - 1 : w.crls[d].url = Points(w)[k].url => w.crls[d].validUntil <= t

Signs(c, w, list) ==
  /\ c.subject = w.cert.issuer
  /\ c.subject = list.issuer
  /\ c.key = list.key

AuthenticCrl(w, list) ==
  Signs(w.cert, w, list) \/ \E k \in DOMAIN w.issuers : Signs(w.issuers[k], w, list)

UsableList(w, t, k, c) ==
  LET list == w.crls[c].crl IN
  /\ IsUrl(w, k)
  /\ IsCachedFor(w, t, k, c)
  /\ list.readable
  /\ AuthenticCrl(w, list)
  /\ list.nextUpdate = 0 \/ list.nextUpdate > t

Lists(list) == IF list.listed THEN Revoked(list.revokedAt) ELSE Good

-----------------------------------------------------------------------------
Init ==
  /\ world \in Worlds
  /\ now = 1
  /\ pc = "enter"
  /\ next = 1
  /\ answer = NoAnswer

Return(a) ==
  /\ pc' = "done"
  /\ answer' = a
  /\ UNCHANGED <<world, now, next>>

Goto(stage) ==
  /\ pc' = stage
  /\ next' = 1
  /\ UNCHANGED <<world, now, answer>>

TryNext ==
  /\ next' = next + 1
  /\ UNCHANGED <<world, now, pc, answer>>

SerialUnreadable == pc = "enter" /\ ~ world.serialReadable /\ Return(Unavailable)

StartWithOcsp == pc = "enter" /\ world.serialReadable /\ Goto("ocsp")

\* Slip: a response that cannot be used ends the search.
FaultyPassResponse ==
  /\ pc = "ocsp"
  /\ next \in DOMAIN Entries(world)
  /\ ~ UsableResponse(world, At, next)
  /\ Goto("crl")

PassResponse ==
  /\ pc = "ocsp"
  /\ next \in DOMAIN Entries(world)
  /\ ~ UsableResponse(world, At, next)
  /\ TryNext

UseResponse ==
  /\ pc = "ocsp"
  /\ next \in DOMAIN Entries(world)
  /\ LET r == Entries(world)[next].response IN
     \E at \in Positions(world, r) :
       /\ Usable(world, At, next, at)
       /\ r.singles[at[2]].status # "unknown"
       /\ Return(Said(r.singles[at[2]]))

\* A responder that does not know ends the search for responses.
ResponderDoesNotKnow ==
  /\ pc = "ocsp"
  /\ next \in DOMAIN Entries(world)
  /\ \E at \in Positions(world, Entries(world)[next].response) :
       /\ Usable(world, At, next, at)
       /\ Entries(world)[next].response.singles[at[2]].status = "unknown"
  /\ Goto("crl")

NoMoreResponses == pc = "ocsp" /\ next > Len(Entries(world)) /\ Goto("crl")

\* Slip: a list that cannot be used is tried for ever.
FaultyPassList ==
  /\ pc = "crl"
  /\ next \in DOMAIN Points(world)
  /\ \A c \in DOMAIN world.crls : ~ UsableList(world, At, next, c)
  /\ UNCHANGED vars

PassList ==
  /\ pc = "crl"
  /\ next \in DOMAIN Points(world)
  /\ \A c \in DOMAIN world.crls : ~ UsableList(world, At, next, c)
  /\ TryNext

UseList ==
  /\ pc = "crl"
  /\ next \in DOMAIN Points(world)
  /\ \E c \in DOMAIN world.crls :
       /\ UsableList(world, At, next, c)
       /\ Return(Lists(world.crls[c].crl))

NoMoreLists == pc = "crl" /\ next > Len(Points(world)) /\ Return(Unavailable)

Check ==
  \/ SerialUnreadable \/ StartWithOcsp
  \/ PassResponse \/ UseResponse \/ ResponderDoesNotKnow \/ NoMoreResponses
  \/ PassList \/ UseList \/ NoMoreLists

\* The document is validated again, later, with the same evidence.
CheckLater ==
  /\ pc = "done"
  /\ now < LastTime
  /\ now' = now + 1
  /\ pc' = "enter"
  /\ next' = 1
  /\ UNCHANGED <<world, answer>>

Next == Check \/ CheckLater

\* The check is a function call: it runs until it returns.
Spec == Init /\ [][Next]_vars /\ WF_vars(Check)

-----------------------------------------------------------------------------
\* The loops stay within the evidence they walk through.
TypeOK ==
  /\ world \in World
  /\ now \in Time
  /\ pc \in {"enter", "ocsp", "crl", "done"}
  /\ next \in Nat \ {0}
  /\ pc = "ocsp" => next <= Len(Entries(world)) + 1
  /\ pc = "crl" => next <= Len(Points(world)) + 1
  /\ answer \in Answer

\* The two loops implement what a revocation check promises: a definite answer
\* is backed by authentic evidence about this certificate that is recent enough
\* for the time of the check or, with a trusted timestamp, for its time.
Promise == INSTANCE RevocationEvidence

ImplementsRevocationEvidence == Promise!Spec

\* Response k is the first that can be used, and it knows the certificate.
Decides(w, t, k, at) ==
  /\ Usable(w, t, k, at)
  /\ Entries(w)[k].response.singles[at[2]].status # "unknown"
  /\ \A j \in 1..k - 1 : ~ UsableResponse(w, t, j)

DecidesAs(w, t, k, a) ==
  \E at \in Positions(w, Entries(w)[k].response) :
    Decides(w, t, k, at) /\ a = Said(Entries(w)[k].response.singles[at[2]])

\* The list of distribution point k is the first that can be used.
ListsAs(w, t, k, a) ==
  /\ \E c \in DOMAIN w.crls : UsableList(w, t, k, c) /\ a = Lists(w.crls[c].crl)
  /\ \A j \in 1..k - 1, c \in DOMAIN w.crls : ~ UsableList(w, t, j, c)

NoResponseDecides(w, t) ==
  \A k \in DOMAIN Entries(w) :
    \A at \in Positions(w, Entries(w)[k].response) : ~ Decides(w, t, k, at)

NoListIsUsable(w, t) ==
  \A k \in DOMAIN Points(w), c \in DOMAIN w.crls : ~ UsableList(w, t, k, c)

\* What the evidence says at time t, without a word about loops.
Outcome(w, t, a) ==
  \/ w.serialReadable /\ \E k \in DOMAIN Entries(w) : DecidesAs(w, t, k, a)
  \/ /\ w.serialReadable /\ NoResponseDecides(w, t)
     /\ \E k \in DOMAIN Points(w) : ListsAs(w, t, k, a)
  \/ /\ w.serialReadable => NoResponseDecides(w, t) /\ NoListIsUsable(w, t)
     /\ a = Unavailable

\* Evidence that cannot be used neither decides nor hides what comes after it:
\* the first usable response decides, and if it does not know or there is none,
\* the first usable list; only without either is the status unavailable.
UnusableEvidenceIsInert == pc = "done" => Outcome(world, At, answer)

\* All that is known comes from the file, at a time a timestamp proves.
Archived(w) == w.control # 0 /\ w.cache = <<>> /\ w.crls = <<>>

\* With a trusted timestamp, what the evidence in the file proves it proves for
\* good: validating later without any cache never gives another answer.
ArchivedEvidenceLasts ==
  [][answer # NoAnswer /\ Archived(world) => answer' = answer]_vars

\* Every check returns, also when it is repeated.
Terminates == pc # "done" ~> pc = "done"

-----------------------------------------------------------------------------
(* A statement of the documentation.                                       *)

\* kotlin/SDTrustKit/README.md: embedded OCSP evidence is evaluated without an
\* external cache entry.  A response that is current at the time of the check
\* then decides.
EmbeddedEvidenceCounts ==
  /\ pc = "done" /\ world.serialReadable
  /\ world.cache = <<>>
  /\ \E k \in DOMAIN Entries(world) :
       /\ Entries(world)[k].response.producedAt <= now
       /\ \E at \in Positions(world, Entries(world)[k].response) : Decides(world, now, k, at)
  => answer # Unavailable
=============================================================================

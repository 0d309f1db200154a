---------------------------- MODULE MCRevocation ----------------------------
(***************************************************************************)
(* A signer certificate of the authority CA and up to two OCSP responses,  *)
(* a good one or a variation of it and one of a few, in either order,      *)
(* cached or embedded, next to one of several stores of revocation lists.  *)
(***************************************************************************)
EXTENDS Revocation

MCNames == {"CA", "Signer", "Responder", "Stranger"}
MCKeys == {"ca", "signer", "responder", "stranger"}
MCUrls == {"a", "b", "cei"}

Cert(subject, issuer, key, signer) ==
  [subject |-> subject, issuer |-> issuer, key |-> key, signer |-> signer,
   from |-> 1, until |-> 3, ocspSigning |-> FALSE, digitalSignature |-> TRUE]

Authority == Cert("CA", "CA", "ca", "ca")
Namesake == Cert("CA", "CA", "stranger", "stranger")
Signer == Cert("Signer", "CA", "signer", "ca")
Appointed == [Cert("Responder", "CA", "responder", "ca") EXCEPT !.ocspSigning = TRUE]

-----------------------------------------------------------------------------
(* Responses.                                                              *)

GoodSingle ==
  [issuerName |-> "CA", issuerKey |-> "ca", own |-> TRUE, status |-> "good", revokedAt |-> 0,
   thisUpdate |-> 2, nextUpdate |-> 4, archiveCutoff |-> 0, certHash |-> "absent"]

GoodResponse ==
  [readable |-> TRUE, sha2 |-> TRUE, responder |-> "CA", producedAt |-> 3, key |-> "ca",
   singles |-> <<GoodSingle>>, certs |-> <<>>]

RevokedSingle(t) == [GoodSingle EXCEPT !.status = "revoked", !.revokedAt = t]

Singles ==
  {GoodSingle, RevokedSingle(0), RevokedSingle(2), RevokedSingle(4),
   [GoodSingle EXCEPT !.status = "unknown"],
   [GoodSingle EXCEPT !.own = FALSE],
   [GoodSingle EXCEPT !.issuerName = "Stranger"],
   [GoodSingle EXCEPT !.issuerKey = "stranger"],
   [GoodSingle EXCEPT !.thisUpdate = 0],
   [GoodSingle EXCEPT !.thisUpdate = 1],
   [GoodSingle EXCEPT !.thisUpdate = 4],
   [GoodSingle EXCEPT !.nextUpdate = 0],
   [GoodSingle EXCEPT !.nextUpdate = 3],
   [GoodSingle EXCEPT !.archiveCutoff = 1],
   [GoodSingle EXCEPT !.archiveCutoff = 4],
   [GoodSingle EXCEPT !.archiveCutoff = 4, !.certHash = "matches"],
   [GoodSingle EXCEPT !.certHash = "differs"]}

Responders ==
  {Appointed, Namesake,
   [Appointed EXCEPT !.ocspSigning = FALSE],
   [Appointed EXCEPT !.digitalSignature = FALSE],
   [Appointed EXCEPT !.until = 2],
   [Appointed EXCEPT !.issuer = "Stranger"],
   [Appointed EXCEPT !.signer = "stranger"]}

Responses ==
  {[GoodResponse EXCEPT !.singles = <<s>>] : s \in Singles}
    \cup {[GoodResponse EXCEPT !.responder = c.subject, !.key = c.key, !.certs = <<c>>] :
            c \in Responders}
    \cup {[GoodResponse EXCEPT !.readable = FALSE],
          [GoodResponse EXCEPT !.sha2 = FALSE],
          [GoodResponse EXCEPT !.responder = "ca"],
          [GoodResponse EXCEPT !.responder = "Responder"],
          [GoodResponse EXCEPT !.key = "stranger"],
          [GoodResponse EXCEPT !.producedAt = 1],
          [GoodResponse EXCEPT !.singles = <<[GoodSingle EXCEPT !.own = FALSE], GoodSingle>>],
          [GoodResponse EXCEPT !.singles = <<[GoodSingle EXCEPT !.nextUpdate = 3], RevokedSingle(2)>>]}

\* The responses to combine with every other one and every store of lists.
FewResponses ==
  {[GoodResponse EXCEPT !.singles = <<s>>] :
     s \in {GoodSingle, RevokedSingle(2), [GoodSingle EXCEPT !.status = "unknown"],
            [GoodSingle EXCEPT !.nextUpdate = 3], [GoodSingle EXCEPT !.thisUpdate = 1]}}

Alone(S) == {<<r>> : r \in S}

ResponseLists ==
  {<<>>} \cup Alone(Responses)
    \cup (Responses \X FewResponses) \cup (FewResponses \X Responses)

-----------------------------------------------------------------------------
(* Revocation lists.                                                       *)

GoodCrl == [readable |-> TRUE, issuer |-> "CA", key |-> "ca", nextUpdate |-> 4,
            listed |-> FALSE, revokedAt |-> 0]

Crls ==
  {GoodCrl,
   [GoodCrl EXCEPT !.listed = TRUE], [GoodCrl EXCEPT !.listed = TRUE, !.revokedAt = 2],
   [GoodCrl EXCEPT !.readable = FALSE],
   [GoodCrl EXCEPT !.issuer = "Stranger"],
   [GoodCrl EXCEPT !.key = "stranger"],
   [GoodCrl EXCEPT !.nextUpdate = 0],
   [GoodCrl EXCEPT !.nextUpdate = 2]}

Point(scheme, url) == [scheme |-> scheme, url |-> url]
Entry(url, crl, until) == [url |-> url, crl |-> crl, validUntil |-> until]

RevokedCrl == [GoodCrl EXCEPT !.listed = TRUE]

\* Distribution points and cached lists.
Stores ==
  {<<<<>>, <<>>>>, <<<<>>, <<Entry("cei", RevokedCrl, 4)>>>>}
    \cup {<<<<Point("http", "a")>>, <<Entry("a", crl, 4)>>>> : crl \in Crls}
    \cup {<<<<Point("https", "a"), Point("http", "b")>>,
            <<Entry("a", crl, 4), Entry("b", RevokedCrl, 4)>>>> : crl \in Crls}
    \cup {<<<<Point("http", "a"), Point("https", "a"), Point("http", "b")>>,
            <<Entry("b", GoodCrl, 4)>>>>,
          <<<<Point("ldap", "a")>>, <<Entry("a", GoodCrl, 4), Entry("cei", GoodCrl, 3)>>>>,
          <<<<Point("ldap", "b"), Point("http", "a")>>,
            <<Entry("a", RevokedCrl, 2), Entry("a", GoodCrl, 4)>>>>}

-----------------------------------------------------------------------------
Base ==
  [cert |-> Signer, serialReadable |-> TRUE, points |-> <<>>, cei |-> FALSE,
   issuers |-> <<Authority>>, control |-> 0, clock |-> TRUE,
   cache |-> <<>>, embedded |-> <<>>, crls |-> <<>>]

\* The first n responses are cached, the others embedded.
Split(responses, n) ==
  [Base EXCEPT !.cache = [k \in 1..n |-> [response |-> responses[k], validUntil |-> 4]],
               !.embedded = SubSeq(responses, n + 1, Len(responses))]

Splits(lists) == UNION {{Split(responses, n) : n \in 0..Len(responses)} : responses \in lists}

InFile(S) == {Split(<<r>>, 0) : r \in S}

\* Two responses, with or without a trusted timestamp, and one list.
ResponseWorlds ==
  {[w EXCEPT !.control = control, !.points = store[1], !.crls = store[2]] :
     w \in Splits(ResponseLists), control \in {0, 2, 3},
     store \in {<<<<>>, <<>>>>, <<<<Point("http", "a")>>, <<Entry("a", RevokedCrl, 4)>>>>}}

\* Every store of lists, after a response that decides or does not.
ListWorlds ==
  {[w EXCEPT !.points = store[1], !.crls = store[2], !.cei = cei] :
     w \in Splits({<<>>} \cup Alone(FewResponses)),
     store \in Stores, cei \in BOOLEAN}

\* Other issuers, a self-issued certificate, a certificate not valid yet, a
\* serial that cannot be read, no clock, and a cached response about to lapse.
OtherWorlds ==
  {[w EXCEPT !.issuers = issuers] :
     w \in InFile(Responses),
     issuers \in {<<>>, <<Namesake, Authority>>, <<Appointed, Authority>>}}
    \cup {[w EXCEPT !.cert.issuer = "Signer", !.issuers = <<>>, !.points = <<Point("http", "a")>>,
             !.crls = <<Entry("a", [GoodCrl EXCEPT !.issuer = "Signer", !.key = key], 4)>>] :
            w \in {Base}, key \in MCKeys}
    \cup {[w EXCEPT !.cert.from = 2] : w \in InFile(Responses)}
    \cup {[w EXCEPT !.serialReadable = FALSE] : w \in InFile(Responses)}
    \cup {[w EXCEPT !.clock = FALSE, !.control = control] :
            w \in {Split(responses, 0) : responses \in ResponseLists}, control \in {0, 2}}
    \cup {[w EXCEPT !.cache[1].validUntil = 3] : w \in {Split(<<GoodResponse, s>>, n) :
            s \in FewResponses, n \in 1..2}}

MCWorlds == ResponseWorlds \cup ListWorlds \cup OtherWorlds
=============================================================================

----------------------- MODULE MCSignatureValidation -----------------------
(***************************************************************************)
(* The documents TLC validates: a sound signature and a sound document     *)
(* timestamp, and every document that deviates from one of them in at most *)
(* three aspects.                                                          *)
(***************************************************************************)
EXTENDS SignatureValidation, FiniteSets

SoundSignature ==
  [kind |-> "signature", subFilter |-> "pades", position |-> "last", tail |-> "none",
   byteRangeCovers |-> TRUE, modified |-> {}, duplicateField |-> FALSE,
   cmsParses |-> TRUE, eContent |-> "absent", unsupportedPolicy |-> FALSE,
   malformedCutoff |-> FALSE, contentTypeData |-> TRUE, signerInfos |-> "one",
   signedAttrs |-> "conforming", digest |-> "supported", messageDigest |-> "matches",
   signerCertFound |-> TRUE, signatureVerifies |-> TRUE, signingCertAttr |-> TRUE,
   chain |-> "trusted", keyUsage |-> "allowed", extKeyUsage |-> "allowed",
   token |-> "present", tstInfo |-> "timed", imprintMatches |-> TRUE,
   tsaCertFound |-> TRUE, tsaSignature |-> TRUE, tsaUsage |-> TRUE, tsaPath |-> TRUE,
   validity |-> "both", revocation |-> "good", revokedAt |-> "beforeToken",
   timestampTrust |-> TRUE, timedAnchors |-> TRUE, checkRevocation |-> TRUE]

\* The values of each aspect.
Values ==
  [subFilter |-> {"pades", "adbeSha1", "other"}, position |-> {"last", "covered", "sibling"},
   tail |-> {"none", "whitespace", "validationData", "validationDataRewriting", "rewriting",
             "other"},
   byteRangeCovers |-> BOOLEAN, modified |-> {{}, {"dictionary"}, {"pages"}},
   duplicateField |-> BOOLEAN, cmsParses |-> BOOLEAN, eContent |-> {"absent", "empty", "present"},
   unsupportedPolicy |-> BOOLEAN, malformedCutoff |-> BOOLEAN, contentTypeData |-> BOOLEAN,
   signerInfos |-> {"none", "one", "several"},
   signedAttrs |-> {"none", "conforming", "nonConforming"},
   digest |-> {"supported", "rsaSha1", "unsupported"},
   messageDigest |-> {"matches", "differs", "missing"},
   signerCertFound |-> BOOLEAN, signatureVerifies |-> BOOLEAN, signingCertAttr |-> BOOLEAN,
   chain |-> {"trusted", "untrusted", "claimedOnly", "nowOnly"},
   keyUsage |-> {"allowed", "forbidden", "unreadable"},
   extKeyUsage |-> {"allowed", "forbidden", "unreadable"},
   token |-> {"absent", "unparseable", "noSigners", "wrongContentType", "present"},
   tstInfo |-> {"timed", "untimed", "unreadable"}, imprintMatches |-> BOOLEAN,
   tsaCertFound |-> BOOLEAN, tsaSignature |-> BOOLEAN, tsaUsage |-> BOOLEAN,
   tsaPath |-> BOOLEAN, validity |-> {"both", "tokenOnly", "nowOnly", "neither", "unreadable"},
   revocation |-> {"good", "unavailable", "revoked"},
   revokedAt |-> {"beforeToken", "afterToken", "future", "undated"},
   timestampTrust |-> BOOLEAN, timedAnchors |-> BOOLEAN, checkRevocation |-> BOOLEAN]

Settings == UNION {{<<aspect, value>> : value \in Values[aspect]} : aspect \in DOMAIN Values}

\* One aspect of each document set to any of its values.
Vary(documents) == {[d EXCEPT ![s[1]] = s[2]] : d \in documents, s \in Settings}

Sound == {SoundSignature, [SoundSignature EXCEPT !.kind = "documentTimestamp"]}
LegacySignature == [SoundSignature EXCEPT !.subFilter = "adbeSha1", !.digest = "rsaSha1"]
WithinOne == Vary(Sound)
WithinTwo == Vary(WithinOne)
WithinThree == Vary(WithinTwo)

\* A later change needs later bytes, and a document timestamp is a token.
Possible(d) ==
  /\ d.modified # {} => d.tail \notin {"none", "whitespace"}
  /\ d.kind = "documentTimestamp" => d.token # "absent"

LegacyDefects == {d \in Vary(Vary({LegacySignature})) : Possible(d)}
OneDefect == {d \in WithinOne : Possible(d)}
ThreeDefects == {d \in WithinThree : Possible(d)} \cup LegacyDefects
=============================================================================

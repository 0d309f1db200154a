------------------------ MODULE MCDocumentValidation ------------------------
(***************************************************************************)
(* Files of up to three signature dictionaries.  Each dictionary is a      *)
(* sound signature or document timestamp with at most one defect, or one   *)
(* that the filter looks at.                                               *)
(***************************************************************************)
EXTENDS DocumentValidation

SoundSignature ==
  [kind |-> "signature", subFilter |-> "pades", position |-> "last", tail |-> "none",
   byteRangeCovers |-> TRUE, modified |-> {}, duplicateField |-> FALSE,
   cmsParses |-> TRUE, eContent |-> "absent", unsupportedPolicy |-> FALSE,
   malformedCutoff |-> FALSE, contentTypeData |-> TRUE, signerInfos |-> "one",
   signedAttrs |-> "conforming", digest |-> "supported", messageDigest |-> "matches",
   signerCertFound |-> TRUE, signatureVerifies |-> TRUE, signingCertAttr |-> TRUE,
   chain |-> "trusted", keyUsage |-> "allowed", extKeyUsage |-> "allowed",
   token |-> "present", tstInfo |-> "timed", imprintMatches |-> TRUE,
   tsaCertFound |-> TRUE, tsaSignature |-> TRUE, tsaUsage |-> TRUE, tsaPath |-> TRUE,
   validity |-> "both", revocation |-> "good", revokedAt |-> "beforeToken",
   timestampTrust |-> TRUE, timedAnchors |-> TRUE, checkRevocation |-> TRUE]

SoundTimestamp == [SoundSignature EXCEPT !.kind = "documentTimestamp", !.subFilter = "other"]

Referenced(facts) ==
  [facts |-> facts, revision |-> 1, field |-> "referenced", usageRights |-> FALSE,
   selfReference |-> FALSE, badCms |-> FALSE]

Signatures1 ==
  {SoundSignature,
   [SoundSignature EXCEPT !.chain = "untrusted"],
   [SoundSignature EXCEPT !.messageDigest = "differs"],
   [SoundSignature EXCEPT !.revocation = "revoked"]}

Signatures2 ==
  {[SoundSignature EXCEPT !.token = "absent"],
   [SoundSignature EXCEPT !.tsaPath = FALSE],
   [SoundSignature EXCEPT !.revocation = "unavailable"],
   [SoundSignature EXCEPT !.malformedCutoff = TRUE],
   [SoundSignature EXCEPT !.cmsParses = FALSE],
   [SoundSignature EXCEPT !.subFilter = "adbeSha1", !.digest = "rsaSha1"]}

Timestamps1 == {SoundTimestamp, [SoundTimestamp EXCEPT !.modified = {"pages"}]}
Timestamps2 ==
  {[SoundTimestamp EXCEPT !.tsaPath = FALSE], [SoundTimestamp EXCEPT !.imprintMatches = FALSE]}

Filtered ==
  {[Referenced(SoundSignature) EXCEPT !.field = "none"],
   [Referenced(SoundSignature) EXCEPT !.field = "orphan"],
   [Referenced([SoundSignature EXCEPT !.messageDigest = "differs"]) EXCEPT !.field = "orphan"],
   [Referenced(SoundSignature) EXCEPT !.usageRights = TRUE],
   [Referenced(SoundSignature) EXCEPT !.selfReference = TRUE],
   [Referenced(SoundSignature) EXCEPT !.badCms = TRUE]}

FewDictionaries ==
  {Referenced(facts) : facts \in Signatures1 \cup Timestamps1}
    \cup {[Referenced(SoundSignature) EXCEPT !.field = "orphan"]}
ManyDictionaries ==
  FewDictionaries \cup Filtered \cup
  {Referenced(facts) : facts \in Signatures2 \cup Timestamps2}

(* The bytes after the last revision are free, except that a modification  *)
(* needs some.  A dictionary of an earlier revision is followed by         *)
(* another's /Contents, which is never validation data only (pdf.rs,       *)
(* has_disallowed_validation_tail_marker).                                 *)
Arranged(list, revisions, tail) ==
  [i \in DOMAIN list |->
     [list[i] EXCEPT !.revision = revisions[i],
                     !.facts.tail = IF revisions[i] < revisions[Len(list)] THEN "other" ELSE tail]]

Possible(list) ==
  \A i \in DOMAIN list :
    list[i].facts.modified # {} => list[i].facts.tail \notin {"none", "whitespace"}

Tails == {"none", "validationData", "rewriting", "other"}

Lists ==
  {list \in
     {Arranged(<<a, b, c>>, <<1, 2, 3>>, tail) :
        a \in FewDictionaries, b \in FewDictionaries, c \in FewDictionaries, tail \in Tails}
     \cup {Arranged(<<a, b>>, <<r, 2>>, tail) :
             a \in ManyDictionaries, b \in ManyDictionaries, r \in 1..2, tail \in Tails}
     \cup {Arranged(<<a>>, <<1>>, tail) : a \in ManyDictionaries, tail \in Tails} :
   Possible(list)}

MCFiles ==
  {[isPdf |-> TRUE, locked |-> FALSE, encrypted |-> FALSE, altered |-> FALSE, pageTree |-> TRUE,
    checkRevocation |-> check, dictionaries |-> list] : check \in BOOLEAN, list \in Lists}
  \cup
  {[isPdf |-> isPdf, locked |-> locked, encrypted |-> encrypted, altered |-> altered,
    pageTree |-> tree, checkRevocation |-> TRUE, dictionaries |-> list] :
     isPdf \in BOOLEAN, locked \in BOOLEAN, encrypted \in BOOLEAN, altered \in BOOLEAN,
     tree \in BOOLEAN,
     list \in {<<>>, <<[Referenced(SoundSignature) EXCEPT !.badCms = TRUE]>>,
               <<Referenced(SoundSignature)>>}}

MCDocuments ==
  UNION {{[list[i].facts EXCEPT !.position = position] :
            i \in DOMAIN list, position \in {"last", "covered", "sibling"}} :
         list \in Lists \cup {<<Referenced(SoundSignature)>>}}
=============================================================================

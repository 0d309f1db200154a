------------------------ MODULE SignatureValidation ------------------------
(***************************************************************************)
(* The validation of one signature dictionary: verify_signature of         *)
(* rust/sd_trust_kit/src/lib.rs with the timestamp checks it calls         *)
(* (timestamp.rs), followed by the revocation pass of                      *)
(* verify_pdf_including_revocation_with_options.                           *)
(*                                                                         *)
(* The validator is a pipeline of stages.  Each stage appends steps to the *)
(* report and either hands over to the next stage or returns early with a  *)
(* verdict; there is one action per stage.  What a stage finds out about   *)
(* the bytes of the document (does the digest match, is there a path to an *)
(* anchor, ...) is a fact of the document, fixed in the initial state.     *)
(* Operators named Faulty... are slips this code could contain; no         *)
(* definition uses them.                                                   *)
(***************************************************************************)
EXTENDS Report

CONSTANT Documents   \* the signatures to validate, a set of Document records

ModificationKinds == {"dictionary", "shadowCopy", "fieldReference", "pages"}

(* What the checks of the code can tell apart about one signature and the  *)
(* options it is validated with.                                           *)
Document ==
  [kind : {"signature", "documentTimestamp"},
   subFilter : {"pades", "adbeSha1", "other"},
   \* last: it is the last in revision order; covered: another signature has
   \* a larger signed revision; sibling: neither.
   position : {"last", "covered", "sibling"},
   \* the bytes after the signed revision
   tail : {"none", "whitespace", "validationData", "validationDataRewriting",
           "rewriting", "other"},
   byteRangeCovers : BOOLEAN,
   modified : SUBSET ModificationKinds,
   duplicateField : BOOLEAN,
   \* the CMS container and its first signerInfo
   cmsParses : BOOLEAN,
   eContent : {"absent", "empty", "present"},
   unsupportedPolicy : BOOLEAN,
   malformedCutoff : BOOLEAN,
   contentTypeData : BOOLEAN,
   signerInfos : {"none", "one", "several"},
   signedAttrs : {"none", "conforming", "nonConforming"},
   digest : {"supported", "rsaSha1", "unsupported"},
   messageDigest : {"matches", "differs", "missing"},
   signerCertFound : BOOLEAN,
   signatureVerifies : BOOLEAN,
   signingCertAttr : BOOLEAN,
   \* a path to an anchor exists: always, never, only with the anchors and
   \* validity of the claimed signing time, only with those of now
   chain : {"trusted", "untrusted", "claimedOnly", "nowOnly"},
   keyUsage : {"allowed", "forbidden", "unreadable"},
   extKeyUsage : {"allowed", "forbidden", "unreadable"},
   \* the signature timestamp, or the token of a document timestamp
   token : {"absent", "unparseable", "noSigners", "wrongContentType", "present"},
   tstInfo : {"timed", "untimed", "unreadable"},
   imprintMatches : BOOLEAN,
   tsaCertFound : BOOLEAN,
   tsaSignature : BOOLEAN,
   tsaUsage : BOOLEAN,
   tsaPath : BOOLEAN,
   \* when the signer certificate is valid: at the token's time, now, ...
   validity : {"both", "tokenOnly", "nowOnly", "neither", "unreadable"},
   revocation : {"good", "unavailable", "revoked"},
   revokedAt : {"beforeToken", "afterToken", "future", "undated"},
   \* options
   timestampTrust : BOOLEAN,
   timedAnchors : BOOLEAN,
   checkRevocation : BOOLEAN]

\* A document timestamp always carries some token: its own CMS bytes.
ASSUME DocumentsAssumption ==
  Documents \subseteq {d \in Document : d.kind = "documentTimestamp" => d.token # "absent"}

VARIABLES
  doc,      \* the signature being validated and the options
  pc,       \* the stage that runs next
  steps,    \* the report's steps so far
  verdict,  \* the report's verdict, "none" before there is a report
  level     \* the report's PAdES level

vars == <<doc, pc, steps, verdict, level>>

Stage ==
  {"coverage", "revisions", "cms", "structure", "digest", "signature", "chain", "usage",
   "timestamp", "validity", "token", "tokenImprint", "tokenSignature", "tokenTrust",
   "reported", "closed"}

-----------------------------------------------------------------------------
(* Facts derived from a document.                                          *)

IsPadesBaseline(d) == d.subFilter = "pades"

HasLaterRevision(d) == d.tail # "none"

\* later_validation_data_revision_changes_existing_object, as it is called.
ValidationDataChange(d) ==
  /\ d.kind = "signature"
  /\ d.position # "covered"
  /\ d.tail \in {"validationDataRewriting", "rewriting"}

OnlyLaterValidationData(d) ==
  /\ d.tail \in {"validationData", "validationDataRewriting"}
  /\ ~ ValidationDataChange(d)

\* require_full_coverage holds for the last signature only.
CoverageWarning(d) ==
  /\ d.position = "last"
  /\ d.tail \notin {"none", "whitespace"}
  /\ ~ OnlyLaterValidationData(d)

ChecksBaseline(d) == IsPadesBaseline(d) /\ ~ CoverageWarning(d)

\* Timed anchor sets make both times the claimed signing time; without them
\* issuers are checked now once the signature value verifies.
ChainTrusted(d) ==
  \/ d.chain = "trusted"
  \/ d.chain = (IF d.timedAnchors \/ ~ d.signatureVerifies THEN "claimedOnly" ELSE "nowOnly")

ChecksSignerCertificate(d) == ChainTrusted(d) /\ ~ CoverageWarning(d)

ImprintOk(d) == d.tstInfo # "unreadable" /\ d.imprintMatches
TsaSignatureOk(d) == d.tsaCertFound /\ d.tsaSignature
TsaChainOk(d) == d.timestampTrust /\ d.tsaPath

-----------------------------------------------------------------------------
(* The steps each stage appends.                                           *)

When(condition, step) == IF condition THEN <<step>> ELSE <<>>

OkOr(condition, otherwise) == IF condition THEN "ok" ELSE otherwise

\* Without configured timestamp trust a missing property is only a warning.
TrustStatus(d, condition) ==
  OkOr(condition, IF d.timestampTrust THEN "fail" ELSE "warn")

CoverageStep(d) ==
  Noted("ByteRangeCoverage",
        OkOr(~ CoverageWarning(d), "warn"),
        IF OnlyLaterValidationData(d) THEN "validationData" ELSE "")

\* Slip: the changed pages are not looked at.
FaultyRevisionSteps(d) ==
  LET modified(kind) == When(kind \in d.modified, Plain("DocumentModifiedAfterSigning", "fail"))
  IN  modified("dictionary") \o modified("shadowCopy") \o modified("fieldReference")
        \o When(d.duplicateField, Plain("SignatureFieldResolution", "fail"))
        \o When(ValidationDataChange(d), Plain("DocumentModifiedAfterSigning", "fail"))

RevisionSteps(d) ==
  LET modified(kind) == When(kind \in d.modified, Plain("DocumentModifiedAfterSigning", "fail"))
  IN  modified("dictionary") \o modified("shadowCopy") \o modified("fieldReference")
        \o modified("pages")
        \o When(d.duplicateField, Plain("SignatureFieldResolution", "fail"))
        \o When(ValidationDataChange(d), Plain("DocumentModifiedAfterSigning", "fail"))

BaselineFailure == Plain("PadesBaselineRequirements", "fail")

StructureSteps(d) ==
  When(ChecksBaseline(d) /\ d.signerInfos = "several", BaselineFailure)
    \o When(ChecksBaseline(d) /\ d.eContent # "absent", BaselineFailure)
    \o When(ChecksBaseline(d) /\ ~ d.contentTypeData, BaselineFailure)

\* A signature without signed attributes covers the content directly.
SignatureStep(d) ==
  IF d.signedAttrs = "none"
  THEN Noted("SignatureVerifyContent", OkOr(d.signatureVerifies, "fail"),
             IF d.signatureVerifies THEN "" ELSE "content")
  ELSE Plain("SignatureVerifySignedAttributes", OkOr(d.signatureVerifies, "fail"))

ChainStep(d) == Plain("SignerCertificateChain", OkOr(ChainTrusted(d), "warn"))

UsageStatus(usage) ==
  CASE usage = "allowed" -> "ok" [] usage = "forbidden" -> "fail" [] OTHER -> "warn"

UsageSteps(d) ==
  When(ChecksSignerCertificate(d),
       Plain("SignerCertificateKeyUsage", UsageStatus(d.keyUsage)))
    \o When(ChecksSignerCertificate(d),
            Plain("SignerCertificateExtendedKeyUsage", UsageStatus(d.extKeyUsage)))

ImprintStep(d) == Plain("TsaMessageImprint", OkOr(ImprintOk(d), "fail"))
TsaSignatureStep(d) == Plain("TsaSignatureVerify", OkOr(TsaSignatureOk(d), "fail"))

TsaTrustSteps(d) ==
  When(d.tsaCertFound, Plain("TsaExtendedKeyUsage", TrustStatus(d, d.tsaUsage)))
    \o <<Plain("TsaCertificateChain", TrustStatus(d, d.tsaCertFound /\ TsaChainOk(d)))>>

\* verify_signature_timestamp
TimestampSteps(d) ==
  CASE d.token = "absent" -> <<Plain("TsaTimestamp", "skip")>>
    [] d.token = "present" -> <<ImprintStep(d), TsaSignatureStep(d)>> \o TsaTrustSteps(d)
    [] OTHER -> <<Plain("TsaTimestamp", "fail")>>

\* The token's time is read even from a timestamp that is not trusted.
TokenTimeKnown(d) == d.token = "present" /\ d.tstInfo = "timed"

\* Slip: the certificate is judged now, a trusted timestamp or not.
FaultyValidityStatus(d, so_far) ==
  IF d.validity = "unreadable" THEN "warn"
  ELSE OkOr(d.validity \in {"both", "nowOnly"}, "fail")

\* append_signer_certificate_validity_step: only a trusted timestamp can
\* vouch for an expired certificate, any timestamp can condemn it.
ValidityStatus(d, so_far) ==
  LET atToken == d.validity \in {"both", "tokenOnly"}
      now == d.validity \in {"both", "nowOnly"}
  IN  IF d.validity = "unreadable" THEN "warn"
      ELSE IF TokenTimeKnown(d) /\ ~ atToken THEN "fail"
      ELSE IF TokenTimeKnown(d) /\ TrustedTimestampSteps(so_far) THEN "ok"
      ELSE OkOr(now, "fail")

ValiditySteps(d, so_far) ==
  When(ChecksSignerCertificate(d),
       Plain("SignerCertificateValidity", ValidityStatus(d, so_far)))

-----------------------------------------------------------------------------
(* The revocation pass.                                                    *)

SignerCertificateAvailable(d) == d.cmsParses /\ d.signerInfos # "none" /\ d.signerCertFound

\* Slip: any timestamp excuses a later revocation, trusted or not.
FaultyRevokedLater(d, so_far) ==
  \/ d.revokedAt = "future"
  \/ d.revokedAt = "afterToken" /\ TokenTimeKnown(d)

\* Is the revocation later than the time the certificate is judged at: the
\* time of a trusted timestamp, or now.
RevokedLater(d, so_far) ==
  \/ d.revokedAt = "future"
  \/ /\ d.revokedAt = "afterToken"
     /\ TrustedTimestampSteps(so_far)
     /\ TokenTimeKnown(d)

RevocationStep(d, so_far) ==
  CASE ~ SignerCertificateAvailable(d) -> Plain("RevocationSigner", "skip")
    [] SignerCertificateAvailable(d) /\ d.revocation = "good" -> Plain("RevocationSigner", "ok")
    [] SignerCertificateAvailable(d) /\ d.revocation = "unavailable" ->
         Plain("RevocationSigner", "warn")
    [] OTHER -> IF RevokedLater(d, so_far) THEN Plain("RevocationSigner", "warn")
                ELSE Noted("RevocationSigner", "fail", "revoked")

\* refresh_preservation, when the signer certificate was found: a level once
\* unknown stays so.
LevelAfterRevocation(d, all, before) ==
  IF SignerCertificateAvailable(d) THEN LevelFor(all, before # "unknown") ELSE before

-----------------------------------------------------------------------------
Init ==
  /\ doc \in Documents
  /\ pc = "coverage"
  /\ steps = <<>>
  /\ verdict = "none"
  /\ level = "unknown"

Continue(stage, new) ==
  /\ pc' = stage
  /\ steps' = steps \o new
  /\ UNCHANGED <<doc, verdict, level>>

\* make_report
MakeReport(new, with) ==
  /\ pc' = "reported"
  /\ steps' = steps \o new
  /\ verdict' = with
  /\ level' = LevelFor(steps', IsPadesBaseline(doc))
  /\ UNCHANGED doc

Return(new) == MakeReport(new, VerdictFor(steps \o new))

CheckByteRangeCoverage ==
  /\ pc = "coverage"
  /\ IF doc.byteRangeCovers
     THEN Continue("revisions", <<Plain("ParsePDF", "ok"), CoverageStep(doc)>>)
     ELSE MakeReport(<<Plain("ParsePDF", "ok"), Plain("ByteRangeCoverage", "fail")>>, "invalid")

\* A covering byte range is always within bounds, so the ByteRangeBounds
\* return of the code is not a branch here.
CheckLaterRevisions ==
  /\ pc = "revisions"
  /\ Continue(IF doc.kind = "documentTimestamp" THEN "token" ELSE "cms", RevisionSteps(doc))

ParseCms ==
  /\ pc = "cms"
  /\ LET read == <<Plain("CmsStructure", "ok")>>
                   \o When(doc.eContent = "empty", Plain("SignatureVerifySignedAttributes", "fail"))
         unsupported == doc.unsupportedPolicy \/ doc.malformedCutoff
     IN  \/ ~ doc.cmsParses /\ MakeReport(<<Plain("CmsStructure", "fail")>>, "invalid")
         \/ doc.cmsParses /\ unsupported
              /\ MakeReport(read \o <<Plain("ParsePDF", "fail")>>, "error")
         \/ doc.cmsParses /\ ~ unsupported /\ Continue("structure", read)

CheckBaselineStructure ==
  /\ pc = "structure"
  /\ IF doc.signerInfos = "none"
     THEN MakeReport(StructureSteps(doc) \o <<Plain("SignerInfoPresent", "fail")>>, "invalid")
     ELSE Continue("digest",
            StructureSteps(doc)
              \o When(ChecksBaseline(doc) /\ doc.signedAttrs # "conforming", BaselineFailure))

CheckMessageDigest ==
  /\ pc = "digest"
  /\ CASE doc.digest # "supported" ->
            MakeReport(<<Noted("MessageDigestMatches", "fail",
                               IF doc.digest = "rsaSha1" THEN "rsaSha1" ELSE "")>>,
                       IF doc.digest = "rsaSha1" /\ doc.subFilter = "adbeSha1"
                       THEN "inconclusive" ELSE "invalid")
       [] doc.digest = "supported" /\ doc.signedAttrs = "none" ->
            Continue("signature", <<Plain("MessageDigestAttribute", "skip")>>)
       [] OTHER ->
            CASE doc.messageDigest = "missing" ->
                   MakeReport(<<Plain("MessageDigestAttribute", "fail")>>, "invalid")
              [] doc.messageDigest = "differs" ->
                   MakeReport(<<Plain("MessageDigestMatches", "fail")>>, "invalid")
              [] OTHER -> Continue("signature", <<Plain("MessageDigestMatches", "ok")>>)

VerifySignatureValue ==
  /\ pc = "signature"
  /\ IF doc.signerCertFound
     THEN Continue("chain",
            <<SignatureStep(doc)>>
              \o When(ChecksBaseline(doc) /\ ~ doc.signingCertAttr, BaselineFailure))
     ELSE Return(<<Plain("SignerCertificatePresent", "fail")>>)

BuildSignerChain ==
  /\ pc = "chain"
  /\ Continue("usage", <<ChainStep(doc)>>)

CheckKeyUsage ==
  /\ pc = "usage"
  /\ Continue("timestamp", UsageSteps(doc))

VerifySignatureTimestamp ==
  /\ pc = "timestamp"
  /\ Continue("validity", TimestampSteps(doc))

CheckSignerValidity ==
  /\ pc = "validity"
  /\ Return(ValiditySteps(doc, steps))

\* verify_document_timestamp
ParseDocumentTimestamp ==
  /\ pc = "token"
  /\ LET read == <<Plain("DocumentTimestamp", "ok")>>
         failure(kind) == <<Plain(kind, "fail")>>
     IN  \/ doc.token = "unparseable" /\ MakeReport(failure("DocumentTimestamp"), "invalid")
         \/ doc.token = "noSigners" /\ MakeReport(read \o failure("TsaTimestamp"), "invalid")
         \/ doc.token = "wrongContentType"
              /\ MakeReport(read \o failure("DocumentTimestamp"), "invalid")
         \/ doc.token = "present" /\ Continue("tokenImprint", read)

\* Slip: the early return's verdict is not that of its steps.
FaultyCheckDocumentImprint ==
  /\ pc = "tokenImprint"
  /\ IF ImprintOk(doc) THEN Continue("tokenSignature", <<ImprintStep(doc)>>)
     ELSE MakeReport(<<ImprintStep(doc)>>, "inconclusive")

CheckDocumentImprint ==
  /\ pc = "tokenImprint"
  /\ IF ImprintOk(doc) THEN Continue("tokenSignature", <<ImprintStep(doc)>>)
     ELSE MakeReport(<<ImprintStep(doc)>>, "invalid")

VerifyTokenSignature ==
  /\ pc = "tokenSignature"
  /\ IF TsaSignatureOk(doc) THEN Continue("tokenTrust", <<TsaSignatureStep(doc)>>)
     ELSE MakeReport(<<TsaSignatureStep(doc)>>, "invalid")

CheckTokenTrust ==
  /\ pc = "tokenTrust"
  /\ Return(TsaTrustSteps(doc))

\* Slip: the new verdict is that of the new step.
FaultyAppendRevocation ==
  /\ pc = "reported"
  /\ doc.checkRevocation
  /\ doc.kind = "signature"
  /\ pc' = "closed"
  /\ steps' = Append(steps, RevocationStep(doc, steps))
  /\ verdict' = VerdictFor(<<Last(steps')>>)
  /\ level' = LevelAfterRevocation(doc, steps', level)
  /\ UNCHANGED doc

\* append_revocation_step: it recomputes the verdict and the level.
AppendRevocation ==
  /\ pc = "reported"
  /\ doc.checkRevocation
  /\ doc.kind = "signature"
  /\ pc' = "closed"
  /\ steps' = Append(steps, RevocationStep(doc, steps))
  /\ verdict' = VerdictFor(steps')
  /\ level' = LevelAfterRevocation(doc, steps', level)
  /\ UNCHANGED doc

\* One stage of verify_signature.
ValidateStage ==
  \/ CheckByteRangeCoverage
  \/ CheckLaterRevisions
  \/ ParseCms
  \/ CheckBaselineStructure
  \/ CheckMessageDigest
  \/ VerifySignatureValue
  \/ BuildSignerChain
  \/ CheckKeyUsage
  \/ VerifySignatureTimestamp
  \/ CheckSignerValidity
  \/ ParseDocumentTimestamp
  \/ CheckDocumentImprint
  \/ VerifyTokenSignature
  \/ CheckTokenTrust

Next == ValidateStage \/ AppendRevocation

\* The validator is a function call: it runs until it returns.
Spec == Init /\ [][Next]_vars /\ WF_vars(Next)

-----------------------------------------------------------------------------
(* What a report may say, stated on the facts of the document.             *)

\* The report only ever holds steps the code can write, and no stage leaves a
\* verdict or a level outside their enumerations.
TypeOK ==
  /\ doc \in Document
  /\ pc \in Stage
  /\ steps \in Seq(Step)
  /\ verdict \in Verdict \cup {"none"}
  /\ level \in Level

Reported == pc \in {"reported", "closed"}

\* Nothing in the document contradicts the signature value.
Intact(d) ==
  /\ d.byteRangeCovers
  /\ d.modified = {}
  /\ ~ ValidationDataChange(d)
  /\ d.cmsParses
  /\ d.eContent # "empty"
  /\ ~ d.unsupportedPolicy
  /\ ~ d.malformedCutoff
  /\ d.signerInfos # "none"
  /\ d.digest = "supported"
  /\ d.signedAttrs # "none" => d.messageDigest = "matches"
  /\ d.signerCertFound
  /\ d.signatureVerifies

ProfileConforms(d) ==
  ChecksBaseline(d) =>
    /\ d.signerInfos = "one"
    /\ d.eContent = "absent"
    /\ d.contentTypeData
    /\ d.signedAttrs = "conforming"
    /\ d.signingCertAttr

TimestampTrusted(d) ==
  /\ d.token = "present"
  /\ ImprintOk(d)
  /\ TsaSignatureOk(d)
  /\ d.tsaUsage
  /\ TsaChainOk(d)

SignerAccepted(d) ==
  /\ ChainTrusted(d)
  /\ d.keyUsage = "allowed"
  /\ d.extKeyUsage = "allowed"
  /\ d.validity \in {"both", IF TokenTimeKnown(d) THEN "tokenOnly" ELSE "nowOnly"}

Earned(d) ==
  /\ ~ CoverageWarning(d)
  /\ ~ d.duplicateField
  /\ IF d.kind = "signature"
     THEN /\ Intact(d)
          /\ ProfileConforms(d)
          /\ SignerAccepted(d)
          /\ d.token = "absent" \/ TimestampTrusted(d)
     ELSE d.byteRangeCovers /\ d.modified = {} /\ TimestampTrusted(d)

\* A valid report is earned: every fact the pipeline looks at speaks for the
\* signature, and after the revocation pass so does the signer's status.  The
\* stages run in a fixed order with early returns and conditional steps: no
\* path skips a check and still ends in valid.
ValidIsEarned ==
  Reported /\ verdict = "valid" => Earned(doc) /\ (pc = "closed" => doc.revocation = "good")

\* And what is earned is granted: no stage raises a doubt about a signature all
\* of whose facts are good, whichever of its optional parts are absent.
EarnedIsValid ==
  Earned(doc) =>
    /\ pc = "reported" => verdict = "valid"
    /\ pc = "closed" /\ doc.revocation = "good" => verdict = "valid"

\* The PAdES level is the one the facts give: none unless the signature is
\* intact and conforms to the profile (where the profile is checked), T with a
\* trusted timestamp, LT when validation data follows and the signer's status
\* is known to be good.  It does not depend on the verdict.
EarnedLevel(d) ==
  IF ~ (/\ d.kind = "signature"
        /\ IsPadesBaseline(d)
        /\ Intact(d)
        /\ ProfileConforms(d)
        /\ ~ d.duplicateField)
  THEN "unknown"
  ELSE IF ~ TimestampTrusted(d) THEN "B"
  ELSE IF pc = "closed" /\ OnlyLaterValidationData(d) /\ d.revocation = "good"
       THEN "LT" ELSE "T"

LevelIsEarned == Reported => level = EarnedLevel(doc)

\* The verdicts the early returns write by hand agree with the verdict of the
\* steps they return, except for the Error verdicts and an unsupported RSA-SHA1
\* digest, whose two hand-written verdicts do not (lib.rs:570-577).
VerdictMatchesStandards ==
  Reported => verdict = VerdictFor(steps) \/ verdict = "error" \/ doc.digest = "rsaSha1"

\* A warning takes a timestamp that is present and sound but, without
\* configured trust, not trusted, on a signature or token without any other
\* doubt.  The validity and the revocation of the signer are not among the
\* facts: the timestamp's warning comes first and hides what they say.
WarningEarned(d) ==
  /\ ~ CoverageWarning(d)
  /\ ~ d.duplicateField
  /\ IF d.kind = "signature"
     THEN /\ Intact(d)
          /\ ProfileConforms(d)
          /\ ChainTrusted(d)
          /\ d.keyUsage = "allowed" /\ d.extKeyUsage = "allowed"
     ELSE d.byteRangeCovers /\ d.modified = {}
  /\ ~ d.timestampTrust
  /\ d.token = "present"
  /\ ImprintOk(d)
  /\ TsaSignatureOk(d)

\* A report is a warning exactly if that is so: no doubt about the bytes, the
\* profile, the chain or the coverage passes for a warning (report.rs:541-547
\* asks for the first warning only), and no early return, late check or
\* revocation pass turns an untrusted timestamp into anything else.
WarningIsEarned == Reported => (verdict = "warning" <=> WarningEarned(doc))

\* A certificate that is revoked by now is only excused by a trusted timestamp
\* from before its revocation; a timestamp that is merely present, or a claimed
\* signing time, never excuses it (lib.rs:1188-1231).
RevocationExcused ==
  /\ pc = "closed"
  /\ SignerCertificateAvailable(doc)
  /\ doc.revocation = "revoked"
  /\ ~ Failed(Last(steps))

ExcusedOnlyByTrustedTime ==
  RevocationExcused =>
    \/ doc.revokedAt = "future"
    \/ doc.revokedAt = "afterToken" /\ TimestampTrusted(doc) /\ doc.tstInfo = "timed"

\* The order in which a document report aggregates verdicts, the two red ones
\* taken together.
Severity(v) ==
  CASE v = "valid" -> 0 [] v = "warning" -> 1 [] v = "inconclusive" -> 2
    [] v \in {"invalid", "error"} -> 3

\* Looking at more evidence never makes a report better: the revocation pass
\* recomputes the verdict from the steps, and the recomputed one is at least as
\* severe as the one it replaces (RSA-SHA1 as above: an invalid report outside
\* adbe.pkcs7.sha1 becomes inconclusive).
RevocationNeverImproves ==
  [][AppendRevocation =>
       \/ Severity(verdict') >= Severity(verdict)
       \/ doc.digest = "rsaSha1" /\ doc.subFilter # "adbeSha1"]_vars

-----------------------------------------------------------------------------
(* A statement of the documentation.                                       *)

\* docs/xcframework-distribution.md:112-119: the verdict is the colour of the
\* badge, and red means modified, mismatched or revoked before signing.
Red(d) ==
  \/ d.modified # {}
  \/ d.signerCertFound /\ ~ d.signatureVerifies
  \/ /\ pc = "closed" /\ SignerCertificateAvailable(d)
     /\ d.revocation = "revoked" /\ d.revokedAt = "beforeToken" /\ TimestampTrusted(d)

\* The verdict shows what that list calls red: it is neither green (valid) nor
\* yellow (warning, inconclusive).
RedIsRed ==
  Reported /\ doc.kind = "signature" /\ Red(doc) => verdict \in {"invalid", "error"}
=============================================================================

--------------------- MODULE SignatureValidationProofs ---------------------
(***************************************************************************)
(* Proofs about SignatureValidation, for every set of documents: its type  *)
(* correctness, what a valid report, a warning and a level stand on, that  *)
(* the verdicts written by hand are the computed ones, and what the        *)
(* revocation pass may change.  CleanInv is enough for the first: a report *)
(* is valid only if every step is clean, and clean steps establish facts.  *)
(* The others need ReportInv: what the steps of any report, clean or not,  *)
(* tell about the document, and what their order adds to it.               *)
(***************************************************************************)
EXTENDS SignatureValidation, SequenceTheorems, WellFoundedInduction, TLAPS

-----------------------------------------------------------------------------
(* The steps each stage appends are steps.                                 *)

LEMMA PlainIsStep ==
  ASSUME NEW kind \in StepKind, NEW status \in Status
  PROVE  Plain(kind, status) \in Step /\ Plain(kind, status).status = status
BY DEF Plain, Noted, Step, Note

LEMMA NotedIsStep ==
  ASSUME NEW kind \in StepKind, NEW status \in Status, NEW note \in Note
  PROVE  Noted(kind, status, note) \in Step /\ Noted(kind, status, note).status = status
BY DEF Noted, Step

LEMMA WhenIsSeq ==
  ASSUME NEW condition, NEW step \in Step
  PROVE  When(condition, step) \in Seq(Step)
BY DEF When

LEMMA StatusTypes ==
  /\ \A condition : OkOr(condition, "fail") \in Status /\ OkOr(condition, "warn") \in Status
  /\ \A d, condition : TrustStatus(d, condition) \in Status
  /\ \A usage : UsageStatus(usage) \in Status
  /\ \A d, so_far : ValidityStatus(d, so_far) \in Status
BY DEF OkOr, TrustStatus, UsageStatus, ValidityStatus, Status

LEMMA KindTypes ==
  {"ParsePDF", "SignatureFieldResolution", "ByteRangeCoverage", "CmsStructure",
   "PadesBaselineRequirements", "SignerInfoPresent", "SignatureVerifySignedAttributes",
   "SignatureVerifyContent", "TsaMessageImprint", "TsaSignatureVerify",
   "TsaExtendedKeyUsage", "TsaCertificateChain", "TsaTimestamp", "DocumentTimestamp",
   "DocumentModifiedAfterSigning", "MessageDigestMatches", "MessageDigestAttribute",
   "SignerCertificatePresent", "SignerCertificateValidity", "SignerCertificateKeyUsage",
   "SignerCertificateExtendedKeyUsage", "SignerCertificateChain", "RevocationSigner"}
  \subseteq StepKind
BY DEF StepKind, FormatKinds, SignatureVerifyKinds, TimestampEvidenceKinds, SoftWarningKinds,
       TsaEvidenceKinds

LEMMA StatusLiterals == {"ok", "fail", "warn", "skip"} \subseteq Status
BY DEF Status

LEMMA PlainLiterals ==
  ASSUME NEW kind \in StepKind
  PROVE  /\ Plain(kind, "ok") \in Step
         /\ Plain(kind, "fail") \in Step
         /\ Plain(kind, "warn") \in Step
         /\ Plain(kind, "skip") \in Step
BY PlainIsStep, StatusLiterals

LEMMA RevisionStepsType ==
  ASSUME NEW d
  PROVE  RevisionSteps(d) \in Seq(Step)
<1>1. /\ Plain("DocumentModifiedAfterSigning", "fail") \in Step
      /\ Plain("SignatureFieldResolution", "fail") \in Step
  BY PlainLiterals, KindTypes
<1> QED  BY <1>1, WhenIsSeq DEF RevisionSteps

LEMMA StructureStepsType ==
  ASSUME NEW d
  PROVE  StructureSteps(d) \in Seq(Step) /\ BaselineFailure \in Step
<1>1. BaselineFailure \in Step  BY PlainLiterals, KindTypes DEF BaselineFailure
<1> QED  BY <1>1, WhenIsSeq DEF StructureSteps

LEMMA SingleStepTypes ==
  ASSUME NEW d
  PROVE  /\ CoverageStep(d) \in Step
         /\ SignatureStep(d) \in Step
         /\ ChainStep(d) \in Step
         /\ ImprintStep(d) \in Step
         /\ TsaSignatureStep(d) \in Step
<1>1. CoverageStep(d) \in Step
  BY NotedIsStep, StatusTypes, KindTypes DEF CoverageStep, Note
<1>2. SignatureStep(d) \in Step
  BY NotedIsStep, PlainIsStep, StatusTypes, KindTypes DEF SignatureStep, Note
<1>3. ChainStep(d) \in Step
  BY PlainIsStep, StatusTypes, KindTypes DEF ChainStep
<1>4. ImprintStep(d) \in Step /\ TsaSignatureStep(d) \in Step
  BY PlainIsStep, StatusTypes, KindTypes DEF ImprintStep, TsaSignatureStep
<1> QED  BY <1>1, <1>2, <1>3, <1>4

LEMMA UsageStepsType ==
  ASSUME NEW d
  PROVE  UsageSteps(d) \in Seq(Step)
<1>1. /\ Plain("SignerCertificateKeyUsage", UsageStatus(d.keyUsage)) \in Step
      /\ Plain("SignerCertificateExtendedKeyUsage", UsageStatus(d.extKeyUsage)) \in Step
  BY PlainIsStep, StatusTypes, KindTypes
<1> QED  BY <1>1, WhenIsSeq DEF UsageSteps

LEMMA TsaTrustStepsType ==
  ASSUME NEW d
  PROVE  TsaTrustSteps(d) \in Seq(Step)
<1>1. /\ Plain("TsaExtendedKeyUsage", TrustStatus(d, d.tsaUsage)) \in Step
      /\ Plain("TsaCertificateChain", TrustStatus(d, d.tsaCertFound /\ TsaChainOk(d))) \in Step
  BY PlainIsStep, StatusTypes, KindTypes
<1> QED  BY <1>1, WhenIsSeq DEF TsaTrustSteps

LEMMA TimestampStepsType ==
  ASSUME NEW d
  PROVE  TimestampSteps(d) \in Seq(Step)
<1>1. Plain("TsaTimestamp", "skip") \in Step /\ Plain("TsaTimestamp", "fail") \in Step
  BY PlainLiterals, KindTypes
<1>2. <<ImprintStep(d), TsaSignatureStep(d)>> \in Seq(Step)
  BY SingleStepTypes
<1> QED  BY <1>1, <1>2, TsaTrustStepsType DEF TimestampSteps

LEMMA ValidityStepsType ==
  ASSUME NEW d, NEW so_far
  PROVE  ValiditySteps(d, so_far) \in Seq(Step)
<1>1. Plain("SignerCertificateValidity", ValidityStatus(d, so_far)) \in Step
  BY PlainIsStep, StatusTypes, KindTypes
<1> QED  BY <1>1, WhenIsSeq DEF ValiditySteps

LEMMA RevocationStepType ==
  ASSUME NEW d, NEW so_far
  PROVE  RevocationStep(d, so_far) \in Step
<1>1. Noted("RevocationSigner", "fail", "revoked") \in Step
  BY NotedIsStep, KindTypes, StatusLiterals DEF Note
<1>2. /\ Plain("RevocationSigner", "ok") \in Step
      /\ Plain("RevocationSigner", "warn") \in Step
      /\ Plain("RevocationSigner", "skip") \in Step
  BY PlainLiterals, KindTypes
<1> QED  BY <1>1, <1>2 DEF RevocationStep

LEMMA ResultTypes ==
  ASSUME NEW s, NEW candidate
  PROVE  VerdictFor(s) \in Verdict /\ LevelFor(s, candidate) \in Level
BY DEF VerdictFor, LevelFor, Verdict, Level
-----------------------------------------------------------------------------
(* Type correctness.                                                       *)

LEMMA ContinueType ==
  ASSUME TypeOK, NEW stage \in Stage, NEW new \in Seq(Step), Continue(stage, new)
  PROVE  TypeOK'
BY DEF TypeOK, Continue

LEMMA MakeReportType ==
  ASSUME TypeOK, NEW new \in Seq(Step), NEW with \in Verdict, MakeReport(new, with)
  PROVE  TypeOK'
BY ResultTypes DEF TypeOK, MakeReport, Stage

LEMMA ReturnType ==
  ASSUME TypeOK, NEW new \in Seq(Step), Return(new)
  PROVE  TypeOK'
BY MakeReportType, ResultTypes DEF Return

LEMMA TypeStep == TypeOK /\ [Next]_vars => TypeOK'
<1> SUFFICES ASSUME TypeOK, [Next]_vars PROVE TypeOK'
  OBVIOUS
<1> DEFINE Literals(k) == /\ Plain(k, "ok") \in Step
                          /\ Plain(k, "fail") \in Step
                          /\ Plain(k, "warn") \in Step
                          /\ Plain(k, "skip") \in Step
<1>a. \A k \in StepKind : Literals(k)  BY PlainLiterals
<1>v. {"invalid", "error", "inconclusive"} \subseteq Verdict  BY DEF Verdict
<1> HIDE DEF Literals
<1>1. CASE CheckByteRangeCoverage
  <2>1. /\ <<Plain("ParsePDF", "ok"), CoverageStep(doc)>> \in Seq(Step)
        /\ <<Plain("ParsePDF", "ok"), Plain("ByteRangeCoverage", "fail")>> \in Seq(Step)
    BY <1>a, KindTypes, SingleStepTypes DEF Literals
  <2> QED  BY <1>1, <1>v, <2>1, ContinueType, MakeReportType DEF CheckByteRangeCoverage, Stage
<1>2. CASE CheckLaterRevisions
  BY <1>2, RevisionStepsType, ContinueType DEF CheckLaterRevisions, Stage
<1>3. CASE ParseCms
  <2> DEFINE read == <<Plain("CmsStructure", "ok")>>
                       \o When(doc.eContent = "empty",
                               Plain("SignatureVerifySignedAttributes", "fail"))
  <2>1. /\ Plain("CmsStructure", "ok") \in Step
        /\ Plain("CmsStructure", "fail") \in Step
        /\ Plain("SignatureVerifySignedAttributes", "fail") \in Step
        /\ Plain("ParsePDF", "fail") \in Step
    BY <1>a, KindTypes DEF Literals
  <2>2. read \in Seq(Step) /\ read \o <<Plain("ParsePDF", "fail")>> \in Seq(Step)
    BY <2>1, WhenIsSeq
  <2>3. <<Plain("CmsStructure", "fail")>> \in Seq(Step)  BY <2>1
  <2> HIDE DEF read
  <2> QED
    BY <1>3, <1>v, <2>2, <2>3, ContinueType, MakeReportType DEF ParseCms, Stage, read
<1>4. CASE CheckBaselineStructure
  <2>1. StructureSteps(doc) \o <<Plain("SignerInfoPresent", "fail")>> \in Seq(Step)
    BY <1>a, KindTypes, StructureStepsType DEF Literals
  <2>2. StructureSteps(doc)
          \o When(ChecksBaseline(doc) /\ doc.signedAttrs # "conforming", BaselineFailure)
        \in Seq(Step)
    BY StructureStepsType, WhenIsSeq
  <2> QED
    BY <1>4, <1>v, <2>1, <2>2, ContinueType, MakeReportType DEF CheckBaselineStructure, Stage
<1>5. CASE CheckMessageDigest
  <2> DEFINE note == IF doc.digest = "rsaSha1" THEN "rsaSha1" ELSE ""
             with == IF doc.digest = "rsaSha1" /\ doc.subFilter = "adbeSha1"
                     THEN "inconclusive" ELSE "invalid"
  <2>a. note \in Note  BY DEF Note
  <2>1. <<Noted("MessageDigestMatches", "fail", note)>> \in Seq(Step)
    <3> HIDE DEF note
    <3> QED  BY <2>a, NotedIsStep, KindTypes, StatusLiterals
  <2>2. with \in Verdict  BY <1>v
  <2>3. /\ <<Plain("MessageDigestAttribute", "skip")>> \in Seq(Step)
        /\ <<Plain("MessageDigestAttribute", "fail")>> \in Seq(Step)
        /\ <<Plain("MessageDigestMatches", "fail")>> \in Seq(Step)
        /\ <<Plain("MessageDigestMatches", "ok")>> \in Seq(Step)
    BY <1>a, KindTypes DEF Literals
  <2>4. CASE doc.digest # "supported"
    <3>1. MakeReport(<<Noted("MessageDigestMatches", "fail", note)>>, with)
      BY <1>5, <2>4 DEF CheckMessageDigest
    <3> HIDE DEF note, with
    <3> QED  BY <3>1, <2>1, <2>2, MakeReportType
  <2>5. CASE doc.digest = "supported"
    BY <1>5, <1>v, <2>3, <2>5, ContinueType, MakeReportType DEF CheckMessageDigest, Stage
  <2> QED  BY <2>4, <2>5
<1>6. CASE VerifySignatureValue
  <2>1. <<SignatureStep(doc)>>
          \o When(ChecksBaseline(doc) /\ ~ doc.signingCertAttr, BaselineFailure) \in Seq(Step)
    BY SingleStepTypes, StructureStepsType, WhenIsSeq
  <2>2. <<Plain("SignerCertificatePresent", "fail")>> \in Seq(Step)
    BY <1>a, KindTypes DEF Literals
  <2> QED  BY <1>6, <2>1, <2>2, ContinueType, ReturnType DEF VerifySignatureValue, Stage
<1>7. CASE BuildSignerChain
  <2>1. <<ChainStep(doc)>> \in Seq(Step)  BY SingleStepTypes
  <2> QED  BY <1>7, <2>1, ContinueType DEF BuildSignerChain, Stage
<1>8. CASE CheckKeyUsage
  BY <1>8, UsageStepsType, ContinueType DEF CheckKeyUsage, Stage
<1>9. CASE VerifySignatureTimestamp
  BY <1>9, TimestampStepsType, ContinueType DEF VerifySignatureTimestamp, Stage
<1>10. CASE CheckSignerValidity
  BY <1>10, ValidityStepsType, ReturnType DEF CheckSignerValidity
<1>11. CASE ParseDocumentTimestamp
  <2>1. /\ <<Plain("DocumentTimestamp", "ok")>> \in Seq(Step)
        /\ <<Plain("DocumentTimestamp", "fail")>> \in Seq(Step)
        /\ <<Plain("TsaTimestamp", "fail")>> \in Seq(Step)
    BY <1>a, KindTypes DEF Literals
  <2>2. /\ <<Plain("DocumentTimestamp", "ok")>> \o <<Plain("TsaTimestamp", "fail")>> \in Seq(Step)
        /\ <<Plain("DocumentTimestamp", "ok")>> \o <<Plain("DocumentTimestamp", "fail")>>
              \in Seq(Step)
    BY <2>1
  <2> QED
    BY <1>11, <1>v, <2>1, <2>2, ContinueType, MakeReportType DEF ParseDocumentTimestamp, Stage
<1>12. CASE CheckDocumentImprint
  <2>1. <<ImprintStep(doc)>> \in Seq(Step)  BY SingleStepTypes
  <2> QED  BY <1>12, <1>v, <2>1, ContinueType, MakeReportType DEF CheckDocumentImprint, Stage
<1>13. CASE VerifyTokenSignature
  <2>1. <<TsaSignatureStep(doc)>> \in Seq(Step)  BY SingleStepTypes
  <2> QED  BY <1>13, <1>v, <2>1, ContinueType, MakeReportType DEF VerifyTokenSignature, Stage
<1>14. CASE CheckTokenTrust
  BY <1>14, TsaTrustStepsType, ReturnType DEF CheckTokenTrust
<1>15. CASE AppendRevocation
  <2>1. steps' \in Seq(Step)
    BY <1>15, RevocationStepType DEF AppendRevocation, TypeOK
  <2>2. verdict' \in Verdict /\ level' \in Level
    BY <1>15, ResultTypes DEF AppendRevocation, LevelAfterRevocation, TypeOK
  <2> QED  BY <1>15, <2>1, <2>2 DEF AppendRevocation, TypeOK, Stage
<1>16. CASE UNCHANGED vars
  BY <1>16 DEF vars, TypeOK
<1> QED
  BY <1>1, <1>2, <1>3, <1>4, <1>5, <1>6, <1>7, <1>8, <1>9, <1>10, <1>11, <1>12, <1>13, <1>14,
     <1>15, <1>16 DEF Next, ValidateStage

\* The variables keep their types: every stage only appends well-formed steps,
\* and every return carries a verdict and a level.
THEOREM TypeCorrect == Spec => []TypeOK
<1>1. Init => TypeOK
  BY DocumentsAssumption DEF Init, TypeOK, Stage, Level
<1> QED  BY <1>1, TypeStep, PTL DEF Spec
-----------------------------------------------------------------------------
(* Clean step lists: those without a failure or a warning.                 *)

Clean(s) == \A i \in 1..Len(s) : s[i].status \in {"ok", "skip"}

LEMMA CleanConcat ==
  ASSUME NEW s \in Seq(Step), NEW t \in Seq(Step), Clean(s \o t)
  PROVE  Clean(s) /\ Clean(t)
<1>1. /\ Len(s) \in Nat /\ Len(t) \in Nat
      /\ Len(s \o t) = Len(s) + Len(t)
      /\ \A i \in 1..Len(s) : (s \o t)[i] = s[i]
      /\ \A i \in 1..Len(t) : (s \o t)[Len(s) + i] = t[i]
  BY ConcatProperties
<1>2. Clean(s)  BY <1>1 DEF Clean
<1>3. ASSUME NEW i \in 1..Len(t) PROVE t[i].status \in {"ok", "skip"}
  <2>1. Len(s) + i \in 1..Len(s \o t)  BY <1>1
  <2> QED  BY <1>1, <2>1 DEF Clean
<1> QED  BY <1>2, <1>3 DEF Clean

LEMMA CleanSingle ==
  ASSUME NEW step \in Step, Clean(<<step>>)
  PROVE  step.status \in {"ok", "skip"}
BY DEF Clean

LEMMA CleanWhen ==
  ASSUME NEW condition, NEW step \in Step, Clean(When(condition, step)), condition
  PROVE  step.status \in {"ok", "skip"}
BY DEF Clean, When

\* Only a clean list of steps has the verdict valid.
LEMMA ValidIsClean ==
  ASSUME NEW s \in Seq(Step), VerdictFor(s) = "valid"
  PROVE  Clean(s)
<1>1. StandardsFor(s).indication = "passed"
  BY DEF VerdictFor
<1>2. FailureStandards(s).indication \in {"indeterminate", "failed"}
  BY DEF FailureStandards, Standards
<1>3. ~ Occurs(s, Failed) /\ ~ Occurs(s, Warned)
  BY <1>1, <1>2 DEF StandardsFor, Standards
<1>4. ASSUME NEW i \in 1..Len(s) PROVE s[i].status \in {"ok", "skip"}
  <2>1. s[i] \in Step  BY ElementOfSeq
  <2>2. s[i].status # "fail" /\ s[i].status # "warn"
    BY <1>3 DEF Occurs, Failed, Warned
  <2> QED  BY <2>1, <2>2 DEF Step, Status
<1> QED  BY <1>4 DEF Clean

-----------------------------------------------------------------------------
(* What a clean stage has established about the document.                  *)

Covered(d) == d.byteRangeCovers /\ ~ CoverageWarning(d)

Unmodified(d) ==
  Covered(d) /\ d.modified = {} /\ ~ ValidationDataChange(d) /\ ~ d.duplicateField

CmsRead(d) ==
  /\ Unmodified(d)
  /\ d.cmsParses /\ d.eContent # "empty"
  /\ ~ d.unsupportedPolicy /\ ~ d.malformedCutoff

StructureRead(d) ==
  /\ CmsRead(d)
  /\ d.signerInfos # "none"
  /\ ChecksBaseline(d) =>
       /\ d.signerInfos = "one" /\ d.eContent = "absent"
       /\ d.contentTypeData /\ d.signedAttrs = "conforming"

DigestMatches(d) ==
  /\ StructureRead(d)
  /\ d.digest = "supported"
  /\ d.signedAttrs # "none" => d.messageDigest = "matches"

ValueVerifies(d) ==
  /\ DigestMatches(d)
  /\ d.signerCertFound /\ d.signatureVerifies
  /\ ChecksBaseline(d) => d.signingCertAttr

ChainVerifies(d) == ValueVerifies(d) /\ ChainTrusted(d)

UsageAllowed(d) == ChainVerifies(d) /\ d.keyUsage = "allowed" /\ d.extKeyUsage = "allowed"

Timestamped(d) == UsageAllowed(d) /\ (d.token = "absent" \/ TimestampTrusted(d))

LEMMA CleanCoverage ==
  ASSUME NEW d, CoverageStep(d).status \in {"ok", "skip"}
  PROVE  ~ CoverageWarning(d)
BY DEF CoverageStep, Noted, OkOr

LEMMA CleanRevisions ==
  ASSUME NEW d \in Document, Clean(RevisionSteps(d))
  PROVE  d.modified = {} /\ ~ ValidationDataChange(d) /\ ~ d.duplicateField
<1> DEFINE M == Plain("DocumentModifiedAfterSigning", "fail")
           F == Plain("SignatureFieldResolution", "fail")
<1>1. /\ M \in Step /\ F \in Step
      /\ M.status = "fail" /\ F.status = "fail"
  BY PlainIsStep, KindTypes, StatusLiterals
<1> DEFINE s1 == When("dictionary" \in d.modified, M)
           s2 == When("shadowCopy" \in d.modified, M)
           s3 == When("fieldReference" \in d.modified, M)
           s4 == When("pages" \in d.modified, M)
           s5 == When(d.duplicateField, F)
           s6 == When(ValidationDataChange(d), M)
<1>2. s1 \in Seq(Step) /\ s2 \in Seq(Step) /\ s3 \in Seq(Step) /\ s4 \in Seq(Step)
        /\ s5 \in Seq(Step) /\ s6 \in Seq(Step)
  BY <1>1, WhenIsSeq
<1>3. Clean(s1 \o s2 \o s3 \o s4 \o s5 \o s6)
  BY DEF RevisionSteps
<1> DEFINE p2 == s1 \o s2
           p3 == p2 \o s3
           p4 == p3 \o s4
           p5 == p4 \o s5
<1>4. Clean(s1) /\ Clean(s2) /\ Clean(s3) /\ Clean(s4) /\ Clean(s5) /\ Clean(s6)
  <2>1. Clean(p5 \o s6)  BY <1>3
  <2> HIDE DEF s1, s2, s3, s4, s5, s6
  <2>2. p2 \in Seq(Step) /\ p3 \in Seq(Step) /\ p4 \in Seq(Step) /\ p5 \in Seq(Step)
    BY <1>2
  <2> HIDE DEF p5
  <2>3. Clean(s6) /\ Clean(p5)  BY <1>2, <2>1, <2>2, CleanConcat
  <2> USE DEF p5
  <2> HIDE DEF p4
  <2>4. Clean(s5) /\ Clean(p4)  BY <1>2, <2>2, <2>3, CleanConcat
  <2> USE DEF p4
  <2> HIDE DEF p3
  <2>5. Clean(s4) /\ Clean(p3)  BY <1>2, <2>2, <2>4, CleanConcat
  <2> USE DEF p3
  <2> HIDE DEF p2
  <2>6. Clean(s3) /\ Clean(p2)  BY <1>2, <2>2, <2>5, CleanConcat
  <2> USE DEF p2
  <2>7. Clean(s2) /\ Clean(s1)  BY <1>2, <2>2, <2>6, CleanConcat
  <2> QED  BY <2>3, <2>4, <2>5, <2>6, <2>7
<1>5. ~ d.duplicateField /\ ~ ValidationDataChange(d)
  BY <1>1, <1>4, CleanWhen
<1>6. \A kind \in ModificationKinds : kind \notin d.modified
  BY <1>1, <1>4, CleanWhen DEF ModificationKinds
<1>7. d.modified \subseteq ModificationKinds  BY DEF Document
<1> QED  BY <1>5, <1>6, <1>7

LEMMA BaselineFails == BaselineFailure \in Step /\ BaselineFailure.status = "fail"
BY PlainIsStep, KindTypes, StatusLiterals DEF BaselineFailure

LEMMA CleanStructure ==
  ASSUME NEW d \in Document, Clean(StructureSteps(d)), ChecksBaseline(d)
  PROVE  d.signerInfos # "several" /\ d.eContent = "absent" /\ d.contentTypeData
<1> DEFINE s1 == When(ChecksBaseline(d) /\ d.signerInfos = "several", BaselineFailure)
           s2 == When(ChecksBaseline(d) /\ d.eContent # "absent", BaselineFailure)
           s3 == When(ChecksBaseline(d) /\ ~ d.contentTypeData, BaselineFailure)
<1>1. s1 \in Seq(Step) /\ s2 \in Seq(Step) /\ s3 \in Seq(Step)
  BY BaselineFails, WhenIsSeq
<1>2. Clean(s1 \o s2 \o s3)  BY DEF StructureSteps
<1>3. Clean(s1) /\ Clean(s2) /\ Clean(s3)
  <2> DEFINE p2 == s1 \o s2
  <2> HIDE DEF s1, s2, s3
  <2>1. p2 \in Seq(Step)  BY <1>1
  <2>2. Clean(p2 \o s3)  BY <1>2
  <2> HIDE DEF p2
  <2>3. Clean(p2) /\ Clean(s3)  BY <1>1, <2>1, <2>2, CleanConcat
  <2> USE DEF p2
  <2>4. Clean(s1) /\ Clean(s2)  BY <1>1, <2>3, CleanConcat
  <2> QED  BY <2>3, <2>4
<1> QED  BY <1>3, BaselineFails, CleanWhen

LEMMA CleanSignature ==
  ASSUME NEW d, SignatureStep(d).status \in {"ok", "skip"}
  PROVE  d.signatureVerifies
BY DEF SignatureStep, Noted, Plain, OkOr

LEMMA CleanChain ==
  ASSUME NEW d, ChainStep(d).status \in {"ok", "skip"}
  PROVE  ChainTrusted(d)
BY DEF ChainStep, Noted, Plain, OkOr

LEMMA CleanUsage ==
  ASSUME NEW d, Clean(UsageSteps(d)), ChecksSignerCertificate(d)
  PROVE  d.keyUsage = "allowed" /\ d.extKeyUsage = "allowed"
<1> DEFINE k == Plain("SignerCertificateKeyUsage", UsageStatus(d.keyUsage))
           e == Plain("SignerCertificateExtendedKeyUsage", UsageStatus(d.extKeyUsage))
           s1 == When(ChecksSignerCertificate(d), k)
           s2 == When(ChecksSignerCertificate(d), e)
<1>1. /\ k \in Step /\ k.status = UsageStatus(d.keyUsage)
      /\ e \in Step /\ e.status = UsageStatus(d.extKeyUsage)
  BY PlainIsStep, StatusTypes, KindTypes
<1>2. s1 \in Seq(Step) /\ s2 \in Seq(Step)  BY <1>1, WhenIsSeq
<1>3. Clean(s1) /\ Clean(s2)
  <2>1. Clean(s1 \o s2)  BY DEF UsageSteps
  <2> HIDE DEF s1, s2
  <2> QED  BY <1>2, <2>1, CleanConcat
<1>4. k.status \in {"ok", "skip"} /\ e.status \in {"ok", "skip"}
  <2> HIDE DEF k, e
  <2> QED  BY <1>1, <1>3, CleanWhen
<1> QED  BY <1>1, <1>4 DEF UsageStatus
LEMMA CleanImprint ==
  ASSUME NEW d, ImprintStep(d).status \in {"ok", "skip"}
  PROVE  ImprintOk(d)
BY DEF ImprintStep, Noted, Plain, OkOr

LEMMA CleanTsaSignature ==
  ASSUME NEW d, TsaSignatureStep(d).status \in {"ok", "skip"}
  PROVE  TsaSignatureOk(d)
BY DEF TsaSignatureStep, Noted, Plain, OkOr

LEMMA CleanTsaTrust ==
  ASSUME NEW d, Clean(TsaTrustSteps(d))
  PROVE  TsaChainOk(d) /\ d.tsaCertFound /\ d.tsaUsage
<1> DEFINE u == Plain("TsaExtendedKeyUsage", TrustStatus(d, d.tsaUsage))
           c == Plain("TsaCertificateChain", TrustStatus(d, d.tsaCertFound /\ TsaChainOk(d)))
           s1 == When(d.tsaCertFound, u)
<1>1. /\ u \in Step /\ u.status = TrustStatus(d, d.tsaUsage)
      /\ c \in Step /\ c.status = TrustStatus(d, d.tsaCertFound /\ TsaChainOk(d))
  BY PlainIsStep, StatusTypes, KindTypes
<1>2. s1 \in Seq(Step) /\ <<c>> \in Seq(Step)  BY <1>1, WhenIsSeq
<1>3. Clean(s1) /\ Clean(<<c>>)
  <2>1. Clean(s1 \o <<c>>)  BY DEF TsaTrustSteps
  <2> HIDE DEF s1, c
  <2> QED  BY <1>2, <2>1, CleanConcat
<1>4. c.status \in {"ok", "skip"}
  <2> HIDE DEF c
  <2> QED  BY <1>1, <1>3, CleanSingle
<1>5. d.tsaCertFound /\ TsaChainOk(d)  BY <1>1, <1>4 DEF TrustStatus, OkOr
<1>6. u.status \in {"ok", "skip"}
  <2> HIDE DEF u
  <2> QED  BY <1>1, <1>3, <1>5, CleanWhen
<1>7. d.tsaUsage  BY <1>1, <1>6 DEF TrustStatus, OkOr
<1> QED  BY <1>5, <1>7

LEMMA CleanTimestamp ==
  ASSUME NEW d, Clean(TimestampSteps(d))
  PROVE  d.token = "absent" \/ TimestampTrusted(d)
<1>1. CASE d.token = "absent"
  BY <1>1
<1>2. CASE d.token = "present"
  <2> DEFINE head == <<ImprintStep(d), TsaSignatureStep(d)>>
  <2>1. head \in Seq(Step)  BY SingleStepTypes
  <2>2. Clean(head \o TsaTrustSteps(d))  BY <1>2 DEF TimestampSteps
  <2>3. Clean(head) /\ Clean(TsaTrustSteps(d))
    <3> HIDE DEF head
    <3> QED  BY <2>1, <2>2, TsaTrustStepsType, CleanConcat
  <2>4. /\ ImprintStep(d).status \in {"ok", "skip"}
        /\ TsaSignatureStep(d).status \in {"ok", "skip"}
    <3>1. Len(head) = 2 /\ head[1] = ImprintStep(d) /\ head[2] = TsaSignatureStep(d)
      OBVIOUS
    <3> HIDE DEF head
    <3> QED  BY <2>3, <3>1 DEF Clean
  <2> QED  BY <1>2, <2>3, <2>4, CleanImprint, CleanTsaSignature, CleanTsaTrust
           DEF TimestampTrusted
<1>3. CASE d.token \notin {"absent", "present"}
  <2> DEFINE f == Plain("TsaTimestamp", "fail")
  <2>1. f \in Step /\ f.status = "fail"  BY PlainIsStep, KindTypes, StatusLiterals
  <2>2. Clean(<<f>>)  BY <1>3 DEF TimestampSteps
  <2> HIDE DEF f
  <2> QED  BY <2>1, <2>2, CleanSingle
<1> QED  BY <1>1, <1>2, <1>3

LEMMA CleanValidity ==
  ASSUME NEW d, NEW so_far, Clean(ValiditySteps(d, so_far)), ChecksSignerCertificate(d),
         d \in Document
  PROVE  d.validity \in {"both", IF TokenTimeKnown(d) THEN "tokenOnly" ELSE "nowOnly"}
<1> DEFINE v == Plain("SignerCertificateValidity", ValidityStatus(d, so_far))
<1>1. v \in Step /\ v.status = ValidityStatus(d, so_far)
  BY PlainIsStep, StatusTypes, KindTypes
<1>2. Clean(When(ChecksSignerCertificate(d), v))  BY DEF ValiditySteps
<1>3. ValidityStatus(d, so_far) \in {"ok", "skip"}
  <2> HIDE DEF v
  <2> QED  BY <1>1, <1>2, CleanWhen
<1>4. d.validity \in {"both", "tokenOnly", "nowOnly", "neither", "unreadable"}
  BY DEF Document
<1> QED  BY <1>3, <1>4 DEF ValidityStatus, OkOr

LEMMA CleanRevocation ==
  ASSUME NEW d, NEW so_far, SignerCertificateAvailable(d),
         RevocationStep(d, so_far).status \in {"ok", "skip"}
  PROVE  d.revocation = "good"
BY DEF RevocationStep, Plain, Noted
-----------------------------------------------------------------------------
(* The inductive invariant: as long as the report is clean, every stage    *)
(* that is behind has established its facts.  Return values written by     *)
(* hand are never valid, so a valid report is clean.                       *)

CleanEstablishes(d, stage) ==
  /\ stage = "revisions" => Covered(d)
  /\ stage = "cms" => Unmodified(d)
  /\ stage = "structure" => CmsRead(d)
  /\ stage = "digest" => StructureRead(d)
  /\ stage = "signature" => DigestMatches(d)
  /\ stage = "chain" => ValueVerifies(d)
  /\ stage = "usage" => ChainVerifies(d)
  /\ stage = "timestamp" => UsageAllowed(d)
  /\ stage = "validity" => Timestamped(d)
  /\ stage = "token" => Unmodified(d)
  /\ stage = "tokenImprint" => Unmodified(d) /\ d.token = "present"
  /\ stage = "tokenSignature" => Unmodified(d) /\ d.token = "present" /\ ImprintOk(d)
  /\ stage = "tokenTrust" =>
       Unmodified(d) /\ d.token = "present" /\ ImprintOk(d) /\ TsaSignatureOk(d)
  /\ stage = "reported" => Earned(d)
  /\ stage = "closed" => Earned(d) /\ d.revocation = "good"

SignatureStages ==
  {"cms", "structure", "digest", "signature", "chain", "usage", "timestamp", "validity"}
TokenStages == {"token", "tokenImprint", "tokenSignature", "tokenTrust"}

CleanInv ==
  /\ TypeOK
  /\ pc \in SignatureStages => doc.kind = "signature"
  /\ pc \in TokenStages => doc.kind = "documentTimestamp"
  /\ Clean(steps) => CleanEstablishes(doc, pc)
  /\ Reported /\ verdict = "valid" => Clean(steps)

\* A stage that hands over keeps the invariant if its clean steps establish
\* the facts of the next stage.
LEMMA CleanContinue ==
  ASSUME CleanInv, NEW stage \in Stage \ {"reported", "closed"}, NEW new \in Seq(Step),
         Continue(stage, new),
         stage \in SignatureStages => doc.kind = "signature",
         stage \in TokenStages => doc.kind = "documentTimestamp",
         Clean(steps) /\ Clean(new) => CleanEstablishes(doc, stage)
  PROVE  CleanInv'
<1>1. TypeOK'  BY ContinueType DEF CleanInv
<1>2. doc' = doc /\ pc' = stage /\ steps' = steps \o new  BY DEF Continue
<1>3. Clean(steps') => Clean(steps) /\ Clean(new)
  BY <1>2, CleanConcat DEF CleanInv, TypeOK
<1>4. Clean(steps') => CleanEstablishes(doc', pc')  BY <1>2, <1>3
<1>5. ~ Reported'  BY <1>2 DEF Reported
<1> QED  BY <1>1, <1>2, <1>4, <1>5 DEF CleanInv

\* A return whose verdict is written by hand appends a failure.
LEMMA CleanFailure ==
  ASSUME CleanInv, NEW new \in Seq(Step), NEW with \in Verdict \ {"valid"},
         MakeReport(new, with), ~ Clean(new)
  PROVE  CleanInv'
<1>1. TypeOK'  BY MakeReportType DEF CleanInv
<1>2. doc' = doc /\ pc' = "reported" /\ steps' = steps \o new /\ verdict' = with
  BY DEF MakeReport
<1>3. ~ Clean(steps')
  BY <1>2, CleanConcat DEF CleanInv, TypeOK
<1> QED  BY <1>1, <1>2, <1>3 DEF CleanInv, SignatureStages, TokenStages

\* A return whose verdict is computed is valid only if it is clean.
LEMMA CleanReturn ==
  ASSUME CleanInv, NEW new \in Seq(Step), Return(new),
         Clean(steps) /\ Clean(new) => Earned(doc)
  PROVE  CleanInv'
<1>1. TypeOK'  BY ReturnType DEF CleanInv
<1>2. /\ doc' = doc /\ pc' = "reported" /\ steps' = steps \o new
      /\ verdict' = VerdictFor(steps \o new)
  BY DEF Return, MakeReport
<1>3. Clean(steps') => Clean(steps) /\ Clean(new)
  BY <1>2, CleanConcat DEF CleanInv, TypeOK
<1>4. verdict' = "valid" => Clean(steps')
  <2>1. steps \o new \in Seq(Step)  BY DEF CleanInv, TypeOK
  <2> QED  BY <1>2, <2>1, ValidIsClean
<1>5. Clean(steps') => CleanEstablishes(doc', pc')  BY <1>2, <1>3 DEF CleanEstablishes
<1> QED  BY <1>1, <1>2, <1>4, <1>5 DEF CleanInv, SignatureStages, TokenStages

LEMMA FailureIsNotClean ==
  ASSUME NEW step \in Step, step.status = "fail"
  PROVE  ~ Clean(<<step>>) /\ \A s \in Seq(Step) : ~ Clean(s \o <<step>>)
<1>1. ~ Clean(<<step>>)  BY CleanSingle
<1>2. <<step>> \in Seq(Step)  OBVIOUS
<1> QED  BY <1>1, <1>2, CleanConcat

LEMMA PlainFailure ==
  ASSUME NEW kind \in StepKind
  PROVE  /\ <<Plain(kind, "fail")>> \in Seq(Step)
         /\ ~ Clean(<<Plain(kind, "fail")>>)
         /\ \A s \in Seq(Step) : /\ s \o <<Plain(kind, "fail")>> \in Seq(Step)
                                 /\ ~ Clean(s \o <<Plain(kind, "fail")>>)
<1> DEFINE step == Plain(kind, "fail")
<1>1. step \in Step /\ step.status = "fail"  BY PlainIsStep, StatusLiterals
<1> HIDE DEF step
<1>2. <<step>> \in Seq(Step)  BY <1>1
<1>3. \A s \in Seq(Step) : s \o <<step>> \in Seq(Step)  BY <1>2
<1>4. ~ Clean(<<step>>) /\ \A s \in Seq(Step) : ~ Clean(s \o <<step>>)
  BY <1>1, FailureIsNotClean
<1> QED  BY <1>2, <1>3, <1>4 DEF step

-----------------------------------------------------------------------------
LEMMA CleanStep == CleanInv /\ [Next]_vars => CleanInv'
<1> SUFFICES ASSUME CleanInv, [Next]_vars PROVE CleanInv'
  OBVIOUS
<1>t. doc \in Document /\ steps \in Seq(Step)  BY DEF CleanInv, TypeOK
<1>k. doc.kind \in {"signature", "documentTimestamp"}  BY <1>t DEF Document
<1>v. {"invalid", "error", "inconclusive"} \subseteq Verdict \ {"valid"}  BY DEF Verdict
<1> USE <1>t, <1>k, <1>v
<1>1. CASE CheckByteRangeCoverage
  <2> DEFINE ok == <<Plain("ParsePDF", "ok"), CoverageStep(doc)>>
             fail == <<Plain("ParsePDF", "ok"), Plain("ByteRangeCoverage", "fail")>>
  <2>1. Plain("ParsePDF", "ok") \in Step /\ Plain("ByteRangeCoverage", "fail") \in Step
    BY PlainLiterals, KindTypes
  <2>2. ok \in Seq(Step) /\ fail \in Seq(Step)  BY <2>1, SingleStepTypes
  <2>3. ~ Clean(fail)
    <3>1. Len(fail) = 2 /\ fail[2].status = "fail"  BY PlainIsStep, KindTypes, StatusLiterals
    <3> QED  BY <3>1 DEF Clean
  <2>4. Clean(ok) => ~ CoverageWarning(doc)
    <3>1. Len(ok) = 2 /\ ok[2] = CoverageStep(doc)  OBVIOUS
    <3> HIDE DEF ok
    <3> QED  BY <3>1, CleanCoverage DEF Clean
  <2>5. CASE doc.byteRangeCovers
    <3>1. Continue("revisions", ok)  BY <1>1, <2>5 DEF CheckByteRangeCoverage
    <3>2. Clean(ok) => CleanEstablishes(doc, "revisions")
      BY <2>4, <2>5 DEF CleanEstablishes, Covered
    <3> HIDE DEF ok
    <3> QED
      BY <3>1, <3>2, <2>2, CleanContinue DEF Stage, SignatureStages, TokenStages
  <2>6. CASE ~ doc.byteRangeCovers
    <3>1. MakeReport(fail, "invalid")  BY <1>1, <2>6 DEF CheckByteRangeCoverage
    <3> HIDE DEF fail
    <3> QED  BY <3>1, <2>2, <2>3, CleanFailure
  <2> QED  BY <2>5, <2>6
<1>2. CASE CheckLaterRevisions
  <2> DEFINE next == IF doc.kind = "documentTimestamp" THEN "token" ELSE "cms"
  <2>1. pc = "revisions" /\ Continue(next, RevisionSteps(doc))
    BY <1>2 DEF CheckLaterRevisions
  <2>2. Clean(steps) /\ Clean(RevisionSteps(doc)) => Unmodified(doc)
    BY <2>1, CleanRevisions DEF CleanInv, CleanEstablishes, Unmodified
  <2>3. Clean(steps) /\ Clean(RevisionSteps(doc)) => CleanEstablishes(doc, next)
    BY <2>2 DEF CleanEstablishes
  <2>4. /\ next \in Stage \ {"reported", "closed"}
        /\ next \in SignatureStages => doc.kind = "signature"
        /\ next \in TokenStages => doc.kind = "documentTimestamp"
    BY DEF Stage, SignatureStages, TokenStages
  <2> HIDE DEF next
  <2> QED  BY <2>1, <2>3, <2>4, RevisionStepsType, CleanContinue
<1>3. CASE ParseCms
  <2> DEFINE e == Plain("SignatureVerifySignedAttributes", "fail")
             w == When(doc.eContent = "empty", e)
             read == <<Plain("CmsStructure", "ok")>> \o w
             unsupported == doc.unsupportedPolicy \/ doc.malformedCutoff
  <2>1. Plain("CmsStructure", "ok") \in Step /\ e \in Step /\ e.status = "fail"
    BY PlainLiterals, PlainIsStep, KindTypes, StatusLiterals
  <2>2. w \in Seq(Step) /\ read \in Seq(Step)  BY <2>1, WhenIsSeq
  <2>3. Clean(read) => doc.eContent # "empty"
    <3>1. ASSUME Clean(read) PROVE Clean(w)
      <4> HIDE DEF w
      <4>1. <<Plain("CmsStructure", "ok")>> \in Seq(Step)  BY <2>1
      <4> QED  BY <3>1, <4>1, <2>2, CleanConcat
    <3> HIDE DEF e
    <3> QED  BY <3>1, <2>1, CleanWhen
  <2>4. /\ pc = "cms"
        /\ \/ ~ doc.cmsParses /\ MakeReport(<<Plain("CmsStructure", "fail")>>, "invalid")
           \/ MakeReport(read \o <<Plain("ParsePDF", "fail")>>, "error")
           \/ doc.cmsParses /\ ~ unsupported /\ Continue("structure", read)
    BY <1>3 DEF ParseCms
  <2> HIDE DEF read
  <2>5. CASE MakeReport(<<Plain("CmsStructure", "fail")>>, "invalid")
    BY <2>5, PlainFailure, KindTypes, CleanFailure
  <2>6. CASE MakeReport(read \o <<Plain("ParsePDF", "fail")>>, "error")
    BY <2>2, <2>6, PlainFailure, KindTypes, CleanFailure
  <2>7. CASE doc.cmsParses /\ ~ unsupported /\ Continue("structure", read)
    <3>1. Clean(steps) /\ Clean(read) => CleanEstablishes(doc, "structure")
      BY <2>3, <2>4, <2>7 DEF CleanInv, CleanEstablishes, CmsRead
    <3> QED
      BY <2>2, <2>4, <2>7, <3>1, CleanContinue
      DEF CleanInv, Stage, SignatureStages, TokenStages
  <2> QED  BY <2>4, <2>5, <2>6, <2>7
<1>4. CASE CheckBaselineStructure
  <2> DEFINE b == When(ChecksBaseline(doc) /\ doc.signedAttrs # "conforming", BaselineFailure)
             new == StructureSteps(doc) \o b
  <2>1. b \in Seq(Step) /\ new \in Seq(Step)  BY StructureStepsType, WhenIsSeq
  <2>2. CASE doc.signerInfos = "none"
    <3>1. MakeReport(StructureSteps(doc) \o <<Plain("SignerInfoPresent", "fail")>>, "invalid")
      BY <1>4, <2>2 DEF CheckBaselineStructure
    <3> QED  BY <3>1, StructureStepsType, PlainFailure, KindTypes, CleanFailure
  <2>3. CASE doc.signerInfos # "none"
    <3>1. pc = "structure" /\ Continue("digest", new)
      BY <1>4, <2>3 DEF CheckBaselineStructure
    <3>2. Clean(new) => Clean(StructureSteps(doc)) /\ Clean(b)
      <4> HIDE DEF b
      <4> QED  BY <2>1, StructureStepsType, CleanConcat
    <3>3. Clean(new) /\ ChecksBaseline(doc) =>
            /\ doc.signerInfos = "one" /\ doc.eContent = "absent"
            /\ doc.contentTypeData /\ doc.signedAttrs = "conforming"
      <4>1. doc.signerInfos \in {"none", "one", "several"}  BY DEF Document
      <4> HIDE DEF new
      <4> QED  BY <2>3, <3>2, <4>1, CleanStructure, CleanWhen, BaselineFails
    <3>4. Clean(steps) /\ Clean(new) => CleanEstablishes(doc, "digest")
      <4> HIDE DEF new
      <4> QED  BY <2>3, <3>1, <3>3 DEF CleanInv, CleanEstablishes, StructureRead
    <3> HIDE DEF new
    <3> QED
      BY <2>1, <3>1, <3>4, CleanContinue DEF CleanInv, Stage, SignatureStages, TokenStages
  <2> QED  BY <2>2, <2>3
<1>5. CASE CheckMessageDigest
  <2> DEFINE note == IF doc.digest = "rsaSha1" THEN "rsaSha1" ELSE ""
             with == IF doc.digest = "rsaSha1" /\ doc.subFilter = "adbeSha1"
                     THEN "inconclusive" ELSE "invalid"
             skip == <<Plain("MessageDigestAttribute", "skip")>>
             ok == <<Plain("MessageDigestMatches", "ok")>>
  <2>1. pc = "digest"  BY <1>5 DEF CheckMessageDigest
  <2>2. CASE doc.digest # "supported"
    <3>1. MakeReport(<<Noted("MessageDigestMatches", "fail", note)>>, with)
      BY <1>5, <2>2 DEF CheckMessageDigest
    <3>2. note \in Note /\ with \in Verdict \ {"valid"}  BY DEF Note
    <3> HIDE DEF note, with
    <3> DEFINE step == Noted("MessageDigestMatches", "fail", note)
    <3>3. step \in Step /\ step.status = "fail"
      BY <3>2, NotedIsStep, KindTypes, StatusLiterals
    <3> HIDE DEF step
    <3>4. <<step>> \in Seq(Step) /\ ~ Clean(<<step>>)  BY <3>3, FailureIsNotClean
    <3> QED  BY <3>1, <3>2, <3>4, CleanFailure DEF step
  <2>3. CASE doc.digest = "supported"
    <3>1. skip \in Seq(Step) /\ ok \in Seq(Step)  BY PlainLiterals, KindTypes
    <3>2. CASE doc.signedAttrs = "none"
      <4>1. Continue("signature", skip)  BY <1>5, <2>3, <3>2 DEF CheckMessageDigest
      <4>2. Clean(steps) => CleanEstablishes(doc, "signature")
        BY <2>1, <2>3, <3>2 DEF CleanInv, CleanEstablishes, DigestMatches
      <4> HIDE DEF skip
      <4> QED
        BY <2>1, <3>1, <4>1, <4>2, CleanContinue
        DEF CleanInv, Stage, SignatureStages, TokenStages
    <3>3. CASE doc.signedAttrs # "none" /\ doc.messageDigest = "missing"
      <4>1. MakeReport(<<Plain("MessageDigestAttribute", "fail")>>, "invalid")
        BY <1>5, <2>3, <3>3 DEF CheckMessageDigest
      <4> QED  BY <4>1, PlainFailure, KindTypes, CleanFailure
    <3>4. CASE doc.signedAttrs # "none" /\ doc.messageDigest = "differs"
      <4>1. MakeReport(<<Plain("MessageDigestMatches", "fail")>>, "invalid")
        BY <1>5, <2>3, <3>4 DEF CheckMessageDigest
      <4> QED  BY <4>1, PlainFailure, KindTypes, CleanFailure
    <3>5. CASE doc.signedAttrs # "none" /\ doc.messageDigest \notin {"missing", "differs"}
      <4>1. Continue("signature", ok)  BY <1>5, <2>3, <3>5 DEF CheckMessageDigest
      <4>2. doc.messageDigest \in {"matches", "differs", "missing"}  BY DEF Document
      <4>3. Clean(steps) => CleanEstablishes(doc, "signature")
        BY <2>1, <2>3, <3>5, <4>2 DEF CleanInv, CleanEstablishes, DigestMatches
      <4> HIDE DEF ok
      <4> QED
        BY <2>1, <3>1, <4>1, <4>3, CleanContinue
        DEF CleanInv, Stage, SignatureStages, TokenStages
    <3> QED  BY <3>2, <3>3, <3>4, <3>5
  <2> QED  BY <2>2, <2>3
<1>6. CASE VerifySignatureValue
  <2> DEFINE b == When(ChecksBaseline(doc) /\ ~ doc.signingCertAttr, BaselineFailure)
             new == <<SignatureStep(doc)>> \o b
  <2>1. pc = "signature"  BY <1>6 DEF VerifySignatureValue
  <2>2. CASE doc.signerCertFound
    <3>1. Continue("chain", new)  BY <1>6, <2>2 DEF VerifySignatureValue
    <3>2. <<SignatureStep(doc)>> \in Seq(Step) /\ b \in Seq(Step) /\ new \in Seq(Step)
      BY SingleStepTypes, StructureStepsType, WhenIsSeq
    <3>3. Clean(new) => Clean(<<SignatureStep(doc)>>) /\ Clean(b)
      <4> HIDE DEF b
      <4> QED  BY <3>2, CleanConcat
    <3>4. Clean(new) => doc.signatureVerifies
      <4> HIDE DEF new
      <4> QED  BY <3>3, SingleStepTypes, CleanSingle, CleanSignature
    <3>5. Clean(new) /\ ChecksBaseline(doc) => doc.signingCertAttr
      <4> HIDE DEF new
      <4> QED  BY <3>3, BaselineFails, CleanWhen
    <3> HIDE DEF new
    <3>6. Clean(steps) /\ Clean(new) => CleanEstablishes(doc, "chain")
      BY <2>1, <2>2, <3>4, <3>5 DEF CleanInv, CleanEstablishes, ValueVerifies
    <3> QED
      BY <2>1, <3>1, <3>2, <3>6, CleanContinue
      DEF CleanInv, Stage, SignatureStages, TokenStages
  <2>3. CASE ~ doc.signerCertFound
    <3>1. Return(<<Plain("SignerCertificatePresent", "fail")>>)
      BY <1>6, <2>3 DEF VerifySignatureValue
    <3> QED  BY <3>1, PlainFailure, KindTypes, CleanReturn
  <2> QED  BY <2>2, <2>3
<1>7. CASE BuildSignerChain
  <2>1. pc = "chain" /\ Continue("usage", <<ChainStep(doc)>>)  BY <1>7 DEF BuildSignerChain
  <2>2. <<ChainStep(doc)>> \in Seq(Step)  BY SingleStepTypes
  <2>3. Clean(steps) /\ Clean(<<ChainStep(doc)>>) => CleanEstablishes(doc, "usage")
    BY <2>1, SingleStepTypes, CleanSingle, CleanChain
    DEF CleanInv, CleanEstablishes, ChainVerifies
  <2> QED
    BY <2>1, <2>2, <2>3, CleanContinue DEF CleanInv, Stage, SignatureStages, TokenStages
<1>8. CASE CheckKeyUsage
  <2>1. pc = "usage" /\ Continue("timestamp", UsageSteps(doc))  BY <1>8 DEF CheckKeyUsage
  <2>2. ChainVerifies(doc) => ChecksSignerCertificate(doc)
    BY DEF ChainVerifies, ValueVerifies, DigestMatches, StructureRead, CmsRead, Unmodified,
           Covered, ChecksSignerCertificate
  <2>3. Clean(steps) /\ Clean(UsageSteps(doc)) => CleanEstablishes(doc, "timestamp")
    BY <2>1, <2>2, CleanUsage DEF CleanInv, CleanEstablishes, UsageAllowed
  <2> QED
    BY <2>1, <2>3, UsageStepsType, CleanContinue
    DEF CleanInv, Stage, SignatureStages, TokenStages
<1>9. CASE VerifySignatureTimestamp
  <2>1. pc = "timestamp" /\ Continue("validity", TimestampSteps(doc))
    BY <1>9 DEF VerifySignatureTimestamp
  <2>2. Clean(steps) /\ Clean(TimestampSteps(doc)) => CleanEstablishes(doc, "validity")
    BY <2>1, CleanTimestamp DEF CleanInv, CleanEstablishes, Timestamped
  <2> QED
    BY <2>1, <2>2, TimestampStepsType, CleanContinue
    DEF CleanInv, Stage, SignatureStages, TokenStages
<1>10. CASE CheckSignerValidity
  <2>1. pc = "validity" /\ Return(ValiditySteps(doc, steps))  BY <1>10 DEF CheckSignerValidity
  <2>2. doc.kind = "signature"  BY <2>1 DEF CleanInv, SignatureStages
  <2>3. ASSUME Clean(steps), Clean(ValiditySteps(doc, steps)) PROVE Earned(doc)
    <3>1. Timestamped(doc)  BY <2>1, <2>3 DEF CleanInv, CleanEstablishes
    <3>2. ChecksSignerCertificate(doc)
      BY <3>1 DEF Timestamped, UsageAllowed, ChainVerifies, ValueVerifies, DigestMatches,
                  StructureRead, CmsRead, Unmodified, Covered, ChecksSignerCertificate
    <3>3. doc.validity \in {"both", IF TokenTimeKnown(doc) THEN "tokenOnly" ELSE "nowOnly"}
      BY <2>3, <3>2, CleanValidity
    <3> QED
      BY <2>2, <3>1, <3>3
      DEF Timestamped, UsageAllowed, ChainVerifies, ValueVerifies, DigestMatches, StructureRead,
          CmsRead, Unmodified, Covered, Earned, Intact, ProfileConforms, SignerAccepted
  <2> QED  BY <2>1, <2>3, ValidityStepsType, CleanReturn
<1>11. CASE ParseDocumentTimestamp
  <2> DEFINE read == <<Plain("DocumentTimestamp", "ok")>>
  <2>1. pc = "token"  BY <1>11 DEF ParseDocumentTimestamp
  <2>2. read \in Seq(Step)  BY PlainLiterals, KindTypes
  <2>3. \/ MakeReport(<<Plain("DocumentTimestamp", "fail")>>, "invalid")
        \/ MakeReport(read \o <<Plain("TsaTimestamp", "fail")>>, "invalid")
        \/ MakeReport(read \o <<Plain("DocumentTimestamp", "fail")>>, "invalid")
        \/ doc.token = "present" /\ Continue("tokenImprint", read)
    BY <1>11 DEF ParseDocumentTimestamp
  <2> HIDE DEF read
  <2>4. CASE doc.token = "present" /\ Continue("tokenImprint", read)
    <3>1. Clean(steps) => CleanEstablishes(doc, "tokenImprint")
      BY <2>1, <2>4 DEF CleanInv, CleanEstablishes
    <3> QED
      BY <2>1, <2>2, <2>4, <3>1, CleanContinue
      DEF CleanInv, Stage, SignatureStages, TokenStages
  <2> QED  BY <2>2, <2>3, <2>4, PlainFailure, KindTypes, CleanFailure
<1>12. CASE CheckDocumentImprint
  <2> DEFINE new == <<ImprintStep(doc)>>
  <2>1. pc = "tokenImprint" /\ new \in Seq(Step)
    BY <1>12, SingleStepTypes DEF CheckDocumentImprint
  <2>2. CASE ImprintOk(doc)
    <3>1. Continue("tokenSignature", new)  BY <1>12, <2>2 DEF CheckDocumentImprint
    <3>2. Clean(steps) => CleanEstablishes(doc, "tokenSignature")
      BY <2>1, <2>2 DEF CleanInv, CleanEstablishes
    <3> HIDE DEF new
    <3> QED
      BY <2>1, <3>1, <3>2, CleanContinue DEF CleanInv, Stage, SignatureStages, TokenStages
  <2>3. CASE ~ ImprintOk(doc)
    <3>1. MakeReport(new, "invalid")  BY <1>12, <2>3 DEF CheckDocumentImprint
    <3>2. ~ Clean(new)  BY <2>3, SingleStepTypes, CleanSingle, CleanImprint
    <3> HIDE DEF new
    <3> QED  BY <2>1, <3>1, <3>2, CleanFailure
  <2> QED  BY <2>2, <2>3
<1>13. CASE VerifyTokenSignature
  <2> DEFINE new == <<TsaSignatureStep(doc)>>
  <2>1. pc = "tokenSignature" /\ new \in Seq(Step)
    BY <1>13, SingleStepTypes DEF VerifyTokenSignature
  <2>2. CASE TsaSignatureOk(doc)
    <3>1. Continue("tokenTrust", new)  BY <1>13, <2>2 DEF VerifyTokenSignature
    <3>2. Clean(steps) => CleanEstablishes(doc, "tokenTrust")
      BY <2>1, <2>2 DEF CleanInv, CleanEstablishes
    <3> HIDE DEF new
    <3> QED
      BY <2>1, <3>1, <3>2, CleanContinue DEF CleanInv, Stage, SignatureStages, TokenStages
  <2>3. CASE ~ TsaSignatureOk(doc)
    <3>1. MakeReport(new, "invalid")  BY <1>13, <2>3 DEF VerifyTokenSignature
    <3>2. ~ Clean(new)  BY <2>3, SingleStepTypes, CleanSingle, CleanTsaSignature
    <3> HIDE DEF new
    <3> QED  BY <2>1, <3>1, <3>2, CleanFailure
  <2> QED  BY <2>2, <2>3
<1>14. CASE CheckTokenTrust
  <2>1. pc = "tokenTrust" /\ Return(TsaTrustSteps(doc))  BY <1>14 DEF CheckTokenTrust
  <2>2. doc.kind = "documentTimestamp"  BY <2>1 DEF CleanInv, TokenStages
  <2>3. Clean(steps) /\ Clean(TsaTrustSteps(doc)) => Earned(doc)
    BY <2>1, <2>2, CleanTsaTrust
    DEF CleanInv, CleanEstablishes, Unmodified, Covered, Earned, TimestampTrusted
  <2> QED  BY <2>1, <2>3, TsaTrustStepsType, CleanReturn
<1>15. CASE AppendRevocation
  <2> DEFINE step == RevocationStep(doc, steps)
  <2>1. /\ pc = "reported" /\ doc.kind = "signature"
        /\ doc' = doc /\ pc' = "closed"
        /\ steps' = Append(steps, step)
        /\ verdict' = VerdictFor(steps')
    BY <1>15 DEF AppendRevocation
  <2>2. step \in Step  BY RevocationStepType
  <2> HIDE DEF step
  <2>3. steps' = steps \o <<step>> /\ <<step>> \in Seq(Step) /\ steps' \in Seq(Step)
    BY <2>1, <2>2, AppendIsConcat
  <2>4. Clean(steps') => Clean(steps) /\ step.status \in {"ok", "skip"}
    BY <2>2, <2>3, CleanConcat, CleanSingle
  <2>5. ASSUME Clean(steps') PROVE Earned(doc) /\ doc.revocation = "good"
    <3>1. Earned(doc)  BY <2>1, <2>4, <2>5 DEF CleanInv, CleanEstablishes
    <3>2. SignerCertificateAvailable(doc)
      BY <2>1, <3>1 DEF Earned, Intact, SignerCertificateAvailable
    <3> QED  BY <2>4, <2>5, <3>1, <3>2, CleanRevocation DEF step
  <2>6. verdict' = "valid" => Clean(steps')  BY <2>1, <2>3, ValidIsClean
  <2>7. TypeOK'  BY <1>15, TypeStep DEF Next, CleanInv
  <2>8. Clean(steps') => CleanEstablishes(doc', pc')
    BY <2>1, <2>5 DEF CleanEstablishes
  <2> QED
    BY <2>1, <2>6, <2>7, <2>8 DEF CleanInv, SignatureStages, TokenStages
<1>16. CASE UNCHANGED vars
  BY <1>16 DEF vars, CleanInv, TypeOK, Reported
<1> QED
  BY <1>1, <1>2, <1>3, <1>4, <1>5, <1>6, <1>7, <1>8, <1>9, <1>10, <1>11, <1>12, <1>13, <1>14,
     <1>15, <1>16 DEF Next, ValidateStage

\* No report is valid unless every fact the pipeline is there to check speaks
\* for the signature, for every set of documents and through every early
\* return, optional stage and the revocation pass.
THEOREM ValidReportsAreEarned == Spec => []ValidIsEarned
<1>1. Init => CleanInv
  BY DocumentsAssumption
  DEF Init, CleanInv, TypeOK, Stage, Level, CleanEstablishes, SignatureStages, TokenStages, Reported
<1>2. CleanInv => ValidIsEarned
  BY DEF CleanInv, CleanEstablishes, ValidIsEarned, Reported
<1> QED  BY <1>1, <1>2, CleanStep, PTL DEF Spec

-----------------------------------------------------------------------------
(* The steps of a list, whatever their order.                              *)

StepsIn(s) == {s[i] : i \in 1..Len(s)}

LEMMA StepsInSeq ==
  ASSUME NEW s \in Seq(Step)
  PROVE  StepsIn(s) \subseteq Step
BY ElementOfSeq DEF StepsIn

LEMMA StepsInConcat ==
  ASSUME NEW s \in Seq(Step), NEW t \in Seq(Step)
  PROVE  StepsIn(s \o t) = StepsIn(s) \cup StepsIn(t)
<1>1. /\ Len(s) \in Nat /\ Len(t) \in Nat
      /\ Len(s \o t) = Len(s) + Len(t)
      /\ \A i \in 1..Len(s) : (s \o t)[i] = s[i]
      /\ \A i \in 1..Len(t) : (s \o t)[Len(s) + i] = t[i]
  BY ConcatProperties
<1>2. StepsIn(s) \subseteq StepsIn(s \o t)
  BY <1>1 DEF StepsIn
<1>3. ASSUME NEW i \in 1..Len(t) PROVE t[i] \in StepsIn(s \o t)
  <2>1. Len(s) + i \in 1..Len(s \o t)  BY <1>1
  <2> QED  BY <1>1, <2>1 DEF StepsIn
<1>4. ASSUME NEW k \in 1..Len(s \o t) PROVE (s \o t)[k] \in StepsIn(s) \cup StepsIn(t)
  <2>1. CASE k <= Len(s)
    <3>1. k \in 1..Len(s)  BY <1>1, <2>1
    <3> QED  BY <1>1, <3>1 DEF StepsIn
  <2>2. CASE ~ (k <= Len(s))
    <3>1. k - Len(s) \in 1..Len(t) /\ Len(s) + (k - Len(s)) = k  BY <1>1, <2>2
    <3>2. (s \o t)[k] = t[k - Len(s)]  BY <1>1, <3>1
    <3> QED  BY <3>1, <3>2 DEF StepsIn
  <2> QED  BY <2>1, <2>2
<1>5. StepsIn(t) \subseteq StepsIn(s \o t)
  BY <1>3 DEF StepsIn
<1>6. StepsIn(s \o t) \subseteq StepsIn(s) \cup StepsIn(t)
  <2> SUFFICES ASSUME NEW x \in StepsIn(s \o t) PROVE x \in StepsIn(s) \cup StepsIn(t)
    OBVIOUS
  <2>1. PICK k \in 1..Len(s \o t) : x = (s \o t)[k]  BY DEF StepsIn
  <2> QED  BY <1>4, <2>1
<1> QED  BY <1>2, <1>5, <1>6

LEMMA StepsInFew ==
  /\ StepsIn(<<>>) = {}
  /\ \A x \in Step : StepsIn(<<x>>) = {x}
  /\ \A x, y \in Step : StepsIn(<<x, y>>) = {x, y}
<1>1. StepsIn(<<>>) = {}  BY DEF StepsIn
<1>2. ASSUME NEW x \in Step PROVE StepsIn(<<x>>) = {x}
  <2>1. Len(<<x>>) = 1 /\ <<x>>[1] = x  OBVIOUS
  <2> QED  BY <2>1 DEF StepsIn
<1>3. ASSUME NEW x \in Step, NEW y \in Step PROVE StepsIn(<<x, y>>) = {x, y}
  <2>1. Len(<<x, y>>) = 2 /\ <<x, y>>[1] = x /\ <<x, y>>[2] = y  OBVIOUS
  <2> HIDE <1>1, <1>2
  <2> QED  BY <2>1 DEF StepsIn
<1> QED  BY <1>1, <1>2, <1>3

LEMMA StepsInWhen ==
  ASSUME NEW condition \in BOOLEAN, NEW x \in Step
  PROVE  StepsIn(When(condition, x)) = {y \in {x} : condition}
BY StepsInFew DEF When

\* What is asked of a list without its order.
LEMMA OccursIsIn ==
  ASSUME NEW s
  PROVE  /\ Occurs(s, Failed) <=> \E x \in StepsIn(s) : Failed(x)
         /\ Occurs(s, Warned) <=> \E x \in StepsIn(s) : Warned(x)
         /\ Occurs(s, ChainWarned) <=> \E x \in StepsIn(s) : ChainWarned(x)
         /\ Occurs(s, LevelBlockingFailure) <=> \E x \in StepsIn(s) : LevelBlockingFailure(x)
         /\ \A kind : StepOk(s, kind) <=> Plain(kind, "ok") \in StepsIn(s)
BY DEF Occurs, StepsIn, StepOk

LEMMA CleanIsIn ==
  ASSUME NEW s \in Seq(Step)
  PROVE  Clean(s) <=> \A x \in StepsIn(s) : ~ Failed(x) /\ ~ Warned(x)
<1>1. ASSUME NEW i \in 1..Len(s) PROVE s[i].status \in Status
  <2>1. s[i] \in Step  BY ElementOfSeq
  <2> QED  BY <2>1 DEF Step
<1> QED  BY <1>1 DEF Clean, StepsIn, Failed, Warned, Status

-----------------------------------------------------------------------------
(* The first failure and the first warning of a list.                      *)

NatLess == {pair \in Nat \X Nat : pair[1] < pair[2]}

LEMMA NatLessWellFounded == IsWellFoundedOn(NatLess, Nat)
BY NatLessThanWellFounded, Zenon DEF OpToRel, NatLess

LEMMA LeastNatural ==
  ASSUME NEW S, S \subseteq Nat, S # {}
  PROVE  \E x \in S : \A y \in S : x <= y
<1>1. PICK x \in S : \A y \in S : ~ (<<y, x>> \in NatLess)
  BY NatLessWellFounded, WFMin
<1>2. ASSUME NEW y \in S PROVE x <= y
  <2>1. <<y, x>> \in Nat \X Nat
    OBVIOUS
  <2>2. ~ (y < x)
    BY <1>1, <2>1 DEF NatLess
  <2> QED BY <2>2
<1> QED BY <1>1, <1>2

LEMMA FirstFailed ==
  ASSUME NEW s \in Seq(Step), Occurs(s, Failed)
  PROVE  \E i \in 1..Len(s) : /\ First(s, Failed) = s[i] /\ Failed(s[i])
                              /\ \A j \in 1..Len(s) : Failed(s[j]) => i <= j
<1> DEFINE I == {i \in 1..Len(s) : Failed(s[i])}
<1>1. I \subseteq Nat /\ I # {}  BY DEF Occurs
<1>2. SelectInSeq(s, Failed) = Min(I)  BY <1>1 DEF SelectInSeq
<1>3. \E x \in I : \A y \in I : x <= y  BY <1>1, LeastNatural
<1>4. Min(I) \in I /\ \A y \in I : Min(I) <= y
  <2> HIDE DEF I
  <2> QED  BY <1>3 DEF Min
<1> QED  BY <1>2, <1>4 DEF First

LEMMA FirstWarned ==
  ASSUME NEW s \in Seq(Step), Occurs(s, Warned)
  PROVE  \E i \in 1..Len(s) : /\ First(s, Warned) = s[i] /\ Warned(s[i])
                              /\ \A j \in 1..Len(s) : Warned(s[j]) => i <= j
<1> DEFINE I == {i \in 1..Len(s) : Warned(s[i])}
<1>1. I \subseteq Nat /\ I # {}  BY DEF Occurs
<1>2. SelectInSeq(s, Warned) = Min(I)  BY <1>1 DEF SelectInSeq
<1>3. \E x \in I : \A y \in I : x <= y  BY <1>1, LeastNatural
<1>4. Min(I) \in I /\ \A y \in I : Min(I) <= y
  <2> HIDE DEF I
  <2> QED  BY <1>3 DEF Min
<1> QED  BY <1>2, <1>4 DEF First

LEMMA FirstIsIn ==
  ASSUME NEW s \in Seq(Step)
  PROVE  /\ Occurs(s, Failed) => First(s, Failed) \in StepsIn(s) /\ Failed(First(s, Failed))
         /\ Occurs(s, Warned) => First(s, Warned) \in StepsIn(s) /\ Warned(First(s, Warned))
BY FirstFailed, FirstWarned DEF StepsIn

\* What comes first stays first when steps are appended.
LEMMA FirstStays ==
  ASSUME NEW s \in Seq(Step), NEW t \in Seq(Step)
  PROVE  /\ Occurs(s, Failed) => First(s \o t, Failed) = First(s, Failed)
         /\ Occurs(s, Warned) => First(s \o t, Warned) = First(s, Warned)
<1>1. /\ Len(s) \in Nat /\ Len(t) \in Nat
      /\ Len(s \o t) = Len(s) + Len(t)
      /\ \A i \in 1..Len(s) : (s \o t)[i] = s[i]
  BY ConcatProperties
<1>2. s \o t \in Seq(Step)  OBVIOUS
<1>3. ASSUME Occurs(s, Failed) PROVE First(s \o t, Failed) = First(s, Failed)
  <2>1. PICK i \in 1..Len(s) : /\ First(s, Failed) = s[i] /\ Failed(s[i])
                               /\ \A j \in 1..Len(s) : Failed(s[j]) => i <= j
    BY <1>3, FirstFailed
  <2>2. Occurs(s \o t, Failed)  BY <1>1, <2>1 DEF Occurs
  <2>3. PICK k \in 1..Len(s \o t) : /\ First(s \o t, Failed) = (s \o t)[k] /\ Failed((s \o t)[k])
                                    /\ \A j \in 1..Len(s \o t) : Failed((s \o t)[j]) => k <= j
    BY <1>2, <2>2, FirstFailed
  <2>i. i \in 1..Len(s \o t) /\ (s \o t)[i] = s[i]  BY <1>1
  <2>4. k <= i  BY <2>1, <2>3, <2>i
  <2>5. k \in 1..Len(s) /\ (s \o t)[k] = s[k]  BY <1>1, <2>4
  <2>6. i <= k  BY <2>1, <2>3, <2>5
  <2>7. i = k  BY <2>4, <2>6
  <2> QED  BY <2>1, <2>3, <2>5, <2>7
<1>4. ASSUME Occurs(s, Warned) PROVE First(s \o t, Warned) = First(s, Warned)
  <2>1. PICK i \in 1..Len(s) : /\ First(s, Warned) = s[i] /\ Warned(s[i])
                               /\ \A j \in 1..Len(s) : Warned(s[j]) => i <= j
    BY <1>4, FirstWarned
  <2>2. Occurs(s \o t, Warned)  BY <1>1, <2>1 DEF Occurs
  <2>3. PICK k \in 1..Len(s \o t) : /\ First(s \o t, Warned) = (s \o t)[k] /\ Warned((s \o t)[k])
                                    /\ \A j \in 1..Len(s \o t) : Warned((s \o t)[j]) => k <= j
    BY <1>2, <2>2, FirstWarned
  <2>i. i \in 1..Len(s \o t) /\ (s \o t)[i] = s[i]  BY <1>1
  <2>4. k <= i  BY <2>1, <2>3, <2>i
  <2>5. k \in 1..Len(s) /\ (s \o t)[k] = s[k]  BY <1>1, <2>4
  <2>6. i <= k  BY <2>1, <2>3, <2>5
  <2>7. i = k  BY <2>4, <2>6
  <2> QED  BY <2>1, <2>3, <2>5, <2>7
<1> QED  BY <1>3, <1>4

-----------------------------------------------------------------------------
(* What a list of steps tells about the document, whatever its order.      *)

BytesAreSigned(d) ==
  d.byteRangeCovers /\ d.modified = {} /\ ~ ValidationDataChange(d) /\ ~ d.duplicateField

ContainerIsRead(d) ==
  /\ BytesAreSigned(d)
  /\ d.cmsParses /\ d.eContent # "empty"
  /\ ~ d.unsupportedPolicy /\ ~ d.malformedCutoff

SignerIsDescribed(d) ==
  /\ ContainerIsRead(d)
  /\ d.signerInfos # "none"
  /\ ChecksBaseline(d) =>
       /\ d.signerInfos = "one" /\ d.eContent = "absent"
       /\ d.contentTypeData /\ d.signedAttrs = "conforming"

DigestIsSigned(d) ==
  /\ SignerIsDescribed(d)
  /\ d.digest = "supported"
  /\ d.signedAttrs # "none" => d.messageDigest = "matches"

\* What the PAdES level B stands on.
Basis(d) ==
  /\ DigestIsSigned(d)
  /\ d.signerCertFound /\ d.signatureVerifies
  /\ ChecksBaseline(d) => d.signingCertAttr

\* What a stage may rely on as long as no step blocks the level.
Unflawed(d, stage) ==
  /\ stage = "revisions" => d.byteRangeCovers
  /\ stage \in {"cms"} \cup TokenStages => BytesAreSigned(d)
  /\ stage = "structure" => ContainerIsRead(d)
  /\ stage = "digest" => SignerIsDescribed(d)
  /\ stage = "signature" => DigestIsSigned(d)
  /\ stage \in {"chain", "usage", "timestamp", "validity"} => Basis(d)
  /\ stage \in {"reported", "closed"} =>
       IF d.kind = "signature" THEN Basis(d) ELSE BytesAreSigned(d)

\* The steps that come after the timestamp's.
LateKinds == {"SignerCertificateValidity", "RevocationSigner"}

\* No step says what is not so.
Truthful(d, x) ==
  /\ d.kind = "signature" /\ LevelBlockingFailure(x) => ~ Basis(d)
  /\ (Failed(x) \/ Warned(x)) /\ x.kind # "RevocationSigner" => ~ Earned(d)
  /\ Failed(x) /\ x.kind \notin LateKinds => ~ WarningEarned(d)
  /\ Warned(x) /\ x.kind \notin LateKinds \cup SoftWarningKinds => ~ WarningEarned(d)
  /\ Warned(x) /\ x.kind \in SoftWarningKinds => ~ d.timestampTrust
  /\ x.kind \in SignatureVerifyKinds /\ x.status = "ok" => d.kind = "signature"
  /\ x.kind \in SoftWarningKinds /\ x.status \in {"ok", "warn"} => d.token = "present"
  /\ x.kind = "TsaMessageImprint" /\ x.status = "ok" => ImprintOk(d)
  /\ x.kind = "TsaSignatureVerify" /\ x.status = "ok" => TsaSignatureOk(d)
  /\ x.kind = "TsaExtendedKeyUsage" /\ x.status = "ok" => d.tsaUsage
  /\ x.kind = "TsaCertificateChain" /\ x.status = "ok" => TsaChainOk(d)
  /\ x.kind = "RevocationSigner" /\ x.status = "ok" => d.revocation = "good"
  /\ x.kind = "RevocationSigner" /\ (Failed(x) \/ Warned(x)) =>
       ~ (SignerCertificateAvailable(d) /\ d.revocation = "good")
  /\ x.note = "validationData" => OnlyLaterValidationData(d)

\* The steps that cannot be missing.
Complete(d, stage, S) ==
  /\ stage # "closed" => \A x \in S : x.kind # "RevocationSigner"
  /\ stage \notin {"reported", "closed"} => \A x \in S : x.kind \notin LateKinds
  /\ stage = "closed" => d.kind = "signature"
  /\ stage \in TokenStages \ {"token"} => d.token = "present"
  /\ /\ stage \in {"chain", "usage", "timestamp", "validity", "reported", "closed"}
     /\ d.kind = "signature" /\ Basis(d)
     => \E kind \in SignatureVerifyKinds : Plain(kind, "ok") \in S
  /\ /\ stage \in {"validity", "reported", "closed"}
     /\ d.kind = "signature" /\ Basis(d) /\ TimestampTrusted(d)
     => \A kind \in TsaEvidenceKinds : Plain(kind, "ok") \in S
  /\ stage # "coverage" /\ d.byteRangeCovers /\ OnlyLaterValidationData(d) =>
       Noted("ByteRangeCoverage", "ok", "validationData") \in S
  /\ stage = "closed" /\ SignerCertificateAvailable(d) /\ d.revocation = "good" =>
       Plain("RevocationSigner", "ok") \in S

StepsTell(d, stage, S) ==
  /\ \A x \in S : Truthful(d, x)
  /\ (\A x \in S : ~ LevelBlockingFailure(x)) => Unflawed(d, stage)
  /\ Complete(d, stage, S)

-----------------------------------------------------------------------------
(* What the order of the steps adds: the verdict.                          *)

\* A failure that makes the verdict invalid when it comes first.
Hard(x) ==
  /\ Failed(x)
  /\ SubIndicationOf(x, TRUE) \notin {"certificateMissing", "revocationMissing", "chain", "revoked"}
  /\ ~ (x.kind = "MessageDigestMatches" /\ x.note = "rsaSha1")

\* The steps of the stages before the timestamp's.
Plainly(x) == (Failed(x) => Hard(x)) /\ (Warned(x) => x.kind \notin SoftWarningKinds)

\* A list whose verdict is not, and will not become, a warning.
Settled(s) ==
  \/ Occurs(s, Warned) /\ ~ SoftFirstWarning(s)
  \/ Occurs(s, Failed) /\ Hard(First(s, Failed)) /\ ~ Occurs(s, ChainWarned)

\* A list that is, and stays, a warning.
SoftOnly(s) == SoftFirstWarning(s) /\ ~ Occurs(s, Failed)

\* A signature timestamp that is absent or sound, trusted or not.
TokenSound(d) ==
  d.token = "absent" \/ (d.token = "present" /\ ImprintOk(d) /\ TsaSignatureOk(d))

Ordered(d, stage, s) ==
  /\ stage \notin {"validity", "reported", "closed"} => \A x \in StepsIn(s) : Plainly(x)
  /\ stage \notin {"usage", "timestamp", "validity", "reported", "closed"} =>
       \A x \in StepsIn(s) : x.kind # "SignerCertificateChain"
  /\ stage = "validity" => Settled(s) \/ (UsageAllowed(d) /\ (d.timestampTrust \/ TokenSound(d)))
  /\ stage = "validity" /\ WarningEarned(d) => SoftOnly(s)
  /\ stage \in {"reported", "closed"} => (VerdictFor(s) = "warning" <=> WarningEarned(d))

\* The verdict is that of the steps, but for the two verdicts written by hand.
VerdictOf(d, stage, s, v) ==
  \/ v = VerdictFor(s)
  \/ stage = "reported" /\ v = "error" /\ VerdictFor(s) = "invalid"
  \/ /\ stage = "reported" /\ d.kind = "signature" /\ d.digest = "rsaSha1"
     /\ v = IF d.subFilter = "adbeSha1" THEN "inconclusive" ELSE "invalid"
     /\ VerdictFor(s) \in {"invalid", "inconclusive"}

ReportInv ==
  /\ CleanInv
  /\ StepsTell(doc, pc, StepsIn(steps))
  /\ Ordered(doc, pc, steps)
  /\ Reported => VerdictOf(doc, pc, steps, verdict) /\ level = EarnedLevel(doc)
  /\ ExcusedOnlyByTrustedTime

-----------------------------------------------------------------------------
(* The verdict of a list of steps.                                         *)

LEMMA VerdictCases ==
  ASSUME NEW s \in Seq(Step)
  PROVE  /\ VerdictFor(s) \in {"valid", "invalid", "warning", "inconclusive"}
         /\ Clean(s) => VerdictFor(s) = "valid"
         /\ Occurs(s, Failed) => VerdictFor(s) # "valid"
         /\ VerdictFor(s) = "warning" => SoftFirstWarning(s)
<1>1. VerdictFor(s) \in {"valid", "invalid", "warning", "inconclusive"}
  BY DEF VerdictFor
<1>2. ASSUME Clean(s) PROVE VerdictFor(s) = "valid"
  <2>1. ~ Occurs(s, Failed) /\ ~ Occurs(s, Warned)
    BY <1>2, CleanIsIn, OccursIsIn
  <2> QED  BY <2>1 DEF VerdictFor, StandardsFor, Standards
<1>3. Occurs(s, Failed) => VerdictFor(s) # "valid"
  BY CleanIsIn, OccursIsIn, ValidIsClean
<1>4. VerdictFor(s) = "warning" => SoftFirstWarning(s)
  BY DEF VerdictFor
<1> QED  BY <1>1, <1>2, <1>3, <1>4

\* Without a soft warning no verdict is a warning.
LEMMA NoSoftWarning ==
  ASSUME NEW s \in Seq(Step), \A x \in StepsIn(s) : Warned(x) => x.kind \notin SoftWarningKinds
  PROVE  VerdictFor(s) # "warning"
BY VerdictCases, FirstIsIn DEF SoftFirstWarning

LEMMA HardVerdict ==
  ASSUME NEW s \in Seq(Step), Occurs(s, Failed), Hard(First(s, Failed)),
         ~ Occurs(s, ChainWarned)
  PROVE  VerdictFor(s) = "invalid"
<1>1. FailureStandards(s).indication = "failed"
  BY DEF FailureStandards, Hard, Standards
<1> QED  BY <1>1 DEF VerdictFor, StandardsFor

\* A failure among plain steps that are not about the chain.
LEMMA PlainlyInvalid ==
  ASSUME NEW s \in Seq(Step), Occurs(s, Failed),
         \A x \in StepsIn(s) : Plainly(x) /\ x.kind # "SignerCertificateChain"
  PROVE  VerdictFor(s) = "invalid"
<1>1. First(s, Failed) \in StepsIn(s) /\ Failed(First(s, Failed))  BY FirstIsIn
<1>2. Hard(First(s, Failed))  BY <1>1 DEF Plainly
<1>3. ~ Occurs(s, ChainWarned)  BY OccursIsIn DEF ChainWarned
<1> QED  BY <1>2, <1>3, HardVerdict

LEMMA PlainlySettled ==
  ASSUME NEW s \in Seq(Step), ~ Clean(s), \A x \in StepsIn(s) : Plainly(x)
  PROVE  Settled(s)
<1>1. CASE Occurs(s, Warned)
  BY <1>1, FirstIsIn DEF Settled, SoftFirstWarning, Plainly
<1>2. CASE ~ Occurs(s, Warned)
  <2>1. Occurs(s, Failed)  BY <1>2, CleanIsIn, OccursIsIn
  <2>2. Hard(First(s, Failed))  BY <2>1, FirstIsIn DEF Plainly
  <2>3. ~ Occurs(s, ChainWarned)  BY <1>2, OccursIsIn DEF ChainWarned, Warned
  <2> QED  BY <2>1, <2>2, <2>3 DEF Settled
<1> QED  BY <1>1, <1>2

LEMMA SettledStays ==
  ASSUME NEW s \in Seq(Step), NEW t \in Seq(Step), Settled(s),
         \A x \in StepsIn(t) : x.kind # "SignerCertificateChain"
  PROVE  Settled(s \o t) /\ VerdictFor(s \o t) # "warning"
<1>1. s \o t \in Seq(Step)  OBVIOUS
<1>2. StepsIn(s) \subseteq StepsIn(s \o t)  BY StepsInConcat
<1>3. ~ Occurs(s, ChainWarned) => ~ Occurs(s \o t, ChainWarned)
  <2>1. \A x \in StepsIn(t) : ~ ChainWarned(x)  BY DEF ChainWarned
  <2> QED  BY <2>1, StepsInConcat, OccursIsIn
<1>4. Settled(s \o t)
  <2>1. CASE Occurs(s, Warned) /\ ~ SoftFirstWarning(s)
    <3>1. Occurs(s \o t, Warned)  BY <1>2, <2>1, OccursIsIn
    <3> QED  BY <2>1, <3>1, FirstStays DEF Settled, SoftFirstWarning
  <2>2. CASE Occurs(s, Failed) /\ Hard(First(s, Failed)) /\ ~ Occurs(s, ChainWarned)
    <3>1. Occurs(s \o t, Failed)  BY <1>2, <2>2, OccursIsIn
    <3> QED  BY <1>3, <2>2, <3>1, FirstStays DEF Settled
  <2> QED  BY <2>1, <2>2 DEF Settled
<1> QED  BY <1>1, <1>4, HardVerdict, VerdictCases DEF Settled

\* The revocation step changes the verdict of a clean list only.
LEMMA RevocationVerdict ==
  ASSUME NEW s \in Seq(Step), NEW r \in Step, r.kind = "RevocationSigner", ~ Clean(s)
  PROVE  VerdictFor(s \o <<r>>) = VerdictFor(s)
<1> DEFINE t == s \o <<r>>
<1>1. <<r>> \in Seq(Step) /\ t \in Seq(Step) /\ StepsIn(<<r>>) = {r}  BY StepsInFew
<1>2. StepsIn(t) = StepsIn(s) \cup {r}  BY <1>1, StepsInConcat
<1>3. /\ Occurs(s, Failed) => Occurs(t, Failed) /\ First(t, Failed) = First(s, Failed)
      /\ Occurs(s, Warned) => Occurs(t, Warned) /\ First(t, Warned) = First(s, Warned)
  BY <1>1, <1>2, FirstStays, OccursIsIn
<1>4. Occurs(t, ChainWarned) <=> Occurs(s, ChainWarned)
  BY <1>2, OccursIsIn DEF ChainWarned
<1> HIDE DEF t
<1>5. SoftFirstWarning(t) <=> SoftFirstWarning(s)
  <2>1. CASE Occurs(s, Warned)
    BY <1>3, <2>1 DEF SoftFirstWarning
  <2>2. CASE ~ Occurs(s, Warned)
    <3>1. Occurs(t, Warned) => First(t, Warned) = r
      BY <1>1, <1>2, <2>2, FirstIsIn, OccursIsIn
    <3> QED  BY <2>2, <3>1 DEF SoftFirstWarning, SoftWarningKinds, TsaEvidenceKinds
  <2> QED  BY <2>1, <2>2
<1>6. StandardsFor(t).indication = StandardsFor(s).indication
  <2>1. CASE Occurs(s, Failed)
    <3>1. StandardsFor(t) = FailureStandards(t) /\ StandardsFor(s) = FailureStandards(s)
      BY <1>3, <2>1 DEF StandardsFor
    <3> DEFINE f == First(s, Failed)
    <3>2. First(t, Failed) = f  BY <1>3, <2>1
    <3> HIDE DEF f
    <3>3. CASE DominatedByUntrustedChain(f) /\ Occurs(s, ChainWarned)
      <4>1. /\ FailureStandards(s).indication = "indeterminate"
            /\ FailureStandards(t).indication = "indeterminate"
        BY <1>4, <3>2, <3>3 DEF FailureStandards, Standards, f
      <4> QED  BY <3>1, <4>1
    <3>4. CASE ~ (DominatedByUntrustedChain(f) /\ Occurs(s, ChainWarned))
      BY <1>4, <3>1, <3>2, <3>4 DEF FailureStandards, f
    <3> QED  BY <3>3, <3>4
  <2>2. CASE ~ Occurs(s, Failed)
    <3>1. Occurs(s, Warned)  BY <2>2, CleanIsIn, OccursIsIn
    <3>2. StandardsFor(s).indication = "indeterminate"
      BY <2>2, <3>1 DEF StandardsFor, Standards
    <3>3. CASE Occurs(t, Failed)
      <4>1. First(t, Failed) = r
        BY <1>1, <1>2, <2>2, <3>3, FirstIsIn, OccursIsIn
      <4>2. SubIndicationOf(r, TRUE) \in {"revoked", "revocationMissing"}
        BY DEF SubIndicationOf, FormatKinds, SignatureVerifyKinds
      <4>3. FailureStandards(t).indication = "indeterminate"
        BY <4>1, <4>2 DEF FailureStandards, Standards
      <4> QED  BY <3>2, <3>3, <4>3 DEF StandardsFor
    <3>4. CASE ~ Occurs(t, Failed)
      BY <1>3, <3>1, <3>2, <3>4 DEF StandardsFor, Standards
    <3> QED  BY <3>3, <3>4
  <2> QED  BY <2>1, <2>2
<1> QED  BY <1>5, <1>6 DEF VerdictFor, t

-----------------------------------------------------------------------------
(* What the steps tell: the level.                                         *)

LEMMA StepFields ==
  /\ \A kind, status, note : /\ Noted(kind, status, note).kind = kind
                             /\ Noted(kind, status, note).status = status
                             /\ Noted(kind, status, note).note = note
  /\ \A kind, status : /\ Plain(kind, status).kind = kind
                       /\ Plain(kind, status).status = status
                       /\ Plain(kind, status).note = ""
BY DEF Plain, Noted

LEMMA BasisIs ==
  ASSUME NEW d \in Document
  PROVE  Basis(d) <=> Intact(d) /\ ProfileConforms(d) /\ ~ d.duplicateField
BY DEF Basis, DigestIsSigned, SignerIsDescribed, ContainerIsRead, BytesAreSigned, Intact,
       ProfileConforms

LEMMA EarnedBasis ==
  ASSUME NEW d \in Document
  PROVE  /\ Earned(d) /\ d.kind = "signature" => Basis(d)
         /\ Earned(d) /\ d.kind # "signature" => BytesAreSigned(d) /\ TimestampTrusted(d)
<1>1. d.kind # "signature" => ~ ValidationDataChange(d)  BY DEF ValidationDataChange
<1> QED  BY <1>1, BasisIs DEF Earned, BytesAreSigned

\* Neither good nor a mere warning.
Doubted(d) == ~ Earned(d) /\ ~ WarningEarned(d)

LEMMA WarningBasis ==
  ASSUME NEW d \in Document
  PROVE  WarningEarned(d) /\ d.kind = "signature" => Basis(d)
BY BasisIs DEF WarningEarned

LEMMA NoBasisIsDoubted ==
  ASSUME NEW d \in Document, d.kind = "signature", ~ Basis(d)
  PROVE  Doubted(d)
BY EarnedBasis, WarningBasis DEF Doubted

LEMMA BasisAvailable ==
  ASSUME NEW d, Basis(d)
  PROVE  d.byteRangeCovers /\ SignerCertificateAvailable(d)
BY DEF Basis, DigestIsSigned, SignerIsDescribed, ContainerIsRead, BytesAreSigned,
       SignerCertificateAvailable

LEMMA TrustIsTold ==
  ASSUME NEW d, NEW stage, NEW s, StepsTell(d, stage, StepsIn(s))
  PROVE  TrustedTimestampSteps(s) => TimestampTrusted(d)
<1> SUFFICES ASSUME TrustedTimestampSteps(s) PROVE TimestampTrusted(d)
  OBVIOUS
<1> DEFINE ok(kind) == Plain(kind, "ok")
<1>1. \A kind \in TsaEvidenceKinds : ok(kind) \in StepsIn(s)
  BY OccursIsIn DEF TrustedTimestampSteps
<1>2. \A kind : ok(kind).kind = kind /\ ok(kind).status = "ok"  BY StepFields
<1> HIDE DEF ok
<1>3. \A kind \in TsaEvidenceKinds : Truthful(d, ok(kind))  BY <1>1 DEF StepsTell
<1>4. d.token = "present" /\ ImprintOk(d)
  BY <1>2, <1>3 DEF Truthful, TsaEvidenceKinds, SoftWarningKinds
<1>5. TsaSignatureOk(d) /\ d.tsaUsage /\ TsaChainOk(d)
  BY <1>2, <1>3 DEF Truthful, TsaEvidenceKinds
<1> QED  BY <1>4, <1>5 DEF TimestampTrusted

\* The level that EarnedLevel gives at the end of a stage.
LevelAt(d, stage) ==
  IF ~ (d.kind = "signature" /\ IsPadesBaseline(d) /\ Basis(d)) THEN "unknown"
  ELSE IF ~ TimestampTrusted(d) THEN "B"
  ELSE IF stage = "closed" /\ OnlyLaterValidationData(d) /\ d.revocation = "good"
       THEN "LT" ELSE "T"

LEMMA EarnedLevelIs ==
  ASSUME NEW d \in Document
  PROVE  EarnedLevel(d) = LevelAt(d, pc)
BY BasisIs DEF EarnedLevel, LevelAt

LEMMA LevelOfSteps ==
  ASSUME NEW d \in Document, NEW stage \in {"reported", "closed"}, NEW s \in Seq(Step),
         StepsTell(d, stage, StepsIn(s))
  PROVE  LevelFor(s, IsPadesBaseline(d)) = LevelAt(d, stage)
<1> DEFINE S == StepsIn(s)
           verified == \E kind \in SignatureVerifyKinds : StepOk(s, kind)
           later == Noted("ByteRangeCoverage", "ok", "validationData")
           good == Plain("RevocationSigner", "ok")
<1>o. /\ Occurs(s, LevelBlockingFailure) <=> \E x \in S : LevelBlockingFailure(x)
      /\ \A kind : StepOk(s, kind) <=> Plain(kind, "ok") \in S
  BY OccursIsIn
<1>n. (\E i \in 1..Len(s) : s[i] = later) <=> later \in S
  BY DEF StepsIn
<1>t. \A x \in S : Truthful(d, x)  BY DEF StepsTell
<1>c. Complete(d, stage, S)  BY DEF StepsTell
<1> HIDE DEF S
<1>1. CASE d.kind # "signature"
  <2>1. ~ verified
    <3> SUFFICES ASSUME NEW kind \in SignatureVerifyKinds, StepOk(s, kind) PROVE FALSE
      OBVIOUS
    <3> DEFINE x == Plain(kind, "ok")
    <3>1. x \in S  BY <1>o
    <3>2. x.kind = kind /\ x.status = "ok"  BY DEF Plain, Noted
    <3> HIDE DEF x
    <3>3. Truthful(d, x)  BY <1>t, <3>1
    <3> QED  BY <1>1, <3>2, <3>3 DEF Truthful
  <2> QED  BY <1>1, <2>1 DEF LevelFor, LevelAt
<1>2. CASE d.kind = "signature" /\ ~ Basis(d)
  <2>1. \E x \in S : LevelBlockingFailure(x)
    BY <1>2 DEF StepsTell, Unflawed, S
  <2> QED  BY <1>2, <1>o, <2>1 DEF LevelFor, LevelAt
<1>3. CASE d.kind = "signature" /\ Basis(d)
  <2>1. ~ Occurs(s, LevelBlockingFailure)  BY <1>3, <1>o, <1>t DEF Truthful
  <2>2. verified  BY <1>3, <1>c, <1>o DEF Complete
  <2>3. /\ TimestampTrusted(d) => TrustedTimestampSteps(s)
        /\ TrustedTimestampSteps(s) => TimestampTrusted(d)
    <3>1. TimestampTrusted(d) => TrustedTimestampSteps(s)
      BY <1>3, <1>c, <1>o DEF Complete, TrustedTimestampSteps
    <3>2. TrustedTimestampSteps(s) => TimestampTrusted(d)
      BY <1>3, TrustIsTold
    <3> QED  BY <3>1, <3>2
  <2>4. later \in S <=> OnlyLaterValidationData(d)
    <3>1. later.note = "validationData"  BY DEF Noted
    <3>2. later \in S => OnlyLaterValidationData(d)
      <4> HIDE DEF later
      <4> QED  BY <1>t, <3>1 DEF Truthful
    <3> QED  BY <1>3, <1>c, <3>2, BasisAvailable DEF Complete
  <2>5. good \in S <=> stage = "closed" /\ d.revocation = "good"
    <3>1. good.kind = "RevocationSigner" /\ good.status = "ok"  BY DEF Plain, Noted
    <3>2. good \in S => stage = "closed" /\ d.revocation = "good"
      <4> HIDE DEF good
      <4> QED  BY <1>t, <1>c, <3>1 DEF Truthful, Complete
    <3> QED  BY <1>3, <1>c, <3>2, BasisAvailable DEF Complete
  <2>6. StepOk(s, "RevocationSigner") <=> good \in S  BY <1>o
  <2> HIDE DEF later, good
  <2> QED
    BY <1>3, <1>n, <2>1, <2>2, <2>3, <2>4, <2>5, <2>6 DEF LevelFor, LevelAt, later
<1> QED  BY <1>1, <1>2, <1>3

-----------------------------------------------------------------------------
(* How the invariant is kept.                                              *)

EarlyStages == Stage \ {"usage", "timestamp", "validity", "reported", "closed"}

LEMMA OrderedGrows ==
  ASSUME NEW d, NEW stage, NEW next, NEW s \in Seq(Step), NEW t \in Seq(Step),
         Ordered(d, stage, s), stage \in EarlyStages \cup {"usage"},
         next \in Stage \ {"validity", "reported", "closed"},
         \A x \in StepsIn(t) : Plainly(x),
         next \in EarlyStages =>
           stage \in EarlyStages /\ \A x \in StepsIn(t) : x.kind # "SignerCertificateChain"
  PROVE  Ordered(d, next, s \o t)
<1>1. StepsIn(s \o t) = StepsIn(s) \cup StepsIn(t)  BY StepsInConcat
<1> QED  BY <1>1 DEF Ordered, EarlyStages, Stage

\* A stage that hands over keeps the invariant if its steps are truthful and
\* what it leaves to the next stage is there.
LEMMA TellContinue ==
  ASSUME ReportInv, CleanInv', NEW stage \in Stage \ {"reported", "closed"},
         NEW new \in Seq(Step), Continue(stage, new),
         \A x \in StepsIn(new) : Truthful(doc, x),
         /\ Unflawed(doc, pc)
         /\ \A x \in StepsIn(new) : ~ LevelBlockingFailure(x)
         => Unflawed(doc, stage),
         Complete(doc, stage, StepsIn(steps) \cup StepsIn(new)),
         Ordered(doc, stage, steps \o new)
  PROVE  ReportInv'
<1>1. doc' = doc /\ pc' = stage /\ steps' = steps \o new  BY DEF Continue
<1>2. StepsIn(steps \o new) = StepsIn(steps) \cup StepsIn(new)
  BY StepsInConcat DEF ReportInv, CleanInv, TypeOK
<1>3. StepsTell(doc, stage, StepsIn(steps \o new))
  BY <1>2 DEF ReportInv, StepsTell
<1>4. ~ Reported' /\ ExcusedOnlyByTrustedTime'
  BY <1>1 DEF Reported, ExcusedOnlyByTrustedTime, RevocationExcused
<1> QED  BY <1>1, <1>3, <1>4 DEF ReportInv

LEMMA TellReport ==
  ASSUME ReportInv, CleanInv', NEW new \in Seq(Step), NEW with, MakeReport(new, with),
         \A x \in StepsIn(new) : Truthful(doc, x),
         /\ Unflawed(doc, pc)
         /\ \A x \in StepsIn(new) : ~ LevelBlockingFailure(x)
         => Unflawed(doc, "reported"),
         Complete(doc, "reported", StepsIn(steps) \cup StepsIn(new)),
         Ordered(doc, "reported", steps \o new),
         VerdictOf(doc, "reported", steps \o new, with)
  PROVE  ReportInv'
<1>1. /\ doc' = doc /\ pc' = "reported" /\ steps' = steps \o new /\ verdict' = with
      /\ level' = LevelFor(steps', IsPadesBaseline(doc))
  BY DEF MakeReport
<1>t. doc \in Document /\ steps \o new \in Seq(Step)  BY DEF ReportInv, CleanInv, TypeOK
<1>2. StepsIn(steps \o new) = StepsIn(steps) \cup StepsIn(new)
  BY StepsInConcat DEF ReportInv, CleanInv, TypeOK
<1>3. StepsTell(doc, "reported", StepsIn(steps \o new))
  BY <1>2 DEF ReportInv, StepsTell
<1>4. level' = EarnedLevel(doc)'
  <2>1. level' = LevelAt(doc, "reported")  BY <1>1, <1>3, <1>t, LevelOfSteps
  <2>2. EarnedLevel(doc)' = LevelAt(doc, "reported")
    BY <1>1, <1>t, BasisIs DEF EarnedLevel, LevelAt
  <2> QED  BY <2>1, <2>2
<1>5. ExcusedOnlyByTrustedTime'
  BY <1>1 DEF ExcusedOnlyByTrustedTime, RevocationExcused
<1> QED  BY <1>1, <1>3, <1>4, <1>5 DEF ReportInv

-----------------------------------------------------------------------------
(* The stages before the timestamp's.                                      *)

\* A step that is truthful and whose failure is hard.
Told(d, x) ==
  /\ x \in Step
  /\ Truthful(d, x)
  /\ Plainly(x)
  /\ x.kind \notin LateKinds \cup {"SignerCertificateChain"}

LEMMA ToldOk ==
  ASSUME NEW d,
         NEW kind \in {"ParsePDF", "CmsStructure", "MessageDigestAttribute",
                       "MessageDigestMatches", "DocumentTimestamp"},
         NEW status \in {"ok", "skip"}
  PROVE  Told(d, Plain(kind, status)) /\ ~ LevelBlockingFailure(Plain(kind, status))
<1> DEFINE x == Plain(kind, status)
<1>1. x \in Step  BY PlainIsStep, KindTypes, StatusLiterals
<1>2. x.kind = kind /\ x.status = status /\ x.note = ""  BY StepFields
<1> HIDE DEF x
<1>3. Truthful(d, x)
  BY <1>2 DEF Truthful, LevelBlockingFailure, Failed, Warned, SignatureVerifyKinds,
              SoftWarningKinds, TsaEvidenceKinds
<1>4. Plainly(x) /\ ~ LevelBlockingFailure(x)
  BY <1>2 DEF Plainly, LevelBlockingFailure, Failed, Warned
<1> QED  BY <1>1, <1>2, <1>3, <1>4 DEF Told, LateKinds, x

HardKinds ==
  FormatKinds \cup SignatureVerifyKinds \cup
  {"DocumentModifiedAfterSigning", "MessageDigestMatches", "MessageDigestAttribute",
   "TsaTimestamp", "DocumentTimestamp", "TsaMessageImprint", "TsaSignatureVerify"}

LEMMA ToldFail ==
  ASSUME NEW d \in Document, NEW kind \in HardKinds, NEW says \in {"", "content"}, Doubted(d),
         d.kind = "signature" => kind \in TimestampEvidenceKinds \/ ~ Basis(d)
  PROVE  Told(d, Noted(kind, "fail", says))
<1> DEFINE x == Noted(kind, "fail", says)
<1>1. kind \in StepKind
  BY DEF HardKinds, StepKind, TimestampEvidenceKinds, SoftWarningKinds, TsaEvidenceKinds
<1>2. x \in Step /\ x.kind = kind /\ x.status = "fail" /\ x.note = says
  BY <1>1, NotedIsStep, StatusLiterals DEF Note, Noted
<1> HIDE DEF x
<1>3. SubIndicationOf(x, TRUE) \in {"format", "modified", "hash", "crypto", "timestamp"}
  BY <1>2 DEF HardKinds, SubIndicationOf, FormatKinds, SignatureVerifyKinds
<1>4. Plainly(x)  BY <1>2, <1>3 DEF Plainly, Hard, Failed, Warned
<1>5. LevelBlockingFailure(x) => kind \notin TimestampEvidenceKinds
  BY <1>2 DEF LevelBlockingFailure, TimestampEvidenceKinds, SoftWarningKinds, TsaEvidenceKinds,
              FormatKinds, SignatureVerifyKinds
<1>6. kind \notin LateKinds \cup {"SignerCertificateChain"}
  BY DEF LateKinds, HardKinds, FormatKinds, SignatureVerifyKinds
<1>7. Truthful(d, x)
  BY <1>2, <1>5, <1>6 DEF Doubted, LateKinds, Failed, Warned, Truthful, HardKinds, FormatKinds, SignatureVerifyKinds, SoftWarningKinds,
                         TsaEvidenceKinds
<1> QED  BY <1>2, <1>4, <1>6, <1>7 DEF Told, x

LEMMA ToldPlainFail ==
  ASSUME NEW d \in Document, Doubted(d), NEW kind \in HardKinds,
         d.kind = "signature" => kind \in TimestampEvidenceKinds \/ ~ Basis(d)
  PROVE  Told(d, Plain(kind, "fail"))
BY ToldFail DEF Plain

LEMMA HardLiterals ==
  {"ByteRangeCoverage", "SignatureFieldResolution", "CmsStructure", "ParsePDF",
   "PadesBaselineRequirements", "SignerInfoPresent", "SignatureVerifySignedAttributes",
   "SignatureVerifyContent", "DocumentModifiedAfterSigning", "MessageDigestMatches",
   "MessageDigestAttribute", "TsaTimestamp", "DocumentTimestamp", "TsaMessageImprint",
   "TsaSignatureVerify"} \subseteq HardKinds
BY DEF HardKinds, FormatKinds, SignatureVerifyKinds

LEMMA BlockingLiterals ==
  ASSUME NEW kind \in {"ByteRangeCoverage", "SignatureFieldResolution", "CmsStructure",
                       "ParsePDF", "PadesBaselineRequirements", "SignerInfoPresent",
                       "SignatureVerifySignedAttributes", "SignatureVerifyContent",
                       "DocumentModifiedAfterSigning", "MessageDigestMatches",
                       "MessageDigestAttribute", "SignerCertificatePresent"},
         NEW says
  PROVE  /\ LevelBlockingFailure(Noted(kind, "fail", says)) /\ Failed(Noted(kind, "fail", says))
         /\ LevelBlockingFailure(Plain(kind, "fail")) /\ Failed(Plain(kind, "fail"))
BY DEF LevelBlockingFailure, Failed, Noted, Plain, FormatKinds, SignatureVerifyKinds

LEMMA EarlyContinue ==
  ASSUME ReportInv, CleanInv', pc \in EarlyStages, NEW stage \in EarlyStages \ {"coverage"},
         NEW new \in Seq(Step), Continue(stage, new),
         \A x \in StepsIn(new) : Told(doc, x),
         /\ Unflawed(doc, pc)
         /\ \A x \in StepsIn(new) : ~ LevelBlockingFailure(x)
         => Unflawed(doc, stage),
         /\ pc = "coverage" /\ doc.byteRangeCovers /\ OnlyLaterValidationData(doc)
         => Noted("ByteRangeCoverage", "ok", "validationData") \in StepsIn(new),
         /\ stage = "chain" /\ doc.kind = "signature" /\ Basis(doc)
         => \E kind \in SignatureVerifyKinds : Plain(kind, "ok") \in StepsIn(new),
         stage \in TokenStages \ {"token"} => doc.token = "present"
  PROVE  ReportInv'
<1>1. Complete(doc, stage, StepsIn(steps) \cup StepsIn(new))
  BY DEF ReportInv, StepsTell, Complete, Told, EarlyStages, Stage, LateKinds
<1>2. Ordered(doc, stage, steps \o new)
  BY OrderedGrows DEF ReportInv, Told, EarlyStages, Stage, CleanInv, TypeOK
<1>3. stage \in Stage \ {"reported", "closed"}  BY DEF EarlyStages
<1> QED  BY <1>1, <1>2, <1>3, TellContinue DEF Told

LEMMA EarlyReport ==
  ASSUME ReportInv, CleanInv', pc \in EarlyStages, NEW new \in Seq(Step), NEW with,
         MakeReport(new, with),
         \A x \in StepsIn(new) : Truthful(doc, x) /\ x.kind # "RevocationSigner",
         \A x \in StepsIn(new) : Warned(x) => x.kind \notin SoftWarningKinds,
         \E x \in StepsIn(new) : Failed(x) /\ x.kind \notin LateKinds,
         \/ \E x \in StepsIn(new) : LevelBlockingFailure(x)
         \/ doc.kind # "signature" /\ pc \in TokenStages,
         pc = "coverage" => ~ doc.byteRangeCovers,
         VerdictOf(doc, "reported", steps \o new, with)
  PROVE  ReportInv'
<1>t. steps \in Seq(Step) /\ steps \o new \in Seq(Step)  BY DEF ReportInv, CleanInv, TypeOK
<1>1. doc.kind = "signature" => ~ Basis(doc)
  BY DEF Truthful
<1>2. Complete(doc, "reported", StepsIn(steps) \cup StepsIn(new))
  BY <1>1 DEF ReportInv, StepsTell, Complete, EarlyStages, TokenStages
<1>3. VerdictFor(steps \o new) # "warning"
  <2>1. \A x \in StepsIn(steps) : Plainly(x)
    BY DEF ReportInv, Ordered, EarlyStages
  <2>2. \A x \in StepsIn(steps \o new) : Warned(x) => x.kind \notin SoftWarningKinds
    BY <1>t, <2>1, StepsInConcat DEF Plainly
  <2> QED  BY <1>t, <2>2, NoSoftWarning
<1>n. ~ WarningEarned(doc)  BY DEF Truthful
<1>4. Ordered(doc, "reported", steps \o new)
  BY <1>3, <1>n DEF Ordered
<1>5. /\ Unflawed(doc, pc)
      /\ \A x \in StepsIn(new) : ~ LevelBlockingFailure(x)
      => Unflawed(doc, "reported")
  BY DEF Unflawed, TokenStages
<1> QED  BY <1>2, <1>4, <1>5, TellReport

\* A verdict written by hand agrees with the steps if they fail plainly.
LEMMA EarlyFailure ==
  ASSUME ReportInv, CleanInv', pc \in EarlyStages, NEW new \in Seq(Step),
         NEW with \in {"invalid", "error"}, MakeReport(new, with),
         \A x \in StepsIn(new) : Told(doc, x),
         \E x \in StepsIn(new) : Failed(x),
         \/ \E x \in StepsIn(new) : LevelBlockingFailure(x)
         \/ doc.kind # "signature" /\ pc \in TokenStages,
         pc = "coverage" => ~ doc.byteRangeCovers
  PROVE  ReportInv'
<1>t. steps \in Seq(Step) /\ steps \o new \in Seq(Step)  BY DEF ReportInv, CleanInv, TypeOK
<1>1. StepsIn(steps \o new) = StepsIn(steps) \cup StepsIn(new)  BY <1>t, StepsInConcat
<1>2. \A x \in StepsIn(steps) : Plainly(x) /\ x.kind # "SignerCertificateChain"
  BY DEF ReportInv, Ordered, EarlyStages
<1>3. \A x \in StepsIn(steps \o new) : Plainly(x) /\ x.kind # "SignerCertificateChain"
  BY <1>1, <1>2 DEF Told
<1>4. Occurs(steps \o new, Failed)
  BY <1>1, OccursIsIn
<1>5. VerdictFor(steps \o new) = "invalid"
  BY <1>t, <1>3, <1>4, PlainlyInvalid
<1>6. VerdictOf(doc, "reported", steps \o new, with)
  BY <1>5 DEF VerdictOf
<1> QED  BY <1>6, EarlyReport DEF Told, Plainly, LateKinds

LEMMA StepsInUnion ==
  ASSUME NEW s \in Seq(Step), NEW t \in Seq(Step), NEW S, NEW T,
         StepsIn(s) \subseteq S, StepsIn(t) \subseteq T
  PROVE  s \o t \in Seq(Step) /\ StepsIn(s \o t) \subseteq S \cup T
BY StepsInConcat

LEMMA StepsInAppend ==
  ASSUME NEW s \in Seq(Step), NEW x \in Step
  PROVE  /\ s \o <<x>> \in Seq(Step) /\ StepsIn(s \o <<x>>) = StepsIn(s) \cup {x}
         /\ <<x>> \o s \in Seq(Step) /\ StepsIn(<<x>> \o s) = StepsIn(s) \cup {x}
<1>1. <<x>> \in Seq(Step) /\ StepsIn(<<x>>) = {x}  BY StepsInFew
<1> DEFINE t == <<x>>
<1>2. t \in Seq(Step) /\ StepsIn(t) = {x}  BY <1>1
<1> HIDE DEF t
<1>3. /\ s \o t \in Seq(Step) /\ StepsIn(s \o t) = StepsIn(s) \cup {x}
      /\ t \o s \in Seq(Step) /\ StepsIn(t \o s) = StepsIn(s) \cup {x}
  BY <1>2, StepsInConcat
<1> QED  BY <1>3 DEF t

LEMMA RevisionStepsIn ==
  ASSUME NEW d \in Document, NEW x \in StepsIn(RevisionSteps(d))
  PROVE  \/ x = Plain("DocumentModifiedAfterSigning", "fail")
              /\ (d.modified # {} \/ ValidationDataChange(d))
         \/ x = Plain("SignatureFieldResolution", "fail") /\ d.duplicateField
<1> DEFINE M == Plain("DocumentModifiedAfterSigning", "fail")
           F == Plain("SignatureFieldResolution", "fail")
           c(kind) == kind \in d.modified
           modified == \E kind \in ModificationKinds : c(kind)
           S == {y \in {M} : modified \/ ValidationDataChange(d)}
           T == S \cup {y \in {F} : d.duplicateField}
           s1 == When(c("dictionary"), M)
           s2 == When(c("shadowCopy"), M)
           s3 == When(c("fieldReference"), M)
           s4 == When(c("pages"), M)
           s5 == When(d.duplicateField, F)
           s6 == When(ValidationDataChange(d), M)
<1>1. M \in Step /\ F \in Step
  BY PlainIsStep, KindTypes, StatusLiterals
<1> HIDE DEF M, F
<1>2. s1 \in Seq(Step) /\ s2 \in Seq(Step) /\ s3 \in Seq(Step) /\ s4 \in Seq(Step)
        /\ s5 \in Seq(Step) /\ s6 \in Seq(Step)
  BY <1>1, WhenIsSeq
<1>3. /\ \A condition \in BOOLEAN : StepsIn(When(condition, M)) = {y \in {M} : condition}
      /\ \A condition \in BOOLEAN : StepsIn(When(condition, F)) = {y \in {F} : condition}
  BY <1>1, StepsInWhen
<1>4. d.duplicateField \in BOOLEAN /\ ValidationDataChange(d) \in BOOLEAN
  BY DEF Document, ValidationDataChange
<1>5. /\ StepsIn(s1) \subseteq T /\ StepsIn(s2) \subseteq T /\ StepsIn(s3) \subseteq T
      /\ StepsIn(s4) \subseteq T /\ StepsIn(s5) \subseteq T /\ StepsIn(s6) \subseteq T
  <2>1. \A kind \in ModificationKinds : c(kind) \in BOOLEAN /\ (c(kind) => modified)
    OBVIOUS
  <2>2. {"dictionary", "shadowCopy", "fieldReference", "pages"} \subseteq ModificationKinds
    BY DEF ModificationKinds
  <2> HIDE DEF c, modified
  <2> QED  BY <1>3, <1>4, <2>1, <2>2
<1>6. RevisionSteps(d) = s1 \o s2 \o s3 \o s4 \o s5 \o s6
  BY DEF RevisionSteps, M, F
<1>7. StepsIn(RevisionSteps(d)) \subseteq T
  <2> HIDE DEF s1, s2, s3, s4, s5, s6, T
  <2> DEFINE p2 == s1 \o s2
             p3 == p2 \o s3
             p4 == p3 \o s4
             p5 == p4 \o s5
             p6 == p5 \o s6
  <2>1. p2 \in Seq(Step) /\ StepsIn(p2) \subseteq T  BY <1>2, <1>5, StepsInUnion
  <2> HIDE DEF p2
  <2>2. p3 \in Seq(Step) /\ StepsIn(p3) \subseteq T  BY <1>2, <1>5, <2>1, StepsInUnion
  <2> HIDE DEF p3
  <2>3. p4 \in Seq(Step) /\ StepsIn(p4) \subseteq T  BY <1>2, <1>5, <2>2, StepsInUnion
  <2> HIDE DEF p4
  <2>4. p5 \in Seq(Step) /\ StepsIn(p5) \subseteq T  BY <1>2, <1>5, <2>3, StepsInUnion
  <2> HIDE DEF p5
  <2>5. StepsIn(p6) \subseteq T  BY <1>2, <1>5, <2>4, StepsInUnion
  <2> QED  BY <1>6, <2>5 DEF p2, p3, p4, p5, p6
<1>8. x \in T  BY <1>7
<1>9. modified => d.modified # {}  OBVIOUS
<1> HIDE DEF modified
<1> QED  BY <1>8, <1>9 DEF M, F

LEMMA StructureStepsIn ==
  ASSUME NEW d \in Document, NEW x \in StepsIn(StructureSteps(d))
  PROVE  /\ x = BaselineFailure
         /\ ChecksBaseline(d)
         /\ d.signerInfos = "several" \/ d.eContent # "absent" \/ ~ d.contentTypeData
<1> DEFINE c1 == ChecksBaseline(d) /\ d.signerInfos = "several"
           c2 == ChecksBaseline(d) /\ d.eContent # "absent"
           c3 == ChecksBaseline(d) /\ ~ d.contentTypeData
           T == {y \in {BaselineFailure} : c1 \/ c2 \/ c3}
           s1 == When(c1, BaselineFailure)
           s2 == When(c2, BaselineFailure)
           s3 == When(c3, BaselineFailure)
<1>1. s1 \in Seq(Step) /\ s2 \in Seq(Step) /\ s3 \in Seq(Step)
  BY BaselineFails, WhenIsSeq
<1>2. \A condition \in BOOLEAN :
        StepsIn(When(condition, BaselineFailure)) = {y \in {BaselineFailure} : condition}
  BY BaselineFails, StepsInWhen
<1>3. StepsIn(s1) \subseteq T /\ StepsIn(s2) \subseteq T /\ StepsIn(s3) \subseteq T
  BY <1>2
<1>4. StructureSteps(d) = s1 \o s2 \o s3
  BY DEF StructureSteps
<1>5. StepsIn(StructureSteps(d)) \subseteq T
  <2> HIDE DEF s1, s2, s3, T
  <2> DEFINE p2 == s1 \o s2
  <2>1. p2 \in Seq(Step) /\ StepsIn(p2) \subseteq T  BY <1>1, <1>3, StepsInUnion
  <2> HIDE DEF p2
  <2>2. StepsIn(p2 \o s3) \subseteq T  BY <1>1, <1>3, <2>1, StepsInUnion
  <2> QED  BY <1>4, <2>2 DEF p2
<1>6. x \in T  BY <1>5
<1> QED  BY <1>6

\* A list of failures without one is clean.
LEMMA NoneIsClean ==
  ASSUME NEW s \in Seq(Step), \A x \in StepsIn(s) : FALSE
  PROVE  Clean(s)
BY CleanIsIn

-----------------------------------------------------------------------------
LEMMA ReportCoverage ==
  ASSUME ReportInv, CleanInv', CheckByteRangeCoverage
  PROVE  ReportInv'
<1> DEFINE p == Plain("ParsePDF", "ok")
           c == CoverageStep(doc)
           f == Plain("ByteRangeCoverage", "fail")
<1>t. doc \in Document /\ pc = "coverage"
  BY DEF ReportInv, CleanInv, TypeOK, CheckByteRangeCoverage
<1>e. pc \in EarlyStages /\ "revisions" \in EarlyStages \ {"coverage"}
  BY <1>t DEF EarlyStages, Stage
<1>1. Told(doc, p) /\ ~ LevelBlockingFailure(p)  BY ToldOk
<1>2. Told(doc, c)
  <2>1. c \in Step  BY SingleStepTypes
  <2>2. /\ c.kind = "ByteRangeCoverage"
        /\ c.status = IF CoverageWarning(doc) THEN "warn" ELSE "ok"
        /\ c.note = IF OnlyLaterValidationData(doc) THEN "validationData" ELSE ""
    BY DEF CoverageStep, Noted, OkOr
  <2> HIDE DEF c
  <2>3. Warned(c) => ~ Earned(doc) /\ ~ WarningEarned(doc)
    BY <2>2 DEF Warned, Earned, WarningEarned
  <2>4. Truthful(doc, c)
    BY <2>2, <2>3 DEF Truthful, LevelBlockingFailure, Failed, Warned, SignatureVerifyKinds,
                      SoftWarningKinds, TsaEvidenceKinds
  <2>5. Plainly(c)
    BY <2>2 DEF Plainly, Failed, Warned, SoftWarningKinds, TsaEvidenceKinds
  <2> QED  BY <2>1, <2>2, <2>4, <2>5 DEF Told, LateKinds
<1>3. CASE doc.byteRangeCovers
  <2>1. Continue("revisions", <<p, c>>)  BY <1>3 DEF CheckByteRangeCoverage
  <2>2. p \in Step /\ c \in Step  BY <1>1, <1>2 DEF Told
  <2>3. OnlyLaterValidationData(doc) => c = Noted("ByteRangeCoverage", "ok", "validationData")
    BY DEF CoverageStep, CoverageWarning, OkOr
  <2> HIDE DEF p, c
  <2>4. <<p, c>> \in Seq(Step) /\ StepsIn(<<p, c>>) = {p, c}  BY <2>2, StepsInFew
  <2>5. Unflawed(doc, "revisions")  BY <1>3 DEF Unflawed, TokenStages
  <2> DEFINE new == <<p, c>>
  <2> HIDE DEF new
  <2> QED  BY <1>1, <1>2, <1>e, <2>1, <2>3, <2>4, <2>5, EarlyContinue DEF new, TokenStages
<1>4. CASE ~ doc.byteRangeCovers
  <2>1. MakeReport(<<p, f>>, "invalid")  BY <1>4 DEF CheckByteRangeCoverage
  <2>2. Doubted(doc) /\ ~ Basis(doc)
    BY <1>4 DEF Doubted, Earned, WarningEarned, Intact, Basis, DigestIsSigned, SignerIsDescribed, ContainerIsRead,
                BytesAreSigned
  <2>3. Told(doc, f) /\ LevelBlockingFailure(f) /\ Failed(f)
    BY <1>t, <2>2, ToldPlainFail, HardLiterals, BlockingLiterals
  <2>4. p \in Step /\ f \in Step  BY <1>1, <2>3 DEF Told
  <2> HIDE DEF p, f
  <2>5. <<p, f>> \in Seq(Step) /\ StepsIn(<<p, f>>) = {p, f}  BY <2>4, StepsInFew
  <2> DEFINE new == <<p, f>>
  <2> HIDE DEF new
  <2> QED  BY <1>1, <1>4, <1>e, <2>1, <2>3, <2>5, EarlyFailure DEF new
<1> QED  BY <1>3, <1>4

LEMMA ReportRevisions ==
  ASSUME ReportInv, CleanInv', CheckLaterRevisions
  PROVE  ReportInv'
<1> DEFINE next == IF doc.kind = "documentTimestamp" THEN "token" ELSE "cms"
           new == RevisionSteps(doc)
           M == Plain("DocumentModifiedAfterSigning", "fail")
           F == Plain("SignatureFieldResolution", "fail")
<1>1. pc = "revisions" /\ Continue(next, new)  BY DEF CheckLaterRevisions
<1>2. doc \in Document /\ new \in Seq(Step)
  BY RevisionStepsType DEF ReportInv, CleanInv, TypeOK
<1>3. /\ pc \in EarlyStages /\ next \in EarlyStages \ {"coverage"}
      /\ next \in {"token", "cms"} /\ next # "chain"
  BY <1>1 DEF EarlyStages, Stage
<1>4. ASSUME NEW x \in StepsIn(new)
      PROVE  /\ x = M \/ x = F
             /\ doc.modified # {} \/ ValidationDataChange(doc) \/ doc.duplicateField
  BY <1>2, RevisionStepsIn
<1>5. ASSUME NEW x \in StepsIn(new) PROVE Told(doc, x) /\ LevelBlockingFailure(x)
  <2>1. ~ Basis(doc) /\ Doubted(doc)
    BY <1>4 DEF Doubted, Earned, WarningEarned, Intact, Basis, DigestIsSigned, SignerIsDescribed, ContainerIsRead,
                BytesAreSigned, ValidationDataChange
  <2>2. Told(doc, M) /\ Told(doc, F)
    BY <1>2, <2>1, ToldPlainFail, HardLiterals
  <2>3. LevelBlockingFailure(M) /\ LevelBlockingFailure(F)
    BY BlockingLiterals
  <2> QED  BY <1>4, <2>2, <2>3
<1>6. /\ Unflawed(doc, pc)
      /\ \A x \in StepsIn(new) : ~ LevelBlockingFailure(x)
      => Unflawed(doc, next)
  <2> SUFFICES ASSUME Unflawed(doc, pc), \A x \in StepsIn(new) : FALSE
               PROVE  Unflawed(doc, next)
    BY <1>5
  <2>1. doc.modified = {} /\ ~ ValidationDataChange(doc) /\ ~ doc.duplicateField
    BY <1>2, NoneIsClean, CleanRevisions
  <2> QED  BY <1>1, <1>3, <2>1 DEF Unflawed, BytesAreSigned
<1> HIDE DEF new, next
<1> QED  BY <1>1, <1>2, <1>3, <1>5, <1>6, EarlyContinue DEF TokenStages

LEMMA ReportCms ==
  ASSUME ReportInv, CleanInv', ParseCms
  PROVE  ReportInv'
<1> DEFINE ok == Plain("CmsStructure", "ok")
           e == Plain("SignatureVerifySignedAttributes", "fail")
           w == When(doc.eContent = "empty", e)
           read == <<ok>> \o w
           c == Plain("CmsStructure", "fail")
           p == Plain("ParsePDF", "fail")
           unsupported == doc.unsupportedPolicy \/ doc.malformedCutoff
<1>t. doc \in Document /\ pc = "cms" /\ doc.kind = "signature"
  BY DEF ReportInv, CleanInv, TypeOK, ParseCms, SignatureStages
<1>e. pc \in EarlyStages /\ "structure" \in EarlyStages \ {"coverage"}
  BY <1>t DEF EarlyStages, Stage
<1>1. \/ ~ doc.cmsParses /\ MakeReport(<<c>>, "invalid")
      \/ unsupported /\ MakeReport(read \o <<p>>, "error")
      \/ doc.cmsParses /\ ~ unsupported /\ Continue("structure", read)
  BY DEF ParseCms
<1>b. Basis(doc) => doc.cmsParses /\ ~ unsupported /\ doc.eContent # "empty"
  BY DEF Basis, DigestIsSigned, SignerIsDescribed, ContainerIsRead
<1>x. ~ Basis(doc) => Doubted(doc)  BY <1>t, NoBasisIsDoubted
<1>2. Told(doc, ok) /\ ~ LevelBlockingFailure(ok)  BY ToldOk
<1>3. /\ ~ Basis(doc) => Told(doc, e) /\ Told(doc, c) /\ Told(doc, p)
      /\ LevelBlockingFailure(e) /\ LevelBlockingFailure(c) /\ LevelBlockingFailure(p)
      /\ Failed(c) /\ Failed(p)
  BY <1>t, <1>x, ToldPlainFail, HardLiterals, BlockingLiterals
<1>s. ok \in Step /\ e \in Step /\ c \in Step /\ p \in Step
  BY PlainIsStep, KindTypes, StatusLiterals
<1> HIDE DEF ok, e, c, p
<1>4. /\ w \in Seq(Step) /\ read \in Seq(Step) /\ read \o <<p>> \in Seq(Step)
      /\ <<c>> \in Seq(Step) /\ <<p>> \in Seq(Step)
  BY <1>s, WhenIsSeq
<1>5. /\ StepsIn(w) = {x \in {e} : doc.eContent = "empty"}
      /\ StepsIn(<<c>>) = {c} /\ StepsIn(<<p>>) = {p} /\ StepsIn(<<ok>>) = {ok}
  BY <1>s, StepsInWhen, StepsInFew
<1>6. StepsIn(read) = {ok} \cup {x \in {e} : doc.eContent = "empty"}
  <2> HIDE DEF w
  <2> QED  BY <1>s, <1>4, <1>5, StepsInAppend
<1> HIDE DEF read
<1>7. StepsIn(read \o <<p>>) = StepsIn(read) \cup {p}  BY <1>s, <1>4, StepsInAppend
<1>8. CASE ~ doc.cmsParses /\ MakeReport(<<c>>, "invalid")
  BY <1>b, <1>e, <1>t, <1>3, <1>4, <1>5, <1>8, EarlyFailure
<1>9. CASE unsupported /\ MakeReport(read \o <<p>>, "error")
  BY <1>b, <1>e, <1>t, <1>2, <1>3, <1>4, <1>6, <1>7, <1>9, EarlyFailure
<1>10. CASE doc.cmsParses /\ ~ unsupported /\ Continue("structure", read)
  <2>1. \A x \in StepsIn(read) : Told(doc, x)  BY <1>b, <1>2, <1>3, <1>6
  <2>2. /\ Unflawed(doc, pc)
        /\ \A x \in StepsIn(read) : ~ LevelBlockingFailure(x)
        => Unflawed(doc, "structure")
    BY <1>t, <1>3, <1>6, <1>10 DEF Unflawed, TokenStages, ContainerIsRead
  <2> QED  BY <1>e, <1>t, <1>4, <1>10, <2>1, <2>2, EarlyContinue DEF TokenStages
<1> QED  BY <1>1, <1>8, <1>9, <1>10

LEMMA ReportStructure ==
  ASSUME ReportInv, CleanInv', CheckBaselineStructure
  PROVE  ReportInv'
<1> DEFINE s == StructureSteps(doc)
           b == When(ChecksBaseline(doc) /\ doc.signedAttrs # "conforming", BaselineFailure)
           i == Plain("SignerInfoPresent", "fail")
           new == s \o b
           none == s \o <<i>>
<1>t. doc \in Document /\ pc = "structure" /\ doc.kind = "signature"
  BY DEF ReportInv, CleanInv, TypeOK, CheckBaselineStructure, SignatureStages
<1>e. pc \in EarlyStages /\ "digest" \in EarlyStages \ {"coverage"}
  BY <1>t DEF EarlyStages, Stage
<1>x. ~ Basis(doc) => Doubted(doc)  BY <1>t, NoBasisIsDoubted
<1>1. ~ Basis(doc) => Told(doc, BaselineFailure) /\ Told(doc, i)
  BY <1>t, <1>x, ToldPlainFail, HardLiterals DEF BaselineFailure
<1>2. LevelBlockingFailure(BaselineFailure) /\ LevelBlockingFailure(i) /\ Failed(i)
  BY BlockingLiterals DEF BaselineFailure
<1>3. s \in Seq(Step) /\ b \in Seq(Step) /\ i \in Step /\ BaselineFailure \in Step
  BY StructureStepsType, WhenIsSeq, PlainIsStep, KindTypes, StatusLiterals
<1> HIDE DEF i
<1>4. \A x \in StepsIn(s) : x = BaselineFailure /\ ~ Basis(doc)
  BY <1>t, StructureStepsIn DEF Basis, DigestIsSigned, SignerIsDescribed
<1>5. StepsIn(b) = {x \in {BaselineFailure} : ChecksBaseline(doc) /\ doc.signedAttrs # "conforming"}
  BY <1>3, StepsInWhen
<1>6. new \in Seq(Step) /\ StepsIn(new) = StepsIn(s) \cup StepsIn(b)
  BY <1>3, StepsInConcat
<1>7. none \in Seq(Step) /\ StepsIn(none) = StepsIn(s) \cup {i}
  BY <1>3, StepsInAppend
<1>8. CASE doc.signerInfos = "none"
  <2>1. MakeReport(none, "invalid")  BY <1>8 DEF CheckBaselineStructure, i
  <2>2. ~ Basis(doc)  BY <1>8 DEF Basis, DigestIsSigned, SignerIsDescribed
  <2>3. \A x \in StepsIn(none) : Told(doc, x)  BY <1>1, <1>4, <1>7, <2>2
  <2> HIDE DEF none
  <2> QED  BY <1>e, <1>t, <1>2, <1>7, <2>1, <2>3, EarlyFailure
<1>9. CASE doc.signerInfos # "none"
  <2>1. Continue("digest", new)  BY <1>9 DEF CheckBaselineStructure
  <2>2. \A x \in StepsIn(b) : x = BaselineFailure /\ ~ Basis(doc)
    BY <1>5 DEF Basis, DigestIsSigned, SignerIsDescribed
  <2>3. \A x \in StepsIn(new) : x = BaselineFailure /\ ~ Basis(doc)
    BY <1>4, <1>6, <2>2
  <2>4. \A x \in StepsIn(new) : Told(doc, x)  BY <1>1, <2>3
  <2>5. ASSUME Unflawed(doc, pc), \A x \in StepsIn(new) : ~ LevelBlockingFailure(x)
        PROVE  Unflawed(doc, "digest")
    <3>1. \A x \in StepsIn(new) : FALSE  BY <1>2, <2>3, <2>5
    <3>2. ContainerIsRead(doc)  BY <1>t, <2>5 DEF Unflawed
    <3>3. ~ (ChecksBaseline(doc) /\ doc.signedAttrs # "conforming")
      BY <1>5, <1>6, <3>1
    <3>4. ChecksBaseline(doc) =>
            doc.signerInfos # "several" /\ doc.eContent = "absent" /\ doc.contentTypeData
      <4>1. Clean(s)  BY <1>3, <1>6, <3>1, NoneIsClean
      <4> HIDE DEF s
      <4> QED  BY <1>t, <4>1, CleanStructure DEF s
    <3>5. doc.signerInfos \in {"none", "one", "several"}  BY <1>t DEF Document
    <3> QED  BY <1>9, <3>2, <3>3, <3>4, <3>5 DEF Unflawed, SignerIsDescribed, TokenStages
  <2> HIDE DEF new
  <2> QED  BY <1>e, <1>t, <1>6, <2>1, <2>4, <2>5, EarlyContinue DEF TokenStages
<1> QED  BY <1>8, <1>9

LEMMA ReportDigest ==
  ASSUME ReportInv, CleanInv', CheckMessageDigest
  PROVE  ReportInv'
<1> DEFINE skip == Plain("MessageDigestAttribute", "skip")
           ok == Plain("MessageDigestMatches", "ok")
           a == Plain("MessageDigestAttribute", "fail")
           m == Plain("MessageDigestMatches", "fail")
           r == Noted("MessageDigestMatches", "fail", "rsaSha1")
           hand == IF doc.subFilter = "adbeSha1" THEN "inconclusive" ELSE "invalid"
<1>t. /\ doc \in Document /\ pc = "digest" /\ doc.kind = "signature"
      /\ steps \in Seq(Step)
      /\ doc.messageDigest \in {"matches", "differs", "missing"}
  BY DEF ReportInv, CleanInv, TypeOK, CheckMessageDigest, SignatureStages, Document
<1>e. pc \in EarlyStages /\ "signature" \in EarlyStages \ {"coverage"}
  BY <1>t DEF EarlyStages, Stage
<1>x. ~ Basis(doc) => Doubted(doc)  BY <1>t, NoBasisIsDoubted
<1>1. \/ /\ doc.digest = "rsaSha1"
         /\ MakeReport(<<r>>, hand)
      \/ /\ doc.digest \notin {"supported", "rsaSha1"}
         /\ MakeReport(<<m>>, "invalid")
      \/ /\ doc.digest = "supported" /\ doc.signedAttrs = "none"
         /\ Continue("signature", <<skip>>)
      \/ /\ doc.signedAttrs # "none" /\ doc.messageDigest = "missing"
         /\ MakeReport(<<a>>, "invalid")
      \/ /\ doc.signedAttrs # "none" /\ doc.messageDigest = "differs"
         /\ MakeReport(<<m>>, "invalid")
      \/ /\ doc.digest = "supported" /\ doc.messageDigest = "matches"
         /\ Continue("signature", <<ok>>)
  <2>1. CASE doc.digest = "rsaSha1"
    BY <2>1 DEF CheckMessageDigest
  <2>2. CASE doc.digest \notin {"supported", "rsaSha1"}
    BY <2>2 DEF CheckMessageDigest, Plain
  <2>3. CASE doc.digest = "supported"
    BY <1>t, <2>3 DEF CheckMessageDigest
  <2> QED  BY <2>1, <2>2, <2>3
<1>b. Basis(doc) =>
        doc.digest = "supported" /\ (doc.signedAttrs # "none" => doc.messageDigest = "matches")
  BY DEF Basis, DigestIsSigned
<1>2. /\ Told(doc, skip) /\ Told(doc, ok)
      /\ ~ Basis(doc) => Told(doc, a) /\ Told(doc, m)
  BY <1>t, <1>x, ToldOk, ToldPlainFail, HardLiterals
<1>3. /\ LevelBlockingFailure(a) /\ LevelBlockingFailure(m) /\ LevelBlockingFailure(r)
      /\ Failed(a) /\ Failed(m) /\ Failed(r)
  BY BlockingLiterals
<1>4. skip \in Step /\ ok \in Step /\ a \in Step /\ m \in Step /\ r \in Step
  BY PlainIsStep, NotedIsStep, KindTypes, StatusLiterals DEF Note
<1>r. r.kind = "MessageDigestMatches" /\ r.status = "fail" /\ r.note = "rsaSha1"
  BY DEF Noted
<1> HIDE DEF skip, ok, a, m, r
<1>5. \A x \in {skip, ok, a, m, r} : <<x>> \in Seq(Step) /\ StepsIn(<<x>>) = {x}
  BY <1>4, StepsInFew
<1>6. CASE doc.digest = "rsaSha1" /\ MakeReport(<<r>>, hand)
  <2>1. ~ Basis(doc) /\ Doubted(doc)  BY <1>b, <1>x, <1>6
  <2>2. Truthful(doc, r)
    BY <1>r, <2>1 DEF Truthful, Doubted, Warned
  <2>3. ~ Warned(r) /\ r.kind \notin LateKinds  BY <1>r DEF Warned, LateKinds
  <2>4. VerdictFor(steps \o <<r>>) \in {"invalid", "inconclusive"}
    <3>1. steps \o <<r>> \in Seq(Step) /\ StepsIn(steps \o <<r>>) = StepsIn(steps) \cup {r}
      BY <1>t, <1>4, StepsInAppend
    <3> DEFINE l == steps \o <<r>>
    <3> HIDE DEF l
    <3>2. Occurs(l, Failed)  BY <1>3, <3>1, OccursIsIn DEF l
    <3>3. \A x \in StepsIn(l) : Warned(x) => x.kind \notin SoftWarningKinds
      BY <1>e, <2>3, <3>1 DEF ReportInv, Ordered, EarlyStages, Plainly, l
    <3>4. l \in Seq(Step)  BY <3>1 DEF l
    <3> QED  BY <3>2, <3>3, <3>4, NoSoftWarning, VerdictCases DEF l
  <2>5. VerdictOf(doc, "reported", steps \o <<r>>, hand)
    BY <1>t, <1>6, <2>4 DEF VerdictOf
  <2> HIDE DEF hand
  <2> QED  BY <1>e, <1>t, <1>3, <1>5, <1>6, <2>2, <2>3, <2>5, EarlyReport DEF LateKinds
<1>7. CASE /\ doc.digest \notin {"supported", "rsaSha1"}
           /\ MakeReport(<<m>>, "invalid")
  BY <1>b, <1>e, <1>t, <1>2, <1>3, <1>5, <1>7, EarlyFailure
<1>8. CASE /\ doc.digest = "supported" /\ doc.signedAttrs = "none"
           /\ Continue("signature", <<skip>>)
  <2>1. Unflawed(doc, pc) => Unflawed(doc, "signature")
    BY <1>t, <1>8 DEF Unflawed, DigestIsSigned, TokenStages
  <2> QED  BY <1>e, <1>t, <1>2, <1>5, <1>8, <2>1, EarlyContinue DEF TokenStages
<1>9. CASE /\ doc.signedAttrs # "none" /\ doc.messageDigest = "missing"
           /\ MakeReport(<<a>>, "invalid")
  BY <1>b, <1>e, <1>t, <1>2, <1>3, <1>5, <1>9, EarlyFailure
<1>10. CASE /\ doc.signedAttrs # "none" /\ doc.messageDigest = "differs"
            /\ MakeReport(<<m>>, "invalid")
  BY <1>b, <1>e, <1>t, <1>2, <1>3, <1>5, <1>10, EarlyFailure
<1>11. CASE /\ doc.digest = "supported" /\ doc.messageDigest = "matches"
            /\ Continue("signature", <<ok>>)
  <2>1. Unflawed(doc, pc) => Unflawed(doc, "signature")
    BY <1>t, <1>11 DEF Unflawed, DigestIsSigned, TokenStages
  <2> QED  BY <1>e, <1>t, <1>2, <1>5, <1>11, <2>1, EarlyContinue DEF TokenStages
<1> QED  BY <1>1, <1>6, <1>7, <1>8, <1>9, <1>10, <1>11

LEMMA ReportValue ==
  ASSUME ReportInv, CleanInv', VerifySignatureValue
  PROVE  ReportInv'
<1> DEFINE v == SignatureStep(doc)
           b == When(ChecksBaseline(doc) /\ ~ doc.signingCertAttr, BaselineFailure)
           new == <<v>> \o b
           p == Plain("SignerCertificatePresent", "fail")
<1>t. /\ doc \in Document /\ pc = "signature" /\ doc.kind = "signature"
      /\ steps \in Seq(Step) /\ doc.signingCertAttr \in BOOLEAN
  BY DEF ReportInv, CleanInv, TypeOK, VerifySignatureValue, SignatureStages, Document
<1>e. pc \in EarlyStages /\ "chain" \in EarlyStages \ {"coverage"}
  BY <1>t DEF EarlyStages, Stage
<1>x. ~ Basis(doc) => Doubted(doc)  BY <1>t, NoBasisIsDoubted
<1>1. ~ Basis(doc) => Told(doc, BaselineFailure)
  BY <1>t, <1>x, ToldPlainFail, HardLiterals DEF BaselineFailure
<1>2. LevelBlockingFailure(BaselineFailure) /\ LevelBlockingFailure(p)
  BY BlockingLiterals DEF BaselineFailure
<1>3. v \in Step /\ BaselineFailure \in Step /\ b \in Seq(Step) /\ p \in Step
  BY SingleStepTypes, BaselineFails, WhenIsSeq, PlainIsStep, KindTypes, StatusLiterals
<1>4. ~ doc.signatureVerifies => Told(doc, v) /\ LevelBlockingFailure(v)
  <2> SUFFICES ASSUME ~ doc.signatureVerifies PROVE Told(doc, v) /\ LevelBlockingFailure(v)
    OBVIOUS
  <2>1. ~ Basis(doc)  BY DEF Basis
  <2>2. \/ v = Noted("SignatureVerifyContent", "fail", "content")
        \/ v = Plain("SignatureVerifySignedAttributes", "fail")
    BY DEF SignatureStep, OkOr
  <2>3. /\ Told(doc, Noted("SignatureVerifyContent", "fail", "content"))
        /\ Told(doc, Plain("SignatureVerifySignedAttributes", "fail"))
    BY <1>t, <1>x, <2>1, ToldFail, ToldPlainFail, HardLiterals
  <2>4. /\ LevelBlockingFailure(Noted("SignatureVerifyContent", "fail", "content"))
        /\ LevelBlockingFailure(Plain("SignatureVerifySignedAttributes", "fail"))
    BY BlockingLiterals
  <2> HIDE DEF v
  <2> QED  BY <2>2, <2>3, <2>4
<1>5. doc.signatureVerifies =>
        /\ Told(doc, v) /\ ~ LevelBlockingFailure(v)
        /\ \E kind \in SignatureVerifyKinds : v = Plain(kind, "ok")
  <2> SUFFICES ASSUME doc.signatureVerifies
               PROVE  /\ Told(doc, v) /\ ~ LevelBlockingFailure(v)
                      /\ \E kind \in SignatureVerifyKinds : v = Plain(kind, "ok")
    OBVIOUS
  <2>1. \/ v = Plain("SignatureVerifyContent", "ok")
        \/ v = Plain("SignatureVerifySignedAttributes", "ok")
    BY DEF SignatureStep, OkOr, Plain
  <2> HIDE DEF v
  <2>2. v.kind \in SignatureVerifyKinds /\ v.status = "ok" /\ v.note = ""
    <3>1. \A kind \in SignatureVerifyKinds :
            Plain(kind, "ok").kind = kind /\ Plain(kind, "ok").status = "ok"
              /\ Plain(kind, "ok").note = ""
      BY DEF Plain, Noted
    <3>2. v.kind \in SignatureVerifyKinds
      BY <2>1, <3>1 DEF SignatureVerifyKinds
    <3>3. v.status = "ok"
      BY <2>1, <3>1 DEF SignatureVerifyKinds
    <3>4. v.note = ""
      BY <2>1, <3>1 DEF SignatureVerifyKinds
    <3> QED  BY <3>2, <3>3, <3>4
  <2>3. \E kind \in SignatureVerifyKinds : v = Plain(kind, "ok")
    BY <2>1 DEF SignatureVerifyKinds
  <2>4. Truthful(doc, v)
    BY <1>t, <2>2 DEF Truthful, LevelBlockingFailure, Failed, Warned, SignatureVerifyKinds,
                      SoftWarningKinds, TsaEvidenceKinds, LateKinds
  <2>5. Plainly(v) /\ ~ LevelBlockingFailure(v)
    BY <2>2 DEF Plainly, LevelBlockingFailure, Failed, Warned
  <2>6. v.kind \notin LateKinds \cup {"SignerCertificateChain"}
    BY <2>2 DEF SignatureVerifyKinds, LateKinds
  <2> QED  BY <1>3, <2>3, <2>4, <2>5, <2>6 DEF Told
<1> HIDE DEF v
<1>6. StepsIn(b) = {x \in {BaselineFailure} : ChecksBaseline(doc) /\ ~ doc.signingCertAttr}
  BY <1>3, StepsInWhen
<1>7. new \in Seq(Step) /\ StepsIn(new) = StepsIn(b) \cup {v}
  BY <1>3, StepsInAppend
<1>8. CASE doc.signerCertFound
  <2>1. Continue("chain", new)  BY <1>8 DEF VerifySignatureValue, v
  <2>2. ChecksBaseline(doc) /\ ~ doc.signingCertAttr => ~ Basis(doc)  BY DEF Basis
  <2>3. \A x \in StepsIn(new) : Told(doc, x)  BY <1>1, <1>4, <1>5, <1>6, <1>7, <2>2
  <2>4. ASSUME Unflawed(doc, pc), \A x \in StepsIn(new) : ~ LevelBlockingFailure(x)
        PROVE  Unflawed(doc, "chain")
    <3>1. DigestIsSigned(doc)  BY <1>t, <2>4 DEF Unflawed
    <3>2. doc.signatureVerifies  BY <1>4, <1>7, <2>4
    <3>3. ~ (ChecksBaseline(doc) /\ ~ doc.signingCertAttr)  BY <1>2, <1>6, <1>7, <2>4
    <3> QED  BY <1>8, <3>1, <3>2, <3>3 DEF Unflawed, Basis, TokenStages
  <2>5. Basis(doc) => \E kind \in SignatureVerifyKinds : Plain(kind, "ok") \in StepsIn(new)
    <3>1. Basis(doc) => doc.signatureVerifies  BY DEF Basis
    <3> QED  BY <1>5, <1>7, <3>1
  <2> HIDE DEF new
  <2> QED  BY <1>e, <1>t, <1>7, <2>1, <2>3, <2>4, <2>5, EarlyContinue DEF TokenStages
<1>9. CASE ~ doc.signerCertFound
  <2>1. MakeReport(<<p>>, VerdictFor(steps \o <<p>>))
    BY <1>9 DEF VerifySignatureValue, Return
  <2>2. ~ Basis(doc) /\ Doubted(doc)  BY <1>9, <1>x DEF Basis
  <2>3. p.kind = "SignerCertificatePresent" /\ p.status = "fail" /\ p.note = ""
    BY StepFields
  <2> HIDE DEF p
  <2>4. Truthful(doc, p) /\ p.kind \notin LateKinds /\ ~ Warned(p) /\ Failed(p)
    BY <2>2, <2>3 DEF Truthful, Doubted, LateKinds, Warned, Failed, SignatureVerifyKinds,
                      SoftWarningKinds, TsaEvidenceKinds
  <2>5. <<p>> \in Seq(Step) /\ StepsIn(<<p>>) = {p}  BY <1>3, StepsInFew
  <2>6. VerdictOf(doc, "reported", steps \o <<p>>, VerdictFor(steps \o <<p>>))
    BY DEF VerdictOf
  <2> QED  BY <1>2, <1>e, <1>t, <2>1, <2>4, <2>5, <2>6, EarlyReport
     DEF LateKinds
<1> QED  BY <1>8, <1>9

-----------------------------------------------------------------------------
(* The signer's certificate and the timestamp.                             *)

LEMMA ReportChain ==
  ASSUME ReportInv, CleanInv', BuildSignerChain
  PROVE  ReportInv'
<1> DEFINE c == ChainStep(doc)
<1>t. /\ doc \in Document /\ pc = "chain" /\ doc.kind = "signature" /\ steps \in Seq(Step)
      /\ Continue("usage", <<c>>)
  BY DEF ReportInv, CleanInv, TypeOK, BuildSignerChain, SignatureStages
<1>1. c \in Step /\ <<c>> \in Seq(Step) /\ StepsIn(<<c>>) = {c}
  BY SingleStepTypes, StepsInFew
<1>2. /\ c.kind = "SignerCertificateChain" /\ c.note = ""
      /\ c.status = IF ChainTrusted(doc) THEN "ok" ELSE "warn"
  BY DEF ChainStep, Plain, Noted, OkOr
<1> HIDE DEF c
<1>3. Warned(c) => Doubted(doc)
  BY <1>t, <1>2 DEF Doubted, Warned, Earned, WarningEarned, SignerAccepted
<1>4. Truthful(doc, c) /\ ~ LevelBlockingFailure(c)
  BY <1>2, <1>3 DEF Truthful, Doubted, LateKinds, LevelBlockingFailure, Failed, Warned,
                    SignatureVerifyKinds, SoftWarningKinds, TsaEvidenceKinds
<1>5. Plainly(c)
  BY <1>2 DEF Plainly, Failed, SoftWarningKinds, TsaEvidenceKinds
<1>6. Unflawed(doc, pc) => Unflawed(doc, "usage")
  BY <1>t DEF Unflawed, TokenStages
<1>7. Complete(doc, "usage", StepsIn(steps) \cup {c})
  BY <1>t, <1>2 DEF ReportInv, StepsTell, Complete, TokenStages, LateKinds
<1>8. Ordered(doc, "usage", steps \o <<c>>)
  <2>1. Ordered(doc, pc, steps)  BY DEF ReportInv
  <2>2. pc \in EarlyStages \cup {"usage"} /\ "usage" \in Stage \ {"validity", "reported", "closed"}
        /\ "usage" \notin EarlyStages
    BY <1>t DEF EarlyStages, Stage
  <2> QED  BY <1>t, <1>1, <1>5, <2>1, <2>2, OrderedGrows
<1>9. "usage" \in Stage \ {"reported", "closed"}  BY DEF Stage
<1> QED  BY <1>t, <1>1, <1>4, <1>6, <1>7, <1>8, <1>9, TellContinue

LEMMA UsageStepsIn ==
  ASSUME NEW d, NEW x \in StepsIn(UsageSteps(d))
  PROVE  \/ x = Plain("SignerCertificateKeyUsage", UsageStatus(d.keyUsage))
         \/ x = Plain("SignerCertificateExtendedKeyUsage", UsageStatus(d.extKeyUsage))
<1> DEFINE k == Plain("SignerCertificateKeyUsage", UsageStatus(d.keyUsage))
           e == Plain("SignerCertificateExtendedKeyUsage", UsageStatus(d.extKeyUsage))
           check == ChecksSignerCertificate(d)
           s1 == When(check, k)
           s2 == When(check, e)
<1>1. k \in Step /\ e \in Step  BY PlainIsStep, StatusTypes, KindTypes
<1>2. UsageSteps(d) = s1 \o s2  BY DEF UsageSteps
<1> HIDE DEF k, e
<1>3. s1 \in Seq(Step) /\ s2 \in Seq(Step)  BY <1>1, WhenIsSeq
<1>4. check \in BOOLEAN  BY DEF ChecksSignerCertificate
<1>5. StepsIn(s1) \subseteq {k} /\ StepsIn(s2) \subseteq {e}
  BY <1>1, <1>4, StepsInWhen
<1>6. StepsIn(s1 \o s2) \subseteq {k} \cup {e}
  <2> HIDE DEF s1, s2
  <2> QED  BY <1>3, <1>5, StepsInUnion
<1> QED  BY <1>2, <1>6 DEF k, e

LEMMA ReportUsage ==
  ASSUME ReportInv, CleanInv', CheckKeyUsage
  PROVE  ReportInv'
<1> DEFINE k == Plain("SignerCertificateKeyUsage", UsageStatus(doc.keyUsage))
           e == Plain("SignerCertificateExtendedKeyUsage", UsageStatus(doc.extKeyUsage))
           new == UsageSteps(doc)
<1>t. /\ doc \in Document /\ pc = "usage" /\ doc.kind = "signature" /\ steps \in Seq(Step)
      /\ Continue("timestamp", new) /\ new \in Seq(Step)
  BY UsageStepsType DEF ReportInv, CleanInv, TypeOK, CheckKeyUsage, SignatureStages
<1>1. ASSUME NEW usage, NEW kind \in {"SignerCertificateKeyUsage",
                                      "SignerCertificateExtendedKeyUsage"},
             usage = "allowed" \/ Doubted(doc)
      PROVE  LET x == Plain(kind, UsageStatus(usage))
             IN  /\ Truthful(doc, x) /\ ~ LevelBlockingFailure(x) /\ Plainly(x)
                 /\ x.kind \notin LateKinds
  <2> DEFINE x == Plain(kind, UsageStatus(usage))
  <2>1. /\ x.kind = kind /\ x.note = ""
        /\ x.status = "ok" \/ (x.status \in {"fail", "warn"} /\ usage # "allowed")
    <3> DEFINE status == UsageStatus(usage)
    <3>1. status = "ok" \/ (status \in {"fail", "warn"} /\ usage # "allowed")
      BY DEF UsageStatus
    <3> HIDE DEF status
    <3>2. x.kind = kind /\ x.note = "" /\ x.status = status
      BY DEF Plain, Noted, status
    <3> QED  BY <3>1, <3>2
  <2> HIDE DEF x
  <2>2. Truthful(doc, x) /\ ~ LevelBlockingFailure(x)
    BY <1>1, <2>1 DEF Truthful, Doubted, LateKinds, LevelBlockingFailure, Failed, Warned, SignatureVerifyKinds,
                      SoftWarningKinds, TsaEvidenceKinds, FormatKinds
  <2>3. SubIndicationOf(x, TRUE) = "constraints"
    BY <2>1 DEF SubIndicationOf, FormatKinds, SignatureVerifyKinds
  <2>4. Plainly(x)
    BY <2>1, <2>3 DEF Plainly, Hard, Failed, SoftWarningKinds, TsaEvidenceKinds
  <2> QED  BY <2>1, <2>2, <2>4 DEF x, LateKinds
<1>2. (doc.keyUsage = "allowed" /\ doc.extKeyUsage = "allowed") \/ Doubted(doc)
  BY <1>t DEF Doubted, Earned, WarningEarned, SignerAccepted
<1>3. \A x \in StepsIn(new) :
        /\ Truthful(doc, x) /\ ~ LevelBlockingFailure(x) /\ Plainly(x)
        /\ x.kind \notin LateKinds
  <2>1. /\ Truthful(doc, k) /\ ~ LevelBlockingFailure(k) /\ Plainly(k)
        /\ k.kind \notin LateKinds
    BY <1>1, <1>2
  <2>2. /\ Truthful(doc, e) /\ ~ LevelBlockingFailure(e) /\ Plainly(e)
        /\ e.kind \notin LateKinds
    BY <1>1, <1>2
  <2>3. \A x \in StepsIn(new) : x = k \/ x = e  BY UsageStepsIn
  <2> HIDE DEF k, e, new
  <2> QED  BY <2>1, <2>2, <2>3
<1> HIDE DEF new
<1>4. Unflawed(doc, pc) => Unflawed(doc, "timestamp")
  BY <1>t DEF Unflawed, TokenStages
<1>5. Complete(doc, "timestamp", StepsIn(steps) \cup StepsIn(new))
  BY <1>t, <1>3 DEF ReportInv, StepsTell, Complete, TokenStages, LateKinds
<1>6. Ordered(doc, "timestamp", steps \o new)
  <2>1. Ordered(doc, pc, steps)  BY DEF ReportInv
  <2>2. /\ pc \in EarlyStages \cup {"usage"}
        /\ "timestamp" \in Stage \ {"validity", "reported", "closed"}
        /\ "timestamp" \notin EarlyStages
    BY <1>t DEF EarlyStages, Stage
  <2> QED  BY <1>t, <1>3, <2>1, <2>2, OrderedGrows
<1>7. "timestamp" \in Stage \ {"reported", "closed"}  BY DEF Stage
<1> QED  BY <1>t, <1>3, <1>4, <1>5, <1>6, <1>7, TellContinue

\* The steps of a timestamp's checks.
LEMMA TsaStepTruth ==
  ASSUME NEW d \in Document, d.token = "present",
         NEW kind \in TsaEvidenceKinds, NEW status \in {"ok", "fail", "warn"},
         LET fact == CASE kind = "TsaMessageImprint" -> ImprintOk(d)
                       [] kind = "TsaSignatureVerify" -> TsaSignatureOk(d)
                       [] kind = "TsaExtendedKeyUsage" -> d.tsaUsage
                       [] kind = "TsaCertificateChain" -> TsaChainOk(d)
         IN  /\ status = "ok" => fact
             /\ status # "ok" => ~ TimestampTrusted(d)
             /\ status = "fail" => ~ WarningEarned(d)
             /\ status = "warn" => ~ d.timestampTrust
  PROVE  LET x == Plain(kind, status)
         IN  /\ Truthful(d, x) /\ ~ LevelBlockingFailure(x)
             /\ x.kind \notin LateKinds \cup {"SignerCertificateChain"}
<1> DEFINE x == Plain(kind, status)
<1>1. x.kind = kind /\ x.status = status /\ x.note = ""  BY DEF Plain, Noted
<1> HIDE DEF x
<1>2. status # "ok" => ~ Earned(d)  BY DEF Earned
<1>3. /\ ~ LevelBlockingFailure(x)
      /\ x.kind \notin LateKinds \cup {"SignerCertificateChain"}
  BY <1>1 DEF LateKinds, LevelBlockingFailure, TsaEvidenceKinds, FormatKinds, SignatureVerifyKinds
<1>4. Truthful(d, x)
  BY <1>1, <1>2, <1>3
  DEF Truthful, LateKinds, Failed, Warned, TsaEvidenceKinds, SoftWarningKinds, SignatureVerifyKinds
<1> QED  BY <1>3, <1>4 DEF x

LEMMA TsaTrustStepsIn ==
  ASSUME NEW d \in Document
  PROVE  LET u == Plain("TsaExtendedKeyUsage", TrustStatus(d, d.tsaUsage))
             c == Plain("TsaCertificateChain", TrustStatus(d, d.tsaCertFound /\ TsaChainOk(d)))
         IN  /\ StepsIn(TsaTrustSteps(d)) = {x \in {u} : d.tsaCertFound} \cup {c}
             /\ u \in Step /\ c \in Step
<1> DEFINE u == Plain("TsaExtendedKeyUsage", TrustStatus(d, d.tsaUsage))
           c == Plain("TsaCertificateChain", TrustStatus(d, d.tsaCertFound /\ TsaChainOk(d)))
           s1 == When(d.tsaCertFound, u)
<1>1. u \in Step /\ c \in Step  BY PlainIsStep, StatusTypes, KindTypes
<1>2. TsaTrustSteps(d) = s1 \o <<c>>  BY DEF TsaTrustSteps
<1> HIDE DEF u, c
<1>3. d.tsaCertFound \in BOOLEAN  BY DEF Document
<1>4. s1 \in Seq(Step) /\ StepsIn(s1) = {x \in {u} : d.tsaCertFound}
  BY <1>1, <1>3, WhenIsSeq, StepsInWhen
<1>5. StepsIn(s1 \o <<c>>) = StepsIn(s1) \cup {c}
  <2> HIDE DEF s1
  <2> QED  BY <1>1, <1>4, StepsInAppend
<1> QED  BY <1>1, <1>2, <1>4, <1>5 DEF u, c

LEMMA TrustStatusIs ==
  ASSUME NEW d, NEW condition \in BOOLEAN
  PROVE  /\ condition => TrustStatus(d, condition) = "ok"
         /\ ~ condition => TrustStatus(d, condition) \in {"fail", "warn"}
         /\ TrustStatus(d, condition) = "fail" => ~ condition /\ d.timestampTrust
         /\ TrustStatus(d, condition) = "warn" => ~ d.timestampTrust
BY DEF TrustStatus, OkOr

LEMMA TsaStepsTruth ==
  ASSUME NEW d \in Document, d.token = "present",
         NEW x \in {ImprintStep(d), TsaSignatureStep(d)} \cup StepsIn(TsaTrustSteps(d))
  PROVE  /\ Truthful(d, x) /\ ~ LevelBlockingFailure(x)
         /\ x.kind \notin LateKinds \cup {"SignerCertificateChain"}
<1> DEFINE Fine(y) == /\ Truthful(d, y) /\ ~ LevelBlockingFailure(y)
                      /\ y.kind \notin LateKinds \cup {"SignerCertificateChain"}
           i == ImprintStep(d)
           v == TsaSignatureStep(d)
           u == Plain("TsaExtendedKeyUsage", TrustStatus(d, d.tsaUsage))
           c == Plain("TsaCertificateChain", TrustStatus(d, d.tsaCertFound /\ TsaChainOk(d)))
<1>k. {"TsaMessageImprint", "TsaSignatureVerify", "TsaExtendedKeyUsage", "TsaCertificateChain"}
      = TsaEvidenceKinds
  BY DEF TsaEvidenceKinds
<1>1. Fine(i)
  <2> DEFINE status == OkOr(ImprintOk(d), "fail")
  <2>1. /\ status \in {"ok", "fail", "warn"}
        /\ status = "ok" => ImprintOk(d)
        /\ status # "ok" => ~ TimestampTrusted(d)
        /\ status = "fail" => ~ WarningEarned(d)
        /\ status # "warn"
    BY DEF OkOr, TimestampTrusted, WarningEarned
  <2> HIDE DEF status
  <2>2. Fine(Plain("TsaMessageImprint", status))  BY <1>k, <2>1, TsaStepTruth
  <2> QED  BY <2>2 DEF ImprintStep, status
<1>2. Fine(v)
  <2> DEFINE status == OkOr(TsaSignatureOk(d), "fail")
  <2>1. /\ status \in {"ok", "fail", "warn"}
        /\ status = "ok" => TsaSignatureOk(d)
        /\ status # "ok" => ~ TimestampTrusted(d)
        /\ status = "fail" => ~ WarningEarned(d)
        /\ status # "warn"
    BY DEF OkOr, TimestampTrusted, WarningEarned
  <2> HIDE DEF status
  <2>2. Fine(Plain("TsaSignatureVerify", status))  BY <1>k, <2>1, TsaStepTruth
  <2> QED  BY <2>2 DEF TsaSignatureStep, status
<1>3. Fine(u)
  <2> DEFINE status == TrustStatus(d, d.tsaUsage)
  <2>1. /\ status \in {"ok", "fail", "warn"}
        /\ status = "ok" => d.tsaUsage
        /\ status # "ok" => ~ TimestampTrusted(d)
        /\ status = "fail" => ~ WarningEarned(d)
        /\ status = "warn" => ~ d.timestampTrust
    BY TrustStatusIs DEF TimestampTrusted, WarningEarned, Document
  <2> HIDE DEF status
  <2>2. Fine(Plain("TsaExtendedKeyUsage", status))  BY <1>k, <2>1, TsaStepTruth
  <2> QED  BY <2>2 DEF status
<1>4. Fine(c)
  <2> DEFINE status == TrustStatus(d, d.tsaCertFound /\ TsaChainOk(d))
  <2>1. /\ status \in {"ok", "fail", "warn"}
        /\ status = "ok" => TsaChainOk(d)
        /\ status # "ok" => ~ TimestampTrusted(d)
        /\ status = "fail" => ~ WarningEarned(d)
        /\ status = "warn" => ~ d.timestampTrust
    BY TrustStatusIs DEF TimestampTrusted, TsaSignatureOk, WarningEarned
  <2> HIDE DEF status
  <2>2. Fine(Plain("TsaCertificateChain", status))  BY <1>k, <2>1, TsaStepTruth
  <2> QED  BY <2>2 DEF status
<1>5. x \in {i, v, u, c}  BY TsaTrustStepsIn
<1> HIDE DEF Fine, i, v, u, c
<1>6. Fine(x)  BY <1>1, <1>2, <1>3, <1>4, <1>5
<1> QED  BY <1>6 DEF Fine

\* A trusted timestamp shows all its evidence.
LEMMA TsaStepsComplete ==
  ASSUME NEW d \in Document, TimestampTrusted(d), NEW kind \in TsaEvidenceKinds
  PROVE  Plain(kind, "ok") \in
           {ImprintStep(d), TsaSignatureStep(d)} \cup StepsIn(TsaTrustSteps(d))
<1>1. /\ ImprintOk(d) /\ TsaSignatureOk(d) /\ d.tsaUsage /\ TsaChainOk(d) /\ d.tsaCertFound
  BY DEF TimestampTrusted, TsaSignatureOk
<1>2. /\ ImprintStep(d) = Plain("TsaMessageImprint", "ok")
      /\ TsaSignatureStep(d) = Plain("TsaSignatureVerify", "ok")
  BY <1>1 DEF ImprintStep, TsaSignatureStep, OkOr
<1>3. /\ TrustStatus(d, d.tsaUsage) = "ok"
      /\ TrustStatus(d, d.tsaCertFound /\ TsaChainOk(d)) = "ok"
  BY <1>1 DEF TrustStatus, OkOr
<1>4. StepsIn(TsaTrustSteps(d)) =
        {Plain("TsaExtendedKeyUsage", "ok"), Plain("TsaCertificateChain", "ok")}
  BY <1>1, <1>3, TsaTrustStepsIn
<1> QED  BY <1>2, <1>4 DEF TsaEvidenceKinds

LEMMA TimestampStepsIn ==
  ASSUME NEW d \in Document
  PROVE  /\ d.token = "absent" => StepsIn(TimestampSteps(d)) = {Plain("TsaTimestamp", "skip")}
         /\ d.token = "present" =>
              StepsIn(TimestampSteps(d)) =
                {ImprintStep(d), TsaSignatureStep(d)} \cup StepsIn(TsaTrustSteps(d))
         /\ d.token \notin {"absent", "present"} =>
              StepsIn(TimestampSteps(d)) = {Plain("TsaTimestamp", "fail")}
<1>1. Plain("TsaTimestamp", "skip") \in Step /\ Plain("TsaTimestamp", "fail") \in Step
  BY PlainLiterals, KindTypes
<1>2. CASE d.token = "absent"
  <2>1. TimestampSteps(d) = <<Plain("TsaTimestamp", "skip")>>
    BY <1>2 DEF TimestampSteps
  <2> QED  BY <1>1, <1>2, <2>1, StepsInFew
<1>3. CASE d.token = "present"
  <2> DEFINE head == <<ImprintStep(d), TsaSignatureStep(d)>>
  <2>1. TimestampSteps(d) = head \o TsaTrustSteps(d)  BY <1>3 DEF TimestampSteps
  <2>2. head \in Seq(Step) /\ StepsIn(head) = {ImprintStep(d), TsaSignatureStep(d)}
    BY SingleStepTypes, StepsInFew
  <2> HIDE DEF head
  <2> QED  BY <1>3, <2>1, <2>2, TsaTrustStepsType, StepsInConcat
<1>4. CASE d.token \notin {"absent", "present"}
  <2>1. TimestampSteps(d) = <<Plain("TsaTimestamp", "fail")>>
    BY <1>4 DEF TimestampSteps
  <2> QED  BY <1>1, <1>4, <2>1, StepsInFew
<1> QED  BY <1>2, <1>3, <1>4

LEMMA UntrustedChainWarns ==
  ASSUME NEW d \in Document, ~ d.timestampTrust
  PROVE  /\ \E x \in StepsIn(TsaTrustSteps(d)) : Warned(x) /\ x.kind \in SoftWarningKinds
         /\ \A x \in StepsIn(TsaTrustSteps(d)) :
              ~ Failed(x) /\ x.kind \in SoftWarningKinds
<1> DEFINE su == TrustStatus(d, d.tsaUsage)
           sc == TrustStatus(d, d.tsaCertFound /\ TsaChainOk(d))
           u == Plain("TsaExtendedKeyUsage", su)
           c == Plain("TsaCertificateChain", sc)
<1>1. su # "fail" /\ sc = "warn"
  BY DEF TrustStatus, OkOr, TsaChainOk
<1>2. StepsIn(TsaTrustSteps(d)) \subseteq {u, c} /\ c \in StepsIn(TsaTrustSteps(d))
  BY TsaTrustStepsIn
<1>3. /\ u.kind = "TsaExtendedKeyUsage" /\ u.status = su
      /\ c.kind = "TsaCertificateChain" /\ c.status = sc
  BY DEF Plain, Noted
<1> HIDE DEF su, sc, u, c
<1> QED  BY <1>1, <1>2, <1>3 DEF Failed, Warned, SoftWarningKinds, TsaEvidenceKinds

\* Before the timestamp's steps an earned warning has not shown yet.
LEMMA EarnedWarningStartsClean ==
  ASSUME NEW s \in Seq(Step), NEW d, NEW stage \in Stage \ {"validity", "reported", "closed"},
         StepsTell(d, stage, StepsIn(s)), Ordered(d, stage, s), WarningEarned(d)
  PROVE  Clean(s)
<1>1. ASSUME NEW x \in StepsIn(s) PROVE ~ Failed(x) /\ ~ Warned(x)
  BY DEF StepsTell, Truthful, Complete, Ordered, Plainly
<1> QED  BY <1>1, CleanIsIn

\* Soft warnings after a clean start.
LEMMA UntrustedIsSoft ==
  ASSUME NEW s \in Seq(Step), NEW t \in Seq(Step), Clean(s),
         \E x \in StepsIn(t) : Warned(x),
         \A x \in StepsIn(t) : ~ Failed(x) /\ x.kind \in SoftWarningKinds
  PROVE  SoftOnly(s \o t)
<1>1. s \o t \in Seq(Step) /\ StepsIn(s \o t) = StepsIn(s) \cup StepsIn(t)  BY StepsInConcat
<1>2. \A x \in StepsIn(s) : ~ Failed(x) /\ ~ Warned(x)  BY CleanIsIn
<1> DEFINE l == s \o t
<1>3. l \in Seq(Step) /\ StepsIn(l) = StepsIn(s) \cup StepsIn(t)  BY <1>1
<1> HIDE DEF l
<1>4. Occurs(l, Warned) /\ ~ Occurs(l, Failed)  BY <1>2, <1>3, OccursIsIn
<1>5. First(l, Warned).kind \in SoftWarningKinds  BY <1>2, <1>3, <1>4, FirstIsIn
<1>6. SoftOnly(l)  BY <1>4, <1>5 DEF SoftOnly, SoftFirstWarning
<1> QED  BY <1>6 DEF l

\* Late failures leave the verdict of such a list as it is.
LEMMA SoftOnlyVerdict ==
  ASSUME NEW s \in Seq(Step), NEW t \in Seq(Step), SoftOnly(s),
         \A x \in StepsIn(t) : x.kind \in LateKinds
  PROVE  VerdictFor(s \o t) = "warning"
<1>1. s \o t \in Seq(Step) /\ StepsIn(s \o t) = StepsIn(s) \cup StepsIn(t)  BY StepsInConcat
<1>2. First(s \o t, Warned) = First(s, Warned)  BY FirstStays DEF SoftOnly, SoftFirstWarning
<1>3. \A x \in StepsIn(s) : ~ Failed(x)  BY OccursIsIn DEF SoftOnly
<1>4. \E x \in StepsIn(s) : Warned(x)  BY OccursIsIn DEF SoftOnly, SoftFirstWarning
<1> DEFINE l == s \o t
<1>5. l \in Seq(Step) /\ StepsIn(l) = StepsIn(s) \cup StepsIn(t)  BY <1>1
<1>6. First(l, Warned) = First(s, Warned)  BY <1>2
<1> HIDE DEF l
<1>7. Occurs(l, Warned)  BY <1>4, <1>5, OccursIsIn
<1>8. SoftFirstWarning(l)  BY <1>6, <1>7 DEF SoftOnly, SoftFirstWarning
<1>9. StandardsFor(l).indication = "indeterminate"
  <2>1. CASE ~ Occurs(l, Failed)
    BY <1>7, <2>1 DEF StandardsFor, Standards
  <2>2. CASE Occurs(l, Failed)
    <3> DEFINE f == First(l, Failed)
    <3>1. f.kind \in LateKinds
      BY <1>3, <1>5, <2>2, FirstIsIn
    <3> HIDE DEF f
    <3>2. SubIndicationOf(f, TRUE) \in {"revoked", "revocationMissing"}
      BY <3>1 DEF LateKinds, SubIndicationOf, FormatKinds, SignatureVerifyKinds
    <3>3. FailureStandards(l).indication = "indeterminate"
      BY <3>2 DEF FailureStandards, Standards, f
    <3> QED  BY <2>2, <3>3 DEF StandardsFor
  <2> QED  BY <2>1, <2>2
<1>10. VerdictFor(l) = "warning"  BY <1>8, <1>9 DEF VerdictFor
<1> QED  BY <1>10 DEF l

\* A timestamp that is neither absent nor sound fails, and fails hard.
LEMMA UnsoundFailsHard ==
  ASSUME NEW d \in Document, ~ d.timestampTrust, ~ TokenSound(d)
  PROVE  /\ \E x \in StepsIn(TimestampSteps(d)) : Failed(x)
         /\ \A x \in StepsIn(TimestampSteps(d)) : Failed(x) => Hard(x)
<1>1. CASE d.token = "present"
  <2> DEFINE i == ImprintStep(d)
             v == TsaSignatureStep(d)
  <2>1. StepsIn(TimestampSteps(d)) = {i, v} \cup StepsIn(TsaTrustSteps(d))
    BY <1>1, TimestampStepsIn
  <2>2. ~ ImprintOk(d) \/ ~ TsaSignatureOk(d)  BY <1>1 DEF TokenSound
  <2>3. /\ i.kind = "TsaMessageImprint" /\ (~ ImprintOk(d) => i.status = "fail")
        /\ v.kind = "TsaSignatureVerify" /\ (~ TsaSignatureOk(d) => v.status = "fail")
    BY DEF ImprintStep, TsaSignatureStep, Plain, Noted, OkOr
  <2>4. \A x \in StepsIn(TsaTrustSteps(d)) : ~ Failed(x)  BY UntrustedChainWarns
  <2> HIDE DEF i, v
  <2>5. Failed(i) \/ Failed(v)  BY <2>2, <2>3 DEF Failed
  <2>6. (Failed(i) => Hard(i)) /\ (Failed(v) => Hard(v))
    BY <2>3 DEF Hard, SubIndicationOf, FormatKinds, SignatureVerifyKinds
  <2> QED  BY <2>1, <2>4, <2>5, <2>6
<1>2. CASE d.token # "present"
  <2> DEFINE f == Plain("TsaTimestamp", "fail")
  <2>1. StepsIn(TimestampSteps(d)) = {f}
    BY <1>2, TimestampStepsIn DEF TokenSound
  <2>2. f.kind = "TsaTimestamp" /\ f.status = "fail"  BY DEF Plain, Noted
  <2> HIDE DEF f
  <2>3. Failed(f) /\ Hard(f)
    BY <2>2 DEF Failed, Hard, SubIndicationOf, FormatKinds, SignatureVerifyKinds
  <2> QED  BY <2>1, <2>3
<1> QED  BY <1>1, <1>2

\* A hard failure after a clean start settles the verdict.
LEMMA HardSettles ==
  ASSUME NEW s \in Seq(Step), NEW t \in Seq(Step), Clean(s),
         \E x \in StepsIn(t) : Failed(x),
         \A x \in StepsIn(t) : (Failed(x) => Hard(x)) /\ x.kind # "SignerCertificateChain"
  PROVE  Settled(s \o t)
<1>1. s \o t \in Seq(Step) /\ StepsIn(s \o t) = StepsIn(s) \cup StepsIn(t)  BY StepsInConcat
<1>2. \A x \in StepsIn(s) : ~ Failed(x) /\ ~ Warned(x)  BY CleanIsIn
<1> DEFINE l == s \o t
<1>3. l \in Seq(Step) /\ StepsIn(l) = StepsIn(s) \cup StepsIn(t)  BY <1>1
<1> HIDE DEF l
<1>4. Occurs(l, Failed)  BY <1>3, OccursIsIn
<1>5. Hard(First(l, Failed))  BY <1>2, <1>3, <1>4, FirstIsIn
<1>6. ~ Occurs(l, ChainWarned)  BY <1>2, <1>3, OccursIsIn DEF ChainWarned, Warned
<1>7. Settled(l)  BY <1>4, <1>5, <1>6 DEF Settled
<1> QED  BY <1>7 DEF l

LEMMA ReportTimestamp ==
  ASSUME ReportInv, CleanInv', VerifySignatureTimestamp
  PROVE  ReportInv'
<1> DEFINE new == TimestampSteps(doc)
           evidence == {ImprintStep(doc), TsaSignatureStep(doc)} \cup StepsIn(TsaTrustSteps(doc))
<1>t. /\ doc \in Document /\ pc = "timestamp" /\ doc.kind = "signature" /\ steps \in Seq(Step)
      /\ Continue("validity", new) /\ new \in Seq(Step)
  BY TimestampStepsType
  DEF ReportInv, CleanInv, TypeOK, VerifySignatureTimestamp, SignatureStages
<1>1. ASSUME NEW x \in StepsIn(new)
      PROVE  /\ Truthful(doc, x) /\ ~ LevelBlockingFailure(x)
             /\ x.kind \notin LateKinds \cup {"SignerCertificateChain"}
  <2>1. CASE doc.token = "present"
    <3>1. x \in evidence  BY <1>t, <2>1, TimestampStepsIn
    <3> QED  BY <1>t, <2>1, <3>1, TsaStepsTruth
  <2>2. CASE doc.token # "present"
    <3>1. /\ x.kind = "TsaTimestamp" /\ x.note = ""
          /\ x.status = IF doc.token = "absent" THEN "skip" ELSE "fail"
      <4>1. x = Plain("TsaTimestamp", IF doc.token = "absent" THEN "skip" ELSE "fail")
        BY <1>t, <2>2, TimestampStepsIn
      <4> QED  BY <4>1 DEF Plain, Noted
    <3>2. x.status = "fail" => Doubted(doc)
      BY <1>t, <2>2, <3>1 DEF Doubted, Earned, WarningEarned, TimestampTrusted
    <3> QED
      BY <3>1, <3>2 DEF Truthful, Doubted, LateKinds, LevelBlockingFailure, Failed, Warned, SignatureVerifyKinds,
                        FormatKinds
  <2> QED  BY <2>1, <2>2
<1>2. Unflawed(doc, pc) => Unflawed(doc, "validity")
  BY <1>t DEF Unflawed, TokenStages
<1>3. Complete(doc, "validity", StepsIn(steps) \cup StepsIn(new))
  <2>1. TimestampTrusted(doc) =>
          \A kind \in TsaEvidenceKinds : Plain(kind, "ok") \in StepsIn(new)
    <3> SUFFICES ASSUME TimestampTrusted(doc), NEW kind \in TsaEvidenceKinds
                 PROVE  Plain(kind, "ok") \in StepsIn(new)
      OBVIOUS
    <3>1. doc.token = "present"  BY DEF TimestampTrusted
    <3>2. StepsIn(new) = evidence  BY <1>t, <3>1, TimestampStepsIn
    <3>3. Plain(kind, "ok") \in evidence  BY <1>t, TsaStepsComplete
    <3> QED  BY <3>2, <3>3
  <2> HIDE DEF new
  <2> QED  BY <1>t, <1>1, <2>1 DEF ReportInv, StepsTell, Complete, TokenStages, LateKinds
<1>p. WarningEarned(doc) => SoftOnly(steps \o new)
  <2> SUFFICES ASSUME WarningEarned(doc) PROVE SoftOnly(steps \o new)
    OBVIOUS
  <2>1. Clean(steps)  BY <1>t, EarnedWarningStartsClean DEF ReportInv, Stage
  <2>2. /\ ~ doc.timestampTrust /\ doc.token = "present"
        /\ ImprintOk(doc) /\ TsaSignatureOk(doc)
    BY DEF WarningEarned
  <2> DEFINE i == ImprintStep(doc)
             v == TsaSignatureStep(doc)
  <2>3. StepsIn(new) = {i, v} \cup StepsIn(TsaTrustSteps(doc))
    BY <1>t, <2>2, TimestampStepsIn
  <2>4. /\ i.kind = "TsaMessageImprint" /\ i.status = "ok"
        /\ v.kind = "TsaSignatureVerify" /\ v.status = "ok"
    BY <2>2 DEF ImprintStep, TsaSignatureStep, Plain, Noted, OkOr
  <2> HIDE DEF i, v, new
  <2>5. \A x \in {i, v} : ~ Failed(x) /\ x.kind \in SoftWarningKinds
    BY <2>4 DEF Failed, SoftWarningKinds, TsaEvidenceKinds
  <2>6. /\ \E x \in StepsIn(new) : Warned(x)
        /\ \A x \in StepsIn(new) : ~ Failed(x) /\ x.kind \in SoftWarningKinds
    BY <1>t, <2>2, <2>3, <2>5, UntrustedChainWarns
  <2> QED  BY <1>t, <2>1, <2>6, UntrustedIsSoft
<1>4. Ordered(doc, "validity", steps \o new)
  <2>1. CASE Clean(steps)
    <3>1. UsageAllowed(doc)  BY <1>t, <2>1 DEF ReportInv, CleanInv, CleanEstablishes
    <3>2. ~ doc.timestampTrust /\ ~ TokenSound(doc) => Settled(steps \o new)
      <4> SUFFICES ASSUME ~ doc.timestampTrust, ~ TokenSound(doc) PROVE Settled(steps \o new)
        OBVIOUS
      <4>1. /\ \E x \in StepsIn(new) : Failed(x)
            /\ \A x \in StepsIn(new) : Failed(x) => Hard(x)
        BY <1>t, UnsoundFailsHard
      <4> HIDE DEF new
      <4> QED  BY <1>t, <1>1, <2>1, <4>1, HardSettles
    <3> HIDE DEF new
    <3> QED  BY <1>p, <3>1, <3>2 DEF Ordered
  <2>2. CASE ~ Clean(steps)
    <3>1. \A x \in StepsIn(steps) : Plainly(x)  BY <1>t DEF ReportInv, Ordered
    <3>2. Settled(steps)  BY <1>t, <2>2, <3>1, PlainlySettled
    <3> HIDE DEF new
    <3>3. Settled(steps \o new)  BY <1>t, <1>1, <3>2, SettledStays
    <3> QED  BY <1>p, <3>3 DEF Ordered
  <2> QED  BY <2>1, <2>2
<1>5. "validity" \in Stage \ {"reported", "closed"}  BY DEF Stage
<1> HIDE DEF new
<1> QED  BY <1>t, <1>1, <1>2, <1>3, <1>4, <1>5, TellContinue

\* The certificate of an earned signature is valid at the time it is judged at.
LEMMA EarnedValidity ==
  ASSUME NEW d \in Document, NEW so_far, Earned(d), d.kind = "signature",
         TimestampTrusted(d) => TrustedTimestampSteps(so_far)
  PROVE  ValidityStatus(d, so_far) = "ok"
<1>1. d.validity \in {"both", IF TokenTimeKnown(d) THEN "tokenOnly" ELSE "nowOnly"}
  BY DEF Earned, SignerAccepted
<1>2. TokenTimeKnown(d) => TrustedTimestampSteps(so_far)
  BY DEF Earned, TokenTimeKnown
<1> QED  BY <1>1, <1>2 DEF ValidityStatus, OkOr

LEMMA ReportValidity ==
  ASSUME ReportInv, CleanInv', CheckSignerValidity
  PROVE  ReportInv'
<1> DEFINE status == ValidityStatus(doc, steps)
           v == Plain("SignerCertificateValidity", status)
           new == ValiditySteps(doc, steps)
           all == steps \o new
<1>t. /\ doc \in Document /\ pc = "validity" /\ doc.kind = "signature" /\ steps \in Seq(Step)
      /\ MakeReport(new, VerdictFor(all)) /\ new \in Seq(Step) /\ all \in Seq(Step)
  BY ValidityStepsType
  DEF ReportInv, CleanInv, TypeOK, CheckSignerValidity, SignatureStages, Return
<1>1. v \in Step /\ v.kind = "SignerCertificateValidity" /\ v.status = status /\ v.note = ""
  BY PlainIsStep, StatusTypes, KindTypes DEF Plain, Noted
<1>2. status # "ok" => ~ Earned(doc)
  <2> SUFFICES ASSUME Earned(doc) PROVE status = "ok"
    OBVIOUS
  <2>1. Basis(doc)  BY <1>t, EarnedBasis
  <2>2. TimestampTrusted(doc) => TrustedTimestampSteps(steps)
    <3>1. Complete(doc, pc, StepsIn(steps))  BY DEF ReportInv, StepsTell
    <3>2. TimestampTrusted(doc) =>
            \A kind \in TsaEvidenceKinds : Plain(kind, "ok") \in StepsIn(steps)
      BY <1>t, <2>1, <3>1 DEF Complete
    <3> QED  BY <3>2, OccursIsIn DEF TrustedTimestampSteps
  <2> QED  BY <1>t, <2>2, EarnedValidity
<1> HIDE DEF status, v
<1>3. Truthful(doc, v) /\ ~ LevelBlockingFailure(v)
  BY <1>1, <1>2 DEF Truthful, LateKinds, LevelBlockingFailure, Failed, Warned,
                    SignatureVerifyKinds, SoftWarningKinds, TsaEvidenceKinds, FormatKinds
<1>4. StepsIn(new) \subseteq {v}
  <2> DEFINE check == ChecksSignerCertificate(doc)
  <2>1. check \in BOOLEAN  BY DEF ChecksSignerCertificate
  <2>2. new = When(check, v)  BY DEF ValiditySteps, v, status
  <2> HIDE DEF check, new
  <2>3. StepsIn(When(check, v)) = {x \in {v} : check}  BY <1>1, <2>1, StepsInWhen
  <2> QED  BY <2>2, <2>3
<1> HIDE DEF new
<1>5. StepsIn(all) \subseteq StepsIn(steps) \cup {v}  BY <1>t, <1>4, StepsInConcat
<1>6. Unflawed(doc, pc) => Unflawed(doc, "reported")
  BY <1>t DEF Unflawed, TokenStages
<1>7. Complete(doc, "reported", StepsIn(steps) \cup StepsIn(new))
  BY <1>t, <1>1, <1>4 DEF ReportInv, StepsTell, Complete, TokenStages, LateKinds
<1>8. VerdictFor(all) = "warning" => WarningEarned(doc)
  <2> SUFFICES ASSUME VerdictFor(all) = "warning" PROVE WarningEarned(doc)
    OBVIOUS
  <2>1. SoftFirstWarning(all)  BY <1>t, VerdictCases
  <2>2. PICK x \in StepsIn(all) : Warned(x) /\ x.kind \in SoftWarningKinds
    BY <1>t, <2>1, FirstIsIn DEF SoftFirstWarning
  <2>3. Truthful(doc, x)  BY <1>3, <1>5 DEF ReportInv, StepsTell
  <2>4. doc.token = "present" /\ ~ doc.timestampTrust  BY <1>t, <2>2, <2>3 DEF Truthful, Warned
  <2>5. ~ Settled(steps)
    BY <1>t, <1>1, <1>4, SettledStays
  <2>6. UsageAllowed(doc) /\ TokenSound(doc)  BY <1>t, <2>4, <2>5 DEF ReportInv, Ordered
  <2> QED
    BY <1>t, <2>4, <2>6
    DEF WarningEarned, TokenSound, UsageAllowed, ChainVerifies, ValueVerifies, DigestMatches,
        StructureRead, CmsRead, Unmodified, Covered, Intact, ProfileConforms
<1>w. WarningEarned(doc) => VerdictFor(all) = "warning"
  <2> SUFFICES ASSUME WarningEarned(doc) PROVE VerdictFor(all) = "warning"
    OBVIOUS
  <2>1. SoftOnly(steps)  BY <1>t DEF ReportInv, Ordered
  <2>2. \A x \in StepsIn(new) : x.kind \in LateKinds  BY <1>1, <1>4 DEF LateKinds
  <2> QED  BY <1>t, <2>1, <2>2, SoftOnlyVerdict
<1>9. Ordered(doc, "reported", all)  BY <1>8, <1>w DEF Ordered
<1>10. VerdictOf(doc, "reported", all, VerdictFor(all))  BY DEF VerdictOf
<1> QED  BY <1>t, <1>3, <1>4, <1>6, <1>7, <1>9, <1>10, TellReport

-----------------------------------------------------------------------------
(* The stages of a document timestamp.                                     *)

LEMMA ReportToken ==
  ASSUME ReportInv, CleanInv', ParseDocumentTimestamp
  PROVE  ReportInv'
<1> DEFINE ok == Plain("DocumentTimestamp", "ok")
           f == Plain("DocumentTimestamp", "fail")
           n == Plain("TsaTimestamp", "fail")
<1>t. doc \in Document /\ pc = "token" /\ doc.kind # "signature"
  BY DEF ReportInv, CleanInv, TypeOK, ParseDocumentTimestamp, TokenStages
<1>e. /\ pc \in EarlyStages /\ "tokenImprint" \in EarlyStages \ {"coverage"}
      /\ pc \in TokenStages
  BY <1>t DEF EarlyStages, Stage, TokenStages
<1>1. \/ doc.token # "present" /\ MakeReport(<<f>>, "invalid")
      \/ doc.token # "present" /\ MakeReport(<<ok>> \o <<n>>, "invalid")
      \/ doc.token # "present" /\ MakeReport(<<ok>> \o <<f>>, "invalid")
      \/ doc.token = "present" /\ Continue("tokenImprint", <<ok>>)
  <2>1. CASE doc.token = "present"
    BY <2>1 DEF ParseDocumentTimestamp
  <2>2. CASE doc.token # "present"
    <3>1. \/ MakeReport(<<f>>, "invalid")
          \/ MakeReport(<<ok>> \o <<n>>, "invalid")
          \/ MakeReport(<<ok>> \o <<f>>, "invalid")
      BY <2>2 DEF ParseDocumentTimestamp
    <3> HIDE DEF ok, f, n
    <3> QED  BY <2>2, <3>1
  <2> QED  BY <2>1, <2>2
<1>2. doc.token # "present" => Doubted(doc)
  BY <1>t DEF Doubted, Earned, WarningEarned, TimestampTrusted
<1>3. /\ Told(doc, ok)
      /\ doc.token # "present" => Told(doc, f) /\ Told(doc, n)
  BY <1>t, <1>2, ToldOk, ToldPlainFail, HardLiterals
<1>4. ok \in Step /\ f \in Step /\ n \in Step /\ Failed(f) /\ Failed(n)
  <2>1. \A kind : Failed(Plain(kind, "fail"))  BY DEF Failed, Plain, Noted
  <2>2. ok \in Step /\ f \in Step /\ n \in Step  BY PlainLiterals, KindTypes
  <2> QED  BY <2>1, <2>2
<1> HIDE DEF ok, f, n
<1>5. \A x \in {ok, f, n} : <<x>> \in Seq(Step) /\ StepsIn(<<x>>) = {x}
  BY <1>4, StepsInFew
<1>6. ASSUME NEW x \in {f, n}
      PROVE  <<ok>> \o <<x>> \in Seq(Step) /\ StepsIn(<<ok>> \o <<x>>) = {ok, x}
  <2> DEFINE l == <<ok>>
  <2>1. l \in Seq(Step) /\ StepsIn(l) = {ok} /\ x \in Step  BY <1>4, <1>5
  <2> HIDE DEF l
  <2>2. l \o <<x>> \in Seq(Step) /\ StepsIn(l \o <<x>>) = {ok} \cup {x}
    BY <2>1, StepsInAppend
  <2> QED  BY <2>2 DEF l
<1>7. CASE doc.token # "present" /\ MakeReport(<<f>>, "invalid")
  BY <1>e, <1>t, <1>3, <1>4, <1>5, <1>7, EarlyFailure
<1>8. ASSUME NEW x \in {f, n}, doc.token # "present", MakeReport(<<ok>> \o <<x>>, "invalid")
      PROVE  ReportInv'
  <2> DEFINE new == <<ok>> \o <<x>>
  <2>1. new \in Seq(Step) /\ StepsIn(new) = {ok, x}  BY <1>6
  <2>2. Told(doc, x) /\ Failed(x)  BY <1>3, <1>4, <1>8
  <2> HIDE DEF new
  <2> QED  BY <1>e, <1>t, <1>3, <1>8, <2>1, <2>2, EarlyFailure DEF new
<1>9. CASE doc.token = "present" /\ Continue("tokenImprint", <<ok>>)
  <2>1. Unflawed(doc, pc) => Unflawed(doc, "tokenImprint")
    BY <1>t DEF Unflawed, TokenStages
  <2> QED  BY <1>e, <1>t, <1>3, <1>5, <1>9, <2>1, EarlyContinue
<1> QED  BY <1>1, <1>7, <1>8, <1>9

\* A check of the token: it goes on to the next stage or fails.
LEMMA ReportTokenCheck ==
  ASSUME ReportInv, CleanInv', pc \in {"tokenImprint", "tokenSignature"},
         NEW kind \in {"TsaMessageImprint", "TsaSignatureVerify"}, NEW condition,
         LET x == Plain(kind, OkOr(condition, "fail"))
         IN  IF condition
             THEN \E stage \in {"tokenSignature", "tokenTrust"} : Continue(stage, <<x>>)
             ELSE MakeReport(<<x>>, "invalid"),
         Truthful(doc, Plain(kind, OkOr(condition, "fail")))
  PROVE  ReportInv'
<1> DEFINE x == Plain(kind, OkOr(condition, "fail"))
<1>t. doc \in Document /\ doc.kind # "signature" /\ doc.token = "present"
  BY DEF ReportInv, CleanInv, TypeOK, TokenStages, StepsTell, Complete
<1>e. pc \in EarlyStages /\ pc \in TokenStages /\ pc # "coverage"
  BY DEF EarlyStages, Stage, TokenStages
<1>1. /\ x.kind = kind /\ x.note = ""
      /\ x.status = IF condition THEN "ok" ELSE "fail"
  BY DEF Plain, Noted, OkOr
<1>2. x \in Step  BY PlainIsStep, KindTypes, StatusTypes
<1>3. <<x>> \in Seq(Step) /\ StepsIn(<<x>>) = {x}  BY <1>2, StepsInFew
<1>4. /\ condition => \E stage \in {"tokenSignature", "tokenTrust"} : Continue(stage, <<x>>)
      /\ ~ condition => MakeReport(<<x>>, "invalid")
      /\ Truthful(doc, x)
  OBVIOUS
<1> HIDE DEF x
<1>5. SubIndicationOf(x, TRUE) \in {"timestamp", "crypto"}
  BY <1>1 DEF SubIndicationOf, FormatKinds, SignatureVerifyKinds
<1>6. Told(doc, x)
  BY <1>1, <1>2, <1>4, <1>5 DEF Told, LateKinds, Plainly, Hard, Failed, Warned
<1>7. CASE condition
  <2>1. PICK stage \in {"tokenSignature", "tokenTrust"} : Continue(stage, <<x>>)
    BY <1>4, <1>7
  <2>2. stage \in EarlyStages \ {"coverage"} /\ stage # "chain"
    BY DEF EarlyStages, Stage
  <2>3. Unflawed(doc, pc) => Unflawed(doc, stage)
    BY DEF Unflawed, TokenStages
  <2> QED  BY <1>e, <1>t, <1>3, <1>6, <2>1, <2>2, <2>3, EarlyContinue
<1>8. CASE ~ condition
  <2>1. Failed(x)  BY <1>1, <1>8 DEF Failed
  <2> QED  BY <1>e, <1>t, <1>3, <1>4, <1>6, <1>8, <2>1, EarlyFailure
<1> QED  BY <1>7, <1>8

LEMMA ReportImprint ==
  ASSUME ReportInv, CleanInv', CheckDocumentImprint
  PROVE  ReportInv'
<1>1. /\ doc \in Document /\ pc = "tokenImprint" /\ doc.kind # "signature"
      /\ doc.token = "present"
  BY DEF ReportInv, CleanInv, TypeOK, CheckDocumentImprint, TokenStages, StepsTell, Complete
<1>2. Truthful(doc, Plain("TsaMessageImprint", OkOr(ImprintOk(doc), "fail")))
  BY <1>1, TsaStepsTruth DEF ImprintStep
<1> QED  BY <1>1, <1>2, ReportTokenCheck DEF CheckDocumentImprint, ImprintStep

LEMMA ReportTokenSignature ==
  ASSUME ReportInv, CleanInv', VerifyTokenSignature
  PROVE  ReportInv'
<1>1. /\ doc \in Document /\ pc = "tokenSignature" /\ doc.kind # "signature"
      /\ doc.token = "present"
  BY DEF ReportInv, CleanInv, TypeOK, VerifyTokenSignature, TokenStages, StepsTell, Complete
<1>2. Truthful(doc, Plain("TsaSignatureVerify", OkOr(TsaSignatureOk(doc), "fail")))
  BY <1>1, TsaStepsTruth DEF TsaSignatureStep
<1> QED  BY <1>1, <1>2, ReportTokenCheck DEF VerifyTokenSignature, TsaSignatureStep

LEMMA ReportTokenTrust ==
  ASSUME ReportInv, CleanInv', CheckTokenTrust
  PROVE  ReportInv'
<1> DEFINE new == TsaTrustSteps(doc)
           all == steps \o new
<1>t. /\ doc \in Document /\ pc = "tokenTrust" /\ doc.kind # "signature" /\ steps \in Seq(Step)
      /\ doc.token = "present"
      /\ MakeReport(new, VerdictFor(all)) /\ new \in Seq(Step) /\ all \in Seq(Step)
  BY TsaTrustStepsType
  DEF ReportInv, CleanInv, TypeOK, CheckTokenTrust, TokenStages, StepsTell, Complete, Return
<1>1. \A x \in StepsIn(new) :
        /\ Truthful(doc, x) /\ ~ LevelBlockingFailure(x)
        /\ x.kind \notin LateKinds \cup {"SignerCertificateChain"}
  BY <1>t, TsaStepsTruth
<1>w. WarningEarned(doc) => VerdictFor(all) = "warning"
  <2> SUFFICES ASSUME WarningEarned(doc) PROVE VerdictFor(all) = "warning"
    OBVIOUS
  <2>1. Clean(steps)  BY <1>t, EarnedWarningStartsClean DEF ReportInv, Stage
  <2>2. ~ doc.timestampTrust  BY DEF WarningEarned
  <2>3. /\ \E x \in StepsIn(new) : Warned(x)
        /\ \A x \in StepsIn(new) : ~ Failed(x) /\ x.kind \in SoftWarningKinds
    BY <1>t, <2>2, UntrustedChainWarns
  <2> HIDE DEF new
  <2>4. SoftOnly(all)  BY <1>t, <2>1, <2>3, UntrustedIsSoft
  <2> HIDE DEF all
  <2> DEFINE none == <<>>
  <2>5. none \in Seq(Step) /\ all \o none = all /\ \A x \in StepsIn(none) : FALSE
    BY <1>t DEF StepsIn
  <2> HIDE DEF none
  <2> QED  BY <1>t, <2>4, <2>5, SoftOnlyVerdict
<1> HIDE DEF new
<1>2. Unflawed(doc, pc) => Unflawed(doc, "reported")
  BY <1>t DEF Unflawed, TokenStages
<1>3. Complete(doc, "reported", StepsIn(steps) \cup StepsIn(new))
  BY <1>t, <1>1 DEF ReportInv, StepsTell, Complete, LateKinds
<1>4. VerdictFor(all) = "warning" => WarningEarned(doc)
  <2>1. CASE Clean(steps)
    <3>1. Unmodified(doc) /\ ImprintOk(doc) /\ TsaSignatureOk(doc)
      BY <1>t, <2>1 DEF ReportInv, CleanInv, CleanEstablishes
    <3>2. ASSUME VerdictFor(all) = "warning" PROVE ~ doc.timestampTrust
      <4>1. SoftFirstWarning(all)  BY <1>t, <3>2, VerdictCases
      <4>2. PICK x \in StepsIn(all) : Warned(x) /\ x.kind \in SoftWarningKinds
        BY <1>t, <4>1, FirstIsIn DEF SoftFirstWarning
      <4>3. Truthful(doc, x)  BY <1>t, <1>1, StepsInConcat DEF ReportInv, StepsTell
      <4> QED  BY <4>2, <4>3 DEF Truthful
    <3> QED  BY <1>t, <3>1, <3>2 DEF WarningEarned, Unmodified, Covered
  <2>2. CASE ~ Clean(steps)
    <3>1. \A x \in StepsIn(steps) : Plainly(x)  BY <1>t DEF ReportInv, Ordered
    <3>2. Settled(steps)  BY <1>t, <2>2, <3>1, PlainlySettled
    <3> QED  BY <1>t, <1>1, <3>2, SettledStays
  <2> QED  BY <2>1, <2>2
<1>5. Ordered(doc, "reported", all)  BY <1>4, <1>w DEF Ordered
<1>6. VerdictOf(doc, "reported", all, VerdictFor(all))  BY DEF VerdictOf
<1> QED  BY <1>t, <1>1, <1>2, <1>3, <1>5, <1>6, TellReport

-----------------------------------------------------------------------------
(* The revocation pass.                                                    *)

LEMMA RevocationStepIs ==
  ASSUME NEW d, NEW so_far
  PROVE  LET r == RevocationStep(d, so_far)
         IN  /\ r \in Step /\ r.kind = "RevocationSigner" /\ r.note # "validationData"
             /\ r.status = "ok" => SignerCertificateAvailable(d) /\ d.revocation = "good"
             /\ SignerCertificateAvailable(d) /\ d.revocation = "good" =>
                  r = Plain("RevocationSigner", "ok")
             /\ /\ SignerCertificateAvailable(d) /\ d.revocation = "revoked"
                /\ r.status # "fail"
                => RevokedLater(d, so_far)
<1> DEFINE r == RevocationStep(d, so_far)
<1>1. r \in Step  BY RevocationStepType
<1>2. CASE ~ SignerCertificateAvailable(d)
  <2>1. r = Plain("RevocationSigner", "skip")  BY <1>2 DEF RevocationStep
  <2> HIDE DEF r
  <2>2. r.kind = "RevocationSigner" /\ r.status = "skip" /\ r.note = ""
    BY <2>1 DEF Plain, Noted
  <2> QED  BY <1>1, <1>2, <2>2 DEF r
<1>3. CASE SignerCertificateAvailable(d) /\ d.revocation = "good"
  <2>1. r = Plain("RevocationSigner", "ok")  BY <1>3 DEF RevocationStep
  <2> HIDE DEF r
  <2>2. r.kind = "RevocationSigner" /\ r.status = "ok" /\ r.note = ""
    BY <2>1 DEF Plain, Noted
  <2> QED  BY <1>1, <1>3, <2>1, <2>2 DEF r
<1>4. CASE SignerCertificateAvailable(d) /\ d.revocation # "good"
  <2>1. \/ r = Plain("RevocationSigner", "warn")
        \/ r = Noted("RevocationSigner", "fail", "revoked")
    BY <1>4 DEF RevocationStep
  <2>2. d.revocation = "revoked" /\ ~ RevokedLater(d, so_far) =>
          r = Noted("RevocationSigner", "fail", "revoked")
    <3> SUFFICES ASSUME d.revocation = "revoked", ~ RevokedLater(d, so_far)
                 PROVE  r = Noted("RevocationSigner", "fail", "revoked")
      OBVIOUS
    <3> QED  BY <1>4 DEF RevocationStep
  <2> HIDE DEF r
  <2>3. r.kind = "RevocationSigner" /\ r.note # "validationData" /\ r.status # "ok"
    <3>1. CASE r = Plain("RevocationSigner", "warn")  BY <3>1 DEF Plain, Noted
    <3>2. CASE r = Noted("RevocationSigner", "fail", "revoked")  BY <3>2 DEF Noted
    <3> QED  BY <2>1, <3>1, <3>2
  <2>4. d.revocation = "revoked" /\ ~ RevokedLater(d, so_far) => r.status = "fail"
    BY <2>2 DEF Noted
  <2> QED  BY <1>1, <1>4, <2>3, <2>4 DEF r
<1> QED  BY <1>2, <1>3, <1>4

\* What a report tells of the document: ReportInv for a report that is there.
ReportTells(d, stage, s, v, l) ==
  /\ d \in Document /\ s \in Seq(Step)
  /\ Clean(s) => CleanEstablishes(d, stage)
  /\ StepsTell(d, stage, StepsIn(s))
  /\ Ordered(d, stage, s)
  /\ VerdictOf(d, stage, s, v)
  /\ l = LevelAt(d, stage)

LEMMA ReportInvTells ==
  ASSUME ReportInv, Reported
  PROVE  ReportTells(doc, pc, steps, verdict, level)
BY EarnedLevelIs DEF ReportInv, CleanInv, TypeOK, ReportTells

LEMMA RevocationTells ==
  ASSUME NEW d, NEW s, NEW v, NEW l, ReportTells(d, "reported", s, v, l), d.kind = "signature"
  PROVE  LET all == Append(s, RevocationStep(d, s))
         IN  ReportTells(d, "closed", all, VerdictFor(all), LevelAfterRevocation(d, all, l))
<1> DEFINE r == RevocationStep(d, s)
           all == s \o <<r>>
<1>t. d \in Document /\ s \in Seq(Step)  BY DEF ReportTells
<1>r. /\ r \in Step /\ r.kind = "RevocationSigner" /\ r.note # "validationData"
      /\ r.status = "ok" => SignerCertificateAvailable(d) /\ d.revocation = "good"
      /\ SignerCertificateAvailable(d) /\ d.revocation = "good" =>
           r = Plain("RevocationSigner", "ok")
  BY RevocationStepIs
<1>a. Append(s, r) = all  BY <1>t, <1>r, AppendIsConcat
<1>c. Clean(all) => CleanEstablishes(d, "closed")
  <2> SUFFICES ASSUME Clean(all) PROVE Earned(d) /\ d.revocation = "good"
    BY DEF CleanEstablishes
  <2>1. <<r>> \in Seq(Step)  BY <1>r, StepsInFew
  <2>2. Clean(s) /\ r.status \in {"ok", "skip"}
    BY <1>r, <1>t, <2>1, CleanConcat, CleanSingle
  <2>3. Earned(d)  BY <2>2 DEF ReportTells, CleanEstablishes
  <2>4. SignerCertificateAvailable(d)
    BY <2>3 DEF Earned, Intact, SignerCertificateAvailable
  <2> QED  BY <2>2, <2>3, <2>4, CleanRevocation
<1> HIDE DEF r
<1>1. all \in Seq(Step) /\ StepsIn(all) = StepsIn(s) \cup {r}
  BY <1>t, <1>r, StepsInAppend
<1> HIDE DEF all
<1>i. StepsTell(d, "reported", StepsIn(s)) /\ Ordered(d, "reported", s)
  BY DEF ReportTells
<1>g. SignerCertificateAvailable(d) /\ d.revocation = "good" => ~ Failed(r) /\ ~ Warned(r)
  <2> SUFFICES ASSUME SignerCertificateAvailable(d), d.revocation = "good"
               PROVE  ~ Failed(r) /\ ~ Warned(r)
    OBVIOUS
  <2>1. r = Plain("RevocationSigner", "ok")  BY <1>r
  <2>2. r.status = "ok"  BY <2>1 DEF Plain, Noted
  <2> QED  BY <2>2 DEF Failed, Warned
<1>2. Truthful(d, r) /\ ~ LevelBlockingFailure(r)
  BY <1>r, <1>g DEF Truthful, LateKinds, Warned, LevelBlockingFailure, SignatureVerifyKinds, SoftWarningKinds,
              TsaEvidenceKinds, FormatKinds
<1>3. StepsTell(d, "closed", StepsIn(all))
  <2>1. \A x \in StepsIn(all) : Truthful(d, x)  BY <1>1, <1>2, <1>i DEF StepsTell
  <2>2. (\A x \in StepsIn(all) : ~ LevelBlockingFailure(x)) => Unflawed(d, "closed")
    BY <1>1, <1>i DEF StepsTell, Unflawed, TokenStages
  <2>3. Complete(d, "closed", StepsIn(all))
    BY <1>1, <1>i, <1>r, <1>t DEF StepsTell, Complete, TokenStages
  <2> QED  BY <2>1, <2>2, <2>3 DEF StepsTell
<1>4. VerdictFor(all) = "warning" <=> WarningEarned(d)
  <2>1. CASE Clean(s)
    <3>2. ~ WarningEarned(d)
      BY <1>i, <1>t, <2>1, VerdictCases DEF Ordered
    <3>1. \A x \in StepsIn(all) : Warned(x) => x.kind \notin SoftWarningKinds
      BY <1>1, <1>r, <1>t, <2>1, CleanIsIn DEF SoftWarningKinds, TsaEvidenceKinds
    <3> QED  BY <1>1, <3>1, <3>2, NoSoftWarning
  <2>2. CASE ~ Clean(s)
    BY <1>i, <1>r, <1>t, <2>2, RevocationVerdict DEF Ordered, all
  <2> QED  BY <2>1, <2>2
<1>5. Ordered(d, "closed", all)  BY <1>4 DEF Ordered
<1>6. LevelAfterRevocation(d, all, l) = LevelAt(d, "closed")
  <2>2. l = LevelAt(d, "reported")  BY DEF ReportTells
  <2>3. LevelFor(all, IsPadesBaseline(d)) = LevelAt(d, "closed")
    BY <1>1, <1>3, <1>t, LevelOfSteps
  <2>4. CASE l = "unknown"
    <3>1. LevelAt(d, "closed") = "unknown"  BY <2>2, <2>4 DEF LevelAt
    <3>2. LevelAfterRevocation(d, all, l) = "unknown"
      BY <2>4 DEF LevelAfterRevocation, LevelFor
    <3> QED  BY <3>1, <3>2
  <2>5. CASE l # "unknown"
    <3>1. IsPadesBaseline(d) /\ Basis(d)  BY <2>2, <2>5 DEF LevelAt
    <3>2. SignerCertificateAvailable(d)  BY <3>1, BasisAvailable
    <3>3. LevelAfterRevocation(d, all, l) = LevelFor(all, TRUE)
      BY <2>5, <3>2 DEF LevelAfterRevocation
    <3>4. LevelFor(all, TRUE) = LevelFor(all, IsPadesBaseline(d))
      BY <3>1 DEF LevelFor
    <3> QED  BY <2>3, <3>3, <3>4
  <2> QED  BY <2>4, <2>5
<1>7. VerdictOf(d, "closed", all, VerdictFor(all))  BY DEF VerdictOf
<1>8. ReportTells(d, "closed", all, VerdictFor(all), LevelAfterRevocation(d, all, l))
  BY <1>c, <1>1, <1>3, <1>5, <1>6, <1>7, <1>t DEF ReportTells
<1> QED  BY <1>a, <1>8 DEF r

LEMMA ReportRevocation ==
  ASSUME ReportInv, CleanInv', AppendRevocation
  PROVE  ReportInv'
<1> DEFINE r == RevocationStep(doc, steps)
           all == Append(steps, r)
<1>t. /\ doc \in Document /\ pc = "reported" /\ doc.kind = "signature" /\ steps \in Seq(Step)
      /\ doc' = doc /\ pc' = "closed" /\ steps' = all
      /\ verdict' = VerdictFor(all)
      /\ level' = LevelAfterRevocation(doc, all, level)
  BY DEF ReportInv, CleanInv, TypeOK, AppendRevocation
<1>1. ReportTells(doc, "closed", all, verdict', level')
  BY <1>t, ReportInvTells, RevocationTells DEF Reported
<1>2. level' = EarnedLevel(doc)'
  <2>1. EarnedLevel(doc)' = LevelAt(doc, "closed")
    BY <1>t, BasisIs DEF EarnedLevel, LevelAt
  <2> QED  BY <1>1, <2>1 DEF ReportTells
<1>3. ExcusedOnlyByTrustedTime'
  <2>1. r \in Step /\ Last(all) = r  BY <1>t, RevocationStepIs DEF Last
  <2> SUFFICES ASSUME SignerCertificateAvailable(doc), doc.revocation = "revoked",
                      r.status # "fail"
               PROVE  \/ doc.revokedAt = "future"
                      \/ /\ doc.revokedAt = "afterToken" /\ TimestampTrusted(doc)
                         /\ doc.tstInfo = "timed"
    BY <1>t, <2>1 DEF ExcusedOnlyByTrustedTime, RevocationExcused, Failed
  <2>2. RevokedLater(doc, steps)  BY RevocationStepIs
  <2>3. TrustedTimestampSteps(steps) => TimestampTrusted(doc)
    BY TrustIsTold DEF ReportInv
  <2> QED  BY <2>2, <2>3 DEF RevokedLater, TokenTimeKnown
<1> HIDE DEF all
<1> QED  BY <1>1, <1>2, <1>3, <1>t DEF ReportInv, ReportTells

-----------------------------------------------------------------------------
LEMMA ReportStep == ReportInv /\ [Next]_vars => ReportInv'
<1> SUFFICES ASSUME ReportInv, [Next]_vars PROVE ReportInv'
  OBVIOUS
<1>1. CleanInv'  BY CleanStep DEF ReportInv
<1>2. CASE UNCHANGED vars
  BY <1>2, <1>1
  DEF vars, ReportInv, Reported, EarnedLevel, ExcusedOnlyByTrustedTime, RevocationExcused
<1> QED
  BY <1>1, <1>2, ReportCoverage, ReportRevisions, ReportCms, ReportStructure, ReportDigest,
     ReportValue, ReportChain, ReportUsage, ReportTimestamp, ReportValidity, ReportToken,
     ReportImprint, ReportTokenSignature, ReportTokenTrust, ReportRevocation
  DEF Next, ValidateStage

LEMMA ReportInit == Init => ReportInv
<1> SUFFICES ASSUME Init PROVE ReportInv
  OBVIOUS
<1>1. CleanInv
  BY DocumentsAssumption
  DEF Init, CleanInv, TypeOK, Stage, Level, CleanEstablishes, SignatureStages, TokenStages, Reported
<1>2. pc = "coverage" /\ StepsIn(steps) = {}  BY StepsInFew DEF Init
<1>3. StepsTell(doc, pc, {})  BY <1>2 DEF StepsTell, Unflawed, Complete, TokenStages
<1>4. Ordered(doc, pc, steps)  BY <1>2 DEF Ordered
<1>5. ~ Reported /\ ExcusedOnlyByTrustedTime
  BY <1>2 DEF Reported, ExcusedOnlyByTrustedTime, RevocationExcused
<1> QED  BY <1>1, <1>2, <1>3, <1>4, <1>5 DEF ReportInv

LEMMA ReportInvariant == Spec => []ReportInv
BY ReportInit, ReportStep, PTL DEF Spec

-----------------------------------------------------------------------------
(* What the invariant says of the reports.                                 *)

LEMMA EarnedIsClean ==
  ASSUME NEW d, NEW stage \in {"reported", "closed"}, NEW s, NEW v, NEW l,
         ReportTells(d, stage, s, v, l), Earned(d), stage = "closed" => d.revocation = "good"
  PROVE  Clean(s)
<1>t. d \in Document /\ s \in Seq(Step) /\ StepsTell(d, stage, StepsIn(s))  BY DEF ReportTells
<1>1. ASSUME NEW x \in StepsIn(s) PROVE ~ Failed(x) /\ ~ Warned(x)
  <2>1. Truthful(d, x)  BY <1>t DEF StepsTell
  <2>2. CASE x.kind # "RevocationSigner"
    BY <2>1, <2>2 DEF Truthful
  <2>3. CASE x.kind = "RevocationSigner"
    <3>1. stage = "closed" /\ d.kind = "signature"
      BY <1>t, <2>3 DEF StepsTell, Complete
    <3>2. SignerCertificateAvailable(d)  BY <1>t, <3>1, EarnedBasis, BasisAvailable
    <3> QED  BY <2>1, <2>3, <3>1, <3>2 DEF Truthful
  <2> QED  BY <2>2, <2>3
<1> QED  BY <1>t, <1>1, CleanIsIn

\* A report is valid exactly if it is earned, and then it is clean.
LEMMA ValidTells ==
  ASSUME NEW d, NEW stage \in {"reported", "closed"}, NEW s, NEW v, NEW l,
         ReportTells(d, stage, s, v, l)
  PROVE  /\ v = "valid" <=> Earned(d) /\ (stage = "closed" => d.revocation = "good")
         /\ v = "valid" => Clean(s)
         /\ v \in {"valid", "warning", "inconclusive", "invalid", "error"}
<1>t. d \in Document /\ s \in Seq(Step) /\ VerdictOf(d, stage, s, v)  BY DEF ReportTells
<1>1. /\ v \in {"valid", "warning", "inconclusive", "invalid", "error"}
      /\ v = "valid" <=> VerdictFor(s) = "valid"
  BY <1>t, VerdictCases DEF VerdictOf
<1>2. VerdictFor(s) = "valid" <=> Clean(s)  BY <1>t, VerdictCases, ValidIsClean
<1>3. Clean(s) => Earned(d) /\ (stage = "closed" => d.revocation = "good")
  BY DEF ReportTells, CleanEstablishes
<1> QED  BY <1>1, <1>2, <1>3, EarnedIsClean

LEMMA InvEarnedIsValid == ReportInv => EarnedIsValid
<1> SUFFICES ASSUME ReportInv, Earned(doc), Reported, pc = "closed" => doc.revocation = "good"
             PROVE  verdict = "valid"
  BY DEF EarnedIsValid, Reported
<1> QED  BY ReportInvTells, ValidTells DEF Reported

\* A signature whose facts are all good is never reported as anything less
\* than valid: no early return, no optional part that is absent and no order
\* of the steps raises a doubt, for every set of documents.
THEOREM EarnedReportsAreValid == Spec => []EarnedIsValid
BY ReportInvariant, InvEarnedIsValid, PTL

\* The level of a report is the one the facts of the document give, after
\* validation and after the revocation pass.
THEOREM LevelsAreEarned == Spec => []LevelIsEarned
<1>1. ReportInv => LevelIsEarned  BY DEF ReportInv, LevelIsEarned
<1> QED  BY <1>1, ReportInvariant, PTL

\* The verdicts written by hand in the early returns agree with the verdict
\* computed from the steps, errors and RSA-SHA1 aside.
THEOREM VerdictsMatchStandards == Spec => []VerdictMatchesStandards
<1>1. ReportInv => VerdictMatchesStandards
  BY DEF ReportInv, VerdictMatchesStandards, VerdictOf
<1> QED  BY <1>1, ReportInvariant, PTL

\* A report is a warning exactly if its timestamp, sound but without configured
\* trust, is the only doubt about the bytes, the profile, the chain and the
\* coverage; the late checks never change that.
THEOREM WarningsAreEarned == Spec => []WarningIsEarned
<1>1. ReportInv => WarningIsEarned
  <2> SUFFICES ASSUME ReportInv, Reported PROVE verdict = "warning" <=> WarningEarned(doc)
    BY DEF WarningIsEarned
  <2>1. VerdictOf(doc, pc, steps, verdict)  BY DEF ReportInv
  <2>2. VerdictFor(steps) = "warning" <=> WarningEarned(doc)
    BY DEF ReportInv, Ordered, Reported
  <2> QED  BY <2>1, <2>2 DEF VerdictOf
<1> QED  BY <1>1, ReportInvariant, PTL

\* Only a trusted timestamp from before the revocation, or a revocation that is
\* still to come, excuses a revoked certificate.
THEOREM RevocationsAreExcusedByTrustedTime == Spec => []ExcusedOnlyByTrustedTime
<1>1. ReportInv => ExcusedOnlyByTrustedTime  BY DEF ReportInv
<1> QED  BY <1>1, ReportInvariant, PTL

LEMMA SeverityOfVerdicts ==
  /\ \A v \in {"valid", "warning", "inconclusive", "invalid"} : Severity(v) >= Severity("valid")
  /\ \A v \in {"valid", "warning", "inconclusive", "invalid", "error"} : Severity(v) >= Severity(v)
  /\ Severity("invalid") >= Severity("error")
  /\ Severity("invalid") >= Severity("inconclusive")
BY DEF Severity

LEMMA RevocationWorsens ==
  ASSUME NEW d, NEW s \in Seq(Step), NEW v, VerdictOf(d, "reported", s, v)
  PROVE  LET w == VerdictFor(Append(s, RevocationStep(d, s)))
         IN  \/ Severity(w) >= Severity(v)
             \/ d.digest = "rsaSha1" /\ d.subFilter # "adbeSha1"
<1> DEFINE r == RevocationStep(d, s)
           all == Append(s, r)
<1>1. r \in Step /\ r.kind = "RevocationSigner"  BY RevocationStepIs
<1> HIDE DEF r
<1>2. all = s \o <<r>> /\ all \in Seq(Step)
  BY <1>1, AppendIsConcat, StepsInAppend
<1> HIDE DEF all
<1>3. VerdictFor(all) \in {"valid", "invalid", "warning", "inconclusive"}
  BY <1>2, VerdictCases
<1>4. CASE Clean(s)
  <2>1. v = "valid"  BY <1>4, VerdictCases DEF VerdictOf
  <2>2. Severity(VerdictFor(all)) >= Severity(v)  BY <1>3, <2>1, SeverityOfVerdicts
  <2> QED  BY <2>2 DEF all, r
<1>5. CASE ~ Clean(s)
  <2>1. VerdictFor(all) = VerdictFor(s)
    BY <1>1, <1>2, <1>5, RevocationVerdict
  <2>2. \/ Severity(VerdictFor(all)) >= Severity(v)
        \/ d.digest = "rsaSha1" /\ d.subFilter # "adbeSha1"
    BY <1>3, <2>1, SeverityOfVerdicts DEF VerdictOf
  <2> QED  BY <2>2 DEF all, r
<1> QED  BY <1>4, <1>5

\* The verdict after the revocation pass is at least as severe as the one it
\* replaces, whatever the steps before it say, RSA-SHA1 aside.
THEOREM RevocationOnlyWorsens == Spec => RevocationNeverImproves
<1>1. ASSUME ReportInv, AppendRevocation
      PROVE  \/ Severity(verdict') >= Severity(verdict)
             \/ doc.digest = "rsaSha1" /\ doc.subFilter # "adbeSha1"
  <2>1. /\ steps \in Seq(Step) /\ verdict' = VerdictFor(Append(steps, RevocationStep(doc, steps)))
        /\ VerdictOf(doc, "reported", steps, verdict)
    BY <1>1 DEF ReportInv, CleanInv, TypeOK, AppendRevocation, Reported
  <2> QED  BY <2>1, RevocationWorsens
<1>2. ReportInv /\ [Next]_vars =>
        [AppendRevocation =>
           \/ Severity(verdict') >= Severity(verdict)
           \/ doc.digest = "rsaSha1" /\ doc.subFilter # "adbeSha1"]_vars
  BY <1>1
<1> QED  BY <1>2, ReportInvariant, PTL DEF Spec, RevocationNeverImproves
=============================================================================

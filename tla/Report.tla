------------------------------- MODULE Report -------------------------------
(***************************************************************************)
(* The report model of the validator (rust/sd_trust_kit/src/report.rs):    *)
(* how a list of validation steps is turned into a standards indication, a *)
(* verdict and a PAdES level, and how several signature reports are        *)
(* aggregated into one document report.                                    *)
(*                                                                         *)
(* A step keeps its kind and its status.  Of the detail text only the four *)
(* pieces the code itself reads back are kept, as the field `note':        *)
(* "validationData" on a ByteRangeCoverage step, "content" on a            *)
(* SignatureVerifyContent step, "rsaSha1" on a MessageDigestMatches step   *)
(* and "revoked" on a RevocationSigner step.                               *)
(*                                                                         *)
(* Operators named Faulty... are slips this code could contain; no         *)
(* definition uses them.                                                   *)
(***************************************************************************)
EXTENDS Naturals, Sequences, SequencesExt

Status == {"ok", "fail", "warn", "skip"}

Verdict == {"error", "valid", "warning", "inconclusive", "invalid", "noSignatures"}

Indication == {"passed", "failed", "indeterminate"}

SubIndication ==
  {"none", "format", "modified", "hash", "crypto", "certificateMissing", "chain",
   "revocationMissing", "revoked", "timestamp", "constraints"}

Level == {"unknown", "B", "T", "LT", "LTA"}

FormatKinds ==
  {"ParsePDF", "SignatureFieldResolution", "ByteRangeCoverage", "ByteRangeBounds",
   "CmsStructure", "PadesBaselineRequirements", "SignerInfoPresent"}

SignatureVerifyKinds == {"SignatureVerifySignedAttributes", "SignatureVerifyContent"}

\* The four steps that must all be Ok for a timestamp to be trusted.
TsaEvidenceKinds ==
  {"TsaMessageImprint", "TsaSignatureVerify", "TsaExtendedKeyUsage", "TsaCertificateChain"}

\* The warnings that is_soft_indeterminate_warning calls soft.
SoftWarningKinds == TsaEvidenceKinds \cup {"TsaTimestamp"}

TimestampEvidenceKinds == SoftWarningKinds \cup {"DocumentTimestamp"}

StepKind ==
  FormatKinds \cup SignatureVerifyKinds \cup TimestampEvidenceKinds \cup
  {"DocumentModifiedAfterSigning", "MessageDigestMatches", "MessageDigestAttribute",
   "SignerCertificatePresent", "SignerCertificateValidity", "SignerCertificateKeyUsage",
   "SignerCertificateExtendedKeyUsage", "SignerCertificateChain", "RevocationSigner"}

Note == {"", "validationData", "content", "rsaSha1", "revoked"}

Step == [kind : StepKind, status : Status, note : Note]

Noted(kind, status, note) == [kind |-> kind, status |-> status, note |-> note]
Plain(kind, status) == Noted(kind, status, "")

-----------------------------------------------------------------------------
(* Reading a list of steps.                                                *)

Occurs(steps, P(_)) == \E i \in 1..Len(steps) : P(steps[i])

\* The first step that satisfies P; only used where one occurs.
First(steps, P(_)) == steps[SelectInSeq(steps, P)]

Failed(step) == step.status = "fail"
Warned(step) == step.status = "warn"

StepOk(steps, kind) == \E i \in 1..Len(steps) : steps[i] = Plain(kind, "ok")

ChainWarned(step) == step.kind = "SignerCertificateChain" /\ step.status = "warn"

TrustedTimestampSteps(steps) == \A kind \in TsaEvidenceKinds : StepOk(steps, kind)

-----------------------------------------------------------------------------
(* standards_result_for and verdict_for.                                   *)

SubIndicationOf(step, failed) ==
  CASE step.kind \in FormatKinds -> "format"
    [] step.kind = "DocumentModifiedAfterSigning" -> "modified"
    [] step.kind \in {"MessageDigestAttribute", "MessageDigestMatches"} -> "hash"
    [] step.kind \in SignatureVerifyKinds \cup {"TsaSignatureVerify"} -> "crypto"
    [] step.kind = "SignerCertificatePresent" -> "certificateMissing"
    [] step.kind = "SignerCertificateValidity" -> "revocationMissing"
    [] step.kind \in {"SignerCertificateKeyUsage", "SignerCertificateExtendedKeyUsage",
                      "TsaExtendedKeyUsage"} -> "constraints"
    [] step.kind \in {"SignerCertificateChain", "TsaCertificateChain"} -> "chain"
    [] step.kind = "RevocationSigner" ->
         IF failed /\ step.note = "revoked" THEN "revoked" ELSE "revocationMissing"
    [] step.kind \in {"TsaTimestamp", "TsaMessageImprint", "DocumentTimestamp"} -> "timestamp"

\* Failures an untrusted signer chain takes precedence over.
DominatedByUntrustedChain(step) ==
  \/ step.kind \in TimestampEvidenceKinds
  \/ step.kind \in {"PadesBaselineRequirements", "SignatureFieldResolution"}
  \/ step.kind = "SignatureVerifyContent" /\ step.note = "content"

Standards(indication, sub) == [indication |-> indication, sub |-> sub]

FailureStandards(steps) ==
  LET failure == First(steps, Failed)
      sub == SubIndicationOf(failure, TRUE)
  IN  IF DominatedByUntrustedChain(failure) /\ Occurs(steps, ChainWarned)
      THEN Standards("indeterminate", SubIndicationOf(First(steps, ChainWarned), FALSE))
      ELSE IF failure.kind = "MessageDigestMatches" /\ failure.note = "rsaSha1"
      THEN Standards("indeterminate", "hash")
      ELSE Standards(IF sub \in {"certificateMissing", "revocationMissing", "chain", "revoked"}
                     THEN "indeterminate" ELSE "failed", sub)

StandardsFor(steps) ==
  IF Occurs(steps, Failed) THEN FailureStandards(steps)
  ELSE IF Occurs(steps, Warned)
       THEN Standards("indeterminate", SubIndicationOf(First(steps, Warned), FALSE))
       ELSE Standards("passed", "none")

\* Slip: any soft warning will do, first or not.
FaultySoftFirstWarning(steps) ==
  \E i \in 1..Len(steps) : Warned(steps[i]) /\ steps[i].kind \in SoftWarningKinds

SoftFirstWarning(steps) ==
  Occurs(steps, Warned) /\ First(steps, Warned).kind \in SoftWarningKinds

VerdictFor(steps) ==
  CASE StandardsFor(steps).indication = "passed" -> "valid"
    [] StandardsFor(steps).indication = "failed" -> "invalid"
    [] OTHER -> IF SoftFirstWarning(steps) THEN "warning" ELSE "inconclusive"

-----------------------------------------------------------------------------
(* pades_level_for_signature_steps.                                        *)

\* Slip: a failed baseline requirement does not cost the level.
FaultyLevelBlockingFailure(step) ==
  /\ step.status = "fail"
  /\ step.kind \in (FormatKinds \ {"PadesBaselineRequirements"}) \cup SignatureVerifyKinds \cup
       {"DocumentModifiedAfterSigning", "MessageDigestMatches", "MessageDigestAttribute",
        "SignerCertificatePresent"}

LevelBlockingFailure(step) ==
  /\ step.status = "fail"
  /\ step.kind \in FormatKinds \cup SignatureVerifyKinds \cup
       {"DocumentModifiedAfterSigning", "MessageDigestMatches", "MessageDigestAttribute",
        "SignerCertificatePresent"}

LevelFor(steps, baselineCandidate) ==
  IF \/ ~ baselineCandidate
     \/ Occurs(steps, LevelBlockingFailure)
     \/ \A kind \in SignatureVerifyKinds : ~ StepOk(steps, kind)
  THEN "unknown"
  ELSE IF ~ TrustedTimestampSteps(steps) THEN "B"
  ELSE IF /\ \E i \in 1..Len(steps) :
               steps[i] = Noted("ByteRangeCoverage", "ok", "validationData")
          /\ StepOk(steps, "RevocationSigner")
       THEN "LT" ELSE "T"

-----------------------------------------------------------------------------
(* aggregate_report: the reports are in the order of the signed revisions. *)

\* SignatureReport, with the standards of its steps.
SignatureReportOf(steps, verdict, level) ==
  [steps |-> steps, verdict |-> verdict, level |-> level, standards |-> StandardsFor(steps)]

SignerChainInconclusive(signatures) ==
  \E i \in 1..Len(signatures) : Occurs(signatures[i].steps, ChainWarned)

\* Slip: a failed step elsewhere in the timestamp's report does not count.
FaultyDocumentTimestampTrusted(report) ==
  StepOk(report.steps, "DocumentTimestamp") /\ TrustedTimestampSteps(report.steps)

DocumentTimestampTrusted(report) ==
  /\ ~ Occurs(report.steps, Failed)
  /\ StepOk(report.steps, "DocumentTimestamp")
  /\ TrustedTimestampSteps(report.steps)

VerdictOrder == <<"error", "invalid", "inconclusive", "warning", "noSignatures", "valid">>

\* aggregate_verdict; there is always a verdict to aggregate.
AggregateVerdict(verdicts) ==
  LET given(v) == v \in verdicts IN First(VerdictOrder, given)

IndicationOf(report) == report.standards.indication

\* The order in which representative_report looks for the report to show.
Representative(reports) ==
  LET failed(r) == IndicationOf(r) = "failed"
      invalid(r) == r.verdict = "invalid"
      indeterminate(r) == IndicationOf(r) = "indeterminate"
      inconclusive(r) == r.verdict = "inconclusive"
      warning(r) == r.verdict = "warning"
  IN  CASE Occurs(reports, failed) -> First(reports, failed)
        [] ~ Occurs(reports, failed) /\ Occurs(reports, invalid) -> First(reports, invalid)
        [] OTHER ->
             IF Occurs(reports, indeterminate) THEN First(reports, indeterminate)
             ELSE IF Occurs(reports, inconclusive) THEN First(reports, inconclusive)
             ELSE IF Occurs(reports, warning) THEN First(reports, warning)
             ELSE Last(reports)

AggregateStandards(reports) ==
  LET failed(r) == IndicationOf(r) = "failed"
      indeterminate(r) == IndicationOf(r) = "indeterminate"
  IN  IF Occurs(reports, failed) THEN First(reports, failed).standards
      ELSE IF Occurs(reports, indeterminate) THEN First(reports, indeterminate).standards
           ELSE Standards("passed", "none")

\* Slip: the verdict is that of the latest signature.
FaultyVerdictReports(signatures, timestamps) == <<Last(signatures)>> \o timestamps

\* The reports whose verdicts are aggregated: an untrusted signer chain
\* leaves the document timestamps out.
VerdictReports(signatures, timestamps) ==
  IF SignerChainInconclusive(signatures) THEN signatures ELSE signatures \o timestamps

\* aggregate_report; signatures is never empty where the code calls it.
AggregateReport(signatures, timestamps) ==
  LET considered == VerdictReports(signatures, timestamps)
      latest == Last(signatures)
      shown == IF timestamps = <<>> THEN latest ELSE Representative(considered)
  IN  [steps     |-> shown.steps,
       verdict   |-> AggregateVerdict({considered[i].verdict : i \in 1..Len(considered)}),
       standards |-> IF timestamps = <<>> \/ SignerChainInconclusive(signatures)
                     THEN shown.standards ELSE AggregateStandards(considered),
       level     |-> IF latest.level = "LT" /\ Occurs(timestamps, DocumentTimestampTrusted)
                     THEN "LTA" ELSE latest.level]
=============================================================================

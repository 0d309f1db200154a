------------------------- MODULE DocumentValidation -------------------------
(***************************************************************************)
(* The validation of a whole document: verify_pdf_with_options and         *)
(* verify_pdf_including_revocation_with_options of                         *)
(* rust/sd_trust_kit/src/lib.rs.  The signature dictionaries found in the  *)
(* file are filtered, each one left is validated by the stages of          *)
(* SignatureValidation, the reports are aggregated, and the revocation     *)
(* pass closes the signature reports and aggregates again.                 *)
(* The variables and stages of SignatureValidation are those of the        *)
(* dictionary that is being validated; its Init, Next and Spec are about   *)
(* one signature alone, those of a file are called FileInit, FileNext and  *)
(* FileSpec.                                                               *)
(* Faulty... operators are slips this code could contain; no definition    *)
(* uses them.                                                              *)
(***************************************************************************)
EXTENDS SignatureValidation, FiniteSets

CONSTANT Files   \* the files to validate

VARIABLES
  file,         \* the file and the options
  phase,        \* how far the validation of the file has come
  sigs,         \* the dictionaries the filter leaves
  signatures,   \* the reports of the signatures validated so far
  timestamps,   \* the reports of the document timestamps
  report        \* the document's report, NoReport before there is one

fileVars == <<file, phase, sigs, signatures, timestamps, report, vars>>

(* A signature dictionary: what its validation looks at, and what the      *)
(* filter looks at.  Dictionaries come in the order of their revisions.    *)
Dictionary ==
  [facts : Documents,
   revision : Nat,           \* the size of its signed revision
   field : {"referenced", "orphan", "none"},
   usageRights : BOOLEAN,
   selfReference : BOOLEAN,
   badCms : BOOLEAN]         \* the algorithm does not fit the signer's key

File ==
  [isPdf : BOOLEAN, locked : BOOLEAN, encrypted : BOOLEAN, altered : BOOLEAN,
   pageTree : BOOLEAN, checkRevocation : BOOLEAN, dictionaries : Seq(Dictionary)]

ASSUME FilesAssumption == Files \subseteq File

\* Where a dictionary stands follows from the others, so that any position is
\* possible.
ASSUME PositionsAssumption ==
  \A d \in Documents, position \in {"last", "covered", "sibling"} :
    [d EXCEPT !.position = position] \in Documents

\* The elements at the given positions, in their order.
ElementsAt(seq, positions) ==
  [k \in 1..Cardinality(positions) |->
     seq[CHOOSE i \in positions : Cardinality(positions \cap 1..i) = k]]

-----------------------------------------------------------------------------
(* usable_signature_dictionaries.                                          *)

Candidate(d) == ~ d.usageRights /\ ~ d.selfReference /\ ~ d.badCms

\* An orphan is left out when the file has a signature that a field refers to
\* and more than one candidate.
OrphansLeftOut(dictionaries) ==
  /\ \E i \in DOMAIN dictionaries : dictionaries[i].field = "referenced"
  /\ Cardinality({i \in DOMAIN dictionaries : Candidate(dictionaries[i])}) > 1

Usable(dictionaries) ==
  LET usable(d) == Candidate(d) /\ ~ (d.field = "orphan" /\ OrphansLeftOut(dictionaries))
  IN  ElementsAt(dictionaries, {i \in DOMAIN dictionaries : usable(dictionaries[i])})

IsTimestamp(d) == d.facts.kind = "documentTimestamp"
IsSignature(d) == d.facts.kind = "signature"

\* The dictionary as it is validated: the last one has to cover the file.
Placed(usable, i) ==
  [usable[i].facts EXCEPT !.position =
     IF i = Len(usable) THEN "last"
     ELSE IF \E j \in DOMAIN usable : usable[j].revision > usable[i].revision THEN "covered"
     ELSE "sibling"]

-----------------------------------------------------------------------------
NoReport == [verdict |-> "none"]

\* ValidationReport::new
StepReport(step, with) ==
  [steps |-> <<step>>, verdict |-> with, standards |-> StandardsFor(<<step>>),
   level |-> "unknown"]

FileInit ==
  /\ file \in Files
  /\ phase = "parse"
  /\ sigs = <<>>
  /\ signatures = <<>>
  /\ timestamps = <<>>
  /\ report = NoReport
  /\ doc = <<>>
  /\ pc = "coverage"
  /\ steps = <<>>
  /\ verdict = "none"
  /\ level = "unknown"

Conclude(with) ==
  /\ report' = with
  /\ phase' = "done"
  /\ UNCHANGED <<file, sigs, signatures, timestamps, vars>>

RejectFile ==
  /\ phase = "parse"
  /\ ~ file.isPdf
  /\ Conclude(StepReport(Plain("ParsePDF", "fail"), "error"))

\* No dictionary is left to validate.
ReportUnsigned ==
  /\ phase = "parse"
  /\ file.isPdf
  /\ Usable(file.dictionaries) = <<>>
  /\ \/ /\ file.locked
        /\ Conclude(StepReport(Plain("ParsePDF", "fail"), "error"))
     \/ /\ ~ file.locked /\ file.altered
        /\ Conclude(StepReport(Plain("DocumentModifiedAfterSigning", "fail"), "invalid"))
     \/ /\ ~ file.locked /\ ~ file.altered /\ ~ file.encrypted /\ ~ file.pageTree
        /\ Conclude(StepReport(Plain("ParsePDF", "fail"), "error"))
     \/ /\ ~ file.locked /\ ~ file.altered /\ (file.encrypted \/ file.pageTree)
        /\ Conclude(StepReport(Plain("ParsePDF", "ok"), "noSignatures"))

FindSignatures ==
  /\ phase = "parse"
  /\ file.isPdf
  /\ Usable(file.dictionaries) # <<>>
  /\ phase' = "load"
  /\ sigs' = Usable(file.dictionaries)
  /\ UNCHANGED <<file, signatures, timestamps, report, vars>>

Validated == Len(signatures) + Len(timestamps)

\* verify_signature is called for the next dictionary ...
LoadDictionary ==
  /\ phase = "load"
  /\ Validated < Len(sigs)
  /\ phase' = "validate"
  /\ doc' = Placed(sigs, Validated + 1)
  /\ UNCHANGED <<file, sigs, signatures, timestamps, report, pc, steps, verdict, level>>

\* ... runs its stages ...
ValidateDictionary ==
  /\ phase = "validate"
  /\ ValidateStage
  /\ UNCHANGED <<file, phase, sigs, signatures, timestamps, report>>

ClearStages ==
  /\ doc' = <<>>
  /\ pc' = "coverage"
  /\ steps' = <<>>
  /\ verdict' = "none"
  /\ level' = "unknown"

\* ... and returns its report.
CollectReport ==
  /\ phase = "validate"
  /\ pc = "reported"
  /\ phase' = "load"
  /\ IF doc.kind = "signature"
     THEN signatures' = Append(signatures, SignatureReportOf(steps, verdict, level)) /\ UNCHANGED timestamps
     ELSE timestamps' = Append(timestamps, SignatureReportOf(steps, verdict, level)) /\ UNCHANGED signatures
  /\ ClearStages
  /\ UNCHANGED <<file, sigs, report>>

\* Slip: document timestamps alone are aggregated as if they were signatures.
FaultyAggregate ==
  /\ phase = "load"
  /\ Validated = Len(sigs)
  /\ IF signatures = <<>> THEN Conclude(AggregateReport(timestamps, <<>>))
     ELSE /\ phase' = IF file.checkRevocation THEN "aggregated" ELSE "done"
          /\ report' = AggregateReport(signatures, timestamps)
          /\ UNCHANGED <<file, sigs, signatures, timestamps, vars>>

\* Document timestamps alone are no signature.
Aggregate ==
  /\ phase = "load"
  /\ Validated = Len(sigs)
  /\ IF signatures = <<>> THEN Conclude(StepReport(Plain("ParsePDF", "ok"), "noSignatures"))
     ELSE /\ phase' = IF file.checkRevocation THEN "aggregated" ELSE "done"
          /\ report' = AggregateReport(signatures, timestamps)
          /\ UNCHANGED <<file, sigs, signatures, timestamps, vars>>

Closed(d, before) ==
  LET all == Append(before.steps, RevocationStep(d, before.steps))
  IN  SignatureReportOf(all, VerdictFor(all),
                        LevelAfterRevocation(d, all, before.level))

\* Slip: the dictionaries of document timestamps are not filtered out before
\* dictionaries and signature reports are paired.
FaultyClosedSignatures ==
  [k \in DOMAIN signatures |-> Closed(sigs[k].facts, signatures[k])]

SignaturePositions == {i \in DOMAIN sigs : IsSignature(sigs[i])}

\* Signature reports and the dictionaries of signatures are paired by position.
ClosedSignatures ==
  [k \in DOMAIN signatures |->
     Closed(ElementsAt(sigs, SignaturePositions)[k].facts, signatures[k])]

\* The revocation pass over the signatures ...
CloseSignatures ==
  /\ phase = "aggregated"
  /\ phase' = "closed"
  /\ signatures' = ClosedSignatures
  /\ UNCHANGED <<file, sigs, timestamps, report, vars>>

\* Slip: the second aggregation is given no timestamps.
FaultyAggregateClosed ==
  /\ phase = "closed"
  /\ phase' = "done"
  /\ report' = AggregateReport(signatures, <<>>)
  /\ UNCHANGED <<file, sigs, signatures, timestamps, vars>>

\* ... and the second aggregation.
AggregateClosed ==
  /\ phase = "closed"
  /\ phase' = "done"
  /\ report' = AggregateReport(signatures, timestamps)
  /\ UNCHANGED <<file, sigs, signatures, timestamps, vars>>

FileNext ==
  \/ RejectFile
  \/ ReportUnsigned
  \/ FindSignatures
  \/ LoadDictionary
  \/ ValidateDictionary
  \/ CollectReport
  \/ Aggregate
  \/ CloseSignatures
  \/ AggregateClosed

\* The validator is a function call: it runs until it returns.
FileSpec == FileInit /\ [][FileNext]_fileVars /\ WF_fileVars(FileNext)

-----------------------------------------------------------------------------
FileReported == phase \in {"aggregated", "done"}

\* The revocation pass is over.
AllClosed == phase = "done" /\ file.checkRevocation

Facts(i) == Placed(sigs, i)

EarnedDictionary(i) ==
  /\ Earned(Facts(i))
  /\ AllClosed /\ IsSignature(sigs[i]) => Facts(i).revocation = "good"

\* A document is valid exactly if it has a signature and everything speaks for
\* each signature and each document timestamp the filter leaves: aggregation
\* neither loses a doubt about one of them nor adds one.
DocumentValidIffEarned ==
  FileReported =>
    (report.verdict = "valid" <=>
       /\ file.isPdf
       /\ \E i \in DOMAIN sigs : IsSignature(sigs[i])
       /\ \A i \in DOMAIN sigs : EarnedDictionary(i))

\* A signature that is not intact shows in the verdict, whatever later
\* signatures and timestamps the document has.
BrokenSignatureShows ==
  FileReported /\ (\E i \in DOMAIN sigs : IsSignature(sigs[i]) /\ ~ Intact(Facts(i)))
    => report.verdict \in {"inconclusive", "invalid", "error"}

\* The pass pairs reports and dictionaries by position in two filtered lists:
\* each signature is closed with its own signer's revocation status, and the
\* order of the reports is that of the dictionaries.
RevocationIsOwn ==
  AllClosed /\ signatures # <<>> =>
    \A i \in DOMAIN sigs :
      LET k == Cardinality({j \in 1..i : IsSignature(sigs[j])})
      IN  IsSignature(sigs[i]) =>
            /\ Last(signatures[k].steps).kind = "RevocationSigner"
            /\ Last(signatures[k].steps).status = "ok" <=>
                 SignerCertificateAvailable(Facts(i)) /\ Facts(i).revocation = "good"

\* The archival level is earned: the latest signature is intact, timestamped
\* and known not to be revoked, validation data follows, and a document
\* timestamp is trusted and unmodified.
ArchivalIsEarned ==
  FileReported /\ report.level = "LTA" =>
    /\ \E i \in DOMAIN sigs :
         /\ IsSignature(sigs[i])
         /\ \A j \in i + 1..Len(sigs) : IsTimestamp(sigs[j])
         /\ Intact(Facts(i)) /\ TimestampTrusted(Facts(i))
         /\ OnlyLaterValidationData(Facts(i)) /\ Facts(i).revocation = "good"
    /\ \E i \in DOMAIN sigs :
         /\ IsTimestamp(sigs[i])
         /\ TimestampTrusted(Facts(i))
         /\ Facts(i).modified = {}

\* The second aggregation never makes the document's verdict better.
RevocationNeverImprovesDocument ==
  [][AggregateClosed =>
       \/ Severity(report'.verdict) >= Severity(report.verdict)
       \/ \E i \in DOMAIN sigs : sigs[i].facts.digest = "rsaSha1"]_fileVars
=============================================================================

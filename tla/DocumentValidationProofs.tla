----------------------- MODULE DocumentValidationProofs -----------------------
(***************************************************************************)
(* Proofs about DocumentValidation, for every set of files: when a         *)
(* document is valid, that a broken signature shows, whose revocation      *)
(* status closes a report, what the archival level stands on, and that the *)
(* revocation pass does not make a document better.                        *)
(* FileInv relates each report to the dictionary it is about by counting:  *)
(* the report of a signature has the number that its dictionary has among  *)
(* those of signatures.  What a single report tells is ReportTells of      *)
(* SignatureValidationProofs, and while a dictionary is validated its      *)
(* invariant ReportInv holds of it.                                        *)
(***************************************************************************)
EXTENDS DocumentValidation, SignatureValidationProofs, FiniteSetTheorems

-----------------------------------------------------------------------------
(* The inductive invariant.                                                *)

Phases == {"parse", "load", "validate", "aggregated", "closed", "done"}

\* What SignatureReportOf makes of a report.
SignatureReport ==
  {SignatureReportOf(s, v, l) : s \in Seq(Step), v \in Verdict \cup {"none"}, l \in Level}

FileTypeOK ==
  /\ file \in Files
  /\ phase \in Phases
  /\ sigs \in Seq(Dictionary)
  /\ signatures \in Seq(SignatureReport)
  /\ timestamps \in Seq(SignatureReport)

TimestampPositions == {i \in DOMAIN sigs : IsTimestamp(sigs[i])}

\* The number of the given positions up to i.
CountTo(positions, i) == Cardinality(positions \cap 1..i)

Tells(d, stage, r) == ReportTells(d, stage, r.steps, r.verdict, r.level)

\* The reports are those of the first dictionaries, in their order.
Collected(stage) ==
  /\ Validated <= Len(sigs)
  /\ Len(signatures) = CountTo(SignaturePositions, Validated)
  /\ Len(timestamps) = CountTo(TimestampPositions, Validated)
  /\ \A i \in SignaturePositions \cap 1..Validated :
       Tells(Facts(i), stage, signatures[CountTo(SignaturePositions, i)])
  /\ \A i \in TimestampPositions \cap 1..Validated :
       Tells(Facts(i), "reported", timestamps[CountTo(TimestampPositions, i)])

\* Are the reports of the signatures closed?
PassOver == phase = "closed" \/ AllClosed

\* The last step of a closed report is about its own signer.
OwnStatus(i) ==
  LET last == Last(signatures[CountTo(SignaturePositions, i)].steps)
  IN  /\ last.kind = "RevocationSigner"
      /\ last.status = "ok" <=>
           SignerCertificateAvailable(Facts(i)) /\ Facts(i).revocation = "good"

\* The document's report is about the reports there are.
Shown ==
  IF signatures = <<>>
  THEN report.verdict \in {"error", "invalid", "noSignatures"} /\ report.level = "unknown"
  ELSE report.verdict = AggregateReport(signatures, timestamps).verdict
         /\ report.level = AggregateReport(signatures, timestamps).level

LegacyDigest == \E i \in DOMAIN sigs : sigs[i].facts.digest = "rsaSha1"

\* How far the validation of the file has come.
Progress ==
  /\ phase = "parse" => sigs = <<>>
  /\ sigs # <<>> => file.isPdf
  /\ phase \in {"aggregated", "closed", "done"} => Validated = Len(sigs)
  /\ phase \in {"aggregated", "closed"} => signatures # <<>> /\ file.checkRevocation
  /\ Collected(IF PassOver THEN "closed" ELSE "reported")

\* The stages run for the next dictionary, or rest.
AtWork ==
  IF phase = "validate"
  THEN Validated < Len(sigs) /\ doc = Facts(Validated + 1) /\ ReportInv
  ELSE pc = "coverage" /\ steps = <<>> /\ verdict = "none" /\ level = "unknown"

\* The second aggregation is not going to be better than the first.
NotBetter ==
  \/ Severity(AggregateReport(signatures, timestamps).verdict) >= Severity(report.verdict)
  \/ LegacyDigest

FileInv ==
  /\ FileTypeOK
  /\ Progress
  /\ AtWork
  /\ FileReported => Shown
  /\ PassOver => \A i \in SignaturePositions : OwnStatus(i)
  /\ phase = "closed" => NotBetter

-----------------------------------------------------------------------------
(* Counting positions.                                                     *)

LEMMA PositionsAreFinite ==
  ASSUME NEW N \in Nat, NEW P, P \subseteq 1..N
  PROVE  IsFiniteSet(P) /\ P \subseteq Nat \ {0} /\ CountTo(P, N) = Cardinality(P)
<1>1. IsFiniteSet(1..N)  BY FS_Interval
<1>2. IsFiniteSet(P)  BY <1>1, FS_Subset
<1>3. P \cap 1..N = P  OBVIOUS
<1> QED  BY <1>2, <1>3 DEF CountTo

LEMMA CountType ==
  ASSUME NEW P, IsFiniteSet(P), NEW i \in Nat
  PROVE  /\ IsFiniteSet(P \cap 1..i) /\ CountTo(P, i) \in Nat
         /\ Cardinality(P) \in Nat /\ CountTo(P, i) <= Cardinality(P)
<1>1. IsFiniteSet(P \cap 1..i) /\ Cardinality(P \cap 1..i) <= Cardinality(P)
  BY FS_Subset
<1> QED  BY <1>1, FS_CardinalityType DEF CountTo

LEMMA CountStart ==
  ASSUME NEW P
  PROVE  CountTo(P, 0) = 0
<1>1. P \cap 1..0 = {}  OBVIOUS
<1> QED  BY <1>1, FS_EmptySet DEF CountTo

LEMMA CountNext ==
  ASSUME NEW P, IsFiniteSet(P), NEW i \in Nat
  PROVE  CountTo(P, i + 1) = CountTo(P, i) + IF i + 1 \in P THEN 1 ELSE 0
<1>t. IsFiniteSet(P \cap 1..i) /\ CountTo(P, i) \in Nat  BY CountType
<1>1. CASE i + 1 \in P
  <2>1. P \cap 1..(i + 1) = (P \cap 1..i) \cup {i + 1}  BY <1>1
  <2>2. i + 1 \notin P \cap 1..i  OBVIOUS
  <2>3. Cardinality((P \cap 1..i) \cup {i + 1}) = Cardinality(P \cap 1..i) + 1
    BY <1>t, <2>2, FS_AddElement
  <2> QED  BY <1>1, <2>1, <2>3 DEF CountTo
<1>2. CASE i + 1 \notin P
  <2>1. P \cap 1..(i + 1) = P \cap 1..i  BY <1>2
  <2>2. CountTo(P, i + 1) = CountTo(P, i)  BY <2>1, Zenon DEF CountTo
  <2> QED  BY <1>t, <1>2, <2>2
<1> QED  BY <1>1, <1>2

\* Counts grow, and grow strictly up to one of the positions.
LEMMA CountGrows ==
  ASSUME NEW P, IsFiniteSet(P), NEW i \in Nat, NEW j \in Nat, i <= j
  PROVE  /\ CountTo(P, i) <= CountTo(P, j)
         /\ j \in P /\ i < j => CountTo(P, i) < CountTo(P, j)
<1>t. /\ IsFiniteSet(P \cap 1..j) /\ CountTo(P, j) \in Nat
      /\ IsFiniteSet(P \cap 1..i) /\ CountTo(P, i) \in Nat
  BY CountType
<1>1. P \cap 1..i \subseteq P \cap 1..j  OBVIOUS
<1>2. CountTo(P, i) <= CountTo(P, j)  BY <1>t, <1>1, FS_Subset DEF CountTo
<1>3. ASSUME j \in P, i < j PROVE CountTo(P, i) < CountTo(P, j)
  <2>1. P \cap 1..i # P \cap 1..j  BY <1>3
  <2>2. Cardinality(P \cap 1..i) # Cardinality(P \cap 1..j)
    BY <1>t, <1>1, <2>1, FS_Subset
  <2> QED  BY <1>t, <1>2, <2>2 DEF CountTo
<1> QED  BY <1>2, <1>3

\* No two positions have the same number.
LEMMA CountIsUnique ==
  ASSUME NEW P, IsFiniteSet(P), P \subseteq Nat \ {0}, NEW i \in P, NEW j \in P,
         CountTo(P, i) = CountTo(P, j)
  PROVE  i = j
<1>1. i \in Nat /\ j \in Nat  OBVIOUS
<1>2. CountTo(P, i) \in Nat  BY <1>1, CountType
<1>3. ~ (i < j)  BY <1>1, <1>2, CountGrows
<1>4. ~ (j < i)  BY <1>1, <1>2, CountGrows
<1> QED  BY <1>1, <1>3, <1>4

LEMMA CountOfPosition ==
  ASSUME NEW P, IsFiniteSet(P), P \subseteq Nat \ {0}, NEW i \in P
  PROVE  CountTo(P, i) \in 1..Cardinality(P)
<1>1. i \in Nat /\ 0 \in Nat /\ 0 < i  OBVIOUS
<1>2. CountTo(P, 0) < CountTo(P, i)  BY <1>1, CountGrows
<1>3. /\ CountTo(P, i) \in Nat /\ Cardinality(P) \in Nat
      /\ CountTo(P, i) <= Cardinality(P)
  BY <1>1, CountType
<1> QED  BY <1>2, <1>3, CountStart

\* Every number up to the count of a prefix belongs to a position in it: the
\* least prefix that counts as much ends with that position.
LEMMA PositionOfCount ==
  ASSUME NEW P, IsFiniteSet(P), NEW n \in Nat, NEW k \in 1..CountTo(P, n)
  PROVE  \E i \in P \cap 1..n : CountTo(P, i) = k
<1> DEFINE I == {i \in 0..n : k <= CountTo(P, i)}
<1>t. \A i \in Nat : CountTo(P, i) \in Nat  BY CountType
<1>1. n \in I /\ I \subseteq Nat  BY <1>t
<1>2. \E i \in I : \A j \in I : i <= j
  <2> HIDE DEF I
  <2> QED  BY <1>1, LeastNatural
<1>3. PICK i \in I : \A j \in I : i <= j  BY <1>2
<1>4. i \in Nat /\ i <= n /\ k <= CountTo(P, i) /\ k \in Nat /\ 1 <= k  BY <1>3
<1>5. i # 0  BY <1>4, CountStart
<1>6. i - 1 \in Nat /\ i - 1 \in 0..n  BY <1>4, <1>5
<1>7. i - 1 \notin I  BY <1>3, <1>4, <1>6
<1>8. ~ (k <= CountTo(P, i - 1))  BY <1>6, <1>7
<1>9. CountTo(P, i) = CountTo(P, i - 1) + IF i \in P THEN 1 ELSE 0
  <2>1. i = (i - 1) + 1  BY <1>4
  <2> QED  BY <1>6, <2>1, CountNext
<1> HIDE DEF I
<1>10. i \in P /\ CountTo(P, i) = k
  <2>1. CountTo(P, i - 1) \in Nat  BY <1>t, <1>6
  <2> QED  BY <1>4, <1>8, <1>9, <2>1
<1> QED  BY <1>4, <1>5, <1>10

-----------------------------------------------------------------------------
(* Picking elements.                                                       *)

\* The element of a position is found under its number.
LEMMA ElementOfPosition ==
  ASSUME NEW S, NEW s \in Seq(S), NEW P, P \subseteq DOMAIN s, NEW i \in P
  PROVE  ElementsAt(s, P)[CountTo(P, i)] = s[i]
<1>1. IsFiniteSet(P) /\ P \subseteq Nat \ {0}
  <2>1. Len(s) \in Nat /\ P \subseteq 1..Len(s)  OBVIOUS
  <2> QED  BY <2>1, PositionsAreFinite
<1> DEFINE k == CountTo(P, i)
           j == CHOOSE x \in P : Cardinality(P \cap 1..x) = k
<1>2. k \in 1..Cardinality(P)  BY <1>1, CountOfPosition
<1>3. ElementsAt(s, P)[k] = s[j]
  <2> HIDE DEF k
  <2> QED  BY <1>2 DEF ElementsAt
<1>4. j \in P /\ CountTo(P, j) = k
  <2>1. \E x \in P : Cardinality(P \cap 1..x) = k  BY DEF CountTo
  <2> HIDE DEF k
  <2> QED  BY <2>1, Zenon DEF CountTo
<1> HIDE DEF j
<1>5. j = i  BY <1>1, <1>4, CountIsUnique
<1> QED  BY <1>3, <1>5

LEMMA ElementsType ==
  ASSUME NEW S, NEW s \in Seq(S), NEW P, P \subseteq DOMAIN s
  PROVE  ElementsAt(s, P) \in Seq(S)
<1>1. Len(s) \in Nat /\ P \subseteq 1..Len(s)  OBVIOUS
<1>2. IsFiniteSet(P) /\ CountTo(P, Len(s)) = Cardinality(P)
  BY <1>1, PositionsAreFinite
<1>3. Cardinality(P) \in Nat  BY <1>2, FS_CardinalityType
<1>4. ASSUME NEW k \in 1..Cardinality(P) PROVE ElementsAt(s, P)[k] \in S
  <2>1. PICK i \in P \cap 1..Len(s) : CountTo(P, i) = k
    BY <1>1, <1>2, PositionOfCount
  <2>2. ElementsAt(s, P)[k] = s[i]  BY <2>1, ElementOfPosition
  <2> QED  BY <1>1, <2>2
<1>5. ElementsAt(s, P) = [k \in 1..Cardinality(P) |-> ElementsAt(s, P)[k]]
  BY DEF ElementsAt
<1> QED  BY <1>3, <1>4, <1>5, SeqDef

-----------------------------------------------------------------------------
(* Aggregating verdicts.                                                   *)

\* The verdicts a signature or a timestamp can have.
Given == {"valid", "warning", "inconclusive", "invalid", "error"}

LEMMA VerdictOrderIs ==
  /\ Len(VerdictOrder) = 6
  /\ VerdictOrder[1] = "error" /\ VerdictOrder[2] = "invalid"
  /\ VerdictOrder[3] = "inconclusive" /\ VerdictOrder[4] = "warning"
  /\ VerdictOrder[5] = "noSignatures" /\ VerdictOrder[6] = "valid"
BY DEF VerdictOrder

LEMMA SeverityIs ==
  /\ Severity("valid") = 0 /\ Severity("warning") = 1 /\ Severity("inconclusive") = 2
  /\ Severity("invalid") = 3 /\ Severity("error") = 3
BY DEF Severity

\* The verdict shown is one of those given, and none of them is more severe.
LEMMA AggregateVerdictIs ==
  ASSUME NEW V, V \subseteq Given, V # {}
  PROVE  /\ AggregateVerdict(V) \in V
         /\ \A v \in V : Severity(v) <= Severity(AggregateVerdict(V))
<1> DEFINE order == VerdictOrder
           I == {i \in 1..Len(order) : order[i] \in V}
<1>1. I \subseteq Nat /\ Len(order) = 6  BY VerdictOrderIs
<1>2. I # {}
  <2>1. PICK v \in V : v \in Given  OBVIOUS
  <2>2. \E i \in 1..6 : order[i] = v  BY <2>1, VerdictOrderIs DEF Given
  <2> HIDE DEF order
  <2> QED  BY <1>1, <2>2
<1>3. \E x \in I : \A y \in I : x <= y
  <2> HIDE DEF I
  <2> QED  BY <1>1, <1>2, LeastNatural
<1>4. Min(I) \in I /\ \A y \in I : Min(I) <= y
  <2> HIDE DEF I
  <2> QED  BY <1>3 DEF Min
<1>5. AggregateVerdict(V) = order[Min(I)]
  BY <1>2 DEF AggregateVerdict, First, SelectInSeq
<1> DEFINE m == Min(I)
<1>6. m \in 1..6 /\ order[m] \in V /\ \A y \in 1..6 : order[y] \in V => m <= y
  BY <1>1, <1>4
<1> HIDE DEF m, I, order
<1>7. ASSUME NEW v \in V PROVE Severity(v) <= Severity(order[m])
  <2>1. v \in Given  OBVIOUS
  <2>2. CASE v = "error"  BY <1>6, <2>2, VerdictOrderIs, SeverityIs DEF order
  <2>3. CASE v = "invalid"  BY <1>6, <2>3, VerdictOrderIs, SeverityIs DEF order
  <2>4. CASE v = "inconclusive"  BY <1>6, <2>4, VerdictOrderIs, SeverityIs DEF order
  <2>5. CASE v = "warning"  BY <1>6, <2>5, VerdictOrderIs, SeverityIs DEF order
  <2>6. CASE v = "valid"
    <3>1. order[m] \in Given  BY <1>6
    <3> QED  BY <2>6, <3>1, SeverityIs DEF Given
  <2> QED  BY <2>1, <2>2, <2>3, <2>4, <2>5, <2>6 DEF Given
<1> QED  BY <1>5, <1>6, <1>7 DEF m

-----------------------------------------------------------------------------
(* What a single report tells.                                             *)

\* The verdict shows whether everything speaks for the dictionary, and whether
\* the signature is broken.
LEMMA VerdictTells ==
  ASSUME NEW d, NEW stage \in {"reported", "closed"}, NEW r, Tells(d, stage, r)
  PROVE  /\ r.verdict \in Given
         /\ r.verdict = "valid" <=> Earned(d) /\ (stage = "closed" => d.revocation = "good")
         /\ r.verdict = "valid" => ~ Occurs(r.steps, ChainWarned)
         /\ d.kind = "signature" /\ ~ Intact(d) => Severity(r.verdict) >= 2
<1> DEFINE s == r.steps
           v == r.verdict
<1>t. ReportTells(d, stage, s, v, r.level) /\ s \in Seq(Step) /\ d \in Document
  BY DEF Tells, ReportTells
<1> HIDE DEF s, v
<1>1. /\ v \in Given
      /\ v = "valid" <=> Earned(d) /\ (stage = "closed" => d.revocation = "good")
      /\ v = "valid" => Clean(s)
  BY <1>t, ValidTells DEF Given
<1>2. Clean(s) => ~ Occurs(s, ChainWarned)
  BY <1>t, CleanIsIn, OccursIsIn DEF ChainWarned, Warned
<1>3. ASSUME d.kind = "signature", ~ Intact(d) PROVE Severity(v) >= 2
  <2>1. ~ Earned(d)  BY <1>3 DEF Earned
  <2>2. v # "warning"
    <3>1. VerdictFor(s) = "warning" => WarningEarned(d)  BY <1>t DEF ReportTells, Ordered
    <3>2. v = "warning" => VerdictFor(s) = "warning"  BY <1>t DEF ReportTells, VerdictOf
    <3> QED  BY <1>3, <3>1, <3>2 DEF WarningEarned
  <2> QED  BY <1>1, <2>1, <2>2, SeverityIs DEF Given
<1> QED  BY <1>1, <1>2, <1>3 DEF s, v

\* The level of a signature that may become archival.
LEMMA LevelTells ==
  ASSUME NEW d, NEW stage, NEW r, Tells(d, stage, r)
  PROVE  /\ r.level # "LTA"
         /\ r.level = "LT" => /\ Intact(d) /\ TimestampTrusted(d)
                              /\ OnlyLaterValidationData(d) /\ d.revocation = "good"
<1>1. d \in Document /\ r.level = LevelAt(d, stage)  BY DEF Tells, ReportTells
<1> QED  BY <1>1, BasisIs DEF LevelAt

\* A document timestamp the aggregation trusts is trusted and unmodified.
LEMMA TimestampTells ==
  ASSUME NEW d, NEW r, Tells(d, "reported", r), d.kind # "signature",
         DocumentTimestampTrusted(r)
  PROVE  TimestampTrusted(d) /\ d.modified = {}
<1> DEFINE s == r.steps
<1>t. StepsTell(d, "reported", StepsIn(s)) /\ s \in Seq(Step)
  BY DEF Tells, ReportTells
<1>1. ~ Occurs(s, Failed) /\ TrustedTimestampSteps(s)  BY DEF DocumentTimestampTrusted
<1> HIDE DEF s
<1>2. \A x \in StepsIn(s) : ~ LevelBlockingFailure(x)
  BY <1>1, OccursIsIn DEF LevelBlockingFailure, Failed
<1>3. BytesAreSigned(d)  BY <1>t, <1>2 DEF StepsTell, Unflawed
<1> QED  BY <1>t, <1>1, <1>3, TrustIsTold DEF BytesAreSigned

-----------------------------------------------------------------------------
(* The dictionaries and their facts.                                       *)

\* Where a dictionary stands changes its position only.
LEMMA PlacedIs ==
  ASSUME NEW list \in Seq(Dictionary), NEW i \in DOMAIN list
  PROVE  LET d == list[i].facts
             placed == Placed(list, i)
         IN  /\ d \in Document /\ placed \in Documents /\ placed \in Document
             /\ IsSignature(list[i]) <=> placed.kind = "signature"
             /\ IsTimestamp(list[i]) <=> placed.kind # "signature"
             /\ placed.digest = d.digest
             /\ \A so_far : RevocationStep(placed, so_far) = RevocationStep(d, so_far)
             /\ \A all, before : LevelAfterRevocation(placed, all, before)
                                   = LevelAfterRevocation(d, all, before)
<1> DEFINE d == list[i].facts
           placed == Placed(list, i)
<1>1. d \in Documents
  <2>1. list[i] \in Dictionary  BY ElementOfSeq
  <2> QED  BY <2>1 DEF Dictionary
<1>2. \E p \in {"last", "covered", "sibling"} : placed = [d EXCEPT !.position = p]
  BY DEF Placed
<1> HIDE DEF placed
<1>3. placed \in Documents /\ Documents \subseteq Document
  BY <1>1, <1>2, PositionsAssumption, DocumentsAssumption
<1>4. d \in Document /\ placed \in Document  BY <1>1, <1>3
<1>5. /\ placed.kind = d.kind /\ placed.digest = d.digest
      /\ placed.cmsParses = d.cmsParses /\ placed.signerInfos = d.signerInfos
      /\ placed.signerCertFound = d.signerCertFound /\ placed.revocation = d.revocation
      /\ placed.revokedAt = d.revokedAt /\ placed.token = d.token /\ placed.tstInfo = d.tstInfo
  BY <1>2, <1>4 DEF Document
<1>6. d.kind \in {"signature", "documentTimestamp"}  BY <1>4 DEF Document
<1>7. /\ IsSignature(list[i]) <=> placed.kind = "signature"
      /\ IsTimestamp(list[i]) <=> placed.kind # "signature"
  BY <1>5, <1>6 DEF IsSignature, IsTimestamp
<1> HIDE DEF d
<1>8. ASSUME NEW so_far PROVE RevocationStep(placed, so_far) = RevocationStep(d, so_far)
  BY <1>5 DEF RevocationStep, SignerCertificateAvailable, RevokedLater, TokenTimeKnown
<1>9. ASSUME NEW all, NEW before
      PROVE  LevelAfterRevocation(placed, all, before) = LevelAfterRevocation(d, all, before)
  BY <1>5 DEF LevelAfterRevocation, SignerCertificateAvailable
<1> QED  BY <1>3, <1>4, <1>5, <1>7, <1>8, <1>9 DEF placed, d

LEMMA FactsType ==
  ASSUME FileTypeOK, NEW i \in DOMAIN sigs
  PROVE  /\ Facts(i) \in Documents /\ Facts(i) \in Document
         /\ i \in SignaturePositions <=> Facts(i).kind = "signature"
         /\ i \in TimestampPositions <=> Facts(i).kind # "signature"
         /\ IsSignature(sigs[i]) <=> i \in SignaturePositions
         /\ IsTimestamp(sigs[i]) <=> i \in TimestampPositions
         /\ i \in SignaturePositions <=> i \notin TimestampPositions
         /\ Facts(i).digest = sigs[i].facts.digest
BY PlacedIs DEF FileTypeOK, Facts, SignaturePositions, TimestampPositions

LEMMA PositionsType ==
  ASSUME FileTypeOK
  PROVE  /\ Len(sigs) \in Nat /\ DOMAIN sigs = 1..Len(sigs)
         /\ SignaturePositions \subseteq 1..Len(sigs) /\ TimestampPositions \subseteq 1..Len(sigs)
         /\ IsFiniteSet(SignaturePositions) /\ SignaturePositions \subseteq Nat \ {0}
         /\ IsFiniteSet(TimestampPositions) /\ TimestampPositions \subseteq Nat \ {0}
         /\ Validated \in Nat
<1>1. Len(sigs) \in Nat /\ DOMAIN sigs = 1..Len(sigs)  BY DEF FileTypeOK
<1>2. SignaturePositions \subseteq 1..Len(sigs) /\ TimestampPositions \subseteq 1..Len(sigs)
  BY <1>1 DEF SignaturePositions, TimestampPositions
<1>3. Validated \in Nat  BY DEF Validated, FileTypeOK
<1> QED  BY <1>1, <1>2, <1>3, PositionsAreFinite

\* Every report is about one of the dictionaries, and every dictionary that is
\* validated has its report.
LEMMA ReportsMeet ==
  ASSUME FileTypeOK, NEW stage, Collected(stage)
  PROVE  /\ \A k \in 1..Len(signatures) :
              \E i \in SignaturePositions \cap 1..Validated :
                CountTo(SignaturePositions, i) = k /\ Tells(Facts(i), stage, signatures[k])
         /\ \A k \in 1..Len(timestamps) :
              \E i \in TimestampPositions \cap 1..Validated :
                CountTo(TimestampPositions, i) = k /\ Tells(Facts(i), "reported", timestamps[k])
         /\ \A i \in SignaturePositions \cap 1..Validated :
              CountTo(SignaturePositions, i) \in 1..Len(signatures)
         /\ \A i \in TimestampPositions \cap 1..Validated :
              CountTo(TimestampPositions, i) \in 1..Len(timestamps)
<1>t. /\ IsFiniteSet(SignaturePositions) /\ SignaturePositions \subseteq Nat \ {0}
      /\ IsFiniteSet(TimestampPositions) /\ TimestampPositions \subseteq Nat \ {0}
      /\ Validated \in Nat
  BY PositionsType
<1>c. /\ Len(signatures) = CountTo(SignaturePositions, Validated)
      /\ Len(timestamps) = CountTo(TimestampPositions, Validated)
      /\ \A i \in SignaturePositions \cap 1..Validated :
           Tells(Facts(i), stage, signatures[CountTo(SignaturePositions, i)])
      /\ \A i \in TimestampPositions \cap 1..Validated :
           Tells(Facts(i), "reported", timestamps[CountTo(TimestampPositions, i)])
  BY DEF Collected
<1>1. ASSUME NEW k \in 1..Len(signatures)
      PROVE  \E i \in SignaturePositions \cap 1..Validated :
               CountTo(SignaturePositions, i) = k /\ Tells(Facts(i), stage, signatures[k])
  <2>1. PICK i \in SignaturePositions \cap 1..Validated : CountTo(SignaturePositions, i) = k
    BY <1>t, <1>c, PositionOfCount
  <2> QED  BY <1>c, <2>1
<1>2. ASSUME NEW k \in 1..Len(timestamps)
      PROVE  \E i \in TimestampPositions \cap 1..Validated :
               CountTo(TimestampPositions, i) = k /\ Tells(Facts(i), "reported", timestamps[k])
  <2>1. PICK i \in TimestampPositions \cap 1..Validated : CountTo(TimestampPositions, i) = k
    BY <1>t, <1>c, PositionOfCount
  <2> QED  BY <1>c, <2>1
<1>3. ASSUME NEW P, IsFiniteSet(P), P \subseteq Nat \ {0}, NEW i \in P \cap 1..Validated
      PROVE  CountTo(P, i) \in 1..CountTo(P, Validated)
  <2>1. i \in Nat /\ i <= Validated /\ 0 < i  BY <1>t
  <2>2. CountTo(P, 0) < CountTo(P, i) /\ CountTo(P, i) <= CountTo(P, Validated)
    BY <1>3, <1>t, <2>1, CountGrows
  <2>3. CountTo(P, i) \in Nat /\ CountTo(P, Validated) \in Nat
    BY <1>3, <1>t, <2>1, CountType
  <2> QED  BY <2>2, <2>3, CountStart
<1> QED  BY <1>t, <1>c, <1>1, <1>2, <1>3

-----------------------------------------------------------------------------
(* The aggregated report.                                                  *)

\* The verdict is one of those that are aggregated and none of them is more
\* severe; the level is that of the last signature, or archival.
LEMMA AggregateIs ==
  ASSUME NEW sr \in Seq(SignatureReport), NEW tr \in Seq(SignatureReport), sr # <<>>,
         \A k \in 1..Len(sr) : sr[k].verdict \in Given,
         \A k \in 1..Len(tr) : tr[k].verdict \in Given
  PROVE  LET a == AggregateReport(sr, tr)
             chainDoubted == SignerChainInconclusive(sr)
         IN  /\ \/ \E k \in 1..Len(sr) : a.verdict = sr[k].verdict
                \/ ~ chainDoubted /\ \E k \in 1..Len(tr) : a.verdict = tr[k].verdict
             /\ \A k \in 1..Len(sr) : Severity(sr[k].verdict) <= Severity(a.verdict)
             /\ ~ chainDoubted =>
                  \A k \in 1..Len(tr) : Severity(tr[k].verdict) <= Severity(a.verdict)
             /\ a.verdict \in Given
             /\ a.level = "LTA" /\ sr[Len(sr)].level # "LTA" =>
                  /\ sr[Len(sr)].level = "LT"
                  /\ \E k \in 1..Len(tr) : DocumentTimestampTrusted(tr[k])
<1> DEFINE a == AggregateReport(sr, tr)
           considered == VerdictReports(sr, tr)
           V == {considered[k].verdict : k \in 1..Len(considered)}
           chainDoubted == SignerChainInconclusive(sr)
<1>t. /\ Len(sr) \in Nat /\ Len(sr) > 0 /\ Len(tr) \in Nat
      /\ Len(sr \o tr) = Len(sr) + Len(tr)
      /\ \A k \in 1..Len(sr) : (sr \o tr)[k] = sr[k]
      /\ \A k \in 1..Len(tr) : (sr \o tr)[Len(sr) + k] = tr[k]
  BY ConcatProperties
<1>v. a.verdict = AggregateVerdict(V)  BY DEF AggregateReport
<1>l. a.level = IF sr[Len(sr)].level = "LT" /\ \E k \in 1..Len(tr) : DocumentTimestampTrusted(tr[k])
                THEN "LTA" ELSE sr[Len(sr)].level
  BY DEF AggregateReport, Last, Occurs
<1>c. /\ chainDoubted => considered = sr
      /\ ~ chainDoubted => considered = sr \o tr
  BY DEF VerdictReports
<1> HIDE DEF a, considered, chainDoubted
<1>1. \A k \in 1..Len(sr) : sr[k].verdict \in V
  <2> SUFFICES ASSUME NEW k \in 1..Len(sr) PROVE sr[k].verdict \in V
    OBVIOUS
  <2>1. k \in 1..Len(considered) /\ considered[k] = sr[k]  BY <1>t, <1>c
  <2> QED  BY <2>1
<1>2. ~ chainDoubted => \A k \in 1..Len(tr) : tr[k].verdict \in V
  <2> SUFFICES ASSUME ~ chainDoubted, NEW k \in 1..Len(tr) PROVE tr[k].verdict \in V
    OBVIOUS
  <2>1. Len(sr) + k \in 1..Len(considered) /\ considered[Len(sr) + k] = tr[k]  BY <1>t, <1>c
  <2> QED  BY <2>1
<1>3. ASSUME NEW v \in V
      PROVE  \/ \E k \in 1..Len(sr) : v = sr[k].verdict
             \/ ~ chainDoubted /\ \E k \in 1..Len(tr) : v = tr[k].verdict
  <2>1. PICK k \in 1..Len(considered) : v = considered[k].verdict  OBVIOUS
  <2>2. CASE k \in 1..Len(sr)
    <3>1. considered[k] = sr[k]  BY <1>t, <1>c, <2>2
    <3> QED  BY <2>1, <2>2, <3>1
  <2>3. CASE k \notin 1..Len(sr)
    <3>1. ~ chainDoubted /\ considered = sr \o tr  BY <1>t, <1>c, <2>3
    <3>2. k - Len(sr) \in 1..Len(tr) /\ Len(sr) + (k - Len(sr)) = k
      BY <1>t, <2>3, <3>1
    <3>3. considered[k] = tr[k - Len(sr)]  BY <1>t, <3>1, <3>2
    <3> QED  BY <2>1, <3>1, <3>2, <3>3
  <2> QED  BY <2>2, <2>3
<1> HIDE DEF V
<1>4. V \subseteq Given  BY <1>3
<1>5. V # {}  BY <1>1, <1>t
<1>6. a.verdict \in V /\ \A v \in V : Severity(v) <= Severity(a.verdict)
  BY <1>4, <1>5, <1>v, AggregateVerdictIs
<1> QED  BY <1>1, <1>2, <1>3, <1>4, <1>6, <1>l DEF a, chainDoubted

\* The reports of all signatures: there is one, and its dictionary is the last
\* of a signature.
LEMMA LastReport ==
  ASSUME FileTypeOK, NEW stage, Collected(stage), Validated = Len(sigs), signatures # <<>>
  PROVE  \E i \in SignaturePositions :
           /\ \A j \in i + 1..Len(sigs) : j \notin SignaturePositions
           /\ Tells(Facts(i), stage, signatures[Len(signatures)])
<1>t. /\ IsFiniteSet(SignaturePositions) /\ SignaturePositions \subseteq Nat \ {0}
      /\ Len(sigs) \in Nat
  BY PositionsType
<1>1. Len(signatures) \in Nat /\ Len(signatures) > 0  BY DEF FileTypeOK
<1>2. Len(signatures) \in 1..Len(signatures)  BY <1>1
<1>3. PICK i \in SignaturePositions \cap 1..Validated :
        CountTo(SignaturePositions, i) = Len(signatures)
          /\ Tells(Facts(i), stage, signatures[Len(signatures)])
  BY <1>2, ReportsMeet
<1>4. ASSUME NEW j \in i + 1..Len(sigs), j \in SignaturePositions PROVE FALSE
  <2>1. i \in Nat /\ j \in Nat /\ i < j /\ j \in 1..Validated  BY <1>t, <1>4
  <2>2. CountTo(SignaturePositions, i) < CountTo(SignaturePositions, j)
    BY <1>t, <1>4, <2>1, CountGrows
  <2>3. CountTo(SignaturePositions, j) \in 1..Len(signatures)
    BY <1>4, <2>1, ReportsMeet
  <2> QED  BY <1>1, <1>3, <2>2, <2>3
<1> QED  BY <1>3, <1>4

-----------------------------------------------------------------------------
(* Every step keeps the invariant.                                         *)

\* What is about the dictionaries stays as they stay.
LEMMA Kept ==
  ASSUME sigs' = sigs
  PROVE  /\ SignaturePositions' = SignaturePositions
         /\ TimestampPositions' = TimestampPositions
         /\ \A i : Facts(i)' = Facts(i)
         /\ LegacyDigest' = LegacyDigest
BY DEF SignaturePositions, TimestampPositions, Facts, LegacyDigest

LEMMA KeptCollected ==
  ASSUME UNCHANGED <<sigs, signatures, timestamps>>, NEW CONSTANT stage, Collected(stage)
  PROVE  Collected(stage)'
BY Kept DEF Collected, Validated

\* Before the dictionaries are filtered there are no reports.
LEMMA NothingYet ==
  ASSUME FileInv, sigs = <<>>
  PROVE  /\ SignaturePositions = {} /\ TimestampPositions = {}
         /\ signatures = <<>> /\ timestamps = <<>> /\ Validated = 0
         /\ \A stage : Collected(stage)
<1>1. SignaturePositions = {} /\ TimestampPositions = {}
  BY DEF SignaturePositions, TimestampPositions
<1>2. PICK stage : Collected(stage)  BY DEF FileInv, Progress
<1>3. \A n : CountTo({}, n) = 0  BY FS_EmptySet DEF CountTo
<1>4. Len(signatures) = 0 /\ Len(timestamps) = 0 /\ Len(sigs) = 0
  BY <1>1, <1>2, <1>3 DEF Collected
<1>5. signatures = <<>> /\ timestamps = <<>>  BY <1>4 DEF FileInv, FileTypeOK
<1>6. Validated = 0  BY <1>4 DEF Validated
<1>7. ASSUME NEW s PROVE Collected(s)
  BY <1>1, <1>3, <1>4, <1>6 DEF Collected
<1> QED  BY <1>1, <1>5, <1>6, <1>7

LEMMA StepReportIs ==
  ASSUME NEW step, NEW with
  PROVE  StepReport(step, with).verdict = with /\ StepReport(step, with).level = "unknown"
BY DEF StepReport

\* The validation ends without a report of a signature.
LEMMA ConcludeKeeps ==
  ASSUME FileInv, signatures = <<>>, Validated = Len(sigs), phase \in {"parse", "load"},
         NEW with, Conclude(with),
         with.verdict \in {"error", "invalid", "noSignatures"}, with.level = "unknown"
  PROVE  FileInv'
<1>u. /\ report' = with /\ phase' = "done"
      /\ UNCHANGED <<file, sigs, signatures, timestamps, doc, pc, steps, verdict, level>>
  BY DEF Conclude, vars
<1>p. ~ PassOver /\ Collected("reported")  BY DEF PassOver, AllClosed, FileInv, Progress
<1>1. SignaturePositions = {}
  <2>1. SignaturePositions \cap 1..Validated = {}
    <3>1. Len(signatures) = 0  OBVIOUS
    <3> QED  BY <1>p, <3>1, ReportsMeet DEF FileInv
  <2> QED  BY <2>1, PositionsType DEF FileInv
<1>2. Collected("closed")  BY <1>1, <1>p DEF Collected
<1>3. Collected("closed")' /\ Collected("reported")'  BY <1>2, <1>p, <1>u, KeptCollected
<1>4. FileTypeOK'  BY <1>u DEF FileInv, FileTypeOK, Phases
<1>5. Progress'
  <2>1. (sigs # <<>> => file.isPdf)' /\ (Validated = Len(sigs))'
    BY <1>u DEF FileInv, Progress, Validated
  <2> QED  BY <1>u, <1>3, <2>1 DEF Progress
<1>6. AtWork'  BY <1>u DEF FileInv, AtWork
<1>7. Shown'  BY <1>u DEF Shown
<1>8. SignaturePositions' = {}  BY <1>1, <1>u, Kept
<1> QED  BY <1>u, <1>4, <1>5, <1>6, <1>7, <1>8 DEF FileInv

LEMMA RejectKeeps ==
  ASSUME FileInv, RejectFile \/ ReportUnsigned
  PROVE  FileInv'
<1>1. phase = "parse" /\ sigs = <<>>  BY DEF RejectFile, ReportUnsigned, FileInv, Progress
<1>2. signatures = <<>> /\ Validated = Len(sigs)  BY <1>1, NothingYet
<1>3. \E step, with : with \in {"error", "invalid", "noSignatures"} /\ Conclude(StepReport(step, with))
  BY DEF RejectFile, ReportUnsigned
<1>4. PICK step, with : with \in {"error", "invalid", "noSignatures"} /\ Conclude(StepReport(step, with))
  BY <1>3
<1> QED  BY <1>1, <1>2, <1>4, StepReportIs, ConcludeKeeps

LEMMA UsableType ==
  ASSUME NEW list \in Seq(Dictionary)
  PROVE  Usable(list) \in Seq(Dictionary)
BY ElementsType DEF Usable

LEMMA FindKeeps ==
  ASSUME FileInv, FindSignatures
  PROVE  FileInv'
<1>u. /\ phase = "parse" /\ phase' = "load" /\ sigs' = Usable(file.dictionaries)
      /\ UNCHANGED <<file, signatures, timestamps, report, doc, pc, steps, verdict, level>>
      /\ file.isPdf /\ sigs = <<>>
  BY DEF FindSignatures, vars, FileInv, Progress
<1>1. signatures = <<>> /\ timestamps = <<>>  BY <1>u, NothingYet
<1>2. sigs' \in Seq(Dictionary)
  <2>1. file \in File  BY FilesAssumption DEF FileInv, FileTypeOK
  <2>2. file.dictionaries \in Seq(Dictionary)  BY <2>1 DEF File
  <2> QED  BY <1>u, <2>2, UsableType
<1>3. FileTypeOK'  BY <1>u, <1>2 DEF FileInv, FileTypeOK, Phases
<1>4. Validated' = 0 /\ Len(signatures') = 0 /\ Len(timestamps') = 0
  BY <1>u, <1>1 DEF Validated
<1>5. Collected("reported")'
  <2>1. (CountTo(SignaturePositions, Validated) = 0)' /\ (CountTo(TimestampPositions, Validated) = 0)'
    BY <1>4, CountStart
  <2>2. Len(sigs') \in Nat  BY <1>2
  <2> QED  BY <1>4, <2>1, <2>2 DEF Collected
<1>6. ~ PassOver'  BY <1>u DEF PassOver, AllClosed
<1>7. Progress'  BY <1>u, <1>5, <1>6 DEF Progress
<1>8. AtWork'  BY <1>u DEF FileInv, AtWork
<1> QED  BY <1>u, <1>3, <1>6, <1>7, <1>8 DEF FileInv, FileReported

LEMMA LoadKeeps ==
  ASSUME FileInv, LoadDictionary
  PROVE  FileInv'
<1>u. /\ phase = "load" /\ phase' = "validate" /\ Validated < Len(sigs)
      /\ doc' = Facts(Validated + 1)
      /\ UNCHANGED <<file, sigs, signatures, timestamps, report, pc, steps, verdict, level>>
  BY DEF LoadDictionary, Facts
<1>1. ReportInv'
  <2>1. Validated + 1 \in DOMAIN sigs  BY <1>u, PositionsType DEF FileInv
  <2>2. doc' \in Documents  BY <1>u, <2>1, FactsType DEF FileInv
  <2>3. Init'  BY <1>u, <2>2 DEF FileInv, AtWork, Init
  <2>4. Init' => ReportInv'  BY ReportInit, PTL
  <2> QED  BY <2>3, <2>4
<1>2. ~ PassOver /\ ~ PassOver'  BY <1>u DEF PassOver, AllClosed
<1>3. Collected("reported")'  BY <1>u, <1>2, KeptCollected DEF FileInv, Progress
<1>4. FileTypeOK'  BY <1>u DEF FileInv, FileTypeOK, Phases
<1>5. Progress'  BY <1>u, <1>2, <1>3 DEF FileInv, Progress
<1>6. AtWork'
  <2>1. Validated' = Validated  BY <1>u DEF Validated
  <2> QED  BY <1>u, <1>1, <2>1, Kept DEF AtWork
<1> QED  BY <1>u, <1>2, <1>4, <1>5, <1>6 DEF FileInv, FileReported

LEMMA StageKeepsDocument == ValidateStage => doc' = doc
<1>1. \A stage, new : Continue(stage, new) => doc' = doc  BY DEF Continue
<1>2. \A new, with : MakeReport(new, with) => doc' = doc  BY DEF MakeReport
<1>3. \A new : Return(new) => doc' = doc  BY <1>2 DEF Return
<1>4. CheckByteRangeCoverage => doc' = doc  BY <1>1, <1>2 DEF CheckByteRangeCoverage
<1>5. CheckLaterRevisions => doc' = doc  BY <1>1 DEF CheckLaterRevisions
<1>6. ParseCms => doc' = doc  BY <1>1, <1>2 DEF ParseCms
<1>7. CheckBaselineStructure => doc' = doc  BY <1>1, <1>2 DEF CheckBaselineStructure
<1>8. CheckMessageDigest => doc' = doc
  <2>1. CASE doc.digest # "supported"  BY <1>2, <2>1, Zenon DEF CheckMessageDigest
  <2>2. CASE doc.digest = "supported"  BY <1>1, <1>2, <2>2, Zenon DEF CheckMessageDigest
  <2> QED  BY <2>1, <2>2
<1>9. VerifySignatureValue => doc' = doc  BY <1>1, <1>3 DEF VerifySignatureValue
<1>10. BuildSignerChain \/ CheckKeyUsage \/ VerifySignatureTimestamp => doc' = doc
  BY <1>1 DEF BuildSignerChain, CheckKeyUsage, VerifySignatureTimestamp
<1>11. CheckSignerValidity \/ CheckTokenTrust => doc' = doc
  BY <1>3 DEF CheckSignerValidity, CheckTokenTrust
<1>12. ParseDocumentTimestamp => doc' = doc  BY <1>1, <1>2 DEF ParseDocumentTimestamp
<1>13. CheckDocumentImprint \/ VerifyTokenSignature => doc' = doc
  BY <1>1, <1>2 DEF CheckDocumentImprint, VerifyTokenSignature
<1> QED
  BY <1>4, <1>5, <1>6, <1>7, <1>8, <1>9, <1>10, <1>11, <1>12, <1>13 DEF ValidateStage

LEMMA ValidateKeeps ==
  ASSUME FileInv, ValidateDictionary
  PROVE  FileInv'
<1>u. /\ phase = "validate" /\ ValidateStage
      /\ UNCHANGED <<file, phase, sigs, signatures, timestamps, report>>
  BY DEF ValidateDictionary
<1>1. ReportInv'
  <2>1. ReportInv  BY <1>u DEF FileInv, AtWork
  <2> QED  BY <1>u, <2>1, ReportStep DEF Next
<1>2. ~ PassOver /\ ~ PassOver'  BY <1>u DEF PassOver, AllClosed
<1>3. Collected("reported")'  BY <1>u, <1>2, KeptCollected DEF FileInv, Progress
<1>4. FileTypeOK'  BY <1>u DEF FileInv, FileTypeOK
<1>5. Progress'  BY <1>u, <1>2, <1>3 DEF FileInv, Progress
<1>6. AtWork'
  <2>1. Validated' = Validated  BY <1>u DEF Validated
  <2>2. doc' = doc  BY <1>u, StageKeepsDocument
  <2>3. Validated < Len(sigs) /\ doc = Facts(Validated + 1)  BY <1>u DEF FileInv, AtWork
  <2> QED  BY <1>u, <1>1, <2>1, <2>2, <2>3, Kept DEF AtWork
<1> QED  BY <1>u, <1>2, <1>4, <1>5, <1>6 DEF FileInv, FileReported

\* The next position gets the next number.
LEMMA NextPosition ==
  ASSUME NEW P, IsFiniteSet(P), P \subseteq Nat \ {0}, NEW n \in Nat, n + 1 \in P
  PROVE  /\ CountTo(P, n + 1) = CountTo(P, n) + 1
         /\ \A i \in P \cap 1..n : CountTo(P, i) \in 1..CountTo(P, n)
<1>1. CountTo(P, n + 1) = CountTo(P, n) + 1  BY CountNext
<1>2. CountTo(P, n) \in Nat  BY CountType
<1>3. ASSUME NEW i \in P \cap 1..n PROVE CountTo(P, i) \in 1..CountTo(P, n)
  <2>1. i \in Nat /\ i <= n  OBVIOUS
  <2>2. CountTo(P, i) <= CountTo(P, n)  BY <2>1, CountGrows
  <2>3. CountTo(P, i) \in 1..Cardinality(P)  BY CountOfPosition
  <2>4. Cardinality(P) \in Nat  BY FS_CardinalityType
  <2> QED  BY <1>2, <2>2, <2>3, <2>4
<1> QED  BY <1>1, <1>3

LEMMA SkippedReport ==
  ASSUME NEW P, IsFiniteSet(P), NEW n \in Nat, n + 1 \notin P
  PROVE  CountTo(P, n + 1) = CountTo(P, n) /\ P \cap 1..(n + 1) = P \cap 1..n
<1>1. CountTo(P, n) \in Nat  BY CountType
<1>2. CountTo(P, n + 1) = CountTo(P, n)  BY <1>1, CountNext
<1>3. P \cap 1..(n + 1) = P \cap 1..n  OBVIOUS
<1> QED  BY <1>2, <1>3

LEMMA CollectKeeps ==
  ASSUME FileInv, CollectReport
  PROVE  FileInv'
<1> DEFINE r == SignatureReportOf(steps, verdict, level)
           i == Validated + 1
<1>u. /\ phase = "validate" /\ pc = "reported" /\ phase' = "load"
      /\ UNCHANGED <<file, sigs, report>>
      /\ pc' = "coverage" /\ steps' = <<>> /\ verdict' = "none" /\ level' = "unknown"
  BY DEF CollectReport, ClearStages
<1>w. Validated < Len(sigs) /\ doc = Facts(i) /\ ReportInv
  BY <1>u DEF FileInv, AtWork
<1>t. /\ IsFiniteSet(SignaturePositions) /\ SignaturePositions \subseteq Nat \ {0}
      /\ IsFiniteSet(TimestampPositions) /\ TimestampPositions \subseteq Nat \ {0}
      /\ Validated \in Nat /\ Len(sigs) \in Nat /\ i \in DOMAIN sigs
      /\ signatures \in Seq(SignatureReport) /\ timestamps \in Seq(SignatureReport)
  BY <1>w, PositionsType DEF FileInv, FileTypeOK
<1>f. /\ i \in SignaturePositions <=> doc.kind = "signature"
      /\ i \in TimestampPositions <=> doc.kind # "signature"
  BY <1>t, <1>w, FactsType DEF FileInv
<1>p. ~ PassOver /\ ~ PassOver'  BY <1>u DEF PassOver, AllClosed
<1>c. Collected("reported")  BY <1>p DEF FileInv, Progress
<1>1. r \in SignatureReport
  BY <1>w DEF ReportInv, CleanInv, TypeOK, SignatureReport
<1>2. Tells(doc, "reported", r)
  <2>1. ReportTells(doc, "reported", steps, verdict, level)
    BY <1>u, <1>w, ReportInvTells DEF Reported
  <2>2. r.steps = steps /\ r.verdict = verdict /\ r.level = level  BY DEF SignatureReportOf
  <2> HIDE DEF r
  <2> QED  BY <2>1, <2>2 DEF Tells
<1>b. IF doc.kind = "signature"
      THEN signatures' = Append(signatures, r) /\ timestamps' = timestamps
      ELSE timestamps' = Append(timestamps, r) /\ signatures' = signatures
  BY DEF CollectReport
<1> HIDE DEF r
<1>3. /\ FileTypeOK' /\ Collected("reported")'
  <2>k. /\ SignaturePositions' = SignaturePositions /\ TimestampPositions' = TimestampPositions
        /\ \A j : Facts(j)' = Facts(j)
    BY <1>u, Kept
  <2>1. CASE doc.kind = "signature"
    <3>1. /\ signatures' \in Seq(SignatureReport) /\ timestamps' = timestamps
          /\ Len(signatures') = Len(signatures) + 1
          /\ Len(signatures') = CountTo(SignaturePositions, i)
          /\ signatures'[CountTo(SignaturePositions, i)] = r
          /\ \A j \in SignaturePositions \cap 1..Validated :
               signatures'[CountTo(SignaturePositions, j)] = signatures[CountTo(SignaturePositions, j)]
      <4>1. Len(signatures) = CountTo(SignaturePositions, Validated)  BY <1>c DEF Collected
      <4>2. Validated + 1 \in SignaturePositions  BY <1>f, <2>1
      <4>3. signatures' = Append(signatures, r) /\ timestamps' = timestamps  BY <1>b, <2>1
      <4>4. Validated \in Nat  BY <1>t
      <4>5. Len(signatures) \in Nat  BY <1>t
      <4>6. /\ Append(signatures, r) \in Seq(SignatureReport)
            /\ Len(Append(signatures, r)) = Len(signatures) + 1
            /\ Len(Append(signatures, r)) = CountTo(SignaturePositions, Validated + 1)
            /\ Append(signatures, r)[CountTo(SignaturePositions, Validated + 1)] = r
            /\ \A j \in SignaturePositions \cap 1..Validated :
                 Append(signatures, r)[CountTo(SignaturePositions, j)] = signatures[CountTo(SignaturePositions, j)]
        <5>1. /\ CountTo(SignaturePositions, Validated + 1) = CountTo(SignaturePositions, Validated) + 1
              /\ \A j \in SignaturePositions \cap 1..Validated :
                   CountTo(SignaturePositions, j) \in 1..CountTo(SignaturePositions, Validated)
          BY <1>t, <4>2, <4>4, NextPosition
        <5> QED  BY <1>t, <1>1, <4>1, <4>5, <5>1
      <4> QED  BY <4>3, <4>6
    <3>2. /\ CountTo(TimestampPositions, i) = CountTo(TimestampPositions, Validated)
          /\ TimestampPositions \cap 1..i = TimestampPositions \cap 1..Validated
      BY <1>t, <1>f, <2>1, SkippedReport
    <3>3. Validated' = i  BY <1>t, <3>1 DEF Validated
    <3>4. ASSUME NEW j \in SignaturePositions \cap 1..i
          PROVE  Tells(Facts(j), "reported", signatures'[CountTo(SignaturePositions, j)])
      <4>1. CASE j = i  BY <1>2, <1>w, <3>1, <4>1
      <4>2. CASE j # i
        <5>1. j \in SignaturePositions \cap 1..Validated  BY <1>t, <4>2
        <5> QED  BY <1>c, <3>1, <5>1 DEF Collected
      <4> QED  BY <4>1, <4>2
    <3>5. i <= Len(sigs)  BY <1>t, <1>w
    <3> HIDE DEF i
    <3>6. FileTypeOK'  BY <1>u, <1>t, <3>1 DEF FileInv, FileTypeOK, Phases
    <3>7. Collected("reported")'
      BY <1>u, <1>c, <2>k, <3>1, <3>2, <3>3, <3>4, <3>5 DEF Collected
    <3> QED  BY <3>6, <3>7
  <2>2. CASE doc.kind # "signature"
    <3>1. /\ timestamps' \in Seq(SignatureReport) /\ signatures' = signatures
          /\ Len(timestamps') = Len(timestamps) + 1
          /\ Len(timestamps') = CountTo(TimestampPositions, i)
          /\ timestamps'[CountTo(TimestampPositions, i)] = r
          /\ \A j \in TimestampPositions \cap 1..Validated :
               timestamps'[CountTo(TimestampPositions, j)] = timestamps[CountTo(TimestampPositions, j)]
      <4>1. Len(timestamps) = CountTo(TimestampPositions, Validated)  BY <1>c DEF Collected
      <4>2. Validated + 1 \in TimestampPositions  BY <1>f, <2>2
      <4>3. timestamps' = Append(timestamps, r) /\ signatures' = signatures  BY <1>b, <2>2
      <4>4. Validated \in Nat  BY <1>t
      <4>5. Len(timestamps) \in Nat  BY <1>t
      <4>6. /\ Append(timestamps, r) \in Seq(SignatureReport)
            /\ Len(Append(timestamps, r)) = Len(timestamps) + 1
            /\ Len(Append(timestamps, r)) = CountTo(TimestampPositions, Validated + 1)
            /\ Append(timestamps, r)[CountTo(TimestampPositions, Validated + 1)] = r
            /\ \A j \in TimestampPositions \cap 1..Validated :
                 Append(timestamps, r)[CountTo(TimestampPositions, j)] = timestamps[CountTo(TimestampPositions, j)]
        <5>1. /\ CountTo(TimestampPositions, Validated + 1) = CountTo(TimestampPositions, Validated) + 1
              /\ \A j \in TimestampPositions \cap 1..Validated :
                   CountTo(TimestampPositions, j) \in 1..CountTo(TimestampPositions, Validated)
          BY <1>t, <4>2, <4>4, NextPosition
        <5> QED  BY <1>t, <1>1, <4>1, <4>5, <5>1
      <4> QED  BY <4>3, <4>6
    <3>2. /\ CountTo(SignaturePositions, i) = CountTo(SignaturePositions, Validated)
          /\ SignaturePositions \cap 1..i = SignaturePositions \cap 1..Validated
      BY <1>t, <1>f, <2>2, SkippedReport
    <3>3. Validated' = i  BY <1>t, <3>1 DEF Validated
    <3>4. ASSUME NEW j \in TimestampPositions \cap 1..i
          PROVE  Tells(Facts(j), "reported", timestamps'[CountTo(TimestampPositions, j)])
      <4>1. CASE j = i  BY <1>2, <1>w, <3>1, <4>1
      <4>2. CASE j # i
        <5>1. j \in TimestampPositions \cap 1..Validated  BY <1>t, <4>2
        <5> QED  BY <1>c, <3>1, <5>1 DEF Collected
      <4> QED  BY <4>1, <4>2
    <3>5. i <= Len(sigs)  BY <1>t, <1>w
    <3> HIDE DEF i
    <3>6. FileTypeOK'  BY <1>u, <1>t, <3>1 DEF FileInv, FileTypeOK, Phases
    <3>7. Collected("reported")'
      BY <1>u, <1>c, <2>k, <3>1, <3>2, <3>3, <3>4, <3>5 DEF Collected
    <3> QED  BY <3>6, <3>7
  <2> QED  BY <2>1, <2>2
<1>4. Progress'
  <2>1. sigs # <<>> => file.isPdf  BY DEF FileInv, Progress
  <2> QED  BY <1>u, <1>p, <1>3, <2>1 DEF Progress
<1>5. AtWork'  BY <1>u DEF AtWork
<1> QED  BY <1>u, <1>p, <1>3, <1>4, <1>5 DEF FileInv, FileReported

LEMMA AggregateKeeps ==
  ASSUME FileInv, Aggregate
  PROVE  FileInv'
<1>u. phase = "load" /\ Validated = Len(sigs)  BY DEF Aggregate
<1>1. CASE signatures = <<>>
  <2>1. \E step : Conclude(StepReport(step, "noSignatures"))  BY <1>1 DEF Aggregate
  <2> QED  BY <1>1, <1>u, <2>1, StepReportIs, ConcludeKeeps
<1>2. CASE signatures # <<>>
  <2>u. /\ phase' = IF file.checkRevocation THEN "aggregated" ELSE "done"
        /\ report' = AggregateReport(signatures, timestamps)
        /\ UNCHANGED <<file, sigs, signatures, timestamps, doc, pc, steps, verdict, level>>
    BY <1>2 DEF Aggregate, vars
  <2>1. ~ PassOver /\ ~ PassOver'  BY <1>u, <2>u DEF PassOver, AllClosed
  <2>2. Collected("reported")'  BY <2>u, <2>1, KeptCollected DEF FileInv, Progress
  <2>3. FileTypeOK'  BY <2>u DEF FileInv, FileTypeOK, Phases
  <2>4. Validated' = Validated  BY <2>u DEF Validated
  <2>5. Progress'
    BY <1>u, <1>2, <2>u, <2>1, <2>2, <2>4 DEF FileInv, Progress
  <2>6. AtWork'  BY <1>u, <2>u DEF FileInv, AtWork
  <2>7. Shown'  BY <1>2, <2>u DEF Shown
  <2> QED  BY <2>u, <2>1, <2>3, <2>5, <2>6, <2>7 DEF FileInv
<1> QED  BY <1>1, <1>2

\* What the pass makes of the report of a signature.
LEMMA ClosedIs ==
  ASSUME FileTypeOK, NEW i \in SignaturePositions, NEW r, Tells(Facts(i), "reported", r)
  PROVE  LET c == Closed(sigs[i].facts, r)
         IN  /\ c \in SignatureReport
             /\ Tells(Facts(i), "closed", c)
             /\ Last(c.steps) = RevocationStep(Facts(i), r.steps)
             /\ Occurs(c.steps, ChainWarned) <=> Occurs(r.steps, ChainWarned)
             /\ Severity(c.verdict) >= Severity(r.verdict) \/ LegacyDigest
<1> DEFINE d == Facts(i)
           step == RevocationStep(d, r.steps)
           all == Append(r.steps, step)
           c == Closed(sigs[i].facts, r)
<1>1. i \in DOMAIN sigs  BY DEF SignaturePositions
<1>2. d.kind = "signature" /\ d \in Document /\ d.digest = sigs[i].facts.digest
  BY <1>1, FactsType
<1>3. /\ \A s : RevocationStep(sigs[i].facts, s) = RevocationStep(d, s)
      /\ \A s, before : LevelAfterRevocation(sigs[i].facts, s, before)
                          = LevelAfterRevocation(d, s, before)
  BY <1>1, PlacedIs DEF FileTypeOK, Facts
<1>4. /\ c.steps = all
      /\ c.verdict = VerdictFor(all)
      /\ c.level = LevelAfterRevocation(d, all, r.level)
      /\ c = SignatureReportOf(c.steps, c.verdict, c.level)
  BY <1>3 DEF Closed, SignatureReportOf
<1>5. /\ ReportTells(d, "reported", r.steps, r.verdict, r.level)
      /\ r.steps \in Seq(Step)
  BY DEF Tells, ReportTells
<1>6. step \in Step /\ step.kind = "RevocationSigner"  BY RevocationStepIs
<1> HIDE DEF c, d, step
<1>7. ReportTells(d, "closed", all, VerdictFor(all), LevelAfterRevocation(d, all, r.level))
  BY <1>2, <1>5, RevocationTells DEF step
<1>8. Tells(d, "closed", c)  BY <1>4, <1>7 DEF Tells
<1>9. c \in SignatureReport
  <2>1. all \in Seq(Step)  BY <1>5, <1>6
  <2>2. VerdictFor(all) \in Verdict  BY ResultTypes
  <2>3. LevelAfterRevocation(d, all, r.level) \in Level
    BY <1>7 DEF ReportTells, LevelAt, Level
  <2>4. c.steps \in Seq(Step) /\ c.verdict \in Verdict \cup {"none"} /\ c.level \in Level
    BY <1>4, <2>1, <2>2, <2>3
  <2>5. \A s \in Seq(Step), v \in Verdict \cup {"none"}, l \in Level :
          SignatureReportOf(s, v, l) \in SignatureReport
    BY DEF SignatureReport
  <2> QED  BY <1>4, <2>4, <2>5, Zenon
<1>10. Last(all) = step  BY <1>5, <1>6 DEF Last
<1>11. Occurs(all, ChainWarned) <=> Occurs(r.steps, ChainWarned)
  <2>1. all = r.steps \o <<step>>  BY <1>5, <1>6, AppendIsConcat
  <2>2. StepsIn(all) = StepsIn(r.steps) \cup {step}  BY <1>5, <1>6, <2>1, StepsInAppend
  <2>3. ~ ChainWarned(step)  BY <1>6 DEF ChainWarned
  <2> HIDE DEF all
  <2> QED  BY <2>2, <2>3, OccursIsIn
<1>12. Severity(VerdictFor(all)) >= Severity(r.verdict) \/ LegacyDigest
  <2>1. VerdictOf(d, "reported", r.steps, r.verdict)  BY <1>5 DEF ReportTells
  <2>2. \/ Severity(VerdictFor(all)) >= Severity(r.verdict)
        \/ d.digest = "rsaSha1"
    BY <1>5, <2>1, RevocationWorsens DEF step
  <2>3. d.digest = "rsaSha1" => LegacyDigest  BY <1>1, <1>2 DEF LegacyDigest
  <2> QED  BY <2>2, <2>3
<1> HIDE DEF all
<1> QED  BY <1>4, <1>8, <1>9, <1>10, <1>11, <1>12 DEF c, d, step

\* The pass pairs every report with the dictionary of its own signature.
LEMMA PassPairs ==
  ASSUME FileTypeOK, Collected("reported")
  PROVE  /\ ClosedSignatures \in Seq(SignatureReport)
         /\ Len(ClosedSignatures) = Len(signatures)
         /\ \A k \in 1..Len(signatures) :
              \E i \in SignaturePositions \cap 1..Validated :
                /\ CountTo(SignaturePositions, i) = k
                /\ Tells(Facts(i), "reported", signatures[k])
                /\ ClosedSignatures[k] = Closed(sigs[i].facts, signatures[k])
                /\ ClosedSignatures[k] \in SignatureReport
<1>1. ASSUME NEW k \in 1..Len(signatures)
      PROVE  \E i \in SignaturePositions \cap 1..Validated :
                /\ CountTo(SignaturePositions, i) = k
                /\ Tells(Facts(i), "reported", signatures[k])
                /\ ClosedSignatures[k] = Closed(sigs[i].facts, signatures[k])
                /\ ClosedSignatures[k] \in SignatureReport
  <2>1. PICK i \in SignaturePositions \cap 1..Validated :
          CountTo(SignaturePositions, i) = k /\ Tells(Facts(i), "reported", signatures[k])
    BY ReportsMeet
  <2>2. ElementsAt(sigs, SignaturePositions)[k] = sigs[i]
    <3>1. sigs \in Seq(Dictionary) /\ SignaturePositions \subseteq DOMAIN sigs
      BY DEF FileTypeOK, SignaturePositions
    <3> QED  BY <2>1, <3>1, ElementOfPosition
  <2>3. k \in DOMAIN signatures  BY DEF FileTypeOK
  <2>4. ClosedSignatures[k] = Closed(sigs[i].facts, signatures[k])
    BY <2>2, <2>3 DEF ClosedSignatures
  <2>5. ClosedSignatures[k] \in SignatureReport
    BY <2>1, <2>4, ClosedIs
  <2> QED  BY <2>1, <2>4, <2>5
<1>2. Len(signatures) \in Nat /\ DOMAIN signatures = 1..Len(signatures)  BY DEF FileTypeOK
<1>3. ClosedSignatures = [k \in 1..Len(signatures) |-> ClosedSignatures[k]]
  BY <1>2 DEF ClosedSignatures
<1>4. \A k \in 1..Len(signatures) : ClosedSignatures[k] \in SignatureReport  BY <1>1
<1>5. ClosedSignatures \in Seq(SignatureReport)
  <2> HIDE DEF ClosedSignatures
  <2> QED  BY <1>2, <1>3, <1>4, SeqDef
<1>6. Len(ClosedSignatures) = Len(signatures)
  <2> HIDE DEF ClosedSignatures
  <2> QED  BY <1>2, <1>3, <1>5
<1> QED  BY <1>1, <1>5, <1>6

\* Closing the reports does not make the aggregated verdict better.
LEMMA PassWorsens ==
  ASSUME FileTypeOK, Collected("reported"), signatures # <<>>, ~ LegacyDigest
  PROVE  Severity(AggregateReport(ClosedSignatures, timestamps).verdict)
           >= Severity(AggregateReport(signatures, timestamps).verdict)
<1> DEFINE a == AggregateReport(signatures, timestamps).verdict
           b == AggregateReport(ClosedSignatures, timestamps).verdict
<1>t. /\ signatures \in Seq(SignatureReport) /\ timestamps \in Seq(SignatureReport)
      /\ ClosedSignatures \in Seq(SignatureReport) /\ Len(ClosedSignatures) = Len(signatures)
  BY PassPairs DEF FileTypeOK
<1>1. ASSUME NEW k \in 1..Len(signatures)
      PROVE  /\ signatures[k].verdict \in Given /\ ClosedSignatures[k].verdict \in Given
             /\ Severity(ClosedSignatures[k].verdict) >= Severity(signatures[k].verdict)
             /\ Occurs(ClosedSignatures[k].steps, ChainWarned)
                  <=> Occurs(signatures[k].steps, ChainWarned)
  <2>1. PICK i \in SignaturePositions \cap 1..Validated :
          /\ Tells(Facts(i), "reported", signatures[k])
          /\ ClosedSignatures[k] = Closed(sigs[i].facts, signatures[k])
    BY PassPairs
  <2>2. /\ Tells(Facts(i), "closed", ClosedSignatures[k])
        /\ Occurs(ClosedSignatures[k].steps, ChainWarned)
             <=> Occurs(signatures[k].steps, ChainWarned)
        /\ Severity(ClosedSignatures[k].verdict) >= Severity(signatures[k].verdict)
    BY <2>1, ClosedIs
  <2> QED  BY <2>1, <2>2, VerdictTells
<1>2. ASSUME NEW k \in 1..Len(timestamps) PROVE timestamps[k].verdict \in Given
  BY ReportsMeet, VerdictTells
<1>3. SignerChainInconclusive(ClosedSignatures) <=> SignerChainInconclusive(signatures)
  BY <1>1, <1>t DEF SignerChainInconclusive
<1>4. ClosedSignatures # <<>>  BY <1>t
<1>a. /\ \/ \E k \in 1..Len(signatures) : a = signatures[k].verdict
         \/ ~ SignerChainInconclusive(signatures) /\ \E k \in 1..Len(timestamps) : a = timestamps[k].verdict
      /\ a \in Given
  BY <1>t, <1>1, <1>2, AggregateIs
<1>b. /\ \A k \in 1..Len(signatures) : Severity(ClosedSignatures[k].verdict) <= Severity(b)
      /\ ~ SignerChainInconclusive(ClosedSignatures) =>
           \A k \in 1..Len(timestamps) : Severity(timestamps[k].verdict) <= Severity(b)
      /\ b \in Given
  BY <1>t, <1>1, <1>2, <1>4, AggregateIs
<1> HIDE DEF a, b
<1>n. \A v \in Given : Severity(v) \in Nat  BY SeverityIs DEF Given
<1>5. ASSUME NEW k \in 1..Len(signatures), a = signatures[k].verdict
      PROVE  Severity(b) >= Severity(a)
  BY <1>1, <1>b, <1>n, <1>5
<1>6. ASSUME NEW k \in 1..Len(timestamps), a = timestamps[k].verdict,
             ~ SignerChainInconclusive(signatures)
      PROVE  Severity(b) >= Severity(a)
  BY <1>3, <1>b, <1>n, <1>6, <1>a
<1>7. Severity(b) >= Severity(a)  BY <1>a, <1>5, <1>6
<1> QED  BY <1>7 DEF a, b

LEMMA CloseKeeps ==
  ASSUME FileInv, CloseSignatures
  PROVE  FileInv'
<1>u. /\ phase = "aggregated" /\ phase' = "closed" /\ signatures' = ClosedSignatures
      /\ UNCHANGED <<file, sigs, timestamps, report, doc, pc, steps, verdict, level>>
  BY DEF CloseSignatures, vars
<1>i. /\ FileTypeOK /\ signatures # <<>> /\ file.checkRevocation /\ Validated = Len(sigs)
      /\ (sigs # <<>> => file.isPdf) /\ Shown
  BY <1>u DEF FileInv, Progress, FileReported
<1>c. Collected("reported")  BY <1>u DEF FileInv, Progress, PassOver, AllClosed
<1>t. /\ signatures' \in Seq(SignatureReport) /\ Len(signatures') = Len(signatures)
      /\ signatures' # <<>>
  BY <1>u, <1>i, <1>c, PassPairs DEF FileTypeOK
<1>k. /\ SignaturePositions' = SignaturePositions /\ TimestampPositions' = TimestampPositions
      /\ \A i : Facts(i)' = Facts(i)
      /\ LegacyDigest' = LegacyDigest /\ Validated' = Validated
  BY <1>u, <1>t, Kept DEF Validated
<1>1. FileTypeOK'  BY <1>u, <1>i, <1>t DEF FileTypeOK, Phases
<1>2. ASSUME NEW i \in SignaturePositions \cap 1..Validated
      PROVE  LET c == signatures'[CountTo(SignaturePositions, i)]
             IN  /\ Tells(Facts(i), "closed", c)
                 /\ \E so_far : Last(c.steps) = RevocationStep(Facts(i), so_far)
  <2> DEFINE k == CountTo(SignaturePositions, i)
  <2>1. k \in 1..Len(signatures)  BY <1>i, <1>c, ReportsMeet
  <2>2. PICK j \in SignaturePositions \cap 1..Validated :
          /\ CountTo(SignaturePositions, j) = k
          /\ Tells(Facts(j), "reported", signatures[k])
          /\ ClosedSignatures[k] = Closed(sigs[j].facts, signatures[k])
    BY <1>i, <1>c, <2>1, PassPairs
  <2>3. j = i  BY <1>i, <2>2, PositionsType, CountIsUnique
  <2> QED  BY <1>i, <1>u, <2>2, <2>3, ClosedIs
<1>3. Collected("closed")'
  BY <1>u, <1>t, <1>k, <1>c, <1>2 DEF Collected
<1>4. PassOver'  BY <1>u DEF PassOver
<1>5. Progress'  BY <1>u, <1>i, <1>t, <1>k, <1>3, <1>4 DEF Progress
<1>6. AtWork'  BY <1>u DEF FileInv, AtWork
<1>7. ASSUME NEW i \in SignaturePositions PROVE OwnStatus(i)'
  <2> DEFINE s == Last(signatures'[CountTo(SignaturePositions, i)].steps)
  <2>1. i \in SignaturePositions \cap 1..Validated  BY <1>i, PositionsType
  <2>2. PICK so_far : s = RevocationStep(Facts(i), so_far)  BY <1>2, <2>1
  <2>3. /\ s.kind = "RevocationSigner"
        /\ s.status = "ok" => SignerCertificateAvailable(Facts(i)) /\ Facts(i).revocation = "good"
        /\ SignerCertificateAvailable(Facts(i)) /\ Facts(i).revocation = "good" =>
             s = Plain("RevocationSigner", "ok")
    BY <2>2, RevocationStepIs
  <2>4. Plain("RevocationSigner", "ok").status = "ok"  BY DEF Plain, Noted
  <2> HIDE DEF s
  <2>5. /\ s.kind = "RevocationSigner"
        /\ s.status = "ok" <=>
             SignerCertificateAvailable(Facts(i)) /\ Facts(i).revocation = "good"
    BY <2>3, <2>4
  <2>6. (CountTo(SignaturePositions, i))' = CountTo(SignaturePositions, i)
    BY <1>k
  <2> QED  BY <1>k, <2>5, <2>6 DEF OwnStatus, s
<1>8. NotBetter'
  <2>1. CASE LegacyDigest  BY <1>k, <2>1 DEF NotBetter
  <2>2. CASE ~ LegacyDigest
    <3>1. report.verdict = AggregateReport(signatures, timestamps).verdict
      BY <1>i DEF Shown
    <3>2. Severity(AggregateReport(ClosedSignatures, timestamps).verdict)
            >= Severity(report.verdict)
      BY <1>i, <1>c, <2>2, <3>1, PassWorsens
    <3> QED  BY <1>u, <3>2 DEF NotBetter
  <2> QED  BY <2>1, <2>2
<1> QED  BY <1>u, <1>1, <1>4, <1>5, <1>6, <1>7, <1>8, <1>k DEF FileInv, FileReported

LEMMA AggregateClosedKeeps ==
  ASSUME FileInv, AggregateClosed
  PROVE  FileInv'
<1>u. /\ phase = "closed" /\ phase' = "done" /\ report' = AggregateReport(signatures, timestamps)
      /\ UNCHANGED <<file, sigs, signatures, timestamps, doc, pc, steps, verdict, level>>
  BY DEF AggregateClosed, vars
<1>i. /\ FileTypeOK /\ signatures # <<>> /\ file.checkRevocation /\ Validated = Len(sigs)
      /\ (sigs # <<>> => file.isPdf)
  BY <1>u DEF FileInv, Progress
<1>1. PassOver /\ PassOver'  BY <1>u, <1>i DEF PassOver, AllClosed
<1>2. Collected("closed")'  BY <1>u, <1>1, KeptCollected DEF FileInv, Progress
<1>3. FileTypeOK'  BY <1>u, <1>i DEF FileTypeOK, Phases
<1>4. Validated' = Validated /\ SignaturePositions' = SignaturePositions /\ \A i : Facts(i)' = Facts(i)
  BY <1>u, Kept DEF Validated
<1>5. Progress'  BY <1>u, <1>i, <1>1, <1>2, <1>4 DEF Progress
<1>6. AtWork'  BY <1>u DEF FileInv, AtWork
<1>7. Shown'  BY <1>u, <1>i DEF Shown
<1>8. ASSUME NEW i \in SignaturePositions PROVE OwnStatus(i)'
  <2>1. OwnStatus(i)  BY <1>1 DEF FileInv
  <2> QED  BY <1>u, <1>4, <2>1 DEF OwnStatus
<1> QED  BY <1>u, <1>3, <1>4, <1>5, <1>6, <1>7, <1>8 DEF FileInv

LEMMA FileStutter ==
  ASSUME FileInv, UNCHANGED fileVars
  PROVE  FileInv'
<1>u. UNCHANGED <<file, phase, sigs, signatures, timestamps, report, doc, pc, steps, verdict, level>>
  BY DEF fileVars, vars
<1>k. /\ SignaturePositions' = SignaturePositions /\ \A i : Facts(i)' = Facts(i)
      /\ LegacyDigest' = LegacyDigest /\ Validated' = Validated /\ (PassOver' <=> PassOver)
      /\ (FileReported' <=> FileReported)
  BY <1>u, Kept DEF Validated, PassOver, AllClosed, FileReported
<1>1. FileTypeOK'  BY <1>u DEF FileInv, FileTypeOK
<1>2. Progress'
  <2>1. Progress  BY DEF FileInv
  <2>2. CASE PassOver
    <3>1. Collected("closed")'  BY <1>u, <2>1, <2>2, KeptCollected DEF Progress
    <3> QED  BY <1>u, <1>k, <2>1, <2>2, <3>1 DEF Progress
  <2>3. CASE ~ PassOver
    <3>1. Collected("reported")'  BY <1>u, <2>1, <2>3, KeptCollected DEF Progress
    <3> QED  BY <1>u, <1>k, <2>1, <2>3, <3>1 DEF Progress
  <2> QED  BY <2>2, <2>3
<1>3. AtWork'
  <2>1. CASE phase = "validate"
    <3>1. ReportInv  BY <2>1 DEF FileInv, AtWork
    <3>2. ReportInv'  BY <1>u, <3>1, ReportStep DEF vars
    <3> QED  BY <1>u, <1>k, <2>1, <3>2 DEF FileInv, AtWork
  <2>2. CASE phase # "validate"  BY <1>u, <2>2 DEF FileInv, AtWork
  <2> QED  BY <2>1, <2>2
<1>4. FileReported => Shown'  BY <1>u DEF FileInv, Shown
<1>5. phase = "closed" => NotBetter'  BY <1>u, <1>k DEF FileInv, NotBetter
<1>6. PassOver => \A i \in SignaturePositions : OwnStatus(i)'
  BY <1>u, <1>k DEF FileInv, OwnStatus
<1> QED  BY <1>u, <1>k, <1>1, <1>2, <1>3, <1>4, <1>5, <1>6 DEF FileInv

LEMMA FileStep == FileInv /\ [FileNext]_fileVars => FileInv'
BY RejectKeeps, FindKeeps, LoadKeeps, ValidateKeeps, CollectKeeps, AggregateKeeps, CloseKeeps,
   AggregateClosedKeeps, FileStutter DEF FileNext

LEMMA FileStart == FileInit => FileInv
<1> SUFFICES ASSUME FileInit PROVE FileInv
  OBVIOUS
<1>1. FileTypeOK  BY DEF FileInit, FileTypeOK, Phases
<1>2. SignaturePositions = {} /\ TimestampPositions = {} /\ Validated = 0
  BY DEF FileInit, SignaturePositions, TimestampPositions, Validated
<1>3. Collected("reported")
  <2>1. CountTo({}, 0) = 0  BY CountStart
  <2>2. Len(sigs) = 0 /\ Len(signatures) = 0 /\ Len(timestamps) = 0  BY DEF FileInit
  <2> QED  BY <1>2, <2>1, <2>2 DEF Collected
<1>4. ~ PassOver /\ ~ FileReported  BY DEF FileInit, PassOver, AllClosed, FileReported
<1>5. Progress  BY <1>3, <1>4 DEF FileInit, Progress
<1>6. AtWork  BY DEF FileInit, AtWork
<1> QED  BY <1>1, <1>4, <1>5, <1>6 DEF FileInit, FileInv

LEMMA FileInvariant == FileSpec => []FileInv
BY FileStart, FileStep, PTL DEF FileSpec

-----------------------------------------------------------------------------
(* What the invariant says of the document's report.                       *)

\* A report there is: what the reports it was aggregated from tell.
LEMMA ReportedFacts ==
  ASSUME FileInv, FileReported
  PROVE  LET stage == IF AllClosed THEN "closed" ELSE "reported"
         IN  /\ FileTypeOK /\ Shown /\ Validated = Len(sigs) /\ Collected(stage)
             /\ sigs # <<>> => file.isPdf
             /\ signatures = <<>> <=> SignaturePositions = {}
             /\ \A i \in SignaturePositions :
                  /\ CountTo(SignaturePositions, i) \in 1..Len(signatures)
                  /\ Tells(Facts(i), stage, signatures[CountTo(SignaturePositions, i)])
             /\ \A i \in TimestampPositions :
                  /\ CountTo(TimestampPositions, i) \in 1..Len(timestamps)
                  /\ Tells(Facts(i), "reported", timestamps[CountTo(TimestampPositions, i)])
             /\ \A k \in 1..Len(signatures) :
                  \E i \in SignaturePositions : Tells(Facts(i), stage, signatures[k])
             /\ \A k \in 1..Len(timestamps) :
                  \E i \in TimestampPositions : Tells(Facts(i), "reported", timestamps[k])
<1> DEFINE stage == IF AllClosed THEN "closed" ELSE "reported"
<1>1. /\ FileTypeOK /\ Shown /\ Validated = Len(sigs) /\ Collected(stage)
      /\ sigs # <<>> => file.isPdf
  BY DEF FileInv, Progress, FileReported, PassOver, AllClosed
<1> HIDE DEF stage
<1>2. /\ SignaturePositions \cap 1..Validated = SignaturePositions
      /\ TimestampPositions \cap 1..Validated = TimestampPositions
  BY <1>1, PositionsType
<1>3. /\ \A i \in SignaturePositions : CountTo(SignaturePositions, i) \in 1..Len(signatures)
      /\ \A i \in TimestampPositions : CountTo(TimestampPositions, i) \in 1..Len(timestamps)
      /\ \A k \in 1..Len(signatures) :
           \E i \in SignaturePositions : Tells(Facts(i), stage, signatures[k])
      /\ \A k \in 1..Len(timestamps) :
           \E i \in TimestampPositions : Tells(Facts(i), "reported", timestamps[k])
  BY <1>1, <1>2, ReportsMeet
<1>4. signatures = <<>> <=> SignaturePositions = {}
  <2>1. Len(signatures) \in Nat /\ (signatures = <<>> <=> Len(signatures) = 0)
    BY <1>1 DEF FileTypeOK
  <2>2. Len(signatures) # 0 => 1 \in 1..Len(signatures)  BY <2>1
  <2> QED  BY <1>3, <2>1, <2>2
<1> QED  BY <1>1, <1>2, <1>3, <1>4 DEF Collected, stage

LEMMA InvValidIffEarned == FileInv => DocumentValidIffEarned
<1> SUFFICES ASSUME FileInv, FileReported
             PROVE  report.verdict = "valid" <=>
                      /\ file.isPdf
                      /\ \E i \in DOMAIN sigs : IsSignature(sigs[i])
                      /\ \A i \in DOMAIN sigs : EarnedDictionary(i)
  BY DEF DocumentValidIffEarned
<1> DEFINE stage == IF AllClosed THEN "closed" ELSE "reported"
           a == AggregateReport(signatures, timestamps).verdict
<1>1. /\ FileTypeOK /\ Shown /\ (sigs # <<>> => file.isPdf)
      /\ signatures = <<>> <=> SignaturePositions = {}
      /\ \A i \in SignaturePositions :
           /\ CountTo(SignaturePositions, i) \in 1..Len(signatures)
           /\ Tells(Facts(i), stage, signatures[CountTo(SignaturePositions, i)])
      /\ \A i \in TimestampPositions :
           /\ CountTo(TimestampPositions, i) \in 1..Len(timestamps)
           /\ Tells(Facts(i), "reported", timestamps[CountTo(TimestampPositions, i)])
      /\ \A k \in 1..Len(signatures) :
           \E i \in SignaturePositions : Tells(Facts(i), stage, signatures[k])
      /\ \A k \in 1..Len(timestamps) :
           \E i \in TimestampPositions : Tells(Facts(i), "reported", timestamps[k])
  BY ReportedFacts
<1>2. stage \in {"reported", "closed"}  OBVIOUS
<1>3. ASSUME NEW i \in SignaturePositions, NEW r, Tells(Facts(i), stage, r)
      PROVE  /\ r.verdict \in Given
             /\ r.verdict = "valid" <=> EarnedDictionary(i)
             /\ r.verdict = "valid" => ~ Occurs(r.steps, ChainWarned)
  <2>1. IsSignature(sigs[i])  BY DEF SignaturePositions
  <2>2. /\ r.verdict \in Given
        /\ r.verdict = "valid" <=>
             Earned(Facts(i)) /\ (stage = "closed" => Facts(i).revocation = "good")
        /\ r.verdict = "valid" => ~ Occurs(r.steps, ChainWarned)
    BY <1>2, <1>3, VerdictTells
  <2> QED  BY <2>1, <2>2 DEF EarnedDictionary
<1>4. ASSUME NEW i \in TimestampPositions, NEW r, Tells(Facts(i), "reported", r)
      PROVE  r.verdict \in Given /\ (r.verdict = "valid" <=> EarnedDictionary(i))
  <2>1. ~ IsSignature(sigs[i])  BY DEF TimestampPositions, IsSignature, IsTimestamp
  <2>2. r.verdict \in Given /\ (r.verdict = "valid" <=> Earned(Facts(i)))
    BY <1>4, VerdictTells
  <2> QED  BY <2>1, <2>2 DEF EarnedDictionary
<1>5. \A i \in DOMAIN sigs : i \in SignaturePositions \/ i \in TimestampPositions
  BY <1>1, FactsType
<1>6. (\E i \in DOMAIN sigs : IsSignature(sigs[i])) <=> SignaturePositions # {}
  BY DEF SignaturePositions
<1> HIDE DEF stage
<1>7. CASE signatures = <<>>
  BY <1>1, <1>6, <1>7 DEF Shown
<1>8. CASE signatures # <<>>
  <2>1. report.verdict = a  BY <1>1, <1>8 DEF Shown
  <2>2. file.isPdf
    <3>1. sigs # <<>>  BY <1>1, <1>6, <1>8
    <3> QED  BY <1>1, <3>1
  <2>3. /\ \A k \in 1..Len(signatures) : signatures[k].verdict \in Given
        /\ \A k \in 1..Len(timestamps) : timestamps[k].verdict \in Given
    BY <1>1, <1>3, <1>4
  <2>4. /\ \/ \E k \in 1..Len(signatures) : a = signatures[k].verdict
           \/ \E k \in 1..Len(timestamps) : a = timestamps[k].verdict
        /\ \A k \in 1..Len(signatures) : Severity(signatures[k].verdict) <= Severity(a)
        /\ ~ SignerChainInconclusive(signatures) =>
             \A k \in 1..Len(timestamps) : Severity(timestamps[k].verdict) <= Severity(a)
    BY <1>1, <1>8, <2>3, AggregateIs DEF FileTypeOK
  <2> HIDE DEF a
  <2>5. \A v \in Given : Severity(v) <= Severity("valid") => v = "valid"
    BY SeverityIs DEF Given
  <2>6. ASSUME a = "valid" PROVE \A i \in DOMAIN sigs : EarnedDictionary(i)
    <3>1. \A k \in 1..Len(signatures) : signatures[k].verdict = "valid"
      BY <2>3, <2>4, <2>5, <2>6
    <3>2. ~ SignerChainInconclusive(signatures)
      BY <1>1, <1>3, <3>1 DEF SignerChainInconclusive
    <3>3. \A k \in 1..Len(timestamps) : timestamps[k].verdict = "valid"
      BY <2>3, <2>4, <2>5, <2>6, <3>2
    <3>4. \A i \in SignaturePositions : EarnedDictionary(i)  BY <1>1, <1>3, <3>1
    <3>5. \A i \in TimestampPositions : EarnedDictionary(i)  BY <1>1, <1>4, <3>3
    <3> QED  BY <1>5, <3>4, <3>5
  <2>7. ASSUME \A i \in DOMAIN sigs : EarnedDictionary(i) PROVE a = "valid"
    <3>1. SignaturePositions \subseteq DOMAIN sigs /\ TimestampPositions \subseteq DOMAIN sigs
      BY DEF SignaturePositions, TimestampPositions
    <3>2. \A k \in 1..Len(signatures) : signatures[k].verdict = "valid"
      BY <1>1, <1>3, <2>7, <3>1
    <3>3. \A k \in 1..Len(timestamps) : timestamps[k].verdict = "valid"
      BY <1>1, <1>4, <2>7, <3>1
    <3> QED  BY <2>4, <3>2, <3>3
  <2> QED  BY <1>1, <1>6, <1>8, <2>1, <2>2, <2>6, <2>7
<1> QED  BY <1>7, <1>8

\* For every file, a document is reported as valid exactly if it has a
\* signature and everything speaks for every signature and every document
\* timestamp: filtering, validating one dictionary after the other, aggregating
\* and the revocation pass lose no doubt and add none.
THEOREM ValidDocumentsAreEarned == FileSpec => []DocumentValidIffEarned
BY FileInvariant, InvValidIffEarned, PTL

LEMMA InvBrokenShows == FileInv => BrokenSignatureShows
<1> SUFFICES ASSUME FileInv, FileReported,
                    NEW i \in DOMAIN sigs, IsSignature(sigs[i]), ~ Intact(Facts(i))
             PROVE  report.verdict \in {"inconclusive", "invalid", "error"}
  BY DEF BrokenSignatureShows
<1> DEFINE stage == IF AllClosed THEN "closed" ELSE "reported"
           k == CountTo(SignaturePositions, i)
           a == AggregateReport(signatures, timestamps).verdict
<1>1. /\ FileTypeOK /\ Shown
      /\ signatures = <<>> <=> SignaturePositions = {}
      /\ \A j \in SignaturePositions :
           /\ CountTo(SignaturePositions, j) \in 1..Len(signatures)
           /\ Tells(Facts(j), stage, signatures[CountTo(SignaturePositions, j)])
      /\ \A n \in 1..Len(signatures) :
           \E j \in SignaturePositions : Tells(Facts(j), stage, signatures[n])
      /\ \A n \in 1..Len(timestamps) :
           \E j \in TimestampPositions : Tells(Facts(j), "reported", timestamps[n])
  BY ReportedFacts
<1>2. i \in SignaturePositions /\ stage \in {"reported", "closed"}  BY DEF SignaturePositions
<1>3. Facts(i).kind = "signature"  BY <1>1, <1>2, FactsType
<1> HIDE DEF stage
<1>4. signatures # <<>> /\ report.verdict = a  BY <1>1, <1>2 DEF Shown
<1>5. /\ \A n \in 1..Len(signatures) : signatures[n].verdict \in Given
      /\ \A n \in 1..Len(timestamps) : timestamps[n].verdict \in Given
  BY <1>1, <1>2, VerdictTells
<1>6. a \in Given /\ \A n \in 1..Len(signatures) : Severity(signatures[n].verdict) <= Severity(a)
  BY <1>1, <1>4, <1>5, AggregateIs DEF FileTypeOK
<1>7. k \in 1..Len(signatures) /\ Severity(signatures[k].verdict) >= 2
  BY <1>1, <1>2, <1>3, VerdictTells
<1> HIDE DEF a, k
<1>8. signatures[k].verdict \in Given /\ Severity(signatures[k].verdict) <= Severity(a)
  BY <1>5, <1>6, <1>7
<1>9. a \in {"inconclusive", "invalid", "error"}
  BY <1>6, <1>7, <1>8, SeverityIs DEF Given
<1> QED  BY <1>4, <1>9

\* A signature that is not intact shows in the verdict of the document, however
\* many good signatures and timestamps surround it.
THEOREM BrokenSignaturesShow == FileSpec => []BrokenSignatureShows
BY FileInvariant, InvBrokenShows, PTL

LEMMA InvRevocationIsOwn == FileInv => RevocationIsOwn
<1> SUFFICES ASSUME FileInv, AllClosed, signatures # <<>>, NEW i \in DOMAIN sigs,
                    IsSignature(sigs[i])
             PROVE  LET k == Cardinality({j \in 1..i : IsSignature(sigs[j])})
                    IN  /\ Last(signatures[k].steps).kind = "RevocationSigner"
                        /\ Last(signatures[k].steps).status = "ok" <=>
                             SignerCertificateAvailable(Facts(i)) /\ Facts(i).revocation = "good"
  BY DEF RevocationIsOwn
<1>1. i \in SignaturePositions  BY DEF SignaturePositions
<1>2. OwnStatus(i)  BY <1>1 DEF FileInv, PassOver
<1>3. {j \in 1..i : IsSignature(sigs[j])} = SignaturePositions \cap 1..i
  <2>1. DOMAIN sigs = 1..Len(sigs) /\ Len(sigs) \in Nat  BY DEF FileInv, FileTypeOK
  <2> QED  BY <2>1 DEF SignaturePositions
<1> QED  BY <1>2, <1>3 DEF OwnStatus, CountTo

\* The revocation pass closes every signature with the status of its own
\* signer's certificate, wherever document timestamps stand between them.
THEOREM RevocationsAreOwn == FileSpec => []RevocationIsOwn
BY FileInvariant, InvRevocationIsOwn, PTL

LEMMA InvArchivalIsEarned == FileInv => ArchivalIsEarned
<1> SUFFICES ASSUME FileInv, FileReported, report.level = "LTA"
             PROVE  /\ \E i \in DOMAIN sigs :
                         /\ IsSignature(sigs[i])
                         /\ \A j \in i + 1..Len(sigs) : IsTimestamp(sigs[j])
                         /\ Intact(Facts(i)) /\ TimestampTrusted(Facts(i))
                         /\ OnlyLaterValidationData(Facts(i)) /\ Facts(i).revocation = "good"
                    /\ \E i \in DOMAIN sigs :
                         /\ IsTimestamp(sigs[i])
                         /\ TimestampTrusted(Facts(i))
                         /\ Facts(i).modified = {}
  BY DEF ArchivalIsEarned
<1> DEFINE stage == IF AllClosed THEN "closed" ELSE "reported"
           last == signatures[Len(signatures)]
<1>1. /\ FileTypeOK /\ Shown /\ Validated = Len(sigs) /\ Collected(stage)
      /\ \A k \in 1..Len(signatures) :
           \E i \in SignaturePositions : Tells(Facts(i), stage, signatures[k])
      /\ \A k \in 1..Len(timestamps) :
           \E i \in TimestampPositions : Tells(Facts(i), "reported", timestamps[k])
  BY ReportedFacts
<1>2. signatures # <<>> /\ AggregateReport(signatures, timestamps).level = "LTA"
  BY <1>1 DEF Shown
<1>3. PICK i \in SignaturePositions :
        /\ \A j \in i + 1..Len(sigs) : j \notin SignaturePositions
        /\ Tells(Facts(i), stage, last)
  BY <1>1, <1>2, LastReport
<1>4. stage \in {"reported", "closed"}  OBVIOUS
<1> HIDE DEF stage
<1>5. /\ \A k \in 1..Len(signatures) : signatures[k].verdict \in Given
      /\ \A k \in 1..Len(timestamps) : timestamps[k].verdict \in Given
  BY <1>1, <1>4, VerdictTells
<1>6. last.level = "LT" /\ \E k \in 1..Len(timestamps) : DocumentTimestampTrusted(timestamps[k])
  <2>1. last.level # "LTA"  BY <1>3, LevelTells
  <2> QED  BY <1>1, <1>2, <1>5, <2>1, AggregateIs DEF FileTypeOK
<1>7. /\ Intact(Facts(i)) /\ TimestampTrusted(Facts(i))
      /\ OnlyLaterValidationData(Facts(i)) /\ Facts(i).revocation = "good"
  BY <1>3, <1>6, LevelTells
<1>8. i \in DOMAIN sigs /\ IsSignature(sigs[i])  BY DEF SignaturePositions
<1>9. ASSUME NEW j \in i + 1..Len(sigs) PROVE IsTimestamp(sigs[j])
  <2>1. j \in DOMAIN sigs  BY <1>1, <1>8, PositionsType
  <2> QED  BY <1>1, <1>3, <2>1, FactsType
<1>10. PICK k \in 1..Len(timestamps) : DocumentTimestampTrusted(timestamps[k])  BY <1>6
<1>11. PICK t \in TimestampPositions : Tells(Facts(t), "reported", timestamps[k])
  BY <1>1
<1>12. t \in DOMAIN sigs /\ IsTimestamp(sigs[t])  BY DEF TimestampPositions
<1>13. TimestampTrusted(Facts(t)) /\ Facts(t).modified = {}
  <2>1. Facts(t).kind # "signature"  BY <1>1, <1>12, FactsType
  <2> QED  BY <1>10, <1>11, <2>1, TimestampTells
<1> QED  BY <1>7, <1>8, <1>9, <1>12, <1>13

\* A document reaches the archival level only with what the level stands for:
\* the latest signature is intact, timestamped and not revoked, and a document
\* timestamp is trusted and unmodified.
THEOREM ArchivalLevelsAreEarned == FileSpec => []ArchivalIsEarned
BY FileInvariant, InvArchivalIsEarned, PTL

\* The second aggregation is at least as severe as the first, whichever
\* signatures the revocation pass has closed, RSA-SHA1 aside.
THEOREM RevocationOnlyWorsensDocument == FileSpec => RevocationNeverImprovesDocument
<1>1. ASSUME FileInv, AggregateClosed
      PROVE  \/ Severity(report'.verdict) >= Severity(report.verdict)
             \/ \E i \in DOMAIN sigs : sigs[i].facts.digest = "rsaSha1"
  BY <1>1 DEF FileInv, AggregateClosed, NotBetter, LegacyDigest
<1>2. FileInv /\ [FileNext]_fileVars =>
        [AggregateClosed =>
           \/ Severity(report'.verdict) >= Severity(report.verdict)
           \/ \E i \in DOMAIN sigs : sigs[i].facts.digest = "rsaSha1"]_fileVars
  BY <1>1
<1> QED  BY <1>2, FileInvariant, PTL DEF FileSpec, RevocationNeverImprovesDocument
=============================================================================

# Specifications of the PDF signature validator

SDTrustKit validates the electronic signatures of a PDF file.  Its core is a
Rust library (`rust/sd_trust_kit/src`) that is called through a C interface
from Swift and through JNI from Kotlin.  These TLA+ modules describe the
validator's decisions: how the file is read, which checks run in which order,
what each one adds to the report, and how the report is turned into a verdict;
and what the wrappers do around a call.

Paths below are relative to `rust/sd_trust_kit/src` unless they start with
another directory of the repository.

## The system

| Component | State | Operations | What makes it correct |
|---|---|---|---|
| Report model (`report.rs`) | the ordered steps of a report, its verdict, standards result and PAdES level | `verdict_for`, `standards_result_for`, `pades_level_for_signature_steps`, `aggregate_report` | the verdict does not hide a failure, verdict and standards agree, a level is earned |
| Signature validation (`lib.rs`, `verify_signature`) | the report being built | stages in a fixed order with early returns, then `append_revocation_step` | no path skips a check and still ends in *valid*; what is sound is valid |
| Document validation (`lib.rs`) | the usable dictionaries, the signature and timestamp reports | filter, validate each, aggregate, revocation pass, aggregate again | no broken signature disappears in the filter or the aggregation; reports stay paired with their dictionaries |
| Timestamps (`timestamp.rs`) | the TSA steps of the report | `verify_signature_timestamp`, `verify_document_timestamp` | only a timestamp all four of whose checks hold counts as proof of time |
| Path search (`trust.rs`) | the walk: current certificate, visited ones, chain | three entry points over `manual_trusted_chain_to_anchor` | a trusted answer shows a verified path; where issuers are unique an existing path is found; the walk ends |
| Revocation (`revocation.rs`) | OCSP responses and CRLs from caches, the CMS and the file | `check_certificate_status`, `check_ocsp_status`, CRL and OCSP authentication | evidence decides only if authentic, about this certificate and fresh enough |
| PDF structure (`pdf.rs`) | byte ranges, revisions, objects, field tree | finding signature dictionaries, walking the form, comparing revisions | a change after signing is seen, maintenance is not taken for one, no signature is displaced |
| CMS (`cms.rs`) | parsed `SignedData` | parsing, finding the signer's certificate | the certificate used is the one the signer identifier names |
| ASN.1 (`asn1.rs`) | the position in the input | normalising BER to DER, reading | one element comes out in its canonical form, nothing outside it is read |
| Cryptography (`crypto.rs`) | none | digests and signature verification | left to the libraries it calls |
| EU trusted list (`eu_trusted_list.rs`, `options.rs`) | entries with a service type, a status and an interval | filters by service, status and time | an anchor counts exactly while its service holds a good status |
| C interface (`ffi.rs`, `include/`) | the strings handed out | three verify functions, `sd_trust_kit_free_string` | every string is handed out to one call and given back once; every call gets its own answer |
| Wrappers (`android_jni.rs`, `swift/`, `kotlin/`) | the loaded library, the kits that refer to it | load, call, copy, free, close | the library stays while a call is in it |
| Command line (`main.rs`), `scripts/`, tests | – | I/O and tooling | not modelled |

Inside the library the parts interact by plain calls within one thread: the C
interface calls `verify_pdf_...`, which finds the dictionaries (`pdf.rs`), runs
`verify_signature` on each, which in turn calls `cms.rs`, `crypto.rs`,
`trust.rs` and `timestamp.rs`, and finally the revocation pass and the
aggregation.  Nothing is shared between two calls but the heap the strings are
on, and nothing is persisted, so the core has no concurrency, crash or message
loss.  What is hard there is *order*: early returns, steps that are appended
only under conditions, verdicts that depend on which step comes first, values
computed twice (before and after the revocation pass), a list that is filtered
and then paired with another by position, a greedy search without backtracking,
times that are used before they are trusted, and revisions of a file that
replace, repeat or hide what earlier ones said.

Around the core there is concurrency: an application may call from several
threads.  The Swift package opens the library for each kit and closes it with
the last reference to it; the Android bridge loads it once, under a lock, and
must try again where that fails; and a pointer given back by one thread may be
handed to another at once.

Two things change between calls without the library's doing: the PDF file,
which other programs append to, and the trusted lists, of which an application
keeps a copy.  `PROJECT.json` lists the hazards at their lines.

## The modules

### Report

Pure operators for `report.rs`.  A step keeps its kind and status.  The detail
text is dropped, except for the four texts the code reads back
(`report.rs:400`, `:579-582`, `:634`, `:677`), which become the field `note`.
`VerdictFor`, `StandardsFor`, `LevelFor` and `AggregateReport` follow the
functions of (nearly) the same names.

### SignatureValidation

One action per stage of `verify_signature`, in the code's order.  A stage
appends steps and hands over (`Continue`) or returns early (`MakeReport`, the
code's `make_report` closure, and `Return` where the verdict comes from the
steps).  What a stage learns about the bytes (does the digest match, is there a
path, is the usage allowed) is a field of the record `doc`, chosen in the
initial state; the field comments say which check reads it.  `AppendRevocation`
is `append_revocation_step` with its two recomputations.

The return for a byte range outside the file (`lib.rs:448-455`) is not a branch:
a covering byte range (`lib.rs:343-346`) is within the file, and without
coverage the stage before has returned.

### DocumentValidation

The whole call.  `file` holds the dictionaries in revision order, with what
`usable_signature_dictionaries` looks at.  `FindSignatures` filters,
`LoadDictionary`/`ValidateDictionary`/`CollectReport` run the stages of
SignatureValidation on one dictionary after the other, `Aggregate` builds the
document's report, `CloseSignatures` is the revocation pass with its pairing by
position, and `AggregateClosed` the second aggregation.  The module extends
SignatureValidation and shares its variables, which are about the dictionary
that is being validated; the initial state, the steps and the specification of
a file are called `FileInit`, `FileNext` and `FileSpec`.  `ElementsAt` is a filter
that keeps the order, given by the positions that stay.

### Certificates, TrustPath, TrustChain

`Certificates` says what the search can tell about a set of certificates, when
one issues another (`Issues`), and what a path is (`IsTrustPath`).  `TrustPath`
is the abstract specification: a search answers once, and a trusted answer
shows a path to something the caller trusts; a signer is never trusted by a pin.
`TrustChain` is the code: the checks before the loop, the loop with its bound
and its sort of preferred anchors, and the fallback from anchors to pins.
`ImplementsTrustPath` maps the chain of the loop to the path of the answer.

A certificate's `expired` is "not valid at the time the search checks it for":
the code checks the leaf for one time and the issuers for another, never both
for the same certificate.  An anchor's own validity is not checked
(`trust.rs:168-172`), and pins are searched without a time.

### Evidence, RevocationEvidence, Revocation

`Evidence` is the data: certificates, OCSP responses, revocation lists, and a
`World` with everything one check is given.  Times are small numbers, and 0 is
an absent one.  A signature is the key that verifies it, so that *who* signed is
a matter of comparing keys; a name or a hash in a response is the name or key it
stands for.  `RevocationEvidence` is the abstract specification: a check answers
whenever it likes, and a definite answer is backed by a piece of evidence
(`Backed`), wherever it comes from.

`Revocation` is the code: the loop over the cached and embedded responses
(`PassResponse`, `UseResponse`, `ResponderDoesNotKnow`, `NoMoreResponses`) with
the `continue` conditions of `check_ocsp_status` in `Usable`, and the loop over
the distribution points (`PassList`, `UseList`, `NoMoreLists`) with those of
`check_certificate_status` in `UsableList`.  `Entries` is the cache that
`append_revocation_step` assembles: embedded responses come last, never lapse,
and are exempt from being current when a trusted timestamp says when the
signature was there.  `Clock` is what the C interface makes of a missing
`nowUnixSeconds`.  `CheckLater` repeats the call, with the same evidence at a
later time.

SignatureValidation takes the result of the check as a fact; the two modules
meet in `append_revocation_step`.

### PdfObjects, FieldTree, PdfRevisions

`PdfObjects` has what `pdf.rs` sees in a file: a sequence of objects in the order
of their bytes, each with its type, the names and references in its text, and the
rest of it as a number; the body of a stream is a number of its own, because the
scans leave it out.  `Text` is `ascii_outside_streams`, and `SameText` compares
what it leaves, as `object_changed_from_prior_revision` does.  An object with the
same id further behind is a new version.  An object packed into an object stream
has a position of its own, computed as the code computes it: where the container
is plus the offset in the decoded stream (`pdf.rs:1399`, `:1478`).  Each packed
object has a container of its own.

`FieldTree` is the walk of `acroform_signature_fields` and
`collect_signature_fields` as a list of pending calls, with the shared list of
visited ids and the inherited type.  `SignatureFields` in `PdfObjects` is the same
as a set, without an order; where every field has one parent the walk finds that
set.  The other modules use the set.

`PdfRevisions` is a file that grows.  Its writers are the environment: each
`Update` appends what one kind of program appends (a signature, a document
timestamp, a DSS with or without a VRI, an extended or a renewed DSS, metadata;
and changes to a page, the page tree, the catalog, a signature dictionary or its
field).  Two kinds of edits aim at what the comparison leaves out: *stream* gives
what the page draws another stream body and lists it as evidence in a DSS, and
*title* replaces the first page and adds `/Title` to the page tree, so that the
page tree passes for document information.  The code is a set of operators on the
file: which dictionaries count (`Usable`), whether a tail is validation data only
(`OnlyValidationData`), and each check for changes (`Modified`).  The conditions
of `usable_signature_dictionaries` that do not depend on the structure of the file
(a CMS that does not parse, usage rights) are in DocumentValidation.

### TrustedList

The filters of `eu_trusted_list.rs`, the timed anchor sets of `options.rs` and
`trust_anchors_for_time`.  The trusted lists themselves (`catalog`, `history`), the
cache of the application and the options made of it are the environment:
`Publish` gives a service a status from now on, `Refresh` copies the lists,
`Configure` makes options.  Times are integers; the code has seconds as floating
point numbers, whose order is the same.  Real lists also announce statuses that
start later; the model leaves these out.  The library
does not look at the time of the fetch, so that nothing is said of times after
it: an application that validates recent signatures has to refresh.

### DerNormalization

`normalized_asn1_first_object`, one action per read; the recursion is a stack of
frames and a slice a limit in the whole.  The size of a byte and the machine word
are parameters, so that the sum of a position and a length can overflow in the
model as it can on a 32-bit platform (`SumTooLarge`: a panic, which the C
interface turns into an error).  `ReadTlv` is the reader that gets the result.  It
reads one byte of a tag, the normaliser all of them.

### JsonCalls, FfiLifecycle

`JsonCalls` is what the header promises a caller: each call is answered once, by a
report or by an error that its own arguments, a panic in it or the wrapper
account for.  `FfiLifecycle` is the code in three platforms.  With *c* the library
is linked and the caller calls the functions of the header; the static build of
the Swift package is the same.  With *swift* each kit opens the library,
looks up its symbols and closes it again where one is missing; `DropKit` closes
it with the last reference.  With *android* `SDTrustKitNative.load` runs under a
lock.  `Outcome` reads the arguments in the order of `ffi_json_string`; that one of
the values of the options cannot be converted (`ffi.rs:240-426`) is one flaw,
*badValue*.  The JSON the library writes contains no NUL, because control
characters are escaped; the branch for it (`ffi.rs:217`) never runs.

## Runs

| Run | Question | Bounds |
|---|---|---|
| `signature_validation` | do verdict and level say what the facts earn? | a sound signature and a sound document timestamp with up to three aspects changed, and up to two changes of a legacy RSA-SHA1 signature |
| `document_validation` | do filter, pairing and aggregation lose or invent a doubt? | up to three dictionaries, each with at most one defect, every tail, with and without the revocation pass |
| `trust_chain` | is what the walk shows a path, and what does it find? | four certificates, two issuer names besides the leaf's, at most one defective certificate, every split into bag and anchors |
| `revocation` | is a definite answer backed by evidence, and does the right piece decide? | four times; up to two responses, one a good one or one of about thirty variations of it, the other one of five, in either order, cached or embedded, with and without a trusted timestamp; up to three distribution points and two lists |
| `pdf_revisions` | are changes seen, is maintenance left alone, does what was signed stay? | 12 files (spaced or not, form in the catalog or not; page tree packed or not, also where its offset hides one later version or all of them; catalog packed or not), a signature and up to three more updates of 7 kinds of maintenance and 10 kinds of edits; some 46 000 states |
| `field_tree` | does the walk end and find each field once, and all of them? | three fields and lists of kids that cycle, meet or are missing, one field written twice |
| `ffi_lifecycle` | do strings and library stay with the calls that use them? | two threads, two kits, two addresses, four kinds of calls, all three platforms |
| `trusted_list` | are the anchors of a time those of the services that held a good status then? | two services, three certificates, a good and a bad status, two changes for each service, four times; symmetry of the services and of two certificates |
| `der_normalization` | does one canonical element come out, and is nothing else read? | bytes of three bits: all inputs of up to five bytes and longer ones that open a constructed element; a word of 64 |
| `red_is_red`, `rewrite_is_failure`, `embedded_evidence_counts` | one statement of a document each (below) | one changed aspect; as `pdf_revisions` with two updates after the signature and one kind of edit; as `revocation` |

Three changed aspects suffice because every property of the pipeline relates at
most two failures and the condition that orders them (a failure, what dominates
it, and what switches a stage off).  Three dictionaries are the least with which
a signature has both an earlier and a later neighbour, and with which positions
in the filtered lists differ from positions in the file.  Four certificates
allow a path of full length, a cycle and a same-named decoy.  Two responses are
the least with which one comes before or after another, and each variation fails
one condition of the loop; four times give every interval of a response or a
list a before, a within and an after.

A signature and three more updates are the least with which validation data is
added, extended, and followed or preceded by an edit.  Three fields allow a
cycle, a field with two parents and an order of the visits in which the type is
inherited along one path only.  Two threads, kits and addresses let one thread
be anywhere in a call while another reuses its address or closes its library.
With bytes of three bits a length can be short, long with one or two bytes, and
unknown, a tag one byte or more, and elements nest twice in five bytes; a word
of 64 is overflown by lengths of two bytes but not by the inputs themselves,
which is how 32-bit words relate to lengths of four bytes.

Every run says `CHECK_DEADLOCK FALSE`: a validation is a function call and is
over when it has returned, and an environment stops at the bounds of its run.

Fairness is `WF_vars(Next)` in the path search and the walk through the fields,
and `WF_vars(Check)` in Revocation: a function call that can take its next step takes
it, and nobody has to call again.  In FfiLifecycle it is `WF_vars(Call(c))` for each
thread: a thread that has called goes on, while nobody has to open, share, drop
or call.  `Terminates` then says that certificates that certify one another in a
circle do not trap the search, that evidence which cannot be used is left
behind, and that fields below themselves do not trap the walk; `CallsEnd`, that
every call returns to its thread, whatever the others do meanwhile.  The stages
of a validation follow one another without a loop; there is nothing to say of
them.

### What the properties say

* `ValidIsEarned`, `EarnedIsValid`: *valid* exactly for signatures all of whose
  checked facts are good.  Both directions matter: the first would break if some
  early return or switched-off stage skipped a check, the second if an absent
  optional part (no timestamp, no signed attributes) raised a doubt.
* `LevelIsEarned`: the level equals one computed from the facts, also after
  `refresh_preservation`, which takes the old level for the baseline test.
* `VerdictMatchesStandards`: hand-written verdicts agree with the steps.
* `WarningIsEarned`: *warning* exactly for a signature or token whose timestamp is
  present and sound but without configured trust, and that nothing else speaks
  against: bytes, profile, chain, usage, coverage.  The validity and the revocation
  of the signer are not in this list, because the code does not look at them once
  the first warning is about a timestamp; what follows is said below.
* `ExcusedOnlyByTrustedTime`, `RevocationNeverImproves`: the revocation pass.
* `DocumentValidIffEarned`, `BrokenSignatureShows`, `RevocationIsOwn`,
  `ArchivalIsEarned`, `RevocationNeverImprovesDocument`: the same for documents.
* `LoopBoundSuffices`, `UniqueIssuersComplete`, `PreferredIssuerFound`,
  `ImplementsTrustPath`: the path search.
* `ImplementsRevocationEvidence`: *good* and *revoked* are backed by a response or
  a list that is about this certificate, signed by its issuer or a responder the
  issuer appointed, and recent enough, for the clock or for the trusted time.
* `UnusableEvidenceIsInert`: the answer is the one `Outcome` reads off the
  evidence without any loop, so what cannot be used neither decides nor hides
  what comes after it.
* `ArchivedEvidenceLasts`: with a trusted timestamp and evidence from the file
  only, validating later never changes the answer.
* `NoFalseAlarm`, `MaintenanceRecognised`: signing again, document timestamps,
  validation data and metadata never make a signature look modified, and
  validation data is recognised as such.  The latter asks for a catalog that is
  an object of its own: a catalog in an object stream is not found in the signed
  revision, and its update is a coverage warning (`pdf.rs:210-230`).
* `QuietMeansSameText`: what is accepted without a failure or a warning shows the
  *text* that was signed: page tree, page, what it draws, catalog and signature
  values, without the bodies of streams.  It is not a claim that the document is
  unchanged.  Four ways around the comparison are left out, each named in the
  formula or in `Text`: the bodies of streams, which are not compared; tails that
  mention a VRI, which are not looked at; objects that pass for document
  information, which are excused; and objects in object streams, where
  comparisons see no change and, depending on the offset, the page count may be
  that of an older version.  See below for what the first
  three let through.
* `SignatureKept`: no copy, orphan or later dictionary displaces a signature.
* `EvidenceStays`: OCSP responses stay in use when a later DSS no longer names
  them.
* `FoundOnce`, `FoundIsSound`, `FoundIsComplete`: the walk through the fields.
  Two fields for one signature are a failure, so finding one field twice would
  be a false alarm.  Where `/Kids` meet, a field may be reached first along a
  path that does not hand down the type, and is then not found; completeness is
  claimed for trees, and for fields that say themselves what they are.
* `AnchorsAreHolders`, `FiltersAgree`, `PastIsSettled`: at every second before
  the fetch the anchors are those of the services with a good status, in both
  calendars, and nothing that happens later changes them.
* `Canonical`, `ReaderTakesAll`, `ReadsInside`: the normaliser against X.690
  written as a set of forms, against the reader behind it, and against the
  limits of the elements.
* `HeapIsOwned`, `LibraryStays`, `ImplementsJsonCalls`, `CallsEnd`: calls.

RSA-SHA1 digests are an exception in four of them: the code gives them two
hand-written verdicts that differ from the one of their steps
(`lib.rs:570-576`, `report.rs:579-589`).

### Where code and documentation disagree

| Run | Statement | Code |
|---|---|---|
| `red_is_red` | `docs/xcframework-distribution.md:112-119`: the verdict is the badge colour, and red means, among others, revoked before signing | a revocation is an indeterminate result (`report.rs:600`): a signature whose signer was revoked before the time of a trusted timestamp is inconclusive, that is yellow |
| `rewrite_is_failure` | `docs/pdf-generator-dss-gap-analysis.md:139-142`: a revision with validation data that redefines an object with changed content is a failure | a tail that mentions a VRI is not looked at (`pdf.rs:279`) |
| `embedded_evidence_counts` | `kotlin/SDTrustKit/README.md:95-97`: embedded OCSP evidence is evaluated without an external cache entry | without a cache entry `nowUnixSeconds` may be missing; the check then runs in 1970 and rejects the response as not valid yet (`ffi.rs:274`) |

Met while modelling, without a run of their own:

* The first warning decides between *warning* and *inconclusive*
  (`report.rs:541-547`), and a failed `RevocationSigner` is merely indeterminate
  (`:600`).  With a timestamp of an untrusted authority a revoked signer is
  therefore a *warning*, as is one whose status is unavailable or whose certificate
  had expired: `WarningIsEarned` holds in `signature_validation` with neither
  validity nor revocation in its condition.  `docs/pdf-generator-dss-gap-analysis.md:474-476`
  says that such results are not "flattened into unrelated timestamp warnings".
* `RewriteIsFailure` fails for two more reasons than its run shows; TLC finds them
  with `Edits = {"stream"}` or `Edits = {"title"}` in `RewriteIsFailure.cfg`.  Objects
  are compared without the bodies of their streams (`pdf.rs:1357`, `:1573-1585`,
  `:2180-2202`), so that a page may draw something else; and an object with a name
  like `/Title` anywhere in its text is taken for document information and excused
  (`pdf.rs:289`, `:1796-1811`), also a page tree.
* An untrusted chain makes a mismatch of the signature value inconclusive
  (`report.rs:575`); `docs/sd-trust-kit-migration.md:207-210` calls a mismatch red.
* An RSA-SHA1 digest in `adbe.pkcs7.sha1` makes a modified document inconclusive
  (`lib.rs:570`); `docs/xcframework-distribution.md:127` says modification remains
  red.
* The walk takes the first acceptable issuer and never goes back (`trust.rs:162`),
  while the message says that there is no path (`timestamp.rs:181`).
* Any trusted document timestamp earns the archival level (`report.rs:350`), also
  one from before the signature it is said to protect (`report.rs:439`,
  `docs/sd-trust-kit-migration.md:221-222`).

## Proofs

`SignatureValidationProofs` proves, for every set of documents, `TypeCorrect` and
what the run checks: `ValidReportsAreEarned`, `EarnedReportsAreValid`,
`LevelsAreEarned`, `VerdictsMatchStandards`, `WarningsAreEarned`,
`RevocationsAreExcusedByTrustedTime` and `RevocationOnlyWorsens`.  `ValidIsEarned` is
not inductive: it says nothing about reports that are not finished.  The
invariant `CleanInv` adds, for each stage, what is known about the document *if
no step so far failed or warned* (`CleanEstablishes`), and that a valid verdict
means a clean list of steps; the lemma `ValidIsClean` is the link between
`VerdictFor` and clean lists.

The other theorems are about reports with doubts as well, and need the stronger
`ReportInv`, which speaks of the steps of any report.  `Truthful`: no step says of
the document what is not so.  `Unflawed`: what a stage may rely on as long as no
step so far speaks against the level.  `Complete`: which steps cannot be missing
once their stage is over.  These three look at the set of the steps.  `Ordered`
adds what their order tells: the verdict depends on the first failure and the
first warning, so that `Settled` names, for each stage, the doubt that can no
longer be displaced.  `VerdictOf` ties the verdict to `VerdictFor`, with the
verdicts written by hand as exceptions, and `EarnedLevel` the level to the facts.

`DocumentValidationProofs` proves, for every set of files and any number of
dictionaries, `ValidDocumentsAreEarned`, `BrokenSignaturesShow`, `RevocationsAreOwn`,
`ArchivalLevelsAreEarned` and `RevocationOnlyWorsensDocument`.  The reports carry
no reference to the dictionary they are about; the code relies on their order.
`FileInv` restores the reference by counting (`CountTo`): the report of the
signature at position *i* has the number of signatures up to *i*.  `Collected`
says that of every report so far, together with what `ReportTells`, the part of
`ReportInv` about a finished report, says of its dictionary; the lemmas of the
section on positions show that the numbers are unique, leave no gap and are
those that `ElementsAt` gives, which is why the pass pairs what belongs together.
While a dictionary is validated `ReportInv` holds of it, by the proofs about
single signatures.  `AggregateIs` says that the aggregated verdict is one of those
considered and none is more severe.  That an untrusted chain leaves out the
document timestamps loses no doubt in a valid document, because a report with
that warning is not valid; and since the pass adds no such warning, both
aggregations consider the same reports (`PassWorsens`).

`TrustChainProofs` proves, for every number of certificates and every set of
worlds, `SearchTypeCorrect`, `LoopBoundAlwaysSuffices`,
`SearchImplementsTrustPath`, `UniqueIssuersAreComplete` and
`PreferredIssuersAreFound`.  The invariant `SearchInv` says that the chain is a
walk of distinct certificates of the universe, each issued by the next and none
but perhaps the last trusted itself, and that it is one longer than the number
of rounds; distinctness bounds the rounds by the number of certificates.  That
`CHOOSE` in `FirstIssuer` finds a least candidate rests on a least-element lemma
for sets of naturals.  For completeness, `CompleteInv` says that without
ambiguity the chain is the beginning of every path there is, so that a search
that gives up shows there was none.  `PreferredInv` says which certificates the
chain cannot have passed by: where a preferred anchor issued the leaf, the
search took a preferred anchor.

`RevocationProofs` proves, for every set of worlds and every number of responses,
lists and times, `CheckTypeCorrect`, `CheckImplementsRevocationEvidence`,
`UnusableEvidenceIsAlwaysInert` and `ArchivedEvidenceAlwaysLasts`.  The
refinement needs type correctness only: each returning action shows the piece of
evidence that backs its answer.  For the order of evidence the invariant
`LoopInv` says that no response, or no list, before position `next` can be used,
and that the loop over the lists is entered only after no response decided.  For
archived evidence `ArchiveInv` adds that the answer so far is what the embedded
responses say at any time; that a world has at most one such answer follows from
the uniqueness of the first usable response and of the first match in it.

`PdfProofs` proves two things.  Of the walk, for every form: `FieldsAreFoundOnce`,
`FoundFieldsAreSound` and `FoundFieldsAreComplete`.  `FoundInv` adds to `FoundOnce`
that what is found has been visited.  `WalkInv` is the usual invariant of a
search with a list of pending calls: what is pending or visited can be reached
(`WalkIsSound`), and what can be reached has been visited or is below a pending
call (`WalkIsComplete`), with the type that the path to it hands down.  What can be
reached is defined by a recursive function that adds the kids as often as there
are objects; `ClosureIsReach` proves that it is the least set closed under kids.
Instead of an induction theorem, which these provers cannot instantiate, it
names a function that satisfies the recursion and shows with a least
counterexample that there is no other (`GrowthIsDetermined`).

Of files that grow, for any well-formed base, any number of updates and any order
of them: `NoFalseAlarmEver`, `MaintenanceAlwaysRecognised`,
`QuietMeansSameTextEver`, `SignatureKeptForever` and `EvidenceStaysForever`.  The
first step is `IsOneOf`: whatever an update appends is a new object, a version of
an object of the file or a copy, and of each kind of update it says what a version
may change.  `AppendedKeeps` shows that files stay well-formed.  From there the
invariants speak of objects, no longer of writers.

* `PdfInv` (theorem `PdfInvariant`): all catalogs name one page tree
  (`OnePageTree`), after a catalog of its own none is packed
  (`DirectCatalogsLast`), only signature fields have values
  (`OnlyFieldsHaveValues`), each dictionary has the data of an update that signed
  and stands after it (`DictionariesFrom`), and the dictionary and the field of
  that update are where it wrote them (`SigningsKept`).  The properties are not
  inductive without them: that a copy does not displace a dictionary needs its
  place, that a field does not change hands needs its number to be its own.
* `TailsKept` (theorem `TailsInvariant`) says, for each signature, what was
  appended after it: its revision is well-formed, after updates that maintain no
  object of it was written again but those that updates may write (`Maintained`),
  and without a further signature the rest is a catalog that adds a DSS, a DSS,
  document information or new (`Quiet`).
* `MarksKept` (theorem `MarksInvariant`) says that updates with validation data left
  a catalog or a DSS behind by which the check can tell.
* `AllCast`, `ValuesAreSignatures` and `NonePlainAgain` (theorem `CastInvariant`)
  say what the scans see: a form, a field or a part of the page tree does not look
  like a DSS, a signature field has a signature for its value, and
  an object that is written again after a signature is more than evidence.

`NoFalseAlarmEver` then goes through the checks for changes.  A tail with a further
signature is excused from `later_validation_data_revision_changes_existing_object`,
and that this signature is among the usable ones is `LaterSignatureSeen`.
`MaintenanceAlwaysRecognised` sorts the objects of the tail as the code does; that
the ids the references start from are among those they lead to is
`SeedIsReached`.

`QuietMeansSameTextEver` is the converse, about edits as well.  A signature that
is accepted quietly has no tail, or one that passes `Disallowed` and
`ChangesPrior` (`IsAccepted`).  The lemma `TailSpares` goes through the ways in
which an object can pass both: it is the catalog and equal but for the additions,
it has the same text as before, or it looks like metadata or a DSS and then is
neither in the form nor in the page tree: for a DSS by `CastInvariant`, for
metadata by the condition of the property (`IsCandid`), which a *title* edit
breaks.  In each case it spares the text of the version it replaces (`Spares`).
So catalog, page tree, page and what it draws have the text that was signed, and
every object has the kids, the type and the value it had in the form
(`KeepsForms`).  That the two forms then lead to the same fields (`SameValues`)
uses once more that the closure is the least set closed under kids: each of the
two closures is closed under the kids of the other's objects.

`FfiLifecycleProofs` proves, for any number of threads, kits and addresses,
`StringsAreOwned`, `LibraryAlwaysStays` and `LifecycleImplementsJsonCalls`.
`CallInv` says where the string and the copy of a call are in each place of the
call; with it a string that is given back is never the one another call still
reads.  `LibraryInv` says that the library is open once for each kit that is
referred to or being opened (`Held`, a statement about cardinalities), or, for
Android, loaded if that is recorded, and that a call holds its kit.

`TrustedListProofs` proves `AnchorsAreAlwaysHolders`, `FiltersAlwaysAgree` and
`PastIsAlwaysSettled` for any services, types, statuses and histories.  `IInv`
consists of `Record` and `Clock` (the statuses of a service follow one another in
time, up to now), `CacheTells` and `OptionsTell` (what cache and options say of a
time before the fetch is what the lists say of it) and `Entries`.

`DerNormalizationProofs` proves `AlwaysReadsInside` and `ReaderAlwaysTakesAll` for
every input, word and size of a byte.  The invariant of the first adds what each
place in the reading knows: how many bytes of a length are still within the
limit, and that the frames are nested.  For the second, what has to be bounded
is the length that is written, which is not known until all children are.
`SizeInv` grants each element `MaxLengthBytes` for its new length when its tag is
read, so that `n` bytes of input become at most `Budget(n)` bytes, and the stack
keeps account of what was granted (`Contents`, `Costs`, `Affordable`).  What the
digits of a length are worth (`Digits`, `Value`) follows from their recursion by
a least counterexample.

Assumptions, all of them named and evaluated by TLC in the runs:
`DocumentsAssumption` and `FilesAssumption` (documents and files are what the
stages expect), `PositionsAssumption` (a document may stand anywhere: where a
dictionary stands follows from the others, `lib.rs:120-150`), `NAssumption`,
`WorldsAssumption`, `LastTimeAssumption`, `UrlAssumption` (the fallback list has
an address; a cache comes with a clock, as `ffi.rs:268-273` demands),
`OffsetAssumption`, `NoneAssumption`, `MaxTimeAssumption`, `MaxChangesAssumption`
and `DefaultsAssumption` (numbers are numbers, the absent time is none),
`PreferredAssumption` (the preferred anchors are anchors: `lib.rs:714-717` takes
them from the same sets), `RevisionsAssumption` (revisions are sequences of
objects), `BasesAssumption` (before it is signed a file is well-formed, has one
catalog and nothing in it belongs to a signature or to validation data: numbers
from 1 on, references that lead to objects of the kind that is expected there,
objects that keep their kind when written again; its catalog names the form),
`KindsAssumption` (the kinds of updates), `InputsFit` (an input is small enough
for a length of four bytes at the size it can grow to, that is up to 2^32/5 bytes;
beyond that `encode_asn1_length` writes lengths of five bytes, which the reader
refuses), `HalfAssumption`, `LengthBytesAssumption`, `TagsAssumption`,
`WordAssumption` and `InputsAssumption` (bytes and words), `NothingAssumption`,
`RequestsAssumption` and `KitsAssumption` (finitely many kits).

Only model-checked: `Canonical`, which compares with the forms of an element, and
those are defined by recursion over the bytes.  What such a definition computes for
every input needs an induction over data, for which the installed provers have no
rule; the detours taken for `ClosureIsReach` and `Digits` do not carry over to a
recursion over intervals that branches.  Liveness (`Terminates`, `CallsEnd`) is out
of the provers' reach.

## Plan

Done: Report, SignatureValidation, Certificates/TrustPath/TrustChain,
DocumentValidation, Evidence/RevocationEvidence/Revocation, PdfObjects/FieldTree/
PdfRevisions, TrustedList, DerNormalization, JsonCalls/FfiLifecycle with their
runs; the theorems above.

Next, in this order:

1. A composition of Revocation with `append_revocation_step`: which certificates
   of the signature and the chain become issuers, and what the revocation time
   means for the step.
2. `CmsSignedData`: the certificate of a signer, attributes, and what parsing does
   where it meets a malformed element.

## Not modelled

* CMS (`cms.rs`): parsing without state or order of its own; what it finds is a
  fact of the document in SignatureValidation.  An element that is malformed
  ends a loop over a set without an error; that such a set is shorter is one of
  those facts.
* Cryptography (`crypto.rs`): arithmetic on big integers, done by libraries; a
  verification succeeds or not.
* Syntax below the facts above: tokens, streams, filters and encryption of PDF,
  object identifiers and times of DER, base64 and JSON.
* Wording of the report, certificate details for display, the message that
  explains an unavailable revocation status, loading of caches from a directory.
* The command line, the scripts, the build and the tests.

The facts are free of each other except where the code excludes a combination;
the MC modules' `Possible` names these.

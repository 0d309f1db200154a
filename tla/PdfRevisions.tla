----------------------------- MODULE PdfRevisions ------------------------------
(***************************************************************************)
(* A PDF file grows by revisions, and what rust/sd_trust_kit/src/pdf.rs    *)
(* says of each signature in it: which dictionaries count, whether what    *)
(* was appended after a signature is validation data, and whether it       *)
(* changes what was signed.  The writers of PDF files are the environment. *)
(* Faulty... operators are slips this code could contain; no definition    *)
(* uses them.                                                              *)
(***************************************************************************)
EXTENDS PdfObjects

CONSTANTS
  Bases,        \* the files before they are signed
  Maintenance,  \* the kinds of updates that leave what was signed alone
  Edits,        \* the kinds of updates that change it
  MaxUpdates    \* bound: how many updates a file gets

VARIABLES
  file,      \* the objects of the file, from front to back
  updates    \* what was appended, each with the size of the file before

vars == <<file, updates>>

Prefix(f, size) == SubSeq(f, 1, size)
Suffix(f, size) == SubSeq(f, size + 1, Len(f))

-----------------------------------------------------------------------------
(* Signature dictionaries.  A dictionary is the place of its object; its   *)
(* number is the end of its byte range and its text the CMS.               *)

IsDictionary(o) == IsDirect(o) /\ "ByteRange" \in o.names
AllDictionaries(f) == {d \in DOMAIN f : IsDictionary(f[d])}

SameData(a, b) == a.number = b.number /\ a.text = b.text

\* Slip: of several copies the last is kept.
FaultyDictionaries(f) ==
  {d \in AllDictionaries(f) :
     \A other \in AllDictionaries(f) : SameData(f[other], f[d]) => other <= d}

\* parse_all: of several copies the first is kept.
Dictionaries(f) ==
  {d \in AllDictionaries(f) :
     \A other \in AllDictionaries(f) : SameData(f[other], f[d]) => d <= other}

SignedSize(f, d) == f[d].number
Signed(f, d) == Prefix(f, SignedSize(f, d))
Later(f, d) == Suffix(f, SignedSize(f, d))
HasLater(f, d) == SignedSize(f, d) < Len(f)

IsDocumentTimestamp(f, d) == IsTimestampDictionary(f[d])

HasFieldReference(f, d) == f[d].id \in Values(f) \/ f[d].id \in Values(Signed(f, d))

IsOrphan(f, d) ==
  /\ d > SignedSize(f, d)
  /\ Values(f) \cup Values(Signed(f, d)) # {}
  /\ ~ HasFieldReference(f, d)

RefersToItself(f, d) ==
  \E field \in FieldsOf(f, f[d].id) : field \in Kids(Latest(Direct(f), field))

\* usable_signature_dictionaries, as far as the structure of the file decides it.
Usable(f) ==
  LET all == Dictionaries(f)
      candidates == {d \in all : ~ RefersToItself(f, d)}
      orphansLeftOut ==
        (\E d \in all : HasFieldReference(f, d)) /\ Cardinality(candidates) > 1
  IN  {d \in candidates : ~ (orphansLeftOut /\ IsOrphan(f, d))}

\* Signatures are validated in the order of their revisions.
HasLaterSignature(f, d) == \E other \in Usable(f) : SignedSize(f, other) > SignedSize(f, d)
IsLast(f, d) ==
  \A other \in Usable(f) :
    \/ SignedSize(f, other) < SignedSize(f, d)
    \/ SignedSize(f, other) = SignedSize(f, d) /\ other <= d

-----------------------------------------------------------------------------
(* later_revision_looks_like_validation_data_only                          *)

Mentions(objects, name) == \E i \in DOMAIN objects : IsDirect(objects[i]) /\ HasName(objects[i], name)

OnlyValidationData(signed, tail) ==
  LET prior == Direct(signed)
      objects == ToSet(tail)
      catalogs == {o \in objects : CatalogOnlyAddsDss(o, prior)}
      others == objects \ catalogs
      metadata == {o \in others : LooksLikeMetadata(o)}
      new == {o \in others \ metadata : ~ Holds(prior, o.id)}
      dss == {o \in others \ (metadata \cup new) : LooksLikeDss(o)}
      allowed == Closure(objects, (UNION {References(o) : o \in catalogs}) \cup {o.id : o \in dss},
                         References)
      accepted == {o.id : o \in catalogs \cup metadata \cup new} \cup allowed
  IN  /\ tail # <<>>
      /\ Mentions(tail, "DSS")
      /\ \A o \in others : ~ Disallowed(o)
      /\ catalogs \cup dss # {}
      /\ \A o \in objects : o.id \in accepted

-----------------------------------------------------------------------------
(* The checks for changes after the signed revision.                       *)

\* later_validation_data_revision_changes_existing_object
RewritesObject(signed, tail) ==
  LET prior == Direct(signed)
      later == Direct(tail)
  IN  /\ Mentions(tail, "DSS")
      /\ ~ Mentions(tail, "VRI")
      /\ \E o \in ToSet(later) :
           /\ ~ CatalogOnlyAddsDss(o, prior)
           /\ ~ CatalogOnlyAddsMaterial(o, prior, later)
           /\ ~ UpdatesDss(o, prior)
           /\ ~ LooksLikeMetadata(o)
           /\ ChangesPrior(o, prior)

DictionaryChanged(f, d) ==
  /\ Holds(Direct(Signed(f, d)), f[d].id)
  /\ Holds(Direct(Later(f, d)), f[d].id)
  /\ ~ SameText(Latest(Direct(Signed(f, d)), f[d].id), Latest(Direct(f), f[d].id))

HasShadowCopy(f, d) ==
  \E other \in AllDictionaries(f) :
    f[other].id # f[d].id /\ other > SignedSize(f, d) /\ SameData(f[other], f[d])

FieldChanged(f, d) ==
  \E field \in FieldsOf(Signed(f, d), f[d].id) :
    /\ Holds(Direct(Later(f, d)), field)
    /\ FirstRef(Latest(Direct(f), field), "V") # f[d].id

PageCountChanged(f, d) ==
  /\ PageCount(Signed(f, d)) # NoCount
  /\ PageCount(f) # NoCount
  /\ PageCount(Signed(f, d)) # PageCount(f)

HasSeveralFields(f, d) == Cardinality(FieldsOf(Signed(f, d), f[d].id)) > 1

\* The change of validation data is looked for in the last revision only.
RewriteSeen(f, d) ==
  /\ ~ IsDocumentTimestamp(f, d)
  /\ HasLater(f, d)
  /\ RewritesObject(Signed(f, d), Later(f, d))
  /\ ~ HasLaterSignature(f, d)

\* Some step of the signature's report fails for what was appended.
Modified(f, d) ==
  \/ RewriteSeen(f, d)
  \/ HasLater(f, d)
     /\ (DictionaryChanged(f, d) \/ HasShadowCopy(f, d) \/ FieldChanged(f, d)
         \/ PageCountChanged(f, d))
  \/ HasSeveralFields(f, d)

HasOnlyValidationData(f, d) ==
  HasLater(f, d) /\ ~ RewriteSeen(f, d) /\ OnlyValidationData(Signed(f, d), Later(f, d))

\* The coverage step of the last dictionary is a warning.
CoverageWarned(f, d) ==
  HasLater(f, d) /\ ~ HasOnlyValidationData(f, d) /\ IsLast(f, d)

-----------------------------------------------------------------------------
(* embedded_ocsp_responses: what the references of any revision lead to    *)
(* now.                                                                    *)

\* pdf_object_binary_value: the body of a stream, or a string.
BinaryValue(o) == <<o.text, o.stream>>

\* Slip: only the objects in force are looked at.
FaultyEvidenceObjects(f) ==
  {o \in InForce(f) : HasAnyName(o, {"DSS", "VRI", "OCSPs", "OCSP"})}

EvidenceObjects(f) == {o \in ToSet(f) : HasAnyName(o, {"DSS", "VRI", "OCSPs", "OCSP"})}

EmbeddedOcsp(f) ==
  {BinaryValue(Latest(Direct(f), id)) :
     id \in {x \in UNION {ToSet(RefsAfter(o, "OCSPs")) \cup ToSet(RefsAfter(o, "OCSP")) :
                            o \in EvidenceObjects(f)} : Holds(Direct(f), x)}}

-----------------------------------------------------------------------------
(* The writers.  An update appends new versions of objects and new objects *)
(* with numbers of their own.                                              *)

Numbers(f) == {f[i].id : i \in DOMAIN f}
Fresh(f, k) == Cardinality(Numbers(f)) + k

\* The version a reader of PDF files would use.
Version(f, id) == Latest(f, id)
CatalogOf(f) == f[Max(Catalogs(f))]
PagesOf(f) == Version(f, FirstRef(CatalogOf(f), "Pages"))
PageOf(f) == Version(f, FirstRef(PagesOf(f), "Kids"))
DrawingOf(f) == Version(f, FirstRef(PageOf(f), "XObject"))
InfoOf(f) == f[CHOOSE i \in DOMAIN f : "ModDate" \in f[i].names]

New(id, type, names, links) ==
  [id |-> id, type |-> type, names |-> names, links |-> links,
   number |-> 0, text |-> 0, stream |-> 0, spaced |-> TRUE, packed |-> 0]

WithRefs(o, name, ids) ==
  [o EXCEPT !.packed = 0,
            !.links = [n \in DOMAIN @ \cup {name} |-> IF n = name THEN ids ELSE @[n]]]
Reworded(o) == [o EXCEPT !.text = @ + 1]

\* The object that lists the fields: the form, or the catalog it is in.
FormOf(f) ==
  LET form == FirstRef(CatalogOf(f), "AcroForm")
  IN  IF form = NoReference THEN CatalogOf(f) ELSE Version(f, form)
WithField(f, field) ==
  WithRefs(FormOf(f), "Fields", Append(RefsAfter(FormOf(f), "Fields"), field))

\* A signature over everything up to its own revision, and a field for it.
SignatureObjects(f, type, names) ==
  LET signature ==
        [New(Fresh(f, 1), type, names \cup {"ByteRange", "Contents"}, << >>)
           EXCEPT !.number = Len(f) + 3, !.text = Len(f)]
      field == New(Fresh(f, 2), NoType, {"Sig", "Widget"}, [V |-> <<signature.id>>])
  IN  <<signature, field, WithField(f, field.id)>>

DssOf(f) == Version(f, FirstRef(CatalogOf(f), "DSS"))
HasDss(f) == FirstRef(CatalogOf(f), "DSS") # NoReference
Response(f, id) == [New(id, NoType, {}, << >>) EXCEPT !.stream = Len(f)]
DssCatalog(f) ==
  [WithRefs(CatalogOf(f), "DSS", <<Fresh(f, 1)>>) EXCEPT !.names = @ \cup {"Extensions"}]
DssObjects(f, names) ==
  <<DssCatalog(f),
    New(Fresh(f, 1), "DSS", names, [OCSPs |-> <<Fresh(f, 2)>>]),
    Response(f, Fresh(f, 2))>>
ExtendedDss(f, kept) ==
  <<WithRefs(DssOf(f), "OCSPs", Append(kept, Fresh(f, 1))), Response(f, Fresh(f, 1))>>

FirstSignature(f) == f[CHOOSE d \in AllDictionaries(f) : \A e \in AllDictionaries(f) : d <= e]
FieldOf(f) ==
  Version(f, CHOOSE id \in {o.id : o \in {x \in ToSet(f) : "Sig" \in x.names}} :
                   \A o \in {x \in ToSet(f) : "Sig" \in x.names} : id <= o.id)

\* What each kind of update appends to a file.
Appended(f, kind) ==
  CASE kind = "sign"       -> SignatureObjects(f, "Sig", {})
    [] kind = "timestamp"  -> SignatureObjects(f, "DocTimeStamp", {"ETSI.RFC3161"})
    [] kind = "dss"        -> DssObjects(f, {})
    [] kind = "vri"        -> DssObjects(f, {"VRI"})
    [] kind = "extend"     -> ExtendedDss(f, RefsAfter(DssOf(f), "OCSPs"))
    [] kind = "renew"      -> ExtendedDss(f, << >>)
    [] kind = "metadata"   -> <<[Reworded(InfoOf(f)) EXCEPT !.packed = 0]>>
    [] kind = "page"       -> <<[Reworded(PageOf(f)) EXCEPT !.packed = 0]>>
    [] kind = "packed"     -> <<[Reworded(PageOf(f)) EXCEPT !.packed = 1]>>
    [] kind = "pages"      ->
         <<[WithRefs(PagesOf(f), "Kids", Append(RefsAfter(PagesOf(f), "Kids"), Fresh(f, 1)))
              EXCEPT !.number = @ + 1],
           [PageOf(f) EXCEPT !.id = Fresh(f, 1), !.packed = 0]>>
    [] kind = "stream"     ->
         <<DssCatalog(f), New(Fresh(f, 1), "DSS", {}, [Certs |-> <<DrawingOf(f).id>>]),
           [DrawingOf(f) EXCEPT !.stream = @ + 1, !.packed = 0]>>
    [] kind = "title"      ->
         <<[WithRefs(PagesOf(f), "Kids", [RefsAfter(PagesOf(f), "Kids") EXCEPT ![1] = Fresh(f, 1)])
              EXCEPT !.names = @ \cup {"Title"}],
           [New(Fresh(f, 1), "Page", {}, [XObject |-> <<DrawingOf(f).id>>])
              EXCEPT !.spaced = PagesOf(f).spaced]>>
    [] kind = "catalog"    -> <<[CatalogOf(f) EXCEPT !.names = @ \cup {"OpenAction"}, !.packed = 0]>>
    [] kind = "dictionary" -> <<[FirstSignature(f) EXCEPT !.names = @ \cup {"Reason"}]>>
    [] kind = "copy"       -> <<[FirstSignature(f) EXCEPT !.id = Fresh(f, 1)]>>
    [] kind = "swap"       ->
         <<New(Fresh(f, 1), "Sig", {"Contents"}, << >>),
           WithRefs(FieldOf(f), "V", <<Fresh(f, 1)>>)>>
    [] kind = "loop"       ->
         <<WithRefs(FieldOf(f), "Kids", <<FieldOf(f).id>>)>>

(* What every writer keeps to.                                             *)

\* The names that tell a signature, its field and the document information
\* from other objects without a type of their own.
RoleNames == {"ByteRange", "Sig", "ModDate"}

\* Written again, an object remains what it was.
Alike(o, p) ==
  /\ o.type = p.type
  /\ \A name \in RoleNames : name \in o.names <=> name \in p.names
  /\ "Fields" \in DOMAIN o.links <=> "Fields" \in DOMAIN p.links

\* Something only a list of evidence refers to.
IsPlain(o) ==
  /\ o.type \notin {"Catalog", "Pages", "Page", "XObject", "DSS"}
  /\ \A name \in RoleNames : name \notin o.names
  /\ "Fields" \notin DOMAIN o.links

Evidence(o) == ToSet(RefsAfter(o, "OCSPs")) \cup ToSet(RefsAfter(o, "OCSP"))

\* An object refers to objects of the file, and to what is expected there.
IsLinked(o, f) ==
  /\ References(o) \subseteq Numbers(f)
  /\ o.type = "Catalog" =>
       /\ RefsAfter(o, "Pages") # << >>
       /\ FirstRef(o, "AcroForm") = NoReference => "Fields" \in DOMAIN o.links
  /\ o.type = "Pages" => RefsAfter(o, "Kids") # << >>
  /\ o.type = "Page" => RefsAfter(o, "XObject") # << >>
  /\ \A p \in ToSet(f) :
       /\ o.type = "Catalog" /\ p.id = FirstRef(o, "Pages") => p.type = "Pages"
       /\ o.type = "Catalog" /\ p.id = FirstRef(o, "AcroForm") => "Fields" \in DOMAIN p.links
       /\ o.type = "Catalog" /\ p.id = FirstRef(o, "DSS") => p.type = "DSS"
       /\ o.type = "Pages" /\ p.id = FirstRef(o, "Kids") => p.type = "Page"
       /\ o.type = "Page" /\ p.id = FirstRef(o, "XObject") => p.type = "XObject"
       /\ p.id \in Evidence(o) => IsPlain(p)

\* A signature, a signature field, the document information and the form are
\* nothing else as well.
HasOneRole(o) ==
  /\ "ByteRange" \in o.names => o.type \in {"Sig", "DocTimeStamp"}
  /\ "Sig" \in o.names => o.type = NoType /\ "ByteRange" \notin o.names
  /\ "ModDate" \in o.names =>
       /\ o.type \notin {"Catalog", "Pages", "Page", "XObject", "DSS"} /\ ~ Disallowed(o)
       /\ o.names \cap {"ByteRange", "Sig"} = {}
  /\ o.names \cap RoleNames # {} \/ o.type \in {"Pages", "Page", "XObject", "DSS"} =>
       "Fields" \notin DOMAIN o.links

IsWellFormed(f) ==
  /\ f \in Seq(ToSet(f))
  /\ Numbers(f) = 1..Cardinality(Numbers(f))
  /\ \A o \in ToSet(f) :
       IsPdfObject(o) /\ IsLinked(o, f) /\ HasOneRole(o)
  /\ \A o, p \in ToSet(f) :
       /\ o.id = p.id => Alike(o, p)
       /\ o.type = "Catalog" /\ p.type = "Catalog" => o.id = p.id
  /\ \E o \in ToSet(f) : o.type = "Catalog"
  /\ \E o \in ToSet(f) : "ModDate" \in o.names

\* Nothing in the file belongs to a signature or to validation data.
IsUnsigned(f) ==
  \A o \in ToSet(f) :
    /\ ~ LooksLikeDss(o) /\ ~ IsTimestampDictionary(o)
    /\ ~ HasAnyName(o, {"ByteRange", "Sig", "V", "DSS"})
    /\ o.id \notin Kids(o)

ASSUME BasesAssumption ==
  \A f \in Bases :
    /\ IsWellFormed(f) /\ IsUnsigned(f)
    /\ \A o \in ToSet(f) : o.type = "Catalog" => HasName(o, "AcroForm")
    /\ \A i, j \in Catalogs(f) : i = j

ASSUME KindsAssumption ==
  /\ Maintenance \subseteq {"sign", "timestamp", "dss", "vri", "extend", "renew", "metadata"}
  /\ Edits \subseteq {"page", "packed", "pages", "stream", "title", "catalog", "dictionary",
                       "copy", "swap", "loop"}

-----------------------------------------------------------------------------
Init == file \in Bases /\ updates = << >>

Update(kind) ==
  /\ Len(updates) < MaxUpdates
  /\ kind # "sign" => updates # << >>
  /\ kind \in {"extend", "renew"} => HasDss(file)
  /\ file' = file \o Appended(file, kind)
  /\ updates' = Append(updates, [kind |-> kind, from |-> Len(file)])

Maintain == \E kind \in Maintenance : Update(kind)
Edit == \E kind \in Edits : Update(kind)
Next == Maintain \/ Edit

Spec == Init /\ [][Next]_vars

-----------------------------------------------------------------------------
(* Properties.                                                             *)

\* The kinds of updates from a size of the file on.
KindsFrom(size) == {updates[i].kind : i \in {k \in DOMAIN updates : updates[k].from >= size}}

\* Signing again, adding and extending validation data, document timestamps and
\* metadata never make a signature look modified.
NoFalseAlarm ==
  \A d \in Usable(file) : KindsFrom(SignedSize(file, d)) \subseteq Maintenance => ~ Modified(file, d)

\* A last revision that only adds or extends validation data, or metadata with
\* it, is recognised, provided the catalog it extends is an object of its own.
MaintenanceRecognised ==
  \A d \in Usable(file) :
    LET kinds == KindsFrom(SignedSize(file, d))
    IN  /\ kinds \subseteq {"dss", "vri", "extend", "renew", "metadata"}
        /\ kinds # {} /\ kinds # {"metadata"}
        /\ IsDirect(CatalogOf(Signed(file, d)))
        => ~ CoverageWarned(file, d)

\* The text of what a reader shows of a revision apart from validation data: the
\* page tree, the page and what it draws, the catalog and the values of the
\* signature fields.
Shown(f) ==
  [pages |-> Text(PagesOf(f)), page |-> Text(PageOf(f)), drawing |-> Text(DrawingOf(f)),
   catalog |-> Text(WithoutAdditions(CatalogOf(f))),
   signatures |-> {Version(f, v).names : v \in Values(f)}]

\* The objects of the page tree, what they draw, and those of the form.
IsShown(o) ==
  o.type \in {"Pages", "Page", "XObject"} \/ DOMAIN o.links \cap {"Fields", "Kids"} # {}

\* If the last signature is quietly accepted, what was appended to it shows the
\* text that was signed, as long as nothing is packed, no VRI is mentioned and
\* nothing that is shown passes for metadata.  Not so the bodies of streams,
\* which are not compared.  RewriteIsFailure, which does not hold, is what a
\* document claims of these cases.
QuietMeansSameText ==
  \A d \in Usable(file) :
    /\ IsLast(file, d) /\ ~ IsDocumentTimestamp(file, d)
    /\ ~ Modified(file, d) /\ ~ CoverageWarned(file, d)
    /\ \A o \in ToSet(file) : IsDirect(o)
    /\ ~ Mentions(Later(file, d), "VRI")
    /\ \A o \in ToSet(file) : LooksLikeMetadata(o) => ~ IsShown(o)
    => Shown(file) = Shown(Signed(file, d))

\* A signature that a field of its own revision names stays among those that are
\* validated, whatever is appended, unless that field is made its own child.
SignatureKept ==
  "loop" \notin KindsFrom(0) =>
    \A i \in DOMAIN updates : updates[i].kind = "sign" => updates[i].from + 1 \in Usable(file)

\* Evidence once in the file keeps counting when a later DSS no longer names it.
EvidenceStays == [][EmbeddedOcsp(file) \subseteq EmbeddedOcsp(file')]_vars

\* docs/pdf-generator-dss-gap-analysis.md:139-142: a later revision with a DSS
\* that redefines an existing object with changed content is a modification, be
\* it the page, the body of what it draws or the page tree.
RewriteIsFailure ==
  \A d \in Usable(file) :
    /\ ~ IsDocumentTimestamp(file, d) /\ ~ HasLaterSignature(file, d)
    /\ Mentions(Later(file, d), "DSS")
    /\ KindsFrom(SignedSize(file, d)) \cap {"page", "stream", "title"} # {}
    => Modified(file, d)
=============================================================================

------------------------------ MODULE PdfObjects ------------------------------
(***************************************************************************)
(* The objects of a PDF file as rust/sd_trust_kit/src/pdf.rs sees them: a  *)
(* file is scanned for indirect objects from front to back, and what an    *)
(* object is follows from the names and references its text contains.      *)
(* A file is a sequence of objects in the order of their bytes; a later    *)
(* revision appends objects, and an object written again has the same id.  *)
(***************************************************************************)
EXTENDS Naturals, Sequences, FiniteSets, SequencesExt

(* What the scans tell apart in the text of an object: its /Type, other    *)
(* names, the references that follow a name, the one number the checks     *)
(* read (/Count of a page tree, the end of a signature's byte range, which *)
(* no two signings share) and the rest of the text.  stream is the body of *)
(* its stream, which the scans leave out.  A spaced object separates names *)
(* by a space.  packed is 0 for an object of its own, else the place it    *)
(* has in a decoded object stream.                                         *)
IsPdfObject(o) ==
  /\ o \in [id : Nat \ {0}, type : {o.type}, names : {o.names}, links : {o.links},
            number : Nat, text : Nat, stream : Nat, spaced : {o.spaced}, packed : Nat]
  /\ o.links \in [DOMAIN o.links -> Seq(Nat \ {0})]

\* An object that has no /Type.
NoType == "none"

\* contains_pdf_name: a name counts as a key and as a value.
HasName(o, name) == name = o.type \/ name \in o.names \/ name \in DOMAIN o.links
HasAnyName(o, names) == \E name \in names : HasName(o, name)

\* The references after a name, and all references of an object.
RefsAfter(o, name) == IF name \in DOMAIN o.links THEN o.links[name] ELSE <<>>
References(o) == UNION {ToSet(o.links[name]) : name \in DOMAIN o.links}

-----------------------------------------------------------------------------
(* Scans.                                                                  *)

\* incremental_objects does not look into object streams; objects keep their places.
IsDirect(o) == o.packed = 0
Direct(objects) == Restrict(objects, {i \in DOMAIN objects : IsDirect(objects[i])})

Holds(objects, id) == \E i \in DOMAIN objects : objects[i].id = id

\* The last of the objects with this id, in the order of the file.
Latest(objects, id) == objects[Max({i \in DOMAIN objects : objects[i].id = id})]

\* Objects are Span bytes apart.
Span == 2

\* The order of incremental_objects_with_object_streams: by a position to which
\* the offset in the decoded stream is added; where two are equal the object of
\* its own comes first.
Start(objects, i) == Span * i + objects[i].packed
Precedes(objects, i, j) ==
  \/ Start(objects, i) < Start(objects, j)
  \/ /\ Start(objects, i) = Start(objects, j)
     /\ \/ IsDirect(objects[i]) /\ ~ IsDirect(objects[j])
        \/ (IsDirect(objects[i]) <=> IsDirect(objects[j])) /\ i < j

\* The last object in that order among those at the given places.
LastOf(objects, places) == objects[CHOOSE i \in places :
  \A j \in places \ {i} : Precedes(objects, j, i)]

\* The places of the objects latest_revision_objects leaves.
Current(objects) ==
  {i \in DOMAIN objects :
     /\ IsDirect(objects[i])
     /\ \A j \in DOMAIN objects : objects[j].id = objects[i].id /\ IsDirect(objects[j]) => j <= i}

\* The versions of the objects in force, in no order.
InForce(objects) == {objects[i] : i \in Current(objects)}

\* The object with an id among those, found or not.
IsInForce(objects, id) == \E o \in InForce(objects) : o.id = id
ObjectInForce(objects, id) == CHOOSE o \in InForce(objects) : o.id = id

\* What can be reached from the ids in seed through the given references of a
\* set of objects: references are followed until nothing is added.
Closure(objects, seed, Refs(_)) ==
  LET universe == seed \cup UNION {Refs(o) : o \in objects}
      reach[ids \in SUBSET universe] ==
        LET more == ids \cup UNION {Refs(o) : o \in {x \in objects : x.id \in ids}}
        IN  IF more = ids THEN ids ELSE reach[more]
  IN  reach[seed]

-----------------------------------------------------------------------------
(* The page tree and the form.                                             *)

NoReference == 0
FirstRef(o, name) == IF RefsAfter(o, name) = <<>> THEN NoReference ELSE RefsAfter(o, name)[1]

Catalogs(objects) == {i \in DOMAIN objects : objects[i].type = "Catalog"}

\* page_count: NoCount where there is no catalog, no page tree or no number.
NoCount == 0
PageCount(objects) ==
  LET pages == FirstRef(LastOf(objects, Catalogs(objects)), "Pages")
      versions == {i \in DOMAIN objects : objects[i].id = pages}
  IN  IF Catalogs(objects) = {} \/ versions = {} THEN NoCount
      ELSE LastOf(objects, versions).number

\* acroform_field_references: the form is an object of its own or in the catalog.
FormFields(objects) ==
  LET catalog == LastOf(objects, Catalogs(objects) \cap Current(objects))
      form == FirstRef(catalog, "AcroForm")
  IN  IF Catalogs(objects) \cap Current(objects) = {} THEN <<>>
      ELSE IF IsInForce(objects, form)
      THEN RefsAfter(ObjectInForce(objects, form), "Fields")
      ELSE RefsAfter(catalog, "Fields")

Kids(o) == ToSet(RefsAfter(o, "Kids"))
IsSignatureField(o) == "Sig" \in o.names

\* acroform_signature_fields as a set: the fields of the form and below with a
\* value that are, or are below, a signature field.  FieldTree walks through them.
FieldsOfForm(objects) == Closure(InForce(objects), ToSet(FormFields(objects)), Kids)
SignatureFields(objects) ==
  LET ids == FieldsOfForm(objects)
      fields == {o \in InForce(objects) : o.id \in ids}
      typed == Closure(fields, {o.id : o \in {x \in fields : IsSignatureField(x)}}, Kids)
  IN  {o.id : o \in {x \in fields : x.id \in typed /\ FirstRef(x, "V") # NoReference}}

\* The signature fields as they are in force, and the signatures they name.
FieldObjects(objects) ==
  LET ids == SignatureFields(objects) IN {o \in InForce(objects) : o.id \in ids}
Values(objects) == {FirstRef(o, "V") : o \in FieldObjects(objects)}

\* signature_field_ids_referencing_signature
FieldsOf(objects, signature) ==
  {o.id : o \in {x \in FieldObjects(objects) : FirstRef(x, "V") = signature}}

-----------------------------------------------------------------------------
(* Comparing two versions of an object.                                    *)

\* ascii_outside_streams: the scan of an object is its text without the body of
\* its stream.
Text(o) == [o EXCEPT !.stream = 0, !.packed = 0]

\* normalized_pdf_object_text leaves white space between the tokens as it is.
SameText(a, b) == Text(a) = Text(b)

\* Slip: /Extensions and /Version are taken for changes.
FaultyWithoutAdditions(o) ==
  [o EXCEPT !.links = Restrict(@, DOMAIN @ \ {"DSS"}), !.spaced = TRUE]

\* normalized_pdf_object_text_removing_dss
WithoutAdditions(o) ==
  [o EXCEPT !.links = Restrict(@, DOMAIN @ \ {"DSS"}),
            !.names = @ \ {"DSS", "Extensions", "Version"},
            !.spaced = TRUE]

\* pdf_object_text_removing_references
WithoutRefs(o, ids) ==
  [o EXCEPT !.links = [name \in DOMAIN @ |->
     SelectSeq(@[name], LAMBDA id : id \notin ids)]]

-----------------------------------------------------------------------------
(* What an object of a later revision may be.                              *)

DssNames == {"VRI", "Certs", "OCSPs", "CRLs", "OCSP", "CRL"}
MetadataNames ==
  {"Author", "CreationDate", "Creator", "Keywords", "ModDate", "Producer", "Subject", "Title"}
MarkerNames ==
  {"Annots", "Contents", "AcroForm", "OpenAction", "AA", "Names", "JavaScript", "JS", "Launch",
   "EmbeddedFiles", "RichMedia", "GoTo", "GoToE", "GoToR", "SubmitForm", "ImportData", "URI",
   "AF"}

\* has_disallowed_validation_tail_marker: types only where a space precedes them.
Disallowed(o) ==
  \/ HasAnyName(o, MarkerNames)
  \/ o.spaced /\ (o.type \in {"Page", "Pages", "ObjStm"} \/ "Widget" \in o.names)

LooksLikeDss(o) == o.type = "DSS" \/ HasAnyName(o, DssNames)

\* Slip: only the metadata stream is metadata.
FaultyLooksLikeMetadata(o) == ~ Disallowed(o) /\ o.type = "Metadata"

LooksLikeMetadata(o) ==
  ~ Disallowed(o) /\ (o.type = "Metadata" \/ HasAnyName(o, MetadataNames))
IsTimestampDictionary(o) == o.type = "DocTimeStamp" \/ "ETSI.RFC3161" \in o.names

\* Slip: the version before need not be the same but for the additions.
FaultyCatalogOnlyAddsDss(o, prior) ==
  o.type = "Catalog" /\ HasName(o, "DSS") /\ Holds(prior, o.id)

CatalogOnlyAddsDss(o, prior) ==
  /\ o.type = "Catalog"
  /\ HasName(o, "DSS")
  /\ Holds(prior, o.id)
  /\ SameText(WithoutAdditions(Latest(prior, o.id)), WithoutAdditions(o))

IsTimestampField(id, tail) ==
  /\ Holds(tail, id)
  /\ \/ IsTimestampDictionary(Latest(tail, id))
     \/ \E ref \in References(Latest(tail, id)) :
          Holds(tail, ref) /\ IsTimestampDictionary(Latest(tail, ref))

CatalogOnlyAddsMaterial(o, prior, tail) ==
  /\ o.type = "Catalog"
  /\ HasName(o, "DSS")
  /\ Holds(prior, o.id)
  /\ LET before == Latest(prior, o.id)
         added == ToSet(RefsAfter(o, "Fields")) \ ToSet(RefsAfter(before, "Fields"))
     IN  /\ added # {}
         /\ \A field \in added : IsTimestampField(field, tail)
         /\ SameText(WithoutAdditions(before), WithoutRefs(WithoutAdditions(o), added))

ChangesPrior(o, prior) == Holds(prior, o.id) /\ ~ SameText(Latest(prior, o.id), o)
UpdatesDss(o, prior) ==
  Holds(prior, o.id) /\ LooksLikeDss(Latest(prior, o.id)) /\ LooksLikeDss(o)
=============================================================================

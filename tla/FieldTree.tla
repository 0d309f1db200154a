------------------------------- MODULE FieldTree -------------------------------
(***************************************************************************)
(* The walk through the form fields of a revision, acroform_signature_     *)
(* fields and collect_signature_fields of rust/sd_trust_kit/src/pdf.rs.    *)
(* It starts from the fields of the form, descends into /Kids before it    *)
(* goes on, hands down that a field is a signature field, and visits no    *)
(* field twice, whatever the /Kids refer to.                               *)
(* Faulty... operators are slips this code could contain; no definition    *)
(* uses them.                                                              *)
(***************************************************************************)
EXTENDS PdfObjects

CONSTANTS
  Ids,        \* the numbers of indirect objects
  Revisions   \* the revisions to walk through, sequences of objects

ASSUME RevisionsAssumption ==
  \A r \in Revisions :
    /\ r \in Seq(ToSet(r))
    /\ \A o \in ToSet(r) : \A name \in DOMAIN o.links : o.links[name] \in Seq(Ids)

VARIABLES
  revision,   \* the objects of the revision
  pending,    \* the calls still to make: a field and whether it inherits /FT /Sig
  visited,    \* the fields visited so far
  found       \* the signature fields with a value, in the order of the visits

walkVars == <<revision, pending, visited, found>>

Call(id, inherited) == [id |-> id, inherited |-> inherited]
Calls(ids, inherited) == [k \in DOMAIN ids |-> Call(ids[k], inherited)]

\* Slip: the fields of the form inherit the type of a signature field.
FaultyStartWalk ==
  /\ revision \in Revisions
  /\ pending = Calls(FormFields(revision), TRUE)
  /\ visited = {}
  /\ found = <<>>

StartWalk ==
  /\ revision \in Revisions
  /\ pending = Calls(FormFields(revision), FALSE)
  /\ visited = {}
  /\ found = <<>>

Field == ObjectInForce(revision, Head(pending).id)

\* Slip: whether the field inherits its type is forgotten.
FaultyOfSignatureType == IsSignatureField(Field)

OfSignatureType == IsSignatureField(Field) \/ Head(pending).inherited

HasValue == FirstRef(Field, "V") # NoReference

\* Slip: a field that was visited is skipped only if there is nothing below it.
FaultySkipVisited ==
  /\ pending # <<>>
  /\ Head(pending).id \in visited
  /\ IsInForce(revision, Head(pending).id) => RefsAfter(Field, "Kids") = <<>>
  /\ pending' = Tail(pending)
  /\ UNCHANGED <<revision, visited, found>>

SkipVisited ==
  /\ pending # <<>>
  /\ Head(pending).id \in visited
  /\ pending' = Tail(pending)
  /\ UNCHANGED <<revision, visited, found>>

SkipMissing ==
  /\ pending # <<>>
  /\ Head(pending).id \notin visited
  /\ ~ IsInForce(revision, Head(pending).id)
  /\ visited' = visited \cup {Head(pending).id}
  /\ pending' = Tail(pending)
  /\ UNCHANGED <<revision, found>>

\* Slip: a field is marked as visited only after its kids were.
FaultyVisit ==
  /\ pending # <<>>
  /\ IsInForce(revision, Head(pending).id)
  /\ found' = IF OfSignatureType /\ HasValue THEN Append(found, Head(pending).id) ELSE found
  /\ pending' = Calls(RefsAfter(Field, "Kids"), OfSignatureType) \o Tail(pending)
  /\ visited' = IF RefsAfter(Field, "Kids") = <<>> THEN visited \cup {Head(pending).id} ELSE visited
  /\ UNCHANGED revision

Visit ==
  /\ pending # <<>>
  /\ Head(pending).id \notin visited
  /\ IsInForce(revision, Head(pending).id)
  /\ visited' = visited \cup {Head(pending).id}
  /\ found' = IF OfSignatureType /\ HasValue THEN Append(found, Head(pending).id) ELSE found
  /\ pending' = Calls(RefsAfter(Field, "Kids"), OfSignatureType) \o Tail(pending)
  /\ UNCHANGED revision

Walk == SkipVisited \/ SkipMissing \/ Visit

WalkSpec == StartWalk /\ [][Walk]_walkVars /\ WF_walkVars(Walk)

-----------------------------------------------------------------------------
\* A field is counted once, however often and from wherever it is referred to:
\* two fields found for one signature are two fields.
FoundOnce == \A i, j \in DOMAIN found : found[i] = found[j] => i = j

\* What is found is a signature field of the form: the type is handed down the
\* tree and nowhere else.
FoundIsSound == ToSet(found) \subseteq SignatureFields(revision)

\* How often a field is referred to by the form and by other fields.
Referrers(id) ==
  Cardinality({k \in DOMAIN FormFields(revision) : FormFields(revision)[k] = id})
    + Cardinality({o \in InForce(revision) : id \in Kids(o)})

\* Where a field has one parent the walk finds every signature field; where the
\* /Kids form cycles or meet, it still finds those that say so themselves.
FoundIsComplete ==
  pending = <<>> =>
    /\ (\A id \in FieldsOfForm(revision) : Referrers(id) = 1)
         => ToSet(found) = SignatureFields(revision)
    /\ \A o \in InForce(revision) :
         o.id \in SignatureFields(revision) /\ IsSignatureField(o) => o.id \in ToSet(found)

\* The walk ends also where a field is below itself.
Terminates == <>(pending = <<>>)
=============================================================================

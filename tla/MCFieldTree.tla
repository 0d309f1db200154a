------------------------------ MODULE MCFieldTree ------------------------------
(***************************************************************************)
(* A catalog with three fields that refer to each other in every way, one  *)
(* of which may be missing, and one of which may have been written twice.  *)
(***************************************************************************)
EXTENDS FieldTree

MCIds == 1..5
Fields == 1..3
CatalogId == 4
ValueId == 5

Object(id, type, names, links) ==
  [id |-> id, type |-> type, names |-> names, links |-> links,
   number |-> 0, text |-> 0, spaced |-> TRUE, packed |-> 0]

MCCatalog(fields) == Object(CatalogId, "Catalog", {"AcroForm"}, [Fields |-> fields])

MCField(id, kids, typed, valued) ==
  Object(id, NoType, IF id \in typed THEN {"Sig"} ELSE {},
         IF id \in valued THEN [Kids |-> kids, V |-> <<ValueId>>] ELSE [Kids |-> kids])

\* What the fields may have below them.
KidLists ==
  [Fields -> {<<>>, <<1>>, <<2>>, <<3>>, <<1, 2>>, <<3, 1>>, <<2, 3>>}]
Few ==
  {kids \in KidLists :
     /\ kids[1] \in {<<2>>, <<2, 3>>, <<3, 1>>, <<1, 2>>}
     /\ kids[2] \in {<<>>, <<3>>, <<1>>, <<2>>, <<3, 1>>}
     /\ kids[3] \in {<<>>, <<1>>, <<2>>, <<1, 2>>}}

MCRevisions ==
  {<<MCField(1, <<3>>, {1}, {1})>> \o
   [i \in 1..n |-> MCField(i, kids[i], typed, valued)] \o <<MCCatalog(fields)>> :
     n \in {2, 3}, kids \in Few, typed \in SUBSET Fields,
     valued \in {{1, 2, 3}, {2, 3}}, fields \in {<<1>>, <<1, 3>>, <<2, 1>>}}
=============================================================================

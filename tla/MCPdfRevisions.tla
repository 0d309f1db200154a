--------------------------- MODULE MCPdfRevisions ----------------------------
(***************************************************************************)
(* Files of one page that draws one object, written by different writers:  *)
(* with spaces or without them, the form in the catalog or an object of    *)
(* its own, the page tree an object of its own or packed, also where its   *)
(* offset in the decoded stream is larger than what follows in the file,   *)
(* or written twice.                                                       *)
(***************************************************************************)
EXTENDS PdfRevisions

MCMaintenance == {"sign", "timestamp", "dss", "vri", "extend", "renew", "metadata"}
MCEdits ==
  {"page", "packed", "pages", "stream", "title", "catalog", "dictionary", "copy", "swap", "loop"}

Base(spaced, formInCatalog, packed, again) ==
  LET catalogLinks == IF formInCatalog THEN [Pages |-> <<2>>, Fields |-> << >>]
                      ELSE [Pages |-> <<2>>, AcroForm |-> <<5>>]
      write(o) == [o EXCEPT !.spaced = spaced]
      pages == [write(New(2, "Pages", {"Count"}, [Kids |-> <<3>>])) EXCEPT !.number = 1]
  IN  <<write(New(1, "Catalog", IF formInCatalog THEN {"AcroForm"} ELSE {}, catalogLinks)),
        [pages EXCEPT !.packed = packed],
        write(New(3, "Page", {"Contents"}, [XObject |-> <<6>>])),
        write(New(4, NoType, {"ModDate"}, << >>)),
        write(New(5, NoType, {}, [Fields |-> << >>])),
        write(New(6, "XObject", {}, << >>))>>
      \o IF again THEN <<[pages EXCEPT !.number = 2]>> ELSE << >>

\* Writers of object streams pack the catalog as well.
PackCatalog(f) == [f EXCEPT ![1].packed = 1]

\* A page tree that is packed; or packed and written twice, where the offset hides
\* the second version, or that and all later ones.
PackedPages == {<<1, FALSE>>, <<12, TRUE>>, <<30, TRUE>>}

MCBases ==
  {Base(spaced, form, 0, FALSE) : spaced \in BOOLEAN, form \in BOOLEAN}
    \cup {Base(spaced, spaced, p[1], p[2]) : spaced \in BOOLEAN, p \in PackedPages}
    \cup {PackCatalog(Base(TRUE, form, 1, FALSE)) : form \in BOOLEAN}
=============================================================================

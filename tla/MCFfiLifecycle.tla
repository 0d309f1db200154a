--------------------------- MODULE MCFfiLifecycle -----------------------------
(***************************************************************************)
(* Two threads, two kits and two addresses, which are then reused at once. *)
(***************************************************************************)
EXTENDS FfiLifecycle

Good == [pdf |-> "bytes", options |-> "good", revocation |-> "absent", panics |-> FALSE]

\* A sound call, one flaw each, and two flaws of which one comes first.
MCRequests ==
  {Good,
   [Good EXCEPT !.pdf = "nothing", !.panics = TRUE],
   [Good EXCEPT !.pdf = "null", !.options = "notUtf8"],
   [Good EXCEPT !.options = "notJson", !.revocation = "badValue"]}
=============================================================================

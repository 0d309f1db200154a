------------------------------- MODULE JsonCalls -------------------------------
(***************************************************************************)
(* What a caller of SDTrustKit is promised, whichever wrapper it uses      *)
(* (rust/sd_trust_kit/include/sd_trust_kit.h): a call is answered once, by *)
(* a report, or by an error that is about an argument of this call, a      *)
(* panic in it or the wrapper; and while no call is under way no string of *)
(* the library is left behind.                                             *)
(***************************************************************************)
EXTENDS Naturals, FiniteSets

CONSTANTS
  Callers,   \* the threads that call
  Requests,  \* the calls they may make
  NoRequest

\* An argument in JSON, where the function has it: what is wrong with it.
JsonArguments == {"absent", "good", "notUtf8", "notJson", "badValue"}

\* The arguments of a call, and whether validating this file panics.
Request ==
  [pdf : {"bytes", "nothing", "null"}, options : JsonArguments, revocation : JsonArguments,
   panics : BOOLEAN]

Report == "report"
NoAnswer == "none"
WrapperErrors == {"jniBridge", "exception"}
ErrorCodes ==
  {"invalidArgument", "invalidUtf8", "invalidOptionsJson", "invalidRevocationOptionsJson",
   "badValue", "panic"}
Answers == {Report, NoAnswer} \cup WrapperErrors \cup ErrorCodes

Bad(r, flaw) == flaw \in {r.options, r.revocation}

\* The errors the arguments of a call justify.
Justified(r) ==
  {code \in ErrorCodes :
     \/ code = "invalidArgument" /\ r.pdf = "null"
     \/ code = "invalidUtf8" /\ Bad(r, "notUtf8")
     \/ code = "invalidOptionsJson" /\ r.options = "notJson"
     \/ code = "invalidRevocationOptionsJson" /\ r.revocation = "notJson"
     \/ code = "badValue" /\ Bad(r, "badValue")
     \/ code = "panic" /\ r.panics}

\* Only a call without a flaw is answered by a report.
Permitted(r) == IF Justified(r) = {} THEN {Report} ELSE Justified(r)

VARIABLES
  request,   \* the call a caller makes
  stage,     \* where it is: idle, asked, handed (owns a string), returned
  answer     \* the answer of the call it made last

vars == <<request, stage, answer>>

Init ==
  /\ request = [c \in Callers |-> NoRequest]
  /\ stage = [c \in Callers |-> "idle"]
  /\ answer = [c \in Callers |-> NoAnswer]

Ask(c) ==
  /\ stage[c] = "idle"
  /\ \E r \in Requests : request' = [request EXCEPT ![c] = r]
  /\ stage' = [stage EXCEPT ![c] = "asked"]
  /\ answer' = [answer EXCEPT ![c] = NoAnswer]

HandOut(c) ==
  /\ stage[c] = "asked"
  /\ stage' = [stage EXCEPT ![c] = "handed"]
  /\ UNCHANGED <<request, answer>>

TakeBack(c) ==
  /\ stage[c] = "handed"
  /\ stage' = [stage EXCEPT ![c] = "returned"]
  /\ UNCHANGED <<request, answer>>

Answer(c) ==
  /\ stage[c] = "returned"
  /\ stage' = [stage EXCEPT ![c] = "idle"]
  /\ \E a \in Permitted(request[c]) : answer' = [answer EXCEPT ![c] = a]
  /\ request' = [request EXCEPT ![c] = NoRequest]

\* The wrapper fails before the call or after it.
Fail(c) ==
  /\ stage[c] \in {"asked", "returned"}
  /\ stage' = [stage EXCEPT ![c] = "idle"]
  /\ \E a \in WrapperErrors : answer' = [answer EXCEPT ![c] = a]
  /\ request' = [request EXCEPT ![c] = NoRequest]

Next == \E c \in Callers : Ask(c) \/ HandOut(c) \/ TakeBack(c) \/ Answer(c) \/ Fail(c)

Spec == Init /\ [][Next]_vars
=============================================================================

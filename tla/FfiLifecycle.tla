----------------------------- MODULE FfiLifecycle ------------------------------
(***************************************************************************)
(* Threads that call the validator through its C interface                 *)
(* (rust/sd_trust_kit/src/ffi.rs): directly, through the Swift package,    *)
(* which opens the library for each kit and closes it with the kit, or     *)
(* through the Android bridge, which loads it once and for all.  The       *)
(* strings the library hands out live on its heap until they are given     *)
(* back; a pointer that was given back may be handed out again.            *)
(* Faulty... operators are slips this code could contain; no definition    *)
(* uses them.                                                              *)
(***************************************************************************)
EXTENDS Naturals, FiniteSets, Functions

CONSTANTS
  Callers, Requests,   \* as in JsonCalls
  Kits,                \* the SDTrustKit objects that may exist at a time
  Pointers,            \* the addresses of strings
  NoRequest, NoCaller, NoKit, NullPointer

ASSUME NothingAssumption ==
  NoRequest \notin Requests /\ NoCaller \notin Callers /\ NoKit \notin Kits /\ NullPointer \notin Pointers

VARIABLES
  platform,   \* how the validator is called: c, swift or android
  handles,    \* how often the library is open (dlopen), for Android whether it is loaded
  recorded,   \* Android: loadedLibraryName is set
  lock,       \* Android: who is in the synchronized load
  refs,       \* who refers to a kit
  opener,     \* who is opening a kit
  heap,       \* the strings handed out and not given back
  pc,         \* where a caller is
  request,    \* the call it makes
  kit,        \* the kit it makes it with
  pointer,    \* the string of its call
  json,       \* the copy of that string
  answer      \* the answer of the call made last

libraryVars == <<handles, recorded, lock, refs, opener>>
callVars == <<heap, pc, request, kit, pointer, json, answer>>
vars == <<platform, libraryVars, callVars>>

Calls == INSTANCE JsonCalls WITH
  stage <- [c \in Callers |->
    IF pc[c] = "out" THEN "idle"
    ELSE IF pc[c] \in {"calling", "working"} THEN "asked"
    ELSE IF pc[c] \in {"handed", "copied"} THEN "handed"
    ELSE "returned"]

ASSUME RequestsAssumption == Requests \subseteq Calls!Request

ASSUME KitsAssumption == IsFiniteSet(Kits)

Init ==
  /\ platform \in {"c", "swift", "android"}
  /\ handles = (IF platform = "c" THEN 1 ELSE 0)
  /\ recorded = FALSE
  /\ lock = NoCaller
  /\ refs = [k \in Kits |-> {}]
  /\ opener = [k \in Kits |-> NoCaller]
  /\ heap = << >>
  /\ pc = [c \in Callers |-> "out"]
  /\ request = [c \in Callers |-> NoRequest]
  /\ kit = [c \in Callers |-> NoKit]
  /\ pointer = [c \in Callers |-> NullPointer]
  /\ json = [c \in Callers |-> Calls!NoAnswer]
  /\ answer = [c \in Callers |-> Calls!NoAnswer]

Loaded == handles > 0
Free(k) == refs[k] = {} /\ opener[k] = NoCaller

-----------------------------------------------------------------------------
(* Swift: SDValidationLibrary.                                             *)

\* dlopen succeeds; where it fails nothing has happened.
OpenLibrary(c, k) ==
  /\ platform = "swift" /\ Free(k)
  /\ handles' = handles + 1
  /\ opener' = [opener EXCEPT ![k] = c]
  /\ UNCHANGED <<platform, recorded, lock, refs, callVars>>

FindSymbols(k) ==
  /\ platform = "swift" /\ opener[k] # NoCaller
  /\ refs' = [refs EXCEPT ![k] = {opener[k]}]
  /\ opener' = [opener EXCEPT ![k] = NoCaller]
  /\ UNCHANGED <<platform, handles, recorded, lock, callVars>>

MissSymbol(k) ==
  /\ platform = "swift" /\ opener[k] # NoCaller
  /\ handles' = handles - 1
  /\ opener' = [opener EXCEPT ![k] = NoCaller]
  /\ UNCHANGED <<platform, recorded, lock, refs, callVars>>

\* deinit: the library is closed with the last reference to the kit.
CloseWith(k, left) == IF platform = "swift" /\ left = {} THEN handles - 1 ELSE handles

-----------------------------------------------------------------------------
(* Android: SDTrustKitNative.load.                                         *)

EnterLoad(c, k) ==
  /\ platform = "android" /\ Free(k) /\ lock = NoCaller
  /\ lock' = c
  /\ opener' = [opener EXCEPT ![k] = c]
  /\ UNCHANGED <<platform, handles, recorded, refs, callVars>>

Loading(k) == platform = "android" /\ lock # NoCaller /\ opener[k] = lock

HaveKit(k) ==
  /\ refs' = [refs EXCEPT ![k] = {lock}]
  /\ opener' = [opener EXCEPT ![k] = NoCaller]
  /\ lock' = NoCaller

AlreadyLoaded(k) ==
  /\ Loading(k) /\ recorded
  /\ HaveKit(k)
  /\ UNCHANGED <<platform, handles, recorded, callVars>>

LoadLibrary(k) ==
  /\ Loading(k) /\ ~ recorded
  /\ handles' = 1 /\ recorded' = TRUE
  /\ HaveKit(k)
  /\ UNCHANGED <<platform, callVars>>

\* Slip: the name is recorded before the library is loaded.
FaultyFailToLoad(k) ==
  /\ Loading(k) /\ ~ recorded
  /\ recorded' = TRUE
  /\ opener' = [opener EXCEPT ![k] = NoCaller]
  /\ lock' = NoCaller
  /\ UNCHANGED <<platform, handles, refs, callVars>>

\* System.loadLibrary throws: there is no kit, and nothing is recorded.
FailToLoad(k) ==
  /\ Loading(k) /\ ~ recorded
  /\ opener' = [opener EXCEPT ![k] = NoCaller]
  /\ lock' = NoCaller
  /\ UNCHANGED <<platform, handles, recorded, refs, callVars>>

-----------------------------------------------------------------------------
(* References to kits.  A call keeps its kit alive.                        *)

Idle(c) == pc[c] = "out"

ShareKit(c, d, k) ==
  /\ c \in refs[k] /\ d \notin refs[k]
  /\ refs' = [refs EXCEPT ![k] = @ \cup {d}]
  /\ UNCHANGED <<platform, handles, recorded, lock, opener, callVars>>

DropKit(c, k) ==
  /\ c \in refs[k]
  /\ Idle(c) \/ kit[c] # k
  /\ refs' = [refs EXCEPT ![k] = @ \ {c}]
  /\ handles' = CloseWith(k, refs[k] \ {c})
  /\ UNCHANGED <<platform, recorded, lock, opener, callVars>>

-----------------------------------------------------------------------------
(* A call.                                                                 *)

MayCall(c, k) == IF platform = "c" THEN k = NoKit ELSE k \in Kits /\ c \in refs[k]

StartCall(c, k) ==
  /\ Idle(c) /\ MayCall(c, k)
  /\ \E r \in Requests : request' = [request EXCEPT ![c] = r]
  /\ kit' = [kit EXCEPT ![c] = k]
  /\ pc' = [pc EXCEPT ![c] = "calling"]
  /\ answer' = [answer EXCEPT ![c] = Calls!NoAnswer]
  /\ UNCHANGED <<platform, libraryVars, heap, pointer, json>>

\* The call is over.
End(c, a) ==
  /\ pc' = [pc EXCEPT ![c] = "out"]
  /\ request' = [request EXCEPT ![c] = NoRequest]
  /\ kit' = [kit EXCEPT ![c] = NoKit]
  /\ json' = [json EXCEPT ![c] = Calls!NoAnswer]
  /\ answer' = [answer EXCEPT ![c] = a]
  /\ UNCHANGED <<platform, libraryVars, heap, pointer>>

\* The bridge cannot read its arguments; it answers without calling the library.
BridgeFails(c) == platform = "android" /\ pc[c] = "calling" /\ End(c, "jniBridge")

Enter(c) ==
  /\ pc[c] = "calling"
  /\ pc' = [pc EXCEPT ![c] = "working"]
  /\ UNCHANGED <<platform, libraryVars, heap, request, kit, pointer, json, answer>>

\* What is wrong with an argument in JSON.
JsonError(argument, code) ==
  IF argument = "notUtf8" THEN "invalidUtf8"
  ELSE IF argument = "notJson" THEN code
  ELSE "badValue"

\* Slip: a panic while validating is taken for an empty report.
FaultyOutcome(r) ==
  IF r.pdf = "null" THEN "invalidArgument"
  ELSE IF r.options \notin {"absent", "good"} THEN JsonError(r.options, "invalidOptionsJson")
  ELSE IF r.revocation \notin {"absent", "good"}
  THEN JsonError(r.revocation, "invalidRevocationOptionsJson")
  ELSE Calls!Report

\* ffi_json_string: the arguments are read in order, and the first flaw decides.
Outcome(r) ==
  IF r.pdf = "null" THEN "invalidArgument"
  ELSE IF r.options \notin {"absent", "good"} THEN JsonError(r.options, "invalidOptionsJson")
  ELSE IF r.revocation \notin {"absent", "good"}
  THEN JsonError(r.revocation, "invalidRevocationOptionsJson")
  ELSE IF r.panics THEN "panic"
  ELSE Calls!Report

\* Slip: a panic is not caught and ends the thread inside the library.
FaultyHandOut(c) ==
  /\ pc[c] = "working" /\ Outcome(request[c]) # "panic"
  /\ \E p \in Pointers \ DOMAIN heap :
       /\ heap' = [q \in DOMAIN heap \cup {p} |-> IF q = p THEN Outcome(request[c]) ELSE heap[q]]
       /\ pointer' = [pointer EXCEPT ![c] = p]
  /\ pc' = [pc EXCEPT ![c] = "handed"]
  /\ UNCHANGED <<platform, libraryVars, request, kit, json, answer>>

\* string_to_owned_c_ptr: JSON contains no NUL, so there always is a string.
HandOut(c) ==
  /\ pc[c] = "working"
  /\ \E p \in Pointers \ DOMAIN heap :
       /\ heap' = [q \in DOMAIN heap \cup {p} |-> IF q = p THEN Outcome(request[c]) ELSE heap[q]]
       /\ pointer' = [pointer EXCEPT ![c] = p]
  /\ pc' = [pc EXCEPT ![c] = "handed"]
  /\ UNCHANGED <<platform, libraryVars, request, kit, json, answer>>

Copy(c) ==
  /\ pc[c] = "handed"
  /\ json' = [json EXCEPT ![c] = heap[pointer[c]]]
  /\ pc' = [pc EXCEPT ![c] = "copied"]
  /\ UNCHANGED <<platform, libraryVars, heap, request, kit, pointer, answer>>

\* Slip: an error is thrown before the string is given back.
FaultyGiveBack(c) ==
  /\ pc[c] = "copied"
  /\ heap' = IF json[c] = Calls!Report THEN Restrict(heap, DOMAIN heap \ {pointer[c]}) ELSE heap
  /\ pointer' = [pointer EXCEPT ![c] = NullPointer]
  /\ pc' = [pc EXCEPT ![c] = "freed"]
  /\ UNCHANGED <<platform, libraryVars, request, kit, json, answer>>

\* sd_trust_kit_free_string, before the wrapper returns or throws.
GiveBack(c) ==
  /\ pc[c] = "copied"
  /\ heap' = Restrict(heap, DOMAIN heap \ {pointer[c]})
  /\ pointer' = [pointer EXCEPT ![c] = NullPointer]
  /\ pc' = [pc EXCEPT ![c] = "freed"]
  /\ UNCHANGED <<platform, libraryVars, request, kit, json, answer>>

Return(c) == pc[c] = "freed" /\ End(c, json[c])

\* The report cannot be decoded, or no Java string can be made.
WrapperFails(c) == platform # "c" /\ pc[c] = "freed" /\ End(c, "exception")

-----------------------------------------------------------------------------
Open(c, k) == OpenLibrary(c, k) \/ EnterLoad(c, k)
FinishOpening(k) ==
  FindSymbols(k) \/ MissSymbol(k) \/ AlreadyLoaded(k) \/ LoadLibrary(k) \/ FailToLoad(k)
Refer(c, k) == DropKit(c, k) \/ \E d \in Callers : ShareKit(c, d, k)
Call(c) ==
  \/ BridgeFails(c) \/ Enter(c) \/ HandOut(c) \/ Copy(c) \/ GiveBack(c)
  \/ Return(c) \/ WrapperFails(c)

Next ==
  \/ \E c \in Callers, k \in Kits : Open(c, k) \/ Refer(c, k)
  \/ \E c \in Callers, k \in Kits \cup {NoKit} : StartCall(c, k)
  \/ \E k \in Kits : FinishOpening(k)
  \/ \E c \in Callers : Call(c)

\* A thread that has called goes on.
Spec == Init /\ [][Next]_vars /\ \A c \in Callers : WF_vars(Call(c))

-----------------------------------------------------------------------------
(* Properties.                                                             *)

\* Every string on the heap is owned by exactly one call, which can still read
\* what it was given, whatever other threads give back meanwhile.
Owns(c) == pc[c] \in {"handed", "copied"}
HeapIsOwned ==
  /\ DOMAIN heap = {pointer[c] : c \in {d \in Callers : Owns(d)}}
  /\ \A c, d \in Callers : Owns(c) /\ Owns(d) /\ pointer[c] = pointer[d] => c = d
  /\ \A c \in Callers : Owns(c) => heap[pointer[c]] = Outcome(request[c])

\* The library stays where it is while a call is under way or a string of it is
\* not given back, and a kit that exists has its library.
LibraryStays ==
  /\ \A c \in Callers : ~ Idle(c) => Loaded
  /\ \A k \in Kits : refs[k] # {} => Loaded

\* Calls are answered as JsonCalls promises.
ImplementsJsonCalls == Calls!Spec

\* Every call ends.
CallsEnd == \A c \in Callers : ~ Idle(c) ~> Idle(c)
=============================================================================

------------------------- MODULE FfiLifecycleProofs ---------------------------
(***************************************************************************)
(* For every number of threads, kits and addresses: no string is lost,     *)
(* given back twice or read after it was given back, no call runs in a     *)
(* library that is closed, and calls are answered as JsonCalls promises.   *)
(***************************************************************************)
EXTENDS FfiLifecycle, FiniteSetTheorems, TLAPS

Stages == {"out", "calling", "working", "handed", "copied", "freed"}

\* What is known of the variables of a call.
CallTypes ==
  /\ pc \in [Callers -> Stages]
  /\ request \in [Callers -> Requests \cup {NoRequest}]
  /\ DOMAIN kit = Callers /\ kit = [c \in Callers |-> kit[c]]
  /\ DOMAIN pointer = Callers /\ pointer = [c \in Callers |-> pointer[c]]
  /\ DOMAIN json = Callers /\ json = [c \in Callers |-> json[c]]
  /\ DOMAIN answer = Callers /\ answer = [c \in Callers |-> answer[c]]

\* A copy is a copy of the own string.
CopiesAreOwn ==
  \A c \in Callers :
    /\ pc[c] \in {"copied", "freed"} => json[c] = Outcome(request[c])
    /\ pc[c] # "out" => request[c] \in Requests

CallInv == CallTypes /\ HeapIsOwned /\ CopiesAreOwn

LEMMA CallInit == Init => CallInv
  BY DEF Init, CallInv, CallTypes, HeapIsOwned, CopiesAreOwn, Owns, Stages

\* The steps that have to do with the library leave calls alone.
LEMMA CallStable == CallInv /\ UNCHANGED callVars => CallInv'
  BY DEF CallInv, CallTypes, HeapIsOwned, CopiesAreOwn, Owns, callVars

LEMMA EndKeepsCallInv ==
  ASSUME CallInv, NEW c \in Callers, NEW a, pc[c] \in {"calling", "freed"}, End(c, a)
  PROVE  CallInv'
<1> USE DEF CallInv, End
<1>1. CallTypes'
  BY DEF CallTypes, Stages
<1>2. \A d \in Callers : Owns(d)' <=> Owns(d)
  BY DEF CallTypes, Owns
<1>3. HeapIsOwned'
  <2>1. \A d \in Callers : Owns(d) => d # c
    BY DEF Owns
  <2>2. \A d \in Callers : d # c => request'[d] = request[d]
    BY DEF CallTypes
  <2> QED
    BY <1>2, <2>1, <2>2 DEF HeapIsOwned
<1>4. CopiesAreOwn'
  BY DEF CopiesAreOwn, CallTypes, Stages
<1> QED
  BY <1>1, <1>3, <1>4

LEMMA StartKeepsCallInv ==
  ASSUME CallInv, NEW c \in Callers, NEW k, StartCall(c, k)
  PROVE  CallInv'
<1> USE DEF CallInv, StartCall, Idle
<1>1. PICK r \in Requests : request' = [request EXCEPT ![c] = r]
  OBVIOUS
<1>2. CallTypes'
  BY <1>1 DEF CallTypes, Stages
<1>3. \A d \in Callers : Owns(d)' <=> Owns(d)
  BY DEF CallTypes, Owns
<1>4. HeapIsOwned'
  <2>1. \A d \in Callers : Owns(d) => d # c
    BY DEF Owns
  <2>2. \A d \in Callers : d # c => request'[d] = request[d]
    BY <1>1 DEF CallTypes
  <2> QED
    BY <1>3, <2>1, <2>2 DEF HeapIsOwned
<1>5. CopiesAreOwn'
  BY <1>1 DEF CopiesAreOwn, CallTypes, Stages
<1> QED
  BY <1>2, <1>4, <1>5

LEMMA EnterKeepsCallInv ==
  ASSUME CallInv, NEW c \in Callers, Enter(c)
  PROVE  CallInv'
<1> USE DEF CallInv, Enter
<1>1. CallTypes'
  BY DEF CallTypes, Stages
<1>2. \A d \in Callers : Owns(d)' <=> Owns(d)
  BY DEF CallTypes, Owns
<1>3. HeapIsOwned'
  BY <1>2 DEF HeapIsOwned
<1>4. CopiesAreOwn'
  BY DEF CopiesAreOwn, CallTypes, Stages
<1> QED
  BY <1>1, <1>3, <1>4

LEMMA HandOutKeepsCallInv ==
  ASSUME CallInv, NEW c \in Callers, HandOut(c)
  PROVE  CallInv'
<1> USE DEF CallInv, HandOut
<1>1. PICK p \in Pointers \ DOMAIN heap :
        /\ heap' = [q \in DOMAIN heap \cup {p} |-> IF q = p THEN Outcome(request[c]) ELSE heap[q]]
        /\ pointer' = [pointer EXCEPT ![c] = p]
  OBVIOUS
<1>2. CallTypes'
  BY <1>1 DEF CallTypes, Stages
<1>3. /\ \A d \in Callers : Owns(d)' <=> Owns(d) \/ d = c
      /\ ~ Owns(c)
      /\ pointer'[c] = p
      /\ \A d \in Callers : d # c => pointer'[d] = pointer[d]
  BY <1>1 DEF CallTypes, Owns
<1>4. \A d \in Callers : Owns(d) => pointer[d] \in DOMAIN heap
  BY DEF HeapIsOwned
<1>5. HeapIsOwned'
  <2>1. DOMAIN heap' = {pointer'[d] : d \in {e \in Callers : Owns(e)'}}
    BY <1>1, <1>3 DEF HeapIsOwned
  <2>2. \A d, e \in Callers : Owns(d)' /\ Owns(e)' /\ pointer'[d] = pointer'[e] => d = e
    BY <1>1, <1>3, <1>4 DEF HeapIsOwned
  <2>3. \A d \in Callers : Owns(d)' => heap'[pointer'[d]] = Outcome(request[d])
    BY <1>1, <1>3, <1>4 DEF HeapIsOwned
  <2>4. \A d \in Callers : Outcome(request[d])' = Outcome(request[d])
    BY DEF Outcome, JsonError, Calls!Report
  <2> QED
    BY <2>1, <2>2, <2>3, <2>4 DEF HeapIsOwned
<1>6. CopiesAreOwn'
  BY DEF CopiesAreOwn, CallTypes, Stages, Outcome, JsonError, Calls!Report
<1> QED
  BY <1>2, <1>5, <1>6

LEMMA CopyKeepsCallInv ==
  ASSUME CallInv, NEW c \in Callers, Copy(c)
  PROVE  CallInv'
<1> USE DEF CallInv, Copy
<1>1. CallTypes'
  BY DEF CallTypes, Stages
<1>2. \A d \in Callers : Owns(d)' <=> Owns(d)
  BY DEF CallTypes, Owns
<1>3. HeapIsOwned'
  BY <1>2 DEF HeapIsOwned
<1>4. json'[c] = Outcome(request[c])
  BY DEF HeapIsOwned, Owns, CallTypes
<1>5. \A d \in Callers : d # c => json'[d] = json[d] /\ pc'[d] = pc[d]
  BY DEF CallTypes
<1>6. CopiesAreOwn'
  BY <1>4, <1>5 DEF CopiesAreOwn, CallTypes, Stages
<1> QED
  BY <1>1, <1>3, <1>6

LEMMA GiveBackKeepsCallInv ==
  ASSUME CallInv, NEW c \in Callers, GiveBack(c)
  PROVE  CallInv'
<1> USE DEF CallInv, GiveBack
<1>1. CallTypes'
  BY DEF CallTypes, Stages
<1>2. /\ \A d \in Callers : Owns(d)' <=> Owns(d) /\ d # c
      /\ Owns(c)
      /\ \A d \in Callers : d # c => pointer'[d] = pointer[d]
  BY DEF CallTypes, Owns
<1>3. /\ DOMAIN heap' = DOMAIN heap \ {pointer[c]}
      /\ \A p \in DOMAIN heap' : heap'[p] = heap[p]
  BY DEF Restrict
<1>4. HeapIsOwned'
  <2>1. DOMAIN heap' = {pointer'[d] : d \in {e \in Callers : Owns(e)'}}
    BY <1>2, <1>3 DEF HeapIsOwned
  <2>2. \A d, e \in Callers : Owns(d)' /\ Owns(e)' /\ pointer'[d] = pointer'[e] => d = e
    BY <1>2 DEF HeapIsOwned
  <2>3. \A d \in Callers : Owns(d)' => heap'[pointer'[d]] = Outcome(request[d])
    BY <1>2, <1>3, <2>1 DEF HeapIsOwned
  <2> QED
    BY <2>1, <2>2, <2>3 DEF HeapIsOwned
<1>5. CopiesAreOwn'
  BY DEF CopiesAreOwn, CallTypes, Stages
<1> QED
  BY <1>1, <1>4, <1>5

LEMMA CallNext == CallInv /\ [Next]_vars => CallInv'
<1> SUFFICES ASSUME CallInv, [Next]_vars
             PROVE  CallInv'
  OBVIOUS
<1>1. ASSUME NEW c \in Callers, NEW k \in Kits, Open(c, k) \/ Refer(c, k)
      PROVE  CallInv'
  BY <1>1, CallStable DEF Open, Refer, OpenLibrary, EnterLoad, DropKit, ShareKit
<1>2. ASSUME NEW k \in Kits, FinishOpening(k)
      PROVE  CallInv'
  BY <1>2, CallStable
     DEF FinishOpening, FindSymbols, MissSymbol, AlreadyLoaded, LoadLibrary, FailToLoad
<1>3. ASSUME NEW c \in Callers, NEW k, StartCall(c, k)
      PROVE  CallInv'
  BY <1>3, StartKeepsCallInv
<1>4. ASSUME NEW c \in Callers, Call(c)
      PROVE  CallInv'
  <2>1. CASE BridgeFails(c)
    BY <2>1, EndKeepsCallInv DEF BridgeFails
  <2>2. CASE Return(c)
    BY <2>2, EndKeepsCallInv DEF Return
  <2>3. CASE WrapperFails(c)
    BY <2>3, EndKeepsCallInv DEF WrapperFails
  <2>4. CASE Enter(c) \/ HandOut(c) \/ Copy(c) \/ GiveBack(c)
    BY <2>4, EnterKeepsCallInv, HandOutKeepsCallInv, CopyKeepsCallInv, GiveBackKeepsCallInv
  <2> QED
    BY <1>4, <2>1, <2>2, <2>3, <2>4 DEF Call
<1>5. CASE UNCHANGED vars
  BY <1>5, CallStable DEF vars, callVars
<1> QED
  BY <1>1, <1>2, <1>3, <1>4, <1>5 DEF Next

\* No string is lost, given back twice or read after it was given back, for
\* every number of threads and every reuse of addresses (HeapIsOwned).
THEOREM StringsAreOwned == Spec => []HeapIsOwned
<1>1. CallInv => HeapIsOwned
  BY DEF CallInv
<1> QED
  BY <1>1, CallInit, CallNext, PTL DEF Spec

-----------------------------------------------------------------------------
(* The library.                                                            *)

OpenKits == {k \in Kits : refs[k] # {} \/ opener[k] # NoCaller}

LibraryTypes ==
  /\ platform \in {"c", "swift", "android"}
  /\ handles \in Nat
  /\ refs \in [Kits -> SUBSET Callers]
  /\ opener \in [Kits -> Callers \cup {NoCaller}]
  /\ \A k \in Kits : opener[k] # NoCaller => refs[k] = {}

\* Swift opens the library once for each kit; Android has loaded it when it has
\* recorded so, and there is no kit before.
Held ==
  /\ platform = "c" => handles = 1 /\ OpenKits = {}
  /\ platform = "swift" => handles = Cardinality(OpenKits)
  /\ platform = "android" =>
       /\ recorded => handles > 0
       /\ \A k \in Kits : refs[k] # {} => recorded

\* A call has a kit that its thread refers to.
CallsHaveKits ==
  /\ pc \in [Callers -> Stages]
  /\ DOMAIN kit = Callers /\ kit = [c \in Callers |-> kit[c]]
  /\ \A c \in Callers :
       ~ Idle(c) /\ platform # "c" => kit[c] \in Kits /\ c \in refs[kit[c]]

LibraryInv == LibraryTypes /\ Held /\ CallsHaveKits

LEMMA OpenKitsFinite == IsFiniteSet(OpenKits)
  BY KitsAssumption, FS_Subset DEF OpenKits

LEMMA LibraryInit == Init => LibraryInv
<1> SUFFICES ASSUME Init
             PROVE  LibraryInv
  OBVIOUS
<1> USE DEF Init
<1>1. LibraryTypes
  BY DEF LibraryTypes
<1>2. OpenKits = {}
  BY DEF OpenKits
<1>3. Held
  BY <1>2, FS_EmptySet DEF Held
<1>4. CallsHaveKits
  BY DEF CallsHaveKits, Idle, Stages
<1> QED
  BY <1>1, <1>3, <1>4 DEF LibraryInv

\* A call that goes on keeps its kit, and one that ends leaves the others alone.
LEMMA CallKeepsLibraryInv ==
  ASSUME LibraryInv, NEW c \in Callers, Call(c)
  PROVE  LibraryInv'
<1>1. UNCHANGED <<platform, libraryVars>>
  BY DEF Call, BridgeFails, Return, WrapperFails, End, Enter, HandOut, Copy, GiveBack
<1>2. /\ pc[c] # "out"
      /\ \/ pc' = [pc EXCEPT ![c] = "out"] /\ kit' = [kit EXCEPT ![c] = NoKit]
         \/ \E s \in Stages : pc' = [pc EXCEPT ![c] = s] /\ kit' = kit
  BY DEF Call, BridgeFails, Return, WrapperFails, End, Enter, HandOut, Copy, GiveBack, Stages
<1>3. CallsHaveKits'
  BY <1>1, <1>2 DEF LibraryInv, CallsHaveKits, Idle, Stages, libraryVars
<1>4. (LibraryTypes /\ Held)'
  BY <1>1 DEF LibraryInv, LibraryTypes, Held, OpenKits, libraryVars
<1> QED
  BY <1>3, <1>4 DEF LibraryInv

LEMMA StartKeepsLibraryInv ==
  ASSUME LibraryInv, NEW c \in Callers, NEW k, StartCall(c, k)
  PROVE  LibraryInv'
<1>1. UNCHANGED <<platform, libraryVars>>
  BY DEF StartCall
<1>2. /\ pc' = [pc EXCEPT ![c] = "calling"]
      /\ kit' = [kit EXCEPT ![c] = k]
      /\ platform # "c" => k \in Kits /\ c \in refs[k]
  BY DEF StartCall, MayCall
<1>3. CallsHaveKits'
  BY <1>1, <1>2 DEF LibraryInv, CallsHaveKits, Idle, Stages, libraryVars
<1>4. (LibraryTypes /\ Held)'
  BY <1>1 DEF LibraryInv, LibraryTypes, Held, OpenKits, libraryVars
<1> QED
  BY <1>3, <1>4 DEF LibraryInv

LEMMA OpenKeepsLibraryInv ==
  ASSUME LibraryInv, NEW c \in Callers, NEW k \in Kits, Open(c, k)
  PROVE  LibraryInv'
<1> USE DEF LibraryInv, Open
<1>1. /\ Free(k)
      /\ opener' = [opener EXCEPT ![k] = c]
      /\ UNCHANGED <<platform, recorded, refs, pc, kit>>
      /\ \/ platform = "swift" /\ handles' = handles + 1
         \/ platform = "android" /\ handles' = handles
  BY DEF OpenLibrary, EnterLoad, callVars
<1>2. LibraryTypes'
  BY <1>1 DEF LibraryTypes, Free
<1>3. CallsHaveKits'
  BY <1>1 DEF CallsHaveKits, Idle
<1>4. k \notin OpenKits /\ OpenKits' = OpenKits \cup {k}
  BY <1>1, NothingAssumption DEF OpenKits, Free, LibraryTypes
<1>5. Cardinality(OpenKits') = Cardinality(OpenKits) + 1
  BY <1>4, OpenKitsFinite, FS_AddElement
<1>6. Held'
  BY <1>1, <1>5 DEF Held
<1> QED
  BY <1>2, <1>3, <1>6

LEMMA FinishKeepsLibraryInv ==
  ASSUME LibraryInv, NEW k \in Kits, FinishOpening(k)
  PROVE  LibraryInv'
<1> USE DEF LibraryInv
<1>1. CASE FindSymbols(k) \/ AlreadyLoaded(k) \/ LoadLibrary(k)
  <2>1. /\ opener[k] # NoCaller /\ opener[k] \in Callers
        /\ refs' = [refs EXCEPT ![k] = {opener[k]}]
        /\ opener' = [opener EXCEPT ![k] = NoCaller]
        /\ UNCHANGED <<platform, pc, kit>>
        /\ \/ platform = "swift" /\ handles' = handles /\ recorded' = recorded
           \/ /\ platform = "android" /\ recorded'
              /\ \/ recorded /\ handles' = handles
                 \/ handles' = 1
    BY <1>1 DEF FindSymbols, AlreadyLoaded, LoadLibrary, Loading, HaveKit, LibraryTypes, callVars
  <2>2. LibraryTypes'
    BY <2>1 DEF LibraryTypes, Held
  <2>3. refs[k] = {}
    BY <2>1 DEF LibraryTypes
  <2>4. CallsHaveKits'
    BY <2>1, <2>3 DEF CallsHaveKits, Idle, LibraryTypes
  <2>5. OpenKits' = OpenKits
    BY <2>1 DEF OpenKits, LibraryTypes
  <2>6. Held'
    BY <2>1, <2>5 DEF Held
  <2> QED
    BY <2>2, <2>4, <2>6
<1>2. CASE MissSymbol(k) \/ FailToLoad(k)
  <2>1. /\ opener[k] # NoCaller
        /\ opener' = [opener EXCEPT ![k] = NoCaller]
        /\ UNCHANGED <<platform, recorded, refs, pc, kit>>
        /\ \/ platform = "swift" /\ handles' = handles - 1
           \/ platform = "android" /\ handles' = handles
    BY <1>2 DEF MissSymbol, FailToLoad, Loading, callVars
  <2>2. k \in OpenKits /\ OpenKits' = OpenKits \ {k}
    BY <2>1 DEF OpenKits, LibraryTypes
  <2>3. /\ Cardinality(OpenKits) \in Nat
        /\ Cardinality(OpenKits') = Cardinality(OpenKits) - 1
    BY <2>2, OpenKitsFinite, FS_RemoveElement, FS_CardinalityType
  <2>4. Cardinality(OpenKits') \in Nat
    BY <2>2, OpenKitsFinite, FS_Subset, FS_CardinalityType
  <2>5. handles' \in Nat /\ Held'
    BY <2>1, <2>3, <2>4 DEF Held, LibraryTypes
  <2>6. LibraryTypes' /\ CallsHaveKits'
    BY <2>1, <2>5 DEF LibraryTypes, CallsHaveKits, Idle
  <2> QED
    BY <2>5, <2>6
<1> QED
  BY <1>1, <1>2 DEF FinishOpening

LEMMA ReferKeepsLibraryInv ==
  ASSUME LibraryInv, NEW c \in Callers, NEW k \in Kits, Refer(c, k)
  PROVE  LibraryInv'
<1> USE DEF LibraryInv
<1>1. CASE \E d \in Callers : ShareKit(c, d, k)
  <2>1. PICK d \in Callers : ShareKit(c, d, k)
    BY <1>1
  <2>2. LibraryTypes'
    BY <2>1 DEF ShareKit, LibraryTypes
  <2>3. CallsHaveKits'
    BY <2>1 DEF ShareKit, CallsHaveKits, Idle, LibraryTypes, callVars
  <2>4. OpenKits' = OpenKits
    BY <2>1 DEF ShareKit, OpenKits, LibraryTypes
  <2>5. Held'
    BY <2>1, <2>4 DEF ShareKit, Held, LibraryTypes
  <2> QED
    BY <2>2, <2>3, <2>5
<1>2. CASE DropKit(c, k)
  <2>1. /\ c \in refs[k]
        /\ Idle(c) \/ kit[c] # k
        /\ refs' = [refs EXCEPT ![k] = @ \ {c}]
        /\ UNCHANGED <<platform, recorded, opener, pc, kit>>
        /\ handles' = IF platform = "swift" /\ refs'[k] = {} THEN handles - 1 ELSE handles
    BY <1>2 DEF DropKit, CloseWith, LibraryTypes, callVars
  <2>2. CallsHaveKits'
    BY <2>1 DEF CallsHaveKits, Idle, LibraryTypes
  <2>3. opener[k] = NoCaller /\ k \in OpenKits
    BY <2>1 DEF LibraryTypes, OpenKits
  <2>4. OpenKits' = IF refs'[k] = {} THEN OpenKits \ {k} ELSE OpenKits
    BY <2>1, <2>3 DEF OpenKits, LibraryTypes
  <2>5. /\ Cardinality(OpenKits) \in Nat
        /\ Cardinality(OpenKits \ {k}) = Cardinality(OpenKits) - 1
        /\ Cardinality(OpenKits \ {k}) \in Nat
    BY <2>3, OpenKitsFinite, FS_RemoveElement, FS_CardinalityType, FS_Subset
  <2>6. handles' \in Nat /\ Held'
    BY <2>1, <2>3, <2>4, <2>5 DEF Held, LibraryTypes
  <2>7. LibraryTypes'
    BY <2>1, <2>6 DEF LibraryTypes
  <2> QED
    BY <2>2, <2>6, <2>7
<1> QED
  BY <1>1, <1>2 DEF Refer

LEMMA LibraryNext == LibraryInv /\ [Next]_vars => LibraryInv'
<1> SUFFICES ASSUME LibraryInv, [Next]_vars
             PROVE  LibraryInv'
  OBVIOUS
<1>1. CASE UNCHANGED vars
  BY <1>1 DEF vars, libraryVars, callVars, LibraryInv, LibraryTypes, Held, OpenKits, CallsHaveKits, Idle
<1> QED
  BY <1>1, CallKeepsLibraryInv, StartKeepsLibraryInv, OpenKeepsLibraryInv, FinishKeepsLibraryInv,
     ReferKeepsLibraryInv DEF Next

\* A kit that exists has its library, and so has a call.
LEMMA LibraryIsThere == LibraryInv => LibraryStays
<1> SUFFICES ASSUME LibraryInv
             PROVE  LibraryStays
  OBVIOUS
<1> USE DEF LibraryInv
<1>1. ASSUME NEW k \in Kits, refs[k] # {}
      PROVE  Loaded
  <2>1. k \in OpenKits
    BY <1>1 DEF OpenKits
  <2>2. Cardinality(OpenKits) \in Nat \ {0}
    BY <2>1, OpenKitsFinite, FS_CardinalityType, FS_EmptySet
  <2> QED
    BY <1>1, <2>1, <2>2 DEF Held, Loaded, LibraryTypes
<1>2. ASSUME NEW c \in Callers, ~ Idle(c)
      PROVE  Loaded
  BY <1>1, <1>2 DEF CallsHaveKits, Held, Loaded, LibraryTypes
<1> QED
  BY <1>1, <1>2 DEF LibraryStays

\* No call runs in a library that was closed or was never loaded, for every
\* number of threads and kits (LibraryStays).
THEOREM LibraryAlwaysStays == Spec => []LibraryStays
  BY LibraryInit, LibraryNext, LibraryIsThere, PTL DEF Spec

-----------------------------------------------------------------------------
(* The answers.                                                            *)

\* The order in which the arguments are read gives an error they justify.
LEMMA OutcomeIsPermitted ==
  ASSUME NEW r \in Requests
  PROVE  Outcome(r) \in Calls!Permitted(r)
<1> USE DEF Calls!Justified, Calls!ErrorCodes, Calls!Bad
<1>1. /\ r.pdf \in {"bytes", "nothing", "null"}
      /\ r.options \in Calls!JsonArguments
      /\ r.revocation \in Calls!JsonArguments
      /\ r.panics \in BOOLEAN
  BY RequestsAssumption DEF Calls!Request
<1>2. CASE Outcome(r) = Calls!Report
  <2>1. /\ r.pdf # "null"
        /\ r.options \in {"absent", "good"}
        /\ r.revocation \in {"absent", "good"}
        /\ ~ r.panics
    BY <1>2 DEF Outcome, JsonError, Calls!Report
  <2>2. Calls!Justified(r) = {}
    BY <2>1
  <2> QED
    BY <1>2, <2>2 DEF Calls!Permitted
<1>3. CASE Outcome(r) # Calls!Report
  <2>1. Outcome(r) \in Calls!Justified(r)
    BY <1>1, <1>3 DEF Outcome, JsonError, Calls!Report, Calls!JsonArguments
  <2> QED
    BY <2>1 DEF Calls!Permitted
<1> QED
  BY <1>2, <1>3

StageOf(s) ==
  IF s = "out" THEN "idle"
  ELSE IF s \in {"calling", "working"} THEN "asked"
  ELSE IF s \in {"handed", "copied"} THEN "handed"
  ELSE "returned"

Stage == [c \in Callers |-> StageOf(pc[c])]

\* A caller that goes on changes its own stage only.
LEMMA StageOfStep ==
  ASSUME CallTypes, NEW c \in Callers, NEW s, pc' = [pc EXCEPT ![c] = s]
  PROVE  Stage' = [Stage EXCEPT ![c] = StageOf(s)]
  BY DEF CallTypes, Stage

\* How the end of a call looks from outside.
LEMMA EndAnswers ==
  ASSUME CallInv, NEW c \in Callers, NEW a, End(c, a),
         \/ pc[c] \in {"calling", "freed"} /\ a \in Calls!WrapperErrors
         \/ pc[c] = "freed" /\ a = json[c]
  PROVE  Calls!Fail(c) \/ Calls!Answer(c)
<1>1. /\ Stage' = [Stage EXCEPT ![c] = "idle"]
      /\ request' = [request EXCEPT ![c] = NoRequest]
      /\ answer' = [answer EXCEPT ![c] = a]
  BY StageOfStep DEF End, CallInv, StageOf
<1>2. CASE pc[c] \in {"calling", "freed"} /\ a \in Calls!WrapperErrors
  BY <1>1, <1>2 DEF Calls!Fail, Stage, StageOf
<1>3. CASE pc[c] = "freed" /\ a = json[c]
  <2>1. a \in Calls!Permitted(request[c])
    BY <1>3, OutcomeIsPermitted DEF CallInv, CopiesAreOwn
  <2> QED
    BY <1>1, <1>3, <2>1 DEF Calls!Answer, Stage, StageOf
<1> QED
  BY <1>2, <1>3

LEMMA CallImplements ==
  ASSUME CallInv, NEW c \in Callers, Call(c)
  PROVE  [Calls!Next]_(Calls!vars)
<1>1. CASE BridgeFails(c)
  BY <1>1, EndAnswers DEF BridgeFails, Calls!WrapperErrors, Calls!Next
<1>2. CASE Return(c)
  BY <1>2, EndAnswers DEF Return, Calls!Next
<1>3. CASE WrapperFails(c)
  BY <1>3, EndAnswers DEF WrapperFails, Calls!WrapperErrors, Calls!Next
<1>4. CASE Enter(c)
  <2>1. Stage' = [Stage EXCEPT ![c] = "asked"] /\ Stage[c] = "asked"
    BY <1>4, StageOfStep DEF Enter, CallInv, StageOf, Stage
  <2>2. Stage' = Stage /\ UNCHANGED <<request, answer>>
    BY <1>4, <2>1 DEF Enter, Stage
  <2> QED
    BY <2>2 DEF Calls!vars, Stage, StageOf
<1>5. CASE HandOut(c)
  <2>1. Stage' = [Stage EXCEPT ![c] = "handed"] /\ Stage[c] = "asked"
    BY <1>5, StageOfStep DEF HandOut, CallInv, StageOf, Stage
  <2>2. Calls!HandOut(c)
    BY <1>5, <2>1 DEF HandOut, Calls!HandOut, Stage, StageOf
  <2> QED
    BY <2>2 DEF Calls!Next
<1>6. CASE Copy(c)
  <2>1. Stage' = [Stage EXCEPT ![c] = "handed"] /\ Stage[c] = "handed"
    BY <1>6, StageOfStep DEF Copy, CallInv, StageOf, Stage
  <2>2. Stage' = Stage /\ UNCHANGED <<request, answer>>
    BY <1>6, <2>1 DEF Copy, Stage
  <2> QED
    BY <2>2 DEF Calls!vars, Stage, StageOf
<1>7. CASE GiveBack(c)
  <2>1. Stage' = [Stage EXCEPT ![c] = "returned"] /\ Stage[c] = "handed"
    BY <1>7, StageOfStep DEF GiveBack, CallInv, StageOf, Stage
  <2>2. Calls!TakeBack(c)
    BY <1>7, <2>1 DEF GiveBack, Calls!TakeBack, Stage, StageOf
  <2> QED
    BY <2>2 DEF Calls!Next
<1> QED
  BY <1>1, <1>2, <1>3, <1>4, <1>5, <1>6, <1>7 DEF Call

LEMMA StartImplements ==
  ASSUME CallInv, NEW c \in Callers, NEW k, StartCall(c, k)
  PROVE  Calls!Ask(c)
<1>1. Stage' = [Stage EXCEPT ![c] = "asked"] /\ Stage[c] = "idle"
  BY StageOfStep DEF StartCall, CallInv, StageOf, Stage, Idle
<1> QED
  BY <1>1 DEF StartCall, Calls!Ask, Stage, StageOf

\* What happens to kits and to the library cannot be seen from outside.
LEMMA NextImplements == CallInv /\ [Next]_vars => [Calls!Next]_(Calls!vars)
<1> SUFFICES ASSUME CallInv, [Next]_vars
             PROVE  [Calls!Next]_(Calls!vars)
  OBVIOUS
<1>1. CASE UNCHANGED callVars
  BY <1>1 DEF callVars, Calls!vars
<1>2. ASSUME NEW c \in Callers, NEW k \in Kits, Open(c, k) \/ Refer(c, k)
      PROVE  UNCHANGED callVars
  BY <1>2 DEF Open, Refer, OpenLibrary, EnterLoad, DropKit, ShareKit
<1>3. ASSUME NEW k \in Kits, FinishOpening(k)
      PROVE  UNCHANGED callVars
  BY <1>3 DEF FinishOpening, FindSymbols, MissSymbol, AlreadyLoaded, LoadLibrary, FailToLoad
<1>4. ASSUME NEW c \in Callers, NEW k, StartCall(c, k)
      PROVE  Calls!Next
  BY <1>4, StartImplements DEF Calls!Next
<1>5. UNCHANGED vars => UNCHANGED callVars
  BY DEF vars, callVars
<1> QED
  BY <1>1, <1>2, <1>3, <1>4, <1>5, CallImplements DEF Next

LEMMA InitImplements == Init => Calls!Init
  BY DEF Init, Calls!Init

\* Whatever threads, kits and wrappers do, calls are answered as JsonCalls
\* promises (ImplementsJsonCalls).
THEOREM LifecycleImplementsJsonCalls == Spec => ImplementsJsonCalls
  BY CallInit, CallNext, NextImplements, InitImplements, PTL
     DEF Spec, ImplementsJsonCalls, Calls!Spec
=============================================================================

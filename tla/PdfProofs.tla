------------------------------ MODULE PdfProofs -------------------------------
(***************************************************************************)
(* Proofs about FieldTree and PdfRevisions.                                *)
(* FieldTree: whatever the revisions contain, the walk counts no field     *)
(* twice, finds nothing but the signature fields of the form, and misses   *)
(* none where fields have one parent.  All that is assumed of a revision   *)
(* is that it is a sequence of objects with lists of references.           *)
(* PdfRevisions: whatever well-formed file is signed and whatever updates  *)
(* follow, updates that leave the signed part alone are never taken for a  *)
(* change, validation data is recognised, what is accepted without a       *)
(* warning shows the text that was signed, a signature is not lost, and    *)
(* evidence keeps counting.                                                *)
(***************************************************************************)
EXTENDS FieldTree, PdfRevisions, Integers, FiniteSetTheorems, SequenceTheorems, TLAPS

\* FoundOnce is not inductive: that the next field is a new one is known only
\* because everything found was visited.
FoundInv ==
  /\ found \in Seq(visited)
  /\ FoundOnce

\* A field that is visited for the first time may be appended.
LEMMA AppendNew ==
  ASSUME NEW seen, NEW ids \in Seq(seen), NEW id, id \notin seen,
         \A i, j \in DOMAIN ids : ids[i] = ids[j] => i = j
  PROVE  /\ Append(ids, id) \in Seq(seen \cup {id})
         /\ \A i, j \in DOMAIN Append(ids, id) :
              Append(ids, id)[i] = Append(ids, id)[j] => i = j
<1> DEFINE more == Append(ids, id)
<1>1. ids \in Seq(seen \cup {id})
  OBVIOUS
<1>2. more \in Seq(seen \cup {id})
  BY <1>1
<1>3. DOMAIN more = 1 .. Len(ids) + 1 /\ DOMAIN ids = 1 .. Len(ids) /\ Len(ids) \in Nat
  OBVIOUS
<1>4. \A i \in 1 .. Len(ids) : more[i] = ids[i] /\ more[i] \in seen
  OBVIOUS
<1>5. more[Len(ids) + 1] = id
  OBVIOUS
<1>6. ASSUME NEW i \in DOMAIN more, NEW j \in DOMAIN more, more[i] = more[j]
      PROVE  i = j
  <2>1. CASE i \in 1 .. Len(ids) /\ j \in 1 .. Len(ids)
    BY <1>3, <1>4, <1>6, <2>1
  <2>2. CASE i = Len(ids) + 1 /\ j \in 1 .. Len(ids)
    BY <1>4, <1>5, <1>6, <2>2
  <2>3. CASE i \in 1 .. Len(ids) /\ j = Len(ids) + 1
    BY <1>4, <1>5, <1>6, <2>3
  <2> QED
    BY <1>3, <2>1, <2>2, <2>3
<1> QED
  BY <1>2, <1>6

\* What has been visited stays visited.
LEMMA VisitedGrows ==
  ASSUME NEW seen, NEW ids \in Seq(seen), NEW id
  PROVE  ids \in Seq(seen \cup {id})
OBVIOUS

\* The walk starts with nothing found.
LEMMA InitFound == StartWalk => FoundInv
  BY DEF StartWalk, FoundInv, FoundOnce

\* A step of the walk finds no field a second time.
LEMMA NextFound == FoundInv /\ [Walk]_walkVars => FoundInv'
<1> SUFFICES ASSUME FoundInv, [Walk]_walkVars
             PROVE  FoundInv'
  OBVIOUS
<1> USE DEF FoundInv
<1>1. CASE SkipVisited
  BY <1>1 DEF SkipVisited, FoundOnce
<1>2. CASE SkipMissing
  BY <1>2, VisitedGrows DEF SkipMissing, FoundOnce
<1>3. CASE Visit
  <2> DEFINE id == Head(pending).id
  <2>1. id \notin visited /\ visited' = visited \cup {id}
    BY <1>3 DEF Visit
  <2>2. CASE found' = found
    BY <2>1, <2>2, VisitedGrows DEF FoundOnce
  <2>3. CASE found' = Append(found, id)
    BY <2>1, <2>3, AppendNew DEF FoundOnce
  <2> QED
    BY <1>3, <2>2, <2>3 DEF Visit
<1>4. CASE UNCHANGED walkVars
  BY <1>4 DEF walkVars, FoundOnce
<1> QED
  BY <1>1, <1>2, <1>3, <1>4 DEF Walk

\* A field is counted once in every revision, however the /Kids refer to one
\* another (FoundOnce).
THEOREM FieldsAreFoundOnce == WalkSpec => []FoundOnce
<1>1. FoundInv => FoundOnce
  BY DEF FoundInv
<1> QED
  BY <1>1, InitFound, NextFound, PTL DEF WalkSpec

-----------------------------------------------------------------------------
(* The least of a set of numbers.                                          *)

NatLess == {pair \in Nat \X Nat : pair[1] < pair[2]}

\* There is no endless descent among the natural numbers.
LEMMA NatLessWellFounded == IsWellFoundedOn(NatLess, Nat)
BY NatLessThanWellFounded, Zenon DEF OpToRel, NatLess

\* A set of natural numbers has a least element.
LEMMA LeastNatural ==
  ASSUME NEW S, S \subseteq Nat, S # {}
  PROVE  \E x \in S : \A y \in S : x <= y
<1>1. PICK x \in S : \A y \in S : ~ (<<y, x>> \in NatLess)
  BY NatLessWellFounded, WFMin
<1>2. ASSUME NEW y \in S PROVE x <= y
  <2>1. <<y, x>> \in Nat \X Nat
    OBVIOUS
  <2>2. ~ (y < x)
    BY <1>1, <2>1 DEF NatLess
  <2> QED BY <2>2
<1> QED BY <1>1, <1>2

-----------------------------------------------------------------------------
(* The closure is what can be reached: the least set that has the seed and *)
(* the kids of its objects.                                                *)

HasKids(S, objects) == \A o \in objects : o.id \in S => Kids(o) \subseteq S

IsReach(C, objects, seed) ==
  /\ seed \subseteq C
  /\ HasKids(C, objects)
  /\ \A S : seed \subseteq S /\ HasKids(S, objects) => C \subseteq S

\* Finitely many objects have finitely many kids.
LEMMA FiniteUnionOfKids ==
  ASSUME NEW objects, IsFiniteSet(objects), \A o \in objects : IsFiniteSet(Kids(o))
  PROVE  IsFiniteSet(UNION {Kids(o) : o \in objects})
<1> DEFINE f == [o \in objects |-> Kids(o)]
           T == {Kids(o) : o \in objects}
<1>1. f \in Surjection(objects, T)
  BY DEF Surjection
<1>2. IsFiniteSet(T)  BY <1>1, FS_Surjection
<1> QED  BY <1>2, FS_UNION

\* A recursive function on the subsets of a finite set that only grows its
\* argument has one value for each of them.
OnlyGrows(more, U) ==
  more \in [SUBSET U -> SUBSET U] /\ \A ids \in SUBSET U : ids \subseteq more[ids]

FollowsGrowth(r, more, U) ==
  \A ids \in SUBSET U : r[ids] = IF more[ids] = ids THEN ids ELSE r[more[ids]]

\* One function at most satisfies the recursion that adds the kids.
LEMMA GrowthIsDetermined ==
  ASSUME NEW U, IsFiniteSet(U), NEW more, OnlyGrows(more, U),
         NEW r, FollowsGrowth(r, more, U), NEW g, FollowsGrowth(g, more, U), NEW seed \in SUBSET U
  PROVE  r[seed] = g[seed]
<1> USE DEF OnlyGrows, FollowsGrowth
<1> DEFINE Bad == {ids \in SUBSET U : r[ids] # g[ids]}
           Sizes == {Cardinality(U \ ids) : ids \in Bad}
<1> SUFFICES ASSUME r[seed] # g[seed] PROVE FALSE
  OBVIOUS
<1>13. seed \in Bad  OBVIOUS
<1>1. ASSUME NEW ids \in SUBSET U
      PROVE  IsFiniteSet(U \ ids) /\ Cardinality(U \ ids) \in Nat
  BY FS_Difference, FS_CardinalityType
<1>2. /\ Sizes \subseteq Nat /\ Sizes # {}
      /\ \A ids \in Bad : Cardinality(U \ ids) \in Sizes
  BY <1>1, <1>13
<1> HIDE DEF Sizes
<1>3. PICK n \in Sizes : \A k \in Sizes : n <= k  BY <1>2, LeastNatural
<1>4. PICK ids \in Bad : n = Cardinality(U \ ids)  BY <1>3 DEF Sizes
<1>5. more[ids] # ids /\ ids \subseteq more[ids] /\ more[ids] \in SUBSET U
  BY <1>4
<1>6. r[more[ids]] # g[more[ids]]  BY <1>4, <1>5
<1>7. more[ids] \in Bad  BY <1>5, <1>6
<1>8. n <= Cardinality(U \ more[ids])  BY <1>2, <1>3, <1>7
<1>9. U \ more[ids] \subseteq U \ ids /\ U \ more[ids] # U \ ids  BY <1>5
<1>10. Cardinality(U \ more[ids]) < Cardinality(U \ ids)
  <2>1. IsFiniteSet(U \ ids) /\ Cardinality(U \ ids) \in Nat /\ Cardinality(U \ more[ids]) \in Nat
    BY <1>1, <1>5
  <2>2. /\ Cardinality(U \ more[ids]) <= Cardinality(U \ ids)
        /\ Cardinality(U \ ids) = Cardinality(U \ more[ids]) => U \ ids = U \ more[ids]
    BY <2>1, <1>9, FS_Subset
  <2> QED  BY <1>9, <2>1, <2>2
<1>11. Cardinality(U \ ids) \in Nat /\ Cardinality(U \ more[ids]) \in Nat  BY <1>1, <1>5
<1> QED  BY <1>4, <1>8, <1>10, <1>11

\* The closure is the least set that holds the seed and the kids of its objects.
LEMMA ClosureIsReach ==
  ASSUME NEW objects, IsFiniteSet(objects), NEW seed, IsFiniteSet(seed),
         \A o \in objects : IsFiniteSet(Kids(o))
  PROVE  IsReach(Closure(objects, seed, Kids), objects, seed)
<1> DEFINE U == seed \cup UNION {Kids(o) : o \in objects}
           More(ids) == ids \cup UNION {Kids(o) : o \in {x \in objects : x.id \in ids}}
           more == [ids \in SUBSET U |-> More(ids)]
           Least(ids) == {x \in U : \A S \in SUBSET U : ids \subseteq S /\ HasKids(S, objects) => x \in S}
           g == [ids \in SUBSET U |-> Least(ids)]
           r == CHOOSE f : f = [ids \in SUBSET U |-> IF More(ids) = ids THEN ids ELSE f[More(ids)]]
<1>1. IsFiniteSet(U)  BY FiniteUnionOfKids, FS_Union
<1>2. ASSUME NEW ids \in SUBSET U
      PROVE  /\ More(ids) \in SUBSET U /\ ids \subseteq More(ids)
             /\ More(ids) = ids <=> HasKids(ids, objects)
             /\ \A S : ids \subseteq S /\ HasKids(S, objects) => More(ids) \subseteq S
  <2>1. More(ids) \in SUBSET U /\ ids \subseteq More(ids)
    OBVIOUS
  <2>2. More(ids) = ids <=> HasKids(ids, objects)
    BY DEF HasKids
  <2>3. \A S : ids \subseteq S /\ HasKids(S, objects) => More(ids) \subseteq S
    BY DEF HasKids
  <2> QED  BY <2>1, <2>2, <2>3
<1>3. ASSUME NEW ids \in SUBSET U
      PROVE  Least(ids) = IF More(ids) = ids THEN ids ELSE Least(More(ids))
  <2>1. CASE More(ids) = ids
    <3>1. HasKids(ids, objects)  BY <1>2, <2>1
    <3>2. Least(ids) = ids  BY <3>1
    <3> QED  BY <2>1, <3>2
  <2>2. CASE More(ids) # ids
    <3>1. \A S \in SUBSET U : HasKids(S, objects) => (ids \subseteq S <=> More(ids) \subseteq S)
      <4> HIDE DEF More
      <4> QED  BY <1>2
    <3>2. Least(ids) = Least(More(ids))
      <4> HIDE DEF More
      <4> QED  BY <3>1
    <3> QED  BY <2>2, <3>2
  <2> QED  BY <2>1, <2>2
<1>4. Closure(objects, seed, Kids) = r[seed]  BY DEF Closure
<1> HIDE DEF More, Least
<1>5. g = [ids \in SUBSET U |-> IF More(ids) = ids THEN ids ELSE g[More(ids)]]
  BY <1>2, <1>3
<1> HIDE DEF g
<1>6. r = [ids \in SUBSET U |-> IF More(ids) = ids THEN ids ELSE r[More(ids)]]
  <2>1. \E f : f = [ids \in SUBSET U |-> IF More(ids) = ids THEN ids ELSE f[More(ids)]]
    BY <1>5
  <2> QED  BY <2>1, Zenon
<1> HIDE DEF r, U
<1>7. r[seed] = g[seed]
  <2>1. OnlyGrows(more, U) /\ \A ids \in SUBSET U : more[ids] = More(ids)
    BY <1>2 DEF OnlyGrows
  <2>2. FollowsGrowth(r, more, U) /\ FollowsGrowth(g, more, U)
    BY <1>5, <1>6, <2>1 DEF FollowsGrowth
  <2> HIDE DEF more
  <2>3. seed \in SUBSET U  BY DEF U
  <2> QED  BY <1>1, <2>1, <2>2, <2>3, GrowthIsDetermined
<1>8. IsReach(Least(seed), objects, seed)
  <2>1. seed \subseteq Least(seed)  BY DEF Least, U
  <2>2. ASSUME NEW S, seed \subseteq S, HasKids(S, objects) PROVE Least(seed) \subseteq S
    <3>1. seed \subseteq S \cap U /\ HasKids(S \cap U, objects) /\ S \cap U \in SUBSET U
      BY <2>2 DEF HasKids, U
    <3> QED  BY <3>1 DEF Least
  <2>3. HasKids(Least(seed), objects)
    <3> SUFFICES ASSUME NEW o \in objects, o.id \in Least(seed), NEW x \in Kids(o)
                 PROVE  x \in Least(seed)
      BY DEF HasKids
    <3>1. x \in U  BY DEF U
    <3>2. \A S \in SUBSET U : seed \subseteq S /\ HasKids(S, objects) => x \in S
      BY DEF Least, HasKids
    <3> QED  BY <3>1, <3>2 DEF Least
  <2> QED  BY <2>1, <2>2, <2>3 DEF IsReach
<1>9. g[seed] = Least(seed)  BY DEF g, U
<1> QED  BY <1>4, <1>7, <1>8, <1>9

-----------------------------------------------------------------------------
(* Sequences and their elements.                                           *)

\* A sequence has finitely many elements.
LEMMA ElementsAreFinite ==
  ASSUME NEW S, NEW s \in Seq(S)
  PROVE  IsFiniteSet(ToSet(s)) /\ ToSet(s) \subseteq S
<1>1. DOMAIN s = 1..Len(s) /\ Len(s) \in Nat /\ \A i \in 1..Len(s) : s[i] \in S
  OBVIOUS
<1> DEFINE f == [i \in 1..Len(s) |-> s[i]]
<1>2. f \in Surjection(1..Len(s), ToSet(s))
  BY <1>1 DEF Surjection, ToSet
<1>3. IsFiniteSet(1..Len(s))  BY <1>1, FS_Interval
<1> HIDE DEF f
<1>4. IsFiniteSet(ToSet(s))  BY <1>2, <1>3, FS_Surjection
<1>5. ToSet(s) \subseteq S  BY <1>1 DEF ToSet
<1> QED  BY <1>4, <1>5

\* The elements of two sequences put together are those of either.
LEMMA ElementsOfConcat ==
  ASSUME NEW S, NEW s \in Seq(S), NEW t \in Seq(S)
  PROVE  ToSet(s \o t) = ToSet(s) \cup ToSet(t)
<1> DEFINE u == s \o t
<1>1. /\ u \in Seq(S) /\ Len(s) \in Nat /\ Len(t) \in Nat /\ Len(u) = Len(s) + Len(t)
      /\ DOMAIN u = 1..Len(u) /\ DOMAIN s = 1..Len(s) /\ DOMAIN t = 1..Len(t)
      /\ \A i \in 1..Len(s) + Len(t) : u[i] = IF i <= Len(s) THEN s[i] ELSE t[i - Len(s)]
  BY ConcatProperties
<1> HIDE DEF u
<1>2. ASSUME NEW i \in 1..Len(u) PROVE u[i] \in ToSet(s) \cup ToSet(t)
  <2>1. CASE i <= Len(s)  BY <1>1, <2>1 DEF ToSet
  <2>2. CASE i > Len(s)
    <3>1. i - Len(s) \in 1..Len(t)  BY <1>1, <2>2
    <3>2. u[i] = t[i - Len(s)]  BY <1>1, <2>2
    <3> QED  BY <1>1, <3>1, <3>2 DEF ToSet
  <2> QED  BY <1>1, <2>1, <2>2
<1>3. ASSUME NEW i \in 1..Len(s) PROVE s[i] \in ToSet(u)
  <2>1. i \in 1..Len(u) /\ u[i] = s[i]  BY <1>1
  <2> QED  BY <1>1, <2>1 DEF ToSet
<1>4. ASSUME NEW i \in 1..Len(t) PROVE t[i] \in ToSet(u)
  <2>1. Len(s) + i \in 1..Len(u) /\ u[Len(s) + i] = t[i]  BY <1>1
  <2> QED  BY <1>1, <2>1 DEF ToSet
<1>5. ToSet(u) = ToSet(s) \cup ToSet(t)
  BY <1>1, <1>2, <1>3, <1>4 DEF ToSet
<1> QED  BY <1>5 DEF u

\* A sequence that is not empty has its head and the elements of its tail.
LEMMA ElementsOfTail ==
  ASSUME NEW S, NEW s \in Seq(S), s # <<>>
  PROVE  /\ Head(s) \in S /\ Tail(s) \in Seq(S)
         /\ ToSet(s) = {Head(s)} \cup ToSet(Tail(s))
<1>1. /\ Head(s) \in S /\ Tail(s) \in Seq(S) /\ Len(s) \in Nat /\ Len(s) > 0
      /\ Len(Tail(s)) = Len(s) - 1 /\ Head(s) = s[1]
      /\ \A i \in 1..Len(Tail(s)) : Tail(s)[i] = s[i + 1]
      /\ DOMAIN s = 1..Len(s) /\ DOMAIN Tail(s) = 1..Len(Tail(s))
  BY HeadTailProperties
<1>2. ASSUME NEW i \in 1..Len(s) PROVE s[i] \in {Head(s)} \cup ToSet(Tail(s))
  <2>1. CASE i = 1  BY <1>1, <2>1
  <2>2. CASE i # 1
    <3>1. i - 1 \in 1..Len(Tail(s)) /\ Tail(s)[i - 1] = s[i]  BY <1>1, <2>2
    <3> QED  BY <1>1, <3>1 DEF ToSet
  <2> QED  BY <2>1, <2>2
<1>3. ASSUME NEW i \in 1..Len(Tail(s)) PROVE Tail(s)[i] \in ToSet(s)
  <2>1. i + 1 \in 1..Len(s) /\ s[i + 1] = Tail(s)[i]  BY <1>1
  <2> QED  BY <1>1, <2>1 DEF ToSet
<1>4. Head(s) \in ToSet(s)  BY <1>1 DEF ToSet
<1>5. ToSet(s) = {Head(s)} \cup ToSet(Tail(s))
  BY <1>1, <1>2, <1>3, <1>4 DEF ToSet
<1> QED  BY <1>1, <1>5

\* Appending adds one element.
LEMMA ElementsOfAppend ==
  ASSUME NEW S, NEW s \in Seq(S), NEW x \in S
  PROVE  Append(s, x) \in Seq(S) /\ ToSet(Append(s, x)) = ToSet(s) \cup {x}
<1> DEFINE u == Append(s, x)
<1>1. /\ u \in Seq(S) /\ Len(s) \in Nat /\ Len(u) = Len(s) + 1
      /\ DOMAIN u = 1..Len(u) /\ DOMAIN s = 1..Len(s)
      /\ \A i \in 1..Len(s) : u[i] = s[i]
      /\ u[Len(s) + 1] = x
  BY AppendProperties
<1> HIDE DEF u
<1>2. ToSet(u) = ToSet(s) \cup {x}
  BY <1>1 DEF ToSet
<1> QED  BY <1>1, <1>2 DEF u

-----------------------------------------------------------------------------
(* The objects in force of a revision.                                     *)

\* Each id has one object in force at most, with lists of references.
LEMMA InForceFacts ==
  ASSUME NEW r \in Revisions
  PROVE  /\ IsFiniteSet(InForce(r)) /\ InForce(r) \subseteq ToSet(r)
         /\ \A o, p \in InForce(r) : o.id = p.id => o = p
         /\ \A o \in ToSet(r) : \A name : RefsAfter(o, name) \in Seq(Ids)
<1>1. r \in Seq(ToSet(r)) /\ DOMAIN r = 1..Len(r) /\ Len(r) \in Nat
  BY RevisionsAssumption
<1>2. Current(r) \subseteq DOMAIN r  BY DEF Current
<1>3. InForce(r) \subseteq ToSet(r)  BY <1>2 DEF InForce, ToSet
<1>4. IsFiniteSet(InForce(r))
  <2>1. IsFiniteSet(ToSet(r))  BY <1>1, ElementsAreFinite
  <2> QED  BY <1>3, <2>1, FS_Subset
<1>5. ASSUME NEW i \in Current(r), NEW j \in Current(r), r[i].id = r[j].id
      PROVE  r[i] = r[j]
  <2>1. i <= j /\ j <= i  BY <1>5 DEF Current
  <2>2. i \in 1..Len(r) /\ j \in 1..Len(r)  BY <1>1, <1>2
  <2>3. i = j  BY <1>1, <2>1, <2>2
  <2> QED  BY <2>3
<1>6. \A o, p \in InForce(r) : o.id = p.id => o = p  BY <1>5 DEF InForce
<1>7. \A o \in ToSet(r) : \A name : RefsAfter(o, name) \in Seq(Ids)
  BY RevisionsAssumption DEF RefsAfter
<1> QED  BY <1>3, <1>4, <1>6, <1>7

\* Among objects of their own the last is the last of the file.
LEMMA LastOfDirect ==
  ASSUME NEW r \in Revisions, NEW places \in SUBSET Current(r), places # {}
  PROVE  LastOf(r, places) \in InForce(r)
<1>1. r \in Seq(ToSet(r)) /\ DOMAIN r = 1..Len(r) /\ Len(r) \in Nat
  BY RevisionsAssumption
<1>2. \A i \in places : i \in 1..Len(r) /\ IsDirect(r[i])  BY <1>1 DEF Current
<1> DEFINE After == {Len(r) - i : i \in places}
<1>3. After \subseteq Nat /\ After # {}  BY <1>1, <1>2
<1>4. PICK k \in After : \A l \in After : k <= l  BY <1>3, LeastNatural
<1>5. PICK i \in places : k = Len(r) - i  BY <1>4
<1>6. ASSUME NEW j \in places \ {i} PROVE Precedes(r, j, i)
  <2>1. k <= Len(r) - j  BY <1>4, <1>6
  <2>2. i \in Nat /\ j \in Nat /\ j < i  BY <1>1, <1>2, <1>5, <2>1
  <2>3. Start(r, j) = 2 * j /\ Start(r, i) = 2 * i  BY <1>2, <2>2 DEF Start, Span, IsDirect
  <2> QED  BY <2>2, <2>3 DEF Precedes
<1> HIDE DEF After
<1>7. \E x \in places : \A j \in places \ {x} : Precedes(r, j, x)  BY <1>6
<1>8. (CHOOSE x \in places : \A j \in places \ {x} : Precedes(r, j, x)) \in places
  BY <1>7, Zenon
<1> QED  BY <1>8 DEF LastOf, InForce

\* The form lists ids.
LEMMA FormFieldsAreIds ==
  ASSUME NEW r \in Revisions
  PROVE  FormFields(r) \in Seq(Ids)
<1> DEFINE places == Catalogs(r) \cap Current(r)
           catalog == LastOf(r, places)
           form == FirstRef(catalog, "AcroForm")
<1>1. CASE places = {}  BY <1>1 DEF FormFields
<1>2. CASE places # {} /\ IsInForce(r, form)
  <2>1. ObjectInForce(r, form) \in InForce(r)
    BY <1>2, Zenon DEF IsInForce, ObjectInForce
  <2>2. FormFields(r) = RefsAfter(ObjectInForce(r, form), "Fields")
    BY <1>2 DEF FormFields
  <2> QED  BY <2>1, <2>2, InForceFacts
<1>3. CASE places # {} /\ ~ IsInForce(r, form)
  <2>1. catalog \in InForce(r)  BY <1>3, LastOfDirect
  <2>2. FormFields(r) = RefsAfter(catalog, "Fields")  BY <1>3 DEF FormFields
  <2> HIDE DEF catalog
  <2> QED  BY <2>1, <2>2, InForceFacts
<1> QED  BY <1>1, <1>2, <1>3

\* An object has finitely many kids.
LEMMA KidsAreFinite ==
  ASSUME NEW r \in Revisions, NEW o \in InForce(r)
  PROVE  IsFiniteSet(Kids(o)) /\ Kids(o) \subseteq Ids
<1>1. RefsAfter(o, "Kids") \in Seq(Ids)  BY InForceFacts
<1> QED  BY <1>1, ElementsAreFinite DEF Kids

-----------------------------------------------------------------------------
(* The fields of the form, and those below a signature field.              *)

FormObjects(r) == {o \in InForce(r) : o.id \in FieldsOfForm(r)}
Roots(r) == {o.id : o \in {x \in FormObjects(r) : IsSignatureField(x)}}
Typed(r) == Closure(FormObjects(r), Roots(r), Kids)

\* The signature fields are the typed fields of the form that have a value.
LEMMA SignatureFieldsAre ==
  ASSUME NEW r
  PROVE  SignatureFields(r) =
           {o.id : o \in {x \in FormObjects(r) : x.id \in Typed(r) /\ FirstRef(x, "V") # NoReference}}
BY DEF SignatureFields, Typed, Roots, FormObjects

\* The fields of the form are what its list leads to.
LEMMA FieldsAreReach ==
  ASSUME NEW r \in Revisions
  PROVE  IsReach(FieldsOfForm(r), InForce(r), ToSet(FormFields(r)))
<1>1. IsFiniteSet(ToSet(FormFields(r)))  BY FormFieldsAreIds, ElementsAreFinite
<1>2. IsFiniteSet(InForce(r)) /\ \A o \in InForce(r) : IsFiniteSet(Kids(o))
  BY InForceFacts, KidsAreFinite
<1> QED  BY <1>1, <1>2, ClosureIsReach DEF FieldsOfForm

\* The typed fields are what the fields that say their type lead to.
LEMMA TypedAreReach ==
  ASSUME NEW r \in Revisions
  PROVE  IsReach(Typed(r), FormObjects(r), Roots(r))
<1>1. FormObjects(r) \subseteq InForce(r)  BY DEF FormObjects
<1>2. IsFiniteSet(FormObjects(r)) /\ \A o \in FormObjects(r) : IsFiniteSet(Kids(o))
  BY <1>1, InForceFacts, KidsAreFinite, FS_Subset
<1> DEFINE X == {x \in FormObjects(r) : IsSignatureField(x)}
           f == [o \in X |-> o.id]
<1>3. IsFiniteSet(X)  BY <1>2, FS_Subset
<1>4. f \in Surjection(X, Roots(r))  BY DEF Surjection, Roots
<1> HIDE DEF X, f
<1>5. IsFiniteSet(Roots(r))  BY <1>3, <1>4, FS_Surjection
<1> QED  BY <1>2, <1>5, ClosureIsReach DEF Typed

\* Why a field is below a signature field.
LEMMA TypedHasReason ==
  ASSUME NEW r \in Revisions, NEW o \in FormObjects(r), o.id \in Typed(r)
  PROVE  \/ IsSignatureField(o)
         \/ \E p \in FormObjects(r) : p.id \in Typed(r) /\ o.id \in Kids(p)
<1> DEFINE S == {x \in Typed(r) : \/ x \in Roots(r)
                                  \/ \E p \in FormObjects(r) : p.id \in Typed(r) /\ x \in Kids(p)}
<1>1. Roots(r) \subseteq Typed(r) /\ HasKids(Typed(r), FormObjects(r))
  BY TypedAreReach DEF IsReach
<1>2. Roots(r) \subseteq S  BY <1>1
<1>3. HasKids(S, FormObjects(r))  BY <1>1 DEF HasKids
<1>4. Typed(r) \subseteq S
  <2> HIDE DEF S
  <2> QED  BY <1>2, <1>3, TypedAreReach DEF IsReach
<1>5. o.id \in S  BY <1>4
<1>6. o.id \in Roots(r) => IsSignatureField(o)
  <2> SUFFICES ASSUME NEW x \in FormObjects(r), IsSignatureField(x), x.id = o.id
               PROVE  IsSignatureField(o)
    BY DEF Roots
  <2>1. x = o  BY InForceFacts DEF FormObjects
  <2> QED  BY <2>1
<1> QED  BY <1>5, <1>6

-----------------------------------------------------------------------------
(* What the walk knows about the calls to come and the fields behind it.   *)

PendingCall == [id : Ids, inherited : BOOLEAN]
PendingIds == {c.id : c \in ToSet(pending)}

OneReferrer == \A id \in FieldsOfForm(revision) : Referrers(id) = 1

\* The field is a kid of one that is, or is below, a signature field.
BelowSignature(id) == \E p \in FormObjects(revision) : p.id \in Typed(revision) /\ id \in Kids(p)

\* No call and nothing found is outside the form or claims a type it has not.
WalkIsSound ==
  /\ \A c \in ToSet(pending) :
       c.id \in FieldsOfForm(revision) /\ (c.inherited => c.id \in Typed(revision))
  /\ ToSet(found) \subseteq SignatureFields(revision)

\* What is not visited yet is still to come, and what is behind was found.
WalkIsComplete ==
  /\ ToSet(FormFields(revision)) \subseteq visited \cup PendingIds
  /\ \A o \in InForce(revision) :
       o.id \in visited =>
         /\ Kids(o) \subseteq visited \cup PendingIds
         /\ o.id \in SignatureFields(revision) /\ (IsSignatureField(o) \/ OneReferrer)
              => o.id \in ToSet(found)
  /\ OneReferrer => \A c \in ToSet(pending) : BelowSignature(c.id) => c.inherited

WalkInv ==
  /\ revision \in Revisions
  /\ pending \in Seq(PendingCall)
  /\ found \in Seq(Ids)
  /\ WalkIsSound
  /\ WalkIsComplete

\* The calls for a list of ids are one for each, with the type handed down.
LEMMA CallsAre ==
  ASSUME NEW ids \in Seq(Ids), NEW inherited \in BOOLEAN
  PROVE  /\ Calls(ids, inherited) \in Seq(PendingCall)
         /\ \A c \in ToSet(Calls(ids, inherited)) : c.inherited = inherited /\ c.id \in ToSet(ids)
         /\ \A id \in ToSet(ids) : \E c \in ToSet(Calls(ids, inherited)) : c.id = id
<1> DEFINE s == Calls(ids, inherited)
<1>1. DOMAIN ids = 1..Len(ids) /\ Len(ids) \in Nat /\ \A k \in 1..Len(ids) : ids[k] \in Ids
  OBVIOUS
<1>2. s = [k \in 1..Len(ids) |-> [id |-> ids[k], inherited |-> inherited]]
  BY <1>1 DEF Calls, Call
<1>3. s \in [1..Len(ids) -> PendingCall]  BY <1>1, <1>2 DEF PendingCall
<1>4. s \in Seq(PendingCall) /\ DOMAIN s = 1..Len(ids)
  <2> HIDE DEF s
  <2> QED  BY <1>1, <1>3, SeqDef
<1>5. \A k \in 1..Len(ids) : s[k].id = ids[k] /\ s[k].inherited = inherited  BY <1>2
<1> HIDE DEF s
<1>6. /\ \A c \in ToSet(s) : c.inherited = inherited /\ c.id \in ToSet(ids)
      /\ \A id \in ToSet(ids) : \E c \in ToSet(s) : c.id = id
  BY <1>1, <1>4, <1>5 DEF ToSet
<1> QED  BY <1>4, <1>6 DEF s

\* A field with one referrer has one parent, or is a field of the form itself.
LEMMA OneParent ==
  ASSUME revision \in Revisions, OneReferrer, NEW id \in FieldsOfForm(revision)
  PROVE  /\ \A p, q \in InForce(revision) : id \in Kids(p) /\ id \in Kids(q) => p = q
         /\ id \in ToSet(FormFields(revision)) => \A p \in InForce(revision) : id \notin Kids(p)
<1> DEFINE form == FormFields(revision)
           Places == {k \in DOMAIN form : form[k] = id}
           Parents == {o \in InForce(revision) : id \in Kids(o)}
<1>1. Cardinality(Places) + Cardinality(Parents) = 1  BY DEF OneReferrer, Referrers
<1>2. IsFiniteSet(Parents) /\ Cardinality(Parents) \in Nat
  BY InForceFacts, FS_Subset, FS_CardinalityType
<1>3. IsFiniteSet(Places) /\ Cardinality(Places) \in Nat
  <2>1. DOMAIN form = 1..Len(form) /\ Len(form) \in Nat  BY FormFieldsAreIds
  <2>2. IsFiniteSet(DOMAIN form)  BY <2>1, FS_Interval
  <2> QED  BY <2>2, FS_Subset, FS_CardinalityType
<1> HIDE DEF Parents, Places
<1>4. Cardinality(Parents) = 0 => Parents = {}  BY <1>2, FS_EmptySet
<1>5. Cardinality(Parents) = 1 => \E o : Parents = {o}  BY <1>2, FS_Singleton
<1>6. \A p, q \in Parents : p = q  BY <1>1, <1>2, <1>3, <1>4, <1>5
<1>7. ASSUME id \in ToSet(form) PROVE Parents = {}
  <2>1. Places # {}  BY <1>7 DEF Places, ToSet
  <2>2. Cardinality(Places) # 0  BY <1>3, <2>1, FS_EmptySet
  <2> QED  BY <1>1, <1>2, <1>3, <1>4, <2>2
<1> QED  BY <1>6, <1>7 DEF Parents

\* The invariant of the walk holds at its start.
LEMMA InitWalks == StartWalk => WalkInv
<1> SUFFICES ASSUME StartWalk PROVE WalkInv
  OBVIOUS
<1>1. revision \in Revisions /\ found = <<>> /\ visited = {} /\ found \in Seq(Ids)
  BY DEF StartWalk
<1>2. FormFields(revision) \in Seq(Ids)  BY <1>1, FormFieldsAreIds
<1>3. /\ pending \in Seq(PendingCall)
      /\ \A c \in ToSet(pending) : c.inherited = FALSE /\ c.id \in ToSet(FormFields(revision))
      /\ \A id \in ToSet(FormFields(revision)) : \E c \in ToSet(pending) : c.id = id
  BY <1>2, CallsAre DEF StartWalk
<1>4. ToSet(FormFields(revision)) \subseteq FieldsOfForm(revision)
  BY <1>1, FieldsAreReach DEF IsReach
<1>5. ToSet(found) = {}  BY <1>1 DEF ToSet
<1>6. WalkIsSound  BY <1>3, <1>4, <1>5 DEF WalkIsSound
<1>7. ASSUME OneReferrer, NEW c \in ToSet(pending), BelowSignature(c.id) PROVE FALSE
  <2>1. \A p \in InForce(revision) : c.id \notin Kids(p)
    BY <1>1, <1>3, <1>4, <1>7, OneParent
  <2> QED  BY <1>7, <2>1 DEF BelowSignature, FormObjects
<1>8. WalkIsComplete  BY <1>1, <1>3, <1>7 DEF WalkIsComplete, PendingIds
<1> QED  BY <1>1, <1>3, <1>6, <1>8 DEF WalkInv

\* Dropping a call for a field that is visited, or that does not exist.
LEMMA SkipWalks ==
  ASSUME WalkInv, SkipVisited \/ SkipMissing
  PROVE  WalkInv'
<1>1. /\ pending # <<>> /\ pending' = Tail(pending) /\ revision' = revision /\ found' = found
      /\ visited \subseteq visited'
      /\ visited' = visited \cup {Head(pending).id}
  BY DEF SkipVisited, SkipMissing
<1>2. /\ pending' \in Seq(PendingCall) /\ Head(pending) \in PendingCall
      /\ ToSet(pending) = {Head(pending)} \cup ToSet(pending')
  BY <1>1, ElementsOfTail DEF WalkInv
<1>3. visited \cup PendingIds \subseteq visited' \cup PendingIds'
  BY <1>1, <1>2 DEF PendingIds
<1>4. \A o \in InForce(revision) : o.id \in visited' => o.id \in visited
  BY <1>1 DEF SkipVisited, SkipMissing, IsInForce
<1>5. OneReferrer' = OneReferrer /\ \A id : BelowSignature(id)' = BelowSignature(id)
  BY <1>1 DEF OneReferrer, Referrers, BelowSignature
<1>6. WalkIsSound'  BY <1>1, <1>2 DEF WalkInv, WalkIsSound
<1>7. WalkIsComplete'
  BY <1>1, <1>2, <1>3, <1>4, <1>5 DEF WalkInv, WalkIsComplete
<1> QED  BY <1>1, <1>2, <1>6, <1>7 DEF WalkInv

\* Visiting a field keeps the invariant of the walk.
LEMMA VisitWalks ==
  ASSUME WalkInv, Visit
  PROVE  WalkInv'
<1> DEFINE call == Head(pending)
           o == Field
           kids == RefsAfter(Field, "Kids")
           calls == Calls(kids, OfSignatureType)
<1>1. /\ revision \in Revisions /\ revision' = revision /\ pending # <<>>
      /\ visited' = visited \cup {call.id} /\ call.id \notin visited
      /\ pending' = calls \o Tail(pending)
      /\ found' = IF OfSignatureType /\ HasValue THEN Append(found, call.id) ELSE found
  BY DEF Visit, WalkInv
<1>2. o \in InForce(revision) /\ o.id = call.id
  <2>1. \E p \in InForce(revision) : p.id = call.id  BY DEF Visit, IsInForce
  <2> QED  BY <2>1, Zenon DEF Field, ObjectInForce
<1>3. /\ Tail(pending) \in Seq(PendingCall) /\ call \in PendingCall
      /\ ToSet(pending) = {call} \cup ToSet(Tail(pending))
  BY <1>1, ElementsOfTail DEF WalkInv
<1>4. OfSignatureType \in BOOLEAN /\ (OfSignatureType <=> IsSignatureField(o) \/ call.inherited)
  BY <1>3 DEF OfSignatureType, PendingCall, IsSignatureField
<1>5. kids \in Seq(Ids) /\ Kids(o) = ToSet(kids)
  BY <1>1, <1>2, InForceFacts DEF Kids
<1> HIDE DEF o, kids, call
<1>6. /\ calls \in Seq(PendingCall)
      /\ \A c \in ToSet(calls) : c.inherited = OfSignatureType /\ c.id \in Kids(o)
      /\ \A id \in Kids(o) : \E c \in ToSet(calls) : c.id = id
  BY <1>4, <1>5, CallsAre
<1> HIDE DEF calls
<1>7. pending' \in Seq(PendingCall) /\ ToSet(pending') = ToSet(calls) \cup ToSet(Tail(pending))
  <2>1. pending' = calls \o Tail(pending)  BY <1>1
  <2>2. calls \o Tail(pending) \in Seq(PendingCall)  BY <1>3, <1>6, ConcatProperties
  <2> DEFINE rest == Tail(pending)
  <2> HIDE DEF rest
  <2>3. calls \in Seq(PendingCall) /\ rest \in Seq(PendingCall)  BY <1>3, <1>6 DEF rest
  <2>4. ToSet(calls \o rest) = ToSet(calls) \cup ToSet(rest)  BY <2>3, ElementsOfConcat
  <2> QED  BY <2>1, <2>2, <2>4 DEF rest
<1>8. call.id \in Ids /\ found' \in Seq(Ids)
      /\ ToSet(found') = ToSet(found) \cup (IF OfSignatureType /\ HasValue THEN {call.id} ELSE {})
  BY <1>1, <1>3, ElementsOfAppend DEF WalkInv, PendingCall
<1>9. o \in FormObjects(revision) /\ (call.inherited => o.id \in Typed(revision))
  BY <1>2, <1>3 DEF WalkInv, WalkIsSound, FormObjects
<1>10. OfSignatureType => o.id \in Typed(revision)
  <2>1. IsSignatureField(o) => o.id \in Roots(revision)  BY <1>9 DEF Roots
  <2> QED  BY <1>1, <1>4, <1>9, <2>1, TypedAreReach DEF IsReach
<1>11. HasValue <=> FirstRef(o, "V") # NoReference  BY DEF HasValue, o
<1>12. OneReferrer' = OneReferrer /\ \A id : BelowSignature(id)' = BelowSignature(id)
  BY <1>1 DEF OneReferrer, Referrers, BelowSignature
<1>13. WalkIsSound'
  <2>1. ToSet(found') \subseteq SignatureFields(revision)
    BY <1>2, <1>8, <1>9, <1>10, <1>11, SignatureFieldsAre DEF WalkInv, WalkIsSound
  <2>2. Kids(o) \subseteq FieldsOfForm(revision)
    BY <1>1, <1>2, <1>9, FieldsAreReach DEF IsReach, HasKids, FormObjects
  <2>3. OfSignatureType => Kids(o) \subseteq Typed(revision)
    BY <1>1, <1>9, <1>10, TypedAreReach DEF IsReach, HasKids
  <2>4. \A c \in ToSet(pending') :
          c.id \in FieldsOfForm(revision) /\ (c.inherited => c.id \in Typed(revision))
    BY <1>3, <1>6, <1>7, <2>2, <2>3 DEF WalkInv, WalkIsSound
  <2> QED  BY <1>1, <2>1, <2>4 DEF WalkIsSound
<1>14. ASSUME OneReferrer, o.id \in Typed(revision) PROVE OfSignatureType
  <2>1. IsSignatureField(o) \/ BelowSignature(o.id)
    BY <1>1, <1>9, <1>14, TypedHasReason DEF BelowSignature
  <2> QED  BY <1>2, <1>3, <1>4, <1>14, <2>1 DEF WalkInv, WalkIsComplete
<1>15. WalkIsComplete'
  <2>1. visited \cup PendingIds \subseteq visited' \cup PendingIds'
    BY <1>1, <1>3, <1>7 DEF PendingIds
  <2>2. Kids(o) \subseteq PendingIds'
    BY <1>6, <1>7 DEF PendingIds
  <2>3. ASSUME NEW p \in InForce(revision), p.id \in visited'
        PROVE  /\ Kids(p) \subseteq visited' \cup PendingIds'
               /\ p.id \in SignatureFields(revision) /\ (IsSignatureField(p) \/ OneReferrer)
                    => p.id \in ToSet(found')
    <3>1. CASE p.id \in visited
      BY <1>8, <2>1, <3>1 DEF WalkInv, WalkIsComplete
    <3>2. CASE p.id = call.id
      <4>1. p = o  BY <1>1, <1>2, <3>2, InForceFacts
      <4>2. ASSUME o.id \in SignatureFields(revision), IsSignatureField(o) \/ OneReferrer
            PROVE  o.id \in ToSet(found')
        <5>1. PICK x \in FormObjects(revision) :
                x.id = o.id /\ x.id \in Typed(revision) /\ FirstRef(x, "V") # NoReference
          BY <4>2, SignatureFieldsAre
        <5>2. x = o  BY <1>1, <1>2, <5>1, InForceFacts DEF FormObjects
        <5>3. OfSignatureType /\ HasValue  BY <1>4, <1>11, <1>14, <4>2, <5>1, <5>2
        <5> QED  BY <1>2, <1>8, <5>3
      <4> QED  BY <2>2, <4>1, <4>2
    <3> QED  BY <1>1, <2>3, <3>1, <3>2
  <2>4. ASSUME OneReferrer, NEW c \in ToSet(pending'), BelowSignature(c.id)
        PROVE  c.inherited
    <3>1. CASE c \in ToSet(Tail(pending))
      BY <1>3, <2>4, <3>1 DEF WalkInv, WalkIsComplete
    <3>2. CASE c \in ToSet(calls)
      <4>1. c.id \in Kids(o) /\ c.inherited = OfSignatureType  BY <1>6, <3>2
      <4>2. PICK p \in FormObjects(revision) : p.id \in Typed(revision) /\ c.id \in Kids(p)
        BY <2>4 DEF BelowSignature
      <4>3. c.id \in FieldsOfForm(revision)
        BY <1>1, <1>2, <1>9, <4>1, FieldsAreReach DEF IsReach, HasKids, FormObjects
      <4>4. p = o  BY <1>1, <1>2, <2>4, <4>1, <4>2, <4>3, OneParent DEF FormObjects
      <4> QED  BY <1>14, <2>4, <4>1, <4>2, <4>4
    <3> QED  BY <1>7, <3>1, <3>2
  <2>5. ToSet(FormFields(revision)) \subseteq visited' \cup PendingIds'
    BY <2>1 DEF WalkInv, WalkIsComplete
  <2> QED  BY <1>1, <1>12, <2>3, <2>4, <2>5 DEF WalkIsComplete
<1> QED  BY <1>1, <1>7, <1>8, <1>13, <1>15 DEF WalkInv

\* Every step of the walk keeps its invariant.
LEMMA NextWalks == WalkInv /\ [Walk]_walkVars => WalkInv'
<1> SUFFICES ASSUME WalkInv, [Walk]_walkVars PROVE WalkInv'
  OBVIOUS
<1>1. CASE Walk  BY <1>1, SkipWalks, VisitWalks DEF Walk
<1>2. CASE UNCHANGED walkVars
  BY <1>2 DEF walkVars, WalkInv, WalkIsSound, WalkIsComplete, PendingIds, OneReferrer, Referrers,
              BelowSignature
<1> QED  BY <1>1, <1>2

\* The walk always satisfies its invariant.
LEMMA WalkInvariant == WalkSpec => []WalkInv
BY InitWalks, NextWalks, PTL DEF WalkSpec

\* What is found is a signature field of the form, for every form: the type is
\* handed down the tree and nowhere else (FoundIsSound).
THEOREM FoundFieldsAreSound == WalkSpec => []FoundIsSound
<1>1. WalkInv => FoundIsSound  BY DEF WalkInv, WalkIsSound, FoundIsSound
<1> QED  BY <1>1, WalkInvariant, PTL

\* When the walk ends, every field of a form whose fields have one parent each
\* is found, and in every form each signature field that says itself that it is
\* one, however the /Kids cycle or meet (FoundIsComplete).
THEOREM FoundFieldsAreComplete == WalkSpec => []FoundIsComplete
<1>1. ASSUME WalkInv, pending = <<>> PROVE FieldsOfForm(revision) \subseteq visited
  <2>1. revision \in Revisions /\ PendingIds = {}  BY <1>1 DEF WalkInv, PendingIds, ToSet
  <2>2. ToSet(FormFields(revision)) \subseteq visited /\ HasKids(visited, InForce(revision))
    BY <1>1, <2>1 DEF WalkInv, WalkIsComplete, HasKids
  <2> QED  BY <2>1, <2>2, FieldsAreReach DEF IsReach
<1>2. ASSUME WalkInv, pending = <<>>, NEW o \in InForce(revision),
             o.id \in SignatureFields(revision), IsSignatureField(o) \/ OneReferrer
      PROVE  o.id \in ToSet(found)
  <2>1. o.id \in FieldsOfForm(revision)  BY <1>2, SignatureFieldsAre DEF FormObjects
  <2> QED  BY <1>1, <1>2, <2>1 DEF WalkInv, WalkIsComplete
<1>3. ASSUME WalkInv, pending = <<>>, OneReferrer
      PROVE  ToSet(found) = SignatureFields(revision)
  <2>1. ToSet(found) \subseteq SignatureFields(revision)  BY <1>3 DEF WalkInv, WalkIsSound
  <2>2. ASSUME NEW id \in SignatureFields(revision) PROVE id \in ToSet(found)
    <3>1. PICK o \in FormObjects(revision) : o.id = id  BY <2>2, SignatureFieldsAre
    <3> QED  BY <1>2, <1>3, <2>2, <3>1 DEF FormObjects
  <2> QED  BY <2>1, <2>2
<1>4. WalkInv => FoundIsComplete
  BY <1>2, <1>3 DEF FoundIsComplete, OneReferrer
<1> QED  BY <1>4, WalkInvariant, PTL

-----------------------------------------------------------------------------
(* The last of several versions.                                           *)

\* A bounded set of natural numbers that is not empty has its maximum.
LEMMA GreatestIsMax ==
  ASSUME NEW n \in Nat, NEW S, S \subseteq 1..n, S # {}
  PROVE  Max(S) \in S /\ \A x \in S : x <= Max(S)
<1> DEFINE Gaps == {n - x : x \in S}
<1>1. Gaps \subseteq Nat /\ Gaps # {} /\ \A x \in S : n - x \in Gaps
  <2>1. \A x \in S : n - x \in Nat  OBVIOUS
  <2>2. Gaps \subseteq Nat  BY <2>1
  <2>3. \A x \in S : n - x \in Gaps  OBVIOUS
  <2>4. Gaps # {}  BY <2>3
  <2> QED  BY <2>2, <2>3, <2>4
<1> HIDE DEF Gaps
<1>2. PICK k \in Gaps : \A m \in Gaps : k <= m  BY <1>1, LeastNatural
<1>3. PICK x \in S : k = n - x  BY <1>2 DEF Gaps
<1>4. \A y \in S : x >= y
  <2> TAKE y \in S
  <2>1. n - y \in Gaps  BY <1>1
  <2> QED  BY <1>2, <1>3, <2>1
<1>5. Max(S) \in S /\ \A y \in S : Max(S) >= y  BY <1>4, Zenon DEF Max
<1> QED  BY <1>5

\* The places of a sequence, or of some of its elements.
IsPart(s) == \E n \in Nat : DOMAIN s \subseteq 1..n

\* The latest version of an id stands behind all others.
LEMMA LatestIs ==
  ASSUME NEW s, IsPart(s), NEW id, Holds(s, id)
  PROVE  \E i \in DOMAIN s : /\ Latest(s, id) = s[i] /\ s[i].id = id
                             /\ \A j \in DOMAIN s : s[j].id = id => j <= i
<1> DEFINE S == {i \in DOMAIN s : s[i].id = id}
<1>1. PICK n \in Nat : DOMAIN s \subseteq 1..n  BY DEF IsPart
<1>2. S \subseteq 1..n /\ S # {}  BY <1>1 DEF Holds
<1> HIDE DEF S
<1>3. Max(S) \in S /\ \A x \in S : x <= Max(S)  BY <1>2, GreatestIsMax
<1>4. Latest(s, id) = s[Max(S)]  BY DEF Latest, S
<1> QED  BY <1>3, <1>4 DEF S

\* An object behind all versions of its id is the latest.
LEMMA LatestAt ==
  ASSUME NEW s, IsPart(s), NEW i \in DOMAIN s, \A j \in DOMAIN s : s[j].id = s[i].id => j <= i
  PROVE  Latest(s, s[i].id) = s[i]
<1>1. Holds(s, s[i].id)  BY DEF Holds
<1>2. PICK k \in DOMAIN s : /\ Latest(s, s[i].id) = s[k] /\ s[k].id = s[i].id
                            /\ \A j \in DOMAIN s : s[j].id = s[i].id => j <= k
  BY <1>1, LatestIs
<1>3. i \in Nat /\ k \in Nat /\ i <= k /\ k <= i  BY <1>2 DEF IsPart
<1>4. i = k  BY <1>3
<1> QED  BY <1>2, <1>4

\* A sequence and its objects outside of object streams are parts of a file.
LEMMA SequencesAreParts ==
  ASSUME NEW S, NEW s \in Seq(S)
  PROVE  /\ IsPart(s) /\ IsPart(Direct(s))
         /\ DOMAIN Direct(s) = {i \in DOMAIN s : IsDirect(s[i])}
         /\ \A i \in DOMAIN Direct(s) : Direct(s)[i] = s[i]
<1>1. Len(s) \in Nat /\ DOMAIN s = 1..Len(s)  OBVIOUS
<1>2. IsPart(s)  BY <1>1 DEF IsPart
<1>3. /\ DOMAIN Direct(s) = {i \in DOMAIN s : IsDirect(s[i])}
      /\ \A i \in DOMAIN Direct(s) : Direct(s)[i] = s[i]
  BY DEF Direct, Restrict
<1>4. IsPart(Direct(s))  BY <1>1, <1>3 DEF IsPart
<1> QED  BY <1>2, <1>3, <1>4

\* What is appended comes after what is there.
LEMMA Concatenated ==
  ASSUME NEW S, NEW f \in Seq(S), NEW a \in Seq(S)
  PROVE  /\ f \o a \in Seq(S) /\ Len(f \o a) = Len(f) + Len(a)
         /\ Len(f) \in Nat /\ Len(a) \in Nat
         /\ DOMAIN f = 1..Len(f) /\ DOMAIN a = 1..Len(a) /\ DOMAIN (f \o a) = 1..Len(f) + Len(a)
         /\ \A i \in 1..Len(f) : (f \o a)[i] = f[i]
         /\ \A m \in 1..Len(a) : (f \o a)[Len(f) + m] = a[m]
         /\ ToSet(f \o a) = ToSet(f) \cup ToSet(a)
<1>1. /\ f \o a \in Seq(S) /\ Len(f \o a) = Len(f) + Len(a)
      /\ \A i \in 1..Len(f) + Len(a) : (f \o a)[i] = IF i <= Len(f) THEN f[i] ELSE a[i - Len(f)]
  BY ConcatProperties
<1>2. /\ Len(f) \in Nat /\ Len(a) \in Nat
      /\ DOMAIN f = 1..Len(f) /\ DOMAIN a = 1..Len(a)
  OBVIOUS
<1>3. DOMAIN (f \o a) = 1..Len(f) + Len(a)  BY <1>1
<1>4. \A i \in 1..Len(f) : (f \o a)[i] = f[i]  BY <1>1, <1>2
<1>5. ASSUME NEW m \in 1..Len(a) PROVE (f \o a)[Len(f) + m] = a[m]
  <2>1. Len(f) + m \in 1..Len(f) + Len(a) /\ ~ (Len(f) + m <= Len(f)) /\ (Len(f) + m) - Len(f) = m
    BY <1>2
  <2> QED  BY <1>1, <2>1
<1> QED  BY <1>1, <1>2, <1>3, <1>4, <1>5, ElementsOfConcat

-----------------------------------------------------------------------------
(* Objects that are new, and objects written again.                        *)

\* What a new object is made of.
LEMMA NewObject ==
  ASSUME NEW id \in Nat \ {0}, NEW type, NEW names,
         NEW links, links \in [DOMAIN links -> Seq(Nat \ {0})]
  PROVE  /\ IsPdfObject(New(id, type, names, links))
         /\ New(id, type, names, links).id = id
         /\ New(id, type, names, links).type = type
         /\ New(id, type, names, links).names = names
         /\ New(id, type, names, links).links = links
         /\ New(id, type, names, links).number = 0
         /\ New(id, type, names, links).text = 0
         /\ New(id, type, names, links).stream = 0
         /\ New(id, type, names, links).packed = 0
BY DEF New, IsPdfObject

\* Changing a field of an object leaves the others alone.
LEMMA ChangedNumbers ==
  ASSUME NEW o, IsPdfObject(o), NEW number \in Nat, NEW text \in Nat, NEW packed \in Nat
  PROVE  LET p == [o EXCEPT !.number = number, !.text = text, !.packed = packed]
         IN  /\ IsPdfObject(p) /\ p.id = o.id /\ p.type = o.type /\ p.names = o.names
             /\ p.links = o.links /\ p.number = number /\ p.text = text /\ p.packed = packed
             /\ p.stream = o.stream
BY DEF IsPdfObject

\* An object with other references is the same but for them.
LEMMA LinkedObject ==
  ASSUME NEW o, IsPdfObject(o), NEW name, NEW ids \in Seq(Nat \ {0})
  PROVE  /\ IsPdfObject(WithRefs(o, name, ids))
         /\ WithRefs(o, name, ids).id = o.id
         /\ WithRefs(o, name, ids).type = o.type
         /\ WithRefs(o, name, ids).names = o.names
         /\ WithRefs(o, name, ids).number = o.number
         /\ WithRefs(o, name, ids).text = o.text
         /\ WithRefs(o, name, ids).stream = o.stream
         /\ WithRefs(o, name, ids).spaced = o.spaced
         /\ WithRefs(o, name, ids).packed = 0
         /\ DOMAIN WithRefs(o, name, ids).links = DOMAIN o.links \cup {name}
         /\ \A n \in DOMAIN o.links \cup {name} :
              WithRefs(o, name, ids).links[n] = IF n = name THEN ids ELSE o.links[n]
<1> DEFINE links == [n \in DOMAIN o.links \cup {name} |-> IF n = name THEN ids ELSE o.links[n]]
           p == WithRefs(o, name, ids)
<1>1. links \in [DOMAIN links -> Seq(Nat \ {0})] /\ DOMAIN links = DOMAIN o.links \cup {name}
      /\ \A n \in DOMAIN o.links \cup {name} : links[n] = IF n = name THEN ids ELSE o.links[n]
  BY DEF IsPdfObject
<1>2. p = [o EXCEPT !.packed = 0, !.links = links]  BY DEF WithRefs
<1> HIDE DEF links, p
<1>3. /\ p.id = o.id /\ p.type = o.type /\ p.names = o.names /\ p.number = o.number
      /\ p.text = o.text /\ p.stream = o.stream /\ p.spaced = o.spaced /\ p.packed = 0
      /\ p.links = links
      /\ p \in [id : Nat \ {0}, type : {p.type}, names : {p.names}, links : {p.links},
                number : Nat, text : Nat, stream : Nat, spaced : {p.spaced}, packed : Nat]
  BY <1>2 DEF IsPdfObject
<1> QED  BY <1>1, <1>3 DEF IsPdfObject, p

\* The references of such an object.
LEMMA LinkedReferences ==
  ASSUME NEW o, IsPdfObject(o), NEW name, NEW ids \in Seq(Nat \ {0})
  PROVE  /\ RefsAfter(WithRefs(o, name, ids), name) = ids
         /\ \A n : n # name => RefsAfter(WithRefs(o, name, ids), n) = RefsAfter(o, n)
         /\ References(WithRefs(o, name, ids)) \subseteq References(o) \cup ToSet(ids)
<1> DEFINE p == WithRefs(o, name, ids)
<1>1. DOMAIN p.links = DOMAIN o.links \cup {name}
      /\ \A n \in DOMAIN o.links \cup {name} : p.links[n] = IF n = name THEN ids ELSE o.links[n]
  BY LinkedObject
<1> HIDE DEF p
<1>2. RefsAfter(p, name) = ids  BY <1>1 DEF RefsAfter
<1>3. \A n : n # name => RefsAfter(p, n) = RefsAfter(o, n)  BY <1>1 DEF RefsAfter
<1>4. References(p) \subseteq References(o) \cup ToSet(ids)  BY <1>1 DEF References
<1> QED  BY <1>2, <1>3, <1>4 DEF p

\* References after a name, of any object.
LEMMA RefsAre ==
  ASSUME NEW o, IsPdfObject(o), NEW name
  PROVE  /\ RefsAfter(o, name) \in Seq(Nat \ {0})
         /\ ToSet(RefsAfter(o, name)) \subseteq References(o)
         /\ FirstRef(o, name) \in Nat
         /\ FirstRef(o, name) # NoReference <=> RefsAfter(o, name) # << >>
         /\ RefsAfter(o, name) # << >> => FirstRef(o, name) \in ToSet(RefsAfter(o, name))
<1>1. RefsAfter(o, name) \in Seq(Nat \ {0})  BY DEF RefsAfter, IsPdfObject
<1>2. ToSet(RefsAfter(o, name)) \subseteq References(o)
  <2>1. CASE name \in DOMAIN o.links  BY <2>1 DEF RefsAfter, References
  <2>2. CASE name \notin DOMAIN o.links
    <3>1. ToSet(RefsAfter(o, name)) = {}  BY <2>2 DEF RefsAfter, ToSet
    <3> QED  BY <3>1
  <2> QED  BY <2>1, <2>2
<1>3. ASSUME RefsAfter(o, name) # << >>
      PROVE  FirstRef(o, name) \in ToSet(RefsAfter(o, name)) /\ FirstRef(o, name) \in Nat \ {0}
  <2>1. 1 \in DOMAIN RefsAfter(o, name) /\ RefsAfter(o, name)[1] \in Nat \ {0}  BY <1>1, <1>3
  <2>2. FirstRef(o, name) = RefsAfter(o, name)[1]  BY <1>3 DEF FirstRef
  <2> QED  BY <2>1, <2>2 DEF ToSet
<1>4. RefsAfter(o, name) = << >> => FirstRef(o, name) = 0  BY DEF FirstRef, NoReference
<1> QED  BY <1>1, <1>2, <1>3, <1>4 DEF NoReference

-----------------------------------------------------------------------------
(* The objects the writers start from.                                     *)

\* Places, elements and numbers of a well-formed file.
LEMMA FileFacts ==
  ASSUME NEW f, IsWellFormed(f)
  PROVE  /\ f \in Seq(ToSet(f)) /\ Len(f) \in Nat /\ DOMAIN f = 1..Len(f)
         /\ IsPart(f)
         /\ \A i \in DOMAIN f : f[i] \in ToSet(f)
         /\ \A o \in ToSet(f) : \E i \in DOMAIN f : f[i] = o
         /\ \A o \in ToSet(f) : o.id \in Numbers(f)
         /\ \A id \in Numbers(f) : Holds(f, id) /\ id \in Nat \ {0}
         /\ NoReference \notin Numbers(f)
<1>1. f \in Seq(ToSet(f)) /\ Len(f) \in Nat /\ DOMAIN f = 1..Len(f)  BY DEF IsWellFormed
<1>2. IsPart(f)  BY <1>1 DEF IsPart
<1>3. \A o \in ToSet(f) : IsPdfObject(o)  BY DEF IsWellFormed
<1>4. \A i \in DOMAIN f : f[i] \in ToSet(f)  BY DEF ToSet
<1>5. \A i \in DOMAIN f : f[i].id \in Nat \ {0}  BY <1>3, <1>4 DEF IsPdfObject
<1> QED  BY <1>1, <1>2, <1>4, <1>5 DEF ToSet, Numbers, Holds, NoReference

\* The version of an object a reader would use is one of those in the file.
LEMMA VersionIs ==
  ASSUME NEW f, IsWellFormed(f), NEW id \in Numbers(f)
  PROVE  Version(f, id) \in ToSet(f) /\ Version(f, id).id = id
<1>1. IsPart(f) /\ Holds(f, id)  BY FileFacts
<1> QED  BY <1>1, LatestIs DEF Version, ToSet

\* References lead to objects of the file.
LEMMA ReferenceIsNumber ==
  ASSUME NEW f, IsWellFormed(f), NEW o \in ToSet(f), NEW name, FirstRef(o, name) # NoReference
  PROVE  FirstRef(o, name) \in Numbers(f)
<1>1. IsPdfObject(o) /\ References(o) \subseteq Numbers(f)  BY DEF IsWellFormed, IsLinked
<1> QED  BY <1>1, RefsAre

\* The catalog is the last object of its type.
LEMMA CatalogIs ==
  ASSUME NEW f, IsWellFormed(f)
  PROVE  /\ CatalogOf(f) \in ToSet(f) /\ CatalogOf(f).type = "Catalog"
         /\ \E i \in DOMAIN f : /\ CatalogOf(f) = f[i]
                                /\ \A j \in DOMAIN f : f[j].type = "Catalog" => j <= i
<1>1. Len(f) \in Nat /\ DOMAIN f = 1..Len(f)  BY FileFacts
<1>2. \E o \in ToSet(f) : o.type = "Catalog"  BY DEF IsWellFormed
<1>3. Catalogs(f) \subseteq 1..Len(f) /\ Catalogs(f) # {}
  BY <1>1, <1>2, FileFacts DEF Catalogs
<1>4. Max(Catalogs(f)) \in Catalogs(f) /\ \A x \in Catalogs(f) : x <= Max(Catalogs(f))
  BY <1>1, <1>3, GreatestIsMax
<1> QED  BY <1>4 DEF CatalogOf, Catalogs, ToSet

\* The catalog leads to the page tree.
LEMMA PagesIs ==
  ASSUME NEW f, IsWellFormed(f)
  PROVE  /\ PagesOf(f) \in ToSet(f) /\ PagesOf(f).type = "Pages"
         /\ PagesOf(f).id = FirstRef(CatalogOf(f), "Pages")
<1> DEFINE c == CatalogOf(f)
<1>1. c \in ToSet(f) /\ c.type = "Catalog"  BY CatalogIs
<1> HIDE DEF c
<1>2. IsPdfObject(c) /\ IsLinked(c, f)  BY <1>1 DEF IsWellFormed
<1>3. FirstRef(c, "Pages") # NoReference  BY <1>1, <1>2, RefsAre DEF IsLinked
<1>4. FirstRef(c, "Pages") \in Numbers(f)  BY <1>1, <1>3, ReferenceIsNumber
<1>5. /\ Version(f, FirstRef(c, "Pages")) \in ToSet(f)
      /\ Version(f, FirstRef(c, "Pages")).id = FirstRef(c, "Pages")
  BY <1>4, VersionIs
<1> QED  BY <1>1, <1>2, <1>5 DEF PagesOf, IsLinked, c

\* The page tree leads to a page.
LEMMA PageIs ==
  ASSUME NEW f, IsWellFormed(f)
  PROVE  PageOf(f) \in ToSet(f) /\ PageOf(f).type = "Page"
<1> DEFINE c == PagesOf(f)
<1>1. c \in ToSet(f) /\ c.type = "Pages"  BY PagesIs
<1> HIDE DEF c
<1>2. IsPdfObject(c) /\ IsLinked(c, f)  BY <1>1 DEF IsWellFormed
<1>3. FirstRef(c, "Kids") # NoReference  BY <1>1, <1>2, RefsAre DEF IsLinked
<1>4. FirstRef(c, "Kids") \in Numbers(f)  BY <1>1, <1>3, ReferenceIsNumber
<1>5. /\ Version(f, FirstRef(c, "Kids")) \in ToSet(f)
      /\ Version(f, FirstRef(c, "Kids")).id = FirstRef(c, "Kids")
  BY <1>4, VersionIs
<1> QED  BY <1>1, <1>2, <1>5 DEF PageOf, IsLinked, c

\* The drawing of a well-formed file is an object of type XObject.
LEMMA DrawingIs ==
  ASSUME NEW f, IsWellFormed(f)
  PROVE  DrawingOf(f) \in ToSet(f) /\ DrawingOf(f).type = "XObject"
<1> DEFINE c == PageOf(f)
<1>1. c \in ToSet(f) /\ c.type = "Page"  BY PageIs
<1> HIDE DEF c
<1>2. IsPdfObject(c) /\ IsLinked(c, f)  BY <1>1 DEF IsWellFormed
<1>3. FirstRef(c, "XObject") # NoReference  BY <1>1, <1>2, RefsAre DEF IsLinked
<1>4. FirstRef(c, "XObject") \in Numbers(f)  BY <1>1, <1>3, ReferenceIsNumber
<1>5. /\ Version(f, FirstRef(c, "XObject")) \in ToSet(f)
      /\ Version(f, FirstRef(c, "XObject")).id = FirstRef(c, "XObject")
  BY <1>4, VersionIs
<1> QED  BY <1>1, <1>2, <1>5 DEF DrawingOf, IsLinked, c

\* There is document information.
LEMMA InfoIs ==
  ASSUME NEW f, IsWellFormed(f)
  PROVE  InfoOf(f) \in ToSet(f) /\ "ModDate" \in InfoOf(f).names
<1>1. \E i \in DOMAIN f : "ModDate" \in f[i].names  BY DEF IsWellFormed, ToSet
<1> DEFINE i == CHOOSE i \in DOMAIN f : "ModDate" \in f[i].names
<1>2. i \in DOMAIN f /\ "ModDate" \in f[i].names  BY <1>1, Zenon
<1> QED  BY <1>2 DEF InfoOf, ToSet

\* The form is an object of its own or the catalog, and lists fields.
LEMMA FormIs ==
  ASSUME NEW f, IsWellFormed(f)
  PROVE  /\ FormOf(f) \in ToSet(f) /\ "Fields" \in DOMAIN FormOf(f).links
         /\ FormOf(f).id = IF FirstRef(CatalogOf(f), "AcroForm") = NoReference THEN CatalogOf(f).id
                           ELSE FirstRef(CatalogOf(f), "AcroForm")
<1> DEFINE c == CatalogOf(f)
           form == FirstRef(c, "AcroForm")
<1>1. c \in ToSet(f) /\ c.type = "Catalog"  BY CatalogIs
<1> HIDE DEF c
<1>2. IsPdfObject(c) /\ IsLinked(c, f)  BY <1>1 DEF IsWellFormed
<1>3. CASE form = NoReference
  <2>1. FormOf(f) = c  BY <1>3 DEF FormOf, c
  <2> QED  BY <1>1, <1>2, <1>3, <2>1 DEF IsLinked, c
<1>4. CASE form # NoReference
  <2>1. form \in Numbers(f)  BY <1>1, <1>4, ReferenceIsNumber
  <2>2. Version(f, form) \in ToSet(f) /\ Version(f, form).id = form  BY <2>1, VersionIs
  <2>3. FormOf(f) = Version(f, form)  BY <1>4 DEF FormOf, c
  <2> QED  BY <1>1, <1>2, <1>4, <2>2, <2>3 DEF IsLinked, c
<1> QED  BY <1>3, <1>4

\* The catalog leads to the DSS.
LEMMA DssIs ==
  ASSUME NEW f, IsWellFormed(f), HasDss(f)
  PROVE  DssOf(f) \in ToSet(f) /\ DssOf(f).type = "DSS" /\ DssOf(f).id = FirstRef(CatalogOf(f), "DSS")
<1> DEFINE c == CatalogOf(f)
<1>1. c \in ToSet(f) /\ c.type = "Catalog"  BY CatalogIs
<1>2. FirstRef(c, "DSS") # NoReference  BY DEF HasDss
<1> HIDE DEF c
<1>3. IsLinked(c, f)  BY <1>1 DEF IsWellFormed
<1>4. FirstRef(c, "DSS") \in Numbers(f)  BY <1>1, <1>2, ReferenceIsNumber
<1>5. /\ Version(f, FirstRef(c, "DSS")) \in ToSet(f)
      /\ Version(f, FirstRef(c, "DSS")).id = FirstRef(c, "DSS")
  BY <1>4, VersionIs
<1> QED  BY <1>1, <1>3, <1>5 DEF DssOf, IsLinked, c


\* The first dictionary is one.
LEMMA FirstSignatureIs ==
  ASSUME NEW f, IsWellFormed(f), AllDictionaries(f) # {}
  PROVE  FirstSignature(f) \in ToSet(f) /\ IsDictionary(FirstSignature(f))
<1>1. AllDictionaries(f) \subseteq Nat  BY FileFacts DEF AllDictionaries
<1>2. \E d \in AllDictionaries(f) : \A e \in AllDictionaries(f) : d <= e  BY <1>1, LeastNatural
<1> DEFINE d == CHOOSE d \in AllDictionaries(f) : \A e \in AllDictionaries(f) : d <= e
<1>3. d \in AllDictionaries(f)  BY <1>2, Zenon
<1>4. d \in DOMAIN f /\ IsDictionary(f[d])  BY <1>3, Zenon DEF AllDictionaries
<1>5. FirstSignature(f) = f[d]  BY DEF FirstSignature
<1> QED  BY <1>4, <1>5, Zenon DEF ToSet

\* The file has a signature field.
HasField(f) == \E o \in ToSet(f) : "Sig" \in o.names

\* The field that a writer changes is a signature field.
LEMMA FieldIs ==
  ASSUME NEW f, IsWellFormed(f), HasField(f)
  PROVE  FieldOf(f) \in ToSet(f) /\ "Sig" \in FieldOf(f).names
<1> DEFINE typed == {x \in ToSet(f) : "Sig" \in x.names}
           S == {o.id : o \in typed}
<1>1. S \subseteq Nat /\ S # {} /\ \A o \in typed : o.id \in S
  BY FileFacts DEF HasField
<1>2. \E id \in S : \A o \in typed : id <= o.id
  <2> HIDE DEF S, typed
  <2>1. PICK id \in S : \A y \in S : id <= y  BY <1>1, LeastNatural
  <2> QED  BY <1>1, <2>1
<1> DEFINE id == CHOOSE id \in S : \A o \in typed : id <= o.id
<1>3. id \in S  BY <1>2, Zenon
<1>4. FieldOf(f) = Version(f, id)  BY Zenon DEF FieldOf
<1> HIDE DEF id
<1>5. PICK o \in ToSet(f) : "Sig" \in o.names /\ o.id = id  BY <1>3
<1>6. id \in Numbers(f)  BY <1>5, FileFacts
<1>7. Version(f, id) \in ToSet(f) /\ Version(f, id).id = id  BY <1>6, VersionIs
<1>8. Alike(Version(f, id), o)  BY <1>5, <1>7 DEF IsWellFormed
<1>9. "Sig" \in Version(f, id).names  BY <1>5, <1>8 DEF Alike, RoleNames
<1> QED  BY <1>4, <1>7, <1>9

-----------------------------------------------------------------------------
(* A file stays well-formed by what is appended to it.                     *)

\* g has all of f, and other versions of its objects that are alike.
Continues(g, f) ==
  /\ ToSet(f) \subseteq ToSet(g)
  /\ \A p \in ToSet(g) :
       /\ IsPdfObject(p)
       /\ p.id \in Numbers(f) => \E q \in ToSet(f) : q.id = p.id /\ Alike(p, q)

\* What an object refers to stays what it is when the file grows.
LEMMA LinksStay ==
  ASSUME NEW f, IsWellFormed(f), NEW g, Continues(g, f), NEW o \in ToSet(f)
  PROVE  IsLinked(o, g)
<1>1. IsPdfObject(o) /\ IsLinked(o, f)  BY DEF IsWellFormed
<1>2. Numbers(f) \subseteq Numbers(g)
  <2>1. \A p \in ToSet(f) : p \in ToSet(g)  BY DEF Continues
  <2> QED  BY <2>1 DEF Numbers, ToSet
<1>3. ASSUME NEW p \in ToSet(g), NEW name, p.id = FirstRef(o, name)
      PROVE  \E q \in ToSet(f) : q.id = FirstRef(o, name) /\ Alike(p, q)
  <2>1. p.id # NoReference  BY DEF Continues, IsPdfObject, NoReference
  <2>2. p.id \in Numbers(f)  BY <1>3, <2>1, ReferenceIsNumber
  <2> QED  BY <1>3, <2>2 DEF Continues
<1>4. ASSUME NEW p \in ToSet(g), p.id \in Evidence(o)
      PROVE  \E q \in ToSet(f) : q.id = p.id /\ Alike(p, q)
  <2>1. p.id \in Numbers(f)
    <3>1. Evidence(o) \subseteq References(o)  BY <1>1, RefsAre DEF Evidence
    <3> QED  BY <1>1, <1>4, <3>1 DEF IsLinked
  <2> QED  BY <2>1 DEF Continues
<1>5. ASSUME NEW p \in ToSet(g)
      PROVE  /\ o.type = "Catalog" /\ p.id = FirstRef(o, "Pages") => p.type = "Pages"
             /\ o.type = "Catalog" /\ p.id = FirstRef(o, "AcroForm") => "Fields" \in DOMAIN p.links
             /\ o.type = "Catalog" /\ p.id = FirstRef(o, "DSS") => p.type = "DSS"
             /\ o.type = "Pages" /\ p.id = FirstRef(o, "Kids") => p.type = "Page"
             /\ o.type = "Page" /\ p.id = FirstRef(o, "XObject") => p.type = "XObject"
  BY <1>1, <1>3 DEF IsLinked, Alike
<1>6. ASSUME NEW p \in ToSet(g), p.id \in Evidence(o) PROVE IsPlain(p)
  BY <1>1, <1>4, <1>6 DEF IsLinked, Alike, IsPlain, RoleNames
<1>7. /\ References(o) \subseteq Numbers(g)
      /\ o.type = "Catalog" =>
           /\ RefsAfter(o, "Pages") # << >>
           /\ FirstRef(o, "AcroForm") = NoReference => "Fields" \in DOMAIN o.links
      /\ o.type = "Pages" => RefsAfter(o, "Kids") # << >>
      /\ o.type = "Page" => RefsAfter(o, "XObject") # << >>
  BY <1>1, <1>2 DEF IsLinked
<1> QED  BY <1>5, <1>6, <1>7 DEF IsLinked

\* An object with the same links is linked as well.
LEMMA SameLinks ==
  ASSUME NEW o, NEW p, o.type = p.type, o.links = p.links, NEW g, IsLinked(p, g)
  PROVE  IsLinked(o, g)
<1>1. \A name : RefsAfter(o, name) = RefsAfter(p, name) /\ FirstRef(o, name) = FirstRef(p, name)
  BY DEF RefsAfter, FirstRef
<1>2. References(o) = References(p) /\ Evidence(o) = Evidence(p)
  BY <1>1 DEF References, Evidence
<1> QED  BY <1>1, <1>2 DEF IsLinked

\* New references after one name.
LEMMA NewLinks ==
  ASSUME NEW p, IsPdfObject(p), NEW g, IsLinked(p, g),
         NEW name \in {"DSS", "Fields", "V", "Kids", "OCSPs"}, NEW ids \in Seq(Nat \ {0}),
         ToSet(ids) \subseteq Numbers(g),
         name = "Kids" => p.type # "Pages" \/ ids # << >>,
         \A x \in ToSet(g) :
           /\ name = "DSS" /\ p.type = "Catalog" /\ ids # << >> /\ x.id = ids[1] => x.type = "DSS"
           /\ name = "Kids" /\ p.type = "Pages" /\ x.id = ids[1] => x.type = "Page"
           /\ name = "OCSPs" /\ x.id \in ToSet(ids) => IsPlain(x),
         \A x \in ToSet(g) : x.id # NoReference
  PROVE  IsLinked(WithRefs(p, name, ids), g)
<1> DEFINE o == WithRefs(p, name, ids)
<1>1. /\ IsPdfObject(o) /\ o.type = p.type /\ o.names = p.names
      /\ DOMAIN o.links = DOMAIN p.links \cup {name}
      /\ RefsAfter(o, name) = ids
      /\ \A n : n # name => RefsAfter(o, n) = RefsAfter(p, n)
      /\ References(o) \subseteq References(p) \cup ToSet(ids)
  <2>1. IsPdfObject(o) /\ o.type = p.type /\ o.names = p.names
        /\ DOMAIN o.links = DOMAIN p.links \cup {name}
    BY LinkedObject
  <2>2. /\ RefsAfter(o, name) = ids
        /\ \A n : n # name => RefsAfter(o, n) = RefsAfter(p, n)
        /\ References(o) \subseteq References(p) \cup ToSet(ids)
    BY LinkedReferences
  <2> QED  BY <2>1, <2>2
<1> HIDE DEF o
<1>2. \A n : n # name => FirstRef(o, n) = FirstRef(p, n)  BY <1>1 DEF FirstRef
<1>3. FirstRef(o, name) = IF ids = << >> THEN NoReference ELSE ids[1]  BY <1>1 DEF FirstRef
<1>4. References(o) \subseteq Numbers(g)  BY <1>1 DEF IsLinked
<1>5. o.type = "Catalog" =>
         /\ RefsAfter(o, "Pages") # << >>
         /\ FirstRef(o, "AcroForm") = NoReference => "Fields" \in DOMAIN o.links
  BY <1>1, <1>2 DEF IsLinked
<1>6. /\ o.type = "Pages" => RefsAfter(o, "Kids") # << >>
      /\ o.type = "Page" => RefsAfter(o, "XObject") # << >>
  BY <1>1 DEF IsLinked
<1>7. ASSUME NEW x \in ToSet(g)
      PROVE  /\ o.type = "Catalog" /\ x.id = FirstRef(o, "Pages") => x.type = "Pages"
             /\ o.type = "Catalog" /\ x.id = FirstRef(o, "AcroForm") => "Fields" \in DOMAIN x.links
             /\ o.type = "Page" /\ x.id = FirstRef(o, "XObject") => x.type = "XObject"
  BY <1>1, <1>2 DEF IsLinked
<1>8. ASSUME NEW x \in ToSet(g), o.type = "Catalog", x.id = FirstRef(o, "DSS") PROVE x.type = "DSS"
  <2>1. CASE name = "DSS"  BY <1>1, <1>3, <1>8, <2>1
  <2>2. CASE name # "DSS"  BY <1>1, <1>2, <1>8, <2>2 DEF IsLinked
  <2> QED  BY <2>1, <2>2
<1>9. ASSUME NEW x \in ToSet(g), o.type = "Pages", x.id = FirstRef(o, "Kids") PROVE x.type = "Page"
  <2>1. CASE name = "Kids"  BY <1>1, <1>3, <1>9, <2>1 DEF IsLinked
  <2>2. CASE name # "Kids"  BY <1>1, <1>2, <1>9, <2>2 DEF IsLinked
  <2> QED  BY <2>1, <2>2
<1>10. ASSUME NEW x \in ToSet(g), x.id \in Evidence(o) PROVE IsPlain(x)
  <2>1. CASE name = "OCSPs"
    <3>1. Evidence(o) \subseteq ToSet(ids) \cup Evidence(p)  BY <1>1, <2>1 DEF Evidence
    <3> QED  BY <1>10, <2>1, <3>1 DEF IsLinked
  <2>2. CASE name # "OCSPs"
    <3>1. Evidence(o) = Evidence(p)  BY <1>1, <2>2 DEF Evidence
    <3> QED  BY <1>10, <3>1 DEF IsLinked
  <2> QED  BY <2>1, <2>2
<1>11. IsLinked(o, g)
  BY <1>4, <1>5, <1>6, <1>7, <1>8, <1>9, <1>10 DEF IsLinked
<1> QED  BY <1>11 DEF o

\* What is appended: versions of objects that are more than evidence, and k new
\* objects, which take the next numbers.
AreVersions(f, a, k) ==
  /\ a \in Seq(ToSet(a))
  /\ \A o \in ToSet(a) :
       /\ IsPdfObject(o)
       /\ HasOneRole(o)
       /\ \/ \E p \in ToSet(f) : p.id = o.id /\ Alike(o, p) /\ ~ IsPlain(p)
          \/ o.id \in Cardinality(Numbers(f)) + 1 .. Cardinality(Numbers(f)) + k /\ o.type # "Catalog"
  /\ \A id \in Cardinality(Numbers(f)) + 1 .. Cardinality(Numbers(f)) + k :
       \E o \in ToSet(a) : o.id = id
  /\ \A o, p \in ToSet(a) : o.id = p.id => Alike(o, p)

\* Versions of versions are versions.
LEMMA AlikeIsTransitive ==
  ASSUME NEW o, NEW p, NEW q, Alike(o, p), Alike(p, q)
  PROVE  Alike(o, q)
BY DEF Alike

\* The numbers of a file are the ids of its objects.
LEMMA NumbersOfElements ==
  ASSUME NEW f
  PROVE  Numbers(f) = {o.id : o \in ToSet(f)}
BY DEF Numbers, ToSet

\* Objects are numbered from 1 on without a gap.
LEMMA Numbered ==
  ASSUME NEW f, IsWellFormed(f)
  PROVE  Cardinality(Numbers(f)) \in Nat /\ Numbers(f) = 1..Cardinality(Numbers(f))
<1>1. IsFiniteSet(ToSet(f))  BY FileFacts, ElementsAreFinite
<1> DEFINE t == [o \in ToSet(f) |-> o.id]
<1>2. t \in Surjection(ToSet(f), Numbers(f))  BY NumbersOfElements DEF Surjection
<1> HIDE DEF t
<1>3. IsFiniteSet(Numbers(f))  BY <1>1, <1>2, FS_Surjection
<1> QED  BY <1>3, FS_CardinalityType DEF IsWellFormed

\* A file to which versions and new objects are appended is numbered and typed as before.
LEMMA Grown ==
  ASSUME NEW f, IsWellFormed(f), NEW k \in Nat, NEW a, AreVersions(f, a, k)
  PROVE  /\ f \o a \in Seq(ToSet(f \o a))
         /\ ToSet(f \o a) = ToSet(f) \cup ToSet(a)
         /\ Continues(f \o a, f)
         /\ Numbers(f \o a) = 1 .. Cardinality(Numbers(f)) + k
         /\ Cardinality(Numbers(f \o a)) = Cardinality(Numbers(f)) + k
         /\ \A o, p \in ToSet(f \o a) :
              /\ o.id = p.id => Alike(o, p)
              /\ o.type = "Catalog" /\ p.type = "Catalog" => o.id = p.id
<1> DEFINE n == Cardinality(Numbers(f))
           g == f \o a
           S == ToSet(f) \cup ToSet(a)
<1>1. n \in Nat /\ Numbers(f) = 1..n  BY Numbered
<1>2. f \in Seq(S) /\ a \in Seq(S)
  <2>1. f \in Seq(ToSet(f)) /\ a \in Seq(ToSet(a))  BY FileFacts DEF AreVersions
  <2> HIDE DEF S
  <2>2. ToSet(f) \subseteq S /\ ToSet(a) \subseteq S  BY DEF S
  <2> QED  BY <2>1, <2>2
<1>3. g \in Seq(S) /\ ToSet(g) = S  BY <1>2, Concatenated
<1>4. /\ \A o \in ToSet(f) : IsPdfObject(o) /\ o.id \in Numbers(f)
      /\ \A o, p \in ToSet(f) : o.id = p.id => Alike(o, p)
      /\ \A o, p \in ToSet(f) : o.type = "Catalog" /\ p.type = "Catalog" => o.id = p.id
  BY FileFacts DEF IsWellFormed
<1> HIDE DEF n, g
<1>5. \A o \in ToSet(a) :
        /\ IsPdfObject(o)
        /\ \/ \E p \in ToSet(f) : p.id = o.id /\ Alike(o, p)
           \/ o.id \in n + 1 .. n + k /\ o.type # "Catalog"
  BY DEF AreVersions, n
<1>6. \A o, p \in ToSet(a) : o.id = p.id => Alike(o, p)  BY DEF AreVersions
<1>7. ASSUME NEW o \in S, o.id \in Numbers(f)
      PROVE  \E p \in ToSet(f) : p.id = o.id /\ Alike(o, p)
  <2>1. CASE o \in ToSet(f)  BY <1>4, <2>1
  <2>2. CASE o \in ToSet(a)
    <3>1. o.id \notin n + 1 .. n + k  BY <1>1, <1>7
    <3> QED  BY <1>5, <2>2, <3>1
  <2> QED  BY <2>1, <2>2
<1>8. Continues(g, f)
  BY <1>3, <1>4, <1>5, <1>7 DEF Continues
<1>9. Numbers(g) = 1 .. n + k
  <2>1. \A o \in S : o.id \in 1 .. n + k
    <3> SUFFICES ASSUME NEW o \in S PROVE o.id \in 1 .. n + k
      OBVIOUS
    <3>1. o.id \in 1 .. n \/ o.id \in n + 1 .. n + k
      <4>1. CASE o \in ToSet(f)  BY <1>1, <1>4, <4>1
      <4>2. CASE o \in ToSet(a)
        <5>1. (\E p \in ToSet(f) : p.id = o.id) \/ o.id \in n + 1 .. n + k  BY <1>5, <4>2
        <5> QED  BY <1>1, <1>4, <5>1
      <4> QED  BY <4>1, <4>2
    <3> QED  BY <1>1, <3>1
  <2>2. \A id \in 1 .. n + k : \E o \in S : o.id = id
    <3> SUFFICES ASSUME NEW id \in 1 .. n + k PROVE \E o \in S : o.id = id
      OBVIOUS
    <3>1. CASE id \in 1..n
      <4>1. id \in Numbers(f)  BY <1>1, <3>1
      <4> QED  BY <4>1, NumbersOfElements
    <3>2. CASE id \in n + 1 .. n + k  BY <3>2 DEF AreVersions, n
    <3> QED  BY <1>1, <3>1, <3>2
  <2>3. Numbers(g) = {o.id : o \in S}  BY <1>3, NumbersOfElements
  <2> HIDE DEF S
  <2> QED  BY <2>1, <2>2, <2>3
<1>10. Cardinality(Numbers(g)) = n + k
  <2>1. n + k \in Nat  BY <1>1
  <2> HIDE DEF g
  <2>2. Cardinality(1 .. n + k) = n + k  BY <2>1, FS_Interval
  <2> QED  BY <1>9, <2>2
<1>11. ASSUME NEW o \in S, NEW p \in S, o.id = p.id PROVE Alike(o, p)
  <2>1. CASE o.id \in Numbers(f)
    <3>1. PICK x \in ToSet(f) : x.id = o.id /\ Alike(o, x)  BY <1>7, <2>1
    <3>2. PICK y \in ToSet(f) : y.id = p.id /\ Alike(p, y)  BY <1>7, <1>11, <2>1
    <3>3. Alike(x, y)  BY <1>4, <1>11, <3>1, <3>2
    <3> QED  BY <3>1, <3>2, <3>3 DEF Alike
  <2>2. CASE o.id \notin Numbers(f)
    <3>1. o \in ToSet(a) /\ p \in ToSet(a)  BY <1>4, <1>11, <2>2
    <3> QED  BY <1>6, <1>11, <3>1
  <2> QED  BY <2>1, <2>2
<1>12. ASSUME NEW o \in S, NEW p \in S, o.type = "Catalog", p.type = "Catalog" PROVE o.id = p.id
  <2>1. \A x \in S : x.type = "Catalog" => \E y \in ToSet(f) : y.id = x.id /\ y.type = "Catalog"
    BY <1>4, <1>5 DEF Alike
  <2> QED  BY <1>4, <1>12, <2>1
<1> QED  BY <1>1, <1>3, <1>8, <1>9, <1>10, <1>11, <1>12 DEF n, g

\* Then the file stays well-formed if what is appended is linked.
LEMMA GrownWell ==
  ASSUME NEW f, IsWellFormed(f), NEW k \in Nat, NEW a, AreVersions(f, a, k),
         \A o \in ToSet(a) : IsLinked(o, f \o a)
  PROVE  IsWellFormed(f \o a)
<1> DEFINE g == f \o a
<1>1. /\ g \in Seq(ToSet(g)) /\ ToSet(g) = ToSet(f) \cup ToSet(a) /\ Continues(g, f)
      /\ Numbers(g) = 1 .. Cardinality(Numbers(g))
      /\ \A o, p \in ToSet(g) :
           /\ o.id = p.id => Alike(o, p)
           /\ o.type = "Catalog" /\ p.type = "Catalog" => o.id = p.id
  BY Grown
<1> HIDE DEF g
<1>2. \A o \in ToSet(f) : IsLinked(o, g)  BY <1>1, LinksStay
<1>3. \A o \in ToSet(a) : IsLinked(o, g)  BY DEF g
<1>4. \A o \in ToSet(g) : IsPdfObject(o) /\ HasOneRole(o)
  BY <1>1 DEF AreVersions, IsWellFormed
<1>5. (\E o \in ToSet(g) : o.type = "Catalog") /\ (\E o \in ToSet(g) : "ModDate" \in o.names)
  BY <1>1 DEF IsWellFormed
<1>6. IsWellFormed(g)
  BY <1>1, <1>2, <1>3, <1>4, <1>5 DEF IsWellFormed
<1> QED  BY <1>6 DEF g

-----------------------------------------------------------------------------
(* What each kind of update appends.                                       *)

\* The places of one object.
LEMMA OneObject ==
  ASSUME NEW x
  PROVE  /\ << x >> \in Seq(ToSet(<< x >>)) /\ ToSet(<< x >>) = {x} /\ Len(<< x >>) = 1
         /\ << x >>[1] = x
BY DEF ToSet

\* The places of two objects.
LEMMA TwoObjects ==
  ASSUME NEW x, NEW y
  PROVE  /\ << x, y >> \in Seq(ToSet(<< x, y >>)) /\ ToSet(<< x, y >>) = {x, y} /\ Len(<< x, y >>) = 2
         /\ << x, y >>[1] = x /\ << x, y >>[2] = y
BY DEF ToSet

\* The places of three objects.
LEMMA ThreeObjects ==
  ASSUME NEW x, NEW y, NEW z
  PROVE  /\ << x, y, z >> \in Seq(ToSet(<< x, y, z >>)) /\ ToSet(<< x, y, z >>) = {x, y, z}
         /\ Len(<< x, y, z >>) = 3
         /\ << x, y, z >>[1] = x /\ << x, y, z >>[2] = y /\ << x, y, z >>[3] = z
BY DEF ToSet

\* Another version of an object of the file that is more than evidence.
IsVersion(o, f) ==
  /\ IsPdfObject(o)
  /\ HasOneRole(o)
  /\ \E p \in ToSet(f) : p.id = o.id /\ Alike(o, p) /\ ~ IsPlain(p)

\* A new object.
IsNew(o, id) ==
  IsPdfObject(o) /\ o.id = id /\ o.type # "Catalog" /\ HasOneRole(o)

\* A version has a number of the file.
LEMMA VersionNumbers ==
  ASSUME NEW f, IsWellFormed(f), NEW o, IsVersion(o, f)
  PROVE  o.id \in 1..Cardinality(Numbers(f))
BY FileFacts, Numbered DEF IsVersion

\* A version alone may be appended.
LEMMA RewritingIsVersion ==
  ASSUME NEW f, IsWellFormed(f), NEW o, IsVersion(o, f)
  PROVE  AreVersions(f, << o >>, 0)
<1> DEFINE n == Cardinality(Numbers(f))
<1>1. n \in Nat  BY Numbered
<1>2. n + 1 .. n + 0 = {}  BY <1>1
<1>3. Alike(o, o)  BY DEF Alike
<1> HIDE DEF n
<1>4. << o >> \in Seq(ToSet(<< o >>)) /\ ToSet(<< o >>) = {o}  BY OneObject
<1>5. AreVersions(f, << o >>, 0)
  BY <1>2, <1>3, <1>4 DEF AreVersions, IsVersion, n
<1> QED  BY <1>5

\* A version and a new object may be appended in either order.
LEMMA RewritingAndNew ==
  ASSUME NEW f, IsWellFormed(f), NEW o, IsVersion(o, f), NEW p, IsNew(p, Cardinality(Numbers(f)) + 1)
  PROVE  AreVersions(f, << o, p >>, 1) /\ AreVersions(f, << p, o >>, 1)
<1> DEFINE n == Cardinality(Numbers(f))
<1>1. n \in Nat  BY Numbered
<1>2. n + 1 .. n + 1 = {n + 1}  BY <1>1
<1>3. Alike(o, o) /\ Alike(p, p)  BY DEF Alike
<1>4. o.id # p.id  BY <1>1, VersionNumbers DEF IsNew
<1> HIDE DEF n
<1>5. << o, p >> \in Seq(ToSet(<< o, p >>)) /\ ToSet(<< o, p >>) = {o, p}  BY TwoObjects
<1>6. << p, o >> \in Seq(ToSet(<< p, o >>)) /\ ToSet(<< p, o >>) = {o, p}  BY TwoObjects
<1>7. AreVersions(f, << o, p >>, 1)
  BY <1>2, <1>3, <1>4, <1>5 DEF AreVersions, IsVersion, IsNew, n
<1>8. AreVersions(f, << p, o >>, 1)
  BY <1>2, <1>3, <1>4, <1>6 DEF AreVersions, IsVersion, IsNew, n
<1> QED  BY <1>7, <1>8

\* Two new versions of objects and one new object stay versions of the file's.
LEMMA TwoRewritingsAndNew ==
  ASSUME NEW f, IsWellFormed(f), NEW o, IsVersion(o, f), NEW q, IsVersion(q, f),
         NEW p, IsNew(p, Cardinality(Numbers(f)) + 1)
  PROVE  AreVersions(f, << o, p, q >>, 1)
<1> DEFINE n == Cardinality(Numbers(f))
<1>1. n \in Nat  BY Numbered
<1>2. n + 1 .. n + 1 = {n + 1}  BY <1>1
<1>3. Alike(o, o) /\ Alike(p, p) /\ Alike(q, q)  BY DEF Alike
<1>4. o.id # p.id /\ q.id # p.id  BY <1>1, VersionNumbers DEF IsNew
<1>5. o.id = q.id => Alike(o, q) /\ Alike(q, o)
  <2>1. PICK x \in ToSet(f) : x.id = o.id /\ Alike(o, x)  BY DEF IsVersion
  <2>2. PICK y \in ToSet(f) : y.id = q.id /\ Alike(q, y)  BY DEF IsVersion
  <2>3. o.id = q.id => Alike(x, y)  BY <2>1, <2>2 DEF IsWellFormed
  <2> QED  BY <2>1, <2>2, <2>3 DEF Alike
<1> HIDE DEF n
<1>6. << o, p, q >> \in Seq(ToSet(<< o, p, q >>)) /\ ToSet(<< o, p, q >>) = {o, p, q}
  BY ThreeObjects
<1>7. AreVersions(f, << o, p, q >>, 1)
  BY <1>2, <1>3, <1>4, <1>5, <1>6 DEF AreVersions, IsVersion, IsNew, n
<1> QED  BY <1>7

\* A new object alone may be appended.
LEMMA NewIsVersion ==
  ASSUME NEW f, IsWellFormed(f), NEW p, IsNew(p, Cardinality(Numbers(f)) + 1)
  PROVE  AreVersions(f, << p >>, 1)
<1> DEFINE n == Cardinality(Numbers(f))
<1>1. n \in Nat  BY Numbered
<1>2. n + 1 .. n + 1 = {n + 1}  BY <1>1
<1>3. Alike(p, p)  BY DEF Alike
<1> HIDE DEF n
<1>4. << p >> \in Seq(ToSet(<< p >>)) /\ ToSet(<< p >>) = {p}  BY OneObject
<1>5. AreVersions(f, << p >>, 1)
  BY <1>2, <1>3, <1>4 DEF AreVersions, IsNew, n
<1> QED  BY <1>5

\* A version and two new objects may be appended.
LEMMA RewritingAndTwoNew ==
  ASSUME NEW f, IsWellFormed(f), NEW o, IsVersion(o, f),
         NEW p, IsNew(p, Cardinality(Numbers(f)) + 1), NEW q, IsNew(q, Cardinality(Numbers(f)) + 2)
  PROVE  AreVersions(f, << o, p, q >>, 2) /\ AreVersions(f, << p, q, o >>, 2)
<1> DEFINE n == Cardinality(Numbers(f))
<1>1. n \in Nat  BY Numbered
<1>2. n + 1 .. n + 2 = {n + 1, n + 2}  BY <1>1
<1>3. Alike(o, o) /\ Alike(p, p) /\ Alike(q, q)  BY DEF Alike
<1>4. o.id # p.id /\ o.id # q.id /\ p.id # q.id  BY <1>1, VersionNumbers DEF IsNew
<1> HIDE DEF n
<1>5. << o, p, q >> \in Seq(ToSet(<< o, p, q >>)) /\ ToSet(<< o, p, q >>) = {o, p, q}
  BY ThreeObjects
<1>6. << p, q, o >> \in Seq(ToSet(<< p, q, o >>)) /\ ToSet(<< p, q, o >>) = {o, p, q}
  BY ThreeObjects
<1>7. AreVersions(f, << o, p, q >>, 2)
  BY <1>2, <1>3, <1>4, <1>5 DEF AreVersions, IsVersion, IsNew, n
<1>8. AreVersions(f, << p, q, o >>, 2)
  BY <1>2, <1>3, <1>4, <1>6 DEF AreVersions, IsVersion, IsNew, n
<1> QED  BY <1>7, <1>8

\* Written again with other references, an object is a version of itself.
LEMMA LinkingIsVersion ==
  ASSUME NEW f, IsWellFormed(f), NEW p \in ToSet(f), ~ IsPlain(p), "ModDate" \notin p.names,
         NEW name, NEW ids \in Seq(Nat \ {0}),
         name = "Fields" => "Fields" \in DOMAIN p.links
  PROVE  IsVersion(WithRefs(p, name, ids), f)
<1> DEFINE o == WithRefs(p, name, ids)
<1>1. IsPdfObject(p)  BY DEF IsWellFormed
<1>2. /\ IsPdfObject(o) /\ o.id = p.id /\ o.type = p.type /\ o.names = p.names
      /\ DOMAIN o.links = DOMAIN p.links \cup {name}
  BY <1>1, LinkedObject
<1> HIDE DEF o
<1>3. Alike(o, p)  BY <1>2 DEF Alike
<1>4. HasOneRole(o)  BY <1>2 DEF IsWellFormed, HasOneRole, RoleNames
<1>5. IsVersion(o, f)  BY <1>2, <1>3, <1>4 DEF IsVersion
<1> QED  BY <1>5 DEF o

\* Fresh numbers are those behind the last.
LEMMA NumbersAreFresh ==
  ASSUME NEW f, IsWellFormed(f), NEW k \in Nat \ {0}
  PROVE  /\ Fresh(f, k) = Cardinality(Numbers(f)) + k /\ Fresh(f, k) \in Nat \ {0}
         /\ Fresh(f, k) \notin Numbers(f)
BY Numbered DEF Fresh

\* The information belongs to nothing else.
LEMMA NotInformation ==
  ASSUME NEW f, IsWellFormed(f), NEW o \in ToSet(f),
         o.type \in {"Catalog", "Pages", "Page", "XObject", "DSS"} \/ "Fields" \in DOMAIN o.links
           \/ "ByteRange" \in o.names \/ "Sig" \in o.names
  PROVE  "ModDate" \notin o.names /\ ~ IsPlain(o)
BY DEF IsWellFormed, HasOneRole, IsPlain, RoleNames

IsSignatureOf(f, o, type, names) ==
  /\ o.type = type /\ o.names = names \cup {"ByteRange", "Contents"} /\ o.links = << >>
  /\ o.number = Len(f) + 3 /\ o.text = Len(f) /\ o.packed = 0
  /\ IsNew(o, Fresh(f, 1))

IsFieldOf(f, o) ==
  /\ o.type = NoType /\ o.names = {"Sig", "Widget"} /\ o.links = [V |-> << Fresh(f, 1) >>]
  /\ o.packed = 0
  /\ IsNew(o, Fresh(f, 2))

\* A signature comes with its dictionary, its field and the form that lists it.
LEMMA SigningWrites ==
  ASSUME NEW f, IsWellFormed(f), NEW type \in {"Sig", "DocTimeStamp"},
         NEW names, names \subseteq {"ETSI.RFC3161"}
  PROVE  \E s, e :
           /\ SignatureObjects(f, type, names) = << s, e, WithField(f, Fresh(f, 2)) >>
           /\ IsSignatureOf(f, s, type, names) /\ IsFieldOf(f, e)
           /\ IsVersion(WithField(f, Fresh(f, 2)), f)
<1> DEFINE marks == names \cup {"ByteRange", "Contents"}
           none == << >>
           new == New(Fresh(f, 1), type, marks, none)
           s == [new EXCEPT !.number = Len(f) + 3, !.text = Len(f)]
           links == [V |-> << Fresh(f, 1) >>]
           e == New(Fresh(f, 2), NoType, {"Sig", "Widget"}, links)
<1>1. Fresh(f, 1) \in Nat \ {0} /\ Fresh(f, 2) \in Nat \ {0}  BY NumbersAreFresh
<1>2. IsSignatureOf(f, s, type, names) /\ s.id = Fresh(f, 1)
  <2>1. none \in [DOMAIN none -> Seq(Nat \ {0})]  OBVIOUS
  <2> HIDE DEF marks, none
  <2>3. /\ IsPdfObject(new) /\ new.id = Fresh(f, 1) /\ new.type = type
        /\ new.names = marks /\ new.links = none /\ new.packed = 0
    BY <1>1, <2>1, NewObject
  <2> HIDE DEF new
  <2>4. Len(f) \in Nat /\ Len(f) + 3 \in Nat  BY FileFacts
  <2>5. /\ IsPdfObject(s) /\ s.id = new.id /\ s.type = new.type /\ s.names = new.names
        /\ s.links = new.links /\ s.packed = new.packed /\ s.number = Len(f) + 3 /\ s.text = Len(f)
    BY <2>3, <2>4 DEF IsPdfObject
  <2> HIDE DEF s
  <2>6. IsNew(s, Fresh(f, 1))
    <3>1. DOMAIN s.links = {}  BY <2>3, <2>5 DEF none
    <3>2. "Sig" \notin s.names /\ "ModDate" \notin s.names  BY <2>3, <2>5 DEF marks
    <3>3. s.type # "Catalog" /\ s.type \in {"Sig", "DocTimeStamp"}  BY <2>3, <2>5
    <3>4. HasOneRole(s)  BY <3>1, <3>2, <3>3 DEF HasOneRole
    <3> QED  BY <2>3, <2>5, <3>3, <3>4 DEF IsNew
  <2> QED  BY <2>3, <2>5, <2>6 DEF IsSignatureOf, marks, none
<1>3. IsFieldOf(f, e)
  <2>1. links \in [DOMAIN links -> Seq(Nat \ {0})]
    <3>1. links = [n \in {"V"} |-> << Fresh(f, 1) >>]  OBVIOUS
    <3>2. << Fresh(f, 1) >> \in Seq(Nat \ {0})  BY <1>1
    <3> QED  BY <3>1, <3>2
  <2> HIDE DEF links
  <2>3. /\ IsPdfObject(e) /\ e.id = Fresh(f, 2) /\ e.type = NoType /\ e.names = {"Sig", "Widget"}
        /\ e.links = links /\ e.packed = 0
    BY <1>1, <2>1, NewObject
  <2> HIDE DEF e
  <2>4. IsNew(e, Fresh(f, 2))  BY <2>3 DEF IsNew, HasOneRole, RoleNames, NoType, links
  <2> QED  BY <2>3, <2>4 DEF IsFieldOf, links
<1>4. IsVersion(WithField(f, Fresh(f, 2)), f)
  <2> DEFINE p == FormOf(f)
             ids == Append(RefsAfter(p, "Fields"), Fresh(f, 2))
  <2>1. p \in ToSet(f) /\ "Fields" \in DOMAIN p.links  BY FormIs
  <2>2. "ModDate" \notin p.names /\ ~ IsPlain(p)  BY <2>1, NotInformation
  <2>3. RefsAfter(p, "Fields") \in Seq(Nat \ {0})  BY <2>1, RefsAre DEF IsWellFormed
  <2>4. ids \in Seq(Nat \ {0})  BY <1>1, <2>3
  <2> HIDE DEF p, ids
  <2>5. IsVersion(WithRefs(p, "Fields", ids), f)  BY <2>1, <2>2, <2>4, LinkingIsVersion
  <2> QED  BY <2>5 DEF WithField, p, ids
<1>5. SignatureObjects(f, type, names) = << s, e, WithField(f, Fresh(f, 2)) >>
  <2>1. SignatureObjects(f, type, names) =
          << s, New(Fresh(f, 2), NoType, {"Sig", "Widget"}, [V |-> << s.id >>]),
             WithField(f, New(Fresh(f, 2), NoType, {"Sig", "Widget"}, [V |-> << s.id >>]).id) >>
    BY DEF SignatureObjects
  <2>2. e.id = Fresh(f, 2)  BY <1>3 DEF IsFieldOf, IsNew
  <2> QED  BY <1>2, <2>1, <2>2
<1> QED  BY <1>2, <1>3, <1>4, <1>5

\* An object that is neither catalog nor page tree only needs its references to exist.
LEMMA OtherLinks ==
  ASSUME NEW o, NEW g, o.type \notin {"Catalog", "Pages", "Page"}, References(o) \subseteq Numbers(g),
         \A x \in ToSet(g) : x.id \in Evidence(o) => IsPlain(x)
  PROVE  IsLinked(o, g)
BY DEF IsLinked

\* Without links there are no references.
LEMMA NoLinks ==
  ASSUME NEW o, o.links = << >>
  PROVE  References(o) = {} /\ Evidence(o) = {} /\ \A name : RefsAfter(o, name) = << >>
<1>1. DOMAIN o.links = {}  OBVIOUS
<1>2. \A name : RefsAfter(o, name) = << >>  BY <1>1 DEF RefsAfter
<1>3. References(o) = {}  BY <1>1 DEF References
<1>4. ToSet(<< >>) = {}  BY DEF ToSet
<1> QED  BY <1>2, <1>3, <1>4 DEF Evidence

\* With one link its references are all there are.
LEMMA OneLink ==
  ASSUME NEW o, NEW name, NEW ids, o.links = [n \in {name} |-> ids]
  PROVE  /\ References(o) = ToSet(ids) /\ RefsAfter(o, name) = ids
         /\ \A n : n # name => RefsAfter(o, n) = << >>
<1>1. DOMAIN o.links = {name} /\ o.links[name] = ids  OBVIOUS
<1>2. RefsAfter(o, name) = ids /\ \A n : n # name => RefsAfter(o, n) = << >>
  BY <1>1 DEF RefsAfter
<1>3. References(o) = ToSet(ids)  BY <1>1 DEF References
<1> QED  BY <1>2, <1>3

\* A list of references with one more.
LEMMA OneMoreReference ==
  ASSUME NEW ids \in Seq(Nat \ {0}), NEW id \in Nat \ {0}
  PROVE  /\ Append(ids, id) \in Seq(Nat \ {0}) /\ ToSet(Append(ids, id)) = ToSet(ids) \cup {id}
         /\ Append(ids, id) # << >>
         /\ ids # << >> => Append(ids, id)[1] = ids[1]
<1>1. Append(ids, id) \in Seq(Nat \ {0}) /\ ToSet(Append(ids, id)) = ToSet(ids) \cup {id}
  BY ElementsOfAppend
<1> QED  BY <1>1

\* A new field refers to its dictionary and nothing else.
LEMMA FieldLinks ==
  ASSUME NEW f, IsWellFormed(f), NEW e, IsFieldOf(f, e)
  PROVE  /\ References(e) = {Fresh(f, 1)} /\ RefsAfter(e, "V") = << Fresh(f, 1) >>
         /\ \A n : n # "V" => RefsAfter(e, n) = << >>
         /\ Evidence(e) = {}
<1> DEFINE ids == << Fresh(f, 1) >>
<1>1. e.links = [n \in {"V"} |-> ids]  BY DEF IsFieldOf
<1>2. ToSet(ids) = {Fresh(f, 1)} /\ ToSet(<< >>) = {}  BY DEF ToSet
<1> HIDE DEF ids
<1>3. /\ References(e) = ToSet(ids) /\ RefsAfter(e, "V") = ids
      /\ \A n : n # "V" => RefsAfter(e, n) = << >>
  BY <1>1, OneLink
<1>4. Evidence(e) = {}  BY <1>2, <1>3 DEF Evidence
<1> QED  BY <1>2, <1>3, <1>4 DEF ids

\* Signing leaves a well-formed file.
LEMMA SigningKeeps ==
  ASSUME NEW f, IsWellFormed(f), NEW type \in {"Sig", "DocTimeStamp"},
         NEW names, names \subseteq {"ETSI.RFC3161"}
  PROVE  IsWellFormed(f \o SignatureObjects(f, type, names))
<1> DEFINE n == Cardinality(Numbers(f))
           w == WithField(f, Fresh(f, 2))
           a == SignatureObjects(f, type, names)
           g == f \o a
<1>1. PICK s, e : /\ a = << s, e, w >> /\ IsSignatureOf(f, s, type, names) /\ IsFieldOf(f, e)
                  /\ IsVersion(w, f)
  BY SigningWrites
<1>2. n \in Nat /\ Fresh(f, 1) = n + 1 /\ Fresh(f, 2) = n + 2  BY Numbered, NumbersAreFresh
<1>3. AreVersions(f, << s, e, w >>, 2)
  <2>1. IsNew(s, n + 1) /\ IsNew(e, n + 2)  BY <1>1, <1>2 DEF IsSignatureOf, IsFieldOf
  <2> HIDE DEF w
  <2> QED  BY <1>1, <2>1, RewritingAndTwoNew
<1> HIDE DEF a
<1>4. ToSet(g) = ToSet(f) \cup ToSet(a) /\ Continues(g, f) /\ Numbers(g) = 1 .. n + 2
  BY <1>1, <1>3, Grown
<1>5. ToSet(a) = {s, e, w}
  <2> HIDE DEF w
  <2> QED  BY <1>1, ThreeObjects
<1>6. \A x \in ToSet(g) : x.id # NoReference  BY <1>4 DEF Continues, IsPdfObject, NoReference
<1> HIDE DEF g
<1>7. IsLinked(s, g)
  <2>1. References(s) = {} /\ Evidence(s) = {}  BY <1>1, NoLinks DEF IsSignatureOf
  <2>2. s.type \notin {"Catalog", "Pages", "Page"}  BY <1>1 DEF IsSignatureOf
  <2> QED  BY <2>1, <2>2, OtherLinks
<1>8. IsLinked(e, g)
  <2>1. References(e) = {Fresh(f, 1)} /\ Evidence(e) = {}  BY <1>1, FieldLinks
  <2>2. e.type \notin {"Catalog", "Pages", "Page"}  BY <1>1 DEF IsFieldOf, NoType
  <2>3. References(e) \subseteq Numbers(g)  BY <1>2, <1>4, <2>1
  <2> QED  BY <2>1, <2>2, <2>3, OtherLinks
<1>9. IsLinked(w, g)
  <2> DEFINE p == FormOf(f)
             ids == Append(RefsAfter(p, "Fields"), Fresh(f, 2))
  <2>1. p \in ToSet(f) /\ IsPdfObject(p) /\ IsLinked(p, g)
    BY <1>4, FormIs, LinksStay DEF IsWellFormed
  <2>2. /\ RefsAfter(p, "Fields") \in Seq(Nat \ {0})
        /\ ToSet(RefsAfter(p, "Fields")) \subseteq Numbers(g)
    BY <2>1, RefsAre DEF IsLinked
  <2>3. ids \in Seq(Nat \ {0}) /\ ToSet(ids) \subseteq Numbers(g)
    BY <1>2, <1>4, <2>2, OneMoreReference
  <2> HIDE DEF p, ids
  <2>4. IsLinked(WithRefs(p, "Fields", ids), g)  BY <1>6, <2>1, <2>3, NewLinks
  <2> QED  BY <2>4 DEF WithField, p, ids
<1> HIDE DEF w
<1>10. AreVersions(f, a, 2) /\ \A o \in ToSet(a) : IsLinked(o, f \o a)
  BY <1>1, <1>3, <1>5, <1>7, <1>8, <1>9 DEF g
<1> QED  BY <1>10, GrownWell DEF a

\* What an embedded OCSP response is.
LEMMA ResponseIs ==
  ASSUME NEW f, IsWellFormed(f), NEW id \in Nat \ {0}
  PROVE  LET r == Response(f, id)
         IN  /\ IsNew(r, id) /\ IsPlain(r)
             /\ r.names = {} /\ r.links = << >> /\ r.packed = 0 /\ r.type = NoType
<1> DEFINE none == << >>
           new == New(id, NoType, {}, none)
           r == [new EXCEPT !.stream = Len(f)]
<1>1. none \in [DOMAIN none -> Seq(Nat \ {0})]  OBVIOUS
<1> HIDE DEF none
<1>2. /\ IsPdfObject(new) /\ new.id = id /\ new.type = NoType /\ new.names = {}
      /\ new.links = none /\ new.packed = 0
  BY <1>1, NewObject
<1> HIDE DEF new
<1>3. Len(f) \in Nat  BY FileFacts
<1>4. /\ IsPdfObject(r) /\ r.id = id /\ r.type = NoType /\ r.names = {} /\ r.links = none
      /\ r.packed = 0
  BY <1>2, <1>3 DEF IsPdfObject
<1>5. r = Response(f, id)  BY DEF Response, new, none
<1> HIDE DEF r
<1>6. IsNew(r, id)  BY <1>4 DEF IsNew, HasOneRole, RoleNames, NoType
<1>7. IsPlain(r)
  <2>1. DOMAIN r.links = {}  BY <1>4 DEF none
  <2> QED  BY <1>4, <2>1 DEF IsPlain, NoType
<1> QED  BY <1>4, <1>5, <1>6, <1>7 DEF none

\* A catalog that adds a DSS is the catalog but for it.
LEMMA DssCatalogIs ==
  ASSUME NEW f, IsWellFormed(f)
  PROVE  LET c == DssCatalog(f)
             p == WithRefs(CatalogOf(f), "DSS", << Fresh(f, 1) >>)
         IN  /\ IsPdfObject(p) /\ IsPdfObject(c) /\ c.id = CatalogOf(f).id /\ c.type = "Catalog"
             /\ c.names = CatalogOf(f).names \cup {"Extensions"} /\ c.links = p.links
             /\ p.type = "Catalog" /\ c.packed = 0
             /\ c.number = CatalogOf(f).number /\ c.text = CatalogOf(f).text
             /\ c.spaced = CatalogOf(f).spaced
             /\ DOMAIN c.links = DOMAIN CatalogOf(f).links \cup {"DSS"}
             /\ \A n \in DOMAIN c.links :
                  c.links[n] = IF n = "DSS" THEN << Fresh(f, 1) >> ELSE CatalogOf(f).links[n]
             /\ IsVersion(c, f)
<1> DEFINE q == CatalogOf(f)
           ids == << Fresh(f, 1) >>
           p == WithRefs(q, "DSS", ids)
           c == [p EXCEPT !.names = @ \cup {"Extensions"}]
<1>1. q \in ToSet(f) /\ q.type = "Catalog" /\ IsPdfObject(q)  BY CatalogIs DEF IsWellFormed
<1>2. ids \in Seq(Nat \ {0})  BY NumbersAreFresh
<1>3. "ModDate" \notin q.names /\ ~ IsPlain(q)  BY <1>1, NotInformation
<1> HIDE DEF q, ids
<1>4. /\ IsPdfObject(p) /\ p.id = q.id /\ p.type = q.type /\ p.names = q.names /\ p.packed = 0
      /\ p.number = q.number /\ p.text = q.text /\ p.spaced = q.spaced
      /\ DOMAIN p.links = DOMAIN q.links \cup {"DSS"}
      /\ \A n \in DOMAIN q.links \cup {"DSS"} : p.links[n] = IF n = "DSS" THEN ids ELSE q.links[n]
  BY <1>1, <1>2, LinkedObject
<1> HIDE DEF p
<1>5. /\ IsPdfObject(c) /\ c.id = p.id /\ c.type = p.type /\ c.names = p.names \cup {"Extensions"}
      /\ c.links = p.links /\ c.packed = p.packed
      /\ c.number = p.number /\ c.text = p.text /\ c.spaced = p.spaced
  BY <1>4 DEF IsPdfObject
<1>6. c = DssCatalog(f)  BY DEF DssCatalog, p, q, ids
<1> HIDE DEF c
<1>7. Alike(c, q)  BY <1>4, <1>5 DEF Alike, RoleNames
<1>8. IsVersion(c, f)
  <2>1. HasOneRole(c)  BY <1>1, <1>3, <1>4, <1>5 DEF IsWellFormed, HasOneRole, RoleNames
  <2> QED  BY <1>1, <1>3, <1>4, <1>5, <1>7, <2>1 DEF IsVersion
<1> QED  BY <1>1, <1>4, <1>5, <1>6, <1>8 DEF p, q, ids

IsDssOf(f, d, names) ==
  /\ IsNew(d, Fresh(f, 1)) /\ d.type = "DSS" /\ d.names = names /\ d.packed = 0
  /\ d.links = [n \in {"OCSPs"} |-> << Fresh(f, 2) >>]

\* Validation data comes with its catalog, its DSS and a response.
LEMMA DssWrites ==
  ASSUME NEW f, IsWellFormed(f), NEW names, names \subseteq {"VRI"}
  PROVE  \E d : /\ DssObjects(f, names) = << DssCatalog(f), d, Response(f, Fresh(f, 2)) >>
                /\ IsDssOf(f, d, names)
<1> DEFINE links == [OCSPs |-> << Fresh(f, 2) >>]
           d == New(Fresh(f, 1), "DSS", names, links)
<1>1. Fresh(f, 1) \in Nat \ {0} /\ Fresh(f, 2) \in Nat \ {0}  BY NumbersAreFresh
<1>2. links = [n \in {"OCSPs"} |-> << Fresh(f, 2) >>]  OBVIOUS
<1>3. DssObjects(f, names) = << DssCatalog(f), d, Response(f, Fresh(f, 2)) >>
  BY DEF DssObjects
<1> HIDE DEF links
<1>4. links \in [DOMAIN links -> Seq(Nat \ {0})]
  <2>1. << Fresh(f, 2) >> \in Seq(Nat \ {0})  BY <1>1
  <2> QED  BY <1>2, <2>1
<1>5. /\ IsPdfObject(d) /\ d.id = Fresh(f, 1) /\ d.type = "DSS" /\ d.names = names
      /\ d.links = links /\ d.packed = 0
  BY <1>1, <1>4, NewObject
<1> HIDE DEF d
<1>6. IsDssOf(f, d, names)  BY <1>2, <1>5 DEF IsDssOf, IsNew, HasOneRole, RoleNames
<1> QED  BY <1>3, <1>6

\* The catalog may name a DSS that is in the file.
LEMMA CatalogWithDss ==
  ASSUME NEW f, IsWellFormed(f), NEW g, Continues(g, f), Fresh(f, 1) \in Numbers(g),
         \A x \in ToSet(g) : x.id = Fresh(f, 1) => x.type = "DSS"
  PROVE  IsLinked(DssCatalog(f), g)
<1> DEFINE q == CatalogOf(f)
           c == DssCatalog(f)
           ids == << Fresh(f, 1) >>
<1>1. q \in ToSet(f) /\ IsPdfObject(q) /\ IsLinked(q, g) /\ q.type = "Catalog"
  BY CatalogIs, LinksStay DEF IsWellFormed
<1>2. ids \in Seq(Nat \ {0}) /\ ids # << >> /\ ids[1] = Fresh(f, 1) /\ ToSet(ids) \subseteq Numbers(g)
  <2>1. ToSet(ids) = {Fresh(f, 1)}  BY DEF ToSet
  <2> QED  BY <2>1, NumbersAreFresh
<1>3. c.type = WithRefs(q, "DSS", ids).type /\ c.links = WithRefs(q, "DSS", ids).links
  BY DssCatalogIs
<1>4. \A x \in ToSet(g) : x.id # NoReference  BY DEF Continues, IsPdfObject, NoReference
<1> HIDE DEF q, c, ids
<1>5. IsLinked(WithRefs(q, "DSS", ids), g)  BY <1>1, <1>2, <1>4, NewLinks
<1>6. IsLinked(c, g)  BY <1>3, <1>5, SameLinks
<1> QED  BY <1>6 DEF c

\* Adding a DSS leaves a well-formed file.
LEMMA DssKeeps ==
  ASSUME NEW f, IsWellFormed(f), NEW names, names \subseteq {"VRI"}
  PROVE  IsWellFormed(f \o DssObjects(f, names))
<1> DEFINE n == Cardinality(Numbers(f))
           c == DssCatalog(f)
           r == Response(f, Fresh(f, 2))
           a == DssObjects(f, names)
           g == f \o a
<1>1. PICK d : a = << c, d, r >> /\ IsDssOf(f, d, names)  BY DssWrites
<1>2. n \in Nat /\ Fresh(f, 1) = n + 1 /\ Fresh(f, 2) = n + 2 /\ Fresh(f, 2) \in Nat \ {0}
      /\ Fresh(f, 1) \in Nat \ {0}
  BY Numbered, NumbersAreFresh
<1>3. IsVersion(c, f)  BY DssCatalogIs
<1>4. IsNew(r, n + 2) /\ IsPlain(r) /\ r.links = << >> /\ r.type = NoType  BY <1>2, ResponseIs
<1>5. IsNew(d, n + 1)  BY <1>1, <1>2 DEF IsDssOf
<1> HIDE DEF c, r
<1>6. AreVersions(f, << c, d, r >>, 2)  BY <1>3, <1>4, <1>5, RewritingAndTwoNew
<1>7. ToSet(a) = {c, d, r}  BY <1>1, ThreeObjects
<1> HIDE DEF a
<1>8. ToSet(g) = ToSet(f) \cup {c, d, r} /\ Continues(g, f) /\ Numbers(g) = 1 .. n + 2
  <2>1. AreVersions(f, a, 2)  BY <1>1, <1>6
  <2>2. ToSet(g) = ToSet(f) \cup ToSet(a) /\ Continues(g, f) /\ Numbers(g) = 1 .. n + 2
    BY <2>1, Grown
  <2> QED  BY <1>7, <2>2
<1>9. \A x \in ToSet(g) : x.id # NoReference  BY <1>8 DEF Continues, IsPdfObject, NoReference
<1>10. c.id \in 1..n /\ \A x \in ToSet(f) : x.id \in 1..n
  BY <1>3, VersionNumbers, FileFacts, Numbered
<1> HIDE DEF g
<1>11. \A x \in ToSet(g) : (x.id = n + 1 => x.type = "DSS") /\ (x.id = n + 2 => IsPlain(x))
  <2> TAKE x \in ToSet(g)
  <2>1. CASE x \in ToSet(f) \cup {c}
    <3>1. x.id \in 1..n  BY <1>10, <2>1
    <3> QED  BY <1>2, <3>1
  <2>2. CASE x = d  BY <1>1, <1>2, <1>5, <2>2 DEF IsDssOf, IsNew
  <2>3. CASE x = r  BY <1>2, <1>4, <2>3 DEF IsNew
  <2> QED  BY <1>8, <2>1, <2>2, <2>3
<1>12. IsLinked(c, g)
  <2>1. Fresh(f, 1) \in Numbers(g)  BY <1>2, <1>8
  <2> QED  BY <1>2, <1>8, <1>11, <2>1, CatalogWithDss DEF c
<1>13. IsLinked(d, g)
  <2> DEFINE ids == << Fresh(f, 2) >>
  <2>1. ToSet(ids) = {n + 2} /\ ToSet(<< >>) = {}  BY <1>2 DEF ToSet
  <2>2. d.links = [m \in {"OCSPs"} |-> ids] /\ d.type = "DSS"  BY <1>1 DEF IsDssOf
  <2> HIDE DEF ids
  <2>3. /\ References(d) = ToSet(ids) /\ RefsAfter(d, "OCSPs") = ids
        /\ \A m : m # "OCSPs" => RefsAfter(d, m) = << >>
    BY <2>2, OneLink
  <2>4. Evidence(d) = {n + 2}  BY <2>1, <2>3 DEF Evidence
  <2>5. References(d) \subseteq Numbers(g)  BY <1>2, <1>8, <2>1, <2>3
  <2> QED  BY <1>11, <2>2, <2>4, <2>5, OtherLinks
<1>14. IsLinked(r, g)
  <2>1. References(r) = {} /\ Evidence(r) = {}  BY <1>4, NoLinks
  <2> QED  BY <1>4, <2>1, OtherLinks DEF NoType
<1>15. AreVersions(f, a, 2) /\ \A o \in ToSet(a) : IsLinked(o, f \o a)
  BY <1>1, <1>6, <1>7, <1>12, <1>13, <1>14 DEF g
<1> QED  BY <1>15, GrownWell DEF a

\* Extending or renewing a DSS leaves a well-formed file.
LEMMA ExtensionKeeps ==
  ASSUME NEW f, IsWellFormed(f), HasDss(f), NEW kept \in Seq(Nat \ {0}),
         ToSet(kept) \subseteq ToSet(RefsAfter(DssOf(f), "OCSPs"))
  PROVE  IsWellFormed(f \o ExtendedDss(f, kept)) /\ IsVersion(ExtendedDss(f, kept)[1], f)
<1> DEFINE n == Cardinality(Numbers(f))
           q == DssOf(f)
           ids == Append(kept, Fresh(f, 1))
           d == WithRefs(q, "OCSPs", ids)
           r == Response(f, Fresh(f, 1))
           a == ExtendedDss(f, kept)
           g == f \o a
<1>1. a = << d, r >>  BY DEF ExtendedDss
<1>2. n \in Nat /\ Fresh(f, 1) = n + 1 /\ Fresh(f, 1) \in Nat \ {0}  BY Numbered, NumbersAreFresh
<1>3. q \in ToSet(f) /\ q.type = "DSS" /\ IsPdfObject(q) /\ "ModDate" \notin q.names /\ ~ IsPlain(q)
  BY DssIs, NotInformation DEF IsWellFormed
<1>4. ids \in Seq(Nat \ {0}) /\ ToSet(ids) = ToSet(kept) \cup {n + 1}
  BY <1>2, OneMoreReference
<1>5. IsNew(r, n + 1) /\ IsPlain(r) /\ r.links = << >> /\ r.type = NoType  BY <1>2, ResponseIs
<1>6. ToSet(kept) \subseteq Evidence(q) /\ Evidence(q) \subseteq References(q)
  BY <1>3, RefsAre DEF Evidence
<1> HIDE DEF q, ids, r
<1>7. IsVersion(d, f)  BY <1>3, <1>4, LinkingIsVersion
<1> HIDE DEF d
<1>8. AreVersions(f, << d, r >>, 1)  BY <1>5, <1>7, RewritingAndNew
<1>9. ToSet(a) = {d, r} /\ a[1] = d  BY <1>1, TwoObjects
<1> HIDE DEF a
<1>10. ToSet(g) = ToSet(f) \cup {d, r} /\ Continues(g, f) /\ Numbers(g) = 1 .. n + 1
  <2>1. AreVersions(f, a, 1)  BY <1>1, <1>8
  <2>2. ToSet(g) = ToSet(f) \cup ToSet(a) /\ Continues(g, f) /\ Numbers(g) = 1 .. n + 1
    BY <2>1, Grown
  <2> QED  BY <1>9, <2>2
<1>11. \A x \in ToSet(g) : x.id # NoReference  BY <1>10 DEF Continues, IsPdfObject, NoReference
<1>12. d.id \in 1..n /\ \A x \in ToSet(f) : x.id \in 1..n
  BY <1>7, VersionNumbers, FileFacts, Numbered
<1> HIDE DEF g
<1>13. \A x \in ToSet(g) : x.id = n + 1 => IsPlain(x)
  <2> TAKE x \in ToSet(g)
  <2>1. CASE x \in ToSet(f) \cup {d}
    <3>1. x.id \in 1..n  BY <1>12, <2>1
    <3> QED  BY <1>2, <3>1
  <2>2. CASE x = r  BY <1>5, <2>2
  <2> QED  BY <1>10, <2>1, <2>2
<1>14. IsLinked(q, g)  BY <1>3, <1>10, LinksStay
<1>15. IsLinked(d, g)
  <2>1. \A x \in ToSet(g) : x.id \in ToSet(ids) => IsPlain(x)
    BY <1>4, <1>6, <1>13, <1>14 DEF IsLinked
  <2>2. ToSet(ids) \subseteq Numbers(g)
    BY <1>2, <1>4, <1>6, <1>10, <1>14 DEF IsLinked
  <2> QED  BY <1>3, <1>4, <1>11, <1>14, <2>1, <2>2, NewLinks DEF d
<1>16. IsLinked(r, g)
  <2>1. References(r) = {} /\ Evidence(r) = {}  BY <1>5, NoLinks
  <2> QED  BY <1>5, <2>1, OtherLinks DEF NoType
<1>17. AreVersions(f, a, 1) /\ \A o \in ToSet(a) : IsLinked(o, f \o a)
  BY <1>1, <1>8, <1>9, <1>15, <1>16 DEF g
<1> QED  BY <1>7, <1>9, <1>17, GrownWell DEF a

\* Rewriting one object.
LEMMA RewritingKeeps ==
  ASSUME NEW f, IsWellFormed(f), NEW o, IsVersion(o, f), IsLinked(o, f \o << o >>)
  PROVE  IsWellFormed(f \o << o >>)
<1>1. AreVersions(f, << o >>, 0)  BY RewritingIsVersion
<1>2. ToSet(<< o >>) = {o}  BY OneObject
<1> DEFINE a == << o >>
<1>3. AreVersions(f, a, 0) /\ \A x \in ToSet(a) : IsLinked(x, f \o a)  BY <1>1, <1>2
<1> HIDE DEF a
<1>4. IsWellFormed(f \o a)  BY <1>3, GrownWell
<1> QED  BY <1>4 DEF a

\* An object whose references are left alone.
LEMMA RewordingKeeps ==
  ASSUME NEW f, IsWellFormed(f), NEW p \in ToSet(f), ~ IsPlain(p), NEW o, IsPdfObject(o),
         o.id = p.id, o.type = p.type, o.links = p.links, Alike(o, p), HasOneRole(o)
  PROVE  IsWellFormed(f \o << o >>) /\ IsVersion(o, f)
<1>1. IsVersion(o, f)  BY DEF IsVersion
<1>2. AreVersions(f, << o >>, 0)  BY <1>1, RewritingIsVersion
<1> DEFINE g == f \o << o >>
<1>3. Continues(g, f)  BY <1>2, Grown
<1> HIDE DEF g
<1>4. IsLinked(o, g)  BY <1>3, LinksStay, SameLinks
<1> QED  BY <1>1, <1>4, RewritingKeeps DEF g

\* The document information, rewritten.
NewInfo(f) == [Reworded(InfoOf(f)) EXCEPT !.packed = 0]

\* New document information leaves a well-formed file.
LEMMA MetadataKeeps ==
  ASSUME NEW f, IsWellFormed(f)
  PROVE  /\ IsWellFormed(f \o << NewInfo(f) >>) /\ IsVersion(NewInfo(f), f)
         /\ "ModDate" \in NewInfo(f).names /\ NewInfo(f).packed = 0
<1> DEFINE p == InfoOf(f)
           q == [p EXCEPT !.text = @ + 1]
           o == [q EXCEPT !.packed = 0]
<1>1. p \in ToSet(f) /\ "ModDate" \in p.names /\ IsPdfObject(p) /\ HasOneRole(p)
  BY InfoIs DEF IsWellFormed
<1>2. o = NewInfo(f)  BY DEF NewInfo, Reworded
<1> HIDE DEF p
<1>3. /\ IsPdfObject(o) /\ o.id = p.id /\ o.type = p.type /\ o.links = p.links /\ o.names = p.names
      /\ o.spaced = p.spaced /\ o.packed = 0
  <2>1. /\ IsPdfObject(q) /\ q.id = p.id /\ q.type = p.type /\ q.links = p.links
        /\ q.names = p.names /\ q.spaced = p.spaced
    BY <1>1 DEF IsPdfObject
  <2> HIDE DEF q
  <2> QED  BY <2>1 DEF IsPdfObject
<1> HIDE DEF o
<1>4. Alike(o, p)  BY <1>3 DEF Alike
<1>5. HasOneRole(o)
  BY <1>1, <1>3 DEF HasOneRole, RoleNames, Disallowed, HasAnyName, HasName
<1>6. ~ IsPlain(p)  BY <1>1 DEF IsPlain, RoleNames
<1> QED  BY <1>1, <1>2, <1>3, <1>4, <1>5, <1>6, RewordingKeeps

NewPage(f, packed) == [Reworded(PageOf(f)) EXCEPT !.packed = packed]

\* Another text of the page leaves a well-formed file.
LEMMA PageKeeps ==
  ASSUME NEW f, IsWellFormed(f), NEW packed \in Nat
  PROVE  IsWellFormed(f \o << NewPage(f, packed) >>) /\ IsVersion(NewPage(f, packed), f)
<1> DEFINE p == PageOf(f)
           q == [p EXCEPT !.text = @ + 1]
           o == [q EXCEPT !.packed = packed]
<1>1. p \in ToSet(f) /\ p.type = "Page" /\ IsPdfObject(p) /\ HasOneRole(p)
  BY PageIs DEF IsWellFormed
<1>2. o = NewPage(f, packed)  BY DEF NewPage, Reworded
<1> HIDE DEF p
<1>3. /\ IsPdfObject(o) /\ o.id = p.id /\ o.type = p.type /\ o.links = p.links /\ o.names = p.names
      /\ o.spaced = p.spaced /\ o.packed = packed
  <2>1. /\ IsPdfObject(q) /\ q.id = p.id /\ q.type = p.type /\ q.links = p.links
        /\ q.names = p.names /\ q.spaced = p.spaced
    BY <1>1 DEF IsPdfObject
  <2> HIDE DEF q
  <2> QED  BY <2>1 DEF IsPdfObject
<1> HIDE DEF o
<1>4. Alike(o, p)  BY <1>3 DEF Alike
<1>5. HasOneRole(o)
  BY <1>1, <1>3 DEF HasOneRole, RoleNames, Disallowed, HasAnyName, HasName
<1>6. ~ IsPlain(p)  BY <1>1 DEF IsPlain
<1> QED  BY <1>1, <1>2, <1>3, <1>4, <1>5, <1>6, RewordingKeeps

OpeningCatalog(f) == [CatalogOf(f) EXCEPT !.names = @ \cup {"OpenAction"}, !.packed = 0]

\* Another catalog leaves a well-formed file.
LEMMA CatalogKeeps ==
  ASSUME NEW f, IsWellFormed(f)
  PROVE  IsWellFormed(f \o << OpeningCatalog(f) >>) /\ IsVersion(OpeningCatalog(f), f)
<1> DEFINE p == CatalogOf(f)
           o == [p EXCEPT !.names = @ \cup {"OpenAction"}, !.packed = 0]
<1>1. p \in ToSet(f) /\ p.type = "Catalog" /\ IsPdfObject(p) /\ HasOneRole(p)
  BY CatalogIs DEF IsWellFormed
<1>2. o = OpeningCatalog(f)  BY DEF OpeningCatalog
<1>3. "ModDate" \notin p.names /\ ~ IsPlain(p)  BY <1>1, NotInformation
<1> HIDE DEF p
<1>4. /\ IsPdfObject(o) /\ o.id = p.id /\ o.type = p.type /\ o.links = p.links
      /\ o.names = p.names \cup {"OpenAction"}
  BY <1>1 DEF IsPdfObject
<1> HIDE DEF o
<1>5. Alike(o, p)  BY <1>4 DEF Alike, RoleNames
<1>6. HasOneRole(o)  BY <1>1, <1>3, <1>4 DEF HasOneRole, RoleNames
<1> QED  BY <1>1, <1>2, <1>3, <1>4, <1>5, <1>6, RewordingKeeps

ReasonedSignature(f) == [FirstSignature(f) EXCEPT !.names = @ \cup {"Reason"}]

\* Rewriting a dictionary leaves a well-formed file.
LEMMA DictionaryKeeps ==
  ASSUME NEW f, IsWellFormed(f), AllDictionaries(f) # {}
  PROVE  IsWellFormed(f \o << ReasonedSignature(f) >>) /\ IsVersion(ReasonedSignature(f), f)
<1> DEFINE p == FirstSignature(f)
           o == [p EXCEPT !.names = @ \cup {"Reason"}]
<1>1. p \in ToSet(f) /\ "ByteRange" \in p.names /\ IsPdfObject(p) /\ HasOneRole(p)
  BY FirstSignatureIs DEF IsWellFormed, IsDictionary
<1>2. o = ReasonedSignature(f)  BY DEF ReasonedSignature
<1>3. ~ IsPlain(p)  BY <1>1, NotInformation
<1> HIDE DEF p
<1>4. /\ IsPdfObject(o) /\ o.id = p.id /\ o.type = p.type /\ o.links = p.links
      /\ o.names = p.names \cup {"Reason"}
  BY <1>1 DEF IsPdfObject
<1> HIDE DEF o
<1>5. Alike(o, p)  BY <1>4 DEF Alike, RoleNames
<1>6. HasOneRole(o)  BY <1>1, <1>4 DEF HasOneRole, RoleNames
<1> QED  BY <1>1, <1>2, <1>3, <1>4, <1>5, <1>6, RewordingKeeps

\* A new object with the references of one in the file.
LEMMA CopyingKeeps ==
  ASSUME NEW f, IsWellFormed(f), NEW p \in ToSet(f), NEW o, IsNew(o, Fresh(f, 1)),
         o.type = p.type, o.links = p.links
  PROVE  IsWellFormed(f \o << o >>)
<1> DEFINE a == << o >>
           g == f \o a
<1>1. Fresh(f, 1) = Cardinality(Numbers(f)) + 1  BY NumbersAreFresh
<1>2. AreVersions(f, a, 1)  BY <1>1, NewIsVersion
<1>3. ToSet(a) = {o}  BY OneObject
<1> HIDE DEF a
<1>4. Continues(g, f)  BY <1>2, Grown
<1> HIDE DEF g
<1>5. IsLinked(o, g)  BY <1>4, LinksStay, SameLinks
<1>6. \A x \in ToSet(a) : IsLinked(x, f \o a)  BY <1>3, <1>5 DEF g
<1>7. IsWellFormed(f \o a)  BY <1>2, <1>6, GrownWell
<1> QED  BY <1>7 DEF a

CopiedSignature(f) == [FirstSignature(f) EXCEPT !.id = Fresh(f, 1)]

\* Copying a dictionary leaves a well-formed file.
LEMMA CopyKeeps ==
  ASSUME NEW f, IsWellFormed(f), AllDictionaries(f) # {}
  PROVE  IsWellFormed(f \o << CopiedSignature(f) >>) /\ IsNew(CopiedSignature(f), Fresh(f, 1))
<1> DEFINE p == FirstSignature(f)
           o == [p EXCEPT !.id = Fresh(f, 1)]
<1>1. p \in ToSet(f) /\ "ByteRange" \in p.names /\ IsPdfObject(p) /\ HasOneRole(p)
  BY FirstSignatureIs DEF IsWellFormed, IsDictionary
<1>2. o = CopiedSignature(f)  BY DEF CopiedSignature
<1>3. Fresh(f, 1) \in Nat \ {0}  BY NumbersAreFresh
<1> HIDE DEF p
<1>4. /\ IsPdfObject(o) /\ o.id = Fresh(f, 1) /\ o.type = p.type /\ o.links = p.links
      /\ o.names = p.names
  BY <1>1, <1>3 DEF IsPdfObject
<1> HIDE DEF o
<1>5. HasOneRole(o) /\ o.type # "Catalog"
  BY <1>1, <1>4 DEF HasOneRole, RoleNames, Disallowed, HasAnyName, HasName
<1>6. IsNew(o, Fresh(f, 1))  BY <1>4, <1>5 DEF IsNew
<1> QED  BY <1>1, <1>2, <1>4, <1>6, CopyingKeeps

\* What a new object with a fresh number is made of.
LEMMA FreshObject ==
  ASSUME NEW f, Fresh(f, 1) \in Nat \ {0}, NEW type, NEW names,
         NEW links, links \in [DOMAIN links -> Seq(Nat \ {0})]
  PROVE  LET s == New(Fresh(f, 1), type, names, links)
         IN  /\ IsPdfObject(s) /\ s.id = Fresh(f, 1) /\ s.type = type /\ s.names = names
             /\ s.links = links /\ s.packed = 0 /\ s.number = 0
BY NewObject

\* A field that is made its own child leaves a well-formed file.
LEMMA FieldLoopKeeps ==
  ASSUME NEW f, IsWellFormed(f), HasField(f)
  PROVE  LET o == WithRefs(FieldOf(f), "Kids", << FieldOf(f).id >>)
         IN  IsWellFormed(f \o << o >>) /\ IsVersion(o, f)
<1> DEFINE p == FieldOf(f)
           ids == << p.id >>
           o == WithRefs(p, "Kids", ids)
           g == f \o << o >>
<1>1. p \in ToSet(f) /\ "Sig" \in p.names /\ IsPdfObject(p) /\ HasOneRole(p)
  BY FieldIs DEF IsWellFormed
<1>2. "ModDate" \notin p.names /\ ~ IsPlain(p)  BY <1>1, NotInformation
<1> HIDE DEF p
<1>3. ids \in Seq(Nat \ {0}) /\ ToSet(ids) = {p.id}  BY <1>1 DEF IsPdfObject, ToSet
<1> HIDE DEF ids
<1>4. IsVersion(o, f)  BY <1>1, <1>2, <1>3, LinkingIsVersion
<1>5. Continues(g, f) /\ Numbers(g) = 1 .. Cardinality(Numbers(f)) + 0
  <2> HIDE DEF o
  <2>1. AreVersions(f, << o >>, 0)  BY <1>4, RewritingIsVersion
  <2> DEFINE a == << o >>
  <2>2. AreVersions(f, a, 0)  BY <2>1
  <2> HIDE DEF a
  <2>3. Continues(f \o a, f) /\ Numbers(f \o a) = 1 .. Cardinality(Numbers(f)) + 0  BY <2>2, Grown
  <2> QED  BY <2>3 DEF a
<1> HIDE DEF g
<1>6. ToSet(ids) \subseteq Numbers(g)
  <2>1. p.id \in Numbers(f)  BY <1>1, FileFacts
  <2> QED  BY <1>3, <1>5, <2>1, Numbered
<1>7. \A x \in ToSet(g) : x.id # NoReference  BY <1>5 DEF Continues, IsPdfObject, NoReference
<1>8. IsLinked(p, g)  BY <1>1, <1>5, LinksStay
<1>9. p.type # "Pages"  BY <1>1 DEF HasOneRole, NoType
<1>10. IsLinked(o, g)
  <2>1. IsPdfObject(p) /\ p.type # "Pages"  BY <1>1, <1>9
  <2>2. ids \in Seq(Nat \ {0})  BY <1>3
  <2> HIDE DEF o
  <2>4. IsLinked(WithRefs(p, "Kids", ids), g)  BY <1>6, <1>7, <1>8, <2>1, <2>2, NewLinks
  <2> QED  BY <2>4 DEF o
<1> HIDE DEF o
<1>11. IsWellFormed(f \o << o >>)  BY <1>4, <1>10, RewritingKeeps DEF g
<1> QED  BY <1>4, <1>11 DEF o, p, ids

IsOtherSignature(f, s) ==
  /\ IsNew(s, Fresh(f, 1)) /\ s.type = "Sig" /\ s.names = {"Contents"} /\ s.links = << >>
  /\ s.packed = 0 /\ s.number = 0

\* Another value for a field leaves a well-formed file.
LEMMA SwapKeeps ==
  ASSUME NEW f, IsWellFormed(f), HasField(f)
  PROVE  LET s == New(Fresh(f, 1), "Sig", {"Contents"}, << >>)
             o == WithRefs(FieldOf(f), "V", << Fresh(f, 1) >>)
         IN  IsWellFormed(f \o << s, o >>) /\ IsVersion(o, f) /\ IsOtherSignature(f, s)
<1> DEFINE none == << >>
           marks == {"Contents"}
           s == New(Fresh(f, 1), "Sig", marks, none)
           p == FieldOf(f)
           ids == << Fresh(f, 1) >>
           o == WithRefs(p, "V", ids)
           a == << s, o >>
           g == f \o a
<1>1. p \in ToSet(f) /\ "Sig" \in p.names /\ IsPdfObject(p) /\ HasOneRole(p)
  BY FieldIs DEF IsWellFormed
<1>2. "ModDate" \notin p.names /\ ~ IsPlain(p)  BY <1>1, NotInformation
<1>3. Fresh(f, 1) = Cardinality(Numbers(f)) + 1 /\ Fresh(f, 1) \in Nat \ {0}
      /\ Cardinality(Numbers(f)) \in Nat
  BY NumbersAreFresh, Numbered
<1>4. ids \in Seq(Nat \ {0}) /\ ToSet(ids) = {Fresh(f, 1)}  BY <1>3 DEF ToSet
<1>5. IsOtherSignature(f, s) /\ IsNew(s, Cardinality(Numbers(f)) + 1)
  <2>1. none \in [DOMAIN none -> Seq(Nat \ {0})] /\ DOMAIN none = {}  OBVIOUS
  <2> HIDE DEF none, marks, p, ids, o, a, g
  <2>2. /\ IsPdfObject(s) /\ s.id = Fresh(f, 1) /\ s.type = "Sig" /\ s.names = marks
        /\ s.links = none /\ s.packed = 0 /\ s.number = 0
    <3>1. Fresh(f, 1) \in Nat \ {0}  BY <1>3
    <3>2. none \in [DOMAIN none -> Seq(Nat \ {0})]  BY <2>1
    <3> DEFINE type == "Sig"
    <3> HIDE DEF type
    <3>3. LET t == New(Fresh(f, 1), type, marks, none)
          IN  /\ IsPdfObject(t) /\ t.id = Fresh(f, 1) /\ t.type = type /\ t.names = marks
              /\ t.links = none /\ t.packed = 0 /\ t.number = 0
      BY <3>1, <3>2, FreshObject
    <3> QED  BY <3>3 DEF s, type
  <2> HIDE DEF s
  <2>3. HasOneRole(s)  BY <2>1, <2>2 DEF HasOneRole, RoleNames, marks
  <2>4. IsNew(s, Fresh(f, 1))  BY <2>2, <2>3 DEF IsNew
  <2> QED  BY <1>3, <2>2, <2>4 DEF IsOtherSignature, none, marks
<1> HIDE DEF p, ids, s
<1>6. IsVersion(o, f)  BY <1>1, <1>2, <1>4, LinkingIsVersion
<1>7. AreVersions(f, a, 1)
  <2> HIDE DEF o
  <2> QED  BY <1>5, <1>6, RewritingAndNew
<1>8. ToSet(a) = {s, o}
  <2> HIDE DEF o
  <2> QED  BY TwoObjects
<1> HIDE DEF a
<1>9. Continues(g, f) /\ Numbers(g) = 1 .. Cardinality(Numbers(f)) + 1  BY <1>7, Grown
<1> HIDE DEF g
<1>10. IsLinked(s, g)
  <2>1. References(s) = {} /\ Evidence(s) = {}  BY <1>5, NoLinks DEF IsOtherSignature
  <2> QED  BY <1>5, <2>1, OtherLinks DEF IsOtherSignature
<1>11. IsLinked(o, g)
  <2>1. \A x \in ToSet(g) : x.id # NoReference  BY <1>9 DEF Continues, IsPdfObject, NoReference
  <2>2. IsLinked(p, g)  BY <1>1, <1>9, LinksStay
  <2>3. ToSet(ids) \subseteq Numbers(g)  BY <1>3, <1>4, <1>9
  <2> QED  BY <1>1, <1>4, <2>1, <2>2, <2>3, NewLinks
<1> HIDE DEF o
<1>12. \A x \in ToSet(a) : IsLinked(x, f \o a)  BY <1>8, <1>10, <1>11 DEF g
<1>13. IsWellFormed(f \o a)  BY <1>7, <1>12, GrownWell
<1> QED  BY <1>5, <1>6, <1>13 DEF a, s, o, p, ids, none, marks

\* A page more: the page tree and the new page.
LongerPages(f) ==
  [WithRefs(PagesOf(f), "Kids", Append(RefsAfter(PagesOf(f), "Kids"), Fresh(f, 1)))
     EXCEPT !.number = @ + 1]
SecondPage(f) == [PageOf(f) EXCEPT !.id = Fresh(f, 1), !.packed = 0]

\* A further page leaves a well-formed file.
LEMMA PagesKeep ==
  ASSUME NEW f, IsWellFormed(f)
  PROVE  /\ IsWellFormed(f \o << LongerPages(f), SecondPage(f) >>)
         /\ IsVersion(LongerPages(f), f) /\ IsNew(SecondPage(f), Fresh(f, 1))
<1> DEFINE n == Cardinality(Numbers(f))
           q == PagesOf(f)
           ids == Append(RefsAfter(q, "Kids"), Fresh(f, 1))
           w == WithRefs(q, "Kids", ids)
           o == [w EXCEPT !.number = @ + 1]
           p == PageOf(f)
           s == [p EXCEPT !.id = Fresh(f, 1), !.packed = 0]
           a == << o, s >>
           g == f \o a
<1>1. Fresh(f, 1) = n + 1 /\ Fresh(f, 1) \in Nat \ {0} /\ n \in Nat  BY NumbersAreFresh, Numbered
<1>2. q \in ToSet(f) /\ q.type = "Pages" /\ IsPdfObject(q) /\ IsLinked(q, f) /\ HasOneRole(q)
  BY PagesIs DEF IsWellFormed
<1>3. p \in ToSet(f) /\ p.type = "Page" /\ IsPdfObject(p) /\ HasOneRole(p)
  BY PageIs DEF IsWellFormed
<1>4. o = LongerPages(f) /\ s = SecondPage(f)  BY DEF LongerPages, SecondPage
<1>5. "ModDate" \notin q.names /\ ~ IsPlain(q)  BY <1>2, NotInformation
<1> HIDE DEF q, p
<1>6. RefsAfter(q, "Kids") \in Seq(Nat \ {0}) /\ RefsAfter(q, "Kids") # << >>
      /\ ToSet(RefsAfter(q, "Kids")) \subseteq References(q)
  BY <1>2, RefsAre DEF IsLinked
<1>7. /\ ids \in Seq(Nat \ {0}) /\ ToSet(ids) = ToSet(RefsAfter(q, "Kids")) \cup {n + 1}
      /\ ids # << >> /\ ids[1] = FirstRef(q, "Kids")
  BY <1>1, <1>6, OneMoreReference DEF FirstRef
<1> HIDE DEF ids
<1>8. IsVersion(w, f)  BY <1>2, <1>5, <1>7, LinkingIsVersion
<1>9. w.type = q.type /\ w.id = q.id /\ w.names = q.names  BY <1>2, <1>7, LinkedObject
<1>10. IsLinked(q, g) /\ Numbers(g) = 1 .. n + 1 /\ AreVersions(f, a, 1) /\ ToSet(a) = {o, s}
       /\ IsVersion(o, f) /\ IsNew(s, Fresh(f, 1)) /\ o.links = w.links /\ o.type = w.type
       /\ s.links = p.links /\ s.type = p.type /\ Continues(g, f)
  <2> HIDE DEF w
  <2>1. /\ IsPdfObject(o) /\ o.id = w.id /\ o.type = w.type /\ o.links = w.links
        /\ o.names = w.names
    BY <1>8 DEF IsVersion, IsPdfObject
  <2>2. IsVersion(o, f)
    <3>1. Alike(o, w)  BY <2>1 DEF Alike
    <3>2. HasOneRole(o)  BY <1>2, <1>5, <1>8, <1>9, <2>1 DEF HasOneRole, RoleNames, IsVersion
    <3> QED  BY <1>8, <2>1, <3>1, <3>2, AlikeIsTransitive DEF IsVersion
  <2>3. /\ IsPdfObject(s) /\ s.id = Fresh(f, 1) /\ s.type = p.type /\ s.links = p.links
        /\ s.names = p.names /\ s.spaced = p.spaced
    BY <1>1, <1>3 DEF IsPdfObject
  <2> HIDE DEF o, s
  <2>4. IsNew(s, Fresh(f, 1)) /\ IsNew(s, n + 1)
    <3>1. HasOneRole(s)
      BY <1>3, <2>3 DEF HasOneRole, RoleNames, Disallowed, HasAnyName, HasName
    <3> QED  BY <1>1, <1>3, <2>3, <3>1 DEF IsNew
  <2>5. AreVersions(f, a, 1)  BY <2>2, <2>4, RewritingAndNew
  <2>6. ToSet(a) = {o, s}  BY TwoObjects
  <2> HIDE DEF a
  <2>7. Continues(g, f) /\ Numbers(g) = 1 .. n + 1  BY <2>5, Grown
  <2>8. IsLinked(q, g)  BY <1>2, <2>7, LinksStay
  <2> QED  BY <2>1, <2>2, <2>3, <2>4, <2>5, <2>6, <2>7, <2>8
<1> HIDE DEF o, s, a
<1>11. \A x \in ToSet(g) : x.id # NoReference  BY <1>10 DEF Continues, IsPdfObject, NoReference
<1> HIDE DEF g
<1>12. IsLinked(o, g)
  <2>1. ToSet(ids) \subseteq Numbers(g)
    BY <1>1, <1>6, <1>7, <1>10 DEF IsLinked
  <2>2. \A x \in ToSet(g) : x.id = ids[1] => x.type = "Page"
    BY <1>2, <1>7, <1>10 DEF IsLinked
  <2>3. IsLinked(w, g)  BY <1>2, <1>7, <1>10, <1>11, <2>1, <2>2, NewLinks
  <2> QED  BY <1>10, <2>3, SameLinks
<1>13. IsLinked(s, g)  BY <1>3, <1>10, LinksStay, SameLinks
<1>14. \A x \in ToSet(a) : IsLinked(x, f \o a)  BY <1>10, <1>12, <1>13 DEF g
<1>15. IsWellFormed(f \o a)  BY <1>10, <1>14, GrownWell
<1> QED  BY <1>4, <1>10, <1>15 DEF a

-----------------------------------------------------------------------------
(* The body of what a page draws, rewritten and named by a new DSS.        *)

NewDrawing(f) == [DrawingOf(f) EXCEPT !.stream = @ + 1, !.packed = 0]
DrawingDss(f) == New(Fresh(f, 1), "DSS", {}, [Certs |-> << DrawingOf(f).id >>])

\* The rewritten drawing is a version of the drawing in which only the stream differs.
LEMMA NewDrawingIs ==
  ASSUME NEW f, IsWellFormed(f)
  PROVE  LET o == NewDrawing(f)
             p == DrawingOf(f)
         IN  /\ IsPdfObject(o) /\ o.id = p.id /\ o.type = p.type /\ o.links = p.links
             /\ o.names = p.names /\ o.packed = 0 /\ o.spaced = p.spaced
             /\ p \in ToSet(f) /\ p.type = "XObject" /\ IsPdfObject(p)
             /\ IsVersion(o, f)
<1> DEFINE p == DrawingOf(f)
           stream == p.stream + 1
           o == [p EXCEPT !.stream = stream, !.packed = 0]
<1>1. p \in ToSet(f) /\ p.type = "XObject" /\ IsPdfObject(p) /\ HasOneRole(p)
  BY DrawingIs DEF IsWellFormed
<1>2. o = NewDrawing(f)  BY DEF NewDrawing
<1>3. "ModDate" \notin p.names /\ ~ IsPlain(p)  BY <1>1, NotInformation
<1>4. stream \in Nat  BY <1>1 DEF IsPdfObject
<1> HIDE DEF p, stream
<1>5. /\ IsPdfObject(o) /\ o.id = p.id /\ o.type = p.type /\ o.links = p.links
      /\ o.names = p.names /\ o.packed = 0 /\ o.spaced = p.spaced
  BY <1>1, <1>4 DEF IsPdfObject
<1> HIDE DEF o
<1>6. Alike(o, p)  BY <1>5 DEF Alike
<1>7. HasOneRole(o)  BY <1>1, <1>3, <1>5 DEF HasOneRole, RoleNames
<1>8. IsVersion(o, f)  BY <1>1, <1>3, <1>5, <1>6, <1>7 DEF IsVersion
<1> QED  BY <1>1, <1>2, <1>5, <1>8 DEF p

\* A new object without names keeps the number, type and links it is given.
LEMMA NamelessObject ==
  ASSUME NEW id \in Nat \ {0}, NEW type,
         NEW links, links \in [DOMAIN links -> Seq(Nat \ {0})]
  PROVE  LET d == New(id, type, {}, links)
         IN  /\ IsPdfObject(d) /\ d.id = id /\ d.type = type /\ d.names = {}
             /\ d.links = links /\ d.packed = 0
BY NewObject

\* A single reference under one name is a function of links.
LEMMA OneReference ==
  ASSUME NEW name, NEW id \in Nat \ {0}
  PROVE  LET links == [n \in {name} |-> << id >>]
         IN  links \in [DOMAIN links -> Seq(Nat \ {0})] /\ DOMAIN links = {name}
<1> DEFINE ids == << id >>
<1>1. ids \in Seq(Nat \ {0})  OBVIOUS
<1> HIDE DEF ids
<1>2. [n \in {name} |-> ids] \in [{name} -> Seq(Nat \ {0})]  BY <1>1
<1> QED  BY <1>2 DEF ids

\* A new object without names that refers to others, as no form does.
LEMMA ReferringObject ==
  ASSUME NEW f, IsWellFormed(f), NEW type \in {"DSS", "Page"},
         NEW links, links \in [DOMAIN links -> Seq(Nat \ {0})], "Fields" \notin DOMAIN links
  PROVE  LET d == New(Fresh(f, 1), type, {}, links)
         IN  /\ IsNew(d, Fresh(f, 1)) /\ d.type = type /\ d.names = {} /\ d.packed = 0
             /\ d.links = links /\ d.id = Fresh(f, 1)
<1> DEFINE d == New(Fresh(f, 1), type, {}, links)
<1>1. Fresh(f, 1) \in Nat \ {0}  BY NumbersAreFresh
<1>2. /\ IsPdfObject(d) /\ d.id = Fresh(f, 1) /\ d.type = type /\ d.names = {}
      /\ d.links = links /\ d.packed = 0
  BY <1>1, NamelessObject
<1> HIDE DEF d
<1>3. HasOneRole(d)  BY <1>2 DEF HasOneRole, RoleNames
<1>4. d.type # "Catalog"  BY <1>2
<1> QED  BY <1>2, <1>3, <1>4 DEF IsNew, d

\* The security store of a "stream" edit is new and lists the drawing as a certificate.
LEMMA DrawingDssIs ==
  ASSUME NEW f, IsWellFormed(f)
  PROVE  LET d == DrawingDss(f)
         IN  /\ IsNew(d, Fresh(f, 1)) /\ d.type = "DSS" /\ d.names = {} /\ d.packed = 0
             /\ d.links = [n \in {"Certs"} |-> << DrawingOf(f).id >>]
<1> DEFINE id == DrawingOf(f).id
           links == [Certs |-> << id >>]
<1>1. id \in Nat \ {0}  BY DrawingIs DEF IsWellFormed, IsPdfObject
<1>2. links = [n \in {"Certs"} |-> << id >>]  OBVIOUS
<1>3. links \in [DOMAIN links -> Seq(Nat \ {0})] /\ "Fields" \notin DOMAIN links
  BY <1>1, <1>2, OneReference
<1> HIDE DEF id, links
<1>4. DrawingDss(f) = New(Fresh(f, 1), "DSS", {}, links)  BY DEF DrawingDss, id, links
<1>5. LET d == New(Fresh(f, 1), "DSS", {}, links)
      IN  /\ IsNew(d, Fresh(f, 1)) /\ d.type = "DSS" /\ d.names = {} /\ d.packed = 0
          /\ d.links = links
  BY <1>3, ReferringObject
<1> QED  BY <1>2, <1>4, <1>5 DEF id

\* A "stream" edit leaves a well-formed file well-formed.
LEMMA StreamKeeps ==
  ASSUME NEW f, IsWellFormed(f)
  PROVE  IsWellFormed(f \o << DssCatalog(f), DrawingDss(f), NewDrawing(f) >>)
<1> DEFINE n == Cardinality(Numbers(f))
           c == DssCatalog(f)
           d == DrawingDss(f)
           o == NewDrawing(f)
           p == DrawingOf(f)
           a == << c, d, o >>
           g == f \o a
<1>1. n \in Nat /\ Fresh(f, 1) = n + 1  BY Numbered, NumbersAreFresh
<1>2. IsVersion(c, f)  BY DssCatalogIs
<1>3. /\ IsNew(d, n + 1) /\ d.type = "DSS" /\ d.names = {} /\ d.packed = 0
      /\ d.links = [m \in {"Certs"} |-> << p.id >>]
  BY <1>1, DrawingDssIs
<1>4. /\ o.id = p.id /\ o.type = p.type /\ o.links = p.links /\ IsVersion(o, f)
      /\ p \in ToSet(f) /\ IsPdfObject(p)
  BY NewDrawingIs
<1>5. p.id \in Numbers(f)  BY <1>4, FileFacts
<1> HIDE DEF c, d, o, p
<1>6. AreVersions(f, << c, d, o >>, 1)  BY <1>2, <1>3, <1>4, TwoRewritingsAndNew
<1>7. ToSet(a) = {c, d, o}  BY ThreeObjects
<1>8. AreVersions(f, a, 1)  BY <1>6
<1> HIDE DEF a
<1>9. ToSet(g) = ToSet(f) \cup {c, d, o} /\ Continues(g, f) /\ Numbers(g) = 1 .. n + 1
  BY <1>7, <1>8, Grown
<1>10. c.id \in 1..n /\ o.id \in 1..n /\ \A x \in ToSet(f) : x.id \in 1..n
  BY <1>2, <1>4, VersionNumbers, FileFacts, Numbered
<1> HIDE DEF g
<1>11. \A x \in ToSet(g) : x.id = Fresh(f, 1) => x.type = "DSS"  BY <1>1, <1>3, <1>9, <1>10
<1>12. IsLinked(c, g)
  <2>1. Fresh(f, 1) \in Numbers(g)  BY <1>1, <1>9
  <2> QED  BY <1>9, <1>11, <2>1, CatalogWithDss DEF c
<1>13. IsLinked(d, g)
  <2> DEFINE ids == << p.id >>
  <2>1. ToSet(ids) = {p.id} /\ ToSet(<< >>) = {}  BY DEF ToSet
  <2>2. d.links = [m \in {"Certs"} |-> ids]  BY <1>3
  <2> HIDE DEF ids
  <2>3. /\ References(d) = ToSet(ids)
        /\ \A m : m # "Certs" => RefsAfter(d, m) = << >>
    BY <2>2, OneLink
  <2>4. Evidence(d) = {}  BY <2>1, <2>3 DEF Evidence
  <2>5. References(d) \subseteq Numbers(g)  BY <1>1, <1>5, <1>9, <2>1, <2>3, Numbered
  <2> QED  BY <1>3, <2>4, <2>5, OtherLinks
<1>14. IsLinked(o, g)
  <2>1. IsLinked(p, g)  BY <1>4, <1>9, LinksStay
  <2> QED  BY <1>4, <2>1, SameLinks
<1>15. \A x \in ToSet(a) : IsLinked(x, f \o a)  BY <1>7, <1>12, <1>13, <1>14 DEF g
<1>16. IsWellFormed(f \o a)  BY <1>8, <1>15, GrownWell
<1> QED  BY <1>16 DEF a, c, d, o

-----------------------------------------------------------------------------
(* The page tree, rewritten with a title and a new first page.             *)

NewPages(f) ==
  [WithRefs(PagesOf(f), "Kids", [RefsAfter(PagesOf(f), "Kids") EXCEPT ![1] = Fresh(f, 1)])
     EXCEPT !.names = @ \cup {"Title"}]
NewFirstPage(f) ==
  [New(Fresh(f, 1), "Page", {}, [XObject |-> << DrawingOf(f).id >>])
     EXCEPT !.spaced = PagesOf(f).spaced]

\* The page a "title" edit puts in place of the first one is new and shows the same drawing.
LEMMA NewFirstPageIs ==
  ASSUME NEW f, IsWellFormed(f)
  PROVE  LET s == NewFirstPage(f)
         IN  /\ IsNew(s, Fresh(f, 1)) /\ s.type = "Page" /\ s.names = {} /\ s.packed = 0
             /\ s.links = [n \in {"XObject"} |-> << DrawingOf(f).id >>]
<1> DEFINE id == DrawingOf(f).id
           links == [XObject |-> << id >>]
           d == New(Fresh(f, 1), "Page", {}, links)
           spaced == PagesOf(f).spaced
           s == [d EXCEPT !.spaced = spaced]
<1>1. id \in Nat \ {0}  BY DrawingIs DEF IsWellFormed, IsPdfObject
<1>2. links = [n \in {"XObject"} |-> << id >>]  OBVIOUS
<1>3. links \in [DOMAIN links -> Seq(Nat \ {0})] /\ "Fields" \notin DOMAIN links
  BY <1>1, <1>2, OneReference
<1> HIDE DEF id, links
<1>4. /\ IsNew(d, Fresh(f, 1)) /\ d.type = "Page" /\ d.names = {} /\ d.packed = 0
      /\ d.links = links
  BY <1>3, ReferringObject
<1>5. NewFirstPage(f) = s  BY DEF NewFirstPage, id, links
<1> HIDE DEF d, spaced
<1>6. /\ IsPdfObject(s) /\ s.id = d.id /\ s.type = d.type /\ s.names = d.names
      /\ s.packed = d.packed /\ s.links = d.links
  BY <1>4 DEF IsNew, IsPdfObject
<1> HIDE DEF s
<1>7. IsNew(s, Fresh(f, 1))  BY <1>4, <1>6 DEF IsNew, HasOneRole, RoleNames
<1> QED  BY <1>2, <1>4, <1>5, <1>6, <1>7 DEF id

\* The page tree of a "title" edit differs by its first page and the name /Title.
LEMMA NewPagesIs ==
  ASSUME NEW f, IsWellFormed(f)
  PROVE  LET o == NewPages(f)
             p == PagesOf(f)
             ids == [RefsAfter(p, "Kids") EXCEPT ![1] = Fresh(f, 1)]
             w == WithRefs(p, "Kids", ids)
         IN  /\ IsPdfObject(o) /\ IsVersion(o, f) /\ o.id = p.id /\ o.type = p.type
             /\ o.names = p.names \cup {"Title"} /\ o.packed = 0 /\ o.spaced = p.spaced
             /\ o.links = w.links /\ w.type = p.type
             /\ ids \in Seq(Nat \ {0}) /\ ids # << >> /\ ids[1] = Fresh(f, 1)
             /\ ToSet(ids) \subseteq ToSet(RefsAfter(p, "Kids")) \cup {Fresh(f, 1)}
             /\ p \in ToSet(f) /\ p.type = "Pages" /\ IsPdfObject(p)
<1> DEFINE p == PagesOf(f)
           kids == RefsAfter(p, "Kids")
           ids == [kids EXCEPT ![1] = Fresh(f, 1)]
           w == WithRefs(p, "Kids", ids)
           o == [w EXCEPT !.names = @ \cup {"Title"}]
<1>1. p \in ToSet(f) /\ p.type = "Pages" /\ IsPdfObject(p) /\ HasOneRole(p) /\ IsLinked(p, f)
  BY PagesIs DEF IsWellFormed
<1>2. o = NewPages(f)  BY DEF NewPages
<1>3. "ModDate" \notin p.names /\ ~ IsPlain(p)  BY <1>1, NotInformation
<1> HIDE DEF p
<1>4. kids \in Seq(Nat \ {0}) /\ kids # << >>  BY <1>1, RefsAre DEF IsLinked
<1>5. Fresh(f, 1) \in Nat \ {0}  BY NumbersAreFresh
<1> HIDE DEF kids
<1>6. /\ ids \in Seq(Nat \ {0}) /\ ids # << >> /\ ids[1] = Fresh(f, 1)
      /\ ToSet(ids) \subseteq ToSet(kids) \cup {Fresh(f, 1)}
  BY <1>4, <1>5 DEF ToSet
<1> HIDE DEF ids
<1>7. /\ IsPdfObject(w) /\ w.id = p.id /\ w.type = p.type /\ w.names = p.names /\ w.packed = 0
      /\ w.spaced = p.spaced /\ DOMAIN w.links = DOMAIN p.links \cup {"Kids"}
  BY <1>1, <1>6, LinkedObject
<1> HIDE DEF w
<1>8. /\ IsPdfObject(o) /\ o.id = w.id /\ o.type = w.type /\ o.links = w.links
      /\ o.names = w.names \cup {"Title"} /\ o.packed = 0 /\ o.spaced = w.spaced
  BY <1>7 DEF IsPdfObject
<1> HIDE DEF o
<1>9. Alike(o, p)  BY <1>7, <1>8 DEF Alike, RoleNames
<1>10. HasOneRole(o)  BY <1>1, <1>3, <1>7, <1>8 DEF HasOneRole, RoleNames
<1>11. IsVersion(o, f)  BY <1>1, <1>3, <1>7, <1>8, <1>9, <1>10 DEF IsVersion
<1> QED  BY <1>1, <1>2, <1>6, <1>7, <1>8, <1>11 DEF p, kids, ids, w

\* A "title" edit leaves a well-formed file well-formed.
LEMMA TitleKeeps ==
  ASSUME NEW f, IsWellFormed(f)
  PROVE  IsWellFormed(f \o << NewPages(f), NewFirstPage(f) >>)
<1> DEFINE n == Cardinality(Numbers(f))
           o == NewPages(f)
           s == NewFirstPage(f)
           p == PagesOf(f)
           q == DrawingOf(f)
           ids == [RefsAfter(p, "Kids") EXCEPT ![1] = Fresh(f, 1)]
           w == WithRefs(p, "Kids", ids)
           a == << o, s >>
           g == f \o a
<1>1. n \in Nat /\ Fresh(f, 1) = n + 1 /\ Numbers(f) = 1..n  BY Numbered, NumbersAreFresh
<1>2. /\ IsVersion(o, f) /\ o.type = w.type /\ o.links = w.links
      /\ ids \in Seq(Nat \ {0}) /\ ids # << >> /\ ids[1] = n + 1
      /\ ToSet(ids) \subseteq ToSet(RefsAfter(p, "Kids")) \cup {n + 1}
      /\ p \in ToSet(f) /\ p.type = "Pages" /\ IsPdfObject(p)
  BY <1>1, NewPagesIs
<1>3. /\ IsNew(s, n + 1) /\ s.type = "Page"
      /\ s.links = [m \in {"XObject"} |-> << q.id >>]
  BY <1>1, NewFirstPageIs
<1>4. q \in ToSet(f) /\ q.type = "XObject" /\ q.id \in Numbers(f)  BY DrawingIs, FileFacts
<1>5. ToSet(RefsAfter(p, "Kids")) \subseteq Numbers(f)
  BY <1>2, RefsAre DEF IsWellFormed, IsLinked
<1> HIDE DEF o, s, p, q, ids
<1>6. AreVersions(f, << o, s >>, 1)  BY <1>2, <1>3, RewritingAndNew
<1>7. ToSet(a) = {o, s}  BY TwoObjects
<1>8. AreVersions(f, a, 1)  BY <1>6
<1> HIDE DEF a
<1>9. ToSet(g) = ToSet(f) \cup {o, s} /\ Continues(g, f) /\ Numbers(g) = 1 .. n + 1
  BY <1>7, <1>8, Grown
<1>10. o.id \in 1..n /\ \A x \in ToSet(f) : x.id \in 1..n
  BY <1>2, VersionNumbers, FileFacts, Numbered
<1>11. \A x \in ToSet(g) : x.id # NoReference  BY <1>9 DEF Continues, IsPdfObject, NoReference
<1> HIDE DEF g
<1>12. \A x \in ToSet(g) : x.id = n + 1 => x.type = "Page"  BY <1>1, <1>3, <1>9, <1>10
<1>13. IsLinked(o, g)
  <2>1. ToSet(ids) \subseteq Numbers(g)  BY <1>1, <1>2, <1>5, <1>9
  <2>2. IsLinked(p, g)  BY <1>2, <1>9, LinksStay
  <2>3. IsLinked(WithRefs(p, "Kids", ids), g)  BY <1>2, <1>11, <1>12, <2>1, <2>2, NewLinks
  <2> QED  BY <1>2, <2>3, SameLinks DEF w
<1>14. IsLinked(s, g)
  <2> DEFINE refs == << q.id >>
  <2>1. ToSet(refs) = {q.id} /\ ToSet(<< >>) = {} /\ refs # << >> /\ refs[1] = q.id  BY DEF ToSet
  <2>2. s.links = [m \in {"XObject"} |-> refs]  BY <1>3
  <2> HIDE DEF refs
  <2>3. /\ References(s) = ToSet(refs) /\ RefsAfter(s, "XObject") = refs
        /\ \A m : m # "XObject" => RefsAfter(s, m) = << >>
    BY <2>2, OneLink
  <2>4. Evidence(s) = {} /\ FirstRef(s, "XObject") = q.id  BY <2>1, <2>3 DEF Evidence, FirstRef
  <2>5. References(s) \subseteq Numbers(g)  BY <1>1, <1>4, <1>9, <2>1, <2>3
  <2>6. ASSUME NEW x \in ToSet(g), x.id = q.id PROVE x.type = "XObject"
    <3>1. PICK y \in ToSet(f) : y.id = q.id /\ Alike(x, y)  BY <1>4, <1>9, <2>6 DEF Continues
    <3>2. Alike(y, q)  BY <1>4, <3>1 DEF IsWellFormed
    <3> QED  BY <1>4, <3>1, <3>2 DEF Alike
  <2> QED  BY <1>3, <2>1, <2>3, <2>4, <2>5, <2>6 DEF IsLinked
<1>15. \A x \in ToSet(a) : IsLinked(x, f \o a)  BY <1>7, <1>13, <1>14 DEF g
<1>16. IsWellFormed(f \o a)  BY <1>8, <1>15, GrownWell
<1> QED  BY <1>16 DEF a, o, s

-----------------------------------------------------------------------------
(* What an update appends, kind by kind.                                   *)

\* What each kind of update appends.
LEMMA AppendedIs ==
  ASSUME NEW f
  PROVE  /\ Appended(f, "sign") = SignatureObjects(f, "Sig", {})
         /\ Appended(f, "timestamp") = SignatureObjects(f, "DocTimeStamp", {"ETSI.RFC3161"})
         /\ Appended(f, "dss") = DssObjects(f, {})
         /\ Appended(f, "vri") = DssObjects(f, {"VRI"})
         /\ Appended(f, "extend") = ExtendedDss(f, RefsAfter(DssOf(f), "OCSPs"))
         /\ Appended(f, "renew") = ExtendedDss(f, << >>)
         /\ Appended(f, "metadata") = << NewInfo(f) >>
         /\ Appended(f, "page") = << NewPage(f, 0) >>
         /\ Appended(f, "packed") = << NewPage(f, 1) >>
         /\ Appended(f, "pages") = << LongerPages(f), SecondPage(f) >>
         /\ Appended(f, "stream") = << DssCatalog(f), DrawingDss(f), NewDrawing(f) >>
         /\ Appended(f, "title") = << NewPages(f), NewFirstPage(f) >>
         /\ Appended(f, "catalog") = << OpeningCatalog(f) >>
         /\ Appended(f, "dictionary") = << ReasonedSignature(f) >>
         /\ Appended(f, "copy") = << CopiedSignature(f) >>
         /\ Appended(f, "swap") = << New(Fresh(f, 1), "Sig", {"Contents"}, << >>),
                                     WithRefs(FieldOf(f), "V", << Fresh(f, 1) >>) >>
         /\ Appended(f, "loop") = << WithRefs(FieldOf(f), "Kids", << FieldOf(f).id >>) >>
BY DEF Appended, NewInfo, NewPage, LongerPages, SecondPage, OpeningCatalog, ReasonedSignature,
       CopiedSignature, DrawingDss, NewDrawing, NewPages, NewFirstPage

\* The updates there are, and what they find in the file.
IsSigning(kind) == kind \in {"sign", "timestamp"}
Kinds == {"sign", "timestamp", "dss", "vri", "extend", "renew", "metadata"} \cup
         {"page", "packed", "pages", "stream", "title", "catalog", "dictionary", "copy", "swap",
          "loop"}
CanAppend(f, kind) ==
  /\ kind \in Kinds
  /\ kind # "sign" => AllDictionaries(f) # {} /\ HasField(f)
  /\ kind \in {"extend", "renew"} => HasDss(f)

\* Everything appended is a version of something that is more than evidence, or new.
AreKept(f, a) ==
  /\ a \in Seq(ToSet(a)) /\ a # << >>
  /\ \A o \in ToSet(a) : IsPdfObject(o) /\ (IsVersion(o, f) \/ o.id \notin Numbers(f))

\* Every update leaves a well-formed file.
LEMMA AppendedKeeps ==
  ASSUME NEW f, IsWellFormed(f), NEW kind, CanAppend(f, kind)
  PROVE  IsWellFormed(f \o Appended(f, kind)) /\ AreKept(f, Appended(f, kind))
<1>1. ASSUME NEW o, IsVersion(o, f)
      PROVE  AreKept(f, << o >>)
  <2>1. << o >> \in Seq(ToSet(<< o >>)) /\ ToSet(<< o >>) = {o} /\ << o >> # << >>  BY OneObject
  <2> QED  BY <1>1, <2>1 DEF AreKept, IsVersion
<1>2. Fresh(f, 1) \notin Numbers(f) /\ Fresh(f, 2) \notin Numbers(f)  BY NumbersAreFresh
<1>3. CASE IsSigning(kind)
  <2>1. PICK type \in {"Sig", "DocTimeStamp"}, names \in SUBSET {"ETSI.RFC3161"} :
          Appended(f, kind) = SignatureObjects(f, type, names)
    BY <1>3, AppendedIs DEF IsSigning
  <2>2. PICK s, e :
           /\ SignatureObjects(f, type, names) = << s, e, WithField(f, Fresh(f, 2)) >>
           /\ IsSignatureOf(f, s, type, names) /\ IsFieldOf(f, e)
           /\ IsVersion(WithField(f, Fresh(f, 2)), f)
    BY SigningWrites
  <2> DEFINE o == WithField(f, Fresh(f, 2))
             a == << s, e, o >>
  <2>3. IsVersion(o, f)  BY <2>2
  <2> HIDE DEF o
  <2>4. a \in Seq(ToSet(a)) /\ ToSet(a) = {s, e, o} /\ a # << >>  BY ThreeObjects
  <2> HIDE DEF a
  <2>5. AreKept(f, a)
    BY <1>2, <2>2, <2>3, <2>4 DEF AreKept, IsVersion, IsSignatureOf, IsFieldOf, IsNew
  <2>6. Appended(f, kind) = a  BY <2>1, <2>2 DEF a, o
  <2>7. IsWellFormed(f \o Appended(f, kind))  BY <2>1, SigningKeeps
  <2> QED  BY <2>5, <2>6, <2>7
<1>4. CASE kind \in {"dss", "vri"}
  <2>1. PICK names : names \subseteq {"VRI"} /\ Appended(f, kind) = DssObjects(f, names)
    <3>1. {} \subseteq {"VRI"} /\ {"VRI"} \subseteq {"VRI"}  OBVIOUS
    <3>2. CASE kind = "dss"  BY <3>1, <3>2, AppendedIs, Zenon
    <3>3. CASE kind = "vri"  BY <3>1, <3>3, AppendedIs, Zenon
    <3> QED  BY <1>4, <3>2, <3>3
  <2>2. PICK d : /\ DssObjects(f, names) = << DssCatalog(f), d, Response(f, Fresh(f, 2)) >>
                 /\ IsDssOf(f, d, names)
    BY <2>1, DssWrites
  <2> DEFINE c == DssCatalog(f)
             r == Response(f, Fresh(f, 2))
             a == << c, d, r >>
  <2>3. IsVersion(c, f)  BY DssCatalogIs
  <2>4. Fresh(f, 2) \in Nat \ {0}  BY NumbersAreFresh
  <2>5. IsNew(r, Fresh(f, 2))  BY <2>4, ResponseIs
  <2> HIDE DEF c, r
  <2>6. a \in Seq(ToSet(a)) /\ ToSet(a) = {c, d, r} /\ a # << >>  BY ThreeObjects
  <2> HIDE DEF a
  <2>7. IsNew(d, Fresh(f, 1))  BY <2>2 DEF IsDssOf
  <2>8. AreKept(f, a)
    BY <1>2, <2>3, <2>5, <2>6, <2>7 DEF AreKept, IsVersion, IsNew
  <2>9. Appended(f, kind) = a  BY <2>1, <2>2 DEF a, c, r
  <2>10. IsWellFormed(f \o Appended(f, kind))  BY <2>1, DssKeeps
  <2> QED  BY <2>8, <2>9, <2>10
<1>5. CASE kind \in {"extend", "renew"}
  <2>1. HasDss(f)  BY <1>5 DEF CanAppend
  <2>2. PICK kept \in Seq(Nat \ {0}) :
          /\ Appended(f, kind) = ExtendedDss(f, kept)
          /\ ToSet(kept) \subseteq ToSet(RefsAfter(DssOf(f), "OCSPs"))
    <3>1. RefsAfter(DssOf(f), "OCSPs") \in Seq(Nat \ {0})
      BY <2>1, DssIs, RefsAre DEF IsWellFormed
    <3>2. << >> \in Seq(Nat \ {0}) /\ ToSet(<< >>) = {}  BY DEF ToSet
    <3>3. CASE kind = "extend"  BY <3>1, <3>3, AppendedIs
    <3>4. CASE kind = "renew"  BY <3>2, <3>4, AppendedIs
    <3> QED  BY <1>5, <3>3, <3>4
  <2>3. IsWellFormed(f \o ExtendedDss(f, kept)) /\ IsVersion(ExtendedDss(f, kept)[1], f)
    BY <2>1, <2>2, ExtensionKeeps
  <2> DEFINE d == WithRefs(DssOf(f), "OCSPs", Append(kept, Fresh(f, 1)))
             r == Response(f, Fresh(f, 1))
             a == << d, r >>
  <2>4. ExtendedDss(f, kept) = a  BY DEF ExtendedDss
  <2>5. IsNew(r, Fresh(f, 1))  BY NumbersAreFresh, ResponseIs
  <2> HIDE DEF d, r
  <2>6. a \in Seq(ToSet(a)) /\ ToSet(a) = {d, r} /\ a # << >> /\ a[1] = d  BY TwoObjects
  <2> HIDE DEF a
  <2>7. AreKept(f, a)
    BY <1>2, <2>3, <2>4, <2>5, <2>6 DEF AreKept, IsVersion, IsNew
  <2> QED  BY <2>2, <2>3, <2>4, <2>7
<1>6. CASE kind = "metadata"  BY <1>1, <1>6, AppendedIs, MetadataKeeps
<1>7. CASE kind = "page"  BY <1>1, <1>7, AppendedIs, PageKeeps
<1>8. CASE kind = "packed"  BY <1>1, <1>8, AppendedIs, PageKeeps
<1>9. CASE kind = "catalog"  BY <1>1, <1>9, AppendedIs, CatalogKeeps
<1>10. CASE kind = "dictionary"  BY <1>1, <1>10, AppendedIs, DictionaryKeeps DEF CanAppend
<1>11. CASE kind = "loop"  BY <1>1, <1>11, AppendedIs, FieldLoopKeeps DEF CanAppend
<1>12. CASE kind = "copy"
  <2> DEFINE o == CopiedSignature(f)
  <2>1. IsNew(o, Fresh(f, 1)) /\ IsWellFormed(f \o << o >>)  BY <1>12, CopyKeeps DEF CanAppend
  <2> HIDE DEF o
  <2>2. << o >> \in Seq(ToSet(<< o >>)) /\ ToSet(<< o >>) = {o} /\ << o >> # << >>  BY OneObject
  <2>3. AreKept(f, << o >>)  BY <1>2, <2>1, <2>2 DEF AreKept, IsNew
  <2> QED  BY <1>12, <2>1, <2>3, AppendedIs DEF o
<1>13. ASSUME NEW s, NEW o, IsNew(s, Fresh(f, 1)), IsVersion(o, f)
       PROVE  AreKept(f, << s, o >>) /\ AreKept(f, << o, s >>)
  <2>1. << s, o >> \in Seq(ToSet(<< s, o >>)) /\ ToSet(<< s, o >>) = {s, o} /\ << s, o >> # << >>
    BY TwoObjects
  <2>2. << o, s >> \in Seq(ToSet(<< o, s >>)) /\ ToSet(<< o, s >>) = {s, o} /\ << o, s >> # << >>
    BY TwoObjects
  <2> QED  BY <1>2, <1>13, <2>1, <2>2 DEF AreKept, IsNew, IsVersion
<1>14. CASE kind = "pages"  BY <1>13, <1>14, AppendedIs, PagesKeep
<1>15. CASE kind = "swap"
  <2> DEFINE s == New(Fresh(f, 1), "Sig", {"Contents"}, << >>)
             o == WithRefs(FieldOf(f), "V", << Fresh(f, 1) >>)
  <2>1. IsWellFormed(f \o << s, o >>) /\ IsVersion(o, f) /\ IsNew(s, Fresh(f, 1))
    BY <1>15, SwapKeeps DEF CanAppend, IsOtherSignature
  <2>2. Appended(f, kind) = << s, o >>  BY <1>15, AppendedIs
  <2> HIDE DEF s, o
  <2> QED  BY <1>13, <2>1, <2>2
<1>16. CASE kind = "stream"
  <2> DEFINE c == DssCatalog(f)
             d == DrawingDss(f)
             o == NewDrawing(f)
             a == << c, d, o >>
  <2>1. IsVersion(c, f) /\ IsVersion(o, f) /\ IsNew(d, Fresh(f, 1))
    BY DssCatalogIs, NewDrawingIs, DrawingDssIs
  <2>2. Appended(f, kind) = a /\ IsWellFormed(f \o a)  BY <1>16, AppendedIs, StreamKeeps
  <2> HIDE DEF c, d, o
  <2>3. a \in Seq(ToSet(a)) /\ ToSet(a) = {c, d, o} /\ a # << >>  BY ThreeObjects
  <2> HIDE DEF a
  <2>4. AreKept(f, a)  BY <1>2, <2>1, <2>3 DEF AreKept, IsVersion, IsNew
  <2> QED  BY <2>2, <2>4
<1>17. CASE kind = "title"
  <2>1. IsVersion(NewPages(f), f) /\ IsNew(NewFirstPage(f), Fresh(f, 1))
    BY NewPagesIs, NewFirstPageIs
  <2>2. Appended(f, kind) = << NewPages(f), NewFirstPage(f) >>  BY <1>17, AppendedIs
  <2> QED  BY <1>13, <2>1, <2>2, TitleKeeps
<1> QED
  BY <1>3, <1>4, <1>5, <1>6, <1>7, <1>8, <1>9, <1>10, <1>11, <1>12, <1>14, <1>15, <1>16, <1>17
  DEF CanAppend, Kinds, IsSigning

\* What is not written again remains the version in force.
LEMMA LatestStays ==
  ASSUME NEW f, NEW a, f \in Seq(ToSet(f)), a \in Seq(ToSet(a)), NEW id,
         Holds(Direct(f), id), \A o \in ToSet(a) : o.id # id
  PROVE  Holds(Direct(f \o a), id) /\ Latest(Direct(f \o a), id) = Latest(Direct(f), id)
<1> DEFINE S == ToSet(f) \cup ToSet(a)
           g == f \o a
           s == Direct(f)
           t == Direct(g)
<1>1. f \in Seq(S) /\ a \in Seq(S)
  <2>1. ToSet(f) \subseteq S /\ ToSet(a) \subseteq S  OBVIOUS
  <2> HIDE DEF S
  <2> QED  BY <2>1
<1>2. /\ g \in Seq(S) /\ Len(f) \in Nat /\ Len(a) \in Nat
      /\ DOMAIN f = 1..Len(f) /\ DOMAIN g = 1..Len(f) + Len(a)
      /\ \A i \in 1..Len(f) : g[i] = f[i]
      /\ \A m \in 1..Len(a) : g[Len(f) + m] = a[m]
  BY <1>1, Concatenated
<1> HIDE DEF g, S
<1>3. /\ IsPart(s) /\ IsPart(t)
      /\ DOMAIN s = {i \in DOMAIN f : IsDirect(f[i])} /\ DOMAIN t = {i \in DOMAIN g : IsDirect(g[i])}
      /\ \A i \in DOMAIN s : s[i] = f[i] /\ \A j \in DOMAIN t : t[j] = g[j]
  BY <1>1, <1>2, SequencesAreParts
<1> HIDE DEF s, t
<1>4. Holds(s, id)  BY DEF s
<1>5. PICK i \in DOMAIN s : /\ Latest(s, id) = s[i] /\ s[i].id = id
                            /\ \A j \in DOMAIN s : s[j].id = id => j <= i
  BY <1>3, <1>4, LatestIs
<1>6. i \in DOMAIN t /\ t[i] = s[i]
  <2>1. i \in DOMAIN f /\ IsDirect(f[i]) /\ s[i] = f[i]  BY <1>3
  <2>2. i \in DOMAIN g /\ g[i] = f[i]  BY <1>2, <2>1
  <2>3. i \in DOMAIN t  BY <1>3, <2>1, <2>2
  <2>4. t[i] = g[i]  BY <1>3, <2>3
  <2> QED  BY <2>1, <2>2, <2>3, <2>4
<1>7. ASSUME NEW j \in DOMAIN t, t[j].id = id PROVE j <= i
  <2>1. j \in DOMAIN g /\ IsDirect(g[j]) /\ t[j] = g[j]  BY <1>3
  <2>2. CASE j <= Len(f)
    <3>1. j \in 1..Len(f) /\ g[j] = f[j]  BY <1>2, <2>1, <2>2
    <3>2. j \in DOMAIN s  BY <1>2, <1>3, <2>1, <3>1
    <3>3. s[j] = f[j]  BY <1>3, <3>2
    <3> QED  BY <1>5, <1>7, <2>1, <3>1, <3>2, <3>3
  <2>3. CASE ~ (j <= Len(f))
    <3>1. j - Len(f) \in 1..Len(a) /\ j = Len(f) + (j - Len(f))  BY <1>2, <2>1, <2>3
    <3>2. g[j] = a[j - Len(f)] /\ a[j - Len(f)] \in ToSet(a)  BY <1>2, <3>1 DEF ToSet
    <3> QED  BY <1>7, <2>1, <3>2
  <2> QED  BY <2>2, <2>3
<1>8. t[i].id = id  BY <1>5, <1>6
<1>9. Latest(t, id) = t[i]  BY <1>3, <1>6, <1>7, <1>8, LatestAt
<1>10. Holds(t, id)  BY <1>6, <1>8 DEF Holds
<1> QED  BY <1>5, <1>6, <1>9, <1>10 DEF t, s, g

\* Only a list of evidence refers to evidence, so nobody writes it again.
LEMMA EvidenceKept ==
  ASSUME NEW f, IsWellFormed(f), NEW a, AreKept(f, a)
  PROVE  EmbeddedOcsp(f) \subseteq EmbeddedOcsp(f \o a)
<1> SUFFICES ASSUME NEW value \in EmbeddedOcsp(f) PROVE value \in EmbeddedOcsp(f \o a)
  OBVIOUS
<1> DEFINE g == f \o a
<1>1. f \in Seq(ToSet(f)) /\ a \in Seq(ToSet(a))  BY FileFacts DEF AreKept
<1>2. ToSet(f) \subseteq ToSet(g)
  <2> DEFINE S == ToSet(f) \cup ToSet(a)
  <2>1. ToSet(f) \subseteq S /\ ToSet(a) \subseteq S  OBVIOUS
  <2> HIDE DEF S
  <2>2. f \in Seq(S) /\ a \in Seq(S)  BY <1>1, <2>1
  <2> QED  BY <2>2, Concatenated
<1>3. PICK id \in UNION {ToSet(RefsAfter(o, "OCSPs")) \cup ToSet(RefsAfter(o, "OCSP")) :
                           o \in EvidenceObjects(f)} :
        Holds(Direct(f), id) /\ value = BinaryValue(Latest(Direct(f), id))
  BY DEF EmbeddedOcsp
<1>4. PICK e \in EvidenceObjects(f) :
        id \in ToSet(RefsAfter(e, "OCSPs")) \cup ToSet(RefsAfter(e, "OCSP"))
  OBVIOUS
<1>5. e \in ToSet(f) /\ id \in Evidence(e) /\ e \in EvidenceObjects(g)
  BY <1>2, <1>4 DEF EvidenceObjects, Evidence
<1>6. IsPdfObject(e) /\ IsLinked(e, f)  BY <1>5 DEF IsWellFormed
<1>7. id \in Numbers(f)
  <2>1. Evidence(e) \subseteq References(e)  BY <1>6, RefsAre DEF Evidence
  <2> QED  BY <1>5, <1>6, <2>1 DEF IsLinked
<1>8. \A o \in ToSet(a) : o.id # id
  <2> SUFFICES ASSUME NEW o \in ToSet(a), o.id = id PROVE FALSE
    OBVIOUS
  <2>1. IsVersion(o, f)  BY <1>7 DEF AreKept
  <2>2. PICK p \in ToSet(f) : p.id = id /\ ~ IsPlain(p)  BY <2>1 DEF IsVersion
  <2>3. IsPlain(p)  BY <1>5, <1>6, <2>2 DEF IsLinked
  <2> QED  BY <2>2, <2>3
<1>9. Holds(Direct(g), id) /\ Latest(Direct(g), id) = Latest(Direct(f), id)
  BY <1>1, <1>3, <1>8, LatestStays
<1> HIDE DEF g
<1>10. id \in UNION {ToSet(RefsAfter(o, "OCSPs")) \cup ToSet(RefsAfter(o, "OCSP")) :
                       o \in EvidenceObjects(g)}
  BY <1>4, <1>5
<1>11. value = BinaryValue(Latest(Direct(g), id))  BY <1>3, <1>9
<1>12. value \in EmbeddedOcsp(g)  BY <1>9, <1>10, <1>11 DEF EmbeddedOcsp
<1> QED  BY <1>12 DEF g

-----------------------------------------------------------------------------
(* The objects an update appends are new, versions or copies.              *)

\* But for what it refers to after one name, o is what p was.
IsChanged(o, p, name) ==
  /\ IsPdfObject(o) /\ Alike(o, p)
  /\ \A n : n # name => RefsAfter(o, n) = RefsAfter(p, n)

IsNewOne(f, kind, o) ==
  /\ IsPdfObject(o) /\ o.id \notin Numbers(f) /\ o.type \notin {"Catalog", "Pages"} /\ o.packed = 0
  /\ \/ /\ IsSigning(kind) /\ "Sig" \notin o.names /\ o.links = << >>
        /\ o.number = Len(f) + 3 /\ o.text = Len(f) /\ o.id = Fresh(f, 1)
        /\ o.type \in {"Sig", "DocTimeStamp"}
     \/ IsSigning(kind) /\ IsFieldOf(f, o) /\ "ByteRange" \notin o.names
     \/ kind \in {"dss", "vri"} /\ o.names \cap RoleNames = {} /\ \E names \in SUBSET {"VRI"} : IsDssOf(f, o, names)
     \/ /\ kind \in {"dss", "vri", "extend", "renew"}
        /\ o.names = {} /\ o.links = << >> /\ o.type = NoType
     \/ kind = "stream" /\ o.names = {} /\ o.type = "DSS" /\ DOMAIN o.links = {"Certs"}
     \/ kind = "title" /\ o.names = {} /\ o.type = "Page" /\ DOMAIN o.links = {"XObject"}
     \/ kind = "swap" /\ o.names \cap RoleNames = {} /\ o.links = << >> /\ o.type = "Sig"

IsVersionOf(f, kind, o, p) ==
  /\ o.id = p.id
  /\ \/ /\ IsSigning(kind) /\ IsChanged(o, p, "Fields") /\ "Fields" \in DOMAIN p.links
        /\ o.packed = 0
     \/ /\ kind \in {"dss", "vri", "stream"} /\ IsChanged(o, p, "DSS") /\ p = CatalogOf(f)
        /\ o = DssCatalog(f) /\ o.packed = 0
     \/ /\ kind \in {"extend", "renew"} /\ IsChanged(o, p, "OCSPs") /\ p.type = "DSS"
        /\ o.names = p.names /\ o.packed = 0 /\ DOMAIN o.links = DOMAIN p.links \cup {"OCSPs"}
     \/ kind = "metadata" /\ IsChanged(o, p, "OCSPs") /\ "ModDate" \in p.names
     \/ kind \in {"page", "packed"} /\ IsChanged(o, p, "OCSPs") /\ p.type = "Page"
     \/ /\ kind = "pages" /\ IsChanged(o, p, "Kids") /\ p.type = "Pages"
        /\ RefsAfter(o, "Kids") = Append(RefsAfter(p, "Kids"), Fresh(f, 1))
     \/ kind = "stream" /\ IsChanged(o, p, "OCSPs") /\ p.type = "XObject"
     \/ /\ kind = "title" /\ IsChanged(o, p, "Kids") /\ p.type = "Pages"
        /\ Kids(o) \subseteq Kids(p) \cup {Fresh(f, 1)}
     \/ kind = "catalog" /\ IsChanged(o, p, "OCSPs") /\ p.type = "Catalog" /\ o.packed = 0
     \/ /\ kind = "dictionary" /\ IsChanged(o, p, "OCSPs") /\ IsDictionary(p)
        /\ SameData(o, p) /\ o.packed = 0
     \/ /\ kind = "swap" /\ IsChanged(o, p, "V") /\ "Sig" \in p.names
        /\ RefsAfter(o, "V") = << Fresh(f, 1) >>
     \/ kind = "loop" /\ IsChanged(o, p, "Kids") /\ "Sig" \in p.names

IsCopyOf(f, kind, o, p) ==
  /\ o.id \notin Numbers(f) /\ IsChanged(o, p, "OCSPs") /\ RefsAfter(o, "OCSPs") = RefsAfter(p, "OCSPs")
  /\ \/ kind = "pages" /\ p.type = "Page"
     \/ kind = "copy" /\ IsDictionary(p) /\ SameData(o, p) /\ o.packed = 0

IsOneOf(f, kind, o) ==
  \/ IsNewOne(f, kind, o)
  \/ \E p \in ToSet(f) : IsVersionOf(f, kind, o, p) \/ IsCopyOf(f, kind, o, p)

\* Other references after one name change nothing else.
LEMMA LinkingChanges ==
  ASSUME NEW p, IsPdfObject(p), NEW name, NEW ids \in Seq(Nat \ {0}),
         name = "Fields" => "Fields" \in DOMAIN p.links
  PROVE  /\ IsChanged(WithRefs(p, name, ids), p, name) /\ RefsAfter(WithRefs(p, name, ids), name) = ids
         /\ WithRefs(p, name, ids).id = p.id /\ WithRefs(p, name, ids).packed = 0
<1> DEFINE o == WithRefs(p, name, ids)
<1>1. /\ IsPdfObject(o) /\ o.id = p.id /\ o.type = p.type /\ o.names = p.names /\ o.packed = 0
      /\ DOMAIN o.links = DOMAIN p.links \cup {name}
  BY LinkedObject
<1>2. RefsAfter(o, name) = ids /\ \A n : n # name => RefsAfter(o, n) = RefsAfter(p, n)
  BY LinkedReferences
<1> HIDE DEF o
<1>3. IsChanged(o, p, name) /\ RefsAfter(o, name) = ids /\ o.id = p.id /\ o.packed = 0
  BY <1>1, <1>2 DEF IsChanged, Alike
<1> QED  BY <1>3 DEF o

\* An object with the same links and the same role refers to the same.
LEMMA SameLinksChange ==
  ASSUME NEW p, NEW o, IsPdfObject(o), o.type = p.type, o.links = p.links,
         \A name \in RoleNames : name \in o.names <=> name \in p.names
  PROVE  IsChanged(o, p, "OCSPs") /\ \A n : RefsAfter(o, n) = RefsAfter(p, n)
BY DEF IsChanged, Alike, RefsAfter

\* What signing appends is new or lists the field.
LEMMA SigningForms ==
  ASSUME NEW f, IsWellFormed(f), NEW kind, IsSigning(kind), NEW o \in ToSet(Appended(f, kind))
  PROVE  IsOneOf(f, kind, o)
<1>1. PICK type \in {"Sig", "DocTimeStamp"}, names \in SUBSET {"ETSI.RFC3161"} :
        Appended(f, kind) = SignatureObjects(f, type, names)
  BY AppendedIs DEF IsSigning
<1> DEFINE w == WithField(f, Fresh(f, 2))
<1>2. PICK s, e : /\ SignatureObjects(f, type, names) = << s, e, w >>
                  /\ IsSignatureOf(f, s, type, names) /\ IsFieldOf(f, e)
  BY SigningWrites
<1>3. Fresh(f, 1) \notin Numbers(f) /\ Fresh(f, 2) \notin Numbers(f)  BY NumbersAreFresh
<1>4. IsNewOne(f, kind, s)
  BY <1>2, <1>3 DEF IsSignatureOf, IsNewOne, IsNew
<1>5. IsNewOne(f, kind, e)
  BY <1>2, <1>3 DEF IsFieldOf, IsNewOne, IsNew, NoType
<1>6. IsVersionOf(f, kind, w, FormOf(f)) /\ FormOf(f) \in ToSet(f)
  <2> DEFINE p == FormOf(f)
             ids == Append(RefsAfter(p, "Fields"), Fresh(f, 2))
  <2>1. p \in ToSet(f) /\ "Fields" \in DOMAIN p.links /\ IsPdfObject(p)  BY FormIs DEF IsWellFormed
  <2>2. ids \in Seq(Nat \ {0})
    <3>1. Fresh(f, 2) \in Nat \ {0}  BY NumbersAreFresh
    <3>2. RefsAfter(p, "Fields") \in Seq(Nat \ {0})  BY <2>1, RefsAre
    <3> QED  BY <3>1, <3>2
  <2> HIDE DEF p, ids
  <2>3. /\ IsChanged(WithRefs(p, "Fields", ids), p, "Fields")
        /\ WithRefs(p, "Fields", ids).id = p.id /\ WithRefs(p, "Fields", ids).packed = 0
    BY <2>1, <2>2, LinkingChanges
  <2>4. w = WithRefs(p, "Fields", ids)  BY DEF WithField, p, ids
  <2> HIDE DEF w
  <2> QED  BY <2>1, <2>3, <2>4 DEF IsVersionOf, p
<1> HIDE DEF w
<1>7. ToSet(Appended(f, kind)) = {s, e, w}  BY <1>1, <1>2, ThreeObjects
<1> QED  BY <1>4, <1>5, <1>6, <1>7 DEF IsOneOf

\* A catalog that names a new security store is a changed version of the catalog.
LEMMA DssCatalogChanges ==
  ASSUME NEW f, IsWellFormed(f)
  PROVE  /\ IsChanged(DssCatalog(f), CatalogOf(f), "DSS") /\ DssCatalog(f).packed = 0
         /\ DssCatalog(f).id = CatalogOf(f).id /\ CatalogOf(f) \in ToSet(f)
<1> DEFINE c == DssCatalog(f)
           q == CatalogOf(f)
           ids == << Fresh(f, 1) >>
           p == WithRefs(q, "DSS", ids)
<1>1. q \in ToSet(f) /\ q.type = "Catalog" /\ IsPdfObject(q)  BY CatalogIs DEF IsWellFormed
<1>2. ids \in Seq(Nat \ {0})  BY NumbersAreFresh
<1>3. /\ IsPdfObject(c) /\ c.id = q.id /\ c.type = "Catalog" /\ c.packed = 0
      /\ c.names = q.names \cup {"Extensions"} /\ c.links = p.links
  BY DssCatalogIs
<1> HIDE DEF q, ids, c
<1>4. IsChanged(p, q, "DSS")  BY <1>1, <1>2, LinkingChanges
<1> HIDE DEF p
<1>5. \A n : RefsAfter(c, n) = RefsAfter(p, n)  BY <1>3 DEF RefsAfter
<1>6. IsChanged(c, q, "DSS")
  BY <1>1, <1>3, <1>4, <1>5 DEF IsChanged, Alike, RoleNames
<1> QED  BY <1>1, <1>3, <1>6 DEF c, q

\* What updates of validation data append.
LEMMA EvidenceForms ==
  ASSUME NEW f, IsWellFormed(f), NEW kind, kind \in {"dss", "vri", "extend", "renew"},
         CanAppend(f, kind), NEW o \in ToSet(Appended(f, kind))
  PROVE  IsOneOf(f, kind, o)
<1>1. Fresh(f, 1) \in Nat \ {0} /\ Fresh(f, 2) \in Nat \ {0}
      /\ Fresh(f, 1) \notin Numbers(f) /\ Fresh(f, 2) \notin Numbers(f)
  BY NumbersAreFresh
<1>2. ASSUME NEW k \in {1, 2} PROVE IsNewOne(f, kind, Response(f, Fresh(f, k)))
  <2> DEFINE r == Response(f, Fresh(f, k))
  <2>1. Fresh(f, k) \in Nat \ {0} /\ Fresh(f, k) \notin Numbers(f)  BY <1>1
  <2>2. IsNew(r, Fresh(f, k)) /\ r.names = {} /\ r.links = << >> /\ r.packed = 0 /\ r.type = NoType
    BY <2>1, ResponseIs
  <2> HIDE DEF r
  <2>3. IsNewOne(f, kind, r)  BY <2>1, <2>2 DEF IsNewOne, IsNew, NoType
  <2> QED  BY <2>3 DEF r
<1>3. CASE kind \in {"dss", "vri"}
  <2>1. PICK names : names \subseteq {"VRI"} /\ Appended(f, kind) = DssObjects(f, names)
    <3>1. {} \subseteq {"VRI"} /\ {"VRI"} \subseteq {"VRI"}  OBVIOUS
    <3>2. CASE kind = "dss"  BY <3>1, <3>2, AppendedIs, Zenon
    <3>3. CASE kind = "vri"  BY <3>1, <3>3, AppendedIs, Zenon
    <3> QED  BY <1>3, <3>2, <3>3
  <2> DEFINE c == DssCatalog(f)
             r == Response(f, Fresh(f, 2))
  <2>2. PICK d : DssObjects(f, names) = << c, d, r >> /\ IsDssOf(f, d, names)  BY <2>1, DssWrites
  <2>3. IsVersionOf(f, kind, c, CatalogOf(f)) /\ CatalogOf(f) \in ToSet(f)
    BY <1>3, DssCatalogChanges DEF IsVersionOf
  <2>4. IsNewOne(f, kind, d)
    BY <1>1, <1>3, <2>1, <2>2 DEF IsDssOf, IsNewOne, IsNew, RoleNames
  <2>5. IsNewOne(f, kind, r)  BY <1>2
  <2> HIDE DEF c, r
  <2>6. ToSet(Appended(f, kind)) = {c, d, r}  BY <2>1, <2>2, ThreeObjects
  <2> QED  BY <2>3, <2>4, <2>5, <2>6 DEF IsOneOf
<1>4. CASE kind \in {"extend", "renew"}
  <2>1. HasDss(f)  BY <1>4 DEF CanAppend
  <2>2. PICK kept \in Seq(Nat \ {0}) : Appended(f, kind) = ExtendedDss(f, kept)
    <3>1. RefsAfter(DssOf(f), "OCSPs") \in Seq(Nat \ {0})
      BY <2>1, DssIs, RefsAre DEF IsWellFormed
    <3>2. << >> \in Seq(Nat \ {0})  OBVIOUS
    <3>3. CASE kind = "extend"  BY <3>1, <3>3, AppendedIs
    <3>4. CASE kind = "renew"  BY <3>2, <3>4, AppendedIs
    <3> QED  BY <1>4, <3>3, <3>4
  <2> DEFINE q == DssOf(f)
             ids == Append(kept, Fresh(f, 1))
             d == WithRefs(q, "OCSPs", ids)
             r == Response(f, Fresh(f, 1))
  <2>3. Appended(f, kind) = << d, r >>  BY <2>2 DEF ExtendedDss
  <2>4. q \in ToSet(f) /\ q.type = "DSS" /\ IsPdfObject(q)  BY <2>1, DssIs DEF IsWellFormed
  <2>5. ids \in Seq(Nat \ {0})  BY <1>1
  <2> HIDE DEF q, ids
  <2>6. IsVersionOf(f, kind, d, q)
    <3>1. d.names = q.names /\ d.packed = 0 /\ DOMAIN d.links = DOMAIN q.links \cup {"OCSPs"}
      BY <2>4, <2>5, LinkedObject
    <3>2. IsChanged(d, q, "OCSPs") /\ d.id = q.id  BY <2>4, <2>5, LinkingChanges
    <3> QED  BY <1>4, <2>4, <3>1, <3>2 DEF IsVersionOf
  <2>7. IsNewOne(f, kind, r)  BY <1>2
  <2> HIDE DEF d, r
  <2>8. ToSet(Appended(f, kind)) = {d, r}  BY <2>3, TwoObjects
  <2> QED  BY <2>4, <2>6, <2>7, <2>8 DEF IsOneOf
<1> QED  BY <1>3, <1>4

\* The element of a sequence of one.
LEMMA OnlyObject ==
  ASSUME NEW a, NEW x, a = << x >>, NEW o \in ToSet(a)
  PROVE  o = x
BY DEF ToSet

\* The elements of a sequence of two.
LEMMA OneOfTwoObjects ==
  ASSUME NEW a, NEW x, NEW y, a = << x, y >>
  PROVE  ToSet(a) = {x, y}
BY DEF ToSet

\* Another wording changes the text and perhaps where the object is packed.
LEMMA RewordedIs ==
  ASSUME NEW p, IsPdfObject(p), NEW packed \in Nat
  PROVE  LET o == [Reworded(p) EXCEPT !.packed = packed]
         IN  /\ IsPdfObject(o) /\ o.id = p.id /\ o.type = p.type /\ o.links = p.links
             /\ o.names = p.names /\ o.packed = packed
<1> DEFINE text == p.text + 1
           q == [p EXCEPT !.text = text]
           o == [q EXCEPT !.packed = packed]
<1>1. text \in Nat  BY DEF IsPdfObject
<1>2. Reworded(p) = q  BY DEF Reworded
<1> HIDE DEF text
<1>3. /\ IsPdfObject(q) /\ q.id = p.id /\ q.type = p.type /\ q.links = p.links
      /\ q.names = p.names /\ q.spaced = p.spaced
  <2> HIDE DEF o
  <2> QED  BY <1>1 DEF IsPdfObject
<1> HIDE DEF q
<1>4. /\ IsPdfObject(o) /\ o.id = p.id /\ o.type = p.type /\ o.links = p.links
      /\ o.names = p.names /\ o.packed = packed
  BY <1>3 DEF IsPdfObject
<1> QED  BY <1>2, <1>4

\* What updates that rewrite an object append.
LEMMA RewritingForms ==
  ASSUME NEW f, IsWellFormed(f), NEW kind, kind \in {"metadata", "page", "packed", "catalog", "dictionary"},
         CanAppend(f, kind), NEW o \in ToSet(Appended(f, kind))
  PROVE  IsOneOf(f, kind, o)
<1>1. CASE kind = "metadata"
  <2> DEFINE p == InfoOf(f)
  <2>1. p \in ToSet(f) /\ "ModDate" \in p.names /\ IsPdfObject(p)  BY InfoIs DEF IsWellFormed
  <2>2. o = [Reworded(p) EXCEPT !.packed = 0]
    <3>1. Appended(f, kind) = << NewInfo(f) >>  BY <1>1, AppendedIs
    <3>2. o = NewInfo(f)  BY <3>1, OnlyObject
    <3> QED  BY <3>2 DEF NewInfo
  <2> HIDE DEF p
  <2>3. /\ IsPdfObject(o) /\ o.id = p.id /\ o.type = p.type /\ o.links = p.links
        /\ o.names = p.names
    BY <2>1, <2>2, RewordedIs
  <2>4. IsVersionOf(f, kind, o, p)  BY <1>1, <2>1, <2>3, SameLinksChange DEF IsVersionOf
  <2> QED  BY <2>1, <2>4 DEF IsOneOf
<1>2. CASE kind \in {"page", "packed"}
  <2> DEFINE p == PageOf(f)
  <2>1. p \in ToSet(f) /\ p.type = "Page" /\ IsPdfObject(p)  BY PageIs DEF IsWellFormed
  <2>2. PICK packed \in Nat : o = [Reworded(p) EXCEPT !.packed = packed]
    <3>1. PICK packed \in Nat : Appended(f, kind) = << NewPage(f, packed) >>
      BY <1>2, AppendedIs
    <3>2. o = NewPage(f, packed)  BY <3>1, OnlyObject
    <3> QED  BY <3>2 DEF NewPage
  <2> HIDE DEF p
  <2>3. /\ IsPdfObject(o) /\ o.id = p.id /\ o.type = p.type /\ o.links = p.links
        /\ o.names = p.names
    BY <2>1, <2>2, RewordedIs
  <2>4. IsVersionOf(f, kind, o, p)  BY <1>2, <2>1, <2>3, SameLinksChange DEF IsVersionOf
  <2> QED  BY <2>1, <2>4 DEF IsOneOf
<1>3. CASE kind = "catalog"
  <2> DEFINE p == CatalogOf(f)
  <2>1. p \in ToSet(f) /\ p.type = "Catalog" /\ IsPdfObject(p)  BY CatalogIs DEF IsWellFormed
  <2>2. o = [p EXCEPT !.names = @ \cup {"OpenAction"}, !.packed = 0]
    <3>1. Appended(f, kind) = << OpeningCatalog(f) >>  BY <1>3, AppendedIs
    <3>2. o = OpeningCatalog(f)  BY <3>1, OnlyObject
    <3> QED  BY <3>2 DEF OpeningCatalog
  <2> HIDE DEF p
  <2>3. /\ IsPdfObject(o) /\ o.id = p.id /\ o.type = p.type /\ o.links = p.links
        /\ o.names = p.names \cup {"OpenAction"} /\ o.packed = 0
    BY <2>1, <2>2 DEF IsPdfObject
  <2>4. \A name \in RoleNames : name \in o.names <=> name \in p.names  BY <2>3 DEF RoleNames
  <2>5. IsVersionOf(f, kind, o, p)  BY <1>3, <2>1, <2>3, <2>4, SameLinksChange DEF IsVersionOf
  <2> QED  BY <2>1, <2>5 DEF IsOneOf
<1>4. CASE kind = "dictionary"
  <2> DEFINE p == FirstSignature(f)
  <2>1. p \in ToSet(f) /\ IsDictionary(p) /\ IsPdfObject(p)
    BY <1>4, FirstSignatureIs DEF IsWellFormed, CanAppend
  <2>2. o = [p EXCEPT !.names = @ \cup {"Reason"}]
    <3>1. Appended(f, kind) = << ReasonedSignature(f) >>  BY <1>4, AppendedIs
    <3>2. o = ReasonedSignature(f)  BY <3>1, OnlyObject
    <3> QED  BY <3>2 DEF ReasonedSignature
  <2> HIDE DEF p
  <2>3. /\ IsPdfObject(o) /\ o.id = p.id /\ o.type = p.type /\ o.links = p.links
        /\ o.names = p.names \cup {"Reason"} /\ o.packed = p.packed /\ o.number = p.number
        /\ o.text = p.text
    BY <2>1, <2>2 DEF IsPdfObject
  <2>4. \A name \in RoleNames : name \in o.names <=> name \in p.names  BY <2>3 DEF RoleNames
  <2>5. IsVersionOf(f, kind, o, p)
    BY <1>4, <2>1, <2>3, <2>4, SameLinksChange DEF IsVersionOf, SameData, IsDictionary, IsDirect
  <2> QED  BY <2>1, <2>5 DEF IsOneOf
<1> QED  BY <1>1, <1>2, <1>3, <1>4

\* What updates of dictionaries, fields and pages append.
LEMMA CopyingForms ==
  ASSUME NEW f, IsWellFormed(f), NEW kind, kind \in {"pages", "copy", "swap", "loop"},
         CanAppend(f, kind), NEW o \in ToSet(Appended(f, kind))
  PROVE  IsOneOf(f, kind, o)
<1>1. Fresh(f, 1) \in Nat \ {0} /\ Fresh(f, 1) \notin Numbers(f)  BY NumbersAreFresh
<1>2. CASE kind = "pages"
  <2>1. o = LongerPages(f) \/ o = SecondPage(f)
    <3>1. Appended(f, kind) = << LongerPages(f), SecondPage(f) >>  BY <1>2, AppendedIs
    <3> QED  BY <3>1, OneOfTwoObjects
  <2>2. CASE o = LongerPages(f)
    <3> DEFINE p == PagesOf(f)
               ids == Append(RefsAfter(p, "Kids"), Fresh(f, 1))
               w == WithRefs(p, "Kids", ids)
    <3>1. p \in ToSet(f) /\ p.type = "Pages" /\ IsPdfObject(p)  BY PagesIs DEF IsWellFormed
    <3>2. o = [w EXCEPT !.number = @ + 1]  BY <2>2 DEF LongerPages
    <3> HIDE DEF p
    <3>3. ids \in Seq(Nat \ {0})
      <4>1. RefsAfter(p, "Kids") \in Seq(Nat \ {0})  BY <3>1, RefsAre
      <4> QED  BY <1>1, <4>1
    <3> DEFINE k == ids
    <3>4. k = Append(RefsAfter(p, "Kids"), Fresh(f, 1)) /\ k \in Seq(Nat \ {0})  BY <3>3
    <3> HIDE DEF k
    <3>5. IsChanged(w, p, "Kids") /\ RefsAfter(w, "Kids") = k /\ w.id = p.id
      BY <3>1, <3>4, LinkingChanges
    <3> HIDE DEF w
    <3>6. /\ IsPdfObject(o) /\ o.id = w.id /\ o.type = w.type /\ o.links = w.links
          /\ o.names = w.names
      BY <3>2, <3>5 DEF IsChanged, IsPdfObject
    <3>7. \A n : RefsAfter(o, n) = RefsAfter(w, n)  BY <3>6 DEF RefsAfter
    <3>8. IsChanged(o, p, "Kids") /\ RefsAfter(o, "Kids") = k
      BY <3>5, <3>6, <3>7 DEF IsChanged, Alike
    <3>9. IsVersionOf(f, kind, o, p)  BY <1>2, <3>1, <3>4, <3>5, <3>6, <3>8 DEF IsVersionOf
    <3> QED  BY <3>1, <3>9 DEF IsOneOf
  <2>3. CASE o = SecondPage(f)
    <3> DEFINE p == PageOf(f)
    <3>1. p \in ToSet(f) /\ p.type = "Page" /\ IsPdfObject(p)  BY PageIs DEF IsWellFormed
    <3>2. o = [p EXCEPT !.id = Fresh(f, 1), !.packed = 0]  BY <2>3 DEF SecondPage
    <3> HIDE DEF p
    <3>3. /\ IsPdfObject(o) /\ o.id = Fresh(f, 1) /\ o.type = p.type /\ o.links = p.links
          /\ o.names = p.names
      BY <1>1, <3>1, <3>2 DEF IsPdfObject
    <3>4. IsCopyOf(f, kind, o, p)  BY <1>1, <1>2, <3>1, <3>3, SameLinksChange DEF IsCopyOf
    <3> QED  BY <3>1, <3>4 DEF IsOneOf
  <2> QED  BY <2>1, <2>2, <2>3
<1>3. CASE kind = "copy"
  <2> DEFINE p == FirstSignature(f)
  <2>1. p \in ToSet(f) /\ IsDictionary(p) /\ IsPdfObject(p)
    BY <1>3, FirstSignatureIs DEF IsWellFormed, CanAppend
  <2>2. o = [p EXCEPT !.id = Fresh(f, 1)]
    <3>1. Appended(f, kind) = << CopiedSignature(f) >>  BY <1>3, AppendedIs
    <3>2. o = CopiedSignature(f)  BY <3>1, OnlyObject
    <3> QED  BY <3>2 DEF CopiedSignature
  <2> HIDE DEF p
  <2>3. /\ IsPdfObject(o) /\ o.id = Fresh(f, 1) /\ o.type = p.type /\ o.links = p.links
        /\ o.names = p.names /\ o.packed = p.packed /\ o.number = p.number /\ o.text = p.text
    BY <1>1, <2>1, <2>2 DEF IsPdfObject
  <2>4. IsCopyOf(f, kind, o, p)
    BY <1>1, <1>3, <2>1, <2>3, SameLinksChange DEF IsCopyOf, SameData, IsDictionary, IsDirect
  <2> QED  BY <2>1, <2>4 DEF IsOneOf
<1>4. CASE kind = "swap"
  <2> DEFINE s == New(Fresh(f, 1), "Sig", {"Contents"}, << >>)
             p == FieldOf(f)
             ids == << Fresh(f, 1) >>
             w == WithRefs(p, "V", ids)
  <2>1. IsOtherSignature(f, s)  BY <1>4, SwapKeeps DEF CanAppend
  <2>2. ToSet(Appended(f, kind)) = {s, w}
    <3>1. Appended(f, kind) = << s, w >>  BY <1>4, AppendedIs
    <3> HIDE DEF s, w
    <3> QED  BY <3>1, TwoObjects
  <2> HIDE DEF s
  <2>3. IsNewOne(f, kind, s)
    BY <1>1, <1>4, <2>1 DEF IsOtherSignature, IsNewOne, IsNew, RoleNames
  <2>4. p \in ToSet(f) /\ "Sig" \in p.names /\ IsPdfObject(p)
    BY <1>4, FieldIs DEF IsWellFormed, CanAppend
  <2>5. ids \in Seq(Nat \ {0}) /\ ids = << Fresh(f, 1) >>  BY <1>1
  <2> HIDE DEF p, ids
  <2>6. IsVersionOf(f, kind, w, p)  BY <1>4, <2>4, <2>5, LinkingChanges DEF IsVersionOf
  <2> HIDE DEF w
  <2> QED  BY <2>2, <2>3, <2>4, <2>6 DEF IsOneOf
<1>5. CASE kind = "loop"
  <2> DEFINE p == FieldOf(f)
             ids == << p.id >>
             w == WithRefs(p, "Kids", ids)
  <2>1. p \in ToSet(f) /\ "Sig" \in p.names /\ IsPdfObject(p)
    BY <1>5, FieldIs DEF IsWellFormed, CanAppend
  <2>2. ids \in Seq(Nat \ {0})  BY <2>1 DEF IsPdfObject
  <2>3. o = w
    <3>1. Appended(f, kind) = << w >>  BY <1>5, AppendedIs
    <3> HIDE DEF w
    <3> QED  BY <3>1, OnlyObject
  <2> HIDE DEF p, ids
  <2>4. IsVersionOf(f, kind, w, p)  BY <1>5, <2>1, <2>2, LinkingChanges DEF IsVersionOf
  <2> HIDE DEF w
  <2> QED  BY <2>1, <2>3, <2>4 DEF IsOneOf
<1> QED  BY <1>2, <1>3, <1>4, <1>5

\* What a "stream" edit appends: the catalog, a new store, the drawing again.
LEMMA StreamForms ==
  ASSUME NEW f, IsWellFormed(f), NEW o \in ToSet(Appended(f, "stream"))
  PROVE  IsOneOf(f, "stream", o)
<1> DEFINE c == DssCatalog(f)
           d == DrawingDss(f)
           p == DrawingOf(f)
           w == NewDrawing(f)
<1>1. Fresh(f, 1) \notin Numbers(f)  BY NumbersAreFresh
<1>2. IsVersionOf(f, "stream", c, CatalogOf(f)) /\ CatalogOf(f) \in ToSet(f)
  BY DssCatalogChanges DEF IsVersionOf
<1>3. IsNewOne(f, "stream", d)
  <2>1. /\ IsNew(d, Fresh(f, 1)) /\ d.type = "DSS" /\ d.names = {} /\ d.packed = 0
        /\ d.links = [n \in {"Certs"} |-> << p.id >>]
    BY DrawingDssIs
  <2>2. DOMAIN d.links = {"Certs"}  BY <2>1
  <2> HIDE DEF d
  <2> QED  BY <1>1, <2>1, <2>2 DEF IsNewOne, IsNew
<1>4. IsVersionOf(f, "stream", w, p) /\ p \in ToSet(f)
  <2>1. /\ IsPdfObject(w) /\ w.id = p.id /\ w.type = p.type /\ w.links = p.links
        /\ w.names = p.names /\ p \in ToSet(f) /\ p.type = "XObject" /\ IsPdfObject(p)
    BY NewDrawingIs
  <2> HIDE DEF w, p
  <2> QED  BY <2>1, SameLinksChange DEF IsVersionOf
<1>5. Appended(f, "stream") = << c, d, w >>  BY AppendedIs
<1> HIDE DEF c, d, w, p
<1>6. ToSet(Appended(f, "stream")) = {c, d, w}  BY <1>5, ThreeObjects
<1> QED  BY <1>2, <1>3, <1>4, <1>6 DEF IsOneOf

\* What a "title" edit appends: the page tree again and a new page.
LEMMA TitleForms ==
  ASSUME NEW f, IsWellFormed(f), NEW o \in ToSet(Appended(f, "title"))
  PROVE  IsOneOf(f, "title", o)
<1> DEFINE w == NewPages(f)
           s == NewFirstPage(f)
           p == PagesOf(f)
           ids == [RefsAfter(p, "Kids") EXCEPT ![1] = Fresh(f, 1)]
           l == WithRefs(p, "Kids", ids)
<1>1. Fresh(f, 1) \notin Numbers(f)  BY NumbersAreFresh
<1>2. IsNewOne(f, "title", s)
  <2>1. /\ IsNew(s, Fresh(f, 1)) /\ s.type = "Page" /\ s.names = {} /\ s.packed = 0
        /\ s.links = [n \in {"XObject"} |-> << DrawingOf(f).id >>]
    BY NewFirstPageIs
  <2>2. DOMAIN s.links = {"XObject"}  BY <2>1
  <2> HIDE DEF s
  <2> QED  BY <1>1, <2>1, <2>2 DEF IsNewOne, IsNew
<1>3. IsVersionOf(f, "title", w, p) /\ p \in ToSet(f)
  <2>1. /\ IsPdfObject(w) /\ w.id = p.id /\ w.type = p.type /\ w.names = p.names \cup {"Title"}
        /\ w.links = l.links /\ ids \in Seq(Nat \ {0})
        /\ ToSet(ids) \subseteq ToSet(RefsAfter(p, "Kids")) \cup {Fresh(f, 1)}
        /\ p \in ToSet(f) /\ p.type = "Pages" /\ IsPdfObject(p)
    BY NewPagesIs
  <2> HIDE DEF w, p, ids
  <2>2. IsChanged(l, p, "Kids") /\ RefsAfter(l, "Kids") = ids  BY <2>1, LinkingChanges
  <2> HIDE DEF l
  <2>3. \A n : RefsAfter(w, n) = RefsAfter(l, n)  BY <2>1 DEF RefsAfter
  <2>4. l.type = p.type /\ ("Fields" \in DOMAIN l.links <=> "Fields" \in DOMAIN p.links)
    BY <2>2 DEF IsChanged, Alike
  <2>5. Alike(w, p)  BY <2>1, <2>4 DEF Alike, RoleNames
  <2>6. IsChanged(w, p, "Kids")  BY <2>1, <2>2, <2>3, <2>5 DEF IsChanged
  <2>7. Kids(w) \subseteq Kids(p) \cup {Fresh(f, 1)}  BY <2>1, <2>2, <2>3 DEF Kids
  <2> QED  BY <2>1, <2>6, <2>7 DEF IsVersionOf
<1>4. Appended(f, "title") = << w, s >>  BY AppendedIs
<1> HIDE DEF w, s, p
<1>5. ToSet(Appended(f, "title")) = {w, s}  BY <1>4, TwoObjects
<1> QED  BY <1>2, <1>3, <1>5 DEF IsOneOf

\* Whatever is appended is new, a version or a copy, of the kind its update writes.
LEMMA AppendedForms ==
  ASSUME NEW f, IsWellFormed(f), NEW kind, CanAppend(f, kind), NEW o \in ToSet(Appended(f, kind))
  PROVE  IsOneOf(f, kind, o)
BY SigningForms, EvidenceForms, RewritingForms, CopyingForms, StreamForms, TitleForms
DEF CanAppend, Kinds, IsSigning

-----------------------------------------------------------------------------
(* The invariant: what the file and its history have to do with each other. *)

FileInv(f, u) ==
  /\ IsWellFormed(f)
  /\ u \in Seq([kind : Kinds, from : Nat])
  /\ \A i \in DOMAIN u : u[i].from < Len(f)
  /\ u # << >> => AllDictionaries(f) # {} /\ HasField(f)

\* What an update makes of a file and its history.
FileGrows(f, kind, g) ==
  /\ IsWellFormed(f) /\ IsWellFormed(g) /\ kind \in Kinds
  /\ Len(f) \in Nat /\ Len(g) \in Nat /\ Len(f) < Len(g)
  /\ \A q \in DOMAIN f : q \in 1..Len(f) /\ q \in DOMAIN g /\ g[q] = f[q]
  /\ \A q \in DOMAIN g : q \in 1..Len(g) /\ (q \in DOMAIN f \/ (q > Len(f) /\ IsOneOf(f, kind, g[q])))
  /\ \A o \in ToSet(g) : o \in ToSet(f) \/ IsOneOf(f, kind, o)
  /\ ToSet(f) \subseteq ToSet(g)

SigningGrows(f, kind, g) ==
  IsSigning(kind) =>
    /\ Len(g) = Len(f) + 3
    /\ IsDictionary(g[Len(f) + 1]) /\ g[Len(f) + 1].id = Fresh(f, 1)
    /\ g[Len(f) + 1].number = Len(f) + 3 /\ g[Len(f) + 1].text = Len(f)
    /\ IsFieldOf(f, g[Len(f) + 2]) /\ g[Len(f) + 3].id # Fresh(f, 2)
    /\ g[Len(f) + 3].id # Fresh(f, 1)

HistoryGrows(f, u, kind, w) ==
  /\ \A i \in DOMAIN u : i \in DOMAIN w /\ w[i] = u[i] /\ w[i].from \in Nat /\ w[i].from < Len(f)
  /\ \E n \in DOMAIN w : /\ w[n].kind = kind /\ w[n].from = Len(f)
                         /\ \A i \in DOMAIN w : i \in DOMAIN u \/ i = n

Grows(f, u, kind, g, w) ==
  FileGrows(f, kind, g) /\ SigningGrows(f, kind, g) /\ HistoryGrows(f, u, kind, w)

\* Where signing puts the dictionary and the field.
LEMMA SigningPlaces ==
  ASSUME NEW f, IsWellFormed(f), NEW kind, IsSigning(kind)
  PROVE  LET a == Appended(f, kind)
         IN  /\ Len(a) = 3 /\ IsDictionary(a[1]) /\ a[1].id = Fresh(f, 1)
             /\ a[1].number = Len(f) + 3 /\ a[1].text = Len(f) /\ IsFieldOf(f, a[2])
             /\ a[3].id \in Numbers(f)
<1> DEFINE a == Appended(f, kind)
<1>1. PICK type \in {"Sig", "DocTimeStamp"}, names \in SUBSET {"ETSI.RFC3161"} :
        Appended(f, kind) = SignatureObjects(f, type, names)
  BY AppendedIs DEF IsSigning
<1> DEFINE x == WithField(f, Fresh(f, 2))
<1>2. PICK s, e : /\ SignatureObjects(f, type, names) = << s, e, x >>
                  /\ IsSignatureOf(f, s, type, names) /\ IsFieldOf(f, e) /\ IsVersion(x, f)
  BY SigningWrites
<1>3. a = << s, e, x >>  BY <1>1, <1>2
<1>4. x.id \in Numbers(f)  BY <1>2, FileFacts DEF IsVersion
<1> HIDE DEF x, a
<1>5. Len(a) = 3 /\ a[1] = s /\ a[2] = e /\ a[3] = x  BY <1>3, ThreeObjects
<1>6. IsDictionary(s) /\ s.id = Fresh(f, 1) /\ s.number = Len(f) + 3 /\ s.text = Len(f)
  BY <1>2 DEF IsSignatureOf, IsNew, IsDictionary, IsDirect
<1>7. /\ Len(a) = 3 /\ IsDictionary(a[1]) /\ a[1].id = Fresh(f, 1)
      /\ a[1].number = Len(f) + 3 /\ a[1].text = Len(f) /\ IsFieldOf(f, a[2])
      /\ a[3].id \in Numbers(f)
  BY <1>2, <1>4, <1>5, <1>6
<1> QED  BY <1>7 DEF a

\* An update extends the file by what its kind appends.
LEMMA UpdateGrows ==
  ASSUME NEW f, NEW u, FileInv(f, u), NEW kind, CanAppend(f, kind)
  PROVE  Grows(f, u, kind, f \o Appended(f, kind), Append(u, [kind |-> kind, from |-> Len(f)]))
<1> DEFINE a == Appended(f, kind)
           g == f \o a
           r == [kind |-> kind, from |-> Len(f)]
           w == Append(u, r)
           S == ToSet(f) \cup ToSet(a)
<1>1. IsWellFormed(f) /\ kind \in Kinds  BY DEF FileInv, CanAppend
<1>2. IsWellFormed(g) /\ a \in Seq(ToSet(a)) /\ a # << >>  BY <1>1, AppendedKeeps DEF AreKept
<1>3. \A o \in ToSet(a) : IsOneOf(f, kind, o)  BY <1>1, AppendedForms
<1>4. IsSigning(kind) =>
        /\ Len(a) = 3 /\ IsDictionary(a[1]) /\ a[1].id = Fresh(f, 1)
        /\ a[1].number = Len(f) + 3 /\ a[1].text = Len(f) /\ IsFieldOf(f, a[2])
        /\ a[3].id \in Numbers(f)
  BY <1>1, SigningPlaces
<1> HIDE DEF a
<1>5. f \in Seq(S) /\ a \in Seq(S)
  <2>1. ToSet(f) \subseteq S /\ ToSet(a) \subseteq S  OBVIOUS
  <2>2. f \in Seq(ToSet(f)) /\ a \in Seq(ToSet(a))  BY <1>1, <1>2, FileFacts
  <2> HIDE DEF S
  <2> QED  BY <2>1, <2>2
<1>6. /\ Len(f) \in Nat /\ Len(a) \in Nat /\ Len(g) = Len(f) + Len(a)
      /\ DOMAIN f = 1..Len(f) /\ DOMAIN a = 1..Len(a) /\ DOMAIN g = 1..Len(f) + Len(a)
      /\ \A i \in 1..Len(f) : g[i] = f[i]
      /\ \A m \in 1..Len(a) : g[Len(f) + m] = a[m]
      /\ ToSet(g) = S
  BY <1>5, Concatenated
<1>7. Len(a) > 0  BY <1>2, <1>6, EmptySeq
<1> HIDE DEF g
<1>8. ASSUME NEW q \in 1..Len(g), q > Len(f) PROVE IsOneOf(f, kind, g[q])
  <2>1. q - Len(f) \in 1..Len(a) /\ q = Len(f) + (q - Len(f))  BY <1>6, <1>8
  <2>2. g[q] = a[q - Len(f)] /\ a[q - Len(f)] \in ToSet(a)  BY <1>6, <2>1 DEF ToSet
  <2> QED  BY <1>3, <2>2
<1>9. ASSUME IsSigning(kind)
      PROVE  /\ Len(g) = Len(f) + 3
             /\ IsDictionary(g[Len(f) + 1]) /\ g[Len(f) + 1].id = Fresh(f, 1)
             /\ g[Len(f) + 1].number = Len(f) + 3 /\ g[Len(f) + 1].text = Len(f)
             /\ IsFieldOf(f, g[Len(f) + 2]) /\ g[Len(f) + 3].id # Fresh(f, 2)
             /\ g[Len(f) + 3].id # Fresh(f, 1)
  <2>1. Len(a) = 3  BY <1>4, <1>9
  <2>2. 1 \in 1..Len(a) /\ 2 \in 1..Len(a) /\ 3 \in 1..Len(a)  BY <2>1
  <2>3. g[Len(f) + 1] = a[1] /\ g[Len(f) + 2] = a[2] /\ g[Len(f) + 3] = a[3]  BY <1>6, <2>2
  <2>4. Fresh(f, 1) \notin Numbers(f) /\ Fresh(f, 2) \notin Numbers(f)  BY <1>1, NumbersAreFresh
  <2> QED  BY <1>4, <1>6, <1>9, <2>3, <2>4
<1>10. /\ Len(u) \in Nat /\ DOMAIN u = 1..Len(u) /\ DOMAIN w = 1..Len(u) + 1
       /\ \A i \in DOMAIN u : w[i] = u[i] /\ u[i].from \in Nat /\ u[i].from < Len(f)
       /\ w[Len(u) + 1] = r
  <2>1. u \in Seq([kind : Kinds, from : Nat]) /\ r \in [kind : Kinds, from : Nat]
    BY <1>1, <1>6 DEF FileInv
  <2> HIDE DEF r
  <2>2. Len(u) \in Nat /\ DOMAIN u = 1..Len(u) /\ DOMAIN w = 1..Len(u) + 1
        /\ (\A i \in DOMAIN u : w[i] = u[i]) /\ w[Len(u) + 1] = r
    BY <2>1
  <2>3. \A i \in DOMAIN u : u[i].from \in Nat /\ u[i].from < Len(f)
    <3> DEFINE T == [kind : Kinds, from : Nat]
    <3>1. u \in Seq(T)  BY <2>1
    <3> HIDE DEF T
    <3>2. \A i \in DOMAIN u : u[i] \in T  BY <3>1
    <3> QED  BY <3>2 DEF FileInv, T
  <2> QED  BY <2>2, <2>3
<1> HIDE DEF w
<1>11. r.kind = kind /\ r.from = Len(f)  OBVIOUS
<1> HIDE DEF r
<1>12. Len(f) < Len(g) /\ Len(g) \in Nat /\ DOMAIN g = 1..Len(g)  BY <1>6, <1>7
<1>13. /\ \A q \in DOMAIN f : q \in 1..Len(f) /\ q \in DOMAIN g /\ g[q] = f[q]
       /\ \A q \in DOMAIN g : q \in 1..Len(g) /\ (q \in DOMAIN f \/ (q > Len(f) /\ IsOneOf(f, kind, g[q])))
  <2>1. ASSUME NEW q \in DOMAIN g
        PROVE  q \in 1..Len(g) /\ (q \in DOMAIN f \/ (q > Len(f) /\ IsOneOf(f, kind, g[q])))
    <3>1. q \in 1..Len(g)  BY <1>12
    <3>2. CASE q <= Len(f)  BY <1>6, <3>1, <3>2
    <3>3. CASE ~ (q <= Len(f))
      <4>1. q > Len(f)  BY <1>6, <3>1, <3>3
      <4> QED  BY <1>8, <3>1, <4>1
    <3> QED  BY <3>1, <3>2, <3>3
  <2>2. ASSUME NEW q \in DOMAIN f PROVE q \in 1..Len(f) /\ q \in DOMAIN g /\ g[q] = f[q]
    BY <1>6, <1>12
  <2> QED  BY <2>1, <2>2
<1>14. FileGrows(f, kind, g)  BY <1>1, <1>2, <1>3, <1>6, <1>12, <1>13 DEF FileGrows
<1>15. SigningGrows(f, kind, g)  BY <1>9 DEF SigningGrows
<1>16. HistoryGrows(f, u, kind, w)
  <2>1. Len(u) + 1 \in DOMAIN w  BY <1>10
  <2>2. \A i \in DOMAIN w : i \in DOMAIN u \/ i = Len(u) + 1  BY <1>10
  <2>3. \A i \in DOMAIN u : i \in DOMAIN w  BY <1>10
  <2> QED  BY <1>10, <1>11, <2>1, <2>2, <2>3 DEF HistoryGrows
<1> QED  BY <1>14, <1>15, <1>16 DEF Grows, g, w, a, r

-----------------------------------------------------------------------------
(* What can be said of an object some update appends.                      *)

\* Only signature fields have a value.
OnlyFieldsHaveValues(f) == \A o \in ToSet(f) : FirstRef(o, "V") # NoReference => "Sig" \in o.names

NoLoops(f) == \A o \in ToSet(f) : o.id \notin Kids(o)

\* A name without references has no first one.
LEMMA NoReferences ==
  ASSUME NEW o, o.links = << >>, NEW name
  PROVE  RefsAfter(o, name) = << >> /\ FirstRef(o, name) = NoReference
<1>1. RefsAfter(o, name) = << >>  BY NoLinks
<1> QED  BY <1>1 DEF FirstRef

\* A new object has no kids, and only a new field has a value.
LEMMA NewReferences ==
  ASSUME NEW f, IsWellFormed(f), NEW kind, NEW o, IsNewOne(f, kind, o)
  PROVE  /\ RefsAfter(o, "Kids") = << >>
         /\ FirstRef(o, "V") = NoReference \/ (FirstRef(o, "V") = Fresh(f, 1) /\ "Sig" \in o.names)
<1>1. CASE o.links = << >>  BY <1>1, NoReferences
<1>2. CASE IsFieldOf(f, o)
  <2>1. RefsAfter(o, "V") = << Fresh(f, 1) >> /\ RefsAfter(o, "Kids") = << >>  BY <1>2, FieldLinks
  <2>2. FirstRef(o, "V") = Fresh(f, 1)  BY <2>1 DEF FirstRef
  <2>3. "Sig" \in o.names  BY <1>2 DEF IsFieldOf
  <2> QED  BY <2>1, <2>2, <2>3
<1>3. ASSUME NEW names, IsDssOf(f, o, names)
      PROVE  RefsAfter(o, "Kids") = << >> /\ FirstRef(o, "V") = NoReference
  <2> DEFINE ids == << Fresh(f, 2) >>
  <2>1. o.links = [n \in {"OCSPs"} |-> ids]  BY <1>3 DEF IsDssOf
  <2> HIDE DEF ids
  <2>2. \A n : n # "OCSPs" => RefsAfter(o, n) = << >>  BY <2>1, OneLink
  <2> QED  BY <2>2 DEF FirstRef
<1>4. CASE o.names = {} /\ (DOMAIN o.links = {"Certs"} \/ DOMAIN o.links = {"XObject"})
  BY <1>4 DEF RefsAfter, FirstRef
<1> QED  BY <1>1, <1>2, <1>3, <1>4 DEF IsNewOne

\* References after other names stay.
LEMMA SameFirstReference ==
  ASSUME NEW o, NEW p, NEW name, IsChanged(o, p, name), NEW n, n # name
  PROVE  RefsAfter(o, n) = RefsAfter(p, n) /\ FirstRef(o, n) = FirstRef(p, n)
BY DEF IsChanged, FirstRef

\* What is appended has a value only if it is a field, and no other field's.
LEMMA ValueOfOne ==
  ASSUME NEW f, IsWellFormed(f), OnlyFieldsHaveValues(f), NEW kind, NEW o, IsOneOf(f, kind, o)
  PROVE  /\ FirstRef(o, "V") # NoReference => "Sig" \in o.names
         /\ FirstRef(o, "V") \in Numbers(f) =>
              \E p \in ToSet(f) : p.id = o.id /\ FirstRef(p, "V") = FirstRef(o, "V")
<1>1. Fresh(f, 1) \notin Numbers(f) /\ NoReference \notin Numbers(f)  BY NumbersAreFresh, FileFacts
<1>2. CASE IsNewOne(f, kind, o)  BY <1>1, <1>2, NewReferences
<1>3. ASSUME NEW p \in ToSet(f), IsVersionOf(f, kind, o, p)
      PROVE  /\ FirstRef(o, "V") # NoReference => "Sig" \in o.names
             /\ FirstRef(o, "V") \in Numbers(f) => p.id = o.id /\ FirstRef(p, "V") = FirstRef(o, "V")
  <2>1. p.id = o.id  BY <1>3 DEF IsVersionOf
  <2>2. ASSUME NEW name, name # "V", IsChanged(o, p, name)
        PROVE  FirstRef(o, "V") = FirstRef(p, "V") /\ ("Sig" \in p.names => "Sig" \in o.names)
    BY <2>2, SameFirstReference DEF IsChanged, Alike, RoleNames
  <2>3. ASSUME IsChanged(o, p, "V"), "Sig" \in p.names, RefsAfter(o, "V") = << Fresh(f, 1) >>
        PROVE  FirstRef(o, "V") = Fresh(f, 1) /\ "Sig" \in o.names
    BY <2>3 DEF IsChanged, Alike, RoleNames, FirstRef
  <2> QED  BY <1>1, <1>3, <2>1, <2>2, <2>3 DEF IsVersionOf, OnlyFieldsHaveValues
<1>4. ASSUME NEW p \in ToSet(f), IsCopyOf(f, kind, o, p) PROVE FirstRef(o, "V") = NoReference
  <2>1. FirstRef(o, "V") = FirstRef(p, "V")  BY <1>4, SameFirstReference DEF IsCopyOf
  <2>2. "Sig" \notin p.names
    BY <1>4 DEF IsCopyOf, IsWellFormed, HasOneRole, NoType, IsDictionary
  <2> QED  BY <2>1, <2>2 DEF OnlyFieldsHaveValues
<1> QED  BY <1>1, <1>2, <1>3, <1>4 DEF IsOneOf

\* Only a loop makes an object its own child.
LEMMA KidsOfOne ==
  ASSUME NEW f, IsWellFormed(f), NoLoops(f), NEW kind, kind # "loop", NEW o, IsOneOf(f, kind, o)
  PROVE  o.id \notin Kids(o)
<1>1. Fresh(f, 1) \notin Numbers(f)  BY NumbersAreFresh
<1>2. CASE IsNewOne(f, kind, o)
  <2>1. RefsAfter(o, "Kids") = << >>  BY <1>2, NewReferences
  <2> QED  BY <2>1 DEF Kids, ToSet
<1>3. ASSUME NEW p \in ToSet(f), NEW name, name # "Kids", IsChanged(o, p, name)
      PROVE  Kids(o) = Kids(p)
  BY <1>3, SameFirstReference DEF Kids
<1>4. \A p \in ToSet(f) : p.id \in Numbers(f) /\ p.id \notin Kids(p) /\ Kids(p) \subseteq Numbers(f)
  <2> TAKE p \in ToSet(f)
  <2>1. IsPdfObject(p) /\ References(p) \subseteq Numbers(f)  BY DEF IsWellFormed, IsLinked
  <2>2. Kids(p) \subseteq References(p)  BY <2>1, RefsAre DEF Kids
  <2> QED  BY <2>1, <2>2, FileFacts DEF NoLoops
<1>5. ASSUME NEW p \in ToSet(f), IsVersionOf(f, kind, o, p) PROVE o.id \notin Kids(o)
  <2>1. p.id = o.id  BY <1>5 DEF IsVersionOf
  <2>2. ASSUME RefsAfter(o, "Kids") = Append(RefsAfter(p, "Kids"), Fresh(f, 1))
        PROVE  o.id \notin Kids(o)
    <3>1. RefsAfter(p, "Kids") \in Seq(Nat \ {0}) /\ Fresh(f, 1) \in Nat \ {0}
      BY RefsAre, NumbersAreFresh DEF IsWellFormed
    <3>2. Kids(o) = Kids(p) \cup {Fresh(f, 1)}  BY <2>2, <3>1, OneMoreReference DEF Kids
    <3> QED  BY <1>1, <1>4, <2>1, <3>2
  <2>3. ASSUME Kids(o) \subseteq Kids(p) \cup {Fresh(f, 1)} PROVE o.id \notin Kids(o)
    BY <1>1, <1>4, <2>1, <2>3
  <2> QED  BY <1>3, <1>4, <1>5, <2>1, <2>2, <2>3 DEF IsVersionOf
<1>6. ASSUME NEW p \in ToSet(f), IsCopyOf(f, kind, o, p) PROVE o.id \notin Kids(o)
  BY <1>3, <1>4, <1>6 DEF IsCopyOf
<1> QED  BY <1>2, <1>5, <1>6 DEF IsOneOf

\* A catalog that is appended is not packed and names the page tree there was.
LEMMA CatalogsOfOne ==
  ASSUME NEW f, IsWellFormed(f), NEW kind, NEW o, IsOneOf(f, kind, o), o.type = "Catalog"
  PROVE  /\ IsDirect(o)
         /\ \E p \in ToSet(f) : p.type = "Catalog" /\ FirstRef(o, "Pages") = FirstRef(p, "Pages")
<1>1. ~ IsNewOne(f, kind, o)  BY DEF IsNewOne
<1>2. \A p \in ToSet(f) : HasOneRole(p)  BY DEF IsWellFormed
<1>3. ASSUME NEW p \in ToSet(f), IsVersionOf(f, kind, o, p)
      PROVE  p.type = "Catalog" /\ IsDirect(o) /\ FirstRef(o, "Pages") = FirstRef(p, "Pages")
  <2>1. ASSUME NEW name, name # "Pages", IsChanged(o, p, name)
        PROVE  p.type = "Catalog" /\ FirstRef(o, "Pages") = FirstRef(p, "Pages")
    BY <2>1, SameFirstReference DEF IsChanged, Alike
  <2>2. p.type = "Catalog" /\ FirstRef(o, "Pages") = FirstRef(p, "Pages")
    BY <1>3, <2>1 DEF IsVersionOf
  <2>3. IsDirect(o)
    BY <1>2, <1>3, <2>2 DEF IsVersionOf, IsDirect, HasOneRole, NoType, IsDictionary
  <2> QED  BY <2>2, <2>3
<1>4. ASSUME NEW p \in ToSet(f), IsCopyOf(f, kind, o, p) PROVE FALSE
  <2>1. p.type = "Catalog"  BY <1>4 DEF IsCopyOf, IsChanged, Alike
  <2> QED  BY <1>2, <1>4, <2>1 DEF IsCopyOf, HasOneRole, IsDictionary
<1> QED  BY <1>1, <1>3, <1>4 DEF IsOneOf

\* A dictionary that is appended is that of a signature, or has the data of one there was.
LEMMA DictionariesOfOne ==
  ASSUME NEW f, IsWellFormed(f), NEW kind, NEW o, IsOneOf(f, kind, o), "ByteRange" \in o.names
  PROVE  /\ IsDirect(o)
         /\ \/ IsSigning(kind) /\ o.text = Len(f) /\ o.number = Len(f) + 3 /\ o.id \notin Numbers(f)
            \/ /\ kind \in {"dictionary", "copy"}
               /\ \E p \in ToSet(f) : IsDictionary(p) /\ SameData(o, p)
<1>1. \A p \in ToSet(f) : HasOneRole(p)  BY DEF IsWellFormed
<1>2. CASE IsNewOne(f, kind, o)  BY <1>2 DEF IsNewOne, IsDirect, RoleNames
<1>3. ASSUME NEW p \in ToSet(f), IsVersionOf(f, kind, o, p)
      PROVE  IsDirect(o) /\ kind = "dictionary" /\ IsDictionary(p) /\ SameData(o, p)
  <2>1. "ByteRange" \in p.names
    <3>1. \A name : IsChanged(o, p, name) => "ByteRange" \in p.names
      BY DEF IsChanged, Alike, RoleNames
    <3> QED  BY <1>3, <3>1 DEF IsVersionOf
  <2>2. /\ p.type \in {"Sig", "DocTimeStamp"} /\ "Sig" \notin p.names /\ "ModDate" \notin p.names
        /\ "Fields" \notin DOMAIN p.links
    BY <1>1, <2>1 DEF HasOneRole, RoleNames
  <2>3. CatalogOf(f).type = "Catalog"  BY CatalogIs
  <2> QED  BY <1>3, <2>2, <2>3 DEF IsVersionOf, IsDirect
<1>4. ASSUME NEW p \in ToSet(f), IsCopyOf(f, kind, o, p)
      PROVE  IsDirect(o) /\ kind = "copy" /\ IsDictionary(p) /\ SameData(o, p)
  <2>1. "ByteRange" \in p.names  BY <1>4 DEF IsCopyOf, IsChanged, Alike, RoleNames
  <2>2. p.type \in {"Sig", "DocTimeStamp"}  BY <1>1, <2>1 DEF HasOneRole
  <2> QED  BY <1>4, <2>2 DEF IsCopyOf, IsDirect
<1> QED  BY <1>2, <1>3, <1>4 DEF IsOneOf

\* The updates that leave what was signed alone.
MaintenanceKinds == {"sign", "timestamp", "dss", "vri", "extend", "renew", "metadata"}

\* What they write again: the form, the catalog, the DSS and the information.
IsKept(o) ==
  o.type \in {"Catalog", "DSS"} \/ "Fields" \in DOMAIN o.links \/ "ModDate" \in o.names

\* Maintenance rewrites only what it may.
LEMMA MaintainedOne ==
  ASSUME NEW f, IsWellFormed(f), NEW kind \in MaintenanceKinds, NEW o, IsOneOf(f, kind, o)
  PROVE  /\ o.id \notin Numbers(f) \/ IsKept(o)
         /\ o.type # "Pages"
<1>1. CASE IsNewOne(f, kind, o)  BY <1>1 DEF IsNewOne
<1>2. ASSUME NEW p \in ToSet(f), IsVersionOf(f, kind, o, p) PROVE IsKept(o) /\ o.type # "Pages"
  <2>1. HasOneRole(p) /\ IsLinked(p, f)  BY DEF IsWellFormed
  <2>2. ASSUME NEW name, IsChanged(o, p, name)
        PROVE  o.type = p.type /\ ("Fields" \in DOMAIN p.links => "Fields" \in DOMAIN o.links)
               /\ ("ModDate" \in p.names => "ModDate" \in o.names)
    BY <2>2 DEF IsChanged, Alike, RoleNames
  <2>3. CatalogOf(f).type = "Catalog"  BY CatalogIs
  <2>4. CASE IsSigning(kind)
    BY <1>2, <2>1, <2>2, <2>4 DEF IsVersionOf, IsKept, IsSigning, HasOneRole
  <2>5. CASE ~ IsSigning(kind)
    BY <1>2, <2>1, <2>2, <2>3, <2>5
    DEF IsVersionOf, IsKept, IsSigning, MaintenanceKinds, HasOneRole
  <2> QED  BY <2>4, <2>5
<1>3. ASSUME NEW p \in ToSet(f), IsCopyOf(f, kind, o, p) PROVE FALSE
  BY <1>3 DEF IsCopyOf, MaintenanceKinds
<1> QED  BY <1>1, <1>2, <1>3 DEF IsOneOf

-----------------------------------------------------------------------------
(* The parts of the invariant, and that updates keep them.                 *)

\* All catalogs name the same page tree.
OnePageTree(f) ==
  \A o, p \in ToSet(f) :
    o.type = "Catalog" /\ p.type = "Catalog" => FirstRef(o, "Pages") = FirstRef(p, "Pages")

\* A catalog after one that is an object of its own is an object of its own.
DirectCatalogsLast(f) == \A i, j \in Catalogs(f) : i <= j /\ IsDirect(f[i]) => IsDirect(f[j])

\* Every dictionary has the data of the update that signed.
DictionariesFrom(f, u) ==
  \A q \in DOMAIN f : "ByteRange" \in f[q].names =>
    /\ IsDirect(f[q]) /\ f[q].number <= Len(f)
    /\ \E i \in DOMAIN u : /\ IsSigning(u[i].kind) /\ u[i].from < q
                           /\ f[q].text = u[i].from /\ f[q].number = u[i].from + 3

\* The dictionary and its field are where the update that signed wrote them.
IsSigned(f, from) ==
  /\ from + 3 <= Len(f)
  /\ IsDictionary(f[from + 1]) /\ f[from + 1].text = from /\ f[from + 1].number = from + 3
  /\ "Sig" \in f[from + 2].names /\ RefsAfter(f[from + 2], "Kids") = << >>
  /\ IsDirect(f[from + 2]) /\ FirstRef(f[from + 2], "V") = f[from + 1].id
  /\ \A q \in 1..from + 3 : f[q].id = f[from + 2].id => q = from + 2
  /\ \A o \in ToSet(f) : FirstRef(o, "V") = f[from + 1].id => o.id = f[from + 2].id
SigningsKept(f, u) == \A i \in DOMAIN u : IsSigning(u[i].kind) => IsSigned(f, u[i].from)

\* Only the update that makes a field its own child does so.
LoopsAreMade(f, u) == (\A i \in DOMAIN u : u[i].kind # "loop") => NoLoops(f)

\* That only fields have values survives an update.
LEMMA ValuesKept ==
  ASSUME NEW f, NEW u, NEW kind, NEW g, NEW w, Grows(f, u, kind, g, w), OnlyFieldsHaveValues(f)
  PROVE  OnlyFieldsHaveValues(g)
BY ValueOfOne DEF Grows, FileGrows, OnlyFieldsHaveValues

\* That all catalogs name one page tree survives an update.
LEMMA PageTreeKept ==
  ASSUME NEW f, NEW u, NEW kind, NEW g, NEW w, Grows(f, u, kind, g, w), OnePageTree(f)
  PROVE  OnePageTree(g)
<1>1. ASSUME NEW o \in ToSet(g), o.type = "Catalog"
      PROVE  \E p \in ToSet(f) : p.type = "Catalog" /\ FirstRef(o, "Pages") = FirstRef(p, "Pages")
  BY <1>1, CatalogsOfOne DEF Grows, FileGrows
<1>2. ASSUME NEW x \in ToSet(g), NEW y \in ToSet(g), x.type = "Catalog", y.type = "Catalog"
      PROVE  FirstRef(x, "Pages") = FirstRef(y, "Pages")
  <2>1. PICK o \in ToSet(f) : o.type = "Catalog" /\ FirstRef(x, "Pages") = FirstRef(o, "Pages")
    BY <1>1, <1>2
  <2>2. PICK p \in ToSet(f) : p.type = "Catalog" /\ FirstRef(y, "Pages") = FirstRef(p, "Pages")
    BY <1>1, <1>2
  <2> QED  BY <2>1, <2>2 DEF OnePageTree
<1> QED  BY <1>2 DEF OnePageTree

\* That no catalog is packed again survives an update.
LEMMA DirectLastKept ==
  ASSUME NEW f, NEW u, NEW kind, NEW g, NEW w, Grows(f, u, kind, g, w), DirectCatalogsLast(f)
  PROVE  DirectCatalogsLast(g)
<1> SUFFICES ASSUME NEW i \in Catalogs(g), NEW j \in Catalogs(g), i <= j, IsDirect(g[i])
             PROVE  IsDirect(g[j])
  BY DEF DirectCatalogsLast
<1>1. FileGrows(f, kind, g)  BY DEF Grows
<1>2. i \in DOMAIN g /\ j \in DOMAIN g /\ g[i].type = "Catalog" /\ g[j].type = "Catalog"
  BY DEF Catalogs
<1>3. CASE IsOneOf(f, kind, g[j])  BY <1>1, <1>2, <1>3, CatalogsOfOne DEF FileGrows
<1>4. CASE j \in DOMAIN f
  <2>1. i \in DOMAIN f  BY <1>1, <1>2, <1>4 DEF FileGrows
  <2>2. g[i] = f[i] /\ g[j] = f[j]  BY <1>1, <1>4, <2>1 DEF FileGrows
  <2>3. i \in Catalogs(f) /\ j \in Catalogs(f)  BY <1>2, <1>4, <2>1, <2>2 DEF Catalogs
  <2> QED  BY <2>2, <2>3 DEF DirectCatalogsLast
<1> QED  BY <1>1, <1>2, <1>3, <1>4 DEF FileGrows

\* That dictionaries come from signatures survives an update.
LEMMA DictionariesKept ==
  ASSUME NEW f, NEW u, NEW kind, NEW g, NEW w, Grows(f, u, kind, g, w), DictionariesFrom(f, u)
  PROVE  DictionariesFrom(g, w)
<1> SUFFICES ASSUME NEW q \in DOMAIN g, "ByteRange" \in g[q].names
             PROVE  /\ IsDirect(g[q]) /\ g[q].number <= Len(g)
                    /\ \E i \in DOMAIN w : /\ IsSigning(w[i].kind) /\ w[i].from < q
                                           /\ g[q].text = w[i].from /\ g[q].number = w[i].from + 3
  BY DEF DictionariesFrom
<1>1. FileGrows(f, kind, g) /\ HistoryGrows(f, u, kind, w)  BY DEF Grows
<1>2. q \in 1..Len(g) /\ Len(f) \in Nat /\ Len(g) \in Nat /\ Len(f) < Len(g)
      /\ (q \in DOMAIN f \/ (q > Len(f) /\ IsOneOf(f, kind, g[q])))
  BY <1>1 DEF FileGrows
<1>3. ASSUME NEW p \in DOMAIN f, "ByteRange" \in f[p].names
      PROVE  /\ IsDirect(f[p]) /\ f[p].number <= Len(g) /\ f[p].number \in Nat
             /\ \E i \in DOMAIN w : /\ IsSigning(w[i].kind) /\ w[i].from < p /\ w[i].from < Len(f)
                                    /\ w[i].from \in Nat
                                    /\ f[p].text = w[i].from /\ f[p].number = w[i].from + 3
  <2>1. IsDirect(f[p]) /\ f[p].number <= Len(f)  BY <1>3 DEF DictionariesFrom
  <2>2. f[p].number \in Nat
    <3>1. f[p] \in ToSet(f)  BY DEF ToSet
    <3>2. IsPdfObject(f[p])  BY <1>1, <3>1 DEF FileGrows, IsWellFormed
    <3> QED  BY <3>2 DEF IsPdfObject
  <2>3. PICK i \in DOMAIN u : /\ IsSigning(u[i].kind) /\ u[i].from < p
                              /\ f[p].text = u[i].from /\ f[p].number = u[i].from + 3
    BY <1>3 DEF DictionariesFrom
  <2>4. i \in DOMAIN w /\ w[i] = u[i] /\ w[i].from < Len(f) /\ w[i].from \in Nat
    BY <1>1 DEF HistoryGrows
  <2> QED  BY <1>2, <2>1, <2>2, <2>3, <2>4
<1>4. CASE q \in DOMAIN f
  <2>1. g[q] = f[q]  BY <1>1, <1>4 DEF FileGrows
  <2> QED  BY <1>3, <1>4, <2>1
<1>5. CASE q > Len(f) /\ IsOneOf(f, kind, g[q])
  <2>1. /\ IsDirect(g[q])
        /\ \/ IsSigning(kind) /\ g[q].text = Len(f) /\ g[q].number = Len(f) + 3
           \/ \E p \in ToSet(f) : IsDictionary(p) /\ SameData(g[q], p)
    BY <1>1, <1>5, DictionariesOfOne DEF FileGrows
  <2>2. CASE IsSigning(kind) /\ g[q].text = Len(f) /\ g[q].number = Len(f) + 3
    <3>1. PICK n \in DOMAIN w : w[n].kind = kind /\ w[n].from = Len(f)  BY <1>1 DEF HistoryGrows
    <3>2. Len(g) = Len(f) + 3  BY <2>2 DEF Grows, SigningGrows
    <3> QED  BY <1>2, <1>5, <2>1, <2>2, <3>1, <3>2
  <2>3. ASSUME NEW o \in ToSet(f), IsDictionary(o), SameData(g[q], o)
        PROVE  /\ g[q].number <= Len(g)
               /\ \E i \in DOMAIN w : /\ IsSigning(w[i].kind) /\ w[i].from < q
                                      /\ g[q].text = w[i].from /\ g[q].number = w[i].from + 3
    <3>1. PICK p \in DOMAIN f : f[p] = o  BY <1>1, FileFacts DEF FileGrows
    <3>2. "ByteRange" \in f[p].names  BY <2>3, <3>1 DEF IsDictionary
    <3>3. g[q].number = f[p].number /\ g[q].text = f[p].text  BY <2>3, <3>1 DEF SameData
    <3>4. PICK i \in DOMAIN w : /\ IsSigning(w[i].kind) /\ w[i].from < p /\ w[i].from < Len(f)
                                /\ w[i].from \in Nat
                                /\ f[p].text = w[i].from /\ f[p].number = w[i].from + 3
      BY <1>3, <3>2
    <3>5. f[p].number <= Len(g)  BY <1>3, <3>2
    <3> QED  BY <1>2, <1>5, <3>3, <3>4, <3>5
  <2> QED  BY <2>1, <2>2, <2>3
<1> QED  BY <1>2, <1>4, <1>5

\* That only loops make fields their own children survives an update.
LEMMA LoopsKept ==
  ASSUME NEW f, NEW u, NEW kind, NEW g, NEW w, Grows(f, u, kind, g, w), LoopsAreMade(f, u)
  PROVE  LoopsAreMade(g, w)
<1> SUFFICES ASSUME \A i \in DOMAIN w : w[i].kind # "loop" PROVE NoLoops(g)
  BY DEF LoopsAreMade
<1>1. kind # "loop" /\ \A i \in DOMAIN u : u[i].kind # "loop"
  BY DEF Grows, HistoryGrows
<1>2. NoLoops(f)  BY <1>1 DEF LoopsAreMade
<1>3. ASSUME NEW o \in ToSet(g) PROVE o.id \notin Kids(o)
  <2>1. CASE o \in ToSet(f)  BY <1>2, <2>1 DEF NoLoops
  <2>2. CASE IsOneOf(f, kind, o)  BY <1>1, <1>2, <2>2, KidsOfOne DEF Grows, FileGrows
  <2> QED  BY <2>1, <2>2 DEF Grows, FileGrows
<1> QED  BY <1>3 DEF NoLoops

\* Dictionary and field of each signature survive an update where they are.
LEMMA SigningsStay ==
  ASSUME NEW f, NEW u, NEW kind, NEW g, NEW w, Grows(f, u, kind, g, w), SigningsKept(f, u),
         OnlyFieldsHaveValues(f)
  PROVE  SigningsKept(g, w)
<1>1. IsWellFormed(f) /\ Len(f) \in Nat /\ Len(g) \in Nat /\ Len(f) < Len(g)
      /\ (\A q \in 1..Len(f) : g[q] = f[q]) /\ DOMAIN f = 1..Len(f)
  <2>1. FileGrows(f, kind, g)  BY DEF Grows
  <2>2. IsWellFormed(f) /\ Len(f) \in Nat /\ Len(g) \in Nat /\ Len(f) < Len(g)
        /\ (\A q \in DOMAIN f : g[q] = f[q])
    BY <2>1 DEF FileGrows
  <2>3. DOMAIN f = 1..Len(f)  BY <2>2, FileFacts
  <2> QED  BY <2>2, <2>3
<1>2. ASSUME NEW from \in Nat, IsSigned(f, from) PROVE IsSigned(g, from)
  <2>1. from + 3 <= Len(f) /\ from + 3 <= Len(g)  BY <1>1, <1>2 DEF IsSigned
  <2>2. g[from + 1] = f[from + 1] /\ g[from + 2] = f[from + 2] /\ \A q \in 1..from + 3 : g[q] = f[q]
    BY <1>1, <2>1
  <2>3. f[from + 1].id \in Numbers(f)
    <3>1. from + 1 \in DOMAIN f  BY <1>1, <2>1
    <3> QED  BY <1>1, <3>1, FileFacts
  <2>4. ASSUME NEW o \in ToSet(g), FirstRef(o, "V") = f[from + 1].id PROVE o.id = f[from + 2].id
    <3>1. \E p \in ToSet(f) : p.id = o.id /\ FirstRef(p, "V") = f[from + 1].id
      BY <1>1, <2>3, <2>4, ValueOfOne DEF Grows, FileGrows
    <3> QED  BY <1>2, <3>1 DEF IsSigned
  <2> QED  BY <1>2, <2>1, <2>2, <2>4 DEF IsSigned
<1>3. ASSUME IsSigning(kind) PROVE IsSigned(g, Len(f))
  <2> DEFINE n == Len(f)
  <2>1. /\ Len(g) = n + 3
        /\ IsDictionary(g[n + 1]) /\ g[n + 1].id = Fresh(f, 1)
        /\ g[n + 1].number = n + 3 /\ g[n + 1].text = n
        /\ IsFieldOf(f, g[n + 2]) /\ g[n + 3].id # Fresh(f, 2)
        /\ IsWellFormed(g)
    BY <1>3 DEF Grows, SigningGrows, FileGrows
  <2>2. /\ g[n + 2].id = Fresh(f, 2) /\ "Sig" \in g[n + 2].names /\ IsDirect(g[n + 2])
        /\ RefsAfter(g[n + 2], "V") = << Fresh(f, 1) >> /\ RefsAfter(g[n + 2], "Kids") = << >>
    BY <1>1, <2>1, FieldLinks DEF IsFieldOf, IsNew, IsDirect
  <2>3. FirstRef(g[n + 2], "V") = Fresh(f, 1)  BY <2>2 DEF FirstRef
  <2>4. Fresh(f, 1) \notin Numbers(f) /\ Fresh(f, 2) \notin Numbers(f) /\ Fresh(f, 1) # Fresh(f, 2)
        /\ Fresh(f, 1) # NoReference
    <3>1. Fresh(f, 1) \notin Numbers(f) /\ Fresh(f, 1) \in Nat \ {0}  BY <1>1, NumbersAreFresh
    <3>2. Fresh(f, 2) \notin Numbers(f)  BY <1>1, NumbersAreFresh
    <3>3. Fresh(f, 1) # Fresh(f, 2)  BY <1>1, Numbered DEF Fresh
    <3> QED  BY <3>1, <3>2, <3>3 DEF NoReference
  <2>5. ASSUME NEW q \in 1..n + 3, g[q].id = g[n + 2].id PROVE q = n + 2
    <3>1. CASE q \in 1..n
      <4>1. g[q] = f[q] /\ q \in DOMAIN f  BY <1>1, <3>1
      <4>2. g[q].id \in Numbers(f)  BY <1>1, <4>1, FileFacts
      <4> QED  BY <2>2, <2>4, <2>5, <4>2
    <3>2. CASE q = n + 1 \/ q = n + 3  BY <2>1, <2>2, <2>4, <2>5, <3>2
    <3> QED  BY <1>1, <3>1, <3>2
  <2>6. ASSUME NEW o \in ToSet(g), FirstRef(o, "V") = g[n + 1].id PROVE o.id = g[n + 2].id
    <3>1. FirstRef(o, "V") = Fresh(f, 1)  BY <2>1, <2>6
    <3>2. PICK q \in 1..Len(g) : o = g[q]
      <4>1. DOMAIN g = 1..Len(g)  BY <2>1, FileFacts
      <4>2. \E q \in DOMAIN g : g[q] = o  BY <2>1, <2>6, FileFacts
      <4> QED  BY <4>1, <4>2
    <3>3. CASE q \in 1..n
      <4>1. o \in ToSet(f) /\ IsPdfObject(o)  BY <1>1, <3>2, <3>3 DEF IsWellFormed, ToSet
      <4>2. Fresh(f, 1) \in Numbers(f)  BY <1>1, <2>4, <3>1, <4>1, ReferenceIsNumber
      <4> QED  BY <2>4, <4>2
    <3>4. CASE q = n + 2  BY <3>2, <3>4
    <3>5. CASE q = n + 1 \/ q = n + 3
      <4>1. IsOneOf(f, kind, o)
        <5>1. q \in DOMAIN g /\ q \notin DOMAIN f  BY <1>1, <2>1, <3>2, <3>5, FileFacts
        <5> QED  BY <3>2, <5>1 DEF Grows, FileGrows
      <4>2. o.id # Fresh(f, 2)  BY <2>1, <2>4, <3>2, <3>5
      <4>3. IsSigning(kind)  BY <1>3
      <4>4. ~ IsFieldOf(f, o)  BY <4>2 DEF IsFieldOf, IsNew
      <4>5. CASE IsNewOne(f, kind, o)
        <5>1. "Sig" \notin o.names
          BY <4>3, <4>4, <4>5 DEF IsNewOne, IsSigning
        <5> QED  BY <1>1, <2>4, <3>1, <4>5, <5>1, NewReferences
      <4>6. ASSUME NEW p \in ToSet(f), IsVersionOf(f, kind, o, p) PROVE FALSE
        <5>1. IsChanged(o, p, "Fields") /\ "Fields" \in DOMAIN p.links
          BY <4>3, <4>6 DEF IsVersionOf, IsSigning
        <5>2. FirstRef(p, "V") = Fresh(f, 1)  BY <3>1, <5>1, SameFirstReference
        <5>3. Fresh(f, 1) \in Numbers(f)  BY <1>1, <2>4, <5>2, ReferenceIsNumber
        <5> QED  BY <2>4, <5>3
      <4>7. ASSUME NEW p \in ToSet(f), IsCopyOf(f, kind, o, p) PROVE FALSE
        BY <4>3, <4>7 DEF IsCopyOf, IsSigning
      <4> QED  BY <4>1, <4>5, <4>6, <4>7 DEF IsOneOf
    <3> QED  BY <1>1, <2>1, <3>2, <3>3, <3>4, <3>5
  <2> QED  BY <1>1, <2>1, <2>2, <2>3, <2>5, <2>6 DEF IsSigned
<1>4. ASSUME NEW i \in DOMAIN w, IsSigning(w[i].kind) PROVE IsSigned(g, w[i].from)
  <2>1. CASE i \in DOMAIN u
    <3>1. w[i] = u[i] /\ w[i].from \in Nat  BY <2>1 DEF Grows, HistoryGrows
    <3>2. IsSigned(f, u[i].from)  BY <1>4, <2>1, <3>1 DEF SigningsKept
    <3> QED  BY <1>2, <3>1, <3>2
  <2>2. CASE i \notin DOMAIN u
    <3>1. w[i].kind = kind /\ w[i].from = Len(f)  BY <2>2 DEF Grows, HistoryGrows
    <3> QED  BY <1>3, <1>4, <3>1
  <2> QED  BY <2>1, <2>2
<1> QED  BY <1>4 DEF SigningsKept

-----------------------------------------------------------------------------
(* The invariant of the specification.                                     *)

PdfInv(f, u) ==
  /\ FileInv(f, u)
  /\ OnlyFieldsHaveValues(f)
  /\ OnePageTree(f)
  /\ DirectCatalogsLast(f)
  /\ DictionariesFrom(f, u)
  /\ SigningsKept(f, u)
  /\ LoopsAreMade(f, u)

\* A file has a signature and a field for it from the first update on.
LEMMA SignaturesRemain ==
  ASSUME NEW f, NEW u, FileInv(f, u), NEW kind, NEW g, NEW w, Grows(f, u, kind, g, w),
         u # << >> \/ kind = "sign"
  PROVE  AllDictionaries(g) # {} /\ HasField(g)
<1>1. FileGrows(f, kind, g)  BY DEF Grows
<1>2. CASE u # << >>
  <2>1. AllDictionaries(f) # {} /\ HasField(f)  BY <1>2 DEF FileInv
  <2>2. PICK d \in DOMAIN f : IsDictionary(f[d])  BY <2>1 DEF AllDictionaries
  <2>3. d \in DOMAIN g /\ g[d] = f[d]  BY <1>1 DEF FileGrows
  <2>4. d \in AllDictionaries(g)  BY <2>2, <2>3 DEF AllDictionaries
  <2>5. HasField(g)  BY <1>1, <2>1 DEF FileGrows, HasField
  <2> QED  BY <2>4, <2>5
<1>3. CASE kind = "sign"
  <2>1. /\ Len(g) = Len(f) + 3 /\ IsDictionary(g[Len(f) + 1]) /\ IsFieldOf(f, g[Len(f) + 2])
    BY <1>3 DEF Grows, SigningGrows, IsSigning
  <2>2. Len(f) \in Nat /\ DOMAIN g = 1..Len(g)  BY <1>1, FileFacts DEF FileGrows
  <2>3. Len(f) + 1 \in DOMAIN g /\ Len(f) + 2 \in DOMAIN g  BY <2>1, <2>2
  <2>4. Len(f) + 1 \in AllDictionaries(g)  BY <2>1, <2>3 DEF AllDictionaries
  <2>5. HasField(g)  BY <2>1, <2>3 DEF HasField, ToSet, IsFieldOf
  <2> QED  BY <2>4, <2>5
<1> QED  BY <1>2, <1>3

\* The invariant of growing files survives an update.
LEMMA InvKept ==
  ASSUME NEW f, NEW u, PdfInv(f, u), NEW kind, CanAppend(f, kind), u # << >> \/ kind = "sign"
  PROVE  PdfInv(f \o Appended(f, kind), Append(u, [kind |-> kind, from |-> Len(f)]))
<1> DEFINE g == f \o Appended(f, kind)
           T == [kind : Kinds, from : Nat]
           r == [kind |-> kind, from |-> Len(f)]
           w == Append(u, r)
<1>1. FileInv(f, u)  BY DEF PdfInv
<1>2. Grows(f, u, kind, g, w)  BY <1>1, UpdateGrows
<1>3. w \in Seq(T)
  <2>1. u \in Seq(T)  BY <1>1 DEF FileInv
  <2>2. r \in T  BY <1>2 DEF Grows, FileGrows
  <2> HIDE DEF T, r
  <2> QED  BY <2>1, <2>2
<1> HIDE DEF g, w
<1>4. AllDictionaries(g) # {} /\ HasField(g)  BY <1>1, <1>2, SignaturesRemain
<1>5. IsWellFormed(g) /\ Len(f) \in Nat /\ Len(g) \in Nat /\ Len(f) < Len(g)
  BY <1>2 DEF Grows, FileGrows
<1>6. ASSUME NEW i \in DOMAIN w PROVE w[i].from < Len(g)
  <2>1. w[i].from \in Nat /\ w[i].from <= Len(f)  BY <1>2, <1>5 DEF Grows, HistoryGrows
  <2> QED  BY <1>5, <2>1
<1>7. FileInv(g, w)  BY <1>3, <1>4, <1>5, <1>6 DEF FileInv
<1>8. OnlyFieldsHaveValues(g)  BY <1>2, ValuesKept DEF PdfInv
<1>9. OnePageTree(g)  BY <1>2, PageTreeKept DEF PdfInv
<1>10. DirectCatalogsLast(g)  BY <1>2, DirectLastKept DEF PdfInv
<1>11. DictionariesFrom(g, w)  BY <1>2, DictionariesKept DEF PdfInv
<1>12. SigningsKept(g, w)  BY <1>2, SigningsStay DEF PdfInv
<1>13. LoopsAreMade(g, w)  BY <1>2, LoopsKept DEF PdfInv
<1>14. PdfInv(g, w)  BY <1>7, <1>8, <1>9, <1>10, <1>11, <1>12, <1>13 DEF PdfInv
<1> QED  BY <1>14 DEF g, w

\* The invariant of growing files holds of a file before it is signed.
LEMMA InvAtStart ==
  ASSUME NEW f \in Bases
  PROVE  PdfInv(f, << >>)
<1>1. IsWellFormed(f) /\ IsUnsigned(f) /\ \A i, j \in Catalogs(f) : i = j  BY BasesAssumption
<1>2. DOMAIN << >> = {} /\ << >> \in Seq([kind : Kinds, from : Nat])  OBVIOUS
<1>3. FileInv(f, << >>)  BY <1>1, <1>2 DEF FileInv
<1>4. ASSUME NEW o \in ToSet(f) PROVE "ByteRange" \notin o.names /\ FirstRef(o, "V") = NoReference
  <2>1. ~ HasAnyName(o, {"ByteRange", "Sig", "V", "DSS"})  BY <1>1 DEF IsUnsigned
  <2>2. "ByteRange" \notin o.names /\ "V" \notin DOMAIN o.links  BY <2>1 DEF HasAnyName, HasName
  <2> QED  BY <2>2 DEF FirstRef, RefsAfter
<1>5. OnlyFieldsHaveValues(f)  BY <1>4 DEF OnlyFieldsHaveValues
<1>6. \A i, j \in Catalogs(f) : f[i] = f[j]  BY <1>1
<1>7. OnePageTree(f)
  <2>1. \A o \in ToSet(f) : \E i \in DOMAIN f : f[i] = o  BY <1>1, FileFacts
  <2> QED  BY <1>6, <2>1 DEF OnePageTree, Catalogs
<1>8. DirectCatalogsLast(f)  BY <1>6, Zenon DEF DirectCatalogsLast
<1>9. DictionariesFrom(f, << >>)  BY <1>4 DEF DictionariesFrom, ToSet
<1>10. SigningsKept(f, << >>)  BY <1>2 DEF SigningsKept
<1>11. LoopsAreMade(f, << >>)  BY <1>1 DEF LoopsAreMade, NoLoops, IsUnsigned
<1> QED  BY <1>3, <1>5, <1>7, <1>8, <1>9, <1>10, <1>11 DEF PdfInv

\* What an update finds in the file it is written to.
LEMMA UpdatesAreKinds ==
  ASSUME NEW kind \in Maintenance \cup Edits, PdfInv(file, updates), Update(kind)
  PROVE  CanAppend(file, kind) /\ (updates # << >> \/ kind = "sign")
<1>1. kind \in Kinds  BY KindsAssumption DEF Kinds
<1>2. kind # "sign" => updates # << >>  BY DEF Update
<1>3. kind \in {"extend", "renew"} => HasDss(file)  BY DEF Update
<1> QED  BY <1>1, <1>2, <1>3 DEF CanAppend, PdfInv, FileInv

\* Every file that is written keeps to the invariant.
THEOREM PdfInvariant == Spec => []PdfInv(file, updates)
<1>1. Init => PdfInv(file, updates)  BY InvAtStart DEF Init
<1>2. PdfInv(file, updates) /\ [Next]_vars => PdfInv(file, updates)'
  <2> SUFFICES ASSUME PdfInv(file, updates), [Next]_vars PROVE PdfInv(file', updates')
    BY DEF PdfInv, FileInv, OnlyFieldsHaveValues, OnePageTree, DirectCatalogsLast,
           DictionariesFrom, SigningsKept, LoopsAreMade, IsSigned
  <2>1. CASE UNCHANGED vars  BY <2>1 DEF vars
  <2>2. ASSUME NEW kind \in Maintenance \cup Edits, Update(kind) PROVE PdfInv(file', updates')
    <3>1. CanAppend(file, kind) /\ (updates # << >> \/ kind = "sign")
      BY <2>2, UpdatesAreKinds
    <3>2. PdfInv(file \o Appended(file, kind), Append(updates, [kind |-> kind, from |-> Len(file)]))
      BY <3>1, InvKept
    <3> QED  BY <2>2, <3>2 DEF Update
  <2> QED  BY <2>1, <2>2 DEF Next, Maintain, Edit
<1> QED  BY <1>1, <1>2, PTL DEF Spec

\* Evidence once in the file keeps counting: no update takes a response away from
\* embedded_ocsp_responses, even one whose DSS no longer names it.
THEOREM EvidenceStaysForever == Spec => EvidenceStays
<1>1. PdfInv(file, updates) /\ [Next]_vars
        => [EmbeddedOcsp(file) \subseteq EmbeddedOcsp(file')]_vars
  <2> SUFFICES ASSUME PdfInv(file, updates), Next
               PROVE  EmbeddedOcsp(file) \subseteq EmbeddedOcsp(file')
    OBVIOUS
  <2>1. PICK kind \in Maintenance \cup Edits : Update(kind)  BY DEF Next, Maintain, Edit
  <2>2. CanAppend(file, kind)  BY <2>1, UpdatesAreKinds
  <2>3. IsWellFormed(file)  BY DEF PdfInv, FileInv
  <2>4. AreKept(file, Appended(file, kind))  BY <2>2, <2>3, AppendedKeeps
  <2>5. EmbeddedOcsp(file) \subseteq EmbeddedOcsp(file \o Appended(file, kind))
    BY <2>3, <2>4, EvidenceKept
  <2>6. file' = file \o Appended(file, kind)  BY <2>1 DEF Update
  <2> QED  BY <2>5, <2>6
<1> QED  BY <1>1, PdfInvariant, PTL DEF Spec, EvidenceStays

-----------------------------------------------------------------------------
(* The dictionary of a signing update is validated.                        *)

\* A field with a value is an object in force that refers to it.
LEMMA FieldsAreInForce ==
  ASSUME NEW f, IsWellFormed(f), NEW id, NEW field \in FieldsOf(f, id)
  PROVE  \E o \in ToSet(f) : /\ o.id = field /\ FirstRef(o, "V") = id /\ IsDirect(o)
                             /\ o \in InForce(f)
<1>1. PICK o \in InForce(f) : o.id = field /\ FirstRef(o, "V") = id
  BY DEF FieldsOf, FieldObjects
<1>2. PICK i \in DOMAIN f : o = f[i] /\ IsDirect(f[i])
  BY DEF InForce, Current
<1> QED  BY <1>1, <1>2 DEF ToSet

\* An object outside of object streams has a latest version there.
LEMMA DirectVersionIs ==
  ASSUME NEW f, IsWellFormed(f), NEW o \in ToSet(f), IsDirect(o)
  PROVE  /\ Holds(Direct(f), o.id)
         /\ Latest(Direct(f), o.id) \in ToSet(f) /\ Latest(Direct(f), o.id).id = o.id
         /\ IsDirect(Latest(Direct(f), o.id))
<1> DEFINE s == Direct(f)
<1>1. f \in Seq(ToSet(f))  BY FileFacts
<1>2. /\ IsPart(s) /\ DOMAIN s = {i \in DOMAIN f : IsDirect(f[i])}
      /\ \A i \in DOMAIN s : s[i] = f[i]
  BY <1>1, SequencesAreParts
<1> HIDE DEF s
<1>3. PICK k \in DOMAIN f : f[k] = o  BY FileFacts
<1>4. k \in DOMAIN s /\ s[k].id = o.id  BY <1>2, <1>3
<1>5. Holds(s, o.id)  BY <1>4 DEF Holds
<1>6. PICK i \in DOMAIN s : Latest(s, o.id) = s[i] /\ s[i].id = o.id  BY <1>2, <1>5, LatestIs
<1>7. i \in DOMAIN f /\ s[i] = f[i] /\ IsDirect(f[i])  BY <1>2
<1>8. s[i] \in ToSet(f)  BY <1>7 DEF ToSet
<1> QED  BY <1>5, <1>6, <1>7, <1>8 DEF s

\* The dictionary of a signature is among those that are validated.
LEMMA SignedIsUsable ==
  ASSUME NEW f, IsWellFormed(f), NEW u, DictionariesFrom(f, u), NEW from \in Nat, IsSigned(f, from),
         ~ RefersToItself(f, from + 1), \A i \in DOMAIN u : u[i].from \in Nat
  PROVE  from + 1 \in Usable(f)
<1> DEFINE p == from + 1
<1>1. /\ p \in DOMAIN f /\ IsDictionary(f[p]) /\ f[p].text = from /\ f[p].number = from + 3
  BY FileFacts DEF IsSigned
<1>2. p \in AllDictionaries(f)  BY <1>1 DEF AllDictionaries
<1>3. ASSUME NEW other \in AllDictionaries(f), SameData(f[other], f[p]) PROVE p <= other
  <2>1. other \in DOMAIN f /\ "ByteRange" \in f[other].names /\ f[other].text = from
    BY <1>1, <1>3 DEF AllDictionaries, IsDictionary, SameData
  <2>2. other \in Nat  BY <2>1, FileFacts
  <2>3. PICK i \in DOMAIN u : u[i].from < other /\ f[other].text = u[i].from
    BY <2>1 DEF DictionariesFrom
  <2> QED  BY <2>1, <2>2, <2>3
<1>4. p \in Dictionaries(f)  BY <1>2, <1>3 DEF Dictionaries
<1>5. ~ IsOrphan(f, p)  BY <1>1 DEF IsOrphan, SignedSize
<1> QED  BY <1>4, <1>5 DEF Usable

\* A signature that a field of its own revision names stays among those
\* usable_signature_dictionaries leaves, whatever is appended, unless that
\* field is made its own child.
THEOREM SignatureKeptForever == Spec => []SignatureKept
<1>1. PdfInv(file, updates) => SignatureKept
  <2> SUFFICES ASSUME PdfInv(file, updates), "loop" \notin KindsFrom(0),
                      NEW i \in DOMAIN updates, updates[i].kind = "sign"
               PROVE  updates[i].from + 1 \in Usable(file)
    BY DEF SignatureKept
  <2> DEFINE from == updates[i].from
             T == [kind : Kinds, from : Nat]
  <2>1. IsWellFormed(file) /\ DictionariesFrom(file, updates) /\ IsSigned(file, from)
    BY DEF PdfInv, FileInv, SigningsKept, IsSigning
  <2>2. \A j \in DOMAIN updates : updates[j].from \in Nat
    <3>1. updates \in Seq(T)  BY DEF PdfInv, FileInv
    <3> HIDE DEF T
    <3>2. \A j \in DOMAIN updates : updates[j] \in T  BY <3>1
    <3> QED  BY <3>2 DEF T
  <2>3. NoLoops(file)
    <3>1. \A j \in DOMAIN updates : updates[j].kind # "loop"  BY <2>2 DEF KindsFrom
    <3> QED  BY <3>1 DEF PdfInv, LoopsAreMade
  <2>4. ~ RefersToItself(file, from + 1)
    <3> SUFFICES ASSUME NEW field \in FieldsOf(file, file[from + 1].id)
                 PROVE  field \notin Kids(Latest(Direct(file), field))
      BY DEF RefersToItself
    <3>1. PICK o \in ToSet(file) : o.id = field /\ IsDirect(o)  BY <2>1, FieldsAreInForce
    <3>2. Latest(Direct(file), field) \in ToSet(file) /\ Latest(Direct(file), field).id = field
      BY <2>1, <3>1, DirectVersionIs
    <3> QED  BY <2>3, <3>2 DEF NoLoops
  <2>5. from \in Nat  BY <2>2
  <2> HIDE DEF from
  <2>6. from + 1 \in Usable(file)  BY <2>1, <2>2, <2>4, <2>5, SignedIsUsable
  <2> QED  BY <2>6 DEF from
<1> QED  BY <1>1, PdfInvariant, PTL

-----------------------------------------------------------------------------
(* What was signed and what came later.                                    *)

\* The objects of the first part of a file.
LEMMA PrefixIs ==
  ASSUME NEW S, NEW f \in Seq(S), NEW n \in Nat, n <= Len(f)
  PROVE  /\ Prefix(f, n) \in Seq(S) /\ Len(Prefix(f, n)) = n /\ DOMAIN Prefix(f, n) = 1..n
         /\ \A i \in 1..n : i \in DOMAIN f /\ Prefix(f, n)[i] = f[i]
         /\ ToSet(Prefix(f, n)) \subseteq ToSet(f)
<1>1. Len(f) \in Nat /\ DOMAIN f = 1..Len(f) /\ \A i \in 1..Len(f) : f[i] \in S  OBVIOUS
<1>2. \A i \in 1..n : f[i] \in S  BY <1>1
<1>3. /\ SubSeq(f, 1, n) \in Seq(S) /\ Len(SubSeq(f, 1, n)) = IF 1 <= n THEN n - 1 + 1 ELSE 0
      /\ \A i \in 1..n - 1 + 1 : SubSeq(f, 1, n)[i] = f[1 + i - 1]
  BY <1>2, SubSeqProperties
<1> DEFINE s == Prefix(f, n)
<1>4. s \in Seq(S) /\ Len(s) = n /\ \A i \in 1..n : s[i] = f[i]  BY <1>3 DEF Prefix
<1> HIDE DEF s
<1>5. DOMAIN s = 1..n  BY <1>4
<1>6. ToSet(s) \subseteq ToSet(f)  BY <1>1, <1>4, <1>5 DEF ToSet
<1> QED  BY <1>1, <1>4, <1>5, <1>6 DEF s

\* The objects of the rest of a file.
LEMMA SuffixIs ==
  ASSUME NEW S, NEW f \in Seq(S), NEW n \in Nat, n <= Len(f)
  PROVE  /\ Suffix(f, n) \in Seq(S) /\ Len(Suffix(f, n)) = Len(f) - n
         /\ DOMAIN Suffix(f, n) = 1..Len(f) - n
         /\ \A i \in 1..Len(f) - n : /\ n + i \in DOMAIN f /\ n + i > n
                                     /\ Suffix(f, n)[i] = f[n + i]
         /\ \A q \in DOMAIN f : q > n => q - n \in 1..Len(f) - n /\ Suffix(f, n)[q - n] = f[q]
<1>1. Len(f) \in Nat /\ DOMAIN f = 1..Len(f) /\ \A i \in 1..Len(f) : f[i] \in S  OBVIOUS
<1> DEFINE m == n + 1
           s == Suffix(f, n)
<1>2. m \in Int /\ Len(f) \in Int /\ \A i \in m..Len(f) : f[i] \in S  BY <1>1
<1>3. s = SubSeq(f, m, Len(f))  BY DEF Suffix
<1> HIDE DEF m, s
<1>4. /\ s \in Seq(S) /\ Len(s) = IF m <= Len(f) THEN Len(f) - m + 1 ELSE 0
      /\ \A i \in 1..Len(f) - m + 1 : s[i] = f[m + i - 1]
  BY <1>2, <1>3, SubSeqProperties
<1>5. Len(s) = Len(f) - n /\ \A i \in 1..Len(f) - n : s[i] = f[n + i]
  <2>1. Len(f) - m + 1 = Len(f) - n  BY <1>1 DEF m
  <2>2. CASE m <= Len(f)
    <3>1. Len(s) = Len(f) - n  BY <1>4, <2>1, <2>2
    <3>2. ASSUME NEW i \in 1..Len(f) - n PROVE s[i] = f[n + i]
      <4>1. i \in 1..Len(f) - m + 1  BY <2>1
      <4>2. s[i] = f[m + i - 1]  BY <1>4, <4>1
      <4>3. m + i - 1 = n + i  BY <1>1 DEF m
      <4> QED  BY <4>2, <4>3
    <3> QED  BY <3>1, <3>2
  <2>3. CASE ~ (m <= Len(f))
    <3>1. Len(s) = 0  BY <1>4, <2>3
    <3>2. ~ (n + 1 <= Len(f))  BY <2>3 DEF m
    <3> DEFINE len == Len(f)
    <3>3. len \in Nat /\ n <= len /\ ~ (n + 1 <= len)  BY <1>1, <3>2
    <3> HIDE DEF len
    <3>4. len - n = 0 /\ len = n  BY <3>3
    <3>5. Len(f) - n = 0 /\ Len(f) = n  BY <3>4 DEF len
    <3>6. 1..Len(f) - n = {}
      <4>1. 1..0 = {}  OBVIOUS
      <4> QED  BY <3>5, <4>1
    <3> QED  BY <3>1, <3>5, <3>6
  <2> QED  BY <2>2, <2>3
<1>6. DOMAIN s = 1..Len(f) - n  BY <1>4, <1>5
<1>7. ASSUME NEW q \in DOMAIN f, q > n PROVE q - n \in 1..Len(f) - n /\ s[q - n] = f[q]
  <2>1. q - n \in 1..Len(f) - n /\ n + (q - n) = q  BY <1>1, <1>7
  <2> QED  BY <1>5, <2>1
<1>8. \A i \in 1..Len(f) - n : n + i \in DOMAIN f /\ n + i > n  BY <1>1
<1> QED  BY <1>4, <1>5, <1>6, <1>7, <1>8 DEF s

\* What was there before is not touched by what is appended.
LEMMA PrefixStays ==
  ASSUME NEW S, NEW f \in Seq(S), NEW T, NEW g \in Seq(T), Len(f) <= Len(g),
         \A q \in DOMAIN f : g[q] = f[q], NEW n \in Nat, n <= Len(f)
  PROVE  Prefix(g, n) = Prefix(f, n)
<1> DEFINE s == Prefix(f, n)
           t == Prefix(g, n)
<1>1. Len(f) \in Nat /\ Len(g) \in Nat /\ DOMAIN f = 1..Len(f)  OBVIOUS
<1>2. s \in Seq(S) /\ Len(s) = n /\ \A i \in 1..n : s[i] = f[i] /\ i \in DOMAIN f  BY PrefixIs
<1>3. n <= Len(g)  BY <1>1
<1>4. t \in Seq(T) /\ Len(t) = n /\ \A i \in 1..n : t[i] = g[i]  BY <1>3, PrefixIs
<1> HIDE DEF s, t
<1>5. s \in Seq(S \cup T) /\ t \in Seq(S \cup T) /\ \A i \in 1..n : s[i] = t[i]
  BY <1>2, <1>4
<1>6. s = t  BY <1>2, <1>4, <1>5, SeqEqual
<1> QED  BY <1>6 DEF s, t

\* The part as long as the file is the file.
LEMMA WholePrefix ==
  ASSUME NEW S, NEW f \in Seq(S)
  PROVE  Prefix(f, Len(f)) = f
<1> DEFINE s == Prefix(f, Len(f))
<1>1. Len(f) \in Nat /\ Len(f) <= Len(f)  OBVIOUS
<1>2. s \in Seq(S) /\ Len(s) = Len(f) /\ \A i \in 1..Len(f) : s[i] = f[i]  BY <1>1, PrefixIs
<1> HIDE DEF s
<1>3. s = f  BY <1>2, SeqEqual
<1> QED  BY <1>3 DEF s

-----------------------------------------------------------------------------
(* The order of incremental_objects_with_object_streams has a last object. *)

\* The order of the objects is a strict total order, packed objects included.
LEMMA PrecedenceIsOrder ==
  ASSUME NEW f, \A o \in ToSet(f) : IsPdfObject(o), NEW i \in DOMAIN f, NEW j \in DOMAIN f,
         i \in Nat, j \in Nat
  PROVE  /\ i # j => Precedes(f, i, j) \/ Precedes(f, j, i)
         /\ ~ (Precedes(f, i, j) /\ Precedes(f, j, i))
         /\ \A k \in DOMAIN f : k \in Nat /\ Precedes(f, i, j) /\ Precedes(f, j, k) => Precedes(f, i, k)
<1>1. \A k \in DOMAIN f : f[k].packed \in Nat  BY DEF ToSet, IsPdfObject
<1>2. ASSUME NEW k \in DOMAIN f, k \in Nat PROVE Start(f, k) \in Nat
  BY <1>1, <1>2 DEF Start, Span
<1>3. Start(f, i) \in Nat /\ Start(f, j) \in Nat  BY <1>2
<1>4. i # j => Precedes(f, i, j) \/ Precedes(f, j, i)  BY <1>3 DEF Precedes
<1>5. ~ (Precedes(f, i, j) /\ Precedes(f, j, i))  BY <1>3 DEF Precedes
<1>6. ASSUME NEW k \in DOMAIN f, k \in Nat, Precedes(f, i, j), Precedes(f, j, k)
      PROVE  Precedes(f, i, k)
  <2>1. Start(f, k) \in Nat  BY <1>2, <1>6
  <2> QED  BY <1>3, <1>6, <2>1 DEF Precedes
<1> QED  BY <1>4, <1>5, <1>6

\* There is a last among some places of a file.
LEMMA LastExists ==
  ASSUME NEW f, IsWellFormed(f), NEW places, places \subseteq DOMAIN f, places # {}
  PROVE  \E i \in places : \A j \in places \ {i} : Precedes(f, j, i)
<1> DEFINE Upto(k) == {i \in places : i <= k}
           HasLast(P) == P # {} => \E i \in P : \A j \in P \ {i} : Precedes(f, j, i)
           Bad == {k \in Nat : ~ HasLast(Upto(k))}
<1>1. Len(f) \in Nat /\ DOMAIN f = 1..Len(f) /\ \A o \in ToSet(f) : IsPdfObject(o)
  BY FileFacts DEF IsWellFormed
<1>2. Bad = {}
  <2> SUFFICES ASSUME Bad # {} PROVE FALSE  OBVIOUS
  <2>1. Bad \subseteq Nat  OBVIOUS
  <2>2. PICK k \in Bad : \A m \in Bad : k <= m  BY <2>1, LeastNatural
  <2>3. k \in Nat /\ ~ HasLast(Upto(k))  BY <2>2
  <2>4. k # 0
    <3>1. Upto(0) = {}  BY <1>1
    <3>2. HasLast(Upto(0))  BY <3>1
    <3> QED  BY <2>3, <3>2
  <2>5. HasLast(Upto(k - 1))
    <3>1. k - 1 \in Nat /\ ~ (k <= k - 1)  BY <2>3, <2>4
    <3> QED  BY <2>2, <3>1
  <2>6. ASSUME NEW i \in places PROVE i <= k <=> (i <= k - 1 \/ i = k)
    <3>1. i \in Nat /\ k \in Nat  BY <1>1, <2>3
    <3> QED  BY <3>1
  <2>7. k \in places /\ Upto(k) = Upto(k - 1) \cup {k}
    <3>1. CASE k \notin places
      <4>1. Upto(k) = Upto(k - 1)  BY <2>6, <3>1
      <4> QED  BY <2>3, <2>5, <4>1
    <3>2. CASE k \in places
      <4>1. k <= k  BY <2>3
      <4>2. Upto(k) = Upto(k - 1) \cup {k}  BY <2>6, <3>2, <4>1
      <4> QED  BY <3>2, <4>2
    <3> QED  BY <3>1, <3>2
  <2>8. \A i \in places : i \in DOMAIN f /\ i \in Nat  BY <1>1
  <2>9. Upto(k - 1) \subseteq places /\ k \notin Upto(k - 1)  BY <1>1, <2>3
  <2>10. Upto(k - 1) # {}
    <3>1. HasLast({k})  OBVIOUS
    <3> QED  BY <2>3, <2>7, <3>1
  <2>11. PICK i \in Upto(k - 1) : \A j \in Upto(k - 1) \ {i} : Precedes(f, j, i)
    BY <2>5, <2>10
  <2> DEFINE P == Upto(k - 1)
             Q == Upto(k)
  <2>12. i \in P /\ P \subseteq places /\ k \notin P /\ Q = P \cup {k} /\ ~ HasLast(Q)
         /\ \A j \in P \ {i} : Precedes(f, j, i)
    BY <2>3, <2>7, <2>9, <2>11
  <2> HIDE DEF P, Q
  <2>13. i \in DOMAIN f /\ i \in Nat /\ k \in DOMAIN f /\ k \in Nat /\ i # k
    BY <2>7, <2>8, <2>12
  <2>14. CASE Precedes(f, i, k)
    <3>1. ASSUME NEW j \in P PROVE Precedes(f, j, k)
      <4>1. j \in DOMAIN f /\ j \in Nat /\ (j # i => Precedes(f, j, i))  BY <2>8, <2>12, <3>1
      <4> QED  BY <1>1, <2>13, <2>14, <4>1, PrecedenceIsOrder
    <3>2. k \in Q /\ \A j \in Q \ {k} : Precedes(f, j, k)  BY <2>12, <3>1
    <3> QED  BY <2>12, <3>2
  <2>15. CASE Precedes(f, k, i)
    <3>1. i \in Q /\ \A j \in Q \ {i} : Precedes(f, j, i)  BY <2>12, <2>15
    <3> QED  BY <2>12, <3>1
  <2> QED  BY <1>1, <2>13, <2>14, <2>15, PrecedenceIsOrder
<1>3. HasLast(Upto(Len(f)))  BY <1>1, <1>2
<1>4. Upto(Len(f)) = places  BY <1>1
<1> QED  BY <1>3, <1>4

\* LastOf is one of the objects, and the same in every file that has them.
LEMMA LastIs ==
  ASSUME NEW f, IsWellFormed(f), NEW places, places \subseteq DOMAIN f, places # {}
  PROVE  \E i \in places : LastOf(f, places) = f[i] /\ \A j \in places \ {i} : Precedes(f, j, i)
<1> DEFINE i == CHOOSE i \in places : \A j \in places \ {i} : Precedes(f, j, i)
<1>1. i \in places /\ \A j \in places \ {i} : Precedes(f, j, i)  BY LastExists, Zenon
<1>2. LastOf(f, places) = f[i]  BY Zenon DEF LastOf
<1> HIDE DEF i
<1> QED  BY <1>1, <1>2

\* The last of the same places with the same objects is the same.
LEMMA SameLast ==
  ASSUME NEW f, IsWellFormed(f), NEW g, IsWellFormed(g), NEW places, places # {},
         \A q \in places : q \in DOMAIN f /\ q \in DOMAIN g /\ f[q] = g[q]
  PROVE  LastOf(f, places) = LastOf(g, places)
<1>1. places \subseteq DOMAIN f /\ places \subseteq DOMAIN g  OBVIOUS
<1>2. PICK i \in places : LastOf(f, places) = f[i] /\ \A j \in places \ {i} : Precedes(f, j, i)
  BY <1>1, LastIs
<1>3. PICK k \in places : LastOf(g, places) = g[k] /\ \A j \in places \ {k} : Precedes(g, j, k)
  BY <1>1, LastIs
<1>4. i = k
  <2> SUFFICES ASSUME i # k PROVE FALSE  OBVIOUS
  <2>1. Precedes(f, k, i) /\ Precedes(g, i, k)  BY <1>2, <1>3
  <2>2. Precedes(f, i, k)  BY <2>1 DEF Precedes, Start, Span
  <2>3. i \in Nat /\ k \in Nat /\ i \in DOMAIN f /\ k \in DOMAIN f  BY FileFacts
  <2>4. \A o \in ToSet(f) : IsPdfObject(o)  BY DEF IsWellFormed
  <2> QED  BY <2>1, <2>2, <2>3, <2>4, PrecedenceIsOrder
<1> QED  BY <1>2, <1>3, <1>4

-----------------------------------------------------------------------------
(* What the updates after a signature append.                              *)

QuietKinds == {"dss", "vri", "extend", "renew", "metadata"}

\* The kinds of the updates from a size of the file on.
KindsAfter(u, n) == {u[i].kind : i \in {k \in DOMAIN u : u[k].from >= n}}

\* An object that leaves what was signed, s of size n, alone.
IsMaintained(o, s, n) ==
  /\ o.id \notin Numbers(s) \/ IsKept(o)
  /\ "ByteRange" \in o.names => o.text >= n
  /\ o.type # "Pages"
Maintained(f, u, n) ==
  KindsAfter(u, n) \subseteq MaintenanceKinds =>
    \A q \in DOMAIN f : q > n => IsMaintained(f[q], Prefix(f, n), n)

\* An object of a revision that does not sign.
IsQuiet(o, s) ==
  \/ /\ o.type = "Catalog" /\ "DSS" \in DOMAIN o.links
     /\ SameText(WithoutAdditions(CatalogOf(s)), WithoutAdditions(o))
  \/ "ModDate" \in o.names
  \/ o.type = "DSS"
  \/ o.id \notin Numbers(s) /\ o.type # "Catalog" /\ ~ Disallowed(o)
Quiet(f, u, n) ==
  KindsAfter(u, n) \subseteq QuietKinds =>
    \A q \in DOMAIN f : q > n => IsQuiet(f[q], Prefix(f, n))

\* An update adds its kind to those after a place.
LEMMA KindsGrow ==
  ASSUME NEW f, NEW u, NEW kind, NEW g, NEW w, Grows(f, u, kind, g, w),
         NEW n \in Nat, n <= Len(f)
  PROVE  KindsAfter(w, n) = KindsAfter(u, n) \cup {kind}
<1>1. HistoryGrows(f, u, kind, w) /\ Len(f) \in Nat  BY DEF Grows, FileGrows
<1>2. PICK m \in DOMAIN w : /\ w[m].kind = kind /\ w[m].from = Len(f)
                            /\ \A i \in DOMAIN w : i \in DOMAIN u \/ i = m
  BY <1>1 DEF HistoryGrows
<1>3. \A i \in DOMAIN u : i \in DOMAIN w /\ w[i] = u[i]  BY <1>1 DEF HistoryGrows
<1>4. w[m].from >= n  BY <1>1, <1>2
<1>5. KindsAfter(w, n) \subseteq KindsAfter(u, n) \cup {kind}
  BY <1>2, <1>3 DEF KindsAfter
<1>6. KindsAfter(u, n) \subseteq KindsAfter(w, n)  BY <1>3 DEF KindsAfter
<1>7. kind \in KindsAfter(w, n)  BY <1>2, <1>4 DEF KindsAfter
<1> QED  BY <1>5, <1>6, <1>7

\* The part that was signed stays as it is.
LEMMA SignedPartStays ==
  ASSUME NEW f, NEW u, NEW kind, NEW g, NEW w, Grows(f, u, kind, g, w),
         NEW n \in Nat, n <= Len(f)
  PROVE  /\ Prefix(g, n) = Prefix(f, n) /\ n <= Len(g)
         /\ ToSet(Prefix(f, n)) \subseteq ToSet(f) /\ Numbers(Prefix(f, n)) \subseteq Numbers(f)
<1>1. FileGrows(f, kind, g)  BY DEF Grows
<1>2. f \in Seq(ToSet(f)) /\ g \in Seq(ToSet(g))  BY <1>1, FileFacts DEF FileGrows
<1>3. /\ Len(f) \in Nat /\ Len(g) \in Nat /\ Len(f) <= Len(g) /\ \A q \in DOMAIN f : g[q] = f[q]
  BY <1>1 DEF FileGrows
<1>4. Prefix(g, n) = Prefix(f, n)  BY <1>2, <1>3, PrefixStays
<1>5. ToSet(Prefix(f, n)) \subseteq ToSet(f)  BY <1>2, PrefixIs
<1>6. Numbers(Prefix(f, n)) \subseteq Numbers(f)  BY <1>5 DEF Numbers, ToSet
<1>7. n <= Len(g)  BY <1>3
<1> QED  BY <1>4, <1>5, <1>6, <1>7

\* That maintenance rewrites only what it may survives an update.
LEMMA MaintainedKept ==
  ASSUME NEW f, NEW u, NEW kind, NEW g, NEW w, Grows(f, u, kind, g, w),
         NEW n \in Nat, n <= Len(f), Maintained(f, u, n)
  PROVE  Maintained(g, w, n)
<1> DEFINE s == Prefix(f, n)
<1>1. FileGrows(f, kind, g) /\ IsWellFormed(f) /\ Len(f) \in Nat  BY DEF Grows, FileGrows
<1>2. Prefix(g, n) = s /\ Numbers(s) \subseteq Numbers(f)  BY SignedPartStays
<1>3. KindsAfter(w, n) = KindsAfter(u, n) \cup {kind}  BY KindsGrow
<1> HIDE DEF s
<1> SUFFICES ASSUME KindsAfter(w, n) \subseteq MaintenanceKinds, NEW q \in DOMAIN g, q > n
             PROVE  IsMaintained(g[q], s, n)
  BY <1>2 DEF Maintained
<1>4. KindsAfter(u, n) \subseteq MaintenanceKinds /\ kind \in MaintenanceKinds  BY <1>3
<1>5. CASE q \in DOMAIN f
  <2>1. g[q] = f[q]  BY <1>1, <1>5 DEF FileGrows
  <2> QED  BY <1>4, <1>5, <2>1 DEF Maintained, s
<1>6. CASE IsOneOf(f, kind, g[q])
  <2> DEFINE o == g[q]
  <2>1. o.id \notin Numbers(f) \/ IsKept(o)  BY <1>1, <1>4, <1>6, MaintainedOne
  <2>2. o.type # "Pages"  BY <1>1, <1>4, <1>6, MaintainedOne
  <2>3. "ByteRange" \in o.names => o.text = Len(f)
    BY <1>1, <1>4, <1>6, DictionariesOfOne DEF MaintenanceKinds
  <2>4. Len(f) >= n  BY <1>1
  <2> HIDE DEF o
  <2>5. IsMaintained(o, s, n)  BY <1>2, <2>1, <2>2, <2>3, <2>4 DEF IsMaintained
  <2> QED  BY <2>5 DEF o
<1> QED  BY <1>1, <1>5, <1>6 DEF FileGrows

-----------------------------------------------------------------------------
(* Comparing catalogs.                                                     *)

\* Objects with equal parts have the same text.
LEMMA SameTextIf ==
  ASSUME NEW a, NEW b, IsPdfObject(a), IsPdfObject(b), a.id = b.id, a.type = b.type,
         a.names = b.names, a.links = b.links, a.number = b.number, a.text = b.text,
         a.spaced = b.spaced
  PROVE  SameText(a, b)
BY DEF SameText, Text, IsPdfObject

\* Having the same text is an equivalence.
LEMMA SameTextIsTransitive ==
  ASSUME NEW a, NEW b, NEW c, SameText(a, b), SameText(b, c)
  PROVE  SameText(a, c) /\ SameText(a, a) /\ SameText(b, a)
BY DEF SameText

\* What is left of an object without what updates may add.
LEMMA StrippedIs ==
  ASSUME NEW o, IsPdfObject(o)
  PROVE  LET p == WithoutAdditions(o)
         IN  /\ IsPdfObject(p) /\ p.id = o.id /\ p.type = o.type /\ p.number = o.number
             /\ p.text = o.text /\ p.spaced = TRUE
             /\ p.names = o.names \ {"DSS", "Extensions", "Version"}
             /\ p.links = [n \in DOMAIN o.links \ {"DSS"} |-> o.links[n]]
<1> DEFINE links == [n \in DOMAIN o.links \ {"DSS"} |-> o.links[n]]
           names == o.names \ {"DSS", "Extensions", "Version"}
           p == [o EXCEPT !.links = links, !.names = names, !.spaced = TRUE]
<1>1. links \in [DOMAIN links -> Seq(Nat \ {0})]  BY DEF IsPdfObject
<1>2. WithoutAdditions(o) = p
  <2>1. Restrict(o.links, DOMAIN o.links \ {"DSS"}) = links  BY DEF Restrict
  <2> QED  BY <2>1 DEF WithoutAdditions
<1> HIDE DEF links, names
<1>3. /\ IsPdfObject(p) /\ p.id = o.id /\ p.type = o.type /\ p.number = o.number
      /\ p.text = o.text /\ p.spaced = TRUE /\ p.names = names /\ p.links = links
  BY <1>1 DEF IsPdfObject
<1> QED  BY <1>2, <1>3 DEF links, names

\* The catalog of a revision with a DSS is the one before, but for the DSS.
LEMMA DssCatalogAddsDss ==
  ASSUME NEW f, IsWellFormed(f)
  PROVE  SameText(WithoutAdditions(CatalogOf(f)), WithoutAdditions(DssCatalog(f)))
<1> DEFINE q == CatalogOf(f)
           c == DssCatalog(f)
           a == WithoutAdditions(q)
           b == WithoutAdditions(c)
<1>1. q \in ToSet(f) /\ q.type = "Catalog" /\ IsPdfObject(q)  BY CatalogIs DEF IsWellFormed
<1>2. /\ IsPdfObject(c) /\ c.id = q.id /\ c.type = "Catalog"
      /\ c.names = q.names \cup {"Extensions"} /\ c.number = q.number /\ c.text = q.text
      /\ DOMAIN c.links = DOMAIN q.links \cup {"DSS"}
      /\ \A n \in DOMAIN c.links :
           c.links[n] = IF n = "DSS" THEN << Fresh(f, 1) >> ELSE q.links[n]
  BY DssCatalogIs
<1> HIDE DEF q, c
<1>3. /\ IsPdfObject(a) /\ a.id = q.id /\ a.type = q.type /\ a.number = q.number
      /\ a.text = q.text /\ a.spaced = TRUE
      /\ a.names = q.names \ {"DSS", "Extensions", "Version"}
      /\ a.links = [n \in DOMAIN q.links \ {"DSS"} |-> q.links[n]]
  BY <1>1, StrippedIs
<1>4. /\ IsPdfObject(b) /\ b.id = c.id /\ b.type = c.type /\ b.number = c.number
      /\ b.text = c.text /\ b.spaced = TRUE
      /\ b.names = c.names \ {"DSS", "Extensions", "Version"}
      /\ b.links = [n \in DOMAIN c.links \ {"DSS"} |-> c.links[n]]
  BY <1>2, StrippedIs
<1> HIDE DEF a, b
<1>5. a.links = b.links
  <2>1. DOMAIN c.links \ {"DSS"} = DOMAIN q.links \ {"DSS"}  BY <1>2
  <2>2. \A n \in DOMAIN q.links \ {"DSS"} : c.links[n] = q.links[n]  BY <1>2
  <2> QED  BY <1>3, <1>4, <2>1, <2>2
<1>6. a.names = b.names  BY <1>2, <1>3, <1>4
<1>7. /\ IsPdfObject(a) /\ IsPdfObject(b) /\ a.id = b.id /\ a.type = b.type
      /\ a.number = b.number /\ a.text = b.text /\ a.spaced = b.spaced
  BY <1>1, <1>2, <1>3, <1>4
<1>8. SameText(a, b)  BY <1>5, <1>6, <1>7, SameTextIf
<1> QED  BY <1>8 DEF a, b, q, c

\* The catalog in use is the one that was signed, or was appended later.
LEMMA CatalogOfPrefix ==
  ASSUME NEW f, IsWellFormed(f), NEW n \in Nat, n <= Len(f), IsWellFormed(Prefix(f, n))
  PROVE  \/ CatalogOf(f) = CatalogOf(Prefix(f, n))
         \/ \E q \in DOMAIN f : q > n /\ CatalogOf(f) = f[q] /\ f[q].type = "Catalog"
<1> DEFINE s == Prefix(f, n)
<1>1. f \in Seq(ToSet(f)) /\ Len(f) \in Nat /\ DOMAIN f = 1..Len(f)  BY FileFacts
<1>2. DOMAIN s = 1..n /\ \A i \in 1..n : i \in DOMAIN f /\ s[i] = f[i]  BY <1>1, PrefixIs
<1>3. PICK i \in DOMAIN f : CatalogOf(f) = f[i] /\ \A j \in DOMAIN f : f[j].type = "Catalog" => j <= i
  BY CatalogIs
<1>4. f[i].type = "Catalog"  BY <1>3, CatalogIs
<1> HIDE DEF s
<1>5. IsWellFormed(s)  BY DEF s
<1>6. PICK k \in DOMAIN s : CatalogOf(s) = s[k] /\ \A j \in DOMAIN s : s[j].type = "Catalog" => j <= k
  BY <1>5, CatalogIs
<1>7. s[k].type = "Catalog"  BY <1>5, <1>6, CatalogIs
<1>8. CASE i <= n
  <2>1. i \in 1..n /\ s[i] = f[i]  BY <1>1, <1>2, <1>8
  <2>2. i <= k  BY <1>2, <1>4, <1>6, <2>1
  <2>3. k \in 1..n /\ s[k] = f[k] /\ k \in DOMAIN f  BY <1>2
  <2>4. k <= i  BY <1>3, <1>7, <2>3
  <2>5. k = i  BY <2>1, <2>2, <2>3, <2>4
  <2> QED  BY <1>3, <1>6, <2>1, <2>5 DEF s
<1>9. CASE ~ (i <= n)
  <2>1. i > n  BY <1>1, <1>9
  <2> QED  BY <1>3, <1>4, <2>1
<1> QED  BY <1>8, <1>9

\* Quiet updates leave the catalog as it was but for what they may add.
LEMMA QuietCatalog ==
  ASSUME NEW f, IsWellFormed(f), NEW u, NEW n \in Nat, n <= Len(f), IsWellFormed(Prefix(f, n)),
         Quiet(f, u, n), KindsAfter(u, n) \subseteq QuietKinds
  PROVE  SameText(WithoutAdditions(CatalogOf(Prefix(f, n))), WithoutAdditions(CatalogOf(f)))
<1> DEFINE s == Prefix(f, n)
<1>1. CASE CatalogOf(f) = CatalogOf(s)  BY <1>1 DEF SameText
<1>2. ASSUME NEW q \in DOMAIN f, q > n, CatalogOf(f) = f[q], f[q].type = "Catalog"
      PROVE  SameText(WithoutAdditions(CatalogOf(s)), WithoutAdditions(CatalogOf(f)))
  <2>1. IsQuiet(f[q], s)  BY <1>2 DEF Quiet
  <2>2. f[q] \in ToSet(f)  BY DEF ToSet
  <2>3. "ModDate" \notin f[q].names  BY <1>2, <2>2 DEF IsWellFormed, HasOneRole
  <2> QED  BY <1>2, <2>1, <2>3 DEF IsQuiet
<1> QED  BY <1>1, <1>2, CatalogOfPrefix

\* What a quiet update appends is quiet.
LEMMA QuietOne ==
  ASSUME NEW f, IsWellFormed(f), NEW kind \in QuietKinds, NEW o, IsOneOf(f, kind, o),
         NEW s, Numbers(s) \subseteq Numbers(f),
         SameText(WithoutAdditions(CatalogOf(s)), WithoutAdditions(CatalogOf(f)))
  PROVE  IsQuiet(o, s)
<1>1. CASE IsNewOne(f, kind, o)
  <2>1. o.id \notin Numbers(s) /\ o.type # "Catalog"  BY <1>1 DEF IsNewOne
  <2>2. CASE \E names \in SUBSET {"VRI"} : IsDssOf(f, o, names)  BY <2>2 DEF IsDssOf, IsQuiet
  <2>3. ASSUME o.names = {}, o.links = << >>, o.type = NoType PROVE IsQuiet(o, s)
    <3>1. DOMAIN o.links = {}  BY <2>3
    <3>2. ~ Disallowed(o)
      BY <2>3, <3>1 DEF Disallowed, HasAnyName, HasName, MarkerNames, NoType
    <3> QED  BY <2>1, <3>2 DEF IsQuiet
  <2> QED  BY <1>1, <2>2, <2>3 DEF IsNewOne, QuietKinds, IsSigning
<1>2. ASSUME NEW p \in ToSet(f), IsVersionOf(f, kind, o, p) PROVE IsQuiet(o, s)
  <2>1. CASE kind \in {"dss", "vri"}
    <3>1. o = DssCatalog(f)  BY <1>2, <2>1 DEF IsVersionOf, IsSigning
    <3>2. o.type = "Catalog" /\ "DSS" \in DOMAIN o.links  BY <3>1, DssCatalogIs
    <3>3. SameText(WithoutAdditions(CatalogOf(f)), WithoutAdditions(o))  BY <3>1, DssCatalogAddsDss
    <3>4. SameText(WithoutAdditions(CatalogOf(s)), WithoutAdditions(o))
      BY <3>3, SameTextIsTransitive
    <3> QED  BY <3>2, <3>4 DEF IsQuiet
  <2>2. CASE kind \in {"extend", "renew"}
    BY <1>2, <2>2 DEF IsVersionOf, IsSigning, IsChanged, Alike, IsQuiet
  <2>3. CASE kind = "metadata"
    BY <1>2, <2>3 DEF IsVersionOf, IsSigning, IsChanged, Alike, IsQuiet, RoleNames
  <2> QED  BY <2>1, <2>2, <2>3 DEF QuietKinds
<1>3. ASSUME NEW p \in ToSet(f), IsCopyOf(f, kind, o, p) PROVE FALSE
  BY <1>3 DEF IsCopyOf, QuietKinds
<1> QED  BY <1>1, <1>2, <1>3 DEF IsOneOf

\* That a tail is quiet survives an update.
LEMMA QuietKept ==
  ASSUME NEW f, NEW u, NEW kind, NEW g, NEW w, Grows(f, u, kind, g, w),
         NEW n \in Nat, n <= Len(f), IsWellFormed(Prefix(f, n)), Quiet(f, u, n)
  PROVE  Quiet(g, w, n)
<1> DEFINE s == Prefix(f, n)
<1>1. FileGrows(f, kind, g) /\ IsWellFormed(f) /\ Len(f) \in Nat  BY DEF Grows, FileGrows
<1>2. Prefix(g, n) = s /\ Numbers(s) \subseteq Numbers(f)  BY SignedPartStays
<1>3. KindsAfter(w, n) = KindsAfter(u, n) \cup {kind}  BY KindsGrow
<1> SUFFICES ASSUME KindsAfter(w, n) \subseteq QuietKinds, NEW q \in DOMAIN g, q > n
             PROVE  IsQuiet(g[q], s)
  BY <1>2 DEF Quiet
<1>4. KindsAfter(u, n) \subseteq QuietKinds /\ kind \in QuietKinds  BY <1>3
<1>5. CASE q \in DOMAIN f
  <2>1. g[q] = f[q]  BY <1>1, <1>5 DEF FileGrows
  <2> QED  BY <1>4, <1>5, <2>1 DEF Quiet
<1>6. CASE IsOneOf(f, kind, g[q])
  <2>1. SameText(WithoutAdditions(CatalogOf(s)), WithoutAdditions(CatalogOf(f)))
    BY <1>1, <1>4, QuietCatalog
  <2> HIDE DEF s
  <2> QED  BY <1>1, <1>2, <1>4, <1>6, <2>1, QuietOne
<1> QED  BY <1>1, <1>5, <1>6 DEF FileGrows

-----------------------------------------------------------------------------
(* Every signature has a well-formed revision, and a tail of such updates.  *)

TailKept(f, u, n) == IsWellFormed(Prefix(f, n)) /\ Maintained(f, u, n) /\ Quiet(f, u, n)
TailsKept(f, u) == \A i \in DOMAIN u : IsSigning(u[i].kind) => TailKept(f, u, u[i].from + 3)

\* Of the tail behind the whole file there is nothing to say.
LEMMA WholeTail ==
  ASSUME NEW g, IsWellFormed(g), NEW w
  PROVE  TailKept(g, w, Len(g))
<1>1. g \in Seq(ToSet(g)) /\ Len(g) \in Nat /\ DOMAIN g = 1..Len(g)  BY FileFacts
<1>2. Prefix(g, Len(g)) = g  BY <1>1, WholePrefix
<1>3. \A q \in DOMAIN g : ~ (q > Len(g))  BY <1>1
<1> QED  BY <1>2, <1>3 DEF TailKept, Maintained, Quiet

\* What is known of the tails survives an update.
LEMMA TailsStay ==
  ASSUME NEW f, NEW u, NEW kind, NEW g, NEW w, Grows(f, u, kind, g, w), SigningsKept(f, u),
         TailsKept(f, u)
  PROVE  TailsKept(g, w)
<1>1. FileGrows(f, kind, g) /\ HistoryGrows(f, u, kind, w)  BY DEF Grows
<1> SUFFICES ASSUME NEW i \in DOMAIN w, IsSigning(w[i].kind) PROVE TailKept(g, w, w[i].from + 3)
  BY DEF TailsKept
<1>2. CASE i \in DOMAIN u
  <2> DEFINE n == w[i].from + 3
  <2>1. w[i] = u[i] /\ w[i].from \in Nat  BY <1>1, <1>2 DEF HistoryGrows
  <2>2. n \in Nat /\ n <= Len(f)  BY <1>2, <2>1 DEF SigningsKept, IsSigned
  <2>3. TailKept(f, u, n)  BY <1>2, <2>1 DEF TailsKept
  <2> HIDE DEF n
  <2>4. Prefix(g, n) = Prefix(f, n)  BY <2>2, SignedPartStays
  <2>5. Maintained(g, w, n)  BY <2>2, <2>3, MaintainedKept DEF TailKept
  <2>6. Quiet(g, w, n)  BY <2>2, <2>3, QuietKept DEF TailKept
  <2>7. TailKept(g, w, n)  BY <2>3, <2>4, <2>5, <2>6 DEF TailKept
  <2> QED  BY <2>7 DEF n
<1>3. CASE i \notin DOMAIN u
  <2>1. w[i].kind = kind /\ w[i].from = Len(f)  BY <1>1, <1>3 DEF HistoryGrows
  <2>2. Len(g) = w[i].from + 3  BY <2>1 DEF Grows, SigningGrows
  <2>3. TailKept(g, w, Len(g))  BY <1>1, WholeTail DEF FileGrows
  <2> QED  BY <2>2, <2>3
<1> QED  BY <1>2, <1>3

\* The tails of the signatures in every file that is written.
THEOREM TailsInvariant == Spec => []TailsKept(file, updates)
<1>1. Init => TailsKept(file, updates)  BY DEF Init, TailsKept
<1>2. PdfInv(file, updates) /\ TailsKept(file, updates) /\ [Next]_vars => TailsKept(file, updates)'
  <2> SUFFICES ASSUME PdfInv(file, updates), TailsKept(file, updates), [Next]_vars
               PROVE  TailsKept(file', updates')
    BY DEF TailsKept, TailKept, Maintained, Quiet, KindsAfter
  <2>1. CASE UNCHANGED vars  BY <2>1 DEF vars
  <2>2. ASSUME NEW kind \in Maintenance \cup Edits, Update(kind) PROVE TailsKept(file', updates')
    <3>1. CanAppend(file, kind)  BY <2>2, UpdatesAreKinds
    <3>2. Grows(file, updates, kind, file \o Appended(file, kind),
                Append(updates, [kind |-> kind, from |-> Len(file)]))
      BY <3>1, UpdateGrows DEF PdfInv
    <3>3. TailsKept(file \o Appended(file, kind),
                    Append(updates, [kind |-> kind, from |-> Len(file)]))
      BY <3>2, TailsStay DEF PdfInv
    <3> QED  BY <2>2, <3>3 DEF Update
  <2> QED  BY <2>1, <2>2 DEF Next, Maintain, Edit
<1> QED  BY <1>1, <1>2, PdfInvariant, PTL DEF Spec

-----------------------------------------------------------------------------
(* Updates that leave a signature alone are not taken for a change of it.  *)

\* A signature d of size n, signed at from, and what is known of the file.
IsSignature(f, u, d, n) ==
  /\ IsWellFormed(f) /\ DictionariesFrom(f, u) /\ OnePageTree(f) /\ DirectCatalogsLast(f)
  /\ \A i \in DOMAIN u : u[i].from \in Nat
  /\ \A i \in DOMAIN u :
       IsSigning(u[i].kind) => IsSigned(f, u[i].from) /\ TailKept(f, u, u[i].from + 3)
  /\ n \in Nat /\ n = d + 2 /\ n <= Len(f) /\ d \in DOMAIN f /\ SignedSize(f, d) = n
  /\ IsSigned(f, d - 1) /\ d - 1 \in Nat
  /\ TailKept(f, u, n)

\* A dictionary that is validated is that of a signature, with all that is known of it.
LEMMA UsableIsSignature ==
  ASSUME NEW f, NEW u, PdfInv(f, u), TailsKept(f, u), NEW d \in Usable(f)
  PROVE  IsSignature(f, u, d, SignedSize(f, d))
<1> DEFINE T == [kind : Kinds, from : Nat]
<1>1. IsWellFormed(f) /\ DictionariesFrom(f, u) /\ SigningsKept(f, u)  BY DEF PdfInv, FileInv
<1>2. \A j \in DOMAIN u : u[j].from \in Nat
  <2>1. u \in Seq(T)  BY DEF PdfInv, FileInv
  <2> HIDE DEF T
  <2>2. \A j \in DOMAIN u : u[j] \in T  BY <2>1
  <2> QED  BY <2>2 DEF T
<1>3. d \in Dictionaries(f)  BY DEF Usable
<1>4. d \in AllDictionaries(f) /\ d \in DOMAIN f /\ "ByteRange" \in f[d].names
  BY <1>3 DEF Dictionaries, AllDictionaries, IsDictionary
<1>5. PICK i \in DOMAIN u : /\ IsSigning(u[i].kind) /\ u[i].from < d
                            /\ f[d].text = u[i].from /\ f[d].number = u[i].from + 3
  BY <1>1, <1>4 DEF DictionariesFrom
<1> DEFINE from == u[i].from
<1>6. from \in Nat /\ IsSigned(f, from) /\ TailKept(f, u, from + 3)
  BY <1>1, <1>2, <1>5 DEF SigningsKept, TailsKept
<1>7. from + 1 \in AllDictionaries(f) /\ SameData(f[from + 1], f[d])
  <2>1. from + 1 \in DOMAIN f  BY <1>1, <1>6, FileFacts DEF IsSigned
  <2> QED  BY <1>5, <1>6, <2>1 DEF IsSigned, AllDictionaries, SameData
<1>8. d <= from + 1  BY <1>3, <1>7 DEF Dictionaries
<1>9. d \in Nat  BY <1>1, <1>4, FileFacts
<1>10. d = from + 1 /\ SignedSize(f, d) = from + 3  BY <1>5, <1>6, <1>8, <1>9 DEF SignedSize
<1> HIDE DEF from
<1>11. d - 1 = from /\ from + 3 = d + 2 /\ from + 3 \in Nat  BY <1>6, <1>10
<1>12. from + 3 <= Len(f)  BY <1>6 DEF IsSigned
<1> QED
  BY <1>1, <1>2, <1>4, <1>6, <1>10, <1>11, <1>12
  DEF IsSignature, PdfInv, SigningsKept, TailsKept

\* The objects of the parts.
LEMMA PartsOfFile ==
  ASSUME NEW f, NEW u, NEW d, NEW n, IsSignature(f, u, d, n)
  PROVE  /\ Signed(f, d) = Prefix(f, n) /\ Later(f, d) = Suffix(f, n)
         /\ IsWellFormed(Signed(f, d))
         /\ f \in Seq(ToSet(f)) /\ Len(f) \in Nat /\ DOMAIN f = 1..Len(f) /\ n \in Nat
         /\ DOMAIN Signed(f, d) = 1..n
         /\ \A q \in 1..n : q \in DOMAIN f /\ Signed(f, d)[q] = f[q]
         /\ ToSet(Signed(f, d)) \subseteq ToSet(f)
         /\ Numbers(Signed(f, d)) \subseteq Numbers(f)
         /\ \A m \in DOMAIN Later(f, d) : \E q \in DOMAIN f : q > n /\ Later(f, d)[m] = f[q]
         /\ \A o \in ToSet(Direct(Later(f, d))) :
              IsDirect(o) /\ \E q \in DOMAIN f : q > n /\ o = f[q]
<1>1. IsWellFormed(f) /\ n \in Nat /\ n <= Len(f) /\ SignedSize(f, d) = n /\ IsWellFormed(Prefix(f, n))
  BY DEF IsSignature, TailKept
<1>2. f \in Seq(ToSet(f)) /\ Len(f) \in Nat /\ DOMAIN f = 1..Len(f)  BY <1>1, FileFacts
<1>3. Signed(f, d) = Prefix(f, n) /\ Later(f, d) = Suffix(f, n)  BY <1>1 DEF Signed, Later
<1> DEFINE s == Prefix(f, n)
           t == Suffix(f, n)
<1>4. DOMAIN s = 1..n /\ (\A q \in 1..n : q \in DOMAIN f /\ s[q] = f[q])
      /\ ToSet(s) \subseteq ToSet(f)
  BY <1>1, <1>2, PrefixIs
<1>5. /\ t \in Seq(ToSet(f)) /\ DOMAIN t = 1..Len(f) - n
      /\ \A m \in 1..Len(f) - n : n + m \in DOMAIN f /\ n + m > n /\ t[m] = f[n + m]
  BY <1>1, <1>2, SuffixIs
<1> HIDE DEF s, t
<1>6. \A m \in DOMAIN t : \E q \in DOMAIN f : q > n /\ t[m] = f[q]  BY <1>5
<1>7. /\ DOMAIN Direct(t) = {m \in DOMAIN t : IsDirect(t[m])}
      /\ \A m \in DOMAIN Direct(t) : Direct(t)[m] = t[m]
  BY <1>5, SequencesAreParts
<1>8. \A o \in ToSet(Direct(t)) : IsDirect(o) /\ \E q \in DOMAIN f : q > n /\ o = f[q]
  BY <1>6, <1>7 DEF ToSet
<1>9. Numbers(s) \subseteq Numbers(f)  BY <1>4 DEF Numbers
<1> QED  BY <1>1, <1>2, <1>3, <1>4, <1>6, <1>8, <1>9 DEF s, t

\* Neither a signature nor its field is written again.
LEMMA SignaturesNotRewritten ==
  ASSUME NEW f, NEW u, NEW d, NEW n, IsSignature(f, u, d, n),
         KindsAfter(u, n) \subseteq MaintenanceKinds,
         NEW p \in ToSet(Signed(f, d)), "ByteRange" \in p.names \/ "Sig" \in p.names,
         NEW q \in DOMAIN f, q > n
  PROVE  f[q].id # p.id
<1> SUFFICES ASSUME f[q].id = p.id PROVE FALSE  OBVIOUS
<1> DEFINE o == f[q]
           s == Signed(f, d)
<1>1. s = Prefix(f, n) /\ IsWellFormed(s) /\ ToSet(s) \subseteq ToSet(f)  BY PartsOfFile
<1>2. p.id \in Numbers(s) /\ p \in ToSet(f)  BY <1>1, FileFacts
<1>3. IsMaintained(o, s, n)  BY <1>1 DEF IsSignature, TailKept, Maintained
<1>4. o \in ToSet(f) /\ IsWellFormed(f)  BY DEF ToSet, IsSignature
<1> HIDE DEF s
<1>5. o.id = p.id  OBVIOUS
<1> HIDE DEF o
<1>6. IsKept(o)  BY <1>2, <1>3, <1>5 DEF IsMaintained
<1>7. Alike(o, p) /\ HasOneRole(o)  BY <1>2, <1>4, <1>5 DEF IsWellFormed
<1>8. "ByteRange" \in o.names \/ "Sig" \in o.names  BY <1>7 DEF Alike, RoleNames
<1>9. CASE "ByteRange" \in o.names  BY <1>6, <1>7, <1>9 DEF IsKept, HasOneRole, RoleNames
<1>10. CASE "Sig" \in o.names  BY <1>6, <1>7, <1>10 DEF IsKept, HasOneRole, RoleNames, NoType
<1> QED  BY <1>8, <1>9, <1>10

\* Dictionary and field of a signature, in the revision it signed.
LEMMA SignatureObjectsAre ==
  ASSUME NEW f, NEW u, NEW d, NEW n, IsSignature(f, u, d, n)
  PROVE  /\ f[d] \in ToSet(Signed(f, d)) /\ f[d + 1] \in ToSet(Signed(f, d))
         /\ d + 1 \in DOMAIN f
         /\ "ByteRange" \in f[d].names /\ "Sig" \in f[d + 1].names
         /\ f[d].text = d - 1
         /\ RefsAfter(f[d + 1], "Kids") = << >> /\ IsDirect(f[d + 1])
         /\ \A q \in 1..n : f[q].id = f[d + 1].id => q = d + 1
         /\ \A o \in ToSet(f) : FirstRef(o, "V") = f[d].id => o.id = f[d + 1].id
<1> DEFINE from == d - 1
           s == Signed(f, d)
<1>1. from \in Nat /\ d = from + 1 /\ d + 1 = from + 2 /\ n = from + 3 /\ IsSigned(f, from) /\ n \in Nat
  <2>1. d - 1 \in Nat /\ d \in DOMAIN f /\ n = d + 2 /\ n \in Nat /\ IsSigned(f, d - 1)
    BY DEF IsSignature
  <2>2. d \in Nat  BY <2>1, PartsOfFile
  <2>3. d = (d - 1) + 1 /\ d + 1 = (d - 1) + 2 /\ n = (d - 1) + 3  BY <2>1, <2>2
  <2> QED  BY <2>1, <2>3
<1>2. DOMAIN s = 1..n /\ \A q \in 1..n : q \in DOMAIN f /\ s[q] = f[q]  BY PartsOfFile
<1> HIDE DEF s, from
<1>3. d \in 1..n /\ d + 1 \in 1..n  BY <1>1
<1>4. f[d] \in ToSet(s) /\ f[d + 1] \in ToSet(s) /\ d + 1 \in DOMAIN f  BY <1>2, <1>3 DEF ToSet
<1>5. /\ "ByteRange" \in f[d].names /\ "Sig" \in f[d + 1].names /\ f[d].text = from
      /\ RefsAfter(f[d + 1], "Kids") = << >> /\ IsDirect(f[d + 1])
      /\ \A q \in 1..n : f[q].id = f[d + 1].id => q = d + 1
      /\ \A o \in ToSet(f) : FirstRef(o, "V") = f[d].id => o.id = f[d + 1].id
  BY <1>1 DEF IsSigned, IsDictionary
<1> QED  BY <1>4, <1>5 DEF s, from

\* Something in a tail has a number.
LEMMA HeldLater ==
  ASSUME NEW f, NEW u, NEW d, NEW n, IsSignature(f, u, d, n), NEW id, Holds(Direct(Later(f, d)), id)
  PROVE  \E q \in DOMAIN f : q > n /\ f[q].id = id
<1>1. PICK o \in ToSet(Direct(Later(f, d))) : o.id = id  BY DEF Holds, ToSet
<1> QED  BY <1>1, PartsOfFile

\* After maintenance neither dictionary nor field of a signature is found changed.
LEMMA DictionaryUnchanged ==
  ASSUME NEW f, NEW u, NEW d, NEW n, IsSignature(f, u, d, n),
         KindsAfter(u, n) \subseteq MaintenanceKinds
  PROVE  ~ DictionaryChanged(f, d) /\ ~ HasShadowCopy(f, d) /\ ~ FieldChanged(f, d)
         /\ ~ HasSeveralFields(f, d)
<1>1. ~ Holds(Direct(Later(f, d)), f[d].id)
  BY SignatureObjectsAre, HeldLater, SignaturesNotRewritten
<1>2. ~ Holds(Direct(Later(f, d)), f[d + 1].id)
  BY SignatureObjectsAre, HeldLater, SignaturesNotRewritten
<1>3. ~ HasShadowCopy(f, d)
  <2> SUFFICES ASSUME NEW other \in AllDictionaries(f), other > SignedSize(f, d),
                      SameData(f[other], f[d])
               PROVE  FALSE
    BY DEF HasShadowCopy
  <2>1. other \in DOMAIN f /\ other > n /\ "ByteRange" \in f[other].names
    BY DEF AllDictionaries, IsDictionary, IsSignature
  <2>2. f[other].text >= n
    BY <2>1 DEF IsSignature, TailKept, Maintained, IsMaintained
  <2>3. f[other].text = d - 1  BY SignatureObjectsAre DEF SameData
  <2>4. n = d + 2 /\ d - 1 \in Nat /\ d \in Nat  BY PartsOfFile DEF IsSignature
  <2> QED  BY <2>2, <2>3, <2>4
<1>4. FieldsOf(Signed(f, d), f[d].id) \subseteq {f[d + 1].id}
  <2> SUFFICES ASSUME NEW field \in FieldsOf(Signed(f, d), f[d].id) PROVE field = f[d + 1].id
    OBVIOUS
  <2>1. IsWellFormed(Signed(f, d)) /\ ToSet(Signed(f, d)) \subseteq ToSet(f)  BY PartsOfFile
  <2>2. PICK o \in ToSet(Signed(f, d)) : o.id = field /\ FirstRef(o, "V") = f[d].id
    BY <2>1, FieldsAreInForce
  <2> QED  BY <2>1, <2>2, SignatureObjectsAre
<1>5. ~ FieldChanged(f, d)  BY <1>2, <1>4 DEF FieldChanged
<1>6. ~ HasSeveralFields(f, d)
  <2> DEFINE S == FieldsOf(Signed(f, d), f[d].id)
             T == {f[d + 1].id}
  <2>1. IsFiniteSet(T) /\ Cardinality(T) = 1  BY FS_Singleton
  <2>2. S \subseteq T  BY <1>4
  <2> HIDE DEF S, T
  <2>3. Cardinality(S) <= 1 /\ Cardinality(S) \in Nat  BY <2>1, <2>2, FS_Subset, FS_CardinalityType
  <2> QED  BY <2>3 DEF HasSeveralFields, S
<1> QED  BY <1>1, <1>3, <1>5, <1>6 DEF DictionaryChanged

\* After maintenance the number of pages is found unchanged.
LEMMA PageCountUnchanged ==
  ASSUME NEW f, NEW u, NEW d, NEW n, IsSignature(f, u, d, n),
         KindsAfter(u, n) \subseteq MaintenanceKinds
  PROVE  ~ PageCountChanged(f, d)
<1> DEFINE s == Signed(f, d)
           pages(h) == FirstRef(LastOf(h, Catalogs(h)), "Pages")
           versions(h, id) == {i \in DOMAIN h : h[i].id = id}
<1>1. IsWellFormed(f) /\ IsWellFormed(s) /\ ToSet(s) \subseteq ToSet(f) /\ OnePageTree(f)
  BY PartsOfFile DEF IsSignature
<1>2. /\ s = Prefix(f, n) /\ DOMAIN f = 1..Len(f) /\ n \in Nat /\ Len(f) \in Nat
      /\ DOMAIN s = 1..n /\ \A q \in 1..n : q \in DOMAIN f /\ s[q] = f[q]
  BY PartsOfFile
<1>3. ASSUME NEW h, IsWellFormed(h), ToSet(h) \subseteq ToSet(f)
      PROVE  /\ Catalogs(h) # {}
             /\ \E o \in ToSet(f) : o.type = "Catalog" /\ pages(h) = FirstRef(o, "Pages")
  <2>1. PICK o \in ToSet(h) : o.type = "Catalog"  BY <1>3 DEF IsWellFormed
  <2>2. Catalogs(h) # {} /\ Catalogs(h) \subseteq DOMAIN h
    BY <1>3, <2>1, FileFacts DEF Catalogs
  <2>3. PICK i \in Catalogs(h) : LastOf(h, Catalogs(h)) = h[i]  BY <1>3, <2>2, LastIs
  <2>4. h[i] \in ToSet(f) /\ h[i].type = "Catalog"  BY <1>3, <2>3 DEF Catalogs, ToSet
  <2> QED  BY <2>2, <2>3, <2>4
<1>4. PICK c \in ToSet(f) : c.type = "Catalog" /\ pages(f) = FirstRef(c, "Pages")  BY <1>1, <1>3
<1>5. pages(s) = pages(f)
  <2>1. PICK o \in ToSet(f) : o.type = "Catalog" /\ pages(s) = FirstRef(o, "Pages")
    BY <1>1, <1>3
  <2> QED  BY <1>1, <1>4, <2>1 DEF OnePageTree
<1> DEFINE id == pages(f)
<1>6. \A q \in DOMAIN f : f[q].id = id => f[q].type = "Pages"
  <2>1. IsLinked(c, f)  BY <1>1 DEF IsWellFormed
  <2> QED  BY <1>4, <2>1 DEF IsLinked, ToSet
<1>7. \A q \in DOMAIN f : q > n => f[q].type # "Pages"
  BY DEF IsSignature, TailKept, Maintained, IsMaintained
<1> HIDE DEF id
<1>8. versions(f, id) = versions(s, id)
  BY <1>2, <1>6, <1>7
<1>9. CASE versions(s, id) = {}
  <2>1. PageCount(s) = NoCount  BY <1>5, <1>9 DEF PageCount, id
  <2> QED  BY <2>1 DEF PageCountChanged
<1>10. CASE versions(s, id) # {}
  <2> DEFINE places == versions(s, id)
  <2>1. \A q \in places : q \in DOMAIN f /\ q \in DOMAIN s /\ f[q] = s[q]  BY <1>2
  <2> HIDE DEF places
  <2>2. LastOf(f, places) = LastOf(s, places)  BY <1>1, <1>10, <2>1, SameLast DEF places
  <2>3. PageCount(s) = LastOf(s, places).number
    BY <1>1, <1>3, <1>5, <1>10 DEF PageCount, places, id
  <2>4. PageCount(f) = LastOf(f, places).number
    BY <1>1, <1>3, <1>8, <1>10 DEF PageCount, places, id
  <2> QED  BY <2>2, <2>3, <2>4 DEF PageCountChanged
<1> QED  BY <1>9, <1>10

\* The version before of a catalog is the catalog that was signed.
LEMMA SignedCatalogIs ==
  ASSUME NEW s, IsWellFormed(s), DirectCatalogsLast(s), NEW o \in ToSet(s), o.type = "Catalog",
         Holds(Direct(s), o.id)
  PROVE  Latest(Direct(s), o.id) = CatalogOf(s)
<1> DEFINE t == Direct(s)
<1>1. s \in Seq(ToSet(s)) /\ DOMAIN s = 1..Len(s) /\ Len(s) \in Nat  BY FileFacts
<1>2. /\ IsPart(t) /\ DOMAIN t = {i \in DOMAIN s : IsDirect(s[i])}
      /\ \A i \in DOMAIN t : t[i] = s[i]
  BY <1>1, SequencesAreParts
<1> HIDE DEF t
<1>3. Holds(t, o.id)  BY DEF t
<1>4. PICK i \in DOMAIN t : /\ Latest(t, o.id) = t[i] /\ t[i].id = o.id
                            /\ \A j \in DOMAIN t : t[j].id = o.id => j <= i
  BY <1>2, <1>3, LatestIs
<1>5. i \in DOMAIN s /\ IsDirect(s[i]) /\ t[i] = s[i] /\ s[i] \in ToSet(s)  BY <1>2 DEF ToSet
<1>6. s[i].type = "Catalog"  BY <1>4, <1>5 DEF IsWellFormed, Alike
<1>7. PICK k \in DOMAIN s : CatalogOf(s) = s[k] /\ \A j \in DOMAIN s : s[j].type = "Catalog" => j <= k
  BY CatalogIs
<1>8. s[k].type = "Catalog" /\ s[k] \in ToSet(s)  BY <1>7, CatalogIs
<1>9. i <= k  BY <1>5, <1>6, <1>7
<1>10. IsDirect(s[k])  BY <1>5, <1>6, <1>8, <1>9 DEF DirectCatalogsLast, Catalogs
<1>11. s[k].id = o.id  BY <1>8 DEF IsWellFormed
<1>12. k \in DOMAIN t /\ t[k].id = o.id  BY <1>2, <1>10, <1>11
<1>13. k <= i  BY <1>4, <1>12
<1>14. i = k  BY <1>1, <1>5, <1>9, <1>13
<1> QED  BY <1>4, <1>5, <1>7, <1>14 DEF t

\* An object of a quiet tail is excused from the comparison of objects.
LEMMA QuietExcused ==
  ASSUME NEW s, IsWellFormed(s), DirectCatalogsLast(s), NEW o, HasOneRole(o), IsQuiet(o, s),
         \A p \in ToSet(s) : /\ o.id = p.id => Alike(o, p)
                             /\ o.type = "Catalog" /\ p.type = "Catalog" => o.id = p.id,
         Holds(Direct(s), o.id)
  PROVE  \/ CatalogOnlyAddsDss(o, Direct(s)) \/ LooksLikeMetadata(o)
         \/ UpdatesDss(o, Direct(s)) /\ o.type = "DSS"
<1> DEFINE t == Direct(s)
<1>1. PICK p \in ToSet(s) : p.id = o.id /\ IsDirect(p)
  <2>1. s \in Seq(ToSet(s))  BY FileFacts
  <2>2. DOMAIN t = {i \in DOMAIN s : IsDirect(s[i])} /\ \A i \in DOMAIN t : t[i] = s[i]
    BY <2>1, SequencesAreParts
  <2> HIDE DEF t
  <2>3. Holds(t, o.id)  BY DEF t
  <2> QED  BY <2>2, <2>3 DEF Holds, ToSet
<1>2. o.id \in Numbers(s)  BY <1>1, FileFacts
<1>3. Latest(t, o.id) \in ToSet(s) /\ Latest(t, o.id).id = o.id  BY <1>1, DirectVersionIs
<1>4. Alike(o, Latest(t, o.id))  BY <1>3
<1>5. CASE /\ o.type = "Catalog" /\ "DSS" \in DOMAIN o.links
           /\ SameText(WithoutAdditions(CatalogOf(s)), WithoutAdditions(o))
  <2>1. p.type = "Catalog"  BY <1>1, <1>5 DEF Alike
  <2>2. Latest(t, p.id) = CatalogOf(s)  BY <1>1, <2>1, SignedCatalogIs
  <2>3. CatalogOnlyAddsDss(o, t)
    BY <1>1, <1>5, <2>2 DEF CatalogOnlyAddsDss, HasName
  <2> QED  BY <2>3
<1>6. CASE "ModDate" \in o.names
  <2>1. ~ Disallowed(o)  BY <1>6 DEF HasOneRole
  <2>2. HasAnyName(o, MetadataNames)  BY <1>6 DEF HasAnyName, HasName, MetadataNames
  <2> QED  BY <2>1, <2>2 DEF LooksLikeMetadata
<1>7. CASE o.type = "DSS"
  <2>1. Latest(t, o.id).type = "DSS"  BY <1>4, <1>7 DEF Alike
  <2>2. UpdatesDss(o, t)  BY <1>7, <2>1 DEF UpdatesDss, LooksLikeDss
  <2> QED  BY <1>7, <2>2
<1> QED  BY <1>2, <1>5, <1>6, <1>7 DEF IsQuiet

\* A signature added later is validated, so the change of a DSS is not looked for.
LEMMA LaterSignatureSeen ==
  ASSUME NEW f, NEW u, NEW d, NEW n, IsSignature(f, u, d, n),
         KindsAfter(u, n) \subseteq MaintenanceKinds,
         NEW i \in DOMAIN u, IsSigning(u[i].kind), u[i].from >= n
  PROVE  HasLaterSignature(f, d)
<1> DEFINE from == u[i].from
           e == from + 1
           m == from + 3
<1>1. from \in Nat /\ IsSigned(f, from) /\ TailKept(f, u, m)  BY DEF IsSignature
<1>2. /\ IsWellFormed(f) /\ DictionariesFrom(f, u) /\ OnePageTree(f) /\ DirectCatalogsLast(f)
      /\ (\A j \in DOMAIN u : u[j].from \in Nat)
      /\ \A j \in DOMAIN u :
           IsSigning(u[j].kind) => IsSigned(f, u[j].from) /\ TailKept(f, u, u[j].from + 3)
      /\ n \in Nat /\ SignedSize(f, d) = n
  BY DEF IsSignature
<1>3. n <= from  BY <1>2
<1> HIDE DEF from
<1>4. m <= Len(f) /\ f[e].number = m /\ f[e].text = from  BY <1>1 DEF IsSigned
<1>5. m \in Nat /\ m = e + 2 /\ e - 1 = from /\ e \in Nat /\ n <= m /\ n < m  BY <1>1, <1>2, <1>3
<1>6. e \in DOMAIN f  BY <1>1, <1>2, <1>4, FileFacts
<1>7. IsSignature(f, u, e, m)
  <2>1. SignedSize(f, e) = m  BY <1>4 DEF SignedSize
  <2> HIDE DEF e, m
  <2> QED  BY <1>1, <1>2, <1>4, <1>5, <1>6, <2>1 DEF IsSignature
<1>8. KindsAfter(u, m) \subseteq MaintenanceKinds
  <2>1. \A j \in DOMAIN u : u[j].from >= m => u[j].from >= n
    <3> HIDE DEF m
    <3> QED  BY <1>2, <1>5
  <2> QED  BY <2>1 DEF KindsAfter
<1> HIDE DEF e, m
<1>9. \A q \in DOMAIN f : f[q].id = f[e + 1].id => f[q] = f[e + 1]
  <2> SUFFICES ASSUME NEW q \in DOMAIN f, f[q].id = f[e + 1].id PROVE f[q] = f[e + 1]
    OBVIOUS
  <2>1. ~ (q > m)  BY <1>7, <1>8, SignatureObjectsAre, SignaturesNotRewritten
  <2>2. q \in 1..m  BY <1>2, <1>5, <2>1, FileFacts
  <2> QED  BY <1>7, <2>2, SignatureObjectsAre
<1>10. ~ RefersToItself(f, e)
  <2> SUFFICES ASSUME NEW field \in FieldsOf(f, f[e].id), field \in Kids(Latest(Direct(f), field))
               PROVE  FALSE
    BY DEF RefersToItself
  <2>1. PICK o \in ToSet(f) : o.id = field /\ FirstRef(o, "V") = f[e].id /\ IsDirect(o)
    BY <1>2, FieldsAreInForce
  <2>2. field = f[e + 1].id  BY <1>7, <2>1, SignatureObjectsAre
  <2>3. Latest(Direct(f), field) \in ToSet(f) /\ Latest(Direct(f), field).id = field
    BY <1>2, <2>1, DirectVersionIs
  <2>4. Latest(Direct(f), field) = f[e + 1]  BY <1>2, <1>9, <2>2, <2>3, FileFacts
  <2>5. RefsAfter(f[e + 1], "Kids") = << >>  BY <1>7, SignatureObjectsAre
  <2> QED  BY <2>4, <2>5 DEF Kids, ToSet
<1>11. from + 1 \in Usable(f)  BY <1>1, <1>2, <1>10, SignedIsUsable DEF e
<1>12. SignedSize(f, e) > SignedSize(f, d)  BY <1>2, <1>4, <1>5 DEF SignedSize
<1> QED  BY <1>11, <1>12 DEF HasLaterSignature, e

\* After maintenance no rewritten object is found.
LEMMA RewriteNotSeen ==
  ASSUME NEW f, NEW u, NEW d, NEW n, IsSignature(f, u, d, n),
         KindsAfter(u, n) \subseteq MaintenanceKinds
  PROVE  ~ RewriteSeen(f, d)
<1> SUFFICES ASSUME RewritesObject(Signed(f, d), Later(f, d)), ~ HasLaterSignature(f, d)
             PROVE  FALSE
  BY DEF RewriteSeen
<1> DEFINE s == Signed(f, d)
           prior == Direct(s)
<1>1. KindsAfter(u, n) \subseteq QuietKinds
  <2>1. \A i \in DOMAIN u : u[i].from >= n => ~ IsSigning(u[i].kind)  BY LaterSignatureSeen
  <2>2. \A i \in DOMAIN u : u[i].from >= n => u[i].kind \in QuietKinds
    BY <2>1 DEF KindsAfter, MaintenanceKinds, QuietKinds, IsSigning
  <2> QED  BY <2>2 DEF KindsAfter
<1>2. PICK o \in ToSet(Direct(Later(f, d))) :
        /\ ~ CatalogOnlyAddsDss(o, prior) /\ ~ UpdatesDss(o, prior)
        /\ ~ LooksLikeMetadata(o) /\ ChangesPrior(o, prior)
  BY DEF RewritesObject
<1>3. PICK q \in DOMAIN f : q > n /\ o = f[q]  BY PartsOfFile
<1>4. s = Prefix(f, n) /\ IsWellFormed(s) /\ IsWellFormed(f) /\ ToSet(s) \subseteq ToSet(f)
      /\ o \in ToSet(f)
  <2>1. s = Prefix(f, n) /\ IsWellFormed(s) /\ ToSet(s) \subseteq ToSet(f)  BY PartsOfFile
  <2>2. IsWellFormed(f)  BY DEF IsSignature
  <2>3. o \in ToSet(f)  BY <1>3 DEF ToSet
  <2> QED  BY <2>1, <2>2, <2>3
<1>5. IsQuiet(o, s)  BY <1>1, <1>3, <1>4 DEF IsSignature, TailKept, Quiet
<1>6. DirectCatalogsLast(s)
  <2>1. DOMAIN s = 1..n /\ \A k \in 1..n : k \in DOMAIN f /\ s[k] = f[k]  BY PartsOfFile
  <2>2. DirectCatalogsLast(f)  BY DEF IsSignature
  <2> HIDE DEF s
  <2>3. \A k \in Catalogs(s) : k \in Catalogs(f) /\ s[k] = f[k]  BY <2>1 DEF Catalogs
  <2> QED  BY <2>2, <2>3 DEF DirectCatalogsLast
<1>7. Holds(prior, o.id)  BY <1>2 DEF ChangesPrior
<1>8. HasOneRole(o) /\ \A p \in ToSet(s) : /\ o.id = p.id => Alike(o, p)
                                           /\ o.type = "Catalog" /\ p.type = "Catalog" => o.id = p.id
  BY <1>4 DEF IsWellFormed
<1> HIDE DEF s
<1> QED  BY <1>2, <1>4, <1>5, <1>6, <1>7, <1>8, QuietExcused

\* Signing again, adding and extending validation data, document timestamps and
\* metadata never make a signature look modified: none of the checks for changes
\* after the signed revision takes such updates for a change, whatever their order.
THEOREM NoFalseAlarmEver == Spec => []NoFalseAlarm
<1>1. PdfInv(file, updates) /\ TailsKept(file, updates) => NoFalseAlarm
  <2> SUFFICES ASSUME PdfInv(file, updates), TailsKept(file, updates),
                      NEW d \in Usable(file), KindsFrom(SignedSize(file, d)) \subseteq Maintenance
               PROVE  ~ Modified(file, d)
    BY DEF NoFalseAlarm
  <2> DEFINE n == SignedSize(file, d)
  <2>1. IsSignature(file, updates, d, n)  BY UsableIsSignature
  <2>2. KindsAfter(updates, n) \subseteq MaintenanceKinds
    BY KindsAssumption DEF KindsFrom, KindsAfter, MaintenanceKinds
  <2> HIDE DEF n
  <2> QED  BY <2>1, <2>2, RewriteNotSeen, DictionaryUnchanged, PageCountUnchanged DEF Modified
<1> QED  BY <1>1, PdfInvariant, TailsInvariant, PTL

-----------------------------------------------------------------------------
(* The validation data that the updates after a signature append.          *)

\* A dictionary of validation data is an object of its own and holds nothing else.
IsPlainDss(o) == IsDirect(o) /\ o.names \subseteq {"VRI"} /\ DOMAIN o.links \subseteq {"Certs", "OCSPs"}
DssIsPlain(f) == \A o \in ToSet(f) : o.type = "DSS" => IsPlainDss(o)

\* A DSS that is appended is an object of its own and holds nothing else.
LEMMA DssOfOneIsPlain ==
  ASSUME NEW f, IsWellFormed(f), DssIsPlain(f), NEW kind \in Kinds, NEW o, IsOneOf(f, kind, o),
         o.type = "DSS"
  PROVE  IsPlainDss(o)
<1>1. CASE IsNewOne(f, kind, o)
  <2>1. CASE kind = "stream"
    <3>1. o.names = {} /\ DOMAIN o.links = {"Certs"} /\ o.packed = 0
      BY <1>1, <2>1 DEF IsNewOne, IsFieldOf, NoType, IsSigning
    <3> QED  BY <3>1 DEF IsPlainDss, IsDirect
  <2>2. CASE kind # "stream"
    <3>1. PICK names \in SUBSET {"VRI"} : IsDssOf(f, o, names)
      BY <1>1, <2>2 DEF IsNewOne, IsFieldOf, NoType
    <3>2. DOMAIN o.links = {"OCSPs"}  BY <3>1 DEF IsDssOf
    <3> QED  BY <3>1, <3>2 DEF IsDssOf, IsPlainDss, IsDirect
  <2> QED  BY <2>1, <2>2
<1>2. ASSUME NEW p \in ToSet(f), IsVersionOf(f, kind, o, p) PROVE IsPlainDss(o)
  <2>1. HasOneRole(p) /\ (p.type = "DSS" => IsPlainDss(p))  BY DEF IsWellFormed, DssIsPlain
  <2>2. \A name : IsChanged(o, p, name) => p.type = "DSS"  BY DEF IsChanged, Alike
  <2>3. p.type = "DSS"  BY <1>2, <2>2 DEF IsVersionOf
  <2>4. /\ "Fields" \notin DOMAIN p.links /\ "ByteRange" \notin p.names /\ "Sig" \notin p.names
        /\ "ModDate" \notin p.names
    BY <2>1, <2>3 DEF HasOneRole, NoType
  <2>5. p # CatalogOf(f)
    <3>1. CatalogOf(f).type = "Catalog"  BY CatalogIs
    <3> QED  BY <2>3, <3>1
  <2>6. o.names = p.names /\ o.packed = 0 /\ DOMAIN o.links = DOMAIN p.links \cup {"OCSPs"}
    BY <1>2, <2>3, <2>4, <2>5 DEF IsVersionOf, IsDictionary
  <2> QED  BY <2>1, <2>3, <2>6 DEF IsPlainDss, IsDirect
<1>3. ASSUME NEW p \in ToSet(f), IsCopyOf(f, kind, o, p) PROVE FALSE
  <2>1. p.type = "DSS" /\ HasOneRole(p)
    BY <1>3 DEF IsCopyOf, IsChanged, Alike, IsWellFormed
  <2> QED  BY <1>3, <2>1 DEF IsCopyOf, IsDictionary, HasOneRole
<1> QED  BY <1>1, <1>2, <1>3 DEF IsOneOf

\* That each DSS is an object of its own and holds nothing else survives an update.
LEMMA PlainDssKept ==
  ASSUME NEW f, NEW u, NEW kind, NEW g, NEW w, Grows(f, u, kind, g, w), DssIsPlain(f)
  PROVE  DssIsPlain(g)
BY DssOfOneIsPlain DEF Grows, FileGrows, DssIsPlain

\* Where an update writes the catalog or the dictionary of validation data.
EvidenceGrows(f, kind, g) ==
  /\ kind \in {"dss", "vri"} => \E q \in DOMAIN g : q > Len(f) /\ g[q] = DssCatalog(f)
  /\ kind \in {"extend", "renew"} =>
       /\ HasDss(f)
       /\ \E q \in DOMAIN g : q > Len(f) /\ g[q].type = "DSS" /\ g[q].id = DssOf(f).id

\* The first appended object stands behind the file.
LEMMA FirstAppended ==
  ASSUME NEW f, IsWellFormed(f), NEW a, a \in Seq(ToSet(a)), Len(a) >= 1
  PROVE  \E q \in DOMAIN (f \o a) : q > Len(f) /\ (f \o a)[q] = a[1]
<1> DEFINE S == ToSet(f) \cup ToSet(a)
           g == f \o a
<1>1. f \in Seq(S) /\ a \in Seq(S)
  <2>1. ToSet(f) \subseteq S /\ ToSet(a) \subseteq S  OBVIOUS
  <2>2. f \in Seq(ToSet(f)) /\ a \in Seq(ToSet(a))  BY FileFacts
  <2> HIDE DEF S
  <2> QED  BY <2>1, <2>2
<1>2. /\ Len(f) \in Nat /\ Len(a) \in Nat /\ DOMAIN g = 1..Len(f) + Len(a)
      /\ \A m \in 1..Len(a) : g[Len(f) + m] = a[m]
  BY <1>1, Concatenated
<1> HIDE DEF g
<1>3. 1 \in 1..Len(a)  BY <1>2
<1>4. g[Len(f) + 1] = a[1] /\ Len(f) + 1 \in DOMAIN g /\ Len(f) + 1 > Len(f)  BY <1>2, <1>3
<1> QED  BY <1>4 DEF g

\* Updates of validation data write a catalog or a DSS that tells.
LEMMA EvidenceIsWritten ==
  ASSUME NEW f, IsWellFormed(f), NEW kind, CanAppend(f, kind)
  PROVE  EvidenceGrows(f, kind, f \o Appended(f, kind))
<1> DEFINE a == Appended(f, kind)
           g == f \o a
<1>1. CASE kind \in {"dss", "vri"}
  <2>1. PICK names : names \subseteq {"VRI"} /\ a = DssObjects(f, names)
    <3>1. {} \subseteq {"VRI"} /\ {"VRI"} \subseteq {"VRI"}  OBVIOUS
    <3>2. CASE kind = "dss"  BY <3>1, <3>2, AppendedIs, Zenon
    <3>3. CASE kind = "vri"  BY <3>1, <3>3, AppendedIs, Zenon
    <3> QED  BY <1>1, <3>2, <3>3
  <2>2. PICK d : DssObjects(f, names) = << DssCatalog(f), d, Response(f, Fresh(f, 2)) >>
    BY <2>1, DssWrites
  <2> DEFINE c == DssCatalog(f)
             r == Response(f, Fresh(f, 2))
  <2>3. a = << c, d, r >>  BY <2>1, <2>2
  <2> HIDE DEF c, r, a
  <2>4. a \in Seq(ToSet(a)) /\ Len(a) >= 1 /\ a[1] = c
    <3>1. a \in Seq(ToSet(a)) /\ Len(a) = 3 /\ a[1] = c  BY <2>3, ThreeObjects
    <3> QED  BY <3>1
  <2>5. \E q \in DOMAIN g : q > Len(f) /\ g[q] = c  BY <2>4, FirstAppended
  <2> QED  BY <1>1, <2>5 DEF EvidenceGrows, c, a
<1>2. CASE kind \in {"extend", "renew"}
  <2>1. HasDss(f)  BY <1>2 DEF CanAppend
  <2>2. PICK kept \in Seq(Nat \ {0}) : a = ExtendedDss(f, kept)
    <3>1. RefsAfter(DssOf(f), "OCSPs") \in Seq(Nat \ {0})  BY <2>1, DssIs, RefsAre DEF IsWellFormed
    <3>2. << >> \in Seq(Nat \ {0})  OBVIOUS
    <3>3. CASE kind = "extend"  BY <3>1, <3>3, AppendedIs
    <3>4. CASE kind = "renew"  BY <3>2, <3>4, AppendedIs
    <3> QED  BY <1>2, <3>3, <3>4
  <2> DEFINE q == DssOf(f)
             ids == Append(kept, Fresh(f, 1))
             d == WithRefs(q, "OCSPs", ids)
             r == Response(f, Fresh(f, 1))
  <2>3. a = << d, r >>  BY <2>2 DEF ExtendedDss
  <2>4. q.type = "DSS" /\ IsPdfObject(q)  BY <2>1, DssIs DEF IsWellFormed
  <2>5. ids \in Seq(Nat \ {0})  BY NumbersAreFresh
  <2> HIDE DEF q, ids
  <2>6. d.type = "DSS" /\ d.id = q.id  BY <2>4, <2>5, LinkedObject
  <2> HIDE DEF d, r, a
  <2>7. a \in Seq(ToSet(a)) /\ Len(a) >= 1 /\ a[1] = d
    <3>1. a \in Seq(ToSet(a)) /\ Len(a) = 2 /\ a[1] = d  BY <2>3, TwoObjects
    <3> QED  BY <3>1
  <2>8. \E k \in DOMAIN g : k > Len(f) /\ g[k] = d  BY <2>7, FirstAppended
  <2> QED  BY <1>2, <2>1, <2>6, <2>8 DEF EvidenceGrows, q, a
<1> QED  BY <1>1, <1>2 DEF EvidenceGrows

\* What tells that the updates after a signature wrote validation data.
ExtensionKinds == {"extend", "renew", "metadata"}
Marked(f, u, n) ==
  LET kinds == KindsAfter(u, n)
  IN  /\ kinds \subseteq ExtensionKinds => \A q \in DOMAIN f : q > n => f[q].type # "Catalog"
      /\ kinds \cap {"dss", "vri"} # {} =>
           \E q \in DOMAIN f : /\ q > n /\ f[q].type = "Catalog" /\ IsDirect(f[q])
                               /\ "DSS" \in DOMAIN f[q].links
      /\ kinds \subseteq ExtensionKinds /\ kinds \cap {"extend", "renew"} # {} =>
           \E q \in DOMAIN f : q > n /\ f[q].type = "DSS" /\ f[q].id \in Numbers(Prefix(f, n))
MarksKept(f, u) == \A i \in DOMAIN u : IsSigning(u[i].kind) => Marked(f, u, u[i].from + 3)

\* Extending a DSS leaves the catalog alone.
LEMMA ExtensionsWriteNoCatalog ==
  ASSUME NEW f, IsWellFormed(f), NEW kind \in ExtensionKinds, NEW o, IsOneOf(f, kind, o)
  PROVE  o.type # "Catalog"
<1>1. CASE IsNewOne(f, kind, o)  BY <1>1 DEF IsNewOne
<1>2. ASSUME NEW p \in ToSet(f), IsVersionOf(f, kind, o, p) PROVE o.type # "Catalog"
  <2>1. HasOneRole(p)  BY DEF IsWellFormed
  <2>2. o.type = p.type /\ (p.type = "DSS" \/ "ModDate" \in p.names)
    BY <1>2 DEF IsVersionOf, IsChanged, Alike, ExtensionKinds, IsSigning
  <2> QED  BY <2>1, <2>2 DEF HasOneRole
<1>3. ASSUME NEW p \in ToSet(f), IsCopyOf(f, kind, o, p) PROVE FALSE
  BY <1>3 DEF IsCopyOf, ExtensionKinds
<1> QED  BY <1>1, <1>2, <1>3 DEF IsOneOf

\* A mark of validation data survives an update.
LEMMA MarkedKept ==
  ASSUME NEW f, NEW u, NEW kind, NEW g, NEW w, Grows(f, u, kind, g, w), EvidenceGrows(f, kind, g),
         NEW n \in Nat, n <= Len(f), IsWellFormed(Prefix(f, n)), Marked(f, u, n)
  PROVE  Marked(g, w, n)
<1> DEFINE s == Prefix(f, n)
           kinds == KindsAfter(u, n)
           more == KindsAfter(w, n)
<1>1. FileGrows(f, kind, g) /\ IsWellFormed(f) /\ Len(f) \in Nat  BY DEF Grows, FileGrows
<1>2. Prefix(g, n) = s  BY SignedPartStays
<1>3. more = kinds \cup {kind}  BY KindsGrow
<1>4. \A q \in DOMAIN f : q \in DOMAIN g /\ g[q] = f[q]  BY <1>1 DEF FileGrows
<1>5. \A q : q > Len(f) /\ q \in DOMAIN g => q > n
  <2>1. \A q \in DOMAIN g : q \in Nat  BY <1>1, FileFacts DEF FileGrows
  <2> QED  BY <1>1, <2>1
<1>6. /\ kinds \subseteq ExtensionKinds => \A q \in DOMAIN f : q > n => f[q].type # "Catalog"
      /\ kinds \cap {"dss", "vri"} # {} =>
           \E q \in DOMAIN f : /\ q > n /\ f[q].type = "Catalog" /\ IsDirect(f[q])
                               /\ "DSS" \in DOMAIN f[q].links
      /\ kinds \subseteq ExtensionKinds /\ kinds \cap {"extend", "renew"} # {} =>
           \E q \in DOMAIN f : q > n /\ f[q].type = "DSS" /\ f[q].id \in Numbers(s)
  BY DEF Marked
<1> HIDE DEF s, kinds, more
<1>7. ASSUME more \subseteq ExtensionKinds, NEW q \in DOMAIN g, q > n
      PROVE  g[q].type # "Catalog"
  <2>1. kind \in ExtensionKinds /\ kinds \subseteq ExtensionKinds  BY <1>3, <1>7
  <2>2. CASE q \in DOMAIN f  BY <1>4, <1>6, <1>7, <2>1, <2>2
  <2>3. CASE IsOneOf(f, kind, g[q])  BY <1>1, <2>1, <2>3, ExtensionsWriteNoCatalog
  <2> QED  BY <1>1, <2>2, <2>3 DEF FileGrows
<1>8. ASSUME more \cap {"dss", "vri"} # {}
      PROVE  \E q \in DOMAIN g : /\ q > n /\ g[q].type = "Catalog" /\ IsDirect(g[q])
                                 /\ "DSS" \in DOMAIN g[q].links
  <2>1. CASE kind \in {"dss", "vri"}
    <3>1. PICK q \in DOMAIN g : q > Len(f) /\ g[q] = DssCatalog(f)  BY <2>1 DEF EvidenceGrows
    <3>2. g[q].type = "Catalog" /\ IsDirect(g[q]) /\ "DSS" \in DOMAIN g[q].links
      <4>1. LET c == DssCatalog(f)
            IN  /\ c.type = "Catalog" /\ c.packed = 0
                /\ DOMAIN c.links = DOMAIN CatalogOf(f).links \cup {"DSS"}
        BY <1>1, DssCatalogIs
      <4> QED  BY <3>1, <4>1 DEF IsDirect
    <3> QED  BY <1>5, <3>1, <3>2
  <2>2. CASE kinds \cap {"dss", "vri"} # {}
    <3>1. PICK q \in DOMAIN f : /\ q > n /\ f[q].type = "Catalog" /\ IsDirect(f[q])
                                /\ "DSS" \in DOMAIN f[q].links
      BY <1>6, <2>2
    <3> QED  BY <1>4, <3>1
  <2> QED  BY <1>3, <1>8, <2>1, <2>2
<1>9. ASSUME more \subseteq ExtensionKinds, more \cap {"extend", "renew"} # {}
      PROVE  \E q \in DOMAIN g : q > n /\ g[q].type = "DSS" /\ g[q].id \in Numbers(s)
  <2>1. kinds \subseteq ExtensionKinds  BY <1>3, <1>9
  <2>2. CASE kind \in {"extend", "renew"}
    <3>1. HasDss(f) /\ \E q \in DOMAIN g : q > Len(f) /\ g[q].type = "DSS" /\ g[q].id = DssOf(f).id
      BY <2>2 DEF EvidenceGrows
    <3>2. CatalogOf(f) = CatalogOf(s)  BY <1>1, <1>6, <2>1, CatalogOfPrefix DEF s
    <3>3. DssOf(f).id = FirstRef(CatalogOf(s), "DSS") /\ FirstRef(CatalogOf(s), "DSS") # NoReference
      BY <1>1, <3>1, <3>2, DssIs DEF HasDss
    <3>4. IsWellFormed(s) /\ CatalogOf(s) \in ToSet(s)  BY CatalogIs DEF s
    <3>5. DssOf(f).id \in Numbers(s)  BY <3>3, <3>4, ReferenceIsNumber
    <3> QED  BY <1>5, <3>1, <3>5
  <2>3. CASE kinds \cap {"extend", "renew"} # {}
    <3>1. PICK q \in DOMAIN f : q > n /\ f[q].type = "DSS" /\ f[q].id \in Numbers(s)
      BY <1>6, <2>1, <2>3
    <3> QED  BY <1>4, <3>1
  <2> QED  BY <1>3, <1>9, <2>2, <2>3
<1> QED  BY <1>2, <1>7, <1>8, <1>9 DEF Marked, s, more

\* The marks behind each signature survive an update.
LEMMA MarksStay ==
  ASSUME NEW f, NEW u, NEW kind, NEW g, NEW w, Grows(f, u, kind, g, w), EvidenceGrows(f, kind, g),
         SigningsKept(f, u), TailsKept(f, u), MarksKept(f, u)
  PROVE  MarksKept(g, w)
<1>1. FileGrows(f, kind, g) /\ HistoryGrows(f, u, kind, w)  BY DEF Grows
<1> SUFFICES ASSUME NEW i \in DOMAIN w, IsSigning(w[i].kind) PROVE Marked(g, w, w[i].from + 3)
  BY DEF MarksKept
<1>2. CASE i \in DOMAIN u
  <2> DEFINE n == w[i].from + 3
  <2>1. w[i] = u[i] /\ w[i].from \in Nat  BY <1>1, <1>2 DEF HistoryGrows
  <2>2. n \in Nat /\ n <= Len(f)  BY <1>2, <2>1 DEF SigningsKept, IsSigned
  <2>3. IsWellFormed(Prefix(f, n)) /\ Marked(f, u, n)
    BY <1>2, <2>1 DEF TailsKept, TailKept, MarksKept
  <2> HIDE DEF n
  <2>4. Marked(g, w, n)  BY <2>2, <2>3, MarkedKept
  <2> QED  BY <2>4 DEF n
<1>3. CASE i \notin DOMAIN u
  <2> DEFINE n == w[i].from + 3
  <2>1. w[i].kind = kind /\ w[i].from = Len(f)  BY <1>1, <1>3 DEF HistoryGrows
  <2>2. Len(g) = n  BY <2>1 DEF Grows, SigningGrows
  <2>3. DOMAIN g = 1..Len(g) /\ Len(g) \in Nat  BY <1>1, FileFacts DEF FileGrows
  <2>4. KindsAfter(w, n) = {}
    <3>1. \A k \in DOMAIN w : w[k].from \in Nat /\ w[k].from <= Len(f)
      BY <1>1 DEF HistoryGrows, FileGrows
    <3>2. n = Len(f) + 3 /\ Len(f) \in Nat  BY <1>1, <2>1 DEF FileGrows
    <3>3. \A k \in DOMAIN w : ~ (w[k].from >= n)
      <4> HIDE DEF n
      <4> QED  BY <3>1, <3>2
    <3> QED  BY <3>3 DEF KindsAfter
  <2>5. \A q \in DOMAIN g : ~ (q > n)  BY <2>2, <2>3
  <2> HIDE DEF n
  <2>6. Marked(g, w, n)  BY <2>4, <2>5 DEF Marked
  <2> QED  BY <2>6 DEF n
<1> QED  BY <1>2, <1>3

\* The validation data in every file that is written.
THEOREM MarksInvariant == Spec => [](DssIsPlain(file) /\ MarksKept(file, updates))
<1> DEFINE Inv == DssIsPlain(file) /\ MarksKept(file, updates)
<1>1. Init => Inv
  <2> SUFFICES ASSUME Init PROVE Inv  OBVIOUS
  <2>1. IsUnsigned(file)  BY BasesAssumption DEF Init
  <2>2. DssIsPlain(file)  BY <2>1 DEF IsUnsigned, LooksLikeDss, DssIsPlain
  <2>3. MarksKept(file, updates)  BY DEF Init, MarksKept
  <2> QED  BY <2>2, <2>3
<1>2. PdfInv(file, updates) /\ TailsKept(file, updates) /\ Inv /\ [Next]_vars => Inv'
  <2> SUFFICES ASSUME PdfInv(file, updates), TailsKept(file, updates), Inv, [Next]_vars
               PROVE  DssIsPlain(file') /\ MarksKept(file', updates')
    BY DEF DssIsPlain, MarksKept, Marked, KindsAfter
  <2>1. CASE UNCHANGED vars  BY <2>1 DEF vars
  <2>2. ASSUME NEW kind \in Maintenance \cup Edits, Update(kind)
        PROVE  DssIsPlain(file') /\ MarksKept(file', updates')
    <3> DEFINE g == file \o Appended(file, kind)
               w == Append(updates, [kind |-> kind, from |-> Len(file)])
    <3>1. CanAppend(file, kind)  BY <2>2, UpdatesAreKinds
    <3>2. Grows(file, updates, kind, g, w)  BY <3>1, UpdateGrows DEF PdfInv
    <3>3. EvidenceGrows(file, kind, g)  BY <3>1, EvidenceIsWritten DEF PdfInv, FileInv
    <3>4. file' = g /\ updates' = w  BY <2>2 DEF Update
    <3> HIDE DEF g, w
    <3>5. DssIsPlain(g)  BY <3>2, PlainDssKept
    <3>6. MarksKept(g, w)  BY <3>2, <3>3, MarksStay DEF PdfInv
    <3> QED  BY <3>4, <3>5, <3>6
  <2> QED  BY <2>1, <2>2 DEF Next, Maintain, Edit
<1> QED  BY <1>1, <1>2, PdfInvariant, TailsInvariant, PTL DEF Spec

-----------------------------------------------------------------------------
(* What the references of the validation data lead to includes where they  *)
(* start.                                                                  *)

Growth(g, more, U) ==
  g = [ids \in SUBSET U |-> IF more[ids] = ids THEN ids ELSE g[more[ids]]]

\* Growth has a value: the least subset that has the seed and grows no more.
LEMMA GrowthHasLimit ==
  ASSUME NEW U, NEW more, OnlyGrows(more, U),
         \A a, b \in SUBSET U : a \subseteq b => more[a] \subseteq more[b]
  PROVE  \E g : Growth(g, more, U) /\ \A ids \in SUBSET U : ids \subseteq g[ids]
<1> DEFINE Least(ids) == {x \in U : \A S \in SUBSET U : ids \subseteq S /\ more[S] = S => x \in S}
           g == [ids \in SUBSET U |-> Least(ids)]
<1>1. ASSUME NEW ids \in SUBSET U
      PROVE  Least(ids) = IF more[ids] = ids THEN ids ELSE Least(more[ids])
  <2>1. CASE more[ids] = ids
    <3>1. Least(ids) = ids  BY <2>1
    <3> QED  BY <2>1, <3>1
  <2>2. CASE more[ids] # ids
    <3>1. \A S \in SUBSET U : more[S] = S => (ids \subseteq S <=> more[ids] \subseteq S)
      BY DEF OnlyGrows
    <3>2. Least(ids) = Least(more[ids])  BY <3>1
    <3> QED  BY <2>2, <3>2
  <2> QED  BY <2>1, <2>2
<1>2. \A ids \in SUBSET U : ids \subseteq Least(ids)  OBVIOUS
<1> HIDE DEF Least
<1>3. \A ids \in SUBSET U : more[ids] \in SUBSET U  BY DEF OnlyGrows
<1>4. \A ids \in SUBSET U : g[ids] = IF more[ids] = ids THEN ids ELSE g[more[ids]]
  BY <1>1, <1>3
<1>5. Growth(g, more, U)  BY <1>4 DEF Growth
<1>6. \A ids \in SUBSET U : ids \subseteq g[ids]  BY <1>2
<1> HIDE DEF g
<1> QED  BY <1>5, <1>6

\* Finitely many objects have finitely many references.
LEMMA FiniteUnionOfReferences ==
  ASSUME NEW objects, IsFiniteSet(objects), \A o \in objects : IsFiniteSet(References(o))
  PROVE  IsFiniteSet(UNION {References(o) : o \in objects})
<1> DEFINE f == [o \in objects |-> References(o)]
           T == {References(o) : o \in objects}
<1>1. f \in Surjection(objects, T)  BY DEF Surjection
<1>2. IsFiniteSet(T)  BY <1>1, FS_Surjection
<1> QED  BY <1>2, FS_UNION

\* The ids that references start from are among those they lead to.
LEMMA SeedIsReached ==
  ASSUME NEW objects, IsFiniteSet(objects), NEW seed, IsFiniteSet(seed),
         \A o \in objects : IsFiniteSet(References(o))
  PROVE  seed \subseteq Closure(objects, seed, References)
<1> DEFINE U == seed \cup UNION {References(o) : o \in objects}
           More(ids) == ids \cup UNION {References(o) : o \in {x \in objects : x.id \in ids}}
           more == [ids \in SUBSET U |-> More(ids)]
           r == CHOOSE f : f = [ids \in SUBSET U |-> IF More(ids) = ids THEN ids ELSE f[More(ids)]]
<1>1. IsFiniteSet(U)  BY FiniteUnionOfReferences, FS_Union
<1>2. \A ids \in SUBSET U : More(ids) \in SUBSET U /\ ids \subseteq More(ids)
  OBVIOUS
<1>3. \A a, b \in SUBSET U : a \subseteq b => More(a) \subseteq More(b)
  OBVIOUS
<1>4. Closure(objects, seed, References) = r[seed]  BY DEF Closure
<1>5. seed \in SUBSET U  OBVIOUS
<1> HIDE DEF More, U
<1>6. \A ids \in SUBSET U : more[ids] = More(ids)  OBVIOUS
<1>7. OnlyGrows(more, U)  BY <1>2 DEF OnlyGrows
<1> HIDE DEF more
<1>8. \A a, b \in SUBSET U : a \subseteq b => more[a] \subseteq more[b]  BY <1>3, <1>6
<1>9. PICK g : Growth(g, more, U) /\ \A ids \in SUBSET U : ids \subseteq g[ids]
  BY <1>7, <1>8, GrowthHasLimit
<1>10. g = [ids \in SUBSET U |-> IF More(ids) = ids THEN ids ELSE g[More(ids)]]
  BY <1>6, <1>9 DEF Growth
<1>11. r = [ids \in SUBSET U |-> IF More(ids) = ids THEN ids ELSE r[More(ids)]]
  <2>1. \E f : f = [ids \in SUBSET U |-> IF More(ids) = ids THEN ids ELSE f[More(ids)]]
    BY <1>10
  <2> QED  BY <2>1, Zenon
<1> HIDE DEF r
<1>12. FollowsGrowth(r, more, U) /\ FollowsGrowth(g, more, U)
  BY <1>6, <1>10, <1>11 DEF FollowsGrowth
<1>13. r[seed] = g[seed]  BY <1>1, <1>5, <1>7, <1>12, GrowthIsDetermined
<1> QED  BY <1>4, <1>5, <1>9, <1>13

-----------------------------------------------------------------------------
(* A revision with validation data is recognised.                          *)

\* What is asked of a signature d: a quiet tail with validation data.
IsExtended(f, u, d, n) ==
  /\ IsSignature(f, u, d, n) /\ DssIsPlain(f) /\ Marked(f, u, n)
  /\ IsDirect(CatalogOf(Signed(f, d)))
  /\ KindsAfter(u, n) \subseteq QuietKinds
  /\ KindsAfter(u, n) \cap {"dss", "vri", "extend", "renew"} # {}

\* A dictionary of validation data is neither metadata nor disallowed.
LEMMA PlainDssIsDss ==
  ASSUME NEW o, o.type = "DSS", IsPlainDss(o)
  PROVE  LooksLikeDss(o) /\ ~ LooksLikeMetadata(o) /\ ~ Disallowed(o)
<1>1. LooksLikeDss(o)  BY DEF LooksLikeDss
<1>2. ~ HasAnyName(o, MetadataNames) /\ ~ HasAnyName(o, MarkerNames)
  BY DEF HasAnyName, HasName, IsPlainDss, MetadataNames, MarkerNames
<1>3. "Widget" \notin o.names  BY DEF IsPlainDss
<1> QED  BY <1>1, <1>2, <1>3 DEF LooksLikeMetadata, Disallowed

\* The objects of the tail, each with what the check takes it for.
LEMMA TailObjectsAre ==
  ASSUME NEW f, NEW u, NEW d, NEW n, IsExtended(f, u, d, n), NEW o \in ToSet(Later(f, d))
  PROVE  LET prior == Direct(Signed(f, d))
         IN  /\ o \in ToSet(f)
             /\ o.type = "Catalog" => CatalogOnlyAddsDss(o, prior)
             /\ o.type = "DSS" =>
                  /\ LooksLikeDss(o) /\ ~ LooksLikeMetadata(o) /\ ~ Disallowed(o) /\ IsDirect(o)
                  /\ o.id \in Numbers(Signed(f, d)) => Holds(prior, o.id)
             /\ o.id \notin Numbers(Signed(f, d)) => ~ Holds(prior, o.id)
             /\ ~ CatalogOnlyAddsDss(o, prior) => ~ Disallowed(o)
             /\ \/ CatalogOnlyAddsDss(o, prior) \/ LooksLikeMetadata(o) \/ o.type = "DSS"
                \/ o.id \notin Numbers(Signed(f, d))
<1> DEFINE s == Signed(f, d)
           prior == Direct(s)
<1>1. IsSignature(f, u, d, n) /\ DssIsPlain(f) /\ IsDirect(CatalogOf(s))
      /\ KindsAfter(u, n) \subseteq QuietKinds
  BY DEF IsExtended
<1>2. /\ s = Prefix(f, n) /\ IsWellFormed(s) /\ ToSet(s) \subseteq ToSet(f) /\ IsWellFormed(f)
      /\ \A m \in DOMAIN Later(f, d) : \E q \in DOMAIN f : q > n /\ Later(f, d)[m] = f[q]
  BY <1>1, PartsOfFile DEF IsSignature
<1>3. PICK q \in DOMAIN f : q > n /\ f[q] = o  BY <1>2 DEF ToSet
<1>4. o \in ToSet(f)  BY <1>3 DEF ToSet
<1>5. IsQuiet(o, s)  BY <1>1, <1>2, <1>3 DEF IsSignature, TailKept, Quiet
<1>6. HasOneRole(o) /\ \A p \in ToSet(s) : /\ o.id = p.id => Alike(o, p)
                                           /\ o.type = "Catalog" /\ p.type = "Catalog" => o.id = p.id
  BY <1>2, <1>4 DEF IsWellFormed
<1>7. DirectCatalogsLast(s)
  <2>1. DOMAIN s = 1..n /\ \A k \in 1..n : k \in DOMAIN f /\ s[k] = f[k]  BY <1>1, PartsOfFile
  <2>2. DirectCatalogsLast(f)  BY <1>1 DEF IsSignature
  <2> HIDE DEF s
  <2>3. \A k \in Catalogs(s) : k \in Catalogs(f) /\ s[k] = f[k]  BY <2>1 DEF Catalogs
  <2> QED  BY <2>2, <2>3 DEF DirectCatalogsLast
<1> HIDE DEF s
<1>8. ASSUME o.type = "Catalog" PROVE CatalogOnlyAddsDss(o, prior)
  <2> DEFINE c == CatalogOf(s)
  <2>1. c \in ToSet(s) /\ c.type = "Catalog" /\ IsDirect(c)  BY <1>1, <1>2, CatalogIs
  <2> HIDE DEF c
  <2>2. Holds(prior, c.id)  BY <1>2, <2>1, DirectVersionIs
  <2>3. o.id = c.id  BY <1>6, <1>8, <2>1
  <2>4. Latest(prior, o.id) = CatalogOf(s)  BY <1>2, <1>7, <2>1, <2>2, <2>3, SignedCatalogIs
  <2>5. "ModDate" \notin o.names  BY <1>6, <1>8 DEF HasOneRole
  <2>6. "DSS" \in DOMAIN o.links /\ SameText(WithoutAdditions(CatalogOf(s)), WithoutAdditions(o))
    BY <1>5, <1>8, <2>5 DEF IsQuiet
  <2> HIDE DEF prior
  <2> QED  BY <1>8, <2>2, <2>3, <2>4, <2>6 DEF CatalogOnlyAddsDss, HasName
<1>9. ASSUME o.type = "DSS"
      PROVE  /\ LooksLikeDss(o) /\ ~ LooksLikeMetadata(o) /\ ~ Disallowed(o) /\ IsDirect(o)
             /\ o.id \in Numbers(s) => Holds(prior, o.id)
  <2>1. IsPlainDss(o)  BY <1>1, <1>4, <1>9 DEF DssIsPlain
  <2>2. ASSUME NEW p \in ToSet(s), p.id = o.id PROVE Holds(prior, o.id)
    <3>1. p.type = "DSS"  BY <1>6, <1>9, <2>2 DEF Alike
    <3>2. IsDirect(p)  BY <1>1, <1>2, <3>1 DEF DssIsPlain, IsPlainDss
    <3> QED  BY <1>2, <2>2, <3>2, DirectVersionIs
  <2>3. o.id \in Numbers(s) => \E p \in ToSet(s) : p.id = o.id  BY DEF Numbers, ToSet
  <2> QED  BY <1>9, <2>1, <2>2, <2>3, PlainDssIsDss DEF IsPlainDss
<1>10. o.id \notin Numbers(s) => ~ Holds(prior, o.id)
  <2>1. s \in Seq(ToSet(s))  BY <1>2, FileFacts
  <2>2. DOMAIN prior = {i \in DOMAIN s : IsDirect(s[i])} /\ \A i \in DOMAIN prior : prior[i] = s[i]
    BY <2>1, SequencesAreParts
  <2> HIDE DEF prior
  <2> QED  BY <2>2 DEF Holds, Numbers
<1>11. "ModDate" \in o.names => ~ Disallowed(o) /\ LooksLikeMetadata(o)
  BY <1>6 DEF HasOneRole, LooksLikeMetadata, HasAnyName, HasName, MetadataNames
<1>12. /\ ~ CatalogOnlyAddsDss(o, prior) => ~ Disallowed(o)
       /\ \/ CatalogOnlyAddsDss(o, prior) \/ LooksLikeMetadata(o) \/ o.type = "DSS"
          \/ o.id \notin Numbers(s)
  BY <1>5, <1>8, <1>9, <1>11 DEF IsQuiet
<1> QED  BY <1>4, <1>8, <1>9, <1>10, <1>12 DEF s

\* Somewhere in the tail is a catalog with a DSS, or a DSS that was signed.
LEMMA TailHasEvidence ==
  ASSUME NEW f, NEW u, NEW d, NEW n, IsExtended(f, u, d, n)
  PROVE  \E m \in DOMAIN Later(f, d) :
           LET o == Later(f, d)[m]
           IN  \/ o.type = "Catalog" /\ IsDirect(o) /\ "DSS" \in DOMAIN o.links
               \/ o.type = "DSS" /\ o.id \in Numbers(Signed(f, d))
<1>1. /\ f \in Seq(ToSet(f)) /\ n \in Nat /\ n <= Len(f) /\ Signed(f, d) = Prefix(f, n)
      /\ Later(f, d) = Suffix(f, n)
  BY PartsOfFile DEF IsExtended, IsSignature
<1>2. \A q \in DOMAIN f : q > n =>
        q - n \in DOMAIN Later(f, d) /\ Later(f, d)[q - n] = f[q]
  BY <1>1, SuffixIs
<1>3. CASE KindsAfter(u, n) \cap {"dss", "vri"} # {}
  <2>1. PICK q \in DOMAIN f : /\ q > n /\ f[q].type = "Catalog" /\ IsDirect(f[q])
                              /\ "DSS" \in DOMAIN f[q].links
    BY <1>3 DEF IsExtended, Marked
  <2> QED  BY <1>2, <2>1
<1>4. CASE KindsAfter(u, n) \cap {"dss", "vri"} = {}
  <2>1. KindsAfter(u, n) \subseteq ExtensionKinds /\ KindsAfter(u, n) \cap {"extend", "renew"} # {}
    BY <1>4 DEF IsExtended, QuietKinds, ExtensionKinds
  <2>2. PICK q \in DOMAIN f : q > n /\ f[q].type = "DSS" /\ f[q].id \in Numbers(Signed(f, d))
    BY <1>1, <2>1 DEF IsExtended, Marked
  <2> QED  BY <1>2, <2>2
<1> QED  BY <1>3, <1>4

\* A tail of validation data is recognised as such.
LEMMA ExtensionRecognised ==
  ASSUME NEW f, NEW u, NEW d, NEW n, IsExtended(f, u, d, n)
  PROVE  OnlyValidationData(Signed(f, d), Later(f, d))
<1> DEFINE s == Signed(f, d)
           tail == Later(f, d)
           prior == Direct(s)
           objects == ToSet(tail)
           catalogs == {o \in objects : CatalogOnlyAddsDss(o, prior)}
           others == objects \ catalogs
           metadata == {o \in others : LooksLikeMetadata(o)}
           new == {o \in others \ metadata : ~ Holds(prior, o.id)}
           dss == {o \in others \ (metadata \cup new) : LooksLikeDss(o)}
           seed == (UNION {References(o) : o \in catalogs}) \cup {o.id : o \in dss}
           allowed == Closure(objects, seed, References)
           accepted == {o.id : o \in catalogs \cup metadata \cup new} \cup allowed
<1>1. ASSUME NEW o \in objects
      PROVE  /\ o \in ToSet(f)
             /\ o.type = "Catalog" => CatalogOnlyAddsDss(o, prior)
             /\ o.type = "DSS" =>
                  /\ LooksLikeDss(o) /\ ~ LooksLikeMetadata(o) /\ ~ Disallowed(o) /\ IsDirect(o)
                  /\ o.id \in Numbers(s) => Holds(prior, o.id)
             /\ o.id \notin Numbers(s) => ~ Holds(prior, o.id)
             /\ ~ CatalogOnlyAddsDss(o, prior) => ~ Disallowed(o)
             /\ CatalogOnlyAddsDss(o, prior) \/ LooksLikeMetadata(o) \/ o.type = "DSS"
                  \/ o.id \notin Numbers(s)
  BY TailObjectsAre
<1>2. PICK m \in DOMAIN tail :
        \/ tail[m].type = "Catalog" /\ IsDirect(tail[m]) /\ "DSS" \in DOMAIN tail[m].links
        \/ tail[m].type = "DSS" /\ tail[m].id \in Numbers(s)
  BY TailHasEvidence
<1>3. IsWellFormed(f) /\ f \in Seq(ToSet(f)) /\ tail = Suffix(f, n) /\ n \in Nat /\ n <= Len(f)
  BY PartsOfFile DEF IsExtended, IsSignature
<1>4. IsFiniteSet(objects)
  <2>1. tail \in Seq(ToSet(f))  BY <1>3, SuffixIs
  <2> QED  BY <2>1, ElementsAreFinite
<1> HIDE DEF s, prior, tail
<1>5. tail[m] \in objects  BY <1>2 DEF ToSet
<1>6. CatalogOnlyAddsDss(tail[m], prior) => tail[m].type = "Catalog"  BY DEF CatalogOnlyAddsDss
<1>7. tail # << >>  BY <1>2
<1>8. Mentions(tail, "DSS")
  <2>1. IsDirect(tail[m])  BY <1>1, <1>2, <1>5
  <2>2. HasName(tail[m], "DSS")  BY <1>2 DEF HasName
  <2> QED  BY <2>1, <2>2 DEF Mentions
<1>9. \A o \in others : ~ Disallowed(o)  BY <1>1
<1>10. tail[m] \in catalogs \cup dss  BY <1>1, <1>2, <1>5, <1>6
<1>11. seed \subseteq allowed
  <2>1. IsFiniteSet(Numbers(f)) /\ \A o \in ToSet(f) : References(o) \subseteq Numbers(f)
    <3>1. Cardinality(Numbers(f)) \in Nat /\ Numbers(f) = 1..Cardinality(Numbers(f))
      BY <1>3, Numbered
    <3>2. IsFiniteSet(1..Cardinality(Numbers(f)))  BY <3>1, FS_Interval
    <3> QED  BY <1>3, <3>1, <3>2 DEF IsWellFormed, IsLinked
  <2>2. \A o \in ToSet(f) : o.id \in Numbers(f)  BY <1>3, FileFacts
  <2>3. \A o \in objects : References(o) \subseteq Numbers(f) /\ o.id \in Numbers(f)
    BY <1>1, <2>1, <2>2
  <2>4. \A o \in objects : IsFiniteSet(References(o))  BY <2>1, <2>3, FS_Subset
  <2>5. seed \subseteq Numbers(f)
    <3>1. catalogs \subseteq objects /\ dss \subseteq objects  OBVIOUS
    <3> HIDE DEF catalogs, dss, objects
    <3> QED  BY <2>3, <3>1
  <2> HIDE DEF objects
  <2>6. IsFiniteSet(seed)  BY <2>1, <2>5, FS_Subset
  <2> HIDE DEF seed
  <2> QED  BY <1>4, <2>4, <2>6, SeedIsReached
<1> HIDE DEF allowed
<1>12. ASSUME NEW o \in objects PROVE o.id \in accepted
  <2>1. CASE CatalogOnlyAddsDss(o, prior)  BY <2>1
  <2>2. CASE LooksLikeMetadata(o) /\ ~ CatalogOnlyAddsDss(o, prior)  BY <2>2
  <2>3. CASE ~ LooksLikeMetadata(o) /\ ~ CatalogOnlyAddsDss(o, prior) /\ ~ Holds(prior, o.id)
    BY <2>3
  <2>4. CASE ~ LooksLikeMetadata(o) /\ ~ CatalogOnlyAddsDss(o, prior) /\ Holds(prior, o.id)
    <3>1. o.type = "DSS"  BY <1>1, <2>4
    <3>2. o \in dss  BY <1>1, <2>4, <3>1
    <3>3. o.id \in seed
      <4> HIDE DEF catalogs, dss
      <4> QED  BY <3>2
    <3> QED  BY <1>11, <3>3
  <2> QED  BY <2>1, <2>2, <2>3, <2>4
<1>13. catalogs \cup dss # {}  BY <1>10
<1>14. OnlyValidationData(s, tail)
  BY <1>7, <1>8, <1>9, <1>12, <1>13 DEF OnlyValidationData, prior, allowed
<1> QED  BY <1>14 DEF s, tail

\* A last revision that only adds or extends validation data, or metadata with
\* it, is recognised: its signature gets no warning that something was appended.
THEOREM MaintenanceAlwaysRecognised == Spec => []MaintenanceRecognised
<1>1. PdfInv(file, updates) /\ TailsKept(file, updates) /\ DssIsPlain(file)
        /\ MarksKept(file, updates) => MaintenanceRecognised
  <2> SUFFICES ASSUME PdfInv(file, updates), TailsKept(file, updates), DssIsPlain(file),
                      MarksKept(file, updates), NEW d \in Usable(file)
               PROVE  LET kinds == KindsFrom(SignedSize(file, d))
                      IN  /\ kinds \subseteq {"dss", "vri", "extend", "renew", "metadata"}
                          /\ kinds # {} /\ kinds # {"metadata"}
                          /\ IsDirect(CatalogOf(Signed(file, d)))
                          => ~ CoverageWarned(file, d)
    BY DEF MaintenanceRecognised
  <2> DEFINE n == SignedSize(file, d)
             kinds == KindsFrom(n)
  <2> SUFFICES ASSUME kinds \subseteq {"dss", "vri", "extend", "renew", "metadata"},
                      kinds # {}, kinds # {"metadata"}, IsDirect(CatalogOf(Signed(file, d))),
                      CoverageWarned(file, d)
               PROVE  FALSE
    OBVIOUS
  <2>1. IsSignature(file, updates, d, n)  BY UsableIsSignature
  <2>2. kinds = KindsAfter(updates, n)  BY DEF KindsFrom, KindsAfter
  <2>3. HasLater(file, d) /\ ~ HasOnlyValidationData(file, d)  BY DEF CoverageWarned
  <2> HIDE DEF kinds
  <2>4. kinds \subseteq QuietKinds /\ kinds \cap {"dss", "vri", "extend", "renew"} # {}
        /\ kinds \subseteq MaintenanceKinds
    BY DEF QuietKinds, MaintenanceKinds
  <2>5. Marked(file, updates, n)
    <3>1. d \in Dictionaries(file)  BY DEF Usable
    <3>2. d \in DOMAIN file /\ "ByteRange" \in file[d].names
      BY <3>1 DEF Dictionaries, AllDictionaries, IsDictionary
    <3>3. PICK i \in DOMAIN updates :
            IsSigning(updates[i].kind) /\ file[d].number = updates[i].from + 3
      BY <3>2 DEF PdfInv, DictionariesFrom
    <3> QED  BY <3>3 DEF MarksKept, SignedSize
  <2> HIDE DEF n
  <2>6. ~ RewriteSeen(file, d)  BY <2>1, <2>2, <2>4, RewriteNotSeen
  <2>7. IsExtended(file, updates, d, n)  BY <2>1, <2>2, <2>4, <2>5 DEF IsExtended
  <2>8. OnlyValidationData(Signed(file, d), Later(file, d))  BY <2>7, ExtensionRecognised
  <2> QED  BY <2>3, <2>6, <2>8 DEF HasOnlyValidationData
<1> QED  BY <1>1, PdfInvariant, TailsInvariant, MarksInvariant, PTL

-----------------------------------------------------------------------------
(* What the objects of a file look like to the scans, whatever is appended. *)

\* The catalog names the form, what is shown does not look like validation data,
\* a field is a widget and a signature has contents.
IsCast(o) ==
  /\ o.type = "Catalog" => HasName(o, "AcroForm")
  /\ LooksLikeDss(o) => ~ IsShown(o)
  /\ "Sig" \in o.names => "Widget" \in o.names /\ o.spaced /\ ~ LooksLikeDss(o)
  /\ o.type \in {"Sig", "DocTimeStamp"} => "Contents" \in o.names
AllCast(f) == \A o \in ToSet(f) : IsCast(o)

\* A signature field has a signature for its value.
ValuesAreSignatures(f) ==
  \A o, p \in ToSet(f) : p.id = FirstRef(o, "V") => p.type \in {"Sig", "DocTimeStamp"}

\* What only evidence refers to is not written again after a signature of size n.
NotPlainAgain(f, n) ==
  \A j \in 1..n : \A q \in DOMAIN f : q > n /\ f[q].id = f[j].id => ~ IsPlain(f[q])
NonePlainAgain(f, u) == \A i \in DOMAIN u : IsSigning(u[i].kind) => NotPlainAgain(f, u[i].from + 3)

\* The marks writers add to an object, and the names they add references after.
AddedMarks == {"OpenAction", "Reason", "Extensions", "Title"}
AddedLinks == {"DSS", "Fields", "OCSPs", "Kids", "V"}

\* The object o is p with marks and references after the name added.
Extends(o, p, name) ==
  /\ o.type = p.type /\ o.spaced = p.spaced
  /\ p.names \subseteq o.names /\ o.names \subseteq p.names \cup AddedMarks
  /\ DOMAIN p.links \subseteq DOMAIN o.links /\ DOMAIN o.links \subseteq DOMAIN p.links \cup {name}

\* Extended, an object has its names and no other that tells what it is.
LEMMA ExtendedNames ==
  ASSUME NEW o, NEW p, NEW name, Extends(o, p, name), NEW names
  PROVE  /\ HasAnyName(p, names) => HasAnyName(o, names)
         /\ HasAnyName(o, names) /\ names \cap (AddedMarks \cup {name}) = {} => HasAnyName(p, names)
BY DEF Extends, HasAnyName, HasName

\* Marks and references change the look of an object in one way only.
LEMMA ExtendedLooks ==
  ASSUME NEW o, NEW p, NEW name \in AddedLinks, Extends(o, p, name)
  PROVE  /\ Disallowed(p) => Disallowed(o)
         /\ LooksLikeDss(p) => LooksLikeDss(o)
         /\ LooksLikeDss(o) => LooksLikeDss(p) \/ name = "OCSPs"
<1>1. HasAnyName(p, MarkerNames) => HasAnyName(o, MarkerNames)  BY ExtendedNames
<1>2. HasAnyName(p, DssNames) => HasAnyName(o, DssNames)  BY ExtendedNames
<1>3. name # "OCSPs" /\ HasAnyName(o, DssNames) => HasAnyName(p, DssNames)
  <2>1. name # "OCSPs" => DssNames \cap (AddedMarks \cup {name}) = {}
    BY DEF DssNames, AddedMarks, AddedLinks
  <2> QED  BY <2>1, ExtendedNames
<1>4. o.type = p.type /\ o.spaced = p.spaced /\ p.names \subseteq o.names  BY DEF Extends
<1>5. Disallowed(p) => Disallowed(o)  BY <1>1, <1>4 DEF Disallowed
<1> QED  BY <1>2, <1>3, <1>4, <1>5 DEF LooksLikeDss

\* An object with marks and references added looks like what it was.
LEMMA ExtendedIsCast ==
  ASSUME NEW o, NEW p, IsCast(p), NEW name \in AddedLinks, Extends(o, p, name),
         name = "Fields" => "Fields" \in DOMAIN p.links,
         name = "OCSPs" => LooksLikeDss(p),
         name = "Kids" => "Kids" \in DOMAIN p.links \/ "Sig" \in p.names
  PROVE  IsCast(o)
<1>1. LooksLikeDss(o) <=> LooksLikeDss(p)  BY ExtendedLooks
<1>2. /\ o.type = p.type /\ o.spaced = p.spaced /\ p.names \subseteq o.names
      /\ o.names \subseteq p.names \cup AddedMarks
      /\ DOMAIN p.links \subseteq DOMAIN o.links /\ DOMAIN o.links \subseteq DOMAIN p.links \cup {name}
  BY DEF Extends
<1>3. o.type = "Catalog" => HasName(o, "AcroForm")
  <2>1. HasName(p, "AcroForm") => HasName(o, "AcroForm")  BY <1>2 DEF HasName
  <2> QED  BY <1>2, <2>1 DEF IsCast
<1>4. "Sig" \in o.names <=> "Sig" \in p.names  BY <1>2 DEF AddedMarks
<1>5. "Sig" \in o.names => "Widget" \in o.names /\ o.spaced /\ ~ LooksLikeDss(o)
  BY <1>1, <1>2, <1>4 DEF IsCast
<1>6. o.type \in {"Sig", "DocTimeStamp"} => "Contents" \in o.names  BY <1>2 DEF IsCast
<1>7. ASSUME LooksLikeDss(o) PROVE ~ IsShown(o)
  <2>1. "Sig" \notin p.names  BY <1>4, <1>5, <1>7
  <2>2. DOMAIN p.links \cap {"Fields", "Kids"} = {} /\ p.type \notin {"Pages", "Page", "XObject"}
    BY <1>1, <1>7 DEF IsCast, IsShown
  <2>3. name \notin {"Fields", "Kids"}  BY <2>1, <2>2
  <2> QED  BY <1>2, <2>2, <2>3 DEF IsShown
<1> QED  BY <1>3, <1>5, <1>6, <1>7 DEF IsCast

\* New objects look like what they are.
LEMMA NewOnesAreCast ==
  ASSUME NEW f, NEW o
  PROVE  /\ \A type \in {"Sig", "DocTimeStamp"} : \A names \in SUBSET {"ETSI.RFC3161"} :
              IsSignatureOf(f, o, type, names) => IsCast(o)
         /\ IsFieldOf(f, o) /\ o.spaced => IsCast(o)
         /\ \A names \in SUBSET {"VRI"} : IsDssOf(f, o, names) => IsCast(o)
         /\ o.names = {} /\ o.links = << >> /\ o.type = NoType => IsCast(o)
         /\ IsOtherSignature(f, o) => IsCast(o)
<1>1. ASSUME o.type \in {"Sig", "DocTimeStamp"}, o.links = << >>, "Contents" \in o.names,
             o.names \subseteq {"ByteRange", "Contents", "ETSI.RFC3161"}
      PROVE  IsCast(o)
  <2>1. DOMAIN o.links = {}  BY <1>1
  <2>2. ~ LooksLikeDss(o)  BY <1>1, <2>1 DEF LooksLikeDss, HasAnyName, HasName, DssNames
  <2> QED  BY <1>1, <2>1, <2>2 DEF IsCast
<1>2. ASSUME IsFieldOf(f, o), o.spaced PROVE IsCast(o)
  <2>1. o.type = NoType /\ o.names = {"Sig", "Widget"} /\ DOMAIN o.links = {"V"}
    BY <1>2 DEF IsFieldOf
  <2>2. ~ LooksLikeDss(o)  BY <2>1 DEF LooksLikeDss, HasAnyName, HasName, DssNames, NoType
  <2> QED  BY <1>2, <2>1, <2>2 DEF IsCast, NoType, LooksLikeMetadata, Disallowed
<1>3. ASSUME NEW names \in SUBSET {"VRI"}, IsDssOf(f, o, names) PROVE IsCast(o)
  <2>1. o.type = "DSS" /\ o.names \subseteq {"VRI"} /\ DOMAIN o.links = {"OCSPs"}
    BY <1>3 DEF IsDssOf
  <2> QED  BY <2>1 DEF IsCast, IsShown
<1>4. ASSUME o.names = {}, o.links = << >>, o.type = NoType PROVE IsCast(o)
  <2>1. DOMAIN o.links = {}  BY <1>4
  <2> QED  BY <1>4, <2>1 DEF IsCast, IsShown, NoType
<1>5. ASSUME NEW type \in {"Sig", "DocTimeStamp"}, NEW names \in SUBSET {"ETSI.RFC3161"},
             IsSignatureOf(f, o, type, names)
      PROVE  IsCast(o)
  BY <1>1, <1>5 DEF IsSignatureOf
<1>6. ASSUME IsOtherSignature(f, o) PROVE IsCast(o)  BY <1>1, <1>6 DEF IsOtherSignature
<1> QED  BY <1>2, <1>3, <1>4, <1>5, <1>6

\* References after one of the names extend an object.
LEMMA LinkedExtends ==
  ASSUME NEW p, IsPdfObject(p), NEW name, NEW ids \in Seq(Nat \ {0})
  PROVE  Extends(WithRefs(p, name, ids), p, name)
<1> DEFINE o == WithRefs(p, name, ids)
<1>1. /\ o.type = p.type /\ o.spaced = p.spaced /\ o.names = p.names
      /\ DOMAIN o.links = DOMAIN p.links \cup {name}
  BY LinkedObject
<1> HIDE DEF o
<1>2. Extends(o, p, name)  BY <1>1 DEF Extends
<1> QED  BY <1>2 DEF o

\* An object with the same references and marks added.
LEMMA MarkedIsCast ==
  ASSUME NEW o, NEW p, IsCast(p), o.type = p.type, o.spaced = p.spaced, o.links = p.links,
         p.names \subseteq o.names, o.names \subseteq p.names \cup AddedMarks
  PROVE  IsCast(o)
<1>1. Extends(o, p, "DSS")  BY DEF Extends
<1> QED  BY <1>1, ExtendedIsCast DEF AddedLinks

\* What signing appends looks like what it is.
LEMMA SigningIsCast ==
  ASSUME NEW f, IsWellFormed(f), AllCast(f), NEW kind, IsSigning(kind),
         NEW o \in ToSet(Appended(f, kind))
  PROVE  IsCast(o)
<1>1. PICK type \in {"Sig", "DocTimeStamp"}, names \in SUBSET {"ETSI.RFC3161"} :
        Appended(f, kind) = SignatureObjects(f, type, names)
  BY AppendedIs DEF IsSigning
<1> DEFINE w == WithField(f, Fresh(f, 2))
<1>2. PICK s, e : /\ SignatureObjects(f, type, names) = << s, e, w >>
                  /\ IsSignatureOf(f, s, type, names) /\ IsFieldOf(f, e)
  BY SigningWrites
<1>3. IsCast(s) /\ IsCast(e)
  <2>1. SignatureObjects(f, type, names)[2].spaced  BY DEF SignatureObjects, New
  <2> HIDE DEF w
  <2>2. e.spaced  BY <1>2, <2>1
  <2> QED  BY <1>2, <2>2, NewOnesAreCast
<1>4. IsCast(w)
  <2> DEFINE p == FormOf(f)
             ids == Append(RefsAfter(p, "Fields"), Fresh(f, 2))
  <2>1. p \in ToSet(f) /\ "Fields" \in DOMAIN p.links /\ IsPdfObject(p)  BY FormIs DEF IsWellFormed
  <2>2. ids \in Seq(Nat \ {0})
    <3>1. Fresh(f, 2) \in Nat \ {0}  BY NumbersAreFresh
    <3>2. RefsAfter(p, "Fields") \in Seq(Nat \ {0})  BY <2>1, RefsAre
    <3> QED  BY <3>1, <3>2
  <2> HIDE DEF p, ids
  <2>3. Extends(WithRefs(p, "Fields", ids), p, "Fields")  BY <2>1, <2>2, LinkedExtends
  <2>4. IsCast(p)  BY <2>1 DEF AllCast
  <2>5. IsCast(WithRefs(p, "Fields", ids))  BY <2>1, <2>3, <2>4, ExtendedIsCast DEF AddedLinks
  <2> QED  BY <2>5 DEF WithField, p, ids
<1> HIDE DEF w
<1>5. ToSet(Appended(f, kind)) = {s, e, w}  BY <1>1, <1>2, ThreeObjects
<1> QED  BY <1>3, <1>4, <1>5

\* A catalog that names a security store is read as a catalog.
LEMMA DssCatalogIsCast ==
  ASSUME NEW f, IsWellFormed(f), AllCast(f)
  PROVE  IsCast(DssCatalog(f))
<1> DEFINE c == DssCatalog(f)
           q == CatalogOf(f)
<1>1. q \in ToSet(f) /\ q.type = "Catalog"  BY CatalogIs
<1>2. /\ c.type = "Catalog" /\ c.names = q.names \cup {"Extensions"} /\ c.spaced = q.spaced
      /\ DOMAIN c.links = DOMAIN q.links \cup {"DSS"}
  BY DssCatalogIs
<1> HIDE DEF q, c
<1>3. Extends(c, q, "DSS")  BY <1>1, <1>2 DEF Extends, AddedMarks
<1>4. IsCast(q)  BY <1>1 DEF AllCast
<1>5. IsCast(c)  BY <1>3, <1>4, ExtendedIsCast DEF AddedLinks
<1> QED  BY <1>5 DEF c

\* Validation data looks like what it is.
LEMMA EvidenceIsCast ==
  ASSUME NEW f, IsWellFormed(f), AllCast(f), NEW kind \in {"dss", "vri", "extend", "renew"},
         CanAppend(f, kind), NEW o \in ToSet(Appended(f, kind))
  PROVE  IsCast(o)
<1>1. Fresh(f, 1) \in Nat \ {0} /\ Fresh(f, 2) \in Nat \ {0}  BY NumbersAreFresh
<1>2. ASSUME NEW k \in {1, 2} PROVE IsCast(Response(f, Fresh(f, k)))
  <2> DEFINE r == Response(f, Fresh(f, k))
  <2>1. r.names = {} /\ r.links = << >> /\ r.type = NoType  BY <1>1, ResponseIs
  <2> HIDE DEF r
  <2>2. IsCast(r)  BY <2>1, NewOnesAreCast
  <2> QED  BY <2>2 DEF r
<1>3. CASE kind \in {"dss", "vri"}
  <2>1. PICK names : names \subseteq {"VRI"} /\ Appended(f, kind) = DssObjects(f, names)
    <3>1. {} \subseteq {"VRI"} /\ {"VRI"} \subseteq {"VRI"}  OBVIOUS
    <3>2. CASE kind = "dss"  BY <3>1, <3>2, AppendedIs, Zenon
    <3>3. CASE kind = "vri"  BY <3>1, <3>3, AppendedIs, Zenon
    <3> QED  BY <1>3, <3>2, <3>3
  <2> DEFINE c == DssCatalog(f)
             r == Response(f, Fresh(f, 2))
  <2>2. PICK d : DssObjects(f, names) = << c, d, r >> /\ IsDssOf(f, d, names)  BY <2>1, DssWrites
  <2>3. IsCast(c)  BY DssCatalogIsCast
  <2>4. IsCast(d)  BY <2>1, <2>2, NewOnesAreCast
  <2>5. IsCast(r)  BY <1>2
  <2> HIDE DEF c, r
  <2>6. ToSet(Appended(f, kind)) = {c, d, r}  BY <2>1, <2>2, ThreeObjects
  <2> QED  BY <2>3, <2>4, <2>5, <2>6
<1>4. CASE kind \in {"extend", "renew"}
  <2>1. HasDss(f)  BY <1>4 DEF CanAppend
  <2>2. PICK kept \in Seq(Nat \ {0}) : Appended(f, kind) = ExtendedDss(f, kept)
    <3>1. RefsAfter(DssOf(f), "OCSPs") \in Seq(Nat \ {0})
      BY <2>1, DssIs, RefsAre DEF IsWellFormed
    <3>2. << >> \in Seq(Nat \ {0})  OBVIOUS
    <3>3. CASE kind = "extend"  BY <3>1, <3>3, AppendedIs
    <3>4. CASE kind = "renew"  BY <3>2, <3>4, AppendedIs
    <3> QED  BY <1>4, <3>3, <3>4
  <2> DEFINE q == DssOf(f)
             ids == Append(kept, Fresh(f, 1))
             d == WithRefs(q, "OCSPs", ids)
             r == Response(f, Fresh(f, 1))
  <2>3. Appended(f, kind) = << d, r >>  BY <2>2 DEF ExtendedDss
  <2>4. q \in ToSet(f) /\ q.type = "DSS" /\ IsPdfObject(q)  BY <2>1, DssIs DEF IsWellFormed
  <2>5. ids \in Seq(Nat \ {0})  BY <1>1
  <2> HIDE DEF q, ids
  <2>6. IsCast(d)
    <3>1. Extends(d, q, "OCSPs")  BY <2>4, <2>5, LinkedExtends
    <3>2. IsCast(q) /\ LooksLikeDss(q)  BY <2>4 DEF AllCast, LooksLikeDss
    <3> HIDE DEF d
    <3> QED  BY <3>1, <3>2, ExtendedIsCast DEF AddedLinks
  <2>7. IsCast(r)  BY <1>2
  <2> HIDE DEF d, r
  <2>8. ToSet(Appended(f, kind)) = {d, r}  BY <2>3, TwoObjects
  <2> QED  BY <2>6, <2>7, <2>8
<1> QED  BY <1>3, <1>4

\* A rewritten object looks like what it was.
LEMMA RewritingIsCast ==
  ASSUME NEW f, IsWellFormed(f), AllCast(f),
         NEW kind \in {"metadata", "page", "packed", "catalog", "dictionary", "copy"},
         CanAppend(f, kind), NEW o \in ToSet(Appended(f, kind))
  PROVE  IsCast(o)
<1>1. ASSUME NEW p \in ToSet(f), NEW packed \in Nat
      PROVE  IsCast([Reworded(p) EXCEPT !.packed = packed])
  <2> DEFINE q == [p EXCEPT !.text = p.text + 1]
             x == [q EXCEPT !.packed = packed]
  <2>1. IsPdfObject(p) /\ IsCast(p) /\ p.text + 1 \in Nat
    BY <1>1 DEF IsWellFormed, AllCast, IsPdfObject
  <2>2. /\ IsPdfObject(q) /\ q.type = p.type /\ q.links = p.links /\ q.names = p.names
        /\ q.spaced = p.spaced
    <3> HIDE DEF x
    <3> QED  BY <2>1 DEF IsPdfObject
  <2>3. Reworded(p) = q  BY DEF Reworded
  <2> HIDE DEF q
  <2>4. x.type = q.type /\ x.links = q.links /\ x.names = q.names /\ x.spaced = q.spaced
    BY <2>2 DEF IsPdfObject
  <2> HIDE DEF x
  <2>5. IsCast(x)
    <3>1. /\ x.type = p.type /\ x.spaced = p.spaced /\ x.links = p.links
          /\ p.names \subseteq x.names /\ x.names \subseteq p.names \cup AddedMarks
      BY <2>2, <2>4
    <3> QED  BY <2>1, <3>1, MarkedIsCast
  <2> QED  BY <2>3, <2>5 DEF x
<1>2. CASE kind \in {"metadata", "page", "packed"}
  <2>1. InfoOf(f) \in ToSet(f) /\ PageOf(f) \in ToSet(f)  BY InfoIs, PageIs
  <2>2. IsCast(NewInfo(f)) /\ IsCast(NewPage(f, 0)) /\ IsCast(NewPage(f, 1))
    BY <1>1, <2>1 DEF NewInfo, NewPage
  <2>3. CASE kind = "metadata"  BY <2>2, <2>3, AppendedIs, OnlyObject
  <2>4. CASE kind = "page"  BY <2>2, <2>4, AppendedIs, OnlyObject
  <2>5. CASE kind = "packed"  BY <2>2, <2>5, AppendedIs, OnlyObject
  <2> QED  BY <1>2, <2>3, <2>4, <2>5
<1>3. CASE kind = "catalog"
  <2> DEFINE p == CatalogOf(f)
             marks == p.names \cup {"OpenAction"}
             x == [p EXCEPT !.names = marks, !.packed = 0]
  <2>1. p \in ToSet(f) /\ IsPdfObject(p) /\ IsCast(p)  BY CatalogIs DEF IsWellFormed, AllCast
  <2>2. x = OpeningCatalog(f)  BY DEF OpeningCatalog
  <2> HIDE DEF p
  <2>3. /\ x.type = p.type /\ x.spaced = p.spaced /\ x.links = p.links
        /\ x.names = p.names \cup {"OpenAction"}
    BY <2>1 DEF IsPdfObject
  <2> HIDE DEF x
  <2>4. IsCast(x)  BY <2>1, <2>3, MarkedIsCast DEF AddedMarks
  <2> QED  BY <1>3, <2>2, <2>4, AppendedIs, OnlyObject
<1>4. CASE kind = "dictionary"
  <2> DEFINE p == FirstSignature(f)
             marks == p.names \cup {"Reason"}
             x == [p EXCEPT !.names = marks]
  <2>1. p \in ToSet(f) /\ IsPdfObject(p) /\ IsCast(p)
    BY <1>4, FirstSignatureIs DEF CanAppend, IsWellFormed, AllCast
  <2>2. x = ReasonedSignature(f)  BY DEF ReasonedSignature
  <2> HIDE DEF p
  <2>3. /\ x.type = p.type /\ x.spaced = p.spaced /\ x.links = p.links
        /\ x.names = p.names \cup {"Reason"}
    BY <2>1 DEF IsPdfObject
  <2> HIDE DEF x
  <2>4. IsCast(x)  BY <2>1, <2>3, MarkedIsCast DEF AddedMarks
  <2> QED  BY <1>4, <2>2, <2>4, AppendedIs, OnlyObject
<1>5. CASE kind = "copy"
  <2> DEFINE p == FirstSignature(f)
             x == [p EXCEPT !.id = Fresh(f, 1)]
  <2>1. p \in ToSet(f) /\ IsPdfObject(p) /\ IsCast(p)
    BY <1>5, FirstSignatureIs DEF CanAppend, IsWellFormed, AllCast
  <2>2. x = CopiedSignature(f)  BY DEF CopiedSignature
  <2> HIDE DEF p
  <2>3. x.type = p.type /\ x.spaced = p.spaced /\ x.links = p.links /\ x.names = p.names
    BY <2>1 DEF IsPdfObject
  <2> HIDE DEF x
  <2>4. IsCast(x)  BY <2>1, <2>3, MarkedIsCast
  <2> QED  BY <1>5, <2>2, <2>4, AppendedIs, OnlyObject
<1> QED  BY <1>2, <1>3, <1>4, <1>5

\* Pages, fields and signatures that are changed look like what they are.
LEMMA EditingIsCast ==
  ASSUME NEW f, IsWellFormed(f), AllCast(f), NEW kind \in {"pages", "swap", "loop"},
         CanAppend(f, kind), NEW o \in ToSet(Appended(f, kind))
  PROVE  IsCast(o)
<1>1. CASE kind = "pages"
  <2> DEFINE q == PagesOf(f)
             ids == Append(RefsAfter(q, "Kids"), Fresh(f, 1))
             y == WithRefs(q, "Kids", ids)
             x == [y EXCEPT !.number = @ + 1]
             p == PageOf(f)
             z == [p EXCEPT !.id = Fresh(f, 1), !.packed = 0]
  <2>1. q \in ToSet(f) /\ IsPdfObject(q) /\ IsCast(q) /\ q.type = "Pages" /\ IsLinked(q, f)
    BY PagesIs DEF IsWellFormed, AllCast
  <2>2. p \in ToSet(f) /\ IsPdfObject(p) /\ IsCast(p)  BY PageIs DEF IsWellFormed, AllCast
  <2>3. x = LongerPages(f) /\ z = SecondPage(f)  BY DEF LongerPages, SecondPage
  <2> HIDE DEF q, p
  <2>4. ids \in Seq(Nat \ {0}) /\ "Kids" \in DOMAIN q.links
    <3>1. RefsAfter(q, "Kids") \in Seq(Nat \ {0})  BY <2>1, RefsAre
    <3>2. RefsAfter(q, "Kids") # << >>  BY <2>1 DEF IsLinked
    <3>3. Fresh(f, 1) \in Nat \ {0}  BY NumbersAreFresh
    <3> QED  BY <3>1, <3>2, <3>3 DEF RefsAfter
  <2> HIDE DEF ids
  <2>5. IsPdfObject(y) /\ Extends(y, q, "Kids")  BY <2>1, <2>4, LinkedObject, LinkedExtends
  <2> HIDE DEF y
  <2>6. IsCast(y)  BY <2>1, <2>4, <2>5, ExtendedIsCast DEF AddedLinks
  <2>7. x.type = y.type /\ x.spaced = y.spaced /\ x.links = y.links /\ x.names = y.names
    BY <2>5 DEF IsPdfObject
  <2>8. z.type = p.type /\ z.spaced = p.spaced /\ z.links = p.links /\ z.names = p.names
    BY <2>2 DEF IsPdfObject
  <2> HIDE DEF x, z
  <2>9. IsCast(x) /\ IsCast(z)  BY <2>2, <2>6, <2>7, <2>8, MarkedIsCast
  <2> DEFINE a == << x, z >>
  <2>10. Appended(f, kind) = a  BY <1>1, <2>3, AppendedIs
  <2> HIDE DEF a
  <2>11. ToSet(a) = {x, z}  BY OneOfTwoObjects DEF a
  <2> QED  BY <2>9, <2>10, <2>11
<1>2. CASE kind \in {"swap", "loop"}
  <2> DEFINE p == FieldOf(f)
             value == << Fresh(f, 1) >>
             self == << p.id >>
             x == WithRefs(p, "V", value)
             y == WithRefs(p, "Kids", self)
             none == << >>
             marks == {"Contents"}
             s == New(Fresh(f, 1), "Sig", marks, none)
  <2>1. p \in ToSet(f) /\ IsPdfObject(p) /\ IsCast(p) /\ "Sig" \in p.names
    BY <1>2, FieldIs DEF CanAppend, IsWellFormed, AllCast
  <2>2. IsOtherSignature(f, s)  BY <1>2, SwapKeeps DEF CanAppend
  <2> HIDE DEF p, none, marks
  <2>3. value \in Seq(Nat \ {0}) /\ self \in Seq(Nat \ {0})
    BY <2>1, NumbersAreFresh DEF IsPdfObject
  <2> HIDE DEF value, self
  <2>4. Extends(x, p, "V") /\ Extends(y, p, "Kids")  BY <2>1, <2>3, LinkedExtends
  <2> HIDE DEF x, y, s
  <2>5. IsCast(x) /\ IsCast(y)  BY <2>1, <2>4, ExtendedIsCast DEF AddedLinks
  <2>6. IsCast(s)  BY <2>2, NewOnesAreCast
  <2>7. CASE kind = "swap"
    <3> DEFINE a == << s, x >>
    <3>1. Appended(f, kind) = a  BY <2>7, AppendedIs DEF s, x, p, value, none, marks
    <3>2. ToSet(a) = {s, x}
      <4> HIDE DEF a
      <4> QED  BY OneOfTwoObjects DEF a
    <3> QED  BY <2>5, <2>6, <3>1, <3>2
  <2>8. CASE kind = "loop"
    <3>1. Appended(f, kind) = << y >>  BY <2>8, AppendedIs DEF y, p, self
    <3> QED  BY <2>5, <3>1, OnlyObject
  <2> QED  BY <1>2, <2>7, <2>8
<1> QED  BY <1>1, <1>2

\* What a "stream" edit appends is read as what it is.
LEMMA StreamIsCast ==
  ASSUME NEW f, IsWellFormed(f), AllCast(f), NEW o \in ToSet(Appended(f, "stream"))
  PROVE  IsCast(o)
<1> DEFINE c == DssCatalog(f)
           d == DrawingDss(f)
           w == NewDrawing(f)
           p == DrawingOf(f)
<1>1. IsCast(c)  BY DssCatalogIsCast
<1>2. IsCast(d)
  <2>1. d.type = "DSS" /\ d.names = {} /\ d.links = [n \in {"Certs"} |-> << p.id >>]  BY DrawingDssIs
  <2>2. DOMAIN d.links = {"Certs"}  BY <2>1
  <2> HIDE DEF d
  <2> QED  BY <2>1, <2>2 DEF IsCast, IsShown
<1>3. IsCast(w)
  <2>1. /\ w.type = p.type /\ w.links = p.links /\ w.names = p.names /\ w.spaced = p.spaced
        /\ p \in ToSet(f)
    BY NewDrawingIs
  <2>2. IsCast(p)  BY <2>1 DEF AllCast
  <2> HIDE DEF w, p
  <2> QED  BY <2>1, <2>2, MarkedIsCast
<1>4. Appended(f, "stream") = << c, d, w >>  BY AppendedIs
<1> HIDE DEF c, d, w
<1>5. ToSet(Appended(f, "stream")) = {c, d, w}  BY <1>4, ThreeObjects
<1> QED  BY <1>1, <1>2, <1>3, <1>5

\* What a "title" edit appends is read as what it is.
LEMMA TitleIsCast ==
  ASSUME NEW f, IsWellFormed(f), AllCast(f), NEW o \in ToSet(Appended(f, "title"))
  PROVE  IsCast(o)
<1> DEFINE w == NewPages(f)
           s == NewFirstPage(f)
           p == PagesOf(f)
           ids == [RefsAfter(p, "Kids") EXCEPT ![1] = Fresh(f, 1)]
           l == WithRefs(p, "Kids", ids)
<1>1. IsCast(s)
  <2>1. s.type = "Page" /\ s.names = {} /\ s.links = [n \in {"XObject"} |-> << DrawingOf(f).id >>]
    BY NewFirstPageIs
  <2>2. DOMAIN s.links = {"XObject"}  BY <2>1
  <2> HIDE DEF s
  <2>3. ~ LooksLikeDss(s)  BY <2>1, <2>2 DEF LooksLikeDss, HasAnyName, HasName, DssNames
  <2> QED  BY <2>1, <2>3 DEF IsCast
<1>2. IsCast(w)
  <2>1. /\ w.type = p.type /\ w.names = p.names \cup {"Title"} /\ w.spaced = p.spaced
        /\ w.links = l.links /\ ids \in Seq(Nat \ {0}) /\ p \in ToSet(f) /\ p.type = "Pages"
        /\ IsPdfObject(p)
    BY NewPagesIs
  <2>2. IsCast(p) /\ RefsAfter(p, "Kids") # << >>
    BY <2>1 DEF AllCast, IsWellFormed, IsLinked
  <2>3. "Kids" \in DOMAIN p.links  BY <2>2 DEF RefsAfter
  <2> HIDE DEF w, p, ids
  <2>4. /\ l.type = p.type /\ l.spaced = p.spaced /\ l.names = p.names
        /\ Extends(l, p, "Kids")
    BY <2>1, LinkedObject, LinkedExtends
  <2> HIDE DEF l
  <2>5. IsCast(l)  BY <2>2, <2>3, <2>4, ExtendedIsCast DEF AddedLinks
  <2>6. /\ w.type = l.type /\ w.spaced = l.spaced /\ w.links = l.links
        /\ l.names \subseteq w.names /\ w.names \subseteq l.names \cup AddedMarks
    BY <2>1, <2>4 DEF AddedMarks
  <2> QED  BY <2>5, <2>6, MarkedIsCast
<1> DEFINE a == << w, s >>
<1>3. Appended(f, "title") = a  BY AppendedIs
<1> HIDE DEF w, s, a
<1>4. ToSet(a) = {w, s}  BY OneOfTwoObjects DEF a
<1> QED  BY <1>1, <1>2, <1>3, <1>4

\* That objects look like what they are survives an update.
LEMMA CastKept ==
  ASSUME NEW f, IsWellFormed(f), AllCast(f), NEW kind, CanAppend(f, kind)
  PROVE  AllCast(f \o Appended(f, kind))
<1> DEFINE a == Appended(f, kind)
<1>1. \A o \in ToSet(a) : IsCast(o)
  BY SigningIsCast, EvidenceIsCast, RewritingIsCast, EditingIsCast, StreamIsCast, TitleIsCast
  DEF CanAppend, Kinds, IsSigning
<1>2. f \in Seq(ToSet(f)) /\ a \in Seq(ToSet(a))  BY FileFacts, AppendedKeeps DEF AreKept
<1> HIDE DEF a
<1>3. ToSet(f \o a) = ToSet(f) \cup ToSet(a)
  <2> DEFINE S == ToSet(f) \cup ToSet(a)
  <2>1. f \in Seq(S) /\ a \in Seq(S)  BY <1>2
  <2> HIDE DEF S
  <2> QED  BY <2>1, Concatenated
<1> QED  BY <1>1, <1>3 DEF AllCast, a

\* An object that is written again is more than evidence.
LEMMA RewrittenIsNotPlain ==
  ASSUME NEW f, IsWellFormed(f), NEW kind, NEW o, IsOneOf(f, kind, o), o.id \in Numbers(f)
  PROVE  ~ IsPlain(o)
<1>1. PICK p \in ToSet(f) : IsVersionOf(f, kind, o, p)
  BY DEF IsOneOf, IsNewOne, IsCopyOf
<1>2. Alike(o, p)  BY <1>1 DEF IsVersionOf, IsChanged
<1>3. ~ IsPlain(p)
  <2>1. \/ "Fields" \in DOMAIN p.links \/ p = CatalogOf(f)
        \/ p.type \in {"Catalog", "DSS", "Page", "Pages", "XObject"}
        \/ "ModDate" \in p.names \/ "ByteRange" \in p.names \/ "Sig" \in p.names
    BY <1>1 DEF IsVersionOf, IsDictionary
  <2>2. CatalogOf(f).type = "Catalog"  BY CatalogIs
  <2> QED  BY <2>1, <2>2 DEF IsPlain, RoleNames
<1> QED  BY <1>2, <1>3 DEF Alike, IsPlain

\* That evidence is not written again survives an update.
LEMMA NonePlainStay ==
  ASSUME NEW f, NEW u, NEW kind, NEW g, NEW w, Grows(f, u, kind, g, w), SigningsKept(f, u),
         NonePlainAgain(f, u)
  PROVE  NonePlainAgain(g, w)
<1>1. FileGrows(f, kind, g) /\ HistoryGrows(f, u, kind, w)  BY DEF Grows
<1>2. IsWellFormed(f) /\ DOMAIN f = 1..Len(f) /\ Len(f) \in Nat /\ DOMAIN g = 1..Len(g) /\ Len(g) \in Nat
  BY <1>1, FileFacts DEF FileGrows
<1> SUFFICES ASSUME NEW i \in DOMAIN w, IsSigning(w[i].kind)
             PROVE  NotPlainAgain(g, w[i].from + 3)
  BY DEF NonePlainAgain
<1> DEFINE n == w[i].from + 3
<1>3. CASE i \in DOMAIN u
  <2>1. w[i] = u[i] /\ w[i].from \in Nat  BY <1>1, <1>3 DEF HistoryGrows
  <2>2. n \in Nat /\ n <= Len(f)  BY <1>3, <2>1 DEF SigningsKept, IsSigned
  <2>3. NotPlainAgain(f, n)  BY <1>3, <2>1 DEF NonePlainAgain
  <2> HIDE DEF n
  <2>4. ASSUME NEW j \in 1..n, NEW q \in DOMAIN g, q > n, g[q].id = g[j].id
        PROVE  ~ IsPlain(g[q])
    <3>1. j \in DOMAIN f /\ g[j] = f[j]  BY <1>1, <1>2, <2>2 DEF FileGrows
    <3>2. CASE q \in DOMAIN f
      <4>1. g[q] = f[q]  BY <1>1, <3>2 DEF FileGrows
      <4> QED  BY <2>3, <2>4, <3>1, <3>2, <4>1 DEF NotPlainAgain
    <3>3. CASE IsOneOf(f, kind, g[q])
      <4>1. g[q].id \in Numbers(f)  BY <2>4, <3>1 DEF Numbers
      <4> QED  BY <1>2, <3>3, <4>1, RewrittenIsNotPlain
    <3> QED  BY <1>1, <3>2, <3>3 DEF FileGrows
  <2> QED  BY <2>4 DEF NotPlainAgain, n
<1>4. CASE i \notin DOMAIN u
  <2>1. w[i].kind = kind /\ w[i].from = Len(f)  BY <1>1, <1>4 DEF HistoryGrows
  <2>2. Len(g) = n  BY <2>1 DEF Grows, SigningGrows
  <2>3. \A q \in DOMAIN g : ~ (q > n)  BY <1>2, <2>2
  <2> HIDE DEF n
  <2>4. NotPlainAgain(g, n)  BY <2>3 DEF NotPlainAgain
  <2> QED  BY <2>4 DEF n
<1> QED  BY <1>3, <1>4

\* The value of a field some update writes is a signature.
LEMMA ValueOfOneIsSignature ==
  ASSUME NEW f, NEW kind, NEW g, FileGrows(f, kind, g), OnlyFieldsHaveValues(f),
         ValuesAreSignatures(f), NEW o \in ToSet(g), NEW p \in ToSet(g), p.id = FirstRef(o, "V")
  PROVE  p.type \in {"Sig", "DocTimeStamp"}
<1>1. IsWellFormed(f) /\ IsWellFormed(g) /\ ToSet(f) \subseteq ToSet(g)  BY DEF FileGrows
<1>2. ASSUME NEW x \in ToSet(f), FirstRef(x, "V") = p.id PROVE p.type \in {"Sig", "DocTimeStamp"}
  <2>1. p.id # NoReference  BY <1>1, FileFacts
  <2>2. p.id \in Numbers(f)  BY <1>1, <1>2, <2>1, ReferenceIsNumber
  <2>3. PICK y \in ToSet(f) : y.id = p.id  BY <2>2 DEF Numbers, ToSet
  <2>4. y.type \in {"Sig", "DocTimeStamp"}  BY <1>2, <2>3 DEF ValuesAreSignatures
  <2>5. Alike(p, y)  BY <1>1, <2>3 DEF IsWellFormed
  <2> QED  BY <2>4, <2>5 DEF Alike
<1>3. CASE o \in ToSet(f)  BY <1>2, <1>3
<1>4. CASE IsOneOf(f, kind, o)
  <2>1. CASE p.id \in Numbers(f)
    <3>1. \E x \in ToSet(f) : x.id = o.id /\ FirstRef(x, "V") = FirstRef(o, "V")
      BY <1>1, <1>4, <2>1, ValueOfOne
    <3> QED  BY <1>2, <3>1
  <2>2. CASE p.id \notin Numbers(f)
    <3>1. p \notin ToSet(f)  BY <1>1, <2>2, FileFacts
    <3>2. IsOneOf(f, kind, p)  BY <3>1 DEF FileGrows
    <3>3. p.id # NoReference /\ Fresh(f, 1) # Fresh(f, 2)
      <4>1. p.id # NoReference
        <5>1. p.id \in Numbers(g)  BY <1>1, FileFacts
        <5> QED  BY <1>1, <5>1, FileFacts
      <4>2. /\ Fresh(f, 1) = Cardinality(Numbers(f)) + 1
            /\ Fresh(f, 2) = Cardinality(Numbers(f)) + 2
        BY <1>1, NumbersAreFresh
      <4>3. Cardinality(Numbers(f)) \in Nat  BY <1>1, Numbered
      <4> QED  BY <4>1, <4>2, <4>3
    <3>4. kind \in {"sign", "timestamp", "swap"} /\ p.id = Fresh(f, 1)
      <4>1. CASE IsNewOne(f, kind, o)
        <5>1. FirstRef(o, "V") = Fresh(f, 1)  BY <1>1, <3>3, <4>1, NewReferences
        <5>2. kind \in {"sign", "timestamp"}
          <6>1. ASSUME o.links = << >> PROVE FALSE  BY <3>3, <6>1, NoReferences
          <6>2. ASSUME NEW names, IsDssOf(f, o, names) PROVE FALSE
            <7>1. o.links = [n \in {"OCSPs"} |-> << Fresh(f, 2) >>]  BY <6>2 DEF IsDssOf
            <7>2. DOMAIN o.links = {"OCSPs"}  BY <7>1
            <7>3. RefsAfter(o, "V") = << >>  BY <7>2 DEF RefsAfter
            <7> QED  BY <3>3, <7>3 DEF FirstRef
          <6>3. ASSUME DOMAIN o.links \in {{"Certs"}, {"XObject"}} PROVE FALSE
            <7>1. RefsAfter(o, "V") = << >>  BY <6>3 DEF RefsAfter
            <7> QED  BY <3>3, <7>1 DEF FirstRef
          <6> QED  BY <4>1, <6>1, <6>2, <6>3 DEF IsNewOne, IsSigning
        <5> QED  BY <5>1, <5>2
      <4>2. ASSUME NEW x \in ToSet(f), IsCopyOf(f, kind, o, x) PROVE FALSE
        <5>1. FirstRef(o, "V") = FirstRef(x, "V")  BY <4>2, SameFirstReference DEF IsCopyOf
        <5> QED  BY <1>1, <2>2, <3>3, <4>2, <5>1, ReferenceIsNumber
      <4>3. ASSUME NEW x \in ToSet(f), IsVersionOf(f, kind, o, x)
            PROVE  kind = "swap" /\ FirstRef(o, "V") = Fresh(f, 1)
        <5>1. CASE kind = "swap"
          <6>1. RefsAfter(o, "V") = << Fresh(f, 1) >>  BY <4>3, <5>1 DEF IsVersionOf, IsSigning
          <6> QED  BY <5>1, <6>1 DEF FirstRef
        <5>2. CASE kind # "swap"
          <6>1. \E name \in {"Fields", "DSS", "OCSPs", "Kids"} : IsChanged(o, x, name)
            BY <4>3, <5>2 DEF IsVersionOf
          <6>2. FirstRef(o, "V") = FirstRef(x, "V")  BY <6>1, SameFirstReference
          <6> QED  BY <1>1, <2>2, <3>3, <4>3, <6>2, ReferenceIsNumber
        <5> QED  BY <5>1, <5>2
      <4> QED  BY <1>4, <4>1, <4>2, <4>3 DEF IsOneOf
    <3>5. IsNewOne(f, kind, p)
      BY <1>1, <2>2, <3>2, <3>4, FileFacts DEF IsOneOf, IsVersionOf, IsCopyOf
    <3>6. ~ IsFieldOf(f, p)  BY <3>3, <3>4 DEF IsFieldOf, IsNew
    <3> QED  BY <3>4, <3>5, <3>6 DEF IsNewOne, IsSigning
  <2> QED  BY <2>1, <2>2
<1> QED  BY <1>3, <1>4 DEF FileGrows

\* What tells that a file shows what was signed, in every file that is written.
THEOREM CastInvariant ==
  Spec => [](AllCast(file) /\ ValuesAreSignatures(file) /\ NonePlainAgain(file, updates))
<1> DEFINE Inv == AllCast(file) /\ ValuesAreSignatures(file) /\ NonePlainAgain(file, updates)
<1>1. Init => Inv
  <2> SUFFICES ASSUME Init PROVE Inv  OBVIOUS
  <2>1. /\ IsUnsigned(file) /\ IsWellFormed(file)
        /\ \A o \in ToSet(file) : o.type = "Catalog" => HasName(o, "AcroForm")
    BY BasesAssumption DEF Init
  <2>2. ASSUME NEW o \in ToSet(file)
        PROVE  /\ ~ LooksLikeDss(o) /\ "Sig" \notin o.names /\ o.type \notin {"Sig", "DocTimeStamp"}
               /\ "V" \notin DOMAIN o.links
    <3>1. /\ ~ LooksLikeDss(o) /\ ~ IsTimestampDictionary(o) /\ ~ HasName(o, "Sig") /\ ~ HasName(o, "V")
      BY <2>1 DEF IsUnsigned, HasAnyName
    <3> QED  BY <3>1 DEF HasName, IsTimestampDictionary
  <2>3. AllCast(file)  BY <2>1, <2>2 DEF AllCast, IsCast
  <2>4. ValuesAreSignatures(file)
    <3> SUFFICES ASSUME NEW o \in ToSet(file), NEW p \in ToSet(file), p.id = FirstRef(o, "V")
                 PROVE  FALSE
      BY DEF ValuesAreSignatures
    <3>1. FirstRef(o, "V") = NoReference  BY <2>2 DEF FirstRef, RefsAfter
    <3>2. p.id \in Numbers(file)  BY <2>1, FileFacts
    <3> QED  BY <2>1, <3>1, <3>2, FileFacts
  <2>5. NonePlainAgain(file, updates)  BY DEF Init, NonePlainAgain
  <2> QED  BY <2>3, <2>4, <2>5
<1>2. PdfInv(file, updates) /\ Inv /\ [Next]_vars => Inv'
  <2> SUFFICES ASSUME PdfInv(file, updates), Inv, [Next]_vars
               PROVE  AllCast(file') /\ ValuesAreSignatures(file') /\ NonePlainAgain(file', updates')
    BY DEF AllCast, ValuesAreSignatures, NonePlainAgain, NotPlainAgain
  <2>1. CASE UNCHANGED vars  BY <2>1 DEF vars
  <2>2. ASSUME NEW kind \in Maintenance \cup Edits, Update(kind)
        PROVE  AllCast(file') /\ ValuesAreSignatures(file') /\ NonePlainAgain(file', updates')
    <3> DEFINE g == file \o Appended(file, kind)
               w == Append(updates, [kind |-> kind, from |-> Len(file)])
    <3>1. CanAppend(file, kind)  BY <2>2, UpdatesAreKinds
    <3>2. Grows(file, updates, kind, g, w)  BY <3>1, UpdateGrows DEF PdfInv
    <3>3. AllCast(g)  BY <3>1, CastKept DEF PdfInv, FileInv
    <3>4. file' = g /\ updates' = w  BY <2>2 DEF Update
    <3> HIDE DEF g, w
    <3>5. ValuesAreSignatures(g)
      <4>1. FileGrows(file, kind, g)  BY <3>2 DEF Grows
      <4> QED  BY <4>1, ValueOfOneIsSignature DEF ValuesAreSignatures, PdfInv
    <3>6. NonePlainAgain(g, w)  BY <3>2, NonePlainStay DEF PdfInv
    <3> QED  BY <3>3, <3>4, <3>5, <3>6
  <2> QED  BY <2>1, <2>2 DEF Next, Maintain, Edit
<1> QED  BY <1>1, <1>2, PdfInvariant, PTL DEF Spec

-----------------------------------------------------------------------------
(* Files whose objects are all objects of their own.                       *)

IsDirectFile(f) == IsWellFormed(f) /\ \A o \in ToSet(f) : IsDirect(o)

\* Without object streams all objects are direct.
LEMMA DirectIsAll ==
  ASSUME NEW f, IsDirectFile(f)
  PROVE  Direct(f) = f
<1>1. f \in Seq(ToSet(f)) /\ DOMAIN f = 1..Len(f) /\ \A i \in DOMAIN f : f[i] \in ToSet(f)
  BY FileFacts DEF IsDirectFile
<1>2. {i \in DOMAIN f : IsDirect(f[i])} = DOMAIN f  BY <1>1 DEF IsDirectFile
<1>3. Direct(f) = [i \in DOMAIN f |-> f[i]]  BY <1>2 DEF Direct, Restrict
<1>4. f = [i \in DOMAIN f |-> f[i]]  BY <1>1
<1> QED  BY <1>3, <1>4

\* The objects in force are the versions a reader uses.
LEMMA InForceAreVersions ==
  ASSUME NEW f, IsDirectFile(f)
  PROVE  /\ IsFiniteSet(InForce(f)) /\ InForce(f) \subseteq ToSet(f)
         /\ \A o \in InForce(f) :
              o.id \in Numbers(f) /\ o = Version(f, o.id) /\ IsFiniteSet(Kids(o))
         /\ \A id \in Numbers(f) : Version(f, id) \in InForce(f) /\ Version(f, id).id = id
<1>1. /\ f \in Seq(ToSet(f)) /\ DOMAIN f = 1..Len(f) /\ Len(f) \in Nat /\ IsPart(f)
      /\ \A i \in DOMAIN f : f[i] \in ToSet(f)
      /\ \A o \in ToSet(f) : o.id \in Numbers(f) /\ IsPdfObject(o) /\ IsDirect(o)
      /\ \A id \in Numbers(f) : Holds(f, id)
  BY FileFacts DEF IsDirectFile, IsWellFormed
<1>2. \A i \in Current(f) :
        i \in DOMAIN f /\ \A j \in DOMAIN f : f[j].id = f[i].id => j <= i
  BY <1>1 DEF Current
<1>3. \A o \in InForce(f) : \E i \in Current(f) : o = f[i]  BY DEF InForce
<1>4. InForce(f) \subseteq ToSet(f)  BY <1>1, <1>2, <1>3
<1>5. IsFiniteSet(InForce(f))
  <2>1. IsFiniteSet(ToSet(f))  BY <1>1, ElementsAreFinite
  <2> QED  BY <1>4, <2>1, FS_Subset
<1>6. ASSUME NEW o \in InForce(f)
      PROVE  o.id \in Numbers(f) /\ o = Version(f, o.id) /\ IsFiniteSet(Kids(o))
  <2>1. PICK i \in Current(f) : o = f[i]  BY <1>3
  <2>2. Latest(f, f[i].id) = f[i]  BY <1>1, <1>2, LatestAt
  <2>3. RefsAfter(o, "Kids") \in Seq(Nat \ {0})  BY <1>1, <1>4, RefsAre
  <2>4. IsFiniteSet(Kids(o))  BY <2>3, ElementsAreFinite DEF Kids
  <2> QED  BY <1>1, <1>4, <2>1, <2>2, <2>4 DEF Version
<1>7. ASSUME NEW id \in Numbers(f) PROVE Version(f, id) \in InForce(f) /\ Version(f, id).id = id
  <2>1. PICK i \in DOMAIN f : /\ Latest(f, id) = f[i] /\ f[i].id = id
                              /\ \A j \in DOMAIN f : f[j].id = id => j <= i
    BY <1>1, LatestIs
  <2>2. i \in Current(f)  BY <1>1, <2>1 DEF Current
  <2> QED  BY <2>1, <2>2 DEF InForce, Version
<1> QED  BY <1>4, <1>5, <1>6, <1>7

\* The fields of the form, as a reader finds them.
LEMMA FormFieldsAre ==
  ASSUME NEW f, IsDirectFile(f)
  PROVE  LET form == FirstRef(CatalogOf(f), "AcroForm")
         IN  FormFields(f) = IF form \in Numbers(f) THEN RefsAfter(Version(f, form), "Fields")
                             ELSE RefsAfter(CatalogOf(f), "Fields")
<1> DEFINE places == Catalogs(f) \cap Current(f)
           form == FirstRef(CatalogOf(f), "AcroForm")
<1>1. IsWellFormed(f) /\ DOMAIN f = 1..Len(f) /\ Len(f) \in Nat
      /\ \A i \in DOMAIN f : f[i] \in ToSet(f) /\ IsDirect(f[i])
  BY FileFacts DEF IsDirectFile
<1>2. PICK k \in DOMAIN f : CatalogOf(f) = f[k] /\ \A j \in DOMAIN f : f[j].type = "Catalog" => j <= k
  BY <1>1, CatalogIs
<1>3. f[k].type = "Catalog"  BY <1>1, <1>2, CatalogIs
<1>4. \A j \in DOMAIN f : f[j].id = f[k].id => f[j].type = "Catalog"
  BY <1>1, <1>3 DEF IsWellFormed, Alike
<1>5. k \in Catalogs(f) /\ k \in Current(f)  BY <1>1, <1>2, <1>3, <1>4 DEF Catalogs, Current
<1>6. ASSUME NEW i \in places PROVE i = k
  <2>1. i \in DOMAIN f /\ f[i].type = "Catalog" /\ \A j \in DOMAIN f : f[j].id = f[i].id => j <= i
    BY <1>1, <1>6 DEF Catalogs, Current
  <2>2. f[k].id = f[i].id  BY <1>1, <1>3, <2>1 DEF IsWellFormed
  <2> QED  BY <1>1, <1>2, <2>1, <2>2
<1>7. places = {k}  BY <1>5, <1>6
<1>8. LastOf(f, places) = CatalogOf(f)
  <2>1. LastOf(f, {k}) = f[CHOOSE i \in {k} : \A j \in {k} \ {i} : Precedes(f, j, i)]  BY DEF LastOf
  <2>2. (CHOOSE i \in {k} : \A j \in {k} \ {i} : Precedes(f, j, i)) = k
    <3>1. \E i \in {k} : \A j \in {k} \ {i} : Precedes(f, j, i)  OBVIOUS
    <3>2. (CHOOSE i \in {k} : \A j \in {k} \ {i} : Precedes(f, j, i)) \in {k}  BY <3>1, Zenon
    <3> QED  BY <3>2
  <2> QED  BY <1>2, <1>7, <2>1, <2>2
<1>9. FormFields(f) = IF IsInForce(f, form) THEN RefsAfter(ObjectInForce(f, form), "Fields")
                      ELSE RefsAfter(CatalogOf(f), "Fields")
  <2>1. places # {}  BY <1>7
  <2> QED  BY <1>8, <2>1 DEF FormFields
<1> HIDE DEF form
<1>10. IsInForce(f, form) <=> form \in Numbers(f)  BY InForceAreVersions DEF IsInForce
<1>11. ASSUME form \in Numbers(f) PROVE ObjectInForce(f, form) = Version(f, form)
  <2>1. ObjectInForce(f, form) \in InForce(f) /\ ObjectInForce(f, form).id = form
    BY <1>10, <1>11, Zenon DEF IsInForce, ObjectInForce
  <2> QED  BY <2>1, InForceAreVersions
<1> QED  BY <1>9, <1>10, <1>11 DEF form

\* A reader uses the version that was signed, or one appended later.
LEMMA VersionOfPrefix ==
  ASSUME NEW f, IsWellFormed(f), NEW n \in Nat, n <= Len(f), IsWellFormed(Prefix(f, n)),
         NEW id \in Numbers(Prefix(f, n))
  PROVE  \/ Version(f, id) = Version(Prefix(f, n), id)
         \/ \E q \in DOMAIN f : q > n /\ Version(f, id) = f[q] /\ f[q].id = id
<1> DEFINE s == Prefix(f, n)
<1>1. f \in Seq(ToSet(f)) /\ Len(f) \in Nat /\ DOMAIN f = 1..Len(f) /\ IsPart(f)  BY FileFacts
<1>2. DOMAIN s = 1..n /\ \A i \in 1..n : i \in DOMAIN f /\ s[i] = f[i]  BY <1>1, PrefixIs
<1>3. IsPart(s) /\ Holds(s, id)  BY FileFacts
<1> HIDE DEF s
<1>4. PICK k \in DOMAIN s : /\ Latest(s, id) = s[k] /\ s[k].id = id
                            /\ \A j \in DOMAIN s : s[j].id = id => j <= k
  BY <1>3, LatestIs
<1>5. Holds(f, id)  BY <1>2, <1>4 DEF Holds
<1>6. PICK i \in DOMAIN f : /\ Latest(f, id) = f[i] /\ f[i].id = id
                            /\ \A j \in DOMAIN f : f[j].id = id => j <= i
  BY <1>1, <1>5, LatestIs
<1>7. CASE i <= n
  <2>1. i \in DOMAIN s /\ s[i] = f[i]  BY <1>1, <1>2, <1>7
  <2>2. i <= k  BY <1>4, <1>6, <2>1
  <2>3. k \in DOMAIN f /\ s[k] = f[k]  BY <1>2
  <2>4. k <= i  BY <1>4, <1>6, <2>3
  <2>5. k = i  BY <1>1, <1>2, <2>1, <2>2, <2>3, <2>4
  <2> QED  BY <1>4, <1>6, <2>1, <2>5 DEF Version, s
<1>8. CASE i > n  BY <1>6, <1>8 DEF Version
<1> QED  BY <1>1, <1>7, <1>8

-----------------------------------------------------------------------------
(* Files with the same form.                                               *)

\* The object o has the same place in the form, and the same value, as a.
KeepsForm(o, a) ==
  /\ Kids(o) = Kids(a) /\ FirstRef(o, "V") = FirstRef(a, "V")
  /\ IsSignatureField(o) <=> IsSignatureField(a)
  /\ RefsAfter(o, "Fields") = RefsAfter(a, "Fields")

\* The objects of s have in f the place in the form they had in s.
KeepsForms(f, s) ==
  /\ IsDirectFile(f) /\ IsDirectFile(s) /\ Numbers(s) \subseteq Numbers(f)
  /\ \A id \in Numbers(s) : KeepsForm(Version(f, id), Version(s, id))
  /\ \A name \in {"AcroForm", "Fields"} :
       RefsAfter(CatalogOf(f), name) = RefsAfter(CatalogOf(s), name)

\* Two sets of ids reached from one seed along the same kids are equal.
LEMMA SameReach ==
  ASSUME NEW C, NEW D, NEW objects, NEW others, NEW seed,
         IsReach(C, objects, seed), IsReach(D, others, seed),
         \A o \in objects : o.id \in D => \E p \in others : p.id = o.id /\ Kids(p) = Kids(o),
         \A p \in others : p.id \in C => \E o \in objects : p.id = o.id /\ Kids(p) = Kids(o)
  PROVE  C = D
<1>1. HasKids(D, objects)  BY DEF IsReach, HasKids
<1>2. HasKids(C, others)  BY DEF IsReach, HasKids
<1> QED  BY <1>1, <1>2 DEF IsReach

\* Files with the same form list the same fields.
LEMMA SameFormFields ==
  ASSUME NEW f, NEW s, KeepsForms(f, s)
  PROVE  FormFields(f) = FormFields(s) /\ ToSet(FormFields(s)) \subseteq Numbers(s)
         /\ IsFiniteSet(ToSet(FormFields(s)))
<1> DEFINE form == FirstRef(CatalogOf(s), "AcroForm")
<1>1. IsDirectFile(f) /\ IsDirectFile(s) /\ IsWellFormed(f) /\ IsWellFormed(s)
      /\ Numbers(s) \subseteq Numbers(f)
  BY DEF KeepsForms, IsDirectFile
<1>2. FirstRef(CatalogOf(f), "AcroForm") = form  BY DEF KeepsForms, FirstRef
<1>3. CatalogOf(s) \in ToSet(s)  BY <1>1, CatalogIs
<1>4. form \in Numbers(f) <=> form \in Numbers(s)
  <2>1. form # NoReference => form \in Numbers(s)  BY <1>1, <1>3, ReferenceIsNumber
  <2>2. NoReference \notin Numbers(f)  BY <1>1, FileFacts
  <2> HIDE DEF form
  <2> QED  BY <1>1, <2>1, <2>2
<1>5. FormFields(f) = IF form \in Numbers(f) THEN RefsAfter(Version(f, form), "Fields")
                      ELSE RefsAfter(CatalogOf(f), "Fields")
  BY <1>1, <1>2, FormFieldsAre
<1>6. FormFields(s) = IF form \in Numbers(s) THEN RefsAfter(Version(s, form), "Fields")
                      ELSE RefsAfter(CatalogOf(s), "Fields")
  BY <1>1, FormFieldsAre
<1> HIDE DEF form
<1>7. FormFields(f) = FormFields(s)
  <2>1. form \in Numbers(s) => RefsAfter(Version(f, form), "Fields") = RefsAfter(Version(s, form), "Fields")
    BY DEF KeepsForms, KeepsForm
  <2>2. RefsAfter(CatalogOf(f), "Fields") = RefsAfter(CatalogOf(s), "Fields")  BY DEF KeepsForms
  <2> QED  BY <1>4, <1>5, <1>6, <2>1, <2>2
<1>8. \E o \in ToSet(s) : FormFields(s) = RefsAfter(o, "Fields")
  <2>1. form \in Numbers(s) => Version(s, form) \in ToSet(s)  BY <1>1, VersionIs
  <2> QED  BY <1>3, <1>6, <2>1
<1>9. PICK o \in ToSet(s) : FormFields(s) = RefsAfter(o, "Fields")  BY <1>8
<1>10. RefsAfter(o, "Fields") \in Seq(Nat \ {0}) /\ ToSet(RefsAfter(o, "Fields")) \subseteq References(o)
       /\ References(o) \subseteq Numbers(s)
  BY <1>1, RefsAre DEF IsWellFormed, IsLinked
<1>11. IsFiniteSet(ToSet(RefsAfter(o, "Fields")))  BY <1>10, ElementsAreFinite
<1> QED  BY <1>7, <1>9, <1>10, <1>11

\* The fields of the form and below are the same.
LEMMA SameFieldsOfForm ==
  ASSUME NEW f, NEW s, KeepsForms(f, s)
  PROVE  FieldsOfForm(f) = FieldsOfForm(s) /\ FieldsOfForm(s) \subseteq Numbers(s)
<1> DEFINE seed == ToSet(FormFields(s))
           C == FieldsOfForm(f)
           D == FieldsOfForm(s)
<1>1. IsDirectFile(f) /\ IsDirectFile(s) /\ IsWellFormed(s) /\ Numbers(s) \subseteq Numbers(f)
      /\ \A id \in Numbers(s) : Kids(Version(f, id)) = Kids(Version(s, id))
  BY DEF KeepsForms, KeepsForm, IsDirectFile
<1>2. FormFields(f) = FormFields(s) /\ seed \subseteq Numbers(s) /\ IsFiniteSet(seed)
  BY SameFormFields
<1>3. /\ \A o \in InForce(f) : o.id \in Numbers(f) /\ o = Version(f, o.id)
      /\ \A id \in Numbers(f) : Version(f, id) \in InForce(f) /\ Version(f, id).id = id
  BY <1>1, InForceAreVersions
<1>4. /\ \A o \in InForce(s) : o.id \in Numbers(s) /\ o = Version(s, o.id) /\ o \in ToSet(s)
      /\ \A id \in Numbers(s) : Version(s, id) \in InForce(s) /\ Version(s, id).id = id
  BY <1>1, InForceAreVersions
<1>5. IsReach(C, InForce(f), seed)
  <2>1. IsFiniteSet(InForce(f)) /\ \A o \in InForce(f) : IsFiniteSet(Kids(o))
    BY <1>1, InForceAreVersions
  <2> HIDE DEF seed
  <2>2. IsReach(Closure(InForce(f), seed, Kids), InForce(f), seed)  BY <1>2, <2>1, ClosureIsReach
  <2>3. Closure(InForce(f), seed, Kids) = C  BY <1>2 DEF FieldsOfForm, seed
  <2> QED  BY <2>2, <2>3
<1>6. IsReach(D, InForce(s), seed)
  <2>1. IsFiniteSet(InForce(s)) /\ \A o \in InForce(s) : IsFiniteSet(Kids(o))
    BY <1>1, InForceAreVersions
  <2> HIDE DEF seed
  <2>2. IsReach(Closure(InForce(s), seed, Kids), InForce(s), seed)  BY <1>2, <2>1, ClosureIsReach
  <2>3. Closure(InForce(s), seed, Kids) = D  BY DEF FieldsOfForm, seed
  <2> QED  BY <2>2, <2>3
<1> HIDE DEF seed, C, D
<1>7. D \subseteq Numbers(s)
  <2>1. ASSUME NEW o \in InForce(s) PROVE Kids(o) \subseteq Numbers(s)
    <3>1. ToSet(RefsAfter(o, "Kids")) \subseteq References(o) /\ References(o) \subseteq Numbers(s)
      BY <1>1, <1>4, RefsAre DEF IsWellFormed, IsLinked
    <3> QED  BY <3>1 DEF Kids
  <2>2. HasKids(Numbers(s), InForce(s))  BY <2>1 DEF HasKids
  <2> QED  BY <1>2, <1>6, <2>2 DEF IsReach
<1>8. ASSUME NEW o \in InForce(f), o.id \in D
      PROVE  \E p \in InForce(s) : p.id = o.id /\ Kids(p) = Kids(o)
  <2>1. o.id \in Numbers(s) /\ o = Version(f, o.id)  BY <1>3, <1>7, <1>8
  <2> QED  BY <1>1, <1>4, <2>1
<1>9. ASSUME NEW p \in InForce(s), p.id \in C
      PROVE  \E o \in InForce(f) : p.id = o.id /\ Kids(p) = Kids(o)
  <2>1. p.id \in Numbers(s) /\ p = Version(s, p.id)  BY <1>4
  <2> QED  BY <1>1, <1>3, <2>1
<1>10. C = D  BY <1>5, <1>6, <1>8, <1>9, SameReach
<1> QED  BY <1>7, <1>10 DEF C, D

\* The signature fields have the same values.
LEMMA SameValues ==
  ASSUME NEW f, NEW s, KeepsForms(f, s)
  PROVE  Values(f) = Values(s)
<1>1. IsDirectFile(f) /\ IsDirectFile(s) /\ Numbers(s) \subseteq Numbers(f)
      /\ \A id \in Numbers(s) : KeepsForm(Version(f, id), Version(s, id))
  BY DEF KeepsForms
<1>2. FieldsOfForm(f) = FieldsOfForm(s) /\ FieldsOfForm(s) \subseteq Numbers(s)
  BY SameFieldsOfForm
<1>3. /\ \A o \in InForce(f) : o.id \in Numbers(f) /\ o = Version(f, o.id)
      /\ \A id \in Numbers(f) : Version(f, id) \in InForce(f) /\ Version(f, id).id = id
  BY <1>1, InForceAreVersions
<1>4. /\ \A o \in InForce(s) : o.id \in Numbers(s) /\ o = Version(s, o.id) /\ o \in ToSet(s)
      /\ \A id \in Numbers(s) : Version(s, id) \in InForce(s) /\ Version(s, id).id = id
  BY <1>1, InForceAreVersions
<1>5. ASSUME NEW o \in FormObjects(f)
      PROVE  \E p \in FormObjects(s) : p.id = o.id /\ KeepsForm(o, p)
  <2>1. o \in InForce(f) /\ o.id \in FieldsOfForm(s)  BY <1>2, <1>5 DEF FormObjects
  <2>2. o.id \in Numbers(s) /\ o = Version(f, o.id)  BY <1>2, <1>3, <2>1
  <2>3. Version(s, o.id) \in FormObjects(s) /\ Version(s, o.id).id = o.id
    BY <1>4, <2>1, <2>2 DEF FormObjects
  <2> QED  BY <1>1, <2>2, <2>3
<1>6. ASSUME NEW p \in FormObjects(s)
      PROVE  \E o \in FormObjects(f) : p.id = o.id /\ KeepsForm(o, p)
  <2>1. p \in InForce(s) /\ p.id \in FieldsOfForm(f)  BY <1>2, <1>6 DEF FormObjects
  <2>2. p.id \in Numbers(s) /\ p = Version(s, p.id)  BY <1>4, <2>1
  <2>3. Version(f, p.id) \in FormObjects(f) /\ Version(f, p.id).id = p.id
    BY <1>1, <1>3, <2>1, <2>2 DEF FormObjects
  <2> QED  BY <1>1, <2>2, <2>3
<1>7. Roots(f) = Roots(s)  BY <1>5, <1>6 DEF Roots, KeepsForm
<1>8. IsReach(Typed(f), FormObjects(f), Roots(f)) /\ IsReach(Typed(s), FormObjects(s), Roots(s))
  <2>1. ASSUME NEW g, IsDirectFile(g) PROVE IsReach(Typed(g), FormObjects(g), Roots(g))
    <3>1. FormObjects(g) \subseteq InForce(g)  BY DEF FormObjects
    <3>2. IsFiniteSet(FormObjects(g)) /\ \A o \in FormObjects(g) : IsFiniteSet(Kids(o))
      BY <2>1, <3>1, InForceAreVersions, FS_Subset
    <3> DEFINE X == {x \in FormObjects(g) : IsSignatureField(x)}
               h == [o \in X |-> o.id]
    <3>3. IsFiniteSet(X)  BY <3>2, FS_Subset
    <3>4. h \in Surjection(X, Roots(g))  BY DEF Surjection, Roots
    <3> HIDE DEF X, h
    <3>5. IsFiniteSet(Roots(g))  BY <3>3, <3>4, FS_Surjection
    <3> QED  BY <3>2, <3>5, ClosureIsReach DEF Typed
  <2> QED  BY <1>1, <2>1
<1>9. Typed(f) = Typed(s)
  <2>1. /\ \A o \in FormObjects(f) : \E p \in FormObjects(s) : p.id = o.id /\ Kids(p) = Kids(o)
        /\ \A p \in FormObjects(s) : \E o \in FormObjects(f) : p.id = o.id /\ Kids(p) = Kids(o)
    BY <1>5, <1>6 DEF KeepsForm
  <2> QED  BY <1>7, <1>8, <2>1, SameReach
<1>10. SignatureFields(f) = SignatureFields(s)
  <2>1. /\ \A o \in FormObjects(f) : \E p \in FormObjects(s) : p.id = o.id /\ FirstRef(o, "V") = FirstRef(p, "V")
        /\ \A p \in FormObjects(s) : \E o \in FormObjects(f) : p.id = o.id /\ FirstRef(o, "V") = FirstRef(p, "V")
    BY <1>5, <1>6 DEF KeepsForm
  <2> DEFINE X == {x \in FormObjects(f) : x.id \in Typed(s) /\ FirstRef(x, "V") # NoReference}
             Y == {x \in FormObjects(s) : x.id \in Typed(s) /\ FirstRef(x, "V") # NoReference}
  <2>2. SignatureFields(f) = {o.id : o \in X} /\ SignatureFields(s) = {o.id : o \in Y}
    BY <1>9, SignatureFieldsAre
  <2>3. /\ \A o \in X : \E p \in Y : p.id = o.id
        /\ \A p \in Y : \E o \in X : p.id = o.id
    BY <2>1
  <2> HIDE DEF X, Y
  <2> QED  BY <2>2, <2>3
<1>11. SignatureFields(s) \subseteq Numbers(s)
  <2>1. SignatureFields(s) \subseteq FieldsOfForm(s)  BY SignatureFieldsAre DEF FormObjects
  <2> QED  BY <1>2, <2>1
<1>12. ASSUME NEW o \in FieldObjects(f)
       PROVE  \E p \in FieldObjects(s) : FirstRef(o, "V") = FirstRef(p, "V")
  <2>1. o \in InForce(f) /\ o.id \in SignatureFields(s)  BY <1>10, <1>12 DEF FieldObjects
  <2>2. o.id \in Numbers(s) /\ o = Version(f, o.id)  BY <1>3, <1>11, <2>1
  <2>3. Version(s, o.id) \in FieldObjects(s)  BY <1>4, <2>1, <2>2 DEF FieldObjects
  <2> QED  BY <1>1, <2>2, <2>3 DEF KeepsForm
<1>13. ASSUME NEW p \in FieldObjects(s)
       PROVE  \E o \in FieldObjects(f) : FirstRef(o, "V") = FirstRef(p, "V")
  <2>1. p \in InForce(s) /\ p.id \in SignatureFields(f)  BY <1>10, <1>13 DEF FieldObjects
  <2>2. p.id \in Numbers(s) /\ p = Version(s, p.id)  BY <1>4, <2>1
  <2>3. Version(f, p.id) \in FieldObjects(f)  BY <1>1, <1>3, <2>1, <2>2 DEF FieldObjects
  <2> QED  BY <1>1, <2>2, <2>3 DEF KeepsForm
<1> QED  BY <1>12, <1>13 DEF Values

-----------------------------------------------------------------------------
(* Objects of a tail that is taken for validation data only.               *)

\* Nothing that is shown passes for metadata.
IsCandid(o) == LooksLikeMetadata(o) => ~ IsShown(o)

\* What is known of a signature d whose tail raises no question: all objects are
\* objects of their own, the tail is taken for validation data, mentions no VRI
\* and is not seen to rewrite anything.
IsAccepted(f, u, d, n) ==
  /\ IsSignature(f, u, d, n) /\ IsDirectFile(f)
  /\ AllCast(f) /\ ValuesAreSignatures(f) /\ NotPlainAgain(f, n) /\ OnlyFieldsHaveValues(f)
  /\ \A o \in ToSet(f) : IsCandid(o)
  /\ OnlyValidationData(Signed(f, d), Later(f, d))
  /\ ~ RewritesObject(Signed(f, d), Later(f, d))
  /\ ~ Mentions(Later(f, d), "VRI")

\* Objects with the same text look the same to the scans.
LEMMA SameTextIs ==
  ASSUME NEW a, IsPdfObject(a), NEW b, IsPdfObject(b), SameText(a, b)
  PROVE  /\ a.id = b.id /\ a.type = b.type /\ a.names = b.names /\ a.links = b.links
         /\ a.number = b.number /\ a.text = b.text /\ a.spaced = b.spaced
<1>1. ASSUME NEW o, IsPdfObject(o)
      PROVE  /\ Text(o).id = o.id /\ Text(o).type = o.type /\ Text(o).names = o.names
             /\ Text(o).links = o.links /\ Text(o).number = o.number /\ Text(o).text = o.text
             /\ Text(o).spaced = o.spaced
  BY <1>1 DEF Text, IsPdfObject
<1>2. Text(a) = Text(b)  BY DEF SameText
<1>3. /\ Text(a).id = a.id /\ Text(a).type = a.type /\ Text(a).names = a.names
      /\ Text(a).links = a.links /\ Text(a).number = a.number /\ Text(a).text = a.text
      /\ Text(a).spaced = a.spaced
  BY <1>1
<1>4. /\ Text(b).id = b.id /\ Text(b).type = b.type /\ Text(b).names = b.names
      /\ Text(b).links = b.links /\ Text(b).number = b.number /\ Text(b).text = b.text
      /\ Text(b).spaced = b.spaced
  BY <1>1
<1> QED  BY <1>2, <1>3, <1>4

\* Where the text is the same, so are the references and the place in the form.
LEMMA SameTextKeeps ==
  ASSUME NEW a, IsPdfObject(a), NEW b, IsPdfObject(b), SameText(a, b)
  PROVE  (\A name : RefsAfter(a, name) = RefsAfter(b, name)) /\ KeepsForm(a, b)
<1>1. a.links = b.links /\ a.names = b.names  BY SameTextIs
<1>2. \A name : RefsAfter(a, name) = RefsAfter(b, name)  BY <1>1 DEF RefsAfter
<1>3. IsSignatureField(a) <=> IsSignatureField(b)  BY <1>1 DEF IsSignatureField
<1> QED  BY <1>2, <1>3 DEF KeepsForm, Kids, FirstRef

\* Equal but for what updates may add, objects refer to the same.
LEMMA StrippedReferences ==
  ASSUME NEW o, IsPdfObject(o), NEW p, IsPdfObject(p),
         SameText(WithoutAdditions(o), WithoutAdditions(p))
  PROVE  /\ \A name : name # "DSS" => RefsAfter(o, name) = RefsAfter(p, name)
         /\ IsSignatureField(o) <=> IsSignatureField(p)
<1>1. /\ WithoutAdditions(o).links = [n \in DOMAIN o.links \ {"DSS"} |-> o.links[n]]
      /\ WithoutAdditions(p).links = [n \in DOMAIN p.links \ {"DSS"} |-> p.links[n]]
      /\ WithoutAdditions(o).names = o.names \ {"DSS", "Extensions", "Version"}
      /\ WithoutAdditions(p).names = p.names \ {"DSS", "Extensions", "Version"}
      /\ IsPdfObject(WithoutAdditions(o)) /\ IsPdfObject(WithoutAdditions(p))
  BY StrippedIs
<1>2. /\ WithoutAdditions(o).links = WithoutAdditions(p).links
      /\ WithoutAdditions(o).names = WithoutAdditions(p).names
  BY <1>1, SameTextIs
<1>3. /\ [n \in DOMAIN o.links \ {"DSS"} |-> o.links[n]] = [n \in DOMAIN p.links \ {"DSS"} |-> p.links[n]]
      /\ o.names \ {"DSS", "Extensions", "Version"} = p.names \ {"DSS", "Extensions", "Version"}
  BY <1>1, <1>2
<1>4. ASSUME NEW name, name # "DSS" PROVE RefsAfter(o, name) = RefsAfter(p, name)
  <2>1. name \in DOMAIN o.links <=> name \in DOMAIN p.links  BY <1>3, <1>4
  <2>2. name \in DOMAIN o.links => o.links[name] = p.links[name]  BY <1>3, <1>4, <2>1
  <2> QED  BY <2>1, <2>2 DEF RefsAfter
<1>5. "Sig" \in o.names <=> "Sig" \in p.names  BY <1>3
<1> QED  BY <1>4, <1>5 DEF IsSignatureField

\* An object that is not in the form has no place in it.
LEMMA OutsideForm ==
  ASSUME NEW o, IsPdfObject(o), IsCast(o), IsCandid(o),
         LooksLikeMetadata(o) \/ LooksLikeDss(o),
         FirstRef(o, "V") # NoReference => "Sig" \in o.names
  PROVE  /\ Kids(o) = {} /\ FirstRef(o, "V") = NoReference /\ ~ IsSignatureField(o)
         /\ RefsAfter(o, "Fields") = << >> /\ o.type \notin {"Pages", "Page", "XObject"}
         /\ "Fields" \notin DOMAIN o.links
<1>1. DOMAIN o.links \cap {"Fields", "Kids"} = {} /\ o.type \notin {"Pages", "Page", "XObject"}
  BY DEF IsCast, IsCandid, IsShown
<1>2. RefsAfter(o, "Kids") = << >> /\ RefsAfter(o, "Fields") = << >> /\ "Fields" \notin DOMAIN o.links
  BY <1>1 DEF RefsAfter
<1>3. Kids(o) = {}  BY <1>2 DEF Kids, ToSet
<1>4. "Sig" \notin o.names
  <2>1. "Sig" \in o.names => Disallowed(o) /\ ~ LooksLikeDss(o)  BY DEF IsCast, Disallowed
  <2> QED  BY <2>1 DEF LooksLikeMetadata
<1> QED  BY <1>1, <1>2, <1>3, <1>4 DEF IsSignatureField

\* An object of the tail leaves the text a reader shows of the one it replaces.
Spares(o, a) ==
  /\ KeepsForm(o, a)
  /\ o.type \in {"Pages", "Page", "XObject"} => SameText(o, a)
  /\ o.type = "Catalog" => SameText(WithoutAdditions(o), WithoutAdditions(a))
  /\ o.type \notin {"Sig", "DocTimeStamp"}

\* An object that passes both scans spares the version it replaces.
LEMMA TailSpares ==
  ASSUME NEW prior, NEW o, NEW a, IsPdfObject(o), IsPdfObject(a), IsDirect(o), IsDirect(a),
         Holds(prior, o.id), Latest(prior, o.id) = a, Alike(o, a), IsCast(o), IsCast(a),
         IsCandid(o), IsCandid(a), HasOneRole(o), HasOneRole(a),
         FirstRef(o, "V") # NoReference => "Sig" \in o.names,
         FirstRef(a, "V") # NoReference => "Sig" \in a.names,
         ~ IsPlain(o),
         CatalogOnlyAddsDss(o, prior) \/ ~ Disallowed(o),
         \/ CatalogOnlyAddsDss(o, prior) \/ o.type = "Catalog" \/ UpdatesDss(o, prior)
         \/ LooksLikeMetadata(o) \/ ~ ChangesPrior(o, prior)
  PROVE  Spares(o, a)
<1>1. CASE CatalogOnlyAddsDss(o, prior)
  <2>1. o.type = "Catalog" /\ SameText(WithoutAdditions(a), WithoutAdditions(o))
    BY <1>1 DEF CatalogOnlyAddsDss
  <2>2. SameText(WithoutAdditions(o), WithoutAdditions(a))  BY <2>1 DEF SameText
  <2>3. (\A name : name # "DSS" => RefsAfter(o, name) = RefsAfter(a, name))
        /\ (IsSignatureField(o) <=> IsSignatureField(a))
    BY <2>2, StrippedReferences
  <2>4. KeepsForm(o, a)  BY <2>3 DEF KeepsForm, Kids, FirstRef
  <2> QED  BY <2>1, <2>2, <2>4 DEF Spares
<1>2. CASE ~ CatalogOnlyAddsDss(o, prior)
  <2>1. ~ Disallowed(o)  BY <1>2
  <2>2. o.type # "Catalog"
    <3>1. HasName(o, "AcroForm") => Disallowed(o)  BY DEF Disallowed, HasAnyName, MarkerNames
    <3> QED  BY <2>1, <3>1 DEF IsCast
  <2>3. "Sig" \notin o.names  BY <2>1 DEF IsCast, Disallowed
  <2>4. o.type \notin {"Sig", "DocTimeStamp"}
    <3>1. "Contents" \in o.names => Disallowed(o)  BY DEF Disallowed, HasAnyName, HasName, MarkerNames
    <3> QED  BY <2>1, <3>1 DEF IsCast
  <2>5. CASE ~ ChangesPrior(o, prior)
    <3>1. SameText(o, a)  BY <2>5 DEF ChangesPrior, SameText
    <3>2. KeepsForm(o, a)  BY <3>1, SameTextKeeps
    <3> QED  BY <2>2, <2>4, <3>1, <3>2 DEF Spares
  <2>6. CASE LooksLikeMetadata(o) \/ LooksLikeDss(o)
    <3>1. ASSUME LooksLikeMetadata(a) \/ LooksLikeDss(a) PROVE Spares(o, a)
      <4>1. /\ Kids(o) = {} /\ FirstRef(o, "V") = NoReference /\ ~ IsSignatureField(o)
            /\ RefsAfter(o, "Fields") = << >> /\ o.type \notin {"Pages", "Page", "XObject"}
        BY <2>6, OutsideForm
      <4>2. /\ Kids(a) = {} /\ FirstRef(a, "V") = NoReference /\ ~ IsSignatureField(a)
            /\ RefsAfter(a, "Fields") = << >>
        BY <3>1, OutsideForm
      <4> QED  BY <2>2, <2>4, <4>1, <4>2 DEF Spares, KeepsForm
    <3>2. CASE UpdatesDss(o, prior)  BY <3>1, <3>2 DEF UpdatesDss
    <3>3. CASE o.type = "DSS"
      <4>1. LooksLikeDss(a)  BY <3>3 DEF Alike, LooksLikeDss
      <4> QED  BY <3>1, <4>1
    <3>4. CASE "ModDate" \in o.names
      <4>1. "ModDate" \in a.names  BY <3>4 DEF Alike, RoleNames
      <4>2. ~ Disallowed(a)  BY <4>1 DEF HasOneRole
      <4>3. LooksLikeMetadata(a)
        BY <4>1, <4>2 DEF LooksLikeMetadata, HasAnyName, HasName, MetadataNames
      <4> QED  BY <3>1, <4>3
    <3>5. o.type = "DSS" \/ "ModDate" \in o.names
      <4>1. "Fields" \notin DOMAIN o.links /\ o.type \notin {"Pages", "Page", "XObject"}
        BY <2>6, OutsideForm
      <4>2. "ByteRange" \notin o.names  BY <2>4 DEF HasOneRole
      <4> QED  BY <2>2, <2>3, <4>1, <4>2 DEF IsPlain, RoleNames
    <3> QED  BY <3>3, <3>4, <3>5
  <2>7. LooksLikeDss(o) \/ ~ UpdatesDss(o, prior)  BY DEF UpdatesDss
  <2> QED  BY <1>2, <2>2, <2>5, <2>6, <2>7
<1> QED  BY <1>1, <1>2

\* The parts of the file of an accepted signature.
LEMMA AcceptedParts ==
  ASSUME NEW f, NEW u, NEW d, NEW n, IsAccepted(f, u, d, n)
  PROVE  LET s == Signed(f, d)
         IN  /\ s = Prefix(f, n) /\ n \in Nat /\ n <= Len(f) /\ IsWellFormed(f) /\ IsWellFormed(s)
             /\ IsDirectFile(f) /\ IsDirectFile(s)
             /\ ToSet(s) \subseteq ToSet(f) /\ Numbers(s) \subseteq Numbers(f)
             /\ \A id \in Numbers(s) : Holds(Direct(s), id) /\ Latest(Direct(s), id) = Version(s, id)
<1> DEFINE s == Signed(f, d)
<1>1. /\ IsSignature(f, u, d, n) /\ IsWellFormed(f) /\ n \in Nat /\ n <= Len(f)
      /\ IsDirectFile(f) /\ \A o \in ToSet(f) : IsDirect(o)
  BY DEF IsAccepted, IsSignature, IsDirectFile
<1>2. /\ s = Prefix(f, n) /\ IsWellFormed(s) /\ ToSet(s) \subseteq ToSet(f)
      /\ Numbers(s) \subseteq Numbers(f)
  BY <1>1, PartsOfFile
<1> HIDE DEF s
<1>3. IsDirectFile(s)  BY <1>1, <1>2 DEF IsDirectFile
<1>4. Direct(s) = s  BY <1>3, DirectIsAll
<1>5. \A id \in Numbers(s) : Holds(s, id)  BY <1>2, FileFacts
<1> QED  BY <1>1, <1>2, <1>3, <1>4, <1>5 DEF Version, s

\* Each object of an accepted tail spares what was signed.
LEMMA AcceptedSpares ==
  ASSUME NEW f, NEW u, NEW d, NEW n, IsAccepted(f, u, d, n), NEW q \in DOMAIN f, q > n,
         f[q].id \in Numbers(Signed(f, d))
  PROVE  Spares(f[q], Version(Signed(f, d), f[q].id))
<1> DEFINE s == Signed(f, d)
           tail == Later(f, d)
           prior == Direct(s)
           o == f[q]
           a == Version(s, o.id)
<1>1. IsSignature(f, u, d, n) /\ OnlyValidationData(s, tail) /\ ~ RewritesObject(s, tail)
      /\ ~ Mentions(tail, "VRI") /\ AllCast(f) /\ OnlyFieldsHaveValues(f) /\ NotPlainAgain(f, n)
      /\ \A x \in ToSet(f) : IsCandid(x)
  BY DEF IsAccepted
<1>2. /\ s = Prefix(f, n) /\ n \in Nat /\ n <= Len(f) /\ IsWellFormed(f) /\ IsWellFormed(s)
      /\ IsDirectFile(f) /\ ToSet(s) \subseteq ToSet(f) /\ Holds(prior, o.id) /\ Latest(prior, o.id) = a
  BY AcceptedParts
<1>3. /\ f \in Seq(ToSet(f)) /\ DOMAIN f = 1..Len(f) /\ Len(f) \in Nat
      /\ \A i \in DOMAIN f : f[i] \in ToSet(f)
  BY <1>2, FileFacts
<1>4. tail = Suffix(f, n)  BY <1>1, PartsOfFile
<1>5. tail \in Seq(ToSet(f)) /\ q - n \in DOMAIN tail /\ tail[q - n] = o
  <2> DEFINE S == ToSet(f)
             x == Suffix(f, n)
  <2>1. f \in Seq(S) /\ n \in Nat /\ n <= Len(f)  BY <1>2, <1>3
  <2> HIDE DEF S, x
  <2>2. /\ x \in Seq(S) /\ DOMAIN x = 1..Len(f) - n
        /\ \A i \in DOMAIN f : i > n => i - n \in 1..Len(f) - n /\ x[i - n] = f[i]
    BY <2>1, SuffixIs DEF x
  <2>3. q - n \in DOMAIN x /\ x[q - n] = f[q]  BY <2>2
  <2> QED  BY <1>4, <2>2, <2>3 DEF S, x
<1>6. o \in ToSet(tail)  BY <1>5 DEF ToSet
<1>7. a \in ToSet(s) /\ a.id = o.id  BY <1>2, VersionIs
<1>8. NotPlainAgain(f, n) /\ \E j \in 1..n : f[j].id = o.id
  <2>1. DOMAIN s = 1..n /\ \A i \in 1..n : s[i] = f[i]  BY <1>2, <1>3, PrefixIs
  <2> HIDE DEF s
  <2> QED  BY <1>1, <2>1 DEF Numbers, s
<1> HIDE DEF a, s, tail
<1>9. CatalogOnlyAddsDss(o, prior) \/ ~ Disallowed(o)
  BY <1>1, <1>6 DEF OnlyValidationData
<1>10. \/ CatalogOnlyAddsDss(o, prior) \/ o.type = "Catalog" \/ UpdatesDss(o, prior)
       \/ LooksLikeMetadata(o) \/ ~ ChangesPrior(o, prior)
  <2>1. Mentions(tail, "DSS")  BY <1>1 DEF OnlyValidationData
  <2>2. o \in ToSet(Direct(tail))
    <3>1. /\ DOMAIN Direct(tail) = {i \in DOMAIN tail : IsDirect(tail[i])}
          /\ \A i \in DOMAIN Direct(tail) : Direct(tail)[i] = tail[i]
      BY <1>5, SequencesAreParts
    <3>2. IsDirect(tail[q - n])  BY <1>2, <1>5 DEF IsDirectFile
    <3> QED  BY <1>5, <3>1, <3>2 DEF ToSet
  <2>3. CatalogOnlyAddsMaterial(o, prior, Direct(tail)) => o.type = "Catalog"
    BY DEF CatalogOnlyAddsMaterial
  <2> QED  BY <1>1, <2>1, <2>2, <2>3 DEF RewritesObject
<1> HIDE DEF prior
<1>11. o \in ToSet(f) /\ a \in ToSet(f)  BY <1>2, <1>3, <1>7
<1>12. /\ IsPdfObject(o) /\ IsPdfObject(a) /\ IsDirect(o) /\ IsDirect(a) /\ Alike(o, a)
       /\ IsCast(o) /\ IsCast(a) /\ IsCandid(o) /\ IsCandid(a) /\ HasOneRole(o) /\ HasOneRole(a)
       /\ FirstRef(o, "V") # NoReference => "Sig" \in o.names
       /\ FirstRef(a, "V") # NoReference => "Sig" \in a.names
  <2>1. IsDirect(o) /\ IsDirect(a)  BY <1>2, <1>11 DEF IsDirectFile
  <2>2. IsPdfObject(o) /\ IsPdfObject(a) /\ HasOneRole(o) /\ HasOneRole(a) /\ Alike(o, a)
    BY <1>2, <1>7, <1>11 DEF IsWellFormed
  <2>3. IsCast(o) /\ IsCast(a) /\ IsCandid(o) /\ IsCandid(a)  BY <1>1, <1>11 DEF AllCast
  <2> QED  BY <1>1, <1>11, <2>1, <2>2, <2>3 DEF OnlyFieldsHaveValues
<1>13. ~ IsPlain(o)  BY <1>8 DEF NotPlainAgain
<1> HIDE DEF o
<1>14. Spares(o, a)  BY <1>2, <1>9, <1>10, <1>12, <1>13, TailSpares
<1> QED  BY <1>14 DEF s, a, o

\* The version a reader uses leaves what was signed as it was.
LEMMA AcceptedVersions ==
  ASSUME NEW f, NEW u, NEW d, NEW n, IsAccepted(f, u, d, n), NEW id \in Numbers(Signed(f, d))
  PROVE  \/ Version(f, id) = Version(Signed(f, d), id)
         \/ Spares(Version(f, id), Version(Signed(f, d), id))
<1> DEFINE s == Signed(f, d)
<1>1. s = Prefix(f, n) /\ n \in Nat /\ n <= Len(f) /\ IsWellFormed(f) /\ IsWellFormed(s)
  BY AcceptedParts
<1>2. CASE \E q \in DOMAIN f : q > n /\ Version(f, id) = f[q] /\ f[q].id = id
  BY <1>2, AcceptedSpares
<1>3. Version(f, id) = Version(s, id)
      \/ \E q \in DOMAIN f : q > n /\ Version(f, id) = f[q] /\ f[q].id = id
  BY <1>1, VersionOfPrefix
<1> QED  BY <1>2, <1>3

\* The catalog after an accepted tail is the signed one but for what updates may add.
LEMMA AcceptedCatalog ==
  ASSUME NEW f, NEW u, NEW d, NEW n, IsAccepted(f, u, d, n)
  PROVE  SameText(WithoutAdditions(CatalogOf(f)), WithoutAdditions(CatalogOf(Signed(f, d))))
<1> DEFINE s == Signed(f, d)
<1>1. s = Prefix(f, n) /\ n \in Nat /\ n <= Len(f) /\ IsWellFormed(f) /\ IsWellFormed(s)
      /\ IsDirectFile(s) /\ ToSet(s) \subseteq ToSet(f)
  BY AcceptedParts
<1> HIDE DEF s
<1>2. CASE CatalogOf(f) = CatalogOf(s)  BY <1>2 DEF SameText, s
<1>3. ASSUME NEW q \in DOMAIN f, q > n, CatalogOf(f) = f[q], f[q].type = "Catalog"
      PROVE  SameText(WithoutAdditions(CatalogOf(f)), WithoutAdditions(CatalogOf(s)))
  <2>1. CatalogOf(s) \in ToSet(s) /\ CatalogOf(s).type = "Catalog"  BY <1>1, CatalogIs
  <2>2. CatalogOf(f) \in ToSet(f) /\ CatalogOf(f).type = "Catalog"  BY <1>1, CatalogIs
  <2>3. f[q].id = CatalogOf(s).id  BY <1>1, <1>3, <2>1, <2>2 DEF IsWellFormed
  <2>4. CatalogOf(s).id \in Numbers(s)  BY <1>1, <2>1, FileFacts
  <2>5. Spares(f[q], Version(s, f[q].id))  BY <1>3, <2>3, <2>4, AcceptedSpares DEF s
  <2>6. Version(s, CatalogOf(s).id) = CatalogOf(s)
    <3>1. s \in Seq(ToSet(s)) /\ IsPart(s)  BY <1>1, FileFacts
    <3>2. PICK k \in DOMAIN s : CatalogOf(s) = s[k] /\ \A j \in DOMAIN s : s[j].type = "Catalog" => j <= k
      BY <1>1, CatalogIs
    <3>3. \A j \in DOMAIN s : s[j].id = s[k].id => s[j].type = "Catalog"
      <4>1. \A j \in DOMAIN s : s[j] \in ToSet(s)  BY DEF ToSet
      <4> QED  BY <1>1, <2>1, <3>2, <4>1 DEF IsWellFormed, Alike
    <3>4. Latest(s, s[k].id) = s[k]  BY <3>1, <3>2, <3>3, LatestAt
    <3> QED  BY <3>2, <3>4 DEF Version
  <2> QED  BY <1>3, <2>3, <2>5, <2>6 DEF Spares
<1>4. CatalogOf(f) = CatalogOf(s)
      \/ \E q \in DOMAIN f : q > n /\ CatalogOf(f) = f[q] /\ f[q].type = "Catalog"
  BY <1>1, CatalogOfPrefix
<1> QED  BY <1>2, <1>3, <1>4 DEF s

\* A file with an accepted signature shows the text that was signed.
LEMMA AcceptedShown ==
  ASSUME NEW f, NEW u, NEW d, NEW n, IsAccepted(f, u, d, n)
  PROVE  Shown(f) = Shown(Signed(f, d))
<1> DEFINE s == Signed(f, d)
<1>1. /\ IsWellFormed(f) /\ IsWellFormed(s) /\ IsDirectFile(f) /\ IsDirectFile(s)
      /\ ToSet(s) \subseteq ToSet(f) /\ Numbers(s) \subseteq Numbers(f) /\ ValuesAreSignatures(f)
  BY AcceptedParts DEF IsAccepted
<1>2. \A id \in Numbers(s) : Version(f, id) = Version(s, id) \/ Spares(Version(f, id), Version(s, id))
  BY AcceptedVersions
<1>3. SameText(WithoutAdditions(CatalogOf(f)), WithoutAdditions(CatalogOf(s)))  BY AcceptedCatalog
<1> HIDE DEF s
<1>4. CatalogOf(s) \in ToSet(s) /\ CatalogOf(f) \in ToSet(f)  BY <1>1, CatalogIs
<1>5. \A name : name # "DSS" => RefsAfter(CatalogOf(f), name) = RefsAfter(CatalogOf(s), name)
  <2>1. IsPdfObject(CatalogOf(f)) /\ IsPdfObject(CatalogOf(s))  BY <1>1, <1>4 DEF IsWellFormed
  <2> QED  BY <1>3, <2>1, StrippedReferences
<1>6. ASSUME NEW id \in Numbers(s), Version(f, id).type \in {"Pages", "Page", "XObject"}
      PROVE  /\ SameText(Version(f, id), Version(s, id))
             /\ \A name : FirstRef(Version(f, id), name) = FirstRef(Version(s, id), name)
  <2>1. SameText(Version(f, id), Version(s, id))  BY <1>2, <1>6 DEF Spares, SameText
  <2>2. IsPdfObject(Version(f, id)) /\ IsPdfObject(Version(s, id))
    BY <1>1, VersionIs DEF IsWellFormed
  <2>3. \A name : RefsAfter(Version(f, id), name) = RefsAfter(Version(s, id), name)
    BY <2>1, <2>2, SameTextKeeps
  <2> QED  BY <2>1, <2>3 DEF FirstRef
<1>7. /\ SameText(PagesOf(f), PagesOf(s)) /\ SameText(PageOf(f), PageOf(s))
      /\ SameText(DrawingOf(f), DrawingOf(s))
  <2> DEFINE pages == FirstRef(CatalogOf(s), "Pages")
             page == FirstRef(PagesOf(s), "Kids")
             drawing == FirstRef(PageOf(s), "XObject")
  <2>1. pages \in Numbers(s) /\ page \in Numbers(s) /\ drawing \in Numbers(s)
    <3>1. PagesOf(s) \in ToSet(s) /\ PagesOf(s).id = pages  BY <1>1, PagesIs
    <3>2. /\ PagesOf(s).type = "Pages" /\ PageOf(s) \in ToSet(s) /\ PageOf(s).type = "Page"
          /\ IsPdfObject(PagesOf(s)) /\ IsPdfObject(PageOf(s))
          /\ IsLinked(PagesOf(s), s) /\ IsLinked(PageOf(s), s)
      BY <1>1, <3>1, PagesIs, PageIs DEF IsWellFormed
    <3>3. page # NoReference /\ drawing # NoReference  BY <3>2, RefsAre DEF IsLinked
    <3>4. page \in Numbers(s) /\ drawing \in Numbers(s)
      BY <1>1, <3>1, <3>2, <3>3, ReferenceIsNumber
    <3> QED  BY <1>1, <3>1, <3>4, FileFacts
  <2>2. PagesOf(s) = Version(s, pages) /\ PageOf(s) = Version(s, page)
        /\ DrawingOf(s) = Version(s, drawing)
    BY DEF PagesOf, PageOf, DrawingOf
  <2>3. PagesOf(f) = Version(f, pages)  BY <1>5 DEF FirstRef, PagesOf
  <2>4. PagesOf(f).type = "Pages" /\ PageOf(f).type = "Page" /\ DrawingOf(f).type = "XObject"
    BY <1>1, PagesIs, PageIs, DrawingIs
  <2>5. SameText(PagesOf(f), PagesOf(s)) /\ FirstRef(PagesOf(f), "Kids") = page
    <3> HIDE DEF pages
    <3> QED  BY <1>6, <2>1, <2>2, <2>3, <2>4
  <2>6. PageOf(f) = Version(f, page)  BY <2>5 DEF PageOf
  <2>7. SameText(PageOf(f), PageOf(s)) /\ FirstRef(PageOf(f), "XObject") = drawing
    <3> HIDE DEF page
    <3> QED  BY <1>6, <2>1, <2>2, <2>4, <2>6
  <2>8. DrawingOf(f) = Version(f, drawing)  BY <2>7 DEF DrawingOf
  <2> HIDE DEF drawing
  <2>9. SameText(DrawingOf(f), DrawingOf(s))  BY <1>6, <2>1, <2>2, <2>4, <2>8
  <2> QED  BY <2>5, <2>7, <2>9
<1>8. KeepsForms(f, s)
  <2>1. \A id \in Numbers(s) : KeepsForm(Version(f, id), Version(s, id))
    BY <1>2 DEF Spares, KeepsForm
  <2> QED  BY <1>1, <1>5, <2>1 DEF KeepsForms
<1>9. Values(f) = Values(s)  BY <1>8, SameValues
<1>10. ASSUME NEW v \in Values(s) PROVE Version(f, v) = Version(s, v)
  <2>1. PICK o \in FieldObjects(s) : v = FirstRef(o, "V")  BY DEF Values
  <2>2. o \in InForce(s) /\ o.id \in SignatureFields(s)  BY <2>1 DEF FieldObjects
  <2>3. o \in ToSet(s) /\ o = Version(s, o.id)  BY <1>1, <2>2, InForceAreVersions
  <2>4. v # NoReference
    <3>1. PICK x \in FormObjects(s) : x.id = o.id /\ FirstRef(x, "V") # NoReference
      BY <2>2, SignatureFieldsAre
    <3>2. x = Version(s, x.id)
      <4>1. x \in InForce(s)  BY <3>1 DEF FormObjects
      <4> QED  BY <1>1, <4>1, InForceAreVersions
    <3> QED  BY <2>1, <2>3, <3>1, <3>2
  <2>5. v \in Numbers(s)  BY <1>1, <2>1, <2>3, <2>4, ReferenceIsNumber
  <2>6. Version(f, v) \in ToSet(f) /\ Version(f, v).id = v  BY <1>1, <2>5, VersionIs
  <2>7. Version(f, v).type \in {"Sig", "DocTimeStamp"}
    BY <1>1, <2>1, <2>3, <2>6 DEF ValuesAreSignatures
  <2> QED  BY <1>2, <2>5, <2>7 DEF Spares
<1>11. {Version(f, v).names : v \in Values(f)} = {Version(s, v).names : v \in Values(s)}
  BY <1>9, <1>10
<1>12. Shown(f) = Shown(s)
  <2> DEFINE V == {Version(f, v).names : v \in Values(f)}
             W == {Version(s, v).names : v \in Values(s)}
  <2>1. V = W  BY <1>11
  <2>2. Shown(f) = [pages |-> Text(PagesOf(f)), page |-> Text(PageOf(f)),
                    drawing |-> Text(DrawingOf(f)),
                    catalog |-> Text(WithoutAdditions(CatalogOf(f))), signatures |-> V]
    BY DEF Shown
  <2>3. Shown(s) = [pages |-> Text(PagesOf(s)), page |-> Text(PageOf(s)),
                    drawing |-> Text(DrawingOf(s)),
                    catalog |-> Text(WithoutAdditions(CatalogOf(s))), signatures |-> W]
    BY DEF Shown
  <2>4. /\ Text(PagesOf(f)) = Text(PagesOf(s)) /\ Text(PageOf(f)) = Text(PageOf(s))
        /\ Text(DrawingOf(f)) = Text(DrawingOf(s))
        /\ Text(WithoutAdditions(CatalogOf(f))) = Text(WithoutAdditions(CatalogOf(s)))
    BY <1>3, <1>7 DEF SameText
  <2> HIDE DEF V, W
  <2> QED  BY <2>1, <2>2, <2>3, <2>4
<1> QED  BY <1>12 DEF s

\* If the last signature is quietly accepted, what was appended to it shows the
\* text that was signed: no order of updates gets a change of the text of the page
\* tree, the page, what it draws, the catalog or the signatures past the checks,
\* as long as nothing is packed, no VRI is mentioned and nothing that is shown
\* passes for metadata.
THEOREM QuietMeansSameTextEver == Spec => []QuietMeansSameText
<1>1. PdfInv(file, updates) /\ TailsKept(file, updates) /\ AllCast(file)
        /\ ValuesAreSignatures(file) /\ NonePlainAgain(file, updates) => QuietMeansSameText
  <2> SUFFICES ASSUME PdfInv(file, updates), TailsKept(file, updates), AllCast(file),
                      ValuesAreSignatures(file), NonePlainAgain(file, updates),
                      NEW d \in Usable(file),
                      IsLast(file, d), ~ IsDocumentTimestamp(file, d),
                      ~ Modified(file, d), ~ CoverageWarned(file, d),
                      \A o \in ToSet(file) : IsDirect(o),
                      ~ Mentions(Later(file, d), "VRI"),
                      \A o \in ToSet(file) : LooksLikeMetadata(o) => ~ IsShown(o)
               PROVE  Shown(file) = Shown(Signed(file, d))
    BY DEF QuietMeansSameText
  <2> DEFINE n == SignedSize(file, d)
  <2>1. IsSignature(file, updates, d, n)  BY UsableIsSignature
  <2>2. IsWellFormed(file) /\ n \in Nat /\ n <= Len(file) /\ d \in DOMAIN file /\ IsDirectFile(file)
    BY <2>1 DEF IsSignature, IsDirectFile
  <2>3. file \in Seq(ToSet(file)) /\ Len(file) \in Nat  BY <2>2, FileFacts
  <2>4. CASE ~ HasLater(file, d)
    <3>1. n = Len(file)  BY <2>2, <2>3, <2>4 DEF HasLater
    <3>2. Signed(file, d) = file  BY <2>3, <3>1, WholePrefix DEF Signed
    <3> QED  BY <3>2
  <2>5. CASE HasLater(file, d)
    <3>1. HasOnlyValidationData(file, d)  BY <2>5 DEF CoverageWarned
    <3>2. ~ HasLaterSignature(file, d)
      <4> SUFFICES ASSUME NEW other \in Usable(file), SignedSize(file, other) > SignedSize(file, d)
                   PROVE  FALSE
        BY DEF HasLaterSignature
      <4> DEFINE m == SignedSize(file, other)
      <4>1. IsSignature(file, updates, other, m)  BY UsableIsSignature
      <4>2. m \in Nat  BY <4>1 DEF IsSignature
      <4>3. m < n \/ m = n  BY DEF IsLast
      <4>4. m > n  OBVIOUS
      <4> HIDE DEF m, n
      <4> QED  BY <2>2, <4>2, <4>3, <4>4
    <3>3. ~ RewriteSeen(file, d) /\ OnlyValidationData(Signed(file, d), Later(file, d))
      BY <3>1 DEF HasOnlyValidationData
    <3>4. ~ RewritesObject(Signed(file, d), Later(file, d))
      BY <2>5, <3>2, <3>3 DEF RewriteSeen
    <3>5. NotPlainAgain(file, n)
      <4>1. "ByteRange" \in file[d].names
        BY DEF Usable, Dictionaries, AllDictionaries, IsDictionary
      <4>2. PICK i \in DOMAIN updates :
              IsSigning(updates[i].kind) /\ file[d].number = updates[i].from + 3
        BY <2>2, <4>1 DEF PdfInv, DictionariesFrom
      <4> QED  BY <4>2 DEF NonePlainAgain, SignedSize
    <3> HIDE DEF n
    <3>6. IsAccepted(file, updates, d, n)
      BY <2>1, <2>2, <3>3, <3>4, <3>5 DEF IsAccepted, IsCandid, PdfInv
    <3> QED  BY <3>6, AcceptedShown
  <2> QED  BY <2>4, <2>5
<1> QED  BY <1>1, PdfInvariant, TailsInvariant, CastInvariant, PTL
==============================================================================

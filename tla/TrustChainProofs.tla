-------------------------- MODULE TrustChainProofs --------------------------
(***************************************************************************)
(* Proofs about the certification path search, for any number of           *)
(* certificates and any set of worlds: the variables keep their types, the *)
(* bound of the loop is never what ends a search, the walk implements the  *)
(* path search that TrustPath specifies, it misses no path where issuers   *)
(* are unique, and it finds the preferred anchors that issued the leaf.    *)
(***************************************************************************)
EXTENDS TrustChain, Integers, FiniteSetTheorems, SequenceTheorems, TLAPS

-----------------------------------------------------------------------------
(* The first candidate of a non-empty list.                                *)

NatLess == {pair \in Nat \X Nat : pair[1] < pair[2]}

LEMMA NatLessWellFounded == IsWellFoundedOn(NatLess, Nat)
BY NatLessThanWellFounded, Zenon DEF OpToRel, NatLess

LEMMA LeastNatural ==
  ASSUME NEW S, S \subseteq Nat, S # {}
  PROVE  \E x \in S : \A y \in S : x <= y
<1>1. PICK x \in S : \A y \in S : ~ (<<y, x>> \in NatLess)
  BY NatLessWellFounded, WFMin
<1>2. ASSUME NEW y \in S PROVE x <= y
  <2>1. <<y, x>> \in Nat \X Nat
    OBVIOUS
  <2>2. ~ (y < x)
    BY <1>1, <2>1 DEF NatLess
  <2> QED BY <2>2
<1> QED BY <1>1, <1>2

LEMMA CertsAreNatural == Cert \subseteq Nat /\ Leaf \in Cert
BY NAssumption DEF Cert, Leaf

LEMMA UniverseIsCerts ==
  ASSUME NEW w \in World, NEW m
  PROVE  Universe(w, m) \subseteq Cert
<1>1. w.bag \in Cert /\ w.anchors \subseteq Cert
  BY DEF World
<1>2. 1..w.bag \subseteq Cert
  BY <1>1, NAssumption DEF Cert
<1> QED BY <1>1, <1>2 DEF Universe

\* The sort and the find of the loop return the first of the acceptable issuers.
LEMMA FirstIssuerIsBest ==
  ASSUME NEW w \in World, NEW m, NEW visited, Acceptable(w, m, visited) # {}
  PROVE  /\ FirstIssuer(w, m, visited) \in Acceptable(w, m, visited)
         /\ \A other \in Acceptable(w, m, visited) :
              \/ Rank(w, m, FirstIssuer(w, m, visited)) < Rank(w, m, other)
              \/ /\ Rank(w, m, FirstIssuer(w, m, visited)) = Rank(w, m, other)
                 /\ FirstIssuer(w, m, visited) <= other
<1> DEFINE A == Acceptable(w, m, visited)
           Ranks == {Rank(w, m, c) : c \in A}
<1>1. A \subseteq Nat
  BY UniverseIsCerts, CertsAreNatural DEF Acceptable
<1>2. Ranks \subseteq Nat /\ Ranks # {}
  BY DEF Rank
<1>3. PICK r \in Ranks : \A other \in Ranks : r <= other
  BY <1>2, LeastNatural
<1> DEFINE Best == {c \in A : Rank(w, m, c) = r}
<1>4. Best \subseteq Nat /\ Best # {}
  BY <1>1, <1>3
<1>5. PICK c \in Best : \A other \in Best : c <= other
  BY <1>4, LeastNatural
<1>6. ASSUME NEW other \in A
      PROVE  \/ Rank(w, m, c) < Rank(w, m, other)
             \/ Rank(w, m, c) = Rank(w, m, other) /\ c <= other
  <2>1. Rank(w, m, other) \in Nat /\ r \in Nat /\ r <= Rank(w, m, other)
    BY <1>2, <1>3
  <2>2. Rank(w, m, c) = r
    BY <1>5
  <2>3. CASE Rank(w, m, other) = r
    BY <1>5, <2>2, <2>3
  <2>4. CASE Rank(w, m, other) # r
    BY <2>1, <2>2, <2>4
  <2> QED BY <2>3, <2>4
<1>7. c \in A
  OBVIOUS
<1> HIDE DEF A
<1>8. \E c1 \in A : \A other \in A :
         \/ Rank(w, m, c1) < Rank(w, m, other)
         \/ Rank(w, m, c1) = Rank(w, m, other) /\ c1 <= other
  BY <1>6, <1>7
<1> QED BY <1>8, Zenon DEF FirstIssuer, A

LEMMA FirstIssuerIsAcceptable ==
  ASSUME NEW w \in World, NEW m, NEW visited, Acceptable(w, m, visited) # {}
  PROVE  FirstIssuer(w, m, visited) \in Acceptable(w, m, visited)
BY FirstIssuerIsBest

-----------------------------------------------------------------------------
(* Distinct certificates of the universe are at most as many as it has.    *)

LEMMA UniverseIsFinite ==
  ASSUME NEW w \in World, NEW m
  PROVE  /\ IsFiniteSet(Universe(w, m))
         /\ Cardinality(Universe(w, m)) \in 0..N
<1>1. IsFiniteSet(Cert) /\ Cardinality(Cert) = N
  BY FS_Interval, NAssumption DEF Cert
<1>2. IsFiniteSet(Universe(w, m)) /\ Cardinality(Universe(w, m)) <= N
  BY <1>1, UniverseIsCerts, FS_Subset
<1> QED BY <1>2, FS_CardinalityType, NAssumption

LEMMA ChainFitsUniverse ==
  ASSUME NEW w \in World, NEW m, NEW path \in Seq(Cert), Distinct(path),
         \A k \in 1..Len(path) : path[k] \in Universe(w, m)
  PROVE  Len(path) <= Cardinality(Universe(w, m))
<1> DEFINE U == Universe(w, m)
<1>1. IsFiniteSet(U)
  BY UniverseIsFinite
<1>2. Len(path) \in Nat /\ DOMAIN path = 1..Len(path)
  BY LenProperties
<1>3. path \in [1..Len(path) -> U]
  BY <1>2, LenProperties
<1>4. path \in Injection(1..Len(path), U)
  BY <1>2, <1>3 DEF Injection, IsInjective, Distinct
<1>5. Cardinality(1..Len(path)) <= Cardinality(U)
  BY <1>1, <1>4, FS_Injection
<1>6. Cardinality(1..Len(path)) = Len(path)
  BY <1>2, FS_Interval
<1> QED BY <1>5, <1>6

-----------------------------------------------------------------------------
(* The inductive invariant: what the loop knows about the chain so far.    *)

\* The chain is a walk to certificates that are not trusted themselves,
\* except perhaps the last one.
OnTheWay ==
  /\ IsChain(world, mode, chain)
  /\ \A k \in 1..Len(chain) : chain[k] \in Universe(world, mode)
  /\ \A k \in 1..Len(chain) - 1 : chain[k] \notin Goal(world, mode)
  /\ Leaf \notin Goal(world, mode)
  /\ Len(chain) = rounds + 1

SearchInv ==
  /\ TypeOK
  /\ mode = "pins" => world.purpose = "timestamp"
  /\ pc \in {"enter", "untrusted"} => chain = <<>> /\ rounds = 0
  /\ pc = "search" => OnTheWay
  /\ pc = "trusted" => IsTrustPath(world, mode, chain)

LEMMA InitEstablishes == Init => SearchInv
<1> SUFFICES ASSUME Init PROVE SearchInv
  OBVIOUS
<1>1. world \in World
  BY WorldsAssumption DEF Init
<1>2. <<>> \in Seq(Cert)
  BY EmptySeq
<1> QED BY <1>1, <1>2, NAssumption DEF Init, SearchInv, TypeOK, Mode

\* Giving up leaves nothing of the chain behind.
LEMMA GiveUpPreserves ==
  ASSUME SearchInv, GiveUp
  PROVE  SearchInv'
<1>1. <<>> \in Seq(Cert)
  BY EmptySeq
<1>2. TypeOK'
  BY <1>1, NAssumption DEF SearchInv, TypeOK, GiveUp, Mode
<1>3. pc' \in {"enter", "untrusted"} /\ chain' = <<>> /\ rounds' = 0
  BY DEF GiveUp
<1>4. mode' = "pins" => world'.purpose = "timestamp"
  BY DEF GiveUp, SearchInv
<1> QED BY <1>2, <1>3, <1>4 DEF SearchInv

\* A leaf that is trusted itself is a path of its own.
LEMMA LeafIsGoalPreserves ==
  ASSUME SearchInv, LeafIsGoal
  PROVE  SearchInv'
<1> DEFINE path == <<Leaf>>
<1>1. path \in Seq(Cert) /\ Len(path) = 1 /\ path[1] = Leaf
  BY CertsAreNatural
<1>2. TypeOK'
  BY <1>1 DEF SearchInv, TypeOK, LeafIsGoal, Finish
<1>3. IsTrustPath(world, mode, path)
  <2>1. IsChain(world, mode, path)
    BY <1>1 DEF IsChain, Distinct
  <2> QED BY <1>1, <2>1 DEF IsTrustPath, LeafIsGoal
<1>4. pc' = "trusted" /\ chain' = path /\ mode' = mode /\ world' = world
  BY DEF LeafIsGoal, Finish
<1>5. IsTrustPath(world, mode, path)'
  BY <1>3, <1>4
<1> QED BY <1>2, <1>4, <1>5 DEF SearchInv

LEMMA StartSearchPreserves ==
  ASSUME SearchInv, StartSearch
  PROVE  SearchInv'
<1> DEFINE path == <<Leaf>>
<1>1. path \in Seq(Cert) /\ Len(path) = 1 /\ path[1] = Leaf
  BY CertsAreNatural
<1>2. /\ pc = "enter" /\ pc' = "search" /\ chain' = path
      /\ mode' = mode /\ world' = world /\ rounds' = rounds
  BY DEF StartSearch
<1>3. TypeOK'
  BY <1>1, <1>2 DEF SearchInv, TypeOK
<1>4. IsChain(world, mode, path)
  BY <1>1 DEF IsChain, Distinct
<1>5. OnTheWay'
  BY <1>1, <1>2, <1>4 DEF OnTheWay, SearchInv, StartSearch
<1> QED BY <1>2, <1>3, <1>5 DEF SearchInv

\* The chain of the loop is a path once its last certificate is trusted.
LEMMA ReachGoalPreserves ==
  ASSUME SearchInv, ReachGoal
  PROVE  SearchInv'
<1>1. /\ pc = "search" /\ pc' = "trusted" /\ chain' = chain
      /\ mode' = mode /\ world' = world /\ rounds' = rounds
  BY DEF ReachGoal, Finish
<1>2. OnTheWay /\ Current \in Goal(world, mode)
  BY <1>1 DEF SearchInv, ReachGoal
<1>3. Len(chain) \in Nat
  BY LenProperties DEF SearchInv, TypeOK
<1>4. IsTrustPath(world, mode, chain)
  BY <1>2, <1>3 DEF OnTheWay, IsTrustPath, Current
<1>5. TypeOK'
  BY <1>1 DEF SearchInv, TypeOK
<1> QED BY <1>1, <1>4, <1>5 DEF SearchInv

\* An issuer that was not visited extends the chain.
LEMMA FollowIssuerPreserves ==
  ASSUME SearchInv, FollowIssuer
  PROVE  SearchInv'
<1> DEFINE c == FirstIssuer(world, mode, chain)
<1>1. /\ pc = "search" /\ pc' = "search" /\ chain' = Append(chain, c)
      /\ mode' = mode /\ world' = world /\ rounds' = rounds + 1
  BY DEF FollowIssuer
<1>2. world \in World /\ chain \in Seq(Cert) /\ rounds \in 0..N
  BY DEF SearchInv, TypeOK
<1>3. OnTheWay
  BY <1>1 DEF SearchInv
<1>4. Len(chain) \in Nat /\ Len(chain) > 0
  BY <1>2, <1>3, LenProperties DEF OnTheWay, IsChain
<1>5. c \in Acceptable(world, mode, chain)
  BY <1>2, FirstIssuerIsAcceptable DEF FollowIssuer
<1>6. c \in Universe(world, mode) /\ c \in Cert
  BY <1>2, <1>5, UniverseIsCerts DEF Acceptable
<1>7. /\ \A k \in 1..Len(chain) : chain[k] # c
      /\ Issues(world, mode, c, chain[Len(chain)])
  BY <1>5 DEF Acceptable
<1> HIDE DEF c
<1>8. /\ chain' \in Seq(Cert)
      /\ Len(chain') = Len(chain) + 1
      /\ \A k \in 1..Len(chain) : chain'[k] = chain[k]
      /\ chain'[Len(chain) + 1] = c
  BY <1>1, <1>2, <1>6, AppendProperties
<1>9. rounds' \in 0..N
  <2>1. rounds < RoundLimit(world, mode)
    BY DEF FollowIssuer
  <2>2. RoundLimit(world, mode) \in 0..N
    BY <1>2, UniverseIsFinite DEF RoundLimit
  <2> QED BY <1>1, <1>2, <2>1, <2>2, NAssumption
<1>10. TypeOK'
  BY <1>1, <1>8, <1>9 DEF SearchInv, TypeOK
<1>11. chain[Len(chain)] \notin Goal(world, mode)
  BY <1>3, <1>4 DEF FollowIssuer, Unfinished, Current, OnTheWay, IsChain
<1>12. OnTheWay'
  <2>1. \A k \in 1..Len(chain') : chain'[k] \in Universe(world, mode)
    BY <1>3, <1>4, <1>6, <1>8 DEF OnTheWay
  <2>2. Distinct(chain')
    BY <1>3, <1>4, <1>7, <1>8 DEF OnTheWay, IsChain, Distinct
  <2>3. ASSUME NEW k \in 1..Len(chain') - 1
        PROVE  Issues(world, mode, chain'[k + 1], chain'[k])
    <3>1. CASE k = Len(chain)
      BY <1>4, <1>7, <1>8, <3>1
    <3>2. CASE k # Len(chain)
      <4>1. k \in 1..Len(chain) - 1 /\ k \in 1..Len(chain) /\ k + 1 \in 1..Len(chain)
        BY <1>4, <1>8, <3>2
      <4> QED BY <1>3, <1>8, <4>1 DEF OnTheWay, IsChain
    <3> QED BY <3>1, <3>2
  <2>4. IsChain(world, mode, chain')
    <3>1. chain'[1] = Leaf
      BY <1>3, <1>4, <1>8 DEF OnTheWay, IsChain
    <3>2. \A k \in 1..Len(chain') - 1 : k \in 1..Len(chain') /\ k + 1 \in 1..Len(chain')
      BY <1>4, <1>8
    <3> QED BY <1>4, <1>8, <2>1, <2>2, <2>3, <3>1, <3>2 DEF IsChain
  <2>5. \A k \in 1..Len(chain') - 1 : chain'[k] \notin Goal(world, mode)
    BY <1>3, <1>4, <1>8, <1>11 DEF OnTheWay
  <2>6. Leaf \notin Goal(world, mode) /\ Len(chain') = rounds' + 1
    BY <1>1, <1>2, <1>3, <1>8 DEF OnTheWay
  <2> QED BY <1>1, <2>1, <2>4, <2>5, <2>6 DEF OnTheWay
<1> QED BY <1>1, <1>10, <1>12 DEF SearchInv

LEMMA NextPreserves == SearchInv /\ [Next]_vars => SearchInv'
<1> SUFFICES ASSUME SearchInv, [Next]_vars PROVE SearchInv'
  OBVIOUS
<1>1. CASE LeafIsGoal
  BY <1>1, LeafIsGoalPreserves
<1>2. CASE NothingToSearch
  BY <1>2, GiveUpPreserves DEF NothingToSearch
<1>3. CASE StartSearch
  BY <1>3, StartSearchPreserves
<1>4. CASE ReachGoal
  BY <1>4, ReachGoalPreserves
<1>5. CASE FollowIssuer
  BY <1>5, FollowIssuerPreserves
<1>6. CASE LoopEnds
  BY <1>6, GiveUpPreserves DEF LoopEnds
<1>7. CASE UNCHANGED vars
  BY <1>7 DEF vars, SearchInv, TypeOK, OnTheWay
<1> QED BY <1>1, <1>2, <1>3, <1>4, <1>5, <1>6, <1>7 DEF Next

LEMMA SearchInvariant == Spec => []SearchInv
<1> QED BY InitEstablishes, NextPreserves, PTL DEF Spec

\* A chain of distinct certificates leaves an iteration of the loop.
LEMMA RoundIsLeft ==
  ASSUME SearchInv, pc = "search"
  PROVE  rounds < RoundLimit(world, mode)
<1>1. world \in World /\ chain \in Seq(Cert) /\ rounds \in 0..N /\ OnTheWay
  BY DEF SearchInv, TypeOK
<1>2. Len(chain) <= Cardinality(Universe(world, mode))
  BY <1>1, ChainFitsUniverse DEF OnTheWay, IsChain
<1>3. Len(chain) = rounds + 1
  BY <1>1 DEF OnTheWay
<1>4. RoundLimit(world, mode) \in 0..N
  BY <1>1, UniverseIsFinite DEF RoundLimit
<1> QED BY <1>1, <1>2, <1>3, <1>4, NAssumption DEF RoundLimit

\* The variables of the search keep their types.
THEOREM SearchTypeCorrect == Spec => []TypeOK
<1>1. SearchInv => TypeOK
  BY DEF SearchInv
<1> QED BY <1>1, SearchInvariant, PTL

\* However many certificates there are, one iteration of the loop is left as
\* long as it searches: a chain of distinct certificates cannot use it up.
THEOREM LoopBoundAlwaysSuffices == Spec => []LoopBoundSuffices
<1>1. SearchInv => LoopBoundSuffices
  BY RoundIsLeft DEF LoopBoundSuffices
<1> QED BY <1>1, SearchInvariant, PTL

-----------------------------------------------------------------------------
(* Refinement: the search answers once, and a trusted answer is a path.    *)

\* The instance speaks of the same certificates.
LEMMA SameCertificates ==
  /\ Path!World = World
  /\ Path!Mode = Mode
  /\ \A w, m, path : Path!IsTrustPath(w, m, path) <=> IsTrustPath(w, m, path)
<1>1. Path!World = World /\ Path!Mode = Mode /\ Path!Cert = Cert /\ Path!Leaf = Leaf
  BY DEF Path!World, World, Path!Mode, Mode, Path!Cert, Cert, Path!Leaf, Leaf
<1>2. ASSUME NEW w, NEW m
      PROVE  Path!Goal(w, m) = Goal(w, m) /\ Path!Universe(w, m) = Universe(w, m)
  BY DEF Path!Goal, Goal, Path!Universe, Universe
<1>3. ASSUME NEW w, NEW m, NEW p, NEW c
      PROVE  Path!Issues(w, m, p, c) <=> Issues(w, m, p, c)
  BY <1>2 DEF Path!Issues, Issues, Path!InTime, InTime
<1>4. ASSUME NEW w, NEW m, NEW path
      PROVE  Path!IsChain(w, m, path) <=> IsChain(w, m, path)
  BY <1>1, <1>2, <1>3 DEF Path!IsChain, IsChain, Path!Distinct, Distinct
<1> QED BY <1>1, <1>2, <1>4 DEF Path!IsTrustPath, IsTrustPath

LEMMA InitRefines == Init => Path!Init
<1> SUFFICES ASSUME Init PROVE Path!Init
  OBVIOUS
<1>1. ~ Answered
  BY DEF Init, Answered
<1>2. world \in World
  BY WorldsAssumption DEF Init
<1> QED BY <1>1, <1>2, SameCertificates DEF Path!Init, Path!Searching, Path!Answer

\* The step of the search that answers.
LEMMA AnsweringDecides ==
  ASSUME SearchInv, SearchInv', ~ Answered, Answered', world' = world,
         pc' = "untrusted" => chain' = <<>>
  PROVE  Path!Decide
<1> DEFINE a == [status |-> pc', mode |-> mode', path |-> chain']
<1>1. /\ [status |-> IF Answered THEN pc ELSE "searching",
          mode |-> IF Answered THEN mode ELSE "anchors",
          path |-> IF Answered THEN chain ELSE <<>>] = Path!Searching
  BY DEF Path!Searching, Path!Answer
<1>2. [status |-> IF Answered THEN pc ELSE "searching",
       mode |-> IF Answered THEN mode ELSE "anchors",
       path |-> IF Answered THEN chain ELSE <<>>]' = a
  OBVIOUS
<1>3. mode' \in Mode
  BY DEF SearchInv, TypeOK
<1>4. CASE pc' = "untrusted"
  <2>1. Path!IsUntrusted(a)
    BY <1>3, <1>4, SameCertificates DEF Path!IsUntrusted, Path!Answer
  <2> QED BY <1>1, <1>2, <2>1 DEF Path!Decide
<1>5. CASE pc' = "trusted"
  <2>1. IsTrustPath(world, mode', chain') /\ (mode' = "pins" => world.purpose = "timestamp")
    BY <1>5 DEF SearchInv
  <2>2. Path!IsTrusted(world, a)
    BY <1>3, <1>5, <2>1, SameCertificates DEF Path!IsTrusted, Path!Answer
  <2> QED BY <1>1, <1>2, <2>2 DEF Path!Decide
<1> QED BY <1>4, <1>5 DEF Answered

\* Every other step leaves the answer alone.
LEMMA SearchingStutters ==
  ASSUME ~ Answered, ~ Answered', world' = world
  PROVE  UNCHANGED Path!vars
BY DEF Path!vars

LEMMA NextRefines == SearchInv /\ SearchInv' /\ [Next]_vars => [Path!Decide]_(Path!vars)
<1> SUFFICES ASSUME SearchInv, SearchInv', [Next]_vars PROVE [Path!Decide]_(Path!vars)
  OBVIOUS
<1>1. CASE Next
  <2>1. world' = world /\ ~ Answered
    BY <1>1 DEF Next, LeafIsGoal, NothingToSearch, StartSearch, ReachGoal, FollowIssuer,
                LoopEnds, Finish, GiveUp, Answered
  <2>2. pc' = "untrusted" => chain' = <<>>
    BY DEF SearchInv
  <2>3. CASE Answered'
    BY <2>1, <2>2, <2>3, AnsweringDecides
  <2>4. CASE ~ Answered'
    BY <2>1, <2>4, SearchingStutters
  <2> QED BY <2>3, <2>4
<1>2. CASE UNCHANGED vars
  BY <1>2 DEF vars, Path!vars, Answered
<1> QED BY <1>1, <1>2

\* The walk of manual_trusted_chain_to_anchor and the fallback to the pins
\* implement TrustPath: the search answers once, and a trusted answer is a path
\* of verified certificates to an anchor or, for a timestamp, to a pin.
THEOREM SearchImplementsTrustPath == Spec => ImplementsTrustPath
<1>1. Init => Path!Init
  BY InitRefines
<1>2. SearchInv /\ SearchInv' /\ [Next]_vars => [Path!Decide]_(Path!vars)
  BY NextRefines
<1> QED BY <1>1, <1>2, SearchInvariant, PTL DEF Spec, ImplementsTrustPath, Path!Spec

-----------------------------------------------------------------------------
(* Completeness: where issuers are unique the chain is the start of every  *)
(* path, so that a search that gives up shows that there was none.         *)

\* There is a path, and nowhere a choice between issuers.
Findable(w, m) == PathExists(w, m) /\ Unambiguous(w, m)

\* The chain is the start of a path.
Starts(path) ==
  /\ Len(chain) <= Len(path)
  /\ \A k \in 1..Len(chain) : path[k] = chain[k]

CompleteInv ==
  /\ SearchInv
  /\ mode = "pins" \/ pc = "untrusted" => ~ Findable(world, "anchors")
  /\ pc = "untrusted" /\ world.purpose = "timestamp" => ~ Findable(world, "pins")
  /\ pc = "search" /\ Unambiguous(world, mode) =>
       \A path \in Seq(Cert) : IsTrustPath(world, mode, path) => Starts(path)

LEMMA SimplePathsAreSequences ==
  ASSUME NEW path \in SimplePaths
  PROVE  path \in Seq(Cert)
<1>1. PICK k \in 1..N : path \in [1..k -> Cert]
  BY DEF SimplePaths
<1> QED  BY <1>1, NAssumption, SeqDef

\* Which issuer follows the chain on a path that starts with it.
LEMMA NextOnPath ==
  ASSUME SearchInv, pc = "search", Unfinished,
         NEW path \in Seq(Cert), IsTrustPath(world, mode, path), Starts(path)
  PROVE  /\ Len(path) > Len(chain)
         /\ path[Len(chain) + 1] \in Acceptable(world, mode, chain)
<1> DEFINE L == Len(chain)
<1>1. /\ chain \in Seq(Cert) /\ L \in Nat /\ L > 0 /\ chain[1] = Leaf /\ Len(path) \in Nat
      /\ \A k \in 1..L : path[k] = chain[k]
      /\ L <= Len(path) /\ Leaf \notin Goal(world, mode)
  BY LenProperties DEF SearchInv, TypeOK, OnTheWay, IsChain, Starts
<1>2. chain[L] \notin Goal(world, mode)
  BY <1>1 DEF Unfinished, Current
<1>3. /\ \A k \in 1..Len(path) : path[k] \in Goal(world, mode) <=> k = Len(path)
      /\ \A k \in 1..Len(path) - 1 :
           path[k + 1] \in Universe(world, mode) /\ Issues(world, mode, path[k + 1], path[k])
      /\ \A j, k \in 1..Len(path) : path[j] = path[k] => j = k
  BY DEF IsTrustPath, IsChain, Distinct
<1>4. Len(path) > L
  BY <1>1, <1>2, <1>3
<1>5. path[L + 1] \in Universe(world, mode) /\ Issues(world, mode, path[L + 1], chain[L])
  BY <1>1, <1>3, <1>4
<1>6. \A k \in 1..L : chain[k] # path[L + 1]
  BY <1>1, <1>3, <1>4
<1> QED  BY <1>4, <1>5, <1>6 DEF Acceptable

\* The only acceptable issuer is the one the loop takes.
LEMMA OneIssuerIsFirst ==
  ASSUME SearchInv, pc = "search", Unambiguous(world, mode),
         NEW c \in Acceptable(world, mode, chain)
  PROVE  c = FirstIssuer(world, mode, chain)
<1> DEFINE f == FirstIssuer(world, mode, chain)
<1>1. /\ world \in World /\ chain \in Seq(Cert) /\ Len(chain) \in Nat /\ Len(chain) > 0
      /\ \A k \in 1..Len(chain) : chain[k] \in Universe(world, mode)
  BY LenProperties DEF SearchInv, TypeOK, OnTheWay, IsChain
<1>2. f \in Acceptable(world, mode, chain)
  BY <1>1, FirstIssuerIsAcceptable
<1> HIDE DEF f
<1>3. \A x \in Acceptable(world, mode, chain) :
        /\ x \in Universe(world, mode) /\ x # chain[Len(chain)]
        /\ Issues(world, mode, x, chain[Len(chain)])
  BY <1>1 DEF Acceptable
<1>4. chain[Len(chain)] \in Universe(world, mode)
  BY <1>1
<1>5. c = f
  BY <1>2, <1>3, <1>4 DEF Unambiguous
<1> QED  BY <1>5 DEF f

LEMMA SearchNeedsGoal ==
  ASSUME NEW w, NEW m, NEW path, IsTrustPath(w, m, path), Leaf \notin Goal(w, m)
  PROVE  Goal(w, m) # {} /\ Leaf \in Universe(w, m)
<1>1. Len(path) \in Nat /\ Len(path) > 0 /\ path[1] = Leaf
  BY LenProperties DEF IsTrustPath, IsChain
<1>2. path[Len(path)] \in Goal(w, m)  BY <1>1 DEF IsTrustPath
<1>3. 1 \in 1..Len(path) - 1  BY <1>1, <1>2
<1> QED  BY <1>1, <1>2, <1>3 DEF IsTrustPath, IsChain

LEMMA FindableHasPath ==
  ASSUME NEW w, NEW m, Findable(w, m)
  PROVE  \E path \in Seq(Cert) : IsTrustPath(w, m, path)
BY SimplePathsAreSequences DEF Findable, PathExists

\* A search that gives up had nothing to find.
LEMMA GivesUpInVain ==
  ASSUME CompleteInv, NothingToSearch \/ LoopEnds
  PROVE  ~ Findable(world, mode)
<1> SUFFICES ASSUME Findable(world, mode) PROVE FALSE
  OBVIOUS
<1>1. PICK path \in Seq(Cert) : IsTrustPath(world, mode, path)
  BY FindableHasPath
<1>2. CASE NothingToSearch
  BY <1>1, <1>2, SearchNeedsGoal DEF NothingToSearch
<1>3. CASE LoopEnds
  <2>1. pc = "search" /\ SearchInv /\ Starts(path)
    BY <1>1, <1>3 DEF LoopEnds, CompleteInv, Findable
  <2>2. rounds < RoundLimit(world, mode)
    BY <2>1, RoundIsLeft
  <2>3. Unfinished /\ Acceptable(world, mode, chain) = {}
    <3>1. rounds \in Nat /\ RoundLimit(world, mode) \in Nat
      BY <2>1, UniverseIsFinite DEF SearchInv, TypeOK, RoundLimit
    <3> QED  BY <1>3, <2>2, <3>1 DEF LoopEnds
  <2> QED  BY <1>1, <2>1, <2>3, NextOnPath
<1> QED  BY <1>2, <1>3

LEMMA GiveUpStaysComplete ==
  ASSUME CompleteInv, NothingToSearch \/ LoopEnds
  PROVE  CompleteInv'
<1>1. GiveUp /\ SearchInv /\ SearchInv'
  BY GiveUpPreserves DEF CompleteInv, NothingToSearch, LoopEnds
<1>2. ~ Findable(world, mode)  BY GivesUpInVain
<1>3. world' = world /\ pc' \in {"enter", "untrusted"}  BY <1>1 DEF GiveUp
<1>4. ~ Findable(world, "anchors")
  <2>1. mode \in {"anchors", "pins"}  BY <1>1 DEF SearchInv, TypeOK, Mode
  <2> QED  BY <1>2, <2>1 DEF CompleteInv
<1>5. pc' = "untrusted" /\ world.purpose = "timestamp" => ~ Findable(world, "pins")
  <2>1. mode \in {"anchors", "pins"}  BY <1>1 DEF SearchInv, TypeOK, Mode
  <2> QED  BY <1>1, <1>2, <2>1 DEF GiveUp
<1>6. (~ Findable(world, "anchors"))' /\ (pc' = "untrusted" /\ world'.purpose = "timestamp" => (~ Findable(world, "pins"))')
  BY <1>3, <1>4, <1>5
<1> QED  BY <1>1, <1>3, <1>6 DEF CompleteInv

LEMMA FollowIssuerStaysComplete ==
  ASSUME CompleteInv, FollowIssuer
  PROVE  CompleteInv'
<1> DEFINE c == FirstIssuer(world, mode, chain)
<1>1. /\ SearchInv /\ SearchInv' /\ pc = "search" /\ pc' = "search" /\ Unfinished
      /\ world' = world /\ mode' = mode /\ chain' = Append(chain, c)
  BY FollowIssuerPreserves DEF CompleteInv, FollowIssuer
<1>2. chain \in Seq(Cert) /\ c \in Cert
  <2>1. world \in World /\ chain \in Seq(Cert)  BY <1>1 DEF SearchInv, TypeOK
  <2>2. c \in Acceptable(world, mode, chain)
    BY <2>1, FirstIssuerIsAcceptable DEF FollowIssuer
  <2> QED  BY <2>1, <2>2, UniverseIsCerts DEF Acceptable
<1>3. ASSUME Unambiguous(world, mode), NEW path \in Seq(Cert), IsTrustPath(world, mode, path)
      PROVE  Starts(path)'
  <2>1. Starts(path)  BY <1>1, <1>3 DEF CompleteInv
  <2>2. /\ Len(path) > Len(chain)
        /\ path[Len(chain) + 1] \in Acceptable(world, mode, chain)
    BY <1>1, <1>3, <2>1, NextOnPath
  <2>3. path[Len(chain) + 1] = c
    BY <1>1, <1>3, <2>2, OneIssuerIsFirst
  <2> HIDE DEF c
  <2>4. /\ Len(chain) \in Nat /\ Len(path) \in Nat
        /\ Len(chain') = Len(chain) + 1
        /\ \A k \in 1..Len(chain) : chain'[k] = chain[k]
        /\ chain'[Len(chain) + 1] = c
    BY <1>1, <1>2, AppendProperties, LenProperties
  <2> QED  BY <2>1, <2>2, <2>3, <2>4 DEF Starts
<1>4. (Unambiguous(world, mode) =>
         \A path \in Seq(Cert) : IsTrustPath(world, mode, path) => Starts(path))'
  BY <1>1, <1>3
<1> QED  BY <1>1, <1>4 DEF CompleteInv

LEMMA StartSearchStaysComplete ==
  ASSUME CompleteInv, StartSearch
  PROVE  CompleteInv'
<1>1. /\ SearchInv /\ SearchInv' /\ pc' = "search"
      /\ world' = world /\ mode' = mode /\ chain' = <<Leaf>>
  BY StartSearchPreserves DEF CompleteInv, StartSearch
<1>2. ASSUME NEW path \in Seq(Cert), IsTrustPath(world, mode, path)
      PROVE  Starts(path)'
  <2>1. Len(path) \in Nat /\ Len(path) > 0 /\ path[1] = Leaf
    BY <1>2, LenProperties DEF IsTrustPath, IsChain
  <2> QED  BY <1>1, <2>1 DEF Starts
<1>3. (\A path \in Seq(Cert) : IsTrustPath(world, mode, path) => Starts(path))'
  BY <1>1, <1>2
<1> QED  BY <1>1, <1>3 DEF CompleteInv

LEMMA NextStaysComplete == CompleteInv /\ [Next]_vars => CompleteInv'
<1> SUFFICES ASSUME CompleteInv, [Next]_vars PROVE CompleteInv'
  OBVIOUS
<1>1. CASE LeafIsGoal
  <2>1. SearchInv' /\ pc' = "trusted" /\ world' = world /\ mode' = mode
    BY <1>1, LeafIsGoalPreserves DEF LeafIsGoal, Finish, CompleteInv
  <2> QED  BY <2>1 DEF CompleteInv
<1>2. CASE NothingToSearch
  BY <1>2, GiveUpStaysComplete
<1>3. CASE StartSearch
  BY <1>3, StartSearchStaysComplete
<1>4. CASE ReachGoal
  <2>1. SearchInv' /\ pc' = "trusted" /\ world' = world /\ mode' = mode
    BY <1>4, ReachGoalPreserves DEF ReachGoal, Finish, CompleteInv
  <2> QED  BY <2>1 DEF CompleteInv
<1>5. CASE FollowIssuer
  BY <1>5, FollowIssuerStaysComplete
<1>6. CASE LoopEnds
  BY <1>6, GiveUpStaysComplete
<1>7. CASE UNCHANGED vars
  <2>1. SearchInv'  BY <1>7, NextPreserves DEF CompleteInv
  <2> QED  BY <1>7, <2>1 DEF vars, CompleteInv, Starts
<1> QED BY <1>1, <1>2, <1>3, <1>4, <1>5, <1>6, <1>7 DEF Next

\* However many certificates there are: where every certificate has at most
\* one acceptable issuer, a search without an answer had no path to find, and
\* the pins are only tried when no anchor could be found.
THEOREM UniqueIssuersAreComplete == Spec => []UniqueIssuersComplete
<1>1. Init => CompleteInv
  <2> SUFFICES ASSUME Init PROVE CompleteInv
    OBVIOUS
  <2>1. SearchInv /\ pc = "enter" /\ mode = "anchors"
    BY InitEstablishes DEF Init
  <2> QED  BY <2>1 DEF CompleteInv
<1>2. CompleteInv => UniqueIssuersComplete
  BY DEF CompleteInv, UniqueIssuersComplete, Findable
<1> QED  BY <1>1, <1>2, NextStaysComplete, PTL DEF Spec

-----------------------------------------------------------------------------
(* The preferred anchors.                                                  *)

\* Some preferred anchor issued the leaf, which is not an anchor itself.
PreferredIssuers(w) ==
  {c \in w.preferred \cap Universe(w, "anchors") : c # Leaf /\ Issues(w, "anchors", c, Leaf)}

IsPreferred(w) ==
  Leaf \in Universe(w, "anchors") \ w.anchors /\ PreferredIssuers(w) # {}

PreferredInv ==
  /\ SearchInv
  /\ world \in Worlds
  /\ IsPreferred(world) =>
       /\ mode = "anchors" /\ pc # "untrusted"
       /\ pc = "search" => Len(chain) = 1 \/ (Len(chain) = 2 /\ chain[2] \in world.preferred)
       /\ pc = "trusted" => Len(chain) = 2 /\ chain[2] \in world.preferred

\* Sorting puts a preferred issuer first.
LEMMA PreferredIsFirst ==
  ASSUME NEW w \in World, NEW visited \in Seq(Cert),
         NEW c \in Acceptable(w, "anchors", visited), c \in w.preferred
  PROVE  FirstIssuer(w, "anchors", visited) \in w.preferred
<1> DEFINE f == FirstIssuer(w, "anchors", visited)
<1>1. /\ f \in Acceptable(w, "anchors", visited)
      /\ \A other \in Acceptable(w, "anchors", visited) :
           \/ Rank(w, "anchors", f) < Rank(w, "anchors", other)
           \/ Rank(w, "anchors", f) = Rank(w, "anchors", other) /\ f <= other
  BY FirstIssuerIsBest
<1> HIDE DEF f
<1>2. Rank(w, "anchors", f) < Rank(w, "anchors", c) \/ Rank(w, "anchors", f) = Rank(w, "anchors", c)
  BY <1>1
<1>3. Rank(w, "anchors", c) \in {0, 1}  BY DEF Rank
<1>4. f \notin w.preferred => Rank(w, "anchors", f) = 2  BY DEF Rank
<1> QED  BY <1>2, <1>3, <1>4 DEF f

\* The first iteration of a search with preferred issuers.
LEMMA FirstIteration ==
  ASSUME PreferredInv, pc = "search", IsPreferred(world), Len(chain) = 1
  PROVE  /\ Unfinished /\ Acceptable(world, mode, chain) # {}
         /\ FirstIssuer(world, mode, chain) \in world.preferred
<1>1. PICK c \in PreferredIssuers(world) : TRUE
  BY DEF IsPreferred
<1>2. mode = "anchors" /\ world \in World /\ chain \in Seq(Cert) /\ chain[1] = Leaf
  BY DEF PreferredInv, SearchInv, TypeOK, OnTheWay, IsChain
<1>3. c \in Acceptable(world, "anchors", chain) /\ c \in world.preferred
  BY <1>2 DEF PreferredIssuers, Acceptable
<1> QED  BY <1>2, <1>3, PreferredIsFirst DEF Unfinished

\* After it the chain ends at an anchor.
LEMMA SecondIteration ==
  ASSUME PreferredInv, pc = "search", IsPreferred(world), Len(chain) # 1
  PROVE  ~ Unfinished
<1>1. Len(chain) = 2 /\ chain[2] \in world.preferred /\ mode = "anchors" /\ world \in Worlds
  BY DEF PreferredInv
<1>2. world.preferred \subseteq world.anchors
  BY <1>1, PreferredAssumption
<1> QED  BY <1>1, <1>2 DEF Unfinished, Current, Goal

LEMMA SearchGoesOn ==
  ASSUME PreferredInv, IsPreferred(world)
  PROVE  ~ NothingToSearch /\ ~ LoopEnds /\ ~ LeafIsGoal
<1>1. /\ mode = "anchors" /\ Leaf \in Universe(world, "anchors") /\ Leaf \notin Goal(world, "anchors")
      /\ world \in Worlds /\ SearchInv
  BY DEF PreferredInv, IsPreferred, Goal
<1>2. Goal(world, "anchors") # {}
  BY <1>1, PreferredAssumption DEF IsPreferred, PreferredIssuers, Goal
<1>3. ASSUME LoopEnds PROVE FALSE
  <2>1. pc = "search"  BY <1>3 DEF LoopEnds
  <2>2. rounds \in Nat /\ RoundLimit(world, mode) \in Nat
    BY <1>1, UniverseIsFinite DEF SearchInv, TypeOK, RoundLimit
  <2>3. rounds < RoundLimit(world, mode)  BY <1>1, <2>1, RoundIsLeft
  <2>4. Unfinished /\ Acceptable(world, mode, chain) = {}
    BY <1>3, <2>2, <2>3 DEF LoopEnds
  <2> QED  BY <2>1, <2>4, FirstIteration, SecondIteration
<1> QED  BY <1>1, <1>2, <1>3 DEF NothingToSearch, LeafIsGoal

LEMMA NextKeepsPreferred == PreferredInv /\ [Next]_vars => PreferredInv'
<1> SUFFICES ASSUME PreferredInv, [Next]_vars PROVE PreferredInv'
  OBVIOUS
<1>1. SearchInv' /\ world' = world /\ world \in Worlds
  <2>1. SearchInv'  BY NextPreserves DEF PreferredInv
  <2>2. world' = world
    BY DEF Next, LeafIsGoal, NothingToSearch, StartSearch, ReachGoal, FollowIssuer,
           LoopEnds, Finish, GiveUp, vars
  <2> QED  BY <2>1, <2>2 DEF PreferredInv
<1>2. CASE ~ IsPreferred(world)
  <2>1. ~ IsPreferred(world)'  BY <1>1, <1>2
  <2> QED  BY <1>1, <2>1 DEF PreferredInv
<1>3. CASE IsPreferred(world)
  <2>1. CASE StartSearch
    <3>1. pc' = "search" /\ mode' = mode /\ Len(chain') = 1
      BY <2>1 DEF StartSearch
    <3> QED  BY <1>1, <1>3, <3>1 DEF PreferredInv
  <2>2. CASE FollowIssuer
    <3>1. /\ pc = "search" /\ pc' = "search" /\ mode' = mode /\ Unfinished
          /\ chain' = Append(chain, FirstIssuer(world, mode, chain))
      BY <2>2 DEF FollowIssuer
    <3>2. Len(chain) = 1 /\ FirstIssuer(world, mode, chain) \in world.preferred
      BY <1>3, <3>1, FirstIteration, SecondIteration
    <3>3. chain \in Seq(Cert) /\ FirstIssuer(world, mode, chain) \in Cert
      <4>1. chain \in Seq(Cert) /\ world \in World  BY DEF PreferredInv, SearchInv, TypeOK
      <4>2. FirstIssuer(world, mode, chain) \in Acceptable(world, mode, chain)
        BY <4>1, <2>2, FirstIssuerIsAcceptable DEF FollowIssuer
      <4> QED  BY <4>1, <4>2, UniverseIsCerts DEF Acceptable
    <3> DEFINE f == FirstIssuer(world, mode, chain)
    <3>4. f \in Cert /\ f \in world.preferred /\ chain' = Append(chain, f)
      BY <3>1, <3>2, <3>3
    <3> HIDE DEF f
    <3>5. Len(chain') = Len(chain) + 1 /\ chain'[Len(chain) + 1] = f
      BY <3>3, <3>4, AppendProperties
    <3>6. Len(chain') = 2 /\ chain'[2] = f
      BY <3>2, <3>5
    <3> QED  BY <1>1, <1>3, <3>1, <3>4, <3>6 DEF PreferredInv
  <2>3. CASE ReachGoal
    <3>1. /\ pc = "search" /\ Len(chain) > 1 /\ mode' = mode /\ chain' = chain /\ pc' = "trusted"
      BY <2>3 DEF ReachGoal, Finish
    <3> QED  BY <1>1, <1>3, <3>1 DEF PreferredInv
  <2>4. CASE UNCHANGED vars
    BY <1>1, <1>3, <2>4 DEF vars, PreferredInv
  <2> QED  BY <1>3, <2>1, <2>2, <2>3, <2>4, SearchGoesOn DEF Next
<1> QED  BY <1>2, <1>3

\* However many certificates the bag offers: a preferred anchor that issued the
\* signer is found and ends the path.
THEOREM PreferredIssuersAreFound == Spec => []PreferredIssuerFound
<1>1. Init => PreferredInv
  <2> SUFFICES ASSUME Init PROVE PreferredInv
    OBVIOUS
  <2>1. SearchInv /\ pc = "enter" /\ mode = "anchors" /\ world \in Worlds
    BY InitEstablishes DEF Init
  <2> QED  BY <2>1 DEF PreferredInv
<1>2. PreferredInv => PreferredIssuerFound
  BY DEF PreferredInv, PreferredIssuerFound, IsPreferred, PreferredIssuers, Answered
<1> QED  BY <1>1, <1>2, NextKeepsPreferred, PTL DEF Spec
=============================================================================

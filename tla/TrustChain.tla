----------------------------- MODULE TrustChain -----------------------------
(***************************************************************************)
(* The certification path search of rust/sd_trust_kit/src/trust.rs:        *)
(* trusted_chain_to_anchor_at_time and its variant with preferred anchors, *)
(* the fallback of a timestamp to trusted_chain_to_certificate_sha256_pin  *)
(* (timestamp.rs), and the loop manual_trusted_chain_to_anchor they share. *)
(* The loop walks from the leaf to one issuer at a time and never goes     *)
(* back.  Faulty... operators are slips this code could contain; no        *)
(* definition uses them.                                                   *)
(***************************************************************************)
EXTENDS Certificates, FiniteSets

VARIABLES
  world,    \* the certificates and options of this search
  mode,     \* what the search is to reach: "anchors", then "pins"
  pc,       \* "enter", "search", or the answer
  chain,    \* the certificates chosen so far
  rounds    \* iterations of the loop that chose one

vars == <<world, mode, pc, chain, rounds>>

Current == chain[Len(chain)]

\* The issuers the loop accepts for a certificate, visited ones excluded.
Acceptable(w, m, visited) ==
  {c \in Universe(w, m) :
     /\ \A k \in 1..Len(visited) : visited[k] # c
     /\ Issues(w, m, c, visited[Len(visited)])}

\* Slip: the preference is not looked at.
FaultyRank(w, m, c) == 2

\* The sort key of the candidates: preferred self-issued anchors first, then
\* preferred anchors, then the others, each in the order of the list.
Rank(w, m, c) ==
  IF m = "pins" \/ c \notin w.preferred THEN 2
  ELSE IF w.subject[c] = w.issuer[c] THEN 0 ELSE 1

FirstIssuer(w, m, visited) ==
  CHOOSE c \in Acceptable(w, m, visited) :
    \A other \in Acceptable(w, m, visited) :
      \/ Rank(w, m, c) < Rank(w, m, other)
      \/ Rank(w, m, c) = Rank(w, m, other) /\ c <= other

\* Slip: one iteration too few.
FaultyRoundLimit(w, m) == Cardinality(Universe(w, m)) - 1

\* The loop runs at most once per certificate.
RoundLimit(w, m) == Cardinality(Universe(w, m))

-----------------------------------------------------------------------------
Init ==
  /\ world \in Worlds
  /\ mode = "anchors"
  /\ pc = "enter"
  /\ chain = <<>>
  /\ rounds = 0

Finish(path) ==
  /\ pc' = "trusted"
  /\ chain' = path
  /\ UNCHANGED <<world, mode, rounds>>

\* Slip: pins are tried whether or not they were tried already.
FaultyGiveUp ==
  /\ IF world.purpose = "timestamp" THEN mode' = "pins" /\ pc' = "enter"
     ELSE pc' = "untrusted" /\ UNCHANGED mode
  /\ chain' = <<>>
  /\ rounds' = 0
  /\ UNCHANGED world

\* Slip: pins are not tried when there is an anchor to try.
FaultyGiveUpPins ==
  /\ IF mode = "anchors" /\ world.anchors = {} /\ world.purpose = "timestamp"
     THEN mode' = "pins" /\ pc' = "enter"
     ELSE pc' = "untrusted" /\ UNCHANGED mode
  /\ chain' = <<>>
  /\ rounds' = 0
  /\ UNCHANGED world

\* No path: a timestamp is tried with its pins next, a signer is not.
GiveUp ==
  /\ IF mode = "anchors" /\ world.purpose = "timestamp"
     THEN mode' = "pins" /\ pc' = "enter"
     ELSE pc' = "untrusted" /\ UNCHANGED mode
  /\ chain' = <<>>
  /\ rounds' = 0
  /\ UNCHANGED world

\* The leaf is trusted itself.
LeafIsGoal ==
  /\ pc = "enter"
  /\ Leaf \in Goal(world, mode)
  /\ Finish(<<Leaf>>)

\* There is nothing to search for, or nothing to start from.
NothingToSearch ==
  /\ pc = "enter"
  /\ Leaf \notin Goal(world, mode)
  /\ Goal(world, mode) = {} \/ Leaf \notin Universe(world, mode)
  /\ GiveUp

\* Slip: any pinned certificate that came along vouches for the leaf.
FaultyStartSearch ==
  /\ pc = "enter"
  /\ Leaf \notin Goal(world, mode)
  /\ Goal(world, mode) # {}
  /\ Leaf \in Universe(world, mode)
  /\ IF mode = "pins" THEN Finish(<<Leaf>>)
     ELSE /\ pc' = "search"
          /\ chain' = <<Leaf>>
          /\ UNCHANGED <<world, mode, rounds>>

StartSearch ==
  /\ pc = "enter"
  /\ Leaf \notin Goal(world, mode)
  /\ Goal(world, mode) # {}
  /\ Leaf \in Universe(world, mode)
  /\ pc' = "search"
  /\ chain' = <<Leaf>>
  /\ UNCHANGED <<world, mode, rounds>>

\* One iteration of the loop: the goal is reached, ...
ReachGoal ==
  /\ pc = "search"
  /\ rounds < RoundLimit(world, mode)
  /\ Len(chain) > 1
  /\ Current \in Goal(world, mode)
  /\ Finish(chain)

Unfinished == Len(chain) = 1 \/ Current \notin Goal(world, mode)

\* ... or the first acceptable issuer is taken, ...
FollowIssuer ==
  /\ pc = "search"
  /\ rounds < RoundLimit(world, mode)
  /\ Unfinished
  /\ Acceptable(world, mode, chain) # {}
  /\ chain' = Append(chain, FirstIssuer(world, mode, chain))
  /\ rounds' = rounds + 1
  /\ UNCHANGED <<world, mode, pc>>

\* ... or the search ends without one.
LoopEnds ==
  /\ pc = "search"
  /\ \/ rounds >= RoundLimit(world, mode)
     \/ Unfinished /\ Acceptable(world, mode, chain) = {}
  /\ GiveUp

Next ==
  LeafIsGoal \/ NothingToSearch \/ StartSearch \/ ReachGoal \/ FollowIssuer \/ LoopEnds

\* The search is a function call: it runs until it returns.
Spec == Init /\ [][Next]_vars /\ WF_vars(Next)

-----------------------------------------------------------------------------
Answered == pc \in {"trusted", "untrusted"}

\* Only certificates get into the chain, and the loop counter stays within the
\* number of certificates.
TypeOK ==
  /\ world \in World
  /\ mode \in Mode
  /\ pc \in {"enter", "search", "trusted", "untrusted"}
  /\ chain \in Seq(Cert)
  /\ rounds \in 0..N

\* The walk of the loop and its fallback implement what a path search
\* promises: whatever the bag holds, a trusted answer shows a path.
Path ==
  INSTANCE TrustPath WITH
    answer <- [status |-> IF Answered THEN pc ELSE "searching",
               mode |-> IF Answered THEN mode ELSE "anchors",
               path |-> IF Answered THEN chain ELSE <<>>]

ImplementsTrustPath == Path!Spec

\* The bound of the loop never cuts a search short: as long as it searches, one
\* more iteration is left to notice that the goal is reached.
LoopBoundSuffices == pc = "search" => rounds < RoundLimit(world, mode)

\* Paths of at most N certificates from the leaf.
SimplePaths ==
  {path \in UNION {[1..k -> Cert] : k \in 1..N} : path[1] = Leaf /\ Distinct(path)}

PathExists(w, m) == \E path \in SimplePaths : IsTrustPath(w, m, path)

Unambiguous(w, m) ==
  \A child, c1, c2 \in Universe(w, m) :
    Issues(w, m, c1, child) /\ Issues(w, m, c2, child)
      /\ c1 # child /\ c2 # child => c1 = c2

\* Where every certificate has at most one acceptable issuer the walk finds
\* the path if there is one, anchors before pins, and pins for timestamps only.
UniqueIssuersComplete ==
  /\ Answered /\ (pc = "untrusted" \/ mode = "pins") =>
       ~ (PathExists(world, "anchors") /\ Unambiguous(world, "anchors"))
  /\ pc = "untrusted" /\ world.purpose = "timestamp" =>
       ~ (PathExists(world, "pins") /\ Unambiguous(world, "pins"))

\* A preferred anchor that issued the signer is found whatever other issuers
\* the bag offers, and it ends the path.
PreferredIssuerFound ==
  /\ Answered
  /\ Leaf \in Universe(world, "anchors") \ world.anchors
  /\ \E c \in world.preferred \cap Universe(world, "anchors") :
       c # Leaf /\ Issues(world, "anchors", c, Leaf)
  => pc = "trusted" /\ Len(chain) = 2 /\ chain[2] \in world.preferred

\* The search ends.
Terminates == <>Answered
=============================================================================

-------------------------- MODULE RevocationProofs --------------------------
(***************************************************************************)
(* Proofs about the revocation check, for any times, certificates and      *)
(* evidence: the loops stay within what they walk through, evidence that   *)
(* cannot be used is inert, a definite answer is backed by evidence as     *)
(* RevocationEvidence demands, and archived evidence lasts.                *)
(***************************************************************************)
EXTENDS Revocation, SequenceTheorems, TLAPS

LEMMA NoTimeIsOptional == 0 \in OptionalTime
BY LastTimeAssumption DEF OptionalTime

LEMMA Elements ==
  ASSUME NEW S, NEW s \in Seq(S)
  PROVE  /\ Len(s) \in Nat /\ DOMAIN s = 1..Len(s)
         /\ \A k \in DOMAIN s : s[k] \in S
<1>1. Len(s) \in Nat /\ DOMAIN s = 1..Len(s) /\ s \in [1..Len(s) -> S]
  BY LenProperties
<1> QED BY <1>1

\* A function on 1..n is a sequence of length n.
LEMMA SequenceLength ==
  ASSUME NEW n \in Nat, NEW S, NEW s \in [1..n -> S]
  PROVE  Len(s) = n
<1>1. s \in Seq(S)
  OBVIOUS
<1>2. Len(s) \in Nat /\ DOMAIN s = 1..Len(s) /\ DOMAIN s = 1..n
  BY <1>1, LenProperties
<1>3. ASSUME Len(s) < n PROVE FALSE
  BY <1>2, <1>3
<1>4. ASSUME n < Len(s) PROVE FALSE
  BY <1>2, <1>4
<1> QED BY <1>2, <1>3, <1>4

LEMMA EntriesLength ==
  ASSUME NEW w \in World
  PROVE  /\ Len(w.cache) \in Nat /\ Len(w.embedded) \in Nat
         /\ Len(Entries(w)) = Len(w.cache) + Len(w.embedded)
         /\ DOMAIN Entries(w) = 1..Len(Entries(w))
<1>1. /\ w.cache \in Seq([response : Response, validUntil : Time])
      /\ w.embedded \in Seq(Response)
  BY DEF World
<1>2. Len(w.cache) \in Nat /\ Len(w.embedded) \in Nat
  BY <1>1, LenProperties
<1> DEFINE n == Len(w.cache) + Len(w.embedded)
           S == {Entries(w)[k] : k \in 1..n}
<1>3. Entries(w) \in [1..n -> S]
  BY DEF Entries
<1>4. Len(Entries(w)) = n
  <2>1. n \in Nat
    <3> DEFINE a == Len(w.cache)
               b == Len(w.embedded)
    <3>1. a \in Nat /\ b \in Nat
      BY <1>2
    <3> HIDE DEF a, b
    <3>2. a + b \in Nat
      BY <3>1
    <3> QED BY <3>2 DEF a, b
  <2> HIDE DEF n, S
  <2> QED BY <1>3, <2>1, SequenceLength
<1> QED BY <1>2, <1>3, <1>4

LEMMA PointsLength ==
  ASSUME NEW w \in World
  PROVE  Len(Points(w)) \in Nat /\ DOMAIN Points(w) = 1..Len(Points(w))
<1> DEFINE P == [scheme : {"http", "https", "ldap"}, url : Url]
<1>1. w.points \in Seq(P)
  BY DEF World
<1>2. <<[scheme |-> "https", url |-> CeiUrl]>> \in Seq(P)
  BY UrlAssumption
<1>3. Points(w) \in Seq(P)
  BY <1>1, <1>2 DEF Points
<1> QED BY <1>3, LenProperties

\* An entry of the list of responses is a response with its conditions.
LEMMA EntryIsCachedOrEmbedded ==
  ASSUME NEW w \in World, NEW k \in DOMAIN Entries(w)
  PROVE  \/ \E j \in DOMAIN w.cache : Entries(w)[k] = Cached(w.cache[j])
         \/ \E j \in DOMAIN w.embedded : Entries(w)[k] = Embedded(w, w.embedded[j])
<1>1. /\ w.cache \in Seq([response : Response, validUntil : Time])
      /\ w.embedded \in Seq(Response)
  BY DEF World
<1>2. /\ Len(w.cache) \in Nat /\ DOMAIN w.cache = 1..Len(w.cache)
      /\ Len(w.embedded) \in Nat /\ DOMAIN w.embedded = 1..Len(w.embedded)
  BY <1>1, LenProperties
<1>3. k \in 1..Len(w.cache) + Len(w.embedded)
  BY DEF Entries
<1>4. CASE k <= Len(w.cache)
  <2>1. k \in DOMAIN w.cache
    BY <1>2, <1>3, <1>4
  <2>2. Entries(w)[k] = Cached(w.cache[k])
    BY <1>3, <1>4 DEF Entries
  <2> QED BY <2>1, <2>2
<1>5. CASE ~ (k <= Len(w.cache))
  <2>1. k - Len(w.cache) \in DOMAIN w.embedded
    <3> DEFINE m == Len(w.cache)
               n == Len(w.embedded)
    <3>1. m \in Nat /\ n \in Nat /\ k \in 1..m + n /\ ~ (k <= m)
      BY <1>2, <1>3, <1>5
    <3> HIDE DEF m, n
    <3>2. k - m \in 1..n
      BY <3>1
    <3> QED BY <1>2, <3>2 DEF m, n
  <2>2. Entries(w)[k] = Embedded(w, w.embedded[k - Len(w.cache)])
    BY <1>3, <1>5 DEF Entries
  <2> QED BY <2>1, <2>2
<1> QED BY <1>4, <1>5

LEMMA ResponseOfEntry ==
  ASSUME NEW w \in World, NEW k \in DOMAIN Entries(w)
  PROVE  Entries(w)[k].response \in Response
<1>1. /\ w.cache \in Seq([response : Response, validUntil : Time])
      /\ w.embedded \in Seq(Response)
  BY DEF World
<1>2. \A j \in DOMAIN w.cache : w.cache[j] \in [response : Response, validUntil : Time]
  BY <1>1, Elements
<1>3. \A j \in DOMAIN w.embedded : w.embedded[j] \in Response
  BY <1>1, Elements
<1> QED BY <1>2, <1>3, EntryIsCachedOrEmbedded DEF Cached, Embedded

-----------------------------------------------------------------------------
(* Types.                                                                  *)

LEMMA SaidIsAnswer ==
  ASSUME NEW w \in World, NEW k \in DOMAIN Entries(w),
         NEW at \in Positions(w, Entries(w)[k].response)
  PROVE  Said(Entries(w)[k].response.singles[at[2]]) \in Answer
<1> DEFINE r == Entries(w)[k].response
<1>1. r \in Response
  BY ResponseOfEntry
<1>2. at[2] \in DOMAIN r.singles
  BY DEF Positions
<1>3. r.singles[at[2]] \in SingleResponse
  <2>1. r.singles \in Seq(SingleResponse)
    BY <1>1 DEF Response
  <2> HIDE DEF r
  <2> QED BY <1>2, <2>1, Elements
<1>4. r.singles[at[2]].revokedAt \in OptionalTime
  BY <1>3 DEF SingleResponse
<1> QED BY <1>4, NoTimeIsOptional DEF Said, Answer, Good, Revoked

LEMMA ListsIsAnswer ==
  ASSUME NEW w \in World, NEW c \in DOMAIN w.crls
  PROVE  Lists(w.crls[c].crl) \in Answer
<1>1. w.crls \in Seq([url : Url, crl : Crl, validUntil : Time])
  BY DEF World
<1>2. w.crls[c] \in [url : Url, crl : Crl, validUntil : Time]
  BY <1>1, Elements
<1>3. w.crls[c].crl.revokedAt \in OptionalTime
  BY <1>2 DEF Crl
<1> QED BY <1>3, NoTimeIsOptional DEF Lists, Answer, Good, Revoked

LEMMA TypeInit == Init => TypeOK
<1> SUFFICES ASSUME Init PROVE TypeOK
  OBVIOUS
<1>1. world \in World
  BY WorldsAssumption DEF Init
<1>2. now \in Time
  BY LastTimeAssumption DEF Init, Time
<1> QED BY <1>1, <1>2, NoTimeIsOptional DEF Init, TypeOK, Answer, NoAnswer

LEMMA TypeNext == TypeOK /\ [Next]_vars => TypeOK'
<1> SUFFICES ASSUME TypeOK, [Next]_vars PROVE TypeOK'
  OBVIOUS
<1>1. /\ world \in World /\ now \in Time /\ next \in Nat \ {0} /\ answer \in Answer
      /\ pc = "ocsp" => next <= Len(Entries(world)) + 1
      /\ pc = "crl" => next <= Len(Points(world)) + 1
  BY DEF TypeOK
<1>2. /\ Len(Entries(world)) \in Nat /\ DOMAIN Entries(world) = 1..Len(Entries(world))
      /\ Len(Points(world)) \in Nat /\ DOMAIN Points(world) = 1..Len(Points(world))
  BY <1>1, EntriesLength, PointsLength
<1>3. Unavailable \in Answer
  BY NoTimeIsOptional DEF Unavailable, Answer
<1>4. ASSUME NEW a \in Answer, Return(a) PROVE TypeOK'
  BY <1>1, <1>4 DEF Return, TypeOK
<1>5. ASSUME NEW stage \in {"ocsp", "crl"}, Goto(stage) PROVE TypeOK'
  <2>1. /\ world' = world /\ now' = now /\ answer' = answer /\ next' = 1 /\ pc' = stage
    BY <1>5 DEF Goto
  <2>2. 1 <= Len(Entries(world)) + 1 /\ 1 <= Len(Points(world)) + 1
    BY <1>2
  <2> QED BY <1>1, <2>1, <2>2 DEF TypeOK
<1> DEFINE Trying ==
             \/ pc = "ocsp" /\ next \in DOMAIN Entries(world)
             \/ pc = "crl" /\ next \in DOMAIN Points(world)
<1>6. ASSUME TryNext, Trying PROVE TypeOK'
  <2>1. /\ world' = world /\ now' = now /\ answer' = answer /\ next' = next + 1 /\ pc' = pc
    BY <1>6 DEF TryNext
  <2>2. /\ pc = "ocsp" => next' <= Len(Entries(world)) + 1
        /\ pc = "crl" => next' <= Len(Points(world)) + 1
    BY <1>1, <1>2, <1>6, <2>1
  <2> QED BY <1>1, <1>6, <2>1, <2>2 DEF TypeOK
<1> HIDE DEF Trying
<1>7. CASE SerialUnreadable
  BY <1>3, <1>4, <1>7 DEF SerialUnreadable
<1>8. CASE StartWithOcsp
  BY <1>5, <1>8 DEF StartWithOcsp
<1>9. CASE PassResponse
  <2>1. Trying /\ TryNext
    BY <1>9 DEF PassResponse, Trying
  <2> QED BY <1>6, <2>1
<1>10. CASE UseResponse
  <2>1. PICK at \in Positions(world, Entries(world)[next].response) :
               Return(Said(Entries(world)[next].response.singles[at[2]]))
    BY <1>10 DEF UseResponse
  <2>2. next \in DOMAIN Entries(world)
    BY <1>10 DEF UseResponse
  <2>3. Said(Entries(world)[next].response.singles[at[2]]) \in Answer
    BY <1>1, <2>2, SaidIsAnswer
  <2> QED BY <1>4, <2>1, <2>3
<1>11. CASE ResponderDoesNotKnow
  BY <1>5, <1>11 DEF ResponderDoesNotKnow
<1>12. CASE NoMoreResponses
  BY <1>5, <1>12 DEF NoMoreResponses
<1>13. CASE PassList
  <2>1. Trying /\ TryNext
    BY <1>13 DEF PassList, Trying
  <2> QED BY <1>6, <2>1
<1>14. CASE UseList
  <2>1. PICK c \in DOMAIN world.crls : Return(Lists(world.crls[c].crl))
    BY <1>14 DEF UseList
  <2>2. Lists(world.crls[c].crl) \in Answer
    BY <1>1, ListsIsAnswer
  <2> QED BY <1>4, <2>1, <2>2
<1>15. CASE NoMoreLists
  BY <1>3, <1>4, <1>15 DEF NoMoreLists
<1>16. CASE CheckLater
  <2>1. now + 1 \in Time
    BY <1>1, <1>16, LastTimeAssumption DEF CheckLater, Time
  <2> QED BY <1>1, <1>16, <2>1 DEF CheckLater, TypeOK
<1>17. CASE UNCHANGED vars
  BY <1>17 DEF vars, TypeOK
<1> QED BY <1>7, <1>8, <1>9, <1>10, <1>11, <1>12, <1>13, <1>14, <1>15, <1>16, <1>17
        DEF Next, Check

\* The variables keep their types, and the loops stay within the evidence.
THEOREM CheckTypeCorrect == Spec => []TypeOK
BY TypeInit, TypeNext, PTL DEF Spec

-----------------------------------------------------------------------------
(* Refinement: a definite answer is backed by evidence.                    *)

LEMMA SinglesAndIssuers ==
  ASSUME NEW w \in World, NEW k \in DOMAIN Entries(w),
         NEW at \in Positions(w, Entries(w)[k].response)
  PROVE  /\ Entries(w)[k].response \in Response
         /\ w.issuers[at[1]] \in Promise!Elements(w.issuers)
         /\ Entries(w)[k].response.singles[at[2]] \in SingleResponse
         /\ Entries(w)[k].response.singles[at[2]]
              \in Promise!Elements(Entries(w)[k].response.singles)
<1> DEFINE r == Entries(w)[k].response
<1>1. r \in Response
  BY ResponseOfEntry
<1>2. at[1] \in DOMAIN w.issuers /\ at[2] \in DOMAIN r.singles
  BY DEF Positions
<1>3. r.singles \in Seq(SingleResponse)
  BY <1>1 DEF Response
<1> HIDE DEF r
<1>4. r.singles[at[2]] \in SingleResponse
  BY <1>2, <1>3, Elements
<1>5. /\ w.issuers[at[1]] \in Promise!Elements(w.issuers)
      /\ r.singles[at[2]] \in Promise!Elements(r.singles)
  BY <1>2 DEF Promise!Elements
<1> QED BY <1>1, <1>4, <1>5 DEF r

\* Whoever is accepted as a responder answers for the issuer.
LEMMA AuthenticIsSignedFor ==
  ASSUME NEW r, NEW issuer, r.readable, Authentic(r, issuer)
  PROVE  Promise!SignedFor(issuer, r)
<1>1. r.sha2
  BY DEF Authentic
<1>2. CASE IsResponder(r, issuer)
  BY <1>1, <1>2 DEF IsResponder, Promise!SignedFor
<1>3. CASE \E k \in DOMAIN r.certs :
             /\ IsResponder(r, r.certs[k])
             /\ r.certs[k] = issuer \/ Delegated(r.certs[k], issuer, r.producedAt)
  <2>1. PICK k \in DOMAIN r.certs :
          /\ IsResponder(r, r.certs[k])
          /\ r.certs[k] = issuer \/ Delegated(r.certs[k], issuer, r.producedAt)
    BY <1>3
  <2>2. CASE r.certs[k] = issuer
    BY <1>1, <2>1, <2>2 DEF IsResponder, Promise!SignedFor
  <2>3. CASE Delegated(r.certs[k], issuer, r.producedAt)
    <3>1. r.certs[k] \in Promise!Elements(r.certs)
      BY DEF Promise!Elements
    <3>2. Promise!Appoints(issuer, r.certs[k], r.producedAt) /\ r.key = r.certs[k].key
      BY <2>1, <2>3 DEF Delegated, Promise!Appoints, IsResponder
    <3> QED BY <1>1, <3>1, <3>2 DEF Promise!SignedFor
  <2> QED BY <2>1, <2>2, <2>3
<1> QED BY <1>2, <1>3 DEF Authentic

LEMMA UsableResponseBacks ==
  ASSUME NEW w \in World, NEW t, NEW k \in DOMAIN Entries(w),
         NEW at \in Positions(w, Entries(w)[k].response),
         Usable(w, t, k, at),
         Entries(w)[k].response.singles[at[2]].status # "unknown"
  PROVE  Promise!Backed(w, t, Said(Entries(w)[k].response.singles[at[2]]))
<1> DEFINE entry == Entries(w)[k]
           r == entry.response
           s == r.singles[at[2]]
           issuer == w.issuers[at[1]]
<1>1. /\ s \in SingleResponse /\ s \in Promise!Elements(r.singles)
      /\ issuer \in Promise!Elements(w.issuers)
  BY SinglesAndIssuers
<1>2. /\ Current(entry, t) /\ r.readable /\ Authentic(r, issuer)
      /\ entry.live => Fresh(s, t)
      /\ Timely(w, r, s) /\ Consistent(s, w.cert)
      /\ issuer.subject = w.cert.issuer
      /\ s.own /\ s.issuerName = issuer.subject /\ s.issuerKey = issuer.key
  BY DEF Usable, IsFirstMatch, Matches
<1>3. s.status \in {"good", "revoked"} /\ s.thisUpdate \in OptionalTime
  BY <1>1 DEF SingleResponse
<1>4. Promise!SignedFor(issuer, r)
  <2> HIDE DEF r, issuer
  <2> QED BY <1>2, AuthenticIsSignedFor
<1>5. Promise!ResponseBacks(w, r, entry.live, t, Said(s))
  <2> HIDE DEF r, issuer, s, entry
  <2>1. 1 <= s.thisUpdate /\ s.thisUpdate <= r.producedAt /\ w.control <= s.thisUpdate
    BY <1>2, <1>3 DEF Timely, OptionalTime
  <2>2. Promise!Covers(w, s)
    BY <1>2 DEF Consistent, Promise!Covers
  <2>3. entry.live => s.thisUpdate <= t /\ t < s.nextUpdate
    BY <1>2 DEF Fresh
  <2>4. Promise!Says(s, Said(s))
    BY <1>3 DEF Promise!Says, Said, Promise!Good, Good, Promise!Revoked, Revoked
  <2> QED BY <1>1, <1>2, <1>4, <2>1, <2>2, <2>3, <2>4 DEF Promise!ResponseBacks
<1> SUFFICES Promise!Backed(w, t, Said(s))
  OBVIOUS
<1> HIDE DEF s
<1>6. CASE \E j \in DOMAIN w.cache : entry = Cached(w.cache[j])
  <2>1. PICK j \in DOMAIN w.cache : entry = Cached(w.cache[j])
    BY <1>6
  <2>2. entry.live = TRUE /\ r = w.cache[j].response /\ entry.validUntil = w.cache[j].validUntil
    BY <2>1 DEF Cached
  <2>3. entry.validUntil > t
    BY <1>2, <2>2 DEF Current
  <2>4. t < w.cache[j].validUntil
    BY <2>2, <2>3
  <2>5. w.cache[j] \in Promise!Elements(w.cache)
    BY DEF Promise!Elements
  <2>6. Promise!ResponseBacks(w, w.cache[j].response, TRUE, t, Said(s))
    BY <1>5, <2>2
  <2> QED BY <2>4, <2>5, <2>6 DEF Promise!Backed
<1>7. CASE \E j \in DOMAIN w.embedded : entry = Embedded(w, w.embedded[j])
  <2>1. PICK j \in DOMAIN w.embedded : entry = Embedded(w, w.embedded[j])
    BY <1>7
  <2>2. entry.live = (w.control = 0) /\ r = w.embedded[j]
    BY <2>1 DEF Embedded
  <2>3. w.embedded[j] \in Promise!Elements(w.embedded)
    BY DEF Promise!Elements
  <2>4. Promise!ResponseBacks(w, w.embedded[j], w.control = 0, t, Said(s))
    BY <1>5, <2>2
  <2> QED BY <2>3, <2>4 DEF Promise!Backed
<1> QED BY <1>6, <1>7, EntryIsCachedOrEmbedded

LEMMA UsableListBacks ==
  ASSUME NEW w \in World, NEW t, NEW k \in DOMAIN Points(w), NEW c \in DOMAIN w.crls,
         UsableList(w, t, k, c)
  PROVE  Promise!Backed(w, t, Lists(w.crls[c].crl))
<1> DEFINE entry == w.crls[c]
           list == entry.crl
<1>1. /\ IsHttp(Points(w)[k]) /\ entry.url = Points(w)[k].url /\ entry.validUntil > t
      /\ list.readable /\ AuthenticCrl(w, list)
      /\ list.nextUpdate = 0 \/ list.nextUpdate > t
  BY DEF UsableList, IsUrl, IsCachedFor
<1>2. entry \in Promise!Elements(w.crls)
  BY DEF Promise!Elements
<1>3. \/ \E point \in Promise!Elements(w.points) : point.scheme # "ldap" /\ point.url = entry.url
      \/ w.cei /\ entry.url = CeiUrl
  <2>1. CASE w.cei /\ \A j \in DOMAIN w.points : ~ IsHttp(w.points[j])
    <3>1. Points(w) = <<[scheme |-> "https", url |-> CeiUrl]>>
      BY <2>1 DEF Points
    <3>2. Points(w)[k].url = CeiUrl
      BY <3>1
    <3> QED BY <1>1, <2>1, <3>2
  <2>2. CASE ~ (w.cei /\ \A j \in DOMAIN w.points : ~ IsHttp(w.points[j]))
    <3>1. Points(w) = w.points
      BY <2>2 DEF Points
    <3>2. w.points[k] \in Promise!Elements(w.points)
      BY <3>1 DEF Promise!Elements
    <3>3. w.points[k].scheme # "ldap" /\ w.points[k].url = entry.url
      BY <1>1, <3>1 DEF IsHttp
    <3> QED BY <3>2, <3>3
  <2> QED BY <2>1, <2>2
<1>4. \E issuer \in Promise!Elements(w.issuers) \cup {w.cert} :
        /\ issuer.subject = w.cert.issuer /\ issuer.subject = list.issuer
        /\ issuer.key = list.key
  <2> HIDE DEF list
  <2>1. CASE Signs(w.cert, w, list)
    BY <2>1 DEF Signs
  <2>2. CASE \E j \in DOMAIN w.issuers : Signs(w.issuers[j], w, list)
    BY <2>2 DEF Signs, Promise!Elements
  <2> QED BY <1>1, <2>1, <2>2 DEF AuthenticCrl
<1>5. t < entry.validUntil /\ (list.nextUpdate = 0 \/ t < list.nextUpdate)
  BY <1>1
<1>6. Lists(list) = IF list.listed THEN Promise!Revoked(list.revokedAt) ELSE Promise!Good
  BY DEF Lists, Promise!Revoked, Revoked, Promise!Good, Good
<1>7. Promise!CrlBacks(w, entry, t, Lists(list))
  BY <1>1, <1>3, <1>4, <1>5, <1>6 DEF Promise!CrlBacks
<1> QED BY <1>2, <1>7 DEF Promise!Backed

LEMMA SameTimes ==
  /\ Promise!World = World
  /\ Promise!NoAnswer = NoAnswer /\ Promise!Unavailable = Unavailable
  /\ Promise!Clock(world, now) = At
<1>1. Promise!Certificate = Certificate /\ Promise!SingleResponse = SingleResponse
  BY DEF Promise!Certificate, Certificate, Promise!SingleResponse, SingleResponse,
         Promise!OptionalTime, OptionalTime, Promise!Time, Time
<1>2. Promise!Response = Response /\ Promise!Crl = Crl
  BY <1>1 DEF Promise!Response, Response, Promise!Crl, Crl,
         Promise!OptionalTime, OptionalTime, Promise!Time, Time
<1>3. Promise!World = World
  BY <1>1, <1>2 DEF Promise!World, World, Promise!OptionalTime, OptionalTime, Promise!Time, Time
<1> QED BY <1>3 DEF Promise!NoAnswer, NoAnswer, Promise!Unavailable, Unavailable,
                    Promise!Clock, Clock, At

LEMMA InitRefines == Init => Promise!Init
<1> SUFFICES ASSUME Init PROVE Promise!Init
  OBVIOUS
<1>1. world \in World
  BY WorldsAssumption DEF Init
<1> QED BY <1>1, SameTimes DEF Init, Promise!Init

\* A check that returns decides, every other step of it stutters.
LEMMA NextRefines ==
  TypeOK /\ [Next]_vars => [Promise!Decide \/ Promise!TimePasses]_(Promise!vars)
<1> SUFFICES ASSUME TypeOK, [Next]_vars
             PROVE  [Promise!Decide \/ Promise!TimePasses]_(Promise!vars)
  OBVIOUS
<1>1. world \in World
  BY DEF TypeOK
<1>2. ASSUME NEW a, Return(a), Promise!Backed(world, At, a) PROVE Promise!Decide
  BY <1>2, SameTimes DEF Return, Promise!Decide
<1>3. Promise!Backed(world, At, Unavailable)
  BY SameTimes DEF Promise!Backed
<1>4. CASE SerialUnreadable \/ NoMoreLists
  BY <1>2, <1>3, <1>4 DEF SerialUnreadable, NoMoreLists
<1>5. CASE \/ StartWithOcsp \/ PassResponse \/ ResponderDoesNotKnow
           \/ NoMoreResponses \/ PassList
  BY <1>5 DEF StartWithOcsp, PassResponse, ResponderDoesNotKnow, NoMoreResponses, PassList,
              Goto, TryNext, Promise!vars
<1>6. CASE UseResponse
  <2>1. next \in DOMAIN Entries(world)
    BY <1>6 DEF UseResponse
  <2>2. PICK at \in Positions(world, Entries(world)[next].response) :
          /\ Usable(world, At, next, at)
          /\ Entries(world)[next].response.singles[at[2]].status # "unknown"
          /\ Return(Said(Entries(world)[next].response.singles[at[2]]))
    BY <1>6 DEF UseResponse
  <2>3. Promise!Backed(world, At, Said(Entries(world)[next].response.singles[at[2]]))
    BY <1>1, <2>1, <2>2, UsableResponseBacks
  <2> QED BY <1>2, <2>2, <2>3
<1>7. CASE UseList
  <2>1. next \in DOMAIN Points(world)
    BY <1>7 DEF UseList
  <2>2. PICK c \in DOMAIN world.crls :
          UsableList(world, At, next, c) /\ Return(Lists(world.crls[c].crl))
    BY <1>7 DEF UseList
  <2>3. Promise!Backed(world, At, Lists(world.crls[c].crl))
    BY <1>1, <2>1, <2>2, UsableListBacks
  <2> QED BY <1>2, <2>2, <2>3
<1>8. CASE CheckLater
  BY <1>8 DEF CheckLater, Promise!TimePasses
<1>9. CASE UNCHANGED vars
  BY <1>9 DEF vars, Promise!vars
<1> QED BY <1>4, <1>5, <1>6, <1>7, <1>8, <1>9 DEF Next, Check

\* The loops of check_ocsp_status and check_certificate_status implement
\* RevocationEvidence: `good' and `revoked' are never answered without evidence
\* that is authentic, about this certificate and not out of date.
THEOREM CheckImplementsRevocationEvidence == Spec => ImplementsRevocationEvidence
<1> QED BY InitRefines, NextRefines, CheckTypeCorrect, PTL
        DEF Spec, ImplementsRevocationEvidence, Promise!Spec

-----------------------------------------------------------------------------
(* What the loops have established when they get somewhere.                *)

LEMMA UsableIsUnique ==
  ASSUME NEW w \in World, NEW t, NEW k \in DOMAIN Entries(w),
         NEW at \in Positions(w, Entries(w)[k].response),
         NEW other \in Positions(w, Entries(w)[k].response),
         Usable(w, t, k, at), Usable(w, t, k, other)
  PROVE  at = other
<1> DEFINE r == Entries(w)[k].response
<1>1. r \in Response
  BY ResponseOfEntry
<1>2. /\ w.issuers \in Seq(Certificate) /\ r.singles \in Seq(SingleResponse)
  BY <1>1 DEF World, Response
<1>3. IsFirstMatch(w, r, at) /\ IsFirstMatch(w, r, other)
  BY DEF Usable
<1> HIDE DEF r
<1>4. DOMAIN w.issuers \subseteq Nat /\ DOMAIN r.singles \subseteq Nat
  BY <1>2, Elements
<1>5. /\ at \in (DOMAIN w.issuers) \X (DOMAIN r.singles)
      /\ other \in (DOMAIN w.issuers) \X (DOMAIN r.singles)
  BY DEF Positions, r
<1>6. /\ at[1] < other[1] \/ (at[1] = other[1] /\ at[2] <= other[2])
      /\ other[1] < at[1] \/ (other[1] = at[1] /\ other[2] <= at[2])
  BY <1>3, <1>5 DEF IsFirstMatch, Positions
<1>7. at[1] = other[1] /\ at[2] = other[2]
  BY <1>4, <1>5, <1>6
<1> QED BY <1>5, <1>7

\* Two responses that decide are the same one.
LEMMA DecidesIsUnique ==
  ASSUME NEW w \in World, NEW t, NEW k \in DOMAIN Entries(w), NEW j \in DOMAIN Entries(w),
         NEW at \in Positions(w, Entries(w)[k].response),
         NEW other \in Positions(w, Entries(w)[j].response),
         Usable(w, t, k, at), \A i \in 1..k - 1 : ~ UsableResponse(w, t, i),
         Decides(w, t, j, other)
  PROVE  k = j /\ at = other
<1>1. k \in Nat \ {0} /\ j \in Nat \ {0}
  <2>1. /\ k \in 1..Len(Entries(w)) /\ j \in 1..Len(Entries(w))
    BY EntriesLength
  <2> QED BY <2>1
<1>2. UsableResponse(w, t, k) /\ UsableResponse(w, t, j) /\ Usable(w, t, j, other)
  BY DEF UsableResponse, Decides
<1>3. ~ (k < j)
  <2> SUFFICES ASSUME k < j PROVE FALSE
    OBVIOUS
  <2>1. k \in 1..j - 1
    BY <1>1
  <2> QED BY <1>2, <2>1 DEF Decides
<1>4. ~ (j < k)
  <2> SUFFICES ASSUME j < k PROVE FALSE
    OBVIOUS
  <2>1. j \in 1..k - 1
    BY <1>1
  <2> QED BY <1>2, <2>1
<1>5. k = j
  BY <1>1, <1>3, <1>4
<1> QED BY <1>2, <1>5, UsableIsUnique

LoopInv ==
  /\ TypeOK
  /\ pc \in {"ocsp", "crl"} => world.serialReadable
  /\ pc = "ocsp" => \A j \in 1..next - 1 : ~ UsableResponse(world, At, j)
  /\ pc = "crl" =>
       /\ NoResponseDecides(world, At)
       /\ \A j \in 1..next - 1, c \in DOMAIN world.crls : ~ UsableList(world, At, j, c)
  /\ UnusableEvidenceIsInert

\* The answer of a check is the outcome of the evidence.
LEMMA ReturnsOutcome ==
  ASSUME LoopInv, Next, pc' = "done"
  PROVE  /\ world' = world /\ now' = now
         /\ Outcome(world, At, answer')
<1>1. world \in World /\ next \in Nat \ {0}
  BY DEF LoopInv, TypeOK
<1>2. /\ Len(Entries(world)) \in Nat /\ DOMAIN Entries(world) = 1..Len(Entries(world))
      /\ Len(Points(world)) \in Nat /\ DOMAIN Points(world) = 1..Len(Points(world))
  BY <1>1, EntriesLength, PointsLength
<1>3. CASE SerialUnreadable
  BY <1>3 DEF SerialUnreadable, Return, Outcome
<1>4. CASE UseResponse
  <2>1. /\ pc = "ocsp" /\ next \in DOMAIN Entries(world) /\ world.serialReadable
        /\ \A j \in 1..next - 1 : ~ UsableResponse(world, At, j)
    BY <1>4 DEF UseResponse, LoopInv
  <2>2. PICK at \in Positions(world, Entries(world)[next].response) :
          /\ Usable(world, At, next, at)
          /\ Entries(world)[next].response.singles[at[2]].status # "unknown"
          /\ Return(Said(Entries(world)[next].response.singles[at[2]]))
    BY <1>4 DEF UseResponse
  <2>3. world' = world /\ now' = now
    BY <2>2 DEF Return
  <2>4. answer' = Said(Entries(world)[next].response.singles[at[2]])
    BY <2>2 DEF Return
  <2>5. DecidesAs(world, At, next, answer')
    BY <2>1, <2>2, <2>4 DEF DecidesAs, Decides
  <2> QED BY <2>1, <2>3, <2>5 DEF Outcome
<1>5. CASE UseList
  <2>1. /\ pc = "crl" /\ next \in DOMAIN Points(world) /\ world.serialReadable
        /\ NoResponseDecides(world, At)
        /\ \A j \in 1..next - 1, c \in DOMAIN world.crls : ~ UsableList(world, At, j, c)
    BY <1>5 DEF UseList, LoopInv
  <2>2. PICK c \in DOMAIN world.crls :
          UsableList(world, At, next, c) /\ Return(Lists(world.crls[c].crl))
    BY <1>5 DEF UseList
  <2>3. world' = world /\ now' = now
    BY <2>2 DEF Return
  <2>4. answer' = Lists(world.crls[c].crl)
    BY <2>2 DEF Return
  <2>5. ListsAs(world, At, next, answer')
    BY <2>1, <2>2, <2>4 DEF ListsAs
  <2> QED BY <2>1, <2>3, <2>5 DEF Outcome
<1>6. CASE NoMoreLists
  <2>1. /\ pc = "crl" /\ next > Len(Points(world)) /\ NoResponseDecides(world, At)
        /\ \A j \in 1..next - 1, c \in DOMAIN world.crls : ~ UsableList(world, At, j, c)
        /\ world' = world /\ now' = now /\ answer' = Unavailable
    BY <1>6 DEF NoMoreLists, Return, LoopInv
  <2>2. \A k \in DOMAIN Points(world) : k \in 1..next - 1
    BY <1>1, <1>2, <2>1
  <2>3. NoListIsUsable(world, At)
    BY <2>1, <2>2 DEF NoListIsUsable
  <2> QED BY <2>1, <2>3 DEF Outcome
<1>7. CASE \/ StartWithOcsp \/ PassResponse \/ ResponderDoesNotKnow
           \/ NoMoreResponses \/ PassList \/ CheckLater
  BY <1>7 DEF StartWithOcsp, PassResponse, ResponderDoesNotKnow, NoMoreResponses, PassList,
              CheckLater, Goto, TryNext
<1> QED BY <1>3, <1>4, <1>5, <1>6, <1>7 DEF Next, Check

LEMMA LoopNext == LoopInv /\ [Next]_vars => LoopInv'
<1> SUFFICES ASSUME LoopInv, [Next]_vars PROVE LoopInv'
  OBVIOUS
<1>1. TypeOK /\ TypeOK' /\ world \in World /\ next \in Nat \ {0}
  BY TypeNext DEF LoopInv, TypeOK
<1>2. /\ Len(Entries(world)) \in Nat /\ DOMAIN Entries(world) = 1..Len(Entries(world))
  BY <1>1, EntriesLength
<1>3. CASE Next /\ pc' = "done"
  <2>1. world' = world /\ now' = now /\ Outcome(world, At, answer')
    BY <1>3, ReturnsOutcome
  <2>2. UnusableEvidenceIsInert'
    BY <2>1 DEF UnusableEvidenceIsInert, At
  <2> QED BY <1>1, <1>3, <2>2 DEF LoopInv
<1>4. CASE StartWithOcsp \/ CheckLater
  BY <1>1, <1>4 DEF StartWithOcsp, CheckLater, Goto, LoopInv, UnusableEvidenceIsInert
<1>5. CASE PassResponse
  <2>1. /\ pc = "ocsp" /\ pc' = "ocsp" /\ world' = world /\ now' = now /\ next' = next + 1
        /\ ~ UsableResponse(world, At, next)
        /\ \A j \in 1..next - 1 : ~ UsableResponse(world, At, j)
    BY <1>5 DEF PassResponse, TryNext, LoopInv
  <2>2. \A j \in 1..next' - 1 : j = next \/ j \in 1..next - 1
    BY <1>1, <2>1
  <2>3. \A j \in 1..next' - 1 : ~ UsableResponse(world, At, j)
    BY <2>1, <2>2
  <2> QED BY <1>1, <2>1, <2>3 DEF LoopInv, At, UnusableEvidenceIsInert
<1>6. ASSUME Goto("crl"), pc = "ocsp", NoResponseDecides(world, At) PROVE LoopInv'
  <2>1. /\ pc' = "crl" /\ world' = world /\ now' = now /\ next' = 1
    BY <1>6 DEF Goto
  <2> QED BY <1>1, <1>6, <2>1 DEF LoopInv, At, UnusableEvidenceIsInert
<1>7. CASE ResponderDoesNotKnow
  <2>1. /\ pc = "ocsp" /\ next \in DOMAIN Entries(world) /\ Goto("crl")
        /\ \A j \in 1..next - 1 : ~ UsableResponse(world, At, j)
    BY <1>7 DEF ResponderDoesNotKnow, LoopInv
  <2>2. PICK at \in Positions(world, Entries(world)[next].response) :
          /\ Usable(world, At, next, at)
          /\ Entries(world)[next].response.singles[at[2]].status = "unknown"
    BY <1>7 DEF ResponderDoesNotKnow
  <2>3. ASSUME NEW k \in DOMAIN Entries(world),
               NEW other \in Positions(world, Entries(world)[k].response),
               Decides(world, At, k, other)
        PROVE  FALSE
    <3>1. next = k /\ at = other
      BY <1>1, <2>1, <2>2, <2>3, DecidesIsUnique
    <3> QED BY <2>2, <2>3, <3>1 DEF Decides
  <2>4. NoResponseDecides(world, At)
    BY <2>3 DEF NoResponseDecides
  <2> QED BY <1>6, <2>1, <2>4
<1>8. CASE NoMoreResponses
  <2>1. /\ pc = "ocsp" /\ next > Len(Entries(world)) /\ Goto("crl")
        /\ \A j \in 1..next - 1 : ~ UsableResponse(world, At, j)
    BY <1>8 DEF NoMoreResponses, LoopInv
  <2>2. \A k \in DOMAIN Entries(world) : k \in 1..next - 1
    BY <1>1, <1>2, <2>1
  <2>3. NoResponseDecides(world, At)
    BY <2>1, <2>2 DEF NoResponseDecides, Decides, UsableResponse
  <2> QED BY <1>6, <2>1, <2>3
<1>9. CASE PassList
  <2>1. /\ pc = "crl" /\ pc' = "crl" /\ world' = world /\ now' = now /\ next' = next + 1
        /\ NoResponseDecides(world, At) /\ world.serialReadable
        /\ \A c \in DOMAIN world.crls : ~ UsableList(world, At, next, c)
        /\ \A j \in 1..next - 1, c \in DOMAIN world.crls : ~ UsableList(world, At, j, c)
    BY <1>9 DEF PassList, TryNext, LoopInv
  <2>2. \A j \in 1..next' - 1 : j = next \/ j \in 1..next - 1
    BY <1>1, <2>1
  <2>3. \A j \in 1..next' - 1, c \in DOMAIN world.crls : ~ UsableList(world, At, j, c)
    BY <2>1, <2>2
  <2> QED BY <1>1, <2>1, <2>3 DEF LoopInv, At, UnusableEvidenceIsInert
<1>10. CASE SerialUnreadable \/ UseResponse \/ UseList \/ NoMoreLists
  <2>1. Next /\ pc' = "done"
    BY <1>10 DEF SerialUnreadable, UseResponse, UseList, NoMoreLists, Return, Next, Check
  <2> QED BY <1>3, <2>1
<1>11. CASE UNCHANGED vars
  BY <1>11 DEF vars, LoopInv, TypeOK, UnusableEvidenceIsInert, At
<1> QED BY <1>4, <1>5, <1>7, <1>8, <1>9, <1>10, <1>11 DEF Next, Check

LEMMA LoopInvariant == Spec => []LoopInv
<1>1. Init => LoopInv
  BY TypeInit DEF Init, LoopInv, UnusableEvidenceIsInert
<1> QED BY <1>1, LoopNext, PTL DEF Spec

\* Whatever evidence there is, the answer of a check is what its first usable
\* piece says; the others do not matter.
THEOREM UnusableEvidenceIsAlwaysInert == Spec => []UnusableEvidenceIsInert
<1>1. LoopInv => UnusableEvidenceIsInert
  BY DEF LoopInv
<1> QED BY <1>1, LoopInvariant, PTL

-----------------------------------------------------------------------------
(* Evidence in the file, with a trusted timestamp.                         *)

\* It does not matter when archived evidence is looked at.
LEMMA ArchivedIsTimeless ==
  ASSUME NEW w \in World, Archived(w), NEW t, NEW u, NEW a, Outcome(w, t, a)
  PROVE  Outcome(w, u, a)
<1>1. \A k \in DOMAIN Entries(w) : Entries(w)[k].live = FALSE
  <2> SUFFICES ASSUME NEW k \in DOMAIN Entries(w) PROVE Entries(w)[k].live = FALSE
    OBVIOUS
  <2>1. w.cache = <<>> /\ w.control # 0
    BY DEF Archived
  <2>2. DOMAIN w.cache = {}
    BY <2>1
  <2>3. PICK j \in DOMAIN w.embedded : Entries(w)[k] = Embedded(w, w.embedded[j])
    BY <2>2, EntryIsCachedOrEmbedded
  <2>4. Entries(w)[k].live = (w.control = 0)
    BY <2>3 DEF Embedded
  <2>5. ~ (w.control = 0)
    BY <2>1
  <2> QED BY <2>4, <2>5
<1>2. \A k \in DOMAIN Entries(w) : \A at : Usable(w, t, k, at) <=> Usable(w, u, k, at)
  BY <1>1 DEF Usable, Current
<1>3. \A k \in DOMAIN Entries(w) : UsableResponse(w, t, k) <=> UsableResponse(w, u, k)
  BY <1>2 DEF UsableResponse
<1>4. \A k \in DOMAIN Entries(w) : \A j \in 1..k - 1 : j \in DOMAIN Entries(w)
  BY EntriesLength
<1>5. \A k \in DOMAIN Entries(w) : \A at : Decides(w, t, k, at) <=> Decides(w, u, k, at)
  BY <1>2, <1>3, <1>4 DEF Decides
<1>6. /\ \A k \in DOMAIN Entries(w) : DecidesAs(w, t, k, a) <=> DecidesAs(w, u, k, a)
      /\ NoResponseDecides(w, t) <=> NoResponseDecides(w, u)
  BY <1>5 DEF DecidesAs, NoResponseDecides
<1>7. DOMAIN w.crls = {}
  BY DEF Archived
<1>8. NoListIsUsable(w, u) /\ \A k : ~ ListsAs(w, t, k, a)
  BY <1>7 DEF NoListIsUsable, ListsAs
<1> QED BY <1>6, <1>8 DEF Outcome

\* And it has one outcome only.
LEMMA ArchivedIsDecided ==
  ASSUME NEW w \in World, Archived(w), NEW t, NEW a, NEW b,
         Outcome(w, t, a), Outcome(w, t, b)
  PROVE  a = b
<1>1. DOMAIN w.crls = {}
  BY DEF Archived
<1>2. \A k, c : ~ ListsAs(w, t, k, c)
  BY <1>1 DEF ListsAs
<1>3. CASE NoResponseDecides(w, t) \/ ~ w.serialReadable
  BY <1>2, <1>3 DEF Outcome, NoResponseDecides, DecidesAs
<1>4. CASE ~ NoResponseDecides(w, t) /\ w.serialReadable
  <2>1. PICK k \in DOMAIN Entries(w) : DecidesAs(w, t, k, a)
    BY <1>2, <1>4 DEF Outcome
  <2>2. PICK j \in DOMAIN Entries(w) : DecidesAs(w, t, j, b)
    BY <1>2, <1>4 DEF Outcome
  <2>3. PICK at \in Positions(w, Entries(w)[k].response) :
          Decides(w, t, k, at) /\ a = Said(Entries(w)[k].response.singles[at[2]])
    BY <2>1 DEF DecidesAs
  <2>4. PICK other \in Positions(w, Entries(w)[j].response) :
          Decides(w, t, j, other) /\ b = Said(Entries(w)[j].response.singles[other[2]])
    BY <2>2 DEF DecidesAs
  <2>5. Usable(w, t, k, at) /\ \A i \in 1..k - 1 : ~ UsableResponse(w, t, i)
    BY <2>3 DEF Decides
  <2>6. k = j /\ at = other
    BY <2>4, <2>5, DecidesIsUnique
  <2> QED BY <2>3, <2>4, <2>6
<1> QED BY <1>3, <1>4

\* The answer is remembered until the next check is over.
ArchiveInv == answer # NoAnswer /\ Archived(world) => Outcome(world, At, answer)

LEMMA ArchiveNext == LoopInv /\ ArchiveInv /\ [Next]_vars => ArchiveInv'
<1> SUFFICES ASSUME LoopInv, ArchiveInv, [Next]_vars PROVE ArchiveInv'
  OBVIOUS
<1>1. world \in World
  BY DEF LoopInv, TypeOK
<1>2. CASE Next /\ pc' = "done"
  <2>1. world' = world /\ now' = now /\ Outcome(world, At, answer')
    BY <1>2, ReturnsOutcome
  <2> QED BY <2>1 DEF ArchiveInv, At
<1>3. CASE CheckLater
  <2>1. world' = world /\ answer' = answer
    BY <1>3 DEF CheckLater
  <2>2. answer # NoAnswer /\ Archived(world) => Outcome(world, Clock(world, now'), answer)
    BY <1>1, ArchivedIsTimeless DEF ArchiveInv
  <2> QED BY <2>1, <2>2 DEF ArchiveInv, At
<1>4. CASE \/ StartWithOcsp \/ PassResponse \/ ResponderDoesNotKnow
           \/ NoMoreResponses \/ PassList
  <2>1. world' = world /\ now' = now /\ answer' = answer
    BY <1>4 DEF StartWithOcsp, PassResponse, ResponderDoesNotKnow, NoMoreResponses, PassList,
                Goto, TryNext
  <2> QED BY <2>1 DEF ArchiveInv, At
<1>5. CASE SerialUnreadable \/ UseResponse \/ UseList \/ NoMoreLists
  <2>1. Next /\ pc' = "done"
    BY <1>5 DEF SerialUnreadable, UseResponse, UseList, NoMoreLists, Return, Next, Check
  <2> QED BY <1>2, <2>1
<1>6. CASE UNCHANGED vars
  BY <1>6 DEF vars, ArchiveInv, At
<1> QED BY <1>3, <1>4, <1>5, <1>6 DEF Next, Check

\* With a trusted timestamp, validating a file again at any later time gives
\* the answer it gave before, as long as only the evidence in it is used.
THEOREM ArchivedEvidenceAlwaysLasts == Spec => ArchivedEvidenceLasts
<1>1. Init => ArchiveInv
  BY DEF Init, ArchiveInv
<1>2. ASSUME LoopInv, ArchiveInv, [Next]_vars
      PROVE  [answer # NoAnswer /\ Archived(world) => answer' = answer]_vars
  <2> SUFFICES ASSUME Next, answer # NoAnswer, Archived(world) PROVE answer' = answer
    BY <1>2
  <2>1. world \in World
    BY <1>2 DEF LoopInv, TypeOK
  <2>2. CASE pc' = "done"
    <3>1. Outcome(world, At, answer')
      BY <1>2, <2>2, ReturnsOutcome
    <3>2. Outcome(world, At, answer)
      BY <1>2 DEF ArchiveInv
    <3> QED BY <2>1, <3>1, <3>2, ArchivedIsDecided
  <2>3. CASE pc' # "done"
    BY <2>3 DEF Next, Check, SerialUnreadable, StartWithOcsp, PassResponse, UseResponse,
                ResponderDoesNotKnow, NoMoreResponses, PassList, UseList, NoMoreLists,
                CheckLater, Goto, TryNext, Return
  <2> QED BY <2>2, <2>3
<1> QED BY <1>1, <1>2, ArchiveNext, LoopInvariant, PTL DEF Spec, ArchivedEvidenceLasts
=============================================================================

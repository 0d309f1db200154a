-------------------------- MODULE TrustedListProofs --------------------------
(***************************************************************************)
(* Proofs about TrustedList: the two filters agree, and the anchors for a  *)
(* past time are those of the services that held a good status then.      *)
(***************************************************************************)
EXTENDS TrustedList, TLAPS

Change == [status : Status, since : Int]

\* A service's record of what it has been, in the order of time.
Record ==
  /\ history \in [Services -> Seq(Change)]
  /\ \A s \in Services :
       /\ Len(history[s]) <= MaxChanges
       /\ \A k \in 1..Len(history[s]) : history[s][k].since <= now
       /\ \A j, k \in 1..Len(history[s]) :
            j <= k => history[s][j].since <= history[s][k].since

Clock ==
  /\ now \in Int /\ fetched \in Int /\ builtFor \in Int
  /\ builtFor <= fetched /\ fetched <= now

\* Anchor sets of a cache, cut to a time before it was fetched.
CacheTells ==
  \A types \in {SignerTypes, TimestampTypes}, time \in Time :
    time < fetched =>
      AnchorsForTime({}, AnchorSets(cache, types), time) = Holders(types, time)

OptionsTell ==
  \A time \in Time :
    time < builtFor =>
      /\ AnchorsForTime({}, options.signer, time) = Holders(SignerTypes, time)
      /\ AnchorsForTime({}, options.timestamp, time) = Holders(TimestampTypes, time)

\* Entries have the times a trusted list can have.
Entries == \A e \in cache : e.from \in Int \cup {None} /\ e.until \in Int \cup {None}

IInv == Record /\ Clock /\ CacheTells /\ OptionsTell /\ Entries

-----------------------------------------------------------------------------
\* An entry's status is good and holds at a time.
Counts(e, types, time) ==
  /\ e.type \in types /\ e.status \in Qualifying
  /\ e.from = None \/ ToUnix(e.from) <= time
  /\ e.until = None \/ time < ToUnix(e.until)

\* What is in the sets of a cache that are cut to a time.
LEMMA CutMembers ==
  ASSUME NEW entries, NEW types, NEW time \in Int, NEW c,
         \A e \in entries : e.from \in Int \cup {None} /\ e.until \in Int \cup {None}
  PROVE  c \in AnchorsForTime({}, AnchorSets(entries, types), time)
           <=> \E e \in entries : Counts(e, types, time) /\ c = e.cert
<1> DEFINE set(e) == [from |-> IF e.from = None THEN None ELSE ToUnix(e.from),
                      until |-> IF e.until = None THEN None ELSE ToUnix(e.until),
                      anchors |-> {e.cert}]
           holds(r) == /\ time # None
                       /\ r.from = None \/ r.from <= time
                       /\ r.until = None \/ time < r.until
           good(e) == e.type \in types /\ e.status \in Qualifying
           sets == AnchorSets(entries, types)
<1>1. sets = {set(e) : e \in {f \in entries : good(f)}}
  BY DEF AnchorSets
<1>2. ASSUME NEW e \in entries
      PROVE  Counts(e, types, time) <=> good(e) /\ holds(set(e))
  BY <1>2, OffsetAssumption, NoneAssumption DEF Counts, ToUnix
<1>3. ASSUME NEW e \in entries PROVE set(e).anchors = {e.cert}
  OBVIOUS
<1>4. AnchorsForTime({}, sets, time) = UNION {r.anchors : r \in {q \in sets : holds(q)}}
  BY DEF AnchorsForTime
<1> HIDE DEF set, holds, good, sets
<1>5. c \in AnchorsForTime({}, sets, time)
        <=> \E r \in sets : holds(r) /\ c \in r.anchors
  BY <1>4
<1>6. c \in AnchorsForTime({}, sets, time)
        <=> \E e \in entries : good(e) /\ holds(set(e)) /\ c \in set(e).anchors
  BY <1>1, <1>5
<1> QED BY <1>2, <1>3, <1>6 DEF sets

\* What the filter of a cache lets through.
LEMMA FilterMembers ==
  ASSUME NEW entries, NEW types, NEW time \in Int, NEW c,
         \A e \in entries : e.from \in Int \cup {None} /\ e.until \in Int \cup {None}
  PROVE  c \in TrustedAnchors(entries, types, time)
           <=> \E e \in entries : Counts(e, types, time) /\ c = e.cert
<1>1. ASSUME NEW e \in entries
      PROVE  Counts(e, types, time) <=> e.type \in types /\ IsTrustedAt(e, ToApple(time))
  BY <1>1, OffsetAssumption, NoneAssumption DEF Counts, IsTrustedAt, ToApple, ToUnix
<1> QED BY <1>1 DEF TrustedAnchors

LEMMA CutIsFilter ==
  ASSUME Entries, NEW types, NEW time \in Int
  PROVE  AnchorsForTime({}, AnchorSets(cache, types), time)
           = TrustedAnchors(cache, types, time)
<1>1. ASSUME NEW c
      PROVE  c \in AnchorsForTime({}, AnchorSets(cache, types), time)
               <=> c \in TrustedAnchors(cache, types, time)
  BY CutMembers, FilterMembers DEF Entries
<1> QED BY <1>1

LEMMA RecordTimes ==
  ASSUME NEW h \in Seq(Change)
  PROVE  Len(h) \in Nat /\ \A k \in 1..Len(h) : h[k].since \in Int
<1>1. ASSUME NEW k \in 1..Len(h) PROVE h[k] \in Change
  OBVIOUS
<1>2. \A x \in Change : x.since \in Int
  BY DEF Change
<1> QED BY <1>1, <1>2

LEMMA SnapshotTimes ==
  ASSUME Record
  PROVE  \A e \in Snapshot : e.from \in Int \cup {None} /\ e.until \in Int \cup {None}
<1>1. ASSUME NEW s \in Services, NEW k \in 1..Len(history[s])
      PROVE  /\ Entry(s, k).from \in Int
             /\ Entry(s, k).until \in Int \cup {None}
  <2>1. history[s] \in Seq(Change)
    BY DEF Record
  <2>2. k # Len(history[s]) => k + 1 \in 1..Len(history[s])
    BY <1>1, <2>1, RecordTimes
  <2> QED BY <1>1, <2>1, <2>2, RecordTimes, OffsetAssumption DEF Entry, ToApple
<1> QED BY <1>1 DEF Snapshot

\* A fresh cache tells the record, up to now.
LEMMA SnapshotTells ==
  ASSUME Record, now \in Int, NEW types, NEW time \in Int
  PROVE  AnchorsForTime({}, AnchorSets(Snapshot, types), time) = Holders(types, time)
<1>1. \A e \in Snapshot : e.from \in Int \cup {None} /\ e.until \in Int \cup {None}
  BY SnapshotTimes
<1>2. ASSUME NEW s \in Services, NEW k \in 1..Len(history[s])
      PROVE  Counts(Entry(s, k), types, time)
               <=> /\ catalog[s].type \in types /\ history[s][k].status \in Qualifying
                   /\ InForce(history[s], k, time)
  <2> DEFINE h == history[s]
  <2>0. h \in Seq(Change) /\ Len(h) \in Nat
    BY DEF Record
  <2>1. \A j \in 1..Len(h) : h[j].since \in Int
    BY <2>0, RecordTimes
  <2>2. \A i, j \in 1..Len(h) : i <= j => h[i].since <= h[j].since
    BY DEF Record
  <2>3. InForce(h, k, time)
          <=> h[k].since <= time /\ (k = Len(h) \/ time < h[k + 1].since)
    <3> HIDE DEF h
    <3> QED BY <1>2, <2>0, <2>1, <2>2 DEF InForce, h
  <2>4. /\ Entry(s, k).type = catalog[s].type
        /\ Entry(s, k).status = h[k].status
        /\ Entry(s, k).from = h[k].since - Offset
        /\ Entry(s, k).until = IF k = Len(h) THEN None ELSE h[k + 1].since - Offset
    BY DEF Entry, ToApple
  <2>5. k # Len(h) => k + 1 \in 1..Len(h)
    BY <1>2, <2>0
  <2> HIDE DEF h
  <2>6. Counts(Entry(s, k), types, time)
          <=> /\ catalog[s].type \in types /\ h[k].status \in Qualifying
              /\ h[k].since <= time /\ (k = Len(h) \/ time < h[k + 1].since)
    BY <1>2, <2>0, <2>1, <2>4, <2>5, OffsetAssumption, NoneAssumption DEF Counts, ToUnix, h
  <2> QED BY <2>3, <2>6 DEF h
<1>3. ASSUME NEW s \in Services, NEW k PROVE Entry(s, k).cert = catalog[s].cert
  BY DEF Entry
<1>4. ASSUME NEW c
      PROVE  (\E e \in Snapshot : Counts(e, types, time) /\ c = e.cert)
               <=> c \in Holders(types, time)
  <2>1. (\E e \in Snapshot : Counts(e, types, time) /\ c = e.cert)
          <=> \E s \in Services : \E k \in 1..Len(history[s]) :
                Counts(Entry(s, k), types, time) /\ c = Entry(s, k).cert
    BY DEF Snapshot
  <2>2. c \in Holders(types, time)
          <=> \E s \in Services : \E k \in 1..Len(history[s]) :
                /\ catalog[s].type \in types /\ history[s][k].status \in Qualifying
                /\ InForce(history[s], k, time) /\ c = catalog[s].cert
    BY DEF Holders
  <2> QED BY <1>2, <1>3, <2>1, <2>2
<1> QED BY <1>1, <1>4, CutMembers

-----------------------------------------------------------------------------
LEMMA Initially == Init => IInv
<1> SUFFICES ASSUME Init PROVE IInv
  OBVIOUS
<1>1. Record
  BY MaxChangesAssumption DEF Init, Record
<1>2. \A time \in Time : ~(time < 0)
  BY MaxTimeAssumption DEF Time
<1> QED BY <1>1, <1>2 DEF Init, IInv, Clock, CacheTells, OptionsTell, Entries

\* What holds a status before now, holds it when something is published.
LEMMA PublishedLater ==
  ASSUME IInv, NEW s \in Services, NEW status \in Status, Publish(s, status)
  PROVE  /\ Record'
         /\ \A types : \A time \in Int :
              time < now => Holders(types, time)' = Holders(types, time)
<1> DEFINE new == [status |-> status, since |-> now]
<1>1. /\ history' = [history EXCEPT ![s] = Append(history[s], new)]
      /\ UNCHANGED <<catalog, now>> /\ Len(history[s]) < MaxChanges
  BY DEF Publish
<1>2. history \in [Services -> Seq(Change)] /\ now \in Int /\ new \in Change
  BY DEF IInv, Record, Clock, Change
<1> HIDE DEF new
<1>3. new.since = now
  BY DEF new
<1>4. /\ history' \in [Services -> Seq(Change)]
      /\ history'[s] = Append(history[s], new)
      /\ \A r \in Services : r # s => history'[r] = history[r]
  BY <1>1, <1>2
<1>5. /\ Len(history'[s]) = Len(history[s]) + 1
      /\ history'[s][Len(history[s]) + 1] = new
      /\ \A k \in 1..Len(history[s]) : history'[s][k] = history[s][k]
  BY <1>2, <1>4
<1>6. \A r \in Services :
        /\ Len(history[r]) \in Nat /\ Len(history[r]) <= MaxChanges
        /\ \A k \in 1..Len(history[r]) : history[r][k].since \in Int /\ history[r][k].since <= now
        /\ \A j, k \in 1..Len(history[r]) :
             j <= k => history[r][j].since <= history[r][k].since
  BY <1>2, RecordTimes DEF IInv, Record
<1>7. Record'
  <2>1. ASSUME NEW r \in Services
        PROVE  /\ Len(history'[r]) <= MaxChanges
               /\ \A k \in 1..Len(history'[r]) : history'[r][k].since <= now
               /\ \A j, k \in 1..Len(history'[r]) :
                    j <= k => history'[r][j].since <= history'[r][k].since
    <3>1. CASE r # s
      BY <1>4, <1>6, <3>1
    <3>2. CASE r = s
      BY <1>1, <1>2, <1>3, <1>5, <1>6, <3>2, MaxChangesAssumption
    <3> QED BY <3>1, <3>2
  <2> QED BY <1>1, <1>4, <2>1 DEF Record
<1>8. ASSUME NEW types, NEW time \in Int, time < now
      PROVE  Holders(types, time)' = Holders(types, time)
  <2> DEFINE good(r) == \E k \in 1..Len(history[r]) :
                 InForce(history[r], k, time) /\ history[r][k].status \in Qualifying
             goodNext(r) == \E k \in 1..Len(history'[r]) :
                 InForce(history'[r], k, time) /\ history'[r][k].status \in Qualifying
  <2>1. ASSUME NEW r \in Services, r # s PROVE goodNext(r) <=> good(r)
    BY <1>4, <2>1
  <2>2. goodNext(s) <=> good(s)
    <3>1. ASSUME NEW k \in 1..Len(history[s])
          PROVE  InForce(history'[s], k, time) <=> InForce(history[s], k, time)
      <4> DEFINE old == history[s]
                 next == history'[s]
                 n == Len(history[s])
      <4>1. /\ n \in Nat /\ k \in 1..n /\ Len(next) = n + 1 /\ Len(old) = n
            /\ next[n + 1].since > time /\ next[k].since = old[k].since
        BY <1>2, <1>3, <1>5, <1>6, <1>8, <3>1
      <4>2. \A j \in 1..n : next[j] = old[j]
        BY <1>5
      <4> HIDE DEF old, next, n
      <4>3. (\A j \in k + 1..n + 1 : next[j].since > time)
              <=> (\A j \in k + 1..n : old[j].since > time)
        BY <4>1, <4>2
      <4>4. InForce(next, k, time) <=> InForce(old, k, time)
        BY <4>1, <4>3 DEF InForce
      <4> QED BY <4>4 DEF old, next
    <3>2. ~ InForce(history'[s], Len(history[s]) + 1, time)
      BY <1>2, <1>3, <1>5, <1>8 DEF InForce
    <3>3. 1..Len(history'[s]) = 1..Len(history[s]) \cup {Len(history[s]) + 1}
      BY <1>5, <1>6
    <3> QED BY <1>5, <3>1, <3>2, <3>3
  <2>3. Holders(types, time)
          = {catalog[r].cert : r \in {q \in Services : catalog[q].type \in types /\ good(q)}}
    BY DEF Holders
  <2>4. Holders(types, time)'
          = {catalog[r].cert : r \in {q \in Services : catalog[q].type \in types /\ goodNext(q)}}
    BY <1>1 DEF Holders
  <2> HIDE DEF good, goodNext
  <2>5. {q \in Services : catalog[q].type \in types /\ goodNext(q)}
          = {q \in Services : catalog[q].type \in types /\ good(q)}
    BY <2>1, <2>2
  <2> QED BY <2>3, <2>4, <2>5
<1> QED BY <1>7, <1>8

LEMMA SameRecord ==
  ASSUME UNCHANGED <<catalog, history>>, NEW types, NEW time
  PROVE  Holders(types, time)' = Holders(types, time)
BY DEF Holders, InForce

LEMMA Step == IInv /\ [Next]_vars => IInv'
<1> SUFFICES ASSUME IInv, [Next]_vars PROVE IInv'
  OBVIOUS
<1> USE DEF Time
<1>1. CASE Tick
  <2>1. /\ now' = now + 1
        /\ UNCHANGED <<catalog, history, cache, fetched, options, builtFor>>
    BY <1>1 DEF Tick
  <2>2. Record'
    <3>1. \A s \in Services : \A k \in 1..Len(history[s]) : history[s][k].since \in Int
      BY RecordTimes DEF IInv, Record
    <3> QED BY <2>1, <3>1 DEF IInv, Record, Clock
  <2>3. CacheTells'
    BY <2>1, SameRecord DEF IInv, CacheTells, AnchorsForTime, AnchorSets
  <2>4. OptionsTell'
    BY <2>1, SameRecord DEF IInv, OptionsTell, AnchorsForTime
  <2> QED BY <2>1, <2>2, <2>3, <2>4 DEF IInv, Clock, Entries
<1>2. ASSUME NEW s \in Services, NEW status \in Status, Publish(s, status)
      PROVE  IInv'
  <2>1. UNCHANGED <<catalog, now, cache, fetched, options, builtFor>>
    BY <1>2 DEF Publish
  <2>2. /\ Record'
        /\ \A types : \A time \in Int : time < now => Holders(types, time)' = Holders(types, time)
    BY <1>2, PublishedLater
  <2>3. CacheTells'
    <3>1. ASSUME NEW types \in {SignerTypes, TimestampTypes}, NEW time \in 0..MaxTime, time < fetched
          PROVE  /\ Holders(types, time)' = Holders(types, time)
                 /\ AnchorsForTime({}, AnchorSets(cache, types), time) = Holders(types, time)
      BY <2>2, <3>1, MaxTimeAssumption DEF IInv, Clock, CacheTells
    <3> QED BY <2>1, <3>1 DEF CacheTells, AnchorsForTime, AnchorSets
  <2>4. OptionsTell'
    <3>1. ASSUME NEW time \in 0..MaxTime, time < builtFor
          PROVE  /\ Holders(SignerTypes, time)' = Holders(SignerTypes, time)
                 /\ Holders(TimestampTypes, time)' = Holders(TimestampTypes, time)
                 /\ AnchorsForTime({}, options.signer, time) = Holders(SignerTypes, time)
                 /\ AnchorsForTime({}, options.timestamp, time) = Holders(TimestampTypes, time)
      BY <2>2, <3>1, MaxTimeAssumption DEF IInv, Clock, OptionsTell
    <3> QED BY <2>1, <3>1 DEF OptionsTell, AnchorsForTime
  <2> QED BY <2>1, <2>2, <2>3, <2>4 DEF IInv, Clock, Entries
<1>3. CASE Refresh
  <2>1. /\ cache' = Snapshot /\ fetched' = now
        /\ UNCHANGED <<catalog, history, now, options, builtFor>>
    BY <1>3 DEF Refresh
  <2>2. \A types, time : Holders(types, time)' = Holders(types, time)
    BY <2>1, SameRecord
  <2>3. CacheTells'
    <3>1. ASSUME NEW types, NEW time \in 0..MaxTime
          PROVE  AnchorsForTime({}, AnchorSets(Snapshot, types), time) = Holders(types, time)
      BY SnapshotTells, MaxTimeAssumption DEF IInv, Clock
    <3> QED BY <2>1, <2>2, <3>1 DEF CacheTells, AnchorsForTime, AnchorSets
  <2>4. Entries'
    BY <2>1, SnapshotTimes DEF IInv, Entries
  <2> QED BY <2>1, <2>2, <2>3, <2>4 DEF IInv, Clock, Record, OptionsTell, AnchorsForTime
<1>4. CASE Configure
  <2>1. /\ options' = [signer |-> AnchorSets(cache, SignerTypes),
                       timestamp |-> AnchorSets(cache, TimestampTypes)]
        /\ builtFor' = fetched
        /\ UNCHANGED <<catalog, history, now, cache, fetched>>
    BY <1>4 DEF Configure
  <2>2. \A types, time : Holders(types, time)' = Holders(types, time)
    BY <2>1, SameRecord
  <2>3. /\ options'.signer = AnchorSets(cache, SignerTypes)
        /\ options'.timestamp = AnchorSets(cache, TimestampTypes)
    BY <2>1
  <2>4. OptionsTell'
    BY <2>1, <2>2, <2>3 DEF IInv, CacheTells, OptionsTell, AnchorsForTime
  <2>5. CacheTells'
    BY <2>1, <2>2 DEF IInv, CacheTells, AnchorsForTime, AnchorSets
  <2>6. Clock'
    BY <2>1 DEF IInv, Clock
  <2>7. Record' /\ Entries'
    BY <2>1 DEF IInv, Record, Entries
  <2> QED BY <2>4, <2>5, <2>6, <2>7 DEF IInv
<1>5. CASE UNCHANGED vars
  <2>1. UNCHANGED <<catalog, history, now, cache, fetched, options, builtFor>>
    BY <1>5 DEF vars
  <2>2. CacheTells'
    BY <2>1, SameRecord DEF IInv, CacheTells, AnchorsForTime, AnchorSets
  <2>3. OptionsTell'
    BY <2>1, SameRecord DEF IInv, OptionsTell, AnchorsForTime
  <2> QED BY <2>1, <2>2, <2>3 DEF IInv, Record, Clock, Entries
<1> QED BY <1>1, <1>2, <1>3, <1>4, <1>5 DEF Next

LEMMA Invariance == Spec => []IInv
BY Initially, Step, PTL DEF Spec

\* With a set of its own in front, AnchorsForTime only adds it.
LEMMA DefaultsApart ==
  ASSUME NEW defaults, NEW sets, NEW time
  PROVE  AnchorsForTime(defaults, sets, time) = defaults \cup AnchorsForTime({}, sets, time)
BY DEF AnchorsForTime

(* The anchors of a past time are the certificates of the services that held
   a good status then (trust_anchors_for_time), for any services, bounds and
   clocks. *)
THEOREM AnchorsAreAlwaysHolders == Spec => []AnchorsAreHolders
<1>1. IInv => AnchorsAreHolders
  BY DefaultsApart DEF IInv, OptionsTell, AnchorsAreHolders, SignerAnchors, TimestampAnchors
<1> QED BY <1>1, Invariance, PTL

(* Anchor sets cut to a time are what the filter of the cache gives for that
   time (eu_trusted_list.rs). *)
THEOREM FiltersAlwaysAgree == Spec => []FiltersAgree
<1>1. IInv => FiltersAgree
  <2> SUFFICES ASSUME IInv PROVE FiltersAgree
    OBVIOUS
  <2>1. \A time \in Time : time \in Int
    BY MaxTimeAssumption DEF Time
  <2> QED BY <2>1, CutIsFilter DEF IInv, FiltersAgree
<1> QED BY <1>1, Invariance, PTL

(* A newer cache never changes the anchors of a time before the older one was
   fetched. *)
THEOREM PastIsAlwaysSettled == Spec => PastIsSettled
<1> DEFINE Settled == \A time \in Time :
             time < builtFor =>
               /\ SignerAnchors(time)' = SignerAnchors(time)
               /\ TimestampAnchors(time)' = TimestampAnchors(time)
<1>1. IInv /\ IInv' /\ [Next]_vars => [Settled]_vars
  <2> SUFFICES ASSUME IInv, IInv', [Next]_vars PROVE Settled
    OBVIOUS
  <2> SUFFICES ASSUME NEW time \in Time, time < builtFor
               PROVE  /\ SignerAnchors(time)' = SignerAnchors(time)
                      /\ TimestampAnchors(time)' = TimestampAnchors(time)
    OBVIOUS
  <2>1. CASE Configure
    <3>1. /\ SignerAnchors(time) = Defaults \cup Holders(SignerTypes, time)
          /\ TimestampAnchors(time) = Holders(TimestampTypes, time)
      BY DefaultsApart DEF IInv, OptionsTell, SignerAnchors, TimestampAnchors
    <3>2. /\ UNCHANGED <<catalog, history>> /\ time < builtFor'
      BY <2>1 DEF Configure, IInv, Clock, Time
    <3>3. /\ SignerAnchors(time)' = Defaults \cup Holders(SignerTypes, time)'
          /\ TimestampAnchors(time)' = Holders(TimestampTypes, time)'
      BY <3>2, DefaultsApart DEF IInv, OptionsTell, SignerAnchors, TimestampAnchors
    <3> QED BY <3>1, <3>2, <3>3, SameRecord
  <2>2. CASE UNCHANGED options
    BY <2>2 DEF SignerAnchors, TimestampAnchors, AnchorsForTime
  <2>3. Configure \/ UNCHANGED options
    BY DEF Next, Tick, Publish, Refresh, Configure, vars
  <2> QED BY <2>1, <2>2, <2>3
<1>2. Spec => [][Settled]_vars
  BY <1>1, Invariance, PTL DEF Spec
<1> QED BY <1>2 DEF PastIsSettled
=============================================================================

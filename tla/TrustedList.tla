----------------------------- MODULE TrustedList -----------------------------
(***************************************************************************)
(* Trust anchors that are good for a time:                                 *)
(* rust/sd_trust_kit/src/eu_trusted_list.rs, the anchor sets of options.rs *)
(* and trust_anchors_for_time of lib.rs, which verify_signature asks for   *)
(* the claimed signing time and the timestamp checks for the time of the   *)
(* token.  Around them: the trusted lists, which record what status a      *)
(* service has had since when, the application that caches them and makes  *)
(* VerificationOptions of its cache.  A validation may use options made of *)
(* an old cache, for a time long past.  Times are integers; the code has   *)
(* floating point numbers of seconds.  Faulty... operators are slips this  *)
(* code could contain; no definition uses them.                            *)
(***************************************************************************)
EXTENDS Integers, Sequences

CONSTANTS
  Services,    \* entries of the trusted lists
  Cert,        \* certificates
  Types,       \* types of services, by the end of their identifier
  Status,      \* what a service may be, by the end of the identifier
  Defaults,    \* anchors the application always trusts
  Offset,      \* seconds from the Unix epoch to the Apple reference date
  None,        \* no time
  MaxTime,     \* bound of the model: the clock stops there
  MaxChanges   \* bound of the model: the statuses one service goes through

ASSUME OffsetAssumption == Offset \in Nat
ASSUME NoneAssumption == None \notin Int
ASSUME MaxTimeAssumption == MaxTime \in Nat
ASSUME MaxChangesAssumption == MaxChanges \in Nat
ASSUME DefaultsAssumption == Defaults \subseteq Cert

VARIABLES
  catalog,   \* what each service is: its certificate and its type
  history,   \* what each service has been since when, the list's own record
  now,
  cache,     \* entries of EuTrustedListCache
  fetched,   \* when they were fetched
  options,   \* signer_trust_anchor_sets and timestamp_trust_anchor_sets
  builtFor   \* when the cache they were made of was fetched

vars == <<catalog, history, now, cache, fetched, options, builtFor>>

SignerTypes == {"CA/QC"}
TimestampTypes == {"TSA/QTST", "TSA/TSS-QC", "TSA/TSS-AdESQCandQES"}
Qualifying ==
  {"granted", "accredited", "recognisedatnationallevel", "undersupervision"}

Time == 0..MaxTime
ToApple(time) == time - Offset
ToUnix(time) == time + Offset

-----------------------------------------------------------------------------
\* The code.

\* Slip: the last second of a status counts twice.
FaultyIsTrustedAt(entry, time) ==
  /\ entry.from = None \/ entry.from <= time
  /\ entry.until = None \/ time <= entry.until
  /\ entry.status \in Qualifying

\* is_trusted_at_apple_reference_time
IsTrustedAt(entry, time) ==
  /\ entry.from = None \/ entry.from <= time
  /\ entry.until = None \/ time < entry.until
  /\ entry.status \in Qualifying

\* trusted_signer_anchors_at_unix_time, trusted_timestamp_anchors_at_unix_time
TrustedAnchors(entries, types, time) ==
  {e.cert : e \in {f \in entries : f.type \in types /\ IsTrustedAt(f, ToApple(time))}}

\* Slip: a status that is over is of no use any more.
FaultyAnchorSets(entries, types) ==
  {[from |-> IF e.from = None THEN None ELSE ToUnix(e.from),
    until |-> None, anchors |-> {e.cert}] :
     e \in {f \in entries : f.type \in types /\ f.status \in Qualifying
                               /\ f.until = None}}

\* signer_trust_anchor_sets, timestamp_trust_anchor_sets and timed_anchor_set
AnchorSets(entries, types) ==
  {[from |-> IF e.from = None THEN None ELSE ToUnix(e.from),
    until |-> IF e.until = None THEN None ELSE ToUnix(e.until),
    anchors |-> {e.cert}] :
     e \in {f \in entries : f.type \in types /\ f.status \in Qualifying}}

\* Slip: both ends of an interval belong to it, as with certificates.
FaultyAnchorsForTime(defaults, sets, time) ==
  defaults \cup
  UNION {s.anchors : s \in {r \in sets :
           /\ time # None
           /\ r.from = None \/ r.from <= time
           /\ r.until = None \/ time <= r.until}}

\* trust_anchors_for_time: without a time only the anchors that need none.
AnchorsForTime(defaults, sets, time) ==
  defaults \cup
  UNION {s.anchors : s \in {r \in sets :
           /\ time # None
           /\ r.from = None \/ r.from <= time
           /\ r.until = None \/ time < r.until}}

-----------------------------------------------------------------------------
\* The lists and the application.

\* One entry for each status a service has had, up to the next one.
Entry(s, k) ==
  [cert |-> catalog[s].cert, type |-> catalog[s].type,
   status |-> history[s][k].status, from |-> ToApple(history[s][k].since),
   until |-> IF k = Len(history[s]) THEN None ELSE ToApple(history[s][k + 1].since)]

Snapshot == UNION {{Entry(s, k) : k \in 1..Len(history[s])} : s \in Services}

Init ==
  /\ catalog \in [Services -> [cert : Cert, type : Types]]
  /\ history = [s \in Services |-> <<>>]
  /\ now = 0
  /\ cache = {} /\ fetched = 0
  /\ options = [signer |-> {}, timestamp |-> {}] /\ builtFor = 0

Tick ==
  /\ now < MaxTime
  /\ now' = now + 1
  /\ UNCHANGED <<catalog, history, cache, fetched, options, builtFor>>

\* A service gets a status, from now on.
Publish(s, status) ==
  /\ Len(history[s]) < MaxChanges
  /\ history' = [history EXCEPT ![s] = Append(@, [status |-> status, since |-> now])]
  /\ UNCHANGED <<catalog, now, cache, fetched, options, builtFor>>

Refresh ==
  /\ cache' = Snapshot
  /\ fetched' = now
  /\ UNCHANGED <<catalog, history, now, options, builtFor>>

\* The options of the validations to come, full_fixture_verification_options.
Configure ==
  /\ options' = [signer |-> AnchorSets(cache, SignerTypes),
                 timestamp |-> AnchorSets(cache, TimestampTypes)]
  /\ builtFor' = fetched
  /\ UNCHANGED <<catalog, history, now, cache, fetched>>

Next ==
  \/ Tick
  \/ \E s \in Services, status \in Status : Publish(s, status)
  \/ Refresh
  \/ Configure

Spec == Init /\ [][Next]_vars

-----------------------------------------------------------------------------
\* The status a service has at a time is the last it got up to then.
InForce(h, k, time) ==
  /\ h[k].since <= time
  /\ \A j \in k + 1..Len(h) : h[j].since > time

\* The certificates of the services that hold a good status at a time.
Holders(types, time) ==
  {catalog[s].cert : s \in {r \in Services :
     /\ catalog[r].type \in types
     /\ \E k \in 1..Len(history[r]) :
          InForce(history[r], k, time) /\ history[r][k].status \in Qualifying}}

SignerAnchors(time) == AnchorsForTime(Defaults, options.signer, time)
TimestampAnchors(time) == AnchorsForTime({}, options.timestamp, time)

(* For every time before the cache was fetched, a signature and a timestamp
   are measured by the anchors of exactly the services that held a good
   status at that time: at the moment a status changes neither both nor none
   of the two counts, whatever happened to the service since
   (trust_anchors_for_time). *)
AnchorsAreHolders ==
  \A time \in Time :
    time < builtFor =>
      /\ SignerAnchors(time) = Defaults \cup Holders(SignerTypes, time)
      /\ TimestampAnchors(time) = Holders(TimestampTypes, time)

(* The two filters of the cache, by anchor sets that are cut to a time later
   and by a time given at once, agree at every time, after conversion
   between the two calendars (eu_trusted_list.rs, lib.rs). *)
FiltersAgree ==
  \A types \in {SignerTypes, TimestampTypes}, time \in Time :
    AnchorsForTime({}, AnchorSets(cache, types), time) = TrustedAnchors(cache, types, time)

(* Whoever validated with a cache and refreshes it gets the same anchors for
   every time before the first fetch: a later loss of status does not reach
   back to the signatures that were made before. *)
PastIsSettled ==
  [][\A time \in Time :
       time < builtFor =>
         /\ SignerAnchors(time)' = SignerAnchors(time)
         /\ TimestampAnchors(time)' = TimestampAnchors(time)]_vars
=============================================================================

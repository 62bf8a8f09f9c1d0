----------------------------- MODULE RateWindow -----------------------------
(***************************************************************************)
(* The sliding windows of the abuse protection (api/security/              *)
(* rate-limit.service.ts, rate-limit.ts and rate-limit.middleware.ts).  A  *)
(* protected request counts against a window shared by all and against     *)
(* the one of its code.  Redis runs the decision as one script, which      *)
(* every replica shares and which may run after the replica gave up; the   *)
(* memory of a single replica decides in one turn of the event loop and    *)
(* evicts its oldest bucket at the limit.  A behaviour has one mode.       *)
(***************************************************************************)
EXTENDS Naturals, FiniteSets

CONSTANTS RateCalls,  \* requests in flight
          Codes,      \* subjects of the second rule of a request
          RateLimit,  \* a function: the limit of "global" and of each code
          Window,     \* windowMs, in ticks; the rules of a request may share it
          MaxBuckets, \* maximumBuckets
          MaxClock, MaxDecided, \* bounds of the model
          NoScript

VARIABLES store,     \* "memory" or "redis"
          clock,
          buckets,   \* the buckets of the store: their members, and when last seen
          script,    \* the request each call has sent to Redis
          decided,   \* the admissions of the last window
          forgotten  \* the keys whose bucket was evicted

rateVars == <<store, clock, buckets, script, decided, forgotten>>

RateKeys == {"global"} \cup Codes
ASSUME RateAssumption ==
  /\ "global" \notin Codes /\ RateLimit \in [RateKeys -> Nat]
  /\ Window \in Nat \ {0} /\ MaxBuckets \in Nat \ {0} /\ MaxClock \in Nat

\* An admission, which is a member of the bucket of each of its rules: the script adds
\* one randomUUID to all its keys; nth tells those of a tick apart.
Members == [code : Codes, at : 0..MaxClock, nth : Nat]
Bucket == [stamps : SUBSET Members, seen : 0..MaxClock]

RateTypeOK ==
  /\ store \in {"memory", "redis"} /\ clock \in 0..MaxClock
  /\ DOMAIN buckets \subseteq RateKeys /\ \A k \in DOMAIN buckets : buckets[k] \in Bucket
  /\ script \in [RateCalls -> [code : Codes, late : BOOLEAN] \cup {NoScript}]
  /\ decided \subseteq Members
  /\ forgotten \subseteq RateKeys

RateInit ==
  /\ store \in {"memory", "redis"} /\ clock = 0
  /\ buckets = [k \in {} |-> 0]
  /\ script = [c \in RateCalls |-> NoScript]
  /\ decided = {} /\ forgotten = {}

InWindow(t) == t + Window > clock
LiveStamps(b, k) == IF k \in DOMAIN b THEN {m \in b[k].stamps : InWindow(m.at)} ELSE {}

\* Mutant: the request that reaches the limit is let through.
FullByOne(b, k) == Cardinality(LiveStamps(b, k)) > RateLimit[k]

\* timestamps.length >= rule.limit; count >= limit in the script.
Full(b, k) == Cardinality(LiveStamps(b, k)) >= RateLimit[k]

Admission(code) ==
  [code |-> code, at |-> clock, nth |-> Cardinality({d \in decided : d.at = clock})]

Stamped(b, keys, m) ==
  [k \in DOMAIN b \cup keys |->
     IF k \in keys THEN [stamps |-> LiveStamps(b, k) \cup {m}, seen |-> clock] ELSE b[k]]

\* The bound only matters to a memory store that evicts what it counted.
Admit(code) ==
  /\ decided' = {d \in decided : InWindow(d.at)} \cup {Admission(code)}
  /\ Cardinality(decided') <= MaxDecided

-----------------------------------------------------------------------------
SendScript(c, code) ==
  /\ store = "redis" /\ script[c] = NoScript
  /\ script' = [script EXCEPT ![c] = [code |-> code, late |-> FALSE]]
  /\ UNCHANGED <<store, clock, buckets, decided, forgotten>>

\* withTimeout: the caller answers 503, the command stays sent.
GiveUpScript(c) ==
  /\ script[c] # NoScript /\ ~script[c].late
  /\ script' = [script EXCEPT ![c].late = TRUE]
  /\ UNCHANGED <<store, clock, buckets, decided, forgotten>>

\* Mutant: the script adds to the keys it has passed before it finds a full one.
RunScriptEager(c) ==
  /\ script[c] # NoScript
  /\ LET code == script[c].code IN
     IF Full(buckets, "global") THEN UNCHANGED <<buckets, decided>>
     ELSE IF Full(buckets, code)
     THEN buckets' = Stamped(buckets, {"global"}, Admission(code)) /\ UNCHANGED decided
     ELSE buckets' = Stamped(buckets, {"global", code}, Admission(code)) /\ Admit(code)
  /\ script' = [script EXCEPT ![c] = NoScript]
  /\ UNCHANGED <<store, clock, forgotten>>

\* The script counts a request on both keys or on none.
RunScript(c) ==
  /\ script[c] # NoScript
  /\ LET code == script[c].code IN
     IF \E k \in {"global", code} : Full(buckets, k)
     THEN UNCHANGED <<buckets, decided>>
     ELSE buckets' = Stamped(buckets, {"global", code}, Admission(code)) /\ Admit(code)
  /\ script' = [script EXCEPT ![c] = NoScript]
  /\ UNCHANGED <<store, clock, forgotten>>

\* The command is lost with the connection.
LoseScript(c) ==
  /\ script[c] # NoScript
  /\ script' = [script EXCEPT ![c] = NoScript]
  /\ UNCHANGED <<store, clock, buckets, decided, forgotten>>

Pruned == [k \in {k \in DOMAIN buckets : LiveStamps(buckets, k) # {} \/ InWindow(buckets[k].seen)} |->
             [buckets[k] EXCEPT !.stamps = LiveStamps(buckets, k)]]

Evictable(b) == {k \in DOMAIN b : \A j \in DOMAIN b : b[k].seen <= b[j].seen}

\* Mutant: a new bucket evicts none.
WithBucketMore(b, k) ==
  {[j \in DOMAIN b \cup {k} |-> IF j \in DOMAIN b THEN b[j] ELSE [stamps |-> {}, seen |-> clock]]}

\* The maps bucket() may leave: among the oldest the first inserted is evicted,
\* which the model leaves open.
WithBucket(b, k) ==
  IF k \in DOMAIN b THEN {b} ELSE
  {[j \in keep \cup {k} |-> IF j = k THEN [stamps |-> {}, seen |-> clock] ELSE b[j]] :
     keep \in IF Cardinality(DOMAIN b) < MaxBuckets THEN {DOMAIN b}
              ELSE {DOMAIN b \ {k2} : k2 \in Evictable(b)}}

\* The bucket of the code may evict the global one after it was looked up: the
\* stamp then goes to a bucket that is in the map no more.
ConsumeInMemory(code) ==
  /\ store = "memory"
  /\ \E b1 \in WithBucket(Pruned, "global") : \E b2 \in WithBucket(b1, code) :
       /\ IF Full(b1, "global") \/ Full(b2, code)
          THEN buckets' = b2 /\ UNCHANGED decided
          ELSE buckets' = Stamped(b2, {"global", code} \cap DOMAIN b2, Admission(code)) /\ Admit(code)
       /\ forgotten' = forgotten \cup (DOMAIN Pruned \ DOMAIN b1) \cup (DOMAIN b1 \ DOMAIN b2)
  /\ UNCHANGED <<store, clock, script>>

\* A restart of the replica empties its memory.
RestartReplica ==
  /\ store = "memory"
  /\ buckets' = [k \in {} |-> 0] /\ decided' = {}
  /\ UNCHANGED <<store, clock, script, forgotten>>

TickClock ==
  /\ clock < MaxClock
  /\ clock' = clock + 1
  /\ UNCHANGED <<store, buckets, script, decided, forgotten>>

RateNext ==
  \/ \E c \in RateCalls : \/ \E code \in Codes : SendScript(c, code)
                          \/ GiveUpScript(c) \/ RunScript(c) \/ LoseScript(c)
  \/ \E code \in Codes : ConsumeInMemory(code)
  \/ RestartReplica \/ TickClock

-----------------------------------------------------------------------------
(* Properties *)

Admissions(k) == {d \in decided : InWindow(d.at) /\ k \in {"global", d.code}}

\* No window of any key ever holds more admissions than its limit, whichever
\* replica asked and however late its command ran; the memory of a replica
\* promises it for the buckets it did not have to evict.
WindowHolds == \A k \in RateKeys \ forgotten : Cardinality(Admissions(k)) <= RateLimit[k]

\* A refused request costs nothing: each key counts exactly its admissions.
CountsAreAdmissions == \A k \in RateKeys \ forgotten :
  LiveStamps(buckets, k) = Admissions(k)

\* The memory store never grows over its limit.
BucketsBounded == store = "memory" => Cardinality(DOMAIN buckets) <= MaxBuckets

\* The counts of the limiter are the admissions it gave, never more than the limit,
\* and its memory is bounded, whatever is evicted, lost or late.
AdmissionsAreCounted == WindowHolds /\ CountsAreAdmissions /\ BucketsBounded
=============================================================================

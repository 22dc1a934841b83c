------------------------------ MODULE RateLimiter ------------------------------
(***************************************************************************)
(* The rate limiter of the API worker: one token bucket per org in a       *)
(* Durable Object, asked twice at most, and a smaller bucket in the memory *)
(* of each isolate for when it does not answer.                            *)
(*                                                                         *)
(* Tokens are counted in the time it takes to earn them: a token costs     *)
(* 60 s / perMinute, and since burst = perMinute everywhere a full bucket  *)
(* is worth one minute at any rate.  The object answers before its write   *)
(* is stored, may be evicted at any time, and its answer may be lost; an   *)
(* isolate may be recycled at any time.  Clocks agree and do not run back. *)
(***************************************************************************)
EXTENDS Integers, FiniteSets

CONSTANTS
  Isolate, Org,
  Minute,      \* 60 s, in ticks
  Second,      \* 1 s, the grain of Retry-After
  PerMinute,   \* RATE_SUBMIT_PER_MIN or RATE_POLL_PER_MIN
  Percent,     \* RATE_DEGRADED_PERCENT
  IdleTime,    \* FALLBACK_IDLE_MS
  MaxEntries,  \* FALLBACK_MAX_ENTRIES
  None,        \* no state: asleep, nothing stored, no entry, no promise
  Start,       \* when the counting starts, in the middle of an object's life
  Horizon,     \* where time stops
  MaxCalls     \* requests ever sent

\* degradedConfig: a share of the budget, and one token at least.
DegradedPerMinute ==
  LET share == (PerMinute * Percent) \div 100 IN IF share >= 1 THEN share ELSE 1

\* What a token costs: on a multiple of the tick, as the constants are chosen.
Cost == Minute \div PerMinute
DegradedCost == Minute \div DegradedPerMinute

ASSUME LimiterAssumption ==
  /\ Minute \in Nat \ {0} /\ Second \in Nat \ {0}
  /\ PerMinute \in 1..Minute /\ Percent \in 0..100
  /\ IdleTime \in Nat /\ IdleTime >= Minute
  /\ MaxEntries \in Nat /\ Horizon \in Nat /\ Start \in 0..Horizon
  /\ MaxCalls \in Nat
  /\ None \notin Nat /\ None \notin [tokens : Nat, updatedAt : Nat]

ASSUME CostAssumption == Cost \in 1..Minute /\ DegradedCost \in 1..Minute

VARIABLES
  now,
  object,    \* TokenBucket.state of an org: its bucket, or asleep
  disk,      \* what is stored of it
  unsaved,   \* worth of the tokens granted since that was written
  fallback,  \* fallbackBuckets of an isolate
  call,      \* the request an isolate is asking for
  begun,
  granted,   \* worth of the tokens an org's object granted, less those that were
             \* given back by an eviction
  grantedHere, \* worth of the tokens an isolate granted to an org in this life
  promise    \* when an org was told to come back, if nothing was granted since

vars == <<now, object, disk, unsaved, fallback, call, begun,
          granted, grantedHere, promise>>
history == <<granted, grantedHere, promise>>

BucketState == [tokens : 0..Minute, updatedAt : 0..Horizon]

Call == [at : {"idle", "ask", "decided", "fallback"}, org : Org \cup {None},
         attempt : 0..2, allowed : BOOLEAN]

Idle == [at |-> "idle", org |-> None, attempt |-> 0, allowed |-> FALSE]

--------------------------------------------------------------------------------
(* bucket.ts                                                               *)

Least(a, b) == IF a <= b THEN a ELSE b

\* initialState: the whole burst.
InitialState(t) == [tokens |-> Minute, updatedAt |-> t]

\* Mutant: time is earned without a ceiling.
RefilledUncapped(state, t) == state.tokens + (t - state.updatedAt)

\* What a bucket holds at time t.
Refilled(state, t) == Least(Minute, state.tokens + (t - state.updatedAt))

Allowed(state, cost, t) == Refilled(state, t) >= cost

\* Mutant: a refusal brings the time up to date and not the tokens.
TakenDripLost(state, cost, t) ==
  [tokens |-> IF Allowed(state, cost, t) THEN Refilled(state, t) - cost ELSE state.tokens,
   updatedAt |-> t]

\* take: the state it leaves, whether it allows or refuses.
Taken(state, cost, t) ==
  [tokens |-> IF Allowed(state, cost, t) THEN Refilled(state, t) - cost
                                         ELSE Refilled(state, t),
   updatedAt |-> t]

\* retryAfterSeconds: the deficit in whole seconds, rounded up.
RetryAfter(state, cost, t) ==
  Second * ((cost - Refilled(state, t) + Second - 1) \div Second)

--------------------------------------------------------------------------------
\* An org's object is new, or asleep with whatever an earlier day left on its disk.
Init ==
  /\ now = Start
  /\ object = [o \in Org |-> None]
  /\ disk \in [Org -> [tokens : 0..Minute, updatedAt : 0..Start] \cup {None}]
  /\ unsaved = [o \in Org |-> 0]
  /\ fallback = [i \in Isolate |-> [o \in Org |-> None]]
  /\ call = [i \in Isolate |-> Idle]
  /\ begun = 0
  /\ granted = [o \in Org |-> 0]
  /\ grantedHere = [i \in Isolate |-> [o \in Org |-> 0]]
  /\ promise = [o \in Org |-> None]

\* The request of an authenticated caller reaches consume.
Arrive(i, o) ==
  /\ call[i].at = "idle"
  /\ begun < MaxCalls
  /\ begun' = begun + 1
  /\ call' = [call EXCEPT ![i] = [at |-> "ask", org |-> o, attempt |-> 0, allowed |-> FALSE]]
  /\ UNCHANGED <<now, object, disk, unsaved, fallback, history>>

--------------------------------------------------------------------------------
(* do/token-bucket.ts                                                      *)

\* The bucket in memory, read from the disk when the object has just woken up.
Loaded(o) ==
  IF object[o] # None THEN object[o]
  ELSE IF disk[o] # None THEN disk[o] ELSE InitialState(now)

\* TokenBucket.fetch: single threaded, and behind the input gate while it reads.
Decide(i) ==
  LET o == call[i].org
      allowed == Allowed(Loaded(o), Cost, now) IN
  /\ call[i].at = "ask"
  /\ object' = [object EXCEPT ![o] = Taken(Loaded(o), Cost, now)]
  /\ call' = [call EXCEPT ![i].at = "decided", ![i].allowed = allowed]
  /\ unsaved' = [unsaved EXCEPT ![o] = IF allowed THEN @ + Cost ELSE @]
  /\ granted' = [granted EXCEPT ![o] = IF allowed THEN @ + Cost ELSE @]
  /\ promise' = [promise EXCEPT ![o] =
                   IF allowed THEN None
                   ELSE IF @ # None THEN @ ELSE now + RetryAfter(Loaded(o), Cost, now)]
  /\ UNCHANGED <<now, disk, fallback, begun, grantedHere>>

\* The write that was not waited for lands.
WriteLands(o) ==
  /\ object[o] # None /\ object[o] # disk[o]
  /\ disk' = [disk EXCEPT ![o] = object[o]]
  /\ unsaved' = [unsaved EXCEPT ![o] = 0]
  /\ UNCHANGED <<now, object, fallback, call, begun, history>>

\* Mutant: the object is given up with its storage.
ObjectEvictedWhole(o) ==
  /\ object[o] # None /\ object[o] # disk[o]
  /\ object' = [object EXCEPT ![o] = None]
  /\ disk' = [disk EXCEPT ![o] = None]
  /\ granted' = [granted EXCEPT ![o] = @ - unsaved[o]]
  /\ unsaved' = [unsaved EXCEPT ![o] = 0]
  /\ UNCHANGED <<now, fallback, call, begun, grantedHere, promise>>

\* The object is evicted, relocated or crashes, and with it what had not landed; if
\* all had, it wakes up to the same bucket, and the step is left out.
ObjectEvicted(o) ==
  /\ object[o] # None /\ object[o] # disk[o]
  /\ object' = [object EXCEPT ![o] = None]
  /\ granted' = [granted EXCEPT ![o] = @ - unsaved[o]]
  /\ unsaved' = [unsaved EXCEPT ![o] = 0]
  /\ UNCHANGED <<now, disk, fallback, call, begun, grantedHere, promise>>

--------------------------------------------------------------------------------
(* ratelimit.ts                                                            *)

\* A decision arrives: through, or 429.
AnswerArrives(i) ==
  LET r == call[i] IN
  /\ r.at = "decided"
  /\ call' = [call EXCEPT ![i] = Idle]
  /\ UNCHANGED <<now, object, disk, unsaved, fallback, begun, history>>

\* The stub throws, the object answers no 2xx or no decision, or its answer is
\* lost; the second time, the isolate decides.
AskFails(i) ==
  LET r == call[i] IN
  /\ r.at \in {"ask", "decided"}
  /\ call' = [call EXCEPT ![i].at = IF r.attempt = 0 THEN "ask" ELSE "fallback",
                          ![i].attempt = @ + 1, ![i].allowed = FALSE]
  /\ UNCHANGED <<now, object, disk, unsaved, fallback, begun, history>>

Tracked(map) == {o \in Org : map[o] # None}

\* Mutant: whatever is in the way is evicted.
StaleAll(state) == TRUE

Stale(state) == now - state.updatedAt >= IdleTime

\* rememberFallback: idle entries go if the map is full and the org is not in it.
Swept(map, o) ==
  [q \in Org |->
     IF /\ map[o] = None /\ Cardinality(Tracked(map)) >= MaxEntries
        /\ map[q] # None /\ Stale(map[q])
     THEN None ELSE map[q]]

HasRoom(map, o) == map[o] # None \/ Cardinality(Tracked(map)) < MaxEntries

\* The isolate's own bucket, in one go: nothing is awaited.  An org that finds no
\* room is refused.
FallBack(i) ==
  LET o     == call[i].org
      map   == Swept(fallback[i], o)
      state == IF map[o] # None THEN map[o] ELSE InitialState(now)
      allowed == HasRoom(map, o) /\ Allowed(state, DegradedCost, now)
  IN
  /\ call[i].at = "fallback"
  /\ call' = [call EXCEPT ![i] = Idle]
  /\ fallback' = [fallback EXCEPT ![i] =
                    IF HasRoom(map, o)
                    THEN [map EXCEPT ![o] = Taken(state, DegradedCost, now)] ELSE map]
  /\ grantedHere' = [grantedHere EXCEPT ![i][o] = IF allowed THEN @ + DegradedCost ELSE @]
  /\ UNCHANGED <<now, object, disk, unsaved, begun, granted, promise>>

\* An isolate is recycled, under its request if need be.
Recycle(i) ==
  /\ fallback' = [fallback EXCEPT ![i] = [o \in Org |-> None]]
  /\ grantedHere' = [grantedHere EXCEPT ![i] = [o \in Org |-> 0]]
  /\ call' = [call EXCEPT ![i] = Idle]
  /\ UNCHANGED <<now, object, disk, unsaved, begun, granted, promise>>

Tick ==
  /\ now < Horizon
  /\ now' = now + 1
  /\ UNCHANGED <<object, disk, unsaved, fallback, call, begun, history>>

Next ==
  \/ \E i \in Isolate :
        \/ Decide(i) \/ AnswerArrives(i) \/ AskFails(i) \/ FallBack(i) \/ Recycle(i)
        \/ \E o \in Org : Arrive(i, o)
  \/ \E o \in Org : WriteLands(o) \/ ObjectEvicted(o)
  \/ Tick

Spec == Init /\ [][Next]_vars

--------------------------------------------------------------------------------
TypeOK ==
  /\ now \in 0..Horizon
  /\ object \in [Org -> BucketState \cup {None}]
  /\ disk \in [Org -> BucketState \cup {None}]
  /\ unsaved \in [Org -> Nat]
  /\ fallback \in [Isolate -> [Org -> BucketState \cup {None}]]
  /\ call \in [Isolate -> Call]
  /\ begun \in 0..MaxCalls
  /\ granted \in [Org -> Int]
  /\ grantedHere \in [Isolate -> [Org -> Nat]]
  /\ promise \in [Org -> Nat \cup {None}]

\* From any moment on, an org's object grants a burst and what time earns, however
\* many isolates ask it and however often.  An eviction gives back the tokens whose
\* write had not landed, and nothing else.
GrantsBounded == \A o \in Org : granted[o] <= Minute + (now - Start)

\* An isolate that decides by itself grants an org one degraded burst and what time
\* earns: evicting an idle entry grants nothing that keeping it would have refused.
FallbackBounded ==
  \A i \in Isolate, o \in Org : grantedHere[i][o] <= Minute + (now - Start)

\* Retry-After is true: a caller who comes back as told finds a token, if nobody was
\* granted one since, however many were refused meanwhile and whatever was evicted.
RetryAfterKept ==
  \A o \in Org :
     promise[o] # None /\ now >= promise[o] => Allowed(Loaded(o), Cost, now)
================================================================================

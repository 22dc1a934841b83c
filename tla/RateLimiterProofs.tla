---------------------------- MODULE RateLimiterProofs ----------------------------
(***************************************************************************)
(* The rate limiter for any rates, isolates, orgs and requests.  Each       *)
(* bucket is followed by its value now, which time raises to a minute's     *)
(* worth and a grant lowers by what it costs: what was granted and what is  *)
(* left never exceed a burst and the time since the start.  What is stored  *)
(* lags behind by the grants not yet written, so that an eviction gives     *)
(* back those and no others, and never takes a token away.                  *)
(***************************************************************************)
EXTENDS RateLimiter, TLAPS

\* A bucket, or the lack of one, which is worth a whole burst.
Stored == BucketState \cup {None}

ValueAt(s, t) == IF s = None THEN Minute ELSE Refilled(s, t)

InMemory(o) == IF object[o] # None THEN object[o] ELSE disk[o]

Written(s) == s = None \/ s.updatedAt <= now

Earned == Minute + (now - Start)

--------------------------------------------------------------------------------
Types ==
  /\ TypeOK
  /\ Start <= now
  /\ \A i \in Isolate :
        /\ call[i].at # "idle" => call[i].org \in Org
        /\ call[i].at \in {"ask", "decided"} => call[i].attempt <= 1

Dated ==
  /\ \A o \in Org : Written(object[o]) /\ Written(disk[o])
  /\ \A i \in Isolate, o \in Org : Written(fallback[i][o])

\* The object of an org: what it granted and what it has left, what is stored of it,
\* and what it has promised.
OrgInv(o) ==
  /\ granted[o] + ValueAt(InMemory(o), now) <= Earned
  /\ ValueAt(InMemory(o), now) <= ValueAt(disk[o], now)
  /\ ValueAt(disk[o], now) <= ValueAt(InMemory(o), now) + unsaved[o]
  /\ promise[o] # None =>
        \/ ValueAt(InMemory(o), now) >= Cost
        \/ ValueAt(InMemory(o), now) + (promise[o] - now) >= Cost

\* The bucket an isolate keeps for it.
IsolateInv(i, o) == grantedHere[i][o] + ValueAt(fallback[i][o], now) <= Earned

IInv ==
  /\ Types /\ Dated
  /\ \A o \in Org : OrgInv(o)
  /\ \A i \in Isolate, o \in Org : IsolateInv(i, o)

--------------------------------------------------------------------------------
(* One bucket.                                                             *)

\* None is no bucket.
LEMMA NoneIsNoBucket == None \notin BucketState
  BY LimiterAssumption DEF BucketState

\* A bucket is worth between nothing and a minute.
LEMMA ValueBounds ==
  ASSUME NEW s \in Stored, NEW t \in Nat, s = None \/ s.updatedAt <= t
  PROVE  ValueAt(s, t) \in 0..Minute
<1>1. CASE s = None
  BY <1>1, LimiterAssumption DEF ValueAt
<1>2. CASE s # None
  <2>1. s.tokens \in 0..Minute /\ s.updatedAt \in Nat /\ s.updatedAt <= t
    BY <1>2, LimiterAssumption DEF Stored, BucketState
  <2> QED
    BY <1>2, <2>1, LimiterAssumption DEF ValueAt, Refilled, Least
<1> QED
  BY <1>1, <1>2

\* A tick earns a tick, short of the ceiling.
LEMMA ValueTick ==
  ASSUME NEW s \in Stored, NEW t \in Nat, s = None \/ s.updatedAt <= t
  PROVE  ValueAt(s, t + 1) = Least(Minute, ValueAt(s, t) + 1)
<1>1. CASE s = None
  BY <1>1, LimiterAssumption DEF ValueAt, Least
<1>2. CASE s # None
  <2>1. s.tokens \in 0..Minute /\ s.updatedAt \in Nat /\ s.updatedAt <= t
    BY <1>2, LimiterAssumption DEF Stored, BucketState
  <2> QED
    BY <1>2, <2>1, LimiterAssumption DEF ValueAt, Refilled, Least
<1> QED
  BY <1>1, <1>2

\* A bucket nobody touched for a minute is worth no more than none at all.
LEMMA ValueStale ==
  ASSUME NEW s \in BucketState, NEW t \in Nat, t - s.updatedAt >= IdleTime
  PROVE  ValueAt(s, t) = Minute
<1>1. s.tokens \in 0..Minute /\ s.updatedAt \in Nat
  BY LimiterAssumption DEF BucketState
<1> QED
  BY <1>1, NoneIsNoBucket, LimiterAssumption DEF ValueAt, Refilled, Least

\* The bucket a decision starts from.
Fresh(s, t) == IF s # None THEN s ELSE InitialState(t)

\* take: a grant lowers the value by its cost, a refusal leaves it as it is.
LEMMA TakenValue ==
  ASSUME NEW s \in Stored, NEW t \in 0..Horizon, s = None \/ s.updatedAt <= t,
         NEW cost \in 1..Minute
  PROVE  /\ Taken(Fresh(s, t), cost, t) \in BucketState
         /\ Taken(Fresh(s, t), cost, t).updatedAt = t
         /\ Refilled(Fresh(s, t), t) = ValueAt(s, t)
         /\ Allowed(Fresh(s, t), cost, t) <=> ValueAt(s, t) >= cost
         /\ ValueAt(Taken(Fresh(s, t), cost, t), t) =
              IF Allowed(Fresh(s, t), cost, t) THEN ValueAt(s, t) - cost ELSE ValueAt(s, t)
<1> DEFINE v == Refilled(Fresh(s, t), t)
<1>1. t \in Nat /\ Minute \in Nat /\ Horizon \in Nat
  BY LimiterAssumption
<1>2. v = ValueAt(s, t)
  <2>1. CASE s = None
    BY <1>1, <2>1 DEF Fresh, InitialState, Refilled, Least, ValueAt
  <2>2. CASE s # None
    BY <2>2 DEF Fresh, ValueAt
  <2> QED
    BY <2>1, <2>2
<1>3. v \in 0..Minute
  BY <1>1, <1>2, ValueBounds
<1>4. Allowed(Fresh(s, t), cost, t) <=> v >= cost
  BY DEF Allowed
<1> DEFINE rest == IF Allowed(Fresh(s, t), cost, t) THEN v - cost ELSE v
<1>5. Taken(Fresh(s, t), cost, t) = [tokens |-> rest, updatedAt |-> t]
  BY DEF Taken
<1>6. rest \in 0..Minute
  BY <1>1, <1>3, <1>4
<1> HIDE DEF v, rest
<1>7. Taken(Fresh(s, t), cost, t) \in BucketState
  BY <1>5, <1>6 DEF BucketState
<1>8. ValueAt(Taken(Fresh(s, t), cost, t), t) = rest
  BY <1>1, <1>5, <1>6, <1>7, NoneIsNoBucket DEF ValueAt, Refilled, Least
<1>9. rest = IF Allowed(Fresh(s, t), cost, t) THEN ValueAt(s, t) - cost ELSE ValueAt(s, t)
  BY <1>2 DEF rest
<1>10. Taken(Fresh(s, t), cost, t).updatedAt = t
  BY <1>5
<1>11. Refilled(Fresh(s, t), t) = ValueAt(s, t)
  BY <1>2 DEF v
<1> QED
  BY <1>2, <1>4, <1>7, <1>8, <1>9, <1>10, <1>11

\* Retry-After covers the deficit.
LEMMA RetryAfterCovers ==
  ASSUME NEW need \in Nat \ {0}
  PROVE  /\ Second * ((need + Second - 1) \div Second) \in Nat
         /\ Second * ((need + Second - 1) \div Second) >= need
<1>1. Second \in Nat \ {0}
  BY LimiterAssumption
<1> DEFINE x == need + Second - 1
           q == x \div Second
<1>2. x \in Nat
  BY <1>1
<1>3. q \in Nat
  <2> HIDE DEF x
  <2> QED
    BY <1>1, <1>2
<1>4. x < Second * q + Second
  <2> HIDE DEF x
  <2> QED
    BY <1>1, <1>2
<1>5. Second * q \in Nat
  BY <1>1, <1>3
<1> HIDE DEF q
<1>6. need <= Second * q
  BY <1>1, <1>4, <1>5
<1> QED
  BY <1>5, <1>6 DEF q

--------------------------------------------------------------------------------
(* The steps.                                                              *)

\* What the invariant says of the buckets.
LEMMA Buckets ==
  ASSUME IInv, NEW o \in Org
  PROVE  /\ object[o] \in Stored /\ disk[o] \in Stored /\ InMemory(o) \in Stored
         /\ Written(object[o]) /\ Written(disk[o]) /\ Written(InMemory(o))
         /\ \A i \in Isolate : fallback[i][o] \in Stored /\ Written(fallback[i][o])
         /\ now \in Nat /\ now \in 0..Horizon /\ Start \in Nat /\ Start <= now
  BY LimiterAssumption DEF IInv, Types, TypeOK, Dated, InMemory, Stored

\* The numbers that go with an org's object.
LEMMA Numbers ==
  ASSUME IInv, NEW o \in Org
  PROVE  /\ ValueAt(InMemory(o), now) \in 0..Minute /\ ValueAt(disk[o], now) \in 0..Minute
         /\ granted[o] \in Int /\ unsaved[o] \in Nat /\ promise[o] \in Nat \cup {None}
         /\ Cost \in 1..Minute /\ DegradedCost \in 1..Minute /\ Minute \in Nat
         /\ Earned \in Int
<1>1. ValueAt(InMemory(o), now) \in 0..Minute /\ ValueAt(disk[o], now) \in 0..Minute
  BY Buckets, ValueBounds DEF Written
<1>2. granted[o] \in Int /\ unsaved[o] \in Nat /\ promise[o] \in Nat \cup {None}
  BY DEF IInv, Types, TypeOK
<1>3. Earned \in Int /\ Minute \in Nat
  BY Buckets, LimiterAssumption DEF Earned
<1> QED
  BY <1>1, <1>2, <1>3, CostAssumption

\* An org whose object is not touched keeps its part of the invariant.
LEMMA OrgUntouched ==
  ASSUME IInv, NEW o \in Org,
         now' = now, object'[o] = object[o], disk'[o] = disk[o], unsaved'[o] = unsaved[o],
         granted'[o] = granted[o], promise'[o] = promise[o]
  PROVE  OrgInv(o)' /\ Written(object[o])' /\ Written(disk[o])'
  BY Buckets DEF IInv, OrgInv, InMemory, Earned, Written

\* And so does the bucket of an isolate.
LEMMA IsolateUntouched ==
  ASSUME IInv, NEW o \in Org, NEW i \in Isolate,
         now' = now, fallback'[i][o] = fallback[i][o], grantedHere'[i][o] = grantedHere[i][o]
  PROVE  IsolateInv(i, o)' /\ Written(fallback[i][o])'
  BY Buckets DEF IInv, IsolateInv, Earned, Written

\* At first nothing was granted, and nothing is worth more than a minute.
LEMMA InitIInv == Init => IInv
<1> SUFFICES ASSUME Init PROVE IInv
  OBVIOUS
<1>1. Start \in Nat /\ Minute \in Nat /\ Start \in 0..Horizon
  BY LimiterAssumption
<1>2. disk \in [Org -> Stored] /\ \A o \in Org : Written(disk[o])
  <2> SUFFICES ASSUME NEW o \in Org PROVE disk[o] \in Stored /\ Written(disk[o])
    BY DEF Init
  <2>1. CASE disk[o] = None
    BY <2>1 DEF Stored, Written
  <2>2. CASE disk[o] # None
    <3>1. disk[o] \in [tokens : 0..Minute, updatedAt : 0..Start]
      BY <2>2 DEF Init
    <3> QED
      BY <1>1, <3>1, LimiterAssumption DEF Stored, Written, BucketState, Init
  <2> QED
    BY <2>1, <2>2
<1>3. Types
  <2>1. TypeOK
    BY <1>1, <1>2, LimiterAssumption DEF Init, TypeOK, Stored, Call, Idle
  <2>2. \A i \in Isolate : call[i].at = "idle"
    BY DEF Init, Idle
  <2> QED
    BY <1>1, <2>1, <2>2 DEF Types, Init
<1>4. Dated
  BY <1>2 DEF Init, Dated, Written
<1>5. ASSUME NEW o \in Org PROVE OrgInv(o)
  <2>1. InMemory(o) = disk[o] /\ granted[o] = 0 /\ unsaved[o] = 0 /\ promise[o] = None
    BY DEF Init, InMemory
  <2>2. ValueAt(disk[o], now) \in 0..Minute
    BY <1>1, <1>2, ValueBounds DEF Init, Written
  <2> QED
    BY <1>1, <2>1, <2>2 DEF OrgInv, Earned, Init
<1>6. ASSUME NEW i \in Isolate, NEW o \in Org PROVE IsolateInv(i, o)
  BY <1>1 DEF Init, IsolateInv, Earned, ValueAt
<1> QED
  BY <1>3, <1>4, <1>5, <1>6 DEF IInv

\* What the object starts a decision from is what its memory or its disk holds.
LEMMA LoadedIsFresh ==
  ASSUME NEW o \in Org PROVE Loaded(o) = Fresh(InMemory(o), now)
  BY DEF Loaded, Fresh, InMemory

\* A decision: a grant is paid for, a refusal promises no less than the deficit.
LEMMA DecideStep == ASSUME IInv, NEW i \in Isolate, Decide(i) PROVE IInv'
<1> DEFINE org == call[i].org
           value == ValueAt(InMemory(org), now)
           allowed == Allowed(Loaded(org), Cost, now)
           after == Taken(Loaded(org), Cost, now)
<1>1. org \in Org
  BY DEF Decide, IInv, Types
<1>2. /\ after \in BucketState /\ after.updatedAt = now
      /\ Refilled(Loaded(org), now) = value
      /\ allowed <=> value >= Cost
      /\ ValueAt(after, now) = IF allowed THEN value - Cost ELSE value
  BY <1>1, Buckets, Numbers, LoadedIsFresh, TakenValue DEF Written
<1>3. allowed \in BOOLEAN
  BY DEF Allowed
<1> HIDE DEF after, allowed
<1>4. /\ now' = now /\ disk' = disk /\ fallback' = fallback /\ begun' = begun
      /\ grantedHere' = grantedHere
      /\ object' = [object EXCEPT ![org] = after]
      /\ call' = [call EXCEPT ![i].at = "decided", ![i].allowed = allowed]
      /\ unsaved' = [unsaved EXCEPT ![org] = IF allowed THEN @ + Cost ELSE @]
      /\ granted' = [granted EXCEPT ![org] = IF allowed THEN @ + Cost ELSE @]
      /\ promise' = [promise EXCEPT ![org] =
                       IF allowed THEN None
                       ELSE IF @ # None THEN @ ELSE now + RetryAfter(Loaded(org), Cost, now)]
  BY DEF Decide, after, allowed
<1>5. ~allowed => /\ RetryAfter(Loaded(org), Cost, now) \in Nat
                  /\ value + RetryAfter(Loaded(org), Cost, now) >= Cost
  <2> SUFFICES ASSUME ~allowed
               PROVE  /\ RetryAfter(Loaded(org), Cost, now) \in Nat
                      /\ value + RetryAfter(Loaded(org), Cost, now) >= Cost
    OBVIOUS
  <2>1. value \in Nat /\ Cost \in Nat /\ Cost - value \in Nat \ {0}
    BY <1>1, <1>2, Numbers
  <2>2. RetryAfter(Loaded(org), Cost, now)
          = Second * (((Cost - value) + Second - 1) \div Second)
    BY <1>2 DEF RetryAfter
  <2> HIDE DEF value
  <2> QED
    BY <2>1, <2>2, RetryAfterCovers
<1>6. Types'
  <2>1. object' \in [Org -> BucketState \cup {None}]
    BY <1>2, <1>4 DEF IInv, Types, TypeOK
  <2>2. unsaved' \in [Org -> Nat] /\ granted' \in [Org -> Int]
    BY <1>1, <1>4, Numbers DEF IInv, Types, TypeOK
  <2>3. promise' \in [Org -> Nat \cup {None}]
    BY <1>1, <1>4, <1>5, Buckets DEF IInv, Types, TypeOK
  <2>4. /\ call' \in [Isolate -> Call]
        /\ \A j \in Isolate :
              /\ call'[j].at # "idle" => call'[j].org \in Org
              /\ call'[j].at \in {"ask", "decided"} => call'[j].attempt <= 1
    <3>1. call[i] \in Call /\ call \in [Isolate -> Call] /\ call[i].attempt <= 1
      BY DEF IInv, Types, TypeOK, Decide
    <3>2. call[i] = [at |-> call[i].at, org |-> org, attempt |-> call[i].attempt,
                     allowed |-> call[i].allowed]
      BY <3>1 DEF Call
    <3>3. call'[i] = [at |-> "decided", org |-> org, attempt |-> call[i].attempt,
                      allowed |-> allowed]
      BY <1>4, <3>1, <3>2
    <3>4. call'[i] \in Call
      BY <1>1, <1>3, <3>1, <3>3 DEF Call
    <3>5. \A j \in Isolate \ {i} : call'[j] = call[j]
      BY <1>4, <3>1
    <3>6. call' = [j \in Isolate |-> call'[j]]
      BY <1>4, <3>1
    <3>7. call' \in [Isolate -> Call]
      BY <3>1, <3>4, <3>5, <3>6
    <3> QED
      BY <1>1, <3>1, <3>3, <3>5, <3>7 DEF IInv, Types
  <2> QED
    BY <1>4, <2>1, <2>2, <2>3, <2>4 DEF IInv, Types, TypeOK
<1>7. ASSUME NEW o \in Org PROVE OrgInv(o)' /\ Written(object[o])' /\ Written(disk[o])'
  <2>1. CASE o # org
    BY <1>1, <1>4, <2>1, OrgUntouched DEF IInv, Types, TypeOK
  <2>2. CASE o = org
    <3>1. object'[o] = after /\ after # None
      BY <1>1, <1>2, <1>4, <2>2, NoneIsNoBucket DEF IInv, Types, TypeOK
    <3>2. InMemory(o)' = after /\ disk'[o] = disk[o] /\ now' = now
      BY <1>4, <3>1 DEF InMemory
    <3>3. Written(object[o])' /\ Written(disk[o])'
      BY <1>2, <1>4, <3>1, Buckets DEF Written
    <3>4. /\ unsaved'[o] = IF allowed THEN unsaved[o] + Cost ELSE unsaved[o]
          /\ granted'[o] = IF allowed THEN granted[o] + Cost ELSE granted[o]
          /\ promise'[o] = IF allowed THEN None
                           ELSE IF promise[o] # None THEN promise[o]
                                ELSE now + RetryAfter(Loaded(o), Cost, now)
      BY <1>1, <1>4, <2>2 DEF IInv, Types, TypeOK
    <3>5. OrgInv(o)
      BY DEF IInv
    <3>6. ValueAt(InMemory(o), now)' = IF allowed THEN value - Cost ELSE value
      BY <1>2, <3>2
    <3>7. granted'[o] + ValueAt(InMemory(o), now)' <= Earned'
      BY <1>4, <2>2, <3>4, <3>5, <3>6, Numbers DEF OrgInv, Earned
    <3>8. /\ ValueAt(InMemory(o), now)' <= ValueAt(disk[o], now)'
          /\ ValueAt(disk[o], now)' <= ValueAt(InMemory(o), now)' + unsaved'[o]
      BY <1>4, <2>2, <3>4, <3>5, <3>6, Numbers DEF OrgInv
    <3>9. promise'[o] # None =>
             \/ ValueAt(InMemory(o), now)' >= Cost
             \/ ValueAt(InMemory(o), now)' + (promise'[o] - now') >= Cost
      <4> SUFFICES ASSUME promise'[o] # None
                   PROVE  \/ value >= Cost \/ value + (promise'[o] - now) >= Cost
        BY <1>4, <3>4, <3>6
      <4>1. CASE promise[o] # None
        BY <2>2, <3>4, <3>5, <4>1 DEF OrgInv
      <4>2. CASE promise[o] = None
        BY <1>5, <2>2, <3>4, <4>2, Numbers, Buckets
      <4> QED
        BY <4>1, <4>2
    <3> QED
      BY <3>3, <3>7, <3>8, <3>9 DEF OrgInv
  <2> QED
    BY <2>1, <2>2
<1>8. ASSUME NEW j \in Isolate, NEW o \in Org
      PROVE  IsolateInv(j, o)' /\ Written(fallback[j][o])'
  BY <1>4, IsolateUntouched
<1> QED
  BY <1>6, <1>7, <1>8 DEF IInv, Dated

\* The write that lands: what is stored catches up with what was granted.
LEMMA WriteStep == ASSUME IInv, NEW org \in Org, WriteLands(org) PROVE IInv'
<1>1. /\ now' = now /\ object' = object /\ fallback' = fallback /\ call' = call
      /\ begun' = begun /\ granted' = granted /\ grantedHere' = grantedHere
      /\ promise' = promise
      /\ disk' = [disk EXCEPT ![org] = object[org]]
      /\ unsaved' = [unsaved EXCEPT ![org] = 0]
      /\ object[org] # None
  BY DEF WriteLands, history
<1>2. Types'
  <2>1. disk' \in [Org -> BucketState \cup {None}] /\ unsaved' \in [Org -> Nat]
    BY <1>1 DEF IInv, Types, TypeOK
  <2> QED
    BY <1>1, <2>1 DEF IInv, Types, TypeOK
<1>3. ASSUME NEW o \in Org PROVE OrgInv(o)' /\ Written(object[o])' /\ Written(disk[o])'
  <2>1. CASE o # org
    BY <1>1, <2>1, OrgUntouched DEF IInv, Types, TypeOK
  <2>2. CASE o = org
    <3>1. disk'[o] = object[o] /\ unsaved'[o] = 0
      BY <1>1, <2>2 DEF IInv, Types, TypeOK
    <3>2. InMemory(o)' = InMemory(o) /\ InMemory(o) = object[o]
      BY <1>1, <2>2 DEF InMemory
    <3>3. OrgInv(o)
      BY DEF IInv
    <3> QED
      BY <1>1, <3>1, <3>2, <3>3, Numbers, Buckets DEF OrgInv, Earned, Written
  <2> QED
    BY <2>1, <2>2
<1>4. ASSUME NEW j \in Isolate, NEW o \in Org
      PROVE  IsolateInv(j, o)' /\ Written(fallback[j][o])'
  BY <1>1, IsolateUntouched
<1> QED
  BY <1>2, <1>3, <1>4 DEF IInv, Dated

\* An eviction: the org has what is stored, which is worth no more than what it had
\* and the grants that are given back.
LEMMA EvictStep == ASSUME IInv, NEW org \in Org, ObjectEvicted(org) PROVE IInv'
<1>1. /\ now' = now /\ disk' = disk /\ fallback' = fallback /\ call' = call
      /\ begun' = begun /\ grantedHere' = grantedHere /\ promise' = promise
      /\ object' = [object EXCEPT ![org] = None]
      /\ granted' = [granted EXCEPT ![org] = @ - unsaved[org]]
      /\ unsaved' = [unsaved EXCEPT ![org] = 0]
  BY DEF ObjectEvicted
<1>2. Types'
  <2>1. /\ object' \in [Org -> BucketState \cup {None}]
        /\ unsaved' \in [Org -> Nat] /\ granted' \in [Org -> Int]
    BY <1>1, Numbers DEF IInv, Types, TypeOK
  <2> QED
    BY <1>1, <2>1 DEF IInv, Types, TypeOK
<1>3. ASSUME NEW o \in Org PROVE OrgInv(o)' /\ Written(object[o])' /\ Written(disk[o])'
  <2>1. CASE o # org
    BY <1>1, <2>1, OrgUntouched DEF IInv, Types, TypeOK
  <2>2. CASE o = org
    <3>1. /\ object'[o] = None /\ unsaved'[o] = 0 /\ granted'[o] = granted[o] - unsaved[o]
          /\ promise'[o] = promise[o] /\ disk'[o] = disk[o]
      BY <1>1, <2>2 DEF IInv, Types, TypeOK
    <3>2. InMemory(o)' = disk[o]
      BY <1>1, <3>1 DEF InMemory
    <3>3. OrgInv(o)
      BY DEF IInv
    <3>4. ValueAt(InMemory(o), now)' = ValueAt(disk[o], now) /\ Earned' = Earned
      BY <1>1, <3>2 DEF Earned
    <3>5. /\ granted'[o] + ValueAt(disk[o], now) <= Earned
          /\ promise[o] # None =>
                \/ ValueAt(disk[o], now) >= Cost
                \/ ValueAt(disk[o], now) + (promise[o] - now) >= Cost
      BY <3>1, <3>3, Numbers, Buckets DEF OrgInv
    <3>6. OrgInv(o)'
      BY <1>1, <3>1, <3>2, <3>4, <3>5, Numbers DEF OrgInv
    <3> QED
      BY <1>1, <3>1, <3>6, Buckets DEF Written
  <2> QED
    BY <2>1, <2>2
<1>4. ASSUME NEW j \in Isolate, NEW o \in Org
      PROVE  IsolateInv(j, o)' /\ Written(fallback[j][o])'
  BY <1>1, IsolateUntouched
<1> QED
  BY <1>2, <1>3, <1>4 DEF IInv, Dated

\* What a request may become.
LEMMA CallTypes ==
  ASSUME IInv, NEW i \in Isolate, NEW r \in Call, call' = [call EXCEPT ![i] = r],
         r.at # "idle" => r.org \in Org,
         r.at \in {"ask", "decided"} => r.attempt <= 1
  PROVE  /\ call' \in [Isolate -> Call]
         /\ \A j \in Isolate :
               /\ call'[j].at # "idle" => call'[j].org \in Org
               /\ call'[j].at \in {"ask", "decided"} => call'[j].attempt <= 1
<1>1. call \in [Isolate -> Call]
  BY DEF IInv, Types, TypeOK
<1>2. ASSUME NEW j \in Isolate PROVE call'[j] = IF j = i THEN r ELSE call[j]
  BY <1>1
<1>3. call' \in [Isolate -> Call]
  BY <1>1
<1> QED
  BY <1>2, <1>3 DEF IInv, Types

\* No request.
LEMMA IdleIsCall == Idle \in Call /\ Idle.at = "idle"
  BY DEF Idle, Call

\* Requests come, and are answered or not, without a bucket being touched.
LEMMA RequestStep ==
  ASSUME IInv, NEW i \in Isolate,
         AnswerArrives(i) \/ AskFails(i) \/ \E o \in Org : Arrive(i, o)
  PROVE  IInv'
<1>1. /\ now' = now /\ object' = object /\ disk' = disk /\ unsaved' = unsaved
      /\ fallback' = fallback /\ granted' = granted /\ grantedHere' = grantedHere
      /\ promise' = promise
  BY DEF AnswerArrives, AskFails, Arrive, history
<1>2. begun' \in 0..MaxCalls
  BY LimiterAssumption DEF AnswerArrives, AskFails, Arrive, IInv, Types, TypeOK
<1>3. call[i] \in Call
  BY DEF IInv, Types, TypeOK
<1>4. /\ call' \in [Isolate -> Call]
      /\ \A j \in Isolate :
            /\ call'[j].at # "idle" => call'[j].org \in Org
            /\ call'[j].at \in {"ask", "decided"} => call'[j].attempt <= 1
  <2>1. CASE AnswerArrives(i)
    BY <2>1, IdleIsCall, CallTypes DEF AnswerArrives
  <2>2. ASSUME NEW o \in Org, Arrive(i, o)
        PROVE  /\ call' \in [Isolate -> Call]
               /\ \A j \in Isolate :
                     /\ call'[j].at # "idle" => call'[j].org \in Org
                     /\ call'[j].at \in {"ask", "decided"} => call'[j].attempt <= 1
    <3> DEFINE r == [at |-> "ask", org |-> o, attempt |-> 0, allowed |-> FALSE]
    <3>1. r \in Call /\ r.org \in Org /\ r.attempt <= 1
      BY DEF Call
    <3>2. call' = [call EXCEPT ![i] = r]
      BY <2>2 DEF Arrive
    <3> HIDE DEF r
    <3> QED
      BY <3>1, <3>2, CallTypes
  <2>3. CASE AskFails(i)
    <3> DEFINE r == [at |-> IF call[i].attempt = 0 THEN "ask" ELSE "fallback",
                     org |-> call[i].org, attempt |-> call[i].attempt + 1,
                     allowed |-> FALSE]
    <3>1. call[i].attempt \in 0..1 /\ call[i].org \in Org
      BY <1>3, <2>3 DEF AskFails, IInv, Types, Call
    <3>2. r \in Call /\ r.org \in Org /\ (r.at \in {"ask", "decided"} => r.attempt <= 1)
      BY <3>1 DEF Call
    <3>3. call[i] = [at |-> call[i].at, org |-> call[i].org, attempt |-> call[i].attempt,
                     allowed |-> call[i].allowed]
      BY <1>3 DEF Call
    <3>4. call' = [call EXCEPT ![i] = r]
      <4>1. call \in [Isolate -> Call]
        BY DEF IInv, Types, TypeOK
      <4>2. call'[i] = r
        BY <2>3, <3>3, <4>1 DEF AskFails
      <4>3. \A j \in Isolate \ {i} : call'[j] = call[j]
        BY <2>3, <4>1 DEF AskFails
      <4>4. call' = [j \in Isolate |-> call'[j]]
        BY <2>3, <4>1 DEF AskFails
      <4> HIDE DEF r
      <4> QED
        BY <4>1, <4>2, <4>3, <4>4
    <3> HIDE DEF r
    <3> QED
      BY <3>2, <3>4, CallTypes
  <2> QED
    BY <2>1, <2>2, <2>3
<1>5. Types'
  BY <1>1, <1>2, <1>4 DEF IInv, Types, TypeOK
<1>6. ASSUME NEW o \in Org PROVE OrgInv(o)' /\ Written(object[o])' /\ Written(disk[o])'
  BY <1>1, OrgUntouched
<1>7. ASSUME NEW j \in Isolate, NEW o \in Org
      PROVE  IsolateInv(j, o)' /\ Written(fallback[j][o])'
  BY <1>1, IsolateUntouched
<1> QED
  BY <1>5, <1>6, <1>7 DEF IInv, Dated

\* Sweeping idle entries changes the value of no bucket.
LEMMA SweptValue ==
  ASSUME IInv, NEW i \in Isolate, NEW org \in Org, NEW q \in Org
  PROVE  /\ Swept(fallback[i], org)[q] \in Stored
         /\ Written(Swept(fallback[i], org)[q])
         /\ ValueAt(Swept(fallback[i], org)[q], now) = ValueAt(fallback[i][q], now)
<1>1. /\ fallback[i][q] \in Stored /\ Written(fallback[i][q])
      /\ now \in Nat
  BY Buckets
<1>2. \/ Swept(fallback[i], org)[q] = fallback[i][q]
      \/ /\ Swept(fallback[i], org)[q] = None /\ fallback[i][q] # None
         /\ Stale(fallback[i][q])
  BY DEF Swept
<1>3. CASE Swept(fallback[i], org)[q] = fallback[i][q]
  BY <1>1, <1>3
<1>4. CASE Swept(fallback[i], org)[q] = None /\ fallback[i][q] # None /\ Stale(fallback[i][q])
  <2>1. ValueAt(fallback[i][q], now) = Minute
    BY <1>1, <1>4, ValueStale DEF Stale, Stored
  <2> QED
    BY <1>4, <2>1 DEF Stored, Written, ValueAt
<1> QED
  BY <1>2, <1>3, <1>4

\* An isolate that decides by itself: a grant is paid for from its own bucket.
LEMMA FallBackStep == ASSUME IInv, NEW i \in Isolate, FallBack(i) PROVE IInv'
<1> DEFINE org == call[i].org
           map == Swept(fallback[i], org)
           room == HasRoom(map, org)
           allowed == room /\ Allowed(Fresh(map[org], now), DegradedCost, now)
           after == Taken(Fresh(map[org], now), DegradedCost, now)
           next == IF room THEN [map EXCEPT ![org] = after] ELSE map
<1>1. org \in Org
  BY DEF FallBack, IInv, Types
<1>2. /\ now' = now /\ object' = object /\ disk' = disk /\ unsaved' = unsaved
      /\ begun' = begun /\ granted' = granted /\ promise' = promise
      /\ call' = [call EXCEPT ![i] = Idle]
      /\ fallback' = [fallback EXCEPT ![i] = next]
      /\ grantedHere' =
           [grantedHere EXCEPT ![i][org] = IF allowed THEN @ + DegradedCost ELSE @]
  BY DEF FallBack, Fresh
<1>3. \A q \in Org : /\ map[q] \in Stored /\ Written(map[q])
                     /\ ValueAt(map[q], now) = ValueAt(fallback[i][q], now)
  BY <1>1, SweptValue
<1>4. map = [q \in Org |-> map[q]]
  BY DEF Swept
<1>5. room \in BOOLEAN
  BY DEF HasRoom
<1> HIDE DEF map, room
<1>6. /\ after \in BucketState /\ after.updatedAt = now
      /\ Allowed(Fresh(map[org], now), DegradedCost, now)
           <=> ValueAt(map[org], now) >= DegradedCost
      /\ ValueAt(after, now) =
           IF Allowed(Fresh(map[org], now), DegradedCost, now)
           THEN ValueAt(map[org], now) - DegradedCost ELSE ValueAt(map[org], now)
  BY <1>1, <1>3, Buckets, Numbers, TakenValue DEF Written
<1>7. allowed \in BOOLEAN
  BY <1>5 DEF Allowed
<1>8. ValueAt(after, now) >= 0 /\ (room /\ allowed =>
                ValueAt(after, now) = ValueAt(map[org], now) - DegradedCost)
      /\ (room /\ ~allowed => ValueAt(after, now) = ValueAt(map[org], now))
      /\ (~room => ~allowed)
  <2>1. ValueAt(after, now) \in 0..Minute
    BY <1>1, <1>6, Buckets, ValueBounds DEF Stored
  <2>2. ValueAt(after, now) >= 0
    BY <1>1, <2>1, Numbers
  <2> QED
    BY <1>6, <2>2
<1> HIDE DEF after, allowed
<1>9. /\ next \in [Org -> Stored]
      /\ \A q \in Org : next[q] = IF room /\ q = org THEN after ELSE map[q]
  BY <1>1, <1>3, <1>4, <1>6 DEF Stored
<1> HIDE DEF next
<1>10. Types'
  <2>1. fallback' \in [Isolate -> [Org -> BucketState \cup {None}]]
    BY <1>2, <1>9 DEF IInv, Types, TypeOK, Stored
  <2>2. grantedHere' \in [Isolate -> [Org -> Nat]]
    <3>1. grantedHere \in [Isolate -> [Org -> Nat]] /\ DegradedCost \in Nat
      BY <1>1, Numbers DEF IInv, Types, TypeOK
    <3>2. (IF allowed THEN grantedHere[i][org] + DegradedCost ELSE grantedHere[i][org]) \in Nat
      BY <1>1, <3>1
    <3> QED
      BY <1>1, <1>2, <3>1, <3>2
  <2>3. /\ call' \in [Isolate -> Call]
        /\ \A j \in Isolate :
              /\ call'[j].at # "idle" => call'[j].org \in Org
              /\ call'[j].at \in {"ask", "decided"} => call'[j].attempt <= 1
    BY <1>2, IdleIsCall, CallTypes
  <2> QED
    BY <1>2, <2>1, <2>2, <2>3 DEF IInv, Types, TypeOK
<1>11. ASSUME NEW o \in Org PROVE OrgInv(o)' /\ Written(object[o])' /\ Written(disk[o])'
  BY <1>2, OrgUntouched
<1>12. ASSUME NEW j \in Isolate, NEW o \in Org
       PROVE  IsolateInv(j, o)' /\ Written(fallback[j][o])'
  <2>0. fallback \in [Isolate -> [Org -> Stored]] /\ grantedHere \in [Isolate -> [Org -> Nat]]
    BY DEF IInv, Types, TypeOK, Stored
  <2>1. CASE j # i
    BY <1>2, <2>0, <2>1, IsolateUntouched
  <2>2. CASE j = i
    <3>1. fallback'[j][o] = next[o] /\ now' = now
      BY <1>2, <2>0, <2>2
    <3>2. grantedHere'[j][o] = IF o = org /\ allowed THEN grantedHere[j][o] + DegradedCost
                                                      ELSE grantedHere[j][o]
      BY <1>1, <1>2, <2>0, <2>2
    <3>3. IsolateInv(j, o) /\ Earned' = Earned
      BY <1>2 DEF IInv, Earned
    <3>4. Written(fallback[j][o])'
      BY <1>3, <1>6, <1>9, <3>1, Buckets DEF Written
    <3>5. grantedHere[j][o] \in Nat /\ DegradedCost \in Nat
          /\ ValueAt(fallback[i][o], now) \in Nat
      <4>1. ValueAt(fallback[i][o], now) \in 0..Minute
        BY Buckets, ValueBounds DEF Written
      <4> QED
        BY <2>0, <4>1, Numbers
    <3>6. grantedHere'[j][o] + ValueAt(fallback'[j][o], now) <= Earned
      <4>1. CASE room /\ o = org
        BY <1>3, <1>8, <1>9, <2>2, <3>1, <3>2, <3>3, <3>5, <4>1, Numbers DEF IsolateInv
      <4>2. CASE ~(room /\ o = org)
        BY <1>3, <1>8, <1>9, <2>2, <3>1, <3>2, <3>3, <3>5, <4>2 DEF IsolateInv
      <4> QED
        BY <4>1, <4>2
    <3> QED
      BY <3>1, <3>3, <3>4, <3>6 DEF IsolateInv
  <2> QED
    BY <2>1, <2>2
<1> QED
  BY <1>10, <1>11, <1>12 DEF IInv, Dated

\* A new life of an isolate has granted nothing.
LEMMA RecycleStep == ASSUME IInv, NEW i \in Isolate, Recycle(i) PROVE IInv'
<1>1. /\ now' = now /\ object' = object /\ disk' = disk /\ unsaved' = unsaved
      /\ begun' = begun /\ granted' = granted /\ promise' = promise
      /\ call' = [call EXCEPT ![i] = Idle]
      /\ fallback' = [fallback EXCEPT ![i] = [o \in Org |-> None]]
      /\ grantedHere' = [grantedHere EXCEPT ![i] = [o \in Org |-> 0]]
  BY DEF Recycle
<1>2. Types'
  <2>1. /\ fallback' \in [Isolate -> [Org -> BucketState \cup {None}]]
        /\ grantedHere' \in [Isolate -> [Org -> Nat]]
    BY <1>1 DEF IInv, Types, TypeOK
  <2>2. /\ call' \in [Isolate -> Call]
        /\ \A j \in Isolate :
              /\ call'[j].at # "idle" => call'[j].org \in Org
              /\ call'[j].at \in {"ask", "decided"} => call'[j].attempt <= 1
    BY <1>1, IdleIsCall, CallTypes
  <2> QED
    BY <1>1, <2>1, <2>2 DEF IInv, Types, TypeOK
<1>3. ASSUME NEW o \in Org PROVE OrgInv(o)' /\ Written(object[o])' /\ Written(disk[o])'
  BY <1>1, OrgUntouched
<1>4. ASSUME NEW j \in Isolate, NEW o \in Org
      PROVE  IsolateInv(j, o)' /\ Written(fallback[j][o])'
  <2>1. CASE j # i
    BY <1>1, <2>1, IsolateUntouched DEF IInv, Types, TypeOK
  <2>2. CASE j = i
    <3>1. fallback'[j][o] = None /\ grantedHere'[j][o] = 0
      BY <1>1, <2>2 DEF IInv, Types, TypeOK
    <3> QED
      BY <1>1, <3>1, Buckets, LimiterAssumption DEF IsolateInv, Written, ValueAt, Earned
  <2> QED
    BY <2>1, <2>2
<1> QED
  BY <1>2, <1>3, <1>4 DEF IInv, Dated

\* A tick raises no value by more than a tick, and none that is short of the ceiling
\* by less, so the order of two buckets of one org stays.
LEMMA TickStep == IInv /\ Tick => IInv'
<1> SUFFICES ASSUME IInv, Tick PROVE IInv'
  OBVIOUS
<1>1. /\ now' = now + 1 /\ now < Horizon /\ object' = object /\ disk' = disk
      /\ unsaved' = unsaved /\ fallback' = fallback /\ call' = call /\ begun' = begun
      /\ granted' = granted /\ grantedHere' = grantedHere /\ promise' = promise
  BY DEF Tick, history
<1>2. Types'
  BY <1>1, LimiterAssumption DEF IInv, Types, TypeOK
<1>3. ASSUME NEW o \in Org PROVE OrgInv(o)' /\ Written(object[o])' /\ Written(disk[o])'
  <2>1. /\ InMemory(o)' = InMemory(o) /\ InMemory(o) \in Stored /\ disk[o] \in Stored
        /\ Written(InMemory(o)) /\ Written(disk[o]) /\ Written(object[o]) /\ now \in Nat
    BY <1>1, Buckets DEF InMemory
  <2>2. /\ ValueAt(InMemory(o), now + 1) = Least(Minute, ValueAt(InMemory(o), now) + 1)
        /\ ValueAt(disk[o], now + 1) = Least(Minute, ValueAt(disk[o], now) + 1)
    BY <2>1, ValueTick DEF Written
  <2>3. OrgInv(o) /\ Earned' = Earned + 1
    BY <1>1, <2>1, Numbers, LimiterAssumption DEF IInv, Earned
  <2> DEFINE m == ValueAt(InMemory(o), now)  d == ValueAt(disk[o], now)
  <2>4. /\ ValueAt(InMemory(o), now)' = Least(Minute, m + 1)
        /\ ValueAt(disk[o], now)' = Least(Minute, d + 1)
    BY <1>1, <2>1, <2>2
  <2>5. /\ m \in 0..Minute /\ d \in 0..Minute
        /\ granted[o] + m <= Earned /\ m <= d /\ d <= m + unsaved[o]
        /\ promise[o] # None => m >= Cost \/ m + (promise[o] - now) >= Cost
    BY <2>3, Numbers DEF OrgInv
  <2> HIDE DEF m, d
  <2>6. /\ granted[o] + Least(Minute, m + 1) <= Earned + 1
        /\ Least(Minute, m + 1) <= Least(Minute, d + 1)
        /\ Least(Minute, d + 1) <= Least(Minute, m + 1) + unsaved[o]
    BY <2>5, Numbers DEF Least
  <2>7. promise[o] # None => \/ Least(Minute, m + 1) >= Cost
                             \/ Least(Minute, m + 1) + (promise[o] - (now + 1)) >= Cost
    BY <2>1, <2>5, Numbers DEF Least
  <2>8. OrgInv(o)'
    BY <1>1, <2>3, <2>4, <2>6, <2>7 DEF OrgInv
  <2>9. Written(object[o])' /\ Written(disk[o])'
    BY <1>1, <2>1, LimiterAssumption DEF Written, Stored, BucketState, IInv, Types, TypeOK
  <2> QED
    BY <2>8, <2>9
<1>4. ASSUME NEW j \in Isolate, NEW o \in Org
      PROVE  IsolateInv(j, o)' /\ Written(fallback[j][o])'
  <2>1. /\ fallback[j][o] \in Stored /\ Written(fallback[j][o]) /\ now \in Nat
        /\ Start \in Nat /\ grantedHere[j][o] \in Nat
    BY Buckets DEF IInv, Types, TypeOK
  <2>2. /\ ValueAt(fallback[j][o], now + 1) = Least(Minute, ValueAt(fallback[j][o], now) + 1)
        /\ ValueAt(fallback[j][o], now) \in 0..Minute
    BY <2>1, ValueTick, ValueBounds DEF Written
  <2>3. IsolateInv(j, o) /\ Earned' = Earned + 1 /\ Earned \in Int /\ Minute \in Nat
    BY <1>1, <2>1, LimiterAssumption DEF IInv, Earned
  <2>4. grantedHere[j][o] + ValueAt(fallback[j][o], now + 1) <= Earned + 1
    BY <2>1, <2>2, <2>3 DEF IsolateInv, Least
  <2>5. Written(fallback[j][o])'
    BY <1>1, <2>1, LimiterAssumption DEF Written, Stored, BucketState
  <2> QED
    BY <1>1, <2>3, <2>4, <2>5 DEF IsolateInv
<1> QED
  BY <1>2, <1>3, <1>4 DEF IInv, Dated

\* The invariant holds throughout.
THEOREM Inductive == Spec => []IInv
<1>1. IInv /\ [Next]_vars => IInv'
  <2> SUFFICES ASSUME IInv, [Next]_vars PROVE IInv'
    OBVIOUS
  <2>1. CASE UNCHANGED vars
    <3>1. Types'
      BY <2>1 DEF IInv, Types, TypeOK, vars
    <3>2. ASSUME NEW o \in Org
          PROVE  OrgInv(o)' /\ Written(object[o])' /\ Written(disk[o])'
      BY <2>1, OrgUntouched DEF vars
    <3>3. ASSUME NEW j \in Isolate, NEW o \in Org
          PROVE  IsolateInv(j, o)' /\ Written(fallback[j][o])'
      BY <2>1, IsolateUntouched DEF vars
    <3> QED
      BY <3>1, <3>2, <3>3 DEF IInv, Dated
  <2> QED
    BY <2>1, DecideStep, WriteStep, EvictStep, RequestStep, FallBackStep, RecycleStep,
       TickStep DEF Next
<1> QED
  BY <1>1, InitIInv, PTL DEF Spec

--------------------------------------------------------------------------------
\* Every bucket holds between nothing and its burst, and every call asks at most twice.
THEOREM TypeCorrect == Spec => []TypeOK
<1>1. IInv => TypeOK
  BY DEF IInv, Types
<1> QED
  BY <1>1, Inductive, PTL

\* From any moment on, an org's object grants a burst and what time earns, for any
\* rate, and any number of isolates, calls, retries, evictions and writes.
THEOREM GrantsAreBounded == Spec => []GrantsBounded
<1>1. IInv => GrantsBounded
  <2> SUFFICES ASSUME IInv, NEW o \in Org PROVE granted[o] <= Earned
    BY DEF GrantsBounded, Earned
  <2> QED
    BY Numbers DEF IInv, OrgInv
<1> QED
  BY <1>1, Inductive, PTL

\* An isolate on its own never grants an org more than that, whatever it evicts.
THEOREM FallbackIsBounded == Spec => []FallbackBounded
<1>1. IInv => FallbackBounded
  <2> SUFFICES ASSUME IInv, NEW i \in Isolate, NEW o \in Org
               PROVE  grantedHere[i][o] <= Earned
    BY DEF FallbackBounded, Earned
  <2>1. ValueAt(fallback[i][o], now) \in 0..Minute /\ grantedHere[i][o] \in Nat
    BY Buckets, ValueBounds DEF Written, IInv, Types, TypeOK
  <2> QED
    BY <2>1, Numbers DEF IInv, IsolateInv
<1> QED
  BY <1>1, Inductive, PTL

\* A caller who waits for as long as Retry-After says finds a token, unless one was
\* granted since.
THEOREM RetryAfterIsTrue == Spec => []RetryAfterKept
<1>1. IInv => RetryAfterKept
  <2> SUFFICES ASSUME IInv, NEW o \in Org, promise[o] # None, now >= promise[o]
               PROVE  Allowed(Loaded(o), Cost, now)
    BY DEF RetryAfterKept
  <2>1. ValueAt(InMemory(o), now) >= Cost
    BY Numbers, Buckets DEF IInv, OrgInv
  <2> QED
    BY <2>1, Buckets, Numbers, LoadedIsFresh, TakenValue DEF Written
<1> QED
  BY <1>1, Inductive, PTL
================================================================================

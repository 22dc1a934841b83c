---------------------------- MODULE RetentionProofs ----------------------------
(***************************************************************************)
(* Retention, for any number of takes and sweeps, any classes, plans,      *)
(* batch size and length of a link.  What makes it hold across three       *)
(* clocks: the bucket's clock starts at most Gap before the row's and its  *)
(* rule waits a day longer; a take gets no new rows once it has ended; and *)
(* a row is locked by a sweep only when it has expired.                    *)
(***************************************************************************)
EXTENDS Retention, WellFoundedInduction, TLAPS

Ended == {"done", "failed", "expired"}

Stamped(a) == artifact[a] # None
Open(s)    == sweep[s] # None

\* A lease is out, or has been, only within the budget, and carries a retention.
LeaseInv == \A j \in Job :
  /\ job[j].state = "queued" => job[j].attempt < MaxAttempts
  /\ job[j].state \in {"leased"} \cup Ended => job[j].days \in Nat

\* The row of an artifact, the take it is of and the object under its key.
StampInv == \A a \in Artifact : Stamped(a) =>
  LET row == artifact[a] IN
  /\ job[a[1]].state \in Ended
  /\ row.key = KeyFor(a, job[a[1]].days)
  /\ row.deleted_at # None => row.expires_at < row.deleted_at /\ row.deleted_at <= now
  /\ row.days <= job[a[1]].days /\ now < row.expires_at =>
       /\ bucket[row.key] # None
       /\ row.expires_at <= bucket[row.key] + Gap + row.days * Day

\* What an open sweep locked had expired when it began, and all that is alive of those jobs is in
\* its snapshot.
SweepInv == \A s \in Sweep : Open(s) => \A m \in sweep[s].marked :
  /\ Stamped(m) /\ artifact[m].expires_at < sweep[s].at /\ sweep[s].at <= now
  /\ \A a \in Artifact : a[1] = m[1] /\ Live(a) => a \in sweep[s].live

\* The other way round for a job that one sweep alone has in hand: all that the
\* snapshot saw of it is still alive.
AloneInv == \A s \in Sweep : Open(s) => \A m \in sweep[s].marked : m[1] \notin split =>
  \A a \in sweep[s].live : a[1] = m[1] => Live(a)

\* Two sweeps that have artifacts of one job in hand have split it.
SplitInv == \A s, t \in Sweep : s # t /\ Open(s) /\ Open(t) =>
  \A m \in sweep[s].marked, l \in sweep[t].marked : m[1] = l[1] => m[1] \in split

\* What a request has read of a row is what the row will always say.
RequestInv == request # None /\ request.expires_at # None =>
  /\ Stamped(request.of)
  /\ request.expires_at = artifact[request.of].expires_at

\* A link outlives its row's retention by the rest of a second at most.
LinkInv == link # None =>
  /\ Stamped(link.of)
  /\ link.expiresAt <= artifact[link.of].expires_at \/ link.expiresAt <= now + 1

\* The inductive invariant.
IInv ==
  /\ TypeOK /\ LeaseInv /\ StampInv /\ SweepInv /\ AloneInv /\ SplitInv
  /\ RequestInv /\ LinkInv /\ ExpiredIsGone /\ StuckOnlyByOverlap

--------------------------------------------------------------------------------
(* Classes, keys and the life of a link.                                   *)

LEMMA MinOf ==
  ASSUME NEW S, S \subseteq Nat, S # {}
  PROVE  Min(S) \in S /\ \A y \in S : Min(S) <= y
<1>1. PICK x \in S : \A y \in S : ~ (<<y, x>> \in OpToRel(<, Nat))
  BY NatLessThanWellFounded, WFMin
<1>2. ASSUME NEW y \in S PROVE x <= y
  <2>1. OpToRel(<, Nat) = {ss \in Nat \X Nat : ss[1] < ss[2]}
    BY Zenon DEF OpToRel
  <2>2. <<y, x>> \notin {ss \in Nat \X Nat : ss[1] < ss[2]}
    BY <1>1, <2>1
  <2> QED
    BY <2>2
<1> QED
  BY <1>2 DEF Min

LEMMA ClassFits ==
  ASSUME NEW days \in Nat
  PROVE  /\ RetentionClass(days) \in Class \cup {Keep}
         /\ RetentionClass(days) # Keep =>
              RetentionClass(days) \in Nat /\ days <= RetentionClass(days)
<1> DEFINE fits == {c \in Class : days <= c}
<1>1. CASE fits = {}
  BY <1>1 DEF RetentionClass
<1>2. CASE fits # {}
  <2>1. fits \subseteq Nat
    BY RetentionAssumption
  <2>2. Min(fits) \in fits
    BY <1>2, <2>1, MinOf
  <2>3. RetentionClass(days) = Min(fits)
    BY <1>2 DEF RetentionClass
  <2> HIDE DEF fits
  <2> QED
    BY <2>1, <2>2, <2>3 DEF fits
<1> QED
  BY <1>1, <1>2

LEMMA KeyIsKey ==
  ASSUME NEW a \in Artifact, NEW days \in Nat
  PROVE  KeyFor(a, days) \in Key /\ KeyFor(a, days)[2] = a
  BY ClassFits DEF KeyFor, Key

LEMMA EffectiveIsNat == TypeOK => EffectiveDays \in Nat
  BY RetentionAssumption DEF TypeOK, EffectiveDays

LEMMA MaxOfTwo ==
  ASSUME NEW x \in Int, NEW y \in Int
  PROVE  Max({x, y}) = IF x >= y THEN x ELSE y
<1> DEFINE m == IF x >= y THEN x ELSE y
<1>1. m \in {x, y} /\ \A z \in {x, y} : m >= z
  OBVIOUS
<1>2. \A w \in {x, y} : (\A z \in {x, y} : w >= z) => w = m
  OBVIOUS
<1> HIDE DEF m
<1>3. Max({x, y}) = m
  BY <1>1, <1>2 DEF Max
<1> QED
  BY <1>3 DEF m

LEMMA MinOfTwo ==
  ASSUME NEW x \in Int, NEW y \in Int
  PROVE  Min({x, y}) = IF x <= y THEN x ELSE y
<1> DEFINE m == IF x <= y THEN x ELSE y
<1>1. m \in {x, y} /\ \A z \in {x, y} : m <= z
  OBVIOUS
<1>2. \A w \in {x, y} : (\A z \in {x, y} : w <= z) => w = m
  OBVIOUS
<1> HIDE DEF m
<1>3. Min({x, y}) = m
  BY <1>1, <1>2 DEF Min
<1> QED
  BY <1>3 DEF m

\* A link lives a second at least, and no longer than what is left of the retention
\* if that is at least a second.
LEMMA LinkTtlBounds ==
  ASSUME NEW left \in Int
  PROVE  LinkTtl(left) \in Nat \ {0} /\ (LinkTtl(left) <= left \/ LinkTtl(left) = 1)
<1>1. Max({1, left}) = IF 1 >= left THEN 1 ELSE left
  BY MaxOfTwo
<1> DEFINE m == Max({1, left})
<1>2. m \in Int /\ (m = 1 \/ m = left) /\ m >= 1
  BY <1>1
<1> HIDE DEF m
<1>3. Min({Ttl, m}) = IF Ttl <= m THEN Ttl ELSE m
  BY <1>2, MinOfTwo, RetentionAssumption
<1> DEFINE n == Min({Ttl, m})
<1>4. n \in Int /\ n <= m
  BY <1>2, <1>3, RetentionAssumption
<1> HIDE DEF n
<1>5. Max({1, n}) = IF 1 >= n THEN 1 ELSE n
  BY <1>4, MaxOfTwo
<1>6. LinkTtl(left) = Max({1, n})
  BY DEF LinkTtl, m, n
<1> QED
  BY <1>2, <1>4, <1>5, <1>6

LEMMA DaysGrow ==
  ASSUME NEW d \in Nat, NEW c \in Nat, d <= c
  PROVE  d * Day \in Nat /\ d * Day <= c * Day /\ (c + 1) * Day = c * Day + Day
<1>1. Day \in Nat
  BY RetentionAssumption
<1>2. PICK e \in Nat : c = d + e
  <2>1. c - d \in Nat /\ c = d + (c - d)
    OBVIOUS
  <2> QED
    BY <2>1
<1>3. e * Day \in Nat /\ d * Day \in Nat
  BY <1>1
<1>4. c * Day = d * Day + e * Day
  BY <1>1, <1>2
<1> QED
  BY <1>1, <1>3, <1>4

--------------------------------------------------------------------------------
(* The steps.                                                              *)

LEMMA InitIInv == Init => IInv
<1> SUFFICES ASSUME Init PROVE IInv
  OBVIOUS
<1> USE RetentionAssumption DEF Init
<1>1. TypeOK
  BY DEF TypeOK
<1>2. LeaseInv
  BY DEF LeaseInv, Ended
<1>3. StampInv /\ LinkInv /\ RequestInv
  BY DEF StampInv, Stamped, LinkInv, RequestInv, Usable
<1>4. SweepInv /\ AloneInv /\ SplitInv
  BY DEF SweepInv, AloneInv, SplitInv, Open
<1>5. ExpiredIsGone /\ StuckOnlyByOverlap
  BY DEF ExpiredIsGone, StuckOnlyByOverlap
<1> QED
  BY <1>1, <1>2, <1>3, <1>4, <1>5 DEF IInv

\* A take that has not ended has no rows: what happens to it and to its objects is
\* no concern of those that have.
LEMMA UnendedKeeps ==
  ASSUME IInv, UNCHANGED <<now, artifact, sweep, split, request, link>>, NEW j \in Job,
         job[j].state \notin Ended, job'[j].state \notin {"done", "expired"},
         \A i \in Job \ {j} : job'[i] = job[i],
         \A k \in Key : k[2][1] # j => bucket'[k] = bucket[k],
         TypeOK', LeaseInv'
  PROVE  IInv'
<1>1. StampInv'
  <2> SUFFICES ASSUME NEW a \in Artifact, Stamped(a)
               PROVE  /\ job'[a[1]] = job[a[1]] /\ job[a[1]].state \in Ended
                      /\ bucket'[artifact[a].key] = bucket[artifact[a].key]
    BY DEF StampInv, Stamped, IInv, KeyFor
  <2>1. job[a[1]].state \in Ended /\ artifact[a].key = KeyFor(a, job[a[1]].days)
    BY DEF IInv, StampInv
  <2>2. a[1] \in Job /\ job[a[1]].days \in Nat
    BY <2>1 DEF Artifact, IInv, LeaseInv
  <2>3. artifact[a].key \in Key /\ artifact[a].key[2] = a
    BY <2>1, <2>2, KeyIsKey
  <2> QED
    BY <2>1, <2>2, <2>3
<1>2. SweepInv' /\ AloneInv' /\ SplitInv'
  BY DEF IInv, SweepInv, AloneInv, SplitInv, Open, Stamped, Live
<1>3. LinkInv' /\ RequestInv'
  BY DEF IInv, LinkInv, RequestInv, Stamped
<1>4. ExpiredIsGone' /\ StuckOnlyByOverlap'
  BY DEF IInv, ExpiredIsGone, StuckOnlyByOverlap, Live
<1> QED
  BY <1>1, <1>2, <1>3, <1>4 DEF IInv

LEMMA SetRetentionStep ==
  ASSUME IInv, NEW days \in Plan \cup {None}, SetRetention(days)
  PROVE  IInv'
<1> USE DEF IInv, SetRetention
<1>1. TypeOK' /\ LeaseInv'
  BY DEF TypeOK, LeaseInv
<1>2. StampInv' /\ SweepInv' /\ AloneInv' /\ SplitInv' /\ LinkInv'
  BY DEF StampInv, SweepInv, AloneInv, SplitInv, LinkInv, Stamped, Open, Live, KeyFor
<1>3. ExpiredIsGone' /\ StuckOnlyByOverlap' /\ RequestInv'
  BY DEF ExpiredIsGone, StuckOnlyByOverlap, RequestInv, Live, Stamped
<1> QED
  BY <1>1, <1>2, <1>3

LEMMA LeaseStep ==
  ASSUME IInv, NEW j \in Job, Lease(j)
  PROVE  IInv'
<1> USE DEF IInv
<1>1. EffectiveDays \in Nat
  BY EffectiveIsNat
<1> DEFINE n == [state |-> "leased", attempt |-> job[j].attempt + 1,
                 days |-> EffectiveDays, uploaded |-> {}]
<1>2. job' = [job EXCEPT ![j] = n]
  BY DEF Lease
<1>3. n \in [state : {"queued", "leased", "done", "failed", "expired"},
             attempt : 0..MaxAttempts, days : Nat \cup {None}, uploaded : SUBSET Kind]
      /\ n.state = "leased" /\ n.days \in Nat
  BY <1>1, RetentionAssumption DEF Lease, LeaseInv, TypeOK
<1> HIDE DEF n
<1>4. TypeOK'
  BY <1>2, <1>3 DEF TypeOK, Lease
<1>5. LeaseInv'
  BY <1>2, <1>3 DEF LeaseInv, TypeOK, Ended
<1>6. job[j].state \notin Ended /\ job'[j] = n /\ \A i \in Job \ {j} : job'[i] = job[i]
  BY <1>2 DEF Lease, Ended, TypeOK
<1>7. UNCHANGED <<now, artifact, sweep, split, request, link, bucket>>
  BY DEF Lease
<1> QED
  BY <1>3, <1>4, <1>5, <1>6, <1>7, UnendedKeeps

LEMMA LoseAttemptStep ==
  ASSUME IInv, NEW j \in Job, LoseAttempt(j)
  PROVE  IInv'
<1> USE DEF IInv
<1> DEFINE st == IF job[j].attempt < MaxAttempts THEN "queued" ELSE "failed"
           n == [job[j] EXCEPT !.state = st, !.uploaded = {}]
<1>1. job' = [job EXCEPT ![j] = n]
  BY DEF LoseAttempt, TypeOK
<1>2. /\ n \in [state : {"queued", "leased", "done", "failed", "expired"},
                attempt : 0..MaxAttempts, days : Nat \cup {None}, uploaded : SUBSET Kind]
      /\ n.state = st /\ n.days \in Nat /\ n.attempt = job[j].attempt
  BY DEF LoseAttempt, LeaseInv, TypeOK
<1> HIDE DEF n
<1>3. TypeOK'
  BY <1>1, <1>2 DEF TypeOK, LoseAttempt
<1>4. LeaseInv'
  BY <1>1, <1>2 DEF LeaseInv, TypeOK, Ended
<1>5. job[j].state \notin Ended /\ job'[j] = n /\ \A i \in Job \ {j} : job'[i] = job[i]
  BY <1>1 DEF LoseAttempt, Ended, TypeOK
<1>6. UNCHANGED <<now, artifact, sweep, split, request, link, bucket>>
  BY DEF LoseAttempt
<1> QED
  BY <1>2, <1>3, <1>4, <1>5, <1>6, UnendedKeeps

LEMMA UploadStep ==
  ASSUME IInv, NEW j \in Job, NEW kind \in Kind, Upload(j, kind)
  PROVE  IInv'
<1> USE DEF IInv
<1> DEFINE n == [job[j] EXCEPT !.uploaded = @ \cup {kind}]
           key == KeyFor(<<j, kind>>, job[j].days)
<1>1. job' = [job EXCEPT ![j] = n] /\ bucket' = [bucket EXCEPT ![key] = now]
  BY DEF Upload, TypeOK
<1>2. /\ n \in [state : {"queued", "leased", "done", "failed", "expired"},
                attempt : 0..MaxAttempts, days : Nat \cup {None}, uploaded : SUBSET Kind]
      /\ n.state = "leased" /\ n.days \in Nat
  BY DEF Upload, LeaseInv, TypeOK
<1>3. key \in Key /\ key[2] = <<j, kind>>
  BY KeyIsKey DEF Upload, LeaseInv, Artifact
<1> HIDE DEF n, key
<1>4. TypeOK'
  <2>1. job' \in [Job -> [state : {"queued", "leased", "done", "failed", "expired"},
                          attempt : 0..MaxAttempts, days : Nat \cup {None},
                          uploaded : SUBSET Kind]]
    BY <1>1, <1>2 DEF TypeOK
  <2>2. bucket' \in [Key -> 0..Horizon \cup {None}]
    BY <1>1, <1>3 DEF TypeOK
  <2> QED
    BY <2>1, <2>2 DEF TypeOK, Upload
<1>5. LeaseInv'
  BY <1>1, <1>2 DEF LeaseInv, TypeOK, Ended
<1>6. job[j].state \notin Ended /\ job'[j] = n /\ \A i \in Job \ {j} : job'[i] = job[i]
  BY <1>1 DEF Upload, Ended, TypeOK
<1>7. \A k \in Key : k[2][1] # j => bucket'[k] = bucket[k]
  BY <1>1, <1>3 DEF TypeOK
<1>8. UNCHANGED <<now, artifact, sweep, split, request, link>>
  BY DEF Upload
<1> QED
  BY <1>2, <1>4, <1>5, <1>6, <1>7, <1>8, UnendedKeeps

\* The row a completed take writes, and the clocks it starts.
LEMMA CompleteStep ==
  ASSUME IInv, NEW j \in Job, NEW outcome \in {"done", "failed"}, Complete(j, outcome)
  PROVE  IInv'
<1> USE DEF IInv
<1> DEFINE days == EffectiveDays
           row(a) == [key |-> KeyFor(a, job[j].days), days |-> days,
                      expires_at |-> now + days * Day, deleted_at |-> None]
           new(a) == a[1] = j /\ a[2] \in job[j].uploaded
           n == [job[j] EXCEPT !.state = outcome]
<1>1. /\ days \in Nat /\ days * Day \in Nat /\ now \in Nat
      /\ job[j].state = "leased" /\ job[j].days \in Nat
      /\ "video" \in job[j].uploaded /\ "video" \in Kind
  BY EffectiveIsNat, DaysGrow, RetentionAssumption DEF Complete, LeaseInv, TypeOK
<1>2. job' = [job EXCEPT ![j] = n]
  BY DEF Complete, TypeOK
<1>3. /\ n \in [state : {"queued", "leased", "done", "failed", "expired"},
                attempt : 0..MaxAttempts, days : Nat \cup {None}, uploaded : SUBSET Kind]
      /\ n.state = outcome /\ n.days = job[j].days
  BY <1>1 DEF TypeOK
<1>4. UNCHANGED <<now, retention, bucket, sweep, split, request, link>>
  BY DEF Complete
<1>5. \A a \in Artifact : artifact'[a] = IF new(a) THEN row(a) ELSE artifact[a]
  BY DEF Complete
<1>6. ASSUME NEW a \in Artifact, new(a)
      PROVE  /\ row(a) \in Stored /\ row(a) # None
             /\ row(a).key \in Key /\ row(a).deleted_at = None
  <2>1. KeyFor(a, job[j].days) \in Key
    BY <1>1, KeyIsKey
  <2>2. row(a) \in Stored
    BY <1>1, <2>1 DEF Stored
  <2> QED
    BY <2>1, <2>2, NoneAssumption
<1>7. ASSUME NEW a \in Artifact, new(a)
      PROVE  bucket[row(a).key] # None /\ now <= bucket[row(a).key] + Gap
  <2>1. a = <<j, a[2]>> /\ a[2] \in job[j].uploaded
    BY <1>7 DEF Artifact
  <2>2. FreshObject(KeyFor(<<j, a[2]>>, job[j].days))
    BY <2>1 DEF Complete
  <2>3. row(a).key \in Key
    BY <1>6, <1>7
  <2> QED
    BY <1>1, <2>1, <2>2, <2>3, RetentionAssumption DEF FreshObject, TypeOK
<1> HIDE DEF n, row, days
<1>8. TypeOK'
  <2>1. artifact' \in [Artifact -> Stored \cup {None}]
    BY <1>5, <1>6 DEF TypeOK, Complete, row, days
  <2> QED
    BY <1>2, <1>3, <1>4, <2>1 DEF TypeOK
<1>9. LeaseInv'
  BY <1>1, <1>2, <1>3 DEF LeaseInv, TypeOK, Ended
<1>10. job'[j] = n /\ \A i \in Job \ {j} : job'[i] = job[i]
  BY <1>2 DEF TypeOK
<1>11. \A a \in Artifact : Stamped(a) => a[1] # j /\ ~new(a) /\ artifact'[a] = artifact[a]
  BY <1>1, <1>5 DEF StampInv, Ended
<1>12. StampInv'
  <2> SUFFICES ASSUME NEW a \in Artifact, Stamped(a)'
               PROVE  /\ job'[a[1]].state \in Ended
                      /\ artifact'[a].key = KeyFor(a, job'[a[1]].days)
                      /\ artifact'[a].deleted_at # None =>
                           /\ artifact'[a].expires_at < artifact'[a].deleted_at
                           /\ artifact'[a].deleted_at <= now
                      /\ artifact'[a].days <= job'[a[1]].days /\ now < artifact'[a].expires_at =>
                           /\ bucket[artifact'[a].key] # None
                           /\ artifact'[a].expires_at <=
                                bucket[artifact'[a].key] + Gap + artifact'[a].days * Day
    BY <1>4 DEF StampInv, KeyFor
  <2>1. CASE new(a)
    <3>1. artifact'[a] = row(a)
      BY <1>5, <2>1
    <3>2. /\ row(a).key = KeyFor(a, job[j].days) /\ row(a).days = days
          /\ row(a).expires_at = now + days * Day /\ row(a).deleted_at = None
      BY DEF row
    <3>3. bucket[row(a).key] # None /\ bucket[row(a).key] \in Nat
          /\ now <= bucket[row(a).key] + Gap
      BY <1>6, <1>7, <2>1 DEF TypeOK
    <3>4. job'[a[1]].state \in Ended /\ job'[a[1]].days = job[j].days
      BY <1>3, <1>10, <2>1 DEF Ended
    <3> QED
      BY <1>1, <3>1, <3>2, <3>3, <3>4, RetentionAssumption
  <2>2. CASE ~new(a)
    <3>1. artifact'[a] = artifact[a] /\ Stamped(a)
      BY <1>5, <2>2 DEF Stamped
    <3>2. a[1] # j /\ a[1] \in Job
      BY <1>11, <3>1 DEF Artifact
    <3> QED
      BY <1>10, <3>1, <3>2 DEF StampInv
  <2> QED
    BY <2>1, <2>2
<1>13. SweepInv' /\ AloneInv' /\ SplitInv'
  <2>1. \A s \in Sweep : Open(s) => sweep[s].marked \subseteq Artifact
                                    /\ sweep[s].live \subseteq Artifact
    BY DEF TypeOK, Open, Run
  <2>2. \A s \in Sweep : Open(s) => \A m \in sweep[s].marked :
          Stamped(m) /\ m[1] # j /\ artifact'[m] = artifact[m]
    BY <1>11, <2>1 DEF SweepInv
  <2>3. \A a \in Artifact : a[1] # j => artifact'[a] = artifact[a]
    BY <1>5
  <2>4. SweepInv'
    BY <1>4, <2>1, <2>2, <2>3 DEF SweepInv, Open, Stamped, Live
  <2>5. AloneInv'
    BY <1>4, <2>1, <2>2, <2>3 DEF AloneInv, Open, Live
  <2> QED
    BY <1>4, <2>4, <2>5 DEF SplitInv, Open
<1>14. LinkInv' /\ RequestInv'
  <2>1. /\ link # None => link.of \in Artifact
        /\ request # None => request.of \in Artifact
    BY DEF TypeOK, Link, Asked
  <2>2. link # None => Stamped(link.of) /\ artifact'[link.of] = artifact[link.of]
    BY <1>11, <2>1 DEF LinkInv
  <2>3. request # None /\ request.expires_at # None =>
          Stamped(request.of) /\ artifact'[request.of] = artifact[request.of]
    BY <1>11, <2>1 DEF RequestInv
  <2> QED
    BY <1>4, <2>2, <2>3 DEF LinkInv, RequestInv, Stamped
<1>15. ExpiredIsGone'
  BY <1>3, <1>5, <1>10 DEF ExpiredIsGone, Live, Artifact
<1>16. StuckOnlyByOverlap'
  <2> SUFFICES ASSUME NEW i \in Job, job'[i].state = "done", i \notin split
               PROVE  \E kind \in Kind : Live(<<i, kind>>)'
    BY <1>4 DEF StuckOnlyByOverlap
  <2>1. CASE i = j
    <3>1. <<j, "video">> \in Artifact /\ new(<<j, "video">>)
      BY <1>1 DEF Artifact
    <3>2. Live(<<j, "video">>)'
      BY <1>5, <1>6, <3>1 DEF Live
    <3> QED
      BY <1>1, <2>1, <3>2
  <2>2. CASE i # j
    BY <1>5, <1>10, <2>2 DEF StuckOnlyByOverlap, Live, Artifact
  <2> QED
    BY <2>1, <2>2
<1> QED
  BY <1>8, <1>9, <1>12, <1>13, <1>14, <1>15, <1>16

LEMMA BeginSweepStep ==
  ASSUME IInv, NEW s \in Sweep, NEW M \in SUBSET Due, BeginSweep(s, M)
  PROVE  IInv'
<1> USE DEF IInv
<1> DEFINE run == [at |-> now, marked |-> M, live |-> {a \in Artifact : Live(a)}]
<1>1. \A m \in M : m \in Artifact /\ Live(m) /\ artifact[m].expires_at < now
  BY DEF Due
<1>2. run \in Run /\ run # None /\ run.marked = M /\ run.live = {a \in Artifact : Live(a)}
      /\ run.at = now /\ now \in Nat
  <2>1. run \in Run /\ now \in Nat
    BY <1>1, RetentionAssumption DEF Run, TypeOK
  <2> QED
    BY <2>1, NoneAssumption
<1>3. sweep' = [sweep EXCEPT ![s] = run]
  BY DEF BeginSweep
<1> HIDE DEF run
<1>4. sweep'[s] = run /\ \A t \in Sweep \ {s} : sweep'[t] = sweep[t]
  BY <1>3 DEF TypeOK
<1>5. UNCHANGED <<now, retention, job, artifact, bucket, request, link>>
  BY DEF BeginSweep
<1>6. split \subseteq split' /\ split' \subseteq Job
  BY DEF BeginSweep, TypeOK
<1>7. ASSUME NEW t \in Sweep \ {s}, Open(t), NEW m \in M, NEW l \in sweep[t].marked,
             m[1] = l[1]
      PROVE  m[1] \in split'
  <2>1. l \in Locked
    BY <1>7 DEF Locked, Open
  <2>2. m[1] \in Job
    BY <1>1 DEF Artifact
  <2> QED
    BY <1>7, <2>1, <2>2 DEF BeginSweep
<1>8. TypeOK'
  BY <1>2, <1>3, <1>5, <1>6 DEF TypeOK
<1>9. LeaseInv' /\ StampInv'
  BY <1>5 DEF LeaseInv, StampInv, Stamped, KeyFor
<1>10. SweepInv'
  <2> SUFFICES ASSUME NEW t \in Sweep, Open(t)', NEW m \in sweep'[t].marked
               PROVE  /\ Stamped(m) /\ artifact[m].expires_at < sweep'[t].at /\ sweep'[t].at <= now
                      /\ \A a \in Artifact : a[1] = m[1] /\ Live(a) => a \in sweep'[t].live
    BY <1>5 DEF SweepInv, Stamped, Live
  <2>1. CASE t = s
    BY <1>1, <1>2, <1>4, <2>1 DEF Live, Stamped
  <2>2. CASE t # s
    BY <1>4, <2>2 DEF SweepInv, Open
  <2> QED
    BY <2>1, <2>2
<1>11. AloneInv'
  <2> SUFFICES ASSUME NEW t \in Sweep, Open(t)', NEW m \in sweep'[t].marked,
                      m[1] \notin split', NEW a \in sweep'[t].live, a[1] = m[1]
               PROVE  Live(a)
    BY <1>5 DEF AloneInv, Live
  <2>1. CASE t = s
    BY <1>2, <1>4, <2>1
  <2>2. CASE t # s
    BY <1>4, <1>6, <2>2 DEF AloneInv, Open
  <2> QED
    BY <2>1, <2>2
<1>12. SplitInv'
  <2> SUFFICES ASSUME NEW t \in Sweep, NEW u \in Sweep, t # u, Open(t)', Open(u)',
                      NEW m \in sweep'[t].marked, NEW l \in sweep'[u].marked, m[1] = l[1]
               PROVE  m[1] \in split'
    BY DEF SplitInv
  <2>1. CASE t = s
    BY <1>2, <1>4, <1>7, <2>1 DEF Open
  <2>2. CASE u = s
    BY <1>2, <1>4, <1>7, <2>2 DEF Open
  <2>3. CASE t # s /\ u # s
    BY <1>4, <1>6, <2>3 DEF SplitInv, Open
  <2> QED
    BY <2>1, <2>2, <2>3
<1>13. LinkInv' /\ ExpiredIsGone' /\ StuckOnlyByOverlap' /\ RequestInv'
  BY <1>5, <1>6 DEF LinkInv, ExpiredIsGone, StuckOnlyByOverlap, RequestInv, Stamped,
                    Live
<1> QED
  BY <1>8, <1>9, <1>10, <1>11, <1>12, <1>13

LEMMA CommitSweepStep ==
  ASSUME IInv, NEW s \in Sweep, CommitSweep(s)
  PROVE  IInv'
<1> USE DEF IInv
<1> DEFINE w == sweep[s]
           swept(a) == [artifact[a] EXCEPT !.deleted_at = w.at]
           gone(i) == [job[i] EXCEPT !.state = "expired"]
<1>1. /\ Open(s) /\ w \in Run /\ w.marked \subseteq Artifact /\ w.live \subseteq Artifact
      /\ now \in Nat /\ w.at \in 0..Horizon /\ w.at \in Nat
  BY RetentionAssumption DEF CommitSweep, Open, TypeOK, Run
<1>2. UNCHANGED <<now, retention, bucket, split, request, link>>
  BY DEF CommitSweep
<1>3. \A a \in Artifact : artifact'[a] = IF a \in w.marked THEN swept(a) ELSE artifact[a]
  BY DEF CommitSweep
<1>4. \A i \in Job : job'[i] = IF i \in Finished(w) THEN gone(i) ELSE job[i]
  BY DEF CommitSweep
<1>5. sweep'[s] = None /\ \A t \in Sweep \ {s} : sweep'[t] = sweep[t]
  BY DEF CommitSweep, TypeOK
<1>6. ASSUME NEW a \in w.marked
      PROVE  /\ Stamped(a) /\ artifact[a] \in Stored
             /\ artifact[a].expires_at < w.at /\ w.at <= now
             /\ swept(a) \in Stored /\ swept(a) # None
             /\ swept(a).key = artifact[a].key /\ swept(a).days = artifact[a].days
             /\ swept(a).expires_at = artifact[a].expires_at /\ swept(a).deleted_at = w.at
             /\ w.at # None
  <2>1. Stamped(a) /\ artifact[a].expires_at < w.at /\ w.at <= now
    BY <1>1 DEF SweepInv
  <2>2. artifact[a] \in Stored
    BY <1>1, <2>1 DEF TypeOK, Stamped
  <2>3. swept(a) \in Stored
    BY <1>1, <2>2 DEF Stored
  <2>4. swept(a) # None /\ w.at # None
    BY <1>1, <2>3, NoneAssumption
  <2> QED
    BY <2>1, <2>2, <2>3, <2>4 DEF Stored
<1>7. ASSUME NEW i \in Job
      PROVE  /\ job'[i].days = job[i].days /\ job'[i].attempt = job[i].attempt
             /\ job'[i].state = IF i \in Finished(w) THEN "expired" ELSE job[i].state
             /\ job'[i] \in [state : {"queued", "leased", "done", "failed", "expired"},
                             attempt : 0..MaxAttempts, days : Nat \cup {None},
                             uploaded : SUBSET Kind]
  BY <1>4 DEF TypeOK
<1>8. \A i \in Job : i \in Finished(w) => job[i].state = "done"
  BY DEF Finished
<1> HIDE DEF swept, gone
<1>9. \A a \in Artifact : Live(a)' <=> Live(a) /\ a \notin w.marked
  BY <1>3, <1>6 DEF Live
<1>10. \A a \in Artifact : (Stamped(a)' <=> Stamped(a))
         /\ (Stamped(a) => artifact'[a].expires_at = artifact[a].expires_at)
  BY <1>3, <1>6 DEF Stamped
<1>11. TypeOK'
  <2>1. artifact' \in [Artifact -> Stored \cup {None}]
    BY <1>1, <1>3, <1>6 DEF TypeOK, CommitSweep, swept
  <2>2. job' \in [Job -> [state : {"queued", "leased", "done", "failed", "expired"},
                          attempt : 0..MaxAttempts, days : Nat \cup {None},
                          uploaded : SUBSET Kind]]
    BY <1>7 DEF CommitSweep
  <2>3. sweep' \in [Sweep -> Run \cup {None}]
    BY DEF CommitSweep, TypeOK
  <2> QED
    BY <1>2, <2>1, <2>2, <2>3 DEF TypeOK
<1>12. LeaseInv'
  BY <1>7, <1>8 DEF LeaseInv, Ended
<1>13. StampInv'
  <2> SUFFICES ASSUME NEW a \in Artifact, Stamped(a)
               PROVE  /\ job'[a[1]].state \in Ended
                      /\ artifact'[a].key = KeyFor(a, job'[a[1]].days)
                      /\ artifact'[a].deleted_at # None =>
                           /\ artifact'[a].expires_at < artifact'[a].deleted_at
                           /\ artifact'[a].deleted_at <= now
                      /\ artifact'[a].days <= job'[a[1]].days /\ now < artifact'[a].expires_at =>
                           /\ bucket[artifact'[a].key] # None
                           /\ artifact'[a].expires_at <=
                                bucket[artifact'[a].key] + Gap + artifact'[a].days * Day
    BY <1>2, <1>10 DEF StampInv, KeyFor
  <2>1. a[1] \in Job
    BY DEF Artifact
  <2>2. job'[a[1]].state \in Ended /\ job'[a[1]].days = job[a[1]].days
    BY <1>7, <2>1 DEF StampInv, Ended
  <2>3. CASE a \in w.marked
    <3>1. /\ artifact'[a].key = artifact[a].key /\ artifact'[a].days = artifact[a].days
          /\ artifact'[a].expires_at = artifact[a].expires_at /\ artifact'[a].deleted_at = w.at
          /\ artifact[a].expires_at < w.at /\ w.at <= now /\ artifact[a].expires_at \in Nat
      BY <1>3, <1>6, <2>3 DEF Stored
    <3> QED
      BY <1>1, <2>2, <3>1 DEF StampInv
  <2>4. CASE a \notin w.marked
    BY <1>3, <2>2, <2>4 DEF StampInv
  <2> QED
    BY <2>3, <2>4
<1>14. \A t \in Sweep : Open(t)' => t # s /\ Open(t) /\ sweep'[t] = sweep[t]
                                    /\ sweep[t].marked \subseteq Artifact
                                    /\ sweep[t].live \subseteq Artifact
  BY <1>5 DEF Open, TypeOK, Run
<1>15. SweepInv'
  BY <1>2, <1>9, <1>10, <1>14 DEF SweepInv
<1>16. AloneInv'
  <2> SUFFICES ASSUME NEW t \in Sweep, Open(t)', NEW m \in sweep'[t].marked,
                      m[1] \notin split, NEW a \in sweep'[t].live, a[1] = m[1]
               PROVE  Live(a)'
    BY <1>2 DEF AloneInv
  <2>1. Live(a)
    BY <1>14 DEF AloneInv
  <2>2. a \notin w.marked
    BY <1>1, <1>14 DEF SplitInv
  <2> QED
    BY <1>9, <1>14, <2>1, <2>2
<1>17. SplitInv'
  BY <1>2, <1>14 DEF SplitInv
<1>18. LinkInv' /\ RequestInv'
  <2>1. /\ link # None => link.of \in Artifact
        /\ request # None => request.of \in Artifact
    BY DEF TypeOK, Link, Asked
  <2> QED
    BY <1>2, <1>10, <2>1 DEF LinkInv, RequestInv
<1>19. ExpiredIsGone'
  <2> SUFFICES ASSUME NEW i \in Job, NEW kind \in Kind, job'[i].state = "expired"
               PROVE  ~Live(<<i, kind>>)'
    BY DEF ExpiredIsGone
  <2>1. <<i, kind>> \in Artifact
    BY DEF Artifact
  <2>2. CASE i \in Finished(w)
    <3>1. PICK m \in w.marked : m[1] = i
      BY <2>2 DEF Finished
    <3>2. Live(<<i, kind>>) => <<i, kind>> \in w.live
      BY <1>1, <2>1, <3>1 DEF SweepInv
    <3> QED
      BY <1>9, <2>1, <2>2, <3>2 DEF Finished
  <2>3. CASE i \notin Finished(w)
    BY <1>7, <1>9, <2>1, <2>3 DEF ExpiredIsGone
  <2> QED
    BY <2>2, <2>3
<1>20. StuckOnlyByOverlap'
  <2> SUFFICES ASSUME NEW i \in Job, job'[i].state = "done", i \notin split
               PROVE  \E kind \in Kind : Live(<<i, kind>>)'
    BY <1>2 DEF StuckOnlyByOverlap
  <2>1. i \notin Finished(w) /\ job[i].state = "done"
    BY <1>7
  <2>2. CASE \E m \in w.marked : m[1] = i
    <3>1. PICK a \in w.live \ w.marked : a[1] = i
      BY <2>1, <2>2 DEF Finished
    <3>2. Live(a) /\ a \in Artifact
      BY <1>1, <2>2, <3>1 DEF AloneInv
    <3>3. Live(a)' /\ a[2] \in Kind /\ a = <<i, a[2]>>
      BY <1>9, <3>1, <3>2 DEF Artifact
    <3> QED
      BY <3>3
  <2>3. CASE ~ \E m \in w.marked : m[1] = i
    <3>1. PICK kind \in Kind : Live(<<i, kind>>)
      BY <2>1 DEF StuckOnlyByOverlap
    <3>2. <<i, kind>> \in Artifact /\ <<i, kind>> \notin w.marked
      BY <2>3 DEF Artifact
    <3> QED
      BY <1>9, <3>1, <3>2
  <2> QED
    BY <2>2, <2>3
<1> QED
  BY <1>11, <1>12, <1>13, <1>15, <1>16, <1>17, <1>18, <1>19, <1>20

\* The reads of a request and the link it mints leave rows, objects and sweeps alone.
LEMMA ReadsOnly ==
  ASSUME IInv, UNCHANGED <<now, retention, job, artifact, bucket, sweep, split>>,
         request' \in Asked \cup {None}, link' \in Link \cup {None}, RequestInv', LinkInv'
  PROVE  IInv'
<1> USE DEF IInv
<1>1. TypeOK' /\ LeaseInv' /\ StampInv'
  BY DEF TypeOK, LeaseInv, StampInv, Stamped, KeyFor
<1>2. SweepInv' /\ AloneInv' /\ SplitInv' /\ ExpiredIsGone' /\ StuckOnlyByOverlap'
  BY DEF SweepInv, AloneInv, SplitInv, ExpiredIsGone, StuckOnlyByOverlap, Open, Stamped, Live
<1> QED
  BY <1>1, <1>2

LEMMA FetchJobStep ==
  ASSUME IInv, NEW a \in Artifact, FetchJob(a)
  PROVE  IInv'
<1>1. request' \in Asked /\ request'.expires_at = None /\ link' = link
  BY DEF FetchJob, Asked
<1>2. RequestInv' /\ LinkInv'
  BY <1>1 DEF RequestInv, LinkInv, FetchJob
<1> QED
  BY <1>1, <1>2, ReadsOnly DEF FetchJob, IInv, TypeOK

LEMMA SelectArtifactStep ==
  ASSUME IInv, SelectArtifact
  PROVE  IInv'
<1> DEFINE a == request.of
<1>1. /\ UNCHANGED <<now, retention, job, artifact, bucket, sweep, split, link>>
      /\ request \in Asked /\ a \in Artifact
  BY DEF SelectArtifact, IInv, TypeOK, Asked
<1>2. LinkInv'
  BY <1>1 DEF IInv, LinkInv, Stamped
<1>3. CASE Live(a)
  <2>1. Stamped(a) /\ artifact[a].expires_at \in Nat
    BY <1>1, <1>3 DEF Live, Stamped, IInv, TypeOK, Stored
  <2>2. request' = [request EXCEPT !.expires_at = artifact[a].expires_at]
    BY <1>3 DEF SelectArtifact
  <2>3. /\ request' \in Asked /\ request'.of = a
        /\ request'.expires_at = artifact[a].expires_at
    BY <1>1, <2>1, <2>2 DEF Asked
  <2>4. RequestInv'
    BY <1>1, <2>1, <2>3 DEF RequestInv, Stamped
  <2> QED
    BY <1>1, <1>2, <2>3, <2>4, ReadsOnly DEF IInv, TypeOK
<1>4. CASE ~Live(a)
  <2>1. request' = None
    BY <1>4 DEF SelectArtifact
  <2>2. RequestInv'
    BY <2>1 DEF RequestInv
  <2> QED
    BY <1>1, <1>2, <2>1, <2>2, ReadsOnly DEF IInv, TypeOK
<1> QED
  BY <1>3, <1>4

\* However long ago the row was read, it still says what was read.
LEMMA MintLinkStep ==
  ASSUME IInv, MintLink
  PROVE  IInv'
<1> DEFINE l == [of |-> request.of, expiresAt |-> now + LinkTtl(request.expires_at - now)]
<1>1. /\ UNCHANGED <<now, retention, job, artifact, bucket, sweep, split>>
      /\ link' = l /\ request' = None
  BY DEF MintLink
<1>2. /\ request.of \in Artifact /\ request.expires_at \in Nat /\ now \in Nat
      /\ Stamped(request.of) /\ request.expires_at = artifact[request.of].expires_at
  BY RetentionAssumption DEF MintLink, IInv, TypeOK, Asked, RequestInv
<1>3. /\ LinkTtl(request.expires_at - now) \in Nat
      /\ l.expiresAt <= request.expires_at \/ l.expiresAt <= now + 1
  BY <1>2, LinkTtlBounds
<1>4. l \in Link /\ l.of = request.of
  BY <1>2, <1>3 DEF Link
<1> HIDE DEF l
<1>5. LinkInv' /\ RequestInv'
  BY <1>1, <1>2, <1>3, <1>4 DEF LinkInv, RequestInv, Stamped
<1> QED
  BY <1>1, <1>4, <1>5, ReadsOnly

\* The rule's extra day is longer than the object can be older than its row.
LEMMA LifecycleDeletesStep ==
  ASSUME IInv, NEW key \in Key, LifecycleDeletes(key)
  PROVE  IInv'
<1> USE DEF IInv
<1>1. /\ UNCHANGED <<now, retention, job, artifact, sweep, split, request, link>>
      /\ bucket' = [bucket EXCEPT ![key] = None]
  BY DEF LifecycleDeletes
<1>2. TypeOK' /\ LeaseInv' /\ LinkInv' /\ RequestInv'
  BY <1>1 DEF TypeOK, LeaseInv, LinkInv, RequestInv, Stamped
<1>3. SweepInv' /\ AloneInv' /\ SplitInv' /\ ExpiredIsGone' /\ StuckOnlyByOverlap'
  BY <1>1 DEF SweepInv, AloneInv, SplitInv, ExpiredIsGone, StuckOnlyByOverlap, Open,
              Stamped, Live
<1>4. StampInv'
  <2> SUFFICES ASSUME NEW a \in Artifact, Stamped(a),
                      artifact[a].days <= job[a[1]].days, now < artifact[a].expires_at
               PROVE  bucket'[artifact[a].key] = bucket[artifact[a].key]
    BY <1>1 DEF StampInv, Stamped, KeyFor
  <2> DEFINE k == artifact[a].key
             days == artifact[a].days
             class == RetentionClass(job[a[1]].days)
  <2>1. /\ artifact[a] \in Stored /\ k \in Key /\ days \in Nat /\ now \in Nat
        /\ job[a[1]].days \in Nat
    BY RetentionAssumption DEF StampInv, LeaseInv, TypeOK, Stored, Stamped, Artifact
  <2>2. /\ k = KeyFor(a, job[a[1]].days) /\ bucket[k] # None
        /\ artifact[a].expires_at <= bucket[k] + Gap + days * Day
    BY DEF StampInv
  <2>3. k[1] = class /\ (class # Keep => class \in Nat /\ days <= class)
    BY <2>1, <2>2, ClassFits DEF KeyFor
  <2>4. ASSUME k = key PROVE FALSE
    <3>1. class \in Nat /\ days <= class /\ now - bucket[k] >= (class + 1) * Day
      BY <2>3, <2>4 DEF LifecycleDeletes, LifecycleDays
    <3>2. days * Day \in Nat /\ days * Day <= class * Day
          /\ (class + 1) * Day = class * Day + Day
      BY <2>1, <3>1, DaysGrow
    <3>3. class * Day \in Nat /\ bucket[k] \in Nat /\ Gap \in Nat /\ Gap <= Day /\ Day \in Nat
      BY <2>1, <2>2, <3>1, RetentionAssumption DEF TypeOK
    <3>4. artifact[a].expires_at \in Nat
      BY <2>1 DEF Stored
    <3> HIDE DEF k, days, class
    <3> QED
      BY <2>1, <2>2, <3>1, <3>2, <3>3, <3>4
  <2> QED
    BY <1>1, <2>1, <2>4 DEF TypeOK
<1> QED
  BY <1>2, <1>3, <1>4

LEMMA TickStep ==
  ASSUME IInv, Tick
  PROVE  IInv'
<1> USE DEF IInv
<1>1. /\ UNCHANGED <<retention, job, artifact, bucket, sweep, split, request>>
      /\ now \in Nat /\ now' = now + 1 /\ now' \in 0..Horizon
  BY RetentionAssumption DEF Tick, TypeOK
<1>2. link' = IF Usable(link, now') THEN link ELSE None
  BY DEF Tick
<1>3. \A a \in Artifact : Stamped(a) =>
        /\ artifact[a].expires_at \in Nat
        /\ artifact[a].deleted_at # None => artifact[a].deleted_at \in Nat
  BY RetentionAssumption DEF TypeOK, Stamped, Stored
<1>4. TypeOK' /\ LeaseInv'
  BY <1>1, <1>2 DEF TypeOK, LeaseInv
<1>5. StampInv'
  BY <1>1, <1>3 DEF StampInv, Stamped, KeyFor
<1>6. SweepInv'
  <2>1. \A s \in Sweep : Open(s) => sweep[s].marked \subseteq Artifact /\ sweep[s].at \in Nat
    BY RetentionAssumption DEF TypeOK, Open, Run
  <2> QED
    BY <1>1, <1>3, <2>1 DEF SweepInv, Open, Stamped, Live
<1>7. AloneInv' /\ SplitInv' /\ ExpiredIsGone' /\ StuckOnlyByOverlap'
  BY <1>1 DEF AloneInv, SplitInv, ExpiredIsGone, StuckOnlyByOverlap, Open, Live
<1>8. RequestInv'
  BY <1>1 DEF RequestInv, Stamped
<1>9. CASE Usable(link, now')
  <2>1. link' = link /\ link # None /\ link.of \in Artifact /\ link.expiresAt \in Nat
        /\ link.expiresAt > now + 1
    BY <1>1, <1>2, <1>9 DEF Usable, TypeOK, Link
  <2>2. LinkInv'
    BY <1>1, <2>1 DEF LinkInv, Stamped
  <2> QED
    BY <1>4, <1>5, <1>6, <1>7, <1>8, <2>2
<1>10. CASE ~Usable(link, now')
  <2>1. LinkInv'
    BY <1>2, <1>10 DEF LinkInv
  <2> QED
    BY <1>4, <1>5, <1>6, <1>7, <1>8, <2>1
<1> QED
  BY <1>9, <1>10

LEMMA StutterStep == IInv /\ UNCHANGED vars => IInv'
<1> SUFFICES ASSUME IInv, UNCHANGED vars PROVE IInv'
  OBVIOUS
<1> USE DEF IInv, vars
<1>1. TypeOK' /\ LeaseInv' /\ StampInv'
  BY DEF TypeOK, LeaseInv, StampInv, Stamped, KeyFor
<1>2. SweepInv' /\ AloneInv' /\ SplitInv' /\ LinkInv'
  BY DEF SweepInv, AloneInv, SplitInv, LinkInv, Open, Stamped, Live
<1>3. ExpiredIsGone' /\ StuckOnlyByOverlap' /\ RequestInv'
  BY DEF ExpiredIsGone, StuckOnlyByOverlap, RequestInv, Live, Stamped
<1> QED
  BY <1>1, <1>2, <1>3

LEMMA NextIInv == IInv /\ [Next]_vars => IInv'
  BY SetRetentionStep, LeaseStep, LoseAttemptStep, UploadStep, CompleteStep,
     BeginSweepStep, CommitSweepStep, FetchJobStep, SelectArtifactStep, MintLinkStep,
     LifecycleDeletesStep, TickStep,
     StutterStep DEF Next

--------------------------------------------------------------------------------
(* What holds of every behaviour.                                          *)

\* The invariant the rest follows from: what relates the row's clock, the bucket's and
\* the link's, and what an open sweep knows of the jobs it has in hand.
THEOREM RetentionInductive == Spec => []IInv
  BY InitIInv, NextIInv, PTL DEF Spec

\* The rows of takes, artifacts, sweeps and links are well formed: in particular no take
\* is leased beyond its budget.
THEOREM RetentionTypeCorrect == Spec => []TypeOK
<1>1. IInv => TypeOK
  BY DEF IInv
<1> QED
  BY <1>1, RetentionInductive, PTL

\* storage.rs and the bucket's rules keep what complete_job promised: an artifact that
\* has not expired is in the bucket, unless the plan grew while the take was filmed.
THEOREM PromisesKept == Spec => []PromiseKept
<1>1. IInv => PromiseKept
  BY DEF IInv, PromiseKept, StampInv, Stamped, Live
<1> QED
  BY <1>1, RetentionInductive, PTL

\* expire_due_artifacts says expired only of a job of which nothing is left, however
\* many sweeps overlap and wherever their batches were cut.
THEOREM ExpiredMeansGone == Spec => []ExpiredIsGone
<1>1. IInv => ExpiredIsGone
  BY DEF IInv
<1> QED
  BY <1>1, RetentionInductive, PTL

\* A done job with nothing left says expired, unless two of the sweeps had its
\* artifacts in hand at once.
THEOREM OnlyOverlapStrands == Spec => []StuckOnlyByOverlap
<1>1. IInv => StuckOnlyByOverlap
  BY DEF IInv
<1> QED
  BY <1>1, RetentionInductive, PTL

\* getArtifact and sign.ts: a link to a row that has expired works for the second it was
\* minted in and no longer, whatever sweeps came between the reads and the minting.
THEOREM LinksEnd == Spec => []LinksEndWithRow
<1>1. IInv => LinksEndWithRow
  <2> SUFFICES ASSUME IInv, Usable(link, now), artifact[link.of].expires_at <= now
               PROVE  link.expiresAt = now + 1
    BY DEF LinksEndWithRow
  <2>1. /\ link \in Link /\ link.of \in Artifact /\ link.expiresAt \in Nat
        /\ now \in Nat /\ link.expiresAt > now
    BY RetentionAssumption DEF Usable, IInv, TypeOK, Link
  <2>2. Stamped(link.of)
    BY DEF Usable, IInv, LinkInv
  <2>3. artifact[link.of].expires_at \in Nat
    BY <2>1, <2>2 DEF Stamped, IInv, TypeOK, Stored
  <2> QED
    BY <2>1, <2>3 DEF Usable, IInv, LinkInv
<1> QED
  BY <1>1, RetentionInductive, PTL
================================================================================

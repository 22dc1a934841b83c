---------------------------- MODULE SubmissionProofs -----------------------------
(***************************************************************************)
(* Safety of submissions for any number of calls in flight, of keys, of    *)
(* projects and of presets, and for any monthly limit.                     *)
(*                                                                         *)
(* Almost every step moves one call and leaves the rows alone.  So the     *)
(* invariant is split into what is true of one call (CallInv), of one row, *)
(* of one cache entry and of one key, and the proof shows once and for all *)
(* that each of these survives whatever the others may do (Grows), and     *)
(* then of each step only what it makes of the call that takes it.         *)
(***************************************************************************)
EXTENDS Submission, FiniteSetTheorems, TLAPS

\* What a request carries from point to point.
Carries(c) ==
  LET r == call[c] IN
  /\ r.at # "idle" => r.project \in Project
  /\ r.at \in Edge \cup {"select", "late", "remember"} => r.key \in Key
  /\ r.at = "caching" => r.options \in Preset
  /\ r.at \in {"select", "insert", "commit"} =>
        r.options \in Preset /\ (r.body \in Preset => r.options = r.body)
  /\ r.key \in Key /\ r.at \in {"idem", "find", "late", "remember"} \cup Statement =>
        r.fingerprint \in Preset
  /\ r.fingerprint \in Preset /\ r.body \in Preset => r.fingerprint = r.body

\* The row a request has found or made, while it is on its way back and after.
Finds(c) ==
  LET r == call[c] IN
  /\ r.at \in {"late", "remember"} => r.job \in WithKey(r.key)
  /\ r.at = "remember" =>
        jobs[r.job].options = r.fingerprint /\ r.answer \in {"accepted", "replayed"}
  /\ r.at = "answered" /\ r.answer \in {"accepted", "replayed"} =>
        /\ r.job \in WithKey(r.key)
        /\ r.key \in Key => jobs[r.job].options = r.fingerprint
        /\ r.body \in Preset => jobs[r.job].options = r.body
  /\ r.at = "answered" /\ r.answer = "conflict" =>
        /\ r.key \in Key /\ r.fingerprint \in Preset
        /\ \E j \in WithKey(r.key) : jobs[j].options # r.fingerprint
  /\ r.at = "answered" /\ r.answer = "collided" =>
        r.key \in Key /\ \E j \in WithKey(r.key) : jobs[j].project # r.project

\* A request whose key had been answered goes no further than the lookup by key.
IsKnown(c) ==
  LET r == call[c] IN
  r.known => /\ r.key \in Key
             /\ told[r.key] # {}
             /\ r.at \in Edge \cup {"remember", "answered"}
             /\ r.at = "remember" => r.answer = "replayed"
             /\ r.at = "answered" => r.answer \in {"replayed", "conflict"}

\* While nobody edits a project's defaults, every read of them agrees.
ResolvesAlike(c) ==
  LET r == call[c]
      p == call[c].project
  IN  p \in Project /\ edits[p] = 0 =>
        /\ r.at = "caching" => r.options = defaults[p]
        /\ r.body = Inherit => /\ r.fingerprint \in {None, defaults[p]}
                               /\ r.at \in {"select", "insert", "commit"} =>
                                     r.options = defaults[p]

CallInv(c) == Carries(c) /\ Finds(c) /\ IsKnown(c) /\ ResolvesAlike(c)

\* A row is made of what its body named or of the defaults.
RowInv(j) ==
  LET row == jobs[j] IN
  /\ row.body \in Preset => row.options = row.body
  /\ row.body = Inherit /\ edits[row.project] = 0 => row.options = defaults[row.project]

DefaultsInv(p) == edits[p] = 0 => kvDefaults[p] \in {None, defaults[p]}

IdemInv(k) ==
  kvIdem[k] # None => /\ kvIdem[k].job \in WithKey(k)
                      /\ jobs[kvIdem[k].job].options = kvIdem[k].fingerprint

\* A key is on one row at most, and is entered in the index by one call at most.
KeyInv(k) ==
  /\ \A i, j \in WithKey(k) : i = j
  /\ \A c, d \in Call : call[c].key = k /\ call[c].at = "commit" =>
        /\ WithKey(k) = {}
        /\ call[d].key = k /\ call[d].at = "commit" => c = d
  /\ told[k] \subseteq WithKey(k)

\* A call that has the row of its project under its lock.
HoldsProject(c) == call[c].at \in {"select", "insert", "commit"}

\* No two calls have the row of one project.
LockInv ==
  \A c, d \in Call :
     HoldsProject(c) /\ HoldsProject(d) /\ call[c].project = call[d].project => c = d

\* Since a call selected its key, only a call of another project can have stored it.
InsertInv(c) ==
  call[c].at = "insert" /\ call[c].key \in Key =>
     \A j \in WithKey(call[c].key) : jobs[j].project # call[c].project

\* The calls that are past the comparison with the limit and have no row yet.
Admitted == {c \in Call : call[c].at \in {"project", "select", "insert", "commit"}}

\* With its place reserved for each of them the bound holds already.
PlacesInv == Len(jobs) + Cardinality(Admitted) <= JobLimit + Cardinality(Call) - 1

\* The inductive invariant.
IInv ==
  /\ TypeOK
  /\ \A c \in Call : CallInv(c) /\ InsertInv(c)
  /\ LockInv
  /\ \A j \in DOMAIN jobs : RowInv(j)
  /\ \A p \in Project : DefaultsInv(p)
  /\ \A k \in Key : IdemInv(k) /\ KeyInv(k)
  /\ PlacesInv

--------------------------------------------------------------------------------
(* What the steps of others leave true.                                    *)

\* Rows are only added, answers only given, and the defaults of a project that
\* counts no edit are the first ones.
Grows ==
  /\ \A j \in DOMAIN jobs : j \in DOMAIN jobs' /\ jobs'[j] = jobs[j]
  /\ \A k \in Key : told[k] \subseteq told'[k]
  /\ \A p \in Project : edits'[p] = 0 => edits[p] = 0 /\ defaults'[p] = defaults[p]

\* A row found by its key is found again.
LEMMA FoundAgain ==
  ASSUME Grows, NEW k
  PROVE  \A j \in WithKey(k) : j \in WithKey(k)' /\ jobs'[j] = jobs[j]
  BY DEF Grows, WithKey

\* A call that takes no step keeps its invariant.
LEMMA CallKept ==
  ASSUME Grows, NEW c, call'[c] = call[c], CallInv(c)
  PROVE  CallInv(c)'
<1> DEFINE r == call[c]
<1>1. Carries(c)'
  BY DEF CallInv, Carries
<1>2. Finds(c)'
  <2>1. Finds(c)
    BY DEF CallInv
  <2>2. \A j \in WithKey(r.key) : j \in WithKey(r.key)' /\ jobs'[j] = jobs[j]
    BY FoundAgain
  <2>3. r.at \in {"late", "remember"} => r.job \in WithKey(r.key)'
    BY <2>1, <2>2 DEF Finds
  <2>4. r.at = "remember" =>
          jobs'[r.job].options = r.fingerprint /\ r.answer \in {"accepted", "replayed"}
    BY <2>1, <2>2 DEF Finds
  <2>5. r.at = "answered" /\ r.answer \in {"accepted", "replayed"} =>
          /\ r.job \in WithKey(r.key)'
          /\ r.key \in Key => jobs'[r.job].options = r.fingerprint
          /\ r.body \in Preset => jobs'[r.job].options = r.body
    BY <2>1, <2>2 DEF Finds
  <2>6. r.at = "answered" /\ r.answer = "conflict" =>
          /\ r.key \in Key /\ r.fingerprint \in Preset
          /\ \E j \in WithKey(r.key)' : jobs'[j].options # r.fingerprint
    BY <2>1, <2>2 DEF Finds
  <2>7. r.at = "answered" /\ r.answer = "collided" =>
          r.key \in Key /\ \E j \in WithKey(r.key)' : jobs'[j].project # r.project
    BY <2>1, <2>2 DEF Finds
  <2> QED
    BY <2>3, <2>4, <2>5, <2>6, <2>7 DEF Finds, WithKey
<1>3. IsKnown(c)'
  BY DEF CallInv, IsKnown, Grows
<1>4. ResolvesAlike(c)'
  BY DEF CallInv, ResolvesAlike, Grows
<1> QED
  BY <1>1, <1>2, <1>3, <1>4 DEF CallInv

\* A row of the table is a Job.
LEMMA RowTyped ==
  ASSUME TypeOK, NEW j \in DOMAIN jobs
  PROVE  jobs[j] \in Job /\ j \in 1..Len(jobs) /\ jobs[j].project \in Project
<1>1. jobs \in Seq(Job) /\ j \in 1..Len(jobs)
  BY DEF TypeOK
<1>2. jobs[j] \in Job
  BY <1>1
<1> QED
  BY <1>1, <1>2 DEF Job

LEMMA RowKept ==
  ASSUME TypeOK, Grows, NEW j \in DOMAIN jobs, RowInv(j)
  PROVE  RowInv(j)'
  BY RowTyped DEF Grows, RowInv

\* The calls past the limit are finitely many.
LEMMA AdmittedFinite ==
  ASSUME NEW S \in SUBSET Call
  PROVE  IsFiniteSet(S) /\ Cardinality(S) \in Nat /\ Cardinality(S) <= Cardinality(Call)
  BY SubmissionAssumption, FS_Subset, FS_CardinalityType

--------------------------------------------------------------------------------
(* A step of one call that inserts no row.                                 *)

LEMMA Step ==
  ASSUME IInv, TypeOK', NEW c \in Call, UNCHANGED <<jobs, defaults, edits>>,
         \A d \in Call \ {c} : call'[d] = call[d],
         CallInv(c)', InsertInv(c)',
         HoldsProject(c)' => \/ HoldsProject(c) /\ call'[c].project = call[c].project
                             \/ Holders(call'[c].project) = {},
         \A k \in Key : told[k] \subseteq told'[k] /\ told'[k] \subseteq WithKey(k),
         call'[c].at = "commit" =>
            \A k \in Key : call'[c].key = k => ~KeyTaken(k) /\ ~KeyPending(k),
         kvIdem' = kvIdem \/ \A k \in Key : IdemInv(k)',
         kvDefaults' = kvDefaults \/ \A p \in Project : DefaultsInv(p)',
         c \in Admitted' => c \in Admitted \/ ~LimitReached
  PROVE  IInv'
<1>1. Grows
  BY DEF Grows
<1>2. \A d \in Call : CallInv(d)'
  BY <1>1, CallKept DEF IInv
<1>3. \A j \in DOMAIN jobs' : RowInv(j)'
  BY <1>1, RowKept DEF IInv
<1>4. \A p \in Project : DefaultsInv(p)'
  BY DEF IInv, DefaultsInv
<1>5. \A k \in Key : IdemInv(k)'
  BY DEF IInv, IdemInv, WithKey
<1>6. ASSUME NEW k \in Key
      PROVE  KeyInv(k)'
  <2>1. WithKey(k)' = WithKey(k) /\ KeyInv(k)
    BY DEF WithKey, IInv
  <2>2. ASSUME NEW d \in Call, NEW e \in Call, call'[d].key = k, call'[d].at = "commit"
        PROVE  WithKey(k) = {} /\ (call'[e].key = k /\ call'[e].at = "commit" => d = e)
    <3>1. CASE d # c /\ e # c
      BY <2>1, <2>2, <3>1 DEF KeyInv
    <3>2. CASE d = c /\ e = c
      BY <2>2, <3>2 DEF KeyTaken
    <3>3. CASE d = c /\ e # c
      BY <2>2, <3>3 DEF KeyTaken, KeyPending
    <3>4. CASE d # c /\ e = c
      <4>1. call[d].key = k /\ call[d].at = "commit"
        BY <2>2, <3>4
      <4>2. WithKey(k) = {} /\ KeyPending(k)
        BY <2>1, <4>1 DEF KeyInv, KeyPending
      <4> QED
        BY <3>4, <4>2
    <3> QED
      BY <3>1, <3>2, <3>3, <3>4
  <2>3. told'[k] \subseteq WithKey(k)'
    BY <2>1
  <2> QED
    BY <2>1, <2>2, <2>3 DEF KeyInv
<1>7. PlacesInv'
  <2>0. /\ Len(jobs) \in Nat /\ JobLimit \in Nat /\ Cardinality(Call) \in Nat
        /\ Cardinality(Admitted) \in Nat /\ Cardinality(Admitted') \in Nat
        /\ Cardinality(Admitted') <= Cardinality(Call)
    BY AdmittedFinite, SubmissionAssumption DEF IInv, TypeOK, Admitted
  <2>1. CASE c \in Admitted' /\ c \notin Admitted
    <3>1. Len(jobs) < JobLimit
      BY <2>0, <2>1 DEF LimitReached
    <3> QED
      BY <2>0, <3>1 DEF PlacesInv
  <2>2. CASE ~(c \in Admitted' /\ c \notin Admitted)
    <3>1. Admitted' \subseteq Admitted
      BY <2>2 DEF Admitted
    <3>2. Cardinality(Admitted') <= Cardinality(Admitted)
      BY <3>1, AdmittedFinite, FS_Subset DEF Admitted
    <3> QED
      BY <2>0, <3>2 DEF PlacesInv, IInv
  <2> QED
    BY <2>1, <2>2
<1>8. \A d \in Call : InsertInv(d)'
  BY DEF IInv, InsertInv, WithKey
<1>9. LockInv'
  <2> SUFFICES ASSUME NEW d \in Call, NEW e \in Call, HoldsProject(d)', HoldsProject(e)',
                      call'[d].project = call'[e].project, d # e
               PROVE  FALSE
    BY DEF LockInv
  <2>1. CASE d # c /\ e # c
    BY <2>1 DEF IInv, LockInv, HoldsProject
  <2>2. CASE d = c \/ e = c
    <3>1. PICK o \in Call \ {c} : HoldsProject(o) /\ call[o].project = call'[c].project
      BY <2>2 DEF HoldsProject
    <3>2. HoldsProject(c)'
      BY <2>2
    <3>3. o \in Holders(call'[c].project)
      BY <3>1 DEF Holders, HoldsProject
    <3> QED
      BY <3>1, <3>2, <3>3 DEF IInv, LockInv
  <2> QED
    BY <2>1, <2>2
<1> QED
  BY <1>2, <1>3, <1>4, <1>5, <1>6, <1>7, <1>8, <1>9 DEF IInv

\* A step that writes one request writes no other.
LEMMA Written ==
  ASSUME TypeOK, NEW c \in Call, NEW r, call' = [call EXCEPT ![c] = r]
  PROVE  call'[c] = r /\ \A d \in Call \ {c} : call'[d] = call[d]
  BY DEF TypeOK

\* The answer that ends a request: what it must be true of.
LEMMA AnsweredStep ==
  ASSUME IInv, NEW c \in Call, NEW a \in Answer, NEW j \in Nat, Answered(c, a, j),
         UNCHANGED <<jobs, defaults, edits, kvDefaults, begun>>,
         kvIdem' \in [Key -> IdempotencyRecord \cup {None}],
         kvIdem' = kvIdem \/ \A k \in Key : IdemInv(k)',
         call[c].at # "idle",
         a \in {"accepted", "replayed"} =>
            /\ j \in WithKey(call[c].key)
            /\ call[c].key \in Key => jobs[j].options = call[c].fingerprint
            /\ call[c].body \in Preset => jobs[j].options = call[c].body,
         a = "conflict" =>
            /\ call[c].key \in Key /\ call[c].fingerprint \in Preset
            /\ \E i \in WithKey(call[c].key) : jobs[i].options # call[c].fingerprint,
         a = "collided" =>
            /\ call[c].key \in Key
            /\ \E i \in WithKey(call[c].key) : jobs[i].project # call[c].project,
         call[c].known => a \in {"replayed", "conflict"}
  PROVE  IInv'
<1> DEFINE r == call[c]
           n == [r EXCEPT !.at = "answered", !.answer = a, !.job = j]
<1>0. TypeOK /\ r \in Request /\ CallInv(c)
  BY DEF IInv, TypeOK
<1>1. /\ n \in Request
      /\ n.at = "answered" /\ n.answer = a /\ n.job = j /\ n.key = r.key
      /\ n.project = r.project /\ n.body = r.body /\ n.fingerprint = r.fingerprint
      /\ n.options = r.options /\ n.known = r.known
  BY <1>0 DEF Request, Point
<1>2. call' = [call EXCEPT ![c] = n]
  BY DEF Answered
<1> HIDE DEF n
<1>3. call'[c] = n /\ \A d \in Call \ {c} : call'[d] = call[d]
  BY <1>0, <1>2, Written
<1>4. /\ told' \in [Key -> SUBSET Nat]
      /\ \A k \in Key : told[k] \subseteq told'[k] /\ told'[k] \subseteq WithKey(k)
  <2>1. told \in [Key -> SUBSET Nat] /\ \A k \in Key : told[k] \subseteq WithKey(k)
    BY DEF IInv, TypeOK, KeyInv
  <2>2. CASE a \in {"accepted", "replayed"} /\ r.key \in Key
    <3>1. told' = [told EXCEPT ![r.key] = @ \cup {j}]
      BY <2>2 DEF Answered
    <3> QED
      BY <2>1, <2>2, <3>1
  <2>3. CASE ~(a \in {"accepted", "replayed"} /\ r.key \in Key)
    <3>1. told' = told
      BY <2>3 DEF Answered
    <3> QED
      BY <2>1, <3>1
  <2> QED
    BY <2>2, <2>3
<1>5. TypeOK'
  <2>1. call' \in [Call -> Request]
    BY <1>0, <1>1, <1>2 DEF TypeOK
  <2> QED
    BY <1>0, <1>4, <2>1 DEF TypeOK
<1>6. CallInv(c)'
  <2>1. Carries(c)'
    BY <1>0, <1>1, <1>3 DEF CallInv, Carries, Edge, Statement
  <2>2. Finds(c)'
    BY <1>1, <1>3 DEF Finds, WithKey
  <2>3. IsKnown(c)'
    BY <1>0, <1>1, <1>3, <1>4 DEF CallInv, IsKnown, Edge
  <2>4. ResolvesAlike(c)'
    BY <1>0, <1>1, <1>3 DEF CallInv, ResolvesAlike
  <2> QED
    BY <2>1, <2>2, <2>3, <2>4 DEF CallInv
<1>7. c \notin Admitted' /\ call'[c].at # "commit" /\ ~HoldsProject(c)' /\ InsertInv(c)'
  BY <1>1, <1>3 DEF Admitted, HoldsProject, InsertInv
<1> QED
  BY <1>3, <1>4, <1>5, <1>6, <1>7, Step

\* A step to another point, with the request it leaves.
LEMMA MovedStep ==
  ASSUME IInv, NEW c \in Call, NEW n \in Request, call' = [call EXCEPT ![c] = n],
         UNCHANGED <<jobs, defaults, edits, kvIdem, begun, told>>,
         kvDefaults' \in [Project -> Preset \cup {None}],
         kvDefaults' = kvDefaults \/ \A p \in Project : DefaultsInv(p)',
         n.at # "commit", CallInv(c)',
         n.at \in {"select", "insert"} => \/ HoldsProject(c) /\ n.project = call[c].project
                                         \/ Holders(n.project) = {},
         n.at = "insert" /\ n.key \in Key =>
            \A j \in WithKey(n.key) : jobs[j].project # n.project,
         n.at \in {"project", "select", "insert"} => c \in Admitted \/ ~LimitReached
  PROVE  IInv'
<1>0. TypeOK
  BY DEF IInv
<1>1. call'[c] = n /\ \A d \in Call \ {c} : call'[d] = call[d]
  BY <1>0, Written
<1>2. TypeOK'
  <2>1. call' \in [Call -> Request]
    BY <1>0 DEF TypeOK
  <2> QED
    BY <1>0, <2>1 DEF TypeOK
<1>3. \A k \in Key : told[k] \subseteq told'[k] /\ told'[k] \subseteq WithKey(k)
  BY DEF IInv, KeyInv
<1>4. c \in Admitted' => c \in Admitted \/ ~LimitReached
  BY <1>1 DEF Admitted
<1>5. HoldsProject(c)' => \/ HoldsProject(c) /\ call'[c].project = call[c].project
                          \/ Holders(call'[c].project) = {}
  BY <1>1 DEF HoldsProject
<1>6. InsertInv(c)'
  BY <1>1 DEF InsertInv, WithKey
<1> QED
  BY <1>1, <1>2, <1>3, <1>4, <1>5, <1>6, Step

--------------------------------------------------------------------------------
(* The actions.                                                            *)

LEMMA InitIInv == Init => IInv
<1> SUFFICES ASSUME Init PROVE IInv
  OBVIOUS
<1>1. Fresh \in Request
  BY DEF Fresh, Request, Point, Answer
<1>2. TypeOK
  <2>1. jobs \in Seq(Job) /\ Len(jobs) = 0
    BY DEF Init
  <2>2. edits \in [Project -> 0..MaxEdits] /\ begun \in 0..MaxCalls
    BY SubmissionAssumption DEF Init
  <2> QED
    BY <1>1, <2>1, <2>2 DEF Init, TypeOK
<1>3. \A c \in Call : call[c] = Fresh
  BY DEF Init
<1>4. \A c \in Call : CallInv(c)
  BY <1>3, SubmissionAssumption
  DEF Fresh, CallInv, Carries, Finds, IsKnown, ResolvesAlike, Edge, Statement
<1>5. DOMAIN jobs = {} /\ Len(jobs) = 0
  BY DEF Init
<1>6. \A k \in Key : IdemInv(k) /\ KeyInv(k)
  BY <1>3, <1>5 DEF Init, IdemInv, KeyInv, WithKey, Fresh
<1>7. \A p \in Project : DefaultsInv(p)
  BY DEF Init, DefaultsInv
<1>8. LockInv /\ \A c \in Call : InsertInv(c)
  BY <1>3 DEF LockInv, InsertInv, HoldsProject, Fresh
<1>9. PlacesInv
  <2>1. Admitted = {}
    BY <1>3 DEF Admitted, Fresh
  <2>2. Cardinality(Admitted) = 0 /\ Cardinality(Call) \in Nat /\ Cardinality(Call) # 0
    BY <2>1, SubmissionAssumption, FS_EmptySet, FS_CardinalityType
  <2> QED
    BY <1>5, <2>2, SubmissionAssumption DEF PlacesInv
<1> QED
  BY <1>2, <1>4, <1>5, <1>6, <1>7, <1>8, <1>9 DEF IInv

LEMMA BeginStep ==
  ASSUME IInv, NEW c \in Call, NEW k \in Key \cup {NoKey}, NEW p \in Project,
         NEW body \in Preset \cup {Inherit}, Begin(c, k, p, body)
  PROVE  IInv'
<1> DEFINE known == k \in Key /\ told[k] # {}
           at == IF k = NoKey THEN "limits" ELSE "defaults"
           n == [Fresh EXCEPT !.at = at, !.key = k, !.project = p, !.body = body,
                              !.known = known]
<1>1. known \in BOOLEAN /\ at \in {"limits", "defaults"}
  OBVIOUS
<1>2. /\ n \in Request
      /\ n.at = at /\ n.key = k /\ n.project = p /\ n.body = body
      /\ n.fingerprint = None /\ n.options = None /\ n.job = 0 /\ n.answer = "none"
      /\ n.known = known
  BY <1>1 DEF Fresh, Request, Point, Edge, Statement, Answer
<1>3. call' = [call EXCEPT ![c] = n]
  BY DEF Begin
<1> HIDE DEF n
<1>4. TypeOK
  BY DEF IInv
<1>5. call'[c] = n /\ \A d \in Call \ {c} : call'[d] = call[d]
  BY <1>3, <1>4, Written
<1>6. TypeOK'
  <2>1. call' \in [Call -> Request]
    BY <1>2, <1>3, <1>4 DEF TypeOK
  <2>2. begun' \in 0..MaxCalls
    BY <1>4, SubmissionAssumption DEF Begin, TypeOK
  <2> QED
    BY <1>4, <2>1, <2>2 DEF TypeOK, Begin
<1>7. CallInv(c)'
  <2>1. k \notin Key <=> k = NoKey
    BY SubmissionAssumption
  <2>2. Carries(c)'
    BY <1>2, <1>5, <2>1, SubmissionAssumption DEF Carries, Edge, Statement
  <2>3. Finds(c)'
    BY <1>2, <1>5 DEF Finds
  <2>4. IsKnown(c)'
    BY <1>2, <1>5, <2>1, SubmissionAssumption DEF IsKnown, Edge, Begin
  <2>5. ResolvesAlike(c)'
    BY <1>2, <1>5 DEF ResolvesAlike
  <2> QED
    BY <2>2, <2>3, <2>4, <2>5 DEF CallInv
<1>8. \A i \in Key : told[i] \subseteq told'[i] /\ told'[i] \subseteq WithKey(i)
  BY DEF IInv, KeyInv, Begin
<1>9. c \notin Admitted' /\ call'[c].at # "commit" /\ ~HoldsProject(c)' /\ InsertInv(c)'
  BY <1>1, <1>2, <1>5 DEF Admitted, HoldsProject, InsertInv
<1> QED
  BY <1>5, <1>6, <1>7, <1>8, <1>9, Step DEF Begin

\* The cached defaults stand in for the row's while nobody edits them.
LEMMA DefaultsHitStep ==
  ASSUME IInv, NEW c \in Call, DefaultsHit(c) PROVE IInv'
<1> DEFINE r == call[c]
           f == Fingerprint(kvDefaults[r.project], r.body)
           n == [r EXCEPT !.at = "idem", !.fingerprint = f]
<1>1. TypeOK /\ r \in Request /\ CallInv(c) /\ r.at = "defaults"
  BY DEF IInv, TypeOK, DefaultsHit
<1>2. r.project \in Project /\ r.key \in Key
  BY <1>1 DEF CallInv, Carries, Edge
<1>3. /\ kvDefaults[r.project] \in Preset
      /\ edits[r.project] = 0 => kvDefaults[r.project] = defaults[r.project]
  BY <1>1, <1>2 DEF TypeOK, IInv, DefaultsInv, DefaultsHit
<1>4. /\ f \in Preset /\ (r.body \in Preset => f = r.body)
      /\ r.body = Inherit => f = kvDefaults[r.project]
  BY <1>1, <1>3, SubmissionAssumption DEF Fingerprint, Resolved, Request
<1> HIDE DEF f
<1>5. /\ n \in Request
      /\ n.at = "idem" /\ n.fingerprint = f /\ n.key = r.key /\ n.project = r.project
      /\ n.body = r.body /\ n.known = r.known
  BY <1>1, <1>4 DEF Request, Point, Edge
<1>6. call' = [call EXCEPT ![c] = n]
  BY DEF DefaultsHit, f
<1> HIDE DEF n
<1>7. call'[c] = n
  BY <1>1, <1>6, Written
<1>8. CallInv(c)'
  BY <1>1, <1>2, <1>3, <1>4, <1>5, <1>7
  DEF CallInv, Carries, Finds, IsKnown, ResolvesAlike, Edge, Statement, DefaultsHit
<1> QED
  BY <1>1, <1>5, <1>6, <1>8, MovedStep DEF DefaultsHit, TypeOK

LEMMA DefaultsReadStep ==
  ASSUME IInv, NEW c \in Call, DefaultsRead(c) PROVE IInv'
<1> DEFINE r == call[c]
           n == [r EXCEPT !.at = "caching", !.options = defaults[r.project]]
<1>1. TypeOK /\ r \in Request /\ CallInv(c) /\ r.at = "defaults"
  BY DEF IInv, TypeOK, DefaultsRead
<1>2. r.project \in Project /\ r.key \in Key
  BY <1>1 DEF CallInv, Carries, Edge
<1>3. defaults[r.project] \in Preset
  BY <1>1, <1>2 DEF TypeOK
<1>4. /\ n \in Request
      /\ n.at = "caching" /\ n.options = defaults[r.project] /\ n.key = r.key
      /\ n.project = r.project /\ n.fingerprint = r.fingerprint
      /\ n.body = r.body /\ n.known = r.known
  BY <1>1, <1>3 DEF Request, Point, Edge
<1>5. call' = [call EXCEPT ![c] = n]
  BY DEF DefaultsRead
<1> HIDE DEF n
<1>6. call'[c] = n
  BY <1>1, <1>5, Written
<1>7. CallInv(c)'
  BY <1>1, <1>2, <1>3, <1>4, <1>6
  DEF CallInv, Carries, Finds, IsKnown, ResolvesAlike, Edge, Statement, DefaultsRead
<1> QED
  BY <1>1, <1>4, <1>5, <1>7, MovedStep DEF DefaultsRead, TypeOK

\* What is put in the cache was read from the row, if perhaps long ago.
LEMMA DefaultsCachedStep ==
  ASSUME IInv, NEW c \in Call, DefaultsCached(c) PROVE IInv'
<1> DEFINE r == call[c]
           f == Fingerprint(r.options, r.body)
           n == [r EXCEPT !.at = "idem", !.fingerprint = f]
<1>1. TypeOK /\ r \in Request /\ CallInv(c) /\ r.at = "caching"
  BY DEF IInv, TypeOK, DefaultsCached
<1>2. /\ r.project \in Project /\ r.key \in Key /\ r.options \in Preset
      /\ edits[r.project] = 0 => r.options = defaults[r.project]
  BY <1>1 DEF CallInv, Carries, ResolvesAlike, Edge
<1>3. /\ f \in Preset /\ (r.body \in Preset => f = r.body)
      /\ r.body = Inherit => f = r.options
  BY <1>1, <1>2, SubmissionAssumption DEF Fingerprint, Resolved, Request
<1> HIDE DEF f
<1>4. /\ n \in Request
      /\ n.at = "idem" /\ n.fingerprint = f /\ n.key = r.key /\ n.project = r.project
      /\ n.body = r.body /\ n.known = r.known
  BY <1>1, <1>3 DEF Request, Point, Edge
<1>5. call' = [call EXCEPT ![c] = n]
  BY DEF DefaultsCached, f
<1> HIDE DEF n
<1>6. call'[c] = n
  BY <1>1, <1>5, Written
<1>7. CallInv(c)'
  BY <1>1, <1>2, <1>3, <1>4, <1>6
  DEF CallInv, Carries, Finds, IsKnown, ResolvesAlike, Edge, Statement, DefaultsCached
<1>8. kvDefaults' = [kvDefaults EXCEPT ![r.project] = r.options]
  BY DEF DefaultsCached
<1>9. kvDefaults' \in [Project -> Preset \cup {None}]
  BY <1>1, <1>2, <1>8 DEF TypeOK
<1>10. ASSUME NEW p \in Project PROVE DefaultsInv(p)'
  BY <1>1, <1>2, <1>8 DEF IInv, TypeOK, DefaultsInv, DefaultsCached
<1> QED
  BY <1>4, <1>5, <1>7, <1>9, <1>10, MovedStep DEF DefaultsCached

\* A hit's record was put for the row that carries the key.
LEMMA IdempotencyHitStep ==
  ASSUME IInv, NEW c \in Call, IdempotencyHit(c) PROVE IInv'
<1> DEFINE r == call[c]
           cached == kvIdem[r.key]
<1>1. TypeOK /\ CallInv(c) /\ r.at = "idem" /\ cached # None
  BY DEF IInv, IdempotencyHit
<1>2. r.key \in Key /\ r.fingerprint \in Preset
      /\ (r.body \in Preset => r.fingerprint = r.body)
  BY <1>1 DEF CallInv, Carries, Edge
<1>3. /\ cached \in IdempotencyRecord /\ cached.job \in WithKey(r.key)
      /\ jobs[cached.job].options = cached.fingerprint /\ cached.job \in Nat
  BY <1>1, <1>2 DEF TypeOK, IInv, IdemInv, IdempotencyRecord
<1>4. CASE cached.fingerprint # r.fingerprint
  <2>1. Answered(c, "conflict", 0)
    BY <1>4 DEF IdempotencyHit
  <2>2. \E i \in WithKey(r.key) : jobs[i].options # r.fingerprint
    BY <1>3, <1>4
  <2> QED
    BY <1>1, <1>2, <2>1, <2>2, AnsweredStep DEF Answer, IdempotencyHit, TypeOK
<1>5. CASE cached.fingerprint = r.fingerprint
  <2>1. Answered(c, "replayed", cached.job)
    BY <1>5 DEF IdempotencyHit
  <2> QED
    BY <1>1, <1>2, <1>3, <1>5, <2>1, AnsweredStep DEF Answer, IdempotencyHit, TypeOK
<1> QED
  BY <1>4, <1>5

LEMMA IdempotencyMissStep ==
  ASSUME IInv, NEW c \in Call, IdempotencyMiss(c) PROVE IInv'
<1> DEFINE r == call[c]
           n == [r EXCEPT !.at = "find"]
<1>1. TypeOK /\ r \in Request /\ CallInv(c) /\ r.at = "idem"
  BY DEF IInv, TypeOK, IdempotencyMiss
<1>2. /\ n \in Request
      /\ n.at = "find" /\ n.fingerprint = r.fingerprint /\ n.key = r.key
      /\ n.project = r.project /\ n.body = r.body /\ n.known = r.known
  BY <1>1 DEF Request, Point, Edge
<1>3. call' = [call EXCEPT ![c] = n]
  BY DEF IdempotencyMiss
<1> HIDE DEF n
<1>4. call'[c] = n
  BY <1>1, <1>3, Written
<1>5. CallInv(c)'
  BY <1>1, <1>2, <1>4
  DEF CallInv, Carries, Finds, IsKnown, ResolvesAlike, Edge, Statement, IdempotencyMiss
<1> QED
  BY <1>1, <1>2, <1>3, <1>5, MovedStep DEF IdempotencyMiss, TypeOK

\* A key that is on a row is on the row that is found.
LEMMA RowOfKey ==
  ASSUME NEW k, WithKey(k) # {}
  PROVE  RowOf(k) \in WithKey(k)
  BY DEF RowOf

LEMMA FindByIdempotencyKeyStep ==
  ASSUME IInv, NEW c \in Call, FindByIdempotencyKey(c) PROVE IInv'
<1> DEFINE r == call[c]
<1>1. TypeOK /\ r \in Request /\ CallInv(c) /\ r.at = "find"
  BY DEF IInv, TypeOK, FindByIdempotencyKey
<1>2. r.key \in Key /\ r.fingerprint \in Preset
      /\ (r.body \in Preset => r.fingerprint = r.body)
  BY <1>1 DEF CallInv, Carries, Edge
<1>3. CASE WithKey(r.key) = {}
  <2> DEFINE n == [r EXCEPT !.at = "limits"]
  <2>1. /\ n \in Request
        /\ n.at = "limits" /\ n.fingerprint = r.fingerprint /\ n.key = r.key
        /\ n.project = r.project /\ n.body = r.body /\ n.known = r.known
    BY <1>1 DEF Request, Point, Statement
  <2>2. call' = [call EXCEPT ![c] = n]
    BY <1>3 DEF FindByIdempotencyKey
  <2> HIDE DEF n
  <2>3. call'[c] = n
    BY <1>1, <2>2, Written
  <2>4. ~r.known
    BY <1>1, <1>2, <1>3 DEF CallInv, IsKnown, IInv, KeyInv
  <2>5. CallInv(c)'
    BY <1>1, <1>2, <2>1, <2>3, <2>4 DEF CallInv, Carries, Finds, IsKnown,
       ResolvesAlike, Edge, Statement, FindByIdempotencyKey
  <2> QED
    BY <1>1, <1>3, <2>1, <2>2, <2>5, MovedStep DEF FindByIdempotencyKey, TypeOK
<1>4. CASE WithKey(r.key) # {} /\ jobs[RowOf(r.key)].options # r.fingerprint
  <2>1. Answered(c, "conflict", 0)
    BY <1>4 DEF FindByIdempotencyKey
  <2>2. \E i \in WithKey(r.key) : jobs[i].options # r.fingerprint
    BY <1>4, RowOfKey
  <2> QED
    BY <1>1, <1>2, <2>1, <2>2, AnsweredStep DEF Answer, FindByIdempotencyKey, TypeOK
<1>5. CASE WithKey(r.key) # {} /\ jobs[RowOf(r.key)].options = r.fingerprint
  <2> DEFINE j == RowOf(r.key)
             n == [r EXCEPT !.at = "remember", !.answer = "replayed", !.job = j]
  <2>1. j \in WithKey(r.key) /\ j \in Nat
    <3>1. j \in WithKey(r.key)
      BY <1>5, RowOfKey
    <3> QED
      BY <1>1, <3>1, RowTyped DEF WithKey, TypeOK
  <2> HIDE DEF j
  <2>2. /\ n \in Request
        /\ n.at = "remember" /\ n.answer = "replayed" /\ n.job = j
        /\ n.fingerprint = r.fingerprint /\ n.key = r.key
        /\ n.project = r.project /\ n.body = r.body /\ n.known = r.known
    BY <1>1, <2>1 DEF Request, Point, Answer
  <2>3. call' = [call EXCEPT ![c] = n]
    BY <1>5 DEF FindByIdempotencyKey, j
  <2> HIDE DEF n
  <2>4. call'[c] = n
    BY <1>1, <2>3, Written
  <2>5. Finds(c)'
    BY <1>5, <2>1, <2>2, <2>4 DEF Finds, WithKey, FindByIdempotencyKey, j
  <2>6. CallInv(c)'
    BY <1>1, <1>2, <1>5, <2>2, <2>4, <2>5 DEF CallInv, Carries, IsKnown,
       ResolvesAlike, Edge, Statement, FindByIdempotencyKey
  <2> QED
    BY <1>1, <1>5, <2>2, <2>3, <2>6, MovedStep DEF FindByIdempotencyKey, TypeOK
<1> QED
  BY <1>3, <1>4, <1>5

\* The one step that admits a call, when the month has a place left.
LEMMA CheckLimitsStep ==
  ASSUME IInv, NEW c \in Call, CheckLimits(c) PROVE IInv'
<1> DEFINE r == call[c]
<1>1. TypeOK /\ r \in Request /\ CallInv(c) /\ r.at = "limits" /\ ~r.known
  BY DEF IInv, TypeOK, CheckLimits, CallInv, IsKnown, Edge
<1>2. CASE LimitReached
  BY <1>1, <1>2, AnsweredStep DEF Answer, CheckLimits, TypeOK
<1>3. CASE ~LimitReached
  <2> DEFINE n == [r EXCEPT !.at = "project"]
  <2>1. /\ n \in Request
        /\ n.at = "project" /\ n.fingerprint = r.fingerprint /\ n.key = r.key
        /\ n.project = r.project /\ n.body = r.body /\ n.known = r.known
    BY <1>1 DEF Request, Point, Statement
  <2>2. call' = [call EXCEPT ![c] = n]
    BY <1>3 DEF CheckLimits
  <2> HIDE DEF n
  <2>3. call'[c] = n
    BY <1>1, <2>2, Written
  <2>4. CallInv(c)'
    BY <1>1, <2>1, <2>3 DEF CallInv, Carries, Finds, IsKnown, ResolvesAlike,
       Edge, Statement, CheckLimits
  <2> QED
    BY <1>1, <1>3, <2>1, <2>2, <2>4, MovedStep DEF CheckLimits, TypeOK
<1> QED
  BY <1>2, <1>3

LEMMA UpsertProjectStep ==
  ASSUME IInv, NEW c \in Call, UpsertProject(c) PROVE IInv'
<1> DEFINE r == call[c]
           at == IF r.key = NoKey THEN "insert" ELSE "select"
           o == Resolved(defaults[r.project], r.body)
           n == [r EXCEPT !.at = at, !.options = o]
<1>1. TypeOK /\ r \in Request /\ CallInv(c) /\ r.at = "project" /\ ~r.known
  BY DEF IInv, TypeOK, UpsertProject, CallInv, IsKnown, Edge
<1>2. r.project \in Project /\ defaults[r.project] \in Preset
  BY <1>1 DEF CallInv, Carries, TypeOK
<1>3. /\ o \in Preset /\ (r.body \in Preset => o = r.body)
      /\ r.body = Inherit => o = defaults[r.project]
  BY <1>1, <1>2, SubmissionAssumption DEF Resolved, Request
<1>4. at \in {"insert", "select"} /\ (at = "select" => r.key \in Key)
  BY <1>1 DEF Request
<1> HIDE DEF o, at
<1>5. /\ n \in Request
      /\ n.at = at /\ n.options = o /\ n.fingerprint = r.fingerprint
      /\ n.key = r.key /\ n.project = r.project /\ n.body = r.body /\ n.known = r.known
  BY <1>1, <1>3, <1>4 DEF Request, Point, Statement
<1>6. call' = [call EXCEPT ![c] = n]
  BY DEF UpsertProject, o, at
<1> HIDE DEF n
<1>7. call'[c] = n
  BY <1>1, <1>6, Written
<1>8. CallInv(c)'
  BY <1>1, <1>2, <1>3, <1>4, <1>5, <1>7 DEF CallInv, Carries, Finds, IsKnown,
     ResolvesAlike, Edge, Statement, UpsertProject
<1>9. c \in Admitted
  BY <1>1 DEF Admitted
<1>10. Holders(n.project) = {}
  BY <1>5 DEF UpsertProject
<1>11. ~(n.at = "insert" /\ n.key \in Key)
  BY <1>5, SubmissionAssumption DEF at
<1> QED
  BY <1>1, <1>4, <1>5, <1>6, <1>8, <1>9, <1>10, <1>11, MovedStep DEF UpsertProject, TypeOK

LEMMA SelectKeyStep ==
  ASSUME IInv, NEW c \in Call, SelectKey(c) PROVE IInv'
<1> DEFINE r == call[c]
<1>1. TypeOK /\ r \in Request /\ CallInv(c) /\ r.at = "select" /\ ~r.known
  BY DEF IInv, TypeOK, SelectKey, CallInv, IsKnown, Edge
<1>2. r.project \in Project /\ r.key \in Key
  BY <1>1 DEF CallInv, Carries
<1>3. c \in Admitted /\ HoldsProject(c)
  BY <1>1 DEF Admitted, HoldsProject
<1>4. CASE WithKey(r.key) = {}
  <2> DEFINE n == [r EXCEPT !.at = "insert"]
  <2>1. /\ n \in Request
        /\ n.at = "insert" /\ n.options = r.options /\ n.fingerprint = r.fingerprint
        /\ n.key = r.key /\ n.project = r.project /\ n.body = r.body
        /\ n.known = r.known
    BY <1>1 DEF Request, Point, Statement
  <2>2. call' = [call EXCEPT ![c] = n]
    BY <1>4 DEF SelectKey
  <2> HIDE DEF n
  <2>3. call'[c] = n
    BY <1>1, <2>2, Written
  <2>4. CallInv(c)'
    BY <1>1, <1>2, <2>1, <2>3 DEF CallInv, Carries, Finds, IsKnown, ResolvesAlike,
       Edge, Statement, SelectKey
  <2> QED
    BY <1>1, <1>3, <1>4, <2>1, <2>2, <2>4, MovedStep DEF SelectKey, TypeOK
<1>5. CASE WithKey(r.key) # {}
  <2> DEFINE j == RowOf(r.key)
             n == [r EXCEPT !.at = "late", !.job = j]
  <2>1. j \in WithKey(r.key) /\ j \in Nat
    <3>1. j \in WithKey(r.key)
      BY <1>5, RowOfKey
    <3> QED
      BY <1>1, <3>1, RowTyped DEF WithKey, TypeOK
  <2> HIDE DEF j
  <2>2. /\ n \in Request
        /\ n.at = "late" /\ n.job = j /\ n.fingerprint = r.fingerprint
        /\ n.key = r.key /\ n.project = r.project /\ n.body = r.body
        /\ n.known = r.known
    BY <1>1, <2>1 DEF Request, Point, Answer
  <2>3. call' = [call EXCEPT ![c] = n]
    BY <1>5 DEF SelectKey, j
  <2> HIDE DEF n
  <2>4. call'[c] = n
    BY <1>1, <2>3, Written
  <2>5. Finds(c)'
    BY <2>1, <2>2, <2>4 DEF Finds, WithKey, SelectKey
  <2>6. CallInv(c)'
    BY <1>1, <1>2, <2>2, <2>4, <2>5 DEF CallInv, Carries, IsKnown,
       ResolvesAlike, Edge, Statement, SelectKey
  <2> QED
    BY <1>1, <2>2, <2>3, <2>6, MovedStep DEF SelectKey, TypeOK
<1> QED
  BY <1>4, <1>5

\* The insert enters a key no row carries and no other call has entered.
LEMMA InsertJobStep ==
  ASSUME IInv, NEW c \in Call, InsertJob(c) PROVE IInv'
<1> DEFINE r == call[c]
<1>1. TypeOK /\ r \in Request /\ CallInv(c) /\ r.at = "insert" /\ ~r.known
  BY DEF IInv, TypeOK, InsertJob, CallInv, IsKnown, Edge
<1>2. CASE r.key # NoKey /\ KeyTaken(r.key)
  <2>1. Answered(c, "collided", 0)
    BY <1>2 DEF InsertJob
  <2>2. r.key \in Key /\ \E i \in WithKey(r.key) : jobs[i].project # r.project
    BY <1>1, <1>2 DEF IInv, InsertInv, KeyTaken, Request
  <2> QED
    BY <1>1, <2>1, <2>2, AnsweredStep DEF Answer, InsertJob, TypeOK
<1>3. CASE ~(r.key # NoKey /\ KeyTaken(r.key))
  <2> DEFINE n == [r EXCEPT !.at = "commit"]
  <2>1. /\ n \in Request
        /\ n.at = "commit" /\ n.options = r.options /\ n.fingerprint = r.fingerprint
        /\ n.key = r.key /\ n.project = r.project /\ n.body = r.body
        /\ n.known = r.known
    BY <1>1 DEF Request, Point, Statement
  <2>2. call' = [call EXCEPT ![c] = n]
    BY <1>3 DEF InsertJob
  <2> HIDE DEF n
  <2>3. call'[c] = n /\ \A d \in Call \ {c} : call'[d] = call[d]
    BY <1>1, <2>2, Written
  <2>4. UNCHANGED <<jobs, defaults, edits, kvDefaults, kvIdem, begun, told>>
    BY <1>3 DEF InsertJob
  <2>5. TypeOK'
    <3>1. call' \in [Call -> Request]
      BY <1>1, <2>1, <2>2 DEF TypeOK
    <3> QED
      BY <1>1, <2>4, <3>1 DEF TypeOK
  <2>6. CallInv(c)'
    BY <1>1, <2>1, <2>3, <2>4 DEF CallInv, Carries, Finds, IsKnown, ResolvesAlike,
       Edge, Statement
  <2>7. \A k \in Key : told[k] \subseteq told'[k] /\ told'[k] \subseteq WithKey(k)
    BY <2>4 DEF IInv, KeyInv
  <2>8. ASSUME NEW k \in Key, call'[c].key = k PROVE ~KeyTaken(k) /\ ~KeyPending(k)
    BY <1>3, <2>1, <2>3, <2>8, SubmissionAssumption DEF InsertJob
  <2>9. c \in Admitted
    BY <1>1 DEF Admitted
  <2>10. HoldsProject(c) /\ call'[c].project = call[c].project /\ InsertInv(c)'
    BY <1>1, <2>1, <2>3 DEF HoldsProject, InsertInv
  <2> QED
    BY <2>3, <2>4, <2>5, <2>6, <2>7, <2>8, <2>9, <2>10, Step
<1> QED
  BY <1>2, <1>3

LEMMA LateCheckStep ==
  ASSUME IInv, NEW c \in Call, LateCheck(c) PROVE IInv'
<1> DEFINE r == call[c]
<1>1. /\ TypeOK /\ r \in Request /\ CallInv(c) /\ r.at = "late" /\ ~r.known
      /\ r.key \in Key /\ r.fingerprint \in Preset /\ r.job \in WithKey(r.key)
      /\ r.body \in Preset => r.fingerprint = r.body
  BY DEF IInv, TypeOK, LateCheck, CallInv, Carries, Finds, IsKnown, Edge
<1>2. CASE jobs[r.job].options # r.fingerprint
  <2>1. Answered(c, "conflict", 0)
    BY <1>2 DEF LateCheck
  <2> QED
    BY <1>1, <1>2, <2>1, AnsweredStep DEF Answer, LateCheck, TypeOK
<1>3. CASE jobs[r.job].options = r.fingerprint
  <2> DEFINE n == [r EXCEPT !.at = "remember", !.answer = "accepted"]
  <2>1. /\ n \in Request
        /\ n.at = "remember" /\ n.answer = "accepted" /\ n.job = r.job
        /\ n.fingerprint = r.fingerprint /\ n.key = r.key
        /\ n.project = r.project /\ n.body = r.body /\ n.known = r.known
    BY <1>1 DEF Request, Point, Answer
  <2>2. call' = [call EXCEPT ![c] = n]
    BY <1>3 DEF LateCheck
  <2> HIDE DEF n
  <2>3. call'[c] = n
    BY <1>1, <2>2, Written
  <2>4. Finds(c)'
    BY <1>1, <1>3, <2>1, <2>3 DEF Finds, WithKey, LateCheck
  <2>5. CallInv(c)'
    BY <1>1, <1>3, <2>1, <2>3, <2>4 DEF CallInv, Carries, IsKnown, ResolvesAlike,
       Edge, Statement, LateCheck
  <2> QED
    BY <1>1, <1>3, <2>1, <2>2, <2>5, MovedStep DEF LateCheck, TypeOK
<1> QED
  BY <1>2, <1>3

LEMMA RememberIdempotencyStep ==
  ASSUME IInv, NEW c \in Call, RememberIdempotency(c) PROVE IInv'
<1> DEFINE r == call[c]
           record == [job |-> r.job, fingerprint |-> r.fingerprint]
<1>1. /\ TypeOK /\ r \in Request /\ CallInv(c) /\ r.at = "remember"
      /\ r.key \in Key /\ r.fingerprint \in Preset /\ r.job \in WithKey(r.key)
      /\ jobs[r.job].options = r.fingerprint
      /\ r.answer \in {"accepted", "replayed"}
      /\ r.body \in Preset => r.fingerprint = r.body
      /\ r.known => r.answer = "replayed"
  BY DEF IInv, TypeOK, RememberIdempotency, CallInv, Carries, Finds, IsKnown
<1>2. r.job \in Nat \ {0}
  BY <1>1, RowTyped DEF WithKey, TypeOK
<1>3. kvIdem' = [kvIdem EXCEPT ![r.key] = record] /\ jobs' = jobs
  BY DEF RememberIdempotency
<1>4. kvIdem' \in [Key -> IdempotencyRecord \cup {None}]
  BY <1>1, <1>2, <1>3 DEF TypeOK, IdempotencyRecord
<1>5. ASSUME NEW k \in Key PROVE IdemInv(k)'
  BY <1>1, <1>3 DEF IInv, TypeOK, IdemInv, WithKey
<1> QED
  BY <1>1, <1>2, <1>4, <1>5, AnsweredStep DEF RememberIdempotency, Answer

\* An edit makes no promise about what was read before it.
LEMMA SetDefaultsStep ==
  ASSUME IInv, NEW p \in Project, NEW d \in Preset, SetDefaults(p, d) PROVE IInv'
<1>0. TypeOK /\ UNCHANGED <<jobs, kvDefaults, kvIdem, call, begun, told>>
  BY DEF IInv, SetDefaults
<1>1. edits \in [Project -> Nat] /\ edits'[p] = edits[p] + 1 /\ edits[p] < MaxEdits
      /\ \A q \in Project \ {p} : edits'[q] = edits[q] /\ defaults'[q] = defaults[q]
  BY <1>0, SubmissionAssumption DEF TypeOK, SetDefaults
<1>2. Grows
  BY <1>0, <1>1 DEF Grows
<1>3. TypeOK'
  <2>1. edits' \in [Project -> 0..MaxEdits] /\ defaults' \in [Project -> Preset]
    BY <1>0, <1>1, SubmissionAssumption DEF TypeOK, SetDefaults
  <2> QED
    BY <1>0, <2>1 DEF TypeOK
<1>4. \A c \in Call : CallInv(c)'
  BY <1>0, <1>2, CallKept DEF IInv
<1>5. \A j \in DOMAIN jobs' : RowInv(j)'
  BY <1>0, <1>2, RowKept DEF IInv
<1>6. \A q \in Project : DefaultsInv(q)'
  BY <1>0, <1>2 DEF IInv, DefaultsInv, Grows
<1>7. \A k \in Key : IdemInv(k)' /\ KeyInv(k)'
  BY <1>0 DEF IInv, IdemInv, KeyInv, WithKey
<1>8. PlacesInv' /\ LockInv' /\ \A c \in Call : InsertInv(c)'
  BY <1>0 DEF IInv, PlacesInv, Admitted, LockInv, HoldsProject, InsertInv, WithKey
<1> QED
  BY <1>3, <1>4, <1>5, <1>6, <1>7, <1>8 DEF IInv

\* The commit adds the row, and the call gives up the place it had reserved.
LEMMA CommitStep ==
  ASSUME IInv, NEW c \in Call, Commit(c) PROVE IInv'
<1> DEFINE r == call[c]
           m == Len(jobs) + 1
           row == [key |-> r.key, project |-> r.project,
                   options |-> r.options, body |-> r.body]
           n == IF r.key = NoKey
                THEN [r EXCEPT !.at = "answered", !.answer = "accepted", !.job = m]
                ELSE [r EXCEPT !.at = "late", !.job = m]
<1>1. /\ TypeOK /\ r \in Request /\ CallInv(c) /\ r.at = "commit" /\ ~r.known
      /\ r.project \in Project /\ r.options \in Preset
      /\ r.body \in Preset => r.options = r.body
      /\ r.key \in Key => r.fingerprint \in Preset
      /\ r.fingerprint \in Preset /\ r.body \in Preset => r.fingerprint = r.body
      /\ r.body = Inherit /\ edits[r.project] = 0 => r.options = defaults[r.project]
  BY DEF IInv, TypeOK, Commit, CallInv, Carries, IsKnown, ResolvesAlike, Edge, Statement
<1>2. row \in Job /\ m \in Nat /\ m \notin DOMAIN jobs
  BY <1>1 DEF Job, Request, TypeOK
<1>3. /\ n \in Request
      /\ n.at = IF r.key = NoKey THEN "answered" ELSE "late"
      /\ n.at = "answered" => n.answer = "accepted"
      /\ n.job = m /\ n.fingerprint = r.fingerprint
      /\ n.key = r.key /\ n.project = r.project /\ n.body = r.body
      /\ n.known = r.known
  BY <1>1, <1>2 DEF Request, Point, Answer
<1>4. /\ jobs' = Append(jobs, row)
      /\ UNCHANGED <<defaults, edits, kvDefaults, kvIdem, begun, told>>
      /\ call' = [call EXCEPT ![c] = n]
  BY SubmissionAssumption DEF Commit, Answered
<1> HIDE DEF n, row
<1>5. call'[c] = n /\ \A d \in Call \ {c} : call'[d] = call[d]
  BY <1>1, <1>4, Written
<1>6. /\ DOMAIN jobs' = DOMAIN jobs \cup {m} /\ Len(jobs') = m
      /\ jobs'[m] = row /\ \A j \in DOMAIN jobs : jobs'[j] = jobs[j]
      /\ jobs' \in Seq(Job)
  BY <1>1, <1>2, <1>4 DEF TypeOK
<1> HIDE DEF m
<1>7. row.key = r.key /\ row.project = r.project /\ row.options = r.options
      /\ row.body = r.body
  BY DEF row
<1>8. \A k \in Key : /\ k # r.key => WithKey(k)' = WithKey(k)
                     /\ k = r.key => WithKey(k)' = WithKey(k) \cup {m}
  BY <1>2, <1>6, <1>7 DEF WithKey
<1>9. Grows
  BY <1>4, <1>6 DEF Grows
<1>10. TypeOK'
  <2>1. call' \in [Call -> Request]
    BY <1>1, <1>3, <1>4 DEF TypeOK
  <2> QED
    BY <1>1, <1>4, <1>6, <2>1 DEF TypeOK
<1>11. CallInv(c)'
  <2>1. m \in WithKey(r.key)'
    BY <1>5, <1>6, <1>7, <1>3 DEF WithKey
  <2>2. Finds(c)'
    BY <1>1, <1>3, <1>5, <1>6, <1>7, <2>1, SubmissionAssumption DEF Finds, WithKey
  <2> QED
    BY <1>1, <1>3, <1>4, <1>5, <2>2
    DEF CallInv, Carries, IsKnown, ResolvesAlike, Edge, Statement, Request
<1>12. \A d \in Call : CallInv(d)'
  BY <1>5, <1>9, <1>11, CallKept DEF IInv
<1>13. ASSUME NEW j \in DOMAIN jobs' PROVE RowInv(j)'
  <2>1. CASE j \in DOMAIN jobs
    BY <1>1, <1>9, <2>1, RowKept DEF IInv
  <2>2. CASE j = m
    BY <1>1, <1>4, <1>6, <1>7, <2>2 DEF RowInv
  <2> QED
    BY <1>6, <2>1, <2>2
<1>14. ASSUME NEW k \in Key PROVE IdemInv(k)' /\ KeyInv(k)'
  <2>1. IdemInv(k) /\ KeyInv(k)
    BY DEF IInv
  <2>2. IdemInv(k)'
    BY <1>4, <1>9, <2>1, FoundAgain DEF IdemInv
  <2>3. told'[k] \subseteq WithKey(k)'
    BY <1>4, <1>8, <2>1 DEF KeyInv
  <2>4. k = r.key => WithKey(k) = {}
    BY <1>1, <2>1 DEF KeyInv
  <2>5. \A i, j \in WithKey(k)' : i = j
    BY <1>8, <2>1, <2>4 DEF KeyInv
  <2>6. ASSUME NEW d \in Call, NEW e \in Call, call'[d].key = k, call'[d].at = "commit"
        PROVE  WithKey(k)' = {} /\ (call'[e].key = k /\ call'[e].at = "commit" => d = e)
    <3>1. d # c /\ call[d].key = k /\ call[d].at = "commit"
      BY <1>3, <1>5, <2>6
    <3>2. k # r.key
      BY <1>1, <2>1, <3>1 DEF KeyInv
    <3> QED
      BY <1>3, <1>5, <1>8, <2>1, <3>1, <3>2 DEF KeyInv
  <2> QED
    BY <2>2, <2>3, <2>5, <2>6 DEF KeyInv
<1>15. PlacesInv'
  <2>1. c \in Admitted /\ Admitted' = Admitted \ {c}
    BY <1>1, <1>3, <1>5 DEF Admitted
  <2>2. IsFiniteSet(Admitted) /\ Cardinality(Admitted) \in Nat
    BY AdmittedFinite DEF Admitted
  <2>3. Cardinality(Admitted') = Cardinality(Admitted) - 1
    BY <2>1, <2>2, FS_RemoveElement
  <2>4. Len(jobs) \in Nat /\ JobLimit \in Nat /\ Cardinality(Call) \in Nat
    BY <1>1, AdmittedFinite, SubmissionAssumption DEF TypeOK
  <2>5. Len(jobs') = Len(jobs) + 1
    BY <1>6 DEF m
  <2> QED
    BY <2>2, <2>3, <2>4, <2>5 DEF IInv, PlacesInv
<1>16. LockInv'
  BY <1>3, <1>5 DEF IInv, LockInv, HoldsProject
<1>17. ASSUME NEW d \in Call PROVE InsertInv(d)'
  <2> DEFINE k == call'[d].key
  <2> SUFFICES ASSUME call'[d].at = "insert", k \in Key,
                      NEW j \in DOMAIN jobs', jobs'[j].key = k
               PROVE  jobs'[j].project # call'[d].project
    BY DEF InsertInv, WithKey
  <2>1. /\ d # c /\ call'[d] = call[d] /\ InsertInv(d)
        /\ call[d].at = "insert" /\ call[d].key = k
    BY <1>3, <1>5 DEF IInv
  <2>2. CASE j \in DOMAIN jobs
    <3>1. j \in WithKey(k) /\ jobs'[j] = jobs[j]
      BY <1>6, <2>2 DEF WithKey
    <3> QED
      BY <2>1, <3>1 DEF InsertInv
  <2>3. CASE j = m
    <3>1. call[d].project # r.project
      BY <1>1, <2>1 DEF IInv, LockInv, HoldsProject
    <3> QED
      BY <1>6, <1>7, <2>1, <2>3, <3>1
  <2> QED
    BY <1>6, <2>2, <2>3
<1> QED
  BY <1>4, <1>10, <1>12, <1>13, <1>14, <1>15, <1>16, <1>17 DEF IInv, DefaultsInv

LEMMA NextIInv == IInv /\ [Next]_vars => IInv'
<1> SUFFICES ASSUME IInv, [Next]_vars PROVE IInv'
  OBVIOUS
<1>1. ASSUME NEW c \in Call, SubmitJob(c) PROVE IInv'
  BY <1>1, DefaultsHitStep, DefaultsReadStep, DefaultsCachedStep, IdempotencyHitStep,
     IdempotencyMissStep, FindByIdempotencyKeyStep, CheckLimitsStep, UpsertProjectStep,
     SelectKeyStep, InsertJobStep, CommitStep, LateCheckStep, RememberIdempotencyStep
  DEF SubmitJob
<1>2. CASE UNCHANGED vars
  BY <1>2 DEF vars, IInv, TypeOK, CallInv, Carries, Finds, IsKnown, ResolvesAlike,
     InsertInv, LockInv, HoldsProject, RowInv, DefaultsInv, IdemInv, KeyInv, PlacesInv,
     Admitted, WithKey
<1> QED
  BY <1>1, <1>2, BeginStep, SetDefaultsStep DEF Next

--------------------------------------------------------------------------------
(* What is promised.                                                       *)

\* The invariant holds in every state the calls, their caches and the edits of the
\* defaults can reach.
THEOREM Inductive == Spec => []IInv
  BY InitIInv, NextIInv, PTL DEF Spec

\* Rows, cache entries and requests keep their types: no record of job 0 is cached
\* and no row is stored without options (submit_job's insert, rememberIdempotency).
THEOREM TypeCorrect == Spec => []TypeOK
<1>1. IInv => TypeOK
  BY DEF IInv
<1> QED
  BY <1>1, Inductive, PTL

\* No interleaving of caches, selects, inserts and retries lets a key name two jobs.
THEOREM KeysNameOneJob == Spec => []KeyNamesOneJob
<1>1. IInv => KeyNamesOneJob
  <2> SUFFICES ASSUME IInv, NEW k \in Key
               PROVE  Cardinality(WithKey(k)) <= 1 /\ told[k] \subseteq WithKey(k)
    BY DEF KeyNamesOneJob
  <2>1. \A i, j \in WithKey(k) : i = j
    BY DEF IInv, KeyInv
  <2>2. WithKey(k) = {} \/ \E j : WithKey(k) = {j}
    BY <2>1
  <2>3. Cardinality(WithKey(k)) = 0 \/ Cardinality(WithKey(k)) = 1
    BY <2>2, FS_EmptySet, FS_Singleton
  <2> QED
    BY <2>3 DEF IInv, KeyInv
<1> QED
  BY <1>1, Inductive, PTL

\* However many calls compare the counters before any of them commits, they push the
\* month no further past its limit than their own number less one.
THEOREM MonthOvershootBounded == Spec => []OvershootBounded
<1>1. IInv => OvershootBounded
  <2> SUFFICES ASSUME IInv PROVE OvershootBounded
    OBVIOUS
  <2>1. /\ Cardinality(Admitted) \in Nat /\ Cardinality(Call) \in Nat
        /\ Len(jobs) \in Nat /\ JobLimit \in Nat
    BY AdmittedFinite, SubmissionAssumption DEF Admitted, IInv, TypeOK
  <2> QED
    BY <2>1 DEF IInv, PlacesInv, OvershootBounded
<1> QED
  BY <1>1, Inductive, PTL

\* Whichever way a call with a key was answered, the job it is told of renders what
\* the call was compared with, and what its body named.
THEOREM AnsweredAsAsked == Spec => []RendersWhatWasAsked
<1>1. IInv => RendersWhatWasAsked
  BY DEF IInv, CallInv, Finds, RendersWhatWasAsked
<1> QED
  BY <1>1, Inductive, PTL

\* A row that a call was found to differ from is one the call does not repeat: while
\* the defaults are as they were, both resolved the same body in the same way.
LEMMA DifferentNotRepeated ==
  ASSUME IInv, NEW c \in Call, call[c].fingerprint \in Preset,
         call[c].project \in Project,
         NEW j \in WithKey(call[c].key), jobs[j].options # call[c].fingerprint
  PROVE  ~Repeats(c, j)
<1> DEFINE r == call[c]
<1> SUFFICES ASSUME Repeats(c, j) PROVE FALSE
  OBVIOUS
<1>1. /\ r \in Request /\ CallInv(c) /\ RowInv(j)
      /\ r.body \in Preset => r.fingerprint = r.body
  BY DEF IInv, TypeOK, CallInv, Carries, WithKey
<1>2. r.body = Inherit
  BY <1>1 DEF Repeats, RowInv, Request
<1>3. edits[r.project] = 0 /\ jobs[j].project = r.project /\ jobs[j].body = Inherit
  BY <1>2 DEF Repeats
<1>4. r.fingerprint = defaults[r.project]
  BY <1>1, <1>2, <1>3, SubmissionAssumption DEF CallInv, ResolvesAlike
<1> QED
  BY <1>1, <1>3, <1>4 DEF RowInv

\* A 409 is never the work of the caches or of the order of the calls alone.  The
\* comparison of submitJob refuses a call only over a row that the call does not repeat,
\* and the unique index only over a row of another project: the lock of the project's
\* row keeps every other call from storing the key between the select and the insert.
THEOREM ConflictsHaveCauses == Spec => []ConflictHasCause
<1>1. IInv => ConflictHasCause
  <2> SUFFICES ASSUME IInv, NEW c \in Call, call[c].at = "answered"
               PROVE  /\ call[c].answer = "conflict" =>
                            \E j \in WithKey(call[c].key) : ~Repeats(c, j)
                      /\ call[c].answer = "collided" =>
                            /\ call[c].key \in Key
                            /\ \E j \in WithKey(call[c].key) :
                                  jobs[j].project # call[c].project
    BY DEF ConflictHasCause
  <2>1. Finds(c) /\ call[c].project \in Project
    BY DEF IInv, CallInv, Carries
  <2>2. ASSUME call[c].answer = "conflict"
        PROVE  \E j \in WithKey(call[c].key) : ~Repeats(c, j)
    BY <2>1, <2>2, DifferentNotRepeated DEF Finds
  <2> QED
    BY <2>1, <2>2 DEF Finds
<1> QED
  BY <1>1, Inductive, PTL

\* A retry of what was already answered is found by its key before the limit or the
\* unique index could refuse it, and one that repeats its original gets its job: the
\* key is on no other row, and no comparison tells the two apart.
THEOREM RetriesRecognised == Spec => []RetryIsRecognised
<1>1. IInv => RetryIsRecognised
  <2> SUFFICES ASSUME IInv, NEW c \in Call, call[c].at = "answered", call[c].known
               PROVE  /\ call[c].answer \in {"replayed", "conflict"}
                      /\ \A j \in WithKey(call[c].key) : Repeats(c, j) =>
                            call[c].answer = "replayed" /\ call[c].job = j
    BY DEF RetryIsRecognised
  <2>1. /\ Finds(c) /\ call[c].project \in Project /\ call[c].key \in Key
        /\ call[c].answer \in {"replayed", "conflict"}
    BY DEF IInv, CallInv, Carries, IsKnown
  <2>2. \A i, j \in WithKey(call[c].key) : i = j
    BY <2>1 DEF IInv, KeyInv
  <2>3. ASSUME NEW j \in WithKey(call[c].key), Repeats(c, j)
        PROVE  call[c].answer = "replayed" /\ call[c].job = j
    <3>1. call[c].answer # "conflict"
      BY <2>1, <2>2, <2>3, DifferentNotRepeated DEF Finds
    <3> QED
      BY <2>1, <2>2, <3>1 DEF Finds
  <2> QED
    BY <2>1, <2>3
<1> QED
  BY <1>1, Inductive, PTL

================================================================================

-------------------------- MODULE RenderQueueProofs ----------------------------
(***************************************************************************)
(* Safety of the job queue for any number of jobs, orgs, kinds and any     *)
(* max_attempts.  Every action rewrites rows one at a time, so the proof   *)
(* first shows of each way to rewrite a row that it keeps RowInv, what is  *)
(* always true of one row, its ledger and the tokens drawn so far; the     *)
(* steps of the actions only put these facts together.                     *)
(***************************************************************************)
EXTENDS RenderQueue, FiniteSetTheorems, TLAPS

Bills == [1..MaxAttempts -> Nat]

\* What holds of a row and its render_seconds rows while n tokens are drawn.
\* A row not yet inserted has had no attempt: its insert may start from zero.
RowInv(row, n, bills) ==
  /\ row \in Row
  /\ bills \in Bills
  /\ row.token <= n
  /\ CoherentRow(row)
  /\ AttemptBoundRow(row)
  /\ VerdictRow(row)
  /\ BilledRow(row, bills)
  /\ row.state = Absent => row.attempt = 0

\* The inductive invariant.
IInv ==
  /\ TypeOK
  /\ \A j \in Job : RowInv(jobs[j], minted, ledger[j])
  /\ LeaseExclusive

--------------------------------------------------------------------------------
(* Rewriting one row.                                                      *)

\* What the trigger does to each column of a row it accepts.
LEMMA EnforcedFields ==
  ASSUME NEW old \in Row, NEW new \in Row
  PROVE  LET e == Enforced(old, new)
             leaves == new.state # old.state /\ new.state \in {"queued"} \cup Terminal
         IN  /\ e \in Row
             /\ e.state = new.state
             /\ e.attempt = new.attempt
             /\ e.error = new.error
             /\ e.token = IF leaves THEN NoToken ELSE new.token
             /\ leaves => ~e.lapsed
             /\ ~leaves => (e.lapsed <=> new.lapsed)
             /\ e.finished <=> (new.finished \/ (leaves /\ new.state # "queued"))
             /\ e.started <=> IF new.state = old.state THEN new.started
                              ELSE /\ new.state # "queued"
                                   /\ new.started \/ new.state = "running"
<1> DEFINE e == Enforced(old, new)
<1>1. e \in Row
  BY DEF Enforced, Row, NoToken
<1>2. e.state = new.state /\ e.attempt = new.attempt /\ e.error = new.error
  BY DEF Enforced, Row
<1>3. CASE new.state = old.state
  BY <1>1, <1>2, <1>3 DEF Enforced
<1>4. CASE new.state # old.state
  <2> DEFINE leaves == new.state \in {"queued"} \cup Terminal
  <2>1. e = [new EXCEPT
               !.token    = IF leaves THEN NoToken ELSE @,
               !.lapsed   = IF leaves THEN FALSE ELSE @,
               !.started  = IF new.state = "queued" THEN FALSE
                            ELSE @ \/ new.state = "running",
               !.finished = @ \/ new.state \in Terminal]
    BY <1>4 DEF Enforced
  <2>2. e.token = IF leaves THEN NoToken ELSE new.token
    BY <2>1 DEF Row
  <2>3. e.lapsed = IF leaves THEN FALSE ELSE new.lapsed
    BY <2>1 DEF Row
  <2>4. e.started = IF new.state = "queued" THEN FALSE
                    ELSE new.started \/ new.state = "running"
    BY <2>1 DEF Row
  <2>5. e.finished = (new.finished \/ new.state \in Terminal)
    BY <2>1 DEF Row
  <2>6. new.state \in Terminal <=> leaves /\ new.state # "queued"
    BY DEF Terminal
  <2> QED
    BY <1>1, <1>2, <1>4, <2>2, <2>3, <2>4, <2>5, <2>6
<1> QED
  BY <1>3, <1>4

\* Leasing a queued row: the new attempt is within the budget and unbilled.
LEMMA LeasedRow ==
  ASSUME NEW row, NEW n \in Nat, NEW bills,
         RowInv(row, n, bills), row.state = "queued"
  PROVE  LET new == Enforced(row, Leased(row, n + 1))
         IN  /\ RowInv(new, n + 1, bills)
             /\ new.token = n + 1
<1> DEFINE l == Leased(row, n + 1)
           e == Enforced(row, l)
<1>0. row \in Row
  BY DEF RowInv
<1>1. /\ l \in Row
      /\ l.state = "leased" /\ l.token = n + 1 /\ l.attempt = row.attempt + 1
      /\ l.error = row.error /\ ~l.lapsed /\ (l.finished <=> row.finished)
  <2>1. "leased" \in State /\ n + 1 \in Nat /\ row.attempt + 1 \in Nat
    BY <1>0 DEF Row, State, InFlight
  <2>2. l \in Row
    BY <1>0, <2>1 DEF Leased, Row
  <2> QED
    BY <1>0, <2>2 DEF Leased, Row
<1>2. /\ e \in Row
      /\ e.state = "leased" /\ e.token = n + 1 /\ e.attempt = row.attempt + 1
      /\ e.error = row.error /\ ~e.lapsed /\ (e.finished <=> row.finished)
  BY <1>1, EnforcedFields DEF RowInv, Terminal
<1>3. CoherentRow(e)
  BY <1>2 DEF CoherentRow, RowInv, InFlight, Terminal, NoToken
<1>4. AttemptBoundRow(e)
  BY <1>2, MaxAttemptsAssumption DEF AttemptBoundRow, RowInv, InFlight, Row
<1>5. VerdictRow(e)
  BY <1>2 DEF VerdictRow, RowInv
<1>6. BilledRow(e, bills)
  BY <1>2, MaxAttemptsAssumption DEF BilledRow, RowInv, Row, Bills
<1> QED
  BY <1>2, <1>3, <1>4, <1>5, <1>6 DEF RowInv, Absent

\* A heartbeat renews the lease and may move the row one in-flight state on.
LEMMA ReportedRow ==
  ASSUME NEW row, NEW n \in Nat, NEW bills, RowInv(row, n, bills),
         row.state \in InFlight, NEW s \in {"same", "running", "uploading"},
         Accepted(row, Reported(row, s))
  PROVE  LET new == Enforced(row, Reported(row, s))
         IN  /\ RowInv(new, n, bills)
             /\ new.token = row.token
<1> DEFINE p == Reported(row, s)
           e == Enforced(row, p)
<1>1. /\ p \in Row
      /\ p.state = IF s = "same" THEN row.state ELSE s
      /\ p.token = row.token /\ p.attempt = row.attempt /\ p.error = row.error
      /\ ~p.lapsed
      /\ p.finished <=> row.finished
      /\ p.started <=> row.started
  BY DEF Reported, RowInv, Row, State, InFlight
<1>2. p.state \in InFlight
  BY <1>1 DEF InFlight
<1>3. p.state = "uploading" /\ row.state # "uploading" => row.state = "running"
  BY <1>2 DEF Accepted, LegalTransition, InFlight
<1>4. /\ e \in Row
      /\ e.state = p.state /\ e.token = row.token /\ e.attempt = row.attempt
      /\ e.error = row.error /\ ~e.lapsed /\ (e.finished <=> row.finished)
      /\ e.started <=> row.started \/ (p.state = "running" /\ row.state # "running")
  BY <1>1, <1>2, EnforcedFields DEF RowInv, Terminal, InFlight
<1>5. CoherentRow(e)
  BY <1>2, <1>3, <1>4 DEF CoherentRow, RowInv, InFlight, Terminal
<1>6. AttemptBoundRow(e) /\ VerdictRow(e)
  BY <1>2, <1>4 DEF AttemptBoundRow, VerdictRow, RowInv, InFlight
<1>7. BilledRow(e, bills)
  BY <1>2, <1>4 DEF BilledRow, RowInv
<1> QED
  BY <1>2, <1>4, <1>5, <1>6, <1>7 DEF RowInv, InFlight, Absent

\* Where complete_job may send a row, and that a final error always fails it.
LEMMA NextStateCases ==
  ASSUME NEW row, NEW r \in Report
  PROVE  LET next == NextState(row, r)
         IN  /\ next \in {"done", "cancelled", "queued", "failed"}
             /\ next = "done" <=> r.outcome = "done"
             /\ next = "queued" => CanRetry(row) /\ r.error # "final"
             /\ next = "cancelled" => r.error = "none"
             /\ r.error \in {"none", "retryable", "final"}
  BY DEF NextState, Report

\* Completing a row, with or without a ledger row for its attempt.
LEMMA CompletedRow ==
  ASSUME NEW row, NEW n \in Nat, NEW bills, RowInv(row, n, bills),
         row.state \in InFlight, NEW r \in Report,
         Accepted(row, Completed(row, r, NextState(row, r)))
  PROVE  LET new == Enforced(row, Completed(row, r, NextState(row, r)))
         IN  /\ RowInv(new, n, IF r.burned
                               THEN [bills EXCEPT ![row.attempt] = @ + 1] ELSE bills)
             /\ new.token = NoToken
<1> DEFINE next == NextState(row, r)
           c == Completed(row, r, next)
           e == Enforced(row, c)
           paid == IF r.burned THEN [bills EXCEPT ![row.attempt] = @ + 1] ELSE bills
<1>1. /\ next \in {"done", "cancelled", "queued", "failed"}
      /\ next = "done" <=> r.outcome = "done"
      /\ next = "queued" => CanRetry(row) /\ r.error # "final"
      /\ next = "cancelled" => r.error = "none"
      /\ r.error \in {"none", "retryable", "final"}
  BY NextStateCases
<1>2. c \in Row
  <2> DEFINE err  == IF r.outcome = "done" THEN "none" ELSE r.error
             held == row.held \/ next = "queued"
             fin  == next \in {"done", "failed", "cancelled"}
  <2>1. row \in Row
    BY DEF RowInv
  <2>2. next \in State /\ err \in Error
    BY <1>1 DEF State, Terminal, Error
  <2>3. held \in BOOLEAN /\ fin \in BOOLEAN
    OBVIOUS
  <2>4. c = [row EXCEPT !.state = next, !.error = err, !.held = held, !.finished = fin]
    BY DEF Completed
  <2> HIDE DEF next, err, held, fin
  <2> QED
    BY <2>1, <2>2, <2>3, <2>4 DEF Row
<1>3. /\ c.state = next /\ c.attempt = row.attempt
      /\ c.error = IF r.outcome = "done" THEN "none" ELSE r.error
      /\ c.finished <=> next \in {"done", "failed", "cancelled"}
      /\ c.started <=> row.started
  BY DEF Completed, RowInv, Row
<1>4. row.state # next /\ (next = "done" => row.state = "uploading")
  BY <1>1, <1>3 DEF Accepted, LegalTransition, InFlight
<1>5. /\ e \in Row
      /\ e.state = next /\ e.attempt = row.attempt /\ e.token = NoToken
      /\ e.error = IF r.outcome = "done" THEN "none" ELSE r.error
      /\ ~e.lapsed
      /\ e.finished <=> next # "queued"
      /\ next = "done" => e.started
  BY <1>1, <1>2, <1>3, <1>4, EnforcedFields DEF RowInv, CoherentRow, Terminal
<1>6. CoherentRow(e)
  BY <1>1, <1>5 DEF CoherentRow, InFlight, Terminal
<1>7. AttemptBoundRow(e)
  BY <1>1, <1>5 DEF AttemptBoundRow, CanRetry, InFlight
<1>8. VerdictRow(e)
  BY <1>1, <1>5 DEF VerdictRow
<1>9. paid \in Bills /\ BilledRow(e, paid)
  <2>1. row.attempt \in 1..MaxAttempts /\ bills \in Bills /\ BilledRow(row, bills)
    BY DEF RowInv, AttemptBoundRow
  <2>2. bills[row.attempt] = 0
    BY <2>1 DEF BilledRow, Bills
  <2>3. paid \in Bills
    BY <2>1 DEF Bills
  <2>4. ASSUME NEW a \in 1..MaxAttempts
        PROVE  /\ paid[a] <= 1
               /\ paid[a] > 0 => /\ a <= e.attempt
                                 /\ a = e.attempt => e.state \notin InFlight
    BY <1>1, <1>5, <2>1, <2>2, <2>4 DEF BilledRow, Bills, InFlight
  <2> QED
    BY <2>3, <2>4 DEF BilledRow
<1> QED
  BY <1>1, <1>5, <1>6, <1>7, <1>8, <1>9 DEF RowInv, NoToken, Absent

\* The reaper hands a row back or fails it, and never touches its ledger.
LEMMA ReapedRow ==
  ASSUME NEW row, NEW n \in Nat, NEW bills, RowInv(row, n, bills),
         row.state \in InFlight
  PROVE  LET new == Enforced(row, Reaped(row))
         IN  /\ RowInv(new, n, bills)
             /\ new.token = NoToken
<1> DEFINE next == IF CanRetry(row) THEN "queued" ELSE "failed"
           c == Reaped(row)
           e == Enforced(row, c)
<1>1. row \in Row
  BY DEF RowInv
<1>2. c \in Row
  <2> DEFINE err  == IF next = "failed" THEN "lease_expired" ELSE row.error
             held == row.held \/ next = "queued"
             fin  == next = "failed"
  <2>1. next \in State /\ err \in Error /\ held \in BOOLEAN /\ fin \in BOOLEAN
    BY <1>1 DEF State, Terminal, Error, Row
  <2>2. c = [row EXCEPT !.state = next, !.held = held, !.error = err, !.finished = fin]
    BY DEF Reaped
  <2> HIDE DEF next, err, held, fin
  <2> QED
    BY <1>1, <2>1, <2>2 DEF Row
<1>3. /\ c.state = next /\ c.attempt = row.attempt
      /\ c.error = IF next = "failed" THEN "lease_expired" ELSE row.error
      /\ c.finished <=> next = "failed"
  BY <1>1 DEF Reaped, Row
<1>4. /\ e \in Row
      /\ e.state = next /\ e.attempt = row.attempt /\ e.token = NoToken
      /\ e.error = IF next = "failed" THEN "lease_expired" ELSE row.error
      /\ ~e.lapsed
      /\ e.finished <=> next = "failed"
  BY <1>1, <1>2, <1>3, EnforcedFields DEF InFlight, Terminal
<1>5. CoherentRow(e)
  BY <1>4 DEF CoherentRow, InFlight, Terminal
<1>6. AttemptBoundRow(e)
  BY <1>4 DEF AttemptBoundRow, CanRetry, InFlight
<1>7. VerdictRow(e)
  BY <1>4 DEF VerdictRow, RowInv, InFlight
<1>8. BilledRow(e, bills)
  BY <1>4 DEF BilledRow, RowInv, InFlight
<1> QED
  BY <1>4, <1>5, <1>6, <1>7, <1>8 DEF RowInv, NoToken, Absent

\* A cancel ends a queued row and flags one in flight, whose lease it keeps.
LEMMA CancelAskedRow ==
  ASSUME NEW row, NEW n \in Nat, NEW bills, RowInv(row, n, bills),
         row.state \notin Terminal \cup {Absent}
  PROVE  LET new == Enforced(row, CancelAsked(row))
         IN  /\ RowInv(new, n, bills)
             /\ new.token = row.token
<1> DEFINE c == CancelAsked(row)
           e == Enforced(row, c)
<1>1. row \in Row /\ row.state \in {"queued"} \cup InFlight
  BY DEF RowInv, Row, State
<1>2. /\ c \in Row
      /\ c.state = IF row.state = "queued" THEN "cancelled" ELSE row.state
      /\ c.attempt = row.attempt /\ c.error = row.error /\ c.token = row.token
      /\ c.lapsed <=> row.lapsed
      /\ c.finished <=> row.finished \/ row.state = "queued"
      /\ c.started <=> row.started
  BY <1>1 DEF CancelAsked, Row, State, Terminal
<1>3. CASE row.state = "queued"
  <2>1. row.token = NoToken /\ ~row.lapsed /\ ~row.finished
    BY <1>3 DEF RowInv, CoherentRow, InFlight, Terminal
  <2>2. /\ e \in Row
        /\ e.state = "cancelled" /\ e.attempt = row.attempt /\ e.token = NoToken
        /\ e.error = row.error /\ ~e.lapsed /\ e.finished
    BY <1>1, <1>2, <1>3, EnforcedFields DEF Terminal
  <2> QED
    BY <2>1, <2>2, <1>3 DEF RowInv, CoherentRow, AttemptBoundRow, VerdictRow,
                            BilledRow, InFlight, Terminal, NoToken, Absent
<1>4. CASE row.state \in InFlight
  <2>1. c.state = row.state
    BY <1>2, <1>4 DEF InFlight
  <2>2. /\ e \in Row
        /\ e.state = row.state /\ e.attempt = row.attempt /\ e.token = row.token
        /\ e.error = row.error /\ (e.lapsed <=> row.lapsed)
        /\ (e.finished <=> row.finished) /\ (e.started <=> row.started)
    BY <1>1, <1>2, <1>4, <2>1, EnforcedFields DEF InFlight
  <2> QED
    BY <2>2 DEF RowInv, CoherentRow, AttemptBoundRow, VerdictRow, BilledRow
<1> QED
  BY <1>1, <1>3, <1>4

\* Retention ends a done row.
LEMMA ExpiredRow ==
  ASSUME NEW row, NEW n \in Nat, NEW bills, RowInv(row, n, bills), row.state = "done"
  PROVE  LET new == Enforced(row, Expired(row))
         IN  /\ RowInv(new, n, bills)
             /\ new.token = NoToken
<1> DEFINE c == Expired(row)
           e == Enforced(row, c)
<1>1. row \in Row /\ row.started
  BY DEF RowInv, CoherentRow
<1>2. /\ c \in Row
      /\ c.state = "expired" /\ c.attempt = row.attempt /\ c.error = row.error
      /\ (c.started <=> row.started)
  BY <1>1 DEF Expired, Row, State, Terminal
<1>3. /\ e \in Row
      /\ e.state = "expired" /\ e.attempt = row.attempt /\ e.token = NoToken
      /\ e.error = row.error /\ ~e.lapsed /\ e.finished /\ e.started
  BY <1>1, <1>2, EnforcedFields DEF Terminal
<1> QED
  BY <1>3 DEF RowInv, CoherentRow, AttemptBoundRow, VerdictRow, BilledRow,
              InFlight, Terminal, NoToken, Absent

\* The columns that only mark the passing of time or a client's wish.
LEMMA MarkedRow ==
  ASSUME NEW row, NEW n \in Nat, NEW bills, RowInv(row, n, bills),
         NEW flag \in BOOLEAN
  PROVE  /\ RowInv([row EXCEPT !.cancel = flag], n, bills)
         /\ RowInv([row EXCEPT !.held = FALSE], n, bills)
         /\ row.state \in InFlight => RowInv([row EXCEPT !.lapsed = TRUE], n, bills)
         /\ [row EXCEPT !.cancel = flag].token = row.token
         /\ [row EXCEPT !.held = FALSE].token = row.token
         /\ [row EXCEPT !.lapsed = TRUE].token = row.token
<1>1. row \in Row
  BY DEF RowInv
<1>2. ASSUME NEW new \in Row,
             new.state = row.state, new.token = row.token, new.attempt = row.attempt,
             new.error = row.error, new.finished = row.finished,
             new.started = row.started,
             new.lapsed = row.lapsed \/ row.state \in InFlight
      PROVE  RowInv(new, n, bills)
  BY <1>2 DEF RowInv, CoherentRow, AttemptBoundRow, VerdictRow, BilledRow
<1>3. RowInv([row EXCEPT !.cancel = flag], n, bills)
  BY <1>1, <1>2 DEF Row
<1>4. RowInv([row EXCEPT !.held = FALSE], n, bills)
  BY <1>1, <1>2 DEF Row
<1>5. row.state \in InFlight => RowInv([row EXCEPT !.lapsed = TRUE], n, bills)
  BY <1>1, <1>2 DEF Row
<1> QED
  BY <1>1, <1>3, <1>4, <1>5 DEF Row

\* A row as submit_job inserts it, over a row that was never there.
LEMMA InsertedRow ==
  ASSUME NEW row, NEW n \in Nat, NEW bills, RowInv(row, n, bills), row.state = Absent
  PROVE  LET new == [BlankRow EXCEPT !.state = "queued"]
         IN  RowInv(new, n, bills) /\ new.token = NoToken
<1> DEFINE new == [BlankRow EXCEPT !.state = "queued"]
<1>1. /\ new \in Row
      /\ new.state = "queued" /\ new.attempt = 0 /\ new.token = NoToken
      /\ new.error = "none" /\ ~new.lapsed /\ ~new.finished /\ ~new.started
  BY DEF BlankRow, Row, State, Error, NoToken, Absent
<1>2. \A a \in 1..MaxAttempts : bills[a] = 0
  BY DEF RowInv, BilledRow, Bills
<1> QED
  BY <1>1, <1>2, MaxAttemptsAssumption
  DEF RowInv, CoherentRow, AttemptBoundRow, VerdictRow, BilledRow,
      InFlight, Terminal, NoToken, Absent

--------------------------------------------------------------------------------
(* From rows to the table.                                                 *)

\* A step that draws no token and leaves every row well, each with the token it
\* had or none, keeps the invariant.
LEMMA RowsToTable ==
  ASSUME IInv, minted' = minted,
         jobs' \in [Job -> Row],
         artifacts' \in [Job -> [Kind -> Artifact]],
         ledger' \in [Job -> Bills],
         counters' \in [Org -> [completed : Nat, failed : Nat]],
         \A k \in Job : /\ RowInv(jobs'[k], minted, ledger'[k])
                       /\ jobs'[k].token \in {NoToken, jobs[k].token}
  PROVE  IInv'
<1>1. TypeOK'
  BY DEF IInv, TypeOK, Bills
<1>2. LeaseExclusive'
  <2> SUFFICES ASSUME NEW j \in Job, NEW k \in Job \ {j},
                      jobs'[j].token = jobs'[k].token, jobs'[j].token # NoToken
               PROVE  FALSE
    BY DEF LeaseExclusive, RowInv
  <2>1. jobs[j].token = jobs[k].token /\ jobs[j].token # NoToken
    OBVIOUS
  <2> QED
    BY <2>1 DEF IInv, LeaseExclusive
<1>3. \A k \in Job : RowInv(jobs'[k], minted', ledger'[k])
  OBVIOUS
<1> QED
  BY <1>1, <1>2, <1>3 DEF IInv, RowInv, CoherentRow, AttemptBoundRow, VerdictRow, BilledRow, Bills

\* The same, when one row is written and only jobs changes.
LEMMA RowToTable ==
  ASSUME IInv, NEW j \in Job, NEW new,
         RowInv(new, minted, ledger[j]),
         new.token \in {NoToken, jobs[j].token},
         jobs' = [jobs EXCEPT ![j] = new],
         UNCHANGED <<artifacts, minted, ledger, counters>>
  PROVE  IInv'
<1>1. jobs' \in [Job -> Row]
  BY DEF IInv, TypeOK, RowInv
<1>2. \A k \in Job : /\ RowInv(jobs'[k], minted, ledger'[k])
                     /\ jobs'[k].token \in {NoToken, jobs[k].token}
  BY DEF IInv, TypeOK
<1> QED
  BY <1>1, <1>2, RowsToTable DEF IInv, TypeOK, Bills

--------------------------------------------------------------------------------
(* The steps.                                                              *)

\* An empty table satisfies it.
LEMMA InitIInv == Init => IInv
<1> SUFFICES ASSUME Init PROVE IInv
  OBVIOUS
<1>1. BlankRow \in Row
  BY DEF BlankRow, Row, State, Error, NoToken, Absent
<1>2. TypeOK
  BY <1>1 DEF Init, TypeOK, Artifact
<1>3. \A j \in Job : RowInv(jobs[j], minted, ledger[j])
  BY <1>1 DEF Init, BlankRow, RowInv, CoherentRow, AttemptBoundRow, VerdictRow,
              BilledRow, Bills, InFlight, Terminal, NoToken, Absent
<1>4. LeaseExclusive
  BY DEF Init, LeaseExclusive, BlankRow, NoToken
<1> QED
  BY <1>2, <1>3, <1>4 DEF IInv

\* One lemma per action: the row it writes keeps RowInv, so the table keeps IInv.
LEMMA InsertJobStep ==
  ASSUME IInv, NEW j \in Job, InsertJob(j)
  PROVE  IInv'
<1>1. minted \in Nat /\ RowInv(jobs[j], minted, ledger[j])
  BY DEF IInv, TypeOK
<1> QED
  BY <1>1, InsertedRow, RowToTable DEF InsertJob

\* The one step that draws a token, which no row can have yet.
LEMMA TakeLeaseStep ==
  ASSUME IInv, NEW j \in Job, jobs[j].state = "queued", TakeLease(j),
         UNCHANGED <<artifacts, ledger, counters>>
  PROVE  IInv'
<1> DEFINE new == Enforced(jobs[j], Leased(jobs[j], minted + 1))
<1>1. minted \in Nat /\ minted' = minted + 1
  BY DEF IInv, TypeOK, TakeLease
<1>2. jobs' = [jobs EXCEPT ![j] = new]
  BY <1>1 DEF TakeLease, Update
<1>3. RowInv(new, minted + 1, ledger[j]) /\ new.token = minted + 1
  BY <1>1, <1>2, LeasedRow DEF IInv
<1>4. ASSUME NEW k \in Job \ {j}
      PROVE  /\ RowInv(jobs'[k], minted', ledger'[k])
             /\ jobs'[k].token = jobs[k].token
  BY <1>1, <1>2, <1>4
  DEF IInv, TypeOK, RowInv, Row, CoherentRow, AttemptBoundRow, VerdictRow, BilledRow
<1>5. RowInv(jobs'[j], minted', ledger'[j]) /\ jobs'[j].token = minted + 1
  BY <1>1, <1>2, <1>3 DEF IInv, TypeOK
<1>6. \A k \in Job : RowInv(jobs'[k], minted', ledger'[k])
  BY <1>4, <1>5
<1>7. TypeOK'
  BY <1>1, <1>2, <1>3 DEF IInv, TypeOK, RowInv
<1>8. LeaseExclusive'
  <2>1. \A k \in Job \ {j} : jobs'[k].token <= minted /\ jobs'[k].token # minted + 1
    BY <1>1, <1>4 DEF IInv, LeaseExclusive, TypeOK, Row
  <2> QED
    BY <1>1, <1>4, <1>5, <1>6, <2>1 DEF IInv, LeaseExclusive, RowInv
<1> QED
  BY <1>6, <1>7, <1>8 DEF IInv, RowInv, CoherentRow, AttemptBoundRow, VerdictRow, BilledRow, Bills

LEMMA LeaseNextJobStep ==
  ASSUME IInv, NEW j \in Job, LeaseNextJob(j)
  PROVE  IInv'
  BY TakeLeaseStep DEF LeaseNextJob, Leasable

\* A heartbeat leaves the token on its row.
LEMMA ReportProgressStep ==
  ASSUME IInv, NEW j \in Job, NEW t \in 1..minted,
         NEW s \in {"same", "running", "uploading"}, ReportProgress(j, t, s)
  PROVE  IInv'
<1>1. minted \in Nat /\ RowInv(jobs[j], minted, ledger[j])
  BY DEF IInv, TypeOK
<1> QED
  BY <1>1, ReportedRow, RowToTable DEF ReportProgress, HoldsLease, Update

\* complete_job takes the token away and writes ledger and counters with the row.
LEMMA CompleteJobStep ==
  ASSUME IInv, NEW j \in Job, NEW t \in 1..minted, NEW r \in Report, CompleteJob(j, t, r)
  PROVE  IInv'
<1> DEFINE next == NextState(jobs[j], r)
           new == Enforced(jobs[j], Completed(jobs[j], r, next))
           paid == IF r.burned THEN [ledger[j] EXCEPT ![jobs[j].attempt] = @ + 1]
                   ELSE ledger[j]
<1>1. /\ minted \in Nat /\ RowInv(jobs[j], minted, ledger[j])
      /\ ledger \in [Job -> Bills]
  BY DEF IInv, TypeOK, Bills
<1>2. /\ jobs' = [jobs EXCEPT ![j] = new]
      /\ jobs[j].state \in InFlight
      /\ Accepted(jobs[j], Completed(jobs[j], r, next))
      /\ minted' = minted
  BY DEF CompleteJob, HoldsLease, Update
<1>3. RowInv(new, minted, paid) /\ new.token = NoToken
  BY <1>1, <1>2, CompletedRow
<1>4. ledger' = [ledger EXCEPT ![j] = paid]
  BY <1>1 DEF CompleteJob
<1>5. jobs' \in [Job -> Row] /\ ledger' \in [Job -> Bills]
  BY <1>1, <1>2, <1>3, <1>4 DEF IInv, TypeOK, RowInv
<1>6. \A k \in Job : /\ RowInv(jobs'[k], minted, ledger'[k])
                     /\ jobs'[k].token \in {NoToken, jobs[k].token}
  BY <1>1, <1>2, <1>3, <1>4 DEF IInv, TypeOK
<1>7. artifacts' \in [Job -> [Kind -> Artifact]]
  BY DEF IInv, TypeOK, CompleteJob, Artifact
<1>8. counters' \in [Org -> [completed : Nat, failed : Nat]]
  <2>1. OrgOf[j] \in Org
    BY JobAssumption
  <2>2. counters' = Counted(OrgOf[j], next)
    BY DEF CompleteJob
  <2>3. counters \in [Org -> [completed : Nat, failed : Nat]]
    BY DEF IInv, TypeOK
  <2> HIDE DEF next
  <2>4. CASE next = "done"
    BY <2>1, <2>2, <2>3, <2>4 DEF Counted
  <2>5. CASE next = "failed"
    BY <2>1, <2>2, <2>3, <2>5 DEF Counted
  <2>6. CASE next \notin {"done", "failed"}
    BY <2>2, <2>3, <2>6 DEF Counted
  <2> QED
    BY <2>4, <2>5, <2>6
<1> QED
  BY <1>2, <1>5, <1>6, <1>7, <1>8, RowsToTable

\* The reaper rewrites every row it selected, and no other.
LEMMA ReapStep ==
  ASSUME IInv, NEW S \in SUBSET Job, ReapExpiredLeases(S)
  PROVE  IInv'
<1>1. \A k \in S : /\ RowInv(Enforced(jobs[k], Reaped(jobs[k])), minted, ledger[k])
                   /\ Enforced(jobs[k], Reaped(jobs[k])).token = NoToken
  BY ReapedRow DEF IInv, TypeOK, ReapExpiredLeases, Reapable
<1>2. \A k \in Job : jobs'[k] = IF k \in S THEN Enforced(jobs[k], Reaped(jobs[k]))
                                           ELSE jobs[k]
  BY DEF ReapExpiredLeases
<1>3. \A k \in Job : /\ RowInv(jobs'[k], minted, ledger'[k])
                     /\ jobs'[k].token \in {NoToken, jobs[k].token}
  BY <1>1, <1>2 DEF IInv, ReapExpiredLeases
<1>4. jobs' \in [Job -> Row]
  BY <1>3 DEF ReapExpiredLeases, RowInv
<1> QED
  BY <1>3, <1>4, RowsToTable DEF IInv, TypeOK, Bills, ReapExpiredLeases

\* A cancel of a queued job, or of one in flight.
LEMMA RequestCancelStep ==
  ASSUME IInv, NEW j \in Job, RequestCancel(j)
  PROVE  IInv'
<1>1. minted \in Nat /\ RowInv(jobs[j], minted, ledger[j])
  BY DEF IInv, TypeOK
<1> QED
  BY <1>1, CancelAskedRow, RowToTable DEF RequestCancel, Update

\* The sweep writes done rows only.
LEMMA ExpireStep ==
  ASSUME IInv, NEW S \in SUBSET (Job \X Kind), ExpireDueArtifacts(S)
  PROVE  IInv'
<1> DEFINE marked(k) == {i \in Kind : <<k, i>> \in S}
           expires(k) == /\ jobs[k].state = "done"
                         /\ marked(k) # {}
                         /\ NothingLeft(k, marked(k))
<1>1. \A k \in Job : jobs'[k] = IF expires(k) THEN Enforced(jobs[k], Expired(jobs[k]))
                                              ELSE jobs[k]
  BY DEF ExpireDueArtifacts
<1>2. \A k \in Job : expires(k) =>
        /\ RowInv(Enforced(jobs[k], Expired(jobs[k])), minted, ledger[k])
        /\ Enforced(jobs[k], Expired(jobs[k])).token = NoToken
  BY ExpiredRow DEF IInv, TypeOK
<1>3. \A k \in Job : /\ RowInv(jobs'[k], minted, ledger'[k])
                     /\ jobs'[k].token \in {NoToken, jobs[k].token}
  BY <1>1, <1>2 DEF IInv, ExpireDueArtifacts
<1>4. jobs' \in [Job -> Row]
  BY <1>3 DEF ExpireDueArtifacts, RowInv
<1>5. artifacts' \in [Job -> [Kind -> Artifact]]
  BY DEF IInv, TypeOK, ExpireDueArtifacts, Artifact
<1> QED
  BY <1>3, <1>4, <1>5, RowsToTable DEF IInv, TypeOK, Bills, ExpireDueArtifacts

\* Time and the client's flag.
LEMMA MarkStep ==
  ASSUME IInv, NEW j \in Job,
         \/ \E flag \in BOOLEAN : WriteCancelFlag(j, flag)
         \/ LeaseLapses(j)
         \/ BackoffElapses(j)
         \/ \E k \in Kind : RetentionElapses(j, k)
  PROVE  IInv'
<1>1. minted \in Nat /\ RowInv(jobs[j], minted, ledger[j])
  BY DEF IInv, TypeOK
<1>2. ASSUME NEW flag \in BOOLEAN, WriteCancelFlag(j, flag) PROVE IInv'
  BY <1>1, <1>2, MarkedRow, RowToTable DEF WriteCancelFlag
<1>3. CASE LeaseLapses(j)
  BY <1>1, <1>3, MarkedRow, RowToTable DEF LeaseLapses
<1>4. CASE BackoffElapses(j)
  BY <1>1, <1>4, MarkedRow, RowToTable DEF BackoffElapses
<1>5. ASSUME NEW k \in Kind, RetentionElapses(j, k) PROVE IInv'
  <2>1. artifacts' \in [Job -> [Kind -> Artifact]]
    BY <1>5 DEF IInv, TypeOK, RetentionElapses, Artifact
  <2> QED
    BY <1>5, <2>1, RowsToTable DEF IInv, TypeOK, Bills, RetentionElapses
<1> QED
  BY <1>2, <1>3, <1>4, <1>5

\* The three facts that make IInv an invariant: here the second of them.
LEMMA NextIInv == IInv /\ [Next]_vars => IInv'
<1> SUFFICES ASSUME IInv, [Next]_vars PROVE IInv'
  OBVIOUS
<1>1. CASE \E j \in Job : LeaseNextJob(j)
  BY <1>1, LeaseNextJobStep
<1>2. CASE Worker
  BY <1>2, ReportProgressStep, CompleteJobStep DEF Worker
<1>3. CASE Client
  BY <1>3, InsertJobStep, RequestCancelStep, MarkStep DEF Client
<1>4. CASE Maintenance
  BY <1>4, ReapStep, ExpireStep DEF Maintenance
<1>5. CASE Time
  BY <1>5, MarkStep DEF Time
<1>6. CASE UNCHANGED vars
  BY <1>6 DEF vars, IInv, TypeOK, LeaseExclusive, RowInv, CoherentRow, AttemptBoundRow,
              VerdictRow, BilledRow
<1> QED
  BY <1>1, <1>2, <1>3, <1>4, <1>5, <1>6 DEF Next

\* The strengthening holds in every reachable state.
THEOREM Inductive == Spec => []IInv
  BY InitIInv, NextIInv, PTL DEF Spec

--------------------------------------------------------------------------------
(* The theorems: each invariant of the queue runs, for every instance.     *)

\* The columns only ever hold values of their types.
THEOREM TypeCorrect == Spec => []TypeOK
<1>1. IInv => TypeOK
  BY DEF IInv
<1> QED
  BY <1>1, Inductive, PTL

\* No call, in any order, makes a check constraint of render_jobs fire.
THEOREM RowsStayCoherent == Spec => []RowCoherent
<1>1. IInv => RowCoherent
  BY DEF IInv, RowInv, RowCoherent
<1> QED
  BY <1>1, Inductive, PTL

\* No job is ever attempted more than max_attempts times.
THEOREM AttemptsBounded == Spec => []AttemptBound
<1>1. IInv => AttemptBound
  BY DEF IInv, RowInv, AttemptBound
<1> QED
  BY <1>1, Inductive, PTL

\* No two jobs, and no two attempts of one job, share a lease token.
THEOREM LeasesExclusive == Spec => []LeaseExclusive
<1>1. IInv => LeaseExclusive
  BY DEF IInv
<1> QED
  BY <1>1, Inductive, PTL

\* A non-retryable error is only ever found on a failed job.
THEOREM VerdictsFinal == Spec => []VerdictOnlyOnFailed
<1>1. IInv => VerdictOnlyOnFailed
  BY DEF IInv, RowInv, VerdictOnlyOnFailed
<1> QED
  BY <1>1, Inductive, PTL

\* No attempt of any job is metered twice.
THEOREM NeverBilledTwice == Spec => []BilledOnce
<1>1. IInv => BilledOnce
  BY DEF IInv, RowInv, BilledOnce
<1> QED
  BY <1>1, Inductive, PTL

--------------------------------------------------------------------------------
(* The refinement.  The queue implements JobLifecycle, for every instance:  *)
(* each transaction is, for each job, one edge of the customer's life       *)
(* cycle or no step.  What the step proofs take from the inductive          *)
(* invariant is that columns have their types and that a row handed back to *)
(* the queue has an attempt left.                                           *)

\* What one step changes of a job, as the life cycle sees it.
Goes(j, from, to) == StatusOf(jobs[j]) = from /\ StatusOf(jobs'[j]) = to
KeepsTries(j)     == jobs'[j].attempt = jobs[j].attempt
KeepsDownloads(j) == Downloads(j)' = Downloads(j)

\* The edges of JobLifecycle read through the refinement mapping.
LEMMA Mapped ==
  ASSUME NEW j \in Job
  PROVE  /\ Lifecycle!SameTries(j) <=> KeepsTries(j)
         /\ Lifecycle!SameDownloads(j) <=> KeepsDownloads(j)
         /\ \A from, to : Lifecycle!Move(j, from, to) <=> Goes(j, from, to)
         /\ Lifecycle!Stay(j) <=> /\ StatusOf(jobs'[j]) = StatusOf(jobs[j])
                                  /\ KeepsTries(j)
                                  /\ KeepsDownloads(j)
  BY DEF Lifecycle!SameTries, Lifecycle!SameDownloads, Lifecycle!Move, Lifecycle!Stay,
         KeepsTries, KeepsDownloads, Goes

\* A row and artifacts that are not written are a job that stays.
LEMMA Untouched ==
  ASSUME NEW j \in Job, jobs'[j] = jobs[j], artifacts'[j] = artifacts[j]
  PROVE  Lifecycle!JobStep(j)
  BY Mapped DEF Lifecycle!JobStep, KeepsTries, KeepsDownloads, Downloads

--------------------------------------------------------------------------------
(* The two columns of a row that the life cycle reads, after each rewrite. *)

\* The trigger keeps the state and the attempt it is given.
LEMMA Seen ==
  ASSUME NEW old \in Row, NEW new \in Row
  PROVE  /\ Enforced(old, new).state = new.state
         /\ Enforced(old, new).attempt = new.attempt
         /\ Enforced(old, new).error = new.error
  BY EnforcedFields

\* Leasing starts one attempt.
LEMMA SeenLeased ==
  ASSUME NEW row \in Row, NEW n \in Nat, row.state = "queued"
  PROVE  LET new == Enforced(row, Leased(row, n))
         IN  new.state = "leased" /\ new.attempt = row.attempt + 1
<1>1. Leased(row, n) \in Row
  <2>1. "leased" \in State /\ row.attempt + 1 \in Nat
    BY DEF Row, State, InFlight
  <2> QED
    BY <2>1 DEF Leased, Row
<1> QED
  BY <1>1, Seen DEF Leased, Row

\* A heartbeat leaves the job where the customer sees it.
LEMMA SeenReported ==
  ASSUME NEW row \in Row, row.state \in InFlight,
         NEW s \in {"same", "running", "uploading"}
  PROVE  LET new == Enforced(row, Reported(row, s))
         IN  new.state \in InFlight /\ new.attempt = row.attempt
<1>1. Reported(row, s) \in Row
  BY DEF Reported, Row, State, InFlight
<1> QED
  BY <1>1, Seen DEF Reported, Row, InFlight

\* A completed row is where NextState sends it.
LEMMA SeenCompleted ==
  ASSUME NEW row \in Row, NEW r \in Report
  PROVE  LET next == NextState(row, r)
             new  == Enforced(row, Completed(row, r, next))
         IN  /\ new.state = next
             /\ new.attempt = row.attempt
             /\ new.error # "lease_expired"
<1> DEFINE next == NextState(row, r)
           err  == IF r.outcome = "done" THEN "none" ELSE r.error
           held == row.held \/ next = "queued"
           fin  == next \in {"done", "failed", "cancelled"}
           c    == Completed(row, r, next)
<1>1. /\ next \in State /\ err \in Error /\ held \in BOOLEAN /\ fin \in BOOLEAN
      /\ err # "lease_expired"
  BY NextStateCases DEF State, Terminal, Error
<1>2. c = [row EXCEPT !.state = next, !.error = err, !.held = held, !.finished = fin]
  BY DEF Completed
<1> HIDE DEF next, err, held, fin
<1>3. c \in Row /\ c.state = next /\ c.attempt = row.attempt /\ c.error = err
  BY <1>1, <1>2 DEF Row
<1> QED
  BY <1>1, <1>3, Seen DEF next

\* A reaped row is queued again if it can be, and failed otherwise.
LEMMA SeenReaped ==
  ASSUME NEW row \in Row
  PROVE  LET new == Enforced(row, Reaped(row))
         IN  /\ new.state = IF CanRetry(row) THEN "queued" ELSE "failed"
             /\ new.attempt = row.attempt
             /\ new.state = "failed" => new.error = "lease_expired"
<1> DEFINE next == IF CanRetry(row) THEN "queued" ELSE "failed"
           err  == IF next = "failed" THEN "lease_expired" ELSE row.error
           held == row.held \/ next = "queued"
           fin  == next = "failed"
           c    == Reaped(row)
<1>1. next \in State /\ err \in Error /\ held \in BOOLEAN /\ fin \in BOOLEAN
  BY DEF State, Terminal, Error, Row
<1>2. c = [row EXCEPT !.state = next, !.held = held, !.error = err, !.finished = fin]
  BY DEF Reaped
<1> HIDE DEF next, err, held, fin
<1>3. c \in Row /\ c.state = next /\ c.attempt = row.attempt /\ c.error = err
  BY <1>1, <1>2 DEF Row
<1> QED
  BY <1>3, Seen DEF next, err

\* A cancel ends a queued row and leaves one in flight where it is.
LEMMA SeenCancelAsked ==
  ASSUME NEW row \in Row
  PROVE  LET new == Enforced(row, CancelAsked(row))
         IN  /\ new.state = IF row.state = "queued" THEN "cancelled" ELSE row.state
             /\ new.attempt = row.attempt
<1>1. CancelAsked(row) \in Row
  BY DEF CancelAsked, Row, State, Terminal
<1> QED
  BY <1>1, Seen DEF CancelAsked, Row

\* Retention expires the row and nothing more.
LEMMA SeenExpired ==
  ASSUME NEW row \in Row
  PROVE  LET new == Enforced(row, Expired(row))
         IN  new.state = "expired" /\ new.attempt = row.attempt
<1>1. Expired(row) \in Row
  BY DEF Expired, Row, State, Terminal
<1> QED
  BY <1>1, Seen DEF Expired, Row

--------------------------------------------------------------------------------
(* The steps.                                                              *)

\* A step that rewrites row j only is an edge for j and no step for the others.
LEMMA OneJobStep ==
  ASSUME NEW j \in Job, Lifecycle!JobStep(j), jobs \in [Job -> Row],
         NEW new, jobs' = [jobs EXCEPT ![j] = new],
         \A k \in Job \ {j} : artifacts'[k] = artifacts[k]
  PROVE  Lifecycle!Next
<1>1. \A k \in Job \ {j} : Lifecycle!JobStep(k)
  BY Untouched
<1> QED
  BY <1>1 DEF Lifecycle!Next

\* submit_job's insert is the submission.
LEMMA InsertMaps ==
  ASSUME IInv, NEW j \in Job, InsertJob(j)
  PROVE  Lifecycle!Next
<1> DEFINE new == [BlankRow EXCEPT !.state = "queued"]
<1>1. jobs[j].attempt = 0 /\ jobs[j].state = Absent
  BY DEF IInv, RowInv, InsertJob
<1>2. jobs'[j] = new /\ new.state = "queued" /\ new.attempt = 0
  BY DEF IInv, TypeOK, InsertJob, BlankRow
<1>3. Goes(j, "absent", "queued") /\ KeepsTries(j) /\ KeepsDownloads(j)
  BY <1>1, <1>2 DEF Goes, KeepsTries, KeepsDownloads, Downloads, StatusOf, InFlight, Absent, InsertJob
<1>4. Lifecycle!JobStep(j)
  BY <1>3, Mapped DEF Lifecycle!JobStep, Lifecycle!Submit
<1> QED
  BY <1>4, OneJobStep DEF IInv, TypeOK, InsertJob

\* A lease is the start of an attempt.
LEMMA TakeLeaseMaps ==
  ASSUME IInv, NEW j \in Job, jobs[j].state = "queued", TakeLease(j), UNCHANGED artifacts
  PROVE  Lifecycle!Next
<1> DEFINE new == Enforced(jobs[j], Leased(jobs[j], minted + 1))
<1>1. /\ minted + 1 \in Nat /\ jobs[j] \in Row /\ jobs \in [Job -> Row]
      /\ jobs[j].state = "queued" /\ jobs[j].attempt < MaxAttempts
  BY DEF IInv, TypeOK, RowInv, AttemptBoundRow
<1>2. jobs' = [jobs EXCEPT ![j] = new]
  BY DEF TakeLease, Update
<1>3. new.state = "leased" /\ new.attempt = jobs[j].attempt + 1
  BY <1>1, SeenLeased
<1>4. /\ Goes(j, "queued", "working") /\ KeepsDownloads(j)
      /\ jobs'[j].attempt = jobs[j].attempt + 1
  BY <1>1, <1>2, <1>3 DEF Goes, KeepsDownloads, Downloads, StatusOf, InFlight
<1>5. Lifecycle!JobStep(j)
  BY <1>1, <1>4, Mapped DEF Lifecycle!JobStep, Lifecycle!Start
<1> QED
  BY <1>1, <1>2, <1>5, OneJobStep

LEMMA LeaseMaps ==
  ASSUME IInv, NEW j \in Job, LeaseNextJob(j)
  PROVE  Lifecycle!Next
  BY TakeLeaseMaps DEF LeaseNextJob, Leasable

\* A heartbeat is no step.
LEMMA ReportMaps ==
  ASSUME IInv, NEW j \in Job, NEW t \in 1..minted,
         NEW s \in {"same", "running", "uploading"}, ReportProgress(j, t, s)
  PROVE  Lifecycle!Next
<1> DEFINE new == Enforced(jobs[j], Reported(jobs[j], s))
<1>1. jobs[j] \in Row /\ jobs \in [Job -> Row] /\ jobs[j].state \in InFlight
  BY DEF IInv, TypeOK, ReportProgress, HoldsLease
<1>2. jobs' = [jobs EXCEPT ![j] = new] /\ UNCHANGED artifacts
  BY DEF ReportProgress, Update
<1>3. new.state \in InFlight /\ new.attempt = jobs[j].attempt
  BY <1>1, SeenReported
<1>4. /\ StatusOf(jobs'[j]) = StatusOf(jobs[j])
      /\ KeepsTries(j) /\ KeepsDownloads(j)
  BY <1>1, <1>2, <1>3 DEF KeepsTries, KeepsDownloads, Downloads, StatusOf
<1>5. Lifecycle!JobStep(j)
  BY <1>4, Mapped DEF Lifecycle!JobStep
<1> QED
  BY <1>1, <1>2, <1>5, OneJobStep

\* complete_job is a delivery, a cancel, a retry or a failure, and a delivery
\* makes the video downloadable in the same step.
LEMMA CompleteMaps ==
  ASSUME IInv, NEW j \in Job, NEW t \in 1..minted, NEW r \in Report, CompleteJob(j, t, r)
  PROVE  Lifecycle!Next
<1> DEFINE next == NextState(jobs[j], r)
           new  == Enforced(jobs[j], Completed(jobs[j], r, next))
<1>1. /\ jobs[j] \in Row /\ jobs \in [Job -> Row] /\ jobs[j].state \in InFlight
      /\ artifacts \in [Job -> [Kind -> Artifact]]
  BY DEF IInv, TypeOK, CompleteJob, HoldsLease
<1>2. jobs' = [jobs EXCEPT ![j] = new]
  BY DEF CompleteJob, Update
<1>3. /\ \A k \in Kind : artifacts'[j][k] = IF k \in r.arts THEN "live"
                                                            ELSE artifacts[j][k]
      /\ \A k \in Job \ {j} : artifacts'[k] = artifacts[k]
  BY <1>1 DEF CompleteJob
<1> SUFFICES Lifecycle!JobStep(j)
  BY <1>1, <1>2, <1>3, OneJobStep
<1>4. jobs'[j].state = next /\ jobs'[j].attempt = jobs[j].attempt
  BY <1>1, <1>2, SeenCompleted
<1>5. KeepsTries(j) /\ StatusOf(jobs[j]) = "working"
  BY <1>1, <1>4 DEF KeepsTries, StatusOf
<1>6. next \in {"done", "cancelled", "queued", "failed"}
  BY NextStateCases
<1>7. StatusOf(jobs'[j]) = next
  BY <1>4, <1>6 DEF StatusOf, InFlight
<1>8. Goes(j, "working", next)
  BY <1>5, <1>7 DEF Goes
<1>9. CASE next = "done"
  <2>1. "video" \in r.arts
    BY <1>9, NextStateCases DEF CompleteJob
  <2>2. "video" \in Downloads(j)'
    BY <2>1, <1>3, KindAssumption DEF Downloads
  <2> QED
    BY <1>5, <1>8, <1>9, <2>2, Mapped DEF Lifecycle!JobStep, Lifecycle!Deliver
<1>10. CASE next = "cancelled"
  <2>1. r.arts = {}
    BY <1>10 DEF NextState, Report
  <2>2. KeepsDownloads(j)
    BY <2>1, <1>3 DEF KeepsDownloads, Downloads
  <2> QED
    BY <1>5, <1>8, <1>10, <2>2, Mapped DEF Lifecycle!JobStep, Lifecycle!Cancel
<1>11. CASE next = "queued"
  <2>1. jobs[j].attempt < MaxAttempts
    BY <1>11, NextStateCases DEF CanRetry
  <2> QED
    BY <1>5, <1>8, <1>11, <2>1, Mapped DEF Lifecycle!JobStep, Lifecycle!Retry
<1>12. CASE next = "failed"
  BY <1>5, <1>8, <1>12, Mapped DEF Lifecycle!JobStep, Lifecycle!Fail
<1> QED
  BY <1>6, <1>9, <1>10, <1>11, <1>12

\* One run of the reaper is a retry or a failure for each row it takes.
LEMMA ReapMaps ==
  ASSUME IInv, NEW S \in SUBSET Job, ReapExpiredLeases(S)
  PROVE  Lifecycle!Next
<1> SUFFICES ASSUME NEW k \in Job PROVE Lifecycle!JobStep(k)
  BY DEF Lifecycle!Next
<1>1. CASE k \notin S
  BY <1>1, Untouched DEF ReapExpiredLeases
<1>2. CASE k \in S
  <2>1. jobs[k] \in Row /\ jobs[k].state \in InFlight
    BY <1>2 DEF IInv, TypeOK, ReapExpiredLeases, Reapable
  <2>2. jobs'[k] = Enforced(jobs[k], Reaped(jobs[k])) /\ UNCHANGED artifacts
    BY <1>2 DEF ReapExpiredLeases
  <2>3. /\ jobs'[k].state = IF CanRetry(jobs[k]) THEN "queued" ELSE "failed"
        /\ KeepsTries(k)
    BY <2>1, <2>2, SeenReaped DEF KeepsTries
  <2>4. StatusOf(jobs[k]) = "working" /\ KeepsDownloads(k)
    BY <2>1, <2>2 DEF StatusOf, KeepsDownloads, Downloads
  <2>5. CASE CanRetry(jobs[k])
    <3>1. Goes(k, "working", "queued") /\ jobs[k].attempt < MaxAttempts
      BY <2>3, <2>4, <2>5 DEF Goes, StatusOf, InFlight, CanRetry
    <3> QED
      BY <2>3, <3>1, Mapped DEF Lifecycle!JobStep, Lifecycle!Retry
  <2>6. CASE ~CanRetry(jobs[k])
    <3>1. Goes(k, "working", "failed")
      BY <2>3, <2>4, <2>6 DEF Goes, StatusOf, InFlight
    <3> QED
      BY <2>3, <3>1, Mapped DEF Lifecycle!JobStep, Lifecycle!Fail
  <2> QED
    BY <2>5, <2>6
<1> QED
  BY <1>1, <1>2

\* A cancel of a queued job is the cancellation, of another one no step.
LEMMA CancelMaps ==
  ASSUME IInv, NEW j \in Job, RequestCancel(j)
  PROVE  Lifecycle!Next
<1> DEFINE new == Enforced(jobs[j], CancelAsked(jobs[j]))
<1>1. /\ jobs[j] \in Row /\ jobs \in [Job -> Row]
      /\ jobs[j].state \in {"queued"} \cup InFlight
  BY DEF IInv, TypeOK, RequestCancel, Row, State
<1>2. jobs' = [jobs EXCEPT ![j] = new] /\ UNCHANGED artifacts
  BY DEF RequestCancel, Update
<1>3. /\ jobs'[j].state = IF jobs[j].state = "queued" THEN "cancelled" ELSE jobs[j].state
      /\ KeepsTries(j)
      /\ KeepsDownloads(j)
  BY <1>1, <1>2, SeenCancelAsked DEF KeepsTries, KeepsDownloads, Downloads
<1>4. CASE jobs[j].state = "queued"
  <2>1. Goes(j, "queued", "cancelled")
    BY <1>3, <1>4 DEF Goes, StatusOf, InFlight
  <2>2. Lifecycle!JobStep(j)
    BY <1>3, <2>1, Mapped DEF Lifecycle!JobStep, Lifecycle!Cancel
  <2> QED
    BY <1>1, <1>2, <2>2, OneJobStep
<1>5. CASE jobs[j].state \in InFlight
  <2>1. StatusOf(jobs'[j]) = StatusOf(jobs[j])
    BY <1>3, <1>5 DEF StatusOf, InFlight
  <2>2. Lifecycle!JobStep(j)
    BY <1>3, <2>1, Mapped DEF Lifecycle!JobStep
  <2> QED
    BY <1>1, <1>2, <2>2, OneJobStep
<1> QED
  BY <1>1, <1>4, <1>5

\* The sweep expires a job exactly when it takes its last download, and for
\* every other job it only takes some of the downloads.
LEMMA ExpireMaps ==
  ASSUME IInv, NEW S \in SUBSET (Job \X Kind), ExpireDueArtifacts(S)
  PROVE  Lifecycle!Next
<1> SUFFICES ASSUME NEW j \in Job PROVE Lifecycle!JobStep(j)
  BY DEF Lifecycle!Next
<1> DEFINE marked  == {k \in Kind : <<j, k>> \in S}
           expires == /\ jobs[j].state = "done"
                      /\ marked # {}
                      /\ NothingLeft(j, marked)
<1>1. /\ jobs[j] \in Row
      /\ artifacts \in [Job -> [Kind -> Artifact]]
      /\ \A k \in marked : artifacts[j][k] = "due"
  <2>1. \A k \in marked : <<j, k>>[1] = j /\ <<j, k>>[2] = k
    OBVIOUS
  <2> QED
    BY <2>1 DEF IInv, TypeOK, ExpireDueArtifacts
<1>2. /\ \A k \in Kind : artifacts'[j][k] = IF k \in marked THEN "deleted"
                                                            ELSE artifacts[j][k]
      /\ jobs'[j] = IF expires THEN Enforced(jobs[j], Expired(jobs[j])) ELSE jobs[j]
  BY DEF ExpireDueArtifacts
<1>3. Downloads(j)' = Downloads(j) \ marked /\ marked \subseteq Downloads(j)
  BY <1>1, <1>2 DEF Downloads
<1>4. CASE expires
  <2>1. jobs'[j].state = "expired" /\ KeepsTries(j)
    BY <1>1, <1>2, <1>4, SeenExpired DEF KeepsTries
  <2>2. Goes(j, "done", "expired")
    BY <1>4, <2>1 DEF Goes, StatusOf, InFlight
  <2>3. Downloads(j) # {} /\ Downloads(j)' = {}
    BY <1>3, <1>4 DEF NothingLeft, Downloads
  <2> QED
    BY <2>1, <2>2, <2>3, Mapped DEF Lifecycle!JobStep, Lifecycle!Expire
<1>5. CASE ~expires
  <2>1. StatusOf(jobs'[j]) = StatusOf(jobs[j]) /\ KeepsTries(j)
    BY <1>2, <1>5 DEF KeepsTries
  <2>2. CASE marked = {}
    BY <1>3, <2>1, <2>2, Mapped DEF Lifecycle!JobStep, KeepsDownloads
  <2>3. CASE marked # {}
    <3>1. StatusOf(jobs[j]) = "done" => jobs[j].state = "done"
      BY DEF StatusOf, InFlight
    <3>2. StatusOf(jobs[j]) = "done" => Downloads(j)' # {}
      BY <1>3, <1>5, <2>3, <3>1 DEF NothingLeft, Downloads
    <3> QED
      BY <1>3, <2>1, <3>2, Mapped
      DEF Lifecycle!JobStep, Lifecycle!Withdraw, Lifecycle!SameTries, KeepsTries
  <2> QED
    BY <2>2, <2>3
<1> QED
  BY <1>4, <1>5

\* Time and a client's flag move no job.
LEMMA MarkMaps ==
  ASSUME IInv, NEW j \in Job,
         \/ \E flag \in BOOLEAN : WriteCancelFlag(j, flag)
         \/ LeaseLapses(j)
         \/ BackoffElapses(j)
         \/ \E k \in Kind : RetentionElapses(j, k)
  PROVE  Lifecycle!Next
<1> SUFFICES ASSUME NEW k \in Job PROVE Lifecycle!JobStep(k)
  BY DEF Lifecycle!Next
<1>1. jobs[k] \in Row /\ jobs \in [Job -> Row] /\ artifacts \in [Job -> [Kind -> Artifact]]
  BY DEF IInv, TypeOK
<1>2. jobs'[k].state = jobs[k].state /\ jobs'[k].attempt = jobs[k].attempt
  <2>1. ASSUME NEW flag \in BOOLEAN, WriteCancelFlag(j, flag)
        PROVE  jobs'[k].state = jobs[k].state /\ jobs'[k].attempt = jobs[k].attempt
    BY <1>1, <2>1 DEF WriteCancelFlag, Row
  <2>2. CASE LeaseLapses(j)
    BY <1>1, <2>2 DEF LeaseLapses, Row
  <2>3. CASE BackoffElapses(j)
    BY <1>1, <2>3 DEF BackoffElapses, Row
  <2>4. CASE \E i \in Kind : RetentionElapses(j, i)
    BY <2>4 DEF RetentionElapses
  <2> QED
    BY <2>1, <2>2, <2>3, <2>4
<1>3. Downloads(k)' = Downloads(k)
  BY <1>1 DEF WriteCancelFlag, LeaseLapses, BackoffElapses, RetentionElapses, Downloads
<1> QED
  BY <1>2, <1>3, Mapped DEF Lifecycle!JobStep, StatusOf, KeepsTries, KeepsDownloads

\* Every step of the queue is a step of the life cycle, or none.
LEMMA NextMaps ==
  IInv /\ [Next]_vars => [Lifecycle!Next]_<<[j \in Job |-> StatusOf(jobs[j])],
                                            [j \in Job |-> jobs[j].attempt],
                                            [j \in Job |-> Downloads(j)]>>
<1> SUFFICES ASSUME IInv, [Next]_vars
             PROVE  \/ Lifecycle!Next
                    \/ UNCHANGED <<[j \in Job |-> StatusOf(jobs[j])],
                                   [j \in Job |-> jobs[j].attempt],
                                   [j \in Job |-> Downloads(j)]>>
  OBVIOUS
<1>1. CASE \E j \in Job : LeaseNextJob(j)
  BY <1>1, LeaseMaps
<1>2. CASE Worker
  BY <1>2, ReportMaps, CompleteMaps DEF Worker
<1>3. CASE Client
  BY <1>3, InsertMaps, CancelMaps, MarkMaps DEF Client
<1>4. CASE Maintenance
  BY <1>4, ReapMaps, ExpireMaps DEF Maintenance
<1>5. CASE Time
  BY <1>5, MarkMaps DEF Time
<1>6. CASE UNCHANGED vars
  BY <1>6 DEF vars, Downloads
<1> QED
  BY <1>1, <1>2, <1>3, <1>4, <1>5, <1>6 DEF Next

\* Before anything is submitted both are empty.
LEMMA InitMaps == Init => Lifecycle!Init
<1> SUFFICES ASSUME Init PROVE Lifecycle!Init
  OBVIOUS
<1>1. \A j \in Job : /\ StatusOf(jobs[j]) = "absent"
                     /\ jobs[j].attempt = 0
                     /\ Downloads(j) = {}
  BY DEF Init, BlankRow, StatusOf, Downloads, InFlight, Absent
<1> QED
  BY <1>1 DEF Lifecycle!Init

\* The life cycle the customer is promised is what the queue does: its edges,
\* the attempt budget, and that a job is done while it can be downloaded and
\* expired from the very step it cannot.
THEOREM QueueImplementsLifecycle == Spec => ImplementsLifecycle
  BY InitMaps, NextMaps, Inductive, PTL DEF Spec, ImplementsLifecycle, Lifecycle!Spec

--------------------------------------------------------------------------------
(* The counters.  A row is counted as completed, as failed or not at all;   *)
(* only complete_job changes what a row counts as, and it counts it.        *)

Tally(row) ==
  IF row.state \in {"done", "expired"} THEN "completed"
  ELSE IF row.state = "failed" /\ row.error # "lease_expired" THEN "failed"
  ELSE "uncounted"

Tallied(rows, o, tally) == {j \in Job : OrgOf[j] = o /\ Tally(rows[j]) = tally}

\* The counters are the sizes of these sets.
Tallies == \A o \in Org :
  /\ counters[o].completed = Cardinality(Tallied(jobs, o, "completed"))
  /\ counters[o].failed    = Cardinality(Tallied(jobs, o, "failed"))

LEMMA TalliesAreCounters == Tallies <=> CountersAgree
<1>1. ASSUME NEW o \in Org
      PROVE  /\ Tallied(jobs, o, "completed") =
                  {j \in Job : OrgOf[j] = o /\ jobs[j].state \in {"done", "expired"}}
             /\ Tallied(jobs, o, "failed") =
                  {j \in {i \in Job : OrgOf[i] = o /\ jobs[i].state \in {"failed"}} :
                     jobs[j].error # "lease_expired"}
  BY DEF Tallied, Tally
<1> QED
  BY <1>1 DEF Tallies, CountersAgree

\* A row that is not over is not counted.
LEMMA UncountedRow ==
  ASSUME NEW row, row.state \in {Absent, "queued", "cancelled"} \cup InFlight
  PROVE  Tally(row) = "uncounted"
  BY DEF Tally, InFlight, Absent

\* A step after which every row counts as before keeps them.
LEMMA TalliesKept ==
  ASSUME Tallies, counters' = counters, \A j \in Job : Tally(jobs'[j]) = Tally(jobs[j])
  PROVE  Tallies'
<1>1. \A o, tally : Tallied(jobs', o, tally) = Tallied(jobs, o, tally)
  BY DEF Tallied
<1> QED
  BY <1>1 DEF Tallies

\* The same of a step that writes one row.
LEMMA TallyKept ==
  ASSUME Tallies, counters' = counters, jobs \in [Job -> Row], NEW j \in Job, NEW new,
         jobs' = [jobs EXCEPT ![j] = new], Tally(new) = Tally(jobs[j])
  PROVE  Tallies'
  BY TalliesKept

\* A row that comes to count makes one set larger by one.
TalliedMore(j, new, o, tally) ==
  Cardinality(Tallied(jobs', o, tally)) =
    IF OrgOf[j] = o /\ Tally(new) = tally THEN Cardinality(Tallied(jobs, o, tally)) + 1
                                          ELSE Cardinality(Tallied(jobs, o, tally))

LEMMA ComesToCount ==
  ASSUME jobs \in [Job -> Row], NEW j \in Job, NEW new,
         jobs' = [jobs EXCEPT ![j] = new], Tally(jobs[j]) = "uncounted",
         NEW o \in Org, NEW tally \in {"completed", "failed"}
  PROVE  TalliedMore(j, new, o, tally)
<1>1. Tallied(jobs, o, tally) \in SUBSET Job /\ IsFiniteSet(Tallied(jobs, o, tally))
  BY JobAssumption, FS_Subset DEF Tallied
<1>2. j \notin Tallied(jobs, o, tally)
  BY DEF Tallied
<1>3. CASE OrgOf[j] = o /\ Tally(new) = tally
  <2>1. Tallied(jobs', o, tally) = Tallied(jobs, o, tally) \cup {j}
    BY <1>3 DEF Tallied
  <2>2. Cardinality(Tallied(jobs, o, tally) \cup {j}) = Cardinality(Tallied(jobs, o, tally)) + 1
    BY <1>1, <1>2, FS_AddElement
  <2> QED
    BY <1>3, <2>1, <2>2 DEF TalliedMore
<1>4. CASE ~(OrgOf[j] = o /\ Tally(new) = tally)
  <2>1. Tallied(jobs', o, tally) = Tallied(jobs, o, tally)
    BY <1>2, <1>4 DEF Tallied
  <2> QED
    BY <1>4, <2>1 DEF TalliedMore
<1> QED
  BY <1>3, <1>4

\* complete_job counts the row that comes to count, for its org and no other.
LEMMA CompleteTallies ==
  ASSUME IInv, Tallies, NEW j \in Job, NEW t \in 1..minted, NEW r \in Report,
         CompleteJob(j, t, r)
  PROVE  Tallies'
<1> DEFINE next == NextState(jobs[j], r)
           new == Enforced(jobs[j], Completed(jobs[j], r, next))
<1>1. /\ jobs \in [Job -> Row] /\ jobs[j].state \in InFlight
      /\ jobs' = [jobs EXCEPT ![j] = new] /\ OrgOf[j] \in Org
      /\ counters \in [Org -> [completed : Nat, failed : Nat]]
  BY JobAssumption DEF IInv, TypeOK, CompleteJob, HoldsLease, Update
<1>2. /\ next \in {"done", "cancelled", "queued", "failed"}
      /\ new.state = next /\ new.error # "lease_expired"
  BY <1>1, NextStateCases, SeenCompleted
<1>3. Tally(new) = IF next = "done" THEN "completed"
                   ELSE IF next = "failed" THEN "failed" ELSE "uncounted"
  BY <1>2 DEF Tally
<1>4. Tally(jobs[j]) = "uncounted"
  BY <1>1, UncountedRow
<1>5. counters' = Counted(OrgOf[j], next)
  BY DEF CompleteJob
<1> HIDE DEF next, new
<1>6. ASSUME NEW o \in Org
      PROVE  /\ counters'[o].completed = counters[o].completed +
                  (IF OrgOf[j] = o /\ Tally(new) = "completed" THEN 1 ELSE 0)
             /\ counters'[o].failed = counters[o].failed +
                  (IF OrgOf[j] = o /\ Tally(new) = "failed" THEN 1 ELSE 0)
  <2>0. counters[o].completed \in Nat /\ counters[o].failed \in Nat
    BY <1>1
  <2>1. CASE next = "done"
    <3>1. counters' = [counters EXCEPT ![OrgOf[j]].completed = @ + 1]
      BY <1>5, <2>1 DEF Counted
    <3> QED
      BY <1>1, <1>3, <2>0, <2>1, <3>1
  <2>2. CASE next = "failed"
    <3>1. counters' = [counters EXCEPT ![OrgOf[j]].failed = @ + 1]
      BY <1>5, <2>2 DEF Counted
    <3> QED
      BY <1>1, <1>3, <2>0, <2>2, <3>1
  <2>3. CASE next \notin {"done", "failed"}
    <3>1. counters' = counters
      BY <1>5, <2>3 DEF Counted
    <3> QED
      BY <1>3, <2>0, <2>3, <3>1
  <2> QED
    BY <2>1, <2>2, <2>3
<1>7. ASSUME NEW o \in Org
      PROVE  /\ counters'[o].completed = Cardinality(Tallied(jobs', o, "completed"))
             /\ counters'[o].failed    = Cardinality(Tallied(jobs', o, "failed"))
  <2>1. /\ counters[o].completed = Cardinality(Tallied(jobs, o, "completed"))
        /\ counters[o].failed    = Cardinality(Tallied(jobs, o, "failed"))
        /\ counters[o].completed \in Nat /\ counters[o].failed \in Nat
    BY <1>1 DEF Tallies
  <2>2. \A tally \in {"completed", "failed"} : TalliedMore(j, new, o, tally)
    BY <1>1, <1>4, ComesToCount
  <2> QED
    BY <1>6, <2>1, <2>2 DEF TalliedMore
<1> QED
  BY <1>7 DEF Tallies

\* A leased row does not count, nor did it in the queue.
LEMMA TakeLeaseTallies ==
  ASSUME IInv, Tallies, NEW j \in Job, jobs[j].state = "queued", TakeLease(j),
         UNCHANGED counters
  PROVE  Tallies'
<1> DEFINE new == Enforced(jobs[j], Leased(jobs[j], minted + 1))
<1>1. jobs' = [jobs EXCEPT ![j] = new] /\ jobs \in [Job -> Row] /\ minted \in Nat
  BY DEF IInv, TypeOK, TakeLease, Update
<1>2. new.state = "leased"
  BY <1>1, SeenLeased
<1>3. Tally(new) = "uncounted" /\ Tally(jobs[j]) = "uncounted"
  BY <1>2, UncountedRow DEF InFlight
<1> QED
  BY <1>1, <1>3, TallyKept

\* No other step changes what a row counts as.
LEMMA NextTallies == IInv /\ Tallies /\ [Next]_vars => Tallies'
<1> SUFFICES ASSUME IInv, Tallies, [Next]_vars PROVE Tallies'
  OBVIOUS
<1>0. jobs \in [Job -> Row] /\ minted \in Nat
  BY DEF IInv, TypeOK
<1>1. ASSUME NEW j \in Job, LeaseNextJob(j) PROVE Tallies'
  BY <1>1, TakeLeaseTallies DEF LeaseNextJob, Leasable
<1>2. ASSUME NEW j \in Job, NEW t \in 1..minted, NEW s \in {"same", "running", "uploading"},
             ReportProgress(j, t, s)
      PROVE  Tallies'
  <2> DEFINE new == Enforced(jobs[j], Reported(jobs[j], s))
  <2>1. jobs' = [jobs EXCEPT ![j] = new] /\ jobs[j].state \in InFlight
        /\ counters' = counters
    BY <1>2 DEF ReportProgress, HoldsLease, Update
  <2>2. new.state \in InFlight
    BY <1>0, <2>1, SeenReported
  <2>3. Tally(new) = "uncounted" /\ Tally(jobs[j]) = "uncounted"
    BY <2>1, <2>2, UncountedRow
  <2> QED
    BY <1>0, <2>1, <2>3, TallyKept
<1>3. ASSUME NEW j \in Job, InsertJob(j) PROVE Tallies'
  <2> DEFINE new == [BlankRow EXCEPT !.state = "queued"]
  <2>1. new.state = "queued"
    BY DEF BlankRow
  <2>2. Tally(new) = "uncounted" /\ Tally(jobs[j]) = "uncounted"
    BY <1>3, <2>1, UncountedRow DEF InsertJob
  <2> QED
    BY <1>0, <1>3, <2>2, TallyKept DEF InsertJob
<1>4. ASSUME NEW j \in Job, RequestCancel(j) PROVE Tallies'
  <2> DEFINE new == Enforced(jobs[j], CancelAsked(jobs[j]))
  <2>1. /\ jobs' = [jobs EXCEPT ![j] = new] /\ counters' = counters
        /\ jobs[j].state \in {"queued"} \cup InFlight
    BY <1>0, <1>4 DEF RequestCancel, Update, Row, State
  <2>2. new.state \in {"cancelled"} \cup InFlight
    BY <1>0, <2>1, SeenCancelAsked DEF InFlight
  <2>3. Tally(new) = "uncounted" /\ Tally(jobs[j]) = "uncounted"
    BY <2>1, <2>2, UncountedRow
  <2> QED
    BY <1>0, <2>1, <2>3, TallyKept
<1>5. ASSUME NEW S \in SUBSET Job, ReapExpiredLeases(S) PROVE Tallies'
  <2>1. ASSUME NEW j \in Job PROVE Tally(jobs'[j]) = Tally(jobs[j])
    <3> DEFINE new == Enforced(jobs[j], Reaped(jobs[j]))
    <3>1. CASE j \in S
      <4>1. jobs'[j] = new /\ jobs[j].state \in InFlight
        BY <1>5, <3>1 DEF ReapExpiredLeases, Reapable
      <4>2. new.state \in {"queued", "failed"}
            /\ (new.state = "failed" => new.error = "lease_expired")
        BY <1>0, SeenReaped
      <4> QED
        BY <4>1, <4>2, UncountedRow DEF Tally
    <3>2. CASE j \notin S
      BY <1>5, <3>2 DEF ReapExpiredLeases
    <3> QED
      BY <3>1, <3>2
  <2> QED
    BY <1>5, <2>1, TalliesKept DEF ReapExpiredLeases
<1>6. ASSUME NEW S \in SUBSET (Job \X Kind), ExpireDueArtifacts(S) PROVE Tallies'
  <2>1. ASSUME NEW j \in Job PROVE Tally(jobs'[j]) = Tally(jobs[j])
    <3>1. \/ jobs'[j] = jobs[j]
          \/ jobs[j].state = "done" /\ jobs'[j] = Enforced(jobs[j], Expired(jobs[j]))
      BY <1>6 DEF ExpireDueArtifacts
    <3>2. Enforced(jobs[j], Expired(jobs[j])).state = "expired"
      BY <1>0, SeenExpired
    <3> QED
      BY <3>1, <3>2 DEF Tally
  <2> QED
    BY <1>6, <2>1, TalliesKept DEF ExpireDueArtifacts
<1>7. ASSUME NEW j \in Job, NEW new,
             jobs' = [jobs EXCEPT ![j] = new], counters' = counters,
             new.state = jobs[j].state, new.error = jobs[j].error
      PROVE  Tallies'
  BY <1>0, <1>7, TallyKept DEF Tally
<1>8. ASSUME NEW j \in Job, NEW flag \in BOOLEAN, WriteCancelFlag(j, flag) PROVE Tallies'
  BY <1>0, <1>7, <1>8 DEF WriteCancelFlag, Row
<1>9. ASSUME NEW j \in Job, LeaseLapses(j) \/ BackoffElapses(j) PROVE Tallies'
  BY <1>0, <1>7, <1>9 DEF LeaseLapses, BackoffElapses, Row
<1>10. CASE UNCHANGED <<jobs, counters>>
  BY <1>10, TalliesKept
<1> QED
  BY <1>1, <1>2, <1>3, <1>4, <1>5, <1>6, <1>8, <1>9, <1>10, CompleteTallies
  DEF Next, Worker, Client, Maintenance, Time, RetentionElapses, vars

\* Before anything is submitted nothing counts.
LEMMA InitTallies == Init => Tallies
<1> SUFFICES ASSUME Init PROVE Tallies
  OBVIOUS
<1>1. \A j \in Job : Tally(jobs[j]) = "uncounted"
  BY UncountedRow DEF Init, BlankRow
<1>2. ASSUME NEW o \in Org
      PROVE  Tallied(jobs, o, "completed") = {} /\ Tallied(jobs, o, "failed") = {}
  BY <1>1 DEF Tallied
<1>3. \A o \in Org : counters[o].completed = 0 /\ counters[o].failed = 0
  BY DEF Init
<1> QED
  BY <1>2, <1>3, FS_EmptySet DEF Tallies

\* What an org is told it completed and what it failed is what its rows say, for any
\* number of orgs, whatever is reaped, retried, cancelled and expired between.
THEOREM CountersKeepUp == Spec => []CountersAgree
  BY InitTallies, NextTallies, Inductive, TalliesAreCounters, PTL DEF Spec
================================================================================

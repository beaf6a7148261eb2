------------------------------ MODULE WebProofs ------------------------------
(***************************************************************************)
(* What the web process lets in: deliveries and the operator's recoveries  *)
(* (WebhookIntake), and passwords (LoginThrottle).                         *)
(***************************************************************************)
EXTENDS WebhookIntake, LoginThrottle, SequenceTheorems, WellFoundedInduction,
        TLAPS

-----------------------------------------------------------------------------
(* Deliveries against retention                                            *)

RetentionSteps == {"idle", "receipts", "succeeded", "failed", "decisions"}

JobColumns == {"key", "head", "place", "status", "updated"}

\* What the retention compares, receipts and jobs of the past; what a
\* cleanup has taken had ended.
TimesOK ==
  /\ day \in Nat
  /\ retention.step \in RetentionSteps /\ retention.now \in Nat /\ retention.now <= day
  /\ \A r \in receipts : r.created \in Nat /\ r.created <= day
  /\ \A j \in jobs : j.updated \in Nat /\ j.updated <= day /\ DOMAIN j = JobColumns
  /\ \A j \in cleaned : j.updated \in Nat /\ j.updated <= day /\ j.status # "queued"

\* The job of a review is on record, or it went with its connection; it is
\* not older than the receipt.
Evaluated(r) ==
  \E j \in jobs \cup cleaned : j.key = <<"review", r.delivery>> /\ j.updated >= r.created

\* Where jobs are being deleted, the receipts that are left are recent.
ReceiptsWentFirst ==
  retention.step \in {"succeeded", "failed"} =>
    \A r \in receipts : r.created + ShortCutoff >= retention.now

IntakeInv ==
  /\ TimesOK /\ ReceiptsWentFirst
  /\ \A r \in receipts : r.delivery \in Reviews => Evaluated(r)

\* Nothing is on record in the beginning.
LEMMA IntakeInitInv == IntakeInit => IntakeInv
BY DEF IntakeInit, IntakeInv, TimesOK, ReceiptsWentFirst, NoRetention, RetentionSteps

\* A step that leaves the receipts and the retention alone, and keeps every
\* job or replaces it by a younger one of its key.
LEMMA JobsStayOnRecord ==
  ASSUME IntakeInv, UNCHANGED <<day, receipts, cleaned, retention>>,
         \A j \in jobs : \E i \in jobs' : i.key = j.key /\ i.updated >= j.updated,
         \A j \in jobs' : j.updated \in Nat /\ j.updated <= day /\ DOMAIN j = JobColumns
  PROVE  IntakeInv'
<1>1. TimesOK' /\ ReceiptsWentFirst'
  BY DEF IntakeInv, TimesOK, ReceiptsWentFirst
<1>2. ASSUME NEW r \in receipts, r.delivery \in Reviews PROVE Evaluated(r)'
  <2>1. PICK j \in jobs \cup cleaned : j.key = <<"review", r.delivery>> /\ j.updated >= r.created
    BY <1>2 DEF IntakeInv, Evaluated
  <2>2. PICK i \in jobs' \cup cleaned' : i.key = j.key /\ i.updated >= j.updated
    BY DEF IntakeInv, TimesOK
  <2>3. r.created \in Nat /\ j.updated \in Nat /\ i.updated \in Nat
    BY DEF IntakeInv, TimesOK
  <2>4. i.key = <<"review", r.delivery>> /\ i.updated >= r.created
    BY <2>1, <2>2, <2>3
  <2> QED
    BY <2>4 DEF Evaluated
<1> QED
  BY <1>1, <1>2 DEF IntakeInv

\* What is enqueued carries the present day, and takes no job away.
LEMMA EnqueuedJobs ==
  ASSUME NEW key, NEW routed
  PROVE  /\ jobs \subseteq Enqueued(Queued(key, routed))
         /\ \A j \in Enqueued(Queued(key, routed)) : j \in jobs \/ j = Queued(key, routed)
         /\ Queued(key, routed).updated = day /\ Queued(key, routed).key = key
         /\ Queued(key, routed).place = place /\ DOMAIN Queued(key, routed) = JobColumns
BY DEF Enqueued, Queued, JobColumns

\* A receipt of the present day joins the others.
LEMMA DeliveryInv ==
  ASSUME IntakeInv, NEW d, NEW key, NEW routed,
         receipts' = receipts \cup {Receipt(d)}, jobs' = Enqueued(Queued(key, routed)),
         UNCHANGED <<day, cleaned, retention>>,
         d \in Reviews => key = <<"review", d>> /\ ~OnRecord(key)
  PROVE  IntakeInv'
<1>1. Receipt(d).delivery = d /\ Receipt(d).created = day
  BY DEF Receipt
<1>2. TimesOK'
  BY <1>1, EnqueuedJobs DEF IntakeInv, TimesOK
<1>3. ReceiptsWentFirst'
  BY <1>1, IntakeAssumption DEF IntakeInv, TimesOK, ReceiptsWentFirst
<1>4. ASSUME NEW r \in receipts', r.delivery \in Reviews PROVE Evaluated(r)'
  <2>1. CASE r \in receipts
    BY <2>1, <1>4, EnqueuedJobs DEF IntakeInv, Evaluated
  <2>2. CASE r = Receipt(d)
    <3>1. Queued(key, routed) \in jobs' /\ key = <<"review", d>>
      BY <1>1, <1>4, <2>2, EnqueuedJobs DEF Enqueued
    <3>2. Queued(key, routed).updated >= r.created
      BY <1>1, <2>2, EnqueuedJobs DEF IntakeInv, TimesOK
    <3> QED
      BY <3>1, <3>2, <1>1, <2>2, EnqueuedJobs DEF Evaluated
  <2> QED
    BY <2>1, <2>2
<1> QED
  BY <1>2, <1>3, <1>4 DEF IntakeInv

\* A step that adds no receipt and deletes no job.
LEMMA RecordsStay ==
  ASSUME IntakeInv, receipts' \subseteq receipts, UNCHANGED <<jobs, cleaned>>
  PROVE  \A r \in receipts' : r.delivery \in Reviews => Evaluated(r)'
BY DEF IntakeInv, Evaluated

\* Each statement of the retention.
LEMMA RetentionInv ==
  ASSUME IntakeInv, Retain
  PROVE  IntakeInv'
<1>0. UNCHANGED <<day, cleaned>>
  BY DEF Retain, BeginRetention, DeleteReceipts, DeleteJobs, DeleteDecisions, RetentionStops,
         UnchangedGitHub
<1>1. CASE BeginRetention
  <2>1. retention'.step = "receipts" /\ retention'.now = day /\ UNCHANGED <<receipts, jobs>>
    BY <1>1 DEF BeginRetention, StatementAfter
  <2>2. TimesOK' /\ ReceiptsWentFirst'
    BY <1>0, <2>1 DEF IntakeInv, TimesOK, ReceiptsWentFirst, RetentionSteps
  <2> QED
    BY <1>0, <2>1, <2>2, RecordsStay DEF IntakeInv
<1>2. CASE DeleteReceipts
  <2>1. retention' = [retention EXCEPT !.step = "succeeded"] /\ jobs' = jobs
        /\ receipts' \subseteq receipts
    BY <1>2 DEF DeleteReceipts, Advanced, StatementAfter
  <2>2. \A r \in receipts' : r.created + ShortCutoff >= retention.now
    BY <1>2, IntakeAssumption DEF DeleteReceipts, Before, IntakeInv, TimesOK
  <2>3. retention'.now = retention.now /\ retention'.step = "succeeded"
    BY <2>1
  <2>4. TimesOK' /\ ReceiptsWentFirst'
    BY <1>0, <2>1, <2>2, <2>3 DEF IntakeInv, TimesOK, ReceiptsWentFirst, RetentionSteps
  <2> QED
    BY <1>0, <2>1, <2>4, RecordsStay DEF IntakeInv
<1>3. ASSUME NEW status \in {"succeeded", "failed"}, NEW days \in {ShortCutoff, LongCutoff},
             DeleteJobs(status, days)
      PROVE  IntakeInv'
  <2>1. /\ receipts' = receipts /\ jobs' \subseteq jobs
        /\ retention'.now = retention.now
        /\ retention'.step \in {"failed", "decisions"}
        /\ retention.step = status
    BY <1>3 DEF DeleteJobs, Advanced, StatementAfter
  <2>2. \A r \in receipts : r.created + days >= retention.now
    BY <2>1, IntakeAssumption DEF IntakeInv, TimesOK, ReceiptsWentFirst
  <2>3. ASSUME NEW r \in receipts, r.delivery \in Reviews PROVE Evaluated(r)'
    <3>1. PICK j \in jobs \cup cleaned :
            j.key = <<"review", r.delivery>> /\ j.updated >= r.created
      BY <2>3 DEF IntakeInv, Evaluated
    <3>2. ~Before(j.updated, days)
      BY <2>2, <3>1, IntakeAssumption DEF Before, IntakeInv, TimesOK
    <3>3. j \in jobs' \cup cleaned'
      BY <1>0, <1>3, <3>2 DEF DeleteJobs
    <3> QED
      BY <3>1, <3>3 DEF Evaluated
  <2>4. TimesOK' /\ ReceiptsWentFirst'
    BY <1>0, <2>1, <2>2 DEF IntakeInv, TimesOK, ReceiptsWentFirst, RetentionSteps
  <2> QED
    BY <2>1, <2>3, <2>4 DEF IntakeInv
<1>4. CASE DeleteDecisions \/ RetentionStops
  <2>1. retention' = NoRetention /\ UNCHANGED <<receipts, jobs>>
    BY <1>4 DEF DeleteDecisions, RetentionStops, Advanced, StatementAfter
  <2>2. retention'.step = "idle" /\ retention'.now = 0
    BY <2>1 DEF NoRetention
  <2>3. TimesOK' /\ ReceiptsWentFirst'
    BY <1>0, <2>1, <2>2 DEF IntakeInv, TimesOK, ReceiptsWentFirst, RetentionSteps
  <2> QED
    BY <1>0, <2>1, <2>3, RecordsStay DEF IntakeInv
<1> QED
  BY <1>1, <1>2, <1>3, <1>4 DEF Retain

\* The steps of an operator's request change the jobs by their own at most.
LEMMA RequestSteps ==
  ASSUME NEW q, IntakeInv,
         \/ \E byDecision \in BOOLEAN : FindTarget(q, byDecision)
         \/ FetchCurrentState(q) \/ Enqueue(q)
  PROVE  /\ UNCHANGED <<day, place, active, receipts, cleaned, retention>>
         /\ \/ jobs' = jobs
            \/ /\ Enqueue(q) /\ StillAuthorized(q)
               /\ \E job : /\ jobs' = jobs \cup {job} /\ job.updated = day
                           /\ job.key = <<"operator", q>> /\ job.place = place
                           /\ DOMAIN job = JobColumns
<1>1. ASSUME ~Enqueue(q) PROVE UNCHANGED <<day, place, active, receipts, cleaned, retention, jobs>>
  BY <1>1 DEF FindTarget, FetchCurrentState, Unavailable, Asked, UnchangedGitHub
<1>2. CASE Enqueue(q)
  <2>1. UNCHANGED <<day, place, active, receipts, cleaned, retention>>
    BY <1>2 DEF Enqueue, Unavailable, Asked, UnchangedGitHub
  <2>2. CASE StillAuthorized(q)
    <3> DEFINE job == [Queued(<<"operator", q>>, request[q].head)
                         EXCEPT !.place = request[q].place]
    <3>1. job.updated = day /\ job.key = <<"operator", q>> /\ job.place = place
          /\ DOMAIN job = JobColumns
      BY <2>2 DEF Queued, StillAuthorized, JobColumns
    <3>2. jobs' = jobs \cup {job}
      BY <1>2, <2>2 DEF Enqueue
    <3> HIDE DEF job
    <3> QED
      BY <1>2, <2>1, <2>2, <3>1, <3>2
  <2>3. CASE ~StillAuthorized(q)
    BY <1>2, <2>1, <2>3 DEF Enqueue, Unavailable
  <2> QED
    BY <2>2, <2>3
<1> QED
  BY <1>1, <1>2

\* A job that is settled stays on record under its key, as of today.
LEMMA SettledJob ==
  ASSUME IntakeInv, NEW j, NEW status, Settle(j, status)
  PROVE  /\ UNCHANGED <<day, place, active, receipts, cleaned, retention>> /\ j \in jobs
         /\ \E i : /\ jobs' = (jobs \ {j}) \cup {i}
                   /\ i.key = j.key /\ i.updated = day /\ DOMAIN i = JobColumns
<1> DEFINE i == [j EXCEPT !.status = status, !.updated = day]
<1>1. j \in jobs /\ DOMAIN j = JobColumns
  BY DEF Settle, IntakeInv, TimesOK
<1>2. i.key = j.key /\ i.updated = day /\ DOMAIN i = JobColumns
  BY <1>1 DEF JobColumns
<1>3. jobs' = (jobs \ {j}) \cup {i}
  BY DEF Settle
<1> HIDE DEF i
<1> QED
  BY <1>1, <1>2, <1>3 DEF Settle, UnchangedGitHub

\* A connection's row takes its jobs with it; none of them is unfinished.
LEMMA CleanUpInv ==
  ASSUME IntakeInv, NEW row, CleanUp(row)
  PROVE  IntakeInv'
<1>1. UNCHANGED <<day, receipts, retention>>
  BY DEF CleanUp
<1>2. /\ jobs' \subseteq jobs /\ jobs \cup cleaned = jobs' \cup cleaned'
      /\ \A j \in cleaned' : j \in cleaned \/ (j \in jobs /\ j.status # "queued")
  BY DEF CleanUp
<1>3. TimesOK' /\ ReceiptsWentFirst'
  BY <1>1, <1>2 DEF IntakeInv, TimesOK, ReceiptsWentFirst
<1>4. ASSUME NEW r \in receipts, r.delivery \in Reviews PROVE Evaluated(r)'
  BY <1>1, <1>2, <1>4 DEF IntakeInv, Evaluated
<1> QED
  BY <1>1, <1>3, <1>4 DEF IntakeInv

(* A receipt that would have a review's redelivery ignored goes before the *)
(* retention deletes the job, so that no statement after which a worker    *)
(* stops its retention leaves a review that nobody will evaluate           *)
(* (retention.ts:7); the jobs that a cleanup deletes with their connection *)
(* under receipts that stay had all ended (provider-connections.ts:237).   *)
THEOREM IntakeInvariant == IntakeSpec => []IntakeInv
<1>1. ASSUME IntakeInv, [IntakeNext]_intakeVars PROVE IntakeInv'
  <2>0. day \in Nat /\ \A j \in jobs : j.updated \in Nat /\ j.updated <= day
    BY <1>1 DEF IntakeInv, TimesOK
  <2>1. CASE UNCHANGED intakeVars
    BY <1>1, <2>1 DEF IntakeInv, TimesOK, ReceiptsWentFirst, Evaluated, intakeVars
  <2>2. ASSUME NEW d \in Deliveries, DeliverReview(d) PROVE IntakeInv'
    BY <1>1, <2>2, DeliveryInv DEF DeliverReview, UnchangedGitHub
  <2>3. ASSUME NEW d \in Deliveries, NEW routed \in 0 .. head, DeliverChange(d, routed)
        PROVE  IntakeInv'
    BY <1>1, <2>3, DeliveryInv DEF DeliverChange, UnchangedGitHub
  <2>4. ASSUME NEW j \in jobs, NEW status \in {"succeeded", "failed"}, Settle(j, status)
        PROVE  IntakeInv'
    <3>1. UNCHANGED <<day, receipts, cleaned, retention>>
      BY <1>1, <2>4, SettledJob
    <3>2. PICK i : /\ jobs' = (jobs \ {j}) \cup {i}
                   /\ i.key = j.key /\ i.updated = day /\ DOMAIN i = JobColumns
      BY <1>1, <2>4, SettledJob
    <3>3. \A k \in jobs : \E m \in jobs' : m.key = k.key /\ m.updated >= k.updated
      BY <2>0, <3>2
    <3>4. \A k \in jobs' : k.updated \in Nat /\ k.updated <= day
      BY <2>0, <3>2
    <3>5. \A k \in jobs' : DOMAIN k = JobColumns
      BY <1>1, <3>2 DEF IntakeInv, TimesOK
    <3> QED
      BY <1>1, <3>1, <3>3, <3>4, <3>5, JobsStayOnRecord
  <2>5. CASE Retain
    BY <1>1, <2>5, RetentionInv
  <2>6. ASSUME NEW q \in Requests,
               \/ \E byDecision \in BOOLEAN : FindTarget(q, byDecision)
               \/ FetchCurrentState(q) \/ Enqueue(q)
        PROVE  IntakeInv'
    <3>1. /\ UNCHANGED <<day, receipts, cleaned, retention>>
          /\ \/ jobs' = jobs
             \/ \E job : jobs' = jobs \cup {job} /\ job.updated = day /\ DOMAIN job = JobColumns
      BY <1>1, <2>6, RequestSteps
    <3>2. \A k \in jobs : \E m \in jobs' : m.key = k.key /\ m.updated >= k.updated
      BY <2>0, <3>1
    <3>3. \A k \in jobs' : k.updated \in Nat /\ k.updated <= day /\ DOMAIN k = JobColumns
      BY <1>1, <2>0, <3>1 DEF IntakeInv, TimesOK
    <3> QED
      BY <1>1, <3>1, <3>2, <3>3, JobsStayOnRecord
  <2>7. ASSUME NEW decision \in decisions, Pin(decision) PROVE IntakeInv'
    BY <1>1, <2>7 DEF Pin, UnchangedGitHub, IntakeInv, TimesOK, ReceiptsWentFirst, Evaluated
  <2>8. CASE \/ PullRequestChanges \/ PlaceChanges \/ RepositoryRemoved \/ AbsenceChanges
             \/ \E row \in Connections : Revoke(row) \/ Transfer(row)
    <3>1. UNCHANGED <<day, receipts, jobs, cleaned, retention>>
      BY <2>8 DEF PullRequestChanges, PlaceChanges, RepositoryRemoved, AbsenceChanges, Revoke,
                  Transfer
    <3> QED
      BY <1>1, <3>1 DEF IntakeInv, TimesOK, ReceiptsWentFirst, Evaluated
  <2>9. CASE DayPasses
    <3>1. day' = day + 1 /\ UNCHANGED <<receipts, jobs, cleaned, retention>>
      BY <2>9 DEF DayPasses
    <3>2. TimesOK'
      BY <1>1, <3>1 DEF IntakeInv, TimesOK
    <3> QED
      BY <1>1, <3>1, <3>2 DEF IntakeInv, ReceiptsWentFirst, Evaluated
  <2>10. ASSUME NEW row \in Connections, CleanUp(row) PROVE IntakeInv'
    BY <1>1, <2>10, CleanUpInv
  <2> QED
    BY <1>1, <2>1, <2>2, <2>3, <2>4, <2>5, <2>6, <2>7, <2>8, <2>9, <2>10 DEF IntakeNext
<1> QED
  BY <1>1, IntakeInitInv, PTL DEF IntakeSpec

(* Whenever a review would be taken for a duplicate, its job is on record, *)
(* or it was settled and went with its connection.                         *)
THEOREM IntakeKeepsReviews == IntakeSpec => []ReviewReceiptsHaveJobs
<1>1. ASSUME IntakeInv, NEW r \in receipts, r.delivery \in Reviews
      PROVE  \/ OnRecord(<<"review", r.delivery>>)
             \/ \E j \in cleaned : /\ j.key = <<"review", r.delivery>>
                                   /\ j.status # "queued" /\ j.updated >= r.created
  <2>1. PICK j \in jobs \cup cleaned : j.key = <<"review", r.delivery>> /\ j.updated >= r.created
    BY <1>1 DEF IntakeInv, Evaluated
  <2>2. CASE j \in jobs
    BY <2>1, <2>2 DEF OnRecord
  <2>3. CASE j \in cleaned
    BY <1>1, <2>1, <2>3 DEF IntakeInv, TimesOK
  <2> QED
    BY <2>2, <2>3
<1>2. IntakeInv => ReviewReceiptsHaveJobs
  BY <1>1 DEF ReviewReceiptsHaveJobs
<1> QED
  BY <1>2, IntakeInvariant, PTL

(* The job of an operator's recovery is only ever queued under an active   *)
(* connection that owns the repository in that very transaction.           *)
THEOREM IntakeAuthorizesRecoveries == IntakeSpec => RecoveriesAreAuthorized
<1> DEFINE New(q) == ~OnRecord(<<"operator", q>>) /\ OnRecord(<<"operator", q>>)'
           Owned(q) == /\ active
                             /\ \A j \in jobs' : j.key = <<"operator", q>> => j.place = place
<1>1. ASSUME IntakeInv, [IntakeNext]_intakeVars, NEW q \in Requests, New(q)
      PROVE  Owned(q)
  <2>1. PICK j \in jobs' : j.key = <<"operator", q>>
    BY <1>1 DEF OnRecord
  <2>2. \A i \in jobs : i.key # <<"operator", q>>
    BY <1>1 DEF OnRecord
  <2>3. ~(jobs' \subseteq jobs)
    BY <2>1, <2>2
  <2>4. CASE \E p \in Requests : \/ \E byDecision \in BOOLEAN : FindTarget(p, byDecision)
                                 \/ FetchCurrentState(p) \/ Enqueue(p)
    <3>1. PICK p \in Requests : \/ \E byDecision \in BOOLEAN : FindTarget(p, byDecision)
                                \/ FetchCurrentState(p) \/ Enqueue(p)
      BY <2>4
    <3>2. StillAuthorized(p) /\ \E job : jobs' = jobs \cup {job} /\ job.place = place
      BY <1>1, <2>3, <3>1, RequestSteps
    <3> QED
      BY <2>2, <3>2 DEF StillAuthorized
  <2>5. CASE \E i \in jobs, status \in {"succeeded", "failed"} : Settle(i, status)
    BY <1>1, <2>1, <2>2, <2>5, SettledJob
  <2>6. CASE \E d \in Deliveries :
               DeliverReview(d) \/ \E routed \in 0 .. head : DeliverChange(d, routed)
    <3>1. ASSUME NEW key, NEW routed, jobs' = Enqueued(Queued(key, routed))
          PROVE  key = <<"operator", q>>
      BY <2>1, <2>2, <3>1, EnqueuedJobs
    <3>2. ASSUME NEW d, DeliverReview(d) PROVE FALSE
      BY <3>1, <3>2 DEF DeliverReview
    <3>3. ASSUME NEW d, NEW routed, DeliverChange(d, routed) PROVE FALSE
      BY <3>1, <3>3 DEF DeliverChange
    <3> QED
      BY <2>6, <3>2, <3>3
  <2>7. CASE Retain
    BY <2>3, <2>7 DEF Retain, BeginRetention, DeleteReceipts, DeleteJobs, DeleteDecisions,
                      RetentionStops
  <2>8. CASE UNCHANGED jobs \/ \E row \in Connections : CleanUp(row)
    BY <2>3, <2>8 DEF CleanUp
  <2> QED
    BY <1>1, <2>4, <2>5, <2>6, <2>7, <2>8
       DEF IntakeNext, Pin, Revoke, Transfer, PullRequestChanges, PlaceChanges, RepositoryRemoved,
           AbsenceChanges, DayPasses, intakeVars
<1>2. IntakeInv /\ [IntakeNext]_intakeVars =>
        \A q \in Requests :
          (~OnRecord(<<"operator", q>>) /\ OnRecord(<<"operator", q>>)') =>
            /\ active
            /\ \A j \in jobs' : j.key = <<"operator", q>> => j.place = place
  BY <1>1
<1> HIDE DEF New, Owned
<1> QED
  BY <1>2, IntakeInvariant, PTL DEF IntakeSpec, RecoveriesAreAuthorized

-----------------------------------------------------------------------------
(* Passwords against the clock                                             *)

ThrottleTypeOK ==
  /\ clock \in Nat
  /\ attempts \in [LoginKeys -> Entries]
  /\ nextExpiryAt \in Nat \cup {Never}
  /\ guesses \in [LoginKeys -> Seq(Nat)]

Ordered(times) == \A i, j \in DOMAIN times : i <= j => times[i] <= times[j]

\* The failures are the last of the guesses, and the guesses that are no
\* longer among them are at least a window old.
Remembered(failures, guessed) ==
  /\ Len(failures) <= Len(guessed)
  /\ \A i \in 1 .. Len(failures) : failures[i] = guessed[Len(guessed) - Len(failures) + i]
  /\ \A i \in 1 .. Len(guessed) - Len(failures) : guessed[i] + Window <= clock

LockOK(entry) ==
  IF Locked(entry)
  THEN /\ Len(entry.failures) >= MaxFailures
       /\ \A i \in DOMAIN entry.failures : entry.failures[i] + Window <= entry.lockedUntil
       /\ Head(entry.failures) + 2 * Window >= entry.lockedUntil
  ELSE Len(entry.failures) < MaxFailures

EntryOK(entry, guessed) ==
  /\ Remembered(entry.failures, guessed)
  /\ Ordered(entry.failures)
  /\ \A i \in DOMAIN entry.failures : entry.failures[i] <= clock
  /\ LockOK(entry)

Bounded(guessed) ==
  \A n \in DOMAIN guessed :
    n > MaxFailures => guessed[n] >= guessed[n - MaxFailures] + Window

Early(entries, expiry) ==
  \A k \in Tracked(entries) : expiry # Never /\ expiry <= Expiry(entries[k])

ThrottleInv ==
  /\ ThrottleTypeOK
  /\ Early(attempts, nextExpiryAt)
  /\ \A k \in LoginKeys : EntryOK(attempts[k], guesses[k]) /\ Bounded(guesses[k])

\* A set of naturals has a least element.
LEMMA LeastNatural ==
  ASSUME NEW T \in SUBSET Nat, T # {}
  PROVE  \E n \in T : \A m \in T : n <= m
<1> DEFINE R == OpToRel(<, Nat)
<1>1. IsWellFoundedOn(R, Nat)
  BY NatLessThanWellFounded
<1> HIDE DEF R
<1>2. PICK n \in T : \A m \in T : ~(<<m, n>> \in R)
  BY <1>1, WFMin
<1>3. \A m \in T : ~(m < n)
  BY <1>2 DEF R, OpToRel
<1> QED
  BY <1>3

\* The first recent failure is where it says.
LEMMA FirstRecentIs ==
  ASSUME NEW failures \in Seq(Nat), clock \in Nat
  PROVE  LET n == FirstRecent(failures) IN
         /\ n \in 1 .. Len(failures) + 1
         /\ \A i \in 1 .. n - 1 : Old(failures[i])
         /\ n <= Len(failures) => ~Old(failures[n])
<1> DEFINE T == {n \in 1 .. Len(failures) + 1 : n <= Len(failures) => ~Old(failures[n])}
<1>1. T \in SUBSET Nat /\ Len(failures) + 1 \in T
  OBVIOUS
<1>2. PICK n \in T : \A m \in T : n <= m
  BY <1>1, LeastNatural
<1>3. n \in 1 .. Len(failures) + 1 /\ (n <= Len(failures) => ~Old(failures[n]))
  BY <1>2
<1>4. ASSUME NEW i \in 1 .. n - 1 PROVE Old(failures[i])
  <2>1. i \in 1 .. Len(failures) /\ ~(n <= i)
    BY <1>3, <1>4
  <2> QED
    BY <1>2, <2>1
<1> HIDE DEF T
<1> QED
  BY <1>3, <1>4 DEF FirstRecent

\* What the pruning drops is old, what it leaves begins with a recent one.
LEMMA PrunedIs ==
  ASSUME NEW failures \in Seq(Nat), clock \in Nat
  PROVE  \E n \in 0 .. Len(failures) :
           /\ Pruned(failures) \in Seq(Nat) /\ Len(Pruned(failures)) = Len(failures) - n
           /\ \A i \in 1 .. Len(failures) - n : Pruned(failures)[i] = failures[n + i]
           /\ \A i \in 1 .. n : failures[i] + Window < clock
           /\ n < Len(failures) => failures[n + 1] + Window >= clock
<1> DEFINE m == FirstRecent(failures)
<1>1. /\ m \in 1 .. Len(failures) + 1
      /\ \A i \in 1 .. m - 1 : Old(failures[i])
      /\ m <= Len(failures) => ~Old(failures[m])
  BY FirstRecentIs
<1>2. Pruned(failures) = SubSeq(failures, m, Len(failures))
  BY DEF Pruned
<1> HIDE DEF m
<1>3. \A i \in m .. Len(failures) : failures[i] \in Nat
  BY <1>1
<1>4. /\ Pruned(failures) \in Seq(Nat)
      /\ Len(Pruned(failures)) = IF m <= Len(failures) THEN Len(failures) - m + 1 ELSE 0
      /\ \A i \in 1 .. Len(failures) - m + 1 : Pruned(failures)[i] = failures[m + i - 1]
  BY <1>1, <1>2, <1>3, SubSeqProperties
<1>5. PICK n \in 0 .. Len(failures) : m = n + 1
  BY <1>1
<1>6. Len(Pruned(failures)) = Len(failures) - n
  BY <1>1, <1>4, <1>5
<1>7. \A i \in 1 .. Len(failures) - n : Pruned(failures)[i] = failures[n + i]
  <2> SUFFICES ASSUME NEW i \in 1 .. Len(failures) - n
               PROVE  Pruned(failures)[i] = failures[n + i]
    OBVIOUS
  <2>1. i \in 1 .. Len(failures) - m + 1 /\ m + i - 1 = n + i
    BY <1>5
  <2> QED
    BY <1>4, <2>1
<1>8. /\ \A i \in 1 .. n : failures[i] + Window < clock
      /\ n < Len(failures) => failures[n + 1] + Window >= clock
  <2>1. m - 1 = n
    BY <1>5
  <2>2. \A i \in 1 .. n : Old(failures[i])
    BY <1>1, <2>1
  <2>3. n < Len(failures) => failures[n + 1] \in Nat /\ ~Old(failures[n + 1])
    BY <1>1, <1>5
  <2> QED
    BY <2>2, <2>3, ThrottleAssumption DEF Old
<1> QED
  BY <1>4, <1>6, <1>7, <1>8

\* The entry of a key that is not in the map.
LEMMA NoEntryIs ==
  /\ NoEntry \in Entries /\ NoEntry.failures = <<>> /\ ~Locked(NoEntry)
  /\ \A entry \in Entries : entry # NoEntry /\ ~Locked(entry) => entry.failures # <<>>
BY DEF NoEntry, Entries, Locked

\* An entry of the map expires at some time.
LEMMA ExpiryIs ==
  ASSUME NEW entry \in Entries, entry # NoEntry
  PROVE  Expiry(entry) \in Nat
<1>1. CASE Locked(entry)
  BY <1>1 DEF Expiry, Locked, Entries
<1>2. CASE ~Locked(entry)
  <2>1. entry.failures \in Seq(Nat) /\ entry.failures # <<>>
    BY <1>2, NoEntryIs DEF Entries
  <2> QED
    BY <1>2, <2>1, ThrottleAssumption DEF Expiry
<1> QED
  BY <1>1, <1>2

\* An entry that a scan keeps is in order, and expires later.
LEMMA KeptIs ==
  ASSUME clock \in Nat, NEW entry \in Entries, NEW guessed \in Seq(Nat), EntryOK(entry, guessed)
  PROVE  /\ Kept(entry) \in Entries /\ EntryOK(Kept(entry), guessed)
         /\ Kept(entry) # NoEntry => clock < Expiry(Kept(entry))
<1> DEFINE f == entry.failures
<1>0. /\ f \in Seq(Nat) /\ entry.lockedUntil \in Nat \cup {Never}
      /\ Window \in Nat \ {0} /\ MaxFailures \in Nat \ {0}
  BY ThrottleAssumption DEF Entries
<1>1. CASE Locked(entry) /\ entry.lockedUntil > clock
  <2>1. Kept(entry) = entry
    BY <1>0, <1>1 DEF Kept, Locked
  <2> QED
    BY <1>1, <2>1 DEF Expiry
<1>2. CASE Locked(entry) /\ entry.lockedUntil <= clock
  <2>1. Kept(entry) = NoEntry
    BY <1>2 DEF Kept
  <2>a. Remembered(f, guessed) /\ \A i \in DOMAIN f : f[i] + Window <= entry.lockedUntil
    BY <1>2 DEF EntryOK, LockOK
  <2> HIDE DEF f
  <2>2. ASSUME NEW i \in 1 .. Len(guessed) PROVE guessed[i] + Window <= clock
    <3> DEFINE k == i - (Len(guessed) - Len(f))
    <3>1. CASE k >= 1
      <4>1. k \in 1 .. Len(f) /\ i = Len(guessed) - Len(f) + k
        BY <1>0, <2>a, <3>1 DEF Remembered
      <4>2. guessed[i] = f[k]
        BY <2>a, <4>1 DEF Remembered
      <4> HIDE DEF k
      <4>3. k \in DOMAIN f /\ f[k] \in Nat
        BY <1>0, <4>1
      <4>4. f[k] + Window <= entry.lockedUntil
        BY <2>a, <4>3
      <4>5. entry.lockedUntil \in Nat /\ entry.lockedUntil <= clock
        BY <1>0, <1>2 DEF Locked
      <4> QED
        BY <1>0, <4>2, <4>3, <4>4, <4>5
    <3>2. CASE ~(k >= 1)
      BY <1>0, <2>a, <3>2 DEF Remembered
    <3> QED
      BY <3>1, <3>2
  <2>3. EntryOK(NoEntry, guessed)
    BY <1>0, <2>2, NoEntryIs DEF EntryOK, Remembered, Ordered, LockOK
  <2> QED
    BY <2>1, <2>3, NoEntryIs
<1>3. CASE ~Locked(entry)
  <2> DEFINE e == Kept(entry)
             p == Pruned(f)
  <2>1. PICK n \in 0 .. Len(f) :
               /\ p \in Seq(Nat) /\ Len(p) = Len(f) - n
               /\ \A i \in 1 .. Len(f) - n : p[i] = f[n + i]
               /\ \A i \in 1 .. n : f[i] + Window < clock
               /\ n < Len(f) => f[n + 1] + Window >= clock
    BY <1>0, PrunedIs
  <2>2. e = [entry EXCEPT !.failures = p]
    BY <1>3 DEF Kept
  <2>3. e \in Entries /\ e.failures = p /\ ~Locked(e)
    BY <1>3, <2>1, <2>2 DEF Entries, Locked
  <2> HIDE DEF p, e, f
  <2>4. Remembered(f, guessed) /\ Ordered(f) /\ Len(f) < MaxFailures
        /\ \A i \in DOMAIN f : f[i] <= clock
    BY <1>3 DEF EntryOK, LockOK, f
  <2>5. Remembered(p, guessed)
    <3>1. Len(p) <= Len(guessed)
      BY <1>0, <2>1, <2>4 DEF Remembered
    <3>2. \A i \in 1 .. Len(p) : p[i] = guessed[Len(guessed) - Len(p) + i]
      <4> SUFFICES ASSUME NEW i \in 1 .. Len(p) PROVE p[i] = guessed[Len(guessed) - Len(p) + i]
        OBVIOUS
      <4>1. p[i] = f[n + i] /\ n + i \in 1 .. Len(f)
        BY <1>0, <2>1
      <4>2. f[n + i] = guessed[Len(guessed) - Len(f) + (n + i)]
        BY <4>1, <2>4 DEF Remembered
      <4>3. Len(guessed) - Len(f) + (n + i) = Len(guessed) - Len(p) + i
        BY <1>0, <2>1
      <4> QED
        BY <4>1, <4>2, <4>3
    <3>3. \A i \in 1 .. Len(guessed) - Len(p) : guessed[i] + Window <= clock
      <4> SUFFICES ASSUME NEW i \in 1 .. Len(guessed) - Len(p) PROVE guessed[i] + Window <= clock
        OBVIOUS
      <4> DEFINE k == i - (Len(guessed) - Len(f))
      <4>1. CASE k >= 1
        <5>1. k \in 1 .. n /\ k \in 1 .. Len(f)
          BY <1>0, <2>1, <4>1
        <5>2. i = Len(guessed) - Len(f) + k
          BY <1>0
        <5> HIDE DEF k
        <5>3. guessed[i] = f[k]
          BY <2>4, <5>1, <5>2 DEF Remembered
        <5>4. f[k] + Window < clock
          BY <2>1, <5>1
        <5>5. f[k] \in Nat
          BY <1>0, <5>1
        <5> QED
          BY <1>0, <5>3, <5>4, <5>5
      <4>2. CASE ~(k >= 1)
        BY <1>0, <2>1, <2>4, <4>2 DEF Remembered
      <4> QED
        BY <4>1, <4>2
    <3> QED
      BY <3>1, <3>2, <3>3 DEF Remembered
  <2>6. Ordered(p) /\ \A i \in DOMAIN p : p[i] <= clock
    <3>0. DOMAIN p = 1 .. Len(p) /\ DOMAIN f = 1 .. Len(f)
      BY <1>0, <2>1
    <3>1. \A i \in DOMAIN p : i \in Nat /\ p[i] = f[n + i] /\ n + i \in DOMAIN f
      <4> SUFFICES ASSUME NEW i \in DOMAIN p
                   PROVE  i \in Nat /\ p[i] = f[n + i] /\ n + i \in DOMAIN f
        OBVIOUS
      <4>1. i \in 1 .. Len(f) - n /\ Len(f) \in Nat
        BY <1>0, <2>1, <3>0
      <4> QED
        BY <2>1, <3>0, <4>1
    <3>2. \A i, j \in DOMAIN p : i <= j => n + i <= n + j
      BY <3>1
    <3> QED
      BY <2>4, <3>1, <3>2 DEF Ordered
  <2>7. EntryOK(e, guessed)
    BY <1>0, <2>1, <2>3, <2>4, <2>5, <2>6 DEF EntryOK, LockOK
  <2>8. e # NoEntry => clock < Expiry(e)
    <3> SUFFICES ASSUME e # NoEntry PROVE clock < Expiry(e)
      OBVIOUS
    <3>1. p # <<>>
      BY <2>3, NoEntryIs
    <3>2. Len(p) > 0 /\ Head(p) = p[1]
      BY <2>1, <3>1
    <3>3. n < Len(f) /\ 1 \in 1 .. Len(f) - n
      BY <1>0, <2>1, <3>2
    <3>4. p[1] = f[n + 1] /\ f[n + 1] \in Nat /\ f[n + 1] + Window >= clock
      BY <1>0, <2>1, <3>3
    <3>5. Expiry(e) = f[n + 1] + Window + 1
      BY <2>3, <3>2, <3>4 DEF Expiry
    <3> QED
      BY <1>0, <3>4, <3>5
  <2> QED
    BY <2>3, <2>7, <2>8 DEF e
<1> QED
  BY <1>0, <1>1, <1>2, <1>3 DEF Locked

\* After the cleaning of an operation, what is left is unexpired.
Clean(entries, expiry) ==
  /\ entries \in [LoginKeys -> Entries] /\ expiry \in Nat \cup {Never}
  /\ Early(entries, expiry)
  /\ \A k \in LoginKeys : /\ EntryOK(entries[k], guesses[k])
                          /\ entries[k] # NoEntry => clock < Expiry(entries[k])

\* Whether it scanned or not.
LEMMA CleanedIsClean ==
  ASSUME ThrottleInv, NEW entries \in {attempts, Scanned}, NEW expiry, Cleaned(entries, expiry)
  PROVE  Clean(entries, expiry)
<1>0. /\ clock \in Nat /\ attempts \in [LoginKeys -> Entries]
      /\ nextExpiryAt \in Nat \cup {Never} /\ Never \notin Nat
      /\ \A k \in LoginKeys : guesses[k] \in Seq(Nat) /\ EntryOK(attempts[k], guesses[k])
  BY ThrottleAssumption DEF ThrottleInv, ThrottleTypeOK
<1>1. CASE nextExpiryAt = Never \/ clock < nextExpiryAt
  <2>1. entries = attempts /\ expiry = nextExpiryAt
    BY <1>1 DEF Cleaned
  <2>2. ASSUME NEW k \in LoginKeys, attempts[k] # NoEntry PROVE clock < Expiry(attempts[k])
    <3>1. nextExpiryAt # Never /\ nextExpiryAt <= Expiry(attempts[k])
      BY <2>2 DEF ThrottleInv, Early, Tracked
    <3>2. Expiry(attempts[k]) \in Nat
      BY <1>0, <2>2, ExpiryIs
    <3> QED
      BY <1>0, <1>1, <3>1, <3>2
  <2> QED
    BY <1>0, <2>1, <2>2 DEF Clean, ThrottleInv
<1>2. CASE ~(nextExpiryAt = Never \/ clock < nextExpiryAt)
  <2>1. entries = Scanned /\ Soonest(Expiries(Scanned), expiry)
    BY <1>2 DEF Cleaned
  <2>2. ASSUME NEW k \in LoginKeys
        PROVE  /\ entries[k] \in Entries /\ EntryOK(entries[k], guesses[k])
               /\ entries[k] # NoEntry => clock < Expiry(entries[k])
    <3>1. entries[k] = Kept(attempts[k])
      BY <2>1 DEF Scanned
    <3>2. attempts[k] \in Entries /\ guesses[k] \in Seq(Nat) /\ EntryOK(attempts[k], guesses[k])
      BY <1>0
    <3> QED
      BY <1>0, <3>1, <3>2, KeptIs
  <2>3. entries \in [LoginKeys -> Entries]
    BY <2>1, <2>2 DEF Scanned
  <2>4. Expiries(entries) \subseteq Nat
    BY <2>2, ExpiryIs DEF Expiries, Tracked
  <2>5. \A k \in Tracked(entries) : Expiry(entries[k]) \in Expiries(entries)
    BY DEF Expiries
  <2>6. Early(entries, expiry) /\ expiry \in Nat \cup {Never}
    BY <1>0, <2>1, <2>4, <2>5 DEF Early, Soonest
  <2> QED
    BY <2>2, <2>3, <2>6 DEF Clean
<1> QED
  BY <1>1, <1>2

\* A wrong password that is compared: the entry with the failure, and the
\* guesses with it.
LEMMA FailedIs ==
  ASSUME clock \in Nat, NEW entry \in Entries, NEW guessed \in Seq(Nat),
         EntryOK(entry, guessed), Bounded(guessed), ~Locked(entry),
         entry # NoEntry => clock < Expiry(entry)
  PROVE  /\ Failed(entry) \in Entries /\ Failed(entry) # NoEntry
         /\ EntryOK(Failed(entry), Append(guessed, clock))
         /\ Bounded(Append(guessed, clock))
<1> DEFINE f == entry.failures
           g == Append(f, clock)
           after == Append(guessed, clock)
<1>0. /\ f \in Seq(Nat) /\ Window \in Nat \ {0} /\ MaxFailures \in Nat \ {0} /\ Never \notin Nat
      /\ Len(f) \in Nat /\ Len(guessed) \in Nat
  BY ThrottleAssumption DEF Entries
<1>1. Remembered(f, guessed) /\ Ordered(f) /\ Len(f) < MaxFailures
      /\ \A i \in DOMAIN f : f[i] <= clock
  BY DEF EntryOK, LockOK
<1>2. f # <<>> => f[1] + Window >= clock
  <2> SUFFICES ASSUME f # <<>> PROVE f[1] + Window >= clock
    OBVIOUS
  <2>1. entry # NoEntry /\ Expiry(entry) = Head(f) + Window + 1
    BY NoEntryIs DEF Expiry
  <2>2. Head(f) = f[1] /\ f[1] \in Nat
    BY <1>0
  <2> QED
    BY <1>0, <2>1, <2>2
<1>a. g \in Seq(Nat)
  BY <1>0
<1>3. [entry EXCEPT !.failures = g] \in Entries
      /\ [entry EXCEPT !.failures = g].failures = g
      /\ ~Locked([entry EXCEPT !.failures = g])
  <2> HIDE DEF g
  <2> QED
    BY <1>0, <1>a DEF Entries, Locked
<1> DEFINE e == Failed(entry)
<1>4. /\ e \in Entries /\ e.failures = g
      /\ IF Len(g) >= MaxFailures THEN e.lockedUntil = clock + Window ELSE ~Locked(e)
  <2>1. CASE Len(g) >= MaxFailures
    <3> DEFINE x == [entry EXCEPT !.failures = g]
    <3>1. e = [x EXCEPT !.lockedUntil = clock + Window]
      BY <1>3, <2>1 DEF Failed, LockAfter
    <3>2. x \in Entries /\ x.failures = g /\ clock + Window \in Nat
      BY <1>0, <1>3
    <3> HIDE DEF x, e, g
    <3> QED
      BY <2>1, <3>1, <3>2 DEF Entries
  <2>2. CASE ~(Len(g) >= MaxFailures)
    BY <1>3, <2>2 DEF Failed, LockAfter
  <2> QED
    BY <2>1, <2>2
<1>5. /\ Len(g) = Len(f) + 1 /\ DOMAIN g = 1 .. Len(f) + 1 /\ g \in Seq(Nat)
      /\ \A i \in 1 .. Len(f) : g[i] = f[i]
      /\ g[Len(f) + 1] = clock
      /\ Len(after) = Len(guessed) + 1 /\ DOMAIN after = 1 .. Len(guessed) + 1
      /\ \A i \in 1 .. Len(guessed) : after[i] = guessed[i]
      /\ after[Len(guessed) + 1] = clock
      /\ DOMAIN f = 1 .. Len(f) /\ DOMAIN guessed = 1 .. Len(guessed)
      /\ \A i \in 1 .. Len(f) : f[i] \in Nat
      /\ \A i \in 1 .. Len(guessed) : guessed[i] \in Nat
  BY <1>0
<1>6. e # NoEntry
  BY <1>4, <1>5, NoEntryIs
<1> HIDE DEF e, g, after, f
<1>7. Remembered(g, after)
  <2>1. \A i \in 1 .. Len(g) : g[i] = after[Len(after) - Len(g) + i]
    <3> SUFFICES ASSUME NEW i \in 1 .. Len(g) PROVE g[i] = after[Len(after) - Len(g) + i]
      OBVIOUS
    <3>1. Len(after) - Len(g) = Len(guessed) - Len(f)
      BY <1>0, <1>5
    <3>2. CASE i = Len(f) + 1
      BY <1>0, <1>5, <3>1, <3>2
    <3>3. CASE i # Len(f) + 1
      <4>1. i \in 1 .. Len(f) /\ g[i] = f[i]
        BY <1>0, <1>5, <3>3
      <4>2. f[i] = guessed[Len(guessed) - Len(f) + i]
        BY <1>1, <4>1 DEF Remembered
      <4>3. Len(guessed) - Len(f) + i \in 1 .. Len(guessed)
        BY <1>0, <1>1, <4>1 DEF Remembered
      <4> QED
        BY <1>5, <3>1, <4>1, <4>2, <4>3
    <3> QED
      BY <3>2, <3>3
  <2>2. \A i \in 1 .. Len(after) - Len(g) : after[i] + Window <= clock
    <3> SUFFICES ASSUME NEW i \in 1 .. Len(after) - Len(g) PROVE after[i] + Window <= clock
      OBVIOUS
    <3>1. i \in 1 .. Len(guessed) - Len(f) /\ i \in 1 .. Len(guessed)
      BY <1>0, <1>5
    <3> QED
      BY <1>1, <1>5, <3>1 DEF Remembered
  <2>3. Len(g) <= Len(after)
    BY <1>0, <1>1, <1>5 DEF Remembered
  <2> QED
    BY <2>1, <2>2, <2>3 DEF Remembered
<1>8. Ordered(g) /\ \A i \in DOMAIN g : g[i] \in Nat /\ g[i] <= clock
  <2>1. \A i \in DOMAIN g : (i \in 1 .. Len(f) /\ g[i] = f[i]) \/ (i = Len(f) + 1 /\ g[i] = clock)
    BY <1>0, <1>5
  <2>2. \A i \in DOMAIN g : g[i] \in Nat /\ g[i] <= clock
    BY <1>1, <1>5, <2>1
  <2>3. ASSUME NEW i \in DOMAIN g, NEW j \in DOMAIN g, i <= j PROVE g[i] <= g[j]
    <3>1. CASE j = Len(f) + 1
      BY <1>5, <2>2, <3>1
    <3>2. CASE j \in 1 .. Len(f)
      <4>1. i \in 1 .. Len(f)
        BY <1>0, <1>5, <2>3, <3>2
      <4> QED
        BY <1>1, <1>5, <2>3, <3>2, <4>1 DEF Ordered
    <3> QED
      BY <2>1, <3>1, <3>2
  <2> QED
    BY <2>2, <2>3 DEF Ordered
<1>9. LockOK(e)
  <2>1. CASE Len(g) >= MaxFailures
    <3>1. Locked(e) /\ e.lockedUntil = clock + Window
      BY <1>0, <1>4, <2>1 DEF Locked
    <3>2. \A i \in DOMAIN g : g[i] + Window <= clock + Window
      BY <1>0, <1>8
    <3>3. Head(g) = g[1] /\ g[1] \in Nat
      BY <1>0, <1>5
    <3>4. g[1] + Window >= clock
      <4>1. CASE f = <<>>
        BY <1>0, <1>5, <4>1
      <4>2. CASE f # <<>>
        BY <1>0, <1>2, <1>5, <4>2
      <4> QED
        BY <4>1, <4>2
    <3>5. Head(g) + 2 * Window >= clock + Window
      BY <1>0, <3>3, <3>4
    <3> QED
      BY <1>4, <2>1, <3>1, <3>2, <3>5 DEF LockOK
  <2>2. CASE ~(Len(g) >= MaxFailures)
    BY <1>0, <1>4, <1>5, <2>2 DEF LockOK
  <2> QED
    BY <2>1, <2>2
<1>10. Bounded(after)
  <2> SUFFICES ASSUME NEW n \in DOMAIN after, n > MaxFailures
               PROVE  after[n] >= after[n - MaxFailures] + Window
    BY DEF Bounded
  <2>0. n - MaxFailures \in 1 .. Len(guessed)
    BY <1>0, <1>5
  <2>1. CASE n = Len(guessed) + 1
    <3>1. n - MaxFailures \in 1 .. Len(guessed) - Len(f)
      BY <1>0, <1>1, <2>0, <2>1
    <3>2. guessed[n - MaxFailures] + Window <= clock
      BY <1>1, <3>1 DEF Remembered
    <3>3. guessed[n - MaxFailures] \in Nat
      BY <1>5, <2>0
    <3> QED
      BY <1>0, <1>5, <2>0, <2>1, <3>2, <3>3
  <2>2. CASE n # Len(guessed) + 1
    <3>1. n \in DOMAIN guessed
      BY <1>0, <1>5, <2>2
    <3>2. guessed[n] >= guessed[n - MaxFailures] + Window
      BY <3>1 DEF Bounded
    <3> QED
      BY <1>5, <2>0, <3>1, <3>2
  <2> QED
    BY <2>1, <2>2
<1> QED
  BY <1>4, <1>6, <1>7, <1>8, <1>9, <1>10 DEF EntryOK, e, after

\* The key of an operation gets a new entry, and the rest is clean.
LEMMA KeyChange ==
  ASSUME ThrottleInv, NEW entries, NEW expiry, Clean(entries, expiry), UNCHANGED clock,
         NEW k \in LoginKeys, NEW entry \in Entries, NEW guessed \in Seq(Nat),
         EntryOK(entry, guessed), Bounded(guessed),
         attempts' = [entries EXCEPT ![k] = entry], guesses' = [guesses EXCEPT ![k] = guessed],
         nextExpiryAt' \in Nat \cup {Never},
         Early(attempts', nextExpiryAt')
  PROVE  ThrottleInv'
<1>1. ThrottleTypeOK'
  BY DEF Clean, ThrottleInv, ThrottleTypeOK
<1>2. ASSUME NEW l \in LoginKeys
      PROVE  EntryOK(attempts'[l], guesses'[l]) /\ Bounded(guesses'[l])
  <2>1. CASE l = k
    BY <2>1 DEF Clean, ThrottleInv, ThrottleTypeOK
  <2>2. CASE l # k
    <3>1. attempts'[l] = entries[l] /\ guesses'[l] = guesses[l]
      BY <2>2 DEF Clean, ThrottleInv, ThrottleTypeOK
    <3> QED
      BY <3>1 DEF Clean, ThrottleInv
  <2> QED
    BY <2>1, <2>2
<1>3. \A l \in LoginKeys : (EntryOK(attempts[l], guesses[l]) /\ Bounded(guesses[l]))'
  <2> SUFFICES ASSUME NEW l \in LoginKeys
               PROVE  (EntryOK(attempts[l], guesses[l]) /\ Bounded(guesses[l]))'
    OBVIOUS
  <2>1. EntryOK(attempts'[l], guesses'[l]) /\ Bounded(guesses'[l])
    BY <1>2
  <2>2. Remembered(attempts[l].failures, guesses[l])' /\ Bounded(guesses[l])'
    BY <2>1 DEF EntryOK, Remembered, Bounded
  <2>3. Ordered(attempts[l].failures)' /\ LockOK(attempts[l])'
    BY <2>1 DEF EntryOK, Ordered, LockOK, Locked
  <2> QED
    BY <2>1, <2>2, <2>3 DEF EntryOK
<1>4. Early(attempts, nextExpiryAt)'
  BY DEF Early, Tracked, Expiry, Locked
<1> QED
  BY <1>1, <1>3, <1>4 DEF ThrottleInv

\* An operation that is refused leaves what the cleaning left.
LEMMA Refusal ==
  ASSUME ThrottleInv, NEW entries, NEW expiry, Clean(entries, expiry), UNCHANGED <<clock, guesses>>,
         attempts' = entries, nextExpiryAt' = expiry
  PROVE  ThrottleInv'
<1>1. ThrottleTypeOK'
  BY DEF Clean, ThrottleInv, ThrottleTypeOK
<1>2. \A l \in LoginKeys : (EntryOK(attempts[l], guesses[l]) /\ Bounded(guesses[l]))'
  BY DEF Clean, ThrottleInv, EntryOK, Remembered, Bounded, LockOK, Locked, Ordered
<1>3. Early(attempts, nextExpiryAt)'
  BY DEF Clean, Early, Tracked, Expiry, Locked
<1> QED
  BY <1>1, <1>2, <1>3 DEF ThrottleInv

\* A login with wrong credentials.
LEMMA WrongLoginInv ==
  ASSUME ThrottleInv, NEW k \in LoginKeys, WrongLogin(k)
  PROVE  ThrottleInv'
<1>0. PICK entries \in {attempts, Scanned} : \E expiry \in Times(entries) :
        /\ Cleaned(entries, expiry)
        /\ IF Allowed(entries, k)
           THEN /\ attempts' = [entries EXCEPT ![k] = Failed(entries[k])]
                /\ nextExpiryAt' = NextExpiry(expiry, Failed(entries[k]))
                /\ guesses' = [guesses EXCEPT ![k] = Append(guesses[k], clock)]
           ELSE /\ attempts' = entries /\ nextExpiryAt' = expiry
                /\ UNCHANGED guesses
        /\ UNCHANGED clock
  BY Zenon DEF WrongLogin
<1>1. PICK expiry \in Times(entries) :
        /\ Cleaned(entries, expiry)
        /\ IF Allowed(entries, k)
           THEN /\ attempts' = [entries EXCEPT ![k] = Failed(entries[k])]
                /\ nextExpiryAt' = NextExpiry(expiry, Failed(entries[k]))
                /\ guesses' = [guesses EXCEPT ![k] = Append(guesses[k], clock)]
           ELSE /\ attempts' = entries /\ nextExpiryAt' = expiry
                /\ UNCHANGED guesses
        /\ UNCHANGED clock
  BY <1>0
<1>2. Clean(entries, expiry)
  BY <1>1, CleanedIsClean
<1>3. CASE ~Allowed(entries, k)
  BY <1>1, <1>2, <1>3, Refusal
<1>4. CASE Allowed(entries, k)
  <2> DEFINE e == Failed(entries[k])
             g == Append(guesses[k], clock)
  <2>0. /\ clock \in Nat /\ guesses[k] \in Seq(Nat) /\ Bounded(guesses[k])
        /\ entries[k] \in Entries /\ EntryOK(entries[k], guesses[k])
        /\ entries[k] # NoEntry => clock < Expiry(entries[k])
    BY <1>2 DEF ThrottleInv, ThrottleTypeOK, Clean
  <2>1. ~Locked(entries[k])
    BY <1>4, NoEntryIs DEF Allowed
  <2>2. e \in Entries /\ e # NoEntry /\ EntryOK(e, g) /\ Bounded(g) /\ g \in Seq(Nat)
    BY <2>0, <2>1, FailedIs
  <2>3. /\ attempts' = [entries EXCEPT ![k] = e]
        /\ nextExpiryAt' = NextExpiry(expiry, e)
        /\ guesses' = [guesses EXCEPT ![k] = g]
    BY <1>1, <1>4
  <2> HIDE DEF e, g
  <2>4. Expiry(e) \in Nat /\ Never \notin Nat
    BY <2>2, ExpiryIs, ThrottleAssumption
  <2>5. /\ nextExpiryAt' \in Nat /\ nextExpiryAt' <= Expiry(e)
        /\ expiry # Never => nextExpiryAt' <= expiry
    BY <1>2, <2>3, <2>4 DEF NextExpiry, Clean
  <2>6. \A l \in LoginKeys : entries[l] # NoEntry => Expiry(entries[l]) \in Nat
    BY <1>2, ExpiryIs DEF Clean
  <2>7. Early(attempts', nextExpiryAt')
    <3> SUFFICES ASSUME NEW l \in Tracked(attempts')
                 PROVE  nextExpiryAt' # Never /\ nextExpiryAt' <= Expiry(attempts'[l])
      BY DEF Early
    <3>0. l \in LoginKeys /\ attempts'[l] # NoEntry
      BY DEF Tracked
    <3>1. CASE l = k
      <4>1. attempts'[l] = e
        BY <1>2, <2>3, <3>1 DEF Clean
      <4> QED
        BY <2>4, <2>5, <4>1
    <3>2. CASE l # k
      <4>1. attempts'[l] = entries[l]
        BY <1>2, <2>3, <3>0, <3>2 DEF Clean
      <4>2. expiry # Never /\ expiry <= Expiry(entries[l]) /\ expiry \in Nat
        BY <1>2, <3>0, <4>1 DEF Clean, Early, Tracked
      <4>3. nextExpiryAt' <= Expiry(entries[l])
        BY <2>5, <2>6, <3>0, <4>1, <4>2
      <4> QED
        BY <2>4, <2>5, <4>1, <4>3
    <3> QED
      BY <3>1, <3>2
  <2> QED
    BY <1>1, <1>2, <2>2, <2>3, <2>5, <2>7, KeyChange
<1> QED
  BY <1>3, <1>4

\* A login with the right ones.
LEMMA RightLoginInv ==
  ASSUME ThrottleInv, NEW k \in LoginKeys, RightLogin(k)
  PROVE  ThrottleInv'
<1>0. PICK entries \in {attempts, Scanned} : \E expiry \in Times(entries) :
        /\ Cleaned(entries, expiry)
        /\ nextExpiryAt' = expiry
        /\ IF Allowed(entries, k)
           THEN /\ attempts' = [entries EXCEPT ![k] = NoEntry]
                /\ guesses' = [guesses EXCEPT ![k] = <<>>]
           ELSE attempts' = entries /\ UNCHANGED guesses
        /\ UNCHANGED clock
  BY DEF RightLogin
<1>1. PICK expiry \in Times(entries) :
        /\ Cleaned(entries, expiry)
        /\ nextExpiryAt' = expiry
        /\ IF Allowed(entries, k)
           THEN /\ attempts' = [entries EXCEPT ![k] = NoEntry]
                /\ guesses' = [guesses EXCEPT ![k] = <<>>]
           ELSE attempts' = entries /\ UNCHANGED guesses
        /\ UNCHANGED clock
  BY <1>0
<1>2. Clean(entries, expiry)
  BY <1>1, CleanedIsClean
<1>3. CASE ~Allowed(entries, k)
  BY <1>1, <1>2, <1>3, Refusal
<1>4. CASE Allowed(entries, k)
  <2>1. /\ attempts' = [entries EXCEPT ![k] = NoEntry] /\ nextExpiryAt' = expiry
        /\ guesses' = [guesses EXCEPT ![k] = <<>>]
    BY <1>1, <1>4
  <2>2. EntryOK(NoEntry, <<>>) /\ Bounded(<<>>) /\ <<>> \in Seq(Nat)
    BY NoEntryIs, ThrottleAssumption
       DEF EntryOK, Remembered, Ordered, LockOK, Bounded
  <2>3. Early(attempts', nextExpiryAt')
    <3> SUFFICES ASSUME NEW l \in Tracked(attempts')
                 PROVE  nextExpiryAt' # Never /\ nextExpiryAt' <= Expiry(attempts'[l])
      BY DEF Early
    <3>1. l \in LoginKeys /\ attempts'[l] # NoEntry
      BY DEF Tracked
    <3>2. attempts'[l] = entries[l]
      BY <1>2, <2>1, <3>1 DEF Clean
    <3> QED
      BY <1>2, <2>1, <3>1, <3>2 DEF Clean, Early, Tracked
  <2> QED
    BY <1>1, <1>2, <2>1, <2>2, <2>3, NoEntryIs, KeyChange DEF Clean
<1> QED
  BY <1>3, <1>4

(* The throttle forgets nothing that matters: a guess it no longer counts  *)
(* is at least a window old, whether a scan pruned it or a lock expired    *)
(* with it (login-throttle.ts:53).                                         *)
THEOREM ThrottleInvariant == ThrottleSpec => []ThrottleInv
<1>1. ThrottleInit => ThrottleInv
  <2> SUFFICES ASSUME ThrottleInit PROVE ThrottleInv
    OBVIOUS
  <2>1. ThrottleTypeOK
    BY NoEntryIs DEF ThrottleInit, ThrottleTypeOK
  <2>2. EntryOK(NoEntry, <<>>) /\ Bounded(<<>>)
    BY NoEntryIs, ThrottleAssumption DEF EntryOK, Remembered, Ordered, LockOK, Bounded
  <2> QED
    BY <2>1, <2>2 DEF ThrottleInit, ThrottleInv, Early, Tracked
<1>2. ASSUME ThrottleInv, [ThrottleNext]_throttleVars PROVE ThrottleInv'
  <2>1. CASE UNCHANGED throttleVars
    BY <1>2, <2>1 DEF throttleVars, ThrottleInv, ThrottleTypeOK, Early, Tracked, Expiry, EntryOK,
                      Remembered, Bounded, LockOK, Locked, Ordered
  <2>2. CASE TimePasses
    <3>1. /\ UNCHANGED <<attempts, nextExpiryAt, guesses>>
          /\ clock \in Nat /\ clock' = clock + 1
      BY <1>2, <2>2 DEF TimePasses, ThrottleInv, ThrottleTypeOK
    <3>2. ASSUME NEW k \in LoginKeys PROVE EntryOK(attempts[k], guesses[k])'
      <4>1. /\ attempts[k] \in Entries /\ guesses[k] \in Seq(Nat)
            /\ EntryOK(attempts[k], guesses[k])
        BY <1>2 DEF ThrottleInv, ThrottleTypeOK
      <4>2. /\ attempts[k].failures \in Seq(Nat)
            /\ \A i \in 1 .. Len(guesses[k]) - Len(attempts[k].failures) : guesses[k][i] \in Nat
        BY <4>1 DEF Entries
      <4>3. Remembered(attempts[k].failures, guesses[k])'
        <5>1. \A i \in 1 .. Len(guesses[k]) - Len(attempts[k].failures) :
                guesses[k][i] + Window <= clock
          BY <4>1 DEF EntryOK, Remembered
        <5>2. \A i \in 1 .. Len(guesses[k]) - Len(attempts[k].failures) :
                guesses[k][i] + Window <= clock + 1
          BY <3>1, <4>2, <5>1, ThrottleAssumption
        <5> QED
          BY <3>1, <4>1, <5>2 DEF EntryOK, Remembered
      <4>4. \A i \in DOMAIN attempts'[k].failures : attempts'[k].failures[i] <= clock'
        BY <3>1, <4>1, <4>2 DEF EntryOK
      <4> QED
        BY <3>1, <4>1, <4>3, <4>4 DEF EntryOK, LockOK, Locked, Ordered
    <3> QED
      BY <1>2, <3>1, <3>2 DEF ThrottleInv, ThrottleTypeOK, Early, Tracked, Expiry, Bounded, Locked
  <2> QED
    BY <1>2, <2>1, <2>2, WrongLoginInv, RightLoginInv DEF ThrottleNext
<1> QED
  BY <1>1, <1>2, PTL DEF ThrottleSpec

(* However the failures of any number of keys, the scans, the locks and    *)
(* the right passwords fall, no key has more than MAX_FAILURES wrong       *)
(* passwords compared in a window.                                         *)
THEOREM ThrottleBoundsGuesses == ThrottleSpec => []GuessesAreBounded
<1>1. ThrottleInv => GuessesAreBounded
  BY DEF ThrottleInv, Bounded, GuessesAreBounded
<1> QED
  BY <1>1, ThrottleInvariant, PTL

(* A lock is only ever due to failures within a window of the last one.    *)
THEOREM ThrottleLocksAreDeserved == ThrottleSpec => []LocksAreDeserved
<1>1. ThrottleInv => LocksAreDeserved
  BY DEF ThrottleInv, EntryOK, LockOK, LocksAreDeserved
<1> QED
  BY <1>1, ThrottleInvariant, PTL

(* The time of the next scan is never after the expiry of an entry.        *)
THEOREM ThrottleScansInTime == ThrottleSpec => []NextExpiryIsEarly
<1>1. ThrottleInv => NextExpiryIsEarly
  BY DEF ThrottleInv, Early, NextExpiryIsEarly
<1> QED
  BY <1>1, ThrottleInvariant, PTL
=============================================================================

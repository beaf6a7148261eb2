---------------------------- MODULE WebhookIntake ----------------------------
(***************************************************************************)
(* How a pull request enters the queue and how its records leave the       *)
(* database again: the pull request webhooks (apps/web/src/routes/         *)
(* webhooks.ts, packages/db/src/deliveries.ts), the operator's recovery of *)
(* a routing run (packages/application/src/routing-recovery.ts,            *)
(* packages/db/src/routing-recovery.ts), the daily retention               *)
(* (packages/db/src/retention.ts), which has no transaction: a worker may  *)
(* stop after any of its four statements, and the cleanup of revoked       *)
(* connections (packages/db/src/provider-connections.ts), whose deletion   *)
(* of a row takes the jobs of the row with it.  The worker that runs the   *)
(* jobs is JobQueue's; how rows of connections come and go, and how the    *)
(* cleanup finds them, is ProviderConnections'.                            *)
(***************************************************************************)
EXTENDS Naturals, FiniteSets

CONSTANTS
  Deliveries,   \* deliveries of pull_request and pull_request_review
  Reviews,      \* the ones of pull_request_review
  Requests,     \* recovery requests of the operator
  Connections,  \* rows of provider_connections
  NoConnection, \* of a repository that is not on record
  ShortCutoff,  \* RECEIPT_AND_COMPLETED_JOB_DAYS (30)
  LongCutoff    \* DECISION_AND_FAILURE_DAYS (90)

ASSUME IntakeAssumption ==
  /\ Reviews \subseteq Deliveries
  /\ NoConnection \notin Connections
  /\ ShortCutoff \in Nat /\ LongCutoff \in Nat /\ ShortCutoff <= LongCutoff

VARIABLES
  day,         \* the time
  head,        \* the state of the pull request on GitHub: base, head, draft
  open,        \* is it open?
  place,       \* connection and name its repository is recorded under
  active,      \* is that connection active?
  revoked,     \* the connections that are revoked, the deleted ones too
  receipts,    \* webhook_receipts
  jobs,        \* jobs
  cleaned,     \* history: the jobs deleted with their connections
  decisions,   \* routing_decisions
  activating,  \* is a reviewer absence being activated in the repository?
  retention,   \* the statement a worker's retention is at, and its time
  request      \* the state of each recovery request

intakeVars ==
  <<day, head, open, place, active, revoked, receipts, jobs, cleaned, decisions, activating,
    retention, request>>

NoRetention == [step |-> "idle", now |-> 0]

NoRequest == [step |-> "new", place |-> [row |-> NoConnection, name |-> 0], head |-> 0]

IntakeInit ==
  /\ day = 0 /\ head = 0 /\ open = TRUE
  /\ \E row \in Connections : place = [row |-> row, name |-> 0]
  /\ active = TRUE /\ revoked = {}
  /\ receipts = {} /\ jobs = {} /\ cleaned = {} /\ decisions = {} /\ activating = FALSE
  /\ retention = NoRetention
  /\ request = [q \in Requests |-> NoRequest]

OnRecord(key) == \E j \in jobs : j.key = key

Queued(key, routed) ==
  [key |-> key, head |-> routed, place |-> place, status |-> "queued", updated |-> day]

\* onConflict doNothing on the idempotency key.
Enqueued(job) == IF OnRecord(job.key) THEN jobs ELSE jobs \cup {job}

UnchangedGitHub == UNCHANGED <<day, head, open, place, active, revoked, cleaned, activating>>

Received(d) == \E r \in receipts : r.delivery = d

Receipt(d) == [delivery |-> d, created |-> day]

\* A delivery, the first time, late or again: its connection is usable, its
\* receipt is new, and its job is on record with it.  What has happened to
\* the pull request since makes no difference.
DeliverChange(d, routed) ==
  /\ d \in Deliveries \ Reviews /\ active /\ ~Received(d)
  /\ receipts' = receipts \cup {Receipt(d)}
  /\ jobs' = Enqueued(Queued(<<"routing", routed>>, routed))
  /\ UnchangedGitHub /\ UNCHANGED <<decisions, retention, request>>

\* The transaction of a review whose job is there without its receipt is
\* refused by the throw.
DeliverReview(d) ==
  /\ d \in Reviews /\ active /\ ~Received(d)
  /\ ~OnRecord(<<"review", d>>)
  /\ receipts' = receipts \cup {Receipt(d)}
  /\ jobs' = Enqueued(Queued(<<"review", d>>, 0))
  /\ UnchangedGitHub /\ UNCHANGED <<decisions, retention, request>>

\* The worker settles a job; a routing job that succeeds leaves a decision.
Settle(j, status) ==
  /\ j \in jobs /\ j.status = "queued"
  /\ jobs' = (jobs \ {j}) \cup {[j EXCEPT !.status = status, !.updated = day]}
  /\ decisions' = IF status = "succeeded" /\ j.key[1] # "review"
                  THEN decisions \cup {[job |-> j.key, created |-> day, pins |-> {},
                                     known |-> place.row # NoConnection]}
                  ELSE decisions
  /\ UnchangedGitHub /\ UNCHANGED <<receipts, retention, request>>

\* A mutation intent or a replacement of the decision is recorded, under the
\* connection of its repository.
Pin(decision) ==
  /\ decision \in decisions /\ decision.known
  /\ decisions' = (decisions \ {decision}) \cup {[decision EXCEPT !.pins = @ \cup {place.row}]}
  /\ UnchangedGitHub /\ UNCHANGED <<receipts, jobs, retention, request>>

-----------------------------------------------------------------------------
(* Retention.                                                              *)

Before(time, days) == time + days < retention.now

\* A slip: the receipts go last.
StatementAfterJobsFirst(step) ==
  CASE step = "idle" -> "succeeded" [] step = "succeeded" -> "failed"
    [] step = "failed" -> "decisions" [] step = "decisions" -> "receipts"
    [] OTHER -> "idle"

StatementAfter(step) ==
  CASE step = "idle" -> "receipts" [] step = "receipts" -> "succeeded"
    [] step = "succeeded" -> "failed" [] step = "failed" -> "decisions"
    [] OTHER -> "idle"

Advanced ==
  IF StatementAfter(retention.step) = "idle"
  THEN NoRetention ELSE [retention EXCEPT !.step = StatementAfter(@)]

BeginRetention ==
  /\ retention.step = "idle"
  /\ retention' = [step |-> StatementAfter("idle"), now |-> day]
  /\ UnchangedGitHub /\ UNCHANGED <<receipts, jobs, decisions, request>>

DeleteReceipts ==
  /\ retention.step = "receipts"
  /\ receipts' = {r \in receipts : ~Before(r.created, ShortCutoff)}
  /\ retention' = Advanced
  /\ UnchangedGitHub /\ UNCHANGED <<jobs, decisions, request>>

DeleteJobs(status, days) ==
  /\ retention.step = status
  /\ jobs' = {j \in jobs : j.status = status => ~Before(j.updated, days)}
  /\ retention' = Advanced
  /\ UnchangedGitHub /\ UNCHANGED <<receipts, decisions, request>>

\* Decisions that a replacement refers to, or may come to, are kept.
DeleteDecisions ==
  /\ retention.step = "decisions"
  /\ decisions' = {d \in decisions : \/ ~Before(d.created, LongCutoff)
                                   \/ d.pins # {} \/ (activating /\ d.known)}
  /\ retention' = Advanced
  /\ UnchangedGitHub /\ UNCHANGED <<receipts, jobs, request>>

RetentionStops ==
  /\ retention.step # "idle"
  /\ retention' = NoRetention
  /\ UnchangedGitHub /\ UNCHANGED <<receipts, jobs, decisions, request>>

Retain ==
  \/ BeginRetention \/ DeleteReceipts \/ DeleteDecisions \/ RetentionStops
  \/ DeleteJobs("succeeded", ShortCutoff) \/ DeleteJobs("failed", LongCutoff)

-----------------------------------------------------------------------------
(* The operator routes a pull request again.                               *)

Asked(q, next) ==
  /\ request' = [request EXCEPT ![q] = next]
  /\ UnchangedGitHub /\ UNCHANGED <<receipts, decisions, retention>>

Unavailable(q) == Asked(q, [NoRequest EXCEPT !.step = "refused"]) /\ UNCHANGED jobs

\* findTarget, by a decision or by the URL of the pull request.
FindTarget(q, byDecision) ==
  /\ request[q].step = "new"
  /\ IF active /\ (byDecision => \E d \in decisions : d.known)
     THEN Asked(q, [step |-> "found", place |-> place, head |-> 0]) /\ UNCHANGED jobs
     ELSE Unavailable(q)

\* fetchCurrentState: only the state of an open pull request of a target
\* whose connection is still active.  It is read under the name that was
\* found: GitHub may redirect an old one or not know it.
FetchCurrentState(q) ==
  /\ request[q].step = "found"
  /\ \/ /\ active /\ open
        /\ Asked(q, [request[q] EXCEPT !.step = "fetched", !.head = head])
        /\ UNCHANGED jobs
     \/ ~(active /\ open /\ request[q].place = place) /\ Unavailable(q)

\* A slip: the job is queued under the target that was found.
StillAuthorizedOnce(q) == TRUE

StillAuthorized(q) == active /\ request[q].place = place

\* enqueue, with the connection's lock: the target is looked up once more.
Enqueue(q) ==
  /\ request[q].step = "fetched"
  /\ IF StillAuthorized(q)
     THEN /\ jobs' = jobs \cup {[Queued(<<"operator", q>>, request[q].head)
                                   EXCEPT !.place = request[q].place]}
          /\ Asked(q, [NoRequest EXCEPT !.step = "queued"])
     ELSE Unavailable(q)

-----------------------------------------------------------------------------
(* Connections: revoked by a webhook, deleted by a worker's cleanup.       *)

Revoke(row) ==
  /\ row \in Connections \ revoked
  /\ revoked' = revoked \cup {row}
  /\ active' = (active /\ place.row # row)
  /\ UNCHANGED <<day, head, open, place, receipts, jobs, cleaned, decisions, activating, retention,
                 request>>

\* Its repository's row is deleted: decisions stay, and refer to none.
Forgotten == {[d EXCEPT !.known = FALSE] : d \in decisions}

Unpinned(row, kept) == {[d EXCEPT !.pins = @ \ {row}] : d \in kept}

\* Not while a job of the row is unfinished, an activation's included.  The
\* row goes with its jobs, repositories, intents and replacements; receipts
\* refer to no row, and stay.
CleanUp(row) ==
  /\ row \in revoked
  /\ \A j \in jobs : j.place.row = row => j.status # "queued"
  /\ place.row = row => ~activating
  /\ jobs' = {j \in jobs : j.place.row # row}
  /\ cleaned' = cleaned \cup {j \in jobs : j.place.row = row}
  /\ place' = IF place.row = row THEN [place EXCEPT !.row = NoConnection] ELSE place
  /\ decisions' = Unpinned(row, IF place.row = row THEN Forgotten ELSE decisions)
  /\ UNCHANGED <<day, head, open, active, revoked, receipts, activating, retention, request>>

-----------------------------------------------------------------------------
(* The world: pushes, closes, transfers, suspensions, and days.            *)

PullRequestChanges ==
  /\ \/ head' = head + 1 /\ UNCHANGED open
     \/ open' = ~open /\ UNCHANGED head
  /\ UNCHANGED <<day, place, active, revoked, receipts, jobs, cleaned, decisions, activating,
                 retention, request>>

\* A repository renamed, a connection suspended or active again.
PlaceChanges ==
  /\ place.row \notin revoked \cup {NoConnection}
  /\ \/ place' = [place EXCEPT !.name = @ + 1] /\ UNCHANGED active
     \/ active' = ~active /\ UNCHANGED place
  /\ UNCHANGED <<day, head, open, revoked, receipts, jobs, cleaned, decisions, activating,
                 retention, request>>

\* The repository is recorded under a usable connection it was not under.
Transfer(row) ==
  /\ row \in Connections \ (revoked \cup {place.row})
  /\ place' = [place EXCEPT !.row = row] /\ active' = TRUE /\ activating' \in BOOLEAN
  /\ UNCHANGED <<day, head, open, revoked, receipts, jobs, cleaned, decisions, retention, request>>

\* It is taken from its installation.
RepositoryRemoved ==
  /\ active
  /\ place' = [place EXCEPT !.row = NoConnection] /\ active' = FALSE /\ activating' = FALSE
  /\ decisions' = Forgotten
  /\ UNCHANGED <<day, head, open, revoked, receipts, jobs, cleaned, retention, request>>

AbsenceChanges ==
  /\ place.row # NoConnection /\ activating' = ~activating
  /\ UNCHANGED <<day, head, open, place, active, revoked, receipts, jobs, cleaned, decisions,
                 retention, request>>

DayPasses ==
  /\ day' = day + 1
  /\ UNCHANGED <<head, open, place, active, revoked, receipts, jobs, cleaned, decisions, activating,
                 retention, request>>

IntakeNext ==
  \/ \E d \in Deliveries : DeliverReview(d) \/ \E routed \in 0 .. head : DeliverChange(d, routed)
  \/ \E j \in jobs, status \in {"succeeded", "failed"} : Settle(j, status)
  \/ \E decision \in decisions : Pin(decision)
  \/ Retain
  \/ \E q \in Requests :
       (\E byDecision \in BOOLEAN : FindTarget(q, byDecision)) \/ FetchCurrentState(q) \/ Enqueue(q)
  \/ \E row \in Connections : Revoke(row) \/ CleanUp(row) \/ Transfer(row)
  \/ PullRequestChanges \/ PlaceChanges \/ RepositoryRemoved \/ AbsenceChanges \/ DayPasses

IntakeSpec == IntakeInit /\ [][IntakeNext]_intakeVars

-----------------------------------------------------------------------------
(* A review is never taken for a duplicate of one that nobody evaluated:   *)
(* while there is a receipt, its job is on record, or it was settled and   *)
(* went with its connection.  Of the retention's statements the receipts'  *)
(* is the first, so that whichever is the last one a worker gets to, and   *)
(* however late the job settled, no receipt outlives a job it deletes      *)
(* (packages/db/src/retention.ts:13); a connection is not deleted under an *)
(* unfinished job (packages/db/src/provider-connections.ts:237).           *)
ReviewReceiptsHaveJobs ==
  \A r \in receipts :
    r.delivery \in Reviews =>
      \/ OnRecord(<<"review", r.delivery>>)
      \/ \E j \in cleaned : /\ j.key = <<"review", r.delivery>>
                            /\ j.status # "queued" /\ j.updated >= r.created

(* An operator's job is queued under the authority of that moment, not     *)
(* under the one its target was found with: the connection is active and   *)
(* the repository is still its own, whatever changed while GitHub was      *)
(* asked (packages/db/src/routing-recovery.ts:179).                        *)
RecoveriesAreAuthorized ==
  [][\A q \in Requests :
       (~OnRecord(<<"operator", q>>) /\ OnRecord(<<"operator", q>>)') =>
         /\ active
         /\ \A j \in jobs' : j.key = <<"operator", q>> => j.place = place]_intakeVars
=============================================================================

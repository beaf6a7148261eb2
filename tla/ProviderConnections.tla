------------------------ MODULE ProviderConnections ------------------------
(***************************************************************************)
(* The workspace's connection to GitHub: the rows of provider_connections  *)
(* and repositories as installation webhooks and deliveries project them,  *)
(* the permanent revocations, the deferred cleanup, and the jobs that      *)
(* refer to a row (packages/db/src/provider-connections.ts and             *)
(* deliveries.ts, with the webhooks of apps/web/src/routes/webhooks.ts and *)
(* the authority check of apps/worker/src/runtime-services.ts).            *)
(*                                                                         *)
(* Every change of the projection is one transaction under the workspace's *)
(* advisory lock and so one action.  Cleanup does not take that lock: it   *)
(* works from a list read before, one transaction per entry.  A            *)
(* transaction that throws changes nothing and is no action.               *)
(***************************************************************************)
EXTENDS Naturals, FiniteSets, Sequences

CONSTANTS
  Installations,  \* external connection ids
  Connections,    \* ids of rows of provider_connections
  Repositories,   \* external repository ids
  Deliveries,     \* ids of webhook deliveries
  RoutingKeys,    \* idempotency keys of routing jobs
  Webhook,        \* what each delivery says
  Workers,
  Limit,          \* entries of one cleanup (25)
  NoConnection, NoInstallation, NoDelivery, NoRepository

\* A review's job is keyed by its delivery.
Jobs == RoutingKeys \cup Deliveries

ASSUME ConnectionsAssumption ==
  /\ Webhook \in [Deliveries -> [installation : Installations, repository : Repositories,
                                 key : Jobs]]
  /\ \A d \in Deliveries : Webhook[d].key \in RoutingKeys \cup {d}
  /\ Limit \in Nat \ {0}
  /\ NoConnection \notin Connections /\ NoInstallation \notin Installations
  /\ NoDelivery \notin Deliveries /\ NoRepository \notin Repositories

\* A row that was never inserted, or is deleted, is here with that status.
Connection == [status : {"unused", "active", "suspended", "revoked", "deleted"},
               installation : Installations \cup {NoInstallation}]

\* A row of provider_connection_revocations; connection is its physical_connection_id.
Tombstone == [state : {"none", "pending", "complete"},
              connection : Connections \cup {NoConnection}]

Job == [status : {"none", "queued", "running", "done"},
        connection : Connections \cup {NoConnection},
        repository : Repositories \cup {NoRepository},
        delivery : Deliveries \cup {NoDelivery}]

NoJob == [status |-> "none", connection |-> NoConnection,
          repository |-> NoRepository, delivery |-> NoDelivery]

VARIABLES
  connection,  \* provider_connections
  tombstone,   \* provider_connection_revocations
  revoked,     \* the installations with a physical connection, by revoked_at
  repository,  \* repositories.provider_connection_id
  receipts,    \* webhook_receipts
  job,         \* jobs
  cleaning     \* what a worker's cleanup has still to visit

vars == <<connection, tombstone, revoked, repository, receipts, job, cleaning>>

Init ==
  /\ connection = [c \in Connections |-> [status |-> "unused", installation |-> NoInstallation]]
  /\ tombstone = [i \in Installations |-> [state |-> "none", connection |-> NoConnection]]
  /\ revoked = <<>>
  /\ repository = [r \in Repositories |-> NoConnection]
  /\ receipts = {}
  /\ job = [j \in Jobs |-> NoJob]
  /\ cleaning = [w \in Workers |-> {}]

Live(c) == connection[c].status \in {"active", "suspended"}

Holders(i) == {c \in Connections : Live(c) /\ connection[c].installation = i}

Active == {c \in Connections : connection[c].status = "active"}

-----------------------------------------------------------------------------
(* Webhooks *)

\* A slip: a revocation counts until its cleanup.
TombstonedUntilCleanup(i) == tombstone[i].state = "pending"

Tombstoned(i) == tombstone[i].state # "none"

\* The row that an event of installation i makes active: its own, else the
\* active one, which is converted, else a new one.
Projection(i) ==
  IF Holders(i) # {} THEN Holders(i)
  ELSE IF Active # {} THEN Active
  ELSE {c \in Connections : connection[c].status = "unused"}

\* upsertActiveProviderConnection.  A revoked installation gets no row; where
\* another row is active the unique index makes the transaction fail.
Upsert(i, c) ==
  /\ ~Tombstoned(i) /\ c \in Projection(i) /\ Active \subseteq {c}
  /\ connection' = [connection EXCEPT ![c] = [status |-> "active", installation |-> i]]

ActivateInstallation(i) ==
  /\ \E c \in Connections : Upsert(i, c)
  /\ UNCHANGED <<tombstone, revoked, repository, receipts, job, cleaning>>

ReplaceRepositories(i, R) ==
  /\ \E c \in Connections :
       /\ Upsert(i, c)
       /\ repository' = [r \in Repositories |->
            IF r \in R THEN c
            ELSE IF repository[r] = c THEN NoConnection ELSE repository[r]]
  /\ UNCHANGED <<tombstone, revoked, receipts, job, cleaning>>

AddRepositories(i, R) ==
  /\ \E c \in Holders(i) \cap Active :
       repository' = [r \in Repositories |-> IF r \in R THEN c ELSE repository[r]]
  /\ UNCHANGED <<connection, tombstone, revoked, receipts, job, cleaning>>

RemoveRepositories(i, R) ==
  /\ \E c \in Holders(i) \cap Active :
       repository' = [r \in Repositories |->
         IF r \in R /\ repository[r] = c THEN NoConnection ELSE repository[r]]
  /\ UNCHANGED <<connection, tombstone, revoked, receipts, job, cleaning>>

Suspend(i) ==
  /\ \E c \in Holders(i) \cap Active :
       connection' = [connection EXCEPT ![c] = [@ EXCEPT !.status = "suspended"]]
  /\ UNCHANGED <<tombstone, revoked, repository, receipts, job, cleaning>>

Entomb(i, c) ==
  tombstone' = IF Tombstoned(i) THEN tombstone
               ELSE [tombstone EXCEPT ![i] = [state |-> "pending", connection |-> c]]

\* A slip: the row keeps its status, the tombstone is enough.
RevokeByTombstone(i) ==
  /\ \/ /\ Holders(i) = {}
        /\ Entomb(i, NoConnection)
        /\ UNCHANGED revoked
     \/ \E c \in Holders(i) :
          /\ Entomb(i, c)
          /\ revoked' = IF Tombstoned(i) THEN revoked ELSE Append(revoked, i)
  /\ UNCHANGED <<connection, repository, receipts, job, cleaning>>

\* The installation is deleted, perhaps before anything was heard of it.
Revoke(i) ==
  /\ \/ /\ Holders(i) = {}
        /\ Entomb(i, NoConnection)
        /\ UNCHANGED <<connection, revoked>>
     \/ \E c \in Holders(i) :
          /\ Entomb(i, c)
          /\ connection' = [connection EXCEPT ![c] = [@ EXCEPT !.status = "revoked"]]
          /\ revoked' = IF Tombstoned(i) THEN revoked ELSE Append(revoked, i)
  /\ UNCHANGED <<repository, receipts, job, cleaning>>

\* insert ... on conflict (workspace_id, idempotency_key) do nothing
Enqueued(j, c, r, d) ==
  IF job[j].status # "none" THEN job
  ELSE [job EXCEPT ![j] = [status |-> "queued", connection |-> c,
                           repository |-> r, delivery |-> d]]

\* A delivery is projected every time it arrives, and queued the first time.
Accept(d) ==
  LET w == Webhook[d] IN
    /\ \E c \in Connections :
         /\ Upsert(w.installation, c)
         /\ repository' = [repository EXCEPT ![w.repository] = c]
         /\ job' = IF d \in receipts THEN job ELSE Enqueued(w.key, c, w.repository, d)
    /\ receipts' = receipts \cup {d}
    /\ UNCHANGED <<tombstone, revoked, cleaning>>

-----------------------------------------------------------------------------
(* Jobs *)

\* findKnownRepository
Authorized(j) ==
  LET c == job[j].connection IN
    /\ c \in Active
    /\ job[j].repository \in Repositories /\ repository[job[j].repository] = c
    /\ ~Tombstoned(connection[c].installation)

Become(j, status) == job' = [job EXCEPT ![j] = [@ EXCEPT !.status = status]]

OnlyJobs == UNCHANGED <<connection, tombstone, revoked, repository, receipts, cleaning>>

Attempt(j) == job[j].status = "queued" /\ Authorized(j) /\ Become(j, "running") /\ OnlyJobs

\* The check is made at the start and before each mutation.
Refuse(j) ==
  job[j].status \in {"queued", "running"} /\ ~Authorized(j) /\ Become(j, "done") /\ OnlyJobs

Complete(j) == job[j].status = "running" /\ Become(j, "done") /\ OnlyJobs

Retry(j) == job[j].status = "running" /\ Become(j, "queued") /\ OnlyJobs

\* A routed decision has its evaluation enqueued, for the job's connection and
\* under its delivery.
FollowUp(j) ==
  /\ j \in RoutingKeys /\ job[j].status = "running"
  /\ job' = Enqueued(job[j].delivery, job[j].connection, job[j].repository, job[j].delivery)
  /\ OnlyJobs

-----------------------------------------------------------------------------
(* Cleanup *)

Pending == {i \in Installations : /\ tombstone[i].state = "pending"
                                 /\ tombstone[i].connection \in Connections}

RevokedBefore(i, k) ==
  \E m, n \in DOMAIN revoked : m < n /\ revoked[m] = i /\ revoked[n] = k

\* order by revoked_at ... limit
Oldest == {i \in Pending : Cardinality({k \in Pending : RevokedBefore(k, i)}) < Limit}

BeginCleanup(w) ==
  /\ cleaning[w] = {} /\ Pending # {}
  /\ cleaning' = [cleaning EXCEPT ![w] = Oldest]
  /\ UNCHANGED <<connection, tombstone, revoked, repository, receipts, job>>

\* A slip: only running jobs hold a connection back.
ReferredByRunning(c) == \E j \in Jobs : job[j].connection = c /\ job[j].status = "running"

\* A slip: any job does.
ReferredByAny(c) == \E j \in Jobs : job[j].connection = c /\ job[j].status # "none"

Referred(c) ==
  \E j \in Jobs : job[j].connection = c /\ job[j].status \in {"queued", "running"}

\* The row goes, with its repositories and its jobs.
Delete(c) ==
  /\ connection' = [connection EXCEPT ![c] = [@ EXCEPT !.status = "deleted"]]
  /\ repository' = [r \in Repositories |->
       IF repository[r] = c THEN NoConnection ELSE repository[r]]
  /\ job' = [j \in Jobs |-> IF job[j].connection = c THEN NoJob ELSE job[j]]

Visit(w, i) ==
  /\ i \in cleaning[w]
  /\ \A k \in cleaning[w] : ~RevokedBefore(k, i)
  /\ cleaning' = [cleaning EXCEPT ![w] = @ \ {i}]
  /\ UNCHANGED <<revoked, receipts>>

\* Nothing refers to the row, if it is still there.
Cleanable(c) == connection[c].status \in {"revoked", "deleted"} /\ ~Referred(c)

CleanUp(w, i) ==
  /\ Visit(w, i)
  /\ tombstone[i].state = "pending" /\ Cleanable(tombstone[i].connection)
  /\ Delete(tombstone[i].connection)
  /\ tombstone' = [tombstone EXCEPT ![i] = [@ EXCEPT !.state = "complete"]]

\* The row is still referred to, or another worker has cleaned up.
PassOver(w, i) ==
  /\ Visit(w, i)
  /\ tombstone[i].state = "pending" => ~Cleanable(tombstone[i].connection)
  /\ UNCHANGED <<connection, tombstone, repository, job>>

\* An error ends the cleanup; the next cycle begins anew.
CleanupFails(w) ==
  /\ cleaning[w] # {}
  /\ cleaning' = [cleaning EXCEPT ![w] = {}]
  /\ UNCHANGED <<connection, tombstone, revoked, repository, receipts, job>>

-----------------------------------------------------------------------------
InstallationEvent(i) ==
  \/ ActivateInstallation(i) \/ Suspend(i) \/ Revoke(i)
  \/ \E R \in SUBSET Repositories :
       ReplaceRepositories(i, R) \/ AddRepositories(i, R) \/ RemoveRepositories(i, R)

Cleanup(w) == BeginCleanup(w) \/ \E i \in Installations : CleanUp(w, i) \/ PassOver(w, i)

Next ==
  \/ \E i \in Installations : InstallationEvent(i)
  \/ \E d \in Deliveries : Accept(d)
  \/ \E j \in Jobs : Attempt(j) \/ Refuse(j) \/ Complete(j) \/ Retry(j) \/ FollowUp(j)
  \/ \E w \in Workers : Cleanup(w) \/ CleanupFails(w)

Spec == Init /\ [][Next]_vars

\* A worker's loop gives every due job its turn, and cleans up in every cycle.
Fairness ==
  /\ \A j \in Jobs : WF_vars(Refuse(j))
  /\ \A w \in Workers : WF_vars(Cleanup(w))

FairSpec == Spec /\ Fairness

-----------------------------------------------------------------------------
(* Properties *)

TypeOK ==
  /\ connection \in [Connections -> Connection]
  /\ tombstone \in [Installations -> Tombstone]
  /\ revoked \in Seq(Installations)
  /\ repository \in [Repositories -> Connections \cup {NoConnection}]
  /\ receipts \in SUBSET Deliveries
  /\ job \in [Jobs -> Job]
  /\ cleaning \in [Workers -> SUBSET Installations]

\* A revoked installation never has a usable row again, whatever delayed event
\* of it arrives, in whatever order (docs/architecture.md:42).
TombstonesHold ==
  \A i \in Installations : tombstone[i].state # "none" => Holders(i) = {}

\* From the revocation of its connection on, a job has no authority, and no
\* later event gives it back: neither a reconnection under another id, nor the
\* conversion of a row, nor a repository that moves.
RevocationIsFinal ==
  [][\A j \in Jobs, i \in Installations :
       /\ job[j].status \in {"queued", "running"}
       /\ tombstone[i].connection = job[j].connection
       => ~Authorized(j) /\ ~Authorized(j)']_vars

\* Cleanup never takes away a job that is queued or running.
UnfinishedJobsSurvive ==
  [][\A j \in Jobs :
       job[j].status \in {"queued", "running"} => job'[j].status # "none"]_vars

\* The cleanup of every revoked row is completed.
CleanupCompletes ==
  \A i \in Installations :
    tombstone[i].connection \in Connections ~> tombstone[i].state = "complete"

\* The inductive invariant: rows have installations of their own, and exactly
\* the revoked ones have a tombstone to remember them by.
RowsDiffer ==
  \A b, c \in Connections :
    /\ Live(b) /\ Live(c) /\ connection[b].installation = connection[c].installation => b = c

RevokedAreEntombed ==
  \A c \in Connections, i \in Installations :
    tombstone[i].connection = c =>
      /\ Tombstoned(i)
      /\ connection[c].status \in {"revoked", "deleted"}

JobsHaveRows ==
  \A j \in Jobs :
    job[j].status # "none" =>
      /\ job[j].connection \in Connections
      /\ job[j].delivery \in Deliveries
      /\ connection[job[j].connection].status \notin {"unused", "deleted"}

CleaningHasRows ==
  \A w \in Workers : \A i \in cleaning[w] : tombstone[i].connection \in Connections

ConnectionsInv ==
  /\ TypeOK /\ TombstonesHold /\ RowsDiffer
  /\ RevokedAreEntombed /\ JobsHaveRows /\ CleaningHasRows
=============================================================================

--------------------- MODULE ProviderConnectionsProofs ---------------------
(***************************************************************************)
(* Proofs about ProviderConnections: a revocation holds against every      *)
(* delayed event, takes the authority of its jobs for good, and its        *)
(* cleanup leaves unfinished jobs alone.  The inductive invariant is       *)
(* ConnectionsInv: that no two usable rows have one installation is what   *)
(* makes a revocation reach the whole of it, and that a row with a         *)
(* tombstone is unusable is what keeps conversions away from it.           *)
(***************************************************************************)
EXTENDS ProviderConnections, TLAPS

Unfinished(j) == job[j].status \in {"queued", "running"}

-----------------------------------------------------------------------------
(* Records with one field changed keep their type and their other fields. *)

LEMMA ConnectionUpdate ==
  ASSUME NEW r \in Connection, NEW s \in {"unused", "active", "suspended", "revoked", "deleted"}
  PROVE  /\ [r EXCEPT !.status = s] \in Connection
         /\ [r EXCEPT !.status = s].status = s
         /\ [r EXCEPT !.status = s].installation = r.installation
BY DEF Connection

LEMMA TombstoneUpdate ==
  ASSUME NEW r \in Tombstone
  PROVE  /\ [r EXCEPT !.state = "complete"] \in Tombstone
         /\ [r EXCEPT !.state = "complete"].state = "complete"
         /\ [r EXCEPT !.state = "complete"].connection = r.connection
BY DEF Tombstone

LEMMA JobUpdate ==
  ASSUME NEW r \in Job, NEW s \in {"none", "queued", "running", "done"}
  PROVE  /\ [r EXCEPT !.status = s] \in Job
         /\ [r EXCEPT !.status = s].status = s
         /\ [r EXCEPT !.status = s].connection = r.connection
         /\ [r EXCEPT !.status = s].repository = r.repository
         /\ [r EXCEPT !.status = s].delivery = r.delivery
BY DEF Job

LEMMA NoJobType == NoJob \in Job /\ NoJob.status = "none" /\ NoJob.connection = NoConnection
BY DEF NoJob, Job

-----------------------------------------------------------------------------
(* The initial states satisfy the invariant. *)

LEMMA InitInv == Init => ConnectionsInv
<1> SUFFICES ASSUME Init PROVE ConnectionsInv
  OBVIOUS
<1>1. TypeOK
  <2>1. [status |-> "unused", installation |-> NoInstallation] \in Connection
    BY DEF Connection
  <2>2. [state |-> "none", connection |-> NoConnection] \in Tombstone
    BY DEF Tombstone
  <2>3. QED BY <2>1, <2>2, NoJobType DEF Init, TypeOK
<1>2. TombstonesHold
  BY DEF Init, TombstonesHold, Holders, Live
<1>3. RowsDiffer
  BY DEF Init, RowsDiffer, Live
<1>4. RevokedAreEntombed
  BY ConnectionsAssumption DEF Init, RevokedAreEntombed
<1>5. JobsHaveRows
  BY NoJobType DEF Init, JobsHaveRows
<1>6. CleaningHasRows
  BY DEF Init, CleaningHasRows
<1>7. QED BY <1>1, <1>2, <1>3, <1>4, <1>5, <1>6 DEF ConnectionsInv

-----------------------------------------------------------------------------
(* What every change of a row preserves. *)

\* The part of the invariant that is about rows and tombstones alone.
RowsInv ==
  /\ connection \in [Connections -> Connection]
  /\ tombstone \in [Installations -> Tombstone]
  /\ TombstonesHold /\ RowsDiffer /\ RevokedAreEntombed

\* An upsert makes usable only a row that nobody else has, for an installation
\* without a tombstone.
LEMMA UpsertKeepsRows ==
  ASSUME RowsInv, NEW i \in Installations, NEW c \in Connections,
         Upsert(i, c), UNCHANGED tombstone
  PROVE  /\ RowsInv'
         /\ connection'[c].status = "active"
         /\ connection[c].status \notin {"revoked", "deleted"}
         /\ \A b \in Connections : b # c => connection'[b] = connection[b]
<1> DEFINE new == [status |-> "active", installation |-> i]
<1>1. new \in Connection /\ new.status = "active" /\ new.installation = i
  BY DEF Connection
<1>2. /\ connection' \in [Connections -> Connection]
      /\ connection'[c] = new
      /\ \A b \in Connections : b # c => connection'[b] = connection[b]
  BY <1>1 DEF RowsInv, Upsert
<1>3. connection[c].status \in {"active", "suspended", "unused"}
  BY DEF RowsInv, Upsert, Projection, Holders, Active, Live
<1>4. TombstonesHold'
  <2> SUFFICES ASSUME NEW k \in Installations, tombstone[k].state # "none",
                      NEW b \in Connections, Live(b)', connection'[b].installation = k
               PROVE  FALSE
    BY DEF TombstonesHold, Holders
  <2>1. CASE b = c
    BY <2>1, <1>1, <1>2 DEF Upsert, Tombstoned
  <2>2. CASE b # c
    BY <2>2, <1>2 DEF RowsInv, TombstonesHold, Holders, Live
  <2>3. QED BY <2>1, <2>2
<1>5. RowsDiffer'
  <2> SUFFICES ASSUME NEW a \in Connections, NEW b \in Connections,
                      Live(a)', Live(b)', connection'[a].installation = connection'[b].installation,
                      a # b
               PROVE  FALSE
    BY DEF RowsDiffer
  <2>1. ASSUME NEW d \in Connections, d # c, Live(d)', connection'[d].installation = i
        PROVE  FALSE
    <3>1. d \in Holders(i)
      BY <2>1, <1>2 DEF Holders, Live
    <3>2. c \in Holders(i)
      BY <3>1 DEF Upsert, Projection
    <3>3. QED BY <3>1, <3>2, <2>1 DEF RowsInv, RowsDiffer, Holders
  <2>2. CASE a = c
    BY <2>1, <2>2, <1>1, <1>2
  <2>3. CASE b = c
    BY <2>1, <2>3, <1>1, <1>2
  <2>4. CASE a # c /\ b # c
    BY <2>4, <1>2 DEF RowsInv, RowsDiffer, Live
  <2>5. QED BY <2>2, <2>3, <2>4
<1>6. RevokedAreEntombed'
  BY <1>2, <1>3 DEF RowsInv, RevokedAreEntombed, Tombstoned
<1>7. QED BY <1>1, <1>2, <1>3, <1>4, <1>5, <1>6 DEF RowsInv

\* So does the change of one row's status to an unusable one, or within the
\* usable ones.
LEMMA StatusKeepsRows ==
  ASSUME RowsInv, NEW c \in Connections,
         NEW s \in {"unused", "active", "suspended", "revoked", "deleted"},
         s = "suspended" => Live(c),
         connection[c].status \in {"revoked", "deleted"} => s \in {"revoked", "deleted"},
         s \in {"suspended", "revoked", "deleted"},
         connection' = [connection EXCEPT ![c] = [@ EXCEPT !.status = s]]
  PROVE  /\ connection' \in [Connections -> Connection]
         /\ connection'[c].status = s
         /\ \A b \in Connections : b # c => connection'[b] = connection[b]
         /\ \A b \in Connections : connection'[b].installation = connection[b].installation
         /\ \A b \in Connections : Live(b)' => Live(b)
         /\ \A b \in Connections : connection[b].status \in {"revoked", "deleted"}
                                     => connection'[b].status \in {"revoked", "deleted"}
         /\ RowsDiffer'
<1> DEFINE new == [connection[c] EXCEPT !.status = s]
<1>1. connection[c] \in Connection
  BY DEF RowsInv
<1>2. new \in Connection /\ new.status = s /\ new.installation = connection[c].installation
  BY <1>1, ConnectionUpdate
<1>3. /\ connection' \in [Connections -> Connection]
      /\ connection'[c] = new
      /\ \A b \in Connections : b # c => connection'[b] = connection[b]
  BY <1>2 DEF RowsInv
<1> HIDE DEF new
<1>4. \A b \in Connections : connection'[b].installation = connection[b].installation
  BY <1>2, <1>3
<1>5. \A b \in Connections : Live(b)' => Live(b)
  BY <1>2, <1>3 DEF Live
<1>6. RowsDiffer'
  BY <1>4, <1>5 DEF RowsInv, RowsDiffer
<1>7. \A b \in Connections : connection[b].status \in {"revoked", "deleted"}
                               => connection'[b].status \in {"revoked", "deleted"}
  BY <1>2, <1>3
<1>8. QED BY <1>2, <1>3, <1>4, <1>5, <1>6, <1>7

-----------------------------------------------------------------------------
(* Jobs *)

JobsInv == job \in [Jobs -> Job] /\ JobsHaveRows

\* A new job has a row that is not deleted.
LEMMA EnqueueKeepsJobs ==
  ASSUME JobsInv, NEW j \in Jobs, NEW c \in Connections, NEW r \in Repositories \cup {NoRepository},
         NEW d \in Deliveries,
         connection'[c].status \notin {"unused", "deleted"},
         \A b \in Connections : connection[b].status \notin {"unused", "deleted"}
                                  => connection'[b].status \notin {"unused", "deleted"},
         job' = Enqueued(j, c, r, d)
  PROVE  JobsInv' /\ \A k \in Jobs : job[k].status # "none" => job'[k] = job[k]
<1> DEFINE new == [status |-> "queued", connection |-> c, repository |-> r, delivery |-> d]
<1>1. /\ new \in Job /\ new.status = "queued" /\ new.connection = c /\ new.delivery = d
  BY DEF Job
<1>2. CASE job[j].status # "none"
  BY <1>2 DEF Enqueued, JobsInv, JobsHaveRows
<1>3. CASE job[j].status = "none"
  <2>1. job' = [job EXCEPT ![j] = new]
    BY <1>3 DEF Enqueued
  <2> HIDE DEF new
  <2>2. /\ job' \in [Jobs -> Job] /\ job'[j] = new
        /\ \A k \in Jobs : k # j => job'[k] = job[k]
    BY <2>1, <1>1 DEF JobsInv
  <2>3. JobsHaveRows'
    BY <2>2, <1>1 DEF JobsInv, JobsHaveRows
  <2>4. QED BY <2>2, <2>3, <1>3 DEF JobsInv
<1>4. QED BY <1>2, <1>3

\* A change of a job's status changes nothing else of it.
LEMMA BecomeKeepsJobs ==
  ASSUME JobsInv, NEW j \in Jobs, NEW s \in {"queued", "running", "done"},
         job[j].status # "none", Become(j, s), UNCHANGED connection
  PROVE  /\ JobsInv'
         /\ \A k \in Jobs : job'[k].connection = job[k].connection
         /\ \A k \in Jobs : job[k].status # "none" => job'[k].status # "none"
<1> DEFINE new == [job[j] EXCEPT !.status = s]
<1>1. new \in Job /\ new.status = s /\ new.connection = job[j].connection
      /\ new.delivery = job[j].delivery
  <2>1. job[j] \in Job /\ s \in {"none", "queued", "running", "done"}
    BY DEF JobsInv
  <2>2. QED BY <2>1, JobUpdate
<1>2. job' = [job EXCEPT ![j] = new]
  BY DEF Become
<1> HIDE DEF new
<1>3. /\ job' \in [Jobs -> Job] /\ job'[j] = new
      /\ \A k \in Jobs : k # j => job'[k] = job[k]
  BY <1>1, <1>2 DEF JobsInv
<1>4. JobsHaveRows'
  BY <1>1, <1>3 DEF JobsInv, JobsHaveRows
<1>5. QED BY <1>1, <1>3, <1>4 DEF JobsInv
-----------------------------------------------------------------------------
(* The next-state relation preserves the invariant. *)

OthersInv ==
  /\ CleaningHasRows
  /\ revoked \in Seq(Installations)
  /\ repository \in [Repositories -> Connections \cup {NoConnection}]
  /\ receipts \in SUBSET Deliveries
  /\ cleaning \in [Workers -> SUBSET Installations]

LEMMA InvParts == ConnectionsInv <=> RowsInv /\ JobsInv /\ OthersInv
BY DEF ConnectionsInv, RowsInv, JobsInv, OthersInv, TypeOK

LEMMA InvPartsNext == ConnectionsInv' <=> RowsInv' /\ JobsInv' /\ OthersInv'
BY DEF ConnectionsInv, RowsInv, JobsInv, OthersInv, TypeOK

\* Jobs keep their rows when no row is lost.
LEMMA RowsKeepJobs ==
  ASSUME JobsInv, UNCHANGED job,
         \A b \in Connections : connection[b].status \notin {"unused", "deleted"}
                                  => connection'[b].status \notin {"unused", "deleted"}
  PROVE  JobsInv'
BY DEF JobsInv, JobsHaveRows

LEMMA UnchangedRows ==
  ASSUME RowsInv, UNCHANGED <<connection, tombstone>>
  PROVE  RowsInv'
BY DEF RowsInv, TombstonesHold, RowsDiffer, RevokedAreEntombed, Holders, Live, Tombstoned

LEMMA UpsertKeepsExistence ==
  ASSUME RowsInv, NEW i \in Installations, NEW c \in Connections,
         Upsert(i, c), UNCHANGED tombstone
  PROVE  \A b \in Connections : connection[b].status \notin {"unused", "deleted"}
                                   => connection'[b].status \notin {"unused", "deleted"}
BY UpsertKeepsRows

\* The webhooks that activate an installation.
LEMMA UpsertInv ==
  ASSUME ConnectionsInv, NEW i \in Installations, NEW c \in Connections, Upsert(i, c),
         UNCHANGED <<tombstone, job>>, OthersInv'
  PROVE  ConnectionsInv'
<1>1. RowsInv /\ JobsInv
  BY InvParts
<1>2. RowsInv'
  BY <1>1, UpsertKeepsRows
<1>3. JobsInv'
  BY <1>1, UpsertKeepsExistence, RowsKeepJobs
<1>4. QED BY <1>2, <1>3, InvPartsNext

LEMMA AcceptInv ==
  ASSUME ConnectionsInv, NEW d \in Deliveries, Accept(d)
  PROVE  ConnectionsInv' /\ \A k \in Jobs : job[k].status # "none" => job'[k] = job[k]
<1> DEFINE w == Webhook[d]
<1>1. /\ w.installation \in Installations /\ w.repository \in Repositories /\ w.key \in Jobs
  BY ConnectionsAssumption
<1>2. RowsInv /\ JobsInv /\ OthersInv
  BY InvParts
<1>3. PICK c \in Connections :
        /\ Upsert(w.installation, c)
        /\ repository' = [repository EXCEPT ![w.repository] = c]
        /\ job' = IF d \in receipts THEN job ELSE Enqueued(w.key, c, w.repository, d)
  BY DEF Accept
<1>4. UNCHANGED <<tombstone, revoked, cleaning>> /\ receipts' = receipts \cup {d}
  BY DEF Accept
<1>5. RowsInv' /\ connection'[c].status = "active"
  BY <1>1, <1>2, <1>3, <1>4, UpsertKeepsRows
<1>6. \A b \in Connections : connection[b].status \notin {"unused", "deleted"}
                               => connection'[b].status \notin {"unused", "deleted"}
  BY <1>1, <1>2, <1>3, <1>4, UpsertKeepsExistence
<1>7. OthersInv'
  BY <1>1, <1>2, <1>3, <1>4 DEF OthersInv, CleaningHasRows
<1>8. JobsInv' /\ \A k \in Jobs : job[k].status # "none" => job'[k] = job[k]
  <2>1. CASE d \in receipts
    BY <2>1, <1>2, <1>3, <1>6, RowsKeepJobs
  <2>2. CASE d \notin receipts
    <3>1. connection'[c].status \notin {"unused", "deleted"}
      BY <1>5
    <3>2. w.repository \in Repositories \cup {NoRepository}
      BY <1>1
    <3>3. job' = Enqueued(w.key, c, w.repository, d)
      BY <2>2, <1>3
    <3> HIDE DEF w
    <3>4. QED BY <3>1, <3>2, <3>3, <1>1, <1>2, <1>6, EnqueueKeepsJobs
  <2>3. QED BY <2>1, <2>2
<1>9. QED BY <1>5, <1>7, <1>8, InvPartsNext

LEMMA SuspendInv ==
  ASSUME ConnectionsInv, NEW i \in Installations, Suspend(i)
  PROVE  ConnectionsInv'
<1>1. RowsInv /\ JobsInv /\ OthersInv
  BY InvParts
<1>2. PICK c \in Holders(i) \cap Active :
        connection' = [connection EXCEPT ![c] = [@ EXCEPT !.status = "suspended"]]
  BY DEF Suspend
<1>3. UNCHANGED <<tombstone, revoked, repository, receipts, job, cleaning>>
  BY DEF Suspend
<1>4. c \in Connections /\ Live(c) /\ connection[c].status \notin {"revoked", "deleted"}
  BY <1>2 DEF Holders, Active, Live
<1>5. /\ connection' \in [Connections -> Connection]
      /\ connection'[c].status = "suspended"
      /\ \A b \in Connections : b # c => connection'[b] = connection[b]
      /\ \A b \in Connections : connection'[b].installation = connection[b].installation
      /\ \A b \in Connections : Live(b)' => Live(b)
      /\ RowsDiffer'
  BY <1>1, <1>2, <1>4, StatusKeepsRows
<1>6. TombstonesHold'
  BY <1>1, <1>3, <1>5 DEF RowsInv, TombstonesHold, Holders
<1>7. RevokedAreEntombed'
  BY <1>1, <1>3, <1>4, <1>5 DEF RowsInv, RevokedAreEntombed, Tombstoned
<1>8. RowsInv'
  BY <1>1, <1>3, <1>5, <1>6, <1>7 DEF RowsInv
<1>9. JobsInv'
  BY <1>1, <1>3, <1>5, RowsKeepJobs
<1>10. QED BY <1>1, <1>3, <1>8, <1>9, InvPartsNext DEF OthersInv, CleaningHasRows

LEMMA RevokeInv ==
  ASSUME ConnectionsInv, NEW i \in Installations, Revoke(i)
  PROVE  ConnectionsInv'
<1>1. RowsInv /\ JobsInv /\ OthersInv
  BY InvParts
<1>2. UNCHANGED <<repository, receipts, job, cleaning>>
  BY DEF Revoke
<1>3. ASSUME NEW c \in Connections \cup {NoConnection}, Entomb(i, c)
      PROVE  /\ tombstone' \in [Installations -> Tombstone]
             /\ tombstone'[i].state # "none"
             /\ tombstone'[i].connection \in {tombstone[i].connection, c}
             /\ Tombstoned(i) => tombstone' = tombstone
             /\ \A k \in Installations : k # i => tombstone'[k] = tombstone[k]
  <2> DEFINE new == [state |-> "pending", connection |-> c]
  <2>1. new \in Tombstone /\ new.state = "pending" /\ new.connection = c
    BY DEF Tombstone
  <2>2. CASE Tombstoned(i)
    BY <1>1, <1>3, <2>2 DEF Entomb, Tombstoned, RowsInv
  <2>3. CASE ~Tombstoned(i)
    <3>1. tombstone' = [tombstone EXCEPT ![i] = new]
      BY <1>3, <2>3 DEF Entomb
    <3> HIDE DEF new
    <3>2. QED BY <3>1, <2>1, <2>3, <1>1 DEF RowsInv
  <2>4. QED BY <2>2, <2>3
<1>4. CASE Holders(i) = {} /\ Entomb(i, NoConnection) /\ UNCHANGED <<connection, revoked>>
  <2>1. /\ tombstone' \in [Installations -> Tombstone]
        /\ tombstone'[i].connection \in {tombstone[i].connection, NoConnection}
        /\ Tombstoned(i) => tombstone' = tombstone
        /\ tombstone'[i].state # "none"
        /\ \A k \in Installations : k # i => tombstone'[k] = tombstone[k]
    BY <1>3, <1>4
  <2>2. TombstonesHold'
    BY <1>1, <1>4, <2>1 DEF RowsInv, TombstonesHold, Holders, Live
  <2>3. RevokedAreEntombed'
    BY <1>1, <1>4, <2>1, ConnectionsAssumption DEF RowsInv, RevokedAreEntombed, Tombstoned
  <2>4. RowsInv'
    BY <1>1, <1>4, <2>1, <2>2, <2>3 DEF RowsInv, RowsDiffer, Live
  <2>5. JobsInv'
    BY <1>1, <1>2, <1>4, RowsKeepJobs
  <2>6. CleaningHasRows'
    <3> SUFFICES ASSUME NEW w \in Workers, NEW k \in cleaning[w]
                 PROVE  tombstone'[k].connection \in Connections
      BY <1>2 DEF CleaningHasRows
    <3>1. k \in Installations /\ tombstone[k].connection \in Connections
      BY <1>1 DEF OthersInv, CleaningHasRows
    <3>2. CASE k = i
      <4>1. Tombstoned(i)
        BY <3>1, <3>2, <1>1 DEF RowsInv, RevokedAreEntombed
      <4>2. QED BY <4>1, <3>1, <2>1
    <3>3. QED BY <3>1, <3>2, <2>1
  <2>7. QED BY <1>1, <1>2, <1>4, <2>4, <2>5, <2>6, InvPartsNext DEF OthersInv
<1>5. ASSUME NEW c \in Holders(i), Entomb(i, c),
             connection' = [connection EXCEPT ![c] = [@ EXCEPT !.status = "revoked"]],
             revoked' = IF Tombstoned(i) THEN revoked ELSE Append(revoked, i)
      PROVE  ConnectionsInv'
  <2>1. c \in Connections /\ Live(c) /\ connection[c].installation = i
    BY <1>5 DEF Holders
  <2>2. ~Tombstoned(i)
    BY <1>1, <1>5 DEF RowsInv, TombstonesHold, Tombstoned
  <2>3. /\ tombstone' \in [Installations -> Tombstone]
        /\ tombstone'[i].state # "none"
        /\ tombstone'[i].connection \in {tombstone[i].connection, c}
        /\ \A k \in Installations : k # i => tombstone'[k] = tombstone[k]
    BY <1>3, <1>5, <2>1
  <2>4. /\ connection' \in [Connections -> Connection]
        /\ connection'[c].status = "revoked"
        /\ \A b \in Connections : b # c => connection'[b] = connection[b]
        /\ \A b \in Connections : connection'[b].installation = connection[b].installation
        /\ \A b \in Connections : Live(b)' => Live(b)
        /\ \A b \in Connections : connection[b].status \in {"revoked", "deleted"}
                                    => connection'[b].status \in {"revoked", "deleted"}
        /\ RowsDiffer'
    BY <1>1, <1>5, <2>1, StatusKeepsRows
  <2>5. TombstonesHold'
    <3> SUFFICES ASSUME NEW k \in Installations, tombstone'[k].state # "none",
                        NEW b \in Connections, Live(b)', connection'[b].installation = k
                 PROVE  FALSE
      BY DEF TombstonesHold, Holders
    <3>1. Live(b) /\ connection[b].installation = k /\ b # c
      BY <2>4 DEF Live
    <3>2. CASE k = i
      BY <3>1, <3>2, <2>1, <1>1 DEF RowsInv, RowsDiffer
    <3>3. CASE k # i
      BY <3>1, <3>3, <2>3, <1>1 DEF RowsInv, TombstonesHold, Holders
    <3>4. QED BY <3>2, <3>3
  <2>6. RevokedAreEntombed'
    <3> SUFFICES ASSUME NEW b \in Connections, NEW k \in Installations,
                        tombstone'[k].connection = b
                 PROVE  /\ tombstone'[k].state # "none"
                        /\ connection'[b].status \in {"revoked", "deleted"}
      BY DEF RevokedAreEntombed, Tombstoned
    <3>1. CASE k # i \/ b # c
      BY <3>1, <2>3, <2>4, <1>1 DEF RowsInv, RevokedAreEntombed, Tombstoned
    <3>2. CASE k = i /\ b = c
      BY <3>2, <2>3, <2>4
    <3>3. QED BY <3>1, <3>2
  <2>7. RowsInv'
    BY <2>3, <2>4, <2>5, <2>6 DEF RowsInv
  <2>8. JobsInv'
    BY <1>1, <1>2, <2>4, RowsKeepJobs
  <2>9. revoked' \in Seq(Installations)
    BY <1>1, <1>5 DEF OthersInv
  <2>10. CleaningHasRows'
    BY <1>1, <1>2, <2>1, <2>3 DEF OthersInv, CleaningHasRows
  <2>11. QED BY <1>1, <1>2, <2>7, <2>8, <2>9, <2>10, InvPartsNext DEF OthersInv
<1>6. QED BY <1>4, <1>5 DEF Revoke

\* A worker's steps on a job that exists.
LEMMA BecomeInv ==
  ASSUME ConnectionsInv, NEW j \in Jobs, NEW s \in {"queued", "running", "done"},
         job[j].status # "none", Become(j, s), OnlyJobs
  PROVE  ConnectionsInv'
<1>1. RowsInv /\ JobsInv /\ OthersInv
  BY InvParts
<1>2. UNCHANGED <<connection, tombstone, revoked, repository, receipts, cleaning>>
  BY DEF OnlyJobs
<1>3. RowsInv'
  BY <1>1, <1>2, UnchangedRows
<1>4. JobsInv'
  BY <1>1, <1>2, BecomeKeepsJobs
<1>5. QED BY <1>1, <1>2, <1>3, <1>4, InvPartsNext DEF OthersInv, CleaningHasRows

LEMMA FollowUpInv ==
  ASSUME ConnectionsInv, NEW j \in Jobs, FollowUp(j)
  PROVE  ConnectionsInv' /\ \A k \in Jobs : job[k].status # "none" => job'[k] = job[k]
<1>1. RowsInv /\ JobsInv /\ OthersInv
  BY InvParts
<1>2. UNCHANGED <<connection, tombstone, revoked, repository, receipts, cleaning>>
  BY DEF FollowUp, OnlyJobs
<1>3. /\ job[j].delivery \in Deliveries /\ job[j].connection \in Connections
      /\ connection[job[j].connection].status \notin {"unused", "deleted"}
      /\ job[j].repository \in Repositories \cup {NoRepository}
  BY <1>1 DEF FollowUp, JobsInv, JobsHaveRows, Job
<1>4. job' = Enqueued(job[j].delivery, job[j].connection, job[j].repository, job[j].delivery)
  BY DEF FollowUp
<1>5. job[j].delivery \in Jobs
  BY <1>3 DEF Jobs
<1>6. JobsInv' /\ \A k \in Jobs : job[k].status # "none" => job'[k] = job[k]
  BY <1>1, <1>2, <1>3, <1>4, <1>5, EnqueueKeepsJobs
<1>7. RowsInv'
  BY <1>1, <1>2, UnchangedRows
<1>8. QED BY <1>1, <1>2, <1>6, <1>7, InvPartsNext DEF OthersInv, CleaningHasRows

\* Cleanup deletes a row that is revoked, or gone, and that no unfinished job
\* refers to, and with it only jobs that are done.
LEMMA CleanUpInv ==
  ASSUME ConnectionsInv, NEW w \in Workers, NEW i \in Installations, CleanUp(w, i)
  PROVE  /\ ConnectionsInv'
         /\ \A k \in Jobs : /\ job'[k] \in {job[k], NoJob}
                            /\ Unfinished(k) => job'[k] = job[k]
         /\ \A k \in Installations : tombstone'[k].connection = tombstone[k].connection
<1> DEFINE c == tombstone[i].connection
           new == [tombstone[i] EXCEPT !.state = "complete"]
<1>1. RowsInv /\ JobsInv /\ OthersInv
  BY InvParts
<1>2. i \in cleaning[w] /\ UNCHANGED <<revoked, receipts>>
      /\ cleaning' = [cleaning EXCEPT ![w] = @ \ {i}]
  BY DEF CleanUp, Visit
<1>3. c \in Connections
  BY <1>1, <1>2 DEF OthersInv, CleaningHasRows
<1>4. connection[c].status \in {"revoked", "deleted"} /\ ~Referred(c)
  BY DEF CleanUp, Cleanable
<1>5. /\ connection' = [connection EXCEPT ![c] = [@ EXCEPT !.status = "deleted"]]
      /\ repository' = [r \in Repositories |->
           IF repository[r] = c THEN NoConnection ELSE repository[r]]
      /\ job' = [j \in Jobs |-> IF job[j].connection = c THEN NoJob ELSE job[j]]
  BY DEF CleanUp, Delete
<1>6. tombstone' = [tombstone EXCEPT ![i] = new]
  BY DEF CleanUp
<1>7. new \in Tombstone /\ new.state = "complete" /\ new.connection = c
  BY <1>1, TombstoneUpdate DEF RowsInv
<1>8. tombstone[i].state = "pending"
  BY DEF CleanUp
<1> HIDE DEF c, new
<1>9. /\ tombstone' \in [Installations -> Tombstone]
      /\ \A k \in Installations : tombstone'[k].connection = tombstone[k].connection
      /\ \A k \in Installations : tombstone'[k].state # "none" <=> tombstone[k].state # "none"
  BY <1>1, <1>6, <1>7, <1>8 DEF RowsInv, c
<1>10. /\ connection' \in [Connections -> Connection]
       /\ connection'[c].status = "deleted"
       /\ \A b \in Connections : b # c => connection'[b] = connection[b]
       /\ \A b \in Connections : connection'[b].installation = connection[b].installation
       /\ \A b \in Connections : Live(b)' => Live(b)
       /\ \A b \in Connections : connection[b].status \in {"revoked", "deleted"}
                                   => connection'[b].status \in {"revoked", "deleted"}
       /\ RowsDiffer'
  BY <1>1, <1>3, <1>5, StatusKeepsRows
<1>11. RowsInv'
  <2>1. TombstonesHold'
    BY <1>1, <1>9, <1>10 DEF RowsInv, TombstonesHold, Holders
  <2>2. RevokedAreEntombed'
    BY <1>1, <1>9, <1>10 DEF RowsInv, RevokedAreEntombed, Tombstoned
  <2>3. QED BY <2>1, <2>2, <1>9, <1>10 DEF RowsInv
<1>12. /\ job' \in [Jobs -> Job]
       /\ \A k \in Jobs : /\ job'[k] \in {job[k], NoJob}
                          /\ Unfinished(k) => job'[k] = job[k]
                          /\ job[k].connection = c => job'[k] = NoJob
                          /\ job[k].connection # c => job'[k] = job[k]
  BY <1>1, <1>4, <1>5, NoJobType DEF JobsInv, Referred, Unfinished
<1>13. JobsInv'
  <2> SUFFICES ASSUME NEW k \in Jobs, job'[k].status # "none"
               PROVE  /\ job'[k].connection \in Connections
                      /\ job'[k].delivery \in Deliveries
                      /\ connection'[job'[k].connection].status \notin {"unused", "deleted"}
    BY <1>12 DEF JobsInv, JobsHaveRows
  <2>1. job'[k] # NoJob
    BY NoJobType
  <2>2. job'[k] = job[k] /\ job[k].connection # c
    BY <2>1, <1>12
  <2>3. /\ job[k].connection \in Connections /\ job[k].delivery \in Deliveries
        /\ connection[job[k].connection].status \notin {"unused", "deleted"}
    BY <2>2, <1>1 DEF JobsInv, JobsHaveRows
  <2>4. QED BY <2>2, <2>3, <1>10
<1>14. OthersInv'
  <2>1. cleaning' \in [Workers -> SUBSET Installations]
        /\ \A v \in Workers : cleaning'[v] \subseteq cleaning[v]
    BY <1>1, <1>2 DEF OthersInv
  <2>2. CleaningHasRows'
    BY <2>1, <1>1, <1>9 DEF OthersInv, CleaningHasRows
  <2>3. repository' \in [Repositories -> Connections \cup {NoConnection}]
    BY <1>1, <1>5 DEF OthersInv
  <2>4. QED BY <2>1, <2>2, <2>3, <1>1, <1>2 DEF OthersInv
<1>15. ConnectionsInv'
  BY <1>11, <1>13, <1>14, InvPartsNext
<1>16. QED BY <1>9, <1>12, <1>15

\* The other steps of a cleanup change its list alone.
LEMMA CleaningInv ==
  ASSUME ConnectionsInv, NEW w \in Workers, NEW L \in SUBSET Installations,
         \A i \in L : tombstone[i].connection \in Connections,
         cleaning' = [cleaning EXCEPT ![w] = L],
         UNCHANGED <<connection, tombstone, revoked, repository, receipts, job>>
  PROVE  ConnectionsInv'
<1>1. RowsInv /\ JobsInv /\ OthersInv
  BY InvParts
<1>2. RowsInv' /\ JobsInv'
  BY <1>1, UnchangedRows, RowsKeepJobs
<1>3. cleaning' \in [Workers -> SUBSET Installations]
  BY <1>1 DEF OthersInv
<1>4. CleaningHasRows'
  BY <1>1 DEF OthersInv, CleaningHasRows
<1>5. QED BY <1>1, <1>2, <1>3, <1>4, InvPartsNext DEF OthersInv

LEMMA BeginCleanupInv ==
  ASSUME ConnectionsInv, NEW w \in Workers, BeginCleanup(w)
  PROVE  ConnectionsInv'
<1>1. Oldest \in SUBSET Installations /\ \A i \in Oldest : tombstone[i].connection \in Connections
  BY DEF Oldest, Pending
<1>2. QED BY <1>1, CleaningInv DEF BeginCleanup

LEMMA PassOverInv ==
  ASSUME ConnectionsInv, NEW w \in Workers, NEW i \in Installations, PassOver(w, i)
  PROVE  ConnectionsInv'
<1> DEFINE L == cleaning[w] \ {i}
<1>1. L \in SUBSET Installations /\ \A k \in L : tombstone[k].connection \in Connections
  BY InvParts DEF OthersInv, CleaningHasRows
<1>2. cleaning' = [cleaning EXCEPT ![w] = L]
  BY DEF PassOver, Visit
<1> HIDE DEF L
<1>3. QED BY <1>1, <1>2, CleaningInv DEF PassOver, Visit

LEMMA CleanupFailsInv ==
  ASSUME ConnectionsInv, NEW w \in Workers, CleanupFails(w)
  PROVE  ConnectionsInv'
BY CleaningInv DEF CleanupFails

LEMMA RepositoriesInv ==
  ASSUME ConnectionsInv,
         repository' \in [Repositories -> Connections \cup {NoConnection}],
         UNCHANGED <<connection, tombstone, revoked, receipts, job, cleaning>>
  PROVE  ConnectionsInv'
<1>1. RowsInv /\ JobsInv /\ OthersInv
  BY InvParts
<1>2. RowsInv' /\ JobsInv'
  BY <1>1, UnchangedRows, RowsKeepJobs
<1>3. QED BY <1>1, <1>2, InvPartsNext DEF OthersInv, CleaningHasRows

LEMMA InstallationEventInv ==
  ASSUME ConnectionsInv, NEW i \in Installations, InstallationEvent(i)
  PROVE  ConnectionsInv'
<1>1. OthersInv
  BY InvParts
<1>2. CASE ActivateInstallation(i)
  BY <1>1, <1>2, UpsertInv DEF ActivateInstallation, OthersInv, CleaningHasRows
<1>3. CASE Suspend(i)
  BY <1>3, SuspendInv
<1>4. CASE Revoke(i)
  BY <1>4, RevokeInv
<1>5. ASSUME NEW R \in SUBSET Repositories, ReplaceRepositories(i, R)
      PROVE  ConnectionsInv'
  <2>1. PICK c \in Connections :
          /\ Upsert(i, c)
          /\ repository' = [r \in Repositories |->
               IF r \in R THEN c
               ELSE IF repository[r] = c THEN NoConnection ELSE repository[r]]
    BY <1>5 DEF ReplaceRepositories
  <2>2. UNCHANGED <<tombstone, revoked, receipts, job, cleaning>>
    BY <1>5 DEF ReplaceRepositories
  <2>3. repository' \in [Repositories -> Connections \cup {NoConnection}]
    BY <1>1, <2>1 DEF OthersInv
  <2>4. OthersInv'
    BY <1>1, <2>2, <2>3 DEF OthersInv, CleaningHasRows
  <2>5. QED BY <2>1, <2>2, <2>4, UpsertInv
<1>6. ASSUME NEW R \in SUBSET Repositories, AddRepositories(i, R)
      PROVE  ConnectionsInv'
  <2>1. repository' \in [Repositories -> Connections \cup {NoConnection}]
    BY <1>1, <1>6 DEF AddRepositories, OthersInv, Holders
  <2>2. QED BY <2>1, <1>6, RepositoriesInv DEF AddRepositories
<1>7. ASSUME NEW R \in SUBSET Repositories, RemoveRepositories(i, R)
      PROVE  ConnectionsInv'
  <2>1. repository' \in [Repositories -> Connections \cup {NoConnection}]
    BY <1>1, <1>7 DEF RemoveRepositories, OthersInv, Holders
  <2>2. QED BY <2>1, <1>7, RepositoriesInv DEF RemoveRepositories
<1>8. QED BY <1>2, <1>3, <1>4, <1>5, <1>6, <1>7 DEF InstallationEvent

LEMMA JobStepInv ==
  ASSUME ConnectionsInv, NEW j \in Jobs,
         Attempt(j) \/ Refuse(j) \/ Complete(j) \/ Retry(j) \/ FollowUp(j)
  PROVE  ConnectionsInv'
<1>1. CASE Attempt(j)
  BY <1>1, BecomeInv DEF Attempt
<1>2. CASE Refuse(j)
  BY <1>2, BecomeInv DEF Refuse
<1>3. CASE Complete(j)
  BY <1>3, BecomeInv DEF Complete
<1>4. CASE Retry(j)
  BY <1>4, BecomeInv DEF Retry
<1>5. CASE FollowUp(j)
  BY <1>5, FollowUpInv
<1>6. QED BY <1>1, <1>2, <1>3, <1>4, <1>5

LEMMA NextInv == ConnectionsInv /\ [Next]_vars => ConnectionsInv'
<1> SUFFICES ASSUME ConnectionsInv, [Next]_vars PROVE ConnectionsInv'
  OBVIOUS
<1>1. ASSUME NEW i \in Installations, InstallationEvent(i) PROVE ConnectionsInv'
  BY <1>1, InstallationEventInv
<1>2. ASSUME NEW d \in Deliveries, Accept(d) PROVE ConnectionsInv'
  BY <1>2, AcceptInv
<1>3. ASSUME NEW j \in Jobs,
             Attempt(j) \/ Refuse(j) \/ Complete(j) \/ Retry(j) \/ FollowUp(j)
      PROVE  ConnectionsInv'
  BY <1>3, JobStepInv
<1>4. ASSUME NEW w \in Workers, Cleanup(w) PROVE ConnectionsInv'
  BY <1>4, BeginCleanupInv, CleanUpInv, PassOverInv DEF Cleanup
<1>5. ASSUME NEW w \in Workers, CleanupFails(w) PROVE ConnectionsInv'
  BY <1>5, CleanupFailsInv
<1>6. CASE UNCHANGED vars
  <2>1. UNCHANGED <<connection, tombstone, revoked, repository, receipts, job, cleaning>>
    BY <1>6 DEF vars
  <2>2. RowsInv' /\ JobsInv'
    BY <2>1, InvParts, UnchangedRows, RowsKeepJobs
  <2>3. QED BY <2>1, <2>2, InvParts, InvPartsNext DEF OthersInv, CleaningHasRows
<1>7. QED BY <1>1, <1>2, <1>3, <1>4, <1>5, <1>6 DEF Next

-----------------------------------------------------------------------------
\* The rows, tombstones and jobs of the connection satisfy ConnectionsInv.
THEOREM ConnectionsInvariant == Spec => []ConnectionsInv
<1>1. QED BY InitInv, NextInv, PTL DEF Spec

\* Rows, tombstones, receipts and jobs keep their types.
THEOREM ConnectionsTypeCorrect == Spec => []TypeOK
<1>1. ConnectionsInv => TypeOK
  BY DEF ConnectionsInv
<1>2. QED BY <1>1, ConnectionsInvariant, PTL

\* An installation that was revoked never has a usable row again
\* (upsertActiveProviderConnection, revokeConfiguredProviderConnection).
THEOREM ConnectionsTombstonesHold == Spec => []TombstonesHold
<1>1. ConnectionsInv => TombstonesHold
  BY DEF ConnectionsInv
<1>2. QED BY <1>1, ConnectionsInvariant, PTL

-----------------------------------------------------------------------------
(* What a step does to unfinished jobs and to tombstones. *)

LEMMA BecomeKeepsConnection ==
  ASSUME ConnectionsInv, NEW j \in Jobs, NEW s \in {"queued", "running", "done"},
         job[j].status # "none", Become(j, s), OnlyJobs
  PROVE  \A k \in Jobs : /\ job[k].status # "none" => job'[k].status # "none"
                         /\ job'[k].connection = job[k].connection
BY InvParts, BecomeKeepsJobs DEF OnlyJobs

JobsStay ==
  \A k \in Jobs : Unfinished(k) => /\ job'[k].status # "none"
                                   /\ job'[k].connection = job[k].connection

\* Only a cleanup takes jobs away, and it looks for unfinished ones first.
LEMMA StepKeepsJobs == ConnectionsInv /\ [Next]_vars => JobsStay
<1> SUFFICES ASSUME ConnectionsInv, [Next]_vars PROVE JobsStay
  OBVIOUS
<1>1. ASSUME UNCHANGED job PROVE JobsStay
  BY <1>1 DEF JobsStay, Unfinished
<1>2. ASSUME NEW i \in Installations, InstallationEvent(i) PROVE JobsStay
  BY <1>1, <1>2 DEF InstallationEvent, ActivateInstallation, ReplaceRepositories,
    AddRepositories, RemoveRepositories, Suspend, Revoke
<1>3. ASSUME NEW d \in Deliveries, Accept(d) PROVE JobsStay
  BY <1>3, AcceptInv DEF JobsStay, Unfinished
<1>4. ASSUME NEW j \in Jobs, NEW s \in {"queued", "running", "done"},
             job[j].status # "none", Become(j, s), OnlyJobs
      PROVE  JobsStay
  BY <1>4, BecomeKeepsConnection DEF JobsStay, Unfinished
<1>5. ASSUME NEW j \in Jobs, Attempt(j) \/ Refuse(j) \/ Complete(j) \/ Retry(j)
      PROVE  JobsStay
  BY <1>4, <1>5 DEF Attempt, Refuse, Complete, Retry
<1>6. ASSUME NEW j \in Jobs, FollowUp(j) PROVE JobsStay
  BY <1>6, FollowUpInv DEF JobsStay, Unfinished
<1>7. ASSUME NEW w \in Workers, NEW i \in Installations, CleanUp(w, i) PROVE JobsStay
  BY <1>7, CleanUpInv DEF JobsStay, Unfinished
<1>8. ASSUME NEW w \in Workers, Cleanup(w) \/ CleanupFails(w) PROVE JobsStay
  BY <1>1, <1>7, <1>8 DEF Cleanup, BeginCleanup, PassOver, CleanupFails
<1>9. CASE UNCHANGED vars
  BY <1>1, <1>9 DEF vars
<1>10. QED BY <1>2, <1>3, <1>5, <1>6, <1>8, <1>9 DEF Next

TombstonesStay ==
  \A i \in Installations :
    tombstone[i].connection \in Connections
      => tombstone'[i].connection = tombstone[i].connection

\* A tombstone keeps its connection.
LEMMA StepKeepsTombstones == ConnectionsInv /\ [Next]_vars => TombstonesStay
<1> SUFFICES ASSUME ConnectionsInv, [Next]_vars PROVE TombstonesStay
  OBVIOUS
<1>1. ASSUME UNCHANGED tombstone PROVE TombstonesStay
  BY <1>1 DEF TombstonesStay
<1>2. ASSUME NEW i \in Installations, Revoke(i) PROVE TombstonesStay
  <2>1. RowsInv
    BY InvParts
  <2>2. PICK c : Entomb(i, c)
    BY <1>2 DEF Revoke
  <2>3. CASE Tombstoned(i)
    BY <1>1, <2>2, <2>3 DEF Entomb
  <2>4. CASE ~Tombstoned(i)
    <3>1. tombstone[i].connection \notin Connections
      BY <2>1, <2>4 DEF RowsInv, RevokedAreEntombed
    <3>2. \A k \in Installations : k # i => tombstone'[k] = tombstone[k]
      BY <2>1, <2>2, <2>4 DEF Entomb, RowsInv
    <3>3. QED BY <3>1, <3>2 DEF TombstonesStay
  <2>5. QED BY <2>3, <2>4
<1>3. ASSUME NEW i \in Installations, InstallationEvent(i) PROVE TombstonesStay
  BY <1>1, <1>2, <1>3 DEF InstallationEvent, ActivateInstallation, ReplaceRepositories,
    AddRepositories, RemoveRepositories, Suspend
<1>4. ASSUME NEW w \in Workers, NEW i \in Installations, CleanUp(w, i) PROVE TombstonesStay
  BY <1>4, CleanUpInv DEF TombstonesStay
<1>5. ASSUME NEW w \in Workers, Cleanup(w) \/ CleanupFails(w) PROVE TombstonesStay
  BY <1>1, <1>4, <1>5 DEF Cleanup, BeginCleanup, PassOver, CleanupFails
<1>6. ASSUME NEW d \in Deliveries, Accept(d) PROVE TombstonesStay
  BY <1>1, <1>6 DEF Accept
<1>7. ASSUME NEW j \in Jobs,
             Attempt(j) \/ Refuse(j) \/ Complete(j) \/ Retry(j) \/ FollowUp(j)
      PROVE  TombstonesStay
  BY <1>1, <1>7 DEF Attempt, Refuse, Complete, Retry, FollowUp, OnlyJobs
<1>8. CASE UNCHANGED vars
  BY <1>1, <1>8 DEF vars
<1>9. QED BY <1>3, <1>5, <1>6, <1>7, <1>8 DEF Next

-----------------------------------------------------------------------------
\* Cleanup never takes away a job that is queued or running
\* (cleanupRevokedProviderConnection).
THEOREM ConnectionsUnfinishedJobsSurvive == Spec => UnfinishedJobsSurvive
<1>1. ConnectionsInv /\ [Next]_vars
        => [\A j \in Jobs :
              job[j].status \in {"queued", "running"} => job'[j].status # "none"]_vars
  BY StepKeepsJobs DEF JobsStay, Unfinished
<1>2. QED BY <1>1, ConnectionsInvariant, PTL DEF Spec, UnfinishedJobsSurvive

\* From the revocation of its connection on a job has no authority, whatever
\* events of other installations follow (findKnownRepository).
THEOREM ConnectionsRevocationIsFinal == Spec => RevocationIsFinal
<1> DEFINE Refused ==
      \A j \in Jobs, i \in Installations :
        /\ job[j].status \in {"queued", "running"}
        /\ tombstone[i].connection = job[j].connection
        => ~Authorized(j) /\ ~Authorized(j)'
<1>1. ASSUME ConnectionsInv, ConnectionsInv', [Next]_vars
      PROVE  Refused
  <2> SUFFICES ASSUME NEW j \in Jobs, NEW i \in Installations,
                      job[j].status \in {"queued", "running"},
                      tombstone[i].connection = job[j].connection
               PROVE  ~Authorized(j) /\ ~Authorized(j)'
    OBVIOUS
  <2> DEFINE c == job[j].connection
  <2>1. c \in Connections
    BY <1>1 DEF ConnectionsInv, JobsHaveRows
  <2>2. tombstone'[i].connection = c /\ job'[j].connection = c
    BY <1>1, <2>1, StepKeepsJobs, StepKeepsTombstones DEF JobsStay, TombstonesStay, Unfinished
  <2>3. connection[c].status # "active"
    BY <1>1, <2>1 DEF ConnectionsInv, RevokedAreEntombed
  <2>4. connection'[c].status # "active"
    BY <1>1, <2>1, <2>2 DEF ConnectionsInv, RevokedAreEntombed
  <2>5. QED BY <2>2, <2>3, <2>4 DEF Authorized, Active
<1>2. ConnectionsInv /\ ConnectionsInv' /\ [Next]_vars => [Refused]_vars
  BY <1>1
<1>3. Spec => [][Refused]_vars
  BY <1>2, ConnectionsInvariant, PTL DEF Spec
<1>4. QED BY <1>3 DEF RevocationIsFinal
=============================================================================

--------------------------- MODULE ReviewerBacklog ---------------------------
(***************************************************************************)
(* The load of the reviewers (packages/application/src/reviewer-backlog.ts *)
(* with its ports in apps/worker/src/reviewer-backlog.ts): an acquisition  *)
(* reads the open review requests of every repository of a connection,     *)
(* from a cache of one process or from GitHub, within a budget of time.    *)
(* The service is modelled for any use: acquisitions may overlap, requests *)
(* invalidate the cache while others read.  Its deployments use less of    *)
(* that: the worker runs one job at a time and awaits each acquisition     *)
(* (apps/worker/src/main.ts:22), the web process, whose acquisitions do    *)
(* overlap, never invalidates.  The connection or its repositories change  *)
(* at any moment.  Time is not modelled: a snapshot may be too old, or a   *)
(* deadline pass, whenever the code looks.  A listing has several pages:   *)
(* its data are those of the moment of List, and Store may come much later.*)
(***************************************************************************)
EXTENDS Naturals, FiniteSets

CONSTANTS
  Repositories, \* repositories the connection may have
  Acquisitions, \* calls of acquire, one after the other under each name
  NoSnapshot    \* no entry of the cache

ASSUME BacklogAssumption == NoSnapshot \notin Nat

VARIABLES
  connected,   \* is the connection active?
  members,     \* the repositories it has
  moves,       \* how many reviewers the worker has requested on GitHub
  announced,   \* how many of them the cache has been invalidated for
  generation,  \* generations.get(group)
  cache,       \* the snapshot of each repository: the requests it counts
  acquisition  \* the state of each call

backlogVars == <<connected, members, moves, announced, generation, cache, acquisition>>

Idle ==
  [step |-> "idle", scope |-> {}, generation |-> 0, announced |-> 0,
   reads |-> [r \in Repositories |-> "waiting"],
   used |-> [r \in Repositories |-> NoSnapshot]]

BacklogInit ==
  /\ connected = TRUE /\ members = Repositories
  /\ moves = 0 /\ announced = 0 /\ generation = 0
  /\ cache = [r \in Repositories |-> NoSnapshot]
  /\ acquisition = [a \in Acquisitions |-> Idle]

Running(a) == acquisition[a].step \in {"scoping", "reading"}

\* assertAnalyticsScopeActive: the connection and all of its scope are
\* those on record.
Authorized(a) == connected /\ acquisition[a].scope \subseteq members

Reading(a, r, read) ==
  /\ acquisition[a].step = "reading" /\ r \in acquisition[a].scope
  /\ acquisition[a].reads[r] = read

\* Only a complete answer has loads.
Answer(a, answer) ==
  acquisition' = [acquisition EXCEPT ![a] =
                    IF answer = "complete" THEN [@ EXCEPT !.step = answer]
                    ELSE [Idle EXCEPT !.step = answer]]

\* An authority error aborts the whole acquisition and is thrown.
Refuse(a) == Answer(a, "refused")

Becomes(a, r, read) == acquisition' = [acquisition EXCEPT ![a].reads[r] = read]

UnchangedWorld == UNCHANGED <<connected, members, moves, announced, generation>>

Begin(a) ==
  /\ ~Running(a)
  /\ acquisition' =
       [acquisition EXCEPT ![a] = [Idle EXCEPT !.step = "scoping", !.generation = generation,
                                               !.announced = announced]]
  /\ UNCHANGED cache /\ UnchangedWorld

\* loadScope with the repositories asked for (all of them for a load), its
\* authorization, the removal of what the cache has outside it, and
\* readTracked.
LoadScope(a, asked) ==
  /\ acquisition[a].step = "scoping"
  /\ LET scope == IF asked = {} THEN members ELSE asked IN
     IF connected /\ asked \subseteq members
     THEN /\ acquisition' = [acquisition EXCEPT ![a].step = "reading", ![a].scope = scope]
          /\ cache' = [r \in Repositories |-> IF r \in scope THEN cache[r] ELSE NoSnapshot]
     ELSE Refuse(a) /\ UNCHANGED cache
  /\ UnchangedWorld

\* A worker takes the next repository: authorize, then a snapshot that is
\* recent enough, or GitHub if there is none or a refresh is asked for.
Look(a, r) ==
  /\ Reading(a, r, "waiting")
  /\ IF Authorized(a)
     THEN \/ /\ cache[r] # NoSnapshot
             /\ acquisition' =
                  [acquisition EXCEPT ![a].reads[r] = "covered", ![a].used[r] = cache[r]]
          \/ Becomes(a, r, "listing")
     ELSE Refuse(a)
  /\ UNCHANGED cache /\ UnchangedWorld

\* listOpenReviewRequests: the requests there are now, a denial (403, 404),
\* a failure of another kind, or a token that is refused (401).
List(a, r) ==
  /\ Reading(a, r, "listing")
  /\ \/ /\ Authorized(a)
        /\ \/ acquisition' =
                [acquisition EXCEPT ![a].reads[r] = "listed", ![a].used[r] = moves]
           \/ \E read \in {"denied", "unavailable"} : Becomes(a, r, read)
     \/ Refuse(a)
  /\ UNCHANGED cache /\ UnchangedWorld

Cacheable(a) == acquisition[a].generation = generation

\* The listing is complete: authorize, then a snapshot, which is cached
\* unless the cache has been invalidated since the acquisition began.
Store(a, r) ==
  /\ Reading(a, r, "listed")
  /\ IF Authorized(a)
     THEN /\ Becomes(a, r, "covered")
          /\ cache' = IF Cacheable(a)
                      THEN [cache EXCEPT ![r] = acquisition[a].used[r]] ELSE cache
     ELSE Refuse(a) /\ UNCHANGED cache
  /\ UnchangedWorld

\* listOpenReviewRequestsWithInstallationProbe: a denial stands for the one
\* repository only if the installation itself still answers.
Probe(a, r) ==
  /\ Reading(a, r, "denied")
  /\ (Authorized(a) /\ Becomes(a, r, "unavailable")) \/ Refuse(a)
  /\ UNCHANGED cache /\ UnchangedWorld

Covered(a) == \A r \in acquisition[a].scope : acquisition[a].reads[r] = "covered"

\* Every repository has been read or given up: a last authorization, and
\* the loads if all of them were read.
Finish(a) ==
  /\ acquisition[a].step = "reading"
  /\ \A r \in acquisition[a].scope : acquisition[a].reads[r] \in {"covered", "unavailable"}
  /\ IF Authorized(a)
     THEN Answer(a, IF Covered(a) THEN "complete" ELSE "fallback")
     ELSE Refuse(a)
  /\ UNCHANGED cache /\ UnchangedWorld

\* The deadline: what is not covered by now is unavailable, and the caller
\* routes without the loads.  With everything covered the last
\* authorization is not waited for.
Expire(a) ==
  /\ Running(a)
  /\ Answer(a, IF acquisition[a].step = "reading" /\ Covered(a) THEN "complete" ELSE "fallback")
  /\ UNCHANGED cache /\ UnchangedWorld

\* The worker asks a reviewer on GitHub, and announces it in the finally of
\* the same call, however that ended.
RequestReviewer ==
  /\ moves = announced /\ moves' = moves + 1
  /\ UNCHANGED <<connected, members, announced, generation, cache, acquisition>>

\* A slip: the generation advances and the snapshots stay.
InvalidateNothing ==
  /\ announced' = moves /\ generation' = generation + 1
  /\ UNCHANGED <<connected, members, moves, cache, acquisition>>

Invalidate ==
  /\ announced' = moves /\ generation' = generation + 1
  /\ cache' = [r \in Repositories |-> NoSnapshot]
  /\ UNCHANGED <<connected, members, moves, acquisition>>

ConnectionChanges ==
  /\ \/ connected' = ~connected /\ UNCHANGED members
     \/ \E r \in Repositories :
          /\ members' = IF r \in members THEN members \ {r} ELSE members \cup {r}
          /\ UNCHANGED connected
  /\ UNCHANGED <<moves, announced, generation, cache, acquisition>>

Acquire(a) ==
  \/ Begin(a)
  \/ \E asked \in SUBSET Repositories : LoadScope(a, asked)
  \/ \E r \in Repositories : Look(a, r) \/ List(a, r) \/ Store(a, r) \/ Probe(a, r)
  \/ Finish(a) \/ Expire(a)

BacklogNext ==
  \/ \E a \in Acquisitions : Acquire(a)
  \/ RequestReviewer \/ Invalidate \/ ConnectionChanges

BacklogSpec == BacklogInit /\ [][BacklogNext]_backlogVars

-----------------------------------------------------------------------------
(* A load counts every reviewer the worker itself had requested and        *)
(* announced when the acquisition began, although a snapshot answers for   *)
(* 60 seconds (reviewer-backlog.ts:68): pull requests routed one after the *)
(* other do not all go to whoever was free at first.  What was listed      *)
(* before an announcement is not cached after it either (line 72).         *)
OwnRequestsAreCounted ==
  \A a \in Acquisitions : acquisition[a].step = "complete" =>
    \A r \in acquisition[a].scope : acquisition[a].used[r] >= acquisition[a].announced
=============================================================================

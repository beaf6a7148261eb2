------------------------ MODULE RoutingServicesProofs ------------------------
(***************************************************************************)
(* The services a routing run uses.  Why the cache of the backlog may be   *)
(* shared by acquisitions that overlap an invalidation; why writes that    *)
(* are cut off and made again leave one item of each kind; and what the    *)
(* decision rules answer for every input: whose suppressor is found, what  *)
(* a file more does to the risk, and who is asked.                         *)
(***************************************************************************)
EXTENDS ReviewerBacklog, RoutingActions, DecisionRules, FiniteSetTheorems, SequenceTheorems,
        WellFoundedInduction, TLAPS

-----------------------------------------------------------------------------
(* The backlog: an acquisition remembers the generation it began in, which *)
(* tells whether anything was announced since.                             *)

Steps == {"idle", "scoping", "reading", "complete", "fallback", "refused"}
Reads == {"waiting", "listing", "listed", "covered", "denied", "unavailable"}

AcquisitionType ==
  [step : Steps, scope : SUBSET Repositories, generation : Nat, announced : Nat,
   reads : [Repositories -> Reads], used : [Repositories -> Nat \cup {NoSnapshot}]]

BacklogTypeOK ==
  /\ connected \in BOOLEAN /\ members \in SUBSET Repositories
  /\ moves \in Nat /\ announced \in Nat /\ generation \in Nat
  /\ cache \in [Repositories -> Nat \cup {NoSnapshot}]
  /\ acquisition \in [Acquisitions -> AcquisitionType]

\* Data that were read count what had been announced by then.
Counts(data, known) == data \in Nat /\ data >= known

ReadsCount(x) ==
  \A r \in Repositories : x.reads[r] \in {"listed", "covered"} => Counts(x.used[r], x.announced)

\* What an acquisition remembers is of the past, and of the present as long
\* as its generation is the current one.
Remembers(x) ==
  /\ x.generation <= generation /\ x.announced <= announced
  /\ x.generation = generation => x.announced = announced

CompleteIsCovered(x) ==
  x.step = "complete" => \A r \in x.scope : x.reads[r] = "covered"

AcquisitionOK(x) == ReadsCount(x) /\ Remembers(x) /\ CompleteIsCovered(x)

WorldOK ==
  /\ announced <= moves
  /\ generation = 0 => announced = 0
  /\ \A r \in Repositories : cache[r] # NoSnapshot => Counts(cache[r], announced)

BacklogInv ==
  /\ BacklogTypeOK /\ WorldOK
  /\ \A a \in Acquisitions : AcquisitionOK(acquisition[a])

-----------------------------------------------------------------------------
(* The ways an acquisition changes, record by record.                      *)

\* Idle is a record of its type without reads.
LEMMA IdleType ==
  Idle \in AcquisitionType /\ \A r \in Repositories : Idle.reads[r] = "waiting"
BY BacklogAssumption DEF Idle, AcquisitionType, Steps, Reads

\* A change of the step alone keeps the reads.
LEMMA StepChange ==
  ASSUME NEW x \in AcquisitionType, NEW s \in Steps
  PROVE  LET y == [x EXCEPT !.step = s] IN
         /\ y \in AcquisitionType /\ y.step = s /\ y.scope = x.scope
         /\ y.generation = x.generation /\ y.announced = x.announced
         /\ y.reads = x.reads /\ y.used = x.used
BY DEF AcquisitionType

\* An acquisition that begins has no reads and the present's memory.
LEMMA Beginning ==
  ASSUME NEW g \in Nat, NEW n \in Nat
  PROVE  LET y == [Idle EXCEPT !.step = "scoping", !.generation = g, !.announced = n] IN
         /\ y \in AcquisitionType /\ y.step = "scoping"
         /\ y.generation = g /\ y.announced = n /\ y.reads = Idle.reads
BY IdleType DEF Idle, AcquisitionType, Steps

\* A scope that is loaded keeps the rest.
LEMMA Scoping ==
  ASSUME NEW x \in AcquisitionType, NEW s \in SUBSET Repositories
  PROVE  LET y == [[x EXCEPT !.step = "reading"] EXCEPT !.scope = s] IN
         /\ y \in AcquisitionType /\ y.step = "reading"
         /\ y.generation = x.generation /\ y.announced = x.announced
         /\ y.reads = x.reads /\ y.used = x.used
BY DEF AcquisitionType, Steps

\* A read that becomes something else keeps the other reads.
LEMMA ReadChange ==
  ASSUME NEW x \in AcquisitionType, NEW r \in Repositories, NEW read \in Reads
  PROVE  LET y == [x EXCEPT !.reads[r] = read] IN
         /\ y \in AcquisitionType /\ y.step = x.step /\ y.scope = x.scope
         /\ y.generation = x.generation /\ y.announced = x.announced
         /\ y.used = x.used /\ y.reads = [x.reads EXCEPT ![r] = read]
BY DEF AcquisitionType

-----------------------------------------------------------------------------
\* Nothing has been read in the beginning.
LEMMA BacklogInitInv == BacklogInit => BacklogInv
<1> SUFFICES ASSUME BacklogInit PROVE BacklogInv
  OBVIOUS
<1>1. BacklogTypeOK
  BY IdleType DEF BacklogInit, BacklogTypeOK
<1>2. WorldOK
  BY DEF BacklogInit, WorldOK
<1>3. Idle.generation = 0 /\ Idle.announced = 0 /\ Idle.step = "idle"
  BY DEF Idle
<1>4. AcquisitionOK(Idle)
  BY <1>3, IdleType DEF BacklogInit, AcquisitionOK, ReadsCount, Remembers, CompleteIsCovered
<1> QED
  BY <1>1, <1>2, <1>4 DEF BacklogInit, BacklogInv

\* Replacing one acquisition by one that is well kept keeps the invariant.
LEMMA OneAcquisition ==
  ASSUME BacklogInv, NEW a \in Acquisitions, NEW y \in AcquisitionType, AcquisitionOK(y),
         acquisition' = [acquisition EXCEPT ![a] = y], UnchangedWorld, UNCHANGED cache
  PROVE  BacklogInv'
<1>1. acquisition' \in [Acquisitions -> AcquisitionType]
  BY DEF BacklogInv, BacklogTypeOK
<1>2. BacklogTypeOK' /\ WorldOK'
  BY <1>1 DEF BacklogInv, BacklogTypeOK, WorldOK, UnchangedWorld, Counts
<1>3. ASSUME NEW b \in Acquisitions PROVE AcquisitionOK(acquisition[b])'
  <2>1. AcquisitionOK(acquisition'[b])
    BY DEF BacklogInv, BacklogTypeOK
  <2> QED
    BY <2>1 DEF AcquisitionOK, ReadsCount, Remembers, CompleteIsCovered, UnchangedWorld
<1> QED
  BY <1>2, <1>3 DEF BacklogInv

\* An outcome: a complete one has read its whole scope, others keep nothing.
LEMMA AnswerOK ==
  ASSUME BacklogInv, NEW a \in Acquisitions,
         NEW outcome \in {"complete", "fallback", "refused"},
         outcome = "complete" => Covered(a), Answer(a, outcome), UnchangedWorld, UNCHANGED cache
  PROVE  BacklogInv'
<1> DEFINE x == acquisition[a]
           y == IF outcome = "complete" THEN [x EXCEPT !.step = outcome]
                ELSE [Idle EXCEPT !.step = outcome]
<1>1. x \in AcquisitionType /\ AcquisitionOK(x) /\ outcome \in Steps
  BY DEF BacklogInv, BacklogTypeOK, Steps
<1>2. y \in AcquisitionType /\ AcquisitionOK(y)
  <2>1. CASE outcome = "complete"
    BY <2>1, <1>1, StepChange
       DEF AcquisitionOK, ReadsCount, Remembers, CompleteIsCovered, Covered
  <2>2. CASE outcome # "complete"
    <3>1. Idle.generation = 0 /\ Idle.announced = 0
      BY DEF Idle
    <3>2. \A r \in Repositories : y.reads[r] = "waiting"
      BY <2>2, <1>1, IdleType, StepChange
    <3> QED
      BY <2>2, <3>1, <3>2, <1>1, IdleType, StepChange
         DEF AcquisitionOK, ReadsCount, Remembers, CompleteIsCovered, BacklogInv,
             BacklogTypeOK, WorldOK
  <2> QED
    BY <2>1, <2>2
<1>3. acquisition' = [acquisition EXCEPT ![a] = y]
  BY <1>1 DEF Answer, BacklogInv, BacklogTypeOK
<1> HIDE DEF y
<1> QED
  BY <1>2, <1>3, OneAcquisition

\* A refusal is an outcome that is not complete.
LEMMA RefuseOK ==
  ASSUME BacklogInv, NEW a \in Acquisitions, Refuse(a), UnchangedWorld, UNCHANGED cache
  PROVE  BacklogInv'
BY AnswerOK DEF Refuse

\* A read that brings no data.
LEMMA BecomesOK ==
  ASSUME BacklogInv, NEW a \in Acquisitions, NEW r \in Repositories,
         acquisition[a].step = "reading",
         NEW read \in Reads \ {"listed", "covered"}, Becomes(a, r, read), UnchangedWorld,
         UNCHANGED cache
  PROVE  BacklogInv'
<1> DEFINE x == acquisition[a]
           y == [x EXCEPT !.reads[r] = read]
<1>1. x \in AcquisitionType /\ AcquisitionOK(x)
  BY DEF BacklogInv, BacklogTypeOK
<1>2. y \in AcquisitionType /\ AcquisitionOK(y)
  BY <1>1, ReadChange
     DEF AcquisitionOK, ReadsCount, Remembers, CompleteIsCovered, AcquisitionType
<1>3. acquisition' = [acquisition EXCEPT ![a] = y]
  BY <1>1 DEF Becomes, BacklogInv, BacklogTypeOK
<1> HIDE DEF y
<1> QED
  BY <1>2, <1>3, OneAcquisition

\* Data that are at least as recent as the last announcement.
LEMMA BringsOK ==
  ASSUME BacklogInv, NEW a \in Acquisitions, NEW r \in Repositories,
         acquisition[a].step = "reading",
         NEW read \in Reads, NEW data, Counts(data, announced), UnchangedWorld,
         UNCHANGED cache,
         acquisition' = [acquisition EXCEPT ![a].reads[r] = read, ![a].used[r] = data]
  PROVE  BacklogInv'
<1> DEFINE x == acquisition[a]
           y == [[x EXCEPT !.reads[r] = read] EXCEPT !.used[r] = data]
<1>1. x \in AcquisitionType /\ AcquisitionOK(x) /\ data \in Nat /\ announced \in Nat
  BY DEF BacklogInv, BacklogTypeOK, Counts
<1>2. y \in AcquisitionType /\ AcquisitionOK(y)
  <2>1. y \in AcquisitionType /\ y.step = "reading" /\ y.generation = x.generation
        /\ y.announced = x.announced /\ y.used = [x.used EXCEPT ![r] = data]
        /\ y.reads = [x.reads EXCEPT ![r] = read]
    <3>1. x.step = "reading"
      OBVIOUS
    <3> HIDE DEF x
    <3> QED
      BY <1>1, <3>1 DEF AcquisitionType
  <2>2. x.announced \in Nat /\ x.used \in [Repositories -> Nat \cup {NoSnapshot}]
        /\ x.reads \in [Repositories -> Reads]
    BY <1>1 DEF AcquisitionType
  <2> HIDE DEF x, y
  <2>3. Counts(data, x.announced)
    BY <1>1, <2>2 DEF Counts, AcquisitionOK, Remembers
  <2>4. ReadsCount(y)
    BY <1>1, <2>1, <2>2, <2>3 DEF ReadsCount, AcquisitionOK
  <2> QED
    BY <1>1, <2>1, <2>4 DEF AcquisitionOK, Remembers, CompleteIsCovered
<1>3. acquisition' = [acquisition EXCEPT ![a] = y]
  BY <1>1 DEF BacklogInv, BacklogTypeOK
<1> HIDE DEF y
<1> QED
  BY <1>2, <1>3, OneAcquisition

-----------------------------------------------------------------------------
\* One action of an acquisition after the other.
LEMMA AcquireInv ==
  ASSUME BacklogInv, NEW a \in Acquisitions, Acquire(a)
  PROVE  BacklogInv'
<1> DEFINE x == acquisition[a]
<1>0. x \in AcquisitionType /\ AcquisitionOK(x) /\ BacklogTypeOK /\ WorldOK
  BY DEF BacklogInv, BacklogTypeOK
<1>1. CASE Begin(a)
  <2> DEFINE y == [Idle EXCEPT !.step = "scoping", !.generation = generation,
                               !.announced = announced]
  <2>1. y \in AcquisitionType /\ y.step = "scoping" /\ y.reads = Idle.reads
        /\ y.generation = generation /\ y.announced = announced
    BY <1>0, Beginning DEF BacklogTypeOK
  <2>2. acquisition' = [acquisition EXCEPT ![a] = y] /\ UnchangedWorld /\ UNCHANGED cache
    BY <1>1 DEF Begin
  <2> HIDE DEF y
  <2>3. \A r \in Repositories : y.reads[r] = "waiting"
    BY <2>1, IdleType
  <2>4. AcquisitionOK(y)
    BY <1>0, <2>1, <2>3
       DEF AcquisitionOK, ReadsCount, Remembers, CompleteIsCovered, BacklogTypeOK
  <2> QED
    BY <2>1, <2>2, <2>4, OneAcquisition
<1>2. ASSUME NEW wanted \in SUBSET Repositories, LoadScope(a, wanted) PROVE BacklogInv'
  <2> DEFINE scope == IF wanted = {} THEN members ELSE wanted
             y == [[x EXCEPT !.step = "reading"] EXCEPT !.scope = scope]
  <2>1. CASE connected /\ wanted \subseteq members
    <3>1. scope \in SUBSET Repositories
      BY <1>0 DEF BacklogTypeOK
    <3>2. /\ acquisition' = [acquisition EXCEPT ![a] = y] /\ UnchangedWorld
          /\ cache' = [r \in Repositories |-> IF r \in scope THEN cache[r] ELSE NoSnapshot]
      BY <1>2, <2>1, <1>0 DEF LoadScope, BacklogTypeOK
    <3> HIDE DEF scope
    <3>3. y \in AcquisitionType /\ y.step = "reading" /\ y.reads = x.reads
          /\ y.generation = x.generation /\ y.announced = x.announced /\ y.used = x.used
      <4> HIDE DEF x
      <4> QED
        BY <1>0, <3>1, Scoping
    <3> HIDE DEF y
    <3>4. AcquisitionOK(y)
      BY <1>0, <3>3 DEF AcquisitionOK, ReadsCount, Remembers, CompleteIsCovered
    <3>5. BacklogTypeOK' /\ WorldOK'
      BY <1>0, <3>2, <3>3 DEF BacklogTypeOK, WorldOK, Counts, UnchangedWorld
    <3>6. ASSUME NEW b \in Acquisitions PROVE AcquisitionOK(acquisition[b])'
      <4>1. AcquisitionOK(acquisition'[b])
        BY <1>0, <3>2, <3>4 DEF BacklogInv, BacklogTypeOK
      <4> QED
        BY <4>1, <3>2 DEF AcquisitionOK, ReadsCount, Remembers, CompleteIsCovered,
                          UnchangedWorld
    <3> QED
      BY <3>5, <3>6 DEF BacklogInv
  <2>2. CASE ~(connected /\ wanted \subseteq members)
    BY <1>2, <2>2, RefuseOK DEF LoadScope
  <2> QED
    BY <2>1, <2>2
<1>3. ASSUME NEW r \in Repositories, Look(a, r) PROVE BacklogInv'
  <2>1. x.step = "reading" /\ UnchangedWorld /\ UNCHANGED cache
    BY <1>3 DEF Look, Reading
  <2>2. CASE Authorized(a) /\ ~Becomes(a, r, "listing")
    <3>1. /\ cache[r] # NoSnapshot
          /\ acquisition' =
               [acquisition EXCEPT ![a].reads[r] = "covered", ![a].used[r] = cache[r]]
      BY <1>3, <2>2 DEF Look
    <3>2. Counts(cache[r], announced) /\ "covered" \in Reads
      BY <1>0, <3>1 DEF WorldOK, Reads
    <3> QED
      BY <2>1, <3>1, <3>2, BringsOK
  <2>3. CASE Becomes(a, r, "listing")
    BY <2>1, <2>3, BecomesOK DEF Reads
  <2>4. CASE ~Authorized(a)
    BY <1>3, <2>1, <2>4, RefuseOK DEF Look
  <2> QED
    BY <2>2, <2>3, <2>4
<1>4. ASSUME NEW r \in Repositories, List(a, r) PROVE BacklogInv'
  <2>1. x.step = "reading" /\ UnchangedWorld /\ UNCHANGED cache
    BY <1>4 DEF List, Reading
  <2>2. CASE acquisition' =
               [acquisition EXCEPT ![a].reads[r] = "listed", ![a].used[r] = moves]
    <3>1. Counts(moves, announced) /\ "listed" \in Reads
      BY <1>0 DEF WorldOK, BacklogTypeOK, Counts, Reads
    <3> QED
      BY <2>1, <2>2, <3>1, BringsOK
  <2>3. ASSUME NEW read \in {"denied", "unavailable"}, Becomes(a, r, read) PROVE BacklogInv'
    BY <2>1, <2>3, BecomesOK DEF Reads
  <2>4. CASE Refuse(a)
    BY <2>1, <2>4, RefuseOK
  <2> QED
    BY <1>4, <2>2, <2>3, <2>4 DEF List
<1>5. ASSUME NEW r \in Repositories, Store(a, r) PROVE BacklogInv'
  <2>1. x.step = "reading" /\ x.reads[r] = "listed" /\ UnchangedWorld
    BY <1>5 DEF Store, Reading
  <2>2. Counts(x.used[r], x.announced) /\ "covered" \in Reads
    BY <1>0, <2>1 DEF AcquisitionOK, ReadsCount, Reads
  <2>3. CASE Authorized(a)
    <3> DEFINE y == [x EXCEPT !.reads[r] = "covered"]
    <3>1. y \in AcquisitionType /\ AcquisitionOK(y)
      <4>1. y \in AcquisitionType /\ y.step = x.step /\ y.scope = x.scope
            /\ y.generation = x.generation /\ y.announced = x.announced
            /\ y.used = x.used /\ y.reads = [x.reads EXCEPT ![r] = "covered"]
        <5> HIDE DEF x
        <5> QED
          BY <1>0, <2>2, ReadChange
      <4>2. x.reads \in [Repositories -> Reads]
        BY <1>0 DEF AcquisitionType
      <4> HIDE DEF x, y
      <4> QED
        BY <1>0, <2>1, <2>2, <4>1, <4>2
           DEF AcquisitionOK, ReadsCount, Remembers, CompleteIsCovered
    <3>2. acquisition' = [acquisition EXCEPT ![a] = y]
      BY <1>0, <1>5, <2>3 DEF Store, Becomes, BacklogTypeOK
    <3>3. cache' = IF x.generation = generation THEN [cache EXCEPT ![r] = x.used[r]] ELSE cache
      BY <1>5, <2>3 DEF Store, Cacheable
    <3>4. x.generation = generation => Counts(x.used[r], announced)
      BY <1>0, <2>2 DEF AcquisitionOK, Remembers
    <3> HIDE DEF y
    <3>5. BacklogTypeOK' /\ WorldOK'
      BY <1>0, <2>1, <2>2, <3>1, <3>2, <3>3, <3>4
         DEF BacklogTypeOK, WorldOK, Counts, UnchangedWorld
    <3>6. ASSUME NEW b \in Acquisitions PROVE AcquisitionOK(acquisition[b])'
      <4>1. AcquisitionOK(acquisition'[b])
        BY <1>0, <3>1, <3>2 DEF BacklogInv, BacklogTypeOK
      <4> QED
        BY <4>1, <2>1 DEF AcquisitionOK, ReadsCount, Remembers, CompleteIsCovered,
                          UnchangedWorld
    <3> QED
      BY <3>5, <3>6 DEF BacklogInv
  <2>4. CASE ~Authorized(a)
    BY <1>5, <2>1, <2>4, RefuseOK DEF Store
  <2> QED
    BY <2>3, <2>4
<1>6. ASSUME NEW r \in Repositories, Probe(a, r) PROVE BacklogInv'
  <2>1. x.step = "reading" /\ UnchangedWorld /\ UNCHANGED cache
    BY <1>6 DEF Probe, Reading
  <2>2. CASE Becomes(a, r, "unavailable")
    BY <2>1, <2>2, BecomesOK DEF Reads
  <2>3. CASE Refuse(a)
    BY <2>1, <2>3, RefuseOK
  <2> QED
    BY <1>6, <2>2, <2>3 DEF Probe
<1>7. CASE Finish(a)
  BY <1>7, AnswerOK, RefuseOK DEF Finish
<1>8. CASE Expire(a)
  BY <1>8, AnswerOK DEF Expire
<1> QED
  BY <1>1, <1>2, <1>3, <1>4, <1>5, <1>6, <1>7, <1>8 DEF Acquire

\* The world around the acquisitions.
LEMMA WorldInv ==
  ASSUME BacklogInv, RequestReviewer \/ Invalidate \/ ConnectionChanges
  PROVE  BacklogInv'
<1>0. BacklogTypeOK /\ WorldOK /\ UNCHANGED acquisition
  BY DEF BacklogInv, RequestReviewer, Invalidate, ConnectionChanges
<1>1. BacklogTypeOK'
  <2>1. CASE RequestReviewer
    BY <1>0, <2>1 DEF BacklogTypeOK, RequestReviewer
  <2>2. CASE Invalidate
    BY <1>0, <2>2 DEF BacklogTypeOK, Invalidate
  <2>3. CASE ConnectionChanges
    <3>1. members' \in SUBSET Repositories /\ connected' \in BOOLEAN
      BY <1>0, <2>3 DEF BacklogTypeOK, ConnectionChanges
    <3> QED
      BY <1>0, <2>3, <3>1 DEF BacklogTypeOK, ConnectionChanges
  <2> QED
    BY <2>1, <2>2, <2>3
<1>2. WorldOK'
  BY <1>0 DEF BacklogTypeOK, WorldOK, RequestReviewer, Invalidate, ConnectionChanges, Counts
<1>3. ASSUME NEW a \in Acquisitions PROVE AcquisitionOK(acquisition[a])'
  <2> DEFINE x == acquisition[a]
  <2>1. x \in AcquisitionType /\ AcquisitionOK(x) /\ acquisition'[a] = x
    BY <1>0 DEF BacklogInv, BacklogTypeOK
  <2>2. x.generation \in Nat /\ x.announced \in Nat
    BY <2>1 DEF AcquisitionType
  <2> HIDE DEF x
  <2>3. /\ x.generation <= generation' /\ x.announced <= announced'
        /\ x.generation = generation' => x.announced = announced'
    BY <1>0, <2>1, <2>2 DEF BacklogTypeOK, WorldOK, AcquisitionOK, Remembers, RequestReviewer,
                            Invalidate, ConnectionChanges
  <2> QED
    BY <1>0, <2>1, <2>3 DEF AcquisitionOK, ReadsCount, CompleteIsCovered, Remembers, x
<1> QED
  BY <1>1, <1>2, <1>3 DEF BacklogInv

(* The generation is enough: data that are cached, or that an acquisition  *)
(* has read, count everything announced when it began                      *)
(* (reviewer-backlog.ts:72, :118 and :129).                                *)
THEOREM BacklogInvariant == BacklogSpec => []BacklogInv
<1>1. ASSUME BacklogInv, [BacklogNext]_backlogVars PROVE BacklogInv'
  <2>1. CASE UNCHANGED backlogVars
    <3>1. BacklogTypeOK' /\ WorldOK'
      BY <1>1, <2>1 DEF BacklogInv, BacklogTypeOK, WorldOK, Counts, backlogVars
    <3>2. \A a \in Acquisitions : AcquisitionOK(acquisition[a])'
      BY <1>1, <2>1 DEF BacklogInv, AcquisitionOK, ReadsCount, Remembers, CompleteIsCovered,
                        backlogVars
    <3> QED
      BY <3>1, <3>2 DEF BacklogInv
  <2>2. CASE BacklogNext
    BY <1>1, <2>2, AcquireInv, WorldInv DEF BacklogNext
  <2> QED
    BY <1>1, <2>1, <2>2
<1> QED
  BY <1>1, BacklogInitInv, PTL DEF BacklogSpec

(* However acquisitions, announcements and changes of the connection fall, *)
(* the loads an acquisition answers with count every request of the        *)
(* worker's own that was announced when it began.                          *)
THEOREM BacklogCountsOwnRequests == BacklogSpec => []OwnRequestsAreCounted
<1>1. BacklogInv => OwnRequestsAreCounted
  <2> SUFFICES ASSUME BacklogInv, NEW a \in Acquisitions, acquisition[a].step = "complete",
                      NEW r \in acquisition[a].scope
               PROVE  acquisition[a].used[r] >= acquisition[a].announced
    BY DEF OwnRequestsAreCounted
  <2>1. r \in Repositories /\ AcquisitionOK(acquisition[a])
    BY DEF BacklogInv, BacklogTypeOK, AcquisitionType
  <2> QED
    BY <2>1 DEF AcquisitionOK, CompleteIsCovered, ReadsCount, Counts
<1> QED
  BY <1>1, BacklogInvariant, PTL

-----------------------------------------------------------------------------
(* The writes of a routing run on its pull request.                        *)

Writes == {"run", "list labels", "labels", "comment", "approval", "request", "end"}

ActType ==
  [step : Writes \cup {"idle"}, decision : Pushes \cup {0}, page : Nat \ {0},
   item : {"sought", "found", "missing"}, others : SUBSET Tiers]

ActionsTypeOK ==
  /\ pushed \in Pushes
  /\ items \in [Lists -> Seq(Nat)]
  /\ labels \subseteq Tiers /\ asked \subseteq Pushes
  /\ act \in ActType /\ (act.step # "idle" => act.decision \in Pushes)
  /\ settled \in Pushes \cup {0} /\ (settled # 0 => act.step = "idle")

Exists(list, d) == \E n \in DOMAIN items[list] : items[list][n] = d

Unique(list, d) ==
  \A m, n \in DOMAIN items[list] : items[list][m] = d /\ items[list][n] = d => m = n

\* What the search has seen: the pages before the current one.
SearchFits ==
  /\ act.item # "sought" => act.step \in Lists
  /\ act.item = "found" => Exists(act.step, act.decision)
  /\ act.item = "missing" => ~Exists(act.step, act.decision)
  /\ act.step \in Lists /\ act.item = "sought" =>
       \A n \in DOMAIN items[act.step] :
         n <= act.page * PageSize - PageSize => items[act.step][n] # act.decision

\* What the attempt has written when it comes to a step.
ActFits ==
  LET d == act.decision IN
  /\ act.step \in Writes \ {"run"} => Exists("run", d)
  /\ act.step = "labels" => labels \subseteq act.others \cup {TierOf[d]}
  /\ act.step \in {"comment", "approval", "request", "end"} => labels \subseteq {TierOf[d]}
  /\ act.step \in {"approval", "request", "end"} => Exists("comment", d)
  /\ act.step = "approval" => RouteOf[d] = "no_human"
  /\ act.step = "request" => RouteOf[d] = "human_review"
  /\ act.step = "end" => /\ RouteOf[d] = "no_human" => Exists("approval", d)
                         /\ RouteOf[d] = "human_review" => d \in asked

SettledFits ==
  settled # 0 =>
    /\ Exists("run", settled) /\ Exists("comment", settled)
    /\ labels \subseteq {TierOf[settled]}
    /\ RouteOf[settled] = "no_human" => Exists("approval", settled)
    /\ RouteOf[settled] = "human_review" => settled \in asked

ActionsInv ==
  /\ ActionsTypeOK
  /\ \A list \in Lists, d \in Pushes : Unique(list, d)
  /\ SearchFits /\ ActFits /\ SettledFits

\* Decisions are positive numbers, other people's items have none.
LEMMA PushesAreNumbers == Pushes \subseteq Nat \ {0} /\ 1 \in Pushes
<1>1. PICK n \in Nat : n = Cardinality(Pushes)
  BY RoutingActionsAssumption, FS_CardinalityType
<1>2. Pushes = 1 .. n /\ Pushes # {}
  BY <1>1, RoutingActionsAssumption
<1> QED
  BY <1>2

\* A page holds the items of its numbers.
LEMMA PageIs ==
  ASSUME ActionsTypeOK, NEW list \in Lists, NEW page \in Nat \ {0}
  PROVE  LET s == items[list]  last == page * PageSize  p == Page(list, page) IN
         /\ last \in Nat /\ last - PageSize \in Nat
         /\ \A n \in DOMAIN p : last - PageSize + n \in DOMAIN s /\ p[n] = s[last - PageSize + n]
         /\ \A n \in DOMAIN s : n > last - PageSize /\ n <= last =>
              n - last + PageSize \in DOMAIN p
         /\ LastPage(p) => Len(s) < last
<1>1. PICK size \in Nat \ {0} : size = PageSize
  BY RoutingActionsAssumption
<1>2. PICK s \in Seq(Nat) : s = items[list]
  BY DEF ActionsTypeOK
<1>3. PICK last \in Nat : last = page * PageSize /\ last >= size
  <2>1. page = (page - 1) + 1 /\ page - 1 \in Nat
    OBVIOUS
  <2>2. page * size = (page - 1) * size + size /\ (page - 1) * size \in Nat
    BY <2>1
  <2> QED
    BY <1>1, <2>2
<1>4. PICK from \in Nat, end \in Nat :
        from = last - size + 1 /\ end = IF last < Len(s) THEN last ELSE Len(s)
  BY <1>3
<1>5. PICK p : p = SubSeq(s, from, end)
  OBVIOUS
<1>6. p = Page(list, page)
  BY <1>1, <1>2, <1>3, <1>4, <1>5 DEF Page
<1>7. /\ Len(p) = IF from <= end THEN end - from + 1 ELSE 0
      /\ p \in Seq(Nat) /\ \A n \in 1 .. end - from + 1 : p[n] = s[from + n - 1]
  <2>1. \A n \in from .. end : s[n] \in Nat
    BY <1>3, <1>4
  <2>2. from \in Int /\ end \in Int
    OBVIOUS
  <2> QED
    BY <1>5, <2>1, <2>2, SubSeqProperties
<1>8. PICK length \in Nat, count \in Nat :
        /\ length = Len(s) /\ DOMAIN s = 1 .. length
        /\ count = Len(p) /\ DOMAIN p = 1 .. count
  <2>1. Len(s) \in Nat /\ DOMAIN s = 1 .. Len(s)
    OBVIOUS
  <2>2. Len(p) \in Nat /\ DOMAIN p = 1 .. Len(p)
    BY <1>7
  <2> QED
    BY <2>1, <2>2
<1>9. /\ end <= last /\ end <= length /\ (end = last \/ end = length)
      /\ from <= end => count = end - from + 1
      /\ from > end => count = 0
  BY <1>4, <1>7, <1>8
<1>10. ASSUME NEW n \in 1 .. count
       PROVE  last - size + n \in 1 .. length /\ p[n] = s[last - size + n]
  <2>1. /\ n \in 1 .. end - from + 1 /\ from + n - 1 = last - size + n
        /\ from + n - 1 \in 1 .. length
    BY <1>1, <1>3, <1>4, <1>8, <1>9, <1>10
  <2> QED
    BY <1>7, <2>1
<1>11. ASSUME NEW n \in 1 .. length, n > last - size, n <= last PROVE n - last + size \in 1 .. count
  BY <1>1, <1>3, <1>4, <1>8, <1>9, <1>11
<1>12. ASSUME LastPage(p) PROVE length < last
  <2>1. count < size
    BY <1>1, <1>8, <1>12 DEF LastPage
  <2> QED
    BY <1>1, <1>3, <1>4, <1>8, <1>9, <2>1
<1>13. last \in Nat /\ last - size \in Nat
  BY <1>1, <1>3
<1>14. \A n \in DOMAIN p : last - size + n \in DOMAIN s /\ p[n] = s[last - size + n]
  BY <1>8, <1>10, Zenon
<1>15. \A n \in DOMAIN s : n > last - size /\ n <= last => n - last + size \in DOMAIN p
  BY <1>8, <1>11, Zenon
<1>16. LastPage(p) => Len(s) < last
  BY <1>8, <1>12, Zenon
<1> QED
  BY <1>1, <1>2, <1>3, <1>6, <1>13, <1>14, <1>15, <1>16, Zenon

\* An item is added to a list.
LEMMA ItemAdded ==
  ASSUME ActionsTypeOK, NEW list \in Lists, NEW x \in Nat,
         items' = [items EXCEPT ![list] = Append(@, x)]
  PROVE  /\ items' \in [Lists -> Seq(Nat)]
         /\ \A l \in Lists, d \in Pushes : Exists(l, d) => Exists(l, d)'
         /\ \A l \in Lists, d \in Pushes : Exists(l, d)' => Exists(l, d) \/ (l = list /\ d = x)
         /\ \A l \in Lists : \A n \in DOMAIN items'[l] :
              \/ n \in DOMAIN items[l] /\ items'[l][n] = items[l][n]
              \/ l = list /\ items'[l][n] = x
         /\ Exists(list, x)'
         /\ \A l \in Lists, d \in Pushes :
              Unique(l, d) /\ (l = list /\ d = x => ~Exists(l, d)) => Unique(l, d)'
<1>1. PICK s \in Seq(Nat) : s = items[list]
  BY DEF ActionsTypeOK
<1>2. PICK length \in Nat : length = Len(s) /\ DOMAIN s = 1 .. length
  OBVIOUS
<1>3. PICK t \in Seq(Nat) : /\ t = Append(s, x) /\ DOMAIN t = 1 .. length + 1
                            /\ t[length + 1] = x /\ \A n \in 1 .. length : t[n] = s[n]
  <2>1. Append(s, x) \in Seq(Nat) /\ Len(Append(s, x)) = length + 1
    BY <1>2
  <2>2. DOMAIN Append(s, x) = 1 .. length + 1
    BY <2>1
  <2>3. Append(s, x)[length + 1] = x /\ \A n \in 1 .. length : Append(s, x)[n] = s[n]
    BY <1>2
  <2> QED
    BY <2>1, <2>2, <2>3
<1>4. items' = [items EXCEPT ![list] = t]
  BY <1>1, <1>3 DEF ActionsTypeOK
<1>5. items' \in [Lists -> Seq(Nat)] /\ items'[list] = t /\ \A l \in Lists \ {list} : items'[l] = items[l]
  BY <1>4 DEF ActionsTypeOK
<1>6. \A n \in 1 .. length + 1 : n \in 1 .. length \/ n = length + 1
  BY <1>2
<1>7. length + 1 \in 1 .. length + 1 /\ \A n \in 1 .. length : n \in 1 .. length + 1
  BY <1>2
<1>8. ASSUME NEW l \in Lists, NEW d \in Pushes, Exists(l, d) PROVE Exists(l, d)'
  <2>1. CASE l = list
    BY <1>1, <1>2, <1>3, <1>5, <1>7, <1>8, <2>1, Zenon DEF Exists
  <2>2. CASE l # list
    BY <1>5, <1>8, <2>2 DEF Exists
  <2> QED
    BY <2>1, <2>2
<1>9. ASSUME NEW l \in Lists, NEW n \in DOMAIN items'[l]
      PROVE  \/ n \in DOMAIN items[l] /\ items'[l][n] = items[l][n]
             \/ l = list /\ items'[l][n] = x
  <2>1. CASE l = list
    BY <1>1, <1>2, <1>3, <1>5, <1>6, <1>9, <2>1, Zenon
  <2>2. CASE l # list
    BY <1>5, <1>9, <2>2
  <2> QED
    BY <2>1, <2>2
<1>10. ASSUME NEW l \in Lists, NEW d \in Pushes, Exists(l, d)'
       PROVE  Exists(l, d) \/ (l = list /\ d = x)
  BY <1>9, <1>10, Zenon DEF Exists
<1>11. Exists(list, x)'
  BY <1>3, <1>5, <1>7 DEF Exists
<1>12. ASSUME NEW l \in Lists, NEW d \in Pushes, Unique(l, d), l = list /\ d = x => ~Exists(l, d)
       PROVE  Unique(l, d)'
  <2>1. CASE l # list
    BY <1>5, <1>12, <2>1 DEF Unique
  <2>2. CASE l = list
    <3>1. ASSUME NEW m \in 1 .. length + 1, NEW n \in 1 .. length + 1, t[m] = d, t[n] = d
          PROVE  m = n
      <4>1. CASE d # x
        <5>1. m \in 1 .. length /\ n \in 1 .. length
          BY <1>3, <1>6, <3>1, <4>1
        <5> QED
          BY <1>1, <1>2, <1>3, <1>12, <2>2, <3>1, <5>1, Zenon DEF Unique
      <4>2. CASE d = x
        <5>1. \A k \in 1 .. length : s[k] # d
          BY <1>1, <1>2, <1>12, <2>2, <4>2, Zenon DEF Exists
        <5>2. m = length + 1 /\ n = length + 1
          BY <1>3, <1>6, <3>1, <5>1
        <5> QED
          BY <5>2
      <4> QED
        BY <4>1, <4>2
    <3>2. items'[l] = t
      BY <1>5, <2>2
    <3> QED
      BY <1>3, <3>1, <3>2, Zenon DEF Unique
  <2> QED
    BY <2>1, <2>2
<1> QED
  BY <1>5, <1>8, <1>9, <1>10, <1>11, <1>12

\* The fields of an attempt that goes on.
LEMMA AfterStep ==
  ASSUME ActionsTypeOK, NEW step \in Writes, Step(step)
  PROVE  /\ act' \in ActType
         /\ act'.step = step /\ act'.decision = act.decision /\ act'.page = 1
         /\ act'.item = "sought"
<1>1. act \in ActType
  BY DEF ActionsTypeOK
<1>2. act' = [act EXCEPT !.step = step, !.page = 1, !.item = "sought"]
  BY DEF Step
<1>3. 1 \in Nat \ {0} /\ step \in Writes \cup {"idle"}
  OBVIOUS
<1> HIDE DEF Writes
<1> QED
  BY <1>1, <1>2, <1>3 DEF ActType

LEMMA AfterEnd ==
  ASSUME act' = NoAct
  PROVE  /\ act' \in ActType /\ act'.step = "idle" /\ SearchFits' /\ ActFits'
BY DEF NoAct, ActType, SearchFits, ActFits, Lists, Writes

\* A search starts before the first item.
LEMMA SearchStarts ==
  ASSUME ActionsTypeOK', act'.page = 1, act'.item = "sought"
  PROVE  SearchFits'
<1>1. PICK size \in Nat : size = PageSize
  BY RoutingActionsAssumption
<1>2. PageSize' = PageSize
  OBVIOUS
<1>3. ASSUME act'.step \in Lists, NEW n \in DOMAIN items'[act'.step]
      PROVE  ~(n <= act'.page * PageSize - PageSize)
  <2>1. PICK s \in Seq(Nat) : s = items'[act'.step]
    BY <1>3 DEF ActionsTypeOK
  <2>2. n \in 1 .. Len(s) /\ Len(s) \in Nat
    BY <1>3, <2>1
  <2>3. act'.page * PageSize - PageSize = 0
    BY <1>1
  <2> QED
    BY <2>2, <2>3
<1> QED
  BY <1>3 DEF SearchFits

\* Nothing of what exists changes.
LEMMA SameItems ==
  ASSUME UNCHANGED items
  PROVE  \A l \in Lists, d \in Pushes : (Exists(l, d)' <=> Exists(l, d)) /\ (Unique(l, d)' <=> Unique(l, d))
BY DEF Exists, Unique

\* An attempt, or nobody, goes on: what is settled stays so.
LEMMA Settles ==
  ASSUME ActionsInv, UNCHANGED settled, \A l \in Lists, d \in Pushes : Exists(l, d) => Exists(l, d)',
         settled # 0 => labels' \subseteq labels /\ asked \subseteq asked'
  PROVE  SettledFits'
<1>1. settled # 0 => settled \in Pushes
  BY DEF ActionsInv, ActionsTypeOK
<1>2. "run" \in Lists /\ "comment" \in Lists /\ "approval" \in Lists
  BY DEF Lists
<1> SUFFICES ASSUME settled # 0 PROVE SettledFits'
  BY DEF SettledFits
<1>3. /\ Exists("run", settled) => Exists("run", settled)'
      /\ Exists("comment", settled) => Exists("comment", settled)'
      /\ Exists("approval", settled) => Exists("approval", settled)'
  BY <1>1, <1>2
<1> QED
  BY <1>3 DEF ActionsInv, SettledFits

\* Nobody has settled while an attempt writes.
LEMMA Unsettled ==
  ASSUME ActionsInv, act.step # "idle"
  PROVE  settled = 0 /\ act.decision \in Pushes
BY DEF ActionsInv, ActionsTypeOK

\* An attempt goes on, or ends.
LEMMA Proceeds ==
  ASSUME ActionsInv, act.step # "idle", UNCHANGED <<pushed, settled>>,
         labels' \subseteq Tiers, asked' \subseteq Pushes,
         items' \in [Lists -> Seq(Nat)], \A l \in Lists, d \in Pushes : Unique(l, d)',
         act' \in ActType, act'.decision = act.decision \/ act'.step = "idle",
         SearchFits', ActFits'
  PROVE  ActionsInv'
<1>1. settled = 0 /\ act.decision \in Pushes
  BY Unsettled
<1>2. ActionsTypeOK'
  BY <1>1 DEF ActionsInv, ActionsTypeOK
<1>3. SettledFits'
  BY <1>1 DEF SettledFits
<1> QED
  BY <1>2, <1>3 DEF ActionsInv

\* ... with a request, or between two.
LEMMA Takes ==
  ASSUME ActionsInv, act.step # "idle", UNCHANGED <<pushed, settled>>,
         labels' \subseteq Tiers, asked' \subseteq Pushes,
         items' \in [Lists -> Seq(Nat)], \A l \in Lists, d \in Pushes : Unique(l, d)',
         NEW step \in Writes, Step(step) \/ act' = NoAct, Step(step) => ActFits'
  PROVE  ActionsInv'
<1>1. CASE act' = NoAct
  <2>1. act' \in ActType /\ act'.step = "idle" /\ SearchFits' /\ ActFits'
    BY <1>1, AfterEnd
  <2> QED
    BY <2>1, Proceeds
<1>2. CASE Step(step)
  <2>1. /\ act' \in ActType
        /\ act'.step = step /\ act'.decision = act.decision /\ act'.page = 1
        /\ act'.item = "sought"
    BY <1>2, AfterStep DEF ActionsInv
  <2>2. SearchFits'
    <3>1. act.decision \in Pushes /\ settled = 0
      BY Unsettled
    <3>2. ActionsTypeOK'
      BY <2>1, <3>1 DEF ActionsInv, ActionsTypeOK
    <3> QED
      BY <2>1, <3>2, SearchStarts
  <2> QED
    BY <1>2, <2>1, <2>2, Proceeds
<1> QED
  BY <1>1, <1>2

LEMMA ItemsKept ==
  ASSUME ActionsInv, UNCHANGED items
  PROVE  items' \in [Lists -> Seq(Nat)] /\ \A l \in Lists, d \in Pushes : Unique(l, d)'
BY SameItems DEF ActionsInv, ActionsTypeOK

\* An item is written: what follows finds it.
LEMMA AfterWriteFits ==
  ASSUME ActionsInv, NEW list \in Lists, act.step = list, Step(AfterWrite(list)),
         NEW d \in Pushes, d = act.decision, Exists(list, d)', UNCHANGED <<labels, asked>>,
         \A l \in Lists, e \in Pushes : Exists(l, e) => Exists(l, e)'
  PROVE  ActFits'
<1>0. act.step # "idle" /\ "run" \in Lists /\ "comment" \in Lists /\ "approval" \in Lists
  BY DEF Lists
<1>1. ActFits /\ ActionsTypeOK
  BY DEF ActionsInv
<1>2. CASE list = "run"
  <2>1. Step("list labels") /\ "list labels" \in Writes
    BY <1>2 DEF AfterWrite, Writes
  <2>2. act'.step = "list labels" /\ act'.decision = d
    BY <1>1, <2>1, AfterStep
  <2>3. Exists("run", d)'
    BY <1>2
  <2> QED
    BY <2>2, <2>3 DEF ActFits, Writes
<1>3. CASE list = "comment"
  <2>1. Exists("run", d) /\ labels \subseteq {TierOf[d]}
    BY <1>1, <1>3 DEF ActFits, Writes
  <2>2. Exists("run", d)' /\ Exists("comment", d)'
    BY <1>0, <1>3, <2>1
  <2>3. /\ RouteOf[d] = "no_human" => Step("approval")
        /\ RouteOf[d] = "human_review" => Step("request")
        /\ RouteOf[d] \notin {"no_human", "human_review"} => Step("end")
    BY <1>3 DEF AfterWrite
  <2>4. "approval" \in Writes /\ "request" \in Writes /\ "end" \in Writes
    BY DEF Writes
  <2>5. /\ act'.decision = d
        /\ RouteOf[d] = "no_human" => act'.step = "approval"
        /\ RouteOf[d] = "human_review" => act'.step = "request"
        /\ RouteOf[d] \notin {"no_human", "human_review"} => act'.step = "end"
    BY <1>1, <2>3, <2>4, AfterStep
  <2> QED
    BY <2>1, <2>2, <2>5 DEF ActFits
<1>4. CASE list = "approval"
  <2>1. /\ Exists("run", d) /\ Exists("comment", d) /\ labels \subseteq {TierOf[d]}
        /\ RouteOf[d] = "no_human"
    BY <1>1, <1>4 DEF ActFits, Writes
  <2>2. Exists("run", d)' /\ Exists("comment", d)' /\ Exists("approval", d)'
    BY <1>0, <1>4, <2>1
  <2>3. Step("end") /\ "end" \in Writes
    BY <1>4 DEF AfterWrite, Writes
  <2>4. act'.step = "end" /\ act'.decision = d
    BY <1>1, <2>3, AfterStep
  <2> QED
    BY <2>1, <2>2, <2>4 DEF ActFits
<1> QED
  BY <1>2, <1>3, <1>4 DEF Lists

LEMMA AfterWriteIs ==
  ASSUME NEW list \in Lists
  PROVE  AfterWrite(list) \in Writes
<1>1. CASE list = "run"
  BY <1>1 DEF AfterWrite, Writes
<1>2. CASE list = "comment"
  BY <1>2 DEF AfterWrite, Writes
<1>3. CASE list = "approval"
  BY <1>3 DEF AfterWrite, Writes
<1> QED
  BY <1>1, <1>2, <1>3 DEF Lists

LEMMA BeginActionsFits == ASSUME ActionsInv, NEW d \in Pushes, BeginActions(d) PROVE ActionsInv'
<1>1. UNCHANGED <<pushed, items, labels, asked>> /\ act.step = "idle"
  BY DEF BeginActions
<1>2. /\ items' \in [Lists -> Seq(Nat)] /\ \A l \in Lists, e \in Pushes : Unique(l, e)'
      /\ \A l \in Lists, e \in Pushes : Exists(l, e) => Exists(l, e)'
  BY <1>1, ItemsKept, SameItems
<1>3. CASE d = pushed
  <2>1. act' = [NoAct EXCEPT !.step = "run", !.decision = d] /\ settled' = 0
    BY <1>3 DEF BeginActions
  <2>2. /\ act'.step = "run" /\ act'.decision = d /\ act'.page = 1 /\ act'.item = "sought"
        /\ act'.others = {}
    BY <2>1 DEF NoAct
  <2>3. act' \in ActType
    <3>1. [NoAct EXCEPT !.step = "run"] = [step |-> "run", decision |-> 0, page |-> 1,
                                          item |-> "sought", others |-> {}]
      BY DEF NoAct
    <3>2. act' = [step |-> "run", decision |-> d, page |-> 1, item |-> "sought", others |-> {}]
      BY <2>1, <3>1
    <3> QED
      BY <3>2 DEF ActType, Writes
  <2>4. ActionsTypeOK'
    BY <1>1, <1>2, <2>1, <2>2, <2>3 DEF ActionsInv, ActionsTypeOK
  <2>5. SearchFits'
    BY <2>2, <2>4, SearchStarts
  <2>6. ActFits' /\ SettledFits'
    BY <2>1, <2>2 DEF ActFits, SettledFits
  <2> QED
    BY <1>2, <2>4, <2>5, <2>6 DEF ActionsInv
<1>4. CASE d # pushed
  <2>1. UNCHANGED <<act, settled>>
    BY <1>4 DEF BeginActions
  <2>2. SettledFits'
    BY <1>1, <1>2, <2>1, Settles
  <2>3. ActionsTypeOK'
    BY <1>1, <1>2, <2>1 DEF ActionsInv, ActionsTypeOK
  <2>4. SearchFits' /\ ActFits'
    BY <1>1, <2>1 DEF ActionsInv, SearchFits, ActFits, Lists, Writes
  <2> QED
    BY <1>2, <2>2, <2>3, <2>4 DEF ActionsInv
<1> QED
  BY <1>3, <1>4

\* Nothing an attempt has found is lost while it stays at its step.
LEMMA AttemptStays ==
  ASSUME ActionsInv, NEW step, NEW d, step = act.step, d = act.decision,
         act'.step = step, act'.decision = d, step = "labels" => act'.others = act.others,
         \A l \in Lists, e \in Pushes : Exists(l, e) => Exists(l, e)',
         labels' \subseteq labels, asked \subseteq asked'
  PROVE  ActFits'
<1>1. CASE step = "idle"
  BY <1>1 DEF ActFits, Writes
<1>2. CASE step # "idle"
  <2>1. d \in Pushes
    BY <1>2 DEF ActionsInv, ActionsTypeOK
  <2>2. /\ Exists("run", d) => Exists("run", d)'
        /\ Exists("comment", d) => Exists("comment", d)'
        /\ Exists("approval", d) => Exists("approval", d)'
    BY <2>1 DEF Lists
  <2>3. ActFits
    BY DEF ActionsInv
  <2>4. step \in Writes \ {"run"} => Exists("run", d)'
    BY <2>2, <2>3 DEF ActFits
  <2>5. step \in {"approval", "request", "end"} => Exists("comment", d)'
    BY <2>2, <2>3 DEF ActFits
  <2>6. step = "labels" => labels' \subseteq act'.others \cup {TierOf[d]}
    BY <2>3 DEF ActFits
  <2>7. step \in {"comment", "approval", "request", "end"} => labels' \subseteq {TierOf[d]}
    BY <2>3 DEF ActFits
  <2>8. /\ step = "approval" => RouteOf[d] = "no_human"
        /\ step = "request" => RouteOf[d] = "human_review"
    BY <2>3 DEF ActFits
  <2>9. step = "end" => /\ RouteOf[d] = "no_human" => Exists("approval", d)'
                        /\ RouteOf[d] = "human_review" => d \in asked'
    BY <2>2, <2>3 DEF ActFits
  <2> QED
    BY <2>4, <2>5, <2>6, <2>7, <2>8, <2>9 DEF ActFits
<1> QED
  BY <1>1, <1>2

LEMMA SearchStep == ASSUME ActionsInv, NEW list \in Lists, Search(list) PROVE ActionsInv'
<1>1. /\ act.step = list /\ act.item = "sought" /\ act.step # "idle"
      /\ UNCHANGED <<pushed, items, labels, asked, settled>>
  BY DEF Search, Lists
<1>d. PICK d \in Pushes : d = act.decision
  BY <1>1, Unsettled
<1>n. PICK number \in Nat \ {0} : number = act.page
  BY DEF ActionsInv, ActionsTypeOK, ActType
<1>p. PICK page : page = Page(list, number)
  OBVIOUS
<1>s. PICK s \in Seq(Nat) : s = items[list]
  BY DEF ActionsInv, ActionsTypeOK
<1>z. PICK size \in Nat \ {0} : size = PageSize
  BY RoutingActionsAssumption
<1>2. PICK last \in Nat :
        /\ last = number * size /\ last - size \in Nat
        /\ \A n \in DOMAIN page : last - size + n \in DOMAIN s /\ page[n] = s[last - size + n]
        /\ \A n \in DOMAIN s : n > last - size /\ n <= last => n - last + size \in DOMAIN page
        /\ LastPage(page) => Len(s) < last
  BY <1>p, <1>s, <1>z, PageIs, Zenon DEF ActionsInv
<1>3. \A n \in DOMAIN s : n <= last - size => s[n] # d
  BY <1>1, <1>2, <1>d, <1>n, <1>s, <1>z DEF ActionsInv, SearchFits
<1>4. DOMAIN s = 1 .. Len(s) /\ Len(s) \in Nat
  OBVIOUS
<1>5. ASSUME \A n \in DOMAIN page : page[n] # d, NEW n \in DOMAIN s, n <= last
      PROVE  s[n] # d
  <2>1. CASE n <= last - size
    BY <1>3, <1>5, <2>1
  <2>2. CASE n > last - size
    <3>1. n - last + size \in DOMAIN page
      BY <1>2, <1>5, <2>2
    <3>2. PICK m : m = n - last + size
      OBVIOUS
    <3>3. m \in DOMAIN page /\ page[m] = s[last - size + m] /\ page[m] # d
      BY <1>2, <1>5, <3>1, <3>2
    <3>4. last - size + m = n
      BY <1>2, <1>4, <1>5, <1>z, <3>2
    <3> QED
      BY <3>3, <3>4
  <2> QED
    BY <1>2, <1>4, <1>5, <1>z, <2>1, <2>2
<1>6. /\ items' \in [Lists -> Seq(Nat)] /\ \A l \in Lists, e \in Pushes : Unique(l, e)'
  BY <1>1, ItemsKept
<1>t. labels' \subseteq Tiers /\ asked' \subseteq Pushes
  BY <1>1 DEF ActionsInv, ActionsTypeOK
<1>7. ASSUME NEW a \in ActType, act' = a, a.step = list, a.decision = d, SearchFits'
      PROVE  ActionsInv'
  <2>1. ActFits'
    <3>1. \A l \in Lists, e \in Pushes : Exists(l, e) => Exists(l, e)'
      BY <1>1, SameItems
    <3>2. list # "labels"
      BY DEF Lists
    <3>3. act'.step = list /\ act'.decision = d /\ labels' \subseteq labels /\ asked \subseteq asked'
      BY <1>1, <1>7
    <3> QED
      BY <1>1, <1>d, <3>1, <3>2, <3>3, AttemptStays, Zenon
  <2> QED
    BY <1>1, <1>6, <1>7, <1>d, <1>t, <2>1, Proceeds
<1>8. act \in ActType
  BY DEF ActionsInv, ActionsTypeOK
<1>9. CASE \E n \in DOMAIN page : page[n] = d
  <2>1. act' = [act EXCEPT !.item = "found"]
    BY <1>9, <1>d, <1>n, <1>p DEF Search
  <2>2. PICK a : a = [act EXCEPT !.item = "found"]
    OBVIOUS
  <2>3. a \in ActType /\ a.step = list /\ a.decision = d /\ a.item = "found"
    BY <1>1, <1>8, <1>d, <2>2 DEF ActType
  <2>4. \E n \in DOMAIN s : s[n] = d
    BY <1>2, <1>9
  <2>5. SearchFits'
    BY <1>1, <1>s, <2>1, <2>2, <2>3, <2>4 DEF SearchFits, Exists
  <2> QED
    BY <1>1, <1>7, <1>d, <2>1, <2>2, <2>3, <2>5
<1>10. CASE (\A n \in DOMAIN page : page[n] # d) /\ LastPage(page)
  <2>1. act' = [act EXCEPT !.item = "missing"]
    BY <1>10, <1>d, <1>n, <1>p DEF Search
  <2>2. PICK a : a = [act EXCEPT !.item = "missing"]
    OBVIOUS
  <2>3. a \in ActType /\ a.step = list /\ a.decision = d /\ a.item = "missing"
    BY <1>1, <1>8, <1>d, <2>2 DEF ActType
  <2>4. \A n \in DOMAIN s : s[n] # d
    <3> TAKE n \in DOMAIN s
    <3>1. n <= last
      BY <1>2, <1>4, <1>10
    <3> QED
      BY <1>5, <1>10, <3>1
  <2>5. SearchFits'
    BY <1>1, <1>s, <2>1, <2>2, <2>3, <2>4 DEF SearchFits, Exists
  <2> QED
    BY <1>1, <1>7, <1>d, <2>1, <2>2, <2>3, <2>5
<1>11. CASE (\A n \in DOMAIN page : page[n] # d) /\ ~LastPage(page)
  <2>1. act' = [act EXCEPT !.page = @ + 1]
    BY <1>11, <1>d, <1>n, <1>p DEF Search
  <2>2. PICK a : a = [act EXCEPT !.page = @ + 1]
    OBVIOUS
  <2>3. /\ a \in ActType /\ a.step = list /\ a.decision = d /\ a.item = "sought"
        /\ a.page = number + 1
    BY <1>1, <1>8, <1>d, <1>n, <2>2 DEF ActType
  <2>4. \A n \in DOMAIN s : n <= last => s[n] # d
    BY <1>5, <1>11
  <2>5. (number + 1) * PageSize - PageSize = last
    <3>1. (number + 1) * size = number * size + size
      OBVIOUS
    <3> QED
      BY <1>2, <1>z, <3>1
  <2>6. act' = a /\ items' = items
    BY <1>1, <2>1, <2>2
  <2>7. SearchFits'
    <3>1. act'.page * PageSize - PageSize = last
      BY <2>3, <2>5, <2>6
    <3>2. \A n \in DOMAIN items'[act'.step] :
            n <= act'.page * PageSize - PageSize => items'[act'.step][n] # act'.decision
      BY <1>s, <2>3, <2>4, <2>6, <3>1, Zenon
    <3> QED
      BY <2>3, <2>6, <3>2 DEF SearchFits
  <2> QED
    BY <1>1, <1>7, <1>d, <2>3, <2>6, <2>7
<1> QED
  BY <1>9, <1>10, <1>11

\* What was found is written over, or kept.
LEMMA UpdateFits ==
  ASSUME ActionsInv, (\E list \in Lists : Update(list)) \/ KeepApproval
  PROVE  ActionsInv'
<1>1. PICK list \in Lists : /\ act.step = list /\ act.item = "found"
                            /\ UNCHANGED <<pushed, items, labels, asked, settled>>
                            /\ Step(AfterWrite(list))
  <2>1. CASE KeepApproval
    <3>1. AfterWrite("approval") = "end"
      BY DEF AfterWrite
    <3> QED
      BY <2>1, <3>1 DEF KeepApproval, Lists
  <2>2. CASE \E list \in Lists : Update(list)
    BY <2>2 DEF Update
  <2> QED
    BY <2>1, <2>2
<1>2. act.step # "idle"
  BY <1>1 DEF Lists
<1>3. PICK d \in Pushes : d = act.decision
  BY <1>2, Unsettled
<1>4. \A l \in Lists, e \in Pushes : Exists(l, e) => Exists(l, e)'
  BY <1>1, SameItems
<1>5. Exists(list, d)'
  <2>1. Exists(list, d)
    BY <1>1, <1>3 DEF ActionsInv, SearchFits
  <2> QED
    BY <1>4, <2>1
<1>6. ActFits'
  BY <1>1, <1>3, <1>4, <1>5, AfterWriteFits
<1>7. /\ items' \in [Lists -> Seq(Nat)] /\ \A l \in Lists, e \in Pushes : Unique(l, e)'
  BY <1>1, ItemsKept
<1>8. labels' \subseteq Tiers /\ asked' \subseteq Pushes
  BY <1>1 DEF ActionsInv, ActionsTypeOK
<1> QED
  BY <1>1, <1>2, <1>6, <1>7, <1>8, AfterWriteIs, Takes

LEMMA CreateFits ==
  ASSUME ActionsInv, NEW list \in Lists, NEW answered \in BOOLEAN, Create(list, answered)
  PROVE  ActionsInv'
<1>1. act.step = list /\ act.item = "missing" /\ act.step # "idle"
  BY DEF Create, Lists
<1>2. PICK d \in Pushes : d = act.decision
  BY <1>1, Unsettled
<1>3. /\ items' = [items EXCEPT ![list] = Append(@, d)]
      /\ UNCHANGED <<pushed, labels, asked, settled>>
      /\ Step(AfterWrite(list)) \/ act' = NoAct
  BY <1>2 DEF Create, Sent
<1>4. d \in Nat
  BY PushesAreNumbers
<1>5. ActionsTypeOK
  BY DEF ActionsInv
<1>6. /\ items' \in [Lists -> Seq(Nat)]
      /\ \A l \in Lists, e \in Pushes : Exists(l, e) => Exists(l, e)'
      /\ Exists(list, d)'
      /\ \A l \in Lists, e \in Pushes :
           Unique(l, e) /\ (l = list /\ e = d => ~Exists(l, e)) => Unique(l, e)'
  BY <1>3, <1>4, <1>5, ItemAdded
<1>7. ~Exists(list, d)
  BY <1>1, <1>2 DEF ActionsInv, SearchFits
<1>8. \A l \in Lists, e \in Pushes : Unique(l, e)'
  BY <1>6, <1>7 DEF ActionsInv
<1>9. Step(AfterWrite(list)) => ActFits'
  BY <1>1, <1>2, <1>3, <1>6, AfterWriteFits
<1>10. labels' \subseteq Tiers /\ asked' \subseteq Pushes
  BY <1>3 DEF ActionsInv, ActionsTypeOK
<1> QED
  BY <1>1, <1>3, <1>6, <1>8, <1>9, <1>10, AfterWriteIs, Takes

LEMMA ListLabelsFits == ASSUME ActionsInv, ListLabels PROVE ActionsInv'
<1>1. /\ act.step = "list labels" /\ act.step # "idle"
      /\ UNCHANGED <<pushed, items, labels, asked, settled>>
  BY DEF ListLabels
<1>2. PICK d \in Pushes : d = act.decision
  BY <1>1, Unsettled
<1>3. act \in ActType
  BY DEF ActionsInv, ActionsTypeOK
<1>4. act.item = "sought"
  BY <1>1, <1>3 DEF ActionsInv, SearchFits, Lists
<1>5. PICK a : a = [act EXCEPT !.step = "labels", !.others = labels \ {TierOf[d]}]
  OBVIOUS
<1>6. labels \subseteq Tiers /\ labels' \subseteq Tiers /\ asked' \subseteq Pushes
  BY <1>1 DEF ActionsInv, ActionsTypeOK
<1>7. act' = a
  BY <1>2, <1>5 DEF ListLabels
<1>8. labels \ {TierOf[d]} \in SUBSET Tiers
  BY <1>6
<1>9. /\ a \in ActType /\ a.step = "labels" /\ a.decision = d /\ a.item = "sought"
      /\ a.others = labels \ {TierOf[d]}
  BY <1>2, <1>3, <1>4, <1>5, <1>8 DEF ActType, Writes
<1>10. SearchFits'
  BY <1>7, <1>9 DEF SearchFits, Lists
<1>11. Exists("run", d)'
  <2>1. Exists("run", d)
    BY <1>1, <1>2 DEF ActionsInv, ActFits, Writes
  <2> QED
    BY <1>1, <2>1, SameItems DEF Lists
<1>12. labels' \subseteq act'.others \cup {TierOf[d]}
  BY <1>1, <1>7, <1>9
<1>13. ActFits'
  BY <1>7, <1>9, <1>11, <1>12 DEF ActFits
<1>14. /\ items' \in [Lists -> Seq(Nat)] /\ \A l \in Lists, e \in Pushes : Unique(l, e)'
  BY <1>1, ItemsKept
<1> QED
  BY <1>1, <1>2, <1>6, <1>7, <1>9, <1>10, <1>13, <1>14, Proceeds

LEMMA RemoveLabelFits ==
  ASSUME ActionsInv, NEW tier \in Tiers, NEW answered \in BOOLEAN, RemoveLabel(tier, answered)
  PROVE  ActionsInv'
<1>1. /\ act.step = "labels" /\ act.step # "idle" /\ labels' = labels \ {tier}
      /\ UNCHANGED <<pushed, items, asked, settled>>
  BY DEF RemoveLabel
<1>2. PICK d \in Pushes : d = act.decision
  BY <1>1, Unsettled
<1>3. act \in ActType
  BY DEF ActionsInv, ActionsTypeOK
<1>4. /\ items' \in [Lists -> Seq(Nat)] /\ \A l \in Lists, e \in Pushes : Unique(l, e)'
      /\ \A l \in Lists, e \in Pushes : Exists(l, e) => Exists(l, e)'
  BY <1>1, ItemsKept, SameItems
<1>l. labels' \subseteq Tiers /\ asked' \subseteq Pushes
  BY <1>1 DEF ActionsInv, ActionsTypeOK
<1>5. CASE act' = NoAct
  <2>1. act' \in ActType /\ act'.step = "idle" /\ SearchFits' /\ ActFits'
    BY <1>5, AfterEnd
  <2> QED
    BY <1>1, <1>4, <1>l, <2>1, Proceeds
<1>6. CASE act' = [act EXCEPT !.others = @ \ {tier}]
  <2>1. PICK a : a = [act EXCEPT !.others = @ \ {tier}]
    OBVIOUS
  <2>2. /\ a \in ActType /\ a.step = "labels" /\ a.decision = d /\ a.item = act.item
        /\ a.others = act.others \ {tier}
    BY <1>1, <1>2, <1>3, <2>1 DEF ActType
  <2>3. act' = a
    BY <1>6, <2>1
  <2>4. act.item = "sought"
    BY <1>1, <1>3 DEF ActionsInv, SearchFits, Lists, ActType
  <2>5. SearchFits'
    BY <2>2, <2>3, <2>4 DEF SearchFits, Lists
  <2>6. Exists("run", d)' /\ labels \subseteq act.others \cup {TierOf[d]}
    BY <1>1, <1>2, <1>4 DEF ActionsInv, ActFits, Writes, Lists
  <2>7. labels' \subseteq act'.others \cup {TierOf[d]}
    BY <1>1, <2>2, <2>3, <2>6
  <2>8. ActFits'
    BY <2>2, <2>3, <2>6, <2>7 DEF ActFits
  <2> QED
    BY <1>1, <1>2, <1>4, <1>l, <2>2, <2>3, <2>5, <2>8, Proceeds
<1> QED
  BY <1>5, <1>6 DEF RemoveLabel

LEMMA AddLabelFits == ASSUME ActionsInv, NEW answered \in BOOLEAN, AddLabel(answered) PROVE ActionsInv'
<1>1. /\ act.step = "labels" /\ act.others = {} /\ act.step # "idle"
      /\ UNCHANGED <<pushed, items, asked, settled>>
      /\ Step("comment") \/ act' = NoAct
  BY DEF AddLabel, Sent
<1>2. PICK d \in Pushes : d = act.decision
  BY <1>1, Unsettled
<1>3. labels' = labels \cup {TierOf[d]}
  BY <1>2 DEF AddLabel
<1>4. labels' \subseteq Tiers /\ asked' \subseteq Pushes
  BY <1>1, <1>3 DEF ActionsInv, ActionsTypeOK, Tiers
<1>5. /\ items' \in [Lists -> Seq(Nat)] /\ \A l \in Lists, e \in Pushes : Unique(l, e)'
      /\ \A l \in Lists, e \in Pushes : Exists(l, e) => Exists(l, e)'
  BY <1>1, ItemsKept, SameItems
<1>6. Exists("run", d)' /\ labels' \subseteq {TierOf[d]}
  <2>1. Exists("run", d) /\ labels \subseteq act.others \cup {TierOf[d]}
    BY <1>1, <1>2 DEF ActionsInv, ActFits, Writes
  <2> QED
    BY <1>1, <1>3, <1>5, <2>1 DEF Lists
<1>7. "comment" \in Writes
  BY DEF Writes
<1>8. ASSUME Step("comment") PROVE ActFits'
  <2>1. act'.step = "comment" /\ act'.decision = d
    BY <1>2, <1>7, <1>8, AfterStep DEF ActionsInv
  <2> QED
    BY <1>6, <2>1 DEF ActFits
<1> QED
  BY <1>1, <1>4, <1>5, <1>7, <1>8, Takes

LEMMA RequestReviewersFits ==
  ASSUME ActionsInv, NEW answered \in BOOLEAN, RequestReviewers(answered) PROVE ActionsInv'
<1>1. /\ act.step = "request" /\ act.step # "idle"
      /\ UNCHANGED <<pushed, items, labels, settled>>
      /\ Step("end") \/ act' = NoAct
  BY DEF RequestReviewers, Sent
<1>2. PICK d \in Pushes : d = act.decision
  BY <1>1, Unsettled
<1>3. asked' = asked \cup {d}
  BY <1>2 DEF RequestReviewers
<1>4. labels' \subseteq Tiers /\ asked' \subseteq Pushes
  BY <1>1, <1>3 DEF ActionsInv, ActionsTypeOK
<1>5. /\ items' \in [Lists -> Seq(Nat)] /\ \A l \in Lists, e \in Pushes : Unique(l, e)'
      /\ \A l \in Lists, e \in Pushes : Exists(l, e) => Exists(l, e)'
  BY <1>1, ItemsKept, SameItems
<1>6. /\ Exists("run", d)' /\ Exists("comment", d)' /\ labels' \subseteq {TierOf[d]}
      /\ RouteOf[d] = "human_review" /\ d \in asked'
  <2>1. /\ Exists("run", d) /\ Exists("comment", d) /\ labels \subseteq {TierOf[d]}
        /\ RouteOf[d] = "human_review"
    BY <1>1, <1>2 DEF ActionsInv, ActFits, Writes
  <2> QED
    BY <1>1, <1>3, <1>5, <2>1 DEF Lists
<1>7. "end" \in Writes
  BY DEF Writes
<1>8. ASSUME Step("end") PROVE ActFits'
  <2>1. act'.step = "end" /\ act'.decision = d
    BY <1>2, <1>7, <1>8, AfterStep DEF ActionsInv
  <2> QED
    BY <1>6, <2>1 DEF ActFits
<1> QED
  BY <1>1, <1>4, <1>5, <1>7, <1>8, Takes

\* The attempt has written everything.
LEMMA EndActionsFits == ASSUME ActionsInv, EndActions PROVE ActionsInv'
<1>1. /\ act.step = "end" /\ act.step # "idle" /\ act' = NoAct
      /\ UNCHANGED <<pushed, items, labels, asked>>
  BY DEF EndActions
<1>2. PICK d \in Pushes : d = act.decision
  BY <1>1, Unsettled
<1>3. settled' = d
  BY <1>2 DEF EndActions
<1>4. act' \in ActType /\ act'.step = "idle" /\ SearchFits' /\ ActFits'
  BY <1>1, AfterEnd
<1>5. /\ items' \in [Lists -> Seq(Nat)] /\ \A l \in Lists, e \in Pushes : Unique(l, e)'
      /\ \A l \in Lists, e \in Pushes : Exists(l, e) => Exists(l, e)'
  BY <1>1, ItemsKept, SameItems
<1>6. ActionsTypeOK'
  BY <1>1, <1>3, <1>4, <1>5 DEF ActionsInv, ActionsTypeOK
<1>7. /\ Exists("run", d) /\ Exists("comment", d) /\ labels \subseteq {TierOf[d]}
      /\ RouteOf[d] = "no_human" => Exists("approval", d)
      /\ RouteOf[d] = "human_review" => d \in asked
  BY <1>1, <1>2 DEF ActionsInv, ActFits, Writes
<1>8. SettledFits'
  <2>1. /\ Exists("run", d)' /\ Exists("comment", d)'
        /\ RouteOf[d] = "no_human" => Exists("approval", d)'
    BY <1>5, <1>7 DEF Lists
  <2> QED
    BY <1>1, <1>3, <1>7, <2>1 DEF SettledFits
<1> QED
  BY <1>4, <1>5, <1>6, <1>8 DEF ActionsInv

LEMMA InterruptFits == ASSUME ActionsInv, Interrupt PROVE ActionsInv'
<1>1. /\ act.step # "idle" /\ act' = NoAct
      /\ UNCHANGED <<pushed, items, labels, asked, settled>>
  BY DEF Interrupt
<1>2. labels' \subseteq Tiers /\ asked' \subseteq Pushes
  BY <1>1 DEF ActionsInv, ActionsTypeOK
<1>3. /\ items' \in [Lists -> Seq(Nat)] /\ \A l \in Lists, e \in Pushes : Unique(l, e)'
  BY <1>1, ItemsKept
<1>4. "end" \in Writes
  BY DEF Writes
<1>5. act' \in ActType /\ act'.step = "idle" /\ SearchFits' /\ ActFits'
  BY <1>1, AfterEnd
<1> QED
  BY <1>1, <1>2, <1>3, <1>5, Proceeds

\* Whatever other people do, an attempt goes on as it did.
LEMMA OthersFit ==
  ASSUME ActionsInv, UNCHANGED <<asked, act, settled>>, pushed' \in Pushes, labels' \subseteq labels,
         items' \in [Lists -> Seq(Nat)],
         \A l \in Lists, d \in Pushes : Exists(l, d)' <=> Exists(l, d),
         \A l \in Lists, d \in Pushes : Unique(l, d)',
         \A l \in Lists : \A n \in DOMAIN items'[l] :
           \/ n \in DOMAIN items[l] /\ items'[l][n] = items[l][n]
           \/ items'[l][n] = Other
  PROVE  ActionsInv'
<1>1. ActionsTypeOK'
  BY DEF ActionsInv, ActionsTypeOK
<1>2. PICK step, d, a : step = act.step /\ d = act.decision /\ a = act
  OBVIOUS
<1>3. ActFits'
  BY <1>2, AttemptStays
<1>4. SettledFits'
  BY Settles
<1>5. SearchFits'
  <2>1. act'.step = step /\ act'.decision = d /\ act' = a
    BY <1>2
  <2>2. step \in Lists => d \in Pushes /\ d # Other
    <3>1. step \in Lists => d \in Pushes
      BY <1>2 DEF ActionsInv, ActionsTypeOK, Lists
    <3> QED
      BY <3>1, PushesAreNumbers DEF Other
  <2>3. (a.item = "found" => Exists(step, d)') /\ (a.item = "missing" => ~Exists(step, d)')
    BY <1>2, <2>2 DEF ActionsInv, SearchFits
  <2>4. ASSUME step \in Lists, a.item = "sought", NEW n \in DOMAIN items'[step],
               n <= a.page * PageSize - PageSize
        PROVE  items'[step][n] # d
    BY <1>2, <2>2, <2>4 DEF ActionsInv, SearchFits
  <2>5. a.item # "sought" => step \in Lists
    BY <1>2 DEF ActionsInv, SearchFits
  <2> QED
    BY <1>2, <2>1, <2>3, <2>4, <2>5 DEF SearchFits
<1> QED
  BY <1>1, <1>3, <1>4, <1>5 DEF ActionsInv

LEMMA PushFits == ASSUME ActionsInv, Push PROVE ActionsInv'
<1>1. pushed' \in Pushes /\ UNCHANGED <<items, labels, asked, act, settled>>
  BY DEF Push
<1>2. /\ items' \in [Lists -> Seq(Nat)] /\ \A l \in Lists, e \in Pushes : Unique(l, e)'
      /\ \A l \in Lists, e \in Pushes : Exists(l, e)' <=> Exists(l, e)
  BY <1>1, ItemsKept, SameItems
<1> QED
  BY <1>1, <1>2, OthersFit

LEMMA UnlabelFits == ASSUME ActionsInv, NEW tier \in labels, Unlabel(tier) PROVE ActionsInv'
<1>1. labels' \subseteq labels /\ UNCHANGED <<pushed, items, asked, act, settled>>
  BY DEF Unlabel
<1>2. /\ items' \in [Lists -> Seq(Nat)] /\ \A l \in Lists, e \in Pushes : Unique(l, e)'
      /\ \A l \in Lists, e \in Pushes : Exists(l, e)' <=> Exists(l, e)
  BY <1>1, ItemsKept, SameItems
<1>3. pushed' \in Pushes
  BY <1>1 DEF ActionsInv, ActionsTypeOK
<1> QED
  BY <1>1, <1>2, <1>3, OthersFit

LEMMA RemarkFits == ASSUME ActionsInv, NEW list \in Lists, Remark(list) PROVE ActionsInv'
<1>1. PICK other \in Nat : other = Other /\ other \notin Pushes
  BY PushesAreNumbers DEF Other
<1>2. /\ items' = [items EXCEPT ![list] = Append(@, other)]
      /\ UNCHANGED <<pushed, labels, asked, act, settled>>
  BY <1>1 DEF Remark
<1>3. ActionsTypeOK
  BY DEF ActionsInv
<1>4. items' \in [Lists -> Seq(Nat)]
  BY <1>1, <1>2, <1>3, ItemAdded
<1>c. \A l \in Lists, d \in Pushes : Exists(l, d) => Exists(l, d)'
  BY <1>1, <1>2, <1>3, ItemAdded
<1>d. \A l \in Lists, d \in Pushes : Exists(l, d)' => Exists(l, d)
  BY <1>1, <1>2, <1>3, ItemAdded
<1>e. \A l \in Lists, d \in Pushes : Unique(l, d)'
  <2>1. \A l \in Lists, d \in Pushes :
          Unique(l, d) /\ (l = list /\ d = other => ~Exists(l, d)) => Unique(l, d)'
    BY <1>1, <1>2, <1>3, ItemAdded
  <2>2. \A l \in Lists, d \in Pushes : Unique(l, d)
    BY DEF ActionsInv
  <2> QED
    BY <1>1, <2>1, <2>2, Zenon
<1>5. \A l \in Lists : \A n \in DOMAIN items'[l] :
        \/ n \in DOMAIN items[l] /\ items'[l][n] = items[l][n]
        \/ l = list /\ items'[l][n] = other
  BY <1>1, <1>2, <1>3, ItemAdded
<1>6. \A l \in Lists : \A n \in DOMAIN items'[l] :
        \/ n \in DOMAIN items[l] /\ items'[l][n] = items[l][n]
        \/ items'[l][n] = Other
  BY <1>1, <1>5
<1>7. pushed' \in Pushes
  BY <1>2 DEF ActionsInv, ActionsTypeOK
<1> QED
  BY <1>2, <1>4, <1>c, <1>d, <1>e, <1>6, <1>7, OthersFit

LEMMA ActionsStep == ASSUME ActionsInv, [ActionsNext]_actionsVars PROVE ActionsInv'
<1>1. ASSUME NEW d \in Pushes, BeginActions(d) PROVE ActionsInv'
  BY <1>1, BeginActionsFits
<1>2. ASSUME NEW list \in Lists, Search(list) PROVE ActionsInv'
  BY <1>2, SearchStep
<1>3. ASSUME NEW list \in Lists, Update(list) PROVE ActionsInv'
  BY <1>3, UpdateFits
<1>4. ASSUME NEW list \in Lists, Remark(list) PROVE ActionsInv'
  BY <1>4, RemarkFits
<1>5. CASE KeepApproval
  BY <1>5, UpdateFits
<1>6. CASE ListLabels
  BY <1>6, ListLabelsFits
<1>7. ASSUME NEW answered \in BOOLEAN, NEW list \in Lists, Create(list, answered) PROVE ActionsInv'
  BY <1>7, CreateFits
<1>8. ASSUME NEW answered \in BOOLEAN, NEW tier \in Tiers, RemoveLabel(tier, answered)
      PROVE  ActionsInv'
  BY <1>8, RemoveLabelFits
<1>9. ASSUME NEW answered \in BOOLEAN, AddLabel(answered) PROVE ActionsInv'
  BY <1>9, AddLabelFits
<1>10. ASSUME NEW answered \in BOOLEAN, RequestReviewers(answered) PROVE ActionsInv'
  BY <1>10, RequestReviewersFits
<1>11. CASE EndActions
  BY <1>11, EndActionsFits
<1>12. CASE Interrupt
  BY <1>12, InterruptFits
<1>13. CASE Push
  BY <1>13, PushFits
<1>14. ASSUME NEW tier \in labels, Unlabel(tier) PROVE ActionsInv'
  BY <1>14, UnlabelFits
<1>15. CASE UNCHANGED actionsVars
  <2>1. UNCHANGED <<pushed, items, labels, asked, act, settled>>
    BY <1>15 DEF actionsVars
  <2>2. /\ items' \in [Lists -> Seq(Nat)] /\ \A l \in Lists, e \in Pushes : Unique(l, e)'
        /\ \A l \in Lists, e \in Pushes : Exists(l, e)' <=> Exists(l, e)
    BY <2>1, ItemsKept, SameItems
  <2>3. pushed' \in Pushes /\ labels' \subseteq labels
    BY <2>1 DEF ActionsInv, ActionsTypeOK
  <2> QED
    BY <2>1, <2>2, <2>3, OthersFit
<1> QED
  BY <1>1, <1>2, <1>3, <1>4, <1>5, <1>6, <1>7, <1>8, <1>9, <1>10, <1>11, <1>12, <1>13, <1>14,
     <1>15, Zenon DEF ActionsNext

LEMMA ActionsStart == ASSUME ActionsInit PROVE ActionsInv
<1>1. /\ pushed = 1 /\ items = [list \in Lists |-> <<>>] /\ labels \in SUBSET Tiers
      /\ asked = {} /\ act = NoAct /\ settled = 0
  BY DEF ActionsInit
<1>2. /\ act \in ActType /\ act.step = "idle" /\ act.item = "sought"
  BY <1>1 DEF NoAct, ActType
<1>3. <<>> \in Seq(Nat) /\ DOMAIN <<>> = {}
  BY EmptySeq
<1>4. ActionsTypeOK
  BY <1>1, <1>2, <1>3, PushesAreNumbers DEF ActionsTypeOK
<1>5. \A list \in Lists, d \in Pushes : Unique(list, d)
  BY <1>1, <1>3 DEF Unique
<1>6. SearchFits /\ ActFits /\ SettledFits
  BY <1>1, <1>2 DEF SearchFits, ActFits, SettledFits, Lists, Writes
<1> QED
  BY <1>4, <1>5, <1>6 DEF ActionsInv

\* At any request an attempt has seen the pages before its own, and what the
\* earlier steps write is there (findPaginated and the writes of the adapter).
THEOREM ActionsInvariant == ActionsSpec => []ActionsInv
<1>1. ActionsInit => ActionsInv
  BY ActionsStart
<1>2. ActionsInv /\ [ActionsNext]_actionsVars => ActionsInv'
  BY ActionsStep
<1> QED
  BY <1>1, <1>2, PTL DEF ActionsSpec

\* However often the writes of a decision are cut off and made again, nothing
\* is written twice, and what came to its end is all there (applyActions).
THEOREM ActionsKeepConverging == ActionsSpec => []ActionsConverge
<1>1. ASSUME ActionsInv PROVE ActionsConverge
  <2>1. ASSUME NEW list \in Lists, NEW d \in Pushes PROVE Cardinality(Written(list, d)) <= 1
    <3>1. CASE Written(list, d) = {}
      BY <3>1, FS_EmptySet
    <3>2. ASSUME NEW n \in Written(list, d) PROVE Cardinality(Written(list, d)) <= 1
      <4>1. Written(list, d) = {n}
        BY <1>1, <3>2 DEF ActionsInv, Unique, Written
      <4>2. Cardinality({n}) = 1
        BY FS_Singleton
      <4> QED
        BY <4>1, <4>2
    <3> QED
      BY <3>1, <3>2
  <2>2. settled # 0 =>
          /\ Written("run", settled) # {} /\ Written("comment", settled) # {}
          /\ labels \subseteq {TierOf[settled]}
          /\ RouteOf[settled] = "no_human" => Written("approval", settled) # {}
          /\ RouteOf[settled] = "human_review" => settled \in asked
    BY <1>1 DEF ActionsInv, SettledFits, Exists, Written
  <2> QED
    BY <2>1, <2>2 DEF ActionsConverge
<1> QED
  BY <1>1, ActionsInvariant, PTL

-----------------------------------------------------------------------------
(* Who is asked.                                                           *)

\* A set of naturals has a least element.
LEMMA LeastNatural ==
  ASSUME NEW T \in SUBSET Nat, T # {}
  PROVE  \E n \in T : \A m \in T : n <= m
<1> DEFINE R == OpToRel(<, Nat)
<1>1. IsWellFoundedOn(R, Nat)
  BY NatLessThanWellFounded
<1> HIDE DEF R
<1>2. PICK n \in T : \A m \in T : ~(<<m, n>> \in R)
  BY <1>1, WFMin
<1>3. \A m \in T : ~(m < n)
  BY <1>2 DEF R, OpToRel
<1> QED
  BY <1>3

\* The load and the rank put actors in one order.
LEMMA GoesIsOrder ==
  ASSUME NEW S \in SUBSET Nat, NEW load, \A a \in S : load[a] \in Nat
  PROVE  /\ \A a \in S : ~Goes(a, a, load)
         /\ \A a, b, c \in S : Goes(a, b, load) /\ Goes(b, c, load) => Goes(a, c, load)
         /\ \A a, b \in S : a # b => Goes(a, b, load) \/ Goes(b, a, load)
         /\ \A a, b \in S : Goes(a, b, load) => load[a] <= load[b]
BY DEF Goes

\* Some actor goes before all others.
LEMMA FirstGoes ==
  ASSUME NEW S \in SUBSET Nat, S # {}, NEW load, \A a \in S : load[a] \in Nat
  PROVE  \E a \in S : \A b \in S \ {a} : Goes(a, b, load)
<1>1. PICK least \in Nat : (\E a \in S : load[a] = least) /\ \A a \in S : least <= load[a]
  <2>1. {load[a] : a \in S} \in SUBSET Nat /\ {load[a] : a \in S} # {}
    OBVIOUS
  <2>2. PICK n \in {load[a] : a \in S} : \A m \in {load[a] : a \in S} : n <= m
    BY <2>1, LeastNatural
  <2> QED
    BY <2>1, <2>2
<1>2. PICK a \in {b \in S : load[b] = least} : \A b \in {b \in S : load[b] = least} : a <= b
  <2>1. {b \in S : load[b] = least} \in SUBSET Nat /\ {b \in S : load[b] = least} # {}
    BY <1>1
  <2> QED
    BY <2>1, LeastNatural
<1>3. ASSUME NEW b \in S \ {a} PROVE Goes(a, b, load)
  <2>1. load[a] = least /\ a \in S /\ load[b] \in Nat /\ least <= load[b] /\ a \in Nat /\ b \in Nat
    BY <1>1, <1>2
  <2>2. CASE load[b] = least
    BY <1>2, <1>3, <2>1, <2>2 DEF Goes
  <2>3. CASE load[b] # least
    BY <2>1, <2>3 DEF Goes
  <2> QED
    BY <2>2, <2>3
<1> QED
  BY <1>2, <1>3

Before(S, a, load) == {b \in S : Goes(b, a, load)}

\* Whoever goes before somebody has fewer before himself.
LEMMA FewerBefore ==
  ASSUME NEW S \in SUBSET Nat, IsFiniteSet(S), NEW load, \A a \in S : load[a] \in Nat,
         NEW a \in S, NEW b \in S
  PROVE  /\ Cardinality(Before(S, a, load)) \in Nat
         /\ Cardinality(Before(S, a, load)) < Cardinality(S)
         /\ Goes(a, b, load) =>
              Cardinality(Before(S, a, load)) + 1 <= Cardinality(Before(S, b, load))
<1>1. /\ \A x \in S : ~Goes(x, x, load)
      /\ \A x, y, z \in S : Goes(x, y, load) /\ Goes(y, z, load) => Goes(x, z, load)
  BY GoesIsOrder
<1>2. /\ Before(S, a, load) \subseteq S /\ Before(S, b, load) \subseteq S
      /\ a \notin Before(S, a, load) /\ a \in S
  BY <1>1 DEF Before
<1>3. IsFiniteSet(Before(S, a, load)) /\ IsFiniteSet(Before(S, b, load))
  BY <1>2, FS_Subset
<1>4. PICK A : A = Before(S, a, load)
  OBVIOUS
<1>5. /\ IsFiniteSet(A \cup {a}) /\ Cardinality(A) \in Nat
      /\ Cardinality(A \cup {a}) = Cardinality(A) + 1
  BY <1>2, <1>3, <1>4, FS_AddElement, FS_CardinalityType
<1>6. ASSUME NEW T, IsFiniteSet(T), A \cup {a} \subseteq T PROVE Cardinality(A) + 1 <= Cardinality(T)
  BY <1>5, <1>6, FS_Subset
<1>7. Cardinality(A) + 1 <= Cardinality(S)
  BY <1>2, <1>4, <1>6
<1>8. Goes(a, b, load) => A \cup {a} \subseteq Before(S, b, load)
  BY <1>1, <1>4 DEF Before
<1>9. Cardinality(S) \in Nat
  BY FS_CardinalityType
<1>10. Cardinality(A) < Cardinality(S)
  BY <1>5, <1>7, <1>9
<1> QED
  BY <1>3, <1>4, <1>5, <1>6, <1>8, <1>10

\* A chosen actor goes before one who is not.
LEMMA ChosenGoFirst ==
  ASSUME NEW S \in SUBSET Nat, IsFiniteSet(S), NEW load, \A a \in S : load[a] \in Nat,
         NEW count \in Int, NEW a \in LowestLoad(S, load, count),
         NEW b \in S \ LowestLoad(S, load, count)
  PROVE  Goes(a, b, load)
<1>1. /\ Cardinality(Before(S, a, load)) \in Nat /\ Cardinality(Before(S, b, load)) \in Nat
      /\ Goes(b, a, load) =>
           Cardinality(Before(S, b, load)) + 1 <= Cardinality(Before(S, a, load))
  BY FewerBefore DEF LowestLoad
<1>2. /\ Cardinality(Before(S, a, load)) < count /\ ~(Cardinality(Before(S, b, load)) < count)
  BY DEF LowestLoad, Before
<1>3. ~Goes(b, a, load)
  BY <1>1, <1>2
<1>4. a # b
  OBVIOUS
<1> QED
  BY <1>3, <1>4, GoesIsOrder DEF LowestLoad

LEMMA Disjoint ==
  ASSUME NEW A, NEW B, IsFiniteSet(A), IsFiniteSet(B), A \cap B = {}
  PROVE  Cardinality(A \cup B) = Cardinality(A) + Cardinality(B)
<1>1. Cardinality(A) \in Nat /\ Cardinality(B) \in Nat
  BY FS_CardinalityType
<1>2. Cardinality(A \cup B) = Cardinality(A) + Cardinality(B) - Cardinality(A \cap B)
  BY FS_Union
<1>3. Cardinality(A \cap B) = 0
  BY FS_EmptySet
<1> QED
  BY <1>1, <1>2, <1>3

\* One more is chosen while there is one.
LEMMA OneMore ==
  ASSUME NEW S \in SUBSET Nat, IsFiniteSet(S), NEW load, \A a \in S : load[a] \in Nat,
         NEW count \in Nat, Cardinality(LowestLoad(S, load, count)) = count,
         LowestLoad(S, load, count) # S
  PROVE  Cardinality(LowestLoad(S, load, count + 1)) = count + 1
<1> DEFINE Chosen == LowestLoad(S, load, count)
<1>1. Chosen \subseteq S /\ IsFiniteSet(Chosen) /\ S \ Chosen # {}
  BY FS_Subset DEF LowestLoad
<1>2. PICK m \in S \ Chosen : \A b \in (S \ Chosen) \ {m} : Goes(m, b, load)
  <2>1. S \ Chosen \in SUBSET Nat /\ \A a \in S \ Chosen : load[a] \in Nat
    OBVIOUS
  <2> HIDE DEF Chosen
  <2> QED
    BY <1>1, <2>1, FirstGoes
<1>3. Before(S, m, load) = Chosen
  <2>1. ASSUME NEW b \in Chosen PROVE Goes(b, m, load)
    BY <1>2, ChosenGoFirst
  <2>2. ASSUME NEW b \in S, Goes(b, m, load) PROVE b \in Chosen
    <3>1. b # m /\ ~Goes(m, b, load)
      BY <1>2, <2>2, GoesIsOrder
    <3> QED
      BY <1>2, <3>1
  <2> QED
    BY <1>1, <2>1, <2>2 DEF Before
<1>4. \A a \in S : Cardinality(Before(S, a, load)) \in Nat
  BY FewerBefore
<1>5. ASSUME NEW a \in S
      PROVE  a \in LowestLoad(S, load, count + 1) <=> a \in Chosen \cup {m}
  <2>1. PICK n \in Nat : n = Cardinality(Before(S, a, load))
    BY <1>4
  <2>2. a \in LowestLoad(S, load, count + 1) <=> n < count + 1
    BY <2>1 DEF LowestLoad, Before
  <2>3. a \in Chosen <=> n < count
    BY <2>1 DEF LowestLoad, Before
  <2>4. CASE a = m
    <3>1. n = count
      BY <1>3, <2>1, <2>4
    <3> QED
      BY <2>2, <2>4, <3>1
  <2>5. CASE a # m
    <3>1. a \notin Chosen => Cardinality(Before(S, m, load)) + 1 <= n
      BY <1>2, <2>1, <2>5, FewerBefore
    <3>2. a \notin Chosen => count + 1 <= n
      BY <1>3, <3>1
    <3> QED
      BY <2>2, <2>3, <2>5, <3>2
  <2> QED
    BY <2>4, <2>5
<1>6. LowestLoad(S, load, count + 1) = Chosen \cup {m}
  <2>1. LowestLoad(S, load, count + 1) \subseteq S
    BY DEF LowestLoad
  <2> QED
    BY <1>1, <1>2, <1>5, <2>1
<1>7. Cardinality(Chosen \cup {m}) = Cardinality(Chosen) + 1
  BY <1>1, <1>2, FS_AddElement
<1> QED
  BY <1>6, <1>7

\* As many are chosen as are asked for, or all there are.
LEMMA ChosenAreEnough ==
  ASSUME NEW S \in SUBSET Nat, IsFiniteSet(S), NEW load, \A a \in S : load[a] \in Nat,
         NEW count \in Nat
  PROVE  /\ LowestLoad(S, load, count) \subseteq S
         /\ IsFiniteSet(LowestLoad(S, load, count))
         /\ Cardinality(LowestLoad(S, load, count)) = Minimum(count, Cardinality(S))
<1>1. PICK size \in Nat : size = Cardinality(S)
  BY FS_CardinalityType
<1>2. \A n \in Nat : LowestLoad(S, load, n) \subseteq S
  BY DEF LowestLoad
<1>3. ASSUME NEW n \in Nat, Cardinality(LowestLoad(S, load, n)) = size
      PROVE  LowestLoad(S, load, n) = S
  BY <1>1, <1>2, <1>3, FS_Subset
<1>4. \A n \in 0 .. size : Cardinality(LowestLoad(S, load, n)) = n
  <2> DEFINE T == {n \in 0 .. size : Cardinality(LowestLoad(S, load, n)) # n}
  <2>1. T \in SUBSET Nat
    OBVIOUS
  <2>2. ASSUME T # {} PROVE FALSE
    <3>1. PICK n \in T : \A m \in T : n <= m
      BY <2>1, <2>2, LeastNatural
    <3>2. n \in 0 .. size /\ Cardinality(LowestLoad(S, load, n)) # n
      BY <3>1
    <3>3. n # 0
      <4>1. LowestLoad(S, load, 0) = {}
        <5>1. ASSUME NEW a \in S PROVE a \notin LowestLoad(S, load, 0)
          <6>1. Cardinality(Before(S, a, load)) \in Nat
            BY FewerBefore
          <6> QED
            BY <6>1 DEF LowestLoad, Before
        <5> QED
          BY <1>2, <5>1
      <4> QED
        BY <3>2, <4>1, FS_EmptySet
    <3>4. n - 1 \in 0 .. size /\ ~(n <= n - 1) /\ n - 1 \in Nat /\ n - 1 + 1 = n /\ n - 1 < size
      BY <3>2, <3>3
    <3>5. Cardinality(LowestLoad(S, load, n - 1)) = n - 1
      BY <3>1, <3>4
    <3>6. LowestLoad(S, load, n - 1) # S
      BY <1>1, <3>4, <3>5
    <3>7. Cardinality(LowestLoad(S, load, n - 1 + 1)) = n - 1 + 1
      BY <3>4, <3>5, <3>6, OneMore
    <3> QED
      BY <3>2, <3>4, <3>7
  <2> QED
    BY <2>2
<1>5. CASE count <= size
  <2>1. Cardinality(LowestLoad(S, load, count)) = count
    BY <1>4, <1>5
  <2> QED
    BY <1>1, <1>2, <1>5, <2>1, FS_Subset DEF Minimum
<1>6. CASE count > size
  <2>1. LowestLoad(S, load, count) = S
    <3>1. ASSUME NEW a \in S PROVE a \in LowestLoad(S, load, count)
      <4>1. Cardinality(Before(S, a, load)) \in Nat /\ Cardinality(Before(S, a, load)) < size
        BY <1>1, FewerBefore
      <4> QED
        BY <1>6, <4>1 DEF LowestLoad, Before
    <3> QED
      BY <1>2, <3>1
  <2> QED
    BY <1>1, <1>6, <2>1 DEF Minimum
<1> QED
  BY <1>5, <1>6

\* An owner goes before every fallback.
LEMMA TieredSelection ==
  ASSUME NEW S \in SUBSET Nat, IsFiniteSet(S), NEW load, \A a \in S : load[a] \in Nat,
         NEW count \in Nat, NEW preferred
  PROVE  LET selected == SelectTiered(S, preferred, load, count) IN
         /\ selected \subseteq S
         /\ Cardinality(selected) = Minimum(count, Cardinality(S))
         /\ \A a \in selected, b \in S \ selected :
              /\ b \in preferred => a \in preferred
              /\ (a \in preferred) = (b \in preferred) => load[a] <= load[b]
<1> DEFINE Owners == S \cap preferred
           Others == S \ preferred
<1>1. /\ Owners \in SUBSET Nat /\ Others \in SUBSET Nat /\ Owners \cup Others = S
      /\ Owners \cap Others = {} /\ Owners \subseteq S /\ Others \subseteq S
  OBVIOUS
<1>2. IsFiniteSet(Owners) /\ IsFiniteSet(Others)
  BY <1>1, FS_Subset
<1>3. PICK n \in Nat, m \in Nat : n = Cardinality(Owners) /\ m = Cardinality(Others)
  BY <1>2, FS_CardinalityType
<1>4. Cardinality(S) = n + m
  <2> HIDE DEF Owners, Others
  <2>1. Cardinality(Owners \cup Others) = Cardinality(Owners) + Cardinality(Others)
    BY <1>1, <1>2, Disjoint
  <2> QED
    BY <1>1, <1>3, <2>1
<1>5. PICK first : first = LowestLoad(Owners, load, count)
  OBVIOUS
<1>6. first \subseteq Owners /\ IsFiniteSet(first) /\ Cardinality(first) = Minimum(count, n)
  BY <1>1, <1>2, <1>3, <1>5, ChosenAreEnough
<1>7. PICK rest \in Nat : rest = count - Cardinality(first) /\ (rest = 0 \/ Cardinality(first) = n)
  BY <1>3, <1>6 DEF Minimum
<1>8. PICK second : second = LowestLoad(Others, load, rest)
  OBVIOUS
<1>9. second \subseteq Others /\ IsFiniteSet(second) /\ Cardinality(second) = Minimum(rest, m)
  BY <1>1, <1>2, <1>3, <1>7, <1>8, ChosenAreEnough
<1>10. SelectTiered(S, preferred, load, count) = first \cup second
  BY <1>5, <1>7, <1>8 DEF SelectTiered
<1>11. Cardinality(first \cup second) = Cardinality(first) + Cardinality(second)
  BY <1>1, <1>6, <1>9, Disjoint
<1>12. Cardinality(first \cup second) = Minimum(count, Cardinality(S))
  BY <1>3, <1>4, <1>6, <1>7, <1>9, <1>11 DEF Minimum
<1>13. ASSUME NEW a \in first \cup second, NEW b \in S \ (first \cup second), b \in preferred
       PROVE  a \in preferred
  <2>1. first # Owners
    BY <1>13
  <2>2. rest = 0
    BY <1>2, <1>3, <1>6, <1>7, <2>1, FS_Subset
  <2>3. second = {}
    BY <1>3, <1>9, <2>2, FS_EmptySet DEF Minimum
  <2> QED
    BY <1>6, <1>13, <2>3
<1>14. ASSUME NEW a \in first \cup second, NEW b \in S \ (first \cup second),
              (a \in preferred) = (b \in preferred)
       PROVE  load[a] <= load[b]
  <2>1. CASE a \in preferred
    <3>1. a \in first /\ b \in Owners \ first
      BY <1>9, <1>14, <2>1
    <3>2. Goes(a, b, load)
      BY <1>1, <1>2, <1>5, <3>1, ChosenGoFirst
    <3> QED
      BY <1>1, <1>6, <3>1, <3>2, GoesIsOrder
  <2>2. CASE a \notin preferred
    <3>1. a \in second /\ b \in Others \ second
      BY <1>6, <1>14, <2>2
    <3>2. Goes(a, b, load)
      BY <1>1, <1>2, <1>7, <1>8, <3>1, ChosenGoFirst
    <3> QED
      BY <1>1, <1>9, <3>1, <3>2, GoesIsOrder
  <2> QED
    BY <2>1, <2>2
<1>15. first \cup second \subseteq S
  BY <1>6, <1>9
<1> HIDE DEF Owners, Others
<1> QED
  BY <1>10, <1>12, <1>13, <1>14, <1>15

-----------------------------------------------------------------------------
(* The answers are those of the rules.                                     *)

AnswerFits ==
  /\ question \in Questions
  /\ Answered("configuration") =>
       answer = Resolve(question.repository, question.organization, question.allow)
  /\ Answered("risk") =>
       answer = [score |-> Score(question.files, question.ai, question.config),
                 tier |-> Tier(question.files, question.ai, question.config)]
  /\ Answered("routing") => answer = Route(question)
  /\ Answered("replacement") => answer = Replace(question)

\* Every answer follows from its question alone.
THEOREM RulesAnswer == RulesSpec => []AnswerFits
<1>1. RulesInit => AnswerFits
  BY DEF RulesInit, AnswerFits, Answered
<1>2. AnswerFits /\ [RulesNext]_rulesVars => AnswerFits'
  <2> SUFFICES ASSUME AnswerFits, [RulesNext]_rulesVars PROVE AnswerFits'
    OBVIOUS
  <2>1. CASE ResolveConfiguration
    BY <2>1 DEF ResolveConfiguration, Answers, AnswerFits, Answered
  <2>2. CASE ScoreRisk
    BY <2>2 DEF ScoreRisk, Answers, AnswerFits, Answered
  <2>3. CASE DecideRouting
    BY <2>3 DEF DecideRouting, Answers, AnswerFits, Answered
  <2>4. CASE SelectReplacement
    BY <2>4 DEF SelectReplacement, Answers, AnswerFits, Answered
  <2>5. CASE UNCHANGED rulesVars
    BY <2>5 DEF rulesVars, AnswerFits, Answered
  <2> QED
    BY <2>1, <2>2, <2>3, <2>4, <2>5 DEF RulesNext
<1> QED
  BY <1>1, <1>2, PTL DEF RulesSpec

\* Whom a choice between owners and fallbacks leaves out.
LEMMA FairChoice ==
  ASSUME NEW load, IsFiniteSet(DOMAIN load), DOMAIN load \subseteq Nat, load \in [DOMAIN load -> Nat],
         NEW candidates \in SUBSET DOMAIN load, NEW owners, NEW preferred,
         candidates \cap owners = candidates \cap preferred, NEW count \in Nat
  PROVE  LET selected == SelectTiered(candidates, preferred, load, count) IN
         /\ selected \subseteq candidates
         /\ Cardinality(selected) = Minimum(count, Cardinality(candidates))
         /\ \A a \in selected, b \in candidates \ selected :
              /\ b \in owners => a \in owners
              /\ (a \in owners) = (b \in owners) => load[a] <= load[b]
<1>1. /\ candidates \in SUBSET Nat /\ IsFiniteSet(candidates)
      /\ \A a \in candidates : load[a] \in Nat
  BY FS_Subset
<1>2. PICK selected : selected = SelectTiered(candidates, preferred, load, count)
  OBVIOUS
<1>3. /\ selected \subseteq candidates
      /\ Cardinality(selected) = Minimum(count, Cardinality(candidates))
      /\ \A a \in selected, b \in candidates \ selected :
           /\ b \in preferred => a \in preferred
           /\ (a \in preferred) = (b \in preferred) => load[a] <= load[b]
  BY <1>1, <1>2, TieredSelection
<1>4. \A a \in candidates : a \in owners <=> a \in preferred
  OBVIOUS
<1>5. ASSUME NEW a \in selected, NEW b \in candidates \ selected
      PROVE  /\ b \in owners => a \in owners
             /\ (a \in owners) = (b \in owners) => load[a] <= load[b]
  <2>1. (a \in owners <=> a \in preferred) /\ (b \in owners <=> b \in preferred)
    BY <1>3, <1>4, <1>5
  <2> QED
    BY <1>3, <1>5, <2>1
<1> QED
  BY <1>2, <1>3, <1>5

\* A less busy fallback never displaces an owner, nobody is asked who must not
\* be, and nobody is left out while one is missing, whoever there is and
\* whatever they have to do (selectTieredReviewers, decideRouting,
\* selectReplacement).
THEOREM RulesSelectFairly == RulesSpec => []SelectionIsFair
<1>1. ASSUME AnswerFits PROVE SelectionIsFair
  <2> DEFINE q == question
             out == {q.author} \cup q.approved \cup q.absent
  <2>0. PICK load, owners : load = q.load /\ owners = Preferred(q.owners, q.fallbacks)
    OBVIOUS
  <2>1. ASSUME q.kind \in {"routing", "replacement"}
        PROVE  /\ IsFiniteSet(DOMAIN load) /\ DOMAIN load \subseteq Nat
               /\ load \in [DOMAIN load -> Nat]
               /\ Eligible(q.owners, q.fallbacks) \subseteq DOMAIN load
               /\ q.kind = "routing" => q.highRiskReviewers \in Nat
    BY <1>1, <2>0, <2>1, RulesAssumption DEF AnswerFits, Eligible, Preferred
  <2>2. CASE Answered("routing")
    <3>1. PICK count \in Nat :
            count = CASE q.tier = "low" -> 0 [] q.tier = "medium" -> 1 [] OTHER -> q.highRiskReviewers
      <4>1. CASE q.tier = "low"
        BY <4>1
      <4>2. CASE q.tier = "medium"
        BY <4>2
      <4>3. CASE q.tier \notin {"low", "medium"}
        BY <2>1, <2>2, <4>3 DEF Answered
      <4> QED
        BY <4>1, <4>2, <4>3
    <3>2. PICK candidates :
            candidates = (Eligible(q.owners, q.fallbacks) \ q.absent) \ ({q.author} \cup q.approved)
      OBVIOUS
    <3>3. PICK selected : selected = SelectTiered(candidates, owners \ q.absent, load, count)
      OBVIOUS
    <3>4. answer.candidates = candidates /\ answer.count = count /\ answer.selected = selected
      BY <1>1, <2>0, <2>2, <3>1, <3>2, <3>3 DEF AnswerFits, Route
    <3>5. candidates \in SUBSET DOMAIN load /\ candidates \cap out = {}
      BY <2>1, <2>2, <3>2 DEF Answered
    <3>6. candidates \cap owners = candidates \cap (owners \ q.absent)
      BY <3>2
    <3>7. /\ selected \subseteq candidates
          /\ Cardinality(selected) = Minimum(count, Cardinality(candidates))
          /\ \A a \in selected, b \in candidates \ selected :
               /\ b \in owners => a \in owners
               /\ (a \in owners) = (b \in owners) => load[a] <= load[b]
      <4>1. IsFiniteSet(DOMAIN load) /\ DOMAIN load \subseteq Nat /\ load \in [DOMAIN load -> Nat]
        BY <2>1, <2>2 DEF Answered
      <4>2. PICK preferred : preferred = owners \ q.absent
        OBVIOUS
      <4>3. selected = SelectTiered(candidates, preferred, load, count)
        BY <3>3, <4>2
      <4>4. candidates \cap owners = candidates \cap preferred
        BY <3>6, <4>2
      <4> QED
        BY <3>1, <3>5, <4>1, <4>3, <4>4, FairChoice
    <3> QED
      BY <2>0, <2>2, <3>4, <3>5, <3>7 DEF SelectionIsFair, Answered
  <2>3. CASE Answered("replacement")
    <3>1. PICK candidates :
            candidates = (Eligible(q.owners, q.fallbacks) \ q.absent)
                           \ ({q.author} \cup q.cohort \cup q.approved)
      OBVIOUS
    <3>2. PICK selected : selected = SelectTiered(candidates, owners, load, 1)
      OBVIOUS
    <3>3. answer.candidates = candidates /\ answer.count = 1 /\ answer.selected = selected
      BY <1>1, <2>0, <2>3, <3>1, <3>2 DEF AnswerFits, Replace
    <3>4. candidates \in SUBSET DOMAIN load /\ candidates \cap out = {} /\ candidates \cap q.cohort = {}
      BY <2>1, <2>3, <3>1 DEF Answered
    <3>5. /\ selected \subseteq candidates
          /\ Cardinality(selected) = Minimum(1, Cardinality(candidates))
          /\ \A a \in selected, b \in candidates \ selected :
               /\ b \in owners => a \in owners
               /\ (a \in owners) = (b \in owners) => load[a] <= load[b]
      <4>1. IsFiniteSet(DOMAIN load) /\ DOMAIN load \subseteq Nat /\ load \in [DOMAIN load -> Nat]
        BY <2>1, <2>3 DEF Answered
      <4> QED
        BY <3>2, <3>4, <4>1, FairChoice
    <3> QED
      BY <2>0, <2>3, <3>3, <3>4, <3>5 DEF SelectionIsFair, Answered
  <2> QED
    BY <2>2, <2>3 DEF SelectionIsFair
<1> QED
  BY <1>1, RulesAnswer, PTL

-----------------------------------------------------------------------------
(* The risk of more files.                                                 *)

Files == [Kinds -> Nat]

Within(files, more) == \A kind \in Kinds : files[kind] <= more[kind]

LEMMA TimesGrows ==
  ASSUME NEW a \in Nat, NEW b \in Nat, NEW c \in Nat, b <= c
  PROVE  a * b \in Nat /\ a * b <= a * c
<1>1. PICK d \in Nat : c = b + d
  <2>1. c - b \in Nat /\ c = b + (c - b)
    OBVIOUS
  <2> QED
    BY <2>1
<1>2. a * c = a * b + a * d
  BY <1>1
<1>3. a * b \in Nat /\ a * d \in Nat
  OBVIOUS
<1> QED
  BY <1>2, <1>3

LEMMA TotalGrows ==
  ASSUME NEW files \in Files, NEW more \in Files, Within(files, more)
  PROVE  Total(files) \in Nat /\ Total(more) \in Nat /\ Total(files) <= Total(more)
<1>1. \A kind \in {"docs", "tests", "source", "schema", "lockfile"} :
        files[kind] \in Nat /\ more[kind] \in Nat /\ files[kind] <= more[kind]
  BY DEF Files, Within, Kinds
<1> QED
  BY <1>1 DEF Total

LEMMA CountsGrow ==
  ASSUME NEW files \in Files, NEW more \in Files, Within(files, more)
  PROVE  /\ Count(Scored(files)) \in Nat /\ Count(Scored(more)) \in Nat
         /\ Count(Scored(files)) <= Count(Scored(more))
         /\ LineDelta(Scored(files)) \in Nat /\ LineDelta(Scored(more)) \in Nat
         /\ LineDelta(Scored(files)) <= LineDelta(Scored(more))
<1>1. PICK a \in Files, b \in Files : a = Scored(files) /\ b = Scored(more) /\ Within(a, b)
  <2>1. /\ Scored(files) \in Files /\ Scored(files)["tests"] = 0
        /\ \A kind \in Kinds \ {"tests"} : Scored(files)[kind] = files[kind]
    BY DEF Scored, Files, Kinds
  <2>2. /\ Scored(more) \in Files /\ Scored(more)["tests"] = 0
        /\ \A kind \in Kinds \ {"tests"} : Scored(more)[kind] = more[kind]
    BY DEF Scored, Files, Kinds
  <2>3. Within(Scored(files), Scored(more))
    <3>1. ASSUME NEW kind \in Kinds PROVE Scored(files)[kind] <= Scored(more)[kind]
      <4>1. CASE kind = "tests"
        BY <2>1, <2>2, <4>1
      <4>2. CASE kind # "tests"
        BY <2>1, <2>2, <3>1, <4>2 DEF Within
      <4> QED
        BY <4>1, <4>2
    <3> QED
      BY <3>1 DEF Within
  <2> QED
    BY <2>1, <2>2, <2>3
<1>2. PICK c \in Files, d \in Files :
        /\ c = [kind \in Kinds |-> Lines[kind] * a[kind]]
        /\ d = [kind \in Kinds |-> Lines[kind] * b[kind]]
        /\ Within(c, d)
  <2>1. ASSUME NEW kind \in Kinds
        PROVE  /\ Lines[kind] * a[kind] \in Nat /\ Lines[kind] * b[kind] \in Nat
               /\ Lines[kind] * a[kind] <= Lines[kind] * b[kind]
    <3>1. PICK x \in Nat, y \in Nat, z \in Nat :
            x = Lines[kind] /\ y = a[kind] /\ z = b[kind] /\ y <= z
      BY <1>1, <2>1, RulesAssumption DEF Files, Within
    <3> QED
      BY <3>1, TimesGrows
  <2>2. PICK c, d : /\ c = [kind \in Kinds |-> Lines[kind] * a[kind]]
                    /\ d = [kind \in Kinds |-> Lines[kind] * b[kind]]
    OBVIOUS
  <2>3. \A kind \in Kinds : c[kind] \in Nat /\ d[kind] \in Nat /\ c[kind] <= d[kind]
    BY <2>1, <2>2
  <2>4. c \in Files /\ d \in Files
    BY <2>2, <2>3 DEF Files
  <2> QED
    BY <2>2, <2>3, <2>4 DEF Within
<1> QED
  BY <1>1, <1>2, TotalGrows DEF Count, LineDelta

\* A share of the score that is larger when its condition holds.
LEMMA PartGrows ==
  ASSUME NEW score \in Nat, NEW condition, NEW next, condition => next
  PROVE  Part(condition, score) \in Nat /\ Part(next, score) \in Nat
         /\ Part(condition, score) <= Part(next, score)
BY DEF Part

LEMMA FifthsGrow ==
  ASSUME NEW a \in Nat, NEW b \in Nat, a <= b
  PROVE  /\ Minimum(20, 5 * ((a + 4) \div 5)) \in Nat /\ Minimum(20, 5 * ((b + 4) \div 5)) \in Nat
         /\ Minimum(20, 5 * ((a + 4) \div 5)) <= Minimum(20, 5 * ((b + 4) \div 5))
BY DEF Minimum

\* The fields of a configuration.
LEMMA ConfigurationIs ==
  ASSUME NEW config \in RiskConfiguration
  PROVE  /\ config.low \in Nat /\ config.high \in Nat
         /\ config.weight \in Nat /\ config.modifier \in Nat
         /\ config.highChangedFiles \in Nat /\ config.highChangedLines \in Nat
         /\ config.suppressors \in Seq(SuppressorEntries)
<1>1. PICK Points, Sizes, Switch, Suppressors :
        /\ Points = 0 .. 100 /\ Sizes = Nat \ {0} /\ Switch = BOOLEAN
        /\ Suppressors = Seq(SuppressorEntries)
  OBVIOUS
<1>2. config \in [low : Points, high : Points, weight : Points, modifier : Points,
                  aiEnabled : Switch, highChangedFiles : Sizes, highChangedLines : Sizes,
                  suppressors : Suppressors]
  BY <1>1 DEF RiskConfiguration
<1>3. /\ config.low \in Points /\ config.high \in Points
      /\ config.weight \in Points /\ config.modifier \in Points
      /\ config.highChangedFiles \in Sizes /\ config.highChangedLines \in Sizes
      /\ config.suppressors \in Suppressors
  BY <1>2
<1>4. \A n \in Points : n \in Nat
  BY <1>1
<1>5. \A n \in Sizes : n \in Nat
  BY <1>1
<1> QED
  BY <1>1, <1>3, <1>4, <1>5, Zenon

LEMMA BaseGrows ==
  ASSUME NEW files \in Files, NEW more \in Files, Within(files, more), NEW ai,
         NEW config \in RiskConfiguration
  PROVE  /\ BaseScore(files, ai, config) \in Nat /\ BaseScore(more, ai, config) \in Nat
         /\ BaseScore(files, ai, config) <= BaseScore(more, ai, config)
<1>1. PICK count \in Nat, larger \in Nat :
        count = Count(Scored(files)) /\ larger = Count(Scored(more)) /\ count <= larger
  BY CountsGrow
<1>2. PICK a \in Nat, b \in Nat :
        /\ a = Minimum(20, 5 * ((count + 4) \div 5)) /\ b = Minimum(20, 5 * ((larger + 4) \div 5))
        /\ a <= b
  BY <1>1, FifthsGrow
<1>3. PICK c \in Nat, d \in Nat :
        /\ c = Part(LineDelta(Scored(files)) >= 200, 15) /\ d = Part(LineDelta(Scored(more)) >= 200, 15)
        /\ c <= d
  <2>1. LineDelta(Scored(files)) >= 200 => LineDelta(Scored(more)) >= 200
    BY CountsGrow
  <2> QED
    BY <2>1 DEF Part
<1>4. \A kind \in {"source", "lockfile", "schema"} : files[kind] > 0 => more[kind] > 0
  <2>1. \A kind \in {"source", "lockfile", "schema"} :
          files[kind] \in Nat /\ more[kind] \in Nat /\ files[kind] <= more[kind]
    BY DEF Files, Within, Kinds
  <2> QED
    BY <2>1
<1>5. config.weight \in Nat /\ config.modifier \in Nat
  BY ConfigurationIs
<1>6. PICK e \in Nat, f \in Nat :
        e = Part(files["source"] > 0, config.weight) /\ f = Part(more["source"] > 0, config.weight) /\ e <= f
  BY <1>4, <1>5 DEF Part
<1>7. PICK g \in Nat, h \in Nat :
        g = Part(files["lockfile"] > 0, 15) /\ h = Part(more["lockfile"] > 0, 15) /\ g <= h
  BY <1>4 DEF Part
<1>8. PICK i \in Nat, j \in Nat :
        i = Part(files["schema"] > 0, 20) /\ j = Part(more["schema"] > 0, 20) /\ i <= j
  BY <1>4 DEF Part
<1>9. PICK k \in Nat : k = Part(ai /\ config.aiEnabled, config.modifier)
  BY <1>5 DEF Part
<1>10. BaseScore(files, ai, config) = a + c + e + g + i + k
  BY <1>1, <1>2, <1>3, <1>6, <1>7, <1>8, <1>9 DEF BaseScore
<1>11. BaseScore(more, ai, config) = b + d + f + h + j + k
  BY <1>1, <1>2, <1>3, <1>6, <1>7, <1>8, <1>9 DEF BaseScore
<1> QED
  BY <1>2, <1>3, <1>6, <1>7, <1>8, <1>9, <1>10, <1>11

LEMMA SizeGrows ==
  ASSUME NEW files \in Files, NEW more \in Files, Within(files, more),
         NEW config \in RiskConfiguration, SizeEscalated(files, config)
  PROVE  SizeEscalated(more, config)
<1>1. config.highChangedFiles \in Nat /\ config.highChangedLines \in Nat
  BY ConfigurationIs
<1> QED
  BY <1>1, CountsGrow DEF SizeEscalated

LEMMA Element == ASSUME NEW S, NEW s \in Seq(S), NEW n \in DOMAIN s PROVE s[n] \in S
OBVIOUS

\* The suppressor that is found is one of the list.
LEMMA SuppressorIs ==
  ASSUME NEW files, NEW config \in RiskConfiguration, Suppressor(files, config.suppressors) # None
  PROVE  Suppressor(files, config.suppressors).ceiling \in 0 .. 100
<1>1. PICK s \in Seq(SuppressorEntries) : s = config.suppressors
  BY ConfigurationIs
<1>2. PICK T : T = Matching(files, s)
  OBVIOUS
<1>3. T \subseteq DOMAIN s
  BY <1>2 DEF Matching
<1>4. T # {} /\ Suppressor(files, s) = s[Min(T)]
  BY <1>1, <1>2 DEF Suppressor
<1>5. T \in SUBSET Nat
  BY <1>3
<1>6. \E n \in T : \A m \in T : n <= m
  BY <1>4, <1>5, LeastNatural
<1>7. Min(T) \in T
  BY <1>6 DEF Min
<1>8. s[Min(T)] \in SuppressorEntries
  <2>1. PICK n \in DOMAIN s : n = Min(T)
    BY <1>3, <1>7
  <2> QED
    BY <1>1, <2>1, Element, Zenon
<1> QED
  BY <1>1, <1>4, <1>8 DEF SuppressorEntries

LEMMA RiskGrows ==
  ASSUME NEW files \in Files, NEW more \in Files, Within(files, more), NEW ai,
         NEW config \in RiskConfiguration,
         Suppressor(more, config.suppressors) \in {None, Suppressor(files, config.suppressors)}
  PROVE  /\ Score(more, ai, config) >= Score(files, ai, config)
         /\ Order(Tier(more, ai, config)) >= Order(Tier(files, ai, config))
<1>1. PICK base \in Nat, larger \in Nat :
        base = BaseScore(files, ai, config) /\ larger = BaseScore(more, ai, config) /\ base <= larger
  BY BaseGrows
<1>2. PICK low \in Nat, high \in Nat : low = config.low /\ high = config.high
  BY ConfigurationIs
<1>3. PICK floor \in Nat : floor = ScoreFloor(config)
  BY <1>2 DEF ScoreFloor, Minimum
<1>4. PICK score : score = Score(files, ai, config)
  OBVIOUS
<1>5. PICK next : next = Score(more, ai, config)
  OBVIOUS
<1>6. PICK suppressor : suppressor = Suppressor(files, config.suppressors)
  OBVIOUS
<1>7. PICK left : left = Suppressor(more, config.suppressors) /\ left \in {None, suppressor}
  BY <1>6
<1>8. /\ suppressor # None => suppressor.ceiling \in 0 .. 100
      /\ left # None => left.ceiling \in 0 .. 100
  BY <1>6, <1>7, SuppressorIs
<1>9. SizeEscalated(files, config) => SizeEscalated(more, config)
  BY SizeGrows
<1>10. /\ SizeEscalated(files, config) =>
            score = Minimum(100, base + Part(floor > base, floor - base))
       /\ ~SizeEscalated(files, config) /\ suppressor = None => score = Minimum(100, base)
       /\ ~SizeEscalated(files, config) /\ suppressor # None =>
            score = Minimum(Minimum(100, base), suppressor.ceiling)
  BY <1>1, <1>3, <1>4, <1>6, Zenon DEF Score, SizeScore
<1>11. /\ SizeEscalated(more, config) =>
            next = Minimum(100, larger + Part(floor > larger, floor - larger))
       /\ ~SizeEscalated(more, config) /\ left = None => next = Minimum(100, larger)
       /\ ~SizeEscalated(more, config) /\ left # None =>
            next = Minimum(Minimum(100, larger), left.ceiling)
  BY <1>1, <1>3, <1>5, <1>7, Zenon DEF Score, SizeScore
<1>12. score \in Nat /\ next \in Nat /\ score <= next
  <2>1. CASE SizeEscalated(files, config)
    BY <1>1, <1>9, <1>10, <1>11, <2>1 DEF Minimum, Part
  <2>2. CASE ~SizeEscalated(files, config) /\ SizeEscalated(more, config)
    BY <1>1, <1>8, <1>10, <1>11, <2>2 DEF Minimum, Part
  <2>3. CASE ~SizeEscalated(more, config)
    BY <1>1, <1>7, <1>8, <1>9, <1>10, <1>11, <2>3 DEF Minimum
  <2> QED
    BY <2>1, <2>2, <2>3
<1>13. Order(Tier(more, ai, config)) >= Order(Tier(files, ai, config))
  <2>1. Order("low") = 0 /\ Order("medium") = 1 /\ Order("high") = 2
    BY DEF Order
  <2>2. CASE SizeEscalated(more, config)
    <3>1. Tier(more, ai, config) = "high"
      BY <2>2 DEF Tier
    <3>2. Tier(files, ai, config) \in {"low", "medium", "high"}
      BY DEF Tier
    <3> QED
      BY <2>1, <3>1, <3>2
  <2>3. CASE ~SizeEscalated(more, config)
    <3>1. Tier(more, ai, config) = IF next <= low THEN "low" ELSE IF next <= high THEN "medium" ELSE "high"
      BY <1>2, <1>5, <2>3 DEF Tier
    <3>2. Tier(files, ai, config) = IF score <= low THEN "low" ELSE IF score <= high THEN "medium" ELSE "high"
      BY <1>2, <1>4, <1>9, <2>3 DEF Tier
    <3>3. PICK a, b : a = Tier(files, ai, config) /\ b = Tier(more, ai, config)
      OBVIOUS
    <3>4. \/ b = "low" /\ a = "low"
          \/ b = "medium" /\ a \in {"low", "medium"}
          \/ b = "high" /\ a \in {"low", "medium", "high"}
      BY <1>2, <1>12, <3>1, <3>2, <3>3
    <3> QED
      BY <2>1, <3>3, <3>4
  <2> QED
    BY <2>2, <2>3
<1> QED
  BY <1>4, <1>5, <1>12, <1>13

\* A file more never makes a pull request less risky, whatever the sizes, the
\* thresholds and the weights are, unless another suppressor takes over
\* (scorePullRequestRisk, tierForScore).
THEOREM RulesKeepRiskMonotone == RulesSpec => []RiskIsMonotone
<1>1. ASSUME AnswerFits PROVE RiskIsMonotone
  <2>1. PICK files, config, ai : files = question.files /\ config = question.config /\ ai = question.ai
    OBVIOUS
  <2> SUFFICES
        ASSUME Answered("risk"), NEW kind \in Kinds,
               Suppressor([files EXCEPT ![kind] = @ + 1], config.suppressors)
                 \in {None, Suppressor(files, config.suppressors)}
        PROVE  /\ Score([files EXCEPT ![kind] = @ + 1], ai, config) >= answer.score
               /\ Order(Tier([files EXCEPT ![kind] = @ + 1], ai, config)) >= Order(answer.tier)
    BY <2>1 DEF RiskIsMonotone
  <2>2. files \in Files /\ config \in RiskConfiguration
    BY <1>1, <2>1, RulesAssumption DEF AnswerFits, Answered, Files
  <2>3. answer.score = Score(files, ai, config) /\ answer.tier = Tier(files, ai, config)
    BY <1>1, <2>1 DEF AnswerFits
  <2>4. PICK more : more = [files EXCEPT ![kind] = @ + 1]
    OBVIOUS
  <2>5. more \in Files /\ Within(files, more)
    BY <2>2, <2>4 DEF Files, Within
  <2>6. /\ Score(more, ai, config) >= Score(files, ai, config)
        /\ Order(Tier(more, ai, config)) >= Order(Tier(files, ai, config))
    BY <2>2, <2>4, <2>5, RiskGrows
  <2> QED
    BY <2>3, <2>4, <2>6
<1> QED
  BY <1>1, RulesAnswer, PTL

-----------------------------------------------------------------------------
(* Whose suppressor is found.                                              *)

LEMMA MinIs ==
  ASSUME NEW T \in SUBSET Nat, NEW n \in T, \A m \in T : n <= m
  PROVE  Min(T) = n
<1>1. Min(T) \in T /\ \A m \in T : Min(T) <= m
  BY DEF Min
<1>2. n \in Nat /\ Min(T) \in Nat /\ n <= Min(T) /\ Min(T) <= n
  BY <1>1
<1> QED
  BY <1>2

\* What a merged list is made of.
LEMMA MergedIs ==
  ASSUME NEW parent \in Seq(SuppressorEntries), NEW child \in Seq(SuppressorEntries), NEW all, NEW length, NEW kept,
         all = Merged(parent, child), length = Len(child), kept = Retained(parent, child)
  PROVE  /\ length \in Nat /\ DOMAIN child = 1 .. length
         /\ \A m : m \in DOMAIN all <=> m \in DOMAIN child \/ \E n \in kept : m = length + n
         /\ \A n \in DOMAIN child : all[n] = child[n]
         /\ \A n \in kept : all[length + n] = parent[n]
<1>1. PICK later : later = {length + n : n \in kept}
  OBVIOUS
<1>2. length \in Nat /\ DOMAIN child = 1 .. length /\ \A n \in kept : n \in Nat /\ n >= 1
  BY DEF Retained
<1>3. \A n \in 1 .. length : n \notin later
  BY <1>1, <1>2
<1>4. all = [n \in (1 .. length) \cup later |-> IF n \in later THEN parent[n - length] ELSE child[n]]
  BY <1>1, <1>2 DEF Merged, Joined
<1>5. ASSUME NEW n \in kept PROVE all[length + n] = parent[n]
  <2>1. length + n \in later /\ (length + n) - length = n
    BY <1>1, <1>2, <1>5
  <2> QED
    BY <1>4, <2>1
<1>6. \A n \in 1 .. length : all[n] = child[n]
  BY <1>3, <1>4
<1> QED
  BY <1>1, <1>2, <1>4, <1>5, <1>6

\* The entries of the repository decide over those they inherit, and leave
\* the ones they do not list in their order.
LEMMA MergedDecides ==
  ASSUME NEW parent \in Seq(SuppressorEntries), NEW child \in Seq(SuppressorEntries), NEW files
  PROVE  /\ Matching(files, child) # {} =>
              Suppressor(files, Merged(parent, child)) = Suppressor(files, child)
         /\ Matching(files, child) = {} =>
              LET left == {n \in Matching(files, parent) : ~Overridden(parent[n], child)} IN
              Suppressor(files, Merged(parent, child))
                = IF left = {} THEN None ELSE parent[Min(left)]
<1>0. PICK all, length, kept :
        all = Merged(parent, child) /\ length = Len(child) /\ kept = Retained(parent, child)
  OBVIOUS
<1>1. /\ length \in Nat /\ DOMAIN child = 1 .. length
      /\ \A m : m \in DOMAIN all <=> m \in DOMAIN child \/ \E n \in kept : m = length + n
      /\ \A n \in DOMAIN child : all[n] = child[n]
      /\ \A n \in kept : all[length + n] = parent[n]
  BY <1>0, MergedIs
<1>2. kept \subseteq DOMAIN parent /\ DOMAIN parent \subseteq Nat \ {0}
  BY <1>0 DEF Retained
<1>3. DOMAIN all \subseteq Nat
  BY <1>1, <1>2
<1> DEFINE Fits(e) == Present(files) # {} /\ Present(files) \subseteq MatchedKinds(e)
<1>4. /\ \A s : Matching(files, s) = {n \in DOMAIN s : Fits(s[n])}
  BY DEF Matching
<1>5. \A n \in DOMAIN child : n \in Matching(files, all) <=> n \in Matching(files, child)
  BY <1>1, <1>4
<1>6. \A n \in kept : length + n \in Matching(files, all) <=> n \in Matching(files, parent)
  BY <1>1, <1>2, <1>4
<1>7. Matching(files, all) \subseteq DOMAIN all /\ Matching(files, child) \subseteq DOMAIN child
  BY DEF Matching
<1>8. ASSUME Matching(files, child) # {} PROVE Suppressor(files, all) = Suppressor(files, child)
  <2>1. PICK T, U : T = Matching(files, child) /\ U = Matching(files, all)
    OBVIOUS
  <2>2. /\ T \in SUBSET Nat /\ T # {} /\ T \subseteq U /\ T \subseteq 1 .. length
        /\ \A m \in U : m \in T \/ \E n \in kept : m = length + n
    BY <1>1, <1>5, <1>7, <1>8, <2>1
  <2>3. PICK n \in T : \A m \in T : n <= m
    BY <2>2, LeastNatural
  <2>4. \A m \in U : n <= m
    <3>1. ASSUME NEW m \in U, NEW k \in kept, m = length + k PROVE n <= m
      <4>1. n \in 1 .. length /\ k \in Nat /\ length \in Nat
        BY <1>1, <1>2, <2>2, <2>3, <3>1
      <4> QED
        BY <3>1, <4>1
    <3> QED
      BY <2>2, <2>3, <3>1
  <2>5. U \in SUBSET Nat /\ n \in U
    BY <1>3, <1>7, <2>1, <2>2, <2>3
  <2>6. Min(T) = n /\ Min(U) = n
    BY <2>2, <2>3, <2>4, <2>5, MinIs
  <2>7. all[n] = child[n]
    BY <1>1, <2>2, <2>3
  <2> QED
    BY <2>1, <2>2, <2>5, <2>6, <2>7 DEF Suppressor
<1>9. ASSUME Matching(files, child) = {},
             NEW left, left = {n \in Matching(files, parent) : ~Overridden(parent[n], child)}
      PROVE  Suppressor(files, all) = IF left = {} THEN None ELSE parent[Min(left)]
  <2>1. \A n : n \in left <=> n \in Matching(files, parent) /\ n \in kept
    BY <1>0, <1>4, <1>9 DEF Retained
  <2>2. \A m : m \in Matching(files, all) <=> \E n \in left : m = length + n
    <3>1. \A m \in Matching(files, all) : \E n \in kept : m = length + n
      BY <1>1, <1>5, <1>7, <1>9
    <3>2. \A m \in Matching(files, all) : \E n \in left : m = length + n
      BY <1>6, <2>1, <3>1
    <3>3. \A n \in left : length + n \in Matching(files, all)
      BY <1>6, <2>1
    <3> QED
      BY <3>2, <3>3
  <2>3. \A n \in left : all[length + n] = parent[n]
    BY <1>1, <2>1
  <2> HIDE DEF Fits
  <2>4. length \in Nat /\ left \in SUBSET Nat
    BY <1>1, <1>2, <2>1
  <2>5. CASE left = {}
    <3>1. Matching(files, all) = {}
      BY <2>2, <2>5
    <3> QED
      BY <2>5, <3>1 DEF Suppressor
  <2>6. CASE left # {}
    <3>1. PICK n \in left : \A m \in left : n <= m
      BY <2>4, <2>6, LeastNatural
    <3>2. PICK U : U = Matching(files, all)
      OBVIOUS
    <3>3. U \in SUBSET Nat /\ length + n \in U /\ \A m \in U : length + n <= m
      BY <2>2, <2>4, <3>1, <3>2
    <3>4. Min(left) = n /\ Min(U) = length + n
      BY <2>4, <3>1, <3>3, MinIs
    <3>5. Suppressor(files, all) = all[length + n]
      BY <3>2, <3>3, <3>4 DEF Suppressor
    <3> QED
      BY <2>3, <2>6, <3>1, <3>4, <3>5
  <2> QED
    BY <2>5, <2>6
<1> QED
  BY <1>0, <1>8, <1>9

\* A mode that may write comes from a document that may say so.
LEMMA EnforceIsAuthorized ==
  ASSUME NEW repository, NEW organization, NEW allow,
         Resolve(repository, organization, allow).ok,
         Resolve(repository, organization, allow).mode = "enforce"
  PROVE  MayWrite(repository, organization, allow)
<1>1. /\ repository # None => repository.valid
      /\ ~OrganizationInvalid(repository, organization)
      /\ repository # None \/ organization # None
  BY DEF Resolve, Failure
<1>2. /\ MergedMode(repository, organization) = "enforce"
      /\ ~Untrusted(repository, organization, allow)
  BY <1>1 DEF Resolve, Failure
<1>3. organization # None /\ ~Replaces(repository) => organization.valid
  BY <1>1 DEF OrganizationInvalid
<1>4. CASE repository = None
  BY <1>1, <1>2, <1>3, <1>4 DEF MergedMode, Untrusted, Replaces, MayWrite
<1>5. CASE repository # None
  BY <1>1, <1>2, <1>3, <1>5 DEF MergedMode, Replaces, MayWrite
<1> QED
  BY <1>4, <1>5

\* The entries of the organization that match and are inherited.
Left(repository, organization, files) ==
  IF organization = None \/ Replaces(repository) THEN {}
  ELSE {n \in Matching(files, organization.suppressors) :
          repository = None \/ ~Overridden(organization.suppressors[n], repository.suppressors)}

\* What is found of a list is the first entry that matches.
LEMMA FoundIs ==
  ASSUME NEW files, NEW list
  PROVE  Suppressor(files, list)
           = IF Matching(files, list) = {} THEN None ELSE list[Min(Matching(files, list))]
BY DEF Suppressor

LEMMA ResolvedSuppressors ==
  ASSUME NEW repository \in Documents, NEW organization \in Documents, NEW allow, NEW files,
         Resolve(repository, organization, allow).ok, NEW left,
         left = Left(repository, organization, files)
  PROVE  LET found == Suppressor(files, Resolve(repository, organization, allow).suppressors) IN
         IF repository # None /\ Matching(files, repository.suppressors) # {}
         THEN found = Suppressor(files, repository.suppressors)
         ELSE found = IF left = {} THEN None ELSE organization.suppressors[Min(left)]
<1>1. PICK resolved : resolved = Resolve(repository, organization, allow).suppressors
  OBVIOUS
<1>2. ~(\/ repository # None /\ ~repository.valid
        \/ OrganizationInvalid(repository, organization))
  BY DEF Resolve, Failure
<1>3. /\ repository = None /\ organization = None => resolved = <<>>
      /\ repository = None /\ organization # None => resolved = organization.suppressors
      /\ repository # None /\ (Replaces(repository) \/ organization = None) =>
           resolved = repository.suppressors
      /\ repository # None /\ ~Replaces(repository) /\ organization # None =>
           resolved = Merged(organization.suppressors, repository.suppressors)
  BY <1>1, <1>2 DEF Resolve, Failure
<1>4. /\ repository # None => repository.suppressors \in Seq(SuppressorEntries)
      /\ organization # None => organization.suppressors \in Seq(SuppressorEntries)
  BY DEF Documents
<1>5. CASE repository = None /\ organization = None
  <2>1. Matching(files, resolved) = {}
    BY <1>3, <1>5 DEF Matching
  <2> QED
    BY <1>1, <1>5, <2>1 DEF Suppressor, Left
<1>6. CASE repository = None /\ organization # None
  <2>1. left = Matching(files, organization.suppressors)
    BY <1>6 DEF Left, Replaces, Matching
  <2> QED
    BY <1>1, <1>3, <1>6, <2>1, FoundIs DEF Replaces
<1>7. CASE repository # None /\ (Replaces(repository) \/ organization = None)
  <2>1. Matching(files, repository.suppressors) = {} => Suppressor(files, repository.suppressors) = None
    BY DEF Suppressor
  <2>2. left = {}
    BY <1>7 DEF Left
  <2> QED
    BY <1>1, <1>3, <1>7, <2>1, <2>2
<1>8. CASE repository # None /\ ~Replaces(repository) /\ organization # None
  <2>1. PICK parent, child : parent = organization.suppressors /\ child = repository.suppressors
    OBVIOUS
  <2>2. left = {n \in Matching(files, parent) : ~Overridden(parent[n], child)}
    BY <1>8, <2>1 DEF Left
  <2>3. parent \in Seq(SuppressorEntries) /\ child \in Seq(SuppressorEntries)
    BY <1>4, <1>8, <2>1
  <2>4. /\ Matching(files, child) # {} =>
             Suppressor(files, Merged(parent, child)) = Suppressor(files, child)
        /\ Matching(files, child) = {} =>
             Suppressor(files, Merged(parent, child))
               = IF left = {} THEN None ELSE parent[Min(left)]
    BY <2>2, <2>3, MergedDecides
  <2> QED
    BY <1>1, <1>3, <1>8, <2>1, <2>4
<1> QED
  BY <1>5, <1>6, <1>7, <1>8

\* Whatever documents and patterns there are: what a repository says decides
\* over what it inherits, what it inherits are the entries whose normalized
\* patterns it does not list, and only a trusted document lets routing write
\* (resolveConfiguration, mergeAtPath, normalizeSetKey).
THEOREM RulesLetRepositoryDecide == RulesSpec => []RepositoryDecides
<1>1. ASSUME AnswerFits PROVE RepositoryDecides
  <2>1. PICK repository, organization, allow :
          /\ repository = question.repository /\ organization = question.organization
          /\ allow = question.allow
    OBVIOUS
  <2> SUFFICES ASSUME Answered("configuration"), answer.ok PROVE RepositoryDecides
    BY DEF RepositoryDecides
  <2>2. repository \in Documents /\ organization \in Documents
    BY <1>1, <2>1, RulesAssumption DEF AnswerFits, Answered
  <2>3. answer = Resolve(repository, organization, allow)
    BY <1>1, <2>1 DEF AnswerFits
  <2>4. answer.mode = "enforce" => MayWrite(repository, organization, allow)
    BY <2>3, EnforceIsAuthorized
  <2>5. ASSUME NEW files
        PROVE  IF repository # None /\ Matching(files, repository.suppressors) # {}
               THEN Suppressor(files, answer.suppressors) = Suppressor(files, repository.suppressors)
               ELSE Suppressor(files, answer.suppressors)
                      = IF Left(repository, organization, files) = {} THEN None
                        ELSE organization.suppressors[Min(Left(repository, organization, files))]
    BY <2>2, <2>3, ResolvedSuppressors
  <2>6. ASSUME NEW present \in SUBSET Kinds
        PROVE  LET files == [kind \in Kinds |-> IF kind \in present THEN 1 ELSE 0]
                   left == Left(question.repository, question.organization, files) IN
               IF /\ question.repository # None
                  /\ Matching(files, question.repository.suppressors) # {}
               THEN Suppressor(files, answer.suppressors)
                      = Suppressor(files, question.repository.suppressors)
               ELSE Suppressor(files, answer.suppressors)
                      = IF left = {} THEN None ELSE question.organization.suppressors[Min(left)]
    <3>1. PICK files : files = [kind \in Kinds |-> IF kind \in present THEN 1 ELSE 0]
      OBVIOUS
    <3> QED
      BY <2>1, <2>5, <3>1
  <2> QED
    BY <2>1, <2>4, <2>6 DEF RepositoryDecides, Left, Overridden
<1> QED
  BY <1>1, RulesAnswer, PTL
=============================================================================

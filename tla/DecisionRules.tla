---------------------------- MODULE DecisionRules ----------------------------
(***************************************************************************)
(* What a routing run decides, as operators: the effective configuration   *)
(* of a repository (packages/config/src), the risk of a pull request, the  *)
(* owners of its files and the reviewers to ask (packages/core/src).  They *)
(* are pure functions of documents that a team writes and of what GitHub   *)
(* answers: a question is one such input, its answer the result.  Files    *)
(* and documents are reduced to what the rules tell apart.                 *)
(***************************************************************************)
EXTENDS Integers, Sequences, FiniteSets, FiniteSetsExt, SequencesExt

CONSTANTS
  Questions,  \* what is asked
  Lines,      \* the changed lines of a file of each kind
  Patterns,   \* glob patterns of a configuration
  Matches,    \* the kinds of files that minimatch says each of them matches
  Normal,     \* each of them trimmed and lowercased
  None        \* no document, no suppressor, no answer

VARIABLES question, answer

rulesVars == <<question, answer>>

-----------------------------------------------------------------------------
(* Configuration.  A document has a mode (or none), says whether it        *)
(* inherits, may be invalid, and lists suppressors: sets of patterns with  *)
(* a ceiling.                                                              *)

Failure == [ok |-> FALSE, mode |-> "shadow", suppressors |-> <<>>]

\* normalizeSetKey: patterns that differ in case only have one key, though
\* they may match different files.
Key(entry) == {Normal[pattern] : pattern \in entry.ifAllMatch}

\* A slip: the patterns are compared as they are written.
OverriddenAsWritten(entry, child) ==
  \E n \in DOMAIN child : child[n].ifAllMatch = entry.ifAllMatch

Overridden(entry, child) == \E n \in DOMAIN child : Key(child[n]) = Key(entry)

Retained(parent, child) == {n \in DOMAIN parent : ~Overridden(parent[n], child)}

\* Two lists, one after the other; the position of an entry that was dropped
\* stays empty.
Joined(first, second, kept) ==
  LET later == {Len(first) + n : n \in kept} IN
  [n \in (DOMAIN first \cup later) |-> IF n \in later THEN second[n - Len(first)] ELSE first[n]]

Merged(parent, child) == Joined(child, parent, Retained(parent, child))

Replaces(repository) == repository # None /\ ~repository.inheritance

\* Is the organization's document valid where it is read?
OrganizationInvalid(repository, organization) ==
  /\ ~Replaces(repository) /\ organization # None
  /\ ~organization.valid \/ organization.inheritance

MergedMode(repository, organization) ==
  IF repository = None THEN organization.mode
  ELSE IF Replaces(repository) \/ organization = None \/ repository.mode # None
  THEN repository.mode ELSE organization.mode

Untrusted(repository, organization, allow) == repository = None /\ ~allow

\* resolveConfiguration: the default mode is shadow.
Resolve(repository, organization, allow) ==
  IF \/ repository # None /\ ~repository.valid
     \/ OrganizationInvalid(repository, organization)
  THEN Failure
  ELSE IF repository = None /\ organization = None THEN [Failure EXCEPT !.ok = TRUE]
  ELSE LET mode == MergedMode(repository, organization) IN
       [ok |-> TRUE,
        mode |-> IF mode = None \/ Untrusted(repository, organization, allow)
                 THEN "shadow" ELSE mode,
        suppressors |->
          IF repository = None THEN organization.suppressors
          ELSE IF Replaces(repository) \/ organization = None THEN repository.suppressors
          ELSE Merged(organization.suppressors, repository.suppressors)]

-----------------------------------------------------------------------------
(* Risk.  A pull request has some files of each kind; the kinds stand for  *)
(* the patterns of the code, for one path of the configuration, and for    *)
(* what the patterns of suppressors tell apart.                            *)

Kinds == {"docs", "tests", "source", "schema", "lockfile"}

Present(files) == {kind \in Kinds : files[kind] > 0}

\* Tests are not scored.
Scored(files) == [files EXCEPT !["tests"] = 0]

Total(numbers) ==
  numbers["docs"] + numbers["tests"] + numbers["source"] + numbers["schema"] + numbers["lockfile"]

Count(files) == Total(files)

LineDelta(files) == Total([kind \in Kinds |-> Lines[kind] * files[kind]])

\* matchesPath minds the case of a pattern.
MatchedKinds(entry) == UNION {Matches[pattern] : pattern \in entry.ifAllMatch}

Matching(files, suppressors) ==
  {n \in DOMAIN suppressors :
     Present(files) # {} /\ Present(files) \subseteq MatchedKinds(suppressors[n])}

\* findMatchingSuppressor: the first one that all files match.
Suppressor(files, suppressors) ==
  LET matching == Matching(files, suppressors) IN
  IF matching = {} THEN None ELSE suppressors[Min(matching)]

SizeEscalated(files, config) ==
  \/ Count(Scored(files)) >= config.highChangedFiles
  \/ LineDelta(Scored(files)) >= config.highChangedLines

Minimum(a, b) == IF a < b THEN a ELSE b

Part(condition, score) == IF condition THEN score ELSE 0

\* The components of the score before the size of the change.
BaseScore(files, ai, config) ==
  LET count == Count(Scored(files)) IN
  Minimum(20, 5 * ((count + 4) \div 5))
    + Part(LineDelta(Scored(files)) >= 200, 15)
    + Part(files["source"] > 0, config.weight)
    + Part(files["lockfile"] > 0, 15)
    + Part(files["schema"] > 0, 20)
    + Part(ai /\ config.aiEnabled, config.modifier)

ScoreFloor(config) == Minimum(100, config.high + 1)

\* A slip: the component of the size is what is missing to the floor, or
\* what is beyond it.
SizeScoreSigned(base, config) == ScoreFloor(config) - base

SizeScore(base, config) == Part(ScoreFloor(config) > base, ScoreFloor(config) - base)

\* scorePullRequestRisk: a suppressor caps the score of a small change.
Score(files, ai, config) ==
  LET base == BaseScore(files, ai, config)
      suppressor == Suppressor(files, config.suppressors)
  IN
  IF SizeEscalated(files, config) THEN Minimum(100, base + SizeScore(base, config))
  ELSE IF suppressor = None THEN Minimum(100, base)
  ELSE Minimum(Minimum(100, base), suppressor.ceiling)

Tier(files, ai, config) ==
  IF SizeEscalated(files, config) THEN "high"
  ELSE IF Score(files, ai, config) <= config.low THEN "low"
  ELSE IF Score(files, ai, config) <= config.high THEN "medium" ELSE "high"

-----------------------------------------------------------------------------
(* Reviewers.  Actors are numbers in the order of their stable rank.       *)

\* matchOwnership: the owners of the files, or else the fallbacks.
Preferred(owners, fallbacks) == IF owners = {} THEN fallbacks ELSE owners

Eligible(owners, fallbacks) == Preferred(owners, fallbacks) \cup fallbacks

Goes(a, b, load) == load[a] < load[b] \/ (load[a] = load[b] /\ a < b)

\* selectLowestLoadReviewers: the first of them by load and rank.
LowestLoad(candidates, load, count) ==
  {a \in candidates : Cardinality({b \in candidates : Goes(b, a, load)}) < count}

\* A slip: one order for owners and fallbacks.
SelectUntiered(candidates, preferred, load, count) == LowestLoad(candidates, load, count)

SelectTiered(candidates, preferred, load, count) ==
  LET owners == LowestLoad(candidates \cap preferred, load, count) IN
  owners \cup LowestLoad(candidates \ preferred, load, count - Cardinality(owners))

\* decideRouting on the actors that are available at the time.
Route(q) ==
  LET available == Eligible(q.owners, q.fallbacks) \ q.absent
      candidates == available \ ({q.author} \cup q.approved)
      count == CASE q.tier = "low" -> 0 [] q.tier = "medium" -> 1 [] OTHER -> q.highRiskReviewers
      selected ==
        SelectTiered(candidates, Preferred(q.owners, q.fallbacks) \ q.absent, q.load, count)
  IN
  [action |-> CASE q.tier = "low" -> "policy_approval"
                [] q.tier # "low" /\ selected = {} -> "no_eligible_reviewer"
                [] OTHER -> "request_human_review",
   candidates |-> candidates, count |-> count, selected |-> selected]

\* selectReplacement: one reviewer, who is not in the cohort yet.
Replace(q) ==
  LET candidates ==
        (Eligible(q.owners, q.fallbacks) \ q.absent) \ ({q.author} \cup q.cohort \cup q.approved)
  IN
  [candidates |-> candidates, count |-> 1,
   selected |-> SelectTiered(candidates, Preferred(q.owners, q.fallbacks), q.load, 1)]

-----------------------------------------------------------------------------
(* What a document and a configuration may be: the bounds of the schema.   *)

SuppressorEntries == [ifAllMatch : SUBSET Patterns, ceiling : 0 .. 100]

Documents ==
  {None} \cup [valid : BOOLEAN, mode : {None, "shadow", "enforce"}, inheritance : BOOLEAN,
               suppressors : Seq(SuppressorEntries)]

RiskConfiguration ==
  [low : 0 .. 100, high : 0 .. 100, weight : 0 .. 100, modifier : 0 .. 100, aiEnabled : BOOLEAN,
   highChangedFiles : Nat \ {0}, highChangedLines : Nat \ {0},
   suppressors : Seq(SuppressorEntries)]

\* Whoever may be asked is one of finitely many actors with a load.
ASSUME RulesAssumption ==
  /\ Lines \in [Kinds -> Nat]
  /\ Matches \in [Patterns -> SUBSET Kinds] /\ DOMAIN Normal = Patterns
  /\ \A q \in Questions :
       /\ q.kind = "configuration" => {q.repository, q.organization} \subseteq Documents
       /\ q.kind = "risk" => q.files \in [Kinds -> Nat] /\ q.config \in RiskConfiguration
       /\ q.kind \in {"routing", "replacement"} =>
            /\ IsFiniteSet(DOMAIN q.load) /\ DOMAIN q.load \subseteq Nat
            /\ q.load \in [DOMAIN q.load -> Nat]
            /\ q.owners \cup q.fallbacks \subseteq DOMAIN q.load
       /\ q.kind = "routing" => q.highRiskReviewers \in Nat

RulesInit == question \in Questions /\ answer = None

Answers(kind, result) == question.kind = kind /\ answer = None /\ answer' = result

ResolveConfiguration ==
  /\ Answers("configuration", Resolve(question.repository, question.organization, question.allow))
  /\ UNCHANGED question

ScoreRisk ==
  /\ Answers("risk", [score |-> Score(question.files, question.ai, question.config),
                      tier |-> Tier(question.files, question.ai, question.config)])
  /\ UNCHANGED question

DecideRouting == Answers("routing", Route(question)) /\ UNCHANGED question

SelectReplacement == Answers("replacement", Replace(question)) /\ UNCHANGED question

RulesNext == ResolveConfiguration \/ ScoreRisk \/ DecideRouting \/ SelectReplacement

RulesSpec == RulesInit /\ [][RulesNext]_rulesVars

-----------------------------------------------------------------------------
Answered(kind) == answer # None /\ question.kind = kind

\* The documents let routing write to GitHub.
MayWrite(repository, organization, allow) ==
  \/ repository # None /\ repository.valid /\ repository.mode = "enforce"
  \/ /\ organization # None /\ organization.valid /\ organization.mode = "enforce"
     /\ \/ allow /\ repository = None
        \/ repository # None /\ repository.inheritance /\ repository.mode = None

(* Whatever a repository says of a set of files decides over what it       *)
(* inherits, wherever the organization lists the same or a wider set.      *)
(* What it does not speak of is decided by the first entry of the          *)
(* organization that matches and whose patterns the repository does not    *)
(* list: "Arrays place repository entries first, followed by organization  *)
(* entries whose normalized keys do not collide"                           *)
(* (docs/github-app/repository-configuration.md:56).  The collision minds  *)
(* no case and the match does, so that a repository that lists "docs/**"   *)
(* loses the organization's "Docs/**" and the files only that one matches. *)
(* And "only a trusted repository document can authorize writes" (line     *)
(* 91): the effective mode is enforce only if the repository's own         *)
(* document says so, or opts into an organization that does, or the        *)
(* deployment allows it.                                                   *)
RepositoryDecides ==
  LET repository == question.repository
      organization == question.organization
      found(files) == Suppressor(files, answer.suppressors)
      listed(entry) ==
        repository # None
          /\ \E n \in DOMAIN repository.suppressors : Key(repository.suppressors[n]) = Key(entry)
      inherited(files) ==
        IF organization = None \/ Replaces(repository) THEN {}
        ELSE {n \in Matching(files, organization.suppressors) :
                ~listed(organization.suppressors[n])}
  IN
  Answered("configuration") /\ answer.ok =>
    /\ answer.mode = "enforce" => MayWrite(repository, organization, question.allow)
    /\ \A present \in SUBSET Kinds :
         LET files == [kind \in Kinds |-> IF kind \in present THEN 1 ELSE 0] IN
         IF repository # None /\ Matching(files, repository.suppressors) # {}
         THEN found(files) = Suppressor(files, repository.suppressors)
         ELSE found(files) = IF inherited(files) = {} THEN None
                             ELSE organization.suppressors[Min(inherited(files))]

Order(tier) == CASE tier = "low" -> 0 [] tier = "medium" -> 1 [] OTHER -> 2

(* More files never make a pull request less risky, at any threshold, size *)
(* and weight, unless another suppressor takes over: neither where the     *)
(* size escalates it, nor where a suppressor no longer holds.              *)
RiskIsMonotone ==
  Answered("risk") =>
    \A kind \in Kinds :
      LET more == [question.files EXCEPT ![kind] = @ + 1]
          config == question.config
      IN
      Suppressor(more, config.suppressors)
        \in {None, Suppressor(question.files, config.suppressors)} =>
          /\ Score(more, question.ai, config) >= answer.score
          /\ Order(Tier(more, question.ai, config)) >= Order(answer.tier)

(* "A less-busy fallback never displaces an available preferred owner"     *)
(* (docs/operations/analytics.md:36), nobody is asked who wrote the change,*)
(* approved it or is away, and whoever is asked is among the least busy of *)
(* the owners or of the fallbacks; nobody is left out while one is missing.*)
SelectionIsFair ==
  Answered("routing") \/ Answered("replacement") =>
    LET owners == Preferred(question.owners, question.fallbacks)
        out == {question.author} \cup question.approved \cup question.absent
        left == answer.candidates \ answer.selected
    IN
    /\ answer.selected \cap out = {}
    /\ question.kind = "replacement" => answer.selected \cap question.cohort = {}
    /\ Cardinality(answer.selected) = Minimum(answer.count, Cardinality(answer.candidates))
    /\ \A a \in answer.selected, b \in left :
         /\ b \in owners => a \in owners
         /\ (a \in owners) = (b \in owners) => question.load[a] <= question.load[b]
=============================================================================

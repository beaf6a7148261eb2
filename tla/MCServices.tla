------------------------------ MODULE MCServices ------------------------------
(* Small instances of the services around the queue, each checked on its   *)
(* own: the first state chooses which one runs, with a bound on its        *)
(* counters; the others stay where they start.                             *)
EXTENDS LoginThrottle, ReviewerBacklog, WebhookIntake, DecisionRules, RoutingActions

CONSTANTS
  MaxClock, MaxGuesses, \* the throttle
  MaxMoves, MaxChanges, \* the backlog, and the changes of the intake's world
  MaxDay,               \* the intake: 0 while the operator's requests run
  MaxRemarks            \* the actions: items of other people

VARIABLES component, changes

servicesVars == <<component, changes, throttleVars, backlogVars, intakeVars, rulesVars,
                  actionsVars>>

\* Two patterns of one key: docs/a.md, and Docs/a.test.ts.
MCPatterns == {"docs/**", "Docs/**", "*.test.ts"}
MCMatches ==
  [pattern \in MCPatterns |-> IF pattern = "docs/**" THEN {"docs"} ELSE {"tests"}]
MCNormal ==
  [pattern \in MCPatterns |-> IF pattern = "Docs/**" THEN "docs/**" ELSE pattern]

Ceiling(patterns, ceiling) == [ifAllMatch |-> patterns, ceiling |-> ceiling]

\* The same set, a wider one, a narrower one first, or none.
SuppressorLists ==
  {<<>>, <<Ceiling({"docs/**"}, 10)>>, <<Ceiling({"docs/**", "*.test.ts"}, 30)>>,
   <<Ceiling({"docs/**"}, 20), Ceiling({"docs/**", "*.test.ts"}, 5)>>}

\* And the same key for other files, alone or with a wider set.
CollidingLists ==
  {<<Ceiling({"Docs/**"}, 15)>>, <<Ceiling({"Docs/**"}, 25), Ceiling({"*.test.ts"}, 40)>>}

MCDocuments ==
  {None} \cup [valid : BOOLEAN, mode : {None, "shadow", "enforce"}, inheritance : BOOLEAN,
               suppressors : SuppressorLists \cup CollidingLists]

MCLines == [kind \in Kinds |-> IF kind = "source" THEN 120 ELSE 10]

RiskConfigs ==
  [low : {25}, high : {70, 100}, weight : {0, 60}, highChangedFiles : {3, 9},
   highChangedLines : {250, 900}, aiEnabled : {TRUE}, modifier : {10},
   suppressors : SuppressorLists]

Actors == 1 .. 3

\* All documents, pull requests of up to two files of a kind, and all owners
\* and fallbacks among three actors, one of them the author.
MCQuestions ==
  [kind : {"configuration"}, repository : MCDocuments, organization : MCDocuments, allow : BOOLEAN]
    \cup [kind : {"risk"}, files : [Kinds -> 0 .. 2], ai : BOOLEAN, config : RiskConfigs]
    \cup [kind : {"routing"}, author : {2}, approved : {{}, {1}, {3}}, absent : {{}, {1}, {3}},
          owners : SUBSET Actors, fallbacks : SUBSET Actors, load : [Actors -> 0 .. 1],
          tier : {"low", "medium", "high"}, highRiskReviewers : {1, 2}]
    \cup [kind : {"replacement"}, author : {2}, approved : {{}, {1}, {3}}, absent : {{1}, {3}},
          owners : SUBSET Actors, fallbacks : SUBSET Actors, load : [Actors -> 0 .. 1],
          cohort : {{1}, {1, 3}}]

\* Two routes of a high risk around one that needs no human.
MCTierOf == <<"high", "low", "high">>
MCRouteOf == <<"human_review", "no_human", "no_eligible_reviewer">>

ServiceSymmetry ==
  UNION {Permutations(LoginKeys), Permutations(Repositories), Permutations(Acquisitions),
         Permutations(Connections)}

ServicesInit ==
  /\ component \in {"login", "backlog", "operator", "retention", "rules", "actions"}
  /\ changes = 0
  /\ ThrottleInit /\ BacklogInit /\ IntakeInit
  /\ ActionsInit /\ (component # "actions" => labels = {})
  /\ IF component = "rules" THEN RulesInit ELSE question = None /\ answer = None

LoginStep ==
  /\ component = "login" /\ ThrottleNext
  /\ clock' <= MaxClock
  /\ \A k \in LoginKeys : Len(guesses'[k]) <= MaxGuesses
  /\ UNCHANGED <<component, changes, backlogVars, intakeVars, rulesVars, actionsVars>>

BacklogStep ==
  /\ component = "backlog"
  /\ BacklogNext
  /\ moves' <= MaxMoves /\ generation' <= MaxMoves
  /\ changes' = IF <<connected, members>>' = <<connected, members>> THEN changes ELSE changes + 1
  /\ changes' <= MaxChanges
  /\ UNCHANGED <<component, throttleVars, intakeVars, rulesVars, actionsVars>>

World == <<head, open, place, active, revoked, activating>>

\* The operator's requests run within one day, against one change more; the
\* retention needs days, and takes no notice of the pull request or of its
\* repository's name.  A cleanup follows its revocation, and is not counted.
IntakeStep ==
  /\ component \in {"operator", "retention"}
  /\ IntakeNext
  /\ day' <= (IF component = "operator" THEN 0 ELSE MaxDay)
  /\ component = "retention" => UNCHANGED <<request, head, open, place.name>>
  /\ retention'.step # "idle" => day' > 0
  /\ changes' = IF World' = World \/ \E row \in Connections : CleanUp(row)
                THEN changes ELSE changes + 1
  /\ changes' <= (IF component = "operator" THEN MaxChanges + 1 ELSE MaxChanges)
  /\ UNCHANGED <<component, throttleVars, backlogVars, rulesVars, actionsVars>>

RulesStep ==
  /\ component = "rules" /\ RulesNext
  /\ UNCHANGED <<component, changes, throttleVars, backlogVars, intakeVars, actionsVars>>

ActionsStep ==
  /\ component = "actions" /\ ActionsNext
  /\ Cardinality(UNION {{list} \X Written(list, Other)' : list \in Lists}) <= MaxRemarks
  /\ UNCHANGED <<component, changes, throttleVars, backlogVars, intakeVars, rulesVars>>

ServicesNext == LoginStep \/ BacklogStep \/ IntakeStep \/ RulesStep \/ ActionsStep

ServicesSpec == ServicesInit /\ [][ServicesNext]_servicesVars
=============================================================================

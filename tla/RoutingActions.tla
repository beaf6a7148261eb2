---------------------------- MODULE RoutingActions ----------------------------
(***************************************************************************)
(* What the actions of a routing run write on its pull request: a check    *)
(* run, a risk label, a comment, review requests and an approval           *)
(* (applyActions of apps/worker/src/runtime-services.ts, GitHubAdapter of  *)
(* packages/provider-github/src/adapter.ts).  Each write is some requests: *)
(* a search through the pages of a list, then an update of what was found  *)
(* or a new item.  An attempt may end at any request, before or after      *)
(* GitHub carried it out, and is made again; other people write as well.   *)
(*                                                                         *)
(* There is one worker, as in the deployment.  Every push has a decision   *)
(* of its own, so a head is the number of its decision.                    *)
(***************************************************************************)
EXTENDS Integers, Sequences, FiniteSets

CONSTANTS
  Pushes,     \* the decisions of one pull request, 1 to their number
  TierOf,     \* for each decision, its risk tier
  RouteOf,    \* for each decision, whether it asks for reviewers
  PageSize    \* items of a list in one answer (100)

ASSUME RoutingActionsAssumption ==
  /\ IsFiniteSet(Pushes) /\ Pushes # {} /\ Pushes = 1 .. Cardinality(Pushes)
  /\ RouteOf \in [Pushes -> {"human_review", "no_human", "no_eligible_reviewer"}]
  /\ PageSize \in Nat \ {0}

\* The lists that are searched for an item of the decision; other people have
\* items in them too.
Lists == {"run", "comment", "approval"}
Tiers == {TierOf[d] : d \in Pushes}
Other == 0

VARIABLES
  pushed,  \* the current head
  items,   \* for each list, whose its items are
  labels,  \* the risk labels of the pull request
  asked,   \* decisions whose reviewers were requested
  act,     \* the attempt that is being made
  settled  \* the decision of the last attempt that wrote, if it came to its end

actionsVars == <<pushed, items, labels, asked, act, settled>>

NoAct == [step |-> "idle", decision |-> 0, page |-> 1, item |-> "sought", others |-> {}]

ActionsInit ==
  /\ pushed = 1
  /\ items = [list \in Lists |-> <<>>]
  /\ labels \in SUBSET Tiers
  /\ asked = {}
  /\ act = NoAct
  /\ settled = 0

-----------------------------------------------------------------------------
\* What follows a write; only a decision that needs no human is approved, and
\* only the others have reviewers.
AfterWrite(step) ==
  CASE step = "run" -> "list labels"
    [] step = "comment" -> CASE RouteOf[act.decision] = "no_human" -> "approval"
                             [] RouteOf[act.decision] = "human_review" -> "request"
                             [] OTHER -> "end"
    [] OTHER -> "end"

Step(step) == act' = [act EXCEPT !.step = step, !.page = 1, !.item = "sought"]

\* A request was carried out; its answer arrives or the attempt ends.
Sent(step, answered) == IF answered THEN Step(step) ELSE act' = NoAct

\* The head is compared once, before the first write.
BeginActions(d) ==
  /\ act.step = "idle" /\ d <= pushed
  /\ IF d = pushed
     THEN act' = [NoAct EXCEPT !.step = "run", !.decision = d] /\ settled' = 0
     ELSE UNCHANGED <<act, settled>>
  /\ UNCHANGED <<pushed, items, labels, asked>>

Page(list, page) ==
  LET last == page * PageSize IN
  SubSeq(items[list], last - PageSize + 1,
         IF last < Len(items[list]) THEN last ELSE Len(items[list]))

\* A slip: a full page is taken for the last one.
LastPageWhenFull(page) == Len(page) <= PageSize

LastPage(page) == Len(page) < PageSize

\* findPaginated
Search(list) ==
  /\ act.step = list /\ act.item = "sought"
  /\ LET page == Page(list, act.page) IN
       act' = IF \E n \in DOMAIN page : page[n] = act.decision
              THEN [act EXCEPT !.item = "found"]
              ELSE IF LastPage(page) THEN [act EXCEPT !.item = "missing"]
              ELSE [act EXCEPT !.page = @ + 1]
  /\ UNCHANGED <<pushed, items, labels, asked, settled>>

\* A run or a comment that was found is written over.
Update(list) ==
  /\ act.step = list /\ act.item = "found" /\ list # "approval"
  /\ Step(AfterWrite(list))
  /\ UNCHANGED <<pushed, items, labels, asked, settled>>

\* submitPolicyApproval
KeepApproval ==
  /\ act.step = "approval" /\ act.item = "found"
  /\ Step("end")
  /\ UNCHANGED <<pushed, items, labels, asked, settled>>

Create(list, answered) ==
  /\ act.step = list /\ act.item = "missing"
  /\ items' = [items EXCEPT ![list] = Append(@, act.decision)]
  /\ Sent(AfterWrite(list), answered)
  /\ UNCHANGED <<pushed, labels, asked, settled>>

-----------------------------------------------------------------------------
(* syncRiskLabel; the label is first created in the repository, or exists there *)

ListLabels ==
  /\ act.step = "list labels"
  /\ act' = [act EXCEPT !.step = "labels", !.others = labels \ {TierOf[act.decision]}]
  /\ UNCHANGED <<pushed, items, labels, asked, settled>>

\* A label that is gone already is an error.
RemoveLabel(tier, answered) ==
  /\ act.step = "labels" /\ tier \in act.others
  /\ labels' = labels \ {tier}
  /\ act' = IF answered /\ tier \in labels THEN [act EXCEPT !.others = @ \ {tier}] ELSE NoAct
  /\ UNCHANGED <<pushed, items, asked, settled>>

AddLabel(answered) ==
  /\ act.step = "labels" /\ act.others = {}
  /\ labels' = labels \cup {TierOf[act.decision]}
  /\ Sent("comment", answered)
  /\ UNCHANGED <<pushed, items, asked, settled>>

\* requestHumanReviewers
RequestReviewers(answered) ==
  /\ act.step = "request"
  /\ asked' = asked \cup {act.decision}
  /\ Sent("end", answered)
  /\ UNCHANGED <<pushed, items, labels, settled>>

EndActions ==
  /\ act.step = "end"
  /\ settled' = act.decision
  /\ act' = NoAct
  /\ UNCHANGED <<pushed, items, labels, asked>>

\* An error or a death between two requests.
Interrupt ==
  /\ act.step # "idle"
  /\ act' = NoAct
  /\ UNCHANGED <<pushed, items, labels, asked, settled>>

-----------------------------------------------------------------------------
(* Everybody else *)

Push ==
  /\ pushed + 1 \in Pushes
  /\ pushed' = pushed + 1
  /\ UNCHANGED <<items, labels, asked, act, settled>>

Remark(list) ==
  /\ items' = [items EXCEPT ![list] = Append(@, Other)]
  /\ UNCHANGED <<pushed, labels, asked, act, settled>>

Unlabel(tier) ==
  /\ labels' = labels \ {tier}
  /\ UNCHANGED <<pushed, items, asked, act, settled>>

ActionsNext ==
  \/ \E d \in Pushes : BeginActions(d)
  \/ \E list \in Lists : Search(list) \/ Update(list) \/ Remark(list)
  \/ KeepApproval \/ ListLabels
  \/ \E answered \in BOOLEAN :
       \/ \E list \in Lists : Create(list, answered)
       \/ \E tier \in Tiers : RemoveLabel(tier, answered)
       \/ AddLabel(answered) \/ RequestReviewers(answered)
  \/ EndActions \/ Interrupt
  \/ Push \/ \E tier \in labels : Unlabel(tier)

ActionsSpec == ActionsInit /\ [][ActionsNext]_actionsVars

-----------------------------------------------------------------------------
Written(list, d) == {n \in DOMAIN items[list] : items[list][n] = d}

(* However often an attempt ends half way and is made again, however many  *)
(* pages of other items there are and whoever pushes meanwhile: a decision *)
(* never has a second check run, comment or approval, and when an attempt  *)
(* came to its end nothing of its decision is missing and no label of an   *)
(* earlier decision is left beside its own.                                *)
ActionsConverge ==
  /\ \A list \in Lists, d \in Pushes : Cardinality(Written(list, d)) <= 1
  /\ settled # 0 =>
       /\ Written("run", settled) # {} /\ Written("comment", settled) # {}
       /\ labels \subseteq {TierOf[settled]}
       /\ RouteOf[settled] = "no_human" => Written("approval", settled) # {}
       /\ RouteOf[settled] = "human_review" => settled \in asked
=============================================================================

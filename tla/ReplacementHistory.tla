------------------------- MODULE ReplacementHistory -------------------------
(***************************************************************************)
(* What the replacement of an absent reviewer promises, with no attempt,   *)
(* lease, recovery or error in sight.  For each revision of the absence    *)
(* and each decision: an actor is intended once, and no other is asked for *)
(* a review; one outcome is recorded; it is "replaced" only for the actor  *)
(* that was intended and asked, and then the decision's cohort changes in  *)
(* the same step; a finalizer that an outcome needs has run before the row *)
(* is complete; what is left unfinished can only be given up.              *)
(* ReviewerAvailability is shown to implement this module.                 *)
(***************************************************************************)
EXTENDS Naturals

CONSTANTS Revisions, Decisions, Mode, Absentee, Pool, FirstCohort, NoActor

VARIABLES
  intended,  \* for each revision and decision, the actor of the intent
  asked,     \* <<r, d, actor>> that were requested on GitHub
  outcome,   \* for each revision and decision, the outcome on record
  state,     \* and how far it is finished
  ran,       \* <<r, d>> whose finalizer has run
  cohort     \* for each decision, the reviewers on record

history == <<intended, asked, outcome, state, ran, cohort>>

For(value) == [r \in Revisions |-> [d \in Decisions |-> value]]

Init == /\ intended = For(NoActor) /\ asked = {} /\ ran = {}
        /\ outcome = For("none") /\ state = For("none")
        /\ cohort = [d \in Decisions |-> FirstCohort]

Intend(r, d, x) ==
  /\ Mode[d] = "enforce"
  /\ intended[r][d] = NoActor /\ outcome[r][d] = "none"
  /\ Absentee \in cohort[d] /\ x \in Pool \ cohort[d]
  /\ intended' = [intended EXCEPT ![r][d] = x]
  /\ UNCHANGED <<asked, outcome, state, ran, cohort>>

Ask(r, d) ==
  /\ intended[r][d] # NoActor
  /\ asked' = asked \cup {<<r, d, intended[r][d]>>}
  /\ UNCHANGED <<intended, outcome, state, ran, cohort>>

Swap(d, x) == /\ Absentee \in cohort[d] /\ x \in Pool \ cohort[d]
              /\ cohort' = [cohort EXCEPT ![d] = (@ \ {Absentee}) \cup {x}]

Record(r, d, o) ==
  /\ outcome[r][d] = "none"
  /\ \/ o = "replaced" /\ <<r, d, intended[r][d]>> \in asked /\ Swap(d, intended[r][d])
     \/ o = "simulated_replacement" /\ Mode[d] = "shadow" /\ \E x \in Pool : Swap(d, x)
     \/ o \notin {"none", "replaced", "simulated_replacement"} /\ UNCHANGED cohort
  /\ outcome' = [outcome EXCEPT ![r][d] = o]
  /\ state' = [state EXCEPT ![r][d] =
       CASE o = "permanent_failure" -> "permanent_failure"
         [] o \in {"replaced", "skipped_policy_satisfied", "no_replacement_available"} ->
              "finalizer_pending"
         [] OTHER -> "completed"]
  /\ UNCHANGED <<intended, asked, ran>>

Finalize(r, d) ==
  /\ outcome[r][d] \in {"replaced", "skipped_policy_satisfied", "no_replacement_available"}
  /\ ran' = ran \cup {<<r, d>>}
  /\ UNCHANGED <<intended, asked, outcome, state, cohort>>

Complete(r, d) ==
  /\ state[r][d] = "finalizer_pending" /\ <<r, d>> \in ran
  /\ state' = [state EXCEPT ![r][d] = "completed"]
  /\ UNCHANGED <<intended, asked, outcome, ran, cohort>>

\* The revision's activation is given up as a whole.
GiveUp(r) ==
  LET open == {d \in Decisions : intended[r][d] # NoActor /\ outcome[r][d] = "none"}
      pending == {d \in Decisions : state[r][d] = "finalizer_pending"}
  IN /\ outcome' = [outcome EXCEPT ![r] =
          [d \in Decisions |-> IF d \in open THEN "permanent_failure" ELSE @[d]]]
     /\ state' = [state EXCEPT ![r] =
          [d \in Decisions |-> IF d \in open \cup pending THEN "permanent_failure"
                                                          ELSE @[d]]]
     /\ UNCHANGED <<intended, asked, ran, cohort>>

Outcomes == {"replaced", "simulated_replacement", "no_replacement_available",
             "skipped_closed", "skipped_changed_head", "skipped_policy_satisfied",
             "skipped_approved", "permanent_failure"}

Next == \E r \in Revisions :
          \/ GiveUp(r)
          \/ \E d \in Decisions :
               \/ \E x \in Pool : Intend(r, d, x)
               \/ Ask(r, d) \/ Finalize(r, d) \/ Complete(r, d)
               \/ \E o \in Outcomes : Record(r, d, o)

Spec == Init /\ [][Next]_history
=============================================================================

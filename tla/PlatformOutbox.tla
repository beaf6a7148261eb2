--------------------------- MODULE PlatformOutbox ---------------------------
(***************************************************************************)
(* The platform-event outbox (packages/db/src/outbox.ts): staged events    *)
(* are claimed in batches under a lease, emitted to a sink one after the   *)
(* other, and acknowledged or put off.  Publishers are worker processes,   *)
(* which drain the outbox twice in a cycle and ignore its errors           *)
(* (apps/worker/src/maintenance.ts).                                       *)
(*                                                                         *)
(* Time is abstracted to whether available_at has passed: it may pass at   *)
(* any moment, also while a claim is at work.                              *)
(***************************************************************************)
EXTENDS Naturals, FiniteSets

CONSTANTS
  Events,      \* identities of staged events
  Publishers,  \* worker processes
  Limit,       \* size of a batch
  NoEvent      \* no event is being handled

ASSUME OutboxAssumption == Limit \in Nat \ {0} /\ NoEvent \notin Events

\* attempts is attempt_count; due is available_at <= now.
Row == [staged : BOOLEAN, published : BOOLEAN, attempts : Nat, due : BOOLEAN]

\* What a drain remembers: the events of its batch it has still to handle,
\* each with the attempt_count of its claim, and the one it is handling.
Drain == [step : {"idle", "next", "emitted", "caught"},
          batch : SUBSET Events, claim : [Events -> Nat], event : Events \cup {NoEvent}]

VARIABLES
  row,       \* for each event, its row of decision_outbox
  drain,     \* for each publisher, its publishPlatformOutbox
  delivered  \* events that reached the sink

vars == <<row, drain, delivered>>

NoDrain == [step |-> "idle", batch |-> {}, claim |-> [e \in Events |-> 0], event |-> NoEvent]

Init ==
  /\ row = [e \in Events |-> [staged |-> FALSE, published |-> FALSE,
                              attempts |-> 0, due |-> FALSE]]
  /\ drain = [p \in Publishers |-> NoDrain]
  /\ delivered = {}

-----------------------------------------------------------------------------
(* The rows *)

\* An event is staged once: the insertion ignores an event that is there, and
\* an identity with another payload is an error.
Stage(e) ==
  /\ ~row[e].staged
  /\ row' = [row EXCEPT ![e] = [@ EXCEPT !.staged = TRUE, !.due = TRUE]]
  /\ UNCHANGED <<drain, delivered>>

\* Time passes: a lease or a delay ends.
BecomeDue(e) ==
  /\ row[e].staged /\ ~row[e].published /\ ~row[e].due
  /\ row' = [row EXCEPT ![e].due = TRUE]
  /\ UNCHANGED <<drain, delivered>>

\* A slip: an event is tried once.
ClaimableOnce(e) == row[e].staged /\ row[e].due /\ row[e].attempts = 0

Claimable(e) == row[e].staged /\ row[e].due /\ ~row[e].published

\* A slip: the claim takes a lease and is not counted.
ClaimedUncounted(r) == [r EXCEPT !.due = FALSE]

Claimed(r) == [r EXCEPT !.attempts = @ + 1, !.due = FALSE]

\* The oldest due events, but those that another claim has locked.
Claim(p) ==
  /\ drain[p].step = "idle"
  /\ \E S \in SUBSET {e \in Events : Claimable(e)} :
       /\ S # {} /\ Cardinality(S) <= Limit
       /\ row' = [e \in Events |-> IF e \in S THEN Claimed(row[e]) ELSE row[e]]
       /\ drain' = [drain EXCEPT ![p] =
            [NoDrain EXCEPT !.step = "next", !.batch = S,
                            !.claim = [e \in Events |-> row'[e].attempts]]]
  /\ UNCHANGED delivered

\* A slip: any claim of the event will do.
MatchesAnyAttempt(p, e) == ~row[e].published

\* The condition of both acknowledgements.
Matches(p, e) == row[e].attempts = drain[p].claim[e] /\ ~row[e].published

-----------------------------------------------------------------------------
(* publishPlatformOutbox *)

At(p, step) == drain[p].step = step
Handle(p, step, e) == drain' = [drain EXCEPT ![p] = [@ EXCEPT !.step = step, !.event = e]]

EndDrain(p) == drain' = [drain EXCEPT ![p] = NoDrain]

Emit(p, e) ==
  /\ At(p, "next") /\ e \in drain[p].batch
  /\ delivered' = delivered \cup {e}
  /\ Handle(p, "emitted", e)
  /\ UNCHANGED row

\* A slip: the error of the sink is lost.
EmitFailsUnnoticed(p, e) ==
  /\ At(p, "next") /\ e \in drain[p].batch
  /\ Handle(p, "emitted", e)
  /\ UNCHANGED <<row, delivered>>

\* The sink throws, with the event or without it.
EmitFails(p, e) ==
  /\ At(p, "next") /\ e \in drain[p].batch
  /\ delivered' \in {delivered, delivered \cup {e}}
  /\ Handle(p, "caught", e)
  /\ UNCHANGED row

Acknowledged(p, e) ==
  IF Matches(p, e) THEN [row EXCEPT ![e].published = TRUE] ELSE row

\* A row that does not match is left, and the drain goes on.
MarkPublished(p) ==
  LET e == drain[p].event  rest == drain[p].batch \ {e} IN
    /\ At(p, "emitted")
    /\ row' = Acknowledged(p, e)
    /\ IF rest = {} THEN EndDrain(p)
       ELSE drain' = [drain EXCEPT ![p] = [@ EXCEPT !.step = "next", !.event = NoEvent,
                                                    !.batch = rest]]
    /\ UNCHANGED delivered

\* A database error, before the update or after it.
MarkPublishedFails(p) ==
  /\ At(p, "emitted")
  /\ row' \in {row, Acknowledged(p, drain[p].event)}
  /\ Handle(p, "caught", drain[p].event)
  /\ UNCHANGED delivered

\* The event is put off; the error ends the drain, and the rest of the batch
\* waits for the end of its lease.
MarkFailed(p) ==
  LET e == drain[p].event IN
    /\ At(p, "caught")
    /\ row' = IF Matches(p, e) THEN [row EXCEPT ![e].due = FALSE] ELSE row
    /\ EndDrain(p)
    /\ UNCHANGED delivered

\* The process dies, or markFailed meets a database error.
Crash(p) ==
  /\ ~At(p, "idle")
  /\ EndDrain(p)
  /\ UNCHANGED <<row, delivered>>

-----------------------------------------------------------------------------
Advance(p) == (\E e \in Events : Emit(p, e)) \/ MarkPublished(p) \/ MarkFailed(p)

Fault(p) == (\E e \in Events : EmitFails(p, e)) \/ MarkPublishedFails(p) \/ Crash(p)

Next ==
  \/ \E e \in Events : Stage(e) \/ BecomeDue(e)
  \/ \E p \in Publishers : Claim(p) \/ Advance(p) \/ Fault(p)

Spec == Init /\ [][Next]_vars

\* The clock advances, and a worker drains the outbox in every cycle and goes
\* on with a drain it has begun.
Fairness ==
  /\ \A e \in Events : WF_vars(BecomeDue(e))
  /\ \A p \in Publishers : WF_vars(Advance(p)) /\ WF_vars(Claim(p))

FairSpec == Spec /\ Fairness

-----------------------------------------------------------------------------
(* Properties *)

TypeOK ==
  /\ row \in [Events -> Row]
  /\ drain \in [Publishers -> Drain]
  /\ delivered \in SUBSET Events
  /\ \A p \in Publishers : At(p, "idle") <=> drain[p].batch = {}

\* The outbox delivers at least once: nothing counts as published that the
\* sink has not had, whatever fails, dies or answers late.
Delivery == INSTANCE EventDelivery WITH
  staged <- {e \in Events : row[e].staged},
  published <- {e \in Events : row[e].published}

ImplementsDelivery == Delivery!Spec

\* The claim of an event that an acknowledgement would accept.
Owns(p, e) == e \in drain[p].batch /\ Matches(p, e)

\* Two publishers never both own an event, however late one of them is.
SingleClaim ==
  \A p, q \in Publishers, e \in Events : Owns(p, e) /\ Owns(q, e) => p = q

\* While a publisher owns an event only that publisher puts it off or
\* acknowledges it, and nobody claims it before its lease has run out: a late
\* answer of an earlier claim is ignored (outbox.integration.test.ts:564).
OwnerDecides ==
  [][\A p \in Publishers, e \in Events :
       Owns(p, e) /\ drain'[p] = drain[p]
         => \/ row'[e] = row[e]
            \/ row'[e] = [row[e] EXCEPT !.due = TRUE]
            \/ row[e].due /\ row'[e].attempts = row[e].attempts + 1]_vars

\* A published event is never claimed, put off or published again.
PublishedIsFinal ==
  [][\A e \in Events : row[e].published => row'[e] = row[e]]_vars

\* Every staged event is published in the end.
EveryEventIsPublished ==
  \A e \in Events : row[e].staged ~> row[e].published

\* The inductive invariant: a row has been delivered when it is published, or
\* by whoever is about to acknowledge it; claims are in the past; two
\* publishers have no claim in common.
DeliveredFirst ==
  /\ \A e \in Events : row[e].published => e \in delivered
  /\ \A p \in Publishers : At(p, "emitted") => drain[p].event \in delivered

HandlesItsBatch ==
  \A p \in Publishers :
    (At(p, "emitted") \/ At(p, "caught")) => drain[p].event \in drain[p].batch

ClaimsAreStaged ==
  \A p \in Publishers, e \in Events :
    e \in drain[p].batch => row[e].staged /\ drain[p].claim[e] <= row[e].attempts

ClaimsDiffer ==
  \A p, q \in Publishers, e \in Events :
    e \in drain[p].batch /\ e \in drain[q].batch /\ drain[p].claim[e] = drain[q].claim[e]
      => p = q

OnlyStaged ==
  \A e \in Events : ~row[e].staged => ~row[e].published /\ ~row[e].due

OutboxInv ==
  TypeOK /\ DeliveredFirst /\ HandlesItsBatch /\ ClaimsAreStaged /\ ClaimsDiffer /\ OnlyStaged
=============================================================================

------------------------ MODULE PlatformOutboxProofs ------------------------
(***************************************************************************)
(* Proofs about PlatformOutbox, for any events, publishers and batch size. *)
(* Every step changes the drain of one publisher and rows of its events:   *)
(* the lemmas say which, and the invariant follows per action.             *)
(***************************************************************************)
EXTENDS PlatformOutbox, TLAPS

\* The initial state satisfies the invariant.
LEMMA InitInv == Init => OutboxInv
  BY OutboxAssumption
  DEF Init, OutboxInv, TypeOK, Row, Drain, NoDrain, At, DeliveredFirst, HandlesItsBatch,
      ClaimsAreStaged, ClaimsDiffer, OnlyStaged

\* Staging and the passing of time touch no drain.
LEMMA StageInv ==
  ASSUME OutboxInv, NEW e \in Events, Stage(e) \/ BecomeDue(e)
  PROVE  OutboxInv'
<1>1. /\ row[e] \in Row /\ UNCHANGED <<drain, delivered>>
      /\ \/ ~row[e].staged /\ row' = [row EXCEPT ![e] = [@ EXCEPT !.staged = TRUE, !.due = TRUE]]
         \/ row[e].staged /\ ~row[e].published /\ row' = [row EXCEPT ![e].due = TRUE]
  BY DEF OutboxInv, TypeOK, Stage, BecomeDue
<1>2. \A f \in Events : /\ row'[f] \in Row
                        /\ row'[f].published = row[f].published
                        /\ row'[f].attempts = row[f].attempts
                        /\ row[f].staged => row'[f].staged
                        /\ ~row'[f].staged => row'[f] = row[f]
  <2> SUFFICES ASSUME NEW f \in Events
               PROVE  /\ row'[f] \in Row
                      /\ row'[f].published = row[f].published
                      /\ row'[f].attempts = row[f].attempts
                      /\ row[f].staged => row'[f].staged
                      /\ ~row'[f].staged => row'[f] = row[f]
    OBVIOUS
  <2>1. row \in [Events -> Row]
    BY DEF OutboxInv, TypeOK
  <2>2. CASE f # e
    BY <1>1, <2>1, <2>2
  <2>3. CASE f = e
    <3>1. PICK old \in Row : row[e] = old
      BY <1>1
    <3>2. \/ row'[e] = [old EXCEPT !.staged = TRUE, !.due = TRUE]
          \/ row'[e] = [old EXCEPT !.due = TRUE] /\ old.staged
      BY <1>1, <2>1, <3>1
    <3>3. QED
      BY <2>3, <3>1, <3>2 DEF Row
  <2>4. QED
    BY <2>2, <2>3
<1>3. row' \in [Events -> Row]
  BY <1>1, <1>2 DEF OutboxInv, TypeOK
<1>4. TypeOK'
  BY <1>1, <1>3 DEF OutboxInv, TypeOK, At
<1>5. QED
  BY <1>1, <1>2, <1>4
  DEF OutboxInv, DeliveredFirst, HandlesItsBatch, ClaimsAreStaged, ClaimsDiffer, OnlyStaged, At

\* Updates of a record, for any types of its fields.
LEMMA RecordUpdates ==
  ASSUME NEW A, NEW B, NEW C, NEW D,
         NEW old \in [step : A, batch : B, claim : C, event : D],
         NEW a \in A, NEW b \in B, NEW c \in C, NEW d \in D
  PROVE  /\ [old EXCEPT !.step = a, !.event = d] \in [step : A, batch : B, claim : C, event : D]
         /\ [old EXCEPT !.step = a, !.event = d, !.batch = b]
              \in [step : A, batch : B, claim : C, event : D]
         /\ [old EXCEPT !.step = a, !.batch = b, !.claim = c]
              \in [step : A, batch : B, claim : C, event : D]
<1>1. [old EXCEPT !.step = a, !.event = d] \in [step : A, batch : B, claim : C, event : D]
  OBVIOUS
<1>2. [old EXCEPT !.step = a, !.event = d, !.batch = b]
        \in [step : A, batch : B, claim : C, event : D]
  OBVIOUS
<1>3. [old EXCEPT !.step = a, !.batch = b, !.claim = c]
        \in [step : A, batch : B, claim : C, event : D]
  OBVIOUS
<1>4. QED
  BY <1>1, <1>2, <1>3

\* So the drains that the actions make are drains.
LEMMA UpdatedDrain ==
  ASSUME NEW old \in Drain, NEW step \in {"next", "emitted", "caught"},
         NEW S \in SUBSET Events, NEW claim \in [Events -> Nat],
         NEW e \in Events \cup {NoEvent}
  PROVE  /\ [old EXCEPT !.step = step, !.event = e] \in Drain
         /\ [old EXCEPT !.step = step, !.event = e, !.batch = S] \in Drain
         /\ [old EXCEPT !.step = step, !.batch = S, !.claim = claim] \in Drain
<1>1. step \in {"idle", "next", "emitted", "caught"}
  OBVIOUS
<1>2. QED
  BY <1>1, RecordUpdates DEF Drain

LEMMA NoDrainType == NoDrain \in Drain
  BY DEF NoDrain, Drain

\* A claim counts its events, so that it differs from every earlier one.
LEMMA ClaimInv ==
  ASSUME OutboxInv, NEW p \in Publishers, Claim(p)
  PROVE  OutboxInv'
<1> USE DEF OutboxInv
<1>1. PICK S \in SUBSET {e \in Events : Claimable(e)} :
        /\ S # {}
        /\ row' = [e \in Events |-> IF e \in S THEN Claimed(row[e]) ELSE row[e]]
        /\ drain' = [drain EXCEPT ![p] =
             [NoDrain EXCEPT !.step = "next", !.batch = S,
                             !.claim = [e \in Events |-> row'[e].attempts]]]
        /\ delivered' = delivered
  BY DEF Claim
<1>2. \A e \in Events : /\ row[e] \in Row /\ row'[e] \in Row
                        /\ row'[e].staged = row[e].staged
                        /\ row'[e].published = row[e].published
                        /\ row'[e].attempts =
                             IF e \in S THEN row[e].attempts + 1 ELSE row[e].attempts
                        /\ row'[e].due => row[e].due
                        /\ e \in S => row[e].staged
  <2> SUFFICES ASSUME NEW e \in Events
               PROVE  /\ row[e] \in Row /\ row'[e] \in Row
                      /\ row'[e].staged = row[e].staged
                      /\ row'[e].published = row[e].published
                      /\ row'[e].attempts =
                           IF e \in S THEN row[e].attempts + 1 ELSE row[e].attempts
                      /\ row'[e].due => row[e].due
                      /\ e \in S => row[e].staged
    OBVIOUS
  <2>1. PICK old \in Row : row[e] = old
    BY DEF TypeOK
  <2>2. e \in S => old.staged
    BY <1>1, <2>1 DEF Claimable
  <2>3. CASE e \in S
    <3>1. row'[e] = [old EXCEPT !.attempts = old.attempts + 1, !.due = FALSE]
      BY <1>1, <2>1, <2>3 DEF Claimed
    <3>2. old.attempts + 1 \in Nat
      BY DEF Row
    <3>3. row'[e] \in Row
      BY <3>1, <3>2 DEF Row
    <3>4. QED
      BY <2>1, <2>2, <2>3, <3>1, <3>3 DEF Row
  <2>4. CASE e \notin S
    BY <1>1, <2>1, <2>4
  <2>5. QED
    BY <2>3, <2>4
<1> DEFINE c == [e \in Events |-> row'[e].attempts]
           d == [NoDrain EXCEPT !.step = "next", !.batch = S, !.claim = c]
<1>3. d \in Drain /\ drain' = [drain EXCEPT ![p] = d]
  <2>1. c \in [Events -> Nat]
    BY <1>2 DEF Row
  <2>2. d \in Drain
    BY <2>1, NoDrainType, UpdatedDrain
  <2>3. QED
    BY <1>1, <2>2
<1>d. /\ d.step = "next" /\ d.batch = S
      /\ \A e \in Events : d.claim[e] = row'[e].attempts
  <2>1. d.step = "next" /\ d.batch = S /\ d.claim = c
    BY DEF NoDrain
  <2>2. QED
    BY <2>1
<1> HIDE DEF c, d
<1>4. \A q \in Publishers : drain'[q] = IF q = p THEN d ELSE drain[q]
  BY <1>3 DEF TypeOK
<1>5. TypeOK'
  <2>1. row' \in [Events -> Row]
    BY <1>1, <1>2
  <2>2. drain' \in [Publishers -> Drain]
    BY <1>3 DEF TypeOK
  <2>3. \A q \in Publishers : (drain'[q].step = "idle") <=> (drain'[q].batch = {})
    BY <1>1, <1>4, <1>d DEF TypeOK, At
  <2>4. QED
    BY <1>1, <2>1, <2>2, <2>3 DEF TypeOK, At
<1>6. DeliveredFirst' /\ HandlesItsBatch' /\ OnlyStaged'
  <2>1. DeliveredFirst'
    <3>1. \A e \in Events : row'[e].published => e \in delivered'
      BY <1>1, <1>2 DEF DeliveredFirst
    <3>2. \A q \in Publishers : drain'[q].step = "emitted" => drain'[q].event \in delivered'
      <4> SUFFICES ASSUME NEW q \in Publishers, drain'[q].step = "emitted"
                   PROVE  drain'[q].event \in delivered'
        OBVIOUS
      <4>1. q # p
        BY <1>4, <1>d
      <4>2. drain'[q] = drain[q] /\ delivered' = delivered
        BY <1>1, <1>4, <4>1
      <4>3. QED
        BY <4>2 DEF DeliveredFirst, At
    <3>3. QED
      BY <3>1, <3>2 DEF DeliveredFirst, At
  <2>2. HandlesItsBatch'
    BY <1>4, <1>d DEF HandlesItsBatch, At
  <2>3. OnlyStaged'
    BY <1>2 DEF OnlyStaged
  <2>4. QED
    BY <2>1, <2>2, <2>3
<1>7. ClaimsAreStaged'
  <2> SUFFICES ASSUME NEW q \in Publishers, NEW e \in Events, e \in drain'[q].batch
               PROVE  row'[e].staged /\ drain'[q].claim[e] <= row'[e].attempts
    BY DEF ClaimsAreStaged
  <2>1. CASE q = p
    BY <2>1, <1>2, <1>4, <1>d DEF Row
  <2>2. CASE q # p
    <3>1. drain[q].claim[e] \in Nat
      BY DEF TypeOK, Drain
    <3>2. QED
      BY <2>2, <3>1, <1>2, <1>4 DEF ClaimsAreStaged, Row
  <2>3. QED
    BY <2>1, <2>2
<1>8. ClaimsDiffer'
  <2> SUFFICES ASSUME NEW q \in Publishers, NEW r \in Publishers, NEW e \in Events,
                      e \in drain'[q].batch, e \in drain'[r].batch,
                      drain'[q].claim[e] = drain'[r].claim[e], q # r
               PROVE  FALSE
    BY DEF ClaimsDiffer
  <2>1. ASSUME NEW o \in Publishers, o # p, e \in drain[o].batch, e \in S
        PROVE  drain[o].claim[e] # d.claim[e]
    <3>1. drain[o].claim[e] \in Nat /\ drain[o].claim[e] <= row[e].attempts
      BY <2>1 DEF TypeOK, Drain, ClaimsAreStaged
    <3>2. d.claim[e] = row[e].attempts + 1 /\ row[e].attempts \in Nat
      BY <2>1, <1>2, <1>d DEF Row
    <3>3. QED
      BY <3>1, <3>2
  <2>2. QED
    BY <2>1, <1>4, <1>d DEF ClaimsDiffer
<1>9. QED
  BY <1>5, <1>6, <1>7, <1>8

\* The shape of every step of a drain: its publisher stays or goes idle with
\* no new claim, its event's row keeps its attempts, and what it publishes it
\* had delivered.
DrainStep(p) ==
  /\ \A q \in Publishers : q # p => drain'[q] = drain[q]
  /\ drain'[p].batch \subseteq drain[p].batch
  /\ drain'[p].batch # {} => drain'[p].claim = drain[p].claim
  /\ \A e \in Events : /\ row'[e].staged = row[e].staged
                       /\ row'[e].attempts = row[e].attempts
                       /\ row'[e].published => row[e].published \/ e \in delivered
                       /\ row'[e].published => row[e].published \/ row[e].staged
                       /\ row'[e].due => row[e].due
  /\ delivered \subseteq delivered'
  /\ drain'[p].step = "emitted" => drain'[p].event \in delivered'
  /\ drain'[p].step \in {"emitted", "caught"} => drain'[p].event \in drain'[p].batch

LEMMA EndDrainFacts ==
  ASSUME TypeOK, NEW p \in Publishers, EndDrain(p)
  PROVE  /\ drain' \in [Publishers -> Drain]
         /\ drain'[p] = NoDrain
         /\ \A q \in Publishers : q # p => drain'[q] = drain[q]
  BY OutboxAssumption DEF TypeOK, EndDrain, NoDrain, Drain

LEMMA HandleFacts ==
  ASSUME TypeOK, NEW p \in Publishers, NEW e \in Events,
         NEW step \in {"next", "emitted", "caught"}, Handle(p, step, e)
  PROVE  /\ drain' \in [Publishers -> Drain]
         /\ drain'[p].step = step /\ drain'[p].event = e
         /\ drain'[p].batch = drain[p].batch /\ drain'[p].claim = drain[p].claim
         /\ \A q \in Publishers : q # p => drain'[q] = drain[q]
<1>1. drain[p] \in Drain
  BY DEF TypeOK
<1> DEFINE d == [drain[p] EXCEPT !.step = step, !.event = e]
<1>2. d \in Drain
  <2>1. drain[p].batch \in SUBSET Events /\ drain[p].claim \in [Events -> Nat]
    BY <1>1 DEF Drain
  <2>2. QED
    BY <1>1, <2>1, UpdatedDrain
<1>3. /\ d.step = step /\ d.event = e
      /\ d.batch = drain[p].batch /\ d.claim = drain[p].claim
  BY <1>1 DEF Drain
<1>4. drain' = [drain EXCEPT ![p] = d]
  BY DEF Handle
<1> HIDE DEF d
<1>5. QED
  BY <1>2, <1>3, <1>4 DEF TypeOK

\* Putting off or publishing the event at hand.
LEMMA RowFacts ==
  ASSUME OutboxInv, NEW p \in Publishers, NEW e \in Events,
         \/ row' = row
         \/ Matches(p, e) /\ row' = [row EXCEPT ![e].due = FALSE]
         \/ At(p, "emitted") /\ e = drain[p].event /\ row' = Acknowledged(p, e)
  PROVE  /\ row' \in [Events -> Row]
         /\ \A f \in Events : /\ row'[f].staged = row[f].staged
                              /\ row'[f].attempts = row[f].attempts
                              /\ row'[f].published => row[f].published \/ f \in delivered
                              /\ row'[f].published => row[f].published \/ row[f].staged
                              /\ row'[f].due => row[f].due
                              /\ row'[f] # row[f] => f = e /\ Matches(p, e)
<1>1. row \in [Events -> Row]
  BY DEF OutboxInv, TypeOK
<1>2. CASE row' = row
  BY <1>1, <1>2
<1>3. CASE Matches(p, e) /\ row' = [row EXCEPT ![e].due = FALSE]
  BY <1>1, <1>3 DEF Row
<1>4. CASE At(p, "emitted") /\ e = drain[p].event /\ row' = Acknowledged(p, e)
  <2>1. e \in delivered /\ row[e].staged
    BY <1>4 DEF OutboxInv, DeliveredFirst, HandlesItsBatch, ClaimsAreStaged
  <2>2. CASE Matches(p, e)
    <3>1. row' = [row EXCEPT ![e].published = TRUE]
      BY <1>4, <2>2 DEF Acknowledged
    <3>2. QED
      BY <1>1, <2>1, <2>2, <3>1 DEF Row
  <2>3. CASE ~Matches(p, e)
    BY <1>1, <1>4, <2>3 DEF Acknowledged
  <2>4. QED
    BY <2>2, <2>3
<1>5. QED
  BY <1>2, <1>3, <1>4

\* Every step of a drain has that shape and keeps the types.
LEMMA AdvanceIsDrainStep ==
  ASSUME OutboxInv, NEW p \in Publishers, Advance(p) \/ Fault(p)
  PROVE  DrainStep(p) /\ TypeOK' /\ drain'[p] # drain[p]
<1> USE DEF OutboxInv
<1>1. TypeOK /\ drain[p] \in Drain /\ row \in [Events -> Row] /\ delivered \subseteq Events
  BY DEF TypeOK
<1>2. ASSUME NEW e \in Events, Emit(p, e) \/ EmitFails(p, e)
      PROVE  DrainStep(p) /\ TypeOK' /\ drain'[p] # drain[p]
  <2>1. PICK step \in {"emitted", "caught"} :
          /\ Handle(p, step, e)
          /\ step = "emitted" => e \in delivered'
    BY <1>2 DEF Emit, EmitFails
  <2>2. /\ At(p, "next") /\ e \in drain[p].batch /\ row' = row
        /\ delivered' \in {delivered, delivered \cup {e}}
    BY <1>2 DEF Emit, EmitFails
  <2>3. /\ drain' \in [Publishers -> Drain]
        /\ drain'[p].step = step /\ drain'[p].event = e
        /\ drain'[p].batch = drain[p].batch /\ drain'[p].claim = drain[p].claim
        /\ \A q \in Publishers : q # p => drain'[q] = drain[q]
    BY <1>1, <2>1, HandleFacts
  <2>4. DrainStep(p)
    BY <2>1, <2>2, <2>3 DEF DrainStep
  <2>5. TypeOK'
    BY <1>1, <2>1, <2>2, <2>3 DEF TypeOK, At
  <2>6. QED
    BY <2>1, <2>2, <2>3, <2>4, <2>5 DEF At
<1>3. ASSUME MarkPublished(p)
      PROVE  DrainStep(p) /\ TypeOK' /\ drain'[p] # drain[p]
  <2>1. At(p, "emitted") /\ drain[p].event \in drain[p].batch /\ drain[p].event \in Events
    BY <1>1, <1>3 DEF MarkPublished, HandlesItsBatch, Drain
  <2> DEFINE e == drain[p].event
             rest == drain[p].batch \ {e}
  <2>2. /\ row' \in [Events -> Row] /\ delivered' = delivered
        /\ \A f \in Events : /\ row'[f].staged = row[f].staged
                             /\ row'[f].attempts = row[f].attempts
                             /\ row'[f].published => row[f].published \/ f \in delivered
                             /\ row'[f].published => row[f].published \/ row[f].staged
                             /\ row'[f].due => row[f].due
    <3>1. row' = Acknowledged(p, e) /\ delivered' = delivered
      BY <1>3 DEF MarkPublished
    <3>2. QED
      BY <2>1, <3>1, RowFacts
  <2>3. CASE rest = {}
    <3>1. EndDrain(p)
      BY <1>3, <2>3 DEF MarkPublished
    <3>2. QED
      BY <1>1, <2>1, <2>2, <3>1, EndDrainFacts DEF DrainStep, TypeOK, At, NoDrain
  <2>4. CASE rest # {}
    <3> DEFINE d == [drain[p] EXCEPT !.step = "next", !.event = NoEvent, !.batch = rest]
    <3>1. drain' = [drain EXCEPT ![p] = d] /\ d \in Drain
      <4>1. rest \in SUBSET Events /\ drain[p].claim \in [Events -> Nat]
        BY <1>1 DEF Drain
      <4>2. d \in Drain
        BY <1>1, <4>1, UpdatedDrain
      <4>3. QED
        BY <1>3, <2>4, <4>2 DEF MarkPublished
    <3>2. /\ drain'[p] = d /\ drain' \in [Publishers -> Drain]
          /\ \A q \in Publishers : q # p => drain'[q] = drain[q]
      BY <1>1, <3>1 DEF TypeOK
    <3>3. d.step = "next" /\ d.batch = rest /\ d.claim = drain[p].claim
      BY <1>1 DEF Drain
    <3> HIDE DEF d
    <3>4. QED
      BY <1>1, <2>1, <2>2, <2>4, <3>2, <3>3 DEF DrainStep, TypeOK, At
  <2>5. QED
    BY <2>3, <2>4
<1>4. ASSUME MarkPublishedFails(p)
      PROVE  DrainStep(p) /\ TypeOK' /\ drain'[p] # drain[p]
  <2>1. /\ At(p, "emitted") /\ drain[p].event \in drain[p].batch /\ drain[p].event \in Events
        /\ delivered' = delivered /\ Handle(p, "caught", drain[p].event)
    BY <1>1, <1>4 DEF MarkPublishedFails, HandlesItsBatch, Drain
  <2>2. /\ row' \in [Events -> Row]
        /\ \A f \in Events : /\ row'[f].staged = row[f].staged
                             /\ row'[f].attempts = row[f].attempts
                             /\ row'[f].published => row[f].published \/ f \in delivered
                             /\ row'[f].published => row[f].published \/ row[f].staged
                             /\ row'[f].due => row[f].due
    BY <1>4, <2>1, RowFacts DEF MarkPublishedFails
  <2>3. /\ drain' \in [Publishers -> Drain]
        /\ drain'[p].step = "caught" /\ drain'[p].event = drain[p].event
        /\ drain'[p].batch = drain[p].batch /\ drain'[p].claim = drain[p].claim
        /\ \A q \in Publishers : q # p => drain'[q] = drain[q]
    BY <1>1, <2>1, HandleFacts
  <2>4. QED
    BY <1>1, <2>1, <2>2, <2>3 DEF DrainStep, TypeOK, At
<1>5. ASSUME MarkFailed(p) \/ Crash(p)
      PROVE  DrainStep(p) /\ TypeOK' /\ drain'[p] # drain[p]
  <2>1. ~At(p, "idle") /\ EndDrain(p) /\ delivered' = delivered
    BY <1>5 DEF MarkFailed, Crash, At
  <2>2. /\ row' \in [Events -> Row]
        /\ \A f \in Events : /\ row'[f].staged = row[f].staged
                             /\ row'[f].attempts = row[f].attempts
                             /\ row'[f].published => row[f].published \/ f \in delivered
                             /\ row'[f].published => row[f].published \/ row[f].staged
                             /\ row'[f].due => row[f].due
    <3>1. CASE row' = row
      BY <1>1, <3>1
    <3>2. CASE row' # row
      <4>1. /\ drain[p].event \in Events /\ Matches(p, drain[p].event)
            /\ row' = [row EXCEPT ![drain[p].event].due = FALSE]
        BY <1>1, <1>5, <3>2 DEF MarkFailed, Crash, HandlesItsBatch, Drain
      <4>2. QED
        BY <4>1, RowFacts
    <3>3. QED
      BY <3>1, <3>2
  <2>3. QED
    BY <1>1, <2>1, <2>2, EndDrainFacts DEF DrainStep, TypeOK, At, NoDrain
<1>6. QED
  BY <1>2, <1>3, <1>4, <1>5 DEF Advance, Fault

LEMMA DrainStepInv ==
  ASSUME OutboxInv, NEW p \in Publishers, DrainStep(p), TypeOK'
  PROVE  OutboxInv'
<1> USE DEF OutboxInv
<1>1. DeliveredFirst'
  BY DEF DrainStep, DeliveredFirst, At
<1>2. HandlesItsBatch'
  BY DEF DrainStep, HandlesItsBatch, At
<1>3. ClaimsAreStaged'
  BY DEF DrainStep, ClaimsAreStaged
<1>4. ClaimsDiffer'
  BY DEF DrainStep, ClaimsDiffer
<1>5. OnlyStaged'
  BY DEF DrainStep, OnlyStaged
<1>6. QED
  BY <1>1, <1>2, <1>3, <1>4, <1>5

LEMMA NextInv == OutboxInv /\ [Next]_vars => OutboxInv'
<1> SUFFICES ASSUME OutboxInv, [Next]_vars
             PROVE  OutboxInv'
  OBVIOUS
<1>1. CASE UNCHANGED vars
  BY <1>1 DEF OutboxInv, TypeOK, At, DeliveredFirst, HandlesItsBatch, ClaimsAreStaged,
              ClaimsDiffer, OnlyStaged, Matches, vars
<1>2. CASE \E e \in Events : Stage(e) \/ BecomeDue(e)
  BY <1>2, StageInv
<1>3. CASE \E p \in Publishers : Claim(p)
  BY <1>3, ClaimInv
<1>4. CASE \E p \in Publishers : Advance(p) \/ Fault(p)
  BY <1>4, AdvanceIsDrainStep, DrainStepInv
<1>5. QED
  BY <1>1, <1>2, <1>3, <1>4 DEF Next

\* The inductive invariant holds of every execution of any publishers.
THEOREM OutboxInvariant == Spec => []OutboxInv
  BY InitInv, NextInv, PTL DEF Spec

\* Drains and rows keep their types; a publisher is idle exactly when it has
\* no event of its batch left (publishPlatformOutbox).
THEOREM OutboxTypeCorrect == Spec => []TypeOK
<1>1. OutboxInv => TypeOK
  BY DEF OutboxInv
<1>2. QED
  BY <1>1, OutboxInvariant, PTL

\* No two publishers ever own an event: what fences a late acknowledgement is
\* attempt_count alone, which every claim counts up.
THEOREM OutboxSingleClaim == Spec => []SingleClaim
<1>1. OutboxInv => SingleClaim
  BY DEF OutboxInv, ClaimsDiffer, SingleClaim, Owns, Matches
<1>2. QED
  BY <1>1, OutboxInvariant, PTL

\* A step of a drain changes only rows that its publisher owns, and neither
\* their identity nor their attempts.
LEMMA OwnRowsOnly ==
  ASSUME OutboxInv, NEW p \in Publishers, Advance(p) \/ Fault(p), NEW e \in Events,
         row'[e] # row[e]
  PROVE  Owns(p, e)
<1> USE DEF OutboxInv
<1>1. (\E f \in Events : Emit(p, f) \/ EmitFails(p, f)) \/ Crash(p) => row' = row
  BY DEF Emit, EmitFails, Crash
<1>2. ASSUME MarkPublished(p) \/ MarkPublishedFails(p) \/ MarkFailed(p)
      PROVE  Owns(p, e)
  <2>1. drain[p].event \in drain[p].batch /\ drain[p].event \in Events
    BY <1>2 DEF MarkPublished, MarkPublishedFails, MarkFailed, HandlesItsBatch, TypeOK, Drain
  <2>2. \/ row' = row
        \/ Matches(p, drain[p].event) /\ row' = [row EXCEPT ![drain[p].event].due = FALSE]
        \/ At(p, "emitted") /\ row' = Acknowledged(p, drain[p].event)
    BY <1>2 DEF MarkPublished, MarkPublishedFails, MarkFailed
  <2>3. e = drain[p].event /\ Matches(p, e)
    BY <2>1, <2>2, RowFacts
  <2>4. QED
    BY <2>1, <2>3 DEF Owns
<1>3. QED
  BY <1>1, <1>2 DEF Advance, Fault

\* While a publisher owns an event, others can only wait for its lease to run
\* out: neither a late acknowledgement nor a late failure changes the row.
THEOREM OutboxOwnerDecides == Spec => OwnerDecides
<1>1. ASSUME OutboxInv, [Next]_vars, NEW p \in Publishers, NEW e \in Events,
             Owns(p, e), drain'[p] = drain[p]
      PROVE  \/ row'[e] = row[e]
             \/ row'[e] = [row[e] EXCEPT !.due = TRUE]
             \/ row[e].due /\ row'[e].attempts = row[e].attempts + 1
  <2>1. row \in [Events -> Row]
    BY <1>1 DEF OutboxInv, TypeOK
  <2>2. CASE UNCHANGED vars
    BY <2>2 DEF vars
  <2>3. ASSUME NEW f \in Events, Stage(f) \/ BecomeDue(f)
        PROVE  row'[e] = row[e] \/ row'[e] = [row[e] EXCEPT !.due = TRUE]
    <3>1. row[e].staged
      BY <1>1 DEF OutboxInv, ClaimsAreStaged, Owns
    <3>2. QED
      BY <2>1, <2>3, <3>1 DEF Stage, BecomeDue
  <2>4. ASSUME NEW q \in Publishers, Claim(q)
        PROVE  row'[e] = row[e] \/ (row[e].due /\ row'[e].attempts = row[e].attempts + 1)
    <3>1. PICK S \in SUBSET {f \in Events : Claimable(f)} :
            row' = [f \in Events |-> IF f \in S THEN Claimed(row[f]) ELSE row[f]]
      BY <2>4 DEF Claim
    <3>2. CASE e \in S
      <4>1. row[e].due /\ row[e] \in Row /\ row'[e] = Claimed(row[e])
        BY <2>1, <3>1, <3>2 DEF Claimable
      <4>2. QED
        BY <4>1 DEF Claimed, Row
    <3>3. CASE e \notin S
      BY <3>1, <3>3
    <3>4. QED
      BY <3>2, <3>3
  <2>5. ASSUME NEW q \in Publishers, Advance(q) \/ Fault(q)
        PROVE  row'[e] = row[e]
    <3>1. q # p
      BY <1>1, <2>5, AdvanceIsDrainStep
    <3>2. ~Owns(q, e)
      BY <1>1, <3>1 DEF OutboxInv, ClaimsDiffer, Owns, Matches
    <3>3. QED
      BY <1>1, <2>5, <3>2, OwnRowsOnly
  <2>6. QED
    BY <1>1, <2>2, <2>3, <2>4, <2>5 DEF Next
<1>2. OutboxInv /\ [Next]_vars =>
        [\A p \in Publishers, e \in Events :
           Owns(p, e) /\ drain'[p] = drain[p]
             => \/ row'[e] = row[e]
                \/ row'[e] = [row[e] EXCEPT !.due = TRUE]
                \/ row[e].due /\ row'[e].attempts = row[e].attempts + 1]_vars
  BY <1>1
<1>3. QED
  BY <1>2, OutboxInvariant, PTL DEF Spec, OwnerDecides

\* A published event is never claimed, put off or published again.
THEOREM OutboxPublishedIsFinal == Spec => PublishedIsFinal
<1>1. ASSUME OutboxInv, [Next]_vars, NEW e \in Events, row[e].published
      PROVE  row'[e] = row[e]
  <2>1. row \in [Events -> Row] /\ row[e].staged
    BY <1>1 DEF OutboxInv, TypeOK, OnlyStaged
  <2>2. CASE UNCHANGED vars
    BY <2>2 DEF vars
  <2>3. ASSUME NEW f \in Events, Stage(f) \/ BecomeDue(f)
        PROVE  row'[e] = row[e]
    BY <1>1, <2>1, <2>3 DEF Stage, BecomeDue
  <2>4. ASSUME NEW q \in Publishers, Claim(q)
        PROVE  row'[e] = row[e]
    BY <1>1, <2>1, <2>4 DEF Claim, Claimable
  <2>5. ASSUME NEW q \in Publishers, Advance(q) \/ Fault(q)
        PROVE  row'[e] = row[e]
    BY <1>1, <2>5, OwnRowsOnly DEF Owns, Matches
  <2>6. QED
    BY <1>1, <2>2, <2>3, <2>4, <2>5 DEF Next
<1>2. OutboxInv /\ [Next]_vars =>
        [\A e \in Events : row[e].published => row'[e] = row[e]]_vars
  BY <1>1
<1>3. QED
  BY <1>2, OutboxInvariant, PTL DEF Spec, PublishedIsFinal

\* The outbox implements EventDelivery: delivered at least once before it
\* counts as published, and never taken back.
THEOREM OutboxImplementsDelivery == Spec => ImplementsDelivery
<1>1. Init => Delivery!Init
  BY DEF Init, Delivery!Init
<1>2. ASSUME OutboxInv, [Next]_vars
      PROVE  [Delivery!Next]_<<{e \in Events : row[e].staged}, delivered,
                               {e \in Events : row[e].published}>>
  <2> USE DEF Delivery!Next, Delivery!Stage, Delivery!Deliver, Delivery!Acknowledge
  <2>1. row \in [Events -> Row]
    BY <1>2 DEF OutboxInv, TypeOK
  <2>2. CASE UNCHANGED vars
    BY <2>2 DEF vars
  <2>3. ASSUME NEW e \in Events, Stage(e)
        PROVE  Delivery!Stage(e)
    <3>1. \A f \in Events : /\ row'[f].staged <=> row[f].staged \/ f = e
                            /\ row'[f].published = row[f].published
      BY <2>1, <2>3 DEF Stage, Row
    <3>2. QED
      BY <2>3, <3>1 DEF Stage
  <2>4. ASSUME NEW e \in Events, BecomeDue(e)
        PROVE  UNCHANGED <<{f \in Events : row[f].staged}, delivered,
                           {f \in Events : row[f].published}>>
    <3>1. \A f \in Events : /\ row'[f].staged = row[f].staged
                            /\ row'[f].published = row[f].published
      BY <2>1, <2>4 DEF BecomeDue, Row
    <3>2. QED
      BY <2>4, <3>1 DEF BecomeDue
  <2>5. ASSUME NEW p \in Publishers, Claim(p)
        PROVE  UNCHANGED <<{f \in Events : row[f].staged}, delivered,
                           {f \in Events : row[f].published}>>
    <3>1. PICK S : row' = [f \in Events |-> IF f \in S THEN Claimed(row[f]) ELSE row[f]]
      BY <2>5 DEF Claim
    <3>2. \A f \in Events : /\ row'[f].staged = row[f].staged
                            /\ row'[f].published = row[f].published
      BY <2>1, <3>1 DEF Claimed, Row
    <3>3. QED
      BY <2>5, <3>2 DEF Claim
  <2>6. ASSUME NEW p \in Publishers, NEW e \in Events, Emit(p, e) \/ EmitFails(p, e)
        PROVE  \/ Delivery!Deliver(e)
               \/ UNCHANGED <<{f \in Events : row[f].staged}, delivered,
                              {f \in Events : row[f].published}>>
    <3>1. row[e].staged /\ row' = row /\ delivered' \in {delivered, delivered \cup {e}}
      BY <1>2, <2>6 DEF Emit, EmitFails, OutboxInv, ClaimsAreStaged
    <3>2. QED
      BY <3>1
  <2>7. ASSUME NEW p \in Publishers,
               MarkPublished(p) \/ MarkPublishedFails(p) \/ MarkFailed(p) \/ Crash(p)
        PROVE  \/ Delivery!Acknowledge(drain[p].event)
               \/ UNCHANGED <<{f \in Events : row[f].staged}, delivered,
                              {f \in Events : row[f].published}>>
    <3> DEFINE e == drain[p].event
    <3>1. delivered' = delivered
      BY <2>7 DEF MarkPublished, MarkPublishedFails, MarkFailed, Crash
    <3>2. \/ row' = row
          \/ row' = [row EXCEPT ![e].due = FALSE]
          \/ row' = [row EXCEPT ![e].published = TRUE] /\ At(p, "emitted")
      BY <2>7 DEF MarkPublished, MarkPublishedFails, MarkFailed, Crash, Acknowledged
    <3>3. CASE row' = row \/ row' = [row EXCEPT ![e].due = FALSE]
      <4>1. \A f \in Events : /\ row'[f].staged = row[f].staged
                              /\ row'[f].published = row[f].published
        BY <2>1, <3>3 DEF Row
      <4>2. QED
        BY <3>1, <4>1
    <3>4. CASE row' = [row EXCEPT ![e].published = TRUE] /\ At(p, "emitted")
      <4>1. e \in delivered /\ e \in Events
        BY <1>2, <3>4 DEF OutboxInv, DeliveredFirst, TypeOK
      <4>2. \A f \in Events : /\ row'[f].staged = row[f].staged
                              /\ row'[f].published <=> row[f].published \/ f = e
        BY <2>1, <3>4, <4>1 DEF Row
      <4>3. QED
        BY <3>1, <4>1, <4>2
    <3>5. QED
      BY <3>2, <3>3, <3>4
  <2>8. QED
    <3>1. ASSUME NEW p \in Publishers,
                 MarkPublished(p) \/ MarkPublishedFails(p) \/ MarkFailed(p) \/ Crash(p)
          PROVE  Delivery!Next \/ UNCHANGED <<{f \in Events : row[f].staged}, delivered,
                                              {f \in Events : row[f].published}>>
      <4>1. CASE Delivery!Acknowledge(drain[p].event)
        <5>1. drain[p].event \in Events
          BY <1>2, <4>1 DEF OutboxInv, TypeOK
        <5>2. QED
          BY <4>1, <5>1
      <4>2. QED
        BY <2>7, <3>1, <4>1
    <3>2. QED
      BY <1>2, <2>2, <2>3, <2>4, <2>5, <2>6, <3>1 DEF Next, Advance, Fault
<1>3. QED
  BY <1>1, <1>2, OutboxInvariant, PTL DEF Spec, ImplementsDelivery, Delivery!Spec
=============================================================================

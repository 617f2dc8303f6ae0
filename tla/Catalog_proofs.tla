--------------------------- MODULE Catalog_proofs ---------------------------
(***************************************************************************)
(* Theorems about Catalog and the Events it extends: for any numbers of    *)
(* events, routes and clients, any pipelines of any length and any batch   *)
(* of the retry scheduler, what the rows of events, routes and delivery    *)
(* attempts and the messages made from them hold.                          *)
(***************************************************************************)
EXTENDS Catalog, TLAPS, FiniteSetTheorems, WellFoundedInduction

-----------------------------------------------------------------------------
(* Induction over the steps of a pipeline: of the steps at which something   *)
(* goes wrong there is a first one.                                          *)
Less == {p \in Nat \X Nat : p[1] < p[2]}

LEMMA LessIsWellFounded == IsWellFoundedOn(Less, Nat)
BY NatLessThanWellFounded DEF OpToRel, Less

LEMMA LeastElement ==
    ASSUME NEW T \in SUBSET Nat, T # {}
    PROVE  \E x \in T : \A y \in T : x <= y
<1>1. PICK x \in T : \A y \in T : <<y, x>> \notin Less
    BY LessIsWellFounded, WFMin
<1>2. \A y \in T : ~ (y < x)
    BY <1>1 DEF Less
<1> QED BY <1>1, <1>2

(* g holds the results of the first n steps. *)
ResultsOf(g, n, pipeline, payload) ==
    g = [i \in 0..n |-> IF i = 0 THEN Return(payload) ELSE Continue(g[i - 1], pipeline[i])]

(* Each prefix of a pipeline has its results. *)
LEMMA ResultsExist ==
    ASSUME NEW pipeline, NEW payload, NEW n \in Nat
    PROVE  \E g : ResultsOf(g, n, pipeline, payload)
<1> DEFINE T == {k \in Nat : ~ \E g : ResultsOf(g, k, pipeline, payload)}
<1> SUFFICES ASSUME T # {} PROVE FALSE
    OBVIOUS
<1>1. PICK k \in T : \A j \in T : k <= j
    <2>1. T \in SUBSET Nat
        OBVIOUS
    <2> QED BY <2>1, LeastElement
<1>2. CASE k = 0
    <2>1. ResultsOf([i \in 0..0 |-> Return(payload)], 0, pipeline, payload)
        BY DEF ResultsOf
    <2> QED BY <1>1, <1>2, <2>1
<1>3. CASE k # 0
    <2>1. k - 1 \in Nat /\ k - 1 \notin T
        BY <1>1, <1>3
    <2>2. PICK g : ResultsOf(g, k - 1, pipeline, payload)
        BY <2>1
    <2> DEFINE h == [i \in 0..k |->
                        IF i = k THEN Continue(g[k - 1], pipeline[k]) ELSE g[i]]
    <2>3. ASSUME NEW i \in 0..k
          PROVE  h[i] = IF i = 0 THEN Return(payload) ELSE Continue(h[i - 1], pipeline[i])
        <3>1. i # 0 => i - 1 \in 0..k /\ i - 1 # k /\ h[i - 1] = g[i - 1]
            BY <1>3
        <3>2. CASE i = k
            BY <1>3, <3>1, <3>2
        <3>3. CASE i # k
            <4>1. i \in 0..(k - 1)
                BY <3>3
            <4>2. g[i] = IF i = 0 THEN Return(payload) ELSE Continue(g[i - 1], pipeline[i])
                BY <2>2, <4>1 DEF ResultsOf
            <4> QED BY <3>1, <3>3, <4>2
        <3> QED BY <3>2, <3>3
    <2>4. ResultsOf(h, k, pipeline, payload)
        <3> DEFINE f == [i \in 0..k |->
                IF i = 0 THEN Return(payload) ELSE Continue(h[i - 1], pipeline[i])]
        <3>1. h = f
            BY <2>3
        <3> QED BY <3>1 DEF ResultsOf
    <2> QED BY <1>1, <2>4
<1> QED BY <1>2, <1>3

(* apply_pipeline comes to what its last step comes to. *)
LEMMA PipelineRuns ==
    ASSUME NEW pipeline, Len(pipeline) \in Nat, NEW payload
    PROVE  \E g : /\ ResultsOf(g, Len(pipeline), pipeline, payload)
                  /\ ApplyPipeline(pipeline, payload) = g[Len(pipeline)]
<1> DEFINE g == CHOOSE after : ResultsOf(after, Len(pipeline), pipeline, payload)
<1>1. ResultsOf(g, Len(pipeline), pipeline, payload)
    BY ResultsExist
<1>2. ApplyPipeline(pipeline, payload) = g[Len(pipeline)]
    BY DEF ApplyPipeline, ResultsOf
<1> QED BY <1>1, <1>2

(* A step that the API accepts fails, if at all, inside the JMESPath          *)
(* library, or at a division it contains.                                    *)
LEMMA AcceptedStepRuns ==
    ASSUME NEW step, AcceptsStep(step), NEW v,
           "expression" \in DOMAIN step => step.expression.len \in Nat
    PROVE  \/ ApplyStep(step, v).error \in {"none", "JMESPathError"}
           \/ ApplyStep(step, v).error = "OverflowError" /\ HasDivision(step)
<1>1. CASE step.type = "passthrough"
    BY <1>1 DEF ApplyStep, Return
<1>2. CASE step.type = "template"
    <2>1. "body" \in DOMAIN step
        BY <1>2 DEF AcceptsStep
    <2>2. TemplateRaises(step.body, v) => HasDivision(step)
        BY <1>2 DEF TemplateRaises, EvalRaises, HasDivision
    <2> QED BY <1>2, <2>1, <2>2 DEF ApplyStep, Return, Raise
<1>3. CASE step.type = "jmespath"
    <2>1. "expression" \in DOMAIN step /\ step.expression.len <= MAX_EXPRESSION_LEN
        BY <1>3 DEF AcceptsStep
    <2>2. ApplyStep(step, v) = Jmespath(step.expression, v)
        BY <1>3, <2>1 DEF ApplyStep
    <2>3. ~ (step.expression.len > MAX_EXPRESSION_LEN)
        BY <2>1, CapsAssumption
    <2>4. Jmespath(step.expression, v).error \in {"none", "JMESPathError"}
        BY <2>3 DEF Jmespath, Raise, Return
    <2> QED BY <2>2, <2>4
<1> QED BY <1>1, <1>2, <1>3 DEF AcceptsStep

(* So does a pipeline of any length: no step runs after one that failed, and *)
(* without a division there is no OverflowError.                             *)
THEOREM AcceptedPipelineRuns ==
    ASSUME NEW pipeline \in Pipelines, AcceptsPipeline(pipeline), NEW payload
    PROVE  ApplyPipeline(pipeline, payload).error \in EventErrors(pipeline)
<1> DEFINE N == Len(pipeline)
           Fine(r) == r.error \in EventErrors(pipeline)
<1>1. N \in Nat /\ DOMAIN pipeline = 1..N
    BY PipelinesAssumption
<1>2. PICK g : /\ ResultsOf(g, N, pipeline, payload)
               /\ ApplyPipeline(pipeline, payload) = g[N]
    BY <1>1, PipelineRuns
<1> HIDE DEF N
<1>3. ASSUME NEW i \in 0..N
      PROVE  g[i] = IF i = 0 THEN Return(payload) ELSE Continue(g[i - 1], pipeline[i])
    BY <1>2 DEF ResultsOf
<1> DEFINE T == {i \in 0..N : ~ Fine(g[i])}
<1>4. CASE T = {}
    <2>1. N \in 0..N
        BY <1>1
    <2> QED BY <1>2, <1>4, <2>1
<1>5. CASE T # {}
    <2>1. T \in SUBSET Nat
        BY <1>1
    <2>2. PICK i \in T : \A j \in T : i <= j
        BY <1>5, <2>1, LeastElement
    <2>3. i # 0
        BY <1>3, <2>2 DEF Return, EventErrors
    <2>4. i \in 1..N /\ i - 1 \in 0..N /\ i - 1 \notin T
        BY <1>1, <2>2, <2>3
    <2>5. AcceptsStep(pipeline[i])
        BY <1>1, <2>4 DEF AcceptsPipeline
    <2>a. "expression" \in DOMAIN pipeline[i] => pipeline[i].expression.len \in Nat
        BY <1>1, <2>4, PipelinesAssumption
    <2>6. g[i] = Continue(g[i - 1], pipeline[i])
        BY <1>3, <2>3, <2>4
    <2>b. Fine(g[i - 1])
        BY <2>4
    <2>7. CASE g[i - 1].error # "none"
        BY <2>2, <2>6, <2>7, <2>b DEF Continue
    <2>8. CASE g[i - 1].error = "none"
        <3>1. g[i] = ApplyStep(pipeline[i], g[i - 1].value)
            BY <2>6, <2>8 DEF Continue
        <3>2. \/ g[i].error \in {"none", "JMESPathError"}
              \/ g[i].error = "OverflowError" /\ HasDivision(pipeline[i])
            BY <2>5, <2>a, <3>1, AcceptedStepRuns
        <3>3. Fine(g[i])
            BY <1>1, <2>4, <3>2 DEF EventErrors
        <3> QED BY <2>2, <3>3
    <2> QED BY <2>7, <2>8
<1> QED BY <1>4, <1>5

-----------------------------------------------------------------------------
(* A call about an event is about one that is stored, and what a restore has *)
(* read of it was consistent.                                                *)
EventCallOK(q) ==
    q.op \in {"discard", "restore", "replay"} =>
        /\ q.event \in Events /\ Stored(q.event)
        /\ q.op = "restore" => (q.seen.discarded <=> q.seen.stamped)

EventCallsHold == DOMAIN call = Clients /\ \A c \in Clients : EventCallOK(call[c])

RawStored == \A i \in DOMAIN raw : Stored(raw[i])

PickedAreDue ==
    \A e \in picked : Stored(e) /\ event[e].status = "failed" /\ ~event[e].discarded

(* Between two transactions of the retry scheduler no row is locked.         *)
AtRest == scheduler # "sending" => picked = {}

(* CopiesAccounted, where the copy of a row in hand is one that is there, and *)
(* nothing was done with an event that is not stored.                        *)
InHand(e) == IF e \in sent THEN 1 ELSE 0

CopiesExplained ==
    \A e \in Events :
        IF Stored(e)
        THEN /\ Copies(e) >= 1 + replays[e] + requeues[e] + InHand(e)
             /\ Copies(e) <= 1 + replays[e] + requeues[e] + lapses + InHand(e)
        ELSE Copies(e) = 0 /\ replays[e] = 0 /\ requeues[e] = 0

EInv ==
    /\ EventsTypeOK
    /\ EventCallsHold
    /\ RawStored
    /\ PickedAreDue
    /\ AtRest
    /\ DiscardStamped
    /\ CopiesExplained

StoredStay == \A e \in Events : Stored(e) => Stored(e)'

-----------------------------------------------------------------------------
(* A message appended to raw-events is one more copy of its event. *)
LEMMA CopiesCounted ==
    ASSUME raw \in Seq(Events), NEW e \in Events
    PROVE  Copies(e) \in Nat /\ IsFiniteSet({i \in DOMAIN raw : raw[i] = e})
<1>1. IsFiniteSet(1..Len(raw))
    BY FS_Interval
<1>2. {i \in DOMAIN raw : raw[i] = e} \subseteq 1..Len(raw)
    OBVIOUS
<1> QED BY <1>1, <1>2, FS_Subset, FS_CardinalityType DEF Copies

LEMMA CopiesAppended ==
    ASSUME raw \in Seq(Events), NEW e \in Events, raw' = Append(raw, e)
    PROVE  /\ raw' \in Seq(Events)
           /\ Copies(e)' = Copies(e) + 1
           /\ \A f \in Events \ {e} : Copies(f)' = Copies(f)
           /\ RawStored /\ StoredStay /\ Stored(e)' => RawStored'
<1> DEFINE At(f) == {i \in DOMAIN raw : raw[i] = f}
<1>1. /\ raw' \in Seq(Events) /\ Len(raw') = Len(raw) + 1
      /\ DOMAIN raw = 1..Len(raw) /\ DOMAIN raw' = 1..(Len(raw) + 1)
      /\ \A i \in 1..Len(raw) : raw'[i] = raw[i]
      /\ raw'[Len(raw) + 1] = e
    OBVIOUS
<1>2. Copies(e)' = Copies(e) + 1
    <2>1. {i \in DOMAIN raw' : raw'[i] = e} = At(e) \cup {Len(raw) + 1}
        BY <1>1
    <2>2. Len(raw) + 1 \notin At(e)
        BY <1>1
    <2>3. IsFiniteSet(At(e))
        BY CopiesCounted
    <2> HIDE DEF At
    <2>4. Cardinality(At(e) \cup {Len(raw) + 1}) = Cardinality(At(e)) + 1
        BY <2>2, <2>3, FS_AddElement
    <2> QED BY <2>1, <2>4 DEF Copies, At
<1>3. ASSUME NEW f \in Events \ {e} PROVE Copies(f)' = Copies(f)
    <2>1. {i \in DOMAIN raw' : raw'[i] = f} = At(f)
        BY <1>1
    <2> QED BY <2>1 DEF Copies
<1>4. ASSUME RawStored, StoredStay, Stored(e)' PROVE RawStored'
    <2> SUFFICES ASSUME NEW i \in DOMAIN raw' PROVE Stored(raw[i])'
        BY DEF RawStored
    <2>1. CASE i = Len(raw) + 1
        BY <1>1, <1>4, <2>1
    <2>2. CASE i # Len(raw) + 1
        <3>1. i \in DOMAIN raw /\ raw'[i] = raw[i] /\ raw[i] \in Events
            BY <1>1, <2>2
        <3> QED BY <3>1, <1>4 DEF RawStored, StoredStay
    <2> QED BY <2>1, <2>2
<1> QED BY <1>1, <1>2, <1>3, <1>4

(* A row that is written stays a row. *)
LEMMA RowWritten ==
    ASSUME EInv, NEW e \in Events, NEW row \in Rows, event' = [event EXCEPT ![e] = row]
    PROVE  /\ event' \in [Events -> Rows \cup {NoEvent}]
           /\ event'[e] = row /\ Stored(e)'
           /\ \A f \in Events \ {e} : event'[f] = event[f] /\ (Stored(f)' <=> Stored(f))
           /\ StoredStay
           /\ row.discarded = row.stamped => DiscardStamped'
<1> USE NoEventAssumption DEF EInv, EventsTypeOK
<1>1. /\ event' \in [Events -> Rows \cup {NoEvent}]
      /\ event'[e] = row
      /\ \A f \in Events \ {e} : event'[f] = event[f]
    OBVIOUS
<1>2. Stored(e)' /\ \A f \in Events \ {e} : Stored(f)' <=> Stored(f)
    BY <1>1 DEF Stored
<1>3. StoredStay
    BY <1>2 DEF StoredStay
<1>4. row.discarded = row.stamped => DiscardStamped'
    BY <1>1, <1>2 DEF DiscardStamped
<1> QED BY <1>1, <1>2, <1>3, <1>4

LEMMA RowIsRow == ASSUME EInv, NEW e \in Events, Stored(e) PROVE event[e] \in Rows
BY DEF EInv, EventsTypeOK, Stored

(* What a call has read of stored events stays right. *)
LEMMA CallsStay ==
    ASSUME EventCallsHold, StoredStay, call' = call
    PROVE  EventCallsHold'
BY DEF EventCallsHold, EventCallOK, StoredStay

LEMMA CallMoves ==
    ASSUME EventCallsHold, StoredStay, NEW c \in Clients, NEW q, call' = [call EXCEPT ![c] = q],
           EventCallOK(q)
    PROVE  EventCallsHold'
<1>1. DOMAIN call' = Clients /\ call'[c] = q /\ \A d \in Clients \ {c} : call'[d] = call[d]
    BY DEF EventCallsHold
<1>2. EventCallOK(q)'
    BY DEF EventCallOK, StoredStay
<1>3. \A d \in Clients \ {c} : EventCallOK(call[d])'
    BY DEF EventCallsHold, EventCallOK, StoredStay
<1> QED BY <1>1, <1>2, <1>3 DEF EventCallsHold

LEMMA CallEnds ==
    ASSUME EventCallsHold, StoredStay, NEW c \in Clients, Answer(c)
    PROVE  EventCallsHold'
<1>1. EventCallOK(Idle)
    BY DEF EventCallOK, Idle
<1> QED BY <1>1, CallMoves DEF Answer

(* Rows, messages and the scheduler are not touched: calls and attempts.     *)
LEMMA TablesKept ==
    ASSUME EInv, UNCHANGED <<event, raw, scheduling, history, lapses>>
    PROVE  /\ StoredStay /\ RawStored' /\ PickedAreDue' /\ AtRest' /\ DiscardStamped'
           /\ CopiesExplained'
BY DEF EInv, StoredStay, Stored, RawStored, PickedAreDue, AtRest, DiscardStamped,
       CopiesExplained, InHand, Copies, scheduling, history

-----------------------------------------------------------------------------
(* The gateway stores an event under an id that nothing mentions yet. *)
LEMMA StoreKeeps == ASSUME EInv, NEW e \in Events, Store(e) PROVE EInv' /\ StoredStay
<1> DEFINE row == [status |-> "queued", retry |-> "none", discarded |-> FALSE, stamped |-> FALSE]
<1>1. /\ ~Stored(e) /\ event' = [event EXCEPT ![e] = row] /\ raw' = Append(raw, e)
      /\ UNCHANGED <<call, scheduling, history, eventBounds>>
    BY DEF Store, Stored
<1>2. row \in Rows /\ row.discarded = row.stamped
    BY DEF Rows
<1> HIDE DEF row
<1>3. /\ event' \in [Events -> Rows \cup {NoEvent}]
      /\ Stored(e)' /\ StoredStay /\ DiscardStamped'
      /\ \A f \in Events \ {e} : event'[f] = event[f] /\ (Stored(f)' <=> Stored(f))
    BY <1>1, <1>2, RowWritten
<1>4. /\ raw' \in Seq(Events)
      /\ Copies(e)' = Copies(e) + 1
      /\ \A f \in Events \ {e} : Copies(f)' = Copies(f)
      /\ RawStored'
    BY <1>1, <1>3, CopiesAppended DEF EInv, EventsTypeOK
<1>5. EventsTypeOK'
    BY <1>1, <1>3, <1>4 DEF EInv, EventsTypeOK, scheduling, history, eventBounds
<1>6. EventCallsHold'
    BY <1>1, <1>3, CallsStay DEF EInv
<1>7. PickedAreDue' /\ AtRest'
    <2>1. picked' = picked /\ picked \subseteq Events /\ e \notin picked
        BY <1>1 DEF EInv, PickedAreDue, EventsTypeOK, scheduling
    <2> QED BY <1>1, <1>3, <2>1 DEF EInv, PickedAreDue, AtRest, scheduling
<1>8. CopiesExplained'
    <2>1. e \notin sent /\ sent' = sent /\ replays' = replays /\ requeues' = requeues
                        /\ lapses' = lapses /\ lapses \in Nat
        BY <1>1 DEF EInv, PickedAreDue, EventsTypeOK, scheduling, history, eventBounds
    <2>3. \A f \in Events : InHand(f)' = InHand(f) /\ InHand(f) \in Nat
        BY <2>1 DEF InHand
    <2>2. Copies(e) = 0 /\ replays[e] = 0 /\ requeues[e] = 0
        BY <1>1 DEF EInv, CopiesExplained
    <2>4. InHand(e) = 0
        BY <2>1 DEF InHand
    <2>5. /\ Stored(e)'
          /\ Copies(e)' >= 1 + replays'[e] + requeues'[e] + InHand(e)'
          /\ Copies(e)' <= 1 + replays'[e] + requeues'[e] + lapses' + InHand(e)'
        BY <1>3, <1>4, <2>1, <2>2, <2>3, <2>4
    <2>6. ASSUME NEW f \in Events \ {e}
          PROVE  IF Stored(f)'
                 THEN /\ Copies(f)' >= 1 + replays'[f] + requeues'[f] + InHand(f)'
                      /\ Copies(f)' <= 1 + replays'[f] + requeues'[f] + lapses' + InHand(f)'
                 ELSE Copies(f)' = 0 /\ replays'[f] = 0 /\ requeues'[f] = 0
        BY <1>3, <1>4, <2>1, <2>3 DEF EInv, CopiesExplained
    <2> QED BY <2>5, <2>6 DEF CopiesExplained
<1> QED BY <1>3, <1>4, <1>5, <1>6, <1>7, <1>8 DEF EInv

LEMMA BeginEventCallKeeps ==
    ASSUME EInv, NEW c \in Clients, NEW e \in Events, BeginEventCall(c, e)
    PROVE  EInv' /\ StoredStay
<1>1. /\ UNCHANGED <<event, attempts, raw, scheduling, history, marks, lapses>>
      /\ Stored(e)
    BY DEF BeginEventCall
<1>2. PICK q : Begin(c, q) /\ EventCallOK(q)
    <2>1. CASE Begin(c, [op |-> "discard", event |-> e])
        <3>1. EventCallOK([op |-> "discard", event |-> e])
            BY <1>1 DEF EventCallOK
        <3> QED BY <2>1, <3>1
    <2>2. CASE Begin(c, [op |-> "restore", event |-> e, seen |-> event[e]])
        <3>1. EventCallOK([op |-> "restore", event |-> e, seen |-> event[e]])
            BY <1>1 DEF EventCallOK, EInv, DiscardStamped
        <3> QED BY <2>2, <3>1
    <2>3. CASE Begin(c, [op |-> "replay", event |-> e])
        <3>1. EventCallOK([op |-> "replay", event |-> e])
            BY <1>1 DEF EventCallOK
        <3> QED BY <2>3, <3>1
    <2> QED BY <2>1, <2>2, <2>3 DEF BeginEventCall
<1>3. /\ StoredStay /\ RawStored' /\ PickedAreDue' /\ AtRest' /\ DiscardStamped'
      /\ CopiesExplained'
    BY <1>1, TablesKept
<1>4. EventCallsHold'
    BY <1>2, <1>3, CallMoves DEF EInv, Begin
<1>5. EventsTypeOK'
    BY <1>1, <1>2, ActsAssumption
    DEF EInv, EventsTypeOK, Begin, MayAct, scheduling, history
<1> QED BY <1>3, <1>4, <1>5 DEF EInv

(* The columns of a row that discard and restore write agree. *)
LEMMA CommitEventCallKeeps ==
    ASSUME EInv, NEW c \in Clients, CommitEventCall(c) PROVE EInv' /\ StoredStay
<1>1. PICK e \in Events, row \in Rows :
            /\ e \notin picked /\ Stored(e)
            /\ event' = [event EXCEPT ![e] = row]
            /\ row.discarded = row.stamped
    <2> DEFINE q == call[c]
               e == q.event
               row == IF q.op = "discard"
                      THEN [event[e] EXCEPT !.discarded = TRUE, !.stamped = TRUE]
                      ELSE Restored(event[e], q.seen)
    <2>1. /\ q.op \in {"discard", "restore"} /\ e \notin picked
          /\ event' = [event EXCEPT ![e] = row]
        BY DEF CommitEventCall
    <2>2. /\ e \in Events /\ Stored(e)
          /\ q.op = "restore" => (q.seen.discarded <=> q.seen.stamped)
        BY <2>1 DEF EInv, EventCallsHold, EventCallOK
    <2>3. event[e] \in Rows /\ (event[e].discarded <=> event[e].stamped)
        BY <2>2, RowIsRow DEF EInv, DiscardStamped
    <2>4. row \in Rows /\ row.discarded = row.stamped
        <3>1. CASE q.op = "discard"
            BY <2>3, <3>1 DEF Rows
        <3>2. CASE q.op = "restore"
            BY <2>2, <2>3, <3>2 DEF Rows, Restored
        <3> QED BY <2>1, <3>1, <3>2
    <2> QED BY <2>1, <2>2, <2>4
<1>2. Answer(c) /\ UNCHANGED <<attempts, raw, scheduling, history, eventBounds>>
    BY DEF CommitEventCall
<1>5. /\ event' \in [Events -> Rows \cup {NoEvent}]
      /\ Stored(e)' /\ StoredStay /\ DiscardStamped'
      /\ \A f \in Events \ {e} : event'[f] = event[f] /\ (Stored(f)' <=> Stored(f))
    BY <1>1, RowWritten
<1>6. EventsTypeOK'
    BY <1>1, <1>2, <1>5 DEF EInv, EventsTypeOK, scheduling, history, eventBounds
<1>7. EventCallsHold'
    BY <1>1, <1>2, <1>5, CallEnds DEF EInv
<1>8. RawStored'
    BY <1>1, <1>2, <1>5 DEF EInv, RawStored, StoredStay, EventsTypeOK
<1>9. PickedAreDue' /\ AtRest'
    BY <1>1, <1>2, <1>5 DEF EInv, PickedAreDue, AtRest, EventsTypeOK, scheduling
<1>10. CopiesExplained'
    BY <1>1, <1>2, <1>5 DEF EInv, CopiesExplained, Copies, InHand, scheduling, history, eventBounds
<1> QED BY <1>1, <1>5, <1>6, <1>7, <1>8, <1>9, <1>10 DEF EInv

(* Replay publishes an event that is stored, and is counted. *)
LEMMA ReplayKeeps ==
    ASSUME EInv, NEW c \in Clients, Replay(c) PROVE EInv' /\ StoredStay
<1>1. PICK e \in Events :
            /\ Stored(e)
            /\ raw' = Append(raw, e) /\ replays' = [replays EXCEPT ![e] = @ + 1]
            /\ Answer(c)
            /\ UNCHANGED <<event, attempts, scheduling, requeues, eventBounds>>
    BY DEF Replay, EInv, EventCallsHold, EventCallOK
<1>2. StoredStay /\ \A f \in Events : Stored(f)' <=> Stored(f)
    BY <1>1 DEF StoredStay, Stored
<1>3. /\ raw' \in Seq(Events)
      /\ Copies(e)' = Copies(e) + 1
      /\ \A f \in Events \ {e} : Copies(f)' = Copies(f)
      /\ RawStored'
    BY <1>1, <1>2, CopiesAppended DEF EInv, EventsTypeOK
<1>4. /\ replays' \in [Events -> Nat] /\ replays'[e] = replays[e] + 1
      /\ \A f \in Events \ {e} : replays'[f] = replays[f]
    BY <1>1 DEF EInv, EventsTypeOK
<1>5. EventsTypeOK'
    BY <1>1, <1>3, <1>4 DEF EInv, EventsTypeOK, scheduling, eventBounds
<1>6. EventCallsHold'
    BY <1>1, <1>2, CallEnds DEF EInv
<1>7. PickedAreDue' /\ AtRest' /\ DiscardStamped'
    BY <1>1, <1>2 DEF EInv, PickedAreDue, AtRest, DiscardStamped, EventsTypeOK, scheduling
<1>8. CopiesExplained'
    <2>1. /\ sent' = sent /\ requeues' = requeues /\ lapses' = lapses
          /\ requeues \in [Events -> Nat] /\ replays \in [Events -> Nat] /\ lapses \in Nat
          /\ \A f \in Events : Copies(f) \in Nat /\ InHand(f) \in Nat /\ InHand(f)' = InHand(f)
        BY <1>1, CopiesCounted DEF scheduling, eventBounds, EInv, EventsTypeOK, InHand
    <2> SUFFICES ASSUME NEW f \in Events
                 PROVE IF Stored(f)'
                       THEN /\ Copies(f)' >= 1 + replays'[f] + requeues'[f] + InHand(f)'
                            /\ Copies(f)' <= 1 + replays'[f] + requeues'[f] + lapses' + InHand(f)'
                       ELSE Copies(f)' = 0 /\ replays'[f] = 0 /\ requeues'[f] = 0
        BY DEF CopiesExplained
    <2>a. /\ Copies(f) \in Nat /\ InHand(f) \in Nat
          /\ replays[f] \in Nat /\ requeues[f] \in Nat /\ lapses \in Nat
          /\ Stored(f)' <=> Stored(f)
        BY <1>2, <2>1
    <2>b. IF Stored(f)
          THEN /\ Copies(f) >= 1 + replays[f] + requeues[f] + InHand(f)
               /\ Copies(f) <= 1 + replays[f] + requeues[f] + lapses + InHand(f)
          ELSE Copies(f) = 0 /\ replays[f] = 0 /\ requeues[f] = 0
        BY DEF EInv, CopiesExplained
    <2>2. CASE f = e
        <3>1. Copies(f)' = Copies(f) + 1 /\ replays'[f] = replays[f] + 1 /\ Stored(f)
            BY <1>1, <1>3, <1>4, <2>2
        <3> QED BY <2>1, <2>a, <2>b, <3>1
    <2>3. CASE f # e
        <3>1. Copies(f)' = Copies(f) /\ replays'[f] = replays[f]
            BY <1>3, <1>4, <2>3
        <3> QED BY <2>1, <2>a, <2>b, <3>1
    <2> QED BY <2>2, <2>3
<1> QED BY <1>2, <1>3, <1>5, <1>6, <1>7, <1>8 DEF EInv

(* A lost acknowledgement: one more copy, and one more lapse to explain it. *)
LEMMA LapseKeeps ==
    ASSUME EInv, NEW e \in Events, Stored(e), raw' = Append(raw, e), lapses' = lapses + 1,
           UNCHANGED <<event, sent, history>>
    PROVE  raw' \in Seq(Events) /\ RawStored' /\ CopiesExplained'
<1>1. StoredStay /\ \A f \in Events : Stored(f)' <=> Stored(f)
    BY DEF StoredStay, Stored
<1>2. /\ raw' \in Seq(Events)
      /\ Copies(e)' = Copies(e) + 1
      /\ \A f \in Events \ {e} : Copies(f)' = Copies(f)
      /\ RawStored'
    BY <1>1, CopiesAppended DEF EInv, EventsTypeOK
<1>3. /\ sent' = sent /\ requeues' = requeues /\ replays' = replays
      /\ requeues \in [Events -> Nat] /\ replays \in [Events -> Nat] /\ lapses \in Nat
      /\ \A f \in Events : Copies(f) \in Nat /\ InHand(f) \in Nat /\ InHand(f)' = InHand(f)
    BY CopiesCounted DEF history, EInv, EventsTypeOK, InHand
<1>4. CopiesExplained'
    <2>1. ASSUME NEW f \in Events, f = e
          PROVE  /\ Copies(f)' >= 1 + replays[f] + requeues[f] + InHand(f)
                 /\ Copies(f)' <= 1 + replays[f] + requeues[f] + lapses' + InHand(f)
        BY <1>2, <1>3, <2>1 DEF EInv, CopiesExplained
    <2>2. ASSUME NEW f \in Events \ {e}
          PROVE  IF Stored(f)
                 THEN /\ Copies(f)' >= 1 + replays[f] + requeues[f] + InHand(f)
                      /\ Copies(f)' <= 1 + replays[f] + requeues[f] + lapses' + InHand(f)
                 ELSE Copies(f)' = 0 /\ replays[f] = 0 /\ requeues[f] = 0
        <3>1. /\ Copies(f)' = Copies(f) /\ Copies(f) \in Nat /\ InHand(f) \in Nat
              /\ replays[f] \in Nat /\ requeues[f] \in Nat /\ lapses \in Nat
            BY <1>2, <1>3
        <3>2. IF Stored(f)
              THEN /\ Copies(f) >= 1 + replays[f] + requeues[f] + InHand(f)
                   /\ Copies(f) <= 1 + replays[f] + requeues[f] + lapses + InHand(f)
              ELSE Copies(f) = 0 /\ replays[f] = 0 /\ requeues[f] = 0
            BY DEF EInv, CopiesExplained
        <3> QED BY <3>1, <3>2
    <2> QED BY <1>1, <1>3, <2>1, <2>2 DEF CopiesExplained
<1> QED BY <1>2, <1>4

LEMMA ReplayFailsKeeps ==
    ASSUME EInv, NEW c \in Clients, ReplayFails(c) PROVE EInv' /\ StoredStay
<1>1. /\ call[c].op = "replay" /\ Answer(c)
      /\ UNCHANGED <<event, attempts, scheduling, history, calls, marks>>
    BY DEF ReplayFails
<1>2. StoredStay
    BY <1>1 DEF StoredStay, Stored
<1>3. EventCallsHold'
    BY <1>1, <1>2, CallEnds DEF EInv
<1>4. PickedAreDue' /\ AtRest' /\ DiscardStamped'
    BY <1>1 DEF EInv, PickedAreDue, AtRest, DiscardStamped, Stored, scheduling
<1>5. CASE UNCHANGED <<raw, lapses>>
    <2>1. RawStored' /\ CopiesExplained'
        BY <1>1, <1>5, TablesKept
    <2>2. EventsTypeOK'
        BY <1>1, <1>5 DEF EInv, EventsTypeOK, scheduling, history
    <2> QED BY <1>2, <1>3, <1>4, <2>1, <2>2 DEF EInv
<1>6. CASE MayAct /\ lapses' = lapses + 1 /\ raw' = Append(raw, call[c].event)
    <2>1. call[c].event \in Events /\ Stored(call[c].event)
        BY <1>1 DEF EInv, EventCallsHold, EventCallOK
    <2>2. raw' \in Seq(Events) /\ RawStored' /\ CopiesExplained'
        BY <1>1, <1>6, <2>1, LapseKeeps DEF scheduling
    <2>3. lapses' \in Nat /\ calls' + marks' + lapses' <= MaxActs
        BY <1>1, <1>6, ActsAssumption DEF EInv, EventsTypeOK, MayAct
    <2>4. EventsTypeOK'
        BY <1>1, <2>2, <2>3 DEF EInv, EventsTypeOK, scheduling, history
    <2> QED BY <1>2, <1>3, <1>4, <2>2, <2>4 DEF EInv
<1> QED BY <1>5, <1>6 DEF ReplayFails

-----------------------------------------------------------------------------
LEMMA StartSchedulerKeeps == ASSUME EInv, StartScheduler PROVE EInv' /\ StoredStay
<1>1. /\ scheduler = "down" /\ scheduler' = "idle" /\ producer' \in BOOLEAN
      /\ UNCHANGED <<event, attempts, raw, call, picked, todo, sent, history, eventBounds>>
    BY DEF StartScheduler
<1>2. StoredStay
    BY <1>1 DEF StoredStay, Stored
<1>3. EventsTypeOK' /\ EventCallsHold'
    BY <1>1, <1>2, CallsStay DEF EInv, EventsTypeOK, history, eventBounds
<1>4. RawStored' /\ PickedAreDue' /\ AtRest' /\ DiscardStamped' /\ CopiesExplained'
    BY <1>1 DEF EInv, Stored, RawStored, PickedAreDue, AtRest, DiscardStamped, CopiesExplained,
        Copies, InHand, history, eventBounds
<1> QED BY <1>2, <1>3, <1>4 DEF EInv

(* What is locked is due, hence failed and not discarded. *)
LEMMA PickKeeps ==
    ASSUME EInv, NEW S \in SUBSET Events, Pick(S) PROVE EInv' /\ StoredStay
<1>1. /\ scheduler = "idle" /\ scheduler' = "sending"
      /\ picked' = S /\ todo' = S /\ S \subseteq Due
      /\ UNCHANGED <<event, attempts, raw, call, producer, sent, history, eventBounds>>
    BY DEF Pick
<1>2. StoredStay
    BY <1>1 DEF StoredStay, Stored
<1>3. sent = {} /\ sent' = {}
    BY <1>1 DEF EInv, AtRest, EventsTypeOK
<1>4. EventsTypeOK' /\ EventCallsHold'
    BY <1>1, <1>2, <1>3, CallsStay DEF EInv, EventsTypeOK, history, eventBounds
<1>5. PickedAreDue' /\ AtRest'
    BY <1>1 DEF PickedAreDue, AtRest, Due, Stored
<1>6. RawStored' /\ DiscardStamped' /\ CopiesExplained'
    BY <1>1 DEF EInv, Stored, RawStored, DiscardStamped, CopiesExplained,
        Copies, InHand, history, eventBounds
<1> QED BY <1>2, <1>4, <1>5, <1>6 DEF EInv

(* Of a row in hand one copy may be in the topic before the commit. *)
LEMMA SendKeeps ==
    ASSUME EInv, NEW e \in Events, Send(e) PROVE EInv' /\ StoredStay
<1>1. /\ e \in todo /\ todo' = todo \ {e}
      /\ UNCHANGED <<event, attempts, call, scheduler, producer, picked, history, calls, marks>>
    BY DEF Send
<1>2. StoredStay
    BY <1>1 DEF StoredStay, Stored
<1>3. Stored(e) /\ e \in picked /\ e \notin sent
    BY <1>1 DEF EInv, PickedAreDue, EventsTypeOK
<1>4. EventCallsHold' /\ PickedAreDue' /\ AtRest' /\ DiscardStamped'
    BY <1>1, <1>2, CallsStay DEF EInv, PickedAreDue, AtRest, DiscardStamped, Stored
<1>5. CASE raw' = Append(raw, e) /\ sent' = sent \cup {e} /\ UNCHANGED lapses
    <2>1. /\ raw' \in Seq(Events)
          /\ Copies(e)' = Copies(e) + 1
          /\ \A f \in Events \ {e} : Copies(f)' = Copies(f)
          /\ RawStored'
        BY <1>1, <1>2, <1>3, <1>5, CopiesAppended DEF EInv, EventsTypeOK, StoredStay
    <2>2. sent' \subseteq picked' \ todo'
        BY <1>1, <1>3, <1>5 DEF EInv, EventsTypeOK
    <2>3. EventsTypeOK'
        BY <1>1, <1>5, <2>1, <2>2 DEF EInv, EventsTypeOK, history
    <2>4. CopiesExplained'
        <3>1. /\ lapses \in Nat /\ requeues \in [Events -> Nat] /\ replays \in [Events -> Nat]
              /\ requeues' = requeues /\ replays' = replays /\ lapses' = lapses
              /\ \A f \in Events : Copies(f) \in Nat /\ (Stored(f)' <=> Stored(f))
            BY <1>1, <1>5, CopiesCounted DEF EInv, EventsTypeOK, Stored, history
        <3>2. /\ InHand(e) = 0 /\ InHand(e)' = 1
              /\ \A f \in Events \ {e} : InHand(f)' = InHand(f)
            BY <1>3, <1>5 DEF InHand
        <3>3. /\ Stored(e)'
              /\ Copies(e)' >= 1 + replays'[e] + requeues'[e] + InHand(e)'
              /\ Copies(e)' <= 1 + replays'[e] + requeues'[e] + lapses' + InHand(e)'
            BY <1>3, <2>1, <3>1, <3>2 DEF EInv, CopiesExplained
        <3>4. ASSUME NEW f \in Events \ {e}
              PROVE  IF Stored(f)'
                     THEN /\ Copies(f)' >= 1 + replays'[f] + requeues'[f] + InHand(f)'
                          /\ Copies(f)' <= 1 + replays'[f] + requeues'[f] + lapses' + InHand(f)'
                     ELSE Copies(f)' = 0 /\ replays'[f] = 0 /\ requeues'[f] = 0
            BY <2>1, <3>1, <3>2 DEF EInv, CopiesExplained
        <3> QED BY <3>3, <3>4 DEF CopiesExplained
    <2> QED BY <1>2, <1>4, <2>1, <2>3, <2>4 DEF EInv
<1>6. CASE UNCHANGED <<raw, sent, lapses>>
    <2>1. EventsTypeOK'
        BY <1>1, <1>6 DEF EInv, EventsTypeOK, history
    <2>2. RawStored' /\ CopiesExplained'
        BY <1>1, <1>6 DEF EInv, Stored, RawStored, CopiesExplained, Copies, InHand, history
    <2> QED BY <1>2, <1>4, <2>1, <2>2 DEF EInv
<1>7. CASE MayAct /\ lapses' = lapses + 1 /\ raw' = Append(raw, e) /\ UNCHANGED sent
    <2>1. raw' \in Seq(Events) /\ RawStored' /\ CopiesExplained'
        BY <1>1, <1>3, <1>7, LapseKeeps
    <2>2. lapses' \in Nat /\ calls' + marks' + lapses' <= MaxActs
        BY <1>1, <1>7, ActsAssumption DEF EInv, EventsTypeOK, MayAct
    <2>3. EventsTypeOK'
        BY <1>1, <1>7, <2>1, <2>2 DEF EInv, EventsTypeOK, history
    <2> QED BY <1>2, <1>4, <2>1, <2>3 DEF EInv
<1> QED BY <1>5, <1>6, <1>7 DEF Send

(* The commit of a batch turns the copies in hand into re-queuings. *)
LEMMA CommitRequeuesKeeps == ASSUME EInv, CommitRequeues PROVE EInv' /\ StoredStay
<1>1. /\ event' = [e \in Events |->
            CASE e \in sent -> [event[e] EXCEPT !.status = "queued", !.retry = "none"]
              [] e \in picked \ sent -> [event[e] EXCEPT !.retry = "later"]
              [] OTHER -> event[e]]
      /\ requeues' = [e \in Events |-> IF e \in sent THEN requeues[e] + 1 ELSE requeues[e]]
      /\ scheduler' = "idle" /\ picked' = {} /\ todo' = {} /\ sent' = {}
      /\ UNCHANGED <<attempts, raw, call, producer, replays, eventBounds>>
    BY DEF CommitRequeues, Release
<1>2. sent \subseteq picked /\ \A e \in picked : e \in Events /\ event[e] \in Rows
    BY RowIsRow DEF EInv, EventsTypeOK, PickedAreDue
<1>3. ASSUME NEW e \in Events
      PROVE  /\ event'[e] \in Rows \cup {NoEvent}
             /\ Stored(e)' <=> Stored(e)
             /\ Stored(e) => /\ event'[e].discarded = event[e].discarded
                             /\ event'[e].stamped = event[e].stamped
    <2>1. CASE e \in sent
        <3>1. event'[e] = [event[e] EXCEPT !.status = "queued", !.retry = "none"]
            BY <1>1, <2>1
        <3>2. /\ event'[e] \in Rows
              /\ event'[e].discarded = event[e].discarded
              /\ event'[e].stamped = event[e].stamped
            BY <1>2, <2>1, <3>1 DEF Rows
        <3> QED BY <1>2, <2>1, <3>2, NoEventAssumption DEF Stored
    <2>2. CASE e \in picked \ sent
        <3>1. event'[e] = [event[e] EXCEPT !.retry = "later"]
            BY <1>1, <2>2
        <3>2. /\ event'[e] \in Rows
              /\ event'[e].discarded = event[e].discarded
              /\ event'[e].stamped = event[e].stamped
            BY <1>2, <2>2, <3>1 DEF Rows
        <3> QED BY <1>2, <2>2, <3>2, NoEventAssumption DEF Stored
    <2>3. CASE e \notin picked
        <3>1. event'[e] = event[e]
            BY <1>1, <1>2, <2>3
        <3> QED BY <3>1 DEF EInv, EventsTypeOK, Stored
    <2> QED BY <2>1, <2>2, <2>3
<1>4. StoredStay
    BY <1>3 DEF StoredStay
<1>5. event' \in [Events -> Rows \cup {NoEvent}]
    BY <1>1, <1>3
<1>a. requeues \in [Events -> Nat]
    BY DEF EInv, EventsTypeOK
<1>b. requeues' \in [Events -> Nat]
    <2>1. requeues' = [e \in Events |-> IF e \in sent THEN requeues[e] + 1 ELSE requeues[e]]
        BY <1>1
    <2> QED BY <1>a, <2>1
<1>6. ASSUME NEW e \in Events
      PROVE  requeues'[e] = requeues[e] + InHand(e) /\ InHand(e)' = 0
    <2>1. requeues'[e] = IF e \in sent THEN requeues[e] + 1 ELSE requeues[e]
        BY <1>1
    <2>2. InHand(e) = (IF e \in sent THEN 1 ELSE 0) /\ InHand(e)' = 0
        BY <1>1 DEF InHand
    <2> QED BY <1>a, <2>1, <2>2
<1>7. EventsTypeOK' /\ EventCallsHold'
    BY <1>1, <1>4, <1>5, <1>b, CallsStay DEF EInv, EventsTypeOK, eventBounds
<1>8. RawStored'
    <2>1. raw' = raw
        BY <1>1
    <2> QED BY <1>4, <2>1 DEF EInv, RawStored, StoredStay, EventsTypeOK
<1>9. PickedAreDue' /\ AtRest'
    BY <1>1 DEF PickedAreDue, AtRest
<1>10. DiscardStamped'
    BY <1>3 DEF EInv, DiscardStamped
<1>11. CopiesExplained'
    <2> SUFFICES ASSUME NEW e \in Events
                 PROVE IF Stored(e)'
                       THEN /\ Copies(e)' >= 1 + replays'[e] + requeues'[e] + InHand(e)'
                            /\ Copies(e)' <= 1 + replays'[e] + requeues'[e] + lapses' + InHand(e)'
                       ELSE Copies(e)' = 0 /\ replays'[e] = 0 /\ requeues'[e] = 0
        BY DEF CopiesExplained
    <2>1. /\ Copies(e)' = Copies(e) /\ Copies(e) \in Nat /\ InHand(e) \in Nat
          /\ replays[e] \in Nat /\ requeues[e] \in Nat /\ lapses \in Nat
          /\ replays' = replays /\ lapses' = lapses
        BY <1>1, CopiesCounted DEF EInv, EventsTypeOK, InHand, Copies, eventBounds
    <2>5. ~Stored(e) => InHand(e) = 0
        BY <1>2 DEF EInv, PickedAreDue, InHand
    <2>2. IF Stored(e)
          THEN /\ Copies(e) >= 1 + replays[e] + requeues[e] + InHand(e)
               /\ Copies(e) <= 1 + replays[e] + requeues[e] + lapses + InHand(e)
          ELSE Copies(e) = 0 /\ replays[e] = 0 /\ requeues[e] = 0
        BY DEF EInv, CopiesExplained
    <2>3. Stored(e)' <=> Stored(e)
        BY <1>3
    <2>4. requeues'[e] = requeues[e] + InHand(e) /\ InHand(e)' = 0
        BY <1>6
    <2> QED BY <2>1, <2>2, <2>3, <2>4, <2>5
<1> QED BY <1>4, <1>7, <1>8, <1>9, <1>10, <1>11 DEF EInv

(* A lost transaction leaves its copies behind: at most one of each event,   *)
(* and one lapse more explains one more of every event.                      *)
LEMMA LoseTransactionKeeps == ASSUME EInv, LoseTransaction PROVE EInv' /\ StoredStay
<1>1. /\ MayAct /\ lapses' = lapses + 1
      /\ scheduler' \in {"down", "idle"} /\ producer' \in BOOLEAN
      /\ picked' = {} /\ todo' = {} /\ sent' = {}
      /\ UNCHANGED <<event, attempts, raw, call, history, calls, marks>>
    BY DEF LoseTransaction, Release, EInv, EventsTypeOK
<1>2. StoredStay
    BY <1>1 DEF StoredStay, Stored
<1>3. lapses' \in Nat /\ calls' + marks' + lapses' <= MaxActs
    BY <1>1, ActsAssumption DEF EInv, EventsTypeOK, MayAct
<1>4. EventsTypeOK' /\ EventCallsHold'
    BY <1>1, <1>2, <1>3, CallsStay DEF EInv, EventsTypeOK, history
<1>5. RawStored' /\ PickedAreDue' /\ AtRest' /\ DiscardStamped'
    BY <1>1 DEF EInv, RawStored, PickedAreDue, AtRest, DiscardStamped, Stored
<1>6. CopiesExplained'
    <2>1. ASSUME NEW e \in Events
          PROVE  /\ Copies(e)' = Copies(e) /\ Copies(e) \in Nat
                 /\ InHand(e) \in {0, 1} /\ InHand(e)' = 0
                 /\ replays[e] \in Nat /\ requeues[e] \in Nat /\ lapses \in Nat
                 /\ replays' = replays /\ requeues' = requeues
                 /\ Stored(e)' <=> Stored(e)
        BY <1>1, CopiesCounted DEF EInv, EventsTypeOK, InHand, Copies, Stored, history
    <2> SUFFICES ASSUME NEW e \in Events
                 PROVE IF Stored(e)'
                       THEN /\ Copies(e)' >= 1 + replays'[e] + requeues'[e] + InHand(e)'
                            /\ Copies(e)' <= 1 + replays'[e] + requeues'[e] + lapses' + InHand(e)'
                       ELSE Copies(e)' = 0 /\ replays'[e] = 0 /\ requeues'[e] = 0
        BY DEF CopiesExplained
    <2>2. IF Stored(e)
          THEN /\ Copies(e) >= 1 + replays[e] + requeues[e] + InHand(e)
               /\ Copies(e) <= 1 + replays[e] + requeues[e] + lapses + InHand(e)
          ELSE Copies(e) = 0 /\ replays[e] = 0 /\ requeues[e] = 0
        BY DEF EInv, CopiesExplained
    <2> QED BY <1>1, <2>1, <2>2
<1> QED BY <1>2, <1>4, <1>5, <1>6 DEF EInv

(* ComesDue and MarkFailed change no row that the scheduler has locked, nor  *)
(* the discard columns.                                                      *)
LEMMA MarksKeep ==
    ASSUME EInv, NEW e \in Events, ComesDue(e) \/ MarkFailed(e) PROVE EInv' /\ StoredStay
<1>1. /\ Stored(e) /\ event[e] \in Rows
      /\ UNCHANGED <<attempts, raw, call, scheduling, history, calls, lapses>>
    BY RowIsRow DEF ComesDue, MarkFailed, eventBounds
<1>2. PICK row \in Rows :
            /\ event' = [event EXCEPT ![e] = row]
            /\ row.discarded = event[e].discarded /\ row.stamped = event[e].stamped
            /\ e \in picked => row.status = event[e].status
    <2>1. CASE ComesDue(e)
        <3> DEFINE row == [event[e] EXCEPT !.retry = "due"]
        <3>1. row \in Rows
            BY <1>1 DEF Rows
        <3>2. row.discarded = event[e].discarded /\ row.stamped = event[e].stamped
              /\ row.status = event[e].status
            BY <1>1 DEF Rows
        <3>3. event' = [event EXCEPT ![e] = row]
            BY <2>1 DEF ComesDue, EInv, EventsTypeOK
        <3> QED BY <3>1, <3>2, <3>3
    <2>2. CASE MarkFailed(e)
        <3> DEFINE row == [event[e] EXCEPT !.status = "failed", !.retry = "later"]
        <3>1. row \in Rows
            BY <1>1 DEF Rows
        <3>2. row.discarded = event[e].discarded /\ row.stamped = event[e].stamped
            BY <1>1 DEF Rows
        <3>3. event' = [event EXCEPT ![e] = row]
            BY <2>2 DEF MarkFailed, EInv, EventsTypeOK
        <3>4. e \notin picked
            BY <2>2 DEF MarkFailed, EInv, PickedAreDue
        <3> QED BY <3>1, <3>2, <3>3, <3>4
    <2> QED BY <2>1, <2>2
<1>3. row.discarded = row.stamped
    BY <1>1, <1>2 DEF EInv, DiscardStamped, Rows
<1>4. /\ event' \in [Events -> Rows \cup {NoEvent}] /\ event'[e] = row
      /\ Stored(e)' /\ StoredStay /\ DiscardStamped'
      /\ \A f \in Events \ {e} : event'[f] = event[f] /\ (Stored(f)' <=> Stored(f))
    BY <1>2, <1>3, RowWritten
<1>5. marks' \in Nat /\ calls' + marks' + lapses' <= MaxActs
    BY <1>1, ActsAssumption DEF ComesDue, MarkFailed, eventBounds, EInv, EventsTypeOK, MayAct
<1>6. EventsTypeOK' /\ EventCallsHold'
    BY <1>1, <1>4, <1>5, CallsStay DEF EInv, EventsTypeOK, scheduling, history
<1>7. RawStored'
    BY <1>1, <1>4 DEF EInv, RawStored, StoredStay, EventsTypeOK
<1>8. PickedAreDue' /\ AtRest'
    BY <1>1, <1>2, <1>4 DEF EInv, PickedAreDue, AtRest, EventsTypeOK, scheduling
<1>9. CopiesExplained'
    BY <1>1, <1>4 DEF EInv, CopiesExplained, Copies, InHand, scheduling, history
<1> QED BY <1>4, <1>6, <1>7, <1>8, <1>9 DEF EInv

-----------------------------------------------------------------------------
(* The routes are typed, accepted by the API, and in their own history. *)
RoutesHold ==
    /\ endpoint \in {"active", "inactive", "deleted"}
    /\ route \in [Routes -> Settings \cup {NoRoute}]
    /\ versions \in [Routes -> SUBSET Settings]
    /\ \A r \in Routes : Exists(r) => route[r] \in versions[r] /\ AcceptsSettings(route[r])

(* What a call is about to write was accepted; a route that is being added   *)
(* has no history.                                                           *)
RouteCallOK(q) ==
    /\ q.op = "add" =>
            /\ q.route \in Routes /\ versions[q.route] = {}
            /\ q.settings \in Settings /\ AcceptsSettings(q.settings)
    /\ q.op = "update" =>
            /\ q.route \in Routes
            /\ q.body \in Updates /\ AcceptsUpdate(q.body)
    /\ q.op = "delete route" => q.route \in Routes

RouteCallsHold ==
    /\ \A c \in Clients : RouteCallOK(call[c])
    /\ \A c, d \in Clients :
            call[c].op = "add" /\ call[d].op = "add" /\ call[c].route = call[d].route => c = d

RInv == RoutesHold /\ RouteCallsHold

(* Histories only grow. *)
VersionsGrow == \A r \in Routes : versions[r] \subseteq versions'[r]

(* A call that is no addition and whose contents are right. *)
LEMMA RouteCallMoves ==
    ASSUME RInv, DOMAIN call = Clients, versions' = versions,
           NEW c \in Clients, NEW q, call' = [call EXCEPT ![c] = q],
           RouteCallOK(q),
           q.op = "add" => \A d \in Clients : call[d].op = "add" => call[d].route # q.route
    PROVE  RouteCallsHold'
<1>1. call'[c] = q /\ \A d \in Clients \ {c} : call'[d] = call[d]
    OBVIOUS
<1>2. ASSUME NEW d \in Clients PROVE RouteCallOK(call[d])'
    BY <1>1 DEF RInv, RouteCallsHold, RouteCallOK
<1>3. ASSUME NEW d \in Clients, NEW f \in Clients, call'[d].op = "add", call'[f].op = "add",
             call'[d].route = call'[f].route
      PROVE  d = f
    BY <1>1, <1>3 DEF RInv, RouteCallsHold
<1> QED BY <1>2, <1>3 DEF RouteCallsHold

LEMMA RoutesUntouched == ASSUME RInv, UNCHANGED catalog PROVE RoutesHold' /\ VersionsGrow
BY DEF RInv, RoutesHold, VersionsGrow, Exists, catalog

(* A route's row is written; no call that adds a route adds this one. *)
LEMMA WriteKeeps ==
    ASSUME RInv, DOMAIN call = Clients, NEW c \in Clients, NEW r \in Routes, NEW s \in Settings,
           AcceptsSettings(s), Write(r, s), Answer(c),
           \A d \in Clients \ {c} : call[d].op = "add" => call[d].route # r
    PROVE  RInv' /\ VersionsGrow
<1>1. /\ route' = [route EXCEPT ![r] = s] /\ versions' = [versions EXCEPT ![r] = @ \cup {s}]
      /\ endpoint' = endpoint
    BY DEF Write
<1>2. /\ versions' \in [Routes -> SUBSET Settings]
      /\ versions'[r] = versions[r] \cup {s}
      /\ \A x \in Routes \ {r} : versions'[x] = versions[x]
    BY <1>1 DEF RInv, RoutesHold
<1>3. /\ route' \in [Routes -> Settings \cup {NoRoute}]
      /\ route'[r] = s
      /\ \A x \in Routes \ {r} : route'[x] = route[x]
    BY <1>1 DEF RInv, RoutesHold
<1>4. RoutesHold'
    BY <1>1, <1>2, <1>3 DEF RInv, RoutesHold, Exists
<1>5. call'[c] = Idle /\ \A d \in Clients \ {c} : call'[d] = call[d]
    BY DEF Answer
<1>a. RouteCallOK(Idle)'
    BY DEF RouteCallOK, Idle
<1>b. ASSUME NEW q, RouteCallOK(q), q.op = "add" => q.route # r PROVE RouteCallOK(q)'
    BY <1>2, <1>b DEF RouteCallOK
<1>6. ASSUME NEW d \in Clients PROVE RouteCallOK(call[d])'
    <2>1. CASE d = c
        <3> SUFFICES ASSUME NEW q, q = call'[d] PROVE RouteCallOK(q)'
            OBVIOUS
        <3> QED BY <1>5, <1>a, <2>1
    <2>2. CASE d # c
        <3> SUFFICES ASSUME NEW q, q = call'[d] PROVE RouteCallOK(q)'
            OBVIOUS
        <3> QED BY <1>5, <1>b, <2>2 DEF RInv, RouteCallsHold
    <2> QED BY <2>1, <2>2
<1>7. ASSUME NEW d \in Clients, NEW f \in Clients, call'[d].op = "add", call'[f].op = "add",
             call'[d].route = call'[f].route
      PROVE  d = f
    BY <1>5, <1>7 DEF RInv, RouteCallsHold, Idle
<1> QED BY <1>2, <1>4, <1>6, <1>7 DEF RInv, RouteCallsHold, VersionsGrow

(* Rows are removed; their history stays. *)
LEMMA RemoveKeeps ==
    ASSUME RInv, DOMAIN call = Clients, NEW c \in Clients, NEW S \in SUBSET Routes, RemoveRows(S),
           endpoint' \in {"active", "inactive", "deleted"}, versions' = versions, Answer(c)
    PROVE  RInv' /\ VersionsGrow
<1>1. /\ route' \in [Routes -> Settings \cup {NoRoute}]
      /\ \A r \in Routes : route'[r] # NoRoute => route'[r] = route[r]
    BY DEF RemoveRows, RInv, RoutesHold
<1>2. RoutesHold' /\ VersionsGrow
    BY <1>1 DEF RInv, RoutesHold, Exists, VersionsGrow
<1>3. RouteCallOK(Idle) /\ Idle.op # "add"
    BY DEF RouteCallOK, Idle
<1> QED BY <1>2, <1>3, RouteCallMoves DEF Answer, RInv

(* Whichever of its columns an update writes, the row stays acceptable. *)
LEMMA UpdateKeepsSettings ==
    ASSUME NEW row \in Settings, AcceptsSettings(row), NEW body \in Updates, AcceptsUpdate(body),
           NEW columns \in SUBSET DOMAIN body, Fits(body, columns)
    PROVE  /\ Overwritten(row, body, columns) \in Settings
           /\ AcceptsSettings(Overwritten(row, body, columns))
<1> DEFINE s == Overwritten(row, body, columns)
<1>1. /\ DOMAIN s = {"url", "pipeline", "filter", "active"}
      /\ \A f \in DOMAIN s : s[f] = IF f \in columns THEN body[f] ELSE row[f]
      /\ s = [f \in DOMAIN s |-> s[f]]
    BY DEF Overwritten, Settings
<1>2. s["url"] \in Urls /\ AcceptsUrl(s["url"], INSECURE)
    <2>1. CASE "url" \in columns
        <3>1. body["url"] \in Urls /\ AcceptsUrl(body["url"], INSECURE)
            BY <2>1, UpdatesAssumption DEF AcceptsUpdate, Fits
        <3> QED BY <1>1, <2>1, <3>1
    <2>2. CASE "url" \notin columns
        BY <1>1, <2>2 DEF Settings, AcceptsSettings
    <2> QED BY <2>1, <2>2
<1>3. s["pipeline"] \in Pipelines /\ AcceptsPipeline(s["pipeline"])
    <2>1. CASE "pipeline" \in columns
        <3>1. body["pipeline"] \in Pipelines /\ AcceptsPipeline(body["pipeline"])
            BY <2>1, UpdatesAssumption DEF AcceptsUpdate
        <3> QED BY <1>1, <2>1, <3>1
    <2>2. CASE "pipeline" \notin columns
        BY <1>1, <2>2 DEF Settings, AcceptsSettings
    <2> QED BY <2>1, <2>2
<1>4. s["filter"] \in Filters /\ AcceptsFilter(s["filter"])
    <2>1. CASE "filter" \in columns
        <3>1. body["filter"] \in Filters /\ AcceptsFilter(body["filter"])
            BY <2>1, UpdatesAssumption DEF AcceptsUpdate
        <3> QED BY <1>1, <2>1, <3>1
    <2>2. CASE "filter" \notin columns
        BY <1>1, <2>2 DEF Settings, AcceptsSettings
    <2> QED BY <2>1, <2>2
<1>5. s["active"] \in BOOLEAN
    BY <1>1, UpdatesAssumption DEF Settings
<1> HIDE DEF s
<1>6. s = [url |-> s["url"], pipeline |-> s["pipeline"], filter |-> s["filter"],
           active |-> s["active"]]
    BY <1>1
<1>7. s \in Settings /\ AcceptsSettings(s)
    BY <1>2, <1>3, <1>4, <1>5, <1>6 DEF Settings, AcceptsSettings
<1> QED BY <1>7 DEF s

-----------------------------------------------------------------------------
(* The rows of delivery_attempts are typed. *)
AttemptsHold ==
    \A a \in attempts :
        a.event \in Events /\ a.route \in Routes /\ a.number \in Nat /\ a.failed \in BOOLEAN

(* A call that only starts. *)
LEMMA ApiCallBegins ==
    ASSUME EInv, RInv, NEW c \in Clients, NEW q, Begin(c, q), OnlyCall,
           EventCallOK(q), RouteCallOK(q),
           q.op = "add" => \A d \in Clients : call[d].op = "add" => call[d].route # q.route
    PROVE  EInv' /\ RInv' /\ StoredStay /\ VersionsGrow
<1>1. /\ MayAct /\ calls' = calls + 1 /\ call' = [call EXCEPT ![c] = q]
      /\ UNCHANGED <<event, attempts, raw, scheduling, history, marks, lapses, catalog>>
    BY DEF Begin, OnlyCall
<1>2. /\ StoredStay /\ RawStored' /\ PickedAreDue' /\ AtRest' /\ DiscardStamped'
      /\ CopiesExplained'
    BY <1>1, TablesKept
<1>3. EventCallsHold'
    BY <1>1, <1>2, CallMoves DEF EInv
<1>4. calls' \in Nat /\ calls' + marks' + lapses' <= MaxActs
    BY <1>1, ActsAssumption DEF EInv, EventsTypeOK, MayAct
<1>5. EventsTypeOK'
    BY <1>1, <1>4 DEF EInv, EventsTypeOK, scheduling, history
<1>6. RoutesHold' /\ VersionsGrow
    BY <1>1, RoutesUntouched
<1>7. RouteCallsHold'
    BY <1>1, RouteCallMoves DEF catalog, EInv, EventCallsHold
<1> QED BY <1>2, <1>3, <1>5, <1>6, <1>7 DEF EInv, RInv

(* A call of the endpoint and route API commits: the tables of events are    *)
(* not touched.                                                              *)
LEMMA CommitCallKeepsEvents ==
    ASSUME EInv, NEW c \in Clients, CommitCall(c) PROVE EInv' /\ StoredStay
<1>1. /\ Answer(c)
      /\ UNCHANGED <<event, attempts, raw, scheduling, history, eventBounds>>
    BY DEF CommitCall
<1>2. /\ StoredStay /\ RawStored' /\ PickedAreDue' /\ AtRest' /\ DiscardStamped'
      /\ CopiesExplained'
    BY <1>1, TablesKept DEF eventBounds
<1>3. EventCallsHold'
    BY <1>1, <1>2, CallEnds DEF EInv
<1>4. EventsTypeOK'
    BY <1>1 DEF EInv, EventsTypeOK, scheduling, history, eventBounds
<1> QED BY <1>2, <1>3, <1>4 DEF EInv

(* The row that a commit writes is one the API accepts, and a row that is    *)
(* taken away has no attempts.                                               *)
LEMMA CommitCallKeepsRoutes ==
    ASSUME EInv, RInv, NEW c \in Clients, CommitCall(c)
    PROVE  /\ RInv' /\ VersionsGrow
           /\ AttemptsHold /\ HistoryAnchored => HistoryAnchored'
<1>1. Answer(c) /\ UNCHANGED <<event, attempts>> /\ DOMAIN call = Clients
    BY DEF CommitCall, EInv, EventCallsHold
<1>2. RouteCallOK(call[c])
    BY DEF RInv, RouteCallsHold
<1>3. ASSUME UNCHANGED catalog
      PROVE  RInv' /\ VersionsGrow /\ (HistoryAnchored => HistoryAnchored')
    <2>1. RouteCallOK(Idle) /\ Idle.op # "add"
        BY DEF RouteCallOK, Idle
    <2>2. RouteCallsHold'
        BY <1>1, <1>3, <2>1, RouteCallMoves DEF Answer, catalog
    <2>3. HistoryAnchored => HistoryAnchored'
        BY <1>1, <1>3 DEF HistoryAnchored, Stored, Exists, catalog
    <2> QED BY <1>3, <2>2, <2>3, RoutesUntouched DEF RInv
<1>4. ASSUME NEW r \in Routes, NEW s \in Settings, AcceptsSettings(s), Write(r, s),
             \A d \in Clients \ {c} : call[d].op = "add" => call[d].route # r
      PROVE  RInv' /\ VersionsGrow /\ (AttemptsHold /\ HistoryAnchored => HistoryAnchored')
    <2>1. RInv' /\ VersionsGrow
        BY <1>1, <1>4, WriteKeeps
    <2>2. endpoint' = endpoint /\ \A x \in Routes : Exists(x) => Exists(x)'
        BY <1>4, SettingsAssumption DEF Write, RInv, RoutesHold, Exists
    <2>3. AttemptsHold /\ HistoryAnchored => HistoryAnchored'
        BY <1>1, <2>2 DEF HistoryAnchored, AttemptsHold, Stored
    <2> QED BY <2>1, <2>3
<1>5. CASE CommitAddRoute(c)
    <2>1. CASE endpoint # "deleted"
        <3> SUFFICES ASSUME NEW q, q = call[c] PROVE RInv' /\ VersionsGrow /\ (AttemptsHold /\ HistoryAnchored => HistoryAnchored')
            OBVIOUS
        <3>1. /\ q.op = "add" /\ q.route \in Routes /\ q.settings \in Settings
              /\ AcceptsSettings(q.settings) /\ Write(q.route, q.settings)
            BY <1>2, <1>5, <2>1 DEF CommitAddRoute, RouteCallOK
        <3>2. \A d \in Clients \ {c} : call[d].op = "add" => call[d].route # q.route
            BY <3>1 DEF RInv, RouteCallsHold
        <3> QED BY <1>4, <3>1, <3>2
    <2>2. CASE endpoint = "deleted"
        BY <1>3, <1>5, <2>2 DEF CommitAddRoute, Refused
    <2> QED BY <2>1, <2>2
<1>6. CASE CommitUpdateRoute(c)
    <2> SUFFICES ASSUME NEW q, q = call[c]
                 PROVE RInv' /\ VersionsGrow /\ (AttemptsHold /\ HistoryAnchored => HistoryAnchored')
        OBVIOUS
    <2>1. /\ q.op = "update" /\ q.route \in Routes
          /\ q.body \in Updates /\ AcceptsUpdate(q.body)
        BY <1>2, <1>6 DEF CommitUpdateRoute, RouteCallOK
    <2>2. CASE UNCHANGED catalog
        BY <1>3, <2>2
    <2>3. CASE ~ UNCHANGED catalog
        <3> DEFINE columns == Changed(q.body, q.seen)
                   s == Overwritten(route[q.route], q.body, columns)
        <3>1. Exists(q.route) /\ Fits(q.body, columns) /\ Write(q.route, s)
            BY <1>6, <2>3 DEF CommitUpdateRoute, Refused
        <3>a. columns \in SUBSET DOMAIN q.body
            BY DEF Changed
        <3>2. /\ route[q.route] \in Settings /\ AcceptsSettings(route[q.route])
              /\ versions[q.route] # {}
            BY <2>1, <3>1 DEF RInv, RoutesHold, Exists
        <3>3. s \in Settings /\ AcceptsSettings(s)
            BY <2>1, <3>1, <3>2, <3>a, UpdateKeepsSettings
        <3>4. \A d \in Clients \ {c} : call[d].op = "add" => call[d].route # q.route
            BY <3>2 DEF RInv, RouteCallsHold, RouteCallOK
        <3> HIDE DEF s
        <3> QED BY <1>4, <2>1, <3>1, <3>3, <3>4
    <2> QED BY <2>2, <2>3
<1>7. ASSUME NEW S \in SUBSET Routes, RemoveRows(S), versions' = versions,
             endpoint' \in {"active", "inactive", "deleted"},
             \A a \in attempts : a.route \notin S,
             endpoint' = "deleted" => \A e \in Events : ~Stored(e)
      PROVE  RInv' /\ VersionsGrow /\ (AttemptsHold /\ HistoryAnchored => HistoryAnchored')
    <2>1. RInv' /\ VersionsGrow
        BY <1>1, <1>7, RemoveKeeps
    <2>2. \A x \in Routes \ S : Exists(x) => Exists(x)'
        BY <1>7 DEF RemoveRows, Exists
    <2>3. AttemptsHold /\ HistoryAnchored => HistoryAnchored'
        BY <1>1, <1>7, <2>2 DEF HistoryAnchored, AttemptsHold, Stored
    <2> QED BY <2>1, <2>3
<1>8. CASE CommitDeleteRoute(c)
    <2>1. CASE UNCHANGED catalog
        BY <1>3, <2>1
    <2>2. CASE ~ UNCHANGED catalog
        <3> SUFFICES ASSUME NEW q, q = call[c]
                 PROVE RInv' /\ VersionsGrow /\ (AttemptsHold /\ HistoryAnchored => HistoryAnchored')
            OBVIOUS
        <3>1. /\ q.route \in Routes /\ AttemptsOf(q.route) = {}
              /\ RemoveRows({q.route}) /\ UNCHANGED <<endpoint, versions, request>>
            BY <1>2, <1>8, <2>2 DEF CommitDeleteRoute, RouteCallOK, Refused
        <3>2. \A a \in attempts : a.route \notin {q.route}
            BY <3>1 DEF AttemptsOf
        <3>3. endpoint' \in {"active", "inactive", "deleted"}
            BY <3>1 DEF RInv, RoutesHold
        <3>4. CASE endpoint' # "deleted"
            BY <1>7, <3>1, <3>2, <3>3, <3>4
        <3>5. CASE endpoint' = "deleted"
            <4>1. HistoryAnchored => \A e \in Events : ~Stored(e)
                BY <3>1, <3>5 DEF HistoryAnchored
            <4>2. RInv' /\ VersionsGrow
                BY <1>1, <3>1, <3>3, RemoveKeeps
            <4>3. CASE HistoryAnchored
                BY <1>7, <3>1, <3>2, <3>3, <4>1, <4>3
            <4> QED BY <4>2, <4>3
        <3> QED BY <3>4, <3>5
    <2> QED BY <2>1, <2>2
<1>9. CASE CommitEndpointCall(c)
    <2>1. CASE UNCHANGED catalog
        BY <1>3, <2>1
    <2>2. CASE endpoint # "deleted" /\ call[c].op = "delete" /\ ~ UNCHANGED catalog
        <3>1. /\ \A e \in Events : ~Stored(e)
              /\ endpoint' = "deleted" /\ RemoveRows(Routes)
              /\ UNCHANGED <<versions, request>>
            BY <1>9, <2>2 DEF CommitEndpointCall, Refused
        <3>2. RInv' /\ VersionsGrow
            BY <1>1, <3>1, RemoveKeeps
        <3>3. AttemptsHold /\ HistoryAnchored => HistoryAnchored'
            BY <1>1, <3>1 DEF HistoryAnchored, AttemptsHold, Stored
        <3> QED BY <3>2, <3>3
    <2>3. CASE endpoint # "deleted" /\ call[c].op # "delete"
        <3>1. endpoint' \in {"active", "inactive"} /\ UNCHANGED <<route, versions, request>>
            BY <1>9, <2>3 DEF CommitEndpointCall, RInv, RoutesHold
        <3>2. RoutesHold' /\ VersionsGrow
            BY <3>1 DEF RInv, RoutesHold, VersionsGrow, Exists
        <3>3. RouteCallOK(Idle) /\ Idle.op # "add"
            BY DEF RouteCallOK, Idle
        <3>4. RouteCallsHold'
            BY <1>1, <3>1, <3>3, RouteCallMoves DEF Answer
        <3>5. HistoryAnchored => HistoryAnchored'
            BY <1>1, <3>1 DEF HistoryAnchored, Stored, Exists
        <3> QED BY <3>2, <3>4, <3>5 DEF RInv
    <2>4. endpoint = "deleted" => UNCHANGED catalog
        BY <1>9 DEF CommitEndpointCall, Refused
    <2> QED BY <2>1, <2>2, <2>3, <2>4
<1> QED BY <1>5, <1>6, <1>8, <1>9 DEF CommitCall

-----------------------------------------------------------------------------
(* Steps over the tables of events leave the routes and their calls alone.   *)
LEMMA EventStepKeepsEvents == ASSUME EInv, EventStep PROVE EInv' /\ StoredStay
<1>1. CASE \E c \in Clients : \E e \in Events : BeginEventCall(c, e)
    BY <1>1, BeginEventCallKeeps
<1>2. CASE \E c \in Clients : CommitEventCall(c)
    BY <1>2, CommitEventCallKeeps
<1>3. CASE \E c \in Clients : Replay(c)
    BY <1>3, ReplayKeeps
<1>4. CASE \E c \in Clients : ReplayFails(c)
    BY <1>4, ReplayFailsKeeps
<1>5. CASE StartScheduler
    BY <1>5, StartSchedulerKeeps
<1>6. CASE \E S \in SUBSET Events : Pick(S)
    BY <1>6, PickKeeps
<1>7. CASE \E e \in Events : Send(e)
    BY <1>7, SendKeeps
<1>8. CASE \E e \in Events : ComesDue(e) \/ MarkFailed(e)
    BY <1>8, MarksKeep
<1>9. CASE CommitRequeues
    BY <1>9, CommitRequeuesKeeps
<1>10. CASE LoseTransaction
    BY <1>10, LoseTransactionKeeps
<1> QED BY <1>1, <1>2, <1>3, <1>4, <1>5, <1>6, <1>7, <1>8, <1>9, <1>10 DEF EventStep

(* An event call is none of the calls about routes. *)
LEMMA EventCallsAreNoRouteCalls ==
    ASSUME EInv, RInv, NEW c \in Clients, NEW q, call' = [call EXCEPT ![c] = q],
           q.op \in {"none", "discard", "restore", "replay"}, UNCHANGED catalog
    PROVE  RInv'
<1>1. RouteCallOK(q) /\ q.op # "add"
    BY DEF RouteCallOK
<1>2. RouteCallsHold'
    BY <1>1, RouteCallMoves DEF catalog, EInv, EventCallsHold
<1> QED BY <1>2, RoutesUntouched DEF RInv

LEMMA EventStepKeepsRoutes ==
    ASSUME EInv, RInv, EventStep
    PROVE  /\ RInv' /\ VersionsGrow
           /\ raw' = raw \/ \E e \in Events : raw' = Append(raw, e)
           /\ UNCHANGED <<attempts, catalog, handling>>
<1>1. UNCHANGED <<catalog, handling>>
    BY DEF EventStep
<1>2. VersionsGrow
    BY <1>1, RoutesUntouched
<1>3. ASSUME call' = call PROVE RInv'
    BY <1>1, <1>3 DEF RInv, RoutesHold, RouteCallsHold, RouteCallOK, Exists, catalog
<1>4. ASSUME NEW c \in Clients, Answer(c) PROVE RInv'
    <2>1. Idle.op = "none"
        BY DEF Idle
    <2> QED BY <1>1, <1>4, <2>1, EventCallsAreNoRouteCalls DEF Answer
<1>5. ASSUME NEW c \in Clients, NEW e \in Events, BeginEventCall(c, e)
      PROVE  RInv' /\ raw' = raw /\ attempts' = attempts
    <2>1. PICK q : Begin(c, q) /\ q.op \in {"discard", "restore", "replay"}
        BY <1>5 DEF BeginEventCall
    <2>2. RInv'
        BY <1>1, <2>1, EventCallsAreNoRouteCalls DEF Begin
    <2> QED BY <1>5, <2>2 DEF BeginEventCall
<1>6. ASSUME NEW c \in Clients, call[c].op = "replay" PROVE call[c].event \in Events
    BY <1>6 DEF EInv, EventCallsHold, EventCallOK
<1>7. CASE \E c \in Clients : \E e \in Events : BeginEventCall(c, e)
    BY <1>1, <1>2, <1>5, <1>7
<1>8. CASE \E c \in Clients : CommitEventCall(c)
    BY <1>1, <1>2, <1>4, <1>8 DEF CommitEventCall
<1>9. CASE \E c \in Clients : Replay(c)
    BY <1>1, <1>2, <1>4, <1>6, <1>9 DEF Replay
<1>10. CASE \E c \in Clients : ReplayFails(c)
    BY <1>1, <1>2, <1>4, <1>6, <1>10 DEF ReplayFails
<1>11. CASE StartScheduler \/ \E S \in SUBSET Events : Pick(S)
    BY <1>1, <1>2, <1>3, <1>11 DEF StartScheduler, Pick
<1>12. CASE \E e \in Events : Send(e)
    BY <1>1, <1>2, <1>3, <1>12 DEF Send
<1>13. CASE \E e \in Events : ComesDue(e) \/ MarkFailed(e)
    BY <1>1, <1>2, <1>3, <1>13 DEF ComesDue, MarkFailed
<1>14. CASE CommitRequeues \/ LoseTransaction
    BY <1>1, <1>2, <1>3, <1>14 DEF CommitRequeues, LoseTransaction
<1> QED BY <1>7, <1>8, <1>9, <1>10, <1>11, <1>12, <1>13, <1>14 DEF EventStep

(* They write only rows that are there. *)
LEMMA EventStepStoresNone ==
    ASSUME EInv, EventStep, NEW e \in Events, Stored(e)'
    PROVE  \E f \in Events : Stored(f)
<1>1. CASE event' = event
    BY <1>1 DEF Stored
<1>2. CASE event' # event
    <2>1. CASE \E c \in Clients : CommitEventCall(c)
        BY <2>1 DEF CommitEventCall, EInv, EventCallsHold, EventCallOK
    <2>2. CASE CommitRequeues
        <3>1. \A f \in Events : f \notin picked => event'[f] = event[f]
            BY <2>2 DEF CommitRequeues, EInv, EventsTypeOK
        <3>2. \A f \in picked : f \in Events /\ Stored(f)
            BY DEF EInv, PickedAreDue, EventsTypeOK
        <3>3. CASE e \in picked
            BY <3>2, <3>3
        <3>4. CASE e \notin picked
            BY <3>1, <3>4 DEF Stored
        <3> QED BY <3>3, <3>4
    <2>3. CASE \E f \in Events : ComesDue(f) \/ MarkFailed(f)
        BY <2>3 DEF ComesDue, MarkFailed
    <2> QED BY <1>2, <2>1, <2>2, <2>3 DEF EventStep, BeginEventCall, Replay, ReplayFails,
                StartScheduler, Pick, Send, LoseTransaction
<1> QED BY <1>1, <1>2

LEMMA ApiStepKeeps ==
    ASSUME EInv, RInv, NEW c \in Clients, ApiStep(c)
    PROVE  /\ EInv' /\ RInv' /\ StoredStay /\ VersionsGrow
           /\ AttemptsHold /\ HistoryAnchored => HistoryAnchored'
           /\ UNCHANGED <<raw, attempts, handling>>
<1>1. ASSUME OnlyCall
      PROVE  /\ HistoryAnchored => HistoryAnchored'
             /\ UNCHANGED <<raw, attempts, handling>>
    BY <1>1 DEF OnlyCall, HistoryAnchored, Stored, Exists, catalog
<1>2. ASSUME NEW r \in Routes, NEW u \in Urls, NEW p \in Pipelines, NEW f \in Filters,
             BeginAddRoute(c, r, [url |-> u, pipeline |-> p, filter |-> f, active |-> TRUE])
      PROVE  EInv' /\ RInv' /\ StoredStay /\ VersionsGrow /\ OnlyCall
    <2> DEFINE s == [url |-> u, pipeline |-> p, filter |-> f, active |-> TRUE]
    <2>1. s \in Settings
        BY DEF Settings
    <2> HIDE DEF s
    <2> DEFINE q == [op |-> "add", route |-> r, settings |-> s]
    <2>2. /\ versions[r] = {} /\ \A d \in Clients : call[d].op = "add" => call[d].route # r
          /\ AcceptsSettings(s) /\ Begin(c, q) /\ OnlyCall
        BY <1>2 DEF BeginAddRoute, s
    <2>3. EventCallOK(q) /\ RouteCallOK(q) /\ q.route = r
        BY <2>1, <2>2 DEF EventCallOK, RouteCallOK
    <2> HIDE DEF q
    <2> QED BY <2>2, <2>3, ApiCallBegins
<1>3. ASSUME NEW r \in Routes, NEW body \in Updates, BeginUpdateRoute(c, r, body)
      PROVE  EInv' /\ RInv' /\ StoredStay /\ VersionsGrow /\ OnlyCall
    <2> DEFINE q == [op |-> "update", route |-> r, body |-> body, seen |-> route[r]]
    <2>1. AcceptsUpdate(body) /\ Begin(c, q) /\ OnlyCall
        BY <1>3 DEF BeginUpdateRoute
    <2>2. EventCallOK(q) /\ RouteCallOK(q) /\ q.op # "add"
        BY <2>1 DEF EventCallOK, RouteCallOK
    <2> HIDE DEF q
    <2> QED BY <2>1, <2>2, ApiCallBegins
<1>4. ASSUME NEW r \in Routes, BeginDeleteRoute(c, r)
      PROVE  EInv' /\ RInv' /\ StoredStay /\ VersionsGrow /\ OnlyCall
    <2> DEFINE q == [op |-> "delete route", route |-> r]
    <2>1. Begin(c, q) /\ OnlyCall
        BY <1>4 DEF BeginDeleteRoute
    <2>2. EventCallOK(q) /\ RouteCallOK(q) /\ q.op # "add"
        BY DEF EventCallOK, RouteCallOK
    <2> HIDE DEF q
    <2> QED BY <2>1, <2>2, ApiCallBegins
<1>5. ASSUME NEW op \in {"delete", "activate", "deactivate"}, BeginEndpointCall(c, op)
      PROVE  EInv' /\ RInv' /\ StoredStay /\ VersionsGrow /\ OnlyCall
    <2> DEFINE q == [op |-> op, seen |-> endpoint]
    <2>1. Begin(c, q) /\ OnlyCall
        BY <1>5 DEF BeginEndpointCall
    <2>2. EventCallOK(q) /\ RouteCallOK(q) /\ q.op # "add"
        BY DEF EventCallOK, RouteCallOK
    <2> HIDE DEF q
    <2> QED BY <2>1, <2>2, ApiCallBegins
<1>6. CASE CommitCall(c)
    <2>1. UNCHANGED <<raw, attempts, handling>>
        BY <1>6 DEF CommitCall
    <2> QED BY <1>6, <2>1, CommitCallKeepsEvents, CommitCallKeepsRoutes
<1> QED BY <1>1, <1>2, <1>3, <1>4, <1>5, <1>6 DEF ApiStep

-----------------------------------------------------------------------------
(* The event in hand, and the deliveries under way, are of stored events,    *)
(* and carry settings that the route has had.                                *)
Job(e, T, settings) == [event |-> e, todo |-> T, settings |-> settings]

JobHolds ==
    job = NoJob \/
        \E e \in Events, T \in SUBSET Routes, R \in SUBSET Routes :
            \E settings \in [R -> Settings] :
                /\ job = Job(e, T, settings) /\ Stored(e)
                /\ T # {} /\ T \subseteq R
                /\ \A r \in R : settings[r] \in versions[r]

MadeWith(d, e, r, s) ==
    \E round, n \in Nat : \E body :
        d = [event |-> e, route |-> r, round |-> round, url |-> s.url,
             pipeline |-> s.pipeline, body |-> body, number |-> n]

FlightsHold ==
    \A d \in flights : \E e \in Events, r \in Routes : \E s \in versions[r] :
        Stored(e) /\ MadeWith(d, e, r, s)

Reached == taken \in 0..Len(raw)

HInv == Reached /\ JobHolds /\ FlightsHold /\ AttemptsHold /\ HistoryAnchored

(* The inductive invariant of Catalog. *)
CInv == EInv /\ RInv /\ HInv

LEMMA JobStays == ASSUME JobHolds, StoredStay, VersionsGrow, job' = job PROVE JobHolds'
<1>1. CASE job = NoJob
    BY <1>1 DEF JobHolds
<1>2. CASE job # NoJob
    <2>1. PICK e \in Events, T \in SUBSET Routes, R \in SUBSET Routes :
            \E settings \in [R -> Settings] :
                /\ job = Job(e, T, settings) /\ Stored(e)
                /\ T # {} /\ T \subseteq R
                /\ \A r \in R : settings[r] \in versions[r]
        BY <1>2 DEF JobHolds
    <2>2. PICK settings \in [R -> Settings] :
                /\ job = Job(e, T, settings) /\ Stored(e)
                /\ T # {} /\ T \subseteq R
                /\ \A r \in R : settings[r] \in versions[r]
        BY <2>1
    <2>3. job' = Job(e, T, settings) /\ Stored(e)' /\ \A r \in R : settings[r] \in versions'[r]
        BY <2>2 DEF StoredStay, VersionsGrow
    <2> QED BY <2>2, <2>3 DEF JobHolds
<1> QED BY <1>1, <1>2

LEMMA FlightsStay ==
    ASSUME FlightsHold, StoredStay, VersionsGrow, flights' = flights PROVE FlightsHold'
<1> SUFFICES ASSUME NEW d \in flights
             PROVE  \E e \in Events, r \in Routes : \E s \in versions'[r] :
                        Stored(e)' /\ MadeWith(d, e, r, s)
    BY DEF FlightsHold
<1> QED BY DEF FlightsHold, StoredStay, VersionsGrow

LEMMA AttemptsStay ==
    ASSUME AttemptsHold, attempts' = attempts PROVE AttemptsHold'
BY DEF AttemptsHold

(* The API and the retry scheduler only add to the topic. *)
LEMMA ReachedStays ==
    ASSUME raw \in Seq(Events), Reached, taken' = taken,
           raw' = raw \/ \E e \in Events : raw' = Append(raw, e)
    PROVE  Reached'
<1>1. Len(raw) \in Nat /\ Len(raw') \in {Len(raw), Len(raw) + 1}
    OBVIOUS
<1> QED BY <1>1 DEF Reached

(* Steps that touch none of the tables. *)
LEMMA TablesUntouched ==
    ASSUME EInv, RInv,
           UNCHANGED <<event, raw, call, scheduling, history, eventBounds, catalog>>
    PROVE  EInv' /\ RInv' /\ StoredStay /\ VersionsGrow
<1>1. /\ StoredStay /\ RawStored' /\ PickedAreDue' /\ AtRest' /\ DiscardStamped'
      /\ CopiesExplained'
    BY TablesKept DEF eventBounds
<1>2. EventsTypeOK'
    BY DEF EInv, EventsTypeOK, scheduling, history, eventBounds
<1>3. EventCallsHold'
    BY <1>1, CallsStay DEF EInv
<1>4. RouteCallsHold'
    BY DEF RInv, RouteCallsHold, RouteCallOK, catalog
<1> QED BY <1>1, <1>2, <1>3, <1>4, RoutesUntouched DEF EInv, RInv

-----------------------------------------------------------------------------
LEMMA CatalogInitHolds == ASSUME CatalogInit PROVE CInv
<1>1. /\ event = [e \in Events |-> NoEvent] /\ attempts = {} /\ raw = <<>>
      /\ call = [c \in Clients |-> Idle] /\ scheduler = "down" /\ producer = FALSE
      /\ picked = {} /\ todo = {} /\ sent = {}
      /\ replays = [e \in Events |-> 0] /\ requeues = [e \in Events |-> 0]
      /\ calls = 0 /\ marks = 0 /\ lapses = 0
    BY DEF CatalogInit, EventsInit
<1>2. \A e \in Events : ~Stored(e)
    BY <1>1 DEF Stored
<1>3. EventsTypeOK
    <2>1. event \in [Events -> Rows \cup {NoEvent}] /\ raw \in Seq(Events)
        BY <1>1
    <2>2. replays \in [Events -> Nat] /\ requeues \in [Events -> Nat]
        BY <1>1
    <2>3. calls + marks + lapses <= MaxActs /\ calls \in Nat /\ marks \in Nat /\ lapses \in Nat
        <3>1. calls = 0 /\ marks = 0 /\ lapses = 0
            BY <1>1
        <3> QED BY <3>1, ActsAssumption
    <2>4. /\ scheduler \in {"down", "idle", "sending"} /\ producer \in BOOLEAN
          /\ picked = {} /\ todo = {} /\ sent = {}
        BY <1>1
    <2> QED BY <2>1, <2>2, <2>3, <2>4 DEF EventsTypeOK
<1>4. EventCallsHold
    BY <1>1 DEF EventCallsHold, EventCallOK, Idle
<1>5. RawStored /\ PickedAreDue /\ AtRest /\ DiscardStamped
    BY <1>1, <1>2 DEF RawStored, PickedAreDue, AtRest, DiscardStamped
<1>6. CopiesExplained
    <2>1. ASSUME NEW e \in Events PROVE Copies(e) = 0
        <3>1. {i \in DOMAIN raw : raw[i] = e} = {}
            BY <1>1
        <3> QED BY <3>1, FS_EmptySet DEF Copies
    <2> QED BY <1>1, <1>2, <2>1 DEF CopiesExplained
<1>7. RoutesHold
    <2>1. \A r \in Routes : route[r] \in {s \in Initial : AcceptsSettings(s)} \cup {NoRoute}
        BY DEF CatalogInit
    <2>2. route \in [Routes -> Settings \cup {NoRoute}]
        BY SettingsAssumption DEF CatalogInit
    <2>3. versions \in [Routes -> SUBSET Settings]
        BY <2>1, SettingsAssumption DEF CatalogInit
    <2>4. \A r \in Routes : Exists(r) => route[r] \in versions[r] /\ AcceptsSettings(route[r])
        BY <2>1 DEF CatalogInit, Exists
    <2> QED BY <2>2, <2>3, <2>4 DEF RoutesHold, CatalogInit
<1>8. RouteCallsHold
    BY <1>1 DEF RouteCallsHold, RouteCallOK, Idle
<1>9. HInv
    BY <1>1, <1>2 DEF CatalogInit, HInv, Reached, JobHolds, FlightsHold, AttemptsHold,
        HistoryAnchored
<1> QED BY <1>3, <1>4, <1>5, <1>6, <1>7, <1>8, <1>9 DEF CInv, EInv, RInv

(* The gateway takes an event only for an endpoint that is there. *)
LEMMA IngestKeeps == ASSUME CInv, NEW e \in Events, Ingest(e) PROVE CInv'
<1>1. /\ endpoint = "active" /\ Store(e) /\ UNCHANGED <<catalog, handling>>
    BY DEF Ingest
<1>2. EInv' /\ StoredStay
    BY <1>1, StoreKeeps DEF CInv
<1>3. RInv' /\ VersionsGrow
    <2>1. call' = call
        BY <1>1 DEF Store
    <2>2. RouteCallsHold'
        BY <1>1, <2>1 DEF CInv, RInv, RouteCallsHold, RouteCallOK, catalog
    <2> QED BY <1>1, <2>2, RoutesUntouched DEF CInv, RInv
<1>4. raw' = Append(raw, e) /\ attempts' = attempts
    BY <1>1 DEF Store
<1>5. Reached'
    BY <1>1, <1>4, ReachedStays DEF CInv, HInv, EInv, EventsTypeOK, handling
<1>6. HistoryAnchored'
    BY <1>1, <1>2, <1>4 DEF CInv, HInv, HistoryAnchored, AttemptsHold, StoredStay, Exists, catalog
<1> QED BY <1>1, <1>2, <1>3, <1>4, <1>5, <1>6, JobStays, FlightsStay, AttemptsStay
        DEF CInv, HInv, handling

(* The transform worker reads the active routes as they are.                 *)
LEMMA TakeKeeps == ASSUME CInv, Take PROVE CInv'
<1> DEFINE active == {r \in Routes : Exists(r) /\ route[r].active}
<1>1. /\ taken < Len(raw) /\ taken' = taken + 1
      /\ job' = IF active = {} THEN NoJob
                ELSE Job(raw[taken + 1], active, [r \in active |-> route[r]])
      /\ UNCHANGED <<eventVars, catalog, flights>>
    BY DEF Take, Job
<1>2. EInv' /\ RInv' /\ StoredStay /\ VersionsGrow
    BY <1>1, TablesUntouched DEF CInv, eventVars
<1>3. raw \in Seq(Events) /\ raw' = raw /\ attempts' = attempts
    BY <1>1 DEF CInv, EInv, EventsTypeOK, eventVars
<1>4. taken + 1 \in 1..Len(raw) /\ Reached'
    BY <1>1, <1>3 DEF CInv, HInv, Reached
<1>5. JobHolds'
    <2>1. CASE active = {}
        BY <1>1, <2>1 DEF JobHolds
    <2>2. CASE active # {}
        <3>1. raw[taken + 1] \in Events /\ Stored(raw[taken + 1])
            BY <1>3, <1>4 DEF CInv, EInv, RawStored
        <3>2. PICK e \in Events : e = raw[taken + 1] /\ Stored(e)'
            BY <1>2, <3>1 DEF StoredStay
        <3> DEFINE settings == [r \in active |-> route[r]]
        <3>3. /\ settings \in [active -> Settings]
              /\ \A r \in active : settings[r] \in versions[r]
            BY DEF CInv, RInv, RoutesHold, Exists
        <3>4. active \in SUBSET Routes /\ job' = Job(e, active, settings)
            BY <1>1, <2>2, <3>2
        <3> HIDE DEF settings, active
        <3>5. \A r \in active : settings[r] \in versions'[r]
            BY <1>2, <3>3, <3>4 DEF VersionsGrow
        <3> QED BY <2>2, <3>2, <3>3, <3>4, <3>5 DEF JobHolds
    <2> QED BY <2>1, <2>2
<1>6. HistoryAnchored'
    BY <1>1, <1>3 DEF CInv, HInv, HistoryAnchored, Stored, Exists, catalog, eventVars
<1>7. flights' = flights
    BY <1>1
<1> QED BY <1>2, <1>3, <1>4, <1>5, <1>6, <1>7, FlightsStay, AttemptsStay DEF CInv, HInv

(* The message is made from the settings that were read. *)
LEMMA DispatchKeeps == ASSUME CInv, NEW r \in Routes, Dispatch(r) PROVE CInv'
<1>1. /\ job # NoJob /\ r \in job.todo
      /\ flights' = flights \/ flights' = flights \cup {Message(r, job.settings[r])}
      /\ job' = IF job.todo = {r} THEN NoJob ELSE [job EXCEPT !.todo = @ \ {r}]
      /\ UNCHANGED <<eventVars, catalog, taken>>
    BY DEF Dispatch
<1>2. EInv' /\ RInv' /\ StoredStay /\ VersionsGrow
    BY <1>1, TablesUntouched DEF CInv, eventVars
<1>3. raw' = raw /\ attempts' = attempts /\ taken' = taken
    BY <1>1 DEF eventVars
<1>4. PICK e \in Events, T \in SUBSET Routes, R \in SUBSET Routes :
        \E settings \in [R -> Settings] :
            /\ job = Job(e, T, settings) /\ Stored(e)
            /\ T # {} /\ T \subseteq R
            /\ \A x \in R : settings[x] \in versions[x]
    BY <1>1 DEF CInv, HInv, JobHolds
<1>5. PICK settings \in [R -> Settings] :
            /\ job = Job(e, T, settings) /\ Stored(e)
            /\ T # {} /\ T \subseteq R
            /\ \A x \in R : settings[x] \in versions[x]
    BY <1>4
<1>6. job.event = e /\ job.todo = T /\ job.settings = settings
    BY <1>5 DEF Job
<1>7. Stored(e)' /\ \A x \in R : settings[x] \in versions'[x]
    BY <1>2, <1>5 DEF StoredStay, VersionsGrow
<1>8. JobHolds'
    <2>1. CASE T = {r}
        BY <1>1, <1>6, <2>1 DEF JobHolds
    <2>2. CASE T # {r}
        <3>1. T \ {r} # {} /\ T \ {r} \in SUBSET Routes /\ T \ {r} \subseteq R
            BY <1>1, <1>5, <1>6, <2>2
        <3>2. job' = Job(e, T \ {r}, settings)
            BY <1>1, <1>5, <1>6, <2>2 DEF Job
        <3> QED BY <1>7, <3>1, <3>2 DEF JobHolds
    <2> QED BY <2>1, <2>2
<1>9. FlightsHold'
    <2> DEFINE s == settings[r]
               d == Message(r, s)
    <2>1. r \in R /\ s \in versions'[r] /\ Stored(e)'
        BY <1>1, <1>5, <1>6, <1>7
    <2>2. taken \in Nat /\ 0 \in Nat
        BY DEF CInv, HInv, Reached, EInv, EventsTypeOK
    <2> DEFINE body == ApplyPipeline(s.pipeline, request[e].body).value
    <2>3. d = [event |-> e, route |-> r, round |-> taken, url |-> s.url,
               pipeline |-> s.pipeline, body |-> body, number |-> 0]
        BY <1>6 DEF Message
    <2> HIDE DEF body, d
    <2>4. MadeWith(d, e, r, s)
        BY <2>2, <2>3 DEF MadeWith
    <2>5. flights' \subseteq flights \cup {d}
        BY <1>1, <1>6 DEF d
    <2> HIDE DEF s
    <2>6. ASSUME NEW f \in flights'
          PROVE  \E x \in Events, y \in Routes : \E v \in versions'[y] :
                    Stored(x)' /\ MadeWith(f, x, y, v)
        <3>1. CASE f = d
            BY <2>1, <2>4, <3>1
        <3>2. CASE f # d
            BY <1>2, <2>5, <3>2 DEF CInv, HInv, FlightsHold, StoredStay, VersionsGrow
        <3> QED BY <3>1, <3>2
    <2> QED BY <2>6 DEF FlightsHold
<1>10. Reached'
    BY <1>3 DEF CInv, HInv, Reached
<1>11. HistoryAnchored'
    BY <1>1, <1>3 DEF CInv, HInv, HistoryAnchored, Stored, Exists, catalog, eventVars
<1> QED BY <1>2, <1>3, <1>8, <1>9, <1>10, <1>11, AttemptsStay DEF CInv, HInv

(* An attempt that failed has the number of a delivery, and either it or an  *)
(* earlier one is the last.                                                  *)
LEMMA AttemptKeeps ==
    ASSUME CInv, NEW d \in flights, NEW failed \in BOOLEAN, Attempt(d, failed) PROVE CInv'
<1> DEFINE row == [event |-> d.event, route |-> d.route, round |-> d.round,
                   number |-> d.number, failed |-> failed]
           next == [d EXCEPT !.number = @ + 1]
<1>1. /\ attempts' = IF Exists(d.route) THEN attempts \cup {row} ELSE attempts
      /\ flights' \subseteq flights \cup {next}
      /\ UNCHANGED <<event, raw, call, scheduling, history, eventBounds, catalog, taken, job>>
    BY DEF Attempt
<1>2. EInv' /\ RInv' /\ StoredStay /\ VersionsGrow
    BY <1>1, TablesUntouched DEF CInv
<1>3. PICK e \in Events, r \in Routes : \E s \in versions[r] : Stored(e) /\ MadeWith(d, e, r, s)
    BY DEF CInv, HInv, FlightsHold
<1>4. PICK s \in versions[r] : Stored(e) /\ MadeWith(d, e, r, s)
    BY <1>3
<1>5. PICK round \in Nat, n \in Nat : \E body :
        d = [event |-> e, route |-> r, round |-> round, url |-> s.url,
             pipeline |-> s.pipeline, body |-> body, number |-> n]
    BY <1>4 DEF MadeWith
<1>6. PICK body :
        d = [event |-> e, route |-> r, round |-> round, url |-> s.url,
             pipeline |-> s.pipeline, body |-> body, number |-> n]
    BY <1>5
<1>7. /\ row = [event |-> e, route |-> r, round |-> round, number |-> n, failed |-> failed]
      /\ d.route = r
    BY <1>6
<1>8. MadeWith(next, e, r, s)
    <2>1. next = [event |-> e, route |-> r, round |-> round, url |-> s.url,
                  pipeline |-> s.pipeline, body |-> body, number |-> n + 1]
        BY <1>6
    <2>2. n + 1 \in Nat
        OBVIOUS
    <2> HIDE DEF next
    <2> QED BY <2>1, <2>2 DEF MadeWith
<1>9. row.event = e /\ row.route = r /\ row.number = n /\ row.failed = failed
    BY <1>7
<1> HIDE DEF row, next
<1>10. FlightsHold'
    <2> SUFFICES ASSUME NEW f \in flights'
                 PROVE  \E x \in Events, y \in Routes : \E v \in versions'[y] :
                            Stored(x)' /\ MadeWith(f, x, y, v)
        BY DEF FlightsHold
    <2>1. CASE f = next
        BY <1>2, <1>4, <1>8, <2>1 DEF StoredStay, VersionsGrow
    <2>2. CASE f # next
        BY <1>1, <1>2, <2>2 DEF CInv, HInv, FlightsHold, StoredStay, VersionsGrow
    <2> QED BY <2>1, <2>2
<1>11. AttemptsHold'
    BY <1>1, <1>9 DEF CInv, HInv, AttemptsHold
<1>12. HistoryAnchored'
    <2>1. event' = event /\ route' = route /\ endpoint' = endpoint
        BY <1>1 DEF catalog
    <2> QED BY <1>1, <1>4, <1>7, <1>9, <2>1 DEF CInv, HInv, HistoryAnchored, Stored, Exists
<1>13. Reached' /\ JobHolds'
    BY <1>1, <1>2, JobStays DEF CInv, HInv, Reached
<1> QED BY <1>2, <1>10, <1>11, <1>12, <1>13 DEF CInv, HInv

LEMMA CatalogStepKeeps == ASSUME CInv, [Next]_catalogVars PROVE CInv'
<1>1. CASE \E c \in Clients : ApiStep(c)
    <2>1. /\ EInv' /\ RInv' /\ StoredStay /\ VersionsGrow /\ HistoryAnchored'
          /\ UNCHANGED <<raw, attempts, handling>>
        BY <1>1, ApiStepKeeps DEF CInv, HInv
    <2>2. Reached'
        BY <2>1 DEF CInv, HInv, Reached, handling
    <2> QED BY <2>1, <2>2, JobStays, FlightsStay, AttemptsStay DEF CInv, HInv, handling
<1>2. CASE EventStep
    <2>1. EInv' /\ StoredStay
        BY <1>2, EventStepKeepsEvents DEF CInv
    <2>2. /\ RInv' /\ VersionsGrow
          /\ raw' = raw \/ \E e \in Events : raw' = Append(raw, e)
          /\ UNCHANGED <<attempts, catalog, handling>>
        BY <1>2, EventStepKeepsRoutes DEF CInv
    <2>3. Reached'
        BY <2>2, ReachedStays DEF CInv, HInv, EInv, EventsTypeOK, handling
    <2>4. HistoryAnchored'
        <3>1. \A a \in attempts' : Stored(a.event)' /\ Exists(a.route)'
            BY <2>1, <2>2 DEF CInv, HInv, HistoryAnchored, AttemptsHold, StoredStay, Exists, catalog
        <3>2. ASSUME NEW e \in Events, Stored(e)' PROVE endpoint' # "deleted"
            BY <1>2, <2>2, <3>2, EventStepStoresNone DEF CInv, HInv, HistoryAnchored, catalog
        <3> QED BY <3>1, <3>2 DEF HistoryAnchored
    <2> QED BY <2>1, <2>2, <2>3, <2>4, JobStays, FlightsStay, AttemptsStay DEF CInv, HInv, handling
<1>3. CASE \E e \in Events : Ingest(e)
    BY <1>3, IngestKeeps
<1>4. CASE Take
    BY <1>4, TakeKeeps
<1>5. CASE \E r \in Routes : Dispatch(r)
    BY <1>5, DispatchKeeps
<1>6. CASE \E d \in flights, failed \in BOOLEAN : Attempt(d, failed)
    BY <1>6, AttemptKeeps
<1>7. CASE UNCHANGED catalogVars
    <2>1. UNCHANGED <<event, raw, call, scheduling, history, eventBounds, catalog, attempts, handling>>
        BY <1>7 DEF catalogVars, eventVars
    <2>2. EInv' /\ RInv' /\ StoredStay /\ VersionsGrow
        BY <2>1, TablesUntouched DEF CInv
    <2>3. HistoryAnchored' /\ Reached'
        BY <2>1 DEF CInv, HInv, HistoryAnchored, Stored, Exists, Reached, catalog, handling
    <2> QED BY <2>1, <2>2, <2>3, JobStays, FlightsStay, AttemptsStay DEF CInv, HInv, handling
<1> QED BY <1>1, <1>2, <1>3, <1>4, <1>5, <1>6, <1>7 DEF Next

(* The invariant holds in every behaviour of the endpoint's API, its events, *)
(* the transform worker and the deliveries.                                  *)
THEOREM CatalogInvariant == Spec => []CInv
<1>1. CatalogInit => CInv
    BY CatalogInitHolds
<1>2. CInv /\ [Next]_catalogVars => CInv'
    BY CatalogStepKeeps
<1> QED BY <1>1, <1>2, PTL DEF Spec

-----------------------------------------------------------------------------
(* Every variable of Catalog and of Events holds what it is declared to      *)
(* hold, whatever calls overlap: the rows, the topic, the locks of the retry *)
(* scheduler, the event in hand and the deliveries under way.                *)
THEOREM CatalogTypeCorrect == Spec => []CatalogTypeOK
<1>1. ASSUME CInv PROVE CatalogTypeOK
    <2>1. ASSUME job # NoJob
          PROVE  job.todo # {} /\ job.event \in Events /\ DOMAIN job.settings \subseteq Routes
        <3>1. PICK e \in Events, T \in SUBSET Routes, R \in SUBSET Routes :
                \E settings \in [R -> Settings] : job = Job(e, T, settings) /\ T # {}
            BY <1>1, <2>1 DEF CInv, HInv, JobHolds
        <3>2. PICK settings \in [R -> Settings] : job = Job(e, T, settings) /\ T # {}
            BY <3>1
        <3>3. job.todo = T /\ job.event = e /\ job.settings = settings
            BY <3>2 DEF Job
        <3> QED BY <3>2, <3>3
    <2>2. \A d \in flights : d.event \in Events /\ d.route \in Routes /\ d.number \in Nat
        <3> SUFFICES ASSUME NEW d \in flights
                     PROVE  d.event \in Events /\ d.route \in Routes /\ d.number \in Nat
            OBVIOUS
        <3>1. PICK e \in Events, r \in Routes : \E s \in versions[r] : MadeWith(d, e, r, s)
            BY <1>1 DEF CInv, HInv, FlightsHold
        <3> QED BY <3>1 DEF MadeWith
    <2> QED BY <1>1, <2>1, <2>2 DEF CInv, EInv, RInv, HInv, RoutesHold, Reached, CatalogTypeOK
<1> QED BY <1>1, CatalogInvariant, PTL

(* discarded_at goes with is_discarded: a restore that read the row before a *)
(* discard was committed clears both columns or neither.                     *)
THEOREM DiscardsStamped == Spec => []DiscardStamped
<1>1. CInv => DiscardStamped
    BY DEF CInv, EInv
<1> QED BY <1>1, CatalogInvariant, PTL

(* The row locks of the retry scheduler: what it is sending stays failed and *)
(* is not discarded until its transaction ends.                              *)
THEOREM PickedRowsStay == Spec => []PickedRowsHold
<1>1. CInv => PickedRowsHold
    BY DEF CInv, EInv, PickedAreDue, PickedRowsHold
<1> QED BY <1>1, CatalogInvariant, PTL

(* Messages in raw-events: one for each ingestion, replay and committed      *)
(* re-queuing, and one more at most for each lost transaction or             *)
(* acknowledgement, and for the row the scheduler has just sent.             *)
THEOREM CopiesAreAccounted == Spec => []CopiesAccounted
<1>1. ASSUME CInv PROVE CopiesAccounted
    <2> SUFFICES ASSUME NEW e \in Events, Stored(e)
                 PROVE  /\ Copies(e) >= 1 + replays[e] + requeues[e]
                        /\ Copies(e) <= 1 + replays[e] + requeues[e] + lapses
                                            + (IF e \in sent THEN 1 ELSE 0)
        BY DEF CopiesAccounted
    <2>1. /\ Copies(e) >= 1 + replays[e] + requeues[e] + InHand(e)
          /\ Copies(e) <= 1 + replays[e] + requeues[e] + lapses + InHand(e)
        BY <1>1 DEF CInv, EInv, CopiesExplained
    <2>2. /\ Copies(e) \in Nat /\ replays[e] \in Nat /\ requeues[e] \in Nat /\ lapses \in Nat
          /\ InHand(e) \in {0, 1} /\ InHand(e) = (IF e \in sent THEN 1 ELSE 0)
        BY <1>1, CopiesCounted DEF CInv, EInv, EventsTypeOK, InHand
    <2> QED BY <2>1, <2>2
<1> QED BY <1>1, CatalogInvariant, PTL

(* A stored route has settings that the API accepts, whichever updates of it *)
(* overlapped, and its pipeline, however long, can fail on an event only     *)
(* inside the JMESPath library or at a division that it contains.            *)
THEOREM StoredSettingsAreSound == Spec => []StoredSettingsSound
<1>1. ASSUME CInv PROVE StoredSettingsSound
    <2> SUFFICES ASSUME NEW r \in Routes, Exists(r)
                 PROVE  /\ AcceptsSettings(route[r])
                        /\ \A q \in Requests :
                                ApplyPipeline(route[r].pipeline, q.body).error
                                    \in EventErrors(route[r].pipeline)
        BY DEF StoredSettingsSound
    <2>1. route[r] \in Settings /\ AcceptsSettings(route[r])
        BY <1>1 DEF CInv, RInv, RoutesHold, Exists
    <2>2. route[r].pipeline \in Pipelines /\ AcceptsPipeline(route[r].pipeline)
        BY <2>1 DEF Settings, AcceptsSettings
    <2> QED BY <2>1, <2>2, AcceptedPipelineRuns
<1> QED BY <1>1, CatalogInvariant, PTL

(* The url and the transformed body of a message come from one reading of    *)
(* the route's row.                                                          *)
THEOREM MessagesOfOneVersion == Spec => []OneVersionPerMessage
<1>1. ASSUME CInv PROVE OneVersionPerMessage
    <2> SUFFICES ASSUME NEW d \in flights
                 PROVE  \E s \in versions[d.route] : s.url = d.url /\ s.pipeline = d.pipeline
        BY DEF OneVersionPerMessage
    <2>1. PICK e \in Events, r \in Routes : \E s \in versions[r] : MadeWith(d, e, r, s)
        BY <1>1 DEF CInv, HInv, FlightsHold
    <2>2. PICK s \in versions[r] : MadeWith(d, e, r, s)
        BY <2>1
    <2>3. d.route = r /\ d.url = s.url /\ d.pipeline = s.pipeline
        BY <2>2 DEF MadeWith
    <2> QED BY <2>2, <2>3
<1> QED BY <1>1, CatalogInvariant, PTL

(* Deletions through the API leave no attempt without its event or its       *)
(* route, and no event without its endpoint.                                 *)
THEOREM HistoryIsAnchored == Spec => []HistoryAnchored
<1>1. CInv => HistoryAnchored
    BY DEF CInv, HInv
<1> QED BY <1>1, CatalogInvariant, PTL

-----------------------------------------------------------------------------
(* A column of route r changes from one state to the next only as the commit *)
(* of an update says.                                                        *)
ByUpdate(r) ==
    \A f \in DOMAIN route[r] : route'[r][f] # route[r][f] =>
        \E c \in Clients :
            /\ call[c].op = "update" /\ call[c].route = r /\ call'[c] = Idle
            /\ f \in DOMAIN call[c].body /\ route'[r][f] = call[c].body[f]

LEMMA ColumnsChangeByUpdate ==
    ASSUME CInv, [Next]_catalogVars, NEW r \in Routes, Exists(r), route'[r] # NoRoute
    PROVE  ByUpdate(r)
<1>1. CASE route'[r] = route[r]
    BY <1>1 DEF ByUpdate
<1>2. ASSUME NEW c \in Clients, CommitCall(c)
      PROVE  ByUpdate(r)
    <2>1. RouteCallOK(call[c]) /\ DOMAIN route = Routes /\ versions[r] # {}
        BY DEF CInv, RInv, RouteCallsHold, RoutesHold, Exists
    <2>2. CASE CommitAddRoute(c)
        <3>1. call[c].op = "add" /\ call[c].route # r
            BY <2>1, <2>2 DEF CommitAddRoute, RouteCallOK
        <3>2. route'[r] = route[r]
            BY <2>1, <2>2, <3>1 DEF CommitAddRoute, Write, Refused, catalog
        <3> QED BY <1>1, <3>2
    <2>3. CASE CommitUpdateRoute(c)
        <3> DEFINE columns == Changed(call[c].body, call[c].seen)
                   x == call[c].route
                   s == Overwritten(route[x], call[c].body, columns)
        <3>1. route' = route \/ route' = [route EXCEPT ![x] = s]
            BY <2>3 DEF CommitUpdateRoute, Write, Refused, catalog
        <3>2. CASE route'[r] # s \/ x # r
            <4>1. route'[r] = route[r]
                BY <2>1, <3>1, <3>2
            <4> QED BY <1>1, <4>1
        <3>3. CASE x = r /\ route'[r] = s
            <4>1. call[c].op = "update" /\ call'[c] = Idle
                BY <1>2, <2>3 DEF CommitUpdateRoute, CommitCall, Answer, CInv, EInv, EventCallsHold
            <4>2. ASSUME NEW f \in DOMAIN route[r], route'[r][f] # route[r][f]
                  PROVE  f \in DOMAIN call[c].body /\ route'[r][f] = call[c].body[f]
                <5>1. s[f] = IF f \in columns THEN call[c].body[f] ELSE route[r][f]
                    BY <3>3 DEF Overwritten
                <5>2. columns \subseteq DOMAIN call[c].body
                    BY DEF Changed
                <5> HIDE DEF s, columns
                <5> QED BY <3>3, <4>2, <5>1, <5>2
            <4> QED BY <3>3, <4>1, <4>2 DEF ByUpdate
        <3> QED BY <3>2, <3>3
    <2>4. CASE CommitDeleteRoute(c) \/ CommitEndpointCall(c)
        <3>1. route' = route \/ \E S : RemoveRows(S)
            BY <2>4 DEF CommitDeleteRoute, CommitEndpointCall, Refused, catalog
        <3>2. route'[r] = route[r]
            BY <3>1 DEF RemoveRows
        <3> QED BY <1>1, <3>2
    <2> QED BY <1>2, <2>2, <2>3, <2>4 DEF CommitCall
<1>3. CASE \E c \in Clients : ApiStep(c)
    <2>1. PICK c \in Clients : ApiStep(c)
        BY <1>3
    <2>2. CASE OnlyCall
        BY <1>1, <2>2 DEF OnlyCall, catalog
    <2>3. CASE CommitCall(c)
        BY <1>2, <2>3
    <2> QED BY <2>1, <2>2, <2>3 DEF ApiStep, BeginAddRoute, BeginUpdateRoute, BeginDeleteRoute,
                BeginEndpointCall
<1>4. CASE EventStep \/ (\E e \in Events : Ingest(e)) \/ Take
                \/ (\E x \in Routes : Dispatch(x))
                \/ (\E d \in flights, failed \in BOOLEAN : Attempt(d, failed))
                \/ UNCHANGED catalogVars
    <2>1. route' = route
        BY <1>4 DEF EventStep, Ingest, Take, Dispatch, Attempt, catalogVars, catalog
    <2> QED BY <1>1, <2>1
<1> QED BY <1>3, <1>4 DEF Next

(* Two updates of a route that overlap: the later commit writes columns it   *)
(* was given and leaves what the earlier one wrote in the others.            *)
THEOREM OtherFieldsAreKept == Spec => OtherFieldsKept
<1>1. CInv /\ [Next]_catalogVars =>
        [\A r \in Routes : Exists(r) /\ route'[r] # NoRoute => ByUpdate(r)]_route
    BY ColumnsChangeByUpdate
<1>2. CInv /\ [Next]_catalogVars =>
        [\A r \in Routes : Exists(r) /\ route'[r] # NoRoute =>
            \A f \in DOMAIN route[r] : route'[r][f] # route[r][f] =>
                \E c \in Clients :
                    /\ call[c].op = "update" /\ call[c].route = r /\ call'[c] = Idle
                    /\ f \in DOMAIN call[c].body /\ route'[r][f] = call[c].body[f]]_route
    BY <1>1 DEF ByUpdate
<1> QED BY <1>2, CatalogInvariant, PTL DEF Spec, OtherFieldsKept

=============================================================================

----------------------------- MODULE LiveRange -----------------------------
(***************************************************************************)
(* The live range of the cyberlab: the simulated engine that derives what  *)
(* is on screen from the wall clock (entities/scenario/liveSim.ts), its    *)
(* two routes, and the page that polls them (widgets/LiveView.tsx).        *)
(* Times are in milliseconds; the clock is read in whole seconds.          *)
(***************************************************************************)
EXTENDS Integers, Sequences, FiniteSetsExt

CONSTANTS
    Studies,      \* the case studies in rotation: [recorded |-> , steps |-> kinds]
    Kept,         \* the length the queue is cut back to
    MaxPolls,     \* bound: polls in flight
    MaxQueued     \* bound: requests to queue a scenario

VARIABLES
    second,       \* the clock, as far as the rotation tells it apart
    showing,      \* what the engine derives from it
    queue,        \* the engine's queue, oldest first
    answers,      \* answers on their way to the page
    asking,       \* a request to queue is on its way: its study, or 0
    reply,        \* the answer to one, on its way back
    page,         \* the page's state: the last answer it was given
    requested     \* bound: requests made

rangeVars == <<second, showing, queue, answers, asking, reply, page, requested>>

----------------------------------------------------------------------------
(* The rotation.                                                           *)

Span(kind) == IF kind = "command" THEN 2400 ELSE 1600
Gap == 6000

Offset(s, k) ==
    LET upTo[j \in 1..k] == IF j = 1 THEN 0 ELSE upTo[j - 1] + Span(Studies[s].steps[j - 1])
    IN  upTo[k]

Duration(s) ==
    IF Studies[s].recorded # 0 THEN Studies[s].recorded
    ELSE Offset(s, Len(Studies[s].steps) + 1)

Opens(s) ==
    LET upTo[r \in 1..s] == IF r = 1 THEN 0 ELSE upTo[r - 1] + Duration(r - 1) + Gap
    IN  upTo[s]

Period == (Opens(Len(Studies) + 1) + 500) \div 1000

Live(sec) ==
    LET pos == sec * 1000
        s == Max({1} \cup {r \in DOMAIN Studies : Opens(r) <= pos})
        elapsed == Min({pos - Opens(s), Duration(s)})
    IN  [study |-> s,
         step |-> Max({1} \cup {k \in DOMAIN Studies[s].steps : elapsed >= Offset(s, k)})]

----------------------------------------------------------------------------
(* The engine's answers and its queue.                                     *)

(* What a route rendered once and cached would answer.                     *)
StateCached(q) == [live |-> Live(0), queue |-> << >>]

State(q) == [live |-> showing, queue |-> q]

Enqueued(s) ==
    LET longer == Append(queue, s)
    IN  IF Len(longer) > Kept THEN Tail(longer) ELSE longer

Ticks ==
    /\ second' = (second + 1) % Period
    /\ showing' = Live(second')
    /\ UNCHANGED <<queue, answers, asking, reply, page, requested>>

(* GET /api/live, every 1.5 s whether or not the last one has answered.    *)
Poll ==
    /\ Cardinality(answers) < MaxPolls
    /\ answers' = answers \cup {State(queue)}
    /\ UNCHANGED <<second, showing, queue, asking, reply, page, requested>>

(* Answers come in any order; one that fails leaves the last state.        *)
Refreshed(a) ==
    /\ answers' = answers \ {a}
    /\ page' = a
    /\ UNCHANGED <<second, showing, queue, asking, reply, requested>>

Missed(a) ==
    /\ answers' = answers \ {a}
    /\ UNCHANGED <<second, showing, queue, asking, reply, page, requested>>

(* POST /api/live/queue: the button waits until it has answered.          *)
Queue(s) ==
    /\ asking = 0 /\ reply = {} /\ requested < MaxQueued
    /\ asking' = s
    /\ requested' = requested + 1
    /\ UNCHANGED <<second, showing, queue, answers, reply, page>>

Enqueue ==
    /\ asking # 0
    /\ queue' = Enqueued(asking)
    /\ reply' = {State(queue')}
    /\ asking' = 0
    /\ UNCHANGED <<second, showing, answers, page, requested>>

(* The answer carries the engine's state, and may be lost.                 *)
Replied ==
    /\ reply # {}
    /\ reply' = {}
    /\ page' \in {page} \cup reply
    /\ UNCHANGED <<second, showing, queue, answers, asking, requested>>

RangeInit ==
    /\ second \in 0..Period - 1 /\ showing = Live(second)
    /\ queue = << >> /\ answers = {} /\ asking = 0 /\ reply = {} /\ requested = 0
    /\ page = State(queue)

RangeNext ==
    \/ Ticks \/ Poll \/ Enqueue \/ Replied
    \/ \E a \in answers : Refreshed(a) \/ Missed(a)
    \/ \E s \in DOMAIN Studies : Queue(s)

----------------------------------------------------------------------------
(* Polls overlap and answers come in any order, and the answer to a        *)
(* request may come after a later poll's: all the same, once visitors stop *)
(* queueing, the page shows the queue the engine holds, for good           *)
(* (LiveView.tsx:58-70, 90-92; live/route.ts:7 "never cache").             *)
FeedCatchesUp == <>[](page.queue = queue)

============================================================================

---------------------------- MODULE DrillCoaching ---------------------------
(***************************************************************************)
(* A practice drill as its page works it: the phases of useDrillState, the *)
(* Academy's teaching flow of useCoaching laid over them, the decisions    *)
(* sent to the run broker, and the assignment page that hosts the          *)
(* workbench and re-reads the account when its drill resolves.             *)
(*                                                                         *)
(* `drill' is the incident on the cluster; everything else is the page's.  *)
(* The same move may be offered in several stages of one drill, under the  *)
(* same id.  A poll is one step; a decision crosses polls and stages.      *)
(***************************************************************************)
EXTENDS Naturals, Sequences, FiniteSets

CONSTANTS
  Options,      \* ids of the moves offered, in every stage
  Wrong,        \* the moves that do not address the cause
  Stages,       \* incidents of one drill, each the consequence of the last
  Signals,      \* the evidence items every incident offers
  Extras,       \* those offered while there is something to read: canary, placement
  MaxAttempts   \* bound: drills started on the cluster

ASSUME CoachingBounds ==
  /\ Wrong \subseteq Options
  /\ Stages \in Nat \ {0} /\ Signals \in Nat \ {0} /\ Extras \in Nat /\ MaxAttempts \in Nat

VARIABLES
  guided,       \* a course assignment, as opposed to the sandbox
  drill,        \* the incident on the cluster
  mount,        \* the workbench: open, about to be replaced, or replaced
  seen,         \* the drill as the page last read it
  book,         \* useDrillState: acknowledgements, the ledger, the pending move
  lesson,       \* useCoaching: what was read, inspected and named
  offered,      \* how many evidence items the last reading of the cluster offers
  call,         \* the request in flight
  faced         \* ghost: what was explained in the seen attempt: <<stage, move>> of
                \* every screen about a move that was dismissed

coachingVars == <<guided, drill, mount, seen, book, lesson, offered, call, faced>>
pageVars == <<mount, seen, book, lesson, offered, faced>>

-----------------------------------------------------------------------------

NoMove == "none"
ASSUME OptionsAreMoves == Options \cap {NoMove, "start", "end"} = {}

Moves == (1..Stages) \X Options
NoDrill == [on |-> FALSE, attempt |-> 0, stage |-> 1, chosen |-> {}, solved |-> FALSE]
Drills == [on: BOOLEAN, attempt: 0..MaxAttempts, stage: 1..Stages,
           chosen: SUBSET Moves, solved: BOOLEAN]

EmptyBook == [acked |-> 0, missteps |-> {}, ledger |-> <<>>, pending |-> NoMove]
\* A hypothesis is told by the incident it was named for; `about' is a ghost, the
\* incident the evidence was read of.
NoIncident == <<0, 0>>
EmptyLesson == [briefed |-> FALSE, inspected |-> 0, done |-> FALSE, picked |-> FALSE,
                named |-> NoIncident, read |-> 0, about |-> NoIncident]
NoCall == NoMove

CoachingTypeOK ==
  /\ guided \in BOOLEAN
  /\ drill \in Drills
  /\ mount \in {"open", "leaving", "checking"}
  /\ seen \in Drills
  /\ book.acked \in 0..Stages /\ book.missteps \subseteq Options
  /\ book.ledger \in Seq([attempt: 1..MaxAttempts, stage: 1..Stages, option: Options])
  /\ book.pending \in Options \cup {NoMove}
  /\ lesson \in [briefed: BOOLEAN, inspected: 0..(Signals + Extras), done: BOOLEAN, picked: BOOLEAN,
                 read: Nat, named: (0..MaxAttempts) \X (0..Stages),
                 about: (0..MaxAttempts) \X (0..Stages)]
  /\ offered \in Signals..(Signals + Extras)
  /\ call \in Options \cup {NoCall, "start", "end"}
  /\ faced \subseteq Moves

-----------------------------------------------------------------------------
(* The phases                                                               *)

ChosenHere(d) == {o \in Options : <<d.stage, o>> \in d.chosen}
WrongHere(d) == ChosenHere(d) \cap Wrong

\* derivePhase: running also stands for holding, which accepts the same moves.
Phase ==
  IF ~seen.on THEN "browsing"
  ELSE IF seen.solved THEN "solved"
  ELSE IF WrongHere(seen) \ book.missteps # {} THEN "misstep"
  ELSE IF seen.stage > 1 /\ book.acked # seen.stage THEN "briefing"
  ELSE "running"

\* Two thirds of the evidence, rounded up.
Satisfied == 3 * lesson.inspected >= 2 * offered

\* The newest decision of the ledger, until its consequence was read.
Unread == book.ledger # <<>> /\ lesson.read # Len(book.ledger)

CoachedUnnamed ==
  IF seen.solved THEN "debrief"
  ELSE IF Phase = "misstep" \/ Unread THEN "consequence"
  ELSE IF ~lesson.briefed THEN "briefing"
  ELSE IF ~lesson.done \/ ~Satisfied THEN "observe"
  ELSE "act"

\* coachingPhase: act also stands for verify, which accepts the same moves.
Coached ==
  IF seen.solved THEN "debrief"
  ELSE IF Phase = "misstep" \/ Unread THEN "consequence"
  ELSE IF ~lesson.briefed THEN "briefing"
  ELSE IF ~lesson.done \/ ~Satisfied THEN "observe"
  ELSE IF lesson.named = NoIncident THEN "hypothesise"
  ELSE "act"

\* What the panel column shows: the assignment card or the drill browser until a
\* drill is on, then the flow of the surface.
Panel == IF mount = "checking" THEN "checking"
         ELSE IF Phase = "browsing" THEN "browsing"
         ELSE IF guided THEN Coached ELSE Phase
OffersMoves == Panel \in {"act", "running"}

-----------------------------------------------------------------------------
(* The debrief                                                              *)

\* buildDebrief, its sentences told apart by what they claim: the story reads
\* forwards, and what addressed the cause is kept from what did not.
WrongSteps == {i \in DOMAIN book.ledger : book.ledger[i].option \in Wrong}
Debrief ==
  [timeline |-> book.ledger,
   clean |-> WrongSteps = {},
   unnecessary |-> {book.ledger[i] : i \in WrongSteps},
   causalChain |->
     (IF WrongSteps # DOMAIN book.ledger THEN {"addressed the cause"} ELSE {})
       \cup (IF WrongSteps # {} THEN {"did not address it"} ELSE {})
       \cup (IF lesson.named = NoIncident THEN {}
             ELSE IF WrongSteps = {} THEN {"held up"} ELSE {"corrected"}),
   keyLesson |->
     CASE WrongSteps # {} -> "a wrong action is real"
       [] WrongSteps = {} /\ lesson.inspected >= 6 -> "read before acting"
       [] WrongSteps = {} /\ lesson.inspected < 6 /\ lesson.named # NoIncident -> "named the fault"
       [] OTHER -> "recovery is observed"]

-----------------------------------------------------------------------------
(* What a new reading of the cluster does to the page, effects included     *)

\* Keyed by the cluster and the drill's id: the ledger outlives a stage.
SameDrill(d) == d.on = seen.on
BookKeepsMissteps(d) ==
  IF SameDrill(d) THEN book ELSE [EmptyBook EXCEPT !.missteps = book.missteps]
BookOf(d) == IF SameDrill(d) THEN book ELSE EmptyBook

\* Keyed by the stage too.
SameIncidentAnyStage(d) == SameDrill(d)
SameIncident(d) == SameDrill(d) /\ d.stage = seen.stage
LessonOf(d) == IF SameIncident(d) THEN lesson ELSE EmptyLesson

\* A decision enters the ledger once the run carries its answer.
EnteredAgain(b, d) ==
  IF b.pending # NoMove /\ b.pending \in ChosenHere(d)
  THEN [b EXCEPT !.ledger = Append(@, [attempt |-> d.attempt, stage |-> d.stage,
                                       option |-> b.pending])]
  ELSE b
Entered(b, d) ==
  IF b.pending # NoMove /\ b.pending \in ChosenHere(d)
  THEN [b EXCEPT !.pending = NoMove,
                 !.ledger = Append(@, [attempt |-> d.attempt, stage |-> d.stage,
                                       option |-> b.pending])]
  ELSE b

\* evidenceFor: the whole instrument panel, and what else there is to read now.
EvidenceFor(d) == IF d.on THEN Signals..(Signals + Extras) ELSE {Signals}

Take(d) ==
  /\ seen' = d
  /\ offered' \in EvidenceFor(d)
  /\ book' = Entered(BookOf(d), d)
  /\ lesson' = LessonOf(d)
  /\ faced' = IF d.attempt = seen.attempt THEN faced ELSE {}

Snapshot ==
  /\ mount # "checking"
  /\ Take(IF drill.on THEN drill ELSE NoDrill)
  /\ UNCHANGED <<guided, drill, mount, call>>

-----------------------------------------------------------------------------
(* The cluster                                                              *)

Begun == [NoDrill EXCEPT !.on = TRUE, !.attempt = drill.attempt + 1]
Over == [NoDrill EXCEPT !.attempt = drill.attempt]

\* The judge finds the objective held: the next stage opens, or the drill is solved.
StageResolved ==
  /\ drill.on /\ ~drill.solved
  /\ drill' = IF drill.stage < Stages THEN [drill EXCEPT !.stage = @ + 1]
                                      ELSE [drill EXCEPT !.solved = TRUE]
  /\ UNCHANGED <<guided, call, pageVars>>

\* A drill starts on a cluster the page has seen idle: one that ends and starts
\* again between two polls is left out, nothing in the run view would tell.
CanBegin == ~drill.on /\ ~seen.on /\ drill.attempt < MaxAttempts

\* Another tab of the operator ends the drill, or starts one.
OtherTab ==
  /\ \/ drill.on /\ drill' = Over
     \/ CanBegin /\ drill' = Begun
  /\ UNCHANGED <<guided, call, pageVars>>

\* A decision belongs to the stage that runs when it is served, which need not be
\* the one it was chosen in.
Serves(what) ==
  CASE what = "start" -> CanBegin /\ drill' = Begun
    [] what = "end" -> drill' = IF drill.on THEN Over ELSE drill
    [] OTHER -> /\ drill.on /\ ~drill.solved
                /\ drill' = [drill EXCEPT !.chosen = @ \cup {<<drill.stage, what>>}]

\* The page shows the run the answer carries; a request that fails shows nothing,
\* whether or not the cluster carries it out.
Serve ==
  /\ call # NoCall
  /\ \/ Serves(call) /\ mount # "checking" /\ Take(IF drill'.on THEN drill' ELSE NoDrill)
     \/ Serves(call) /\ UNCHANGED <<seen, book, lesson, offered, faced>>
     \/ UNCHANGED <<drill, seen, book, lesson, offered, faced>>
  /\ call' = NoCall
  /\ UNCHANGED <<guided, mount>>

-----------------------------------------------------------------------------
(* The operator's requests                                                  *)

Send(what) ==
  /\ call = NoCall
  /\ call' = what

\* onChoose: remember the move and the run before it, then act.
ChooseMove(o) ==
  /\ OffersMoves /\ o \notin ChosenHere(seen)
  /\ Send(o)
  /\ book' = [book EXCEPT !.pending = o]
  /\ UNCHANGED <<guided, drill, mount, seen, lesson, offered, faced>>

ClickStart ==
  /\ Panel = "browsing" /\ Send("start")
  /\ UNCHANGED <<guided, drill, pageVars>>

ClickEnd ==
  /\ Panel \in {"act", "running", "debrief", "solved"} /\ Send("end")
  /\ UNCHANGED <<guided, drill, pageVars>>

-----------------------------------------------------------------------------
(* The learner                                                              *)

\* The misstep and the handoff screens of the sandbox, and the end of reading a
\* consequence: everything wrong in this stage so far is acknowledged.
Acknowledged == [book EXCEPT !.acked = seen.stage, !.missteps = @ \cup WrongHere(seen)]

\* The move such a screen is about: a wrong one not acknowledged yet, the first of them
\* on the list; otherwise the newest decision, as the ledger has it.
Explained ==
  LET new == WrongHere(seen) \ book.missteps
      newest == book.ledger[Len(book.ledger)]
  IN IF new # {} THEN {<<seen.stage, CHOOSE o \in new : TRUE>>}
     ELSE IF guided THEN {<<newest.stage, newest.option>>}
     ELSE {}
Facing == faced \cup Explained

Acknowledge ==
  /\ ~guided /\ Panel \in {"misstep", "briefing"}
  /\ book' = Acknowledged /\ faced' = Facing
  /\ UNCHANGED <<guided, drill, mount, seen, lesson, offered, call>>

ReadConsequence ==
  /\ Panel = "consequence"
  /\ lesson' = [lesson EXCEPT !.read = Len(book.ledger)]
  /\ book' = Acknowledged /\ faced' = Facing
  /\ UNCHANGED <<guided, drill, mount, seen, offered, call>>

Incident == <<seen.attempt, seen.stage>>
Study(panel, l) ==
  /\ Panel = panel
  /\ lesson' = l
  /\ UNCHANGED <<guided, drill, mount, seen, book, offered, call, faced>>

ReadBriefing == guided /\ Study("briefing", [lesson EXCEPT !.briefed = TRUE])
Inspect == /\ lesson.inspected < offered
           /\ Study("observe", [lesson EXCEPT !.inspected = @ + 1, !.about = Incident])
FinishObserving == Satisfied /\ Study("observe", [lesson EXCEPT !.done = TRUE])
PickHypothesis == Study("hypothesise", [lesson EXCEPT !.picked = TRUE])
ConfirmHypothesis ==
  lesson.picked /\ Study("hypothesise", [lesson EXCEPT !.named = Incident])

-----------------------------------------------------------------------------
(* The assignment page                                                      *)

\* The workbench tells the page once that its drill is solved; the page re-reads
\* the account, and draws a skeleton in place of the workbench while it does.
Resolved ==
  /\ guided /\ mount = "open" /\ seen.solved
  /\ mount' = "leaving"
  /\ UNCHANGED <<guided, drill, seen, book, lesson, offered, call, faced>>

Unmount ==
  /\ mount = "leaving"
  /\ mount' = "checking"
  /\ seen' = NoDrill /\ book' = EmptyBook /\ lesson' = EmptyLesson /\ offered' = Signals
  /\ UNCHANGED <<guided, drill, call, faced>>

\* The new workbench finds the cluster again by its status and first snapshot.
Remount ==
  /\ mount = "checking"
  /\ mount' = "open"
  /\ UNCHANGED <<guided, drill, seen, book, lesson, offered, call, faced>>

-----------------------------------------------------------------------------

CoachingInit ==
  /\ guided \in BOOLEAN
  /\ drill = NoDrill /\ seen = NoDrill
  /\ mount = "open"
  /\ book = EmptyBook /\ lesson = EmptyLesson
  /\ offered = Signals
  /\ call = NoCall
  /\ faced = {}

CoachingNext ==
  \/ Snapshot \/ StageResolved \/ OtherTab \/ Serve
  \/ ClickStart \/ ClickEnd \/ \E o \in Options : ChooseMove(o)
  \/ Acknowledge \/ ReadConsequence \/ ReadBriefing \/ Inspect \/ FinishObserving
  \/ PickHypothesis \/ ConfirmHypothesis
  \/ Resolved \/ Unmount \/ Remount

CoachingSpec == CoachingInit /\ [][CoachingNext]_coachingVars

-----------------------------------------------------------------------------
(* Properties                                                               *)

\* Nothing read, inspected or named about one incident counts for another: not for
\* the next stage, not for the next attempt the page saw begin.
LessonIsForThisIncident ==
  {lesson.about, lesson.named} \subseteq {NoIncident, Incident}

\* A debrief tells no story of its own: every action it lists was applied to this
\* attempt and to the stage it is listed under, once, and every one it calls
\* unnecessary is a wrong move the cluster carries, however answers, polls, stages and
\* failed requests crossed (coaching.ts:347-399, useDrillState.ts).
DebriefIsTrue ==
  LET d == Debrief
  IN /\ \A i \in DOMAIN d.timeline :
          /\ d.timeline[i].attempt = seen.attempt
          /\ <<d.timeline[i].stage, d.timeline[i].option>> \in seen.chosen
          /\ \A j \in DOMAIN d.timeline : d.timeline[i] = d.timeline[j] => i = j
     /\ \A step \in d.unnecessary :
          step.option \in Wrong /\ <<step.stage, step.option>> \in seen.chosen

\* No wrong move is passed over in silence: where moves are offered, every wrong one of
\* this stage was acknowledged in this attempt, on a screen that explained a wrong move
\* of a stage it was applied in.  The screen need not be about this move, nor of this
\* stage: one dismissal acknowledges every wrong move there is, by its id, for the rest
\* of the drill (phase.ts:122-131).
MisstepsAreFaced ==
  OffersMoves =>
    \A o \in WrongHere(seen) : \E s \in 1..seen.stage, other \in Wrong :
      /\ {<<s, o>>, <<s, other>>} \subseteq seen.chosen
      /\ <<s, other>> \in faced

\* "An unacknowledged wrong move takes the panel: the explanation is the reason the
\* drill exists, and it should not be something you can scroll past without noticing"
\* (phase.ts:158-159): moves are offered only once every wrong one applied in this
\* stage has been explained.
MisstepsAreExplained ==
  OffersMoves => {seen.stage} \X WrongHere(seen) \subseteq faced

\* In a course assignment no move is sent before the evidence was read and the
\* fault named for the incident on screen, and none while a consequence is unread.
MovesAreEarned ==
  [][ call = NoCall /\ call' \in Options /\ guided =>
        /\ lesson.named = Incident /\ lesson.about = Incident
        /\ Satisfied /\ ~Unread ]_coachingVars
=============================================================================

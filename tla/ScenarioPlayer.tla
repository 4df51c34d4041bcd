--------------------------- MODULE ScenarioPlayer ---------------------------
(***************************************************************************)
(* The scenario player of the cyberlab (widgets/ScenarioPlayer.tsx): an    *)
(* asynchronous loop types the steps of a case study into terminals, and   *)
(* pausing, restarting or scrubbing leaves that loop asleep at an await    *)
(* while another may be started.  A case study is a script, or a recording *)
(* regrouped into steps (entities/scenario/recording.ts).                  *)
(***************************************************************************)
EXTENDS Integers, SequencesExt, FiniteSetsExt

CONSTANTS
    Recordings,   \* the recordings a case study may come from: sequences of events
    MaxLoops,     \* bound: loops started
    MaxMoves      \* bound: pauses, restarts and scrubs

ASSUME RecordingsAssumption ==
    \A events \in Recordings :
        events \in Seq([step : Int, kind : {"narration", "command", "output", "detection"}])
        /\ events # << >>

VARIABLES
    script,       \* the steps: what is said, what is run, and the lines that prints
    stepAt,       \* stepRef: the step being played, one past the last at the end
    playing,      \* playingRef
    gen,          \* genRef
    loops,        \* the loops awake or asleep: their generation and their line
    out,          \* the lines on the terminals, as <<step, line>>
    playerMoves

playerVars == <<script, stepAt, playing, gen, loops, out, playerMoves>>

----------------------------------------------------------------------------
(* A recording becomes a script: the events of one step number, in order   *)
(* of number; of those the first narration, the first command and every    *)
(* output and detection.  An event without a step number, here one below   *)
(* 0, stands at its place.                                                 *)

KeyOf(events, i) == IF events[i].step < 0 THEN i - 1 ELSE events[i].step
Numbers(events) == {KeyOf(events, i) : i \in DOMAIN events}

StepOf(events, number) ==
    LET Of(kinds) == {i \in DOMAIN events : KeyOf(events, i) = number
                                            /\ events[i].kind \in kinds}
    IN  [say |-> Of({"narration"}) # {}, run |-> Of({"command"}) # {},
         out |-> Cardinality(Of({"output", "detection"}))]

(* The k-th step carries the number that k - 1 others are below.           *)
ScriptOf(events) ==
    [k \in 1..Cardinality(Numbers(events)) |->
        StepOf(events, CHOOSE n \in Numbers(events) :
                           Cardinality({m \in Numbers(events) : m < n}) = k - 1)]

Scripts == {ScriptOf(events) : events \in Recordings}

(* The lines a step puts on its terminal: output is printed after a        *)
(* command, so a step without one shows none.                              *)
Played(step) ==
    (IF step.say THEN 1 ELSE 0) + (IF step.run THEN 1 + step.out ELSE 0)

Lines(k) == [l \in 1..Played(script[k]) |-> <<k, l>>]
Steps == DOMAIN script

----------------------------------------------------------------------------
(* The loop: it wakes, leaves if it has been superseded, and writes the    *)
(* next line of the step or goes on to the next step.                      *)

Loop == [gen |-> gen, line |-> 0]

AwakeAnyway(l) == TRUE

Awake(l) == loops[l].gen = gen
Play ==
    /\ ~ playing
    /\ Len(loops) < MaxLoops
    /\ playing' = TRUE
    /\ IF stepAt > Len(script)
       THEN stepAt' = 1 /\ out' = << >>
       ELSE UNCHANGED <<stepAt, out>>
    /\ loops' = Append(loops, Loop)
    /\ UNCHANGED <<script, gen, playerMoves>>

Ended(l) == [loops EXCEPT ![l].line = -1]

Wakes(l) ==
    /\ loops[l].line >= 0
    /\ IF ~ Awake(l)
       THEN /\ loops' = Ended(l)
            /\ UNCHANGED <<playing, stepAt, out>>
       ELSE IF stepAt \in Steps /\ loops[l].line < Played(script[stepAt])
       THEN /\ loops' = [loops EXCEPT ![l].line = @ + 1]
            /\ out' = Append(out, <<stepAt, loops[l].line + 1>>)
            /\ UNCHANGED <<playing, stepAt>>
       ELSE /\ stepAt' = stepAt + 1
            /\ playing' = (playing /\ stepAt < Len(script))
            /\ loops' = IF playing /\ stepAt < Len(script)
                        THEN [loops EXCEPT ![l].line = 0] ELSE Ended(l)
            /\ UNCHANGED out
    /\ UNCHANGED <<script, gen, playerMoves>>

Supersede ==
    /\ playerMoves < MaxMoves
    /\ playerMoves' = playerMoves + 1
    /\ gen' = gen + 1
    /\ playing' = FALSE
    /\ UNCHANGED <<script, loops>>

Pause == playing /\ Supersede /\ UNCHANGED <<stepAt, out>>

Restart == Supersede /\ stepAt' = 1 /\ out' = << >>

ScrubTo(k) ==
    /\ Supersede
    /\ stepAt' = k + 1
    /\ out' = FlattenSeq([j \in 1..k |-> Lines(j)])

PlayerInit ==
    /\ script \in Scripts
    /\ stepAt = 1 /\ playing = FALSE /\ gen = 0
    /\ loops = << >> /\ out = << >> /\ playerMoves = 0

PlayerNext ==
    \/ Play \/ Pause \/ Restart
    \/ \E k \in Steps : ScrubTo(k)
    \/ \E l \in DOMAIN loops : Wakes(l)

----------------------------------------------------------------------------
(* The lines of a step stand whole up to a place, and none after it.       *)
WholeAt(k, e) ==
    LET n == Played(script[k])
    IN  /\ n <= e
        /\ \A l \in 1..n : out[e - n + l] = <<k, l>>
        /\ \A j \in (e + 1)..Len(out) : out[j][1] # k

(* However the visitor plays, pauses, restarts and scrubs, the terminals   *)
(* show the steps in order, every step before the current one whole, and   *)
(* nothing of a later one: a superseded loop never writes again            *)
(* (ScenarioPlayer.tsx:177, 197, 204, 206, 226).                           *)
OutputFollowsTheScript ==
    /\ \A i, j \in DOMAIN out : i < j => out[i][1] <= out[j][1]
    /\ \A k \in Steps : k < stepAt => \E e \in 0..Len(out) : WholeAt(k, e)
    /\ \A i \in DOMAIN out : out[i][1] <= stepAt

============================================================================

--------------------------- MODULE OperatorConsole ---------------------------
(***************************************************************************)
(* The ranked arena and its operator console: the lines an operator types, *)
(* what the control plane answers, and the escalations of the match that   *)
(* are announced in between.  The arena is shown for as long as its match  *)
(* is live on the page; its panels are hidden and shown meanwhile.         *)
(*                                                                         *)
(* A line is the sequence of its words, in lower case.                     *)
(***************************************************************************)
EXTENDS Integers, Sequences, SequencesExt

CONSTANTS
  Tools,       \* the panels of the dock, "console" one of them
  Typed,       \* the lines an operator may type
  QuickReads,  \* the lines of the buttons: reads, and help
  NoLine,
  LastStage,   \* drillStageCount
  MaxTranscript   \* bound: entries of the transcript

VARIABLES
  match,    \* the stage the match is in, on the cluster and as the page knows it
  arena,    \* whether it is shown, its panel, and the stages it has announced
  console,  \* the transcript and the command line
  hostBusy  \* what the page around it is doing: nothing, a change of its own, a command

consoleVars == <<match, arena, console, hostBusy>>

Entry(kind, line) == [kind |-> kind, line |-> line]
Greeting == <<Entry("greeting", NoLine)>>

NewConsole == [entries |-> Greeting, input |-> <<>>, past |-> <<>>, cursor |-> 0, running |-> NoLine]
NewArena == [shown |-> TRUE, tool |-> "console", panel |-> TRUE, announced |-> 0]
NoArena == [shown |-> FALSE, tool |-> "console", panel |-> TRUE, announced |-> 0]

-----------------------------------------------------------------------------
(* The command line                                                         *)

\* Parsing goes only far enough to route a line: help and clear stay in the
\* browser, reads are evidence, and everything else is the server's to refuse.
Kind(line) ==
  IF line = <<>> \/ Head(line) = "help" THEN "help"
  ELSE IF line = <<"clear">> THEN "clear"
  ELSE IF line \in {<<"history">>, <<"trace", "latest">>} \/ Head(line) = "inspect"
  THEN "inspect"
  ELSE "remote"

\* The newest first, and each once.
Remembered(past, line) == <<line>> \o SelectSeq(past, LAMBDA x : x # line)

ConsoleDisabledByHost == hostBusy = "host"
ConsoleDisabled == hostBusy # "no" \/ console.running # NoLine

Executed(c, line) ==
  LET known == [c EXCEPT !.past = Remembered(@, line), !.cursor = 0]
  IN CASE Kind(line) = "clear" -> [known EXCEPT !.entries = <<>>]
       [] Kind(line) = "help" -> [known EXCEPT !.entries = Append(@, Entry("help", line))]
       [] OTHER -> [known EXCEPT !.entries = Append(@, Entry("asked", line)), !.running = line]

Execute(c, line) ==
  /\ arena.shown /\ ~ConsoleDisabled /\ Len(console.entries) < MaxTranscript
  /\ console' = Executed(c, line)
  /\ hostBusy' = IF Kind(line) = "remote" THEN "command" ELSE "no"
  /\ UNCHANGED <<match, arena>>

QuickRead == \E line \in QuickReads : Execute(console, line)
Submit == console.input # <<>> /\ Execute([console EXCEPT !.input = <<>>], console.input)

\* The control plane answers, or refuses, or nobody answers: one entry each way.  A
\* change of the page's own is still out.
ConsoleAnswer ==
  /\ arena.shown /\ console.running # NoLine
  /\ console' = [console EXCEPT !.entries = Append(@, Entry("answer", console.running)),
                                !.running = NoLine]
  /\ hostBusy' = IF hostBusy = "command" THEN "no" ELSE hostBusy
  /\ UNCHANGED <<match, arena>>

OnCommandLine(c) ==
  /\ arena.shown /\ ~ConsoleDisabled
  /\ console' = c
  /\ UNCHANGED <<match, arena, hostBusy>>

Type == \E line \in Typed : OnCommandLine([console EXCEPT !.input = line])

\* The history is walked by the arrow keys, down to the empty line.  Positions
\* count from one here.
ArrowUp ==
  /\ console.past # <<>>
  /\ LET next == IF console.cursor < Len(console.past) THEN console.cursor + 1 ELSE console.cursor
     IN OnCommandLine([console EXCEPT !.cursor = next, !.input = console.past[next]])
ArrowDown ==
  LET next == IF console.cursor > 0 THEN console.cursor - 1 ELSE 0
  IN OnCommandLine([console EXCEPT !.cursor = next,
                                   !.input = IF next = 0 THEN <<>> ELSE console.past[next]])

\* The page changes something itself, and is told how that went.
HostActs ==
  /\ arena.shown /\ hostBusy = "no"
  /\ hostBusy' = "host"
  /\ UNCHANGED <<match, arena, console>>
HostDone ==
  /\ hostBusy = "host"
  /\ hostBusy' = "no"
  /\ UNCHANGED <<match, arena, console>>

-----------------------------------------------------------------------------
(* The arena                                                                *)

\* Only a real escalation is announced: neither the stage an arena opens on, which
\* a resumed match has long been in, nor one announced before.
Tells(a, stage) == stage > a.announced /\ stage > 1 /\ a.announced # 0

\* The page knows the stage, and the arena's effect runs.
Hear(a, c, stage) ==
  /\ arena' = [a EXCEPT !.announced = IF stage > @ THEN stage ELSE @]
  /\ console' = IF Tells(a, stage)
                THEN [c EXCEPT !.entries = Append(@, Entry("told", NoLine))] ELSE c
  /\ match' = [match EXCEPT !.known = stage]

Escalate ==
  /\ match.stage < LastStage
  /\ match' = [match EXCEPT !.stage = @ + 1]
  /\ UNCHANGED <<arena, console, hostBusy>>

OpenArena == ~arena.shown /\ Hear(NewArena, NewConsole, match.stage) /\ UNCHANGED hostBusy
Look ==
  /\ arena.shown /\ match.known < match.stage
  /\ Hear(arena, console, match.stage)
  /\ UNCHANGED hostBusy

\* The match is over, or its cluster is lost to the page: the record goes with it,
\* and an answer that was out has nowhere to land.
LeaveArena ==
  /\ arena.shown
  /\ arena' = NoArena
  /\ console' = NewConsole
  /\ hostBusy' = "no"
  /\ \/ match' = [stage |-> 1, known |-> 0]
     \/ match' = [match EXCEPT !.known = 0]

Chosen(tool) == [arena EXCEPT !.tool = tool, !.panel = IF arena.tool = tool THEN ~@ ELSE TRUE]
\* A panel is hidden, never taken away.
PanelMoves(a) == arena.shown /\ arena' = a /\ UNCHANGED <<match, hostBusy, console>>
PickTool == \E tool \in Tools : PanelMoves(Chosen(tool))
CloseTool == PanelMoves([arena EXCEPT !.panel = FALSE])

-----------------------------------------------------------------------------

ConsoleInit ==
  /\ match = [stage |-> 1, known |-> 0]
  /\ arena = NoArena
  /\ console = NewConsole
  /\ hostBusy = "no"

ConsoleNext ==
  \/ QuickRead \/ Submit \/ ConsoleAnswer \/ Type \/ ArrowUp \/ ArrowDown
  \/ HostActs \/ HostDone
  \/ Escalate \/ OpenArena \/ Look \/ LeaveArena \/ PickTool \/ CloseTool

-----------------------------------------------------------------------------
(* Properties                                                               *)

\* An answer carries no command of its own, so it must be read under the line it
\* answers: whatever is typed, clicked or announced meanwhile, only announcements
\* stand between the two (OperatorConsole.tsx:127-165).
AnswersFollowTheirLines ==
  \A i \in DOMAIN console.entries : console.entries[i].kind = "answer" =>
    \E j \in 1..(i - 1) :
      /\ console.entries[j] = Entry("asked", console.entries[i].line)
      /\ \A k \in (j + 1)..(i - 1) : console.entries[k].kind = "told"
=============================================================================

---------------------------- MODULE ClusterCanvas ---------------------------
(***************************************************************************)
(* The live cluster as a graph: one card per replica, the curves between   *)
(* the cards, the frame the operator pans and zooms, the card they picked  *)
(* and what the inspector says of it, and a dial of the controls panel.    *)
(*                                                                         *)
(* The curves are measured from the cards on screen, by an effect that     *)
(* runs when a listed value changes.  A card is a tier and its place in    *)
(* the tier: which replica stands there does not move a curve.             *)
(***************************************************************************)
EXTENDS Integers, FiniteSets, FiniteSetsExt

CONSTANTS
  Tiers,        \* the services of the request path
  Dialled,      \* those whose replica count is a dial of its own
  Optional,     \* the dialled ones that can be turned down to none
  Switched,     \* those that are on or off
  Dial,         \* the tier whose dial is modelled
  Replicas,     \* names of replicas, by tier
  MaxWant,      \* bound: replicas one can ask for
  MaxZoom,      \* bound: zoom steps either way
  MaxClusters   \* bound: clusters of one visit

ASSUME CanvasBounds ==
  /\ Dialled \cup Switched \subseteq Tiers /\ Dialled \cap Switched = {} /\ Dial \in Dialled
  /\ Optional \subseteq Dialled
  /\ MaxWant \in Nat \ {0} /\ MaxZoom \in Nat /\ MaxClusters \in Nat \ {0}
\* No service is called "none", which is no card.
ASSUME CanvasCards == "none" \notin Tiers /\ \A t \in Tiers : IsFiniteSet(Replicas[t])

VARIABLES
  frame,        \* the graph's frame: before the session is known, off screen, on screen
  cluster,      \* which cluster is shown
  pods,         \* its replicas by tier, as last measured
  want,         \* the replicas asked for, as the page holds them
  stored,       \* the dial's tier on the cluster itself
  change,       \* the dial's request in flight
  frameView,    \* the pan and the zoom
  listening,    \* the wheel's listener is on the frame
  press,        \* the pointer on the frame, and whether its next click is swallowed
  drawn,        \* the places the curves were last measured at
  measured,     \* ghost: they were measured since the frame came on screen
  picked,       \* the selection
  thumb         \* the dial: shown with its panel, its local value, a drag in progress

clusterNow == <<cluster, pods, want, stored, change>>
frameNow == <<frame, frameView, listening, press>>
canvasVars == <<clusterNow, frameNow, drawn, measured, picked, thumb>>

NoPick == <<"none", "none">>
Whole == "whole"          \* a whole tier, or the card that holds its place
NoChange == -1

\* The least a tier can be asked for, and what its dial goes over.
Least(t) == IF t \in Optional THEN 0 ELSE 1
Turns(t) == Least(t)..MaxWant

-----------------------------------------------------------------------------
(* The cards and the curves                                                 *)

\* intendedPods: tiers without a dial or a switch are always one.
Intended(t, w) == IF t \in Dialled \cup Switched THEN w[t] ELSE 1

\* ClusterGraph: a card for every replica, one for every replica asked for and not
\* there yet, and one that holds the place of a tier that has neither.
Ghosts(t) == Max({0, Intended(t, want) - Cardinality(pods[t])})
Places(t) == Max({1, Cardinality(pods[t]) + Ghosts(t)})
Buttons ==
  UNION {IF pods[t] = {} THEN (IF Ghosts(t) = 0 THEN {<<t, Whole>>} ELSE {})
         ELSE {t} \X pods[t] : t \in Tiers}

\* The dependencies of the measuring effect: the card signature, the dials and the
\* zoom; the switch is not one of them.
DepsWithoutDials == <<cluster, pods, frameView.zoom>>
Deps == <<cluster, pods, [t \in Dialled |-> want[t]], frameView.zoom>>

\* What rendering a new state does: measure when a dependency changed and the frame
\* is there to be measured.
Repainted ==
  LET measures == frame' = "open" /\ Deps' # Deps
  IN /\ drawn' = IF measures THEN [t \in Tiers |-> Places(t)'] ELSE drawn
     /\ measured' = (frame' = "open" /\ (measures \/ measured))

\* The window's listener measures whatever frame is there.
WindowResized ==
  /\ frame = "open"
  /\ drawn' = [t \in Tiers |-> Places(t)] /\ measured' = TRUE
  /\ UNCHANGED <<clusterNow, frameNow, picked, thumb>>

-----------------------------------------------------------------------------
(* The dial                                                                 *)

Shut == [open |-> FALSE, local |-> 1, held |-> FALSE]

\* The thumb follows the value, but is never pulled from under a finger.
Follows(value) ==
  IF thumb.open /\ ~thumb.held THEN [thumb EXCEPT !.local = value] ELSE thumb

OpenControls ==
  /\ frame = "open" /\ picked = NoPick /\ ~thumb.open
  /\ thumb' = [open |-> TRUE, local |-> want[Dial], held |-> FALSE]
  /\ UNCHANGED <<clusterNow, frameNow, drawn, measured, picked>>

LeaveControls ==
  /\ thumb.open /\ thumb' = Shut
  /\ UNCHANGED <<clusterNow, frameNow, drawn, measured, picked>>

\* A press, or any change: an arrow key never presses.
Grab ==
  /\ thumb.open
  /\ \E n \in Turns(Dial) : thumb' = [thumb EXCEPT !.held = TRUE, !.local = n]
  /\ UNCHANGED <<clusterNow, frameNow, drawn, measured, picked>>

\* The end of a drag, of a key press or of the focus: one commit, of the value shown,
\* if it is not the value already.  The page shows it asked for at once.
AsBefore(n) == want
AsHoped(n) == [want EXCEPT ![Dial] = n]
LetGo ==
  /\ thumb.open /\ thumb.held
  /\ thumb' = [thumb EXCEPT !.held = FALSE]
  /\ \/ /\ thumb.local = want[Dial]
        /\ UNCHANGED <<clusterNow, drawn, measured>>
     \/ /\ thumb.local # want[Dial] /\ change = NoChange
        /\ change' = thumb.local /\ want' = AsHoped(thumb.local)
        /\ UNCHANGED <<cluster, pods, stored, frameNow>> /\ Repainted
  /\ UNCHANGED <<frameNow, picked>>

\* The request is carried out, or refused: the next reading tells the page.
DialAnswered ==
  /\ change # NoChange
  /\ stored' \in {change, stored} /\ change' = NoChange
  /\ UNCHANGED <<cluster, pods, want, frameNow, drawn, measured, picked, thumb>>

-----------------------------------------------------------------------------
(* Readings of the cluster                                                  *)

\* The replicas are always taken; what was asked for is not, while a request is out.
\* One tier differs from the last reading, in one or the other.
Measured(t) == {[pods EXCEPT ![t] = some] : some \in SUBSET Replicas[t]}
Wishes(t) == {[want EXCEPT ![Dial] = stored]} \cup
  {[want EXCEPT ![Dial] = stored, ![t] = n] :
     n \in IF t \in Switched THEN {0, 1} ELSE IF t \in Dialled \ {Dial} THEN Turns(t) ELSE {}}

Reading ==
  /\ cluster # 0
  /\ \E t \in Tiers :
       \/ pods' \in Measured(t) /\ want' = IF change = NoChange THEN [want EXCEPT ![Dial] = stored] ELSE want
       \/ pods' = pods /\ change = NoChange /\ want' \in Wishes(t)
  /\ thumb' = Follows(want'[Dial])
  /\ UNCHANGED <<cluster, stored, change, frameNow, picked>>
  /\ Repainted

\* Another device of the operator turns the dial.
TurnedElsewhere ==
  /\ cluster # 0 /\ stored' \in Turns(Dial)
  /\ UNCHANGED <<cluster, pods, want, change, frameNow, drawn, measured, picked, thumb>>

\* The cluster is let go; the selection and the view are not.
Released ==
  /\ cluster # 0 /\ change = NoChange
  /\ frame' = "away" /\ press' = [press EXCEPT !.st = "up", !.on = NoPick]
  /\ pods' = [t \in Tiers |-> {}]
  /\ thumb' = Shut /\ cluster' = 0
  /\ UNCHANGED <<want, stored, change, frameView, listening, picked>>
  /\ Repainted

-----------------------------------------------------------------------------
(* The screen around the graph                                              *)

\* The frame replaces the hub, the launch screen or the skeleton.
Appears ==
  /\ frame # "open"
  /\ frame' = "open"
  /\ \/ cluster # 0 /\ UNCHANGED cluster
     \/ cluster = 0 /\ cluster' \in 1..MaxClusters
  /\ UNCHANGED <<pods, want, stored, change, frameView, listening, press, picked, thumb>>
  /\ Repainted

\* The hub takes the screen back, with the cluster still attached; or the session is
\* known and there is no graph to show.
Disappears ==
  /\ frame # "away"
  /\ frame' = "away" /\ press' = [press EXCEPT !.st = "up", !.on = NoPick] /\ thumb' = Shut
  /\ UNCHANGED <<clusterNow, frameView, listening, picked>>
  /\ Repainted

-----------------------------------------------------------------------------
(* The frame                                                                *)

PressedStillSwallowing == [press EXCEPT !.st = "pressed"]
Pressed == [press EXCEPT !.st = "pressed", !.swallows = FALSE]

\* The primary button, on a card that is a button or on the canvas.
PointerDown ==
  /\ frame = "open" /\ press.st \in {"up", "lost"}
  /\ \E c \in Buttons \cup {NoPick} : press' = [Pressed EXCEPT !.on = c]
  /\ UNCHANGED <<clusterNow, frame, frameView, listening, drawn, measured, picked, thumb>>

\* Past the threshold a press is a drag, and takes the view along.
PointerMove ==
  /\ press.st \in {"pressed", "dragging"}
  /\ press' = [press EXCEPT !.st = "dragging", !.on = NoPick, !.swallows = TRUE]
  /\ frameView' = [frameView EXCEPT !.moved = TRUE]
  /\ UNCHANGED <<clusterNow, frame, listening, picked, thumb>>
  /\ Repainted

Lifted(swallows) == [st |-> "up", on |-> NoPick, swallows |-> swallows]
PickOf(c) == IF picked = c THEN NoPick ELSE c

\* A click on a card, from a pointer or from the keyboard.  The inspector takes the
\* place of the controls.
Clicked(c, swallows) ==
  IF swallows \/ c \notin Buttons THEN UNCHANGED <<picked, thumb>>
  ELSE picked' = PickOf(c) /\ thumb' = Shut

\* The browser sends the click of a plain press to its card.  That of a drag goes to
\* the frame, which captured the pointer; a finger leaves none.
PointerUp ==
  /\ press.st \in {"pressed", "dragging"}
  /\ \/ /\ press.st = "pressed" /\ Clicked(press.on, press.swallows)
        /\ press' = Lifted(FALSE)
     \/ /\ press.st = "dragging" /\ UNCHANGED <<picked, thumb>>
        /\ \E left \in BOOLEAN : press' = Lifted(left)
  /\ UNCHANGED <<clusterNow, frame, frameView, listening, drawn, measured>>

PointerCancel ==
  /\ press.st \in {"pressed", "dragging"}
  /\ press' = [press EXCEPT !.st = "lost", !.on = NoPick]
  /\ UNCHANGED <<clusterNow, frame, frameView, listening, drawn, measured, picked, thumb>>

KeyboardClick ==
  /\ frame = "open"
  /\ \E c \in Buttons : Clicked(c, press.swallows)
  /\ press' = [press EXCEPT !.swallows = FALSE]
  /\ UNCHANGED <<clusterNow, frame, frameView, listening, drawn, measured>>

\* zoomAbout: nothing at all happens at the clamp.
Zoomed(step) ==
  LET zoom == Max({-MaxZoom, Min({MaxZoom, frameView.zoom + step})})
  IN IF zoom = frameView.zoom THEN frameView ELSE [moved |-> TRUE, zoom |-> zoom]

ZoomButton ==
  /\ frame = "open"
  /\ \E step \in {-1, 1} : frameView' = Zoomed(step)
  /\ UNCHANGED <<clusterNow, frame, listening, press, picked, thumb>>
  /\ Repainted

\* The button is there once the view has moved.
ResetView ==
  /\ frame = "open" /\ frameView.moved
  /\ frameView' = [moved |-> FALSE, zoom |-> 0]
  /\ UNCHANGED <<clusterNow, frame, listening, press, picked, thumb>>
  /\ Repainted

\* Without the listener the page behind scrolls.
WheelTurned ==
  /\ frame = "open"
  /\ \E step \in {-1, 1} : frameView' = IF listening THEN Zoomed(step) ELSE frameView
  /\ UNCHANGED <<clusterNow, frame, listening, press, picked, thumb>>
  /\ Repainted

-----------------------------------------------------------------------------
(* The inspector                                                            *)

\* One replica while it is there; else its tier while it is meant to run.
Inspected ==
  LET t == picked[1]
  IN CASE picked[2] \in pods[t] -> "replica"
       [] picked[2] \notin pods[t] /\ (pods[t] # {} \/ Intended(t, want) > 0) -> "tier"
       [] OTHER -> "blank"

\* Another replica of the tier, the whole tier, or nothing.
PickInInspector ==
  /\ frame = "open" /\ picked # NoPick
  /\ \/ /\ Inspected \in {"replica", "tier"}
        /\ \E p \in pods[picked[1]] : picked' = <<picked[1], p>>
     \/ Inspected = "replica" /\ picked' = <<picked[1], Whole>>
     \/ picked' = NoPick
  /\ UNCHANGED <<clusterNow, frameNow, drawn, measured, thumb>>

-----------------------------------------------------------------------------

\* The listener is attached by an effect of the first render only; the frame is not
\* on screen then.
CanvasInit ==
  /\ frame = "booting" /\ cluster = 0
  /\ pods = [t \in Tiers |-> {}] /\ want = [t \in Tiers |-> Least(t)]
  /\ stored = Least(Dial) /\ change = NoChange
  /\ frameView = [moved |-> FALSE, zoom |-> 0]
  /\ listening = (frame = "open")
  /\ press = [st |-> "up", on |-> NoPick, swallows |-> FALSE]
  /\ drawn = [t \in Tiers |-> 0] /\ measured = FALSE
  /\ picked = NoPick /\ thumb = Shut

CanvasNext ==
  \/ WindowResized \/ OpenControls \/ LeaveControls \/ Grab \/ LetGo \/ DialAnswered
  \/ Reading \/ TurnedElsewhere \/ Released \/ Appears \/ Disappears
  \/ PointerDown \/ PointerMove \/ PointerUp \/ PointerCancel \/ KeyboardClick
  \/ ZoomButton \/ ResetView \/ WheelTurned \/ PickInInspector

CanvasSpec == CanvasInit /\ [][CanvasNext]_canvasVars

-----------------------------------------------------------------------------
(* Properties                                                               *)

\* Once measured, the curves end on the cards that are on screen, whatever replicas
\* appeared or went and whatever was asked for since (ClusterWorkbench.tsx:160-192).
\* The switch is no dependency of the measuring, and need not be.
CurvesMeetTheCards ==
  frame = "open" /\ measured => drawn = [t \in Tiers |-> Places(t)]

\* A press that did not become a drag picks its card, whatever drag, lost pointer or
\* keyboard click came before it; a drag picks none.
PlainPressPicks ==
  [][ press'.st = "up" /\ frame' = "open" =>
        /\ press.st = "pressed" /\ press.on \in Buttons => picked' # picked
        /\ press.st = "dragging" => picked' = picked ]_canvasVars

\* A dial at rest shows what the page holds to be asked for: a refused change, one
\* made on another device and one that arrived during a drag all end there.
ThumbTellsTheTruth == thumb.open /\ ~thumb.held => thumb.local = want[Dial]

\* A wheel turned over the graph zooms it: the listener is on whenever the graph is.  It
\* is bound "natively because React's synthetic wheel listener is passive, and a passive
\* listener cannot preventDefault - the page would scroll behind the zoom"
\* (useGraphViewport.ts:123-124).
WheelStaysOnTheGraph == frame = "open" => listening
=============================================================================

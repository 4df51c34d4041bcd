------------------------------ MODULE LabMotion ------------------------------
(***************************************************************************)
(* The moving pictures of the labs: a drawn scene whose loop asks the      *)
(* browser for one frame at a time, and the frame around it that reveals   *)
(* elements as they scroll into view and follows the scroll and the        *)
(* pointer (packages/ui/src/LabMotion.tsx).  The AI lab's model            *)
(* observatory runs the same loop, and takes no notice of a visitor who    *)
(* prefers less motion (widgets/ModelObservatory.tsx).                     *)
(***************************************************************************)
EXTENDS Integers, Sequences, FiniteSets

CONSTANTS
  Frames,      \* bound: animation callbacks a scene has requested at a time
  MaxEntries,  \* bound: observer entries delivered at once
  Revealed     \* the elements of the page that are revealed

\* The browser's frame ids start at 1; 0 is the effect's "none".
ASSUME FramesAssumption == Frames # {} /\ 0 \notin Frames

VARIABLES
  browser,     \* visible, less (motion preferred), the scene's callbacks, its observer's entries
  scene,       \* the scene's effect: its flags, and the frame it holds, 0 for none
  shell        \* the frame around it: what it has revealed, asked for and styled

motionVars == <<browser, scene, shell>>

-----------------------------------------------------------------------------
(* The scene                                                                *)

Unused(taken) == CHOOSE id \in Frames : id \notin taken
Wanted(s) == s.active /\ s.inView /\ ~s.reduced

Requests(s, b) ==
  LET id == Unused(b.callbacks)
  IN /\ scene' = [s EXCEPT !.frame = id]
     /\ browser' = [b EXCEPT !.callbacks = @ \cup {id}]
Rests(s, b) == scene' = s /\ browser' = b

\* start(): a frame is requested unless one is held, or none is wanted.
RestartedAnyway(s, b) == IF Wanted(s) THEN Requests(s, b) ELSE Rests(s, b)
Restarted(s, b) == IF s.frame = 0 /\ Wanted(s) THEN Requests(s, b) ELSE Rests(s, b)

\* A flag has changed: a frame it no longer allows is cancelled, then start().
Flagged(allowed, s, b) ==
  IF ~allowed /\ s.frame # 0
  THEN Restarted([s EXCEPT !.frame = 0], [b EXCEPT !.callbacks = @ \ {s.frame}])
  ELSE Restarted(s, b)

Animate(id) ==
  /\ id \in browser.callbacks
  /\ LET called == [browser EXCEPT !.callbacks = @ \ {id}]
     IN IF Wanted(scene) THEN Requests(scene, called)
        ELSE Rests([scene EXCEPT !.frame = 0], called)
  /\ UNCHANGED shell

OnVisibility ==
  /\ LET b == [browser EXCEPT !.visible = ~@]
     IN IF scene.mounted THEN Flagged(b.visible, [scene EXCEPT !.active = b.visible], b)
        ELSE Rests(scene, b)
  /\ UNCHANGED shell

\* The scene enters or leaves the viewport; its observer is told in batches, and the
\* effect reads the first entry of each.
Scroll(seen) ==
  /\ scene.mounted /\ Len(browser.entries) < MaxEntries
  /\ browser' = [browser EXCEPT !.entries = Append(@, seen)]
  /\ UNCHANGED <<scene, shell>>
Observed ==
  /\ browser.entries # <<>>
  /\ LET seen == Head(browser.entries)
     IN Flagged(seen, [scene EXCEPT !.inView = seen], [browser EXCEPT !.entries = <<>>])
  /\ UNCHANGED shell

\* The ambient scene heeds the preference for less motion, the observatory does not.
MountScene(heeds) ==
  /\ ~scene.mounted
  /\ Restarted([mounted |-> TRUE, heeds |-> heeds, active |-> browser.visible, inView |-> TRUE,
                reduced |-> heeds /\ browser.less, frame |-> 0], browser)
  /\ UNCHANGED shell
NoScene == [mounted |-> FALSE, heeds |-> FALSE, active |-> FALSE, inView |-> FALSE,
            reduced |-> FALSE, frame |-> 0]
UnmountScene ==
  /\ scene.mounted
  /\ Rests(NoScene, [browser EXCEPT !.entries = <<>>, !.callbacks = @ \ {scene.frame}])
  /\ UNCHANGED shell

-----------------------------------------------------------------------------
(* The frame around it: at most one callback out for the scroll, one for    *)
(* the pointer.                                                             *)

NoShell == [mounted |-> FALSE, reduced |-> FALSE, shown |-> {}, moved |-> {}, asked |-> {},
            pointing |-> "unset"]
MountShell ==
  /\ ~shell.mounted
  /\ shell' = [shell EXCEPT !.mounted = TRUE, !.reduced = browser.less]
  /\ UNCHANGED <<browser, scene>>

\* An element is shown once, and moves into place unless less motion is preferred.
Shown(s, elements) ==
  [s EXCEPT !.shown = @ \cup elements, !.moved = IF s.reduced THEN @ ELSE @ \cup (elements \ s.shown)]
Reveal ==
  \E elements \in SUBSET (Revealed \ shell.shown) :
    /\ shell.mounted /\ elements # {}
    /\ shell' = Shown(shell, elements)
    /\ UNCHANGED <<browser, scene>>

ShellAsks(what) ==
  /\ shell.mounted /\ what \notin shell.asked
  /\ what = "pointer" => ~shell.reduced
  /\ shell' = [shell EXCEPT !.asked = @ \cup {what}]
  /\ UNCHANGED <<browser, scene>>
ShellDraws(what) ==
  /\ what \in shell.asked
  /\ shell' = [shell EXCEPT !.asked = @ \ {what}, !.pointing = IF what = "pointer" THEN "tilted" ELSE @]
  /\ UNCHANGED <<browser, scene>>

\* Leaving cancels both, and takes its styles away; what was shown stays shown.
UnmountShell ==
  /\ shell.mounted
  /\ shell' = [shell EXCEPT !.mounted = FALSE, !.asked = {}, !.pointing = "unset"]
  /\ UNCHANGED <<browser, scene>>

\* Less motion: nothing drawn moves, everything is shown, the pointer is centred.
OnPreferenceChange ==
  /\ LET b == [browser EXCEPT !.less = ~@]
     IN IF scene.mounted /\ scene.heeds
        THEN Flagged(~b.less, [scene EXCEPT !.reduced = b.less], b)
        ELSE Rests(scene, b)
  /\ shell' = IF ~shell.mounted THEN shell
              ELSE IF browser.less THEN [shell EXCEPT !.reduced = FALSE]
              ELSE [Shown([shell EXCEPT !.reduced = TRUE], Revealed) EXCEPT !.pointing = "centred"]

-----------------------------------------------------------------------------

MotionInit ==
  /\ browser \in [visible : BOOLEAN, less : BOOLEAN, callbacks : {{}}, entries : {<<>>}]
  /\ scene = NoScene
  /\ shell = NoShell

MotionNext ==
  \/ \E id \in Frames : Animate(id)
  \/ OnVisibility \/ OnPreferenceChange \/ Observed \/ UnmountScene
  \/ \E seen \in BOOLEAN : Scroll(seen) \/ MountScene(seen)
  \/ MountShell \/ Reveal \/ UnmountShell
  \/ \E what \in {"scroll", "pointer"} : ShellAsks(what) \/ ShellDraws(what)

-----------------------------------------------------------------------------
(* Properties                                                               *)

\* However the page is hidden, shown, scrolled and remounted, and the preference
\* changed, the browser holds one callback of the scene while its loop is wanted and
\* none when it is not, and the frame to cancel is that one: never two loops drawing,
\* never a loop that has died (LabMotion.tsx:311-373, ModelObservatory.tsx:343-399).
OneLoop ==
  /\ browser.callbacks = IF scene.mounted /\ Wanted(scene) THEN {scene.frame} ELSE {}
  /\ scene.frame # 0 <=> browser.callbacks # {}
=============================================================================

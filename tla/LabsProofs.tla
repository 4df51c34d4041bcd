----------------------------- MODULE LabsProofs -----------------------------
EXTENDS Labs, FoldLemmas, FiniteSetTheorems, TLAPS
(***************************************************************************)
(* Claims about the pages of the labs that hold for any number of frames,  *)
(* reads of the inventory and lines of the console.  The pages share no    *)
(* state, so each claim rests on an invariant of its own page: a scene     *)
(* holds the one callback it may cancel (LoopOK), the timers set are among *)
(* the one the map's handle names (PollOK), a command that is running      *)
(* stands above nothing but announcements (ConsoleOK), the instants a run  *)
(* was under pressure follow one another from the start of its incident    *)
(* (StrainOK), and of the loops of a player at most one may still write,   *)
(* right after the lines it has written (PlayerOK).  What the map draws of *)
(* its links is a matter of the fold that draws them (Tallies).            *)
(***************************************************************************)

\* A step of the labs is a step of one page; the others stand still.
LEMMA OneLabSteps ==
  ASSUME [LabsNext]_labsVars
  PROVE  /\ (MotionNext \/ UNCHANGED motionVars)
         /\ (ConsoleNext \/ UNCHANGED consoleVars)
         /\ (MapNext \/ UNCHANGED mapVars)
         /\ (AiNext \/ UNCHANGED aiVars)
         /\ (EngineNext \/ UNCHANGED engineVars)
         /\ (PlayerNext \/ UNCHANGED playerVars)
BY DEF LabsNext, labsVars, EngineSteps, PlayerSteps, RangeSteps, AiSteps, MotionSteps,
       ConsoleSteps, MapSteps

-----------------------------------------------------------------------------
(* The moving pictures.                                                    *)

Scenes == [mounted : BOOLEAN, heeds : BOOLEAN, active : BOOLEAN, inView : BOOLEAN,
           reduced : BOOLEAN, frame : Frames \cup {0}]
Browsers == [visible : BOOLEAN, less : BOOLEAN, callbacks : SUBSET Frames,
             entries : Seq(BOOLEAN)]

\* What OneLoop says of one scene and one browser; a scene that is not on the page
\* wants no frame.
Holds(s, b) ==
  /\ b.callbacks = IF Wanted(s) THEN {s.frame} ELSE {}
  /\ s.frame # 0 <=> b.callbacks # {}

LoopOK ==
  /\ browser \in Browsers /\ scene \in Scenes
  /\ ~scene.mounted => ~scene.active /\ browser.entries = <<>>
  /\ Holds(scene, browser)

LEMMA NoEntries == <<>> \in Seq(BOOLEAN)
OBVIOUS

\* A fresh id is one of the browser's.
LEMMA UnusedIs == Unused({}) \in Frames /\ Unused({}) # 0
<1>1. \E id \in Frames : id \notin {}
  BY FramesAssumption
<1> QED
  BY <1>1, FramesAssumption DEF Unused

\* Asked for when none is out, one callback is out and it is the one held.
LEMMA RequestsHold ==
  ASSUME NEW s \in Scenes, NEW b \in Browsers, Wanted(s), b.callbacks = {}, Requests(s, b)
  PROVE  /\ scene' \in Scenes /\ browser' \in Browsers /\ Holds(scene', browser')
         /\ scene' = [s EXCEPT !.frame = scene'.frame] /\ browser'.entries = b.entries
<1> DEFINE id == Unused(b.callbacks)
<1>1. id \in Frames /\ id # 0
  BY UnusedIs
<1> HIDE DEF id
<1>2. scene' = [s EXCEPT !.frame = id] /\ browser' = [b EXCEPT !.callbacks = @ \cup {id}]
  BY DEF Requests, id
<1>3. scene' \in Scenes /\ scene'.frame = id /\ Wanted(scene')
  BY <1>1, <1>2 DEF Scenes, Wanted
<1>4. browser' \in Browsers /\ browser'.callbacks = {id} /\ browser'.entries = b.entries
  BY <1>1, <1>2 DEF Browsers
<1> QED
  BY <1>1, <1>2, <1>3, <1>4 DEF Holds, Scenes

\* start() on a scene that holds no frame, or the one it may.
LEMMA RestartedHolds ==
  ASSUME NEW s \in Scenes, NEW b \in Browsers, Restarted(s, b),
         \/ Holds(s, b)
         \/ s.frame = 0 /\ b.callbacks = {}
  PROVE  /\ scene' \in Scenes /\ browser' \in Browsers /\ Holds(scene', browser')
         /\ scene' = [s EXCEPT !.frame = scene'.frame] /\ browser'.entries = b.entries
<1>1. CASE s.frame = 0 /\ Wanted(s)
  <2>1. b.callbacks = {}
    BY <1>1 DEF Holds
  <2> QED
    BY <1>1, <2>1, RequestsHold DEF Restarted
<1>2. CASE ~(s.frame = 0 /\ Wanted(s))
  <2>1. scene' = s /\ browser' = b
    BY <1>2 DEF Restarted, Rests
  <2>2. Holds(s, b)
    BY <1>2 DEF Holds
  <2> QED
    BY <2>1, <2>2 DEF Scenes
<1> QED
  BY <1>1, <1>2

\* A flag has changed from a state in which one callback was held as wanted: what the
\* flag forbids is cancelled, and what it allows is asked for.
LEMMA FlaggedHolds ==
  ASSUME NEW old \in Scenes, NEW s \in Scenes, NEW b \in Browsers, NEW allowed \in BOOLEAN,
         Holds(old, b), s.frame = old.frame, Flagged(allowed, s, b),
         allowed => (Wanted(old) => Wanted(s)), ~allowed => ~Wanted(s)
  PROVE  /\ scene' \in Scenes /\ browser' \in Browsers /\ Holds(scene', browser')
         /\ scene' = [s EXCEPT !.frame = scene'.frame] /\ browser'.entries = b.entries
<1>1. CASE ~allowed /\ s.frame # 0
  <2> DEFINE t == [s EXCEPT !.frame = 0]
             c == [b EXCEPT !.callbacks = @ \ {s.frame}]
  <2>1. t \in Scenes /\ t.frame = 0
    BY DEF Scenes
  <2>2. c \in Browsers /\ c.callbacks = {} /\ c.entries = b.entries
    BY <1>1 DEF Browsers, Holds
  <2>3. Restarted(t, c)
    BY <1>1 DEF Flagged
  <2>4. \A f : [t EXCEPT !.frame = f] = [s EXCEPT !.frame = f]
    BY DEF Scenes
  <2> HIDE DEF t, c
  <2> QED
    BY <2>1, <2>2, <2>3, <2>4, RestartedHolds
<1>2. CASE ~(~allowed /\ s.frame # 0)
  <2>1. Restarted(s, b)
    BY <1>2 DEF Flagged
  <2>2. Holds(s, b) \/ (s.frame = 0 /\ b.callbacks = {})
    BY <1>2 DEF Holds
  <2> QED
    BY <2>1, <2>2, RestartedHolds
<1> QED
  BY <1>1, <1>2

\* A mounted scene after one of its flags has changed.
LEMMA FlaggedLoop ==
  ASSUME LoopOK, scene.mounted, NEW s \in Scenes, NEW b \in Browsers, NEW allowed \in BOOLEAN,
         s.mounted, s.frame = scene.frame, b.callbacks = browser.callbacks,
         Flagged(allowed, s, b),
         allowed => (Wanted(scene) => Wanted(s)), ~allowed => ~Wanted(s)
  PROVE  LoopOK'
<1>1. scene \in Scenes /\ Holds(scene, b)
  BY DEF LoopOK, Holds
<1>2. /\ scene' \in Scenes /\ browser' \in Browsers /\ Holds(scene', browser')
      /\ scene' = [s EXCEPT !.frame = scene'.frame]
  BY <1>1, FlaggedHolds
<1>3. scene'.mounted
  BY <1>2 DEF Scenes
<1> QED
  BY <1>2, <1>3 DEF LoopOK, Holds, Wanted

LEMMA SceneInv ==
  ASSUME LoopOK, \/ \E id \in Frames : Animate(id)
                 \/ OnVisibility \/ OnPreferenceChange \/ Observed \/ UnmountScene
                 \/ \E seen \in BOOLEAN : Scroll(seen) \/ MountScene(seen)
  PROVE  LoopOK'
<1>l. /\ browser \in Browsers /\ scene \in Scenes /\ Holds(scene, browser)
      /\ ~scene.mounted => ~scene.active /\ browser.entries = <<>>
  BY DEF LoopOK
<1>1. ASSUME NEW id \in Frames, Animate(id) PROVE LoopOK'
  <2> DEFINE b == [browser EXCEPT !.callbacks = @ \ {id}]
  <2>1. Wanted(scene) /\ browser.callbacks = {scene.frame} /\ id = scene.frame
    BY <1>l, <1>1 DEF Animate, Holds
  <2>2. b \in Browsers /\ b.callbacks = {} /\ b.entries = browser.entries
    BY <1>l, <2>1 DEF Browsers
  <2>3. Requests(scene, b)
    BY <1>1, <2>1 DEF Animate
  <2> HIDE DEF b
  <2>4. /\ scene' \in Scenes /\ browser' \in Browsers /\ Holds(scene', browser')
        /\ scene' = [scene EXCEPT !.frame = scene'.frame]
    BY <1>l, <2>1, <2>2, <2>3, RequestsHold
  <2>5. scene'.mounted
    BY <1>l, <2>1, <2>4 DEF Wanted, Scenes
  <2> QED
    BY <2>4, <2>5 DEF LoopOK, Holds, Wanted
<1>2. ASSUME OnVisibility PROVE LoopOK'
  <2> DEFINE b == [browser EXCEPT !.visible = ~@]
             s == [scene EXCEPT !.active = b.visible]
  <2>1. /\ b \in Browsers /\ b.callbacks = browser.callbacks /\ b.entries = browser.entries
        /\ b.visible \in BOOLEAN
    BY <1>l DEF Browsers
  <2>2. /\ s \in Scenes /\ s.frame = scene.frame /\ s.mounted = scene.mounted
        /\ s.active = b.visible /\ s.inView = scene.inView /\ s.reduced = scene.reduced
    BY <1>l, <2>1 DEF Scenes
  <2>3. IF scene.mounted THEN Flagged(b.visible, s, b) ELSE Rests(scene, b)
    BY <1>2 DEF OnVisibility
  <2> HIDE DEF b, s
  <2>4. CASE scene.mounted
    BY <2>1, <2>2, <2>3, <2>4, FlaggedLoop DEF Wanted
  <2>5. CASE ~scene.mounted
    BY <1>l, <2>1, <2>3, <2>5 DEF Rests, LoopOK, Holds
  <2> QED
    BY <2>4, <2>5
<1>3. ASSUME OnPreferenceChange PROVE LoopOK'
  <2> DEFINE b == [browser EXCEPT !.less = ~@]
             s == [scene EXCEPT !.reduced = b.less]
  <2>1. /\ b \in Browsers /\ b.callbacks = browser.callbacks /\ b.entries = browser.entries
        /\ b.less \in BOOLEAN
    BY <1>l DEF Browsers
  <2>2. /\ s \in Scenes /\ s.frame = scene.frame /\ s.mounted = scene.mounted
        /\ s.active = scene.active /\ s.inView = scene.inView /\ s.reduced = b.less
    BY <1>l, <2>1 DEF Scenes
  <2>3. IF scene.mounted /\ scene.heeds THEN Flagged(~b.less, s, b) ELSE Rests(scene, b)
    BY <1>3 DEF OnPreferenceChange
  <2> HIDE DEF b, s
  <2>4. CASE scene.mounted /\ scene.heeds
    BY <2>1, <2>2, <2>3, <2>4, FlaggedLoop DEF Wanted
  <2>5. CASE ~(scene.mounted /\ scene.heeds)
    BY <1>l, <2>1, <2>3, <2>5 DEF Rests, LoopOK, Holds
  <2> QED
    BY <2>4, <2>5
<1>4. ASSUME Observed PROVE LoopOK'
  <2> DEFINE seen == Head(browser.entries)
             b == [browser EXCEPT !.entries = <<>>]
             s == [scene EXCEPT !.inView = seen]
  <2>1. seen \in BOOLEAN /\ scene.mounted
    <3>1. browser.entries \in Seq(BOOLEAN) /\ browser.entries # <<>>
      BY <1>l, <1>4 DEF Observed, Browsers
    <3> QED
      BY <1>l, <3>1
  <2>2. b \in Browsers /\ b.callbacks = browser.callbacks
    <3>1. PICK entries \in Seq(BOOLEAN) : entries = <<>>
      BY NoEntries
    <3>2. b = [browser EXCEPT !.entries = entries]
      BY <3>1
    <3> HIDE DEF b
    <3> QED
      BY <1>l, <3>2 DEF Browsers
  <2>3. /\ s \in Scenes /\ s.frame = scene.frame /\ s.mounted = scene.mounted
        /\ s.active = scene.active /\ s.inView = seen /\ s.reduced = scene.reduced
    BY <1>l, <2>1 DEF Scenes
  <2>4. Flagged(seen, s, b)
    BY <1>4 DEF Observed
  <2> HIDE DEF b, s, seen
  <2> QED
    BY <2>1, <2>2, <2>3, <2>4, FlaggedLoop DEF Wanted
<1>5. ASSUME UnmountScene PROVE LoopOK'
  <2>1. /\ scene' = NoScene
        /\ browser' = [browser EXCEPT !.entries = <<>>, !.callbacks = @ \ {scene.frame}]
    BY <1>5 DEF UnmountScene, Rests
  <2>2. browser' \in Browsers /\ browser'.entries = <<>> /\ browser'.callbacks = {}
    <3>1. PICK entries \in Seq(BOOLEAN) : entries = <<>>
      BY NoEntries
    <3>2. browser.callbacks \ {scene.frame} = {}
      BY <1>l DEF Holds
    <3>3. browser' = [browser EXCEPT !.entries = entries, !.callbacks = {}]
      BY <2>1, <3>1, <3>2
    <3> QED
      BY <1>l, <3>1, <3>3 DEF Browsers
  <2> QED
    BY <2>1, <2>2 DEF LoopOK, Holds, Wanted, NoScene, Scenes
<1>6. ASSUME NEW seen \in BOOLEAN, Scroll(seen) PROVE LoopOK'
  <2>1. /\ browser' = [browser EXCEPT !.entries = Append(@, seen)] /\ scene' = scene
        /\ scene.mounted
    BY <1>6 DEF Scroll
  <2>2. browser' \in Browsers /\ browser'.callbacks = browser.callbacks
    <3>1. browser.entries \in Seq(BOOLEAN) /\ browser.callbacks \in SUBSET Frames
      BY <1>l DEF Browsers
    <3>2. Append(browser.entries, seen) \in Seq(BOOLEAN)
      BY <3>1
    <3> DEFINE entries == Append(browser.entries, seen)
    <3> HIDE DEF entries
    <3>3. browser' = [browser EXCEPT !.entries = entries]
      BY <2>1 DEF entries
    <3>4. entries \in Seq(BOOLEAN)
      BY <3>2 DEF entries
    <3> QED
      BY <1>l, <3>3, <3>4 DEF Browsers
  <2> QED
    BY <1>l, <2>1, <2>2 DEF LoopOK, Holds
<1>7. ASSUME NEW heeds \in BOOLEAN, MountScene(heeds) PROVE LoopOK'
  <2> DEFINE s == [mounted |-> TRUE, heeds |-> heeds, active |-> browser.visible,
                   inView |-> TRUE, reduced |-> heeds /\ browser.less, frame |-> 0]
  <2>1. s \in Scenes /\ s.frame = 0 /\ s.mounted
    BY <1>l DEF Scenes, Browsers
  <2>2. browser.callbacks = {} /\ Restarted(s, browser)
    BY <1>l, <1>7 DEF MountScene, Holds, Wanted
  <2> HIDE DEF s
  <2>3. /\ scene' \in Scenes /\ browser' \in Browsers /\ Holds(scene', browser')
        /\ scene' = [s EXCEPT !.frame = scene'.frame]
    BY <1>l, <2>1, <2>2, RestartedHolds
  <2>4. scene'.mounted
    BY <2>1, <2>3 DEF Scenes
  <2> QED
    BY <2>3, <2>4 DEF LoopOK, Holds, Wanted
<1> QED
  BY <1>1, <1>2, <1>3, <1>4, <1>5, <1>6, <1>7

LEMMA LoopStep == ASSUME LoopOK, MotionNext \/ UNCHANGED motionVars PROVE LoopOK'
<1>1. CASE UNCHANGED <<browser, scene>>
  BY <1>1 DEF LoopOK, Holds, Wanted
<1>2. CASE MountShell \/ Reveal \/ UnmountShell
  BY <1>1, <1>2 DEF MountShell, Reveal, UnmountShell
<1>3. CASE \E what \in {"scroll", "pointer"} : ShellAsks(what) \/ ShellDraws(what)
  BY <1>1, <1>3 DEF ShellAsks, ShellDraws
<1> QED
  BY <1>1, <1>2, <1>3, SceneInv DEF MotionNext, motionVars

\* However the page is hidden, scrolled and remounted, and the preference changed, the
\* browser holds one callback of a scene that is wanted and none of one that is not.
THEOREM LoopsAreSingle == LabsSpec => []OneLoop
<1>1. LabsInit => LoopOK
  <2> SUFFICES ASSUME LabsInit PROVE LoopOK
    OBVIOUS
  <2>1. /\ browser \in [visible : BOOLEAN, less : BOOLEAN, callbacks : {{}}, entries : {<<>>}]
        /\ scene = NoScene
    BY DEF LabsInit, MotionInit
  <2>2. browser \in Browsers /\ browser.callbacks = {} /\ browser.entries = <<>>
    BY <2>1, NoEntries DEF Browsers
  <2> QED
    BY <2>1, <2>2 DEF LoopOK, Holds, Wanted, NoScene, Scenes
<1>2. LoopOK /\ [LabsNext]_labsVars => LoopOK'
  BY LoopStep, OneLabSteps
<1>3. LoopOK => OneLoop
  BY DEF LoopOK, Holds, Wanted, OneLoop, Scenes
<1> QED
  BY <1>1, <1>2, <1>3, PTL DEF LabsSpec

-----------------------------------------------------------------------------
(***************************************************************************)
(* The scenario player, for any recordings.  Of the loops asleep at an     *)
(* await at most one is awake to write, and only while the player plays;   *)
(* the lines it has written of its step are the last ones on the           *)
(* terminals.                                                              *)
(***************************************************************************)

ScriptSteps == [say : BOOLEAN, run : BOOLEAN, out : Nat]

ScriptOK == script \in Seq(ScriptSteps) /\ script # << >>

Writes(l) == loops[l].line >= 0 /\ loops[l].gen = gen

PlayerTypeOK ==
  /\ stepAt \in Nat \ {0} /\ gen \in Nat /\ playing \in BOOLEAN
  /\ loops \in Seq([gen : Nat, line : Int])
  /\ out \in Seq(Nat \X Nat)

LoopsOK ==
  /\ \A l \in DOMAIN loops : loops[l].gen <= gen
  /\ \A l \in DOMAIN loops : Writes(l) => playing /\ stepAt \in Steps
  /\ \A l, m \in DOMAIN loops : Writes(l) /\ Writes(m) => l = m

\* The last lines on the terminals are the first n of the step being played.
Begun(n) ==
  /\ n <= Len(out) /\ n <= Played(script[stepAt])
  /\ \A i \in 1..n : out[Len(out) - n + i] = <<stepAt, i>>

PlayerOK ==
  /\ ScriptOK /\ PlayerTypeOK /\ LoopsOK /\ OutputFollowsTheScript
  /\ \A l \in DOMAIN loops : Writes(l) => Begun(loops[l].line)

\* Every script is a sequence of steps, and not an empty one.
LEMMA ScriptsAreTyped == \A s \in Scripts : s \in Seq(ScriptSteps) /\ s # << >>
<1> SUFFICES ASSUME NEW events \in Recordings
             PROVE  ScriptOf(events) \in Seq(ScriptSteps) /\ ScriptOf(events) # << >>
  BY Zenon DEF Scripts
<1>1. events \in Seq([step : Int, kind : {"narration", "command", "output", "detection"}])
      /\ events # << >>
  BY RecordingsAssumption
<1>2. DOMAIN events = 1..Len(events) /\ Len(events) \in Nat \ {0}
  BY <1>1
<1>3. IsFiniteSet(DOMAIN events) /\ 1 \in DOMAIN events
  BY <1>2, FS_Interval
<1>4. Numbers(events) # {} /\ IsFiniteSet(Numbers(events))
  <2> DEFINE key == [i \in DOMAIN events |-> KeyOf(events, i)]
  <2>1. \A i \in DOMAIN events : key[i] = KeyOf(events, i)
    BY Zenon
  <2>2. Numbers(events) = {key[i] : i \in DOMAIN events}
    BY <2>1, Zenon DEF Numbers
  <2>3. key \in [DOMAIN events -> Numbers(events)]
    BY Zenon DEF Numbers
  <2> HIDE DEF key
  <2>4. key \in Surjection(DOMAIN events, Numbers(events))
    BY <2>2, <2>3, Zenon DEF Surjection
  <2>5. KeyOf(events, 1) \in Numbers(events)
    BY <1>3, Zenon DEF Numbers
  <2> QED
    BY <1>3, <2>4, <2>5, FS_Surjection
<1> DEFINE n == Cardinality(Numbers(events))
<1>5. n \in Nat \ {0}
  BY <1>4, FS_CardinalityType, FS_EmptySet
<1>6. ASSUME NEW number PROVE StepOf(events, number) \in ScriptSteps
  <2> DEFINE Of(kinds) == {i \in DOMAIN events : KeyOf(events, i) = number
                                               /\ events[i].kind \in kinds}
  <2>1. IsFiniteSet(Of({"output", "detection"}))
    BY <1>3, FS_Subset
  <2>2. Cardinality(Of({"output", "detection"})) \in Nat
    BY <2>1, FS_CardinalityType
  <2>3. StepOf(events, number) =
          [say |-> Of({"narration"}) # {}, run |-> Of({"command"}) # {},
           out |-> Cardinality(Of({"output", "detection"}))]
    BY Zenon DEF StepOf
  <2> HIDE DEF Of
  <2> QED
    BY <2>2, <2>3 DEF ScriptSteps
<1> DEFINE Number(k) == CHOOSE m \in Numbers(events) :
                          Cardinality({i \in Numbers(events) : i < m}) = k - 1
<1>7. ScriptOf(events) = [k \in 1..n |-> StepOf(events, Number(k))]
  BY Zenon DEF ScriptOf
<1> HIDE DEF n, Number
<1>8. ScriptOf(events) \in [1..n -> ScriptSteps] /\ DOMAIN ScriptOf(events) = 1..n
  BY <1>6, <1>7, Zenon
<1>9. ScriptOf(events) \in Seq(ScriptSteps)
  BY <1>5, <1>8, SeqDef
<1>10. 1 \in DOMAIN ScriptOf(events)
  BY <1>5, <1>8
<1> QED
  BY <1>9, <1>10

\* What is written on the terminals for a step.
LEMMA PlayedIsNat ==
  ASSUME ScriptOK
  PROVE  /\ Steps = 1..Len(script) /\ Len(script) \in Nat \ {0}
         /\ \A k \in Steps : Played(script[k]) \in Nat
         /\ \A k \in Steps : Lines(k) \in Seq(Nat \X Nat) /\ Len(Lines(k)) = Played(script[k])
                             /\ \A i \in 1..Played(script[k]) : Lines(k)[i] = <<k, i>>
<1>1. Steps = 1..Len(script) /\ Len(script) \in Nat \ {0}
  BY DEF ScriptOK, Steps
<1>2. ASSUME NEW k \in Steps PROVE Played(script[k]) \in Nat
  <2>1. script[k] \in ScriptSteps
    BY <1>1 DEF ScriptOK
  <2>2. script[k].say \in BOOLEAN /\ script[k].run \in BOOLEAN /\ script[k].out \in Nat
    BY <2>1 DEF ScriptSteps
  <2> QED
    BY <2>2 DEF Played
<1>3. ASSUME NEW k \in Steps
      PROVE  Lines(k) \in Seq(Nat \X Nat) /\ Len(Lines(k)) = Played(script[k])
             /\ \A i \in 1..Played(script[k]) : Lines(k)[i] = <<k, i>>
  <2> DEFINE n == Played(script[k])
  <2>1. n \in Nat /\ k \in Nat
    BY <1>1, <1>2
  <2>2. Lines(k) = [i \in 1..n |-> <<k, i>>]
    BY DEF Lines
  <2> HIDE DEF n
  <2>3. Lines(k) \in Seq(Nat \X Nat) /\ Len(Lines(k)) = n
    BY <2>1, <2>2
  <2>4. \A i \in 1..n : Lines(k)[i] = <<k, i>>
    BY <2>2
  <2> QED
    BY <2>3, <2>4 DEF n
<1> QED
  BY <1>1, <1>2, <1>3

Scrubbed(k) == FlattenSeq([j \in 1..k |-> Lines(j)])

\* These lines show the first n steps whole, in order, and nothing else.
Shows(p, n) ==
  /\ p \in Seq(Nat \X Nat)
  /\ \A i, j \in DOMAIN p : i < j => p[i][1] <= p[j][1]
  /\ \A i \in DOMAIN p : p[i][1] <= n
  /\ \A m \in 1..n : \E e \in 0..Len(p) :
       /\ Played(script[m]) <= e
       /\ \A l \in 1..Played(script[m]) : p[e - Played(script[m]) + l] = <<m, l>>
       /\ \A j \in (e + 1)..Len(p) : p[j][1] # m

\* Scrubbing writes every step up to one of them whole, in order.
LEMMA ScrubbedOut == ASSUME ScriptOK, NEW k \in Steps PROVE Shows(Scrubbed(k), k)
<1> DEFINE parts == [j \in 1..k |-> Lines(j)]
<1>1. /\ k \in Nat \ {0} /\ 1..k \subseteq Steps
      /\ \A m \in 1..k : Played(script[m]) \in Nat
      /\ \A m \in 1..k : /\ Lines(m) \in Seq(Nat \X Nat) /\ Len(Lines(m)) = Played(script[m])
                         /\ \A i \in 1..Played(script[m]) : Lines(m)[i] = <<m, i>>
  <2>1. Steps = 1..Len(script) /\ Len(script) \in Nat
    BY PlayedIsNat
  <2>2. k \in Nat \ {0} /\ 1..k \subseteq Steps
    BY <2>1
  <2> QED
    BY <2>2, PlayedIsNat, Zenon
<1>2. parts \in Seq(Seq(Nat \X Nat)) /\ Len(parts) = k /\ \A j \in 1..k : parts[j] = Lines(j)
  BY <1>1
<1>3. PICK f \in [1..k -> Seq(Nat \X Nat)] :
         /\ FlattenSeq(parts) = f[k]
         /\ f[1] = parts[1]
         /\ \A i \in 1..(k - 1) : f[i + 1] = f[i] \o parts[i + 1]
  <2>1. parts \in Seq(Seq(Nat \X Nat)) /\ parts # << >> /\ Len(parts) = k
    BY <1>1, <1>2
  <2> HIDE DEF parts
  <2>2. \E f \in [1..Len(parts) -> Seq(Nat \X Nat)] :
            /\ FlattenSeq(parts) = f[Len(parts)]
            /\ f[1] = parts[1]
            /\ \A i \in 1..(Len(parts) - 1) : f[i + 1] = f[i] \o parts[i + 1]
    BY <2>1, FlattenedInTurn, Zenon
  <2> QED
    BY <2>1, <2>2, Zenon
<1> HIDE DEF parts
<1>4. Shows(<< >>, 0)
  BY DEF Shows
<1>5. ASSUME NEW n \in Nat, n + 1 \in 1..k, NEW p, Shows(p, n)
      PROVE  Shows(p \o Lines(n + 1), n + 1)
  <2> USE DEF Shows
  <2> DEFINE h == Played(script[n + 1])
             q == p \o Lines(n + 1)
  <2>1. h \in Nat /\ Lines(n + 1) \in Seq(Nat \X Nat) /\ Len(Lines(n + 1)) = h
        /\ \A i \in 1..h : Lines(n + 1)[i] = <<n + 1, i>>
    BY <1>1, <1>5
  <2>2. p \in Seq(Nat \X Nat) /\ Len(p) \in Nat
    BY <1>5
  <2>3. /\ q \in Seq(Nat \X Nat) /\ Len(q) = Len(p) + h
        /\ \A i \in 1..Len(p) : q[i] = p[i]
        /\ \A i \in 1..h : q[Len(p) + i] = <<n + 1, i>>
    <3> DEFINE more == Lines(n + 1)
    <3>1. more \in Seq(Nat \X Nat) /\ Len(more) = h /\ q = p \o more
          /\ \A i \in 1..h : more[i] = <<n + 1, i>>
      BY <2>1
    <3> HIDE DEF h, more, q
    <3>c. /\ q \in Seq(Nat \X Nat) /\ Len(q) = Len(p) + Len(more)
          /\ \A i \in 1..Len(p) + Len(more) : q[i] = IF i <= Len(p) THEN p[i]
                                                     ELSE more[i - Len(p)]
      BY <2>2, <3>1, ConcatProperties, Zenon
    <3>2. /\ q \in Seq(Nat \X Nat) /\ Len(q) = Len(p) + h
          /\ \A i \in 1..Len(p) : q[i] = p[i]
      BY <2>1, <2>2, <3>1, <3>c
    <3>3. \A i \in 1..h : q[Len(p) + i] = more[i]
      <4>1. PICK u \in Nat : u = Len(p)
        BY <2>2
      <4>2. \A j \in 1..u + h : q[j] = IF j <= u THEN p[j] ELSE more[j - u]
        BY <3>1, <3>c, <4>1, Zenon
      <4> SUFFICES ASSUME NEW i \in 1..h PROVE q[u + i] = more[i]
        BY <4>1, Zenon
      <4>3. u + i \in 1..u + h /\ ~ (u + i <= u) /\ u + i - u = i
        BY <2>1
      <4>4. q[u + i] = more[u + i - u]
        BY <4>2, <4>3
      <4> QED
        BY <4>3, <4>4, Zenon
    <3> QED
      BY <3>1, <3>2, <3>3, Zenon
  <2> HIDE DEF q, h
  <2>4. \A i \in (Len(p) + 1)..Len(q) : q[i] = <<n + 1, i - Len(p)>>
    <3> SUFFICES ASSUME NEW i \in (Len(p) + 1)..Len(q) PROVE q[i] = <<n + 1, i - Len(p)>>
      OBVIOUS
    <3>1. i - Len(p) \in 1..h /\ Len(p) + (i - Len(p)) = i
      BY <2>1, <2>2, <2>3
    <3> QED
      BY <2>3, <3>1
  <2>5. \A i \in DOMAIN q : i \in 1..Len(p) \/ i \in (Len(p) + 1)..Len(q)
    BY <2>2, <2>3
  <2>6. \A i \in 1..Len(p) : q[i][1] = p[i][1] /\ p[i][1] <= n /\ p[i][1] \in Nat
    BY <1>5, <2>2, <2>3
  <2>7. \A i \in (Len(p) + 1)..Len(q) : q[i][1] = n + 1
    BY <2>4
  <2>8. \A i \in DOMAIN q : q[i][1] <= n + 1
    BY <2>5, <2>6, <2>7
  <2>9. ASSUME NEW i \in DOMAIN q, NEW j \in DOMAIN q, i < j PROVE q[i][1] <= q[j][1]
    <3>1. CASE j \in 1..Len(p)
      <4>1. i \in 1..Len(p)
        BY <2>2, <2>3, <2>9, <3>1
      <4>2. p[i][1] <= p[j][1]
        <5>1. \A x, y \in DOMAIN p : x < y => p[x][1] <= p[y][1]
          BY <1>5
        <5>2. i \in DOMAIN p /\ j \in DOMAIN p
          BY <2>2, <3>1, <4>1
        <5> QED
          BY <2>9, <5>1, <5>2, Zenon
      <4> QED
        BY <2>6, <3>1, <4>1, <4>2
    <3>2. CASE j \in (Len(p) + 1)..Len(q)
      BY <2>7, <2>8, <3>2
    <3> QED
      BY <2>5, <3>1, <3>2
  <2>10. ASSUME NEW m \in 1..(n + 1)
         PROVE  \E e \in 0..Len(q) :
                  /\ Played(script[m]) <= e
                  /\ \A l \in 1..Played(script[m]) : q[e - Played(script[m]) + l] = <<m, l>>
                  /\ \A j \in (e + 1)..Len(q) : q[j][1] # m
    <3>1. CASE m = n + 1
      <4>1. Len(q) \in 0..Len(q) /\ h <= Len(q) /\ Len(q) - h = Len(p)
        BY <2>1, <2>2, <2>3
      <4>2. \A l \in 1..h : q[Len(q) - h + l] = <<m, l>>
        BY <2>3, <3>1, <4>1
      <4>3. \A j \in (Len(q) + 1)..Len(q) : q[j][1] # m
        BY <2>2, <2>3, <2>1
      <4>4. h = Played(script[m])
        BY <3>1 DEF h
      <4> QED
        BY <4>1, <4>2, <4>3, <4>4, Zenon
    <3>2. CASE m # n + 1
      <4>1. m \in 1..n
        BY <1>5, <3>2
      <4>2. PICK e \in 0..Len(p) :
              /\ Played(script[m]) <= e
              /\ \A l \in 1..Played(script[m]) : p[e - Played(script[m]) + l] = <<m, l>>
              /\ \A j \in (e + 1)..Len(p) : p[j][1] # m
        BY <1>5, <4>1, Zenon
      <4>3. Played(script[m]) \in Nat
        BY <1>1, <1>5, <4>1
      <4> DEFINE g == Played(script[m])
      <4>4. \A l \in 1..g : e - g + l \in 1..Len(p)
        <5> HIDE DEF g
        <5>1. g <= e /\ g \in Nat
          BY <4>2, <4>3 DEF g
        <5> QED
          BY <2>2, <5>1
      <4>5. \A l \in 1..g : q[e - g + l] = <<m, l>>
        BY <2>3, <4>2, <4>4, Zenon
      <4>6. \A j \in (e + 1)..Len(q) : j \in (e + 1)..Len(p) \/ j \in (Len(p) + 1)..Len(q)
        BY <2>2, <2>3
      <4>7. \A j \in (e + 1)..Len(p) : j \in 1..Len(p)
        BY <2>2
      <4>8. \A j \in (e + 1)..Len(q) : q[j][1] # m
        BY <2>3, <2>7, <3>2, <4>2, <4>6, <4>7, Zenon
      <4>9. e \in 0..Len(q)
        BY <2>1, <2>2, <2>3
      <4> QED
        BY <4>2, <4>5, <4>8, <4>9, Zenon
    <3> QED
      BY <3>1, <3>2
  <2> QED
    BY <2>3, <2>8, <2>9, <2>10 DEF q
<1> DEFINE T == {n \in Nat : n \in 1..k => Shows(f[n], n)}
<1>6. 0 \in T
  OBVIOUS
<1>7. ASSUME NEW n \in Nat, n \in T PROVE n + 1 \in T
  <2> SUFFICES ASSUME n + 1 \in 1..k PROVE Shows(f[n + 1], n + 1)
    <3>1. n + 1 \in Nat
      OBVIOUS
    <3> QED
      BY <3>1
  <2>1. CASE n = 0
    <3>1. f[1] = << >> \o Lines(1)
      BY <1>1, <1>2, <1>3
    <3>2. n + 1 = 1
      BY <2>1
    <3> QED
      BY <1>4, <1>5, <2>1, <3>1, <3>2, Zenon
  <2>2. CASE n # 0
    <3>1. n \in 1..k /\ n \in 1..(k - 1)
      <4>1. k \in Nat
        BY <1>1
      <4> HIDE DEF T
      <4> QED
        BY <2>2, <4>1
    <3>2. f[n + 1] = f[n] \o Lines(n + 1)
      BY <1>2, <1>3, <3>1
    <3>3. Shows(f[n], n)
      <4> QED
        BY <1>7, <3>1
    <3> QED
      BY <1>5, <3>2, <3>3, Zenon
  <2> QED
    BY <2>1, <2>2
<1>8. Nat \subseteq T
  <2> HIDE DEF T
  <2> QED
    BY <1>6, <1>7, NatSetInduction
<1>9. Shows(f[k], k)
  <2>1. k \in Nat /\ k \in 1..k
    BY <1>1
  <2> QED
    BY <1>8, <2>1
<1>10. Scrubbed(k) = f[k]
  BY <1>3, Zenon DEF parts, Scrubbed
<1> QED
  BY <1>9, <1>10, Zenon

OnLine(before, l, n) == [before EXCEPT ![l].line = n]

LEMMA LineSet ==
  ASSUME NEW before \in Seq([gen : Nat, line : Int]), NEW l \in DOMAIN before, NEW n \in Int
  PROVE  LET after == OnLine(before, l, n) IN
         /\ after \in Seq([gen : Nat, line : Int]) /\ DOMAIN after = DOMAIN before
         /\ \A m \in DOMAIN before : after[m].gen = before[m].gen
         /\ after[l].line = n
         /\ \A m \in DOMAIN before : m # l => after[m].line = before[m].line
<1> DEFINE after == OnLine(before, l, n)
<1>0. DOMAIN before = 1..Len(before)
  OBVIOUS
<1>1. before[l] \in [gen : Nat, line : Int]
  BY <1>0, ElementOfSeq, Zenon
<1> DEFINE r == [before[l] EXCEPT !.line = n]
<1>2. r \in [gen : Nat, line : Int] /\ r.gen = before[l].gen /\ r.line = n
  BY <1>1
<1>3. after = [before EXCEPT ![l] = r]
  BY DEF OnLine
<1> HIDE DEF r, after
<1>4. after \in Seq([gen : Nat, line : Int])
  <2> DEFINE Entries == [gen : Nat, line : Int]
  <2>1. before \in Seq(Entries) /\ l \in 1..Len(before) /\ r \in Entries
    BY <1>0, <1>2
  <2> HIDE DEF Entries
  <2>2. [before EXCEPT ![l] = r] \in Seq(Entries)
    BY <2>1, ExceptSeq
  <2> QED
    BY <1>3, <2>2 DEF Entries
<1>5. DOMAIN after = DOMAIN before /\ after[l] = r
      /\ \A m \in DOMAIN before : m # l => after[m] = before[m]
  BY <1>3, Zenon
<1> QED
  BY <1>2, <1>4, <1>5, Zenon DEF after

\* Nothing a superseded loop does is written, and one that writes goes on where it was.
LEMMA LoopWakes ==
  ASSUME PlayerOK, NEW l \in DOMAIN loops, Wakes(l)
  PROVE  PlayerOK'
<1>s. /\ Steps = 1..Len(script) /\ Len(script) \in Nat \ {0}
      /\ \A k \in Steps : Played(script[k]) \in Nat
  BY PlayedIsNat DEF PlayerOK
<1>t. /\ stepAt \in Nat \ {0} /\ gen \in Nat /\ playing \in BOOLEAN
      /\ loops \in Seq([gen : Nat, line : Int]) /\ out \in Seq(Nat \X Nat)
      /\ script \in Seq(ScriptSteps) /\ script # << >>
  BY DEF PlayerOK, PlayerTypeOK, ScriptOK
<1>l. /\ \A m \in DOMAIN loops : loops[m].gen <= gen
      /\ \A m \in DOMAIN loops : Writes(m) => playing /\ stepAt \in Steps
      /\ \A m, n \in DOMAIN loops : Writes(m) /\ Writes(n) => m = n
      /\ \A m \in DOMAIN loops : Writes(m) => Begun(loops[m].line)
  BY DEF PlayerOK, LoopsOK
<1>o. OutputFollowsTheScript
  BY DEF PlayerOK
<1>u. loops[l].line >= 0 /\ UNCHANGED <<script, gen>>
  BY DEF Wakes
<1>k. Steps' = Steps /\ \A k, e : (WholeAt(k, e) /\ out' = out) => WholeAt(k, e)'
  BY <1>u DEF Steps, WholeAt
<1>e. ASSUME NEW n \in Int, loops' = [loops EXCEPT ![l].line = n]
      PROVE  /\ loops' \in Seq([gen : Nat, line : Int]) /\ DOMAIN loops' = DOMAIN loops
             /\ \A m \in DOMAIN loops : loops'[m].gen = loops[m].gen
             /\ loops'[l].line = n
             /\ \A m \in DOMAIN loops : m # l => loops'[m].line = loops[m].line
  <2>1. loops \in Seq([gen : Nat, line : Int])
    BY <1>t
  <2>2. loops' = OnLine(loops, l, n)
    BY <1>e DEF OnLine
  <2>3. PICK after : after = OnLine(loops, l, n)
    OBVIOUS
  <2>4. /\ after \in Seq([gen : Nat, line : Int]) /\ DOMAIN after = DOMAIN loops
        /\ \A m \in DOMAIN loops : after[m].gen = loops[m].gen
        /\ after[l].line = n
        /\ \A m \in DOMAIN loops : m # l => after[m].line = loops[m].line
    BY <2>1, <2>3, LineSet, Zenon
  <2> QED
    BY <2>2, <2>3, <2>4, Zenon
<1>n. PICK n \in Int : n = loops[l].line
  <2>0. loops \in Seq([gen : Nat, line : Int]) /\ l \in 1..Len(loops)
    BY <1>t
  <2>1. loops[l] \in [gen : Nat, line : Int]
    BY <2>0, ElementOfSeq, Zenon
  <2> QED
    BY <2>1
<1>1. CASE ~ Awake(l)
  <2>1. loops' = [loops EXCEPT ![l].line = -1] /\ UNCHANGED <<playing, stepAt, out>>
    BY <1>1 DEF Wakes, Ended
  <2>2. /\ loops' \in Seq([gen : Nat, line : Int]) /\ DOMAIN loops' = DOMAIN loops
        /\ \A m \in DOMAIN loops : loops'[m].gen = loops[m].gen
        /\ loops'[l].line = -1
        /\ \A m \in DOMAIN loops : m # l => loops'[m].line = loops[m].line
    <3>1. -1 \in Int
      OBVIOUS
    <3> QED
      BY <1>e, <2>1, <3>1, Zenon
  <2>3. ~ Writes(l)'
    BY <2>2 DEF Writes
  <2>4. \A m \in DOMAIN loops : Writes(m)' => m # l /\ Writes(m) /\ loops'[m].line = loops[m].line
    BY <1>u, <2>2, <2>3 DEF Writes
  <2>5. LoopsOK'
    BY <1>l, <1>u, <1>k, <2>1, <2>2, <2>4 DEF LoopsOK
  <2>6. \A m \in DOMAIN loops' : Writes(m)' => Begun(loops[m].line)'
    BY <1>l, <1>u, <2>1, <2>2, <2>4 DEF Begun
  <2>7. OutputFollowsTheScript'
    BY <1>o, <1>k, <2>1, Zenon DEF OutputFollowsTheScript
  <2>8. ScriptOK' /\ PlayerTypeOK'
    BY <1>t, <1>u, <2>1, <2>2 DEF ScriptOK, PlayerTypeOK
  <2> QED
    BY <2>2, <2>4, <2>5, <2>6, <2>7, <2>8 DEF PlayerOK
<1>w. ASSUME Awake(l)
      PROVE  /\ Writes(l) /\ playing /\ stepAt \in Steps /\ n \in Nat
             /\ Begun(n) /\ \A m \in DOMAIN loops : Writes(m) => m = l
  <2>1. Writes(l)
    BY <1>u, <1>w DEF Writes, Awake
  <2>2. n \in Nat
    BY <1>n, <1>u
  <2> QED
    BY <1>l, <1>n, <1>u, <2>1, <2>2
<1>h. ASSUME Awake(l)
      PROVE  /\ Len(out) \in Nat /\ n <= Len(out) /\ n <= Played(script[stepAt])
             /\ Played(script[stepAt]) \in Nat /\ \A i \in 1..n : out[Len(out) - n + i] = <<stepAt, i>>
  <2>1. Len(out) \in Nat
    BY <1>t
  <2>2. Begun(n) /\ Played(script[stepAt]) \in Nat
    BY <1>h, <1>s, <1>w, Zenon
  <2> QED
    BY <2>1, <2>2, Zenon DEF Begun
<1>2. CASE Awake(l) /\ stepAt \in Steps /\ n < Played(script[stepAt])
  <2>1. /\ loops' = [loops EXCEPT ![l].line = n + 1]
        /\ out' = Append(out, <<stepAt, n + 1>>)
        /\ UNCHANGED <<playing, stepAt>>
    BY <1>2, <1>n DEF Wakes
  <2>2. /\ loops' \in Seq([gen : Nat, line : Int]) /\ DOMAIN loops' = DOMAIN loops
        /\ \A m \in DOMAIN loops : loops'[m].gen = loops[m].gen
        /\ loops'[l].line = n + 1
        /\ \A m \in DOMAIN loops : m # l => loops'[m].line = loops[m].line
    <3>1. n + 1 \in Int
      OBVIOUS
    <3> QED
      BY <1>e, <2>1, <3>1, Zenon
  <2>3. \A m \in DOMAIN loops : Writes(m)' => m = l
    BY <1>2, <1>u, <1>w, <2>2 DEF Writes
  <2>4. LoopsOK'
    BY <1>l, <1>u, <1>k, <1>w, <1>2, <2>1, <2>2, <2>3 DEF LoopsOK
  <2>5. /\ out' \in Seq(Nat \X Nat) /\ Len(out') = Len(out) + 1
        /\ \A i \in 1..Len(out) : out'[i] = out[i]
        /\ out'[Len(out) + 1] = <<stepAt, n + 1>>
    <3> DEFINE line == <<stepAt, n + 1>>
    <3>1. line \in Nat \X Nat
      BY <1>2, <1>w, <1>t
    <3>2. out' = Append(out, line)
      BY <2>1
    <3> HIDE DEF line
    <3>3. /\ out' \in Seq(Nat \X Nat) /\ Len(out') = Len(out) + 1
          /\ \A i \in 1..Len(out) : out'[i] = out[i]
          /\ out'[Len(out) + 1] = line
      BY <1>t, <3>1, <3>2
    <3> QED
      BY <3>3 DEF line
  <2>6. Begun(n + 1)'
    <3>0. n \in Nat /\ Len(out) \in Nat /\ n <= Len(out) /\ Len(out') = Len(out) + 1
      BY <1>2, <1>h, <1>w, <2>5, Zenon
    <3>1. n + 1 <= Len(out') /\ n + 1 <= Played(script[stepAt])
      BY <1>2, <1>h, <3>0
    <3>2. ASSUME NEW i \in 1..(n + 1) PROVE out'[Len(out') - (n + 1) + i] = <<stepAt, i>>
      <4>1. CASE i = n + 1
        <5>1. Len(out') - (n + 1) + i = Len(out) + 1
          BY <3>0, <4>1
        <5> QED
          BY <2>5, <4>1, <5>1
      <4>2. CASE i # n + 1
        <5>1. i \in 1..n /\ Len(out') - (n + 1) + i = Len(out) - n + i
              /\ Len(out) - n + i \in 1..Len(out)
          BY <3>0, <4>2
        <5> QED
          BY <1>2, <1>h, <2>5, <5>1, Zenon
      <4> QED
        BY <4>1, <4>2
    <3>3. script' = script /\ stepAt' = stepAt
      BY <1>u, <2>1
    <3> QED
      BY <3>1, <3>2, <3>3, Zenon DEF Begun
  <2>7. OutputFollowsTheScript'
    <3>0. DOMAIN out = 1..Len(out) /\ DOMAIN out' = 1..(Len(out) + 1) /\ Len(out) \in Nat
      BY <1>t, <2>5
    <3>1. \A i \in DOMAIN out : out'[i] = out[i] /\ out'[i][1] \in Nat /\ out'[i][1] <= stepAt
      BY <1>o, <1>t, <2>5, <3>0 DEF OutputFollowsTheScript
    <3>2. out'[Len(out) + 1][1] = stepAt
      BY <2>5
    <3>3. \A i \in DOMAIN out' : out'[i][1] <= stepAt'
      <4> SUFFICES ASSUME NEW i \in DOMAIN out' PROVE out'[i][1] <= stepAt
        BY <2>1
      <4>1. i \in DOMAIN out \/ i = Len(out) + 1
        BY <3>0
      <4>2. stepAt \in Nat /\ stepAt <= stepAt
        BY <1>t
      <4> QED
        BY <3>1, <3>2, <4>1, <4>2, Zenon
    <3>4. ASSUME NEW i \in DOMAIN out', NEW j \in DOMAIN out', i < j
          PROVE  out'[i][1] <= out'[j][1]
      <4>1. CASE j = Len(out) + 1
        BY <2>1, <3>2, <3>3, <4>1
      <4>2. CASE j # Len(out) + 1
        <5>1. i \in DOMAIN out /\ j \in DOMAIN out
          BY <3>0, <3>4, <4>2
        <5>2. out[i][1] <= out[j][1]
          BY <1>o, <3>4, <5>1 DEF OutputFollowsTheScript
        <5> QED
          BY <3>1, <5>1, <5>2
      <4> QED
        BY <4>1, <4>2
    <3>5. ASSUME NEW k \in Steps', k < stepAt' PROVE \E e \in 0..Len(out') : WholeAt(k, e)'
      <4>1. k \in Steps /\ k < stepAt /\ k \in Nat /\ Played(script[k]) \in Nat
        BY <1>k, <1>s, <2>1, <3>5
      <4>2. PICK e \in 0..Len(out) : WholeAt(k, e)
        BY <1>o, <4>1 DEF OutputFollowsTheScript
      <4> DEFINE h == Played(script[k])
      <4>3. /\ h <= e
            /\ \A i \in 1..h : out[e - h + i] = <<k, i>>
            /\ \A j \in (e + 1)..Len(out) : out[j][1] # k
        BY <4>2 DEF WholeAt
      <4>4. h \in Nat
        BY <4>1
      <4> HIDE DEF h
      <4>5. \A i \in 1..h : e - h + i \in 1..Len(out)
        BY <3>0, <4>3, <4>4
      <4>6. \A i \in 1..h : out'[e - h + i] = <<k, i>>
        BY <2>5, <4>3, <4>5, Zenon
      <4>7. ASSUME NEW j \in (e + 1)..Len(out') PROVE out'[j][1] # k
        <5>1. j = Len(out) + 1 \/ (j \in (e + 1)..Len(out) /\ j \in DOMAIN out)
          BY <2>5, <3>0
        <5>2. stepAt # k
          BY <1>t, <4>1
        <5> QED
          BY <3>1, <3>2, <4>3, <5>1, <5>2, Zenon
      <4>8. e \in 0..Len(out')
        BY <2>5, <3>0
      <4>9. WholeAt(k, e)'
        BY <1>u, <4>3, <4>6, <4>7, Zenon DEF WholeAt, h
      <4> QED
        BY <4>8, <4>9
    <3> QED
      BY <3>3, <3>4, <3>5 DEF OutputFollowsTheScript
  <2>8. ScriptOK' /\ PlayerTypeOK'
    BY <1>t, <1>u, <2>1, <2>2, <2>5 DEF ScriptOK, PlayerTypeOK
  <2>9. \A m \in DOMAIN loops' : Writes(m)' => Begun(loops[m].line)'
    BY <2>2, <2>3, <2>6, Zenon
  <2> QED
    BY <2>4, <2>7, <2>8, <2>9 DEF PlayerOK
<1>3. CASE Awake(l) /\ ~ (stepAt \in Steps /\ n < Played(script[stepAt]))
  <2>1. /\ stepAt' = stepAt + 1 /\ out' = out
        /\ playing' = (playing /\ stepAt < Len(script))
        /\ loops' = IF playing /\ stepAt < Len(script)
                    THEN [loops EXCEPT ![l].line = 0] ELSE [loops EXCEPT ![l].line = -1]
    BY <1>3, <1>n DEF Wakes, Ended
  <2>2. n = Played(script[stepAt]) /\ playing
    BY <1>3, <1>h, <1>w
  <2>3. /\ loops' \in Seq([gen : Nat, line : Int]) /\ DOMAIN loops' = DOMAIN loops
        /\ \A m \in DOMAIN loops : loops'[m].gen = loops[m].gen
        /\ loops'[l].line = IF stepAt < Len(script) THEN 0 ELSE -1
        /\ \A m \in DOMAIN loops : m # l => loops'[m].line = loops[m].line
    <3>1. PICK m \in Int : m = IF stepAt < Len(script) THEN 0 ELSE -1
      OBVIOUS
    <3>2. loops' = [loops EXCEPT ![l].line = m]
      BY <2>1, <2>2, <3>1
    <3> QED
      BY <1>e, <3>1, <3>2, Zenon
  <2>4. \A m \in DOMAIN loops : Writes(m)' => m = l
    BY <1>3, <1>u, <1>w, <2>3 DEF Writes
  <2>5. Writes(l)' => stepAt < Len(script) /\ loops'[l].line = 0
    BY <2>3 DEF Writes
  <2>6. LoopsOK'
    <3>1. stepAt < Len(script) => stepAt + 1 \in Steps
      BY <1>s, <1>t
    <3> QED
      BY <1>l, <1>u, <1>k, <2>1, <2>2, <2>3, <2>4, <2>5, <3>1 DEF LoopsOK
  <2>7. \A m \in DOMAIN loops' : Writes(m)' => Begun(loops[m].line)'
    <3> SUFFICES ASSUME Writes(l)' PROVE Begun(loops[l].line)'
      BY <2>3, <2>4
    <3>1. stepAt' \in Steps
      BY <1>s, <1>t, <2>1, <2>5
    <3>2. Played(script[stepAt']) \in Nat
      BY <1>s, <3>1
    <3> QED
      BY <1>3, <1>h, <1>u, <2>1, <2>5, <3>2 DEF Begun
  <2>8. OutputFollowsTheScript'
    <3>1. ASSUME NEW k \in Steps', k < stepAt' PROVE \E e \in 0..Len(out') : WholeAt(k, e)'
      <4>1. CASE k = stepAt
        <5>1. WholeAt(stepAt, Len(out))
          BY <1>3, <1>h, <2>2 DEF WholeAt
        <5>2. Len(out) \in 0..Len(out')
          BY <1>3, <1>h, <2>1
        <5> QED
          BY <1>k, <2>1, <4>1, <5>1, <5>2, Zenon
      <4>2. CASE k # stepAt
        <5>1. k \in Steps /\ k < stepAt
          BY <1>k, <1>s, <1>t, <2>1, <3>1, <4>2
        <5>2. PICK e \in 0..Len(out) : WholeAt(k, e)
          BY <1>o, <5>1, Zenon DEF OutputFollowsTheScript
        <5> QED
          BY <1>k, <2>1, <5>2, Zenon
      <4> QED
        BY <4>1, <4>2
    <3>2. \A i \in DOMAIN out' : out'[i][1] <= stepAt'
      <4> SUFFICES ASSUME NEW i \in DOMAIN out PROVE out[i][1] <= stepAt + 1
        BY <2>1
      <4>0. stepAt \in Nat /\ out \in Seq(Nat \X Nat) /\ out[i][1] <= stepAt
        BY <1>o, <1>t, Zenon DEF OutputFollowsTheScript
      <4>1. out[i][1] \in Nat /\ out[i][1] <= stepAt /\ stepAt \in Nat
        BY <4>0
      <4>2. \A a, b \in Nat : a <= b => a <= b + 1
        OBVIOUS
      <4> QED
        BY <4>1, <4>2, Zenon
    <3>3. \A i, j \in DOMAIN out' : i < j => out'[i][1] <= out'[j][1]
      BY <1>o, <2>1, Zenon DEF OutputFollowsTheScript
    <3> QED
      BY <3>1, <3>2, <3>3 DEF OutputFollowsTheScript
  <2>9. ScriptOK' /\ PlayerTypeOK'
    <3>1. ScriptOK'
      BY <1>t, <1>u DEF ScriptOK
    <3>2. stepAt' \in Nat \ {0} /\ playing' \in BOOLEAN
      BY <1>t, <2>1
    <3>3. PlayerTypeOK'
      BY <1>t, <1>u, <2>1, <2>3, <3>2, Zenon DEF PlayerTypeOK
    <3> QED
      BY <3>1, <3>3, Zenon
  <2> QED
    BY <2>6, <2>7, <2>8, <2>9 DEF PlayerOK
<1> QED
  BY <1>1, <1>2, <1>3

LEMMA OutputStays ==
  ASSUME OutputFollowsTheScript, UNCHANGED <<script, stepAt, out>>
  PROVE  OutputFollowsTheScript'
<1>1. \A k, e : WholeAt(k, e) => WholeAt(k, e)'
  BY DEF WholeAt
<1>2. Steps' = Steps
  BY DEF Steps
<1> QED
  BY <1>1, <1>2, Zenon DEF OutputFollowsTheScript

\* To supersede the loops is to leave none that writes.
LEMMA Superseded ==
  ASSUME PlayerOK, Supersede, stepAt' \in Nat \ {0}, out' \in Seq(Nat \X Nat),
         OutputFollowsTheScript'
  PROVE  PlayerOK'
<1>1. gen' = gen + 1 /\ playing' = FALSE /\ UNCHANGED <<script, loops>>
  BY DEF Supersede
<1>2. /\ gen \in Nat /\ loops \in Seq([gen : Nat, line : Int])
      /\ \A l \in DOMAIN loops : loops[l].gen <= gen
  BY DEF PlayerOK, PlayerTypeOK, LoopsOK
<1>3. \A l \in DOMAIN loops : loops[l].gen \in Nat
  <2> SUFFICES ASSUME NEW l \in DOMAIN loops PROVE loops[l].gen \in Nat
    OBVIOUS
  <2>1. l \in 1..Len(loops)
    BY <1>2
  <2>2. loops[l] \in [gen : Nat, line : Int]
    BY <1>2, <2>1, ElementOfSeq, Zenon
  <2> QED
    BY <2>2
<1>4. \A l \in DOMAIN loops : loops[l].gen # gen + 1 /\ loops[l].gen <= gen + 1
  BY <1>2, <1>3
<1>5. \A l \in DOMAIN loops' : ~ Writes(l)'
  BY <1>1, <1>4 DEF Writes
<1>6. LoopsOK'
  BY <1>1, <1>4, <1>5 DEF LoopsOK
<1>7. ScriptOK' /\ PlayerTypeOK'
  <2>1. ScriptOK'
    BY <1>1 DEF PlayerOK, ScriptOK
  <2>2. gen + 1 \in Nat /\ FALSE \in BOOLEAN
    BY <1>2
  <2> QED
    BY <1>1, <1>2, <2>1, <2>2, Zenon DEF PlayerTypeOK
<1> QED
  BY <1>5, <1>6, <1>7 DEF PlayerOK

\* Playing starts a loop where there was none.
LEMMA PlayBegins ==
  ASSUME PlayerOK, Play
  PROVE  PlayerOK'
<1>1. /\ ~ playing /\ playing' = TRUE
      /\ loops' = Append(loops, [gen |-> gen, line |-> 0])
      /\ UNCHANGED <<script, gen>>
      /\ IF stepAt > Len(script) THEN stepAt' = 1 /\ out' = << >> ELSE UNCHANGED <<stepAt, out>>
  BY DEF Play, Loop
<1>2. /\ stepAt \in Nat \ {0} /\ gen \in Nat
      /\ loops \in Seq([gen : Nat, line : Int])
      /\ out \in Seq(Nat \X Nat)
      /\ Steps = 1..Len(script) /\ Len(script) \in Nat \ {0}
      /\ \A k \in Steps : Played(script[k]) \in Nat
  BY PlayedIsNat DEF PlayerOK, PlayerTypeOK
<1>3. \A l \in DOMAIN loops : ~ Writes(l) /\ loops[l].gen <= gen
  BY <1>1 DEF PlayerOK, LoopsOK
<1> DEFINE r == [gen |-> gen, line |-> 0]
<1>4. r \in [gen : Nat, line : Int] /\ r.gen = gen /\ r.line = 0
  BY <1>2
<1>5. loops' = Append(loops, r)
  BY <1>1
<1> HIDE DEF r
<1>6. /\ loops' \in Seq([gen : Nat, line : Int])
      /\ DOMAIN loops' = (DOMAIN loops) \cup {Len(loops) + 1}
      /\ Len(loops) + 1 \notin DOMAIN loops
      /\ loops'[Len(loops) + 1] = r
      /\ \A l \in DOMAIN loops : loops'[l] = loops[l]
  BY <1>2, <1>4, <1>5
<1>7. Steps' = Steps /\ stepAt' \in Steps /\ stepAt' \in Nat \ {0} /\ out' \in Seq(Nat \X Nat)
  <2>1. Steps' = Steps
    BY <1>1 DEF Steps
  <2>2. CASE stepAt > Len(script)
    <3>1. stepAt' = 1 /\ out' = << >>
      BY <1>1, <2>2
    <3>2. 1 \in Steps
      BY <1>2
    <3> QED
      BY <1>2, <2>1, <3>1, <3>2
  <2>3. CASE ~ (stepAt > Len(script))
    <3>1. UNCHANGED <<stepAt, out>>
      BY <1>1, <2>3
    <3>2. stepAt \in Steps
      BY <1>2, <2>3
    <3> QED
      BY <1>2, <2>1, <3>1, <3>2
  <2> QED
    BY <2>2, <2>3
<1>8. \A l \in DOMAIN loops : ~ Writes(l)'
  BY <1>1, <1>3, <1>6 DEF Writes
<1>9. LoopsOK'
  <2>1. \A l \in DOMAIN loops' : loops'[l].gen <= gen
    BY <1>2, <1>3, <1>4, <1>6
  <2>2. \A l \in DOMAIN loops' : Writes(l)' => l = Len(loops) + 1
    BY <1>6, <1>8
  <2> QED
    BY <1>1, <1>7, <2>1, <2>2 DEF LoopsOK
<1>10. \A l \in DOMAIN loops' : Writes(l)' => Begun(loops[l].line)'
  <2> SUFFICES ASSUME NEW l \in DOMAIN loops', Writes(l)' PROVE Begun(loops[l].line)'
    OBVIOUS
  <2>1. loops'[l].line = 0
    BY <1>4, <1>6, <1>8
  <2>2. Played(script'[stepAt']) \in Nat /\ Len(out') \in Nat
    BY <1>1, <1>2, <1>7
  <2> QED
    BY <2>1, <2>2 DEF Begun
<1>11. OutputFollowsTheScript'
  <2>1. CASE stepAt > Len(script)
    <3>1. out' = << >> /\ stepAt' = 1
      BY <1>1, <2>1
    <3>2. \A k \in Steps' : ~ (k < stepAt')
      BY <1>2, <1>7, <3>1
    <3> QED
      BY <3>1, <3>2 DEF OutputFollowsTheScript
  <2>2. CASE ~ (stepAt > Len(script))
    <3>1. UNCHANGED <<out, stepAt, script>>
      BY <1>1, <2>2
    <3> QED
      BY <3>1, OutputStays DEF PlayerOK
  <2> QED
    BY <2>1, <2>2
<1>12. ScriptOK' /\ PlayerTypeOK'
  BY <1>1, <1>2, <1>6, <1>7 DEF PlayerOK, ScriptOK, PlayerTypeOK
<1> QED
  BY <1>9, <1>10, <1>11, <1>12 DEF PlayerOK

LEMMA PlayerStep == ASSUME PlayerOK, PlayerNext \/ UNCHANGED playerVars PROVE PlayerOK'
<1>s. /\ stepAt \in Nat \ {0} /\ out \in Seq(Nat \X Nat) /\ OutputFollowsTheScript
      /\ Steps = 1..Len(script) /\ Len(script) \in Nat \ {0} /\ ScriptOK
      /\ \A k \in Steps : Played(script[k]) \in Nat
  BY PlayedIsNat DEF PlayerOK, PlayerTypeOK
<1>1. CASE Play
  BY <1>1, PlayBegins
<1>2. CASE Pause
  <2>1. Supersede /\ UNCHANGED <<stepAt, out, script>>
    BY <1>2 DEF Pause, Supersede
  <2>2. OutputFollowsTheScript'
    BY <1>s, <2>1, OutputStays
  <2> QED
    BY <1>s, <2>1, <2>2, Superseded
<1>3. CASE Restart
  <2>1. Supersede /\ stepAt' = 1 /\ out' = << >> /\ Steps' = Steps
    BY <1>3 DEF Restart, Supersede, Steps
  <2>2. OutputFollowsTheScript'
    <3>1. \A k \in Steps' : ~ (k < stepAt')
      BY <1>s, <2>1
    <3> QED
      BY <2>1, <3>1 DEF OutputFollowsTheScript
  <2>3. stepAt' \in Nat \ {0} /\ out' \in Seq(Nat \X Nat)
    BY <2>1
  <2> QED
    BY <2>1, <2>2, <2>3, Superseded
<1>4. ASSUME NEW k \in Steps, ScrubTo(k) PROVE PlayerOK'
  <2>1. /\ Supersede /\ stepAt' = k + 1 /\ Steps' = Steps /\ script' = script
        /\ out' = Scrubbed(k)
    BY <1>4 DEF ScrubTo, Supersede, Steps, Scrubbed
  <2>2. PICK o : o = out' /\ o = Scrubbed(k)
    BY <2>1
  <2>3. /\ o \in Seq(Nat \X Nat)
        /\ \A i, j \in DOMAIN o : i < j => o[i][1] <= o[j][1]
        /\ \A i \in DOMAIN o : o[i][1] <= k
        /\ \A m \in 1..k : \E e \in 0..Len(o) :
              /\ Played(script[m]) <= e
              /\ \A l \in 1..Played(script[m]) : o[e - Played(script[m]) + l] = <<m, l>>
              /\ \A j \in (e + 1)..Len(o) : o[j][1] # m
    <3>1. Shows(o, k)
      BY <1>s, <2>2, ScrubbedOut, Zenon
    <3> QED
      BY <3>1, Zenon DEF Shows
  <2>4. \A i \in DOMAIN o : o[i][1] <= k + 1
    <3> SUFFICES ASSUME NEW i \in DOMAIN o PROVE o[i][1] <= k + 1
      OBVIOUS
    <3>1. o[i][1] \in Nat /\ o[i][1] <= k /\ k \in Nat
      BY <1>s, <2>3
    <3>2. \A a, b \in Nat : a <= b => a <= b + 1
      OBVIOUS
    <3> QED
      BY <3>1, <3>2, Zenon
  <2>5. ASSUME NEW m \in Steps', m < stepAt' PROVE \E e \in 0..Len(out') : WholeAt(m, e)'
    <3>1. m \in 1..k
      BY <1>s, <2>1, <2>5
    <3>2. PICK e \in 0..Len(o) :
            /\ Played(script[m]) <= e
            /\ \A l \in 1..Played(script[m]) : o[e - Played(script[m]) + l] = <<m, l>>
            /\ \A j \in (e + 1)..Len(o) : o[j][1] # m
      BY <2>3, <3>1, Zenon
    <3>3. WholeAt(m, e)'
      BY <2>1, <2>2, <3>2, Zenon DEF WholeAt
    <3> QED
      BY <2>2, <3>3
  <2>6. OutputFollowsTheScript'
    BY <2>1, <2>2, <2>3, <2>4, <2>5, Zenon DEF OutputFollowsTheScript
  <2>7. stepAt' \in Nat \ {0} /\ out' \in Seq(Nat \X Nat)
    BY <1>s, <2>1, <2>2, <2>3
  <2> QED
    BY <2>1, <2>6, <2>7, Superseded
<1>5. ASSUME NEW l \in DOMAIN loops, Wakes(l) PROVE PlayerOK'
  BY <1>5, LoopWakes
<1>6. CASE UNCHANGED playerVars
  <2>1. UNCHANGED <<script, stepAt, playing, gen, loops, out>>
    BY <1>6 DEF playerVars
  <2>2. OutputFollowsTheScript'
    BY <1>s, <2>1, OutputStays
  <2>3. ScriptOK' /\ PlayerTypeOK'
    BY <2>1 DEF PlayerOK, ScriptOK, PlayerTypeOK
  <2>4. LoopsOK' /\ \A l \in DOMAIN loops : Writes(l)' => Begun(loops[l].line)'
    BY <2>1 DEF PlayerOK, LoopsOK, Writes, Begun, Steps
  <2> QED
    BY <2>1, <2>2, <2>3, <2>4 DEF PlayerOK
<1> QED
  BY <1>1, <1>2, <1>3, <1>4, <1>5, <1>6 DEF PlayerNext

\* However the visitor plays, pauses, restarts and scrubs, and however long a loop that
\* was superseded sleeps, the terminals show the script and nothing else.
THEOREM OutputIsTheScript == LabsSpec => []OutputFollowsTheScript
<1>1. LabsInit => PlayerOK
  <2> SUFFICES ASSUME LabsInit PROVE PlayerOK
    OBVIOUS
  <2>1. /\ script \in Scripts /\ stepAt = 1 /\ playing = FALSE /\ gen = 0
        /\ loops = << >> /\ out = << >>
    BY DEF LabsInit, PlayerInit
  <2>2. ScriptOK
    BY <2>1, ScriptsAreTyped DEF ScriptOK
  <2>3. Steps = 1..Len(script) /\ Len(script) \in Nat
    BY <2>2, PlayedIsNat
  <2>4. OutputFollowsTheScript
    BY <2>1, <2>3 DEF OutputFollowsTheScript
  <2> QED
    <3>1. DOMAIN loops = {}
      BY <2>1
    <3>2. PlayerTypeOK
      <4>1. << >> \in Seq([gen : Nat, line : Int]) /\ << >> \in Seq(Nat \X Nat)
        BY EmptySeq, Zenon
      <4>2. 1 \in Nat \ {0} /\ 0 \in Nat /\ FALSE \in BOOLEAN
        OBVIOUS
      <4> QED
        BY <2>1, <4>1, <4>2, Zenon DEF PlayerTypeOK
    <3> QED
      BY <2>2, <2>4, <3>1, <3>2, Zenon DEF PlayerOK, LoopsOK
<1>2. PlayerOK /\ [LabsNext]_labsVars => PlayerOK'
  BY PlayerStep, OneLabSteps
<1>3. PlayerOK => OutputFollowsTheScript
  BY DEF PlayerOK
<1> QED
  BY <1>1, <1>2, <1>3, PTL DEF LabsSpec

-----------------------------------------------------------------------------
(* The topology map.                                                       *)

\* Whatever is set can be cleared, also after the page was left.
PollOK ==
  /\ tab \in [hidden : BOOLEAN, open : BOOLEAN]
  /\ poll = [loads |-> poll.loads, timers |-> poll.timers, handle |-> poll.handle]
  /\ poll.timers \subseteq {poll.handle}
  /\ tab.open /\ tab.hidden => poll.timers = {}

LEMMA PollStep == ASSUME PollOK, MapNext \/ UNCHANGED mapVars PROVE PollOK'
<1>p. /\ tab \in [hidden : BOOLEAN, open : BOOLEAN]
      /\ poll = [loads |-> poll.loads, timers |-> poll.timers, handle |-> poll.handle]
      /\ poll.timers \subseteq {poll.handle}
      /\ tab.open /\ tab.hidden => poll.timers = {}
  BY DEF PollOK
<1>1. CASE UNCHANGED <<poll, tab>>
  BY <1>1 DEF PollOK
<1>2. ASSUME NEW i \in DOMAIN poll.loads, Loaded(i) PROVE PollOK'
  <2> DEFINE p == [poll EXCEPT !.loads = RemoveAt(@, i)]
  <2>1. poll' = Scheduled(p) /\ tab' = tab
    BY <1>2 DEF Loaded
  <2>2. /\ p = [loads |-> p.loads, timers |-> p.timers, handle |-> p.handle]
        /\ p.timers = poll.timers /\ p.handle = poll.handle
    BY <1>p
  <2> HIDE DEF p
  <2>3. p.timers \ {p.handle} = {}
    BY <1>p, <2>2
  <2>4. CASE tab.hidden
    <3>1. poll' = [p EXCEPT !.timers = {}]
      BY <2>1, <2>3, <2>4 DEF Scheduled
    <3> QED
      BY <1>p, <2>1, <2>2, <3>1 DEF PollOK
  <2>5. CASE ~tab.hidden
    <3>1. PICK t : poll' = [p EXCEPT !.timers = {} \cup {t}, !.handle = t]
      BY <2>1, <2>3, <2>5 DEF Scheduled
    <3> QED
      BY <1>p, <2>1, <2>2, <2>5, <3>1 DEF PollOK
  <2> QED
    BY <2>4, <2>5
<1>3. CASE TimerFires
  <2>1. PICK t \in poll.timers : poll' = Load([poll EXCEPT !.timers = @ \ {t}]) /\ tab' = tab
    BY <1>3 DEF TimerFires
  <2>2. poll'.timers = poll.timers \ {t} /\ poll'.handle = poll.handle
        /\ poll' = [loads |-> poll'.loads, timers |-> poll'.timers, handle |-> poll'.handle]
    BY <1>p, <2>1 DEF Load
  <2> QED
    BY <1>p, <2>1, <2>2 DEF PollOK
<1>4. CASE OnTabVisibility
  <2>1. tab' = [tab EXCEPT !.hidden = ~@]
    BY <1>4 DEF OnTabVisibility
  <2>2. /\ tab' \in [hidden : BOOLEAN, open : BOOLEAN] /\ tab'.open = tab.open
        /\ tab'.hidden = ~tab.hidden
    BY <1>p, <2>1
  <2>3. CASE ~tab.open
    BY <1>p, <1>4, <2>2, <2>3 DEF OnTabVisibility, PollOK
  <2>4. CASE tab.open /\ tab.hidden
    <3>1. poll' = Load(poll)
      BY <1>4, <2>4 DEF OnTabVisibility
    <3> QED
      BY <1>p, <2>2, <2>4, <3>1 DEF Load, PollOK
  <2>5. CASE tab.open /\ ~tab.hidden
    <3>1. poll' = [poll EXCEPT !.timers = @ \ {poll.handle}]
      BY <1>4, <2>5 DEF OnTabVisibility
    <3>2. poll.timers \ {poll.handle} = {}
      BY <1>p
    <3> QED
      BY <1>p, <2>2, <3>1, <3>2 DEF PollOK
  <2> QED
    BY <1>p, <2>3, <2>4, <2>5
<1>5. CASE LeaveMap
  <2>1. /\ tab' = [tab EXCEPT !.open = FALSE]
        /\ poll' = [poll EXCEPT !.timers = @ \ {poll.handle}]
    BY <1>5 DEF LeaveMap
  <2> QED
    BY <1>p, <2>1 DEF PollOK
<1>6. CASE Search \/ PanOrZoom \/ Fit \/ PickFromList \/ Rollout
  BY <1>1, <1>6 DEF Search, PanOrZoom, Fit, PickFromList, Looks, Rollout
<1> QED
  BY <1>1, <1>2, <1>3, <1>4, <1>5, <1>6 DEF MapNext, mapVars

\* However often the tab is hidden and shown while reads are out, an open page polls
\* along one chain, and a hidden one not at all.
THEOREM PollsAreSingle == LabsSpec => []OnePollAtATime
<1>1. LabsInit => PollOK
  BY DEF LabsInit, MapInit, PollOK
<1>2. PollOK /\ [LabsNext]_labsVars => PollOK'
  BY PollStep, OneLabSteps
<1>3. PollOK => OnePollAtATime
  <2> SUFFICES ASSUME PollOK, tab.open
               PROVE  Cardinality(poll.timers) <= (IF tab.hidden THEN 0 ELSE 1)
    BY DEF OnePollAtATime
  <2>1. poll.timers = {} \/ poll.timers = {poll.handle}
    BY DEF PollOK
  <2>2. Cardinality({}) = 0 /\ Cardinality({poll.handle}) = 1
    BY FS_EmptySet, FS_Singleton
  <2> QED
    BY <2>1, <2>2 DEF PollOK
<1> QED
  BY <1>1, <1>2, <1>3, PTL DEF LabsSpec

-----------------------------------------------------------------------------
(***************************************************************************)
(* The connectors of the map, for any links in any order.  The first k of  *)
(* the links are summed up by how many of them go from one container to    *)
(* another; the connectors drawn from them tell exactly these numbers      *)
(* (Tallies), and one more link changes both alike.                        *)
(***************************************************************************)

Groups == {GroupFor(c) : c \in Components}
Connectors == [from : Groups, to : Groups, both : BOOLEAN, weight : Nat]
Joins(e, g, h) == (e.from = g /\ e.to = h) \/ (e.from = h /\ e.to = g)

Tallies(coarse, n) ==
  /\ coarse \in SUBSET Connectors
  /\ \A e \in coarse : /\ e.from # e.to /\ n[<<e.from, e.to>>] > 0
                       /\ e.weight = n[<<e.from, e.to>>] + n[<<e.to, e.from>>]
                       /\ e.both <=> n[<<e.to, e.from>>] > 0
  /\ \A e, f \in coarse : Joins(e, f.from, f.to) => e = f
  /\ \A g, h \in Groups : n[<<g, h>>] > 0 => \E e \in coarse : Joins(e, g, h)

OneMore(n, m, from, to) ==
  /\ m[<<from, to>>] = n[<<from, to>>] + 1
  /\ \A g, h \in Groups : <<g, h>> # <<from, to>> => m[<<g, h>>] = n[<<g, h>>]

LEMMA JoinIsTyped ==
  ASSUME NEW coarse \in SUBSET Connectors, NEW from \in Groups, NEW to \in Groups
  PROVE  Join(coarse, from, to) \in SUBSET Connectors
<1>1. \A e \in coarse : [e EXCEPT !.both = TRUE, !.weight = @ + 1] \in Connectors
  <2> SUFFICES ASSUME NEW e \in coarse
               PROVE  [e EXCEPT !.both = TRUE, !.weight = @ + 1] \in Connectors
    OBVIOUS
  <2>0. PICK x : x = [e EXCEPT !.both = TRUE, !.weight = @ + 1]
    OBVIOUS
  <2>1. x = [from |-> e.from, to |-> e.to, both |-> TRUE, weight |-> e.weight + 1]
    <3>1. e \in Connectors
      OBVIOUS
    <3> QED
      BY <2>0, <3>1 DEF Connectors
  <2>2. e.from \in Groups /\ e.to \in Groups /\ e.weight + 1 \in Nat
    BY DEF Connectors
  <2> QED
    BY <2>0, <2>1, <2>2 DEF Connectors
<1>2. \A e \in coarse : [e EXCEPT !.weight = @ + 1] \in Connectors
  BY DEF Connectors
<1>3. [from |-> from, to |-> to, both |-> FALSE, weight |-> 1] \in Connectors
  BY DEF Connectors
<1>4. JoinForward(coarse, from, to) \in SUBSET Connectors
  BY <1>2, <1>3 DEF JoinForward
<1>5. {IF e.from = to /\ e.to = from THEN [e EXCEPT !.both = TRUE, !.weight = @ + 1] ELSE e :
         e \in coarse} \in SUBSET Connectors
  BY <1>1
<1> QED
  BY <1>4, <1>5 DEF Join

\* One more link, from one container to another.
LEMMA JoinTallies ==
  ASSUME NEW n \in [Groups \X Groups -> Nat], NEW coarse, Tallies(coarse, n),
         NEW from \in Groups, NEW to \in Groups, from # to,
         NEW m \in [Groups \X Groups -> Nat], OneMore(n, m, from, to)
  PROVE  Tallies(Join(coarse, from, to), m)
<1>m. /\ m[<<from, to>>] = n[<<from, to>>] + 1
      /\ \A g, h \in Groups : <<g, h>> # <<from, to>> => m[<<g, h>>] = n[<<g, h>>]
  BY DEF OneMore
<1> DEFINE Back(e) == e.from = to /\ e.to = from
           Forth(e) == e.from = from /\ e.to = to
<1>0. /\ \A e \in coarse : e \in Connectors
      /\ \A g, h \in Groups : n[<<g, h>>] \in Nat /\ m[<<g, h>>] \in Nat
      /\ \A e \in coarse : e.from \in Groups /\ e.to \in Groups /\ e.weight \in Nat
  BY DEF Tallies, Connectors
<1>1. \A e \in coarse : ~ Joins(e, from, to) => /\ m[<<e.from, e.to>>] = n[<<e.from, e.to>>]
                                                /\ m[<<e.to, e.from>>] = n[<<e.to, e.from>>]
  <2> SUFFICES ASSUME NEW e \in coarse, ~ Joins(e, from, to)
               PROVE  /\ m[<<e.from, e.to>>] = n[<<e.from, e.to>>]
                      /\ m[<<e.to, e.from>>] = n[<<e.to, e.from>>]
    OBVIOUS
  <2>1. <<e.from, e.to>> # <<from, to>> /\ <<e.to, e.from>> # <<from, to>>
    BY DEF Joins
  <2> QED
    BY <1>0, <1>m, <2>1
<1>2. /\ m[<<to, from>>] = n[<<to, from>>]
      /\ \A g, h \in Groups : m[<<g, h>>] > 0 => n[<<g, h>>] > 0 \/ (g = from /\ h = to)
  <2>1. <<to, from>> # <<from, to>>
    OBVIOUS
  <2>2. \A g, h \in Groups : <<g, h>> = <<from, to>> => g = from /\ h = to
    OBVIOUS
  <2> QED
    BY <1>m, <2>1, <2>2
<1>3. ASSUME NEW e \in coarse, Joins(e, from, to),
             NEW x \in Connectors, x.from = e.from, x.to = e.to, x.weight = e.weight + 1,
             x.both <=> Back(e) \/ e.both,
             NEW drawn, drawn = {IF Joins(f, from, to) THEN x ELSE f : f \in coarse}
      PROVE  Tallies(drawn, m)
  <2>1. x \in drawn /\ \A f \in coarse : ~Joins(f, from, to) => f \in drawn
    BY <1>3
  <2>2. \A y \in drawn : y = x \/ (y \in coarse /\ ~Joins(y, from, to))
    BY <1>3
  <2>3. drawn \in SUBSET Connectors
    BY <1>0, <2>2
  <2>4. /\ x.from # x.to /\ m[<<x.from, x.to>>] > 0
        /\ x.weight = m[<<x.from, x.to>>] + m[<<x.to, x.from>>]
        /\ x.both <=> m[<<x.to, x.from>>] > 0
    <3>1. /\ e.from # e.to /\ n[<<e.from, e.to>>] > 0
          /\ e.weight = n[<<e.from, e.to>>] + n[<<e.to, e.from>>]
          /\ e.both <=> n[<<e.to, e.from>>] > 0
      BY DEF Tallies
    <3>2. /\ n[<<from, to>>] \in Nat /\ n[<<to, from>>] \in Nat
          /\ n[<<e.from, e.to>>] \in Nat /\ n[<<e.to, e.from>>] \in Nat
      BY <1>0
    <3>3. CASE Back(e)
      <4>1. x.both
        BY <1>3, <3>3
      <4>2. m[<<e.to, e.from>>] = n[<<e.to, e.from>>] + 1 /\ m[<<e.from, e.to>>] = n[<<e.from, e.to>>]
        BY <1>m, <1>2, <3>3
      <4>3. /\ m[<<x.from, x.to>>] = n[<<e.from, e.to>>]
            /\ m[<<x.to, x.from>>] = n[<<e.to, e.from>>] + 1 /\ x.from # x.to
        BY <1>3, <3>1, <4>2, Zenon
      <4>4. x.weight = m[<<x.from, x.to>>] + m[<<x.to, x.from>>]
        <5>1. x.weight = (n[<<e.from, e.to>>] + n[<<e.to, e.from>>]) + 1
          BY <1>3, <3>1, Zenon
        <5> QED
          BY <3>2, <4>3, <5>1
      <4>5. m[<<x.from, x.to>>] > 0 /\ m[<<x.to, x.from>>] > 0
        BY <3>1, <3>2, <4>3
      <4> QED
        BY <4>1, <4>3, <4>4, <4>5
    <3>4. CASE Forth(e)
      <4>1. ~ Back(e)
        BY <3>4
      <4>2. x.both <=> e.both
        BY <1>3, <4>1
      <4> QED
        BY <1>m, <1>2, <1>3, <3>1, <3>2, <3>4, <4>2
    <3> QED
      BY <1>3, <3>3, <3>4 DEF Joins
  <2>5. ASSUME NEW y \in drawn
        PROVE  /\ y.from # y.to /\ m[<<y.from, y.to>>] > 0
               /\ y.weight = m[<<y.from, y.to>>] + m[<<y.to, y.from>>]
               /\ y.both <=> m[<<y.to, y.from>>] > 0
    BY <1>1, <2>2, <2>4 DEF Tallies
  <2>6. ASSUME NEW y \in drawn, NEW z \in drawn, Joins(y, z.from, z.to) PROVE y = z
    <3>1. Joins(x, from, to)
      BY <1>3 DEF Joins
    <3>2. CASE y = x \/ z = x
      BY <1>3, <2>2, <2>6, <3>1, <3>2 DEF Joins
    <3>3. CASE y # x /\ z # x
      BY <2>2, <2>6, <3>3 DEF Tallies
    <3> QED
      BY <3>2, <3>3
  <2>7. ASSUME NEW g \in Groups, NEW h \in Groups, m[<<g, h>>] > 0
        PROVE  \E y \in drawn : Joins(y, g, h)
    <3>1. CASE Joins(e, g, h)
      BY <1>3, <2>1, <3>1 DEF Joins
    <3>2. CASE ~Joins(e, g, h)
      <4>1. n[<<g, h>>] > 0
        BY <1>m, <1>2, <1>3, <2>7, <3>2 DEF Joins
      <4>2. PICK f \in coarse : Joins(f, g, h)
        BY <4>1 DEF Tallies
      <4>3. ~Joins(f, from, to)
        BY <1>3, <3>2, <4>2 DEF Joins
      <4> QED
        BY <2>1, <4>2, <4>3
    <3> QED
      BY <3>1, <3>2
  <2> QED
    BY <2>3, <2>5, <2>6, <2>7 DEF Tallies
<1>4. CASE \E e \in coarse : Back(e)
  <2>1. PICK e \in coarse : Back(e)
    BY <1>4
  <2>2. PICK x : x = [e EXCEPT !.both = TRUE, !.weight = @ + 1]
    OBVIOUS
  <2>3. /\ x \in Connectors /\ x.from = e.from /\ x.to = e.to /\ x.weight = e.weight + 1
        /\ x.both
    <3>1. e \in Connectors
      BY <1>0
    <3>2. x.both /\ x.from = e.from /\ x.to = e.to /\ x.weight = e.weight + 1
      BY <2>2, <3>1, Zenon DEF Connectors
    <3>3. x = [from |-> e.from, to |-> e.to, both |-> TRUE, weight |-> e.weight + 1]
      BY <2>2, <3>1 DEF Connectors
    <3>4. x \in Connectors
      BY <1>0, <3>3 DEF Connectors
    <3> QED
      BY <3>2, <3>4
  <2>4. \A f \in coarse : Joins(f, from, to) => f = e
    BY <2>1 DEF Tallies, Joins
  <2> DEFINE Marked(f) == IF f.from = to /\ f.to = from THEN [f EXCEPT !.both = TRUE, !.weight = @ + 1] ELSE f
             Other(f) == IF Joins(f, from, to) THEN x ELSE f
  <2>5. \A f \in coarse : Marked(f) = Other(f)
    BY <2>1, <2>2, <2>4, Zenon DEF Joins
  <2>6. Join(coarse, from, to) = {Other(f) : f \in coarse}
    <3>1. Join(coarse, from, to) = {Marked(f) : f \in coarse}
      BY <1>4 DEF Join
    <3> HIDE DEF Marked, Other
    <3> QED
      BY <2>5, <3>1
  <2>7. Joins(e, from, to) /\ (x.both <=> Back(e) \/ e.both)
    BY <2>1, <2>3 DEF Joins
  <2> HIDE DEF Back
  <2> QED
    BY <1>3, <2>3, <2>6, <2>7
<1>5. CASE ~ (\E e \in coarse : Back(e)) /\ \E e \in coarse : Forth(e)
  <2>1. PICK e \in coarse : Forth(e)
    BY <1>5
  <2>2. PICK x : x = [e EXCEPT !.weight = @ + 1]
    OBVIOUS
  <2>3. /\ x \in Connectors /\ x.from = e.from /\ x.to = e.to /\ x.weight = e.weight + 1
        /\ (x.both <=> e.both)
    BY <1>0, <2>2 DEF Connectors
  <2>4. \A f \in coarse : Joins(f, from, to) => f = e
    BY <2>1 DEF Tallies, Joins
  <2> DEFINE Marked(f) == IF f.from = from /\ f.to = to THEN [f EXCEPT !.weight = @ + 1] ELSE f
             Other(f) == IF Joins(f, from, to) THEN x ELSE f
  <2>5. \A f \in coarse : Marked(f) = Other(f)
    BY <2>1, <2>2, <2>4, Zenon DEF Joins
  <2>6. Join(coarse, from, to) = {Other(f) : f \in coarse}
    <3>1. Join(coarse, from, to) = {Marked(f) : f \in coarse}
      BY <1>5 DEF Join, JoinForward
    <3> HIDE DEF Marked, Other
    <3> QED
      BY <2>5, <3>1
  <2>7. Joins(e, from, to) /\ ~Back(e)
    BY <2>1 DEF Joins
  <2>8. x.both <=> Back(e) \/ e.both
    BY <2>3, <2>7
  <2> HIDE DEF Back
  <2> QED
    BY <1>3, <2>3, <2>6, <2>7, <2>8
<1>6. CASE \A e \in coarse : ~Joins(e, from, to)
  <2>1. PICK x : x = [from |-> from, to |-> to, both |-> FALSE, weight |-> 1]
    OBVIOUS
  <2>2. /\ x \in Connectors /\ x.from = from /\ x.to = to /\ x.both = FALSE /\ x.weight = 1
    BY <2>1 DEF Connectors
  <2>3. Join(coarse, from, to) = coarse \cup {x}
    BY <1>6, <2>1 DEF Join, JoinForward, Joins
  <2>4. n[<<from, to>>] = 0 /\ n[<<to, from>>] = 0
    <3>1. ~ (n[<<from, to>>] > 0) /\ ~ (n[<<to, from>>] > 0)
      BY <1>6 DEF Tallies, Joins
    <3> QED
      BY <1>0, <3>1
  <2>5. m[<<from, to>>] = 1 /\ m[<<to, from>>] = 0
    BY <1>m, <1>2, <2>4
  <2>6. ASSUME NEW y \in coarse \cup {x}
        PROVE  /\ y.from # y.to /\ m[<<y.from, y.to>>] > 0
               /\ y.weight = m[<<y.from, y.to>>] + m[<<y.to, y.from>>]
               /\ y.both <=> m[<<y.to, y.from>>] > 0
    <3>1. CASE y = x
      BY <2>2, <2>5, <3>1
    <3>2. CASE y \in coarse
      BY <1>1, <1>6, <3>2 DEF Tallies
    <3> QED
      BY <3>1, <3>2
  <2>7. ASSUME NEW y \in coarse \cup {x}, NEW z \in coarse \cup {x}, Joins(y, z.from, z.to)
        PROVE  y = z
    BY <1>6, <2>2, <2>7 DEF Tallies, Joins
  <2>8. ASSUME NEW g \in Groups, NEW h \in Groups, m[<<g, h>>] > 0
        PROVE  \E y \in coarse \cup {x} : Joins(y, g, h)
    BY <1>m, <1>2, <2>2, <2>8 DEF Tallies, Joins
  <2> QED
    BY <1>0, <2>2, <2>3, <2>6, <2>7, <2>8 DEF Tallies
<1> QED
  BY <1>4, <1>5, <1>6 DEF Joins

\* The links from one container to another among the first k.
Between(shown, links, g, h, k) ==
  {i \in 1..k : Crosses(shown, links[i]) /\ GroupFor(links[i][1]) = g /\ GroupFor(links[i][2]) = h}
Counts(shown, links, k) ==
  [p \in Groups \X Groups |-> Cardinality(Between(shown, links, p[1], p[2], k))]

LEMMA BetweenIsFinite ==
  ASSUME NEW shown, NEW links, NEW g, NEW h, NEW k \in Nat
  PROVE  /\ IsFiniteSet(Between(shown, links, g, h, k))
         /\ Cardinality(Between(shown, links, g, h, k)) \in Nat
<1>1. IsFiniteSet(1..k)
  BY FS_Interval
<1>2. IsFiniteSet(Between(shown, links, g, h, k))
  BY <1>1, FS_Subset DEF Between
<1> QED
  BY <1>2, FS_CardinalityType

\* What the next link changes of the counts.
LEMMA CountsStep ==
  ASSUME NEW shown, NEW links \in Seq(Components \X Components), NEW k \in 0..(Len(links) - 1)
  PROVE  /\ Counts(shown, links, k) \in [Groups \X Groups -> Nat]
         /\ Counts(shown, links, k + 1) \in [Groups \X Groups -> Nat]
         /\ GroupFor(links[k + 1][1]) \in Groups /\ GroupFor(links[k + 1][2]) \in Groups
         /\ IF Crosses(shown, links[k + 1])
            THEN /\ OneMore(Counts(shown, links, k), Counts(shown, links, k + 1),
                            GroupFor(links[k + 1][1]), GroupFor(links[k + 1][2]))
                 /\ GroupFor(links[k + 1][1]) # GroupFor(links[k + 1][2])
            ELSE Counts(shown, links, k + 1) = Counts(shown, links, k)
<1> DEFINE link == links[k + 1]
           n == Counts(shown, links, k)
           m == Counts(shown, links, k + 1)
           from == GroupFor(link[1])
           to == GroupFor(link[2])
           B(g, h, i) == Between(shown, links, g, h, i)
<1>1. k \in Nat /\ k + 1 \in Nat /\ k + 1 \in 1..Len(links) /\ 1..(k + 1) = (1..k) \cup {k + 1}
      /\ k + 1 \notin 1..k
  OBVIOUS
<1>2. link \in Components \X Components
  BY <1>1
<1>3. from \in Groups /\ to \in Groups
  BY <1>2 DEF Groups
<1>4. n \in [Groups \X Groups -> Nat] /\ m \in [Groups \X Groups -> Nat]
  BY <1>1, BetweenIsFinite DEF Counts
<1>5. \A g, h \in Groups : n[<<g, h>>] = Cardinality(B(g, h, k)) /\ m[<<g, h>>] = Cardinality(B(g, h, k + 1))
  BY DEF Counts
<1>6. \A g, h : B(g, h, k + 1) = IF Crosses(shown, link) /\ from = g /\ to = h
                                 THEN B(g, h, k) \cup {k + 1} ELSE B(g, h, k)
  BY <1>1 DEF Between
<1>7. ASSUME ~Crosses(shown, link) PROVE m = n
  <2>1. \A g, h : B(g, h, k + 1) = B(g, h, k)
    BY <1>6, <1>7, Zenon
  <2> QED
    BY <2>1 DEF Counts
<1>8. ASSUME Crosses(shown, link) PROVE OneMore(n, m, from, to) /\ from # to
  <2>1. B(from, to, k + 1) = B(from, to, k) \cup {k + 1}
    BY <1>6, <1>8, Zenon
  <2>2. k + 1 \notin B(from, to, k) /\ IsFiniteSet(B(from, to, k))
    <3>1. k + 1 \notin B(from, to, k)
      BY <1>1 DEF Between
    <3>2. IsFiniteSet(B(from, to, k))
      BY <1>1, BetweenIsFinite
    <3> QED
      BY <3>1, <3>2
  <2>3. Cardinality(B(from, to, k + 1)) = Cardinality(B(from, to, k)) + 1
    <3> HIDE DEF B, from, to
    <3> QED
      BY <2>1, <2>2, FS_AddElement
  <2>4. m[<<from, to>>] = n[<<from, to>>] + 1
    BY <1>3, <1>5, <2>3, Zenon
  <2>5. ASSUME NEW g \in Groups, NEW h \in Groups, <<g, h>> # <<from, to>>
        PROVE  m[<<g, h>>] = n[<<g, h>>]
    <3>1. ~(from = g /\ to = h)
      BY <2>5
    <3>2. B(g, h, k + 1) = B(g, h, k)
      BY <1>6, <3>1, Zenon
    <3> QED
      BY <1>5, <3>2, Zenon
  <2>6. from # to
    BY <1>8 DEF Crosses
  <2> HIDE DEF n, m, from, to
  <2> QED
    BY <2>4, <2>5, <2>6 DEF OneMore
<1> QED
  BY <1>3, <1>4, <1>7, <1>8, Zenon

\* The fold of the links, and its value on a prefix of them.
Drawing(iter, shown, links) ==
  iter = [s \in SUBSET (DOMAIN links) |->
            IF s = {} THEN {}
            ELSE IF Crosses(shown, links[Max(s)])
                 THEN Join(iter[s \ {Max(s)}], GroupFor(links[Max(s)][1]), GroupFor(links[Max(s)][2]))
                 ELSE iter[s \ {Max(s)}]]

LEMMA DrawingIsDefined ==
  ASSUME NEW shown, NEW links \in Seq(Components \X Components)
  PROVE  \E iter : Drawing(iter, shown, links) /\ Aggregate(shown, links) = iter[DOMAIN links]

<1> DEFINE S == DOMAIN links
           Crossing(i) == Crosses(shown, links[i])
           Add(i, v) == IF Crossing(i) THEN Join(v, GroupFor(links[i][1]), GroupFor(links[i][2]))
                        ELSE v
           V == SUBSET Connectors
           pick == [s \in SUBSET S |-> Max(s)]
           step == [p \in S \X V |-> Add(p[1], p[2])]
<1>1. S = 1..Len(links) /\ Len(links) \in Nat /\ IsFiniteSet(S)
  BY FS_Interval
<1>2. \A s \in SUBSET S : s # {} => Max(s) \in s
  <2> HIDE DEF S
  <2> QED
    BY <1>1, MaxIsIn
<1>3. \A i \in S, v \in V : Add(i, v) \in V
  <2> SUFFICES ASSUME NEW i \in S, NEW v \in V, Crossing(i)
               PROVE  Join(v, GroupFor(links[i][1]), GroupFor(links[i][2])) \in V
    OBVIOUS
  <2>1. links[i] \in Components \X Components
    OBVIOUS
  <2>2. GroupFor(links[i][1]) \in Groups /\ GroupFor(links[i][2]) \in Groups
    BY <2>1 DEF Groups
  <2> HIDE DEF S
  <2> QED
    BY <2>2, JoinIsTyped
<1>4. step \in [S \X V -> V] /\ \A i \in S, v \in V : step[<<i, v>>] = Add(i, v)
  <2> HIDE DEF S, V, Add
  <2> QED
    BY <1>3
<1>5. PICK iter \in [SUBSET S -> V] : FoldsOver(iter, S, {}, pick, step)
  <2>1. {} \in V /\ \A s \in SUBSET S : s # {} => pick[s] \in s
    BY <1>2
  <2> HIDE DEF S, V, pick, step
  <2> QED
    BY <1>1, <1>4, <2>1, TypedFold
<1>6. Drawing(iter, shown, links)
  <2>1. ASSUME NEW s \in SUBSET S, s # {} PROVE iter[s] = Add(Max(s), iter[s \ {Max(s)}])
    <3>1. iter[s] = step[<<Max(s), iter[s \ {Max(s)}]>>]
      <4>1. pick[s] = Max(s)
        OBVIOUS
      <4> HIDE DEF S, V, pick, step
      <4> QED
        BY <1>5, <2>1, <4>1, Zenon DEF FoldsOver
    <3>2. Max(s) \in S /\ iter[s \ {Max(s)}] \in V
      <4> HIDE DEF S, V
      <4> QED
        BY <1>2, <2>1
    <3> HIDE DEF S, V, Add, step
    <3> QED
      BY <1>4, <3>1, <3>2
  <2>2. iter[{}] = {} /\ iter = [s \in SUBSET S |-> iter[s]]
    <3> HIDE DEF S, V, pick, step
    <3> QED
      BY <1>5 DEF FoldsOver
  <2>3. iter = [s \in SUBSET S |-> IF s = {} THEN {} ELSE Add(Max(s), iter[s \ {Max(s)}])]
    <3> HIDE DEF S, Add
    <3> QED
      BY <2>1, <2>2, Zenon
  <2> QED
    BY <2>3 DEF Drawing
<1>7. PICK g : g = (CHOOSE h : Drawing(h, shown, links))
  OBVIOUS
<1>8. Aggregate(shown, links) = g[DOMAIN links]
  BY <1>7 DEF Aggregate, FoldLeft, MapThenFoldSet, Drawing
<1>9. Drawing(g, shown, links)
  BY <1>6, <1>7, Zenon
<1> QED
  BY <1>8, <1>9

\* The connectors drawn of any links tell how many of them there are between any two
\* containers.
LEMMA AggregateTallies ==
  ASSUME NEW shown, NEW links \in Seq(Components \X Components)
  PROVE  Tallies(Aggregate(shown, links), Counts(shown, links, Len(links)))
<1>1. PICK iter : Drawing(iter, shown, links) /\ Aggregate(shown, links) = iter[DOMAIN links]
  BY DrawingIsDefined
<1>2. DOMAIN links = 1..Len(links) /\ Len(links) \in Nat
  OBVIOUS
<1> DEFINE T == {k \in Nat : Tallies(iter[1..k], Counts(shown, links, k))}
<1>3. 0 \in T
  <2>1. 1..0 = {}
    OBVIOUS
  <2>2. iter[1..0] = {}
    BY <1>1, <2>1 DEF Drawing
  <2>3. \A g, h \in Groups : Counts(shown, links, 0)[<<g, h>>] = 0
    <3> SUFFICES ASSUME NEW g \in Groups, NEW h \in Groups
                 PROVE  Counts(shown, links, 0)[<<g, h>>] = 0
      OBVIOUS
    <3>1. Between(shown, links, g, h, 0) = {}
      BY <2>1 DEF Between
    <3> QED
      BY <3>1, FS_EmptySet DEF Counts
  <2>4. Tallies({}, Counts(shown, links, 0))
    BY <2>3 DEF Tallies
  <2> QED
    BY <2>2, <2>4
<1>4. ASSUME NEW k \in 0..(Len(links) - 1), k \in T PROVE k + 1 \in T
  <2> DEFINE link == links[k + 1]
             from == GroupFor(link[1])
             to == GroupFor(link[2])
             n == Counts(shown, links, k)
             m == Counts(shown, links, k + 1)
  <2>1. Tallies(iter[1..k], n) /\ k + 1 \in Nat /\ k + 1 \in Nat \ {0}
    BY <1>4
  <2>2. iter[1..(k + 1)] = IF Crosses(shown, link) THEN Join(iter[1..k], from, to) ELSE iter[1..k]
    <3>1. Max(1..(k + 1)) = k + 1 /\ (1..(k + 1)) \ {k + 1} = 1..((k + 1) - 1) /\ (k + 1) - 1 = k
      BY <2>1, MaxOfPrefix
    <3>2. 1..(k + 1) \in SUBSET (DOMAIN links) /\ 1..(k + 1) # {}
      <4>1. 1..(k + 1) \subseteq 1..Len(links) /\ k + 1 \in 1..(k + 1)
        BY <1>2
      <4> QED
        BY <1>2, <4>1
    <3>3. PICK s \in SUBSET (DOMAIN links) : s = 1..(k + 1) /\ s # {} /\ Max(s) = k + 1 /\ s \ {Max(s)} = 1..k
      BY <3>1, <3>2
    <3>4. iter[s] = IF Crosses(shown, links[Max(s)])
                    THEN Join(iter[s \ {Max(s)}], GroupFor(links[Max(s)][1]), GroupFor(links[Max(s)][2]))
                    ELSE iter[s \ {Max(s)}]
      BY <1>1, <3>3, Zenon DEF Drawing
    <3> QED
      BY <3>3, <3>4, Zenon
  <2>3. /\ n \in [Groups \X Groups -> Nat] /\ m \in [Groups \X Groups -> Nat]
        /\ from \in Groups /\ to \in Groups
        /\ IF Crosses(shown, link) THEN OneMore(n, m, from, to) /\ from # to ELSE m = n
    BY CountsStep, Zenon
  <2>4. Tallies(iter[1..(k + 1)], m)
    <3>1. CASE Crosses(shown, link)
      <4> HIDE DEF link, from, to, n, m
      <4>1. Tallies(Join(iter[1..k], from, to), m)
        BY <2>1, <2>3, <3>1, JoinTallies
      <4> QED
        BY <2>2, <3>1, <4>1
    <3>2. CASE ~Crosses(shown, link)
      <4> HIDE DEF link, from, to, n, m
      <4> QED
        BY <2>1, <2>2, <2>3, <3>2
    <3> QED
      BY <3>1, <3>2
  <2> QED
    BY <2>1, <2>4
<1>5. 0..Len(links) \subseteq T
  <2> HIDE DEF T
  <2> QED
    BY <1>2, <1>3, <1>4, BoundedInduction
<1>6. Len(links) \in T
  <2> HIDE DEF T
  <2> QED
    BY <1>2, <1>5
<1> QED
  BY <1>1, <1>2, <1>6

\* However the links are listed, what a map draws of them is exact: one connector for
\* any two containers with a link between them, which counts the links and is two-way
\* when they go both ways (grouped.ts, aggregate).
THEOREM LinksAreDrawn == LabsSpec => []EveryLinkIsDrawn
<1> DEFINE Listed == wiring \in Seq(Components \X Components)
<1>1. LabsInit => Listed
  BY WiringsAssumption DEF LabsInit, MapInit
<1>2. Listed /\ [LabsNext]_labsVars => Listed'
  <2>1. MapNext \/ UNCHANGED mapVars => wiring' = wiring
    BY DEF MapNext, mapVars, Search, PanOrZoom, Fit, Looks, PickFromList, Loaded, TimerFires,
           OnTabVisibility, LeaveMap, Rollout
  <2> QED
    BY <2>1, OneLabSteps
<1>3. ASSUME Listed, NEW g \in Groups, NEW h \in Groups
      PROVE  LET B(a, b) == {i \in DOMAIN wiring : Crosses(OnMap, wiring[i]) /\
                               GroupFor(wiring[i][1]) = a /\ GroupFor(wiring[i][2]) = b}
                 drawn == {e \in Aggregate(OnMap, wiring) : {e.from, e.to} = {g, h}}
             IN  /\ Cardinality(drawn) = (IF g # h /\ B(g, h) \cup B(h, g) # {} THEN 1 ELSE 0)
                 /\ \A e \in drawn :
                      /\ e.weight = Cardinality(B(g, h) \cup B(h, g))
                      /\ e.both <=> B(g, h) # {} /\ B(h, g) # {}
  <2> DEFINE B(a, b) == {i \in DOMAIN wiring : Crosses(OnMap, wiring[i]) /\
                           GroupFor(wiring[i][1]) = a /\ GroupFor(wiring[i][2]) = b}
             coarse == Aggregate(OnMap, wiring)
             n == Counts(OnMap, wiring, Len(wiring))
             drawn == {e \in coarse : {e.from, e.to} = {g, h}}
  <2>1. Tallies(coarse, n) /\ Len(wiring) \in Nat
    BY <1>3, AggregateTallies
  <2>2. \A a, b \in Groups : /\ n[<<a, b>>] = Cardinality(B(a, b)) /\ IsFiniteSet(B(a, b))
                             /\ n[<<a, b>>] \in Nat /\ (n[<<a, b>>] > 0 <=> B(a, b) # {})
    <3> SUFFICES ASSUME NEW a \in Groups, NEW b \in Groups
                 PROVE  /\ n[<<a, b>>] = Cardinality(B(a, b)) /\ IsFiniteSet(B(a, b))
                        /\ n[<<a, b>>] \in Nat /\ (n[<<a, b>>] > 0 <=> B(a, b) # {})
      OBVIOUS
    <3>0. B(a, b) = Between(OnMap, wiring, a, b, Len(wiring))
      <4>1. DOMAIN wiring = 1..Len(wiring)
        BY <1>3
      <4> QED
        BY <4>1, Zenon DEF Between
    <3>1. n[<<a, b>>] = Cardinality(B(a, b))
      <4> HIDE DEF B
      <4> QED
        BY <3>0 DEF Counts
    <3>2. IsFiniteSet(B(a, b)) /\ Cardinality(B(a, b)) \in Nat
      <4> HIDE DEF B
      <4> QED
        BY <2>1, <3>0, BetweenIsFinite
    <3>3. Cardinality(B(a, b)) = 0 <=> B(a, b) = {}
      <4> HIDE DEF B
      <4> QED
        BY <3>2, FS_EmptySet
    <3> HIDE DEF B, n
    <3> QED
      BY <3>1, <3>2, <3>3
  <2>3. g # h => B(g, h) \cap B(h, g) = {}
    OBVIOUS
  <2>4. g = h => B(g, h) = {}
    BY DEF Crosses
  <2>5. g # h => Cardinality(B(g, h) \cup B(h, g)) = n[<<g, h>>] + n[<<h, g>>]
    <3> HIDE DEF B, n
    <3>1. g # h => Cardinality(B(g, h) \cup B(h, g)) = Cardinality(B(g, h)) + Cardinality(B(h, g))
      <4>1. g # h => Cardinality(B(g, h) \cap B(h, g)) = 0
        BY <2>3, FS_EmptySet
      <4>2. Cardinality(B(g, h) \cup B(h, g))
              = Cardinality(B(g, h)) + Cardinality(B(h, g)) - Cardinality(B(g, h) \cap B(h, g))
        BY <2>2, FS_Union
      <4>3. Cardinality(B(g, h)) \in Nat /\ Cardinality(B(h, g)) \in Nat
        BY <2>2
      <4> QED
        BY <4>1, <4>2, <4>3
    <3> QED
      BY <2>2, <3>1
  <2>6. \A e \in coarse : {e.from, e.to} = {g, h} <=> Joins(e, g, h)
    BY DEF Joins
  <2>7. ASSUME NEW e \in drawn
        PROVE  /\ g # h /\ e.weight = n[<<g, h>>] + n[<<h, g>>] /\ n[<<g, h>>] + n[<<h, g>>] > 0
               /\ e.both <=> n[<<g, h>>] > 0 /\ n[<<h, g>>] > 0
    <3>1. e \in coarse /\ Joins(e, g, h)
      BY <2>6
    <3>2. /\ e.from # e.to /\ n[<<e.from, e.to>>] > 0
          /\ e.weight = n[<<e.from, e.to>>] + n[<<e.to, e.from>>]
          /\ e.both <=> n[<<e.to, e.from>>] > 0
      BY <2>1, <3>1 DEF Tallies
    <3>3. n[<<g, h>>] \in Nat /\ n[<<h, g>>] \in Nat
      BY <2>2
    <3> HIDE DEF n, coarse, drawn
    <3>4. CASE e.from = g /\ e.to = h
      BY <3>2, <3>3, <3>4
    <3>5. CASE e.from = h /\ e.to = g
      BY <3>2, <3>3, <3>5
    <3> QED
      BY <3>1, <3>4, <3>5 DEF Joins
  <2>8. ASSUME NEW e \in drawn, NEW f \in drawn PROVE e = f
    <3>1. e \in coarse /\ f \in coarse /\ Joins(e, g, h) /\ Joins(f, g, h)
      BY <2>6
    <3>2. Joins(e, f.from, f.to)
      BY <3>1 DEF Joins
    <3> HIDE DEF n, coarse
    <3> QED
      BY <2>1, <3>1, <3>2 DEF Tallies
  <2>9. g # h /\ B(g, h) \cup B(h, g) # {} => drawn # {}
    <3> SUFFICES ASSUME B(g, h) # {} \/ B(h, g) # {} PROVE drawn # {}
      OBVIOUS
    <3>1. PICK e \in coarse : Joins(e, g, h) \/ Joins(e, h, g)
      <4> HIDE DEF B, n, coarse
      <4> QED
        BY <2>1, <2>2 DEF Tallies
    <3>2. Joins(e, g, h)
      BY <3>1 DEF Joins
    <3> QED
      BY <2>6, <3>2
  <2>10. Cardinality(drawn) = (IF g # h /\ B(g, h) \cup B(h, g) # {} THEN 1 ELSE 0)
    <3>1. CASE drawn = {}
      <4> HIDE DEF B, drawn
      <4> QED
        BY <2>9, <3>1, FS_EmptySet
    <3>2. CASE drawn # {}
      <4>1. PICK e \in drawn : TRUE
        BY <3>2
      <4>2. drawn = {e}
        BY <2>8, <4>1
      <4>3. Cardinality(drawn) = 1
        <5> HIDE DEF drawn
        <5> QED
          BY <4>2, FS_Singleton
      <4>4. g # h /\ (n[<<g, h>>] > 0 \/ n[<<h, g>>] > 0)
        <5> HIDE DEF B, n, drawn
        <5>1. n[<<g, h>>] \in Nat /\ n[<<h, g>>] \in Nat
          BY <2>2
        <5>2. g # h /\ n[<<g, h>>] + n[<<h, g>>] > 0
          BY <2>7
        <5> QED
          BY <5>1, <5>2
      <4>5. B(g, h) \cup B(h, g) # {}
        <5> HIDE DEF B, n, drawn
        <5> QED
          BY <2>2, <4>4
      <4> HIDE DEF B, drawn
      <4> QED
        BY <4>3, <4>4, <4>5
    <3> QED
      BY <3>1, <3>2
  <2>11. ASSUME NEW e \in drawn
         PROVE  /\ e.weight = Cardinality(B(g, h) \cup B(h, g))
                /\ e.both <=> B(g, h) # {} /\ B(h, g) # {}
    <3> HIDE DEF B, n, drawn
    <3> QED
      BY <2>2, <2>5, <2>7
  <2> QED
    BY <2>10, <2>11, Zenon
<1>4. Listed => EveryLinkIsDrawn
  BY <1>3, Zenon DEF EveryLinkIsDrawn, Groups
<1> QED
  BY <1>1, <1>2, <1>4, PTL DEF LabsSpec

-----------------------------------------------------------------------------
(* The run engine.                                                         *)

Ids == {"scale", "cache", "rollback"}
Decisions == [id : Ids, at : Int]

\* How long the scenario of a run has been running at time t.
Since(run, t) == t - RunningAt(run)

Strains(run, t) ==
  /\ StatusOf(run, t) = "running"
  /\ Pressure(run.scenario, Elapsed(run, t), Accepted(run))

\* The instants run was under pressure by time t are the first n of its incident: all within it,
\* before the autoscaler and before any decision; one more of them would be the next.
StrainedFor(run, n, t) ==
  /\ n # 0 => LET next == run.scenario.incidentStart + n
              IN  /\ next <= run.scenario.incidentEnd /\ next <= run.scenario.autoScaleAt
                  /\ next <= run.scenario.duration /\ next <= Since(run, t)
                  /\ \A d \in run.decisions : next <= d.at
  /\ Strains(run, t) => Since(run, t) = run.scenario.incidentStart + n

Runs == [scenario : Scenarios, created : Int, decisions : SUBSET Decisions]

StrainOK ==
  /\ clock \in Int /\ runs \in Seq(Runs) /\ strained \in [DOMAIN runs -> Nat]
  /\ \A r \in DOMAIN runs : StrainedFor(runs[r], strained[r], clock)

\* A run is running from one instant to another, unless it lived too long before.
LEMMA StatusIs ==
  ASSUME NEW t \in Int, NEW run \in Runs
  PROVE  StatusOf(run, t) = "running" <=>
           RunningAt(run) <= t /\ t < CollectingAt(run) /\ t - run.created <= Ttl
BY TimingAssumption DEF Runs, StatusOf, RunningAt, CollectingAt, CompleteAt

\* Its scenario is then somewhere between its start and its end.
LEMMA ElapsedIs ==
  ASSUME NEW t \in Int, NEW run \in Runs, Since(run, t) \in Nat,
         Since(run, t) < run.scenario.duration
  PROVE  Elapsed(run, t) = Since(run, t)
<1>1. run.scenario.duration \in Nat
  BY TimingAssumption DEF Runs
<1>2. Min({Since(run, t), run.scenario.duration}) = Since(run, t)
  BY <1>1 DEF Min
<1>3. Max({0, Since(run, t)}) = Since(run, t)
  BY DEF Max
<1> QED
  BY <1>2, <1>3 DEF Elapsed, Since

LEMMA RunningIs ==
  ASSUME NEW t \in Int, NEW run \in Runs, StatusOf(run, t) = "running"
  PROVE  /\ Since(run, t) \in Nat /\ Since(run, t) < run.scenario.duration
         /\ Elapsed(run, t) = Since(run, t)
<1>1. RunningAt(run) \in Int /\ run.scenario.duration \in Nat
  BY TimingAssumption DEF Runs, RunningAt
<1>2. t >= RunningAt(run) /\ t < CollectingAt(run)
  BY StatusIs
<1>3. Since(run, t) \in Nat /\ Since(run, t) < run.scenario.duration
  BY <1>1, <1>2 DEF Since, CollectingAt
<1> QED
  BY <1>3, ElapsedIs

\* Any decision ends the pressure for good.
LEMMA StrainIs ==
  ASSUME NEW t \in Int, NEW run \in Runs, Strains(run, t)
  PROVE  /\ run.decisions = {} /\ Since(run, t) \in Nat
         /\ run.scenario.incidentStart <= Since(run, t)
         /\ Since(run, t) < run.scenario.incidentEnd /\ Since(run, t) < run.scenario.autoScaleAt
         /\ Since(run, t) < run.scenario.duration
<1>1. Elapsed(run, t) = Since(run, t) /\ Since(run, t) \in Nat
      /\ Since(run, t) < run.scenario.duration
  BY RunningIs DEF Strains
<1>2. Pressure(run.scenario, Since(run, t), Accepted(run))
  BY <1>1 DEF Strains
<1>3. Accepted(run) \cap Ids = {}
  BY <1>2 DEF Pressure, Scaled, Ids
<1>4. run.decisions = {}
  BY <1>3 DEF Accepted, Runs, Decisions
<1>5. {run.scenario.incidentEnd, run.scenario.autoScaleAt} \subseteq Nat
  BY TimingAssumption DEF Runs
<1> QED
  BY <1>1, <1>2, <1>4, <1>5 DEF Pressure, Scaled

\* Nothing else does, from the start of the incident until it is over.
LEMMA StrainsAgain ==
  ASSUME NEW t \in Int, NEW run \in Runs, run.decisions = {}, Since(run, t) \in Nat,
         t - run.created <= Ttl, run.scenario.incidentStart <= Since(run, t),
         Since(run, t) < run.scenario.incidentEnd, Since(run, t) < run.scenario.autoScaleAt,
         Since(run, t) < run.scenario.duration
  PROVE  Strains(run, t)
<1>1. RunningAt(run) \in Int /\ run.scenario.autoScaleAt \in Nat
      /\ run.scenario.duration \in Nat
  BY TimingAssumption DEF Runs, RunningAt
<1>2. StatusOf(run, t) = "running"
  BY <1>1, StatusIs DEF Since, CollectingAt
<1>3. Accepted(run) = {}
  BY DEF Accepted
<1> QED
  BY <1>1, <1>2, <1>3, ElapsedIs DEF Strains, Pressure, Scaled

\* A second later: one more instant under pressure is the next one, and pressure that
\* comes is the first.
LEMMA TickStrains ==
  ASSUME NEW t \in Int, NEW run \in Runs, NEW n \in Nat, NEW m \in Nat,
         NEW u \in Int, u = t + 1, StrainedFor(run, n, t), m = IF Strains(run, t) THEN n + 1 ELSE n
  PROVE  StrainedFor(run, m, u)
<1> DEFINE s == run.scenario
           next == Since(run, u)
<1>1. /\ RunningAt(run) \in Int /\ run.created \in Int
      /\ {s.incidentStart, s.incidentEnd, s.autoScaleAt, s.duration} \subseteq Nat
      /\ \A d \in run.decisions : d.at \in Int
  BY TimingAssumption DEF Runs, RunningAt, Decisions
<1>2. Since(run, t) \in Int /\ next = Since(run, t) + 1
  BY <1>1 DEF Since
<1> HIDE DEF next
<1>3. CASE Strains(run, t)
  <2>1. /\ run.decisions = {} /\ m = n + 1 /\ Since(run, t) = s.incidentStart + n
        /\ Since(run, t) < s.incidentEnd /\ Since(run, t) < s.autoScaleAt
        /\ Since(run, t) < s.duration
    BY <1>3, StrainIs DEF StrainedFor
  <2> QED
    BY <1>1, <1>2, <2>1 DEF StrainedFor, next
<1>4. CASE ~Strains(run, t)
  <2>1. ASSUME Strains(run, u) PROVE next = s.incidentStart + n
    <3>1. /\ run.decisions = {} /\ next \in Nat /\ s.incidentStart <= next
          /\ next < s.incidentEnd /\ next < s.autoScaleAt /\ next < s.duration
      BY <2>1, StrainIs DEF next
    <3>2. t - run.created <= Ttl
      <4>1. u - run.created <= Ttl
        BY <2>1, StatusIs DEF Strains
      <4> QED
        BY <1>1, <4>1, TimingAssumption
    <3>3. ~(s.incidentStart <= Since(run, t))
      BY <1>1, <1>2, <1>4, <3>1, <3>2, StrainsAgain
    <3>4. n = 0
      BY <1>1, <1>2, <3>3 DEF StrainedFor
    <3> QED
      BY <1>1, <1>2, <3>1, <3>3, <3>4
  <2>2. m = n
    BY <1>4
  <2> QED
    BY <1>1, <1>2, <2>1, <2>2 DEF StrainedFor, next
<1> QED
  BY <1>3, <1>4

\* A decision comes after the instants already under pressure, and no more follow it.
LEMMA DecidedStrains ==
  ASSUME NEW t \in Int, NEW run \in Runs, NEW n \in Nat, StrainedFor(run, n, t),
         NEW d \in Available(run, t) \cap Ids,
         NEW q, q = [run EXCEPT !.decisions = @ \cup {[id |-> d, at |-> Elapsed(run, t)]}]
  PROVE  q \in Runs /\ StrainedFor(q, n, t)
<1>1. StatusOf(run, t) = "running"
  BY DEF Available
<1>2. Elapsed(run, t) = Since(run, t) /\ Since(run, t) \in Nat
  BY <1>1, RunningIs
<1> DEFINE decision == [id |-> d, at |-> Since(run, t)]
<1>3. decision \in Decisions
  BY <1>2 DEF Decisions
<1> HIDE DEF decision
<1>4. /\ q \in Runs /\ q.decisions = run.decisions \cup {decision}
      /\ q.scenario = run.scenario /\ q.created = run.created
  BY <1>2, <1>3 DEF Runs, decision
<1>5. ~Strains(q, t)
  BY <1>4, StrainIs
<1>6. Since(q, t) = Since(run, t) /\ decision.at = Since(run, t)
  BY <1>4 DEF Since, RunningAt, decision
<1> QED
  BY <1>4, <1>5, <1>6 DEF StrainedFor

\* A run begins without pressure behind it.
LEMMA CreatedStrains ==
  ASSUME NEW t \in Int, NEW s \in Scenarios
  PROVE  LET run == [scenario |-> s, created |-> t, decisions |-> {}]
         IN  run \in Runs /\ StrainedFor(run, 0, t)
<1>1. PICK run : run = [scenario |-> s, created |-> t, decisions |-> {}]
  OBVIOUS
<1>2. run \in Runs /\ run.scenario = s /\ run.created = t
  BY <1>1 DEF Runs
<1>3. Since(run, t) \in Int /\ Since(run, t) <= 0 /\ s.incidentStart \in Nat
  BY <1>2, TimingAssumption DEF Since, RunningAt
<1>4. Strains(run, t) => Since(run, t) = s.incidentStart + 0
  BY <1>2, <1>3, StrainIs
<1> QED
  BY <1>1, <1>2, <1>4 DEF StrainedFor

LEMMA StrainStep == ASSUME StrainOK, EngineNext \/ UNCHANGED engineVars PROVE StrainOK'
<1> USE DEF StrainOK
<1>1. CASE UNCHANGED engineVars
  BY <1>1 DEF engineVars
<1>2. CASE Advance
  <2>1. PICK t \in Int, u \in Int : t = clock /\ u = clock' /\ u = t + 1
    BY <1>2 DEF Advance
  <2>2. runs' = runs
    BY <1>2 DEF Advance
  <2>3. ASSUME NEW r \in DOMAIN runs
        PROVE  strained'[r] \in Nat /\ StrainedFor(runs[r], strained'[r], u)
    <3>1. PICK run \in Runs, n \in Nat : run = runs[r] /\ n = strained[r]
      OBVIOUS
    <3>2. strained'[r] = IF Strains(run, t) THEN n + 1 ELSE n
      BY <1>2, <2>1, <3>1 DEF Advance, Strains
    <3>3. PICK m \in Nat : m = strained'[r]
      BY <3>2
    <3> QED
      BY <2>1, <3>1, <3>2, <3>3, TickStrains
  <2>4. strained' \in [DOMAIN runs -> Nat]
    BY <1>2, <2>3 DEF Advance
  <2> QED
    BY <2>1, <2>2, <2>3, <2>4
<1>3. ASSUME NEW s \in Scenarios, NEW key \in Keys \cup {NoKey}, CreateRun(s, key) PROVE StrainOK'
  <2>1. PICK t \in Int : t = clock /\ clock' = t
    BY <1>3 DEF CreateRun
  <2>2. PICK run : run = [scenario |-> s, created |-> t, decisions |-> {}]
    OBVIOUS
  <2>3. run \in Runs /\ StrainedFor(run, 0, t)
    BY <2>2, CreatedStrains
  <2>4. runs' = Append(runs, run) /\ strained' = Append(strained, 0)
    BY <1>3, <2>1, <2>2 DEF CreateRun
  <2>5. /\ runs' \in Seq(Runs) /\ DOMAIN runs' = 1..Len(runs) + 1
        /\ \A r \in 1..Len(runs) : runs'[r] = runs[r]
        /\ runs'[Len(runs) + 1] = run
    BY <2>3, <2>4
  <2>6. strained \in Seq(Nat) /\ Len(strained) = Len(runs)
    OBVIOUS
  <2>7. /\ strained' \in [1..Len(runs) + 1 -> Nat]
        /\ \A r \in 1..Len(runs) : strained'[r] = strained[r]
        /\ strained'[Len(runs) + 1] = 0
    <3>1. strained' \in Seq(Nat) /\ Len(strained') = Len(runs) + 1
      BY <2>4, <2>6
    <3>2. \A r \in 1..Len(runs) : strained'[r] = strained[r]
      BY <2>4, <2>6
    <3>3. strained'[Len(runs) + 1] = 0
      BY <2>4, <2>6
    <3>4. strained' \in [1..Len(runs) + 1 -> Nat]
      BY <3>1
    <3> QED
      BY <3>2, <3>3, <3>4
  <2>8. ASSUME NEW r \in DOMAIN runs' PROVE StrainedFor(runs'[r], strained'[r], t)
    <3>1. CASE r = Len(runs) + 1
      BY <2>3, <2>5, <2>7, <3>1
    <3>2. CASE r \in DOMAIN runs
      <4>1. r \in 1..Len(runs) /\ StrainedFor(runs[r], strained[r], t)
        BY <2>1, <3>2
      <4> QED
        BY <2>5, <2>7, <4>1
    <3> QED
      BY <2>5, <3>1, <3>2
  <2> QED
    BY <2>1, <2>5, <2>7, <2>8
<1>4. ASSUME NEW r \in DOMAIN runs, NEW d \in Ids, SubmitDecision(r, d) PROVE StrainOK'
  <2>1. PICK t \in Int : t = clock /\ clock' = t
    BY <1>4 DEF SubmitDecision
  <2>2. PICK run \in Runs, n \in Nat : run = runs[r] /\ n = strained[r]
    OBVIOUS
  <2>3. PICK q : q = [run EXCEPT !.decisions = @ \cup {[id |-> d, at |-> Elapsed(run, t)]}]
    OBVIOUS
  <2>4. q \in Runs /\ StrainedFor(q, n, t)
    BY <1>4, <2>1, <2>2, <2>3, DecidedStrains DEF SubmitDecision
  <2>5. runs' = [runs EXCEPT ![r] = q] /\ strained' = strained
    BY <1>4, <2>1, <2>2, <2>3 DEF SubmitDecision
  <2> QED
    BY <2>1, <2>2, <2>4, <2>5
<1> QED
  BY <1>1, <1>2, <1>3, <1>4 DEF EngineNext, Ids

\* Of as many instants in a row as the report leaves between two samples, one is a sample.
LEMMA OneIsSampled ==
  ASSUME NEW a \in Nat, NEW n \in Nat \ {0}
  PROVE  \E e \in a..(a + n - 1) : e % n = 0
BY Z3

\* Whatever is decided afterwards, a run that was under pressure for longer than the
\* report's sampling has the burn in its report.
THEOREM ReportsOwnUp == LabsSpec => []ReportOwnsUp
<1>1. LabsInit => StrainOK
  BY DEF LabsInit, EngineInit, StrainOK
<1>2. StrainOK /\ [LabsNext]_labsVars => StrainOK'
  BY StrainStep, OneLabSteps
<1>3. StrainOK => ReportOwnsUp
  <2> SUFFICES ASSUME StrainOK, NEW r \in DOMAIN runs, strained[r] > Sampling
               PROVE  Report(runs[r]).burned
    BY DEF ReportOwnsUp
  <2>1. PICK run \in Runs, n \in Nat : run = runs[r] /\ n = strained[r]
    BY DEF StrainOK
  <2> DEFINE s == run.scenario
  <2>2. /\ {s.incidentStart, s.incidentEnd, s.autoScaleAt, s.duration} \subseteq Nat
        /\ Sampling \in Nat \ {0} /\ n > Sampling
    BY <2>1, TimingAssumption DEF Runs
  <2>3. PICK e \in s.incidentStart..(s.incidentStart + Sampling - 1) : e % Sampling = 0
    BY <2>2, OneIsSampled
  <2>4. /\ e \in Nat /\ e < s.incidentStart + n /\ s.incidentStart <= e
        /\ s.incidentStart + n <= s.incidentEnd /\ s.incidentStart + n <= s.autoScaleAt
        /\ s.incidentStart + n <= s.duration
        /\ \A d \in run.decisions : s.incidentStart + n <= d.at
    <3>1. StrainedFor(run, n, clock) /\ n # 0
      BY <2>1, <2>2 DEF StrainOK
    <3>2. e \in Nat /\ e < s.incidentStart + n /\ s.incidentStart <= e
      BY <2>2, <2>3
    <3> QED
      BY <3>1, <3>2 DEF StrainedFor
  <2>5. EffectiveAt(run, e) = {}
    BY <2>2, <2>4 DEF EffectiveAt, Runs, Decisions
  <2>6. Pressure(s, e, EffectiveAt(run, e))
    BY <2>2, <2>4, <2>5 DEF Pressure, Scaled
  <2> QED
    BY <2>1, <2>2, <2>3, <2>4, <2>6 DEF Report
<1> QED
  BY <1>1, <1>2, <1>3, PTL DEF LabsSpec

-----------------------------------------------------------------------------
(* The AI lab.                                                             *)

LEMMA ElapsedIsNat == LabsSpec => [](elapsed \in Nat)
<1>1. LabsInit => elapsed \in Nat
  BY DEF LabsInit, AiInit
<1>2. elapsed \in Nat /\ [LabsNext]_labsVars => (elapsed \in Nat)'
  BY OneLabSteps DEF AiNext, aiVars, Start, ArenaPhase, Interval, Hint, SetMode
<1> QED
  BY <1>1, <1>2, PTL DEF LabsSpec

\* No hint, which would sway it, comes once the lanes are judged; a new run begins
\* unjudged.
THEOREM VerdictsStand == LabsSpec => VerdictStands
<1> DEFINE Stands == Judged /\ Judged' =>
             Winner' = Winner /\ \A agent \in {"primary", "fast"} : Lane(agent)' = Lane(agent)
<1>1. ASSUME elapsed \in Nat, [LabsNext]_labsVars PROVE [Stands]_aiVars
  <2> SUFFICES ASSUME AiNext, Judged, Judged'
               PROVE  Winner' = Winner
                      /\ \A agent \in {"primary", "fast"} : Lane(agent)' = Lane(agent)
    BY <1>1, OneLabSteps
  <2>1. hints' = hints
    <3>1. CASE Start
      BY <3>1, HintsAreOver DEF Start, Judged
    <3>2. CASE \E agent \in {"primary", "fast"} : Hint(agent)
      BY <1>1, <3>2, HintsAreOver DEF Hint, CanHint, Judged
    <3>3. CASE ArenaPhase \/ Interval \/ \E m \in {"balanced", "quality", "speed"} : SetMode(m)
      BY <3>3 DEF ArenaPhase, Interval, SetMode
    <3> QED
      BY <3>1, <3>2, <3>3 DEF AiNext
  <2> QED
    BY <2>1 DEF Winner, Lane
<1> QED
  BY <1>1, ElapsedIsNat, PTL DEF LabsSpec, VerdictStands

-----------------------------------------------------------------------------
(* The operator console.                                                   *)

IsLog(log) == \E S : log \in Seq(S)

\* What AnswersFollowTheirLines says of a transcript.
Answered(log) ==
  \A i \in DOMAIN log : log[i].kind = "answer" =>
    \E j \in 1..(i - 1) : /\ log[j] = Entry("asked", log[i].line)
                          /\ \A k \in (j + 1)..(i - 1) : log[k].kind = "told"

\* The line was asked, and only announcements came after it.
Open(log, line) ==
  \E j \in 1..Len(log) : /\ log[j] = Entry("asked", line)
                         /\ \A k \in (j + 1)..Len(log) : log[k].kind = "told"

ConsoleOK ==
  /\ console = [entries |-> console.entries, input |-> console.input, past |-> console.past,
                cursor |-> console.cursor, running |-> console.running]
  /\ IsLog(console.entries) /\ Answered(console.entries)
  /\ console.running # NoLine => Open(console.entries, console.running)

LEMMA AppendIs ==
  ASSUME NEW log, IsLog(log), NEW e
  PROVE  /\ IsLog(Append(log, e)) /\ Len(log) \in Nat /\ Len(Append(log, e)) = Len(log) + 1
         /\ DOMAIN log = 1..Len(log) /\ DOMAIN Append(log, e) = 1..(Len(log) + 1)
         /\ \A i \in 1..Len(log) : Append(log, e)[i] = log[i]
         /\ Append(log, e)[Len(log) + 1] = e
<1>1. PICK S : log \in Seq(S)
  BY DEF IsLog
<1>2. log \in Seq(S \cup {e}) /\ e \in S \cup {e}
  BY <1>1
<1>3. Append(log, e) \in Seq(S \cup {e})
  BY <1>2
<1> QED
  BY <1>2, <1>3 DEF IsLog

\* Anything but an answer may be written at any time.
LEMMA AnythingButAnAnswer ==
  ASSUME NEW log, IsLog(log), Answered(log), NEW e, e.kind # "answer"
  PROVE  Answered(Append(log, e))
<1> DEFINE longer == Append(log, e)
<1>1. /\ Len(log) \in Nat /\ DOMAIN log = 1..Len(log) /\ DOMAIN longer = 1..(Len(log) + 1)
      /\ \A i \in 1..Len(log) : longer[i] = log[i]
      /\ longer[Len(log) + 1] = e
  BY AppendIs
<1> HIDE DEF longer
<1>2. ASSUME NEW i \in DOMAIN longer, longer[i].kind = "answer"
      PROVE  \E j \in 1..(i - 1) : /\ longer[j] = Entry("asked", longer[i].line)
                                   /\ \A k \in (j + 1)..(i - 1) : longer[k].kind = "told"
  <2>1. i \in DOMAIN log /\ longer[i] = log[i]
    BY <1>1, <1>2
  <2>2. PICK j \in 1..(i - 1) : /\ log[j] = Entry("asked", log[i].line)
                                /\ \A k \in (j + 1)..(i - 1) : log[k].kind = "told"
    BY <1>2, <2>1 DEF Answered
  <2>3. \A k \in 1..(i - 1) : longer[k] = log[k]
    BY <1>1, <2>1
  <2> QED
    BY <1>1, <2>1, <2>2, <2>3
<1> QED
  BY <1>2 DEF Answered, longer

\* The answer comes under the line that is open.
LEMMA TheAnswer ==
  ASSUME NEW log, IsLog(log), Answered(log), NEW line, Open(log, line)
  PROVE  Answered(Append(log, Entry("answer", line)))
<1> DEFINE longer == Append(log, Entry("answer", line))
<1>1. /\ Len(log) \in Nat /\ DOMAIN log = 1..Len(log) /\ DOMAIN longer = 1..(Len(log) + 1)
      /\ \A i \in 1..Len(log) : longer[i] = log[i]
      /\ longer[Len(log) + 1] = Entry("answer", line)
  BY AppendIs
<1> HIDE DEF longer
<1>2. ASSUME NEW i \in DOMAIN longer, longer[i].kind = "answer"
      PROVE  \E j \in 1..(i - 1) : /\ longer[j] = Entry("asked", longer[i].line)
                                   /\ \A k \in (j + 1)..(i - 1) : longer[k].kind = "told"
  <2>1. CASE i \in DOMAIN log
    <3>1. longer[i] = log[i] /\ \A k \in 1..(i - 1) : longer[k] = log[k]
      BY <1>1, <2>1
    <3>2. PICK j \in 1..(i - 1) : /\ log[j] = Entry("asked", log[i].line)
                                  /\ \A k \in (j + 1)..(i - 1) : log[k].kind = "told"
      BY <1>2, <2>1, <3>1 DEF Answered
    <3> QED
      BY <1>1, <2>1, <3>1, <3>2
  <2>2. CASE i \notin DOMAIN log
    <3>1. i = Len(log) + 1 /\ longer[i].line = line
      BY <1>1, <2>2 DEF Entry
    <3>2. PICK j \in 1..Len(log) : /\ log[j] = Entry("asked", line)
                                   /\ \A k \in (j + 1)..Len(log) : log[k].kind = "told"
      BY DEF Open
    <3> QED
      BY <1>1, <3>1, <3>2
  <2> QED
    BY <2>1, <2>2
<1> QED
  BY <1>2 DEF Answered, longer

\* An announcement leaves a line open; a line that is asked is open.
LEMMA OpenStays ==
  ASSUME NEW log, IsLog(log), NEW line
  PROVE  /\ Open(Append(log, Entry("asked", line)), line)
         /\ \A e : e.kind = "told" /\ Open(log, line) => Open(Append(log, e), line)
<1>1. Open(Append(log, Entry("asked", line)), line)
  <2> DEFINE longer == Append(log, Entry("asked", line))
  <2>1. /\ Len(log) \in Nat /\ Len(longer) = Len(log) + 1
        /\ longer[Len(log) + 1] = Entry("asked", line)
    BY AppendIs
  <2> HIDE DEF longer
  <2>2. Open(longer, line)
    BY <2>1 DEF Open
  <2> QED
    BY <2>2 DEF longer
<1>2. ASSUME NEW e, e.kind = "told", Open(log, line) PROVE Open(Append(log, e), line)
  <2> DEFINE longer == Append(log, e)
  <2>1. /\ Len(log) \in Nat /\ Len(longer) = Len(log) + 1 /\ longer[Len(log) + 1] = e
        /\ \A i \in 1..Len(log) : longer[i] = log[i]
    BY AppendIs
  <2> HIDE DEF longer
  <2>2. PICK j \in 1..Len(log) : /\ log[j] = Entry("asked", line)
                                 /\ \A k \in (j + 1)..Len(log) : log[k].kind = "told"
    BY <1>2 DEF Open
  <2>3. longer[j] = Entry("asked", line)
        /\ \A k \in (j + 1)..Len(longer) : longer[k].kind = "told"
    BY <1>2, <2>1, <2>2
  <2>4. Open(longer, line)
    BY <2>1, <2>3 DEF Open
  <2> QED
    BY <2>4 DEF longer
<1> QED
  BY <1>1, <1>2

\* Logs of none and of one entry.
LEMMA NewLogs == IsLog(<<>>) /\ Answered(<<>>) /\ IsLog(Greeting) /\ Answered(Greeting)
<1>1. <<>> \in Seq({}) /\ Greeting \in Seq({Entry("greeting", NoLine)})
  BY DEF Greeting
<1>2. \A i \in DOMAIN Greeting : Greeting[i].kind = "greeting"
  BY DEF Greeting, Entry
<1> QED
  BY <1>1, <1>2 DEF IsLog, Answered

\* A line is executed only when none is out.
LEMMA ExecuteStep ==
  ASSUME ConsoleOK, NEW c, NEW line, Execute(c, line),
         c = console \/ c = [console EXCEPT !.input = <<>>]
  PROVE  ConsoleOK'
<1>1. /\ IsLog(console.entries) /\ Answered(console.entries) /\ console.running = NoLine
      /\ c = [entries |-> c.entries, input |-> c.input, past |-> c.past, cursor |-> c.cursor,
              running |-> c.running]
      /\ c.entries = console.entries /\ c.running = NoLine
  BY DEF ConsoleOK, Execute, ConsoleDisabled
<1>2. PICK past : past = Remembered(c.past, line)
  OBVIOUS
<1>3. PICK known : known = [c EXCEPT !.past = past, !.cursor = 0]
  OBVIOUS
<1>4. /\ known = [entries |-> known.entries, input |-> known.input, past |-> known.past,
                  cursor |-> known.cursor, running |-> known.running]
      /\ known.entries = console.entries /\ known.running = NoLine
  BY <1>1, <1>3
<1>5. \/ console' = [known EXCEPT !.entries = <<>>]
      \/ console' = [known EXCEPT !.entries = Append(@, Entry("help", line))]
      \/ console' = [known EXCEPT !.entries = Append(@, Entry("asked", line)), !.running = line]
  BY <1>2, <1>3 DEF Execute, Executed
<1>6. CASE console' = [known EXCEPT !.entries = <<>>]
  BY <1>4, <1>6, NewLogs DEF ConsoleOK
<1>7. CASE console' = [known EXCEPT !.entries = Append(@, Entry("help", line))]
  <2>1. Entry("help", line).kind # "answer"
    BY DEF Entry
  <2>2. IsLog(Append(console.entries, Entry("help", line)))
        /\ Answered(Append(console.entries, Entry("help", line)))
    BY <1>1, <2>1, AppendIs, AnythingButAnAnswer
  <2>3. console'.entries = Append(console.entries, Entry("help", line)) /\ console'.running = NoLine
    BY <1>4, <1>7
  <2> QED
    BY <1>4, <1>7, <2>2, <2>3 DEF ConsoleOK
<1>8. CASE console' = [known EXCEPT !.entries = Append(@, Entry("asked", line)), !.running = line]
  <2>1. Entry("asked", line).kind # "answer"
    BY DEF Entry
  <2>2. IsLog(Append(console.entries, Entry("asked", line)))
        /\ Answered(Append(console.entries, Entry("asked", line)))
    BY <1>1, <2>1, AppendIs, AnythingButAnAnswer
  <2>3. Open(Append(console.entries, Entry("asked", line)), line)
    BY <1>1, OpenStays
  <2>4. console'.entries = Append(console.entries, Entry("asked", line)) /\ console'.running = line
    BY <1>4, <1>8
  <2> QED
    BY <1>4, <1>8, <2>2, <2>3, <2>4 DEF ConsoleOK
<1> QED
  BY <1>5, <1>6, <1>7, <1>8

LEMMA ConsoleStep == ASSUME ConsoleOK, ConsoleNext \/ UNCHANGED consoleVars PROVE ConsoleOK'
<1>c. /\ console = [entries |-> console.entries, input |-> console.input, past |-> console.past,
                    cursor |-> console.cursor, running |-> console.running]
      /\ IsLog(console.entries) /\ Answered(console.entries)
      /\ console.running # NoLine => Open(console.entries, console.running)
  BY DEF ConsoleOK
<1>1. CASE console' = console
  BY <1>1 DEF ConsoleOK
<1>2. CASE QuickRead \/ Submit
  BY <1>2, ExecuteStep DEF QuickRead, Submit
<1>3. CASE ConsoleAnswer
  <2> DEFINE longer == Append(console.entries, Entry("answer", console.running))
  <2>1. console' = [console EXCEPT !.entries = longer, !.running = NoLine]
    BY <1>3 DEF ConsoleAnswer
  <2>2. IsLog(longer) /\ Answered(longer)
    BY <1>c, <1>3, AppendIs, TheAnswer DEF ConsoleAnswer
  <2> HIDE DEF longer
  <2> QED
    BY <1>c, <2>1, <2>2 DEF ConsoleOK
<1>4. CASE Type \/ ArrowUp \/ ArrowDown
  <2>1. PICK input, cursor : console' = [console EXCEPT !.cursor = cursor, !.input = input]
    <3>1. CASE Type
      <4>1. PICK line \in Typed : console' = [console EXCEPT !.input = line]
        BY <3>1 DEF Type, OnCommandLine
      <4>2. console' = [console EXCEPT !.cursor = console.cursor, !.input = line]
        BY <1>c, <4>1
      <4> QED
        BY <4>2
    <3>2. CASE ArrowUp
      BY <3>2 DEF ArrowUp, OnCommandLine
    <3>3. CASE ArrowDown
      BY <3>3 DEF ArrowDown, OnCommandLine
    <3> QED
      BY <1>4, <3>1, <3>2, <3>3
  <2> QED
    BY <1>c, <2>1 DEF ConsoleOK
<1>5. ASSUME NEW a, NEW stage, NEW c, c = console \/ c = NewConsole, Hear(a, c, stage)
      PROVE  ConsoleOK'
  <2>1. /\ c = [entries |-> c.entries, input |-> c.input, past |-> c.past, cursor |-> c.cursor,
                running |-> c.running]
        /\ IsLog(c.entries) /\ Answered(c.entries)
        /\ c.running # NoLine => Open(c.entries, c.running)
    BY <1>c, <1>5, NewLogs DEF NewConsole
  <2>2. CASE console' = c
    BY <2>1, <2>2 DEF ConsoleOK
  <2>3. CASE console' = [c EXCEPT !.entries = Append(@, Entry("told", NoLine))]
    <3> DEFINE longer == Append(c.entries, Entry("told", NoLine))
    <3>1. Entry("told", NoLine).kind = "told"
      BY DEF Entry
    <3>2. /\ IsLog(longer) /\ Answered(longer)
          /\ c.running # NoLine => Open(longer, c.running)
      BY <2>1, <3>1, AppendIs, AnythingButAnAnswer, OpenStays
    <3>3. console' = [c EXCEPT !.entries = longer]
      BY <2>3
    <3> HIDE DEF longer
    <3> QED
      BY <2>1, <3>2, <3>3 DEF ConsoleOK
  <2> QED
    BY <1>5, <2>2, <2>3 DEF Hear
<1>6. CASE OpenArena \/ Look
  BY <1>5, <1>6 DEF OpenArena, Look
<1>7. CASE LeaveArena
  <2>1. console' = NewConsole
    BY <1>7 DEF LeaveArena
  <2> QED
    BY <2>1, NewLogs DEF NewConsole, ConsoleOK
<1>8. CASE HostActs \/ HostDone \/ Escalate \/ PickTool \/ CloseTool
  BY <1>1, <1>8 DEF HostActs, HostDone, Escalate, PickTool, CloseTool, PanelMoves
<1> QED
  BY <1>1, <1>2, <1>3, <1>4, <1>6, <1>7, <1>8 DEF ConsoleNext, consoleVars

\* Whatever is typed, clicked or announced while a command is out, its answer is read
\* under its own line.
THEOREM AnswersAreUnderTheirLines == LabsSpec => []AnswersFollowTheirLines
<1>1. LabsInit => ConsoleOK
  BY NewLogs DEF LabsInit, ConsoleInit, NewConsole, ConsoleOK
<1>2. ConsoleOK /\ [LabsNext]_labsVars => ConsoleOK'
  BY ConsoleStep, OneLabSteps
<1>3. ConsoleOK => AnswersFollowTheirLines
  BY DEF ConsoleOK, Answered, AnswersFollowTheirLines
<1> QED
  BY <1>1, <1>2, <1>3, PTL DEF LabsSpec

=============================================================================

----------------------------- MODULE CanvasProofs -----------------------------
EXTENDS ClusterCanvas, FiniteSetTheorems, TLAPS
(***************************************************************************)
(* Three claims about the live graph, for any tiers, replicas and dials.   *)
(* The curves meet the cards although the effect that measures them does   *)
(* not depend on the switches: turning one never adds or removes a card    *)
(* place (PlacesByDeps).  A plain press picks its card because the press   *)
(* itself forgets the click that an earlier drag left to be swallowed      *)
(* (PressOK).  And a dial at rest shows what the page holds.               *)
(***************************************************************************)

AllReplicas == UNION {Replicas[t] : t \in Tiers}
Pods == {f \in [Tiers -> SUBSET AllReplicas] : \A t \in Tiers : f[t] \subseteq Replicas[t]}
Wants == {f \in [Tiers -> 0..MaxWant] : /\ \A t \in Dialled : f[t] \in Turns(t)
                                        /\ \A t \in Switched : f[t] \in {0, 1}}
Picks == {NoPick} \cup (Tiers \X ({Whole} \cup AllReplicas))
FrameViews == [moved : BOOLEAN, zoom : -MaxZoom..MaxZoom]
Presses == [st : {"up", "pressed", "dragging", "lost"}, on : Picks, swallows : BOOLEAN]
Thumbs == [open : BOOLEAN, local : 0..MaxWant, held : BOOLEAN]

ClusterOK ==
  /\ cluster \in 0..MaxClusters /\ pods \in Pods /\ want \in Wants
  /\ stored \in Turns(Dial) /\ change \in {NoChange} \cup Turns(Dial)

FrameOK ==
  /\ frame \in {"booting", "away", "open"} /\ frameView \in FrameViews
  /\ listening \in BOOLEAN

PressOK ==
  /\ press \in Presses /\ picked \in Picks
  /\ press.st = "pressed" => ~press.swallows

CurvesOK ==
  /\ drawn \in [Tiers -> Nat] /\ measured \in BOOLEAN
  /\ measured => frame = "open" /\ drawn = [t \in Tiers |-> Places(t)]

DialOK ==
  /\ thumb \in Thumbs /\ ThumbTellsTheTruth
  /\ thumb.open => thumb.local \in Turns(Dial)

\* The inductive invariant.
CanvasInv == ClusterOK /\ FrameOK /\ PressOK /\ CurvesOK /\ DialOK

-----------------------------------------------------------------------------
(* Cards and places.                                                       *)

LEMMA MaxOfTwo == ASSUME NEW a \in Int, NEW b \in Int
                  PROVE  Max({a, b}) = IF a >= b THEN a ELSE b
<1> DEFINE m == IF a >= b THEN a ELSE b
<1>1. m \in {a, b} /\ \A y \in {a, b} : m >= y
  OBVIOUS
<1>2. \A x \in {a, b} : (\A y \in {a, b} : x >= y) => x = m
  OBVIOUS
<1> QED
  BY <1>1, <1>2 DEF Max

LEMMA MinOfTwo == ASSUME NEW a \in Int, NEW b \in Int
                  PROVE  Min({a, b}) = IF a <= b THEN a ELSE b
<1> DEFINE m == IF a <= b THEN a ELSE b
<1>1. m \in {a, b} /\ \A y \in {a, b} : m <= y
  OBVIOUS
<1>2. \A x \in {a, b} : (\A y \in {a, b} : x <= y) => x = m
  OBVIOUS
<1> QED
  BY <1>1, <1>2 DEF Min

\* A tier of n replicas of which i are asked for.
LEMMA PlacesOf ==
  ASSUME NEW n \in Nat, NEW i \in Nat
  PROVE  Max({1, n + Max({0, i - n})}) = IF n < i THEN i ELSE IF n = 0 THEN 1 ELSE n
<1>1. Max({0, i - n}) = IF 0 >= i - n THEN 0 ELSE i - n
  BY MaxOfTwo
<1>2. n + Max({0, i - n}) = IF n < i THEN i ELSE n
  BY <1>1
<1>3. PICK k \in Nat : k = n + Max({0, i - n})
  BY <1>2
<1>4. Max({1, k}) = IF 1 >= k THEN 1 ELSE k
  BY MaxOfTwo
<1> QED
  BY <1>2, <1>3, <1>4

LEMMA PodsCounted == ASSUME NEW f \in Pods, NEW t \in Tiers PROVE Cardinality(f[t]) \in Nat
<1>1. IsFiniteSet(f[t])
  BY FS_Subset, CanvasCards DEF Pods
<1> QED
  BY <1>1, FS_CardinalityType

\* What a dial goes over.
LEMMA TurnsAre ==
  /\ \A t \in Tiers : Turns(t) \subseteq 0..MaxWant /\ Least(t) \in Turns(t) /\ 1 \in Turns(t)
  /\ Dial \in Dialled /\ Dial \in Tiers /\ Dial \notin Switched
BY CanvasBounds DEF Turns, Least

LEMMA IntendedIs ==
  ASSUME NEW w \in Wants, NEW t \in Tiers
  PROVE  /\ Intended(t, w) \in Nat
         /\ t \notin Dialled => Intended(t, w) \in {0, 1}
BY CanvasBounds DEF Intended, Wants

\* The same replicas and the same dials give every tier as many places, whatever the
\* switches: a tier that is switched has one place when it has no replica, and as many
\* as replicas otherwise.
LEMMA PlacesByDeps ==
  ASSUME pods \in Pods, want \in Wants, want' \in Wants, UNCHANGED pods,
         \A t \in Dialled : want'[t] = want[t]
  PROVE  \A t \in Tiers : Places(t)' = Places(t)
<1> SUFFICES ASSUME NEW t \in Tiers PROVE Places(t)' = Places(t)
  OBVIOUS
<1>1. PICK n \in Nat : n = Cardinality(pods[t])
  BY PodsCounted
<1>2. PICK i \in Nat : i = Intended(t, want) /\ (t \notin Dialled => i \in {0, 1})
  BY IntendedIs
<1>3. PICK j \in Nat : j = Intended(t, want') /\ (t \notin Dialled => j \in {0, 1})
  BY IntendedIs
<1>4. t \in Dialled => i = j
  BY <1>2, <1>3 DEF Intended
<1>5. Places(t) = IF n < i THEN i ELSE IF n = 0 THEN 1 ELSE n
  BY <1>1, <1>2, PlacesOf DEF Places, Ghosts
<1>6. Places(t)' = IF n < j THEN j ELSE IF n = 0 THEN 1 ELSE n
  <2>1. Places(t)' = Max({1, n + Max({0, j - n})})
    BY <1>1, <1>3 DEF Places, Ghosts
  <2> QED
    BY <2>1, PlacesOf
<1> QED
  BY <1>2, <1>3, <1>4, <1>5, <1>6

LEMMA PlacesAreNat ==
  /\ pods \in Pods /\ want \in Wants => \A t \in Tiers : Places(t) \in Nat
  /\ pods' \in Pods /\ want' \in Wants => \A t \in Tiers : Places(t)' \in Nat
<1>1. ASSUME NEW f \in Pods, NEW w \in Wants, NEW t \in Tiers
      PROVE  Max({1, Cardinality(f[t]) + Max({0, Intended(t, w) - Cardinality(f[t])})}) \in Nat
  <2>1. PICK n \in Nat : n = Cardinality(f[t])
    BY PodsCounted
  <2>2. PICK i \in Nat : i = Intended(t, w)
    BY IntendedIs
  <2> QED
    BY <2>1, <2>2, PlacesOf
<1> QED
  BY <1>1 DEF Places, Ghosts

-----------------------------------------------------------------------------
(* The curves.                                                             *)

\* A render that may measure.
LEMMA RepaintStep ==
  ASSUME CanvasInv, ClusterOK', Repainted
  PROVE  CurvesOK'
<1>1. /\ pods \in Pods /\ want \in Wants /\ pods' \in Pods /\ want' \in Wants
      /\ drawn \in [Tiers -> Nat] /\ measured \in BOOLEAN
      /\ measured => frame = "open" /\ drawn = [t \in Tiers |-> Places(t)]
  BY DEF CanvasInv, ClusterOK, CurvesOK
<1>2. CASE frame' = "open" /\ Deps' # Deps
  <2>1. drawn' = [t \in Tiers |-> Places(t)'] /\ measured' \in BOOLEAN
    BY <1>2 DEF Repainted
  <2> QED
    BY <1>1, <1>2, <2>1, PlacesAreNat DEF CurvesOK
<1>3. CASE frame' = "open" /\ Deps' = Deps
  <2>1. UNCHANGED <<drawn, measured>>
    BY <1>1, <1>3 DEF Repainted
  <2>2. UNCHANGED pods /\ \A t \in Dialled : want'[t] = want[t]
    <3>1. UNCHANGED pods /\ [t \in Dialled |-> want'[t]] = [t \in Dialled |-> want[t]]
      BY <1>3 DEF Deps
    <3>2. ASSUME NEW t \in Dialled PROVE want'[t] = want[t]
      <4>1. [u \in Dialled |-> want'[u]][t] = [u \in Dialled |-> want[u]][t]
        BY <3>1
      <4> QED
        BY <4>1
    <3> QED
      BY <3>1, <3>2
  <2>3. \A t \in Tiers : Places(t)' = Places(t)
    BY <1>1, <2>2, PlacesByDeps
  <2> QED
    BY <1>1, <1>3, <2>1, <2>3 DEF CurvesOK
<1>4. CASE frame' # "open"
  <2>1. UNCHANGED drawn /\ measured' = FALSE
    BY <1>4 DEF Repainted
  <2> QED
    BY <1>1, <2>1 DEF CurvesOK
<1> QED
  BY <1>2, <1>3, <1>4

\* No render: the cards, the frame and the curves stand.
LEMMA CurvesStand ==
  ASSUME CanvasInv, UNCHANGED <<pods, want, frame, drawn, measured>>
  PROVE  CurvesOK'
BY DEF CanvasInv, CurvesOK, Places, Ghosts

LEMMA ClusterStands == ASSUME CanvasInv, UNCHANGED clusterNow PROVE ClusterOK'
BY DEF CanvasInv, ClusterOK, clusterNow

LEMMA PressStands == ASSUME CanvasInv, UNCHANGED <<press, picked>> PROVE PressOK'
BY DEF CanvasInv, PressOK

LEMMA DialStands == ASSUME CanvasInv, UNCHANGED <<want, thumb>> PROVE DialOK'
BY DEF CanvasInv, DialOK, ThumbTellsTheTruth

LEMMA FrameStands == ASSUME CanvasInv, UNCHANGED <<frame, frameView, listening>> PROVE FrameOK'
BY DEF CanvasInv, FrameOK

LEMMA Thumb ==
  ASSUME CanvasInv
  PROVE  /\ thumb \in Thumbs /\ Shut \in Thumbs /\ ~Shut.open
         /\ thumb.open => thumb.local \in Turns(Dial)
         /\ \A n \in Turns(Dial) :
              /\ Follows(n) \in Thumbs
              /\ Follows(n).open /\ ~Follows(n).held => Follows(n).local = n
              /\ Follows(n).open => Follows(n).local \in Turns(Dial)
<1>1. thumb \in Thumbs /\ (thumb.open => thumb.local \in Turns(Dial))
  BY DEF CanvasInv, DialOK
<1>2. Shut \in Thumbs /\ ~Shut.open
  BY CanvasBounds DEF Thumbs, Shut
<1>3. ASSUME NEW n \in Turns(Dial)
      PROVE  /\ Follows(n) \in Thumbs
             /\ Follows(n).open /\ ~Follows(n).held => Follows(n).local = n
             /\ Follows(n).open => Follows(n).local \in Turns(Dial)
  <2>1. n \in 0..MaxWant
    BY TurnsAre
  <2>2. CASE thumb.open /\ ~thumb.held
    <3>1. Follows(n) = [thumb EXCEPT !.local = n]
      BY <2>2 DEF Follows
    <3> QED
      BY <1>1, <2>1, <3>1 DEF Thumbs
  <2>3. CASE ~(thumb.open /\ ~thumb.held)
    <3>1. Follows(n) = thumb
      BY <2>3 DEF Follows
    <3> QED
      BY <1>1, <2>3, <3>1
  <2> QED
    BY <2>2, <2>3
<1> QED
  BY <1>1, <1>2, <1>3

LEMMA ButtonsArePicks ==
  ASSUME CanvasInv
  PROVE  Buttons \subseteq Picks /\ NoPick \notin Buttons
<1>1. pods \in Pods
  BY DEF CanvasInv, ClusterOK
<1>2. ASSUME NEW c \in Buttons PROVE c \in Picks /\ c # NoPick
  <2>1. PICK t \in Tiers : c \in IF pods[t] = {} THEN (IF Ghosts(t) = 0 THEN {<<t, Whole>>} ELSE {})
                                 ELSE {t} \X pods[t]
    BY DEF Buttons
  <2>2. pods[t] \subseteq AllReplicas
    BY <1>1 DEF Pods
  <2>3. PICK p \in {Whole} \cup AllReplicas : c = <<t, p>>
    BY <2>1, <2>2
  <2> QED
    BY <2>3, CanvasCards DEF Picks, NoPick
<1> QED
  BY <1>2

-----------------------------------------------------------------------------
(* The dial and the readings.                                              *)

LEMMA WantsStep ==
  ASSUME NEW w \in Wants, NEW t \in Tiers, NEW n \in 0..MaxWant,
         t \in Dialled => n \in Turns(t), t \in Switched => n \in {0, 1}
  PROVE  [w EXCEPT ![t] = n] \in Wants
<1>2. PICK v : v = [w EXCEPT ![t] = n]
  OBVIOUS
<1>3. v \in [Tiers -> 0..MaxWant] /\ \A u \in Tiers : v[u] = IF u = t THEN n ELSE w[u]
  BY <1>2 DEF Wants
<1>4. /\ \A u \in Dialled : u \in Tiers /\ w[u] \in Turns(u)
      /\ \A u \in Switched : u \in Tiers /\ w[u] \in {0, 1}
  BY CanvasBounds DEF Wants
<1>5. v \in Wants
  BY <1>3, <1>4 DEF Wants
<1> QED
  BY <1>2, <1>5

LEMMA ControlsInv ==
  ASSUME CanvasInv, OpenControls \/ LeaveControls \/ Grab
  PROVE  CanvasInv'
<1>1. UNCHANGED <<clusterNow, frameNow, drawn, measured, picked>>
  BY DEF OpenControls, LeaveControls, Grab
<1>2. ClusterOK' /\ FrameOK' /\ PressOK' /\ CurvesOK'
  BY <1>1, ClusterStands, FrameStands, PressStands, CurvesStand DEF frameNow, clusterNow
<1>3. /\ want[Dial] \in Turns(Dial) /\ want' = want /\ thumb \in Thumbs
      /\ Turns(Dial) \subseteq 0..MaxWant
  BY <1>1, TurnsAre, Thumb DEF CanvasInv, ClusterOK, Wants, clusterNow
<1>4. DialOK'
  <2>1. CASE OpenControls
    BY <1>3, <2>1 DEF OpenControls, DialOK, ThumbTellsTheTruth, Thumbs
  <2>2. CASE LeaveControls
    BY <1>3, <2>2, Thumb DEF LeaveControls, DialOK, ThumbTellsTheTruth
  <2>3. CASE Grab
    BY <1>3, <2>3 DEF Grab, DialOK, ThumbTellsTheTruth, Thumbs
  <2> QED
    BY <2>1, <2>2, <2>3
<1> QED
  BY <1>2, <1>4 DEF CanvasInv

LEMMA LetGoInv == ASSUME CanvasInv, LetGo PROVE CanvasInv'
<1>1. /\ UNCHANGED <<frameNow, picked>> /\ thumb' = [thumb EXCEPT !.held = FALSE]
      /\ thumb \in Thumbs /\ thumb.local \in Turns(Dial) /\ want \in Wants
      /\ Dial \in Tiers /\ thumb.local \in 0..MaxWant
  BY Thumb, TurnsAre DEF LetGo, CanvasInv, ClusterOK
<1>2. FrameOK' /\ PressOK'
  BY <1>1, FrameStands, PressStands DEF frameNow
<1>3. thumb' \in Thumbs /\ thumb'.local = thumb.local /\ thumb'.local \in Turns(Dial)
  BY <1>1 DEF Thumbs
<1>4. CASE thumb.local = want[Dial] /\ UNCHANGED <<clusterNow, drawn, measured>>
  <2>1. ClusterOK' /\ CurvesOK' /\ want' = want
    BY <1>1, <1>4, ClusterStands, CurvesStand DEF clusterNow, frameNow
  <2> QED
    BY <1>2, <1>3, <1>4, <2>1 DEF CanvasInv, DialOK, ThumbTellsTheTruth
<1>5. CASE /\ change' = thumb.local /\ want' = AsHoped(thumb.local)
           /\ UNCHANGED <<cluster, pods, stored, frameNow>> /\ Repainted
  <2>1. want' = [want EXCEPT ![Dial] = thumb.local]
    BY <1>5 DEF AsHoped
  <2>2. want' \in Wants /\ want'[Dial] = thumb.local
    <3>1. want' \in Wants
      BY <1>1, <2>1, TurnsAre, WantsStep
    <3> QED
      BY <1>1, <2>1, <3>1 DEF Wants
  <2>3. ClusterOK'
    BY <1>1, <1>5, <2>2 DEF CanvasInv, ClusterOK
  <2>4. CurvesOK'
    BY <1>5, <2>3, RepaintStep
  <2> QED
    BY <1>2, <1>3, <2>2, <2>3, <2>4 DEF CanvasInv, DialOK, ThumbTellsTheTruth
<1> QED
  BY <1>4, <1>5 DEF LetGo

LEMMA ElsewhereInv == ASSUME CanvasInv, DialAnswered \/ TurnedElsewhere PROVE CanvasInv'
<1>1. UNCHANGED <<cluster, pods, want, frameNow, drawn, measured, picked, thumb>>
  BY DEF DialAnswered, TurnedElsewhere
<1>2. stored' \in Turns(Dial) /\ change' \in {NoChange} \cup Turns(Dial)
  BY DEF DialAnswered, TurnedElsewhere, NoChange, CanvasInv, ClusterOK
<1>3. ClusterOK'
  BY <1>1, <1>2 DEF CanvasInv, ClusterOK
<1> QED
  BY <1>1, <1>3, FrameStands, PressStands, CurvesStand, DialStands DEF frameNow, CanvasInv

LEMMA ReadingInv == ASSUME CanvasInv, Reading PROVE CanvasInv'
<1>1. /\ UNCHANGED <<cluster, stored, change, frameNow, picked>> /\ Repainted
      /\ thumb' = Follows(want'[Dial])
      /\ pods \in Pods /\ want \in Wants /\ stored \in Turns(Dial) /\ Dial \in Dialled /\ Dial \in Tiers
      /\ Dial \notin Switched
  BY TurnsAre DEF Reading, CanvasInv, ClusterOK
<1>2. PICK w \in Wants : w = [want EXCEPT ![Dial] = stored]
  <2>1. stored \in 0..MaxWant
    BY <1>1, TurnsAre
  <2>2. [want EXCEPT ![Dial] = stored] \in Wants
    BY <1>1, <2>1, WantsStep
  <2> QED
    BY <2>2
<1>3. ASSUME NEW t \in Tiers PROVE Wishes(t) \subseteq Wants /\ Measured(t) \subseteq Pods
  <2>1. ASSUME NEW some \in SUBSET Replicas[t] PROVE [pods EXCEPT ![t] = some] \in Pods
    BY <1>1, <2>1 DEF Pods, AllReplicas
  <2>2. ASSUME NEW n, [w EXCEPT ![t] = n] \in Wants
        PROVE  [want EXCEPT ![Dial] = stored, ![t] = n] \in Wants
    <3>1. [want EXCEPT ![Dial] = stored, ![t] = n] = [w EXCEPT ![t] = n]
      BY <1>2
    <3> QED
      BY <2>2, <3>1
  <2>3. Measured(t) \subseteq Pods
    BY <2>1 DEF Measured
  <2>4. ASSUME NEW v \in Wishes(t) PROVE v \in Wants
    <3>1. CASE v = [want EXCEPT ![Dial] = stored]
      BY <1>2, <3>1
    <3>2. ASSUME NEW n \in {0, 1}, t \in Switched, v = [want EXCEPT ![Dial] = stored, ![t] = n]
          PROVE  v \in Wants
      <4>1. n \in 0..MaxWant /\ t \notin Dialled
        BY <3>2, CanvasBounds
      <4>2. [w EXCEPT ![t] = n] \in Wants
        BY <3>2, <4>1, WantsStep
      <4> QED
        BY <2>2, <3>2, <4>2
    <3>3. ASSUME NEW n \in Turns(t), t \in Dialled, v = [want EXCEPT ![Dial] = stored, ![t] = n]
          PROVE  v \in Wants
      <4>1. n \in 0..MaxWant /\ t \notin Switched
        BY <3>3, TurnsAre, CanvasBounds
      <4>2. [w EXCEPT ![t] = n] \in Wants
        BY <3>3, <4>1, WantsStep
      <4> QED
        BY <2>2, <3>3, <4>2
    <3> QED
      <4>1. CASE t \in Switched
        <5>1. v = [want EXCEPT ![Dial] = stored]
                \/ \E n \in {0, 1} : v = [want EXCEPT ![Dial] = stored, ![t] = n]
          BY <4>1 DEF Wishes
        <5> QED
          BY <3>1, <3>2, <4>1, <5>1
      <4>2. CASE t \notin Switched /\ t \in Dialled \ {Dial}
        <5>1. v = [want EXCEPT ![Dial] = stored]
                \/ \E n \in Turns(t) : v = [want EXCEPT ![Dial] = stored, ![t] = n]
          BY <4>2 DEF Wishes
        <5> QED
          BY <3>1, <3>3, <4>2, <5>1
      <4>3. CASE t \notin Switched /\ t \notin Dialled \ {Dial}
        BY <3>1, <4>3 DEF Wishes
      <4> QED
        BY <4>1, <4>2, <4>3
  <2> QED
    BY <2>3, <2>4
<1>4. pods' \in Pods /\ want' \in Wants
  BY <1>1, <1>2, <1>3 DEF Reading
<1>5. ClusterOK'
  BY <1>1, <1>4 DEF CanvasInv, ClusterOK
<1>6. want'[Dial] \in Turns(Dial)
  BY <1>1, <1>4 DEF Wants
<1>7. DialOK'
  BY <1>1, <1>6, Thumb DEF DialOK, ThumbTellsTheTruth
<1>8. CurvesOK'
  BY <1>1, <1>5, RepaintStep
<1> QED
  BY <1>1, <1>5, <1>7, <1>8, FrameStands, PressStands DEF frameNow, CanvasInv

-----------------------------------------------------------------------------
(* The screen around the graph.                                            *)

LEMMA UpStep ==
  ASSUME CanvasInv, UNCHANGED picked, press' = [press EXCEPT !.st = "up", !.on = NoPick]
  PROVE  PressOK'
BY DEF CanvasInv, PressOK, Presses, Picks

LEMMA ScreenInv == ASSUME CanvasInv, Released \/ Appears \/ Disappears PROVE CanvasInv'
<1>1. CASE Released
  <2>1. [t \in Tiers |-> {}] \in Pods
    BY DEF Pods
  <2>2. ClusterOK'
    BY <1>1, <2>1, CanvasBounds DEF Released, CanvasInv, ClusterOK
  <2>3. FrameOK' /\ DialOK'
    BY <1>1, Thumb DEF Released, CanvasInv, FrameOK, DialOK, ThumbTellsTheTruth
  <2> QED
    BY <1>1, <2>2, <2>3, RepaintStep, UpStep DEF Released, CanvasInv
<1>2. CASE Appears
  <2>1. ClusterOK'
    BY <1>2, CanvasBounds DEF Appears, CanvasInv, ClusterOK
  <2>2. FrameOK'
    BY <1>2 DEF Appears, CanvasInv, FrameOK
  <2> QED
    BY <1>2, <2>1, <2>2, RepaintStep, PressStands, DialStands DEF Appears, CanvasInv
<1>3. CASE Disappears
  <2>1. ClusterOK' /\ DialOK'
    BY <1>3, ClusterStands, Thumb DEF Disappears, DialOK, ThumbTellsTheTruth
  <2>2. FrameOK'
    BY <1>3 DEF Disappears, CanvasInv, FrameOK
  <2> QED
    BY <1>3, <2>1, <2>2, RepaintStep, UpStep DEF Disappears, CanvasInv
<1> QED
  BY <1>1, <1>2, <1>3

-----------------------------------------------------------------------------
(* The frame.                                                              *)

LEMMA ClickedIs ==
  ASSUME CanvasInv, UNCHANGED want, NEW c \in Picks, NEW swallows \in BOOLEAN, Clicked(c, swallows)
  PROVE  picked' \in Picks /\ DialOK'
<1>1. picked' \in Picks /\ (thumb' = thumb \/ thumb' = Shut)
  BY DEF Clicked, PickOf, CanvasInv, PressOK, Picks
<1> QED
  BY <1>1, Thumb DEF DialOK, ThumbTellsTheTruth, CanvasInv

LEMMA PointerInv ==
  ASSUME CanvasInv, PointerDown \/ PointerUp \/ PointerCancel \/ KeyboardClick
  PROVE  CanvasInv'
<1>1. UNCHANGED <<clusterNow, frame, frameView, listening, drawn, measured>>
  BY DEF PointerDown, PointerUp, PointerCancel, KeyboardClick
<1>2. ClusterOK' /\ FrameOK' /\ CurvesOK' /\ UNCHANGED want
  BY <1>1, ClusterStands, FrameStands, CurvesStand DEF clusterNow
<1>3. press \in Presses /\ picked \in Picks /\ NoPick \in Picks
  BY DEF CanvasInv, PressOK, Picks
<1>4. CASE PointerDown
  <2>1. PICK c \in Picks : press' = [Pressed EXCEPT !.on = c]
    BY <1>3, <1>4, ButtonsArePicks DEF PointerDown
  <2>2. PressOK'
    BY <1>3, <1>4, <2>1 DEF PointerDown, Pressed, PressOK, Presses
  <2> QED
    BY <1>2, <1>4, <2>2, DialStands DEF PointerDown, CanvasInv
<1>5. CASE PointerUp
  <2>1. PICK swallows \in BOOLEAN : press' = Lifted(swallows)
    BY <1>5 DEF PointerUp
  <2>2. press' \in Presses /\ press'.st = "up"
    BY <1>3, <2>1 DEF Lifted, Presses
  <2>3. picked' \in Picks /\ DialOK'
    <3>1. CASE Clicked(press.on, press.swallows)
      <4>1. press.on \in Picks /\ press.swallows \in BOOLEAN
        BY <1>3 DEF Presses
      <4> QED
        BY <1>2, <3>1, <4>1, ClickedIs
    <3>2. CASE UNCHANGED <<picked, thumb>>
      BY <1>2, <1>3, <3>2, DialStands
    <3> QED
      BY <1>5, <3>1, <3>2 DEF PointerUp
  <2> QED
    BY <1>2, <2>2, <2>3 DEF CanvasInv, PressOK
<1>6. CASE PointerCancel
  <2>1. PressOK'
    BY <1>3, <1>6 DEF PointerCancel, PressOK, Presses
  <2> QED
    BY <1>2, <1>6, <2>1, DialStands DEF PointerCancel, CanvasInv
<1>7. CASE KeyboardClick
  <2>1. PICK c \in Buttons : Clicked(c, press.swallows)
    BY <1>7 DEF KeyboardClick
  <2>2. picked' \in Picks /\ DialOK'
    <3>1. c \in Picks /\ press.swallows \in BOOLEAN
      BY <1>3, ButtonsArePicks DEF Presses
    <3> QED
      BY <1>2, <2>1, <3>1, ClickedIs
  <2>3. press' \in Presses /\ ~press'.swallows
    BY <1>3, <1>7 DEF KeyboardClick, Presses
  <2> QED
    BY <1>2, <2>2, <2>3 DEF CanvasInv, PressOK
<1> QED
  BY <1>4, <1>5, <1>6, <1>7

LEMMA ZoomedIs ==
  ASSUME CanvasInv, NEW step \in {-1, 1}
  PROVE  Zoomed(step) \in FrameViews
<1>1. frameView \in FrameViews /\ frameView.zoom \in -MaxZoom..MaxZoom /\ MaxZoom \in Nat
  BY CanvasBounds DEF CanvasInv, FrameOK, FrameViews
<1>2. PICK n \in Int : n = frameView.zoom + step
  BY <1>1
<1>3. PICK m \in Int : m = Min({MaxZoom, n}) /\ m <= MaxZoom
  BY <1>1, <1>2, MinOfTwo
<1>4. PICK zoom \in Int : zoom = Max({-MaxZoom, m}) /\ zoom \in -MaxZoom..MaxZoom
  BY <1>1, <1>3, MaxOfTwo
<1>5. Zoomed(step) = IF zoom = frameView.zoom THEN frameView ELSE [moved |-> TRUE, zoom |-> zoom]
  BY <1>2, <1>3, <1>4 DEF Zoomed
<1> QED
  BY <1>1, <1>4, <1>5 DEF FrameViews

\* What moves the view repaints it.
LEMMA ViewInv ==
  ASSUME CanvasInv, PointerMove \/ ZoomButton \/ ResetView \/ WheelTurned
  PROVE  CanvasInv'
<1>1. UNCHANGED <<clusterNow, frame, listening, picked, thumb>> /\ Repainted
  BY DEF PointerMove, ZoomButton, ResetView, WheelTurned
<1>2. ClusterOK' /\ CurvesOK' /\ DialOK'
  BY <1>1, ClusterStands, RepaintStep, DialStands DEF clusterNow
<1>3. frameView \in FrameViews /\ press \in Presses /\ picked \in Picks /\ NoPick \in Picks
  BY DEF CanvasInv, FrameOK, PressOK, Picks
<1>4. frameView' \in FrameViews
  <2>1. [frameView EXCEPT !.moved = TRUE] \in FrameViews /\ [moved |-> FALSE, zoom |-> 0] \in FrameViews
    <3>1. 0 \in -MaxZoom..MaxZoom
      BY CanvasBounds
    <3> QED
      BY <1>3, <3>1 DEF FrameViews
  <2> QED
    BY <1>3, <2>1, ZoomedIs DEF PointerMove, ZoomButton, ResetView, WheelTurned
<1>5. FrameOK'
  BY <1>1, <1>4 DEF CanvasInv, FrameOK
<1>6. PressOK'
  <2>1. CASE PointerMove
    BY <1>1, <1>3, <2>1 DEF PointerMove, PressOK, Presses
  <2>2. CASE ZoomButton \/ ResetView \/ WheelTurned
    BY <1>1, <2>2, PressStands DEF ZoomButton, ResetView, WheelTurned
  <2> QED
    BY <2>1, <2>2
<1> QED
  BY <1>2, <1>5, <1>6 DEF CanvasInv

LEMMA WindowResizedInv == ASSUME CanvasInv, WindowResized PROVE CanvasInv'
<1>1. UNCHANGED <<clusterNow, frameNow, picked, thumb>>
  BY DEF WindowResized
<1>2. ClusterOK' /\ FrameOK' /\ PressOK' /\ DialOK'
  BY <1>1, ClusterStands, FrameStands, PressStands, DialStands DEF clusterNow, frameNow
<1>3. \A t \in Tiers : Places(t) \in Nat
  BY PlacesAreNat DEF CanvasInv, ClusterOK
<1>4. drawn' = [t \in Tiers |-> Places(t)] /\ measured' = TRUE /\ frame' = "open"
  BY <1>1 DEF WindowResized, frameNow
<1>5. \A t \in Tiers : Places(t)' = Places(t)
  BY <1>1 DEF Places, Ghosts, clusterNow
<1>6. CurvesOK'
  BY <1>3, <1>4, <1>5 DEF CurvesOK
<1> QED
  BY <1>2, <1>6 DEF CanvasInv

LEMMA PickInInspectorInv == ASSUME CanvasInv, PickInInspector PROVE CanvasInv'
<1>1. UNCHANGED <<clusterNow, frameNow, drawn, measured, thumb>>
  BY DEF PickInInspector
<1>2. ClusterOK' /\ FrameOK' /\ CurvesOK' /\ DialOK'
  BY <1>1, ClusterStands, FrameStands, CurvesStand, DialStands DEF clusterNow, frameNow
<1>3. pods \in Pods /\ picked \in Picks /\ press \in Presses
  BY DEF CanvasInv, ClusterOK, PressOK
<1>4. picked[1] \in Tiers
  BY <1>3 DEF PickInInspector, Picks
<1>5. pods[picked[1]] \subseteq AllReplicas
  BY <1>3, <1>4 DEF Pods
<1>6. picked' \in Picks
  BY <1>4, <1>5 DEF PickInInspector, Picks
<1>7. PressOK'
  BY <1>1, <1>6 DEF CanvasInv, PressOK, frameNow
<1> QED
  BY <1>2, <1>7 DEF CanvasInv

-----------------------------------------------------------------------------
(* The inductive invariant, and what follows.                              *)

LEMMA InitCanvasInv == CanvasInit => CanvasInv
<1> SUFFICES ASSUME CanvasInit PROVE CanvasInv
  OBVIOUS
<1>1. ClusterOK
  <2>1. [t \in Tiers |-> {}] \in Pods
    BY DEF Pods
  <2>2. [t \in Tiers |-> Least(t)] \in Wants
    <3>1. /\ \A t \in Tiers : Least(t) \in 0..MaxWant /\ Least(t) \in Turns(t)
          /\ \A t \in Switched : Least(t) \in {0, 1}
          /\ Dialled \subseteq Tiers /\ Switched \subseteq Tiers
      BY TurnsAre, CanvasBounds DEF Least
    <3> QED
      BY <3>1 DEF Wants
  <2>3. 0 \in 0..MaxClusters /\ Least(Dial) \in Turns(Dial)
    BY TurnsAre, CanvasBounds
  <2> QED
    BY <2>1, <2>2, <2>3 DEF CanvasInit, ClusterOK
<1>2. FrameOK
  <2>1. 0 \in -MaxZoom..MaxZoom
    BY CanvasBounds
  <2>2. frameView \in FrameViews
    BY <2>1 DEF CanvasInit, FrameViews
  <2>3. frame = "booting" /\ listening = (frame = "open")
    BY DEF CanvasInit
  <2> QED
    BY <2>2, <2>3 DEF FrameOK
<1>3. PressOK
  BY DEF CanvasInit, PressOK, Presses, Picks
<1>4. CurvesOK
  BY DEF CanvasInit, CurvesOK
<1>5. DialOK
  BY CanvasBounds DEF CanvasInit, DialOK, ThumbTellsTheTruth, Shut, Thumbs
<1> QED
  BY <1>1, <1>2, <1>3, <1>4, <1>5 DEF CanvasInv

LEMMA NextCanvasInv == CanvasInv /\ [CanvasNext]_canvasVars => CanvasInv'
<1> SUFFICES ASSUME CanvasInv, [CanvasNext]_canvasVars PROVE CanvasInv'
  OBVIOUS
<1>1. CASE UNCHANGED canvasVars
  BY <1>1, ClusterStands, FrameStands, PressStands, CurvesStand, DialStands
     DEF canvasVars, clusterNow, frameNow, CanvasInv
<1> QED
  BY <1>1, WindowResizedInv, ControlsInv, LetGoInv, ElsewhereInv, ReadingInv, ScreenInv,
     PointerInv, ViewInv, PickInInspectorInv DEF CanvasNext

LEMMA CanvasInvariant == CanvasSpec => []CanvasInv
BY InitCanvasInv, NextCanvasInv, PTL DEF CanvasSpec

\* Once measured, the curves end on the cards that are on screen, though the measuring effect
\* does not depend on the switches (ClusterWorkbench.tsx, useClusterEdges.ts).
THEOREM CurvesAlwaysMeet == CanvasSpec => []CurvesMeetTheCards
<1>1. CanvasInv => CurvesMeetTheCards
  BY DEF CanvasInv, CurvesOK, CurvesMeetTheCards
<1> QED
  BY <1>1, CanvasInvariant, PTL

\* A dial at rest shows what the page holds to be asked for (RangeSlider.tsx).
THEOREM DialsAreTrue == CanvasSpec => []ThumbTellsTheTruth
<1>1. CanvasInv => ThumbTellsTheTruth
  BY DEF CanvasInv, DialOK
<1> QED
  BY <1>1, CanvasInvariant, PTL

\* A press that did not become a drag picks its card and a drag picks none, whatever drag, lost
\* pointer or keyboard click came before (useGraphViewport.ts, the suppressed click).
THEOREM PressesPick == CanvasSpec => PlainPressPicks
<1> DEFINE Answers == press'.st = "up" /\ frame' = "open" =>
                       /\ press.st = "pressed" /\ press.on \in Buttons => picked' # picked
                       /\ press.st = "dragging" => picked' = picked
<1>1. ASSUME CanvasInv, [CanvasNext]_canvasVars PROVE Answers
  <2>1. SUFFICES ASSUME press'.st = "up", frame' = "open", press.st \in {"pressed", "dragging"},
                        ~(press.st = "dragging" /\ picked' = picked)
                 PROVE  press.st = "pressed" /\ (press.on \in Buttons => picked' # picked)
    OBVIOUS
  <2>2. press \in Presses
    BY <1>1 DEF CanvasInv, PressOK
  <2>3. press' # press
    BY <2>1
  <2>4. ~PointerDown /\ ~PointerMove /\ ~PointerCancel /\ ~KeyboardClick
    BY <2>1, <2>2 DEF PointerDown, PointerMove, PointerCancel, KeyboardClick, Pressed, Presses
  <2>5. ~Released /\ ~Disappears
    BY <2>1 DEF Released, Disappears
  <2>6. PointerUp
    BY <1>1, <2>3, <2>4, <2>5
       DEF CanvasNext, canvasVars, frameNow, WindowResized, OpenControls, LeaveControls, Grab,
           LetGo, DialAnswered, Reading, TurnedElsewhere, Appears, ZoomButton, ResetView,
           WheelTurned, PickInInspector
  <2>7. press.st = "pressed" /\ Clicked(press.on, press.swallows)
    BY <2>1, <2>6 DEF PointerUp
  <2>8. ~press.swallows
    BY <1>1, <2>7 DEF CanvasInv, PressOK
  <2>9. ASSUME press.on \in Buttons PROVE picked' # picked
    <3>1. picked' = PickOf(press.on)
      BY <2>7, <2>8, <2>9 DEF Clicked
    <3> QED
      BY <1>1, <2>9, <3>1, ButtonsArePicks DEF PickOf
  <2> QED
    BY <2>7, <2>9
<1>2. CanvasInv /\ [CanvasNext]_canvasVars => [Answers]_canvasVars
  BY <1>1
<1> QED
  BY <1>2, CanvasInvariant, PTL DEF CanvasSpec, PlainPressPicks

===============================================================================

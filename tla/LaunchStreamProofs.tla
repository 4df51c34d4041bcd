------------------------- MODULE LaunchStreamProofs -------------------------
EXTENDS RankedPage, LiveGateway, FoldLemmas, TLAPS
(***************************************************************************)
(* The two ends of a launch stream on the homelab: the page that follows   *)
(* it, and the gateway that guards it, charges it to a budget and forwards *)
(* its frames.                                                             *)
(***************************************************************************)

(***************************************************************************)
(* Two claims about the page that follows a launch, for any number of      *)
(* connections and of breaks.  A page whose launch is over has nothing     *)
(* left under way that could bring it back: at most one connection is the  *)
(* hook's own (OneIsMine), a pending reconnect means that none is          *)
(* (TimerIsAlone), and a cancel silences both when it is clicked, before   *)
(* its answer closes the launch (ClosedIsQuiet).  And a connection asks    *)
(* for more than a resume only when a click opened it (VerbsByHand).       *)
(***************************************************************************)

Arenas == [life : {"absent", "live", "deleting"}, gen : 0..MaxGen,
           drill : Shown \ {"nothing"}, launch : LaunchPhases]
Pages == [booted : BOOLEAN, attached : BOOLEAN, run : Shown]
Clients == [launch : LaunchPhases, read : {"off", "sent", "none", "done"} \cup LaunchPhases,
            advancing : BOOLEAN, error : BOOLEAN, handedOff : BOOLEAN,
            timer : BOOLEAN, match : BOOLEAN]
Connections == [st : {"idle", "sent", "open", "ended"}, verb : Verbs,
                mine : BOOLEAN, byHand : BOOLEAN, sent : LaunchPhases,
                frame : LaunchPhases, latest : LaunchPhases,
                end : {"open", "done", "gone", "error"}]

StreamsOK ==
  /\ streams \in [Streams -> Connections]
  /\ \A s \in Streams : streams[s].st = "idle" => ~streams[s].mine

VerbsByHand ==
  \A s \in Streams : streams[s].st = "sent" /\ streams[s].verb # "resume" => streams[s].byHand

OneIsMine == \A s, t \in Streams : streams[s].mine /\ streams[t].mine => s = t

NoneIsMine == \A s \in Streams : ~streams[s].mine

TimerIsAlone == client.timer => NoneIsMine

ClosedIsQuiet ==
  /\ outcome \in {"cancelling", "closed"} => ~client.timer /\ ~client.advancing /\ NoneIsMine
  /\ outcome = "closed" => client.launch = NoLaunch

CancelIsAnswered ==
  /\ cancelling \in {"no", "sent", "ok", "error"}
  /\ outcome \in {"open", "cancelling", "closed", "refused"}
  /\ cancelling # "no" => outcome # "refused"

ConnectionsOK == StreamsOK /\ VerbsByHand /\ OneIsMine

HookOK == client \in Clients /\ TimerIsAlone /\ ClosedIsQuiet

\* The inductive invariant.
RankedInv ==
  /\ arena \in Arenas /\ page \in Pages /\ drops \in 0..MaxDrops
  /\ ConnectionsOK /\ HookOK /\ CancelIsAnswered

-----------------------------------------------------------------------------
(* Values.                                                                 *)

LEMMA PhasesAre ==
  /\ LaunchPhases = {"none", "going", "failed", "active"} /\ NoLaunch = "none"
  /\ Verbs = {"resume", "start", "retry"} /\ Terminal = {"failed", "active"}
  /\ Shown = {"nothing", "idle", "practice", "match", "decided"}
BY DEF LaunchPhases, NoLaunch, Verbs, Terminal, Shown

LEMMA IdleStreamIs ==
  /\ IdleStream \in Connections /\ IdleStream.st = "idle" /\ ~IdleStream.mine
BY PhasesAre DEF IdleStream, Connections

LEMMA ArenasAre ==
  ASSUME arena \in Arenas
  PROVE  /\ Doomed \in Arenas /\ Doomed.launch = NoLaunch
         /\ Ended \in Arenas /\ Ended.launch = NoLaunch
         /\ \A verb \in Verbs : CanBegin(verb) =>
              Begun \in Arenas /\ (arena.life = "absent" => verb # "resume")
<1>1. Doomed \in Arenas /\ Doomed.launch = NoLaunch
  BY PhasesAre DEF Doomed, Arenas
<1>2. Ended \in Arenas /\ Ended.launch = NoLaunch
  BY PhasesAre DEF Ended, Arenas
<1>3. ASSUME NEW verb \in Verbs, CanBegin(verb)
      PROVE  Begun \in Arenas /\ (arena.life = "absent" => verb # "resume")
  <2>1. CASE arena.life = "absent"
    <3>1. arena.gen + 1 \in 0..MaxGen
      BY <1>3, <2>1, RankedBounds DEF CanBegin, Arenas
    <3>2. Created \in Arenas
      BY <3>1, PhasesAre DEF Created, Arenas
    <3>3. Begun = [Created EXCEPT !.launch = "going"]
      BY <2>1 DEF Begun
    <3> QED
      BY <1>3, <2>1, <3>2, <3>3, PhasesAre DEF Arenas, CanBegin
  <2>2. CASE arena.life # "absent"
    BY <2>2, PhasesAre DEF Begun, Arenas
  <2> QED
    BY <2>1, <2>2
<1> QED
  BY <1>1, <1>2, <1>3

LEMMA PagesAre ==
  ASSUME arena \in Arenas, NEW p \in Pages
  PROVE  Release(p) \in Pages /\ Refreshed(p) \in Pages /\ Attached(p) \subseteq Pages
<1>1. \A q \in Pages : Release(q) \in Pages /\ Refreshed(q) \in Pages
  BY PhasesAre DEF Release, Refreshed, Pages, Arenas
<1>2. [p EXCEPT !.attached = TRUE] \in Pages
  BY DEF Pages
<1> QED
  BY <1>1, <1>2 DEF Attached

-----------------------------------------------------------------------------
(* The connections, as the hook and the platform change them.              *)

LEMMA SupersededIs ==
  ASSUME ConnectionsOK
  PROVE  /\ Superseded \in [Streams -> Connections]
         /\ \A s \in Streams : /\ ~Superseded[s].mine
                               /\ Superseded[s].st = streams[s].st
                               /\ Superseded[s].verb = streams[s].verb
                               /\ Superseded[s].byHand = streams[s].byHand
BY DEF ConnectionsOK, StreamsOK, Superseded, Connections

\* Every connection of before is let go of.
LEMMA SupersedeStep ==
  ASSUME ConnectionsOK, streams' = Superseded
  PROVE  ConnectionsOK' /\ NoneIsMine'
BY SupersededIs DEF ConnectionsOK, StreamsOK, VerbsByHand, OneIsMine, NoneIsMine

\* Every connection but a new one is let go of.
LEMMA ConnectStep ==
  ASSUME ConnectionsOK, NEW s \in Streams, NEW c \in Connections, streams' = [Superseded EXCEPT ![s] = c],
         c.st # "idle", c.verb = "resume" \/ c.byHand
  PROVE  ConnectionsOK'
<1>1. streams' \in [Streams -> Connections] /\ streams'[s] = c
  BY SupersededIs
<1>2. \A t \in Streams \ {s} : streams'[t] = Superseded[t]
  BY SupersededIs
<1> QED
  BY <1>1, <1>2, SupersededIs DEF ConnectionsOK, StreamsOK, VerbsByHand, OneIsMine

\* One connection changes, and does not become the hook's own.
LEMMA StreamStep ==
  ASSUME ConnectionsOK, NEW s \in Streams, NEW c \in Connections,
         streams' = [streams EXCEPT ![s] = c], c.mine => streams[s].mine,
         c.st = "idle" => ~c.mine, c.st = "sent" /\ c.verb # "resume" => c.byHand
  PROVE  /\ ConnectionsOK' /\ streams'[s] = c
         /\ \A t \in Streams : streams'[t].mine => streams[t].mine
<1>1. streams' \in [Streams -> Connections] /\ streams'[s] = c
  BY DEF ConnectionsOK, StreamsOK
<1>2. \A t \in Streams \ {s} : streams'[t] = streams[t]
  BY DEF ConnectionsOK, StreamsOK
<1> QED
  BY <1>1, <1>2 DEF ConnectionsOK, StreamsOK, VerbsByHand, OneIsMine

LEMMA StandsStep == ASSUME ConnectionsOK, UNCHANGED streams PROVE ConnectionsOK'
BY DEF ConnectionsOK, StreamsOK, VerbsByHand, OneIsMine

\* Frames and ends leave a connection whose it is.
LEMMA OpenedIs ==
  ASSUME RankedInv, NEW s \in Streams, streams[s].st # "idle"
  PROVE  /\ \A phase \in LaunchPhases : streams' = Opened(s, phase) =>
              ConnectionsOK' /\ \A t \in Streams : streams'[t].mine => streams[t].mine
         /\ \A how \in {"done", "gone", "error"} : streams' = Closed(s, how) =>
              ConnectionsOK' /\ \A t \in Streams : streams'[t].mine => streams[t].mine
<1> USE DEF RankedInv
<1>1. ConnectionsOK /\ streams[s] \in Connections
  BY DEF ConnectionsOK, StreamsOK
<1>2. ASSUME NEW phase \in LaunchPhases, streams' = Opened(s, phase)
      PROVE  ConnectionsOK' /\ \A t \in Streams : streams'[t].mine => streams[t].mine
  <2>1. PICK c : c = [streams[s] EXCEPT !.st = "open", !.sent = phase, !.frame = phase]
    OBVIOUS
  <2>2. c \in Connections /\ c.mine = streams[s].mine /\ c.st = "open"
    BY <1>1, <2>1 DEF Connections
  <2>3. streams' = [streams EXCEPT ![s] = c]
    BY <1>1, <1>2, <2>1 DEF Opened, ConnectionsOK, StreamsOK
  <2> QED
    BY <1>1, <2>2, <2>3, StreamStep
<1>3. ASSUME NEW how \in {"done", "gone", "error"}, streams' = Closed(s, how)
      PROVE  ConnectionsOK' /\ \A t \in Streams : streams'[t].mine => streams[t].mine
  <2>1. PICK c : c = [streams[s] EXCEPT !.st = "ended", !.end = how]
    OBVIOUS
  <2>2. c \in Connections /\ c.mine = streams[s].mine /\ c.st = "ended"
    BY <1>1, <2>1 DEF Connections
  <2>3. streams' = [streams EXCEPT ![s] = c]
    BY <1>1, <1>3, <2>1 DEF Closed, ConnectionsOK, StreamsOK
  <2> QED
    BY <1>1, <2>2, <2>3, StreamStep
<1> QED
  BY <1>2, <1>3

\* The hook stands still or lets go: no timer, request or launch is new, and no
\* connection becomes its own.
LEMMA LetGoStep ==
  ASSUME RankedInv, client' \in Clients, UNCHANGED outcome,
         client'.timer => client.timer, client'.advancing => client.advancing,
         outcome = "closed" => client'.launch = NoLaunch,
         \A s \in Streams : streams'[s].mine => streams[s].mine
  PROVE  HookOK'
BY DEF RankedInv, HookOK, TimerIsAlone, ClosedIsQuiet, NoneIsMine

LEMMA ClientStands ==
  ASSUME RankedInv, UNCHANGED <<client, outcome>>,
         \A s \in Streams : streams'[s].mine => streams[s].mine
  PROVE  HookOK'
BY LetGoStep DEF RankedInv, HookOK, ClosedIsQuiet

LEMMA CancelStands == ASSUME RankedInv, UNCHANGED <<cancelling, outcome>> PROVE CancelIsAnswered'
BY DEF RankedInv, CancelIsAnswered

\* An action of the cluster and the page alone.
LEMMA OutsideStep ==
  ASSUME RankedInv, arena' \in Arenas, page' \in Pages, UNCHANGED hookVars
  PROVE  RankedInv'
BY ClientStands, CancelStands, StandsStep DEF RankedInv, hookVars

-----------------------------------------------------------------------------
(* The cluster and the page.                                               *)

LEMMA OutsideInv ==
  ASSUME RankedInv, World \/ Boot \/ Snapshot \/ ClickLeave
  PROVE  RankedInv'
<1> arena \in Arenas /\ page \in Pages
  BY DEF RankedInv
<1>1. CASE World
  <2>1. arena' \in Arenas
    BY <1>1, ArenasAre, PhasesAre DEF World, Arenas
  <2> QED
    BY <1>1, <2>1, OutsideStep DEF World
<1>2. CASE Boot
  <2>1. PICK p \in (IF arena.life = "live" THEN Attached(page) ELSE {page}) :
          page' = [p EXCEPT !.booted = TRUE]
    BY <1>2 DEF Boot
  <2>2. p \in Pages
    BY <2>1, PagesAre
  <2>3. page' \in Pages
    BY <2>1, <2>2 DEF Pages
  <2> QED
    BY <1>2, <2>3, OutsideStep DEF Boot
<1>3. CASE Snapshot
  BY <1>3, PagesAre, OutsideStep DEF Snapshot
<1>4. CASE ClickLeave
  <2>1. [page EXCEPT !.run = "idle"] \in Pages /\ Release(page) \in Pages
    BY PagesAre, PhasesAre DEF Pages
  <2>2. arena' \in Arenas /\ page' \in Pages
    BY <1>4, <2>1, ArenasAre DEF ClickLeave
  <2> QED
    BY <1>4, <2>2, OutsideStep DEF ClickLeave
<1> QED
  BY <1>1, <1>2, <1>3, <1>4

-----------------------------------------------------------------------------
(* Connections.                                                            *)

\* A connection that the hook opens is the only one of its own, and nothing is left
\* to open another.
LEMMA DriveIs ==
  ASSUME RankedInv, NEW s \in Streams, NEW verb \in Verbs, NEW byHand \in BOOLEAN,
         verb = "resume" \/ byHand, Drive(s, verb, byHand)
  PROVE  /\ ConnectionsOK' /\ client' \in Clients /\ TimerIsAlone'
         /\ ~client'.timer /\ client'.launch = client.launch
<1>1. PICK c : c = [IdleStream EXCEPT !.st = "sent", !.verb = verb, !.mine = TRUE, !.byHand = byHand]
  OBVIOUS
<1>2. c \in Connections /\ c.st = "sent" /\ (c.verb = "resume" \/ c.byHand)
  BY <1>1, IdleStreamIs, PhasesAre DEF Connections
<1>3. ConnectionsOK'
  BY <1>1, <1>2, ConnectStep DEF Drive, RankedInv
<1>4. PICK error : error = (client.error /\ verb = "resume")
  OBVIOUS
<1>5. error \in BOOLEAN
  BY <1>4
<1>6. client' = [client EXCEPT !.advancing = TRUE, !.timer = FALSE, !.error = error]
  BY <1>4 DEF Drive
<1>7. client \in Clients
  BY DEF RankedInv, HookOK
<1>8. client' \in Clients /\ ~client'.timer /\ client'.launch = client.launch
  BY <1>5, <1>6, <1>7 DEF Clients
<1> QED
  BY <1>3, <1>8 DEF TimerIsAlone

LEMMA ReconnectInv == ASSUME RankedInv, NEW s \in Streams, Reconnect(s) PROVE RankedInv'
<1>1. Drive(s, "resume", FALSE) /\ client.timer /\ UNCHANGED <<arena, page, cancelling, drops, outcome>>
  BY DEF Reconnect
<1>2. ConnectionsOK' /\ client' \in Clients /\ TimerIsAlone'
  BY <1>1, DriveIs, PhasesAre
<1>3. outcome \notin {"cancelling", "closed"}
  BY <1>1 DEF RankedInv, HookOK, ClosedIsQuiet
<1>4. ClosedIsQuiet'
  BY <1>1, <1>3 DEF ClosedIsQuiet
<1> QED
  BY <1>1, <1>2, <1>4, CancelStands DEF RankedInv, HookOK

\* Clicks that open one: the launch is wanted again.
LEMMA ClickInv ==
  ASSUME RankedInv, NEW s \in Streams, ClickStart(s) \/ ClickRetry(s)
  PROVE  RankedInv'
<1>1. PICK verb \in {"start", "retry"} :
        Drive(s, verb, TRUE) /\ outcome' = "open" /\ UNCHANGED <<arena, page, cancelling, drops>>
  BY DEF ClickStart, ClickRetry
<1>2. ConnectionsOK' /\ client' \in Clients /\ TimerIsAlone'
  BY <1>1, DriveIs, PhasesAre
<1>3. ClosedIsQuiet' /\ CancelIsAnswered'
  BY <1>1 DEF ClosedIsQuiet, CancelIsAnswered, RankedInv
<1> QED
  BY <1>1, <1>2, <1>3 DEF RankedInv, HookOK

LEMMA FrameLandsInv == ASSUME RankedInv, NEW s \in Streams, FrameLands(s) PROVE RankedInv'
<1>1. /\ streams[s] \in Connections /\ client \in Clients /\ ConnectionsOK
      /\ UNCHANGED <<arena, page, cancelling, drops, outcome>>
      /\ streams \in [Streams -> Connections]
  BY DEF FrameLands, RankedInv, HookOK, ConnectionsOK, StreamsOK
<1>2. PICK latest : latest = IF streams[s].mine THEN streams[s].frame ELSE streams[s].latest
  OBVIOUS
<1>3. PICK c : c = [streams[s] EXCEPT !.frame = NoLaunch, !.latest = latest]
  OBVIOUS
<1>4. /\ c \in Connections /\ c.mine = streams[s].mine /\ c.st = streams[s].st
      /\ c.verb = streams[s].verb /\ c.byHand = streams[s].byHand
  <2>1. latest \in LaunchPhases /\ NoLaunch \in LaunchPhases
    BY <1>1, <1>2, PhasesAre DEF Connections
  <2>2. [streams[s] EXCEPT !.frame = NoLaunch] \in Connections
    BY <1>1, <2>1 DEF Connections
  <2>3. c \in Connections
    BY <1>1, <1>3, <2>1, <2>2 DEF Connections
  <2> QED
    BY <1>1, <1>3, <2>3 DEF Connections
<1>5. streams' = [streams EXCEPT ![s] = c]
  BY <1>1, <1>2, <1>3 DEF FrameLands
<1>6. ConnectionsOK' /\ \A t \in Streams : streams'[t].mine => streams[t].mine
  BY <1>1, <1>4, <1>5, StreamStep DEF ConnectionsOK, StreamsOK, VerbsByHand
<1>7. /\ client' \in Clients /\ client'.timer = client.timer
      /\ client'.advancing = client.advancing
      /\ client'.launch = client.launch \/ streams[s].mine
  <2>1. CASE streams[s].mine
    <3>1. client' = [client EXCEPT !.launch = streams[s].frame, !.error = FALSE]
      BY <2>1 DEF FrameLands
    <3> QED
      BY <1>1, <2>1, <3>1 DEF Clients, Connections
  <2>2. CASE ~streams[s].mine
    BY <1>1, <2>2 DEF FrameLands
  <2> QED
    BY <2>1, <2>2
<1>8. outcome = "closed" => client'.launch = NoLaunch
  BY <1>7 DEF RankedInv, HookOK, ClosedIsQuiet, NoneIsMine
<1>9. HookOK'
  BY <1>1, <1>6, <1>7, <1>8, LetGoStep
<1> QED
  BY <1>1, <1>6, <1>9, CancelStands DEF RankedInv

\* A connection the hook lets end is the last of its own.
LEMMA StreamLandsInv == ASSUME RankedInv, NEW s \in Streams, StreamLands(s) PROVE RankedInv'
<1>1. /\ streams[s].mine /\ streams[s].st = "ended" /\ client \in Clients /\ ConnectionsOK
      /\ streams' = [streams EXCEPT ![s] = IdleStream]
      /\ outcome' = IF streams[s].end = "gone" THEN "closed" ELSE outcome
      /\ UNCHANGED <<arena, page, cancelling, drops>>
  BY DEF StreamLands, RankedInv, HookOK
<1>2. ConnectionsOK' /\ streams'[s] = IdleStream /\ \A t \in Streams : streams'[t].mine => streams[t].mine
  BY <1>1, IdleStreamIs, StreamStep
<1>3. NoneIsMine'
  BY <1>1, <1>2, IdleStreamIs DEF NoneIsMine, ConnectionsOK, OneIsMine
<1>4. outcome \notin {"cancelling", "closed"} /\ ~client.timer
  BY <1>1 DEF RankedInv, HookOK, ClosedIsQuiet, TimerIsAlone, NoneIsMine
<1>5. PICK timer : timer = (streams[s].latest \notin Terminal)
  OBVIOUS
<1>6. timer \in BOOLEAN
  BY <1>5
<1>7. CASE streams[s].end = "gone"
  <2>1. client' = [client EXCEPT !.launch = NoLaunch, !.advancing = FALSE]
    BY <1>7 DEF StreamLands
  <2>2. client' \in Clients /\ ~client'.timer /\ ~client'.advancing /\ client'.launch = NoLaunch
    BY <1>1, <1>4, <2>1, PhasesAre DEF Clients
  <2>3. HookOK'
    BY <1>3, <2>2 DEF HookOK, TimerIsAlone, ClosedIsQuiet
  <2>4. CancelIsAnswered'
    BY <1>1, <1>7 DEF CancelIsAnswered, RankedInv
  <2> QED
    BY <1>1, <1>2, <2>3, <2>4 DEF RankedInv
<1>8. CASE streams[s].end # "gone"
  <2>1. PICK settled : settled = Settled(client, s)
    OBVIOUS
  <2>2. settled = [client EXCEPT !.advancing = FALSE, !.timer = timer]
    BY <1>5, <2>1 DEF Settled
  <2>3. settled \in Clients
    BY <1>1, <1>6, <2>2 DEF Clients
  <2>4. client' = settled \/ client' = [settled EXCEPT !.error = TRUE]
    BY <1>8, <2>1 DEF StreamLands
  <2>5. client' \in Clients
    BY <2>3, <2>4 DEF Clients
  <2>6. HookOK'
    BY <1>1, <1>3, <1>4, <1>8, <2>5 DEF HookOK, TimerIsAlone, ClosedIsQuiet
  <2>7. CancelIsAnswered'
    BY <1>1, <1>8 DEF CancelIsAnswered, RankedInv
  <2> QED
    BY <1>1, <1>2, <2>6, <2>7 DEF RankedInv
<1> QED
  BY <1>7, <1>8

LEMMA AbortedGoesInv == ASSUME RankedInv, NEW s \in Streams, AbortedGoes(s) PROVE RankedInv'
<1>1. /\ streams' = [streams EXCEPT ![s] = IdleStream] /\ ConnectionsOK
      /\ UNCHANGED <<arena, page, client, cancelling, drops, outcome>>
  BY DEF AbortedGoes, RankedInv
<1>2. ConnectionsOK' /\ \A t \in Streams : streams'[t].mine => streams[t].mine
  BY <1>1, IdleStreamIs, StreamStep
<1> QED
  BY <1>1, <1>2, ClientStands, CancelStands DEF RankedInv

-----------------------------------------------------------------------------
(* The platform's end of a connection.                                     *)

\* What the platform does to a connection is never to make it the hook's own.
LEMMA PlatformStep ==
  ASSUME RankedInv, NEW s \in Streams, streams[s].st # "idle", arena' \in Arenas,
         drops' \in 0..MaxDrops, UNCHANGED <<page, client, cancelling, outcome>>,
         \/ \E phase \in LaunchPhases : streams' = Opened(s, phase)
         \/ \E how \in {"done", "gone", "error"} : streams' = Closed(s, how)
  PROVE  RankedInv'
<1>1. ConnectionsOK' /\ \A t \in Streams : streams'[t].mine => streams[t].mine
  BY OpenedIs
<1> QED
  BY <1>1, ClientStands, CancelStands DEF RankedInv

LEMMA ServeHandshakeInv == ASSUME RankedInv, NEW s \in Streams, ServeHandshake(s) PROVE RankedInv'
<1>1. /\ streams[s].st = "sent" /\ UNCHANGED <<page, client, cancelling, drops, outcome>>
      /\ arena \in Arenas /\ drops \in 0..MaxDrops /\ streams[s].verb \in Verbs
  BY DEF ServeHandshake, RankedInv, ConnectionsOK, StreamsOK, Connections
<1>2. arena.launch \in LaunchPhases /\ "going" \in LaunchPhases
  BY <1>1, PhasesAre DEF Arenas
<1>3. /\ arena' \in Arenas
      /\ \/ \E phase \in LaunchPhases : streams' = Opened(s, phase)
         \/ \E how \in {"done", "gone", "error"} : streams' = Closed(s, how)
  <2>1. CASE UNCHANGED arena /\ streams' \in {Opened(s, arena.launch), Closed(s, "gone"), Closed(s, "error")}
    BY <1>1, <1>2, <2>1
  <2>2. CASE Reset(s)
    <3>1. /\ [arena EXCEPT !.launch = "going"] \in Arenas
          /\ [arena EXCEPT !.launch = NoLaunch] \in Arenas
      BY <1>1, PhasesAre DEF Arenas
    <3> QED
      BY <1>1, <1>2, <2>2, <3>1, ArenasAre DEF Reset
  <2>3. CASE CanBegin(streams[s].verb) /\ arena' = Begun /\ streams' = Opened(s, "going")
    BY <1>1, <1>2, <2>3, ArenasAre
  <2> QED
    BY <2>1, <2>2, <2>3 DEF ServeHandshake
<1> QED
  BY <1>1, <1>3, PlatformStep

LEMMA PlatformInv ==
  ASSUME RankedInv, NEW s \in Streams, Advance(s) \/ TickOpens(s) \/ SendFrame(s) \/ Drop(s)
  PROVE  RankedInv'
<1>1. arena \in Arenas /\ page \in Pages /\ drops \in 0..MaxDrops
  BY DEF RankedInv
<1>2. CASE Advance(s)
  <2>1. /\ [arena EXCEPT !.launch = "failed"] \in Arenas
        /\ [arena EXCEPT !.launch = "active", !.drill = "match"] \in Arenas
    BY <1>1, PhasesAre DEF Arenas
  <2>2. arena' \in Arenas /\ page' \in Pages /\ UNCHANGED hookVars
    BY <1>1, <1>2, <2>1 DEF Advance
  <2> QED
    BY <2>2, OutsideStep
<1>3. CASE TickOpens(s)
  <2>1. arena' \in Arenas /\ page' \in Pages /\ UNCHANGED hookVars
    BY <1>1, <1>3, ArenasAre, PhasesAre DEF TickOpens
  <2> QED
    BY <2>1, OutsideStep
<1>4. CASE SendFrame(s)
  <2>1. arena.launch \in LaunchPhases
    BY <1>1 DEF Arenas
  <2> QED
    BY <1>1, <1>4, <2>1, PlatformStep DEF SendFrame
<1>5. CASE Drop(s)
  <2>1. drops' \in 0..MaxDrops
    BY <1>1, <1>5, RankedBounds DEF Drop
  <2> QED
    BY <1>1, <1>5, <2>1, PlatformStep DEF Drop
<1> QED
  BY <1>2, <1>3, <1>4, <1>5

-----------------------------------------------------------------------------
(* The hook's own steps.                                                   *)

LEMMA ReadInv ==
  ASSUME RankedInv, AskLaunch \/ ServeLaunchRead \/ LaunchReadFails
  PROVE  RankedInv'
<1>1. client \in Clients /\ arena.launch \in LaunchPhases
  BY DEF RankedInv, HookOK, Arenas
<1>2. /\ UNCHANGED <<arena, page, streams, cancelling, drops, outcome>>
      /\ \/ \E read \in {"sent"} \cup LaunchPhases : client' = [client EXCEPT !.read = read]
         \/ client' = [client EXCEPT !.read = "done", !.error = TRUE]
  BY <1>1 DEF AskLaunch, ServeLaunchRead, LaunchReadFails
<1>3. /\ client' \in Clients /\ client'.timer = client.timer
      /\ client'.advancing = client.advancing /\ client'.launch = client.launch
  BY <1>1, <1>2 DEF Clients
<1>4. HookOK'
  BY <1>2, <1>3, LetGoStep DEF RankedInv, HookOK, ClosedIsQuiet
<1> QED
  BY <1>2, <1>4, CancelStands, StandsStep DEF RankedInv

LEMMA LaunchReadLandsInv == ASSUME RankedInv, NEW s \in Streams, LaunchReadLands(s) PROVE RankedInv'
<1>1. /\ client \in Clients /\ ConnectionsOK /\ outcome' = "open" /\ client.read \in LaunchPhases
      /\ UNCHANGED <<arena, page, cancelling, drops>>
  BY DEF LaunchReadLands, RankedInv, HookOK
<1>2. ConnectionsOK' /\ client' \in Clients /\ TimerIsAlone'
  <2>1. CASE client.read = "going"
    <3>1. PICK c : c = [IdleStream EXCEPT !.st = "sent", !.mine = TRUE]
      OBVIOUS
    <3>2. c \in Connections /\ c.st = "sent" /\ c.verb = "resume"
      BY <3>1, IdleStreamIs, PhasesAre DEF Connections, IdleStream
    <3>3. ConnectionsOK'
      BY <1>1, <2>1, <3>1, <3>2, ConnectStep DEF LaunchReadLands
    <3>4. client' = [client EXCEPT !.launch = "going", !.read = "done", !.advancing = TRUE,
                                   !.timer = FALSE]
      BY <2>1 DEF LaunchReadLands
    <3>5. client' \in Clients /\ ~client'.timer
      BY <1>1, <3>4, PhasesAre DEF Clients
    <3> QED
      BY <3>3, <3>5 DEF TimerIsAlone
  <2>2. CASE client.read # "going"
    <3>1. client' = [client EXCEPT !.launch = client.read, !.read = "done"] /\ UNCHANGED streams
      BY <2>2 DEF LaunchReadLands
    <3>2. client' \in Clients /\ client'.timer = client.timer
      BY <1>1, <3>1 DEF Clients
    <3> QED
      BY <1>1, <3>1, <3>2, StandsStep DEF TimerIsAlone, NoneIsMine, RankedInv, HookOK
  <2> QED
    BY <2>1, <2>2
<1>3. ClosedIsQuiet' /\ CancelIsAnswered'
  BY <1>1 DEF ClosedIsQuiet, CancelIsAnswered, RankedInv
<1> QED
  BY <1>1, <1>2, <1>3 DEF RankedInv, HookOK

LEMMA HandOffInv == ASSUME RankedInv, HandOff PROVE RankedInv'
<1>1. client \in Clients /\ page \in Pages /\ arena \in Arenas
  BY DEF RankedInv, HookOK
<1>2. /\ UNCHANGED <<arena, streams, cancelling, drops, outcome>> /\ page' \in Attached(page)
      /\ client' = [client EXCEPT !.handedOff = TRUE]
  BY DEF HandOff
<1>3. /\ client' \in Clients /\ client'.timer = client.timer
      /\ client'.advancing = client.advancing /\ client'.launch = client.launch
  BY <1>1, <1>2 DEF Clients
<1>4. HookOK'
  BY <1>2, <1>3, LetGoStep DEF RankedInv, HookOK, ClosedIsQuiet
<1> QED
  BY <1>1, <1>2, <1>4, PagesAre, CancelStands, StandsStep DEF RankedInv

\* The end of a match, and the cancel of a launch, silence the hook.
LEMMA SilencedStep ==
  ASSUME RankedInv, client' \in Clients, ~client'.timer, ~client'.advancing,
         outcome' = "closed" => client'.launch = NoLaunch, streams' = Superseded
  PROVE  ConnectionsOK' /\ HookOK'
BY SupersedeStep DEF RankedInv, HookOK, TimerIsAlone, ClosedIsQuiet

LEMMA MatchEdgeInv == ASSUME RankedInv, MatchEdge PROVE RankedInv'
<1>1. client \in Clients /\ UNCHANGED <<arena, page, cancelling, drops>>
  BY DEF MatchEdge, RankedInv, HookOK
<1>2. CASE MatchShown
  <2>1. client' = [client EXCEPT !.match = TRUE] /\ UNCHANGED <<streams, outcome>>
    BY <1>2 DEF MatchEdge
  <2>2. /\ client' \in Clients /\ client'.timer = client.timer
        /\ client'.advancing = client.advancing /\ client'.launch = client.launch
    BY <1>1, <2>1 DEF Clients
  <2>3. HookOK'
    BY <2>1, <2>2, LetGoStep DEF RankedInv, HookOK, ClosedIsQuiet
  <2> QED
    BY <1>1, <2>1, <2>3, CancelStands, StandsStep DEF RankedInv
<1>3. CASE ~MatchShown
  <2>1. /\ client' = [client EXCEPT !.match = FALSE, !.launch = NoLaunch, !.advancing = FALSE,
                                    !.error = FALSE, !.handedOff = FALSE, !.timer = FALSE]
        /\ streams' = Superseded /\ outcome' = "closed"
    BY <1>3 DEF MatchEdge
  <2>2. client' \in Clients /\ ~client'.timer /\ ~client'.advancing /\ client'.launch = NoLaunch
    BY <1>1, <2>1, PhasesAre DEF Clients
  <2>3. ConnectionsOK' /\ HookOK'
    BY <2>1, <2>2, SilencedStep
  <2>4. CancelIsAnswered'
    BY <1>1, <2>1 DEF CancelIsAnswered, RankedInv
  <2> QED
    BY <1>1, <2>3, <2>4 DEF RankedInv
<1> QED
  BY <1>2, <1>3

LEMMA ClickCancelInv == ASSUME RankedInv, ClickCancel PROVE RankedInv'
<1>1. /\ client \in Clients /\ UNCHANGED <<arena, page, drops>>
      /\ client' = [client EXCEPT !.advancing = FALSE, !.timer = FALSE, !.error = FALSE]
      /\ streams' = Superseded /\ cancelling' = "sent" /\ outcome' = "cancelling"
  BY DEF ClickCancel, RankedInv, HookOK
<1>2. client' \in Clients /\ ~client'.timer /\ ~client'.advancing
  BY <1>1 DEF Clients
<1>3. ConnectionsOK' /\ HookOK'
  BY <1>1, <1>2, SilencedStep
<1>4. CancelIsAnswered'
  BY <1>1 DEF CancelIsAnswered
<1> QED
  BY <1>1, <1>3, <1>4 DEF RankedInv

LEMMA ServeCancelInv == ASSUME RankedInv, ServeCancel PROVE RankedInv'
<1>1. arena' \in Arenas /\ cancelling' \in {"ok", "error"} /\ cancelling = "sent"
  BY ArenasAre DEF ServeCancel, RankedInv
<1>2. UNCHANGED <<page, client, streams, drops, outcome>>
  BY DEF ServeCancel
<1>3. CancelIsAnswered'
  BY <1>1, <1>2 DEF CancelIsAnswered, RankedInv
<1> QED
  BY <1>1, <1>2, <1>3, ClientStands, StandsStep DEF RankedInv

LEMMA CancelLandsInv == ASSUME RankedInv, CancelLands PROVE RankedInv'
<1>1. /\ client \in Clients /\ page \in Pages /\ arena \in Arenas /\ ClosedIsQuiet /\ ConnectionsOK
      /\ outcome \in {"open", "cancelling", "closed"} /\ cancelling' = "no" /\ TimerIsAlone
      /\ UNCHANGED <<arena, streams, drops>>
  BY DEF CancelLands, RankedInv, HookOK, CancelIsAnswered
<1>2. CASE cancelling = "ok"
  <2>1. /\ client' = [client EXCEPT !.launch = NoLaunch, !.handedOff = FALSE]
        /\ page' = Release(page) /\ outcome' = IF outcome = "open" THEN outcome ELSE "closed"
    BY <1>2 DEF CancelLands
  <2>2. /\ client' \in Clients /\ client'.timer = client.timer /\ client'.launch = NoLaunch
        /\ client'.advancing = client.advancing
    BY <1>1, <2>1, PhasesAre DEF Clients
  <2>3. HookOK' /\ CancelIsAnswered'
    BY <1>1, <2>1, <2>2 DEF HookOK, TimerIsAlone, ClosedIsQuiet, NoneIsMine, CancelIsAnswered
  <2> QED
    BY <1>1, <2>1, <2>3, PagesAre, StandsStep DEF RankedInv
<1>3. CASE cancelling # "ok"
  <2>1. client' = [client EXCEPT !.error = TRUE] /\ outcome' = "refused" /\ UNCHANGED page
    BY <1>3 DEF CancelLands
  <2>2. client' \in Clients /\ client'.timer = client.timer
    BY <1>1, <2>1 DEF Clients
  <2>3. HookOK' /\ CancelIsAnswered'
    BY <1>1, <2>1, <2>2 DEF HookOK, TimerIsAlone, ClosedIsQuiet, NoneIsMine, CancelIsAnswered
  <2> QED
    BY <1>1, <2>1, <2>3, StandsStep DEF RankedInv
<1> QED
  BY <1>2, <1>3

-----------------------------------------------------------------------------
(* The inductive invariant, and what follows.                              *)

LEMMA InitRankedInv == RankedInit => RankedInv
<1> SUFFICES ASSUME RankedInit PROVE RankedInv
  OBVIOUS
<1>1. arena \in Arenas
  <2>1. PICK launch \in LaunchPhases, life \in {"absent", "live"} :
          arena = [life |-> life, gen |-> IF life = "live" THEN 1 ELSE 0,
                   drill |-> IF launch = "active" THEN "match" ELSE "idle", launch |-> launch]
    BY DEF RankedInit
  <2> QED
    BY <2>1, PhasesAre, RankedBounds DEF Arenas
<1>2. page \in Pages /\ drops \in 0..MaxDrops
  BY PhasesAre, RankedBounds DEF RankedInit, Pages
<1>3. ConnectionsOK /\ NoneIsMine
  BY IdleStreamIs DEF RankedInit, ConnectionsOK, StreamsOK, VerbsByHand, OneIsMine, NoneIsMine
<1>4. client \in Clients /\ ~client.timer /\ outcome = "open" /\ cancelling = "no"
  BY PhasesAre DEF RankedInit, Clients
<1> QED
  BY <1>1, <1>2, <1>3, <1>4 DEF RankedInv, HookOK, TimerIsAlone, ClosedIsQuiet, CancelIsAnswered

LEMMA NextRankedInv == RankedInv /\ [RankedNext]_vars => RankedInv'
<1> SUFFICES ASSUME RankedInv, [RankedNext]_vars PROVE RankedInv'
  OBVIOUS
<1>1. CASE World \/ Boot \/ Snapshot \/ ClickLeave
  BY <1>1, OutsideInv
<1>2. CASE AskLaunch \/ ServeLaunchRead \/ LaunchReadFails
  BY <1>2, ReadInv
<1>3. CASE MatchEdge \/ HandOff
  BY <1>3, MatchEdgeInv, HandOffInv
<1>4. CASE ClickCancel \/ ServeCancel \/ CancelLands
  BY <1>4, ClickCancelInv, ServeCancelInv, CancelLandsInv
<1>5. ASSUME NEW s \in Streams, Connection(s) PROVE RankedInv'
  BY <1>5, ReconnectInv, FrameLandsInv, StreamLandsInv, AbortedGoesInv, ServeHandshakeInv,
     PlatformInv, LaunchReadLandsInv DEF Connection
<1>6. ASSUME NEW s \in Streams, ClickStart(s) \/ ClickRetry(s) PROVE RankedInv'
  BY <1>6, ClickInv
<1>7. CASE UNCHANGED vars
  <2>1. UNCHANGED <<arena, page, client, streams, cancelling, drops, outcome>>
    BY <1>7 DEF vars
  <2> QED
    BY <2>1, ClientStands, CancelStands, StandsStep DEF RankedInv
<1> QED
  BY <1>1, <1>2, <1>3, <1>4, <1>5, <1>6, <1>7 DEF RankedNext

LEMMA RankedInvariant == RankedSpec => []RankedInv
BY InitRankedInv, NextRankedInv, PTL DEF RankedSpec

\* The cluster, the page, the hook and its connections are well formed
\* (useRankedLaunch.ts, ClusterWorkbench.tsx).
THEOREM RankedTypeCorrect == RankedSpec => []RankedTypeOK
<1>1. RankedInv => RankedTypeOK
  BY DEF RankedInv, ConnectionsOK, StreamsOK, HookOK, CancelIsAnswered, Arenas, Pages, Clients,
         Connections, RankedTypeOK
<1> QED
  BY <1>1, RankedInvariant, PTL

\* A launch that was cancelled, found gone or forgotten with its match stays off the page: no
\* late frame, timer or broken stream brings it back (useRankedLaunch.ts, closeStream, cancel).
THEOREM ClosedLaunchesStayClosed == RankedSpec => []ClosedStaysClosed
<1>1. RankedInv => ClosedStaysClosed
  BY DEF RankedInv, HookOK, ClosedIsQuiet, NoneIsMine, ClosedStaysClosed
<1> QED
  BY <1>1, RankedInvariant, PTL

\* No reconnect and no tick of a stream makes a cluster or begins a failed launch again: only
\* the request of a connection that a click opened (useRankedLaunch.ts, drive).
THEOREM LaunchesAreBegunByHand == RankedSpec => BegunByHand
<1> DEFINE Begins == /\ arena.launch \in {NoLaunch, "failed"} /\ arena'.launch = "going"
                     /\ (arena.launch = "failed" \/ arena.life = "absent")
           Asked == \E s \in Streams : streams[s].st = "sent" /\ streams[s].byHand
<1>1. ASSUME RankedInv, [RankedNext]_vars, Begins PROVE Asked
  <2>1. arena \in Arenas /\ arena'.launch # arena.launch
    BY <1>1, PhasesAre DEF RankedInv
  <2>2. ASSUME World \/ ServeCancel \/ ClickLeave PROVE FALSE
    <3>1. arena'.launch \in {arena.launch, NoLaunch}
      BY <2>1, <2>2, ArenasAre DEF World, ServeCancel, ClickLeave, Arenas
    <3> QED
      BY <1>1, <2>1, <3>1, PhasesAre
  <2>3. ASSUME NEW s \in Streams, Advance(s) PROVE FALSE
    BY <1>1, <2>3, PhasesAre DEF Advance
  <2>4. ASSUME NEW s \in Streams, TickOpens(s) PROVE FALSE
    BY <1>1, <2>1, <2>4, ArenasAre, PhasesAre DEF TickOpens, CanBegin
  <2>5. ASSUME NEW s \in Streams, ServeHandshake(s) PROVE Asked
    <3>1. streams[s].st = "sent" /\ streams[s].verb \in Verbs
      BY <1>1, <2>5 DEF ServeHandshake, RankedInv, ConnectionsOK, StreamsOK, Connections
    <3>2. streams[s].verb # "resume"
      <4>1. CASE arena.launch = "failed" /\ streams[s].verb = "retry"
        BY <4>1
      <4>2. CASE CanBegin(streams[s].verb)
        BY <1>1, <2>1, <3>1, <4>2, ArenasAre, PhasesAre DEF CanBegin
      <4> QED
        BY <2>1, <2>5, <4>1, <4>2 DEF ServeHandshake
    <3> QED
      BY <1>1, <3>1, <3>2 DEF RankedInv, ConnectionsOK, VerbsByHand
  <2>6. ASSUME UNCHANGED arena PROVE FALSE
    BY <2>1, <2>6
  <2> QED
    BY <1>1, <2>2, <2>3, <2>4, <2>5, <2>6
       DEF RankedNext, Connection, vars, MatchEdge, HandOff, Boot, Snapshot, AskLaunch,
           ServeLaunchRead, LaunchReadFails, ClickCancel, CancelLands, Reconnect, FrameLands,
           StreamLands, AbortedGoes, SendFrame, Drop, LaunchReadLands, ClickStart, ClickRetry
<1>2. RankedInv /\ [RankedNext]_vars => [Begins => Asked]_vars
  BY <1>1
<1> QED
  BY <1>2, RankedInvariant, PTL DEF RankedSpec, BegunByHand

-----------------------------------------------------------------------------
(***************************************************************************)
(* The gateway, for any routes, budgets and deadlines.  A request that is  *)
(* past the page's own checks is for a route on offer and of a visitor     *)
(* (CallOK), which is what its budget is looked up by; and one whose       *)
(* browser has left is never handed on to a stream (Heard).                *)
(***************************************************************************)

Stages == {"idle", "identify", "body", "first", "second", "opening", "streaming", "answered"}
Replies == {"none", "ok", "empty", "refused", "unavailable", "whole", "malformed", "too large",
            "too many", "not found", "not configured", "sign in"}
Calls == [stage : Stages, route : Routes, by : Keys, wellFormed : BOOLEAN, gone : BOOLEAN,
          left : Nat, payload : Replies, answer : Replies]

Heard(r) == r.stage \in {"opening", "streaming"} => ~r.gone

CallOK(r) ==
  /\ r \in Calls /\ Heard(r)
  /\ r.stage \notin {"idle", "answered"} => r.route \in Offered

CallsOK == req = [s \in Slots |-> req[s]] /\ \A s \in Slots : CallOK(req[s])

Budgets == [count : Nat, left : Nat]

BudgetOK(id, b) ==
  /\ id \in Kinds \X Keys /\ b \in Budgets
  /\ 1 <= b.count /\ b.count <= Limits[id[1]].max /\ b.left <= Limits[id[1]].window

BucketsOK ==
  /\ buckets = [id \in DOMAIN buckets |-> buckets[id]]
  /\ \A id \in DOMAIN buckets : BudgetOK(id, buckets[id])

\* The inductive invariant.
GatewayInv == configured \in BOOLEAN /\ asked \in 0..MaxAsked /\ CallsOK /\ BucketsOK

LEMMA AnsweredOK ==
  ASSUME NEW r \in Calls, NEW what \in Replies
  PROVE  CallOK(Answered(r, what)) /\ Answered(r, what).route = r.route
BY DEF Calls, CallOK, Heard, Answered, Idle, Stages, Replies, Keys

LEMMA DeadlinesAre == CallerDeadline \in Nat /\ UpstreamDeadline \in Nat /\ HandshakeDeadline \in Nat
BY DeadlinesAssumption

\* A request that moves on to another stage; only one that is heard moves on to a stream.
LEMMA MovedOK ==
  ASSUME NEW r \in Calls, r.route \in Offered, NEW stage \in Stages, NEW left \in Nat,
         stage \in {"opening", "streaming"} => ~r.gone
  PROVE  CallOK([r EXCEPT !.stage = stage, !.left = left])
<1>1. PICK q : q = [r EXCEPT !.stage = stage, !.left = left]
  OBVIOUS
<1>2. q \in Calls
  BY <1>1 DEF Calls
<1>3. q.stage = stage /\ q.route = r.route /\ q.gone = r.gone
  BY <1>1 DEF Calls
<1> QED
  BY <1>1, <1>2, <1>3 DEF CallOK, Heard

LEMMA ForwardedOK ==
  ASSUME NEW r \in Calls, r.route \in Offered
  PROVE  CallOK(Forwarded(r))
<1>1. CASE ~r.route.stream
  <2>1. Forwarded(r) = [r EXCEPT !.stage = "first", !.left = UpstreamDeadline]
    BY <1>1 DEF Forwarded
  <2> QED
    BY <2>1, DeadlinesAre, MovedOK DEF Stages
<1>2. CASE r.route.stream /\ r.gone
  <2>1. Forwarded(r) = Answered(r, "unavailable")
    BY <1>2 DEF Forwarded
  <2> QED
    BY <2>1, AnsweredOK DEF Replies
<1>3. CASE r.route.stream /\ ~r.gone
  <2>1. Forwarded(r) = [r EXCEPT !.stage = "opening", !.left = HandshakeDeadline]
    BY <1>3 DEF Forwarded
  <2> QED
    BY <1>3, <2>1, DeadlinesAre, MovedOK DEF Stages
<1> QED
  BY <1>1, <1>2, <1>3

LEMMA PastOK ==
  ASSUME NEW r \in Calls, r.route \in Offered
  PROVE  CallOK(Past(r))
<1>1. PICK waiting : waiting = [r EXCEPT !.stage = "body", !.left = 0]
  OBVIOUS
<1>2. CallOK(waiting) /\ CallOK(Answered(r, "malformed"))
  BY <1>1, AnsweredOK, MovedOK DEF Stages, Replies
<1> QED
  BY <1>1, <1>2, ForwardedOK DEF Past

LEMMA IdentifyingOK ==
  ASSUME NEW r \in Calls, r.route \in Offered
  PROVE  CallOK(Identifying(r))
BY DeadlinesAre, MovedOK DEF Identifying, Stages

LEMMA SetOK ==
  ASSUME CallsOK, NEW s \in Slots, NEW r, CallOK(r), Set(s, r)
  PROVE  CallsOK'
BY DEF CallsOK, Set

\* A charge of a kind within its budget leaves every budget kept.
LEMMA ChargedOK ==
  ASSUME BucketsOK, NEW kind \in Kinds, NEW key \in Keys, Within(kind, key),
         buckets' = Charged(kind, key)
  PROVE  BucketsOK'
<1> DEFINE id == <<kind, key>>
<1>1. id \in Kinds \X Keys /\ id[1] = kind
  OBVIOUS
<1>2. Limits[kind].max \in Nat \ {0} /\ Limits[kind].window \in Nat \ {0}
  BY LimitsAssumption
<1> HIDE DEF id
<1>3. CASE Fresh(id)
  <2>1. PICK fresh : fresh = [count |-> 1, left |-> Limits[kind].window]
    OBVIOUS
  <2>2. BudgetOK(id, fresh)
    BY <1>1, <1>2, <2>1 DEF BudgetOK, Budgets
  <2>3. PICK b : b = [i \in DOMAIN buckets \cup {id} |-> IF i = id THEN fresh ELSE buckets[i]]
    OBVIOUS
  <2>4. \A i \in DOMAIN b : BudgetOK(i, b[i])
    BY <2>2, <2>3 DEF BucketsOK
  <2>5. buckets' = b \/ buckets' = [i \in {x \in DOMAIN b : b[x].left > 0} |-> b[i]]
    BY <1>3, <2>1, <2>3 DEF Charged, Swept, id
  <2> QED
    BY <2>3, <2>4, <2>5 DEF BucketsOK
<1>4. CASE ~Fresh(id)
  <2>1. id \in DOMAIN buckets /\ buckets[id].count < Limits[kind].max
    BY <1>4 DEF Within, Fresh, id
  <2>2. buckets' = [buckets EXCEPT ![id].count = @ + 1]
    BY <1>4 DEF Charged, id
  <2>3. BudgetOK(id, buckets'[id])
    BY <1>1, <1>2, <2>1, <2>2 DEF BucketsOK, BudgetOK, Budgets
  <2> QED
    BY <2>1, <2>2, <2>3 DEF BucketsOK
<1> QED
  BY <1>3, <1>4

LEMMA ChargeOK ==
  ASSUME CallsOK, BucketsOK, NEW s \in Slots, NEW r \in Calls, r.route \in Offered,
         NEW key \in Keys, NEW next, CallOK(next), Charge(s, r, key, next)
  PROVE  CallsOK' /\ BucketsOK'
<1>1. r.route.kind \in Kinds
  BY OfferedAssumption
<1>2. CASE Within(r.route.kind, key)
  BY <1>1, <1>2, ChargedOK, SetOK DEF Charge
<1>3. CASE ~Within(r.route.kind, key)
  <2>1. CallOK(Answered(r, "too many"))
    BY AnsweredOK DEF Replies
  <2>2. Set(s, Answered(r, "too many")) /\ buckets' = buckets
    BY <1>3 DEF Charge
  <2> QED
    BY <2>1, <2>2, SetOK DEF BucketsOK
<1> QED
  BY <1>2, <1>3

-----------------------------------------------------------------------------
(* The handlers.                                                           *)

LEMMA AskInv ==
  ASSUME GatewayInv, NEW s \in Slots, NEW route \in Offered, NEW v \in Visitors,
         NEW ok \in BOOLEAN, Ask(s, route, v, ok)
  PROVE  GatewayInv'
<1> USE DEF GatewayInv
<1>1. configured' = configured /\ asked' \in 0..MaxAsked
  <2>1. asked' = asked + 1 /\ asked < MaxAsked /\ configured' = configured
    BY DEF Ask
  <2> QED
    BY <2>1, AskedAssumption
<1>2. PICK r : r = [Idle EXCEPT !.route = route, !.by = v, !.wellFormed = ok]
  OBVIOUS
<1>3. r \in Calls /\ r.route = route
  BY <1>2, OfferedAssumption DEF Idle, Calls, Stages, Replies, Keys
<1>4. /\ CallOK(Forwarded(r)) /\ CallOK(Identifying(r))
      /\ \A what \in Replies : CallOK(Answered(r, what))
  BY <1>3, ForwardedOK, IdentifyingOK, AnsweredOK
<1>5. \/ \E what \in {"not found", "not configured"} : Refuse(s, r, what)
      \/ Charge(s, r, Anon, Forwarded(r)) \/ Charge(s, r, Anon, Identifying(r))
      \/ Set(s, Identifying(r)) /\ UNCHANGED <<buckets, recent>>
  BY <1>2 DEF Ask
<1>6. CASE Charge(s, r, Anon, Forwarded(r)) \/ Charge(s, r, Anon, Identifying(r))
  <2>1. Anon \in Keys
    BY DEF Keys
  <2> QED
    BY <1>1, <1>3, <1>4, <1>6, <2>1, ChargeOK
<1>7. CASE \E what \in {"not found", "not configured"} : Refuse(s, r, what)
  <2>1. PICK what \in Replies : Set(s, Answered(r, what)) /\ buckets' = buckets
    BY <1>7 DEF Refuse, Replies
  <2> QED
    BY <1>1, <1>4, <2>1, SetOK DEF BucketsOK
<1>8. CASE Set(s, Identifying(r)) /\ UNCHANGED <<buckets, recent>>
  BY <1>1, <1>4, <1>8, SetOK DEF BucketsOK
<1> QED
  BY <1>5, <1>6, <1>7, <1>8

\* What a step does to a request of its own, and the rest of it leaves alone.
LEMMA StepOfCall ==
  ASSUME GatewayInv, NEW s \in Slots, NEW r, CallOK(r), Set(s, r),
         UNCHANGED <<configured, buckets, asked>>
  PROVE  GatewayInv'
BY SetOK DEF GatewayInv, BucketsOK

LEMMA IdentifiedInv ==
  ASSUME GatewayInv, NEW s \in Slots, NEW caller \in Keys, Identified(s, caller)
  PROVE  GatewayInv'
<1> USE DEF GatewayInv
<1>1. configured' = configured /\ asked' = asked
  BY DEF Identified
<1>2. PICK r : r = req[s]
  OBVIOUS
<1>3. r \in Calls /\ r.route \in Offered
  BY <1>2 DEF CallsOK, CallOK, Identified, At
<1>4. /\ CallOK(Forwarded(r)) /\ CallOK(Past(r))
      /\ \A what \in Replies : CallOK(Answered(r, what))
  BY <1>3, ForwardedOK, PastOK, AnsweredOK
<1>5. \/ Set(s, Answered(r, "ok")) /\ buckets' = buckets
      \/ Set(s, Forwarded(r)) /\ buckets' = buckets
      \/ Refuse(s, r, "sign in") \/ Refuse(s, r, "malformed")
      \/ Charge(s, r, caller, Forwarded(r)) \/ Charge(s, r, caller, Past(r))
  BY <1>2 DEF Identified
<1>6. CASE Charge(s, r, caller, Forwarded(r)) \/ Charge(s, r, caller, Past(r))
  BY <1>1, <1>3, <1>4, <1>6, ChargeOK
<1>7. CASE Set(s, Forwarded(r)) /\ buckets' = buckets
  BY <1>1, <1>4, <1>7, SetOK DEF BucketsOK
<1>8. CASE \E what \in Replies : Set(s, Answered(r, what)) /\ buckets' = buckets
  BY <1>1, <1>4, <1>8, SetOK DEF BucketsOK
<1>9. Refuse(s, r, "sign in") \/ Refuse(s, r, "malformed") =>
        \E what \in Replies : Set(s, Answered(r, what)) /\ buckets' = buckets
  BY DEF Refuse, Replies
<1> QED
  BY <1>5, <1>6, <1>7, <1>8, <1>9 DEF Replies

LEMMA AnswersInv ==
  ASSUME GatewayInv, NEW s \in Slots,
         \/ \E what \in {"whole", "malformed", "too large"} : BodyRead(s, what)
         \/ \E what \in {"ok", "empty", "refused"} : FirstAnswered(s, what)
         \/ \E good \in BOOLEAN : SecondAnswered(s, good)
         \/ \E verdict \in {"done", "refused"} : HandshakeAnswered(s, verdict)
  PROVE  GatewayInv'
<1>1. PICK r : r = req[s]
  OBVIOUS
<1>2. r \in Calls /\ CallOK(r)
  BY <1>1 DEF GatewayInv, CallsOK, CallOK
<1>3. \A what \in Replies : CallOK(Answered(r, what))
  BY <1>2, AnsweredOK
<1>4. ASSUME NEW what \in {"whole", "malformed", "too large"}, BodyRead(s, what)
      PROVE  GatewayInv'
  <2>1. Set(s, Forwarded(r)) \/ Set(s, Answered(r, what))
    BY <1>1, <1>4 DEF BodyRead
  <2>2. CallOK(Forwarded(r)) /\ CallOK(Answered(r, what))
    BY <1>1, <1>2, <1>3, <1>4, ForwardedOK DEF BodyRead, At, CallOK, Replies
  <2> QED
    BY <1>4, <2>1, <2>2, StepOfCall DEF BodyRead
<1>5. ASSUME NEW what \in {"ok", "empty", "refused"}, FirstAnswered(s, what)
      PROVE  GatewayInv'
  <2>1. PICK second : second = [r EXCEPT !.stage = "second", !.left = UpstreamDeadline,
                                         !.payload = what]
    OBVIOUS
  <2>2. CallOK(second) /\ CallOK(Answered(r, what))
    <3>1. r.route \in Offered
      BY <1>1, <1>2, <1>5 DEF FirstAnswered, At, CallOK
    <3>2. second \in Calls
      BY <1>2, <2>1, DeadlinesAre DEF Calls, Stages, Replies
    <3>3. second.stage = "second" /\ second.route = r.route
      BY <1>2, <2>1 DEF Calls
    <3> QED
      BY <1>3, <3>1, <3>2, <3>3 DEF CallOK, Heard, Replies
  <2>3. Set(s, second) \/ Set(s, Answered(r, what))
    BY <1>1, <1>5, <2>1 DEF FirstAnswered
  <2> QED
    BY <1>5, <2>2, <2>3, StepOfCall DEF FirstAnswered
<1>6. ASSUME NEW good \in BOOLEAN, SecondAnswered(s, good) PROVE GatewayInv'
  <2>1. CallOK(Completed(r, good))
    BY <1>2, <1>3 DEF Completed, Calls, Replies
  <2> QED
    BY <1>1, <1>6, <2>1, StepOfCall DEF SecondAnswered
<1>7. ASSUME NEW verdict \in {"done", "refused"}, HandshakeAnswered(s, verdict)
      PROVE  GatewayInv'
  <2>1. PICK open : open = [r EXCEPT !.stage = "streaming", !.left = 0]
    OBVIOUS
  <2>2. CallOK(open) /\ CallOK(Answered(r, "refused"))
    <3>1. r.route \in Offered /\ ~r.gone
      BY <1>1, <1>2, <1>7 DEF HandshakeAnswered, At, CallOK, Heard
    <3> QED
      BY <1>2, <1>3, <2>1, <3>1, MovedOK DEF Stages, Replies
  <2>3. Set(s, open) \/ Set(s, Answered(r, "refused"))
    BY <1>1, <1>7, <2>1 DEF HandshakeAnswered
  <2> QED
    BY <1>7, <2>2, <2>3, StepOfCall DEF HandshakeAnswered
<1> QED
  BY <1>4, <1>5, <1>6, <1>7

LEMMA TimesOutInv == ASSUME GatewayInv, NEW s \in Slots, TimesOut(s) PROVE GatewayInv'
<1>1. CASE Identified(s, Anon)
  BY <1>1, IdentifiedInv DEF Keys
<1>2. CASE SecondAnswered(s, FALSE)
  BY <1>2, AnswersInv
<1>3. CASE Set(s, Answered(req[s], "unavailable")) /\ UNCHANGED <<configured, buckets, asked>>
  <2>1. CallOK(Answered(req[s], "unavailable"))
    BY AnsweredOK DEF GatewayInv, CallsOK, CallOK, Replies
  <2> QED
    BY <1>3, <2>1, StepOfCall
<1> QED
  BY <1>1, <1>2, <1>3 DEF TimesOut

LEMMA StreamInv ==
  ASSUME GatewayInv, NEW s \in Slots, (\E n : ReadChunk(s, n)) \/ Dropped(s)
  PROVE  GatewayInv'
<1>1. CallOK(Answered(req[s], "ok"))
  BY AnsweredOK DEF GatewayInv, CallsOK, CallOK, Replies
<1>2. Set(s, Answered(req[s], "ok")) \/ req' = req
  BY DEF ReadChunk, Dropped
<1>3. UNCHANGED <<configured, buckets, asked>>
  BY DEF ReadChunk, Dropped
<1>4. CASE req' = req
  BY <1>3, <1>4 DEF GatewayInv, CallsOK, BucketsOK
<1> QED
  BY <1>1, <1>2, <1>3, <1>4, StepOfCall

LEMMA LeaveInv == ASSUME GatewayInv, NEW s \in Slots, Leave(s) PROVE GatewayInv'
<1>1. PICK q : q = [req[s] EXCEPT !.gone = TRUE]
  OBVIOUS
<1>2. q \in Calls /\ q.route \in Offered
  BY <1>1 DEF GatewayInv, CallsOK, CallOK, Calls, Leave
<1>3. /\ CallOK(Forwarded(q)) /\ CallOK(Answered(q, "unavailable"))
      /\ CallOK(Answered(q, "malformed"))
  BY <1>2, ForwardedOK, AnsweredOK DEF Replies
<1>4. q.stage \notin {"opening", "streaming"} => CallOK(q)
  BY <1>2 DEF CallOK, Heard
<1>5. PICK next : CallOK(next) /\ Set(s, next)
  <2>1. CASE q.stage \in {"opening", "streaming"}
    BY <1>1, <1>3, <2>1 DEF Leave
  <2>2. CASE q.stage = "body" /\ q.route.body = "any"
    BY <1>1, <1>3, <2>2 DEF Leave
  <2>3. CASE q.stage = "body" /\ q.route.body # "any"
    BY <1>1, <1>3, <2>3 DEF Leave
  <2>4. CASE q.stage \notin {"opening", "streaming", "body"}
    BY <1>1, <1>4, <2>4 DEF Leave
  <2> QED
    BY <2>1, <2>2, <2>3, <2>4
<1>6. UNCHANGED <<configured, buckets, asked>>
  BY DEF Leave
<1> QED
  BY <1>5, <1>6, StepOfCall

LEMMA TickInv == ASSUME GatewayInv, Tick PROVE GatewayInv'
<1> USE DEF GatewayInv
<1>1. UNCHANGED <<configured, asked>>
  BY DEF Tick
<1>2. CallsOK'
  <2>1. ASSUME NEW s \in Slots PROVE CallOK(req'[s])
    <3>1. CASE req[s].stage \in Timed
      <4>1. PICK left \in Nat : left = req[s].left - 1
        BY <3>1 DEF Tick, CallsOK, CallOK, Calls
      <4>2. req'[s] = [req[s] EXCEPT !.left = left]
        BY <3>1, <4>1 DEF Tick, CallsOK, CallOK, Calls
      <4> QED
        BY <4>2 DEF CallsOK, CallOK, Heard, Calls
    <3>2. CASE req[s].stage \notin Timed
      BY <3>2 DEF Tick, CallsOK
    <3> QED
      BY <3>1, <3>2
  <2>2. req' = [s \in Slots |-> req'[s]]
    BY DEF Tick
  <2> QED
    BY <2>1, <2>2 DEF CallsOK
<1>3. BucketsOK'
  <2>1. DOMAIN buckets' = DOMAIN buckets /\ buckets' = [id \in DOMAIN buckets |-> buckets'[id]]
    BY DEF Tick
  <2>2. ASSUME NEW id \in DOMAIN buckets PROVE BudgetOK(id, buckets'[id])
    <3>1. PICK left \in Nat : left = IF buckets[id].left = 0 THEN 0 ELSE buckets[id].left - 1
      BY DEF BucketsOK, BudgetOK, Budgets
    <3>2. buckets'[id] = [buckets[id] EXCEPT !.left = left]
      BY <3>1 DEF Tick, BucketsOK, BudgetOK, Budgets
    <3>3. left <= buckets[id].left
      BY <3>1 DEF BucketsOK, BudgetOK, Budgets
    <3>4. Limits[id[1]].window \in Nat
      BY LimitsAssumption DEF BucketsOK, BudgetOK
    <3> QED
      BY <3>2, <3>3, <3>4 DEF BucketsOK, BudgetOK, Budgets
  <2> QED
    BY <2>1, <2>2 DEF BucketsOK
<1> QED
  BY <1>1, <1>2, <1>3

LEMMA GatewayStep == GatewayInv /\ [Next]_gatewayVars => GatewayInv'
<1> SUFFICES ASSUME GatewayInv, [Next]_gatewayVars PROVE GatewayInv'
  OBVIOUS
<1>1. ASSUME NEW s \in Slots, Handled(s) PROVE GatewayInv'
  <2>1. CASE Identified(s, req[s].by) \/ Identified(s, Anon)
    BY <2>1, IdentifiedInv DEF GatewayInv, CallsOK, CallOK, Calls, Keys
  <2>2. CASE TimesOut(s)
    BY <2>2, TimesOutInv
  <2> QED
    BY <1>1, <2>1, <2>2, AnswersInv DEF Handled
<1>2. ASSUME NEW s \in Slots, Elsewhere(s) PROVE GatewayInv'
  BY <1>2, StreamInv, LeaveInv DEF Elsewhere
<1>3. CASE Arrives
  BY <1>3, AskInv DEF Arrives
<1>4. CASE UNCHANGED gatewayVars
  BY <1>4 DEF gatewayVars, GatewayInv, CallsOK, BucketsOK
<1> QED
  BY <1>1, <1>2, <1>3, <1>4, TickInv DEF Next

LEMMA GatewayInvariant == GatewaySpec => []GatewayInv
<1>1. Init => GatewayInv
  <2> SUFFICES ASSUME Init PROVE GatewayInv
    OBVIOUS
  <2>1. CallOK(Idle)
    BY DEF CallOK, Heard, Idle, Calls, Stages, Replies, Keys, Routes, LaunchCalls
  <2> QED
    BY <2>1, AskedAssumption DEF Init, GatewayInv, CallsOK, BucketsOK
<1> QED
  BY <1>1, GatewayStep, PTL DEF GatewaySpec

\* A window in memory never counts more than its budget, and never outlives its length
\* (guard.ts, rateLimit).
THEOREM GatewayTypeCorrect == GatewaySpec => []TypeOK
<1>1. ASSUME GatewayInv, NEW id \in DOMAIN buckets
      PROVE  /\ id \in Kinds \X Keys /\ buckets[id].count \in 1..Limits[id[1]].max
             /\ buckets[id].left \in 0..Limits[id[1]].window
  <2>1. Limits[id[1]].max \in Nat /\ Limits[id[1]].window \in Nat
    BY <1>1, LimitsAssumption DEF GatewayInv, BucketsOK, BudgetOK
  <2> QED
    BY <1>1, <2>1 DEF GatewayInv, BucketsOK, BudgetOK, Budgets
<1>2. GatewayInv => TypeOK
  BY <1>1 DEF GatewayInv, TypeOK
<1> QED
  BY <1>2, GatewayInvariant, PTL

\* No browser leaves, at whatever await of the handler, with a stream left open upstream
\* or about to be (live-server.ts, liveStream).
THEOREM StreamsAreRead == GatewaySpec => []StreamHasAReader
<1>1. GatewayInv => StreamHasAReader
  BY DEF GatewayInv, CallsOK, CallOK, Heard, StreamHasAReader
<1> QED
  BY <1>1, GatewayInvariant, PTL

-----------------------------------------------------------------------------
(***************************************************************************)
(* The budgets over any stretch of time.  A fixed window counts what it    *)
(* has let through, and forgets it all at once; what holds is a bound on   *)
(* any window of the same length, wherever it starts.  While a window is   *)
(* open, the requests of its own ages are its count, the first of them let *)
(* through when it began, and those older than it are at most a budget     *)
(* less one; when none is open, so are all those remembered, and none has  *)
(* come in this tick (Spread).                                             *)
(***************************************************************************)

LeftOf(b, id) == IF id \in DOMAIN b THEN b[id].left ELSE 0
CountOf(b, id) == IF id \in DOMAIN b THEN b[id].count ELSE 0

Spread(f, window, max, count, left) ==
  IF left = 0
  THEN f[0] = 0 /\ Upto(f, window) <= max - 1
  ELSE /\ f[window - left] >= 1
       /\ Upto(f, window - left + 1) = count
       /\ Upto(f, window) - Upto(f, window - left + 1) <= max - 1

Ages(window) == 0..(window - 1)

RecentOK ==
  /\ recent = [id \in Kinds \X Keys |-> recent[id]]
  /\ \A id \in Kinds \X Keys : recent[id] \in [Ages(Limits[id[1]].window) -> Nat]

SpreadOK(id) ==
  Spread(recent[id], Limits[id[1]].window, Limits[id[1]].max,
         CountOf(buckets, id), LeftOf(buckets, id))

\* The inductive invariant.
BudgetInv == RecentOK /\ \A id \in Kinds \X Keys : SpreadOK(id)

\* A tick goes by.
LEMMA SpreadAges ==
  ASSUME NEW window \in Nat \ {0}, NEW max \in Nat \ {0}, NEW count \in 0..max,
         NEW left \in 0..window,
         NEW f \in [Ages(window) -> Nat], NEW g \in [Ages(window) -> Nat], g = Aged(f),
         Spread(f, window, max, count, left)
  PROVE  Spread(g, window, max, count, IF left = 0 THEN 0 ELSE left - 1)
<1>1. \A i \in 0..(window - 1) : g[i] = IF i = 0 THEN 0 ELSE f[i - 1]
  BY DEF Aged, Ages
<1>2. \A n \in 0..(window - 1) : Upto(g, n + 1) = Upto(f, n)
  BY <1>1, UptoShifted DEF Ages
<1>3. /\ window - 1 \in 0..(window - 1) /\ (window - 1) + 1 = window
      /\ Upto(f, window) = Upto(f, window - 1) + f[window - 1]
      /\ Upto(f, window - 1) \in Nat /\ f[window - 1] \in Nat
  <2>1. window - 1 \in 0..(window - 1) /\ (window - 1) + 1 = window
    OBVIOUS
  <2> QED
    BY <2>1, UptoStep DEF Ages
<1>4. Upto(g, window) = Upto(f, window - 1) /\ g[0] = 0
  BY <1>1, <1>2, <1>3
<1>5. CASE left = 0
  <2>1. Upto(f, window) <= max - 1
    BY <1>5 DEF Spread
  <2> QED
    BY <1>3, <1>4, <1>5, <2>1 DEF Spread
<1>6. CASE left = 1
  <2>1. f[window - 1] >= 1 /\ Upto(f, window) = count
    BY <1>3, <1>6 DEF Spread
  <2>2. Upto(g, window) <= max - 1
    BY <1>3, <1>4, <2>1
  <2> QED
    BY <1>4, <1>6, <2>2 DEF Spread
<1>7. CASE left > 1
  <2>1. PICK t \in 0..(window - 2) : t = window - left
    BY <1>7
  <2>2. /\ f[t] >= 1 /\ Upto(f, t + 1) = count
        /\ Upto(f, window) - Upto(f, t + 1) <= max - 1
    BY <1>7, <2>1 DEF Spread
  <2>3. t + 1 \in 0..(window - 1) /\ t + 1 # 0 /\ (t + 1) - 1 = t
    BY <2>1
  <2>4. g[t + 1] = f[t] /\ Upto(g, (t + 1) + 1) = Upto(f, t + 1)
    BY <1>1, <1>2, <2>3
  <2>5. Upto(f, t + 1) \in Nat
    BY <2>3, UptoStep DEF Ages
  <2>6. Upto(g, window) - Upto(g, (t + 1) + 1) <= max - 1
    BY <1>3, <1>4, <2>2, <2>4, <2>5
  <2>7. window - (left - 1) = t + 1 /\ left - 1 # 0 /\ left # 0
    BY <1>7, <2>1
  <2>8. /\ g[window - (left - 1)] >= 1 /\ Upto(g, window - (left - 1) + 1) = count
        /\ Upto(g, window) - Upto(g, window - (left - 1) + 1) <= max - 1
    BY <2>2, <2>4, <2>6, <2>7
  <2> QED
    BY <2>7, <2>8 DEF Spread
<1> QED
  BY <1>5, <1>6, <1>7

\* A request is let through: by a window that begins with it, or by one that is open.
Raised(f) == [f EXCEPT ![0] = @ + 1]

LEMMA SpreadCharged ==
  ASSUME NEW window \in Nat \ {0}, NEW max \in Nat \ {0}, NEW count \in Nat,
         NEW left \in 0..window,
         NEW f \in [Ages(window) -> Nat], NEW g, g = Raised(f),
         Spread(f, window, max, count, left)
  PROVE  /\ g \in [Ages(window) -> Nat]
         /\ IF left = 0 THEN Spread(g, window, max, 1, window)
                        ELSE Spread(g, window, max, count + 1, left)
<1>0. g = [f EXCEPT ![0] = @ + 1]
  BY DEF Raised
<1>1. g \in [Ages(window) -> Nat] /\ f[0] \in Nat /\ 0 \in Ages(window)
  BY <1>0 DEF Ages
<1>2. \A n \in 1..window : Upto(g, n) = Upto(f, n) + 1
  BY <1>0, <1>1, UptoRaised DEF Ages
<1>3. g[0] = f[0] + 1 /\ \A i \in Ages(window) : g[i] >= f[i]
  BY <1>0, <1>1
<1>4. \A n \in 0..window : Upto(f, n) \in Nat
  BY UptoGrows DEF Ages
<1>5. CASE left = 0
  <2>1. f[0] = 0 /\ Upto(f, window) <= max - 1
    BY <1>5 DEF Spread
  <2>2. Upto(f, 0) = 0 /\ Upto(f, 0 + 1) = Upto(f, 0) + f[0]
    BY <1>1, UptoStep DEF Ages
  <2>3. Upto(g, 1) = 1 /\ Upto(g, window) = Upto(f, window) + 1
    <3>1. 1 \in 1..window /\ window \in 1..window /\ 0 + 1 = 1
      OBVIOUS
    <3>2. Upto(g, 1) = Upto(f, 0 + 1) + 1 /\ Upto(g, window) = Upto(f, window) + 1
      BY <1>2, <3>1, Zenon
    <3> QED
      BY <2>1, <2>2, <3>2
  <2>4. window - window = 0 /\ window - window + 1 = 1 /\ window # 0
    OBVIOUS
  <2>5. g[0] >= 1 /\ Upto(g, window) - Upto(g, 1) <= max - 1
    BY <1>3, <1>4, <2>1, <2>3
  <2>6. Spread(g, window, max, 1, window)
    BY <2>3, <2>4, <2>5 DEF Spread
  <2> QED
    BY <1>1, <1>5, <2>6
<1>6. CASE left # 0
  <2>1. PICK t \in Ages(window) : t = window - left
    BY <1>6 DEF Ages
  <2>2. /\ f[t] >= 1 /\ Upto(f, t + 1) = count
        /\ Upto(f, window) - Upto(f, t + 1) <= max - 1
    BY <1>6, <2>1 DEF Spread
  <2>3. t + 1 \in 1..window /\ window \in 1..window
    BY <2>1 DEF Ages
  <2>4. /\ Upto(g, t + 1) = Upto(f, t + 1) + 1 /\ Upto(g, window) = Upto(f, window) + 1
        /\ Upto(f, t + 1) \in Nat /\ Upto(f, window) \in Nat
    <3>1. t + 1 \in 0..window /\ window \in 0..window
      BY <2>3
    <3> QED
      BY <1>2, <1>4, <2>3, <3>1, Zenon
  <2>5. g[t] >= 1
    <3>1. g[t] >= f[t] /\ f[t] \in Nat /\ g[t] \in Nat
      BY <1>1, <1>3, <2>1
    <3> QED
      BY <2>2, <3>1
  <2>6. Spread(g, window, max, count + 1, left)
    BY <1>6, <2>1, <2>2, <2>4, <2>5 DEF Spread
  <2> QED
    BY <1>1, <1>6, <2>6
<1> QED
  BY <1>5, <1>6

\* However the windows fall, what a window of the same length ending now remembers is
\* within twice the budget less one.
LEMMA SpreadBounds ==
  ASSUME NEW window \in Nat \ {0}, NEW max \in Nat \ {0}, NEW count \in 0..max,
         NEW left \in 0..window, NEW f \in [Ages(window) -> Nat],
         Spread(f, window, max, count, left)
  PROVE  Upto(f, window) <= 2 * max - 1
<1>1. Upto(f, window) \in Nat
  BY UptoGrows DEF Ages
<1>2. CASE left = 0
  BY <1>1, <1>2 DEF Spread
<1>3. CASE left # 0
  <2>1. PICK n \in 0..window : n = window - left + 1
    BY <1>3
  <2>2. Upto(f, n) \in Nat
    BY UptoGrows DEF Ages
  <2>3. Upto(f, n) = count /\ Upto(f, window) - Upto(f, n) <= max - 1
    BY <1>3, <2>1 DEF Spread
  <2> QED
    BY <1>1, <2>2, <2>3
<1> QED
  BY <1>2, <1>3

\* What a charge does to the windows: one begins or counts one more, and of the others
\* only those are dropped that have run out.
LEMMA ChargedWindows ==
  ASSUME BucketsOK, NEW kind \in Kinds, NEW key \in Keys, Within(kind, key),
         buckets' = Charged(kind, key), NEW id, id = <<kind, key>>
  PROVE  /\ IF LeftOf(buckets, id) = 0
            THEN LeftOf(buckets', id) = Limits[kind].window /\ CountOf(buckets', id) = 1
            ELSE /\ LeftOf(buckets', id) = LeftOf(buckets, id)
                 /\ CountOf(buckets', id) = CountOf(buckets, id) + 1
         /\ \A i \in (Kinds \X Keys) \ {id} :
              /\ LeftOf(buckets', i) = LeftOf(buckets, i)
              /\ LeftOf(buckets, i) # 0 => CountOf(buckets', i) = CountOf(buckets, i)
<1>1. Limits[kind].window \in Nat \ {0}
  BY LimitsAssumption
<1>2. Fresh(id) <=> LeftOf(buckets, id) = 0
  BY DEF Fresh, Expired, LeftOf
<1>3. CASE Fresh(id)
  <2>1. PICK fresh : fresh = [count |-> 1, left |-> Limits[kind].window]
    OBVIOUS
  <2>2. PICK b : b = [i \in DOMAIN buckets \cup {id} |-> IF i = id THEN fresh ELSE buckets[i]]
    OBVIOUS
  <2>3. buckets' = b \/ buckets' = [i \in {x \in DOMAIN b : b[x].left > 0} |-> b[i]]
    BY <1>3, <2>1, <2>2 DEF Charged, Swept
  <2>4. /\ LeftOf(b, id) = Limits[kind].window /\ CountOf(b, id) = 1
        /\ \A i : i # id => LeftOf(b, i) = LeftOf(buckets, i) /\ CountOf(b, i) = CountOf(buckets, i)
    BY <2>1, <2>2 DEF LeftOf, CountOf
  <2>5. \A i \in DOMAIN b : b[i].left \in Nat
    BY <1>1, <2>1, <2>2 DEF BucketsOK, BudgetOK, Budgets
  <2>6. \A i : /\ LeftOf(buckets', i) = LeftOf(b, i)
               /\ LeftOf(b, i) # 0 => CountOf(buckets', i) = CountOf(b, i)
    <3>1. CASE buckets' = b
      BY <3>1
    <3>2. CASE buckets' = [i \in {x \in DOMAIN b : b[x].left > 0} |-> b[i]]
      <4> SUFFICES ASSUME NEW i
                   PROVE  /\ LeftOf(buckets', i) = LeftOf(b, i)
                          /\ LeftOf(b, i) # 0 => CountOf(buckets', i) = CountOf(b, i)
        OBVIOUS
      <4>1. i \in DOMAIN b => b[i].left = 0 \/ b[i].left > 0
        BY <2>5
      <4>2. i \in DOMAIN buckets' <=> i \in DOMAIN b /\ b[i].left > 0
        BY <3>2
      <4>3. i \in DOMAIN buckets' => buckets'[i] = b[i]
        BY <3>2
      <4>4. LeftOf(buckets', i) = LeftOf(b, i)
        BY <4>1, <4>2, <4>3 DEF LeftOf
      <4>5. LeftOf(b, i) # 0 => CountOf(buckets', i) = CountOf(b, i)
        BY <4>1, <4>2, <4>3 DEF LeftOf, CountOf
      <4> QED
        BY <4>4, <4>5
    <3> QED
      BY <2>3, <3>1, <3>2
  <2> QED
    BY <1>1, <1>2, <1>3, <2>4, <2>6
<1>4. CASE ~Fresh(id)
  <2>1. id \in DOMAIN buckets
    BY <1>4 DEF Fresh
  <2>2. buckets' = [buckets EXCEPT ![id].count = @ + 1]
    BY <1>4 DEF Charged
  <2>3. buckets[id] \in Budgets
    BY <2>1 DEF BucketsOK, BudgetOK
  <2>4. LeftOf(buckets', id) = LeftOf(buckets, id) /\ CountOf(buckets', id) = CountOf(buckets, id) + 1
    BY <2>1, <2>2, <2>3 DEF LeftOf, CountOf, Budgets
  <2>5. \A i : i # id => LeftOf(buckets', i) = LeftOf(buckets, i) /\ CountOf(buckets', i) = CountOf(buckets, i)
    BY <2>2 DEF LeftOf, CountOf
  <2> QED
    BY <1>2, <1>4, <2>4, <2>5
<1> QED
  BY <1>3, <1>4

\* Every route is charged to the budget of what it is for.
LEMMA RoutesByPurpose == \A r \in Routes : r.op = r.kind
<1>2. \A r \in PageReads : r.op = r.kind
  BY DEF PageReads, ReadDrills, ReadTimes, ReadProfile, ReadRatings, ReadActions, Route
<1>3. \A r \in LaunchCalls : r.op = r.kind
  BY DEF LaunchCalls, ReadLaunch, CancelLaunch, StartStream, FollowStream, Route
<1>4. \A r \in RunCalls : r.op = r.kind
  BY DEF RunCalls, StartDrill, EndDrill, RenewRun, ReadSnapshot, DeleteRun, ReadReport, OnRun, Route
<1>5. \A r \in {CreateRun, ReadRun, Decide, RankedCommand, PracticeCommand} : r.op = r.kind
  <2>1. CreateRun.op = CreateRun.kind /\ ReadRun.op = ReadRun.kind
    BY DEF CreateRun, ReadRun, OnRun, Route
  <2>2. Decide.op = Decide.kind
    BY DEF Decide, OnRun, Route
  <2>3. RankedCommand.op = RankedCommand.kind /\ PracticeCommand.op = PracticeCommand.kind
    BY DEF RankedCommand, PracticeCommand, OnRun, Route
  <2> QED
    BY <2>1, <2>2, <2>3, Zenon
<1>6. \A r \in {RankedInspect, PracticeInspect, PracticeAction} : r.op = r.kind
  BY DEF RankedInspect, PracticeInspect, PracticeAction, OnRun, Route
<1>7. \A r \in {RecordUnit, IssueCertificate, VerifyCertificate} : r.op = r.kind
  <2>1. RecordUnit.op = RecordUnit.kind
    BY DEF RecordUnit, Route
  <2>2. IssueCertificate.op = IssueCertificate.kind
    BY DEF IssueCertificate, Route
  <2>3. VerifyCertificate.op = VerifyCertificate.kind
    BY DEF VerifyCertificate, Route
  <2> QED
    BY <2>1, <2>2, <2>3, Zenon
<1>8. \A r \in {ReadProgress, ReadCertificate, ReadOverview} : r.op = r.kind
  BY DEF ReadProgress, ReadCertificate, ReadOverview, Route
<1>9. \A r \in {ReadPlatform, ReadTopology, ReadStatus} : r.op = r.kind
  BY DEF ReadPlatform, ReadTopology, ReadStatus, Route
<1> QED
  BY <1>2, <1>3, <1>4, <1>5, <1>6, <1>7, <1>8, <1>9, Zenon DEF Routes

LEMMA WindowsFit ==
  ASSUME BucketsOK, NEW id \in Kinds \X Keys
  PROVE  /\ Limits[id[1]].window \in Nat \ {0} /\ Limits[id[1]].max \in Nat \ {0}
         /\ CountOf(buckets, id) \in 0..Limits[id[1]].max
         /\ LeftOf(buckets, id) \in 0..Limits[id[1]].window
<1>1. Limits[id[1]].window \in Nat \ {0} /\ Limits[id[1]].max \in Nat \ {0}
  BY LimitsAssumption
<1>2. CASE id \in DOMAIN buckets
  <2>1. BudgetOK(id, buckets[id])
    BY <1>2 DEF BucketsOK
  <2> QED
    BY <1>1, <1>2, <2>1 DEF BudgetOK, Budgets, CountOf, LeftOf
<1>3. CASE id \notin DOMAIN buckets
  BY <1>1, <1>3 DEF CountOf, LeftOf
<1> QED
  BY <1>1, <1>2, <1>3

LEMMA ChargeKeepsBudgets ==
  ASSUME BucketsOK, BudgetInv, NEW s \in Slots, NEW r, r.route \in Offered,
         NEW key \in Keys, NEW next, Charge(s, r, key, next)
  PROVE  BudgetInv'
<1>1. PICK kind \in Kinds : kind = r.route.kind /\ kind = r.route.op
  BY OfferedAssumption, RoutesByPurpose
<1>2. PICK id : id = <<kind, key>>
  OBVIOUS
<1>3. id \in Kinds \X Keys /\ id[1] = kind
  BY <1>2
<1>4. CASE ~Within(kind, key)
  <2>1. buckets' = buckets /\ recent' = recent
    BY <1>1, <1>4 DEF Charge
  <2> QED
    BY <2>1 DEF BudgetInv, RecentOK, SpreadOK
<1>5. CASE Within(kind, key)
  <2>1. buckets' = Charged(kind, key) /\ recent' = [recent EXCEPT ![id][0] = @ + 1]
    BY <1>1, <1>2, <1>5 DEF Charge, Noted
  <2>2. /\ IF LeftOf(buckets, id) = 0
           THEN LeftOf(buckets', id) = Limits[kind].window /\ CountOf(buckets', id) = 1
           ELSE /\ LeftOf(buckets', id) = LeftOf(buckets, id)
                /\ CountOf(buckets', id) = CountOf(buckets, id) + 1
        /\ \A i \in (Kinds \X Keys) \ {id} :
             /\ LeftOf(buckets', i) = LeftOf(buckets, i)
             /\ LeftOf(buckets, i) # 0 => CountOf(buckets', i) = CountOf(buckets, i)
    BY <1>2, <1>5, <2>1, ChargedWindows
  <2>3. PICK g : g = Raised(recent[id])
    OBVIOUS
  <2>4. recent' = [recent EXCEPT ![id] = g]
    BY <2>1, <2>3 DEF Raised
  <2>5. /\ recent' = [i \in Kinds \X Keys |-> recent'[i]] /\ recent'[id] = g
        /\ \A i \in (Kinds \X Keys) \ {id} : recent'[i] = recent[i]
    BY <1>3, <2>4 DEF BudgetInv, RecentOK
  <2>6. /\ g \in [Ages(Limits[kind].window) -> Nat]
        /\ IF LeftOf(buckets, id) = 0
           THEN Spread(g, Limits[kind].window, Limits[kind].max, 1, Limits[kind].window)
           ELSE Spread(g, Limits[kind].window, Limits[kind].max, CountOf(buckets, id) + 1,
                       LeftOf(buckets, id))
    <3>1. /\ recent[id] \in [Ages(Limits[kind].window) -> Nat]
          /\ Spread(recent[id], Limits[kind].window, Limits[kind].max,
                    CountOf(buckets, id), LeftOf(buckets, id))
      BY <1>3 DEF BudgetInv, RecentOK, SpreadOK
    <3>2. /\ Limits[kind].window \in Nat \ {0} /\ Limits[kind].max \in Nat \ {0}
          /\ CountOf(buckets, id) \in 0..Limits[kind].max
          /\ LeftOf(buckets, id) \in 0..Limits[kind].window
      BY <1>3, WindowsFit
    <3>3. CountOf(buckets, id) \in Nat
      BY <3>2
    <3> QED
      BY <2>3, <3>1, <3>2, <3>3, SpreadCharged
  <2>7. RecentOK'
    BY <1>3, <2>5, <2>6 DEF BudgetInv, RecentOK
  <2>8. SpreadOK(id)'
    BY <1>3, <2>2, <2>5, <2>6 DEF SpreadOK
  <2>9. ASSUME NEW i \in (Kinds \X Keys) \ {id} PROVE SpreadOK(i)'
    <3>1. SpreadOK(i) /\ recent'[i] = recent[i] /\ LeftOf(buckets', i) = LeftOf(buckets, i)
      BY <2>2, <2>5 DEF BudgetInv
    <3>2. CASE LeftOf(buckets, i) = 0
      BY <3>1, <3>2 DEF SpreadOK, Spread
    <3>3. CASE LeftOf(buckets, i) # 0
      <4>1. CountOf(buckets', i) = CountOf(buckets, i)
        BY <2>2, <3>3
      <4> QED
        BY <3>1, <4>1 DEF SpreadOK
    <3> QED
      BY <3>2, <3>3
  <2> QED
    BY <2>7, <2>8, <2>9 DEF BudgetInv
<1> QED
  BY <1>4, <1>5

LEMMA TickKeepsBudgets == ASSUME BucketsOK, BudgetInv, Tick PROVE BudgetInv'
<1>1. RecentOK /\ recent' = [id \in Kinds \X Keys |-> Aged(recent[id])]
  <2>1. RecentOK /\ recent' = [id \in DOMAIN recent |-> Aged(recent[id])]
    BY DEF Tick, BudgetInv
  <2>2. DOMAIN recent = Kinds \X Keys
    BY <2>1 DEF RecentOK
  <2> QED
    BY <2>1, <2>2, Zenon
<1>2. ASSUME NEW id \in Kinds \X Keys
      PROVE  recent'[id] \in [Ages(Limits[id[1]].window) -> Nat] /\ SpreadOK(id)'
  <2> DEFINE window == Limits[id[1]].window
             max == Limits[id[1]].max
             f == recent[id]
             g == Aged(f)
             count == CountOf(buckets, id)
             left == LeftOf(buckets, id)
  <2>1. /\ window \in Nat \ {0} /\ max \in Nat \ {0} /\ count \in 0..max /\ left \in 0..window
        /\ f \in [Ages(window) -> Nat] /\ Spread(f, window, max, count, left)
    BY WindowsFit DEF BudgetInv, RecentOK, SpreadOK
  <2>2. g \in [Ages(window) -> Nat]
    <3>1. ASSUME NEW age \in Ages(window) PROVE (IF age = 0 THEN 0 ELSE f[age - 1]) \in Nat
      <4>1. age # 0 => age - 1 \in Ages(window)
        BY <2>1 DEF Ages
      <4> QED
        BY <2>1, <4>1
    <3>2. g = [age \in Ages(window) |-> IF age = 0 THEN 0 ELSE f[age - 1]]
      BY <2>1 DEF Aged
    <3> QED
      BY <3>1, <3>2
  <2>3. Spread(g, window, max, count, IF left = 0 THEN 0 ELSE left - 1)
    <3>1. PICK h : h = g
      OBVIOUS
    <3> HIDE DEF window, max, count, left, f
    <3> QED
      BY <2>1, <2>2, SpreadAges
  <2>4. recent'[id] = g
    BY <1>1
  <2>5. LeftOf(buckets', id) = (IF left = 0 THEN 0 ELSE left - 1) /\ CountOf(buckets', id) = count
    <3>1. CASE id \in DOMAIN buckets
      <4>1. buckets[id] \in Budgets
        BY <3>1 DEF BucketsOK, BudgetOK
      <4>2. id \in DOMAIN buckets' /\ buckets'[id] =
              [buckets[id] EXCEPT !.left = IF @ = 0 THEN 0 ELSE @ - 1]
        BY <3>1 DEF Tick
      <4> QED
        BY <3>1, <4>1, <4>2 DEF LeftOf, CountOf, Budgets
    <3>2. CASE id \notin DOMAIN buckets
      <4>1. id \notin DOMAIN buckets'
        BY <3>2 DEF Tick
      <4> QED
        BY <3>2, <4>1 DEF LeftOf, CountOf
    <3> QED
      BY <3>1, <3>2
  <2>6. SpreadOK(id)'
    BY <2>3, <2>4, <2>5 DEF SpreadOK
  <2> QED
    BY <2>2, <2>4, <2>6
<1> QED
  BY <1>1, <1>2 DEF BudgetInv, RecentOK

LEMMA BudgetStep == GatewayInv /\ BudgetInv /\ [Next]_gatewayVars => BudgetInv'
<1> SUFFICES ASSUME GatewayInv, BudgetInv, [Next]_gatewayVars PROVE BudgetInv'
  OBVIOUS
<1>0. BucketsOK /\ CallsOK
  BY DEF GatewayInv
<1>1. ASSUME buckets' = buckets, recent' = recent PROVE BudgetInv'
  BY <1>1 DEF BudgetInv, RecentOK, SpreadOK
<1>2. ASSUME NEW s \in Slots, NEW caller \in Keys, Identified(s, caller) PROVE BudgetInv'
  <2>1. req[s].route \in Offered
    BY <1>0, <1>2 DEF CallsOK, CallOK, Identified, At
  <2>2. \/ buckets' = buckets /\ recent' = recent
        \/ \E next : Charge(s, req[s], caller, next)
    BY <1>2 DEF Identified, Refuse
  <2> QED
    BY <1>0, <1>1, <2>1, <2>2, ChargeKeepsBudgets
<1>3. CASE Arrives
  <2>1. PICK s \in Slots, route \in Offered, v \in Visitors, ok \in BOOLEAN : Ask(s, route, v, ok)
    BY <1>3 DEF Arrives
  <2>2. PICK r : r = [Idle EXCEPT !.route = route, !.by = v, !.wellFormed = ok]
    OBVIOUS
  <2>3. r.route \in Offered /\ Anon \in Keys
    BY <2>2 DEF Idle, Keys
  <2>4. \/ buckets' = buckets /\ recent' = recent
        \/ \E next : Charge(s, r, Anon, next)
    BY <2>1, <2>2 DEF Ask, Refuse
  <2> QED
    BY <1>0, <1>1, <2>3, <2>4, ChargeKeepsBudgets
<1>4. ASSUME NEW s \in Slots, Handled(s) PROVE BudgetInv'
  <2>1. req[s].by \in Keys /\ Anon \in Keys
    BY <1>0 DEF CallsOK, CallOK, Calls, Keys
  <2>2. \/ \E caller \in Keys : Identified(s, caller)
        \/ buckets' = buckets /\ recent' = recent
    BY <1>4, <2>1 DEF Handled, BodyRead, FirstAnswered, SecondAnswered, HandshakeAnswered, TimesOut
  <2> QED
    BY <1>1, <1>2, <2>2
<1>5. ASSUME NEW s \in Slots, Elsewhere(s) PROVE BudgetInv'
  BY <1>1, <1>5 DEF Elsewhere, ReadChunk, Dropped, Leave
<1>6. CASE UNCHANGED gatewayVars
  BY <1>1, <1>6 DEF gatewayVars
<1> QED
  BY <1>0, <1>3, <1>4, <1>5, <1>6, TickKeepsBudgets DEF Next

LEMMA BudgetInvariant == GatewaySpec => []BudgetInv
<1>1. Init => BudgetInv
  <2> SUFFICES ASSUME Init PROVE BudgetInv
    OBVIOUS
  <2>1. ASSUME NEW id \in Kinds \X Keys
        PROVE  recent[id] \in [Ages(Limits[id[1]].window) -> Nat] /\ SpreadOK(id)
    <3> DEFINE window == Limits[id[1]].window
    <3>1. window \in Nat \ {0} /\ Limits[id[1]].max \in Nat \ {0}
      BY LimitsAssumption
    <3>2. recent[id] = [age \in Ages(window) |-> 0] /\ LeftOf(buckets, id) = 0
      BY DEF Init, Ages, LeftOf
    <3>3. recent[id][0] = 0 /\ recent[id] \in [Ages(window) -> Nat]
      BY <3>1, <3>2 DEF Ages
    <3>4. Upto(recent[id], window) = 0
      BY <3>1, <3>2, UptoNothing DEF Ages
    <3> QED
      BY <3>1, <3>2, <3>3, <3>4 DEF SpreadOK, Spread
  <2> QED
    BY <2>1 DEF BudgetInv, RecentOK, Init
<1> QED
  BY <1>1, BudgetStep, GatewayInvariant, PTL DEF GatewaySpec

\* No caller is let through more than twice a budget less one in any window of its
\* length: the number that fixed windows promise, whatever falls where (guard.ts,
\* rateLimit).
THEOREM BudgetsHold == GatewaySpec => []BudgetHolds
<1>1. ASSUME GatewayInv, BudgetInv, NEW kind \in Kinds, NEW key \in Keys
      PROVE  InWindow(kind, key) <= 2 * Limits[kind].max - 1
  <2>1. PICK id \in Kinds \X Keys : id = <<kind, key>>
    OBVIOUS
  <2>2. /\ Limits[kind].window \in Nat \ {0} /\ Limits[kind].max \in Nat \ {0}
        /\ CountOf(buckets, id) \in 0..Limits[kind].max
        /\ LeftOf(buckets, id) \in 0..Limits[kind].window
    BY <1>1, <2>1, WindowsFit DEF GatewayInv
  <2>3. /\ recent[id] \in [Ages(Limits[kind].window) -> Nat]
        /\ Spread(recent[id], Limits[kind].window, Limits[kind].max,
                  CountOf(buckets, id), LeftOf(buckets, id))
    BY <1>1, <2>1 DEF BudgetInv, RecentOK, SpreadOK
  <2>4. Upto(recent[id], Limits[kind].window) <= 2 * Limits[kind].max - 1
    BY <2>2, <2>3, SpreadBounds
  <2>5. DOMAIN recent[id] = 0..(Limits[kind].window - 1)
    BY <2>3 DEF Ages
  <2>6. InWindow(kind, key) = Upto(recent[id], Limits[kind].window)
    BY <2>1, <2>5 DEF InWindow, Upto, SumOver
  <2> QED
    BY <2>4, <2>6
<1>2. GatewayInv /\ BudgetInv => BudgetHolds
  BY <1>1 DEF BudgetHolds
<1> QED
  BY <1>2, GatewayInvariant, BudgetInvariant, PTL

-----------------------------------------------------------------------------
(***************************************************************************)
(* The frames of a launch stream, however it is cut.  What a browser holds *)
(* of a stream it is reading is at most the head of one frame (Partial),   *)
(* and it has read no "end"; so the bytes it holds and those of the next   *)
(* chunk are again whole frames in order, and what they show goes on where *)
(* the last chunk stopped (ShowsUpto).                                     *)
(***************************************************************************)

Texts == {"launch", "tick", "end", "unreadable"}
Parts == (1..Len(Sent)) \X {"head", "tail"}
Dispatches == (1..Len(Sent)) \X Texts
Readers == [rest : Seq(Parts), over : BOOLEAN, shown : Seq(Dispatches)]

Partial(n) == IF n % 2 = 1 THEN << <<(n + 1) \div 2, "head">> >> ELSE << >>

NoEnd(f) == \A j \in 1..f : Sent[j] # "end"
Due(f) == {i \in 1..f : Readable(<<i, Sent[i]>>) /\ NoEnd(i - 1)}

ShowsUpto(shown, f) ==
  /\ {shown[i] : i \in DOMAIN shown} = {<<i, Sent[i]>> : i \in Due(f)}
  /\ \A i, j \in DOMAIN shown : i < j => shown[i][1] < shown[j][1]

\* The browser after the first n bytes of the stream.
HasRead(reader, n) ==
  /\ reader \in Readers /\ ShowsUpto(reader.shown, n \div 2)
  /\ reader.over => ~ NoEnd(n \div 2)
  /\ ~ reader.over => NoEnd(n \div 2) /\ reader.rest = Partial(n)

LEMMA SentIs == /\ Len(Sent) \in Nat /\ DOMAIN Sent = 1..Len(Sent)
                /\ \A i \in 1..Len(Sent) : Sent[i] \in Texts
BY SentAssumption DEF Texts

\* The bytes come two by two.
LEMMA BytesAre ==
  ASSUME NEW m \in Nat, m < Len(Sent)
  PROVE  /\ 2 * m + 1 \in DOMAIN Bytes /\ Bytes[2 * m + 1] = <<m + 1, "head">>
         /\ 2 * m + 2 \in DOMAIN Bytes /\ Bytes[2 * m + 2] = <<m + 1, "tail">>
<1>1. Len(Sent) \in Nat
  BY SentIs
<1>2. 2 * m + 1 \in 1..(2 * Len(Sent)) /\ 2 * m + 2 \in 1..(2 * Len(Sent))
  BY <1>1
<1>3. ((2 * m + 1) + 1) \div 2 = m + 1 /\ (2 * m + 1) % 2 = 1
  OBVIOUS
<1>4. ((2 * m + 2) + 1) \div 2 = m + 1 /\ (2 * m + 2) % 2 # 1
  OBVIOUS
<1>5. Halves(m + 1)[1] = <<m + 1, "head">> /\ Halves(m + 1)[2] = <<m + 1, "tail">>
  BY DEF Halves
<1> QED
  BY <1>2, <1>3, <1>4, <1>5, Zenon DEF Bytes

LEMMA Twos ==
  ASSUME NEW n \in Nat
  PROVE  \E m \in Nat : \/ n = 2 * m /\ n \div 2 = m /\ (n + 1) \div 2 = m
                           /\ n % 2 = 0 /\ (n + 1) % 2 = 1
                        \/ n = 2 * m + 1 /\ n \div 2 = m /\ (n + 1) \div 2 = m + 1
                           /\ n % 2 = 1 /\ (n + 1) % 2 = 0
<1>1. n \div 2 \in Nat /\ (n = 2 * (n \div 2) \/ n = 2 * (n \div 2) + 1)
  OBVIOUS
<1>2. PICK m \in Nat : m = n \div 2
  BY <1>1
<1>3. CASE n = 2 * m
  <2>1. (n + 1) \div 2 = m /\ n % 2 = 0 /\ (n + 1) % 2 = 1
    BY <1>3
  <2> QED
    BY <1>2, <1>3, <2>1
<1>4. CASE n = 2 * m + 1
  <2>1. (n + 1) \div 2 = m + 1 /\ n % 2 = 1 /\ (n + 1) % 2 = 0
    BY <1>4
  <2> QED
    BY <1>2, <1>4, <2>1
<1> QED
  BY <1>1, <1>2, <1>3, <1>4

LEMMA PairIs ==
  ASSUME NEW S, NEW a \in S, NEW b \in S
  PROVE  Append(<<a>>, b) = <<a, b>>
<1>1. <<a>> \in Seq(S) /\ Len(<<a>>) = 1 /\ <<a>>[1] = a
  OBVIOUS
<1>2. <<a, b>> \in Seq(S) /\ Len(<<a, b>>) = 2 /\ <<a, b>>[1] = a /\ <<a, b>>[2] = b
  OBVIOUS
<1>3. PICK s \in Seq(S) : s = <<a>>
  BY <1>1, Zenon
<1>4. PICK r \in Seq(S) : r = <<a, b>>
  BY <1>2, Zenon
<1>5. Len(s) = 1 /\ s[1] = a /\ Len(r) = 2 /\ r[1] = a /\ r[2] = b
  BY <1>1, <1>2, <1>3, <1>4, Zenon
<1>6. PICK both : both = Append(s, b)
  OBVIOUS
<1>7. /\ both \in Seq(S) /\ Len(both) = Len(s) + 1
      /\ \A i \in 1..Len(s) : both[i] = s[i]
      /\ both[Len(s) + 1] = b
  <2>1. /\ Append(s, b) \in Seq(S) /\ Len(Append(s, b)) = Len(s) + 1
        /\ \A i \in 1..Len(s) : Append(s, b)[i] = s[i]
        /\ Append(s, b)[Len(s) + 1] = b
    BY AppendProperties
  <2> QED
    BY <1>6, <2>1, Zenon
<1>8. Len(both) = 2 /\ both[1] = a /\ both[2] = b
  BY <1>5, <1>7
<1>9. \A i \in 1..2 : i = 1 \/ i = 2
  OBVIOUS
<1>10. \A i \in 1..Len(both) : both[i] = r[i]
  BY <1>5, <1>8, <1>9
<1>11. both = r
  BY <1>5, <1>7, <1>8, <1>10, SeqEqual, Zenon
<1> QED
  BY <1>3, <1>4, <1>6, <1>11

LEMMA OneFurther ==
  ASSUME NEW w \in Nat, NEW t \in 0..(w - 1)
  PROVE  t \in Nat /\ t + 1 \in 1..w /\ 1..(t + 1) # {} /\ t + 1 <= w
<1>1. t \in Nat /\ t <= w - 1
  OBVIOUS
<1>2. 1 \in 1..(t + 1) /\ t + 1 \in 1..w
  BY <1>1
<1> QED
  BY <1>1, <1>2

\* Past an "end" nothing is due any more.
LEMMA DueStops ==
  ASSUME NEW f \in Nat, ~ NoEnd(f)
  PROVE  Due(f + 1) = Due(f)
<1>1. \A i \in 1..(f + 1) : i \in 1..f \/ i = f + 1
  OBVIOUS
<1>2. (f + 1) - 1 = f /\ 1..f \subseteq 1..(f + 1)
  OBVIOUS
<1> QED
  BY <1>1, <1>2, Zenon DEF Due

\* Until then, the next frame is due if it is readable.
LEMMA DueGrows ==
  ASSUME NEW f \in Nat, NoEnd(f)
  PROVE  Due(f + 1) = Due(f) \cup (IF Readable(<<f + 1, Sent[f + 1]>>) THEN {f + 1} ELSE {})
<1>1. \A i \in 1..(f + 1) : i \in 1..f \/ i = f + 1
  OBVIOUS
<1>2. (f + 1) - 1 = f /\ 1..f \subseteq 1..(f + 1) /\ f + 1 \in 1..(f + 1)
  OBVIOUS
<1> QED
  BY <1>1, <1>2, Zenon DEF Due

LEMMA ShownIs ==
  ASSUME NEW f \in Nat, NEW shown \in Seq(Dispatches), ShowsUpto(shown, f)
  PROVE  \A i \in DOMAIN shown : shown[i][1] \in 1..f
<1> SUFFICES ASSUME NEW i \in DOMAIN shown PROVE shown[i][1] \in 1..f
  OBVIOUS
<1>1. shown[i] \in {<<k, Sent[k]>> : k \in Due(f)}
  BY Zenon DEF ShowsUpto
<1>2. PICK k \in Due(f) : shown[i] = <<k, Sent[k]>>
  BY <1>1
<1> QED
  BY <1>2 DEF Due

\* A frame that is handed on comes after those that were.
LEMMA OneMoreShown ==
  ASSUME NEW f \in Nat, f < Len(Sent), NoEnd(f), NEW shown \in Seq(Dispatches),
         ShowsUpto(shown, f), Readable(<<f + 1, Sent[f + 1]>>), NEW frame, frame = <<f + 1, Sent[f + 1]>>
  PROVE  Append(shown, frame) \in Seq(Dispatches) /\ ShowsUpto(Append(shown, frame), f + 1)
<1> DEFINE more == Append(shown, frame)
<1>1. frame \in Dispatches /\ frame[1] = f + 1
  BY SentIs DEF Dispatches
<1>2. /\ more \in Seq(Dispatches) /\ DOMAIN more = DOMAIN shown \cup {Len(shown) + 1}
      /\ \A i \in DOMAIN shown : more[i] = shown[i]
      /\ more[Len(shown) + 1] = frame
      /\ DOMAIN shown = 1..Len(shown) /\ Len(shown) \in Nat
  BY <1>1
<1> HIDE DEF more
<1>3. {more[i] : i \in DOMAIN more} = {shown[i] : i \in DOMAIN shown} \cup {frame}
  BY <1>2, Zenon
<1>4. {<<i, Sent[i]>> : i \in Due(f + 1)} = {<<i, Sent[i]>> : i \in Due(f)} \cup {frame}
  BY DueGrows, Zenon
<1>5. \A i \in DOMAIN shown : shown[i][1] \in 1..f
  BY ShownIs
<1>6. ASSUME NEW i \in DOMAIN more, NEW j \in DOMAIN more, i < j
      PROVE  more[i][1] < more[j][1]
  <2>1. CASE j \in DOMAIN shown
    <3>1. i \in DOMAIN shown
      BY <1>2, <1>6, <2>1
    <3> QED
      BY <1>2, <1>6, <2>1, <3>1, Zenon DEF ShowsUpto
  <2>2. CASE j = Len(shown) + 1
    <3>1. i \in DOMAIN shown
      BY <1>2, <1>6, <2>2
    <3>2. more[i][1] \in 1..f /\ more[j][1] = f + 1
      BY <1>1, <1>2, <1>5, <2>2, <3>1, Zenon
    <3> QED
      BY <3>2
  <2> QED
    BY <1>2, <2>1, <2>2
<1>7. ShowsUpto(more, f + 1)
  BY <1>3, <1>4, <1>6, Zenon DEF ShowsUpto
<1> QED
  BY <1>2, <1>7 DEF more

LEMMA TakenIsTyped ==
  ASSUME NEW reader \in Readers, NEW byte \in Parts
  PROVE  Taken(reader, byte) \in Readers
<1> DEFINE bytes == Append(reader.rest, byte)
<1>1. /\ reader.rest \in Seq(Parts) /\ reader.over \in BOOLEAN
      /\ reader.shown \in Seq(Dispatches)
  BY DEF Readers
<1>2. bytes \in Seq(Parts) /\ bytes[1] \in Parts
  BY <1>1
<1> HIDE DEF bytes
<1>3. Frame(bytes) \in Dispatches
  <2>1. PICK i \in 1..Len(Sent) : i = bytes[1][1]
    BY <1>2 DEF Parts
  <2>2. Sent[i] \in Texts /\ "unreadable" \in Texts
    BY SentIs DEF Texts
  <2> QED
    BY <2>1, <2>2 DEF Frame, Dispatches
<1>4. PICK frame \in Dispatches : frame = Frame(bytes)
  BY <1>3
<1>5. Dispatched(reader, frame) \in Readers
  <2>1. Append(reader.shown, frame) \in Seq(Dispatches)
    BY <1>1
  <2>2. << >> \in Seq(Parts)
    BY EmptySeq, Zenon
  <2>3. PICK shown \in Seq(Dispatches) :
          shown = IF Readable(frame) THEN Append(reader.shown, frame) ELSE reader.shown
    BY <1>1, <2>1
  <2>4. PICK over \in BOOLEAN : over = (frame[2] = "end")
    OBVIOUS
  <2>5. Dispatched(reader, frame) = [rest |-> << >>, over |-> over, shown |-> shown]
    BY <2>3, <2>4, Zenon DEF Dispatched
  <2>6. PICK rest \in Seq(Parts) : rest = << >>
    BY <2>2
  <2>7. [rest |-> rest, over |-> over, shown |-> shown] \in Readers
    BY DEF Readers
  <2> QED
    BY <2>5, <2>6, <2>7, Zenon
<1>6. [reader EXCEPT !.rest = bytes] \in Readers
  BY <1>2 DEF Readers
<1>7. \/ Taken(reader, byte) = reader
      \/ Taken(reader, byte) = Dispatched(reader, Frame(bytes))
      \/ Taken(reader, byte) = [reader EXCEPT !.rest = bytes]
  BY <1>1 DEF Taken, bytes
<1> QED
  BY <1>4, <1>5, <1>6, <1>7, Zenon

\* One more byte is read.
LEMMA TakenReads ==
  ASSUME NEW n \in Nat, n < 2 * Len(Sent), NEW reader, HasRead(reader, n)
  PROVE  Bytes[n + 1] \in Parts /\ HasRead(Taken(reader, Bytes[n + 1]), n + 1)
<1>1. PICK m \in Nat : \/ n = 2 * m /\ n \div 2 = m /\ (n + 1) \div 2 = m
                          /\ n % 2 = 0 /\ (n + 1) % 2 = 1
                       \/ n = 2 * m + 1 /\ n \div 2 = m /\ (n + 1) \div 2 = m + 1
                          /\ n % 2 = 1 /\ (n + 1) % 2 = 0
  BY Twos
<1>2. m < Len(Sent) /\ Len(Sent) \in Nat /\ m + 1 \in 1..Len(Sent) /\ n \div 2 = m
  BY <1>1, SentIs
<1>3. Bytes[2 * m + 1] = <<m + 1, "head">> /\ Bytes[2 * m + 2] = <<m + 1, "tail">>
  BY <1>2, BytesAre
<1>4. PICK byte : byte = Bytes[n + 1]
  OBVIOUS
<1>5. byte \in Parts
  <2>1. n + 1 = 2 * m + 1 \/ n + 1 = 2 * m + 2
    BY <1>1
  <2>2. byte = <<m + 1, "head">> \/ byte = <<m + 1, "tail">>
    BY <1>3, <1>4, <2>1, Zenon
  <2> QED
    BY <1>2, <2>2 DEF Parts
<1>6. /\ reader \in Readers /\ reader.rest \in Seq(Parts) /\ reader.over \in BOOLEAN
      /\ reader.shown \in Seq(Dispatches)
      /\ ShowsUpto(reader.shown, m)
      /\ reader.over => ~ NoEnd(m)
      /\ ~ reader.over => NoEnd(m) /\ reader.rest = Partial(n)
  BY <1>2 DEF HasRead, Readers
<1>7. Taken(reader, byte) \in Readers
  BY <1>5, <1>6, TakenIsTyped
<1>8. CASE reader.over
  <2>1. Taken(reader, byte) = reader
    BY <1>8 DEF Taken
  <2>2. Due(m + 1) = Due(m)
    BY <1>6, <1>8, DueStops
  <2>3. (n + 1) \div 2 = m \/ (n + 1) \div 2 = m + 1
    BY <1>1
  <2>4. ~ NoEnd(m + 1)
    <3>1. 1..m \subseteq 1..(m + 1)
      OBVIOUS
    <3> QED
      BY <1>6, <1>8, <3>1, Zenon DEF NoEnd
  <2>5. ShowsUpto(reader.shown, (n + 1) \div 2) /\ ~ NoEnd((n + 1) \div 2)
    BY <1>6, <1>8, <2>2, <2>3, <2>4, Zenon DEF ShowsUpto
  <2> QED
    BY <1>4, <1>5, <1>6, <1>8, <2>1, <2>5, Zenon DEF HasRead
<1>9. CASE ~ reader.over /\ n = 2 * m
  <2>1. /\ n + 1 = 2 * m + 1 /\ (n + 1) \div 2 = m /\ n % 2 = 0 /\ (n + 1) % 2 = 1
        /\ ((n + 1) + 1) \div 2 = m + 1
    BY <1>1, <1>9
  <2>2. byte = <<m + 1, "head">>
    BY <1>3, <1>4, <2>1
  <2>3. reader.rest = << >> /\ Partial(n + 1) = <<byte>>
    BY <1>6, <1>9, <2>1, <2>2 DEF Partial
  <2>4. Taken(reader, byte) = [reader EXCEPT !.rest = <<byte>>]
    <3>1. Append(reader.rest, byte) = <<byte>>
      BY <2>3
    <3>2. byte[2] # "tail"
      BY <2>2
    <3> QED
      BY <1>9, <3>1, <3>2 DEF Taken
  <2>5. PICK next \in Readers : next = Taken(reader, byte)
    BY <1>7
  <2>6. next.rest = <<byte>> /\ next.over = reader.over /\ next.shown = reader.shown
    BY <1>6, <2>4, <2>5 DEF Readers
  <2>7. HasRead(next, n + 1)
    BY <1>6, <1>9, <2>1, <2>3, <2>6, Zenon DEF HasRead
  <2> QED
    BY <1>4, <1>5, <2>5, <2>7, Zenon
<1>10. CASE ~ reader.over /\ n = 2 * m + 1
  <2>1. n + 1 = 2 * m + 2 /\ (n + 1) \div 2 = m + 1 /\ n % 2 = 1 /\ (n + 1) % 2 = 0
    BY <1>1, <1>10
  <2>2. byte = <<m + 1, "tail">>
    BY <1>3, <1>4, <2>1
  <2>3. reader.rest = << <<m + 1, "head">> >> /\ Partial(n + 1) = << >>
    BY <1>1, <1>6, <1>10, <2>1 DEF Partial
  <2>4. Append(reader.rest, byte) = Halves(m + 1)
    <3>1. PICK head \in Parts : head = <<m + 1, "head">>
      BY <1>2 DEF Parts
    <3>2. PICK tail \in Parts : tail = <<m + 1, "tail">>
      BY <1>2 DEF Parts
    <3>3. Append(<<head>>, tail) = <<head, tail>>
      BY PairIs, Zenon
    <3> QED
      BY <2>2, <2>3, <3>1, <3>2, <3>3, Zenon DEF Halves
  <2>5. Frame(Halves(m + 1)) = <<m + 1, Sent[m + 1]>>
    BY DEF Frame, Halves
  <2>6. PICK frame : frame = <<m + 1, Sent[m + 1]>> /\ frame[2] = Sent[m + 1]
    <3>1. PICK sent : sent = Sent[m + 1]
      OBVIOUS
    <3>2. <<m + 1, sent>>[2] = sent
      OBVIOUS
    <3> QED
      BY <3>1, <3>2, Zenon
  <2>7. Taken(reader, byte) = Dispatched(reader, frame)
    <3>1. byte[2] = "tail"
      BY <2>2
    <3> QED
      BY <1>10, <2>4, <2>5, <2>6, <3>1 DEF Taken
  <2>8. PICK next \in Readers : next = Taken(reader, byte)
    BY <1>7
  <2>9. /\ next.rest = << >> /\ next.over = (Sent[m + 1] = "end")
        /\ next.shown = IF Readable(frame) THEN Append(reader.shown, frame) ELSE reader.shown
    BY <2>6, <2>7, <2>8 DEF Dispatched
  <2>10. ShowsUpto(next.shown, m + 1)
    <3>1. CASE Readable(frame)
      <4>1. ShowsUpto(Append(reader.shown, frame), m + 1)
        BY <1>2, <1>6, <1>10, <2>6, <3>1, OneMoreShown
      <4> QED
        BY <2>9, <3>1, <4>1, Zenon
    <3>2. CASE ~ Readable(frame)
      <4>1. Due(m + 1) = Due(m)
        BY <1>6, <1>10, <2>6, <3>2, DueGrows
      <4> QED
        BY <1>6, <2>9, <3>2, <4>1, Zenon DEF ShowsUpto
    <3> QED
      BY <3>1, <3>2
  <2>11. NoEnd(m + 1) <=> Sent[m + 1] # "end"
    <3>1. \A j \in 1..(m + 1) : j \in 1..m \/ j = m + 1
      OBVIOUS
    <3>2. m + 1 \in 1..(m + 1)
      OBVIOUS
    <3> QED
      BY <1>6, <1>10, <3>1, <3>2, Zenon DEF NoEnd
  <2>12. HasRead(next, n + 1)
    BY <2>1, <2>3, <2>9, <2>10, <2>11, Zenon DEF HasRead
  <2> QED
    BY <1>4, <1>5, <2>8, <2>12, Zenon
<1> QED
  BY <1>1, <1>8, <1>9, <1>10

Splitting(iter, reader, buffer) ==
  iter = [s \in SUBSET (DOMAIN buffer) |->
            IF s = {} THEN reader ELSE Taken(iter[s \ {Max(s)}], buffer[Max(s)])]

LEMMA SplittingIsDefined ==
  ASSUME NEW buffer \in Seq(Parts), NEW shown \in Seq(Dispatches)
  PROVE  \E iter : /\ Splitting(iter, [rest |-> << >>, over |-> FALSE, shown |-> shown], buffer)
                   /\ Split(shown, buffer) = iter[DOMAIN buffer]
<1> DEFINE S == DOMAIN buffer
           base == [rest |-> << >>, over |-> FALSE, shown |-> shown]
           pick == [s \in SUBSET S |-> Max(s)]
           step == [p \in S \X Readers |-> Taken(p[2], buffer[p[1]])]
<1>1. S = 1..Len(buffer) /\ Len(buffer) \in Nat /\ IsFiniteSet(S)
  BY FS_Interval
<1>2. \A s \in SUBSET S : s # {} => Max(s) \in s
  <2> HIDE DEF S
  <2> QED
    BY <1>1, MaxIsIn
<1>3. \A i \in S, v \in Readers : Taken(v, buffer[i]) \in Readers
  <2>1. \A i \in S : buffer[i] \in Parts
    BY <1>1
  <2> HIDE DEF S
  <2> QED
    BY <2>1, TakenIsTyped
<1>4. /\ step \in [S \X Readers -> Readers]
      /\ \A i \in S, v \in Readers : step[<<i, v>>] = Taken(v, buffer[i])
  <2> HIDE DEF S
  <2> QED
    BY <1>3
<1>5. base \in Readers
  <2>1. << >> \in Seq(Parts) /\ FALSE \in BOOLEAN
    BY EmptySeq, Zenon
  <2> QED
    BY <2>1, Zenon DEF Readers
<1>6. PICK iter \in [SUBSET S -> Readers] : FoldsOver(iter, S, base, pick, step)
  <2>1. \A s \in SUBSET S : s # {} => pick[s] \in s
    BY <1>2
  <2> HIDE DEF S, pick, step, base
  <2> QED
    BY <1>1, <1>4, <1>5, <2>1, TypedFold
<1>7. Splitting(iter, base, buffer)
  <2>1. ASSUME NEW s \in SUBSET S, s # {}
        PROVE  iter[s] = Taken(iter[s \ {Max(s)}], buffer[Max(s)])
    <3>1. iter[s] = step[<<Max(s), iter[s \ {Max(s)}]>>]
      <4>1. pick[s] = Max(s)
        OBVIOUS
      <4> HIDE DEF S, pick, step, base
      <4> QED
        BY <1>6, <2>1, <4>1, Zenon DEF FoldsOver
    <3>2. Max(s) \in S /\ iter[s \ {Max(s)}] \in Readers
      <4> HIDE DEF S
      <4> QED
        BY <1>2, <2>1
    <3> HIDE DEF S, step
    <3> QED
      BY <1>4, <3>1, <3>2
  <2>2. iter[{}] = base /\ iter = [s \in SUBSET S |-> iter[s]]
    <3> HIDE DEF S, pick, step, base
    <3> QED
      BY <1>6 DEF FoldsOver
  <2>3. iter = [s \in SUBSET S |-> IF s = {} THEN base
                                   ELSE Taken(iter[s \ {Max(s)}], buffer[Max(s)])]
    <3> HIDE DEF S, base
    <3> QED
      BY <2>1, <2>2, Zenon
  <2> HIDE DEF base
  <2> QED
    BY <2>3, Zenon DEF Splitting
<1>8. PICK g : g = (CHOOSE h : Splitting(h, base, buffer))
  OBVIOUS
<1>9. Split(shown, buffer) = g[DOMAIN buffer]
  BY <1>8 DEF Split, FoldLeft, MapThenFoldSet, Splitting
<1>10. Splitting(g, base, buffer)
  <2> HIDE DEF base
  <2> QED
    BY <1>7, <1>8, Zenon
<1> QED
  BY <1>9, <1>10, Zenon

\* What is held of the stream, and a chunk of it, are read byte by byte.
LEMMA SplitReads ==
  ASSUME NEW k \in Nat, NEW w \in Nat, k + w <= 2 * Len(Sent), k % 2 = 0,
         NEW buffer \in Seq(Parts), Len(buffer) = w,
         \A i \in 1..w : buffer[i] = Bytes[k + i],
         NEW shown \in Seq(Dispatches), ShowsUpto(shown, k \div 2), NoEnd(k \div 2)
  PROVE  HasRead(Split(shown, buffer), k + w)
<1> DEFINE base == [rest |-> << >>, over |-> FALSE, shown |-> shown]
<1>1. PICK iter : Splitting(iter, base, buffer) /\ Split(shown, buffer) = iter[DOMAIN buffer]
  BY SplittingIsDefined, Zenon
<1>2. DOMAIN buffer = 1..w
  OBVIOUS
<1>3. HasRead(base, k)
  <2>1. << >> \in Seq(Parts) /\ FALSE \in BOOLEAN
    BY EmptySeq, Zenon
  <2>2. base \in Readers
    BY <2>1, Zenon DEF Readers
  <2>3. Partial(k) = << >>
    BY DEF Partial
  <2>4. base.rest = << >> /\ base.over = FALSE /\ base.shown = shown
    OBVIOUS
  <2> HIDE DEF base
  <2> QED
    BY <2>2, <2>3, <2>4, Zenon DEF HasRead
<1> HIDE DEF base
<1> DEFINE T == {t \in Nat : HasRead(iter[1..t], k + t)}
<1>4. 0 \in T
  <2>1. 1..0 = {} /\ k + 0 = k
    OBVIOUS
  <2>2. iter[{}] = base
    BY <1>1, Zenon DEF Splitting
  <2>3. HasRead(iter[1..0], k + 0)
    BY <1>3, <2>1, <2>2, Zenon
  <2> QED
    BY <2>3
<1>5. ASSUME NEW t \in 0..(w - 1), t \in T PROVE t + 1 \in T
  <2>1. /\ 1..(t + 1) \in SUBSET (1..w) /\ 1..(t + 1) # {} /\ t + 1 \in 1..w
        /\ t + 1 \in Nat \ {0} /\ k + t \in Nat /\ k + (t + 1) = (k + t) + 1
        /\ k + t < 2 * Len(Sent) /\ (t + 1) - 1 = t
    <3>1. t \in Nat /\ t + 1 \in 1..w /\ 1..(t + 1) # {} /\ t + 1 <= w
      BY OneFurther, Zenon
    <3>2. 1..(t + 1) \subseteq 1..w
      BY <3>1
    <3>3. PICK l \in Nat : l = 2 * Len(Sent)
      BY SentIs
    <3>4. k + t < l
      BY <3>1, <3>3
    <3> QED
      BY <3>1, <3>2, <3>3, <3>4
  <2>2. Max(1..(t + 1)) = t + 1 /\ (1..(t + 1)) \ {t + 1} = 1..t
    BY <2>1, MaxOfPrefix
  <2>3. iter[1..(t + 1)] = Taken(iter[1..t], buffer[t + 1])
    <3>1. PICK s \in SUBSET (DOMAIN buffer) : s = 1..(t + 1)
      BY <1>2, <2>1
    <3>2. s # {} /\ Max(s) = t + 1 /\ s \ {t + 1} = 1..t
      BY <2>1, <2>2, <3>1
    <3>3. iter[s] = Taken(iter[s \ {Max(s)}], buffer[Max(s)])
      BY <1>1, <3>2, Zenon DEF Splitting
    <3> QED
      BY <3>1, <3>2, <3>3, Zenon
  <2>4. buffer[t + 1] = Bytes[(k + t) + 1]
    <3>1. buffer[t + 1] = Bytes[k + (t + 1)]
      BY <2>1, Zenon
    <3> QED
      BY <2>1, <3>1, Zenon
  <2>5. HasRead(iter[1..t], k + t)
    BY <1>5
  <2>6. HasRead(iter[1..(t + 1)], (k + t) + 1)
    <3>1. PICK n \in Nat : n = k + t
      BY <2>1
    <3>2. PICK reader : reader = iter[1..t]
      OBVIOUS
    <3>3. n < 2 * Len(Sent) /\ HasRead(reader, n)
      BY <2>1, <2>5, <3>1, <3>2, Zenon
    <3>4. HasRead(Taken(reader, Bytes[n + 1]), n + 1)
      BY <3>3, TakenReads, Zenon
    <3> QED
      BY <2>3, <2>4, <3>1, <3>2, <3>4, Zenon
  <2> QED
    BY <2>1, <2>6
<1>6. w \in T
  <2>1. 0..w \subseteq T
    <3> HIDE DEF T
    <3> QED
      BY <1>4, <1>5, BoundedInduction
  <2> HIDE DEF T
  <2> QED
    BY <2>1
<1>7. HasRead(iter[1..w], k + w)
  BY <1>6
<1> QED
  BY <1>1, <1>2, <1>7, Zenon

(***************************************************************************)
(* The inductive invariant: what has been shown in every slot is what was  *)
(* due of the bytes read there; a stream that is being read has met no     *)
(* "end" and holds the head of the frame it is in, if any; and a request   *)
(* that has yet to become a stream has read nothing.                       *)
(***************************************************************************)

Early == {"identify", "body", "first", "second", "opening"}

PipeOK(p, stage) ==
  /\ p.read \in 0..(2 * Len(Sent)) /\ p.shown \in Seq(Dispatches)
  /\ ShowsUpto(p.shown, p.read \div 2)
  /\ stage \in Early => p = NothingRead
  /\ stage = "streaming" => NoEnd(p.read \div 2) /\ p.buffer = Partial(p.read)

PipesOK ==
  /\ pipe = [s \in Slots |-> pipe[s]]
  /\ \A s \in Slots : PipeOK(pipe[s], req[s].stage)

LEMMA BytesAreParts ==
  /\ Bytes \in Seq(Parts) /\ Len(Bytes) = 2 * Len(Sent) /\ Len(Sent) \in Nat
<1>1. PICK l \in Nat : l = 2 * Len(Sent)
  BY SentIs
<1>2. ASSUME NEW b \in 1..l PROVE Bytes[b] \in Parts
  <2>1. b - 1 \in Nat
    OBVIOUS
  <2>2. PICK m \in Nat : b - 1 = 2 * m \/ b - 1 = 2 * m + 1
    BY <2>1, Twos, Zenon
  <2>3. (b = 2 * m + 1 \/ b = 2 * m + 2) /\ m < Len(Sent) /\ m + 1 \in 1..Len(Sent)
    BY <1>1, <2>2, SentIs
  <2>4. Bytes[b] = <<m + 1, "head">> \/ Bytes[b] = <<m + 1, "tail">>
    BY <2>3, BytesAre, Zenon
  <2>5. <<m + 1, "head">> \in Parts /\ <<m + 1, "tail">> \in Parts
    BY <2>3 DEF Parts
  <2> QED
    BY <2>4, <2>5, Zenon
<1>3. Bytes = [b \in 1..l |-> Bytes[b]]
  BY <1>1, Zenon DEF Bytes
<1>4. PICK f \in [1..l -> Parts] : f = Bytes
  BY <1>2, <1>3
<1>5. f \in Seq(Parts) /\ Len(f) = l
  OBVIOUS
<1> QED
  BY <1>1, <1>4, <1>5, SentIs, Zenon

\* A request that has read nothing is as it should be, at any stage.
LEMMA NothingReadOK == ASSUME NEW stage PROVE PipeOK(NothingRead, stage)
<1>1. NothingRead.read = 0 /\ NothingRead.buffer = << >> /\ NothingRead.shown = << >>
  BY DEF NothingRead
<1>2. 0 \div 2 = 0 /\ Partial(0) = << >>
  BY DEF Partial
<1>3. NoEnd(0) /\ Due(0) = {}
  <2>1. 1..0 = {}
    OBVIOUS
  <2> QED
    BY <2>1, Zenon DEF NoEnd, Due
<1>4. << >> \in Seq(Dispatches)
  BY EmptySeq, Zenon
<1>5. 0 \in 0..(2 * Len(Sent))
  BY SentIs
<1>6. ShowsUpto(<< >>, 0)
  <2>1. DOMAIN << >> = {}
    OBVIOUS
  <2> QED
    BY <1>3, <2>1, Zenon DEF ShowsUpto
<1> QED
  BY <1>1, <1>2, <1>3, <1>4, <1>5, <1>6, Zenon DEF PipeOK

LEMMA SubSeqIs ==
  ASSUME NEW S, NEW s \in Seq(S), NEW a \in Nat, NEW b \in Nat, a + b <= Len(s)
  PROVE  /\ SubSeq(s, a + 1, a + b) \in Seq(S) /\ Len(SubSeq(s, a + 1, a + b)) = b
         /\ \A i \in 1..b : SubSeq(s, a + 1, a + b)[i] = s[a + i]
<1>1. PICK m \in Int, n \in Int : m = a + 1 /\ n = a + b
  OBVIOUS
<1>2. /\ \A i \in m..n : i \in 1..Len(s)
      /\ n - m + 1 = b /\ (m > n => b = 0)
      /\ \A i \in 1..b : m + i - 1 = a + i
  BY <1>1, LenProperties
<1>3. \A i \in m..n : s[i] \in S
  BY <1>2, ElementOfSeq
<1>4. PICK sub : sub = SubSeq(s, m, n)
  OBVIOUS
<1>5. /\ sub \in Seq(S)
      /\ Len(sub) = IF m <= n THEN n - m + 1 ELSE 0
      /\ \A i \in 1..(n - m + 1) : sub[i] = s[m + i - 1]
  BY <1>3, <1>4, SubSeqProperties
<1>6. Len(sub) = b
  BY <1>2, <1>5
<1>7. \A i \in 1..b : sub[i] = s[a + i]
  BY <1>2, <1>5, Zenon
<1> QED
  BY <1>1, <1>4, <1>5, <1>6, <1>7, Zenon

\* A chunk of any size is read.
LEMMA ChunkIsRead ==
  ASSUME NEW p, PipeOK(p, "streaming"), NEW n \in 1..(Len(Bytes) - p.read),
         NEW reader,
         reader = Split(p.shown, Grown(p.buffer, SubSeq(Bytes, p.read + 1, p.read + n)))
  PROVE  p.read + n \in 0..(2 * Len(Sent)) /\ HasRead(reader, p.read + n)
<1>1. PICK l \in Nat : l = 2 * Len(Sent) /\ Len(Bytes) = l
  BY BytesAreParts
<1>2. PICK r \in 0..l : r = p.read
  BY <1>1 DEF PipeOK
<1>3. /\ p.shown \in Seq(Dispatches) /\ ShowsUpto(p.shown, r \div 2)
      /\ NoEnd(r \div 2) /\ p.buffer = Partial(r)
  BY <1>2, Zenon DEF PipeOK
<1>4. n \in 1..(l - r)
  BY <1>1, <1>2, Zenon
<1>5. r \in Nat /\ n \in Nat /\ r + n \in 0..l /\ r + 1 \in 1..(l + 1) /\ r + 1 <= r + n
  BY <1>4
<1>6. PICK chunk : chunk = SubSeq(Bytes, r + 1, r + n)
  OBVIOUS
<1>7. /\ chunk \in Seq(Parts) /\ Len(chunk) = n
      /\ \A i \in 1..n : chunk[i] = Bytes[r + i]
  <2>1. PICK bytes \in Seq(Parts) : bytes = Bytes /\ Len(bytes) = l
    BY <1>1, BytesAreParts
  <2>2. chunk = SubSeq(bytes, r + 1, r + n)
    BY <1>6, <2>1, Zenon
  <2>3. r + n <= Len(bytes)
    BY <1>5, <2>1
  <2>4. /\ SubSeq(bytes, r + 1, r + n) \in Seq(Parts) /\ Len(SubSeq(bytes, r + 1, r + n)) = n
        /\ \A i \in 1..n : SubSeq(bytes, r + 1, r + n)[i] = bytes[r + i]
    <3>1. r \in Nat /\ n \in Nat
      BY <1>5
    <3> QED
      BY <2>3, <3>1, SubSeqIs
  <2> QED
    BY <2>1, <2>2, <2>4, Zenon
<1>8. PICK m \in Nat : \/ r = 2 * m /\ r \div 2 = m /\ r % 2 = 0
                       \/ r = 2 * m + 1 /\ r \div 2 = m /\ r % 2 = 1
                          /\ (r + 1) \div 2 = m + 1
  BY <1>5, Twos, Zenon
<1>9. PICK k \in Nat : k = 2 * m
  OBVIOUS
<1>10. k % 2 = 0 /\ k \div 2 = m /\ r \div 2 = m
  BY <1>8, <1>9
<1>11. PICK held : held = Grown(p.buffer, chunk)
  OBVIOUS
<1>12. PICK w \in Nat : /\ k + w = r + n /\ held \in Seq(Parts) /\ Len(held) = w
                        /\ \A i \in 1..w : held[i] = Bytes[k + i]
  <2>1. CASE r = 2 * m
    <3>1. p.buffer = << >>
      BY <1>3, <1>8, <2>1 DEF Partial
    <3>2. held = << >> \o chunk
      BY <1>11, <3>1, Zenon DEF Grown
    <3>3. held = chunk
      BY <1>7, <3>2, ConcatEmptySeq
    <3> QED
      BY <1>5, <1>7, <1>9, <2>1, <3>3, Zenon
  <2>2. CASE r = 2 * m + 1
    <3>1. (r + 1) \div 2 = m + 1 /\ r % 2 = 1 /\ n + 1 \in Nat /\ k + (n + 1) = r + n
      BY <1>5, <1>8, <1>9, <2>2
    <3>2. m < Len(Sent) /\ m + 1 \in 1..Len(Sent)
      BY <1>1, <1>2, <2>2, SentIs
    <3>3. PICK head \in Parts : head = <<m + 1, "head">>
      BY <3>2 DEF Parts
    <3>4. head = Bytes[k + 1]
      BY <1>9, <3>2, <3>3, BytesAre, Zenon
    <3>5. p.buffer = <<head>>
      BY <1>3, <3>1, <3>3, Zenon DEF Partial
    <3>6. held = <<head>> \o chunk
      BY <1>11, <3>5, Zenon DEF Grown
    <3>7. held \in Seq(Parts) /\ Len(held) = n + 1 /\ held[1] = head
          /\ \A i \in 1..n : held[i + 1] = chunk[i]
      <4>1. PICK one \in Seq(Parts) : one = <<head>> /\ Len(one) = 1 /\ one[1] = head
        <5>1. <<head>> \in Seq(Parts) /\ Len(<<head>>) = 1 /\ <<head>>[1] = head
          OBVIOUS
        <5> QED
          BY <5>1, Zenon
      <4>2. /\ held \in Seq(Parts) /\ Len(held) = Len(one) + Len(chunk)
            /\ \A i \in 1..(Len(one) + Len(chunk)) :
                 held[i] = IF i <= Len(one) THEN one[i] ELSE chunk[i - Len(one)]
        <5>1. held = one \o chunk
          BY <3>6, <4>1, Zenon
        <5>2. PICK next \in Seq(Parts) : next = chunk
          BY <1>7, Zenon
        <5>3. /\ one \o next \in Seq(Parts) /\ Len(one \o next) = Len(one) + Len(next)
              /\ \A i \in 1..(Len(one) + Len(next)) :
                   (one \o next)[i] = IF i <= Len(one) THEN one[i] ELSE next[i - Len(one)]
          BY ConcatProperties
        <5> QED
          BY <5>1, <5>2, <5>3, Zenon
      <4>3. Len(held) = n + 1
        BY <1>5, <1>7, <4>1, <4>2
      <4>4. held[1] = head
        <5>1. 1 \in 1..(1 + n) /\ 1 <= 1
          BY <1>5
        <5> QED
          BY <1>7, <4>1, <4>2, <5>1, Zenon
      <4>5. ASSUME NEW i \in 1..n PROVE held[i + 1] = chunk[i]
        <5>1. i + 1 \in 1..(1 + n) /\ ~ (i + 1 <= 1) /\ (i + 1) - 1 = i
          BY <1>5
        <5> QED
          BY <1>7, <4>1, <4>2, <5>1, Zenon
      <4> QED
        BY <4>2, <4>3, <4>4, <4>5
    <3>8. ASSUME NEW i \in 1..(n + 1) PROVE held[i] = Bytes[k + i]
      <4>1. CASE i = 1
        BY <3>4, <3>7, <4>1, Zenon
      <4>2. CASE i # 1
        <5>1. PICK j \in 1..n : i = j + 1 /\ k + i = r + j
          <6>1. i - 1 \in 1..n /\ i = (i - 1) + 1 /\ k + i = r + (i - 1)
            BY <1>5, <1>9, <2>2, <4>2
          <6> QED
            BY <6>1, Zenon
        <5> QED
          BY <1>7, <3>7, <5>1, Zenon
      <4> QED
        BY <4>1, <4>2
    <3> QED
      BY <3>1, <3>7, <3>8, Zenon
  <2> QED
    BY <1>8, <2>1, <2>2
<1>13. reader = Split(p.shown, held)
  BY <1>2, <1>6, <1>11, Zenon
<1>14. k + w <= 2 * Len(Sent)
  BY <1>1, <1>5, <1>12
<1>15. HasRead(reader, k + w)
  BY <1>3, <1>10, <1>12, <1>13, <1>14, SplitReads, Zenon
<1> QED
  BY <1>1, <1>2, <1>5, <1>12, <1>15, Zenon

-----------------------------------------------------------------------------
(* The steps.  But for the arrival of a request and the reading of a chunk *)
(* they leave the pipes alone, and take a request further on or end it.    *)

Onward(from, to) == to \in {from, "answered"} \/ (from \in Early /\ to \in Early \cup {"streaming"})

LEMMA OnwardOK ==
  ASSUME NEW p, NEW from, NEW to, PipeOK(p, from), Onward(from, to)
  PROVE  PipeOK(p, to)
<1>1. CASE to = from
  BY <1>1
<1>2. CASE to = "answered"
  BY <1>2, Zenon DEF PipeOK, Early
<1>3. CASE from \in Early
  BY <1>3, NothingReadOK, Zenon DEF PipeOK
<1> QED
  BY <1>1, <1>2, <1>3, Zenon DEF Onward

\* Where the helpers of the handlers take a request.
LEMMA StagesAhead ==
  ASSUME NEW r \in Calls
  PROVE  /\ Forwarded(r).stage \in {"first", "opening", "answered"}
         /\ Past(r).stage \in {"body", "first", "opening", "answered"}
         /\ Identifying(r).stage = "identify"
         /\ \A what : Answered(r, what).stage = "answered"
<1>1. \A what : Answered(r, what).stage = "answered"
  BY DEF Answered, Idle
<1>2. Forwarded(r).stage \in {"first", "opening", "answered"}
  BY <1>1 DEF Forwarded, Calls
<1>3. Past(r).stage \in {"body", "first", "opening", "answered"}
  BY <1>1, <1>2 DEF Past, Calls
<1>4. Identifying(r).stage = "identify"
  BY DEF Identifying, Calls
<1> QED
  BY <1>1, <1>2, <1>3, <1>4

\* A request goes on; the pipes stand.
LEMMA GoesOn ==
  ASSUME CallsOK, PipesOK, pipe' = pipe, NEW s \in Slots, NEW r, Set(s, r),
         Onward(req[s].stage, r.stage)
  PROVE  PipesOK'
<1>1. ASSUME NEW x \in Slots PROVE Onward(req[x].stage, req'[x].stage)
  <2>1. CASE x = s
    <3>1. req'[x] = r
      BY <2>1 DEF CallsOK, Set
    <3> QED
      BY <2>1, <3>1, Zenon
  <2>2. CASE x # s
    <3>1. req'[x] = req[x]
      BY <2>2 DEF CallsOK, Set
    <3> QED
      BY <3>1, Zenon DEF Onward
  <2> QED
    BY <2>1, <2>2
<1>2. \A x \in Slots : PipeOK(pipe[x], req'[x].stage)
  BY <1>1, OnwardOK, Zenon DEF PipesOK
<1> QED
  BY <1>2, Zenon DEF PipesOK

LEMMA PipesStand == ASSUME PipesOK, pipe' = pipe, req' = req PROVE PipesOK'
BY Zenon DEF PipesOK

LEMMA IdentifiedKeepsPipes ==
  ASSUME CallsOK, PipesOK, NEW s \in Slots, NEW caller, Identified(s, caller)
  PROVE  PipesOK'
<1>1. PICK r \in Calls : r = req[s] /\ r.stage = "identify"
  BY DEF CallsOK, CallOK, Identified, At
<1>2. \E next : /\ Set(s, next)
                /\ next = Forwarded(r) \/ next = Past(r) \/ \E what : next = Answered(r, what)
  BY <1>1 DEF Identified, Refuse, Charge
<1>3. PICK next : Set(s, next) /\ next.stage \in {"body", "first", "opening", "answered"}
  <2>1. \A stage : stage \in {"first", "opening", "answered"} =>
                    stage \in {"body", "first", "opening", "answered"}
    OBVIOUS
  <2>2. "answered" \in {"body", "first", "opening", "answered"}
    OBVIOUS
  <2> QED
    BY <1>2, <2>1, <2>2, StagesAhead, Zenon
<1>4. Onward(req[s].stage, next.stage)
  BY <1>1, <1>3 DEF Onward, Early
<1>5. pipe' = pipe
  BY DEF Identified
<1> QED
  BY <1>3, <1>4, <1>5, GoesOn

LEMMA AnswersKeepPipes ==
  ASSUME CallsOK, PipesOK, NEW s \in Slots,
         \/ \E what \in {"whole", "malformed", "too large"} : BodyRead(s, what)
         \/ \E what \in {"ok", "empty", "refused"} : FirstAnswered(s, what)
         \/ \E good \in BOOLEAN : SecondAnswered(s, good)
         \/ \E verdict \in {"done", "refused"} : HandshakeAnswered(s, verdict)
  PROVE  PipesOK'
<1>1. PICK r \in Calls : r = req[s]
  BY DEF CallsOK, CallOK
<1>2. pipe' = pipe
  BY DEF BodyRead, FirstAnswered, SecondAnswered, HandshakeAnswered
<1>3. ASSUME NEW what, BodyRead(s, what) PROVE PipesOK'
  <2>1. PICK next : /\ Set(s, next) /\ r.stage = "body"
                    /\ next = Forwarded(r) \/ next = Answered(r, what)
    BY <1>1, <1>3 DEF BodyRead, At
  <2>2. next.stage \in {"first", "opening"} \/ next.stage = "answered"
    <3>1. \A stage : stage \in {"first", "opening", "answered"} =>
                      stage \in {"first", "opening"} \/ stage = "answered"
      OBVIOUS
    <3> QED
      BY <2>1, <3>1, StagesAhead, Zenon
  <2>3. Onward(r.stage, next.stage)
    BY <2>1, <2>2 DEF Onward, Early
  <2> QED
    BY <1>1, <1>2, <2>1, <2>3, GoesOn
<1>4. ASSUME NEW what, FirstAnswered(s, what) PROVE PipesOK'
  <2>1. PICK second : second = [r EXCEPT !.stage = "second", !.left = UpstreamDeadline,
                                         !.payload = what]
    OBVIOUS
  <2>2. second.stage = "second"
    BY <2>1 DEF Calls
  <2>3. PICK next : /\ Set(s, next) /\ r.stage = "first"
                    /\ next = second \/ next = Answered(r, what)
    BY <1>1, <1>4, <2>1 DEF FirstAnswered, At
  <2>4. next.stage = "second" \/ next.stage = "answered"
    BY <2>2, <2>3, StagesAhead, Zenon
  <2>5. Onward(r.stage, next.stage)
    BY <2>3, <2>4 DEF Onward, Early
  <2> QED
    BY <1>1, <1>2, <2>3, <2>5, GoesOn
<1>5. ASSUME NEW good, SecondAnswered(s, good) PROVE PipesOK'
  <2>1. Set(s, Completed(r, good))
    BY <1>1, <1>5 DEF SecondAnswered
  <2>2. Completed(r, good).stage = "answered"
    BY StagesAhead DEF Completed
  <2>3. Onward(r.stage, Completed(r, good).stage)
    BY <2>2 DEF Onward
  <2> QED
    BY <1>1, <1>2, <2>1, <2>3, GoesOn
<1>6. ASSUME NEW verdict, HandshakeAnswered(s, verdict) PROVE PipesOK'
  <2>1. PICK open : open = [r EXCEPT !.stage = "streaming", !.left = 0]
    OBVIOUS
  <2>2. open.stage = "streaming"
    BY <2>1 DEF Calls
  <2>3. PICK next : /\ Set(s, next) /\ r.stage = "opening"
                    /\ next = open \/ next = Answered(r, "refused")
    BY <1>1, <1>6, <2>1 DEF HandshakeAnswered, At
  <2>4. next.stage = "streaming" \/ next.stage = "answered"
    BY <2>2, <2>3, StagesAhead, Zenon
  <2>5. Onward(r.stage, next.stage)
    BY <2>3, <2>4 DEF Onward, Early
  <2> QED
    BY <1>1, <1>2, <2>3, <2>5, GoesOn
<1> QED
  BY <1>3, <1>4, <1>5, <1>6

LEMMA EndsKeepPipes ==
  ASSUME CallsOK, PipesOK, NEW s \in Slots, NEW what, Set(s, Answered(req[s], what)), pipe' = pipe
  PROVE  PipesOK'
<1>1. req[s] \in Calls
  BY DEF CallsOK, CallOK
<1>2. Onward(req[s].stage, Answered(req[s], what).stage)
  BY <1>1, StagesAhead, Zenon DEF Onward
<1> QED
  BY <1>2, GoesOn

LEMMA LeaveKeepsPipes == ASSUME CallsOK, PipesOK, NEW s \in Slots, Leave(s) PROVE PipesOK'
<1>1. PICK r : r = [req[s] EXCEPT !.gone = TRUE]
  OBVIOUS
<1>2. r \in Calls /\ r.stage = req[s].stage
  BY <1>1 DEF CallsOK, CallOK, Calls
<1>3. PICK next : /\ Set(s, next)
                  /\ \/ \E what : next = Answered(r, what)
                     \/ next = Forwarded(r) /\ r.stage = "body"
                     \/ next = r
  BY <1>1 DEF Leave
<1>4. Onward(r.stage, next.stage)
  BY <1>2, <1>3, StagesAhead DEF Onward, Early
<1>5. pipe' = pipe
  BY DEF Leave
<1> QED
  BY <1>2, <1>3, <1>4, <1>5, GoesOn, Zenon

LEMMA TickKeepsPipes == ASSUME CallsOK, PipesOK, Tick PROVE PipesOK'
<1>1. pipe' = pipe
  BY DEF Tick
<1>2. \A s \in Slots : req'[s].stage = req[s].stage
  BY DEF Tick, CallsOK, CallOK, Calls
<1> QED
  BY <1>1, <1>2, Zenon DEF PipesOK

LEMMA AskKeepsPipes ==
  ASSUME CallsOK, PipesOK, NEW s \in Slots, NEW route, NEW v, NEW ok, Ask(s, route, v, ok)
  PROVE  PipesOK'
<1>1. \A x \in Slots : x # s => req'[x] = req[x]
  BY DEF Ask, Refuse, Charge, Set, CallsOK
<1>2. PICK fresh : fresh = NothingRead
  OBVIOUS
<1>3. pipe' = [pipe EXCEPT ![s] = fresh]
  BY <1>2, Zenon DEF Ask
<1>4. /\ pipe' = [x \in Slots |-> pipe'[x]] /\ pipe'[s] = fresh
      /\ \A x \in Slots : x # s => pipe'[x] = pipe[x]
  BY <1>3 DEF PipesOK
<1>5. PipeOK(pipe'[s], req'[s].stage)
  BY <1>2, <1>4, NothingReadOK, Zenon
<1>6. \A x \in Slots : x # s => PipeOK(pipe'[x], req'[x].stage)
  BY <1>1, <1>4, Zenon DEF PipesOK
<1> QED
  BY <1>4, <1>5, <1>6, Zenon DEF PipesOK

LEMMA ReadChunkKeepsPipes ==
  ASSUME CallsOK, PipesOK, NEW s \in Slots, NEW n \in 1..(Len(Bytes) - pipe[s].read), ReadChunk(s, n)
  PROVE  PipesOK'
<1>1. PICK p : p = pipe[s]
  OBVIOUS
<1>2. PICK reader : reader = Split(p.shown, Grown(p.buffer, SubSeq(Bytes, p.read + 1, p.read + n)))
  OBVIOUS
<1>3. /\ req[s].stage = "streaming"
      /\ pipe' = [pipe EXCEPT ![s] = [read |-> p.read + n, buffer |-> reader.rest,
                                       shown |-> reader.shown]]
      /\ IF reader.over THEN Set(s, Answered(req[s], "ok")) ELSE req' = req
  BY <1>1, <1>2, Zenon DEF ReadChunk, At
<1>4. PipeOK(p, "streaming")
  BY <1>1, <1>3, Zenon DEF PipesOK
<1>5. p.read + n \in 0..(2 * Len(Sent)) /\ HasRead(reader, p.read + n)
  BY <1>1, <1>2, <1>4, ChunkIsRead, Zenon
<1>6. PICK q : q = [read |-> p.read + n, buffer |-> reader.rest, shown |-> reader.shown]
  OBVIOUS
<1>7. q.read = p.read + n /\ q.buffer = reader.rest /\ q.shown = reader.shown
  BY <1>6
<1>8. PICK stage : stage = IF reader.over THEN "answered" ELSE "streaming"
  OBVIOUS
<1>9. reader.shown \in Seq(Dispatches)
  BY <1>5 DEF HasRead, Readers
<1>10. PipeOK(q, stage)
  <2>1. stage \notin Early /\ (stage = "streaming" => ~ reader.over)
    BY <1>8 DEF Early
  <2> QED
    BY <1>5, <1>7, <1>9, <2>1, Zenon DEF PipeOK, HasRead
<1>11. /\ pipe' = [x \in Slots |-> pipe'[x]] /\ pipe'[s] = q
       /\ \A x \in Slots : x # s => pipe'[x] = pipe[x]
  <2>1. pipe' = [pipe EXCEPT ![s] = q]
    BY <1>3, <1>6, Zenon
  <2> QED
    BY <2>1 DEF PipesOK
<1>12. req'[s].stage = stage /\ \A x \in Slots : x # s => req'[x] = req[x]
  <2>1. CASE reader.over
    <3>1. Answered(req[s], "ok").stage = "answered"
      BY StagesAhead DEF CallsOK, CallOK
    <3>2. PICK next : next = Answered(req[s], "ok")
      OBVIOUS
    <3>3. req' = [req EXCEPT ![s] = next]
      BY <1>3, <2>1, <3>2, Zenon DEF Set
    <3>4. req'[s] = next /\ \A x \in Slots : x # s => req'[x] = req[x]
      BY <3>3 DEF CallsOK
    <3> QED
      BY <1>8, <2>1, <3>1, <3>2, <3>4, Zenon
  <2>2. CASE ~ reader.over
    BY <1>3, <1>8, <2>2, Zenon
  <2> QED
    BY <2>1, <2>2
<1>13. PipeOK(pipe'[s], req'[s].stage)
  BY <1>10, <1>11, <1>12, Zenon
<1>14. \A x \in Slots : x # s => PipeOK(pipe'[x], req'[x].stage)
  BY <1>11, <1>12, Zenon DEF PipesOK
<1> QED
  BY <1>11, <1>13, <1>14, Zenon DEF PipesOK

LEMMA PipesStep == GatewayInv /\ PipesOK /\ [Next]_gatewayVars => PipesOK'
<1> SUFFICES ASSUME GatewayInv, PipesOK, [Next]_gatewayVars PROVE PipesOK'
  OBVIOUS
<1>0. CallsOK
  BY DEF GatewayInv
<1>1. ASSUME NEW s \in Slots, Handled(s) PROVE PipesOK'
  <2>1. CASE \E caller : Identified(s, caller)
    BY <1>0, <2>1, IdentifiedKeepsPipes
  <2>2. CASE TimesOut(s)
    <3>1. CASE Set(s, Answered(req[s], "unavailable")) /\ pipe' = pipe
      BY <1>0, <3>1, EndsKeepPipes
    <3>2. CASE SecondAnswered(s, FALSE)
      BY <1>0, <3>2, AnswersKeepPipes
    <3> QED
      BY <2>1, <2>2, <3>1, <3>2 DEF TimesOut
  <2> QED
    BY <1>0, <1>1, <2>1, <2>2, AnswersKeepPipes DEF Handled
<1>2. ASSUME NEW s \in Slots, Elsewhere(s) PROVE PipesOK'
  <2>1. CASE \E n \in 1..(Len(Bytes) - pipe[s].read) : ReadChunk(s, n)
    BY <1>0, <2>1, ReadChunkKeepsPipes
  <2>2. CASE Dropped(s)
    BY <1>0, <2>2, EndsKeepPipes DEF Dropped
  <2>3. CASE Leave(s)
    BY <1>0, <2>3, LeaveKeepsPipes
  <2> QED
    BY <1>2, <2>1, <2>2, <2>3 DEF Elsewhere
<1>3. CASE Arrives
  BY <1>0, <1>3, AskKeepsPipes DEF Arrives
<1>4. CASE Tick
  BY <1>0, <1>4, TickKeepsPipes
<1>5. CASE UNCHANGED gatewayVars
  BY <1>5, PipesStand DEF gatewayVars
<1> QED
  BY <1>1, <1>2, <1>3, <1>4, <1>5 DEF Next

\* The browser is shown every readable frame it has read whole, in order and up to
\* "end", whatever the frames are and wherever the chunks are cut (live-client.ts,
\* streamRankedLaunch).
THEOREM FramesAreWhole == GatewaySpec => []FramesArriveWhole
<1>1. Init => PipesOK
  <2> SUFFICES ASSUME Init PROVE PipesOK
    OBVIOUS
  <2>1. PICK fresh : fresh = NothingRead
    OBVIOUS
  <2>2. pipe = [s \in Slots |-> fresh]
    BY <2>1, Zenon DEF Init
  <2>3. pipe = [s \in Slots |-> pipe[s]] /\ \A s \in Slots : pipe[s] = fresh
    BY <2>2
  <2> QED
    BY <2>1, <2>3, NothingReadOK, Zenon DEF PipesOK
<1>2. PipesOK => FramesArriveWhole
  BY Zenon DEF PipesOK, PipeOK, ShowsUpto, Due, NoEnd, FramesArriveWhole
<1> QED
  BY <1>1, <1>2, PipesStep, GatewayInvariant, PTL DEF GatewaySpec

=============================================================================

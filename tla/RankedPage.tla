----------------------------- MODULE RankedPage -----------------------------
(***************************************************************************)
(* The ranked surface of the cluster workbench: the launch of a match as   *)
(* the hook useRankedLaunch follows it over one streaming connection, its  *)
(* hand-off to the page, and the screens between them.                     *)
(*                                                                         *)
(* The launch itself advances on the platform, and only while a stream is  *)
(* open (the orchestrator of RankedLaunch in outline).  A stream slot      *)
(* holds both ends of one connection: what the platform has sent, the      *)
(* frame in transit, and what the hook has taken from it.                  *)
(*                                                                         *)
(* The page's own requests are single steps here, each reading or changing *)
(* the cluster when it lands: ClusterRun is where they cross.              *)
(***************************************************************************)
EXTENDS Naturals, FiniteSets

CONSTANTS
  Streams,      \* slots for connections
  MaxDrops,     \* bound: connections the network breaks in a behaviour
  MaxGen        \* bound: clusters created in a behaviour

ASSUME RankedBounds == MaxDrops \in Nat /\ MaxGen \in Nat \ {0}   \* a cluster may already exist

VARIABLES
  arena,        \* the operator's cluster and the launch it carries
  page,         \* what useClusterRun holds and shows
  client,       \* the state and refs of useRankedLaunch, and the match it saw
  streams,      \* the connections
  cancelling,   \* the cancel request
  drops,        \* ghost: connections broken so far
  outcome       \* ghost: "cancelling" and then "refused" or "closed", as the cancel
                \*   goes; "closed" too once the launch is lost or its match ended;
                \*   "open" again when a launch is read, started or retried

vars == <<arena, page, client, streams, cancelling, drops, outcome>>
hookVars == <<client, streams, cancelling, drops, outcome>>

-----------------------------------------------------------------------------

LaunchPhases == {"none", "going", "failed", "active"}
Verbs == {"resume", "start", "retry"}
Terminal == {"failed", "active"}
NoLaunch == "none"

\* What the page shows of a cluster: none, one with no drill, one with a practice
\* drill, a ranked match undecided, a ranked match decided.
Shown == {"nothing", "idle", "practice", "match", "decided"}

IdleStream == [st |-> "idle", verb |-> "resume", mine |-> FALSE, byHand |-> FALSE,
               sent |-> NoLaunch, frame |-> NoLaunch, latest |-> NoLaunch, end |-> "open"]

RankedTypeOK ==
  /\ arena \in [life: {"absent", "live", "deleting"}, gen: 0..MaxGen,
                drill: Shown \ {"nothing"}, launch: LaunchPhases]
  /\ page \in [booted: BOOLEAN, attached: BOOLEAN, run: Shown]
  /\ client \in [launch: LaunchPhases, read: {"off", "sent", "none", "done"} \cup LaunchPhases,
                 advancing: BOOLEAN, error: BOOLEAN, handedOff: BOOLEAN,
                 timer: BOOLEAN, match: BOOLEAN]
  /\ streams \in [Streams -> [st: {"idle", "sent", "open", "ended"}, verb: Verbs,
                              mine: BOOLEAN, byHand: BOOLEAN, sent: LaunchPhases,
                              frame: LaunchPhases, latest: LaunchPhases,
                              end: {"open", "done", "gone", "error"}]]
  /\ cancelling \in {"no", "sent", "ok", "error"}
  /\ drops \in 0..MaxDrops
  /\ outcome \in {"open", "cancelling", "closed", "refused"}

Checking == client.read # "done"
NoDrill == page.run \in {"nothing", "idle"}

\* What the workbench draws, in the order of its early returns.
Screen ==
  IF ~page.booted THEN "booting"
  ELSE IF Checking /\ NoDrill THEN "checking"
  ELSE IF \/ client.launch # NoLaunch /\ (client.launch # "active" \/ NoDrill)
          \/ client.advancing /\ client.launch = NoLaunch THEN "launch"
  ELSE IF NoDrill THEN "hub"
  ELSE IF page.run = "practice" THEN "mismatch"
  ELSE IF page.run = "decided" THEN "result"
  ELSE "arena"

-----------------------------------------------------------------------------
(* The cluster and the page's reads of it                                   *)

Created == [life |-> "live", gen |-> arena.gen + 1, drill |-> "idle", launch |-> NoLaunch]
Doomed == [arena EXCEPT !.life = "deleting", !.drill = "idle", !.launch = NoLaunch]
Ended  == [arena EXCEPT !.drill = "idle", !.launch = NoLaunch]

Release(p) == [p EXCEPT !.attached = FALSE, !.run = "nothing"]
\* One snapshot of the cluster, or the news that it is gone.
Refreshed(p) == IF arena.life = "live" THEN [p EXCEPT !.run = arena.drill] ELSE Release(p)
\* attach: hold the cluster, read it, and go on polling; a first read that
\* fails is swallowed.
Attached(p) == {[p EXCEPT !.attached = TRUE], Refreshed([p EXCEPT !.attached = TRUE])}

Boot ==
  /\ ~page.booted
  /\ page' \in {[p EXCEPT !.booted = TRUE] :
                 p \in IF arena.life = "live" THEN Attached(page) ELSE {page}}
  /\ UNCHANGED <<arena, hookVars>>

Snapshot ==
  /\ page.attached
  /\ page' = Refreshed(page)
  /\ UNCHANGED <<arena, hookVars>>

\* The judge, the reaper, and another tab of the operator: it may play a practice
\* drill here, end what runs, or tear the cluster down.
World ==
  /\ \/ arena.drill = "match" /\ arena' = [arena EXCEPT !.drill = "decided"]
     \/ arena.life = "live" /\ arena' = Doomed
     \/ arena.life = "live" /\ arena.drill # "idle" /\ arena' = Ended
     \/ arena.life = "live" /\ arena.drill = "idle" /\ arena' = [arena EXCEPT !.drill = "practice"]
     \/ arena.life = "deleting" /\ arena' = [arena EXCEPT !.life = "absent"]
  /\ UNCHANGED <<page, hookVars>>

-----------------------------------------------------------------------------
(* The connection                                                           *)

\* closeStream: every stream so far is superseded, and no reconnect is pending.
NotSuperseded == streams
Superseded == [s \in Streams |-> [streams[s] EXCEPT !.mine = FALSE]]

\* drive: supersede, connect, and send the verb with this first request only.
Drive(s, verb, byHand) ==
  /\ streams[s].st = "idle"
  /\ streams' = [Superseded EXCEPT ![s] = [IdleStream EXCEPT !.st = "sent", !.verb = verb,
                                             !.mine = TRUE, !.byHand = byHand]]
  /\ client' = [client EXCEPT !.advancing = TRUE, !.timer = FALSE,
                              !.error = @ /\ verb = "resume"]

\* A stream that ended: no reconnect after a terminal phase, a timer otherwise.
SettledFirstTime(c, s) ==
  [c EXCEPT !.advancing = FALSE, !.timer = streams[s].latest = NoLaunch]
Settled(c, s) == [c EXCEPT !.advancing = FALSE, !.timer = streams[s].latest \notin Terminal]

\* The reconnect timer resumes: never a start, never a retry.
ReconnectRetries(s) ==
  /\ client.timer
  /\ Drive(s, "retry", FALSE)
  /\ UNCHANGED <<arena, page, cancelling, drops, outcome>>
Reconnect(s) ==
  /\ client.timer
  /\ Drive(s, "resume", FALSE)
  /\ UNCHANGED <<arena, page, cancelling, drops, outcome>>

FrameLands(s) ==
  /\ streams[s].frame # NoLaunch
  /\ streams' = [streams EXCEPT ![s].frame = NoLaunch,
                   ![s].latest = IF streams[s].mine THEN streams[s].frame ELSE @]
  /\ client' = IF streams[s].mine
               THEN [client EXCEPT !.launch = streams[s].frame, !.error = FALSE]
               ELSE client
  /\ UNCHANGED <<arena, page, cancelling, drops, outcome>>

StreamLands(s) ==
  /\ streams[s].st = "ended" /\ streams[s].frame = NoLaunch /\ streams[s].mine
  /\ client' = CASE streams[s].end = "done" -> Settled(client, s)
                 [] streams[s].end = "gone" ->
                      [client EXCEPT !.launch = NoLaunch, !.advancing = FALSE]
                 [] OTHER -> [Settled(client, s) EXCEPT !.error = TRUE]
  /\ streams' = [streams EXCEPT ![s] = IdleStream]
  /\ outcome' = IF streams[s].end = "gone" THEN "closed" ELSE outcome
  /\ UNCHANGED <<arena, page, cancelling, drops>>

\* An aborted connection goes away, whatever the platform made of it.
AbortedGoes(s) ==
  /\ streams[s].st # "idle" /\ ~streams[s].mine
  /\ streams' = [streams EXCEPT ![s] = IdleStream]
  /\ UNCHANGED <<arena, page, client, cancelling, drops, outcome>>

-----------------------------------------------------------------------------
(* The platform's end of it                                                 *)

\* Where there is no launch, an advance opens one on any idle cluster it finds; only
\* a start, and the retry that carries one, may make the cluster too.
CanBegin(verb) ==
  /\ arena.drill = "idle" /\ arena.launch = NoLaunch
  /\ \/ arena.life = "live"
     \/ arena.life = "absent" /\ verb # "resume" /\ arena.gen < MaxGen
Begun == [(IF arena.life = "absent" THEN Created ELSE arena) EXCEPT !.launch = "going"]

Opened(s, phase) == [streams EXCEPT ![s].st = "open", ![s].sent = phase, ![s].frame = phase]
Closed(s, how) == [streams EXCEPT ![s].st = "ended", ![s].end = how]

\* A retry resets a failed launch on its cluster, or throws the cluster away and is
\* refused the next one while this one is collected.
Reset(s) ==
  \/ /\ arena.drill = "idle"
     /\ arena' = [arena EXCEPT !.launch = "going"]
     /\ streams' = Opened(s, "going")
  \/ /\ arena' \in {Doomed} \cup {a \in {[arena EXCEPT !.launch = NoLaunch]} : a.drill = "practice"}
     /\ streams' = Closed(s, "error")

\* A live match or a launch that needs no reset is reported as it is, unless a practice
\* drill is on the cluster.  Refusals are ordinary statuses before the first byte: 404
\* when a resume finds no cluster; 409, 429 or a time-out as an error.
ServeHandshake(s) ==
  LET verb == streams[s].verb
      resets == arena.launch = "failed" /\ verb = "retry"
  IN
  /\ streams[s].st = "sent"
  /\ \/ /\ arena.launch # NoLaunch /\ arena.drill # "practice" /\ ~resets
        /\ streams' = Opened(s, arena.launch) /\ UNCHANGED arena
     \/ resets /\ Reset(s)
     \/ CanBegin(verb) /\ arena' = Begun /\ streams' = Opened(s, "going")
     \/ /\ arena.life # "live" /\ verb = "resume"
        /\ streams' = Closed(s, "gone") /\ UNCHANGED arena
     \/ /\ arena.drill = "practice" \/ verb # "resume"
        /\ streams' = Closed(s, "error") /\ UNCHANGED arena
  /\ UNCHANGED <<page, client, cancelling, drops, outcome>>

\* The stream advances the launch, to a failure it names or to the live match; each
\* of its ticks is a resume, and opens a launch where there is none.
Advance(s) ==
  /\ streams[s].st = "open" /\ arena.launch = "going" /\ arena.drill = "idle"
  /\ \/ arena' = [arena EXCEPT !.launch = "failed"]
     \/ arena' = [arena EXCEPT !.launch = "active", !.drill = "match"]
  /\ UNCHANGED <<page, hookVars>>
TickOpens(s) ==
  /\ streams[s].st = "open" /\ CanBegin("resume")
  /\ arena' = Begun
  /\ UNCHANGED <<page, hookVars>>

\* It sends each phase it has not sent, and ends after a terminal phase or when there
\* is no launch to advance.
Followed == arena.life = "live" /\ arena.drill # "practice"
SendFrame(s) ==
  /\ streams[s].st = "open" /\ streams[s].frame = NoLaunch
  /\ \/ /\ Followed /\ arena.launch \notin {NoLaunch, streams[s].sent}
        /\ streams' = Opened(s, arena.launch)
     \/ /\ ~Followed \/ streams[s].sent \in Terminal
        /\ streams' = Closed(s, "done")
  /\ UNCHANGED <<arena, page, client, cancelling, drops, outcome>>

Drop(s) ==
  /\ streams[s].st \in {"sent", "open"} /\ streams[s].frame = NoLaunch /\ drops < MaxDrops
  /\ streams' = Closed(s, "error")
  /\ drops' = drops + 1
  /\ UNCHANGED <<arena, page, client, cancelling, outcome>>

-----------------------------------------------------------------------------
(* Arrival, hand-off and the end of a match                                 *)

\* Enabled once the status says signed in: one read of the launch.
AskLaunch ==
  /\ page.booted /\ client.read = "off"
  /\ client' = [client EXCEPT !.read = "sent"]
  /\ UNCHANGED <<arena, page, streams, cancelling, drops, outcome>>

ServeLaunchRead ==
  /\ client.read = "sent"
  /\ client' = [client EXCEPT !.read = arena.launch]
  /\ UNCHANGED <<arena, page, streams, cancelling, drops, outcome>>

\* Show what was found, and follow it unless it is terminal.
LaunchReadLands(s) ==
  /\ client.read \in LaunchPhases
  /\ IF client.read = "going"
     THEN /\ streams[s].st = "idle"
          /\ streams' = [Superseded EXCEPT ![s] = [IdleStream EXCEPT !.st = "sent",
                                                                     !.mine = TRUE]]
          /\ client' = [client EXCEPT !.launch = "going", !.read = "done",
                                      !.advancing = TRUE, !.timer = FALSE]
     ELSE /\ client' = [client EXCEPT !.launch = client.read, !.read = "done"]
          /\ UNCHANGED streams
  /\ outcome' = "open"
  /\ UNCHANGED <<arena, page, cancelling, drops>>

LaunchReadFails ==
  /\ client.read = "sent"
  /\ client' = [client EXCEPT !.read = "done", !.error = TRUE]
  /\ UNCHANGED <<arena, page, streams, cancelling, drops, outcome>>

\* The effects that follow a render, before the page takes another event.
HandOffDue == client.launch = "active" /\ ~client.handedOff
MatchShown == page.run \in {"match", "decided"}
MatchEdgeDue == MatchShown # client.match
Rendered == ~MatchEdgeDue /\ ~HandOffDue

\* Hand the live match to the page, once.
HandOffAlone ==
  /\ HandOffDue
  /\ client' = [client EXCEPT !.handedOff = TRUE]
  /\ UNCHANGED <<arena, page, streams, cancelling, drops, outcome>>
HandOff ==
  /\ HandOffDue
  /\ client' = [client EXCEPT !.handedOff = TRUE]
  /\ page' \in Attached(page)
  /\ UNCHANGED <<arena, streams, cancelling, drops, outcome>>

\* A match seen on the cluster and now seen no more: forget the launch.
MatchEdge ==
  /\ MatchEdgeDue
  /\ IF MatchShown
     THEN client' = [client EXCEPT !.match = TRUE] /\ UNCHANGED <<streams, outcome>>
     ELSE /\ client' = [client EXCEPT !.match = FALSE, !.launch = NoLaunch, !.advancing = FALSE,
                                      !.error = FALSE, !.handedOff = FALSE, !.timer = FALSE]
          /\ streams' = Superseded
          /\ outcome' = "closed"
  /\ UNCHANGED <<arena, page, cancelling, drops>>

-----------------------------------------------------------------------------
(* The operator                                                             *)

ClickStart(s) ==
  /\ Screen = "hub" /\ ~client.advancing
  /\ Drive(s, "start", TRUE)
  /\ outcome' = "open"
  /\ UNCHANGED <<arena, page, cancelling, drops>>

\* Offered when the launch failed or the hook has an error to show.
ClickRetry(s) ==
  /\ Screen = "launch" /\ (client.launch = "failed" \/ client.error)
  /\ ~client.advancing /\ cancelling = "no"
  /\ Drive(s, "retry", TRUE)
  /\ outcome' = "open"
  /\ UNCHANGED <<arena, page, cancelling, drops>>

ClickCancel ==
  /\ Screen = "launch" /\ client.launch \in {"going", "failed"} /\ cancelling = "no"
  /\ client' = [client EXCEPT !.advancing = FALSE, !.timer = FALSE, !.error = FALSE]
  /\ streams' = Superseded
  /\ cancelling' = "sent"
  /\ outcome' = "cancelling"
  /\ UNCHANGED <<arena, page, drops>>

\* The platform abandons a launch that is not active, and its cluster with it.
ServeCancel ==
  /\ cancelling = "sent"
  /\ \/ /\ arena.launch \in {"going", "failed"} /\ arena.drill = "idle"
        /\ arena' = Doomed
        /\ cancelling' \in {"ok", "error"}
     \/ cancelling' = "error" /\ UNCHANGED arena
  /\ UNCHANGED <<page, client, streams, drops, outcome>>

CancelLands ==
  /\ cancelling \in {"ok", "error"}
  /\ IF cancelling = "ok"
     THEN /\ client' = [client EXCEPT !.launch = NoLaunch, !.handedOff = FALSE]
          /\ page' = Release(page)
          /\ outcome' = IF outcome = "open" THEN outcome ELSE "closed"
     ELSE client' = [client EXCEPT !.error = TRUE] /\ outcome' = "refused" /\ UNCHANGED page
  /\ cancelling' = "no"
  /\ UNCHANGED <<arena, streams, drops>>

\* Leaving a match from its result, or tearing its cluster down from the head-up
\* display (forfeiting it if it is undecided); a refusal leaves both alone.
ClickLeave ==
  /\ Screen \in {"arena", "result", "mismatch"}
  /\ \/ /\ Screen = "result" /\ arena.life = "live"
        /\ arena' = Ended
        /\ page' = [page EXCEPT !.run = "idle"]
     \/ /\ page' = Release(page)
        /\ arena' \in {arena, IF arena.life = "live" THEN Doomed ELSE arena}
  /\ UNCHANGED hookVars

-----------------------------------------------------------------------------

RankedInit ==
  /\ \E launch \in LaunchPhases, life \in {"absent", "live"} :
       /\ life = "absent" => launch = NoLaunch
       /\ arena = [life |-> life, gen |-> IF life = "live" THEN 1 ELSE 0,
                   drill |-> IF launch = "active" THEN "match" ELSE "idle", launch |-> launch]
  /\ page = [booted |-> FALSE, attached |-> FALSE, run |-> "nothing"]
  /\ client = [launch |-> NoLaunch, read |-> "off", advancing |-> FALSE, error |-> FALSE,
               handedOff |-> FALSE, timer |-> FALSE, match |-> FALSE]
  /\ streams = [s \in Streams |-> IdleStream]
  /\ cancelling = "no"
  /\ drops = 0
  /\ outcome = "open"

Connection(s) ==
  \/ Reconnect(s) \/ FrameLands(s) \/ StreamLands(s) \/ AbortedGoes(s)
  \/ ServeHandshake(s) \/ Advance(s) \/ TickOpens(s) \/ SendFrame(s) \/ Drop(s)
  \/ LaunchReadLands(s)

RankedNext ==
  \/ MatchEdge \/ HandOff
  \/ /\ Rendered
     /\ \/ World \/ Boot \/ Snapshot
        \/ AskLaunch \/ ServeLaunchRead \/ LaunchReadFails
        \/ ClickCancel \/ ServeCancel \/ CancelLands \/ ClickLeave
        \/ \E s \in Streams : Connection(s) \/ ClickStart(s) \/ ClickRetry(s)

\* The browser runs its timers, effects and callbacks, requests are answered, and
\* a stream sends what it owes.  The network breaks at most MaxDrops connections;
\* a launch need not finish, and the operator owes nothing but to let the
\* reconnect timer run out now and then before clicking retry again.
RankedFairness ==
  /\ WF_vars(MatchEdge) /\ WF_vars(HandOff)
  /\ WF_vars(Rendered /\ Boot) /\ WF_vars(Rendered /\ Snapshot)
  /\ WF_vars(Rendered /\ (AskLaunch \/ ServeLaunchRead \/ LaunchReadFails))
  /\ WF_vars(Rendered /\ ServeCancel) /\ WF_vars(Rendered /\ CancelLands)
  /\ \A s \in Streams :
       /\ SF_vars(Rendered /\ Reconnect(s))
       /\ WF_vars(Rendered /\ (\/ FrameLands(s) \/ StreamLands(s) \/ AbortedGoes(s)
                               \/ ServeHandshake(s) \/ TickOpens(s) \/ SendFrame(s)
                               \/ LaunchReadLands(s)))

RankedSpec == RankedInit /\ [][RankedNext]_vars /\ RankedFairness

-----------------------------------------------------------------------------
(* Properties                                                               *)

\* Once the launch was cancelled, found gone, or forgotten with its match, nothing
\* already under way (a late frame, a reconnect timer, a broken stream) brings it
\* back on the page or opens a connection for it.
ClosedStaysClosed ==
  outcome = "closed" =>
    /\ client.launch = NoLaunch /\ ~client.timer /\ ~client.advancing
    /\ \A s \in Streams : streams[s].st # "idle" => ~streams[s].mine

\* A cluster is made for a launch, and a failed launch is begun again, only on the
\* first request of a connection the operator's click opened: no reconnect and no tick
\* of a stream replays a verb.
BegunByHand ==
  [][ arena.launch \in {NoLaunch, "failed"} /\ arena'.launch = "going"
        /\ (arena.launch = "failed" \/ arena.life = "absent") =>
        \E s \in Streams : streams[s].st = "sent" /\ streams[s].byHand ]_vars

\* What the platform made of a launch under way reaches the page, whatever broke
\* in between: it does not go on showing a launch that has failed, become the
\* match, or gone, unless another tab keeps practising on its cluster.
LaunchIsFollowed ==
  (client.launch = "going" /\ arena.launch # "going")
    ~> (\/ client.launch # "going" \/ arena.launch = "going"
        \/ outcome = "refused" \/ arena.drill = "practice")

\* A launch that became a match is handed to the page and gives way to it: the page
\* does not stay on the launch screen while its match is played, unless a cancel
\* that came too late was refused.
MatchIsReached ==
  (/\ Screen = "launch" /\ client.launch = "active" /\ ~client.handedOff
   /\ arena.drill \in {"match", "decided"})
    ~> (Screen # "launch" \/ arena.drill \notin {"match", "decided"} \/ outcome = "refused")

=============================================================================

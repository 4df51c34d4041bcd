----------------------------- MODULE ClusterRun -----------------------------
(***************************************************************************)
(* The browser page that owns one disposable cluster: the hook             *)
(* useClusterRun of the cluster workbench, its polling of the snapshot     *)
(* route, the mutations it sends, and the practice surface that drives it. *)
(*                                                                         *)
(* A request is three steps, so that answers cross each other: the page    *)
(* sends it, the platform serves it (and reads or changes the cluster      *)
(* then), and the answer lands on the page.  `arena' is the cluster as the *)
(* platform keeps it; every other variable is the page's.                  *)
(*                                                                         *)
(* The run id is a digest of the operator (RunIdForOwner in the broker), so *)
(* every cluster of one operator has the same id: a run id tells the page  *)
(* whether it is attached, and never which of its clusters it sees.        *)
(***************************************************************************)
EXTENDS Naturals, FiniteSets

CONSTANTS
  Refreshes,    \* slots for snapshot reads in flight
  Mutations,    \* slots for the other requests in flight
  MaxRev,       \* bound: changes applied to clusters in a behaviour
  MaxGen,       \* bound: clusters created in a behaviour
  MaxAge,       \* bound: how old a cluster grows (Due: clusters expire)
  StaleAfter    \* consecutive failures before the page says it is stale

ASSUME BoundsAssumption ==
  /\ MaxRev \in Nat /\ MaxGen \in Nat /\ MaxAge \in 0..2
  /\ StaleAfter \in Nat \ {0}

VARIABLES
  arena,        \* the cluster, as the platform keeps it
  workbench,         \* what the hook holds and the workbench shows
  refreshes,    \* the snapshot reads in flight
  mutations,    \* the other requests in flight
  acked,        \* ghost: the newest change an answer has told the page of
  lateAnswer    \* ghost: an answer put a run on a page that had let go

clusterVars == <<arena, workbench, refreshes, mutations, acked, lateAnswer>>

-----------------------------------------------------------------------------
(* Values                                                                  *)

Modes == {"none", "practice", "ranked"}
Fresh == 0    \* ages of a cluster: not yet near its end,
Late  == 1    \*   in its last minute,
Due   == 2    \*   out of time

\* What a run payload says, as far as the page's control depends on it.
Views == [gen: Nat, rev: Nat, mode: Modes, decided: BOOLEAN,
          renewed: BOOLEAN, over: {"no", "due", "deleting"}]
NoRun == [gen |-> 0, rev |-> 0, mode |-> "none", decided |-> FALSE,
          renewed |-> FALSE, over |-> "no"]

Answer(code, view) == [code |-> code, view |-> view]
NoAnswer == Answer("none", NoRun)
Failed   == Answer("error", NoRun)    \* any refusal but a 404, or a time-out
Gone     == Answer("gone", NoRun)     \* 404
Answers  == [code: {"none", "ok", "gone", "error"}, view: Views]

\* "change" is any of the allowlisted changes to a running cluster: a control, a
\* decision of a drill, a console command.
MutationKeys == {"provision", "teardown", "renew", "start", "end", "change"}

IdleRefresh  == [st |-> "idle", kind |-> "poll", fresh |-> FALSE, answer |-> NoAnswer]
IdleMutation == [st |-> "idle", key |-> "renew", answer |-> NoAnswer]

ClusterTypeOK ==
  /\ arena \in [life: {"absent", "live", "deleting"}, gen: Nat, rev: Nat,
                mode: Modes, decided: BOOLEAN, age: Fresh..Due, renewed: BOOLEAN]
  /\ workbench \in [boot: {"asked", "mine", "none", "attaching", "done", "offline"},
               run: Views, hoped: BOOLEAN, attached: BOOLEAN, polling: BOOLEAN,
               failures: 0..StaleAfter, stale: BOOLEAN, expired: BOOLEAN,
               busy: BOOLEAN, declined: Nat, armed: BOOLEAN]
  /\ refreshes \in [Refreshes -> [st: {"idle", "sent", "back"},
                                  kind: {"poll", "attach"}, fresh: BOOLEAN,
                                  answer: Answers]]
  /\ mutations \in [Mutations -> [st: {"idle", "sent", "back"},
                                  key: MutationKeys, answer: Answers]]
  /\ acked \in Nat
  /\ lateAnswer \in BOOLEAN

\* Every cluster has a generation of at least one, so NoRun is none of them.
HasRun(p) == p.run # NoRun

-----------------------------------------------------------------------------
(* The platform: what the snapshot, run and drill routes read and change.   *)

\* Any run but a deleted one is still answered for.
Exists == arena.life # "absent"

ViewOf(a) == [gen |-> a.gen, rev |-> a.rev, mode |-> a.mode, decided |-> a.decided,
              renewed |-> a.renewed, over |-> IF a.life = "deleting" THEN "deleting"
                                              ELSE IF a.age = Due THEN "due" ELSE "no"]

\* A change of the cluster counts one revision.
Revise(a) == [a EXCEPT !.rev = @ + 1]
EndDrill(a) == [Revise(a) EXCEPT !.mode = "none", !.decided = FALSE]
Doomed(a) == [a EXCEPT !.life = "deleting", !.age = Fresh, !.renewed = FALSE]
Created(a) == [a EXCEPT !.life = "live", !.gen = @ + 1, !.mode = "none",
                                !.decided = FALSE, !.age = Fresh, !.renewed = FALSE]

\* The requests of the page the platform accepts, and what each makes of the cluster.
Accepts(key) ==
  CASE key = "provision" -> arena.life = "live" \/ (arena.life = "absent" /\ arena.gen < MaxGen)
    [] key = "teardown" -> Exists
    [] key = "renew"    -> Exists /\ ~arena.renewed
    [] key = "start"    -> Exists /\ arena.mode = "none"
    [] OTHER            -> Exists

Served(key) ==
  CASE key = "provision" -> IF arena.life = "live" THEN arena ELSE Created(arena)
    [] key = "teardown" -> IF arena.life = "live" THEN Doomed(arena) ELSE arena
    [] key = "renew"    -> [Revise(arena) EXCEPT !.renewed = TRUE, !.age = Fresh]
    [] key = "start"    -> [Revise(arena) EXCEPT !.mode = "practice", !.decided = FALSE]
    [] key = "end"      -> EndDrill(arena)
    [] OTHER            -> Revise(arena)

\* The answer is the run as changed; a request past the upstream deadline is
\* answered 504 whether or not the platform carried it out.
ServeMutation(m) ==
  /\ mutations[m].st = "sent"
  /\ \/ /\ Accepts(mutations[m].key)
        /\ mutations[m].key \in {"provision", "teardown"} \/ arena.rev < MaxRev
        /\ arena' = Served(mutations[m].key)
        /\ \E answer \in {Answer("ok", ViewOf(arena')), Failed} :
             mutations' = [mutations EXCEPT ![m].st = "back", ![m].answer = answer]
     \/ /\ UNCHANGED arena
        /\ mutations' = [mutations EXCEPT ![m].st = "back",
             ![m].answer = IF Exists \/ mutations[m].key = "provision" THEN Failed ELSE Gone]
  /\ UNCHANGED <<workbench, refreshes, acked, lateAnswer>>

ServeRefresh(r) ==
  /\ refreshes[r].st = "sent"
  /\ \E answer \in {IF Exists THEN Answer("ok", ViewOf(arena)) ELSE Gone, Failed} :
       refreshes' = [refreshes EXCEPT ![r].st = "back", ![r].answer = answer]
  /\ UNCHANGED <<arena, workbench, mutations, acked, lateAnswer>>

\* The status route lists the operator's runs that are not being deleted; a
\* listing that fails is answered as "no cluster".
ServeStatus ==
  /\ workbench.boot = "asked"
  /\ \E found \in {IF arena.life = "live" THEN "mine" ELSE "none", "none", "offline"} :
       workbench' = [workbench EXCEPT !.boot = found]
  /\ UNCHANGED <<arena, refreshes, mutations, acked, lateAnswer>>

\* Time, the judge, the reaper and another tab of the same operator.
Ages ==
  /\ arena.life = "live" /\ arena.age < MaxAge
  /\ arena' = [arena EXCEPT !.age = @ + 1]

Judged ==
  /\ Exists /\ arena.mode = "ranked" /\ ~arena.decided
  /\ arena' = [arena EXCEPT !.decided = TRUE]

Reaped ==
  /\ arena.life = "live" /\ arena.age = Due
  /\ arena' = Doomed(arena)

Collected ==
  /\ arena.life = "deleting"
  /\ arena' = [arena EXCEPT !.life = "absent", !.mode = "none", !.decided = FALSE,
                            !.age = Fresh, !.renewed = FALSE]

Elsewhere ==
  /\ arena.life = "live"
  /\ \/ arena' = Doomed(arena)
     \/ arena.mode # "none" /\ arena.rev < MaxRev /\ arena' = EndDrill(arena)
     \/ arena.mode = "none" /\ arena.rev < MaxRev
        /\ arena' = [Revise(arena) EXCEPT !.mode = "ranked"]

World ==
  /\ Ages \/ Judged \/ Reaped \/ Collected \/ Elsewhere
  /\ UNCHANGED <<workbench, refreshes, mutations, acked, lateAnswer>>

-----------------------------------------------------------------------------
(* The hook's refs and setters, as functions of the page.                   *)

\* Let go of the current cluster.
Release(p) == [p EXCEPT !.attached = FALSE, !.failures = 0, !.polling = FALSE,
                        !.stale = FALSE, !.run = NoRun, !.hoped = FALSE, !.armed = FALSE]

StartPollingLater(p) == [p EXCEPT !.attached = TRUE, !.failures = 0]
StartPolling(p) == [p EXCEPT !.polling = TRUE, !.attached = TRUE, !.failures = 0]

Show(p, view) == [p EXCEPT !.run = view, !.hoped = FALSE]

\* What a snapshot does to the page: nothing once the page moved on; it lets go
\* of a cluster being deleted or out of time; and it is desired state only if no
\* mutation started or ended while it was in flight.
Refreshed(p, view, fresh) ==
  IF ~p.attached THEN p
  ELSE IF view.over = "deleting" THEN Release(p)
  ELSE IF view.over = "due" THEN [Release(p) EXCEPT !.expired = TRUE]
  ELSE IF fresh THEN Show(p, view) ELSE p

\* mutationSeq moved: no refresh now in flight may set the run any more.
SeqKept == refreshes
SeqBumped == [r \in Refreshes |-> [refreshes[r] EXCEPT !.fresh = FALSE]]

\* A slot starts a snapshot read, remembering the mutationSeq of this moment.
Sent(kind) == [st |-> "sent", kind |-> kind, fresh |-> TRUE, answer |-> NoAnswer]

-----------------------------------------------------------------------------
(* Arrival and polling                                                      *)

\* Resume the cluster this account already owns: attach, and only then leave
\* the skeleton.
BootAttach(r) ==
  /\ workbench.boot = "mine" /\ refreshes[r].st = "idle"
  /\ workbench' = [workbench EXCEPT !.boot = "attaching", !.attached = TRUE]
  /\ refreshes' = [refreshes EXCEPT ![r] = Sent("attach")]
  /\ UNCHANGED <<arena, mutations, acked, lateAnswer>>

BootDone ==
  /\ workbench.boot = "none"
  /\ workbench' = [workbench EXCEPT !.boot = "done"]
  /\ UNCHANGED <<arena, refreshes, mutations, acked, lateAnswer>>

\* The interval fires whether or not an earlier read is still out.
PollTick(r) ==
  /\ workbench.polling /\ refreshes[r].st = "idle"
  /\ refreshes' = [refreshes EXCEPT ![r] = Sent("poll")]
  /\ UNCHANGED <<arena, workbench, mutations, acked, lateAnswer>>

PollLands(r) ==
  LET answer == refreshes[r].answer IN
  /\ refreshes[r].st = "back" /\ refreshes[r].kind = "poll"
  /\ workbench' = CASE answer.code = "ok" ->
                    [Refreshed(workbench, answer.view, refreshes[r].fresh)
                       EXCEPT !.failures = 0, !.stale = FALSE]
               [] answer.code = "gone" -> [Release(workbench) EXCEPT !.expired = TRUE]
               [] OTHER ->
                    [workbench EXCEPT !.failures = IF @ < StaleAfter THEN @ + 1 ELSE @,
                                 !.stale = workbench.failures + 1 >= StaleAfter]
  /\ refreshes' = [refreshes EXCEPT ![r] = IdleRefresh]
  /\ UNCHANGED <<arena, mutations, acked, lateAnswer>>

\* attach swallows a failed first read, and polls unless that read let go.
AttachLands(r) ==
  LET answer == refreshes[r].answer
      seen   == IF answer.code = "ok"
                THEN Refreshed(workbench, answer.view, refreshes[r].fresh) ELSE workbench
      polled == IF seen.attached THEN StartPolling(seen) ELSE seen
  IN
  /\ refreshes[r].st = "back" /\ refreshes[r].kind = "attach"
  /\ workbench' = [polled EXCEPT !.boot = IF @ = "attaching" THEN "done" ELSE @]
  /\ refreshes' = [refreshes EXCEPT ![r] = IdleRefresh]
  /\ UNCHANGED <<arena, mutations, acked, lateAnswer>>

-----------------------------------------------------------------------------
(* Mutations                                                                *)

\* act: claim the busy line, bump the sequence, and show
\* the hoped-for effect at once when the control has one.
Act(m, key, optimistic) ==
  /\ mutations[m].st = "idle"
  /\ workbench' = [workbench EXCEPT !.busy = TRUE,
                          !.hoped = @ \/ (optimistic /\ HasRun(workbench))]
  /\ refreshes' = SeqBumped
  /\ mutations' = [mutations EXCEPT ![m] = [st |-> "sent", key |-> key, answer |-> NoAnswer]]
  /\ UNCHANGED <<arena, acked, lateAnswer>>

\* The answer is shown whether or not the page still holds the cluster.
ActLands(m) ==
  LET answer == mutations[m].answer IN
  /\ mutations[m].st = "back" /\ mutations[m].key \notin {"provision", "teardown"}
  /\ IF answer.code = "ok"
     THEN /\ workbench' = [Show(workbench, answer.view) EXCEPT !.busy = FALSE]
          /\ acked' = IF answer.view.rev > acked THEN answer.view.rev ELSE acked
          /\ lateAnswer' = (lateAnswer \/ ~workbench.attached)
     ELSE /\ workbench' = [workbench EXCEPT !.busy = FALSE]
          /\ UNCHANGED <<acked, lateAnswer>>
  /\ refreshes' = SeqBumped
  /\ mutations' = [mutations EXCEPT ![m] = IdleMutation]
  /\ UNCHANGED arena

Provision(m) ==
  /\ mutations[m].st = "idle"
  /\ workbench' = [workbench EXCEPT !.busy = TRUE]
  /\ mutations' = [mutations EXCEPT ![m] =
                     [st |-> "sent", key |-> "provision", answer |-> NoAnswer]]
  /\ UNCHANGED <<arena, refreshes, acked, lateAnswer>>

ProvisionLands(m) ==
  LET answer == mutations[m].answer IN
  /\ mutations[m].st = "back" /\ mutations[m].key = "provision"
  /\ workbench' = IF answer.code = "ok"
             THEN [StartPolling(Show(workbench, answer.view)) EXCEPT !.busy = FALSE,
                                                                !.expired = FALSE]
             ELSE [workbench EXCEPT !.busy = FALSE]
  /\ mutations' = [mutations EXCEPT ![m] = IdleMutation]
  /\ UNCHANGED <<arena, refreshes, acked, lateAnswer>>

\* Detach first: the cluster is given up the moment the request goes out.
Teardown(m) ==
  /\ HasRun(workbench) /\ mutations[m].st = "idle"
  /\ workbench' = [Release(workbench) EXCEPT !.busy = TRUE]
  /\ mutations' = [mutations EXCEPT ![m] =
                     [st |-> "sent", key |-> "teardown", answer |-> NoAnswer]]
  /\ UNCHANGED <<arena, refreshes, acked, lateAnswer>>

TeardownLands(m) ==
  /\ mutations[m].st = "back" /\ mutations[m].key = "teardown"
  /\ workbench' = [workbench EXCEPT !.busy = FALSE]
  /\ mutations' = [mutations EXCEPT ![m] = IdleMutation]
  /\ UNCHANGED <<arena, refreshes, acked, lateAnswer>>

-----------------------------------------------------------------------------
(* The head-up display and the renewal offer, shown with any run.           *)

\* Tearing down an undecided ranked match is a loss, and takes a second click.
Forfeits(p) == p.run.mode = "ranked" /\ ~p.run.decided

ArmTeardown ==
  /\ HasRun(workbench) /\ ~workbench.busy /\ Forfeits(workbench) /\ ~workbench.armed
  /\ workbench' = [workbench EXCEPT !.armed = TRUE]
  /\ UNCHANGED <<arena, refreshes, mutations, acked, lateAnswer>>

\* The confirmation lapses after five seconds of waiting for it.
DisarmTeardown ==
  /\ workbench.armed /\ Forfeits(workbench)
  /\ workbench' = [workbench EXCEPT !.armed = FALSE]
  /\ UNCHANGED <<arena, refreshes, mutations, acked, lateAnswer>>

ClickTeardown(m) ==
  /\ ~workbench.busy /\ (Forfeits(workbench) => workbench.armed)
  /\ Teardown(m)

\* The last minute of a renewable cluster, unless an offer for its run id has been
\* answered: and the run id is the same for every cluster of the operator, so an
\* answer given about one generation counts for all.
OffersRenewal == /\ HasRun(workbench) /\ arena.age = Late
                 /\ ~workbench.run.renewed /\ workbench.declined = 0

AcceptRenewal(m) ==
  /\ OffersRenewal /\ ~workbench.busy /\ mutations[m].st = "idle"
  /\ workbench' = [workbench EXCEPT !.declined = workbench.run.gen, !.busy = TRUE]
  /\ refreshes' = SeqBumped
  /\ mutations' = [mutations EXCEPT ![m] = [st |-> "sent", key |-> "renew", answer |-> NoAnswer]]
  /\ UNCHANGED <<arena, acked, lateAnswer>>

DeclineRenewal ==
  /\ OffersRenewal /\ ~workbench.busy
  /\ workbench' = [workbench EXCEPT !.declined = workbench.run.gen]
  /\ UNCHANGED <<arena, refreshes, mutations, acked, lateAnswer>>

\* What every surface offers over a run on screen.
Hud == ArmTeardown \/ DisarmTeardown \/ DeclineRenewal
       \/ \E m \in Mutations : ClickTeardown(m) \/ AcceptRenewal(m)

-----------------------------------------------------------------------------
(* Properties of the page, whatever the surface.                            *)

\* A run is on screen of a page that has let go only when a mutation's answer
\* came back after it let go: no poll and no attach ever puts one there.
OnlyLateAnswersLinger == HasRun(workbench) /\ ~workbench.attached => lateAnswer

\* A run the page holds is being polled, or the read that starts the polling is
\* out: it is never shown frozen because a first read failed or was dropped.
HeldRunIsWatched ==
  HasRun(workbench) /\ workbench.attached =>
    workbench.polling \/ \E r \in Refreshes : refreshes[r].st # "idle" /\ refreshes[r].kind = "attach"

\* A snapshot that lands never shows the cluster as it was before a change whose
\* answer the page already has, however the two crossed.
LatePollNeverReverts ==
  [][ refreshes' # refreshes /\ mutations' = mutations
        /\ workbench'.run # workbench.run /\ HasRun(workbench') => workbench'.run.rev >= acked ]_clusterVars

=============================================================================

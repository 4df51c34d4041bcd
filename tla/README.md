# Verification of the home operations lab

TLA+ models of this repository: the ranked-incident service of `apps/api`, which provisions a
disposable Kubernetes cluster per operator, draws an incident, opens a rated attempt in Postgres,
commits the match clock on the cluster and seals the attempt with one verdict; the pages of the
homelab that follow such a cluster and teach on it; the gateway, the account and the Academy they
rely on; and the state machines of the labs. TLC checks the models on small instances; TLAPS proves
every safety property that holds in a run, for every value of the constants.

## 1. Inventory

Two API replicas (`deploy/k8s/api.yaml`) serve all operators. They share nothing in memory: what
they share is the `LabRun` custom resource of each operator (API server, optimistic versions) and
Postgres. A request reads the LabRun, decides, and writes the LabRun and the store in separate steps,
while another replica, the reaper, the judge and the operator's other requests do the same. In front
of them stand the homelab's gateway and pages that poll, stream and change the same cluster, so that
answers cross: those are the two sources of nearly every hard behaviour below.

| Component | State it keeps | Operations | Interacts with | Hard behaviours | What makes it correct | Status |
|---|---|---|---|---|---|---|
| Ranked launch orchestrator (`api/Ranked/RankedLaunchOrchestrator.cs`) | launch annotations on the LabRun | LaunchAsync (with retry), AbandonAsync, ObserveAsync | broker (reads, conditional patches, delete), store (open, void) | replicas racing every step, crash between two writes, deadlines, retry | the same match is resumed; nothing before activation is rated; a launch ends | modelled |
| Launch gate (same file) | process-wide dictionary of semaphores | EnterAsync, Dispose | every launch request of one process | eviction racing a join, cancelled waits | mutual exclusion per operator, no leak, no starvation | modelled |
| Run broker (`api/Runs/RunBroker.cs`) | the LabRun: spec, clock, drill, receipts | provision, activate, start/end drill, actions, snapshot, renew, delete | Kubernetes, store, Crossplane | patches without a version, stale reads | names in the LabRun are durable, a match is kept | partly |
| Ranked store (`api/Data/RankedStore.cs`) | attempts, ratings, ledger, actions, evidence, telemetry | begin, finalize, record, budget | broker, orchestrator | concurrent finalize, unique indexes | the first verdict stands | partly |
| Run reaper (`api/Runs/RunReaper.cs`) | none | one pass a minute on each replica | broker | teardown racing everything | an expired cluster goes away | modelled |
| Drill judge (`RunBroker.EvaluateDrillAsync`) | stage, goal streak, receipts on the LabRun | evaluate, advance, resolve, void | telemetry, store, learning | two snapshots at once, unversioned patches | only an activated match is rated | partly |
| Provisioning budget and capacity | budget rows, live LabRuns | consume, create, renew | reaper, launch | count-then-create, budget spent on failure | slots and budgets respected | not modelled |
| Drill results | result rows | insert, statistics | judge | a repeated insert | one row a run (unique index) | not modelled |
| Rating rules and performance | none | pure arithmetic | store | floating point | - | not modelled |
| Ranked scenario generation | none | pure, seeded | launch | - | - | not modelled |
| Ranked commands and inspection | none | parse, project, redact text | broker | - | - | not modelled |
| Launch stream and ranked endpoints | one loop per connection | advance, send, end | orchestrator, gateway, page | broken streams, late frames | frames arrive whole and reach the page that asked | partly |
| Cluster telemetry | none | reads | Kubernetes, Envoy, traces | outages | - | not modelled (an input) |
| Learning progress and certificates (`api/Data/LearningProgressStore.cs`) | enrolments, units, attempts, certificates | start, complete, judge, read, issue | judge, Academy pages | read-modify-write, lost insert races | nothing completed is lost; a certificate is earned | partly |
| API key authentication | cache of introspections | find | auth service | stale and negative entries | bounded staleness | not modelled |
| Auth service (`apps/auth`) | users, logins, sessions | sign in and out, profile, theme, connect, disconnect, revoke | settings modal of every site | two browsers' handlers interleave | a way to sign in remains; revoked means refused | partly |
| Live gateway (`homelab/.../api/live`, `shared/api`) | fixed windows in memory | identify, charge, forward, stream | browsers, API | deadlines, a browser leaving at any await, chunked frames | budgets hold; no stream without a reader | partly |
| Homelab ranked client (`features/ranked/model`) | stream epoch, launch, timers | drive, reconnect, retry, cancel, resume, hand off | launch stream, cluster page | superseded streams, late frames | one own connection; a closed launch stays closed | partly |
| Academy client (`features/academy/model`) | optimistic progress in page and browser | load, push, complete, claim | learning endpoints | failed writes, two pages, reloads | what is shown as done is kept | partly |
| Homelab workbench, drill and topology views | run on the page, lesson, debrief, canvas, polling chain | poll, change, decide, pan, dial, pick | gateway | late polls, stages under the page | the page never reverts, a move is earned, curves meet the cards | partly |
| Lab runtime engine (`packages/lab-runtime`) | in-memory runs | create, decide, queue, sweep, report | labs' routes | time to live, cap, idempotency key | the report owns up to a burn | partly |
| Checkout demo workload | - | - | - | - | - | not modelled |
| CyberLab, AI lab, admin and web front ends | loops, queue, experiment | play, scrub, queue, hint | lab engines | superseded loops, polls out of order | terminals follow the script; the feed catches up | partly |
| Shared packages | session and theme clients, settings modal, animation loops, slider | see Account, LabMotion, ClusterCanvas | every site | late answers, hidden tabs | no stranded control, one loop | partly |
| Deployment | manifests | - | - | - | - | not modelled |

`PROJECT.json` lists the same components with their files, and under `hazards` every place where
this code can go wrong in a way a unit test would hardly reach, each with the property that covers
it or the reason none does.

## 2. Modules

| Module | What it is |
|---|---|
| `RankedLaunch` | one operator's LabRun, attempts and requests: the launch, cancel, retry, drills, judge, teardown and reaper |
| `MatchRegister` | what the ladder promises of the operator's matches; `RankedLaunch` implements it |
| `LaunchGate`, `LaunchSlot` | the per-operator gate of one API process, and what it promises: the former implements the latter |
| `ClusterRun`, `PracticePage` | the hook that owns one cluster in a page, and the sandbox page over it |
| `DrillCoaching` | a practice drill as its page teaches it |
| `Academy` | course progress between page, browser and account |
| `ClusterCanvas` | the live graph: viewport, curves, picking, a dial |
| `LearnerPages` | composes the four surfaces of a learner above, one at a time |
| `RankedPage` | the ranked page and its launch streams |
| `Account` | the auth service and the settings modal on several browsers |
| `LiveGateway` | the homelab's server side between browsers and API |
| `LaunchStream` | composes the two ends of a launch stream, `RankedPage` and `LiveGateway` |
| `RunEngine`, `ScenarioPlayer`, `LiveRange`, `AiLab`, `LabMotion`, `OperatorConsole`, `HomelabMap` | the labs' state machines |
| `Labs` | composes those seven, one page at a time |
| `MCRankedLaunch`, `MCLaunchGate`, `MCLearner`, `MCAcademy`, `MCCanvas`, `MCLaunchStream`, `MCLiveGateway`, `MCLabs` | constants and symmetry for TLC |
| `RankedLaunchProofs`, `LaunchGateProofs`, `LearnerProofs`, `LaunchStreamProofs`, `AccountProofs`, `CanvasProofs`, `LabsProofs` | theorems and proofs (section 4) |
| `FoldLemmas` | induction over sets, and what the folds and sums of the community modules compute: what those proofs share |

`LearnerPages`, `LaunchStream` and `Labs` compose surfaces that share no state: one is chosen at the
start and only its variables move. They exist so that one run checks what belongs together; each
component keeps its own specification, and section 4 states how the theorems carry over.

### 2.1 RankedLaunch

*State.* `run` is the LabRun: `life` (absent, live, being deleted), `drill` (`spec.drillId` with the
clock and the mode: an incident of a ranked match, `"practice"`, or none), `attempt`
(`ranked-attempt-id`), `terminal` (the receipts `drill-solved`, `drill-voided`) and the launch
annotations `launched`, `phase`, `failure`, `incident`, `marked`. `outcome` is the attempts table:
the outcome of the attempt on each incident, `"none"` before it is opened. `activated` is a history
variable: the attempts whose clock was committed. `req` is each request's program counter and what
it has read. `current` is the set of requests whose `resourceVersion` is the stored one: a version
is opaque and only compared for equality, so this set is all that `CompareAndSetAsync` can see of
it, and the model needs no counter.

*Actions* follow the methods, split exactly at their awaits on the API server or the store. A
replica serves one launch request at a time (what `LaunchGate` is for); a worker is a request that
does not pass the gate, or a reaper.

| Code | Actions |
|---|---|
| `LaunchAsync` | `ResumeLaunch`, `RetryLaunch`, `ProvisionArena`, `ProvisionFinds`, `OpenLaunch`, `OpenLaunchLost` (`Continue` is the chain of refusals) |
| `AdvanceAsync` | `Waiting`, `WaitedTooLong`, `Ready`, `ReadyTooLate`, `StartTraffic`, `TrafficRunning`, `RecordPhase`, `RecordPhaseLost` |
| `ActivateAsync`, `ResolveAttemptAsync` | `DrawIncident`, `Unmaterialized`, `ResumeAttempt`, `AttemptSealed`, `NoAttempt`, `AdoptAttempt`, `OpenAttempt`, `MarkAttempt`, `Activate` |
| `FailAsync`, `VoidLaunchAttemptAsync` | `MarkFailed`, `FailureStands`, `FindActive`, `Seal`, `VoidSwallowed` |
| `ResetAsync`, `AbandonAsync` | `ReplaceCluster`, `ClearLaunch`, `ClearLaunchLost`, `AbandonLaunch` |
| `DeleteRunAsync`, `DeleteExpiredAsync`, `RunReaper` | `StartDelete`, `StartExpire`, `Discard`, `Expire`, `NothingToDiscard`, `Delete` |
| `StartDrillAsync`, `EndDrillAsync` | `StartDrill`, `StartDrillPatch`, `EndDrill`, `EndDrillPatch` |
| `EvaluateDrillAsync`, `ResolveDrillAsync`, `VoidRankedInfrastructureFailureAsync` | `Judge`, `JudgeSolved`, `JudgePractice`, `JudgeVoided`, `ReceiptLost` |
| crash, cancellation, exception, refused patch | `GiveUp` at any step |
| Crossplane status writes, garbage collection | `Reconcile`, `Collected` (external) |

*Abstractions.*
- One operator. The LabRun's name is derived from the owner key (`RunIdForOwner`), and every read
  and write is owner-scoped, so operators meet only at the capacity cap.
- An attempt is named by its incident: a generated incident carries a fresh seed and the store
  admits a seed once per operator.
- Time is nondeterministic: a deadline may have passed whenever the launch id is set, a cluster may
  be expired whenever it exists. Readiness is an input (`Measured` is the set of phases the gate can
  report before it is ready).
- `FinalizeAsync` is one atomic step, as its serializable transaction and the unique ledger index
  make it; the exceptions it can raise are `GiveUp` (and, in the void path, `VoidSwallowed`).
- The judge is reduced to the receipts it writes and the attempt it seals. No failed-drill receipt: a
  ranked decision is refused before one could be written. Telemetry is reduced to what
  `FinalizeAsync` asks of it: only a match that was activated has samples.
- The load generator is not part of the state; the write that starts it only moves the version.

### 2.2 LaunchGate and LaunchSlot

`entry` is the static dictionary, `holders` and `permits` are the fields of each gate object, `gate`
is the object a request has entered. `Enter` is the block under the lock in `EnterAsync`
(`JoinGate`, or `AddGate` when the operator has no entry), `Acquire` the semaphore's wait,
`Cancel` the catch block, `Release` and `Evict` the two halves of `Dispose`. The semaphore is
returned before the lock is taken, so another request can be inside while the previous one still
counts as a holder. A gate object nobody refers to may be reused (`Fresh`), so as many gate objects
as requests are enough. `LaunchSlot` says only that a request is admitted when no other of the same
operator is inside; the refinement maps `inside` to the requests with `pc = "inside"`.

### 2.3 The pages of a learner

*ClusterRun* is `useClusterRun`. A request is three steps (the page asks, the platform serves it and
reads or changes the cluster then, the answer lands), so polls and changes cross. `arena` is the
cluster as the platform keeps it, with the number of changes applied to it; `workbench` is what the
hook holds. Each change takes the right to set the run from the reads in flight
(`mutationSeq`). A run id is a digest of the operator: it tells the page that it is attached,
never which of the operator's clusters it sees. *PracticePage* is the sandbox that drives the hook.

*DrillCoaching* lays `useCoaching` and the assignment page over the phases of `useDrillState`. A
poll is one step (`Snapshot`, `StageResolved`); a decision is sent (`ChooseMove`), served (`Serve`)
and answered apart, so it crosses polls and stages. The page's own steps are `Acknowledge`,
`ReadConsequence`, `ReadBriefing`, `Inspect`, `FinishObserving`, `PickHypothesis`,
`ConfirmHypothesis`, `Resolved`, `Unmount`, `Remount`; `OtherTab` is the learner's second tab.
`book.missteps` is the code's set of acknowledged wrong moves, which are ids; `faced` is a history
variable that keeps the stage too: which wrong move was on a screen that explained it, in which stage
(`Explained`).

*Academy* is `useAcademyProgress` with the platform's `LearningProgressStore`. The client's actions
are `Visit`, `LoadPushes`, `LoadLands`, `LoadFails`, `PushesSettle`, `CompleteLesson`,
`SubmitCheckpoint`, `CompleteLands`, `CompleteFails`, `SolveIncident`, `Refresh`, `Claim`,
`ClaimLands`, `ClaimFails`; `Session` signs in or out. A write on the platform is `ReadRow` and
`SaveRow`, in which an insert may lose its race to a unique index and an update takes the better of
the score it read and its own; `LosePush` is a push that fails. `Issue` checks the certificate's
requirements against the account's rows. What opens a unit, what is offered next and what a
certificate asks (`OpenOn`, `SegmentStatus`, `NextUnit`, `Met`) are translated from `unlocks.ts`,
`progress.ts` and `assessment.ts`, and compared with the platform's own rules (`RequirementsMet`).

### 2.4 RankedPage, LiveGateway, LaunchStream

*RankedPage* is `useRankedLaunch` over connections that break, are superseded and reconnect. A
stream slot holds both ends of one connection: what the platform sent, the frame in transit, the
latest the hook took, how it ended. `mine` says that the connection belongs to the hook's current
epoch. The launch on the platform advances in outline, and only while a stream is open.
*LiveGateway* is `guard.ts`, `live-server.ts` and `live-client.ts`: a request is identified, its body
read, charged to one or two budgets (fixed windows in memory), forwarded under deadlines or as a
stream; a stream's frames are cut into chunks and reassembled by the browser. Every route is one of
four kinds of handler. Time is counted in ticks, and a browser may go away at any step.

### 2.5 Account, ClusterCanvas

*Account* is one user row with Identity's two stamps, the external logins and the session table, and
on every browser the session and theme cookies, the page's user and the settings modal. A call
leaves (`Visit` and the modal's actions), is authenticated and reads its row, writes it (`Serve`; the
concurrency stamp refuses a row that was updated in between), and its answer lands or is lost
(`Lose`), while the page may be reloaded or closed. The theme can be picked before `/auth/me` is
answered (`theme.ts:86`), and signing out needs no session. *ClusterCanvas* separates the cards on
screen (`pods`, `want`) from the curves measured from them (`drawn`, by an effect with a dependency
list), and the press on a card from the click the browser delivers afterwards. `stored` is the dial's
tier on the cluster, `want` what the page holds of it; a dial of `Optional` goes down to none, as the
canary's and the load's do (`Least`, `Turns`). Heights of cards are not modelled: a place is a place.

### 2.6 The labs

*RunEngine* is the engine of `lab-runtime`: phases and telemetry of a run are functions of the clock,
the scenario and the decisions accepted. *ScenarioPlayer* is an asynchronous loop that types a script
while restarts and scrubs leave older loops asleep at an await. *LiveRange* is the polled live range
and its queue, *AiLab* the experiment arena and the observatory, *LabMotion* the animation loop with
its observer and visibility, *OperatorConsole* the transcript of the ranked arena, *HomelabMap* the
topology page's polling and the aggregation of links.

## 3. Runs

| Run | Instance | Shows |
|---|---|---|
| `launch_replicas` | 2 replicas, 2 incidents, no workers | launches, retries and cancels of two replicas in every interleaving: `RatedOnlyIfActivated`, `FailedLaunchNamesNoAttempt`, `LaunchKeepsItsMatch`; what they do to the matches implements `MatchRegister` (`ImplementsRegister`) |
| `launch_reaper` | 1 replica, 1 worker, 1 incident; practice drills, judge, expire | an expired cluster is deleted, whatever it holds, unless it stays unsealable for ever (`ClusterIsReaped`) |
| `launch_settles` | 1 replica, 1 worker; start/end drill, judge, delete | a polled launch leaves the launching state (`LaunchSettles`); a named attempt exists, against ends, verdicts and teardowns (`NamedAttemptsExist`) |
| `launch_gate` | 3 requests of one operator, 2 of another, 4 gates | the gate implements `LaunchSlot`, leaks nothing (`NoIdleEntry`), starves nobody (`WaitersEnter`) |
| `learner` | the four learner surfaces; the graph with a dialled tier and a switched one | `CurvesMeetTheCards`, `ThumbTellsTheTruth`, `PlainPressPicks`; `HeldRunIsWatched`, `LatePollNeverReverts`; `LessonIsForThisIncident`, `DebriefIsTrue`, `MisstepsAreFaced`, `MovesAreEarned`; `ShownIsKept`, `AccountRemembers` |
| `launch_stream` | the page with 1 stream slot and 1 break; the gateway with 2 requests at once, from one account or none | `ClosedStaysClosed`, `BegunByHand`; a launch is followed and its match reached (`LaunchIsFollowed`, `MatchIsReached`); `BudgetHolds`, `StreamHasAReader`, `FramesArriveWhole` |
| `account` | 2 browsers, 2 providers, 3 session ids | `SignInMethodRemains`, `RevokedIsRefused`, `WaitsForAnAnswer`, `PicksStand` |
| `labs` | the seven labs, one at a time | `ReportOwnsUp`, `OutputFollowsTheScript`, `OneLoop`, `AnswersFollowTheirLines`, `OnePollAtATime`, `EveryLinkIsDrawn`, `FeedCatchesUp`, `VerdictStands` |
| `launch_practice`, `drill_repeats`, `academy_scores`, `canvas_wheel` | smallest instance that shows it | four disagreements of section 6 |

Each property is stated in words above its definition. In short, where the name does not say it:
`RatedOnlyIfActivated`: a rated verdict reaches activated matches only. `ImplementsRegister`:
a match is opened once and while no other is under way, started only when opened, decided once, and
rated only if started. `LaunchKeepsItsMatch`: a launch never exchanges its incident or its attempt.
`LatePollNeverReverts`: a snapshot never shows the cluster as it was before a change whose answer the
page already has. `MovesAreEarned`: in an assignment every decision sent follows enough evidence of
this incident, its named fault and no unread consequence. `ShownIsKept`: what a page shows as done is
kept by the account it is backed by, or else by the browser. `BegunByHand`: no reconnect makes a
cluster or retries a failed launch. `BudgetHolds`: never more than twice a budget less one within the
length of a window. `CurvesMeetTheCards`: a measured curve ends on a card that is on screen.
`ReportOwnsUp`: a run seen under pressure for longer than the report's sampling has the burn in its
report, whatever was decided later.

*Bounds of the launch.* There are no counters, so the only bounds are the sizes of the constants.
Two replicas are what the deployment runs and are enough for each race here, which is between one
decision and one write. Two incidents are needed for an attempt to differ from the incident that is
live; with one, an orphan can only be adopted by its own incident. Workers are memoryless between
requests. `Measured` is `{"starting-workloads"}` (nothing in `launch_reaper`, where what the gate
reports does not matter to the teardown): the phases differ only in whether a retry replaces the
cluster, and `"activating-incident"`, which keeps it, is reported by `ReadyTooLate` and the failures
after it. In the gate, three requests of one operator allow one inside, one waiting and one leaving,
and the second operator's requests reuse gate objects; four objects let a new gate be created while
three others are referred to.

*Bounds of the pages.* `learner`: one read and one change in flight (`Refreshes`, `Mutations`), one
change applied to a cluster (`MaxRev`), two clusters (`MaxGen`), ages up to staleness, two moves of
which one is wrong, two stages, two attempts, a course of one segment without prerequisites or a
mastery drill, two writes under way, one score. That is enough for one late answer to cross one
change, for a stage to follow another, and for a start to race a completion; more of each is what
the theorems of `LearnerProofs` cover, which hold for any course and any number of requests. Its
graph has one replica of each of two tiers, a dial from none to two, one cluster change
(`MaxClusters`) and a zoom of one step each way. `launch_stream`: on the page one connection at a
time, one break, one cluster; a superseded connection that overlaps its successor is covered by the
theorems of `LaunchStreamProofs` alone. At the gateway three requests asked in all (`MaxAsked`), a
route of each kind of handler, budgets of one and two requests in windows of two ticks, a stream of
one unreadable frame, a launch, an "end" and a frame after it; three requests cannot exceed twice
the read budget, which is left to theorem `BudgetsHold`, and can exceed the others. `account`: two
browsers, one settings request and one visitor's move each way; one browser may have yet to load.
`labs`: two runs in a window of 14 ticks, four loops and three moves of the player, two polls and
two queued items, three transcript lines, four components. `drill_repeats`: one attempt of two
stages. `academy_scores`: three scores and two writes under way, so that a stored score is read
twice before it is written twice.

*Deadlock* is checked in `launch_reaper`, `launch_settles`, `launch_practice` and `launch_gate`. It
is off in `launch_replicas`, where the incidents run out and a live match has nobody to
end it, and in the runs of pages and labs, where a visitor may do nothing more and the bounds on
their moves end a behaviour.

*Fairness.* `RequestsEnd`: every request ends by itself or by a timeout of its caller, the API
server or the store (weak fairness of `GiveUp`; a request may stop at any step, so liveness never
rests on one that runs to its end). `LaunchIsPolled`: the page polls the launch (the stream advances
it every few seconds); the budgets are real time, so a poll that returns for ever is eventually
late, and the write that records the failure is not lost for ever; hence strong fairness of these
three actions and none of the steps in between. `CompositionSettles`: Crossplane stops writing
status once the cluster matches its spec; if it never did, every versioned write could be lost for
ever. `ReaperRuns`: the reaper runs every minute, and the API server and the store do not fail its
reads, its verdict and its delete for ever. A sealing that the store refuses every time is not
assumed away: it is a `Seal` that is never enabled, which fairness does not help, and
`ClusterIsReaped` names the one state that can stay so (`Unsealable`). Nothing is assumed about
operators: they need not end drills or cancel. In the gate, `SemaphoreSlim` serves asynchronous
waiters in order (strong fairness of `Acquire`), and a request that is inside leaves.
`StreamFairness` (`RankedFairness` while the page is shown): React runs the page's effects, requests
are answered or fail, frames land or their connection breaks (weak fairness of the page's and the
streams' steps), and a reconnect whose timer is set again and again is made in the end (strong
fairness of `Reconnect`). `RangeFairness`: polls go on, every request is answered or fails, and not
every answer with the engine's present queue is missed for ever.

## 4. Proofs

The theorems hold for any values of the constants that satisfy the named assumptions below: any
sets of incidents, replicas, workers, requests, browsers, connections, cards or segments, any number
of requests in flight. Where a state property is listed, the theorem is `Spec => []Property` or
`Spec => Property` for that component's specification.

| Module | Theorem | Property | States |
|---|---|---|---|
| `RankedLaunchProofs` | `TypeCorrect` | - | Every reachable state of the launch, for any number of replicas, workers and incidents, is well typed. |
| `RankedLaunchProofs` | `NamesAreDurable` | `NamedAttemptsExist` | Whatever attempt the LabRun names was opened in the store, whatever request dies between the two writes. |
| `RankedLaunchProofs` | `NoRatingBeforeActivation` | `RatedOnlyIfActivated` | As long as no practice drill is started on the cluster, only an activated match is rated: the hypothesis is Operations without start-drill. |
| `RankedLaunchProofs` | `FirstVerdictStands` | - | Of all the requests that decide one attempt, the first one's verdict stands (`SealedForever`), practice drills included. |
| `RankedLaunchProofs` | `RegisterIsKept` | `ImplementsRegister` | The launch, its cancels and retries, the judge, teardown and reaper implement the abstract register of matches: opened once and one at a time, decided once, rated only if started; without practice drills on the arena. |
| `RankedLaunchProofs` | `FailedLaunchIsClean` | `FailedLaunchNamesNoAttempt` | A failed launch names no attempt, on any number of replicas and workers: a late MarkAttempt has lost the version it would write with. |
| `RankedLaunchProofs` | `MatchIsKept` | `LaunchKeepsItsMatch` | A launch keeps the incident it drew and the attempt it recorded until it is cleared, whichever requests resume it. |
| `LaunchGateProofs` | `GateTypeCorrect` | - | The launch gate is well typed; in particular its semaphore never has more than one permit. |
| `LaunchGateProofs` | `EntriesAreUsed` | `NoIdleEntry` | A gate is in the dictionary only while a request of its operator refers to it. |
| `LaunchGateProofs` | `GateImplementsSlot` | `ImplementsSlot` | The gate implements mutual exclusion per operator: at most one request of an operator is inside. |
| `LearnerProofs` | `CoachingTypeCorrect` | - | The coaching page's book, lesson and reading of the drill are well formed, for any moves, stages, evidence and attempts. |
| `LearnerProofs` | `LessonsDoNotCarryOver` | `LessonIsForThisIncident` | Evidence read and faults named count only for the attempt and stage on screen. |
| `LearnerProofs` | `DebriefsAreTrue` | `DebriefIsTrue` | Every line of a debrief is a move the cluster carries for this attempt and that stage, and is listed once. |
| `LearnerProofs` | `MisstepsAreAcknowledged` | `MisstepsAreFaced` | Where moves are offered, every wrong one of the stage was acknowledged in this attempt, on a screen that explained a wrong move of a stage it was applied in; in sandbox and assignment. |
| `LearnerProofs` | `MovesFollowEvidence` | `MovesAreEarned` | In an assignment every move that is sent follows enough evidence of this incident, its named fault and no unread consequence. |
| `LearnerProofs` | `PracticeTypeCorrect` | - | The cluster, the page that holds it and every request between them are well formed, for any number of reads and changes in flight. |
| `LearnerProofs` | `RunsAreWatched` | `HeldRunIsWatched` | A run on an attached page is polled, or the read that starts the polling is out: no failed, late or dropped first read freezes it. |
| `LearnerProofs` | `NoPollLingers` | - | Only the answer to a change, never a poll or an attach, puts a run on a page that has let go of its cluster. |
| `LearnerProofs` | `PollsNeverRevert` | `LatePollNeverReverts` | A snapshot never shows the cluster as it was before a change whose answer the page already has: any change under way takes the right to set the run from the reads in flight. |
| `LearnerProofs` | `LearnersAreServed` | `HeldRunIsWatched` | The surface that shows the sandbox, its live graph, an assignment and the Academy one at a time keeps the claims of the sandbox, the assignment and the Academy together. |
| `LearnerProofs` | `LearnersLoseNothing` | `AccountRemembers` | No step of any of a learner's pages reverts the cluster shown, sends a move that was not earned or takes a row, completion, clean solve or certificate from the account. |
| `LearnerProofs` | `AcademyTypeCorrect` | - | The account, the browser's rows, the page and the writes under way keep their shape for any course, and only the cluster's units are judged. |
| `LearnerProofs` | `ShownWorkIsKept` | `ShownIsKept` | Work a page shows as done is kept by the account it is backed by, unless its recording is out or has failed, else by the browser. |
| `LearnerProofs` | `NothingIsForgotten` | `AccountRemembers` | No interleaving of starts, completions and judgements takes a row, its completion, a clean solve or a certificate from the account; its score is not among them. |
| `LearnerProofs` | `CertificatesAreEarned` | - | A certificate stands on a finished course with enough clean capstones in the account's rows, whatever the page that asked for it believed. |
| `LearnerProofs` | `OpenedOnRecord` | - | For a learner with an account an assignment opens, and a capstone is offered next, only on work the account has, for any prerequisites. |
| `LearnerProofs` | `ClaimsAgree` | - | The certificate requirements the browser lists are met exactly when the platform's own check of the same rows passes. |
| `LearnerProofs` | `NothingOutstanding` | - | The assessment overview lists nothing outstanding exactly when the assessment is unlocked. |
| `LearnerProofs` | `ContinuesWithUnfinished` | - | The unit offered to continue a segment with is never one that is completed. |
| `LaunchStreamProofs` | `RankedTypeCorrect` | - | The cluster, the page, the launch hook and its connections are well formed, for any number of connections. |
| `LaunchStreamProofs` | `ClosedLaunchesStayClosed` | `ClosedStaysClosed` | A launch that was cancelled, found gone or forgotten with its match stays off the page: no late frame, reconnect timer or broken stream brings it back. |
| `LaunchStreamProofs` | `LaunchesAreBegunByHand` | `BegunByHand` | No reconnect and no tick of a stream makes a cluster or begins a failed launch again: only the first request of a connection a click opened. |
| `LaunchStreamProofs` | `GatewayTypeCorrect` | - | A budget's window in the gateway's memory never counts more than the budget and never outlives its length, for any budgets, routes, visitors and open requests. |
| `LaunchStreamProofs` | `StreamsAreRead` | `StreamHasAReader` | At whatever await of the handler a browser leaves, no stream is left open, or being opened, upstream for it. |
| `LaunchStreamProofs` | `BudgetsHold` | `BudgetHolds` | In any stretch of time as long as a budget's window, wherever it starts, no caller is let through more than twice the budget less one. |
| `LaunchStreamProofs` | `FramesAreWhole` | `FramesArriveWhole` | A browser is shown every readable frame it has read whole, once, in order and up to "end", for any frames and however their bytes are cut into chunks. |
| `AccountProofs` | `AccountTypeCorrect` | - | Every state of the account, its sessions, requests and browsers is well formed, for any browsers, providers, names, links, themes and sessions. |
| `AccountProofs` | `LastSignInMethodRemains` | `SignInMethodRemains` | However the disconnections of any number of browsers interleave, one way to sign in remains, because a handler's write is dropped when another update came between its read and it. |
| `AccountProofs` | `RevokedSessionsAreRefused` | `RevokedIsRefused` | A request that left after its session was revoked reads and writes nothing and is answered as served only if it was a sign-out. |
| `AccountProofs` | `NoControlIsStranded` | `WaitsForAnAnswer` | Every disabled control of the settings modal has a request of its own under way, through losses, reloads, closed tabs and late answers. |
| `AccountProofs` | `PickedThemesStand` | `PicksStand` | No answer changes the theme of a browser in which the visitor has picked one. |
| `CanvasProofs` | `CurvesAlwaysMeet` | `CurvesMeetTheCards` | The measured curves end on the cards on screen, for any tiers and replicas, although the measuring effect does not depend on the switches. |
| `CanvasProofs` | `DialsAreTrue` | `ThumbTellsTheTruth` | A dial at rest shows what the page holds to be asked for, after refusals, changes elsewhere and readings during a drag. |
| `CanvasProofs` | `PressesPick` | `PlainPressPicks` | A press that did not become a drag picks its card and a drag picks none, whatever drag, lost pointer or keyboard click came before. |
| `LabsProofs` | `LoopsAreSingle` | `OneLoop` | However the page is hidden, scrolled and remounted, the browser holds one callback of a scene that is wanted and none of one that is not. |
| `LabsProofs` | `PollsAreSingle` | `OnePollAtATime` | However often the tab is hidden and shown while reads are out, an open topology page polls along one chain, and a hidden one not at all. |
| `LabsProofs` | `VerdictsStand` | `VerdictStands` | No hint comes once the lanes of the experiment are judged, so its verdict stands until the next run. |
| `LabsProofs` | `AnswersAreUnderTheirLines` | `AnswersFollowTheirLines` | Whatever is typed, clicked or announced while a command is out, its answer is read under its own line of the console. |
| `LabsProofs` | `LinksAreDrawn` | `EveryLinkIsDrawn` | Every link between two containers on the map is in exactly one connector, which counts it and is two-way when links go both ways, for any inventory and in whatever order it lists them. |
| `LabsProofs` | `OutputIsTheScript` | `OutputFollowsTheScript` | The terminals show the steps in order, those before the current one whole and nothing of a later one, for any recording and any number of restarts, scrubs and loops left asleep at an await. |
| `LabsProofs` | `ReportsOwnUp` | `ReportOwnsUp` | A run that was under pressure for longer than the report's sampling has the burn in its report, whatever was decided afterwards, for any scenario and spans. |

*RankedLaunch.* `RatedOnlyIfActivated` and `NamedAttemptsExist` speak of the LabRun and the store
and are not inductive: a request in flight may be about to name an attempt or to seal one. `IInv`
adds what such a request may carry (`RequestOK`: one that voids has a void verdict, one that marks
or activates has an attempt that exists, one that seals a rated verdict has an activated attempt
unless the store will refuse it) and what the stored LabRun may name (`RunOK`: without practice
drills a started clock is that of an activated attempt). There is one lemma for each group of
actions, with a step per action. The hypothesis of `NoRatingBeforeActivation`
(`"start-drill" \notin Operations`) is necessary: run `launch_practice` violates the invariant
without it. `FirstVerdictStands` needs types only, and no such hypothesis.

`RegisterIsKept` maps the store and the history of activations to `MatchRegister`. `StoreStep` says
that three actions write them, so every other one is a stutter; from `RequestOK`, `OpenAttempt` is
`Open` (the incident it opens was drawn), `Activate` is `Start` (its attempt is in the store) and
`Seal` is `Decide` or, on a decided attempt, a stutter. The hypothesis is that of
`NoRatingBeforeActivation`, and for the same reason. The register allows a decided match to be
started: a cancel that voids an attempt does not move the LabRun's version, and the launch it races
may still commit the clock (`RankedLaunchOrchestrator.cs:288`, a hazard of the list).

`FailedLaunchIsClean` and `MatchIsKept` rest on `VInv`, the invariant of the versions: a request
whose version is current has read what is stored (`VersionOK`), and at each of its steps it has read
a LabRun in which that step makes sense (`LaunchOK`: no failure while it advances, no incident before
it draws one, no attempt before it opens one). The two together say that a conditional write either
loses or acts on the launch it decided about, which is the whole design of the orchestrator.

*LaunchGate.* `GateInv` relates the three counts: a gate in the dictionary has as many holders as
requests refer to it (`HoldersCounted`), and a permit exactly when nobody is inside
(`PermitsTaken`); a request refers to the gate its operator's entry maps to (`GatesFound`), and no
two operators share one (`GatesApart`). That is what makes eviction by key safe: when the count
reaches zero nobody else can refer to the gate. The refinement is proved from it, the initial states
and step by step.

*Learner's pages.* `PageInv` relates the answers in flight to the cluster and to what the page has
acknowledged: a read that could revert the page has lost the right to set its run. `CoachingInv`
says that what the page's reading of the drill, its book of moves and its lesson are about is one
incident of one attempt; the lesson's own sets are not enough, because a decision crosses stages.
`AInv` adds to the Academy's properties what requests under way allow (a clean row is a completed
one; a page that only reads shows no more than the account; the types need to know that a judged
unit is one the cluster owns). The account's rows only grow (`Below`) and everything the rows open
is monotone in them, which carries the invariant over every write. Three theorems are about the
rules alone, for any rows: `ClaimsAgree`, `NothingOutstanding`, `ContinuesWithUnfinished`.
`LearnersAreServed` and `LearnersLoseNothing` carry the results of three components over to
`LearnerSpec`, the specification of run `learner`: each surface implements its component's
specification, stuttering while another is shown. So does the live graph (`GraphIsAPage`), whose
theorems are in `CanvasProofs`.

*Launch streams.* The theorems are about `RankedSpec` and about the gateway's `Spec`, whose steps
are those of the two ends of `StreamSpec`. `RankedInv`: at most one connection is the hook's own
(`OneIsMine`), a pending reconnect means that none is (`TimerIsAlone`), a cancel silences both when
it is clicked, before its answer closes the launch (`ClosedIsQuiet`), and a connection asks for more
than a resume only when a click opened it (`VerbsByHand`). `GatewayInv`: a request past the page's
own checks has a route on offer, by which its budget is looked up; no window counts more than its
budget or outlives its length; a request whose browser left is never handed on to a stream.
`BudgetHolds` is about any stretch of time, which a fixed window says nothing of: `BudgetInv`
relates the history to the window in memory (`Spread`: while one is open, what it has let through is
its count, its first request came with it, and what is older is at most a budget less one; when none
is open, nothing came in this tick and all that is remembered is at most a budget less one).
`FramesArriveWhole` rests on `PipesOK`: a stream that is being read has met no "end" and holds the
head of at most one frame (`Partial`), so what it holds and the next chunk are whole frames again
(`SplitReads`); and a request that is not yet a stream has read nothing.

*Account.* `AccInv`: a handler about to write holds the user row as it read it, and if no other
update came between, that row is the account (`CallOK`, the concurrency stamp); a request sent after
its session was revoked carries an id that no row opens again (`LateOK`); a control that waits has a
request of its own.

*Canvas.* `CanvasInv`: the dependency list of the measuring effect misses the switches, and the
curves meet the cards all the same because a switch never adds or removes a card's place
(`PlacesByDeps`); a press forgets the click an earlier drag left to be swallowed (`PressOK`).

*Labs.* `LoopOK`: the browser's callbacks of the scene are at most the one the scene holds, at every
pause between the observer, the visibility and the preference. `PollOK`: a page polls by a timer or a
read, never both. `StrainOK`: the instants a run was under pressure are the first of its incident,
before the autoscaler and before any decision, which is why a later decision cannot erase them.
`ConsoleOK`: behind a busy command line, the last line that is not an announcement is the one whose
answer is out. `PlayerOK`: at most one loop is of the current generation and past its first await
(`Writes`), only while the player plays, and the lines it has written of its step are the last on the
terminals (`Begun`); a loop that was superseded is of an older generation for ever. For the map's
links, a fold over the first links of any list has drawn one connector for every two containers
between which it has met a link, with their number (`Tallies`).
`VerdictsStand` needs the order of the two spans only. Each invariant is proved for
its lab's steps and carried over to `LabsSpec`.

*Folds.* The provers cannot instantiate the library's induction theorems, which take a formula as a
parameter. `FoldLemmas` states induction about sets instead (`NatSetInduction`, `BoundedInduction`,
`SubsetInduction`, from the library's well-foundedness of the naturals), and what is proved by
induction is defined as a set of numbers. A fold of the community modules is a `CHOOSE` of a function
on the subsets of what it folds over; `FoldExists` and `TypedFold` show that there is one, so that its
equation may be used, and `Sum`, `Upto` and `FlattenedInTurn` state what the folds in use compute.

*Assumptions*, each evaluated by TLC in every run of its module: `DrillsAssumption`,
`ProcessAssumption`, `OperationsAssumption`, `MeasuredAssumption` (an incident is not a reserved
value, a replica is not a worker, operations and phases are those the code has);
`RequestsAssumption`, `OwnerAssumption`, `GatesAssumption` (finitely many requests, each with an
owner); `BoundsAssumption` of ClusterRun, `CoachingBounds`, `OptionsAreMoves`, `CourseAssumption`;
`RankedBounds`; the gateway's limits, deadlines, routes and `AskedAssumption` (all natural numbers,
budgets positive); `SentAssumption` (a stream is any sequence of the four kinds of frame);
`ProvidersAssumption`, `BoundsAssumption`, `DataAssumption`, `NothingAssumption`,
`SessionsAssumption` of Account; `CanvasBounds`, `CanvasCards`; `RecordingsAssumption` (a recording
is a sequence of at least one event), `WiringsAssumption` (an inventory lists links in sequence);
`FramesAssumption`, `HintsAreOver` (hints end before the lanes are judged, as the constants of
`ExperimentArena.tsx` do), `TimingAssumption` (spans are natural numbers, sampling is positive).

*Checked by TLC only.* Liveness is out of the prover's reach: `ClusterIsReaped`, `LaunchSettles`,
`WaitersEnter`, `LaunchIsFollowed`, `MatchIsReached`, `FeedCatchesUp`. Every safety property that
holds in a run is also a theorem. `RatedOnlyIfActivated` (with practice drills),
`MisstepsAreExplained`, `ScoreNeverFalls` and `WheelStaysOnTheGraph` are refuted in the runs named in
section 6.

## 5. Plan

Models: the judge's frames (stages, streak and delayed faults as unversioned patches of two
snapshots), provisioning and capacity with several operators, the API key cache. Proofs: an abstract
meter that the gateway's budgets implement.

## 6. Disagreements between the code and its documentation

Four are runs with one property that the documentation states and TLC refutes; `PROJECT.json` quotes
the lines.

| Run | Property | What happens |
|---|---|---|
| `launch_practice` | `RatedOnlyIfActivated` | a practice drill started while a launch has its attempt open makes the end of that drill rate the attempt (`HasRatedMatchAsync`) |
| `drill_repeats` | `MisstepsAreExplained` | acknowledged wrong moves are remembered by id for the whole drill, so one made again in a later stage is passed over (`phase.ts:122-131`, against 158-159) |
| `academy_scores` | `ScoreNeverFalls` | two submissions of a checkpoint overlap, and the worse is saved over the better (`LearningProgressStore.cs:165`, against 161) |
| `canvas_wheel` | `WheelStaysOnTheGraph` | the wheel listener is attached while the canvas is not drawn, so the wheel scrolls the page (`useGraphViewport.ts:125`) |

The others were met while modelling. The models behave as the code does; no run refutes a property
for them.

*Launch.* An attempt left active by a failed void is adopted by the next launch, of whatever
incident (`RankedLaunchOrchestrator.cs:484`, comments at 483 and 667). A cancel that read the
cluster before another replica activated it voids the live match (300, against 276-277). A solved
practice drill over an attempt without telemetry makes every teardown throw (`RankedStore.cs:275`,
against `RunReaper.cs:4-5`): the one exception of `ClusterIsReaped`, and the throw ends the reaper's
pass for the clusters after it (`RunReaper.cs:42-54`). The reaper voids a match whose solve is
stamped but not sealed (`RunBroker.cs:2656`, against 2279-2280).

*Canvas and workbench.* A canvas that appears without a listed value changing is not measured
(`useClusterEdges.ts:69-79`). `blockedReason` matches a substring, so it marks checkout for
checkout-canary (`ClusterWorkbench.tsx:303-313`). A keyboard click after a drag whose click never
came is swallowed (`useGraphViewport.ts:143-200`). A press on the slider without a move, followed by
a polled change, commits the old value (`RangeSlider.tsx:79-86`). A topology load in flight when the
page is left schedules another (`useTopology.ts:40-62`); overlapping loads land in any order.

*Academy.* Best times and attempt counts are overwritten as scores are
(`LearningProgressStore.cs:155,167-170`), and a lost insert drops the attempt's row with it (427);
neither is modelled. A lesson is marked started before the load, and a signed-out load overwrites
(`LessonView.tsx:38-40`, `useAcademyProgress.ts:192-222`). A clean solve on a later cluster is not
counted: attempts are unique per run id, and every cluster of an operator has the same
(`LearningDbContext.cs:60`, `RunBroker.cs:113,168`, against `progress.ts:448-449`). A failed
completion says "recorded here for now", and nothing is stored. A load that fails while signed in
falls back to the browser's rows. An in-progress row of the account keeps a local completion from
being pushed (`useAcademyProgress.ts:54-64`); a start racing a completion is swallowed. A segment
mastered before its lessons is never offered again (`progress.ts:187-211, 304-310`). A certificate's
skills are the client's words (`LearningEndpoints.cs:201-208`).

*Practice, coaching and ranked pages.* A late 404 of an old poll releases a newly attached cluster
(`useClusterRun.ts:139-143`). A declined renewal is keyed by the run id, which every cluster of an
operator shares (`ClusterWorkbench.tsx:115`). One dismissal acknowledges every wrong move there is,
also one its screen did not show (`phase.ts:122-131`). `consequenceRead` is reset by stage while the
drill's history is not (`useCoaching.ts:68-81`). A decision clicked in one stage can be served in
the next; a lost answer, or a reload, loses its line, and the debrief then says the solve was clean.
Refreshing the account unmounts the workbench, and with it the debrief
(`AcademyCapstone.tsx:156-158`). A resume answered "active" after the launch was cleared shows it
again; the answer to a cancel clears a launch started since (`useRankedLaunch.ts:123-142, 187-191`).

*Account.* A cleared link is documented to be removed by null and is not (`session.ts:21-22`, against
`Program.cs:464-465`). A save that lost its concurrency race is answered as saved (498-499). A form
sends every field, so two tabs overwrite each other; two quick theme picks are unordered; late
answers show a disconnected provider or a revoked session again; a late refusal deletes a newer
cookie. Two administrators can remove each other (639-661).

*Gateway.* The cancel budget is said to be a launch's way out (`guard.ts:27`), but deleting a run
spends the action budget. A retry spends the stream's budget only. A 504 may hide a call that was
performed. A malformed attempt id is charged and a malformed run id is not. Windows are per replica.

*Labs.* "Scaled ahead of the autoscaler" is reported of every accepted scale, also of one after it
(`engine.ts:463-469`). A run whose time to live is shorter than its scenario ends as "complete"
(197-200); a replayed key is shown with the scenario asked for, not the one it ran (304-308); a
report is dated before it is collected (498). "Queue it and it runs next" never drains the queue
(`LiveView.tsx:94,259`), and a late poll hides an item just queued. A recording's events with a step
and those numbered by their place share numbers (`recording.ts:78-91`). The arena says that every
intervention is in the report, which tells of one of the two hints (`ExperimentArena.tsx:345-348,
495`). `LabMotion` reveals only elements present at mount, and a pointer frame that was pending
tilts the page again after motion was turned off (485-512).

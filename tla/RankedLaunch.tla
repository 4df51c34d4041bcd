---------------------------- MODULE RankedLaunch ----------------------------
(***************************************************************************)
(* The ranked launch of one operator: the requests that provision a        *)
(* disposable cluster, draw an incident, open a rated attempt and commit   *)
(* the match clock, racing every other request that writes the same LabRun *)
(* or seals the same attempt.                                              *)
(*                                                                         *)
(* The LabRun of an operator has a name derived from the owner key, so the *)
(* operator has at most one (RunBroker.RunIdForOwner) and the module keeps *)
(* one record, run.  The store of attempts is outcome, a function on the   *)
(* incidents: a drawn incident carries a fresh seed and the store admits a *)
(* seed once per operator, so an attempt is named by the incident it was   *)
(* opened for.                                                             *)
(*                                                                         *)
(* A LabRun carries a resourceVersion that every write replaces and that   *)
(* never repeats.  Only its equality with the version a request has read   *)
(* is ever tested, so the module keeps that fact: current is the set of    *)
(* requests whose version is the stored one.                               *)
(***************************************************************************)
CONSTANTS
    Drills,      \* the incidents that can be drawn, one seed each
    Replicas,    \* the API replicas; each serves one launch request at a time
    Workers,     \* the requests that do not pass the launch gate
    Operations,  \* the operations the workers perform
    Measured     \* the phases the launch gate can report before it is ready

None == "none"
Practice == "practice"

Phases == {"none", "provisioning", "starting-workloads", "verifying-telemetry",
           "activating-incident", "active", "launch-failed"}

AllOperations == {"start-drill", "end-drill", "delete", "expire", "judge"}

ASSUME DrillsAssumption == None \notin Drills /\ Practice \notin Drills

ASSUME ProcessAssumption == Replicas \cap Workers = {}

ASSUME OperationsAssumption == Operations \subseteq AllOperations

ASSUME MeasuredAssumption ==
    Measured \subseteq {"provisioning", "starting-workloads", "verifying-telemetry"}

VARIABLES
    run,        \* the operator's LabRun, as the API server stores it
    current,    \* the requests that hold run's stored resourceVersion
    outcome,    \* the outcome of the attempt on each incident, None if not opened
    activated,  \* the attempts whose match clock was committed (history)
    req         \* what each replica or worker is doing

vars == <<run, current, outcome, activated, req>>
store == <<outcome, activated>>

Processes == Replicas \cup Workers

-----------------------------------------------------------------------------
(* RankedOutcomes and the shape of the state.                              *)

Rated == {"completed", "failed", "forfeited", "expired"}
Final == Rated \cup {"void"}
Outcomes == Final \cup {None, "active"}

Attempts == Drills \cup {None}

Reasons == {"blocked", "timeout", "sealed", "unmaterialized"}
Notes == [phase : Phases, reason : Reasons \cup {None}]
NoFailure == [phase |-> None, reason |-> None]

LabRuns == [life : {"absent", "live", "deleting"},
            drill : Attempts \cup {Practice},     \* drillId, mode and clock
            attempt : Attempts,                   \* ranked-attempt-id
            terminal : SUBSET {"solved", "voided"},
            launched : BOOLEAN,                   \* ranked-launch-id
            phase : Phases,
            failure : Notes,
            incident : Attempts,
            marked : Attempts]                    \* ranked-launch-attempt

Blank == [life |-> "absent", drill |-> None, attempt |-> None, terminal |-> {},
          launched |-> FALSE, phase |-> None, failure |-> NoFailure,
          incident |-> None, marked |-> None]

Steps == {"idle", "provision", "open", "advance", "record", "draw", "resolve",
          "open-attempt", "mark", "activate", "fail", "void", "rate", "reset",
          "discard", "expire", "delete", "start", "end", "judge", "judge-practice"}

Returns == {"idle", "reset", "discard", "delete", "end"}

Requests == [pc : Steps,
             seen : LabRuns,               \* the LabRun as last read
             target : Attempts,            \* the attempt to mark or to seal
             verdict : Final \cup {None},  \* the outcome to seal it with
             note : Notes,                 \* the phase or failure to record
             then : Returns,               \* where sealing returns to
             after : {"idle", "provision"}]  \* where a teardown returns to

Idle == [pc |-> "idle", seen |-> Blank, target |-> None, verdict |-> None,
         note |-> NoFailure, then |-> "idle", after |-> "idle"]

\* c with every launch annotation removed.
WithoutLaunch(c) ==
    [c EXCEPT !.launched = FALSE, !.phase = None, !.failure = NoFailure,
              !.incident = None, !.marked = None]

ClockStarted(c) == c.drill # None
IsLiveRankedMatch(c) == c.drill \in Drills

Active == {d \in Drills : outcome[d] = "active"}

TypeOK ==
    /\ run \in LabRuns
    /\ current \subseteq Processes
    /\ outcome \in [Drills -> Outcomes]
    /\ activated \subseteq Drills
    /\ req \in [Processes -> Requests]

Init ==
    /\ run = Blank
    /\ current = {}
    /\ outcome = [d \in Drills |-> None]
    /\ activated = {}
    /\ req = [p \in Processes |-> Idle]

-----------------------------------------------------------------------------
(* The three ways a request touches the LabRun.  q is what the request     *)
(* does next; a request that keeps no cluster holds no version.              *)

At(p, step) == req[p].pc = step

Holding(S, p, q) == IF q.seen = Blank THEN S \ {p} ELSE S \cup {p}

\* A step on local data or on the store.
Moves(p, q) ==
    /\ req' = [req EXCEPT ![p] = q]
    /\ current' = IF q.seen = Blank THEN current \ {p} ELSE current
    /\ UNCHANGED run

\* A read of the stored LabRun, version included.
Reads(p, q) ==
    /\ req' = [req EXCEPT ![p] = q]
    /\ current' = Holding(current, p, q)
    /\ UNCHANGED run

\* Mutant: the patch leaves the expected version out.
BlindWrite(p, new, q) ==
    /\ run.life # "absent"
    /\ run' = new
    /\ req' = [req EXCEPT ![p] = q]
    /\ current' = Holding(IF new = run THEN current ELSE {}, p, q)

\* A merge patch that carries the version it expects.
CompareAndSet(p, new, q) ==
    /\ p \in current
    /\ run' = new
    /\ req' = [req EXCEPT ![p] = q]
    /\ current' = Holding(IF new = run THEN current ELSE {}, p, q)

\* A merge patch that carries no version: it lands on whatever is stored.
PatchRun(p, new, q) ==
    /\ run.life # "absent"
    /\ run' = new
    /\ req' = [req EXCEPT ![p] = q]
    /\ current' = (IF new = run THEN current ELSE {}) \ {p}

-----------------------------------------------------------------------------
(* Sealing an attempt.                                                     *)

\* Mutant: an attempt is sealed whatever its outcome already is.
FinalizeAgain(d, verdict) ==
    /\ verdict = "completed" => d \in activated
    /\ outcome' = [outcome EXCEPT ![d] = verdict]
    /\ UNCHANGED activated

\* Mutant: sealing a sealed attempt is an error instead of a no-op.
FinalizeOnce(d, verdict) ==
    /\ d \in Active
    /\ verdict = "completed" => d \in activated
    /\ outcome' = [outcome EXCEPT ![d] = verdict]
    /\ UNCHANGED activated

\* FinalizeAsync: one serializable transaction, first verdict wins.  A match
\* cannot be completed without telemetry, and only a live match records any.
Finalize(d, verdict) ==
    /\ \/ /\ d \in Active
          /\ verdict = "completed" => d \in activated
          /\ outcome' = [outcome EXCEPT ![d] = verdict]
       \/ d \notin Active /\ UNCHANGED outcome
    /\ UNCHANGED activated

TerminalOutcome(c, interrupted) ==
    IF "solved" \in c.terminal THEN "completed"
    ELSE IF "voided" \in c.terminal THEN "void" ELSE interrupted

\* What process p does next, keeping the cluster c only to write over it.
Goto(p, step, c) ==
    IF step = "idle" THEN Idle
    ELSE [Idle EXCEPT !.pc = step, !.after = req[p].after,
                      !.seen = IF step = "reset" THEN c ELSE Blank]

\* FinalizeRankedAsync: the attempt the cluster names gets the verdict.
ToRate(p, c, verdict, then) ==
    [Goto(p, "rate", c) EXCEPT !.target = c.attempt, !.verdict = verdict, !.then = then]

\* VoidLaunchAttemptAsync and VoidUnactivatedLaunchAttemptAsync: a launch that
\* has not started the clock gives up its attempt.
ToVoid(p, c, then) ==
    [Goto(p, "void", c) EXCEPT !.seen = Goto(p, then, c).seen, !.target = c.marked,
                               !.verdict = "void", !.then = then]

VoidLaunchAttempt(p, c, then) ==
    IF ClockStarted(c) THEN Goto(p, then, c) ELSE ToVoid(p, c, then)

Sealing(p) == At(p, "void") \/ At(p, "rate")

Resume(p) == Goto(p, req[p].then, req[p].seen)

\* No attempt id on the cluster: ask the store for the operator's active one.
FindActive(p) ==
    /\ Sealing(p)
    /\ req[p].target = None
    /\ \/ \E d \in Active : Moves(p, [req[p] EXCEPT !.target = d])
       \/ Active = {} /\ Moves(p, Resume(p))
    /\ UNCHANGED store

Seal(p) ==
    /\ Sealing(p)
    /\ req[p].target # None
    /\ Finalize(req[p].target, req[p].verdict)
    /\ Moves(p, Resume(p))

\* Voiding the attempt of a launch is best effort: the exception is logged.
VoidSwallowed(p) ==
    /\ At(p, "void")
    /\ req[p].target # None
    /\ Moves(p, Resume(p))
    /\ UNCHANGED store

-----------------------------------------------------------------------------
(* LaunchAsync: find the caller's cluster and decide where to go on.       *)

Found == IF run.life = "live" THEN run ELSE Blank

\* Where a launch holding cluster c continues; refusals and a failed launch
\* end the request.
Continue(p, c) ==
    IF c.life # "live" \/ c.drill # None \/ (c.launched /\ c.failure # NoFailure) THEN Idle
    ELSE [req[p] EXCEPT !.pc = IF c.launched THEN "advance" ELSE "open",
                        !.seen = c, !.after = "idle"]

ResumeLaunch(r) ==
    /\ At(r, "idle")
    /\ Continue(r, Found) # Idle
    /\ Reads(r, Continue(r, Found))
    /\ UNCHANGED store

\* ?retry on a failed launch: void its attempt, then reset or replace.
RetryLaunch(r) ==
    /\ At(r, "idle")
    /\ Found.failure # NoFailure
    /\ ~IsLiveRankedMatch(Found)
    /\ \E start \in {"idle", "provision"} :
         Reads(r, [VoidLaunchAttempt(r, Found, "reset") EXCEPT !.after = start])
    /\ UNCHANGED store

\* The broker returns the cluster that is live or creates it; one that is
\* still being collected is refused.
ProvisionArena(r) ==
    /\ At(r, "provision") \/ At(r, "idle")
    /\ run.life = "absent"
    /\ LET made == [Blank EXCEPT !.life = "live"]
       IN /\ run' = made
          /\ req' = [req EXCEPT ![r] = Continue(r, made)]
          /\ current' = {r}
    /\ UNCHANGED store

ProvisionFinds(r) ==
    /\ At(r, "provision")
    /\ run.life # "absent"
    /\ Reads(r, Continue(r, Found))
    /\ UNCHANGED store

OpenLaunch(r) ==
    /\ At(r, "open")
    /\ LET new == [run EXCEPT !.launched = TRUE, !.phase = "provisioning",
                              !.failure = NoFailure]
       IN CompareAndSet(r, new, [req[r] EXCEPT !.pc = "advance", !.seen = new])
    /\ UNCHANGED store

\* The write lost its race: the request goes on with whatever it re-reads.
OpenLaunchLost(r) ==
    /\ At(r, "open")
    /\ r \notin current
    /\ run.life # "absent"
    /\ run.failure = NoFailure
    /\ Reads(r, [req[r] EXCEPT !.pc = "advance", !.seen = run])
    /\ UNCHANGED store

-----------------------------------------------------------------------------
(* AdvanceAsync: one bounded step, decided by the measured gate.           *)

Note(phase, reason) == [phase |-> phase, reason |-> reason]

Waiting(r) ==
    /\ At(r, "advance")
    /\ \E g \in Measured : Moves(r, [req[r] EXCEPT !.pc = "record", !.note = Note(g, None)])
    /\ UNCHANGED store

WaitedTooLong(r) ==
    /\ At(r, "advance")
    /\ req[r].seen.launched
    /\ \E g \in Measured : Moves(r, [req[r] EXCEPT !.pc = "fail", !.note = Note(g, "blocked")])
    /\ UNCHANGED store

Ready(r) ==
    /\ At(r, "advance")
    /\ req[r].seen.life = "live"
    /\ Moves(r, [req[r] EXCEPT !.pc = "record", !.note = Note("activating-incident", None)])
    /\ UNCHANGED store

ReadyTooLate(r) ==
    /\ At(r, "advance")
    /\ req[r].seen.life = "live"
    /\ req[r].seen.launched
    /\ Moves(r, [req[r] EXCEPT !.pc = "fail", !.note = Note("activating-incident", "timeout")])
    /\ UNCHANGED store

\* The load generator is not in the model: the write only moves the version.
StartTraffic(r) ==
    /\ At(r, "record")
    /\ req[r].note.phase \in Measured
    /\ r \in current
    /\ current' = {r}
    /\ UNCHANGED <<run, req, store>>

\* Someone else turned it on first (another replica, a drill, the operator's
\* own slider): the request goes on with the LabRun it has just read.
TrafficRunning(r) ==
    /\ At(r, "record")
    /\ req[r].note.phase \in Measured
    /\ run.life # "absent"
    /\ Reads(r, [req[r] EXCEPT !.seen = run])
    /\ UNCHANGED store

AfterRecord(r, c) ==
    IF req[r].note.phase # "activating-incident" THEN Idle
    ELSE [req[r] EXCEPT !.pc = IF c.incident = None THEN "draw" ELSE "resolve",
                        !.seen = c, !.note = NoFailure]

RecordPhase(r) ==
    /\ At(r, "record")
    /\ LET new == [run EXCEPT !.phase = req[r].note.phase]
       IN CompareAndSet(r, new, AfterRecord(r, new))
    /\ UNCHANGED store

\* Losing this write is ignored: the request keeps the cluster it has read.
RecordPhaseLost(r) ==
    /\ At(r, "record")
    /\ r \notin current
    /\ Moves(r, AfterRecord(r, req[r].seen))
    /\ UNCHANGED store

-----------------------------------------------------------------------------
(* ActivateAsync: draw, open the attempt, record it, commit the clock.     *)

DrawIncident(r) ==
    /\ At(r, "draw")
    /\ \E d \in Drills :
         /\ outcome[d] = None
         /\ LET new == [run EXCEPT !.incident = d]
            IN CompareAndSet(r, new, [req[r] EXCEPT !.pc = "resolve", !.seen = new])
    /\ UNCHANGED store

\* The recorded incident no longer has a definition.
Unmaterialized(r) ==
    /\ At(r, "resolve")
    /\ Moves(r, [req[r] EXCEPT !.pc = "fail",
                               !.note = Note("activating-incident", "unmaterialized")])
    /\ UNCHANGED store

ResumeAttempt(r) ==
    /\ At(r, "resolve")
    /\ req[r].seen.marked \in Active
    /\ Moves(r, [req[r] EXCEPT !.pc = "activate", !.target = req[r].seen.marked])
    /\ UNCHANGED store

AttemptSealed(r) ==
    /\ At(r, "resolve")
    /\ req[r].seen.marked # None
    /\ req[r].seen.marked \notin Active
    /\ Moves(r, [req[r] EXCEPT !.pc = "fail", !.note = Note("activating-incident", "sealed")])
    /\ UNCHANGED store

NoAttempt(r) ==
    /\ At(r, "resolve")
    /\ req[r].seen.marked = None
    /\ Active = {}
    /\ Moves(r, [req[r] EXCEPT !.pc = "open-attempt"])
    /\ UNCHANGED store

\* An active attempt on the same run id is taken for this launch's own, both
\* before opening one and after the store has refused to.
AdoptAttempt(r) ==
    /\ At(r, "resolve") \/ At(r, "open-attempt")
    /\ req[r].seen.marked = None
    /\ \E d \in Active : Moves(r, [req[r] EXCEPT !.pc = "mark", !.target = d])
    /\ UNCHANGED store

\* Mutant: the row is never saved.
OpenAttemptUnsaved(r) ==
    /\ At(r, "open-attempt")
    /\ Active = {}
    /\ outcome[req[r].seen.incident] = None
    /\ Moves(r, [req[r] EXCEPT !.pc = "mark", !.target = req[r].seen.incident])
    /\ UNCHANGED store

\* BeginAsync: refused while an attempt is active, and by the seed's unique
\* index when the incident has been played.
OpenAttempt(r) ==
    /\ At(r, "open-attempt")
    /\ Active = {}
    /\ outcome[req[r].seen.incident] = None
    /\ outcome' = [outcome EXCEPT ![req[r].seen.incident] = "active"]
    /\ Moves(r, [req[r] EXCEPT !.pc = "mark", !.target = req[r].seen.incident])
    /\ UNCHANGED activated

MarkAttempt(r) ==
    /\ At(r, "mark")
    /\ LET new == [run EXCEPT !.marked = req[r].target]
       IN CompareAndSet(r, new, [req[r] EXCEPT !.pc = "activate", !.seen = new])
    /\ UNCHANGED store

\* The fault, the drill, the clock and the attempt land in one write.
Activate(r) ==
    /\ At(r, "activate")
    /\ CompareAndSet(r, [run EXCEPT !.drill = req[r].seen.incident,
                                    !.attempt = req[r].target,
                                    !.terminal = {},
                                    !.phase = "active",
                                    !.failure = NoFailure,
                                    !.marked = req[r].target], Idle)
    /\ activated' = activated \cup {req[r].target}
    /\ UNCHANGED outcome

-----------------------------------------------------------------------------
(* FailAsync, ResetAsync, AbandonAsync.                                    *)

\* Mutant: the failed launch keeps naming its attempt.
MarkFailedKeepsAttempt(r) ==
    /\ At(r, "fail")
    /\ CompareAndSet(r, [run EXCEPT !.phase = "launch-failed", !.failure = req[r].note],
                     VoidLaunchAttempt(r, req[r].seen, "idle"))
    /\ UNCHANGED store

\* Mutant: the phase is recorded and the reason is not.
MarkFailedNoReason(r) ==
    /\ At(r, "fail")
    /\ CompareAndSet(r, [run EXCEPT !.phase = "launch-failed", !.marked = None],
                     VoidLaunchAttempt(r, req[r].seen, "idle"))
    /\ UNCHANGED store

\* The durable marker first, then the attempt of the cluster as it was read.
MarkFailed(r) ==
    /\ At(r, "fail")
    /\ CompareAndSet(r, [run EXCEPT !.phase = "launch-failed",
                                    !.failure = req[r].note,
                                    !.marked = None],
                     VoidLaunchAttempt(r, req[r].seen, "idle"))
    /\ UNCHANGED store

\* Lost the race to a request that recorded the same failure.
FailureStands(r) ==
    /\ At(r, "fail")
    /\ r \notin current
    /\ run.life # "absent"
    /\ run.failure = req[r].note
    /\ Moves(r, VoidLaunchAttempt(r, req[r].seen, "idle"))
    /\ UNCHANGED store

\* A launch that died waiting for the platform gets a new cluster.
ReplaceCluster(r) ==
    /\ At(r, "reset")
    /\ req[r].seen.failure.phase \in {"provisioning", "starting-workloads"}
    /\ Moves(r, Goto(r, "discard", Blank))
    /\ UNCHANGED store

ClearLaunch(r) ==
    /\ At(r, "reset")
    /\ req[r].seen.failure.phase \notin {"provisioning", "starting-workloads"}
    /\ LET new == WithoutLaunch(run) IN CompareAndSet(r, new, Continue(r, new))
    /\ UNCHANGED store

ClearLaunchLost(r) ==
    /\ At(r, "reset")
    /\ req[r].seen.failure.phase \notin {"provisioning", "starting-workloads"}
    /\ r \notin current
    /\ run.failure = NoFailure
    /\ Reads(r, Continue(r, run))
    /\ UNCHANGED store

AbandonLaunch(r) ==
    /\ At(r, "idle")
    /\ Found.launched
    /\ ~ClockStarted(Found)
    /\ Reads(r, VoidLaunchAttempt(r, Found, "discard"))
    /\ UNCHANGED store

-----------------------------------------------------------------------------
(* Teardown: DeleteRunAsync for its owner, DeleteExpiredAsync for the      *)
(* reaper.  Both read the LabRun again, seal what it holds and delete it.  *)

StartDelete(w) ==
    /\ "delete" \in Operations
    /\ At(w, "idle")
    /\ run.life # "absent"
    /\ Moves(w, [Idle EXCEPT !.pc = "discard"])
    /\ UNCHANGED store

\* The reaper picks a LabRun whose age exceeds its time to live.
StartExpire(w) ==
    /\ "expire" \in Operations
    /\ At(w, "idle")
    /\ run.life # "absent"
    /\ Moves(w, [Idle EXCEPT !.pc = "expire"])
    /\ UNCHANGED store

\* Mutant: teardown does not look at the match clock.
SealWithoutClock(p, interrupted) == ToRate(p, run, interrupted, "delete")

\* An unactivated attempt is voided; a clocked cluster that is ranked, or has
\* an active attempt, is a rated match and is decided.
SealBeforeDelete(p, interrupted) ==
    IF ClockStarted(run)
    THEN ToRate(p, run, interrupted, "delete")
    ELSE ToVoid(p, run, "delete")

Discard(p) ==
    /\ At(p, "discard")
    /\ run.life # "absent"
    /\ Reads(p, SealBeforeDelete(p, TerminalOutcome(run, "forfeited")))
    /\ UNCHANGED store

\* The reaper voids a match whose infrastructure it finds failed.
Expire(p) ==
    /\ At(p, "expire")
    /\ run.life # "absent"
    /\ \E verdict \in {TerminalOutcome(run, "expired"), "void"} :
         Reads(p, SealBeforeDelete(p, verdict))
    /\ UNCHANGED store

AfterDelete(p) ==
    IF req[p].after = "idle" THEN Idle
    ELSE [Idle EXCEPT !.pc = req[p].after]

NothingToDiscard(p) ==
    /\ At(p, "discard") \/ At(p, "expire") \/ At(p, "delete")
    /\ run.life = "absent"
    /\ Moves(p, AfterDelete(p))
    /\ UNCHANGED store

Delete(p) ==
    /\ At(p, "delete")
    /\ run.life # "absent"
    /\ run' = [run EXCEPT !.life = "deleting"]
    /\ current' = (IF run.life = "deleting" THEN current ELSE {}) \ {p}
    /\ req' = [req EXCEPT ![p] = AfterDelete(p)]
    /\ UNCHANGED store

-----------------------------------------------------------------------------
(* Practice drills, and the end of any drill: patches without a version.   *)

StartDrill(w) ==
    /\ "start-drill" \in Operations
    /\ At(w, "idle")
    /\ run.life # "absent"
    /\ run.drill = None
    /\ Reads(w, [Idle EXCEPT !.pc = "start"])
    /\ UNCHANGED store

StartDrillPatch(w) ==
    /\ At(w, "start")
    /\ PatchRun(w, [run EXCEPT !.drill = Practice, !.attempt = None, !.terminal = {}], Idle)
    /\ UNCHANGED store

\* HasRatedMatchAsync: a ranked cluster, or any clock with an active attempt.
EndDrill(w) ==
    /\ "end-drill" \in Operations
    /\ At(w, "idle")
    /\ run.life # "absent"
    /\ Reads(w, IF ClockStarted(run)
                THEN ToRate(w, run, TerminalOutcome(run, "forfeited"), "end")
                ELSE [Idle EXCEPT !.pc = "end"])
    /\ UNCHANGED store

EndDrillPatch(w) ==
    /\ At(w, "end")
    /\ PatchRun(w, [WithoutLaunch(run) EXCEPT !.drill = None, !.attempt = None,
                                           !.terminal = {}], Idle)
    /\ UNCHANGED store

-----------------------------------------------------------------------------
(* The snapshot: EvaluateDrillAsync and VoidRankedInfrastructureFailure,   *)
(* reduced to the receipts they write and the attempt they seal.           *)

Judge(w) ==
    /\ "judge" \in Operations
    /\ At(w, "idle")
    /\ run.life # "absent"
    /\ ClockStarted(run)
    /\ Reads(w, IF run.terminal # {}
                THEN IF IsLiveRankedMatch(run)
                     THEN ToRate(w, run, TerminalOutcome(run, None), "idle")
                     ELSE Idle
                ELSE IF IsLiveRankedMatch(run)
                THEN [Idle EXCEPT !.pc = "judge", !.target = run.attempt]
                ELSE [Idle EXCEPT !.pc = "judge-practice"])
    /\ UNCHANGED store

\* The receipt lands on whatever is stored; the attempt is then the one named
\* by the patched LabRun.
WithReceipt(receipt) == [run EXCEPT !.terminal = @ \cup {receipt}]

JudgeSolved(w) ==
    /\ At(w, "judge")
    /\ PatchRun(w, WithReceipt("solved"), ToRate(w, run, "completed", "idle"))
    /\ UNCHANGED store

JudgePractice(w) ==
    /\ At(w, "judge-practice")
    /\ PatchRun(w, WithReceipt("solved"), Idle)
    /\ UNCHANGED store

\* Voiding looks at the patched LabRun's mode before it seals.
JudgeVoided(w) ==
    /\ At(w, "judge")
    /\ PatchRun(w, WithReceipt("voided"),
                IF IsLiveRankedMatch(run) THEN ToRate(w, run, "void", "idle") ELSE Idle)
    /\ UNCHANGED store

\* The patch failed: the verdict is sealed from the LabRun as it was read.
ReceiptLost(w) ==
    /\ At(w, "judge")
    /\ \E verdict \in {"completed", "void"} :
         Moves(w, [req[w] EXCEPT !.pc = "rate", !.verdict = verdict])
    /\ UNCHANGED store

-----------------------------------------------------------------------------
(* The environment.                                                        *)

\* A cancelled caller, a lost write that ends a request, an exception, or the
\* death of the replica.
GiveUp(p) ==
    /\ req[p] # Idle
    /\ Moves(p, Idle)
    /\ UNCHANGED store

\* The composition's controllers update the LabRun's status.
Reconcile ==
    /\ run.life # "absent"
    /\ current # {}
    /\ current' = {}
    /\ UNCHANGED <<run, req, store>>

Collected ==
    /\ run.life = "deleting"
    /\ run' = Blank
    /\ current' = {}
    /\ UNCHANGED <<req, store>>

Launching(r) ==
    \/ ResumeLaunch(r) \/ RetryLaunch(r) \/ AbandonLaunch(r)
    \/ ProvisionArena(r) \/ ProvisionFinds(r)
    \/ OpenLaunch(r) \/ OpenLaunchLost(r)
    \/ Waiting(r) \/ WaitedTooLong(r) \/ Ready(r) \/ ReadyTooLate(r)
    \/ StartTraffic(r) \/ TrafficRunning(r) \/ RecordPhase(r) \/ RecordPhaseLost(r)
    \/ DrawIncident(r) \/ Unmaterialized(r)
    \/ ResumeAttempt(r) \/ AttemptSealed(r) \/ NoAttempt(r) \/ AdoptAttempt(r)
    \/ OpenAttempt(r) \/ MarkAttempt(r) \/ Activate(r)
    \/ MarkFailed(r) \/ FailureStands(r)
    \/ ReplaceCluster(r) \/ ClearLaunch(r) \/ ClearLaunchLost(r)

Working(w) ==
    \/ StartDelete(w) \/ StartExpire(w) \/ Expire(w)
    \/ StartDrill(w) \/ StartDrillPatch(w)
    \/ EndDrill(w) \/ EndDrillPatch(w)
    \/ Judge(w) \/ JudgeSolved(w) \/ JudgePractice(w) \/ JudgeVoided(w) \/ ReceiptLost(w)

Shared(p) ==
    \/ FindActive(p) \/ Seal(p) \/ VoidSwallowed(p)
    \/ Discard(p) \/ NothingToDiscard(p) \/ Delete(p)
    \/ GiveUp(p)

Next ==
    \/ \E r \in Replicas : Launching(r)
    \/ \E w \in Workers : Working(w)
    \/ \E p \in Processes : Shared(p)
    \/ Reconcile
    \/ Collected

Spec == Init /\ [][Next]_vars

-----------------------------------------------------------------------------
(* Fairness.                                                               *)

\* Every request ends: its caller, the platform and the store have timeouts.
RequestsEnd == \A p \in Processes : WF_vars(GiveUp(p))

\* The page polls the launch.  The phase budgets run in real time, so a poll
\* that comes back for ever is one day past a budget, and the write that
\* records the failure is not lost for ever.
LaunchIsPolled ==
    \A r \in Replicas :
        /\ SF_vars(ResumeLaunch(r))
        /\ SF_vars(WaitedTooLong(r) \/ ReadyTooLate(r))
        /\ SF_vars(MarkFailed(r))

\* The composition stops writing status once the cluster is what its spec says.
CompositionSettles == <>[][~Reconcile]_vars

\* The reaper runs every minute, and the API server does not fail it for ever;
\* nothing is asked of a sealing that throws every time, which is a Seal that is
\* never enabled.
ReaperRuns ==
    \A w \in Workers :
        /\ SF_vars(StartExpire(w))
        /\ SF_vars(Expire(w))
        /\ SF_vars(req[w].then = "delete" /\ FindActive(w))
        /\ SF_vars(req[w].then = "delete" /\ Seal(w))
        /\ SF_vars(Delete(w))

PolledSpec == Spec /\ RequestsEnd /\ LaunchIsPolled /\ CompositionSettles

ReapedSpec == Spec /\ (\A w \in Workers : WF_vars(GiveUp(w))) /\ ReaperRuns

-----------------------------------------------------------------------------
(* Properties.                                                             *)

\* A rating moves only for a match whose clock was committed: no verdict that
\* is rated reaches an attempt that was never activated, whichever of cancel,
\* retry, failure, end, teardown and reaper seals it (RunBroker.cs:2585-2592).
\* Holds as long as no practice drill is started on the same cluster.
RatedOnlyIfActivated == \A d \in Drills : outcome[d] \in Rated => d \in activated

\* Whatever attempt the LabRun names, for the launch or for the live match,
\* is in the store: a crash between the two writes leaves an attempt that is
\* not named yet, never a name without an attempt.
NamedAttemptsExist ==
    \A d \in {run.marked, run.attempt} \ {None} : outcome[d] # None

\* A failed launch names no attempt, so a retry cannot resume the one that
\* was given up, even when another replica marked it while the launch failed.
FailedLaunchNamesNoAttempt == run.failure # NoFailure => run.marked = None

\* The first verdict stands: end, judge, cancel, teardown and the reaper may
\* all decide the same attempt, and the rating moves for one of them.
SealedForever ==
    [][\A d \in Drills : outcome[d] \in Final => outcome'[d] = outcome[d]]_vars

\* Every interleaving of launches, cancels, retries, drills, verdicts and
\* teardowns gives the matches the life MatchRegister describes: opened once
\* and one at a time, decided once, rated only if started.
Register == INSTANCE MatchRegister WITH Matches <- Drills, started <- activated

ImplementsRegister == Register!Spec

\* A launch never exchanges the incident it drew or the attempt it recorded:
\* whoever resumes it resumes the same match, until the launch is cleared.
LaunchKeepsItsMatch ==
    [][/\ run.incident # None => run'.incident \in {run.incident, None}
       /\ run.marked # None => run'.marked \in {run.marked, None}]_vars

\* A launch that is polled ends: it goes live, it fails, or somebody takes the
\* cluster for something else.
LaunchOpen ==
    run.life = "live" /\ run.launched /\ run.drill = None /\ run.failure = NoFailure

LaunchSettles == LaunchOpen ~> ~LaunchOpen

\* What no teardown gets past: a solve stamped on the cluster, by a practice drill,
\* over an attempt whose match never began.  The attempt would be completed, which
\* throws for want of telemetry (RankedStore.cs:275), and the throw ends the pass.
Unsealable == "solved" \in run.terminal /\ Active \ activated # {}

\* A cluster past its time to live is torn down: it "would hold a capacity slot
\* forever" otherwise (RunReaper.cs:3-7).  Only one that stays unsealable for ever
\* is kept; every other attempt, clock, failure and drill it may hold, practice
\* drills included, leaves the reaper a way.
ClusterIsReaped == run.life = "live" ~> (run.life # "live" \/ []Unsealable)

=============================================================================

------------------------- MODULE RankedLaunchProofs -------------------------
EXTENDS RankedLaunch, TLAPS
(***************************************************************************)
(* RatedOnlyIfActivated and NamedAttemptsExist speak of the LabRun and the *)
(* store only and are not inductive: a request in flight may be about to   *)
(* name an attempt or to seal one.  IInv adds what such a request may      *)
(* carry, RequestOK.                                                       *)
(*                                                                         *)
(* The proof has one lemma per group of actions of Next for the types      *)
(* (LaunchingType, WorkingType, SharedType) and one for the rest of the    *)
(* invariant (LaunchingKeeps, WorkingKeeps, SharedKeeps), each with a step *)
(* per action; NextIInv joins them.  RegisterIsKept maps the steps to      *)
(* those of MatchRegister: only three actions write the store.             *)
(*                                                                         *)
(* The second half proves what the resourceVersion is for.  VInv says that *)
(* holding the stored version is having read what is stored, and what a    *)
(* launch has read at each of its steps; from it follow that a failed      *)
(* launch names no attempt and that a launch keeps its match.              *)
(***************************************************************************)

\* The empty failure note is a note.
LEMMA NoFailureType == NoFailure \in Notes
  BY DEF NoFailure, Notes, Phases, Reasons, None

\* An absent LabRun is a LabRun.
LEMMA BlankType == Blank \in LabRuns
  BY DEF Blank, LabRuns, Phases, Notes, NoFailure, Reasons, Attempts, None

\* A request that does nothing is a request.
LEMMA IdleType == Idle \in Requests
  BY BlankType DEF Idle, Requests, Steps, Returns, Attempts, Final, Rated, Notes, NoFailure,
     Phases, None, Reasons

\* The transition a request makes after sealing or discarding is a request.
LEMMA GotoType ==
  ASSUME TypeOK, NEW p \in Processes, NEW step \in Steps, NEW c \in LabRuns
  PROVE  Goto(p, step, c) \in Requests
<1>1. req[p].after \in {"idle", "provision"}
  BY DEF TypeOK, Requests
<1>2. ASSUME NEW after \in {"idle", "provision"}, NEW seen \in LabRuns
      PROVE  [Idle EXCEPT !.pc = step, !.after = after, !.seen = seen] \in Requests
  <2>1. [Idle EXCEPT !.pc = step] \in Requests
    BY IdleType DEF Requests
  <2>2. \A q \in Requests : [q EXCEPT !.after = after, !.seen = seen] \in Requests
    BY DEF Requests
  <2>3. [[Idle EXCEPT !.pc = step] EXCEPT !.after = after, !.seen = seen]
          = [Idle EXCEPT !.pc = step, !.after = after, !.seen = seen]
    OBVIOUS
  <2> QED
    BY <2>1, <2>2, <2>3
<1> QED
  BY <1>1, <1>2, IdleType, BlankType DEF Goto

\* A step on local data preserves the types (with the store unchanged).
LEMMA MovesType ==
  ASSUME TypeOK, NEW p \in Processes, NEW q \in Requests, Moves(p, q)
  PROVE  /\ run' \in LabRuns
         /\ current' \subseteq Processes
         /\ req' \in [Processes -> Requests]
  BY DEF TypeOK, Moves

\* A read of the LabRun preserves the types.
LEMMA ReadsType ==
  ASSUME TypeOK, NEW p \in Processes, NEW q \in Requests, Reads(p, q)
  PROVE  /\ run' \in LabRuns
         /\ current' \subseteq Processes
         /\ req' \in [Processes -> Requests]
  BY DEF TypeOK, Reads, Holding

\* A version-guarded patch preserves the types.
LEMMA CompareAndSetType ==
  ASSUME TypeOK, NEW p \in Processes, NEW new \in LabRuns, NEW q \in Requests,
         CompareAndSet(p, new, q)
  PROVE  /\ run' \in LabRuns
         /\ current' \subseteq Processes
         /\ req' \in [Processes -> Requests]
  BY DEF TypeOK, CompareAndSet, Holding

\* An unguarded patch preserves the types.
LEMMA PatchRunType ==
  ASSUME TypeOK, NEW p \in Processes, NEW new \in LabRuns, NEW q \in Requests,
         PatchRun(p, new, q)
  PROVE  /\ run' \in LabRuns
         /\ current' \subseteq Processes
         /\ req' \in [Processes -> Requests]
  BY DEF TypeOK, PatchRun

\* Where LaunchAsync goes on with a cluster is a request.
LEMMA ContinueType ==
  ASSUME TypeOK, NEW p \in Processes, NEW c \in LabRuns
  PROVE  Continue(p, c) \in Requests
<1> DEFINE refused == c.life # "live" \/ c.drill # None \/ (c.launched /\ c.failure # NoFailure)
           step == IF c.launched THEN "advance" ELSE "open"
           next == [req[p] EXCEPT !.pc = step, !.seen = c, !.after = "idle"]
<1>1. next \in Requests
  <2>1. step \in Steps
    BY DEF Steps
  <2> HIDE DEF step
  <2> QED
    BY <2>1 DEF TypeOK, Requests
<1>2. Continue(p, c) = IF refused THEN Idle ELSE next
  BY Zenon DEF Continue
<1> HIDE DEF refused, next
<1> QED
  BY <1>1, <1>2, IdleType

\* Where AdvanceAsync goes on after recording a phase is a request.
LEMMA AfterRecordType ==
  ASSUME TypeOK, NEW p \in Processes, NEW c \in LabRuns
  PROVE  AfterRecord(p, c) \in Requests
<1> DEFINE step == IF c.incident = None THEN "draw" ELSE "resolve"
           next == [req[p] EXCEPT !.pc = step, !.seen = c, !.note = NoFailure]
<1>1. next \in Requests
  <2>1. step \in Steps
    BY DEF Steps
  <2> HIDE DEF step
  <2> QED
    BY <2>1, NoFailureType DEF TypeOK, Requests
<1>2. AfterRecord(p, c) = IF req[p].note.phase # "activating-incident" THEN Idle ELSE next
  BY Zenon DEF AfterRecord
<1> HIDE DEF next
<1> QED
  BY <1>1, <1>2, IdleType

\* A request about to seal a decided match is a request.
LEMMA ToRateType ==
  ASSUME TypeOK, NEW p \in Processes, NEW c \in LabRuns,
         NEW verdict \in Final \cup {None}, NEW then \in Returns
  PROVE  ToRate(p, c, verdict, then) \in Requests
<1>1. Goto(p, "rate", c) \in Requests
  BY GotoType DEF Steps
<1>2. c.attempt \in Attempts
  BY DEF LabRuns
<1> QED
  BY <1>1, <1>2 DEF ToRate, Requests

\* A request about to void an unactivated attempt is a request.
LEMMA VoidType ==
  ASSUME TypeOK, NEW p \in Processes, NEW c \in LabRuns, NEW then \in Returns
  PROVE  /\ ToVoid(p, c, then) \in Requests
         /\ VoidLaunchAttempt(p, c, then) \in Requests
<1>1. Goto(p, "void", c) \in Requests /\ Goto(p, then, c) \in Requests
  BY GotoType DEF Steps, Returns
<1>2. c.marked \in Attempts
  BY DEF LabRuns
<1>3. Goto(p, then, c).seen \in LabRuns
  BY <1>1 DEF Requests
<1>4. "void" \in Final \cup {None}
  BY DEF Final
<1> QED
  BY <1>1, <1>2, <1>3, <1>4 DEF ToVoid, VoidLaunchAttempt, Requests

\* The part of TypeOK the step shapes preserve.
RequestsTyped == run \in LabRuns /\ current \subseteq Processes /\ req \in [Processes -> Requests]
StoreTyped == outcome \in [Drills -> Outcomes] /\ activated \subseteq Drills

\* Every step of a launch request preserves the types.
LEMMA LaunchingType ==
  ASSUME TypeOK, NEW r \in Replicas, Launching(r)
  PROVE  RequestsTyped'
<1> USE DEF RequestsTyped
<1>p. r \in Processes
  BY DEF Processes
<1>f. Found \in LabRuns
  BY BlankType DEF TypeOK, Found
<1>r. req[r] \in Requests /\ run \in LabRuns
  BY <1>p DEF TypeOK
<1>1. CASE ResumeLaunch(r)
  BY <1>1, <1>p, <1>f, ContinueType, ReadsType DEF ResumeLaunch
<1>2. CASE RetryLaunch(r)
  <2>1. \A start \in {"idle", "provision"} :
          [VoidLaunchAttempt(r, Found, "reset") EXCEPT !.after = start] \in Requests
    BY <1>p, <1>f, VoidType DEF Requests, Returns
  <2> QED
    BY <1>2, <1>p, <2>1, ReadsType DEF RetryLaunch
<1>3. CASE AbandonLaunch(r)
  BY <1>3, <1>p, <1>f, VoidType, ReadsType DEF AbandonLaunch, Returns
<1>4. CASE ProvisionArena(r)
  <2> DEFINE made == [Blank EXCEPT !.life = "live"]
  <2>1. made \in LabRuns
    BY BlankType DEF LabRuns
  <2>2. Continue(r, made) \in Requests
    BY <1>p, <2>1, ContinueType
  <2> HIDE DEF made
  <2>3. run' = made /\ req' = [req EXCEPT ![r] = Continue(r, made)] /\ current' = {r}
    BY <1>4 DEF ProvisionArena, made
  <2> QED
    BY <2>1, <2>2, <2>3, <1>p DEF TypeOK
<1>5. CASE ProvisionFinds(r)
  BY <1>5, <1>p, <1>f, ContinueType, ReadsType DEF ProvisionFinds
<1>6. CASE OpenLaunch(r)
  <2> DEFINE new == [run EXCEPT !.launched = TRUE, !.phase = "provisioning", !.failure = NoFailure]
  <2>1. new \in LabRuns
    BY <1>r, NoFailureType DEF LabRuns, Phases
  <2>2. [req[r] EXCEPT !.pc = "advance", !.seen = new] \in Requests
    BY <1>r, <2>1 DEF Requests, Steps
  <2> HIDE DEF new
  <2>3. CompareAndSet(r, new, [req[r] EXCEPT !.pc = "advance", !.seen = new])
    BY <1>6 DEF OpenLaunch, new
  <2> QED
    BY <1>p, <2>1, <2>2, <2>3, CompareAndSetType
<1>7. CASE OpenLaunchLost(r)
  <2>1. [req[r] EXCEPT !.pc = "advance", !.seen = run] \in Requests
    BY <1>r DEF Requests, Steps
  <2> QED
    BY <1>7, <1>p, <2>1, ReadsType DEF OpenLaunchLost
<1>8. CASE Waiting(r) \/ WaitedTooLong(r) \/ Ready(r) \/ ReadyTooLate(r)
  <2>1. \A g \in Measured \cup {"activating-incident"}, reason \in Reasons \cup {None} :
          Note(g, reason) \in Notes
    BY MeasuredAssumption DEF Note, Notes, Phases
  <2>2. \A n \in Notes, step \in Steps :
          [req[r] EXCEPT !.pc = step, !.note = n] \in Requests
    BY <1>r DEF Requests
  <2>3. PICK step \in {"record", "fail"}, g \in Measured \cup {"activating-incident"},
             reason \in Reasons \cup {None} :
          Moves(r, [req[r] EXCEPT !.pc = step, !.note = Note(g, reason)])
    BY <1>8 DEF Waiting, WaitedTooLong, Ready, ReadyTooLate, Reasons
  <2> QED
    BY <1>p, <2>1, <2>2, <2>3, MovesType DEF Steps
<1>9. CASE StartTraffic(r)
  BY <1>9, <1>p DEF StartTraffic, TypeOK
<1>10. CASE TrafficRunning(r)
  <2>1. [req[r] EXCEPT !.seen = run] \in Requests
    BY <1>r DEF Requests
  <2> QED
    BY <1>10, <1>p, <2>1, ReadsType DEF TrafficRunning
<1>a. \A c \in LabRuns : AfterRecord(r, c) \in Requests
  BY <1>p, AfterRecordType
<1>11. CASE RecordPhase(r)
  <2> DEFINE new == [run EXCEPT !.phase = req[r].note.phase]
  <2>1. new \in LabRuns
    BY <1>r DEF LabRuns, Requests, Notes
  <2> HIDE DEF new
  <2>2. CompareAndSet(r, new, AfterRecord(r, new))
    BY <1>11 DEF RecordPhase, new
  <2> QED
    BY <1>p, <1>a, <2>1, <2>2, CompareAndSetType
<1>12. CASE RecordPhaseLost(r)
  <2>1. req[r].seen \in LabRuns
    BY <1>r DEF Requests
  <2> QED
    BY <1>12, <1>p, <1>a, <2>1, MovesType DEF RecordPhaseLost
<1>13. CASE DrawIncident(r)
  <2>1. PICK d \in Drills :
          LET new == [run EXCEPT !.incident = d]
          IN  CompareAndSet(r, new, [req[r] EXCEPT !.pc = "resolve", !.seen = new])
    BY <1>13 DEF DrawIncident
  <2> DEFINE new == [run EXCEPT !.incident = d]
  <2>2. new \in LabRuns
    BY <1>r DEF LabRuns, Attempts
  <2>3. [req[r] EXCEPT !.pc = "resolve", !.seen = new] \in Requests
    BY <1>r, <2>2 DEF Requests, Steps
  <2>4. CompareAndSet(r, new, [req[r] EXCEPT !.pc = "resolve", !.seen = new])
    BY <2>1
  <2> HIDE DEF new
  <2> QED
    BY <1>p, <2>2, <2>3, <2>4, CompareAndSetType
<1>14. CASE Unmaterialized(r) \/ AttemptSealed(r)
  <2>1. \A reason \in Reasons :
          [req[r] EXCEPT !.pc = "fail", !.note = Note("activating-incident", reason)] \in Requests
    BY <1>r DEF Requests, Steps, Note, Notes, Phases
  <2> QED
    BY <1>14, <1>p, <2>1, MovesType DEF Unmaterialized, AttemptSealed, Reasons
<1>15. CASE ResumeAttempt(r) \/ AdoptAttempt(r)
  <2>1. \A d \in Active, step \in Steps : [req[r] EXCEPT !.pc = step, !.target = d] \in Requests
    BY <1>r DEF Requests, Active, Attempts
  <2> QED
    BY <1>15, <1>p, <2>1, MovesType DEF ResumeAttempt, AdoptAttempt, Steps
<1>16. CASE NoAttempt(r)
  <2>1. [req[r] EXCEPT !.pc = "open-attempt"] \in Requests
    BY <1>r DEF Requests, Steps
  <2> QED
    BY <1>16, <1>p, <2>1, MovesType DEF NoAttempt
<1>17. CASE OpenAttempt(r)
  <2>1. req[r].seen.incident \in Attempts
    BY <1>r DEF Requests, LabRuns
  <2>2. [req[r] EXCEPT !.pc = "mark", !.target = req[r].seen.incident] \in Requests
    BY <1>r, <2>1 DEF Requests, Steps
  <2> QED
    BY <1>17, <1>p, <2>2, MovesType DEF OpenAttempt
<1>18. CASE MarkAttempt(r)
  <2> DEFINE new == [run EXCEPT !.marked = req[r].target]
  <2>1. new \in LabRuns
    BY <1>r DEF LabRuns, Requests
  <2>2. [req[r] EXCEPT !.pc = "activate", !.seen = new] \in Requests
    BY <1>r, <2>1 DEF Requests, Steps
  <2> HIDE DEF new
  <2>3. CompareAndSet(r, new, [req[r] EXCEPT !.pc = "activate", !.seen = new])
    BY <1>18 DEF MarkAttempt, new
  <2> QED
    BY <1>p, <2>1, <2>2, <2>3, CompareAndSetType
<1>19. CASE Activate(r)
  <2>1. req[r].target \in Attempts /\ req[r].seen.incident \in Attempts
    BY <1>r DEF Requests, LabRuns
  <2> DEFINE new == [run EXCEPT !.drill = req[r].seen.incident, !.attempt = req[r].target,
                                !.terminal = {}, !.phase = "active",
                                !.failure = NoFailure, !.marked = req[r].target]
  <2>2. new \in LabRuns
    BY <1>r, <2>1, NoFailureType DEF LabRuns, Phases
  <2> HIDE DEF new
  <2>3. CompareAndSet(r, new, Idle)
    BY <1>19 DEF Activate, new
  <2> QED
    BY <1>p, <2>2, <2>3, IdleType, CompareAndSetType
<1>v. VoidLaunchAttempt(r, req[r].seen, "idle") \in Requests
  BY <1>r, <1>p, VoidType DEF Requests, Returns
<1>20. CASE MarkFailed(r)
  <2> DEFINE new == [run EXCEPT !.phase = "launch-failed", !.failure = req[r].note,
                                !.marked = None]
  <2>1. new \in LabRuns
    <3>1. req[r].note \in Notes /\ None \in Attempts /\ "launch-failed" \in Phases
      BY <1>r DEF Requests, Phases, Attempts
    <3> QED
      BY <1>r, <3>1 DEF LabRuns
  <2> HIDE DEF new
  <2>2. CompareAndSet(r, new, VoidLaunchAttempt(r, req[r].seen, "idle"))
    BY <1>20 DEF MarkFailed, new
  <2> QED
    BY <1>p, <1>v, <2>1, <2>2, CompareAndSetType
<1>21. CASE FailureStands(r)
  BY <1>21, <1>p, <1>v, MovesType DEF FailureStands
<1>22. CASE ReplaceCluster(r)
  BY <1>22, <1>p, BlankType, GotoType, MovesType DEF ReplaceCluster, Steps
<1>23. CASE ClearLaunch(r)
  <2>1. WithoutLaunch(run) \in LabRuns
    BY <1>r, NoFailureType DEF WithoutLaunch, LabRuns, Phases, None, Attempts
  <2> QED
    BY <1>23, <1>p, <2>1, ContinueType, CompareAndSetType DEF ClearLaunch
<1>24. CASE ClearLaunchLost(r)
  BY <1>24, <1>p, <1>r, ContinueType, ReadsType DEF ClearLaunchLost
<1> QED
  BY <1>1, <1>2, <1>3, <1>4, <1>5, <1>6, <1>7, <1>8, <1>9, <1>10, <1>11, <1>12, <1>13, <1>14,
     <1>15, <1>16, <1>17, <1>18, <1>19, <1>20, <1>21, <1>22, <1>23, <1>24 DEF Launching

\* TerminalOutcome yields a verdict when it is given one.
LEMMA TerminalOutcomeType ==
  ASSUME NEW c \in LabRuns, NEW interrupted \in Final \cup {None}
  PROVE  TerminalOutcome(c, interrupted) \in Final \cup {None}
  BY DEF TerminalOutcome, Final, Rated

\* Every step of a worker (drill, judge, reaper, delete) preserves the types.
LEMMA WorkingType ==
  ASSUME TypeOK, NEW w \in Workers, Working(w)
  PROVE  RequestsTyped'
<1> USE DEF RequestsTyped
<1>p. w \in Processes
  BY DEF Processes
<1>r. req[w] \in Requests /\ run \in LabRuns
  BY <1>p DEF TypeOK
<1>i. \A step \in Steps : [Idle EXCEPT !.pc = step] \in Requests
  BY IdleType DEF Requests
<1>1. CASE StartDelete(w) \/ StartExpire(w)
  BY <1>1, <1>p, <1>i, MovesType DEF StartDelete, StartExpire, Steps
<1>2. CASE Expire(w)
  <2>1. \A verdict \in {TerminalOutcome(run, "expired"), "void"} :
          verdict \in Final \cup {None}
    BY <1>r, TerminalOutcomeType DEF Final, Rated
  <2>2. \A verdict \in Final \cup {None} : SealBeforeDelete(w, verdict) \in Requests
    BY <1>p, <1>r, ToRateType, VoidType DEF SealBeforeDelete, Returns
  <2> QED
    BY <1>2, <1>p, <2>1, <2>2, ReadsType DEF Expire
<1>3. CASE StartDrill(w)
  BY <1>3, <1>p, <1>i, ReadsType DEF StartDrill, Steps
<1>4. CASE StartDrillPatch(w)
  <2> DEFINE new == [run EXCEPT !.drill = Practice, !.attempt = None, !.terminal = {}]
  <2>1. new \in LabRuns
    BY <1>r DEF LabRuns, Attempts
  <2> HIDE DEF new
  <2>2. PatchRun(w, new, Idle)
    BY <1>4 DEF StartDrillPatch, new
  <2> QED
    BY <1>p, <2>1, <2>2, IdleType, PatchRunType
<1>5. CASE EndDrill(w)
  <2>1. TerminalOutcome(run, "forfeited") \in Final \cup {None}
    BY <1>r, TerminalOutcomeType DEF Final, Rated
  <2>2. ToRate(w, run, TerminalOutcome(run, "forfeited"), "end") \in Requests
    BY <1>p, <1>r, <2>1, ToRateType DEF Returns
  <2>3. [Idle EXCEPT !.pc = "end"] \in Requests
    BY <1>i DEF Steps
  <2> QED
    BY <1>5, <1>p, <2>2, <2>3, ReadsType DEF EndDrill
<1>6. CASE EndDrillPatch(w)
  <2> DEFINE new == [WithoutLaunch(run) EXCEPT !.drill = None, !.attempt = None, !.terminal = {}]
  <2>1. WithoutLaunch(run) \in LabRuns
    BY <1>r, NoFailureType DEF WithoutLaunch, LabRuns, Phases, None, Attempts
  <2>2. new \in LabRuns
    BY <2>1 DEF LabRuns, Attempts
  <2> HIDE DEF new
  <2>3. PatchRun(w, new, Idle)
    BY <1>6 DEF EndDrillPatch, new
  <2> QED
    BY <1>p, <2>2, <2>3, IdleType, PatchRunType
<1>7. CASE Judge(w)
  <2>1. TerminalOutcome(run, None) \in Final \cup {None}
    BY <1>r, TerminalOutcomeType
  <2>2. ToRate(w, run, TerminalOutcome(run, None), "idle") \in Requests
    BY <1>p, <1>r, <2>1, ToRateType DEF Returns
  <2>3. [Idle EXCEPT !.pc = "judge", !.target = run.attempt] \in Requests
    BY <1>r, IdleType DEF Requests, Steps, LabRuns
  <2>4. [Idle EXCEPT !.pc = "judge-practice"] \in Requests
    BY <1>i DEF Steps
  <2> QED
    BY <1>7, <1>p, <2>2, <2>3, <2>4, IdleType, ReadsType DEF Judge
<1>8. CASE JudgeSolved(w) \/ JudgePractice(w) \/ JudgeVoided(w)
  <2>1. \A receipt \in {"solved", "voided"} : WithReceipt(receipt) \in LabRuns
    BY <1>r DEF WithReceipt, LabRuns
  <2>2. \A verdict \in {"completed", "void"} : ToRate(w, run, verdict, "idle") \in Requests
    BY <1>p, <1>r, ToRateType DEF Returns, Final, Rated
  <2> QED
    BY <1>8, <1>p, <2>1, <2>2, IdleType, PatchRunType DEF JudgeSolved, JudgePractice, JudgeVoided
<1>9. CASE ReceiptLost(w)
  <2>1. \A verdict \in {"completed", "void"} :
          [req[w] EXCEPT !.pc = "rate", !.verdict = verdict] \in Requests
    BY <1>r DEF Requests, Steps, Final, Rated
  <2> QED
    BY <1>9, <1>p, <2>1, MovesType DEF ReceiptLost
<1> QED
  BY <1>1, <1>2, <1>3, <1>4, <1>5, <1>6, <1>7, <1>8, <1>9 DEF Working

\* The steps launches and workers share (sealing, deleting, giving up) preserve the
\* types.
LEMMA SharedType ==
  ASSUME TypeOK, NEW p \in Processes, Shared(p)
  PROVE  RequestsTyped'
<1> USE DEF RequestsTyped
<1>r. req[p] \in Requests /\ run \in LabRuns
  BY DEF TypeOK
<1>s. Resume(p) \in Requests
  BY <1>r, GotoType DEF Resume, Requests, Returns, Steps
<1>d. AfterDelete(p) \in Requests
  BY <1>r, IdleType DEF AfterDelete, Requests, Steps
<1>1. CASE FindActive(p)
  <2>1. \A d \in Active : [req[p] EXCEPT !.target = d] \in Requests
    BY <1>r DEF Requests, Active, Attempts
  <2> QED
    BY <1>1, <1>s, <2>1, MovesType DEF FindActive
<1>2. CASE Seal(p) \/ VoidSwallowed(p)
  BY <1>2, <1>s, MovesType DEF Seal, VoidSwallowed
<1>3. CASE Discard(p)
  <2>1. TerminalOutcome(run, "forfeited") \in Final \cup {None}
    BY <1>r, TerminalOutcomeType DEF Final, Rated
  <2>2. SealBeforeDelete(p, TerminalOutcome(run, "forfeited")) \in Requests
    BY <1>r, <2>1, ToRateType, VoidType DEF SealBeforeDelete, Returns
  <2> QED
    BY <1>3, <2>2, ReadsType DEF Discard
<1>4. CASE NothingToDiscard(p)
  BY <1>4, <1>d, MovesType DEF NothingToDiscard
<1>5. CASE Delete(p)
  <2>1. [run EXCEPT !.life = "deleting"] \in LabRuns
    BY <1>r DEF LabRuns
  <2> QED
    BY <1>5, <1>d, <2>1 DEF Delete, TypeOK
<1>6. CASE GiveUp(p)
  BY <1>6, IdleType, MovesType DEF GiveUp
<1> QED
  BY <1>1, <1>2, <1>3, <1>4, <1>5, <1>6 DEF Shared

-----------------------------------------------------------------------------
\* No practice drill is started on the operator's cluster.
NoPractice == "start-drill" \notin Operations

\* What each request in flight may carry.  A voiding request seals nothing but void; a
\* rating request seals a verdict, and a rated one only on an activated attempt; the
\* attempt to mark or activate is in the store; an incident is drawn before it is resolved.
RequestOK(q) ==
    /\ q.pc = "void" => q.verdict = "void"
    /\ q.pc = "rate" => q.verdict \in Final
    /\ q.pc \in {"mark", "activate"} => q.target \in Drills /\ outcome[q.target] # None
    /\ q.pc \in {"resolve", "open-attempt"} => q.seen.incident \in Drills
    /\ NoPractice =>
          /\ q.pc # "start"
          /\ q.pc = "rate" => q.verdict \in {"completed", "void"} \/ q.target \in activated

\* What the stored LabRun may name.  Without practice drills, a started clock is that of
\* an activated attempt.
RunOK ==
    /\ NamedAttemptsExist
    /\ NoPractice => (run.drill # None => run.attempt \in activated)

\* The inductive invariant.
IInv ==
    /\ TypeOK
    /\ RunOK
    /\ \A p \in Processes : RequestOK(req[p])
    /\ NoPractice => RatedOnlyIfActivated

\* The steps of a request RequestOK says nothing about.
Calm == Steps \ {"void", "rate", "mark", "activate", "resolve", "open-attempt", "start"}

\* A request at a step that carries no attempt is in order.
LEMMA CalmOK ==
  ASSUME NEW q, q.pc \in Calm
  PROVE  RequestOK(q)
  BY DEF Calm, RequestOK

\* Going to void an attempt is in order: its verdict is void.
LEMMA VoidOK ==
  ASSUME NEW p, NEW c, NEW then \in Calm
  PROVE  /\ RequestOK(ToVoid(p, c, then))
         /\ RequestOK(VoidLaunchAttempt(p, c, then))
<1>1. /\ ToVoid(p, c, then).pc = "void"
      /\ ToVoid(p, c, then).verdict = "void"
  BY DEF ToVoid, Goto, Idle
<1>2. Goto(p, then, c).pc = then
  BY DEF Goto, Idle
<1> QED
  BY <1>1, <1>2 DEF VoidLaunchAttempt, RequestOK, Calm

\* Going to seal a match is in order when its verdict may reach the attempt it names.
LEMMA RateOK ==
  ASSUME NEW p, NEW c, NEW verdict \in Final, NEW then,
         NoPractice => verdict \in {"completed", "void"} \/ c.attempt \in activated
  PROVE  RequestOK(ToRate(p, c, verdict, then))
<1>1. /\ ToRate(p, c, verdict, then).pc = "rate"
      /\ ToRate(p, c, verdict, then).verdict = verdict
      /\ ToRate(p, c, verdict, then).target = c.attempt
  BY DEF ToRate, Goto, Idle
<1> QED
  BY <1>1 DEF RequestOK

\* Going on with a launch is in order.
LEMMA ContinueOK ==
  ASSUME TypeOK, NEW p \in Processes, NEW c \in LabRuns
  PROVE  RequestOK(Continue(p, c))
<1>1. Continue(p, c).pc \in {"idle", "advance", "open"}
  BY DEF Continue, Idle, TypeOK, Requests
<1> QED
  BY <1>1, CalmOK DEF Calm, Steps

\* Going on after recording a phase is in order: an incident is drawn before it is
\* resolved.
LEMMA AfterRecordOK ==
  ASSUME TypeOK, NEW p \in Processes, NEW c \in LabRuns
  PROVE  RequestOK(AfterRecord(p, c))
<1>1. \/ AfterRecord(p, c).pc \in {"idle", "draw"}
      \/ AfterRecord(p, c).pc = "resolve" /\ AfterRecord(p, c).seen.incident \in Drills
  BY DEF AfterRecord, Idle, TypeOK, Requests, LabRuns, Attempts
<1> QED
  BY <1>1, CalmOK DEF Calm, Steps, RequestOK

\* IInv without the parts the step shapes take care of.
Rest ==
    /\ StoreTyped
    /\ RunOK
    /\ \A p \in Processes : RequestOK(req[p])
    /\ NoPractice => RatedOnlyIfActivated

\* A step that names no attempt the LabRun did not name, and starts no clock, keeps
\* RunOK.
LEMMA RunKept ==
  ASSUME IInv, UNCHANGED store,
         run'.marked \in {run.marked, None},
         \/ run'.drill = None /\ run'.attempt \in {run.attempt, None}
         \/ run'.drill = run.drill /\ run'.attempt = run.attempt
  PROVE  RunOK'
  BY DEF IInv, RunOK, NamedAttemptsExist, store

\* A step of one request that leaves the store alone keeps the invariant when the
\* request it ends in is in order.
LEMMA QuietStep ==
  ASSUME IInv, UNCHANGED store, RunOK', NEW p \in Processes, NEW q, RequestOK(q),
         req' = [req EXCEPT ![p] = q]
  PROVE  Rest'
<1>1. \A x \in Processes : RequestOK(req[x])'
  BY DEF IInv, TypeOK, RequestOK, store
<1> QED
  BY <1>1 DEF IInv, TypeOK, Rest, StoreTyped, RatedOnlyIfActivated, store

\* Every step of a launch request keeps the invariant.
LEMMA LaunchingKeeps ==
  ASSUME IInv, NEW r \in Replicas, Launching(r)
  PROVE  Rest'
<1>p. r \in Processes
  BY DEF Processes
<1>t. TypeOK /\ req[r] \in Requests /\ run \in LabRuns /\ RequestOK(req[r])
  BY <1>p DEF IInv, TypeOK
<1>f. Found \in LabRuns
  BY <1>t, BlankType DEF Found
<1> DEFINE Keeps(q) == RequestOK(q) /\ req' = [req EXCEPT ![r] = q]
<1>q. ASSUME NEW q, Keeps(q), UNCHANGED <<run, store>>
      PROVE  Rest'
  BY <1>p, <1>q, RunKept, QuietStep
<1>1. CASE ResumeLaunch(r)
  BY <1>1, <1>q, <1>p, <1>t, <1>f, ContinueOK DEF ResumeLaunch, Reads
<1>2. CASE RetryLaunch(r)
  <2>1. PICK start \in {"idle", "provision"} :
          Reads(r, [VoidLaunchAttempt(r, Found, "reset") EXCEPT !.after = start])
    BY <1>2 DEF RetryLaunch
  <2>2. RequestOK(VoidLaunchAttempt(r, Found, "reset"))
    BY VoidOK DEF Calm, Steps
  <2>3. VoidLaunchAttempt(r, Found, "reset") \in Requests
    BY <1>p, <1>t, <1>f, VoidType DEF Returns
  <2>4. RequestOK([VoidLaunchAttempt(r, Found, "reset") EXCEPT !.after = start])
    BY <2>2, <2>3 DEF RequestOK, Requests
  <2> QED
    BY <1>2, <1>q, <2>1, <2>4 DEF RetryLaunch, Reads
<1>3. CASE AbandonLaunch(r)
  <2>1. RequestOK(VoidLaunchAttempt(r, Found, "discard"))
    BY VoidOK DEF Calm, Steps
  <2> QED
    BY <1>3, <1>q, <2>1 DEF AbandonLaunch, Reads
<1>4. CASE ProvisionArena(r)
  <2> DEFINE made == [Blank EXCEPT !.life = "live"]
  <2>1. made \in LabRuns
    BY BlankType DEF LabRuns
  <2>2. run' = made /\ req' = [req EXCEPT ![r] = Continue(r, made)] /\ UNCHANGED store
    BY <1>4 DEF ProvisionArena
  <2>3. made.drill = None /\ made.attempt = None /\ made.marked = None
    BY DEF Blank
  <2> HIDE DEF made
  <2>4. RunOK'
    BY <2>2, <2>3, RunKept
  <2> QED
    BY <1>p, <1>t, <2>1, <2>2, <2>4, ContinueOK, QuietStep
<1>5. CASE ProvisionFinds(r)
  BY <1>5, <1>q, <1>p, <1>t, <1>f, ContinueOK DEF ProvisionFinds, Reads
<1>6. CASE OpenLaunch(r)
  <2> DEFINE new == [run EXCEPT !.launched = TRUE, !.phase = "provisioning", !.failure = NoFailure]
             q == [req[r] EXCEPT !.pc = "advance", !.seen = new]
  <2>1. run' = new /\ req' = [req EXCEPT ![r] = q] /\ UNCHANGED store
    BY <1>6 DEF OpenLaunch, CompareAndSet
  <2>2. RequestOK(q)
    BY <1>t, CalmOK DEF Requests, Calm, Steps
  <2>3. new.drill = run.drill /\ new.attempt = run.attempt /\ new.marked = run.marked
    BY <1>t DEF LabRuns
  <2> HIDE DEF new, q
  <2> QED
    BY <1>p, <2>1, <2>2, <2>3, RunKept, QuietStep
<1>7. CASE OpenLaunchLost(r)
  <2>1. RequestOK([req[r] EXCEPT !.pc = "advance", !.seen = run])
    BY <1>t, CalmOK DEF Requests, Calm, Steps
  <2> QED
    BY <1>7, <1>q, <2>1 DEF OpenLaunchLost, Reads
<1>8. CASE Waiting(r) \/ WaitedTooLong(r) \/ Ready(r) \/ ReadyTooLate(r)
  <2>1. PICK step \in {"record", "fail"} :
          \E n : Moves(r, [req[r] EXCEPT !.pc = step, !.note = n]) /\ UNCHANGED store
    BY <1>8 DEF Waiting, WaitedTooLong, Ready, ReadyTooLate
  <2>2. PICK n : Moves(r, [req[r] EXCEPT !.pc = step, !.note = n]) /\ UNCHANGED store
    BY <2>1
  <2>3. RequestOK([req[r] EXCEPT !.pc = step, !.note = n])
    BY <1>t, CalmOK DEF Requests, Calm, Steps
  <2> QED
    BY <1>q, <2>2, <2>3 DEF Moves
<1>9. CASE StartTraffic(r)
  <2>1. RunOK' /\ UNCHANGED store
    BY <1>9, RunKept DEF StartTraffic
  <2> QED
    BY <1>9, <1>p, <1>t, <2>1, QuietStep DEF StartTraffic, TypeOK
<1>10. CASE TrafficRunning(r)
  <2>1. RequestOK([req[r] EXCEPT !.seen = run])
    BY <1>10, <1>t, CalmOK DEF TrafficRunning, At, Requests, Calm, Steps
  <2> QED
    BY <1>10, <1>q, <2>1 DEF TrafficRunning, Reads
<1>11. CASE RecordPhase(r)
  <2> DEFINE new == [run EXCEPT !.phase = req[r].note.phase]
  <2>1. new \in LabRuns
    BY <1>t DEF LabRuns, Requests, Notes
  <2>2. run' = new /\ req' = [req EXCEPT ![r] = AfterRecord(r, new)] /\ UNCHANGED store
    BY <1>11 DEF RecordPhase, CompareAndSet
  <2>3. new.drill = run.drill /\ new.attempt = run.attempt /\ new.marked = run.marked
    BY <1>t DEF LabRuns
  <2> HIDE DEF new
  <2> QED
    BY <1>p, <1>t, <2>1, <2>2, <2>3, AfterRecordOK, RunKept, QuietStep
<1>12. CASE RecordPhaseLost(r)
  <2>1. req[r].seen \in LabRuns
    BY <1>t DEF Requests
  <2> QED
    BY <1>12, <1>q, <1>p, <1>t, <2>1, AfterRecordOK DEF RecordPhaseLost, Moves
<1>13. CASE DrawIncident(r)
  <2>1. PICK d \in Drills :
          LET new == [run EXCEPT !.incident = d]
          IN  CompareAndSet(r, new, [req[r] EXCEPT !.pc = "resolve", !.seen = new])
    BY <1>13 DEF DrawIncident
  <2> DEFINE new == [run EXCEPT !.incident = d]
             q == [req[r] EXCEPT !.pc = "resolve", !.seen = new]
  <2>2. run' = new /\ req' = [req EXCEPT ![r] = q] /\ UNCHANGED store
    BY <1>13, <2>1 DEF DrawIncident, CompareAndSet
  <2>3. /\ new.drill = run.drill /\ new.attempt = run.attempt /\ new.marked = run.marked
        /\ new.incident = d
    BY <1>t DEF LabRuns
  <2> HIDE DEF new
  <2>4. RequestOK(q)
    BY <1>t, <2>3 DEF RequestOK, Requests
  <2> HIDE DEF q
  <2> QED
    BY <1>p, <2>2, <2>3, <2>4, RunKept, QuietStep
<1>14. CASE Unmaterialized(r) \/ AttemptSealed(r)
  <2>1. PICK n : /\ Moves(r, [req[r] EXCEPT !.pc = "fail", !.note = n])
                 /\ UNCHANGED store
    BY <1>14 DEF Unmaterialized, AttemptSealed
  <2>2. RequestOK([req[r] EXCEPT !.pc = "fail", !.note = n])
    BY <1>t, CalmOK DEF Requests, Calm, Steps
  <2> QED
    BY <1>q, <2>1, <2>2 DEF Moves
<1>15. CASE ResumeAttempt(r) \/ AdoptAttempt(r)
  <2>1. PICK d \in Active, step \in {"activate", "mark"} :
          /\ Moves(r, [req[r] EXCEPT !.pc = step, !.target = d])
          /\ UNCHANGED store
    BY <1>15 DEF ResumeAttempt, AdoptAttempt
  <2>2. RequestOK([req[r] EXCEPT !.pc = step, !.target = d])
    BY <1>t DEF RequestOK, Requests, Active, None
  <2> QED
    BY <1>q, <2>1, <2>2 DEF Moves
<1>16. CASE NoAttempt(r)
  <2>1. RequestOK([req[r] EXCEPT !.pc = "open-attempt"])
    BY <1>16, <1>t DEF NoAttempt, At, RequestOK, Requests
  <2> QED
    BY <1>16, <1>q, <2>1 DEF NoAttempt, Moves
<1>17. CASE OpenAttempt(r)
  <2> DEFINE d == req[r].seen.incident
             q == [req[r] EXCEPT !.pc = "mark", !.target = d]
  <2>1. d \in Drills /\ outcome[d] = None
    BY <1>17, <1>t DEF OpenAttempt, At, RequestOK
  <2>2. /\ outcome' = [outcome EXCEPT ![d] = "active"]
        /\ UNCHANGED activated
        /\ req' = [req EXCEPT ![r] = q]
        /\ UNCHANGED run
    BY <1>17 DEF OpenAttempt, Moves
  <2>3. q.pc = "mark" /\ q.target = d
    BY <1>t DEF Requests
  <2> HIDE DEF d, q
  <2>4. \A e \in Drills : /\ outcome[e] # None => outcome'[e] = outcome[e]
                          /\ outcome'[e] \in {outcome[e], "active"}
    BY <2>1, <2>2, <1>t DEF TypeOK
  <2>5. outcome'[d] # None
    BY <2>1, <2>2, <1>t DEF TypeOK, None
  <2>6. ASSUME NEW p \in Processes
        PROVE  RequestOK(req[p])'
    BY <2>1, <2>2, <2>3, <2>4, <2>5, <1>p DEF IInv, TypeOK, RequestOK
  <2>7. RunOK'
    BY <2>2, <2>4, <1>t DEF IInv, RunOK, NamedAttemptsExist, LabRuns, Attempts
  <2>8. StoreTyped'
    BY <2>1, <2>2, <1>t DEF TypeOK, StoreTyped, Outcomes
  <2>9. NoPractice => RatedOnlyIfActivated'
    BY <2>2, <2>4 DEF IInv, RatedOnlyIfActivated, Rated
  <2> QED
    BY <2>6, <2>7, <2>8, <2>9 DEF Rest
<1>18. CASE MarkAttempt(r)
  <2> DEFINE new == [run EXCEPT !.marked = req[r].target]
             q == [req[r] EXCEPT !.pc = "activate", !.seen = new]
  <2>1. run' = new /\ req' = [req EXCEPT ![r] = q] /\ UNCHANGED store
    BY <1>18 DEF MarkAttempt, CompareAndSet
  <2>2. req[r].target \in Drills /\ outcome[req[r].target] # None
    BY <1>18, <1>t DEF MarkAttempt, At, RequestOK
  <2>3. new.drill = run.drill /\ new.attempt = run.attempt /\ new.marked = req[r].target
    BY <1>t DEF LabRuns
  <2>4. RequestOK(q)
    BY <2>2, <1>t DEF RequestOK, Requests
  <2> HIDE DEF new, q
  <2>5. RunOK'
    BY <2>1, <2>2, <2>3 DEF IInv, RunOK, NamedAttemptsExist, store
  <2> QED
    BY <1>p, <2>1, <2>4, <2>5, QuietStep
<1>19. CASE Activate(r)
  <2> DEFINE d == req[r].target
             new == [run EXCEPT !.drill = req[r].seen.incident, !.attempt = d,
                                !.terminal = {}, !.phase = "active",
                                !.failure = NoFailure, !.marked = d]
  <2>1. /\ run' = new
        /\ req' = [req EXCEPT ![r] = Idle]
        /\ activated' = activated \cup {d}
        /\ UNCHANGED outcome
    BY <1>19 DEF Activate, CompareAndSet
  <2>2. d \in Drills /\ outcome[d] # None
    BY <1>19, <1>t DEF Activate, At, RequestOK
  <2>3. new.attempt = d /\ new.marked = d
    BY <1>t DEF LabRuns
  <2> HIDE DEF d, new
  <2>4. ASSUME NEW p \in Processes
        PROVE  RequestOK(req[p])'
    BY <2>1 DEF IInv, TypeOK, RequestOK, Idle
  <2>5. RunOK'
    BY <2>1, <2>2, <2>3 DEF RunOK, NamedAttemptsExist
  <2>6. StoreTyped'
    BY <2>1, <2>2, <1>t DEF TypeOK, StoreTyped
  <2>7. NoPractice => RatedOnlyIfActivated'
    BY <2>1 DEF IInv, RatedOnlyIfActivated
  <2> QED
    BY <2>4, <2>5, <2>6, <2>7 DEF Rest
<1>v. RequestOK(VoidLaunchAttempt(r, req[r].seen, "idle"))
  BY VoidOK DEF Calm, Steps
<1>20. CASE MarkFailed(r)
  <2> DEFINE new == [run EXCEPT !.phase = "launch-failed", !.failure = req[r].note,
                                !.marked = None]
  <2>1. run' = new /\ UNCHANGED store
        /\ req' = [req EXCEPT ![r] = VoidLaunchAttempt(r, req[r].seen, "idle")]
    BY <1>20 DEF MarkFailed, CompareAndSet
  <2>2. new.drill = run.drill /\ new.attempt = run.attempt /\ new.marked = None
    BY <1>t DEF LabRuns
  <2> HIDE DEF new
  <2> QED
    BY <1>p, <1>v, <2>1, <2>2, RunKept, QuietStep
<1>21. CASE FailureStands(r)
  BY <1>21, <1>q, <1>v DEF FailureStands, Moves
<1>22. CASE ReplaceCluster(r)
  <2>1. Goto(r, "discard", Blank).pc = "discard"
    BY DEF Goto, Idle
  <2> QED
    BY <1>22, <1>q, <2>1, CalmOK DEF ReplaceCluster, Moves, Calm, Steps
<1>23. CASE ClearLaunch(r)
  <2> DEFINE new == WithoutLaunch(run)
  <2>1. run' = new /\ req' = [req EXCEPT ![r] = Continue(r, new)] /\ UNCHANGED store
    BY <1>23 DEF ClearLaunch, CompareAndSet
  <2>2. new \in LabRuns
    BY <1>t, NoFailureType DEF WithoutLaunch, LabRuns, Phases, None, Attempts
  <2>3. new.drill = run.drill /\ new.attempt = run.attempt /\ new.marked = None
    BY <1>t DEF WithoutLaunch, LabRuns
  <2> HIDE DEF new
  <2> QED
    BY <1>p, <1>t, <2>1, <2>2, <2>3, ContinueOK, RunKept, QuietStep
<1>24. CASE ClearLaunchLost(r)
  BY <1>24, <1>q, <1>p, <1>t, ContinueOK DEF ClearLaunchLost, Reads
<1> QED
  BY <1>1, <1>2, <1>3, <1>4, <1>5, <1>6, <1>7, <1>8, <1>9, <1>10, <1>11, <1>12, <1>13, <1>14,
     <1>15, <1>16, <1>17, <1>18, <1>19, <1>20, <1>21, <1>22, <1>23, <1>24 DEF Launching

\* Every step of a worker keeps the invariant.
LEMMA WorkingKeeps ==
  ASSUME IInv, NEW w \in Workers, Working(w)
  PROVE  Rest'
<1>p. w \in Processes
  BY DEF Processes
<1>t. TypeOK /\ req[w] \in Requests /\ run \in LabRuns /\ RequestOK(req[w])
  BY <1>p DEF IInv, TypeOK
<1>q. ASSUME NEW q, RequestOK(q), req' = [req EXCEPT ![w] = q], UNCHANGED <<run, store>>
      PROVE  Rest'
  BY <1>p, <1>q, RunKept, QuietStep
<1>i. \A step \in Calm : RequestOK([Idle EXCEPT !.pc = step])
  BY CalmOK DEF Idle
<1>a. NoPractice /\ ClockStarted(run) => run.attempt \in activated
  BY DEF IInv, RunOK, ClockStarted
<1>1. CASE StartDelete(w) \/ StartExpire(w)
  BY <1>1, <1>q, <1>i DEF StartDelete, StartExpire, Moves, Calm, Steps
<1>2. CASE Expire(w)
  <2>1. PICK verdict \in {TerminalOutcome(run, "expired"), "void"} :
          Reads(w, SealBeforeDelete(w, verdict))
    BY <1>2 DEF Expire
  <2>2. verdict \in Final
    BY DEF TerminalOutcome, Final, Rated
  <2>3. ClockStarted(run) => RequestOK(ToRate(w, run, verdict, "delete"))
    BY <1>a, <2>2, RateOK
  <2>4. RequestOK(ToVoid(w, run, "delete"))
    BY VoidOK DEF Calm, Steps
  <2> QED
    BY <1>2, <1>q, <2>1, <2>3, <2>4 DEF Expire, SealBeforeDelete, Reads
<1>3. CASE StartDrill(w)
  <2>1. RequestOK([Idle EXCEPT !.pc = "start"])
    BY <1>3 DEF StartDrill, NoPractice, RequestOK, Idle
  <2> QED
    BY <1>3, <1>q, <2>1 DEF StartDrill, Reads
<1>4. CASE StartDrillPatch(w)
  <2> DEFINE new == [run EXCEPT !.drill = Practice, !.attempt = None, !.terminal = {}]
  <2>1. run' = new /\ req' = [req EXCEPT ![w] = Idle] /\ UNCHANGED store
    BY <1>4 DEF StartDrillPatch, PatchRun
  <2>2. ~NoPractice
    BY <1>4, <1>t DEF StartDrillPatch, At, RequestOK
  <2>3. new.attempt = None /\ new.marked = run.marked
    BY <1>t DEF LabRuns
  <2> HIDE DEF new
  <2>4. RunOK'
    BY <2>1, <2>2, <2>3 DEF IInv, RunOK, NamedAttemptsExist, NoPractice, store
  <2>5. RequestOK(Idle)
    BY CalmOK DEF Idle, Calm, Steps
  <2> QED
    BY <1>p, <2>1, <2>4, <2>5, QuietStep
<1>5. CASE EndDrill(w)
  <2>1. TerminalOutcome(run, "forfeited") \in Final
    BY DEF TerminalOutcome, Final, Rated
  <2>2. ClockStarted(run) => RequestOK(ToRate(w, run, TerminalOutcome(run, "forfeited"), "end"))
    BY <1>a, <2>1, RateOK
  <2>3. RequestOK([Idle EXCEPT !.pc = "end"])
    BY <1>i DEF Calm, Steps
  <2> QED
    BY <1>5, <1>q, <2>2, <2>3 DEF EndDrill, Reads
<1>6. CASE EndDrillPatch(w)
  <2> DEFINE new == [WithoutLaunch(run) EXCEPT !.drill = None, !.attempt = None, !.terminal = {}]
  <2>1. run' = new /\ req' = [req EXCEPT ![w] = Idle] /\ UNCHANGED store
    BY <1>6 DEF EndDrillPatch, PatchRun
  <2>2. new.drill = None /\ new.attempt = None /\ new.marked = None
    BY <1>t DEF WithoutLaunch, LabRuns
  <2> HIDE DEF new
  <2>3. RequestOK(Idle)
    BY CalmOK DEF Idle, Calm, Steps
  <2> QED
    BY <1>p, <2>1, <2>2, <2>3, RunKept, QuietStep
<1>7. CASE Judge(w)
  <2>1. run.terminal # {} => TerminalOutcome(run, None) \in {"completed", "void"}
    BY <1>t DEF TerminalOutcome, LabRuns
  <2>2. run.terminal # {} => RequestOK(ToRate(w, run, TerminalOutcome(run, None), "idle"))
    BY <2>1, RateOK DEF Final, Rated
  <2>3. RequestOK([Idle EXCEPT !.pc = "judge", !.target = run.attempt])
    BY CalmOK DEF Idle, Calm, Steps
  <2>4. RequestOK([Idle EXCEPT !.pc = "judge-practice"]) /\ RequestOK(Idle)
    BY CalmOK DEF Idle, Calm, Steps
  <2> QED
    BY <1>7, <1>q, <2>2, <2>3, <2>4 DEF Judge, Reads
<1>8. CASE JudgeSolved(w) \/ JudgePractice(w) \/ JudgeVoided(w)
  <2>1. PICK receipt \in {"solved", "voided"},
             q \in {ToRate(w, run, "completed", "idle"), ToRate(w, run, "void", "idle"), Idle} :
          PatchRun(w, WithReceipt(receipt), q) /\ UNCHANGED store
    BY <1>8 DEF JudgeSolved, JudgePractice, JudgeVoided
  <2>2. RequestOK(q)
    BY <2>1, RateOK, CalmOK DEF Final, Rated, Idle, Calm, Steps
  <2> DEFINE new == WithReceipt(receipt)
  <2>3. new.drill = run.drill /\ new.attempt = run.attempt /\ new.marked = run.marked
    BY <1>t DEF WithReceipt, LabRuns
  <2> HIDE DEF new
  <2>4. run' = new /\ req' = [req EXCEPT ![w] = q]
    BY <2>1 DEF PatchRun, new
  <2> QED
    BY <1>p, <2>1, <2>2, <2>3, <2>4, RunKept, QuietStep
<1>9. CASE ReceiptLost(w)
  <2>1. PICK verdict \in {"completed", "void"} :
          Moves(w, [req[w] EXCEPT !.pc = "rate", !.verdict = verdict])
    BY <1>9 DEF ReceiptLost
  <2>2. RequestOK([req[w] EXCEPT !.pc = "rate", !.verdict = verdict])
    BY <1>t DEF RequestOK, Requests, Final, Rated
  <2> QED
    BY <1>9, <1>q, <2>1, <2>2 DEF ReceiptLost, Moves
<1> QED
  BY <1>1, <1>2, <1>3, <1>4, <1>5, <1>6, <1>7, <1>8, <1>9 DEF Working

\* The steps launches and workers share keep the invariant.
LEMMA SharedKeeps ==
  ASSUME IInv, NEW p \in Processes, Shared(p)
  PROVE  Rest'
<1>t. TypeOK /\ req[p] \in Requests /\ run \in LabRuns /\ RequestOK(req[p])
  BY DEF IInv, TypeOK
<1>q. ASSUME NEW q, RequestOK(q), req' = [req EXCEPT ![p] = q], UNCHANGED <<run, store>>
      PROVE  Rest'
  BY <1>q, RunKept, QuietStep
<1>s. RequestOK(Resume(p)) /\ Resume(p).pc \in Returns
  <2>1. req[p].then \in Returns
    BY <1>t DEF Requests
  <2>2. Resume(p).pc = req[p].then
    BY DEF Resume, Goto, Idle
  <2> QED
    BY <2>1, <2>2, CalmOK DEF Returns, Calm, Steps
<1>d. RequestOK(AfterDelete(p))
  <2>1. AfterDelete(p).pc \in {"idle", "provision"}
    BY <1>t DEF AfterDelete, Idle, Requests
  <2> QED
    BY <2>1, CalmOK DEF Calm, Steps
<1>1. CASE FindActive(p)
  <2>1. \A d \in Active : RequestOK([req[p] EXCEPT !.target = d])
    <3>1. req[p].pc \in {"void", "rate"} /\ req[p].target = None
      BY <1>1 DEF FindActive, Sealing, At
    <3>2. None \notin activated
      BY <1>t, DrillsAssumption DEF TypeOK
    <3> QED
      BY <3>1, <3>2, <1>t DEF RequestOK, Requests
  <2> QED
    BY <1>1, <1>q, <1>s, <2>1 DEF FindActive, Moves
<1>2. CASE Seal(p)
  <2> DEFINE d == req[p].target
             verdict == req[p].verdict
  <2>1. d \in Drills
    BY <1>2, <1>t DEF Seal, Requests, Attempts
  <2>2. verdict \in Final /\ (NoPractice => verdict \in {"completed", "void"} \/ d \in activated)
    BY <1>2, <1>t DEF Seal, Sealing, At, RequestOK, Final
  <2>3. /\ req' = [req EXCEPT ![p] = Resume(p)]
        /\ UNCHANGED <<run, activated>>
        /\ \/ outcome' = outcome
           \/ /\ outcome' = [outcome EXCEPT ![d] = verdict]
              /\ verdict = "completed" => d \in activated
    BY <1>2 DEF Seal, Moves, Finalize
  <2> HIDE DEF d, verdict
  <2>4. \A e \in Drills : outcome[e] # None => outcome'[e] # None
    BY <2>1, <2>2, <2>3, <1>t DEF TypeOK, Final, Rated, None
  <2>5. ASSUME NEW x \in Processes
        PROVE  RequestOK(req[x])'
    BY <2>3, <2>4, <1>s, <1>t DEF IInv, TypeOK, RequestOK, Returns
  <2>6. RunOK'
    BY <2>3, <2>4, <1>t DEF IInv, RunOK, NamedAttemptsExist, LabRuns, Attempts
  <2>7. StoreTyped'
    BY <2>1, <2>2, <2>3, <1>t DEF TypeOK, StoreTyped, Outcomes
  <2>8. NoPractice => RatedOnlyIfActivated'
    BY <2>1, <2>2, <2>3, <1>t DEF IInv, TypeOK, RatedOnlyIfActivated, Rated
  <2> QED
    BY <2>5, <2>6, <2>7, <2>8 DEF Rest
<1>3. CASE VoidSwallowed(p)
  BY <1>3, <1>q, <1>s DEF VoidSwallowed, Moves
<1>4. CASE Discard(p)
  <2>1. TerminalOutcome(run, "forfeited") \in Final
    BY DEF TerminalOutcome, Final, Rated
  <2>2. ClockStarted(run) => RequestOK(ToRate(p, run, TerminalOutcome(run, "forfeited"), "delete"))
    BY <2>1, RateOK DEF IInv, RunOK, ClockStarted
  <2>3. RequestOK(ToVoid(p, run, "delete"))
    BY VoidOK DEF Calm, Steps
  <2> QED
    BY <1>4, <1>q, <2>2, <2>3 DEF Discard, SealBeforeDelete, Reads
<1>5. CASE NothingToDiscard(p)
  BY <1>5, <1>q, <1>d DEF NothingToDiscard, Moves
<1>6. CASE Delete(p)
  <2> DEFINE new == [run EXCEPT !.life = "deleting"]
  <2>1. run' = new /\ req' = [req EXCEPT ![p] = AfterDelete(p)] /\ UNCHANGED store
    BY <1>6 DEF Delete
  <2>2. new.drill = run.drill /\ new.attempt = run.attempt /\ new.marked = run.marked
    BY <1>t DEF LabRuns
  <2> HIDE DEF new
  <2> QED
    BY <1>d, <2>1, <2>2, RunKept, QuietStep
<1>7. CASE GiveUp(p)
  <2>1. RequestOK(Idle)
    BY CalmOK DEF Idle, Calm, Steps
  <2> QED
    BY <1>7, <1>q, <2>1 DEF GiveUp, Moves
<1> QED
  BY <1>1, <1>2, <1>3, <1>4, <1>5, <1>6, <1>7 DEF Shared

-----------------------------------------------------------------------------

\* The invariant holds initially.
LEMMA InitIInv == Init => IInv
<1> SUFFICES ASSUME Init PROVE IInv
  OBVIOUS
<1>1. TypeOK
  BY BlankType, IdleType DEF Init, TypeOK, Outcomes
<1>2. \A p \in Processes : RequestOK(req[p])
  BY CalmOK DEF Init, Idle, Calm, Steps
<1>3. RunOK /\ RatedOnlyIfActivated
  BY DEF Init, RunOK, NamedAttemptsExist, Blank, RatedOnlyIfActivated, Rated, None
<1> QED
  BY <1>1, <1>2, <1>3 DEF IInv

\* Every step keeps the invariant.
LEMMA NextIInv == IInv /\ [Next]_vars => IInv'
<1> SUFFICES ASSUME IInv, [Next]_vars PROVE IInv'
  OBVIOUS
<1>t. TypeOK
  BY DEF IInv
<1> SUFFICES RequestsTyped' /\ Rest'
  BY DEF RequestsTyped, Rest, StoreTyped, IInv, TypeOK
<1>1. ASSUME NEW r \in Replicas, Launching(r)
      PROVE  RequestsTyped' /\ Rest'
  BY <1>1, <1>t, LaunchingType, LaunchingKeeps
<1>2. ASSUME NEW w \in Workers, Working(w)
      PROVE  RequestsTyped' /\ Rest'
  BY <1>2, <1>t, WorkingType, WorkingKeeps
<1>3. ASSUME NEW p \in Processes, Shared(p)
      PROVE  RequestsTyped' /\ Rest'
  BY <1>3, <1>t, SharedType, SharedKeeps
<1>4. CASE Reconcile \/ UNCHANGED vars
  <2>1. RequestsTyped'
    BY <1>4, <1>t DEF Reconcile, vars, RequestsTyped, TypeOK
  <2>2. /\ \A p \in Processes : RequestOK(req[p])'
        /\ UNCHANGED store
        /\ RunOK'
    BY <1>4, RunKept DEF Reconcile, vars, IInv, RequestOK, store
  <2> QED
    BY <2>1, <2>2 DEF IInv, TypeOK, Rest, StoreTyped, RatedOnlyIfActivated, store
<1>5. CASE Collected
  <2>1. RequestsTyped'
    BY <1>5, <1>t, BlankType DEF Collected, RequestsTyped, TypeOK
  <2>2. RunOK'
    BY <1>5, RunKept DEF Collected, Blank
  <2>3. /\ \A p \in Processes : RequestOK(req[p])'
        /\ UNCHANGED store
    BY <1>5 DEF Collected, IInv, RequestOK, store
  <2> QED
    BY <2>1, <2>2, <2>3 DEF IInv, TypeOK, Rest, StoreTyped, RatedOnlyIfActivated, store
<1> QED
  BY <1>1, <1>2, <1>3, <1>4, <1>5 DEF Next

\* Type correctness, for any incidents, replicas and workers: every write of the code
\* leaves a LabRun, a store and requests of the expected shape.
THEOREM TypeCorrect == Spec => []TypeOK
<1>1. IInv => TypeOK
  BY DEF IInv
<1> QED
  BY InitIInv, NextIInv, <1>1, PTL DEF Spec

\* The LabRun never names an attempt the store does not hold: MarkAttempt and Activate
\* (RankedLaunchOrchestrator.cs:419-447) run only after BeginAsync committed the row,
\* and no teardown removes one.
THEOREM NamesAreDurable == Spec => []NamedAttemptsExist
<1>1. IInv => NamedAttemptsExist
  BY DEF IInv, RunOK
<1> QED
  BY InitIInv, NextIInv, <1>1, PTL DEF Spec

\* Without practice drills on ranked arenas, a rated verdict reaches only an attempt
\* whose clock was committed: cancel, retry, failure, end, teardown and the reaper void
\* the others (RunBroker.cs:2585-2619).
THEOREM NoRatingBeforeActivation ==
  ASSUME "start-drill" \notin Operations
  PROVE  Spec => []RatedOnlyIfActivated
<1>1. IInv => RatedOnlyIfActivated
  BY DEF IInv, NoPractice
<1> QED
  BY InitIInv, NextIInv, <1>1, PTL DEF Spec

\* Only opening an attempt, committing a clock and sealing write the store.
LEMMA StoreStep ==
  ASSUME Next
  PROVE  \/ \E r \in Replicas : OpenAttempt(r) \/ Activate(r)
         \/ \E p \in Processes : Seal(p)
         \/ UNCHANGED store
<1>l. ASSUME NEW r \in Replicas, Launching(r)
      PROVE  OpenAttempt(r) \/ Activate(r) \/ UNCHANGED store
  BY <1>l DEF Launching, ResumeLaunch, RetryLaunch, AbandonLaunch, ProvisionArena,
     ProvisionFinds, OpenLaunch, OpenLaunchLost, Waiting, WaitedTooLong, Ready, ReadyTooLate,
     StartTraffic, TrafficRunning, RecordPhase, RecordPhaseLost, DrawIncident, Unmaterialized,
     ResumeAttempt, AttemptSealed, NoAttempt, AdoptAttempt, MarkAttempt, MarkFailed,
     FailureStands, ReplaceCluster, ClearLaunch, ClearLaunchLost, store
<1>w. ASSUME NEW w \in Workers, Working(w)
      PROVE  UNCHANGED store
  BY <1>w DEF Working, StartDelete, StartExpire, Expire, StartDrill, StartDrillPatch, EndDrill,
     EndDrillPatch, Judge, JudgeSolved, JudgePractice, JudgeVoided, ReceiptLost, store
<1>s. ASSUME NEW p \in Processes, Shared(p)
      PROVE  Seal(p) \/ UNCHANGED store
  BY <1>s DEF Shared, FindActive, VoidSwallowed, Discard, NothingToDiscard, Delete, GiveUp, store
<1>e. Reconcile \/ Collected => UNCHANGED store
  BY DEF Reconcile, Collected, store
<1> QED
  BY <1>l, <1>w, <1>s, <1>e DEF Next

\* No step changes the outcome of a sealed attempt: only OpenAttempt and Seal write
\* outcomes, the first where there is none and the second where it is active.
LEMMA SealedStep ==
  ASSUME TypeOK, Next, NEW d \in Drills, outcome[d] \in Final
  PROVE  outcome'[d] = outcome[d]
<1>1. CASE \E r \in Replicas : OpenAttempt(r)
  BY <1>1 DEF OpenAttempt, TypeOK, Final, Rated, None
<1>2. CASE \E p \in Processes : Seal(p)
  BY <1>2 DEF Seal, Finalize, Active, TypeOK, Final, Rated
<1>3. CASE UNCHANGED store \/ \E r \in Replicas : Activate(r)
  BY <1>3 DEF Activate, store
<1> QED
  BY <1>1, <1>2, <1>3, StoreStep

\* The first verdict stands, whichever requests decide the same attempt
\* (FinalizeAsync, RankedStore.cs:229-384).
THEOREM FirstVerdictStands == Spec => SealedForever
<1>1. TypeOK /\ [Next]_vars =>
        [\A d \in Drills : outcome[d] \in Final => outcome'[d] = outcome[d]]_vars
  BY SealedStep DEF vars
<1> QED
  BY TypeCorrect, <1>1, PTL DEF Spec, SealedForever

\* The matches live as MatchRegister says: every write of the store, by whichever of
\* launch, cancel, retry, end, judge, teardown and reaper, opens, starts or decides a
\* match (RankedStore.cs BeginAsync and FinalizeAsync), as long as no practice drill is
\* started on the arena.
THEOREM RegisterIsKept ==
  ASSUME "start-drill" \notin Operations
  PROVE  Spec => ImplementsRegister
<1>1. Init => Register!Init
  BY DEF Init, Register!Init, None
<1>2. IInv /\ [Next]_vars => [Register!Next]_store
  <2> SUFFICES ASSUME IInv, Next PROVE Register!Next \/ UNCHANGED store
    BY DEF vars, store
  <2>t. TypeOK
    BY DEF IInv
  <2>1. ASSUME NEW r \in Replicas, OpenAttempt(r) PROVE Register!Next
    <3>1. req[r].seen.incident \in Drills
      BY <2>1 DEF OpenAttempt, At, IInv, RequestOK, Processes
    <3>2. Register!Open(req[r].seen.incident)
      BY <2>1, <3>1 DEF OpenAttempt, Register!Open, Active, None
    <3> QED
      BY <3>1, <3>2, Zenon DEF Register!Next
  <2>2. ASSUME NEW r \in Replicas, Activate(r) PROVE Register!Next
    <3>1. req[r].target \in Drills /\ outcome[req[r].target] # None
      BY <2>2 DEF Activate, At, IInv, RequestOK, Processes
    <3>2. Register!Start(req[r].target)
      BY <2>2, <3>1 DEF Activate, Register!Start, None
    <3> QED
      BY <3>1, <3>2, Zenon DEF Register!Next
  <2>3. ASSUME NEW p \in Processes, Seal(p) PROVE Register!Next \/ UNCHANGED store
    <3>1. PICK d \in Drills, verdict \in Final : d = req[p].target /\ verdict = req[p].verdict
      BY <2>3, <2>t DEF Seal, Sealing, At, IInv, RequestOK, TypeOK, Requests, Attempts, Final
    <3>2. verdict \in Rated => d \in activated \/ verdict = "completed"
      BY <2>3, <3>1 DEF Seal, Sealing, At, IInv, RequestOK, NoPractice, Rated
    <3>3. CASE UNCHANGED store
      BY <3>3
    <3>4. CASE ~ UNCHANGED store
      <4>1. /\ d \in Active /\ (verdict = "completed" => d \in activated)
            /\ outcome' = [outcome EXCEPT ![d] = verdict] /\ UNCHANGED activated
        BY <2>3, <3>1, <3>4 DEF Seal, Finalize, store
      <4>2. Register!Decide(d, verdict)
        BY <3>2, <4>1 DEF Active, Register!Decide, Register!Rated, Rated
      <4>3. verdict \in Register!Verdicts
        BY DEF Register!Verdicts, Register!Rated, Final, Rated
      <4> QED
        BY <4>2, <4>3, Zenon DEF Register!Next
    <3> QED
      BY <3>3, <3>4
  <2> QED
    BY <2>1, <2>2, <2>3, StoreStep
<1> QED
  BY InitIInv, NextIInv, <1>1, <1>2, PTL DEF Spec, ImplementsRegister, Register!Spec, store

-----------------------------------------------------------------------------
(***************************************************************************)
(* FailedLaunchNamesNoAttempt and LaunchKeepsItsMatch rest on the versions *)
(* the writes carry.  VInv says what holding the stored version means (the *)
(* LabRun as last read is the one stored) and what a request has seen at   *)
(* each step of a launch; it needs nothing of IInv but the types.          *)
(***************************************************************************)

\* A request that holds the stored version has read what is stored.
VersionOK(p) == p \in current => req[p].seen = run

\* What a launch has read at each of its steps: a launch that has not failed, no incident
\* before it draws one, no attempt before it opens one, the attempt it activates.
LaunchOK(q) ==
    /\ \/ q.pc \in {"advance", "draw", "resolve", "open-attempt", "mark"}
       \/ q.pc = "record" /\ q.note.phase = "activating-incident"
       => q.seen.failure = NoFailure
    /\ q.pc = "draw" => q.seen.incident = None
    /\ q.pc \in {"open-attempt", "mark"} => q.seen.marked = None
    /\ q.pc = "activate" => q.seen.marked = q.target

\* VInv without the types.
Kept ==
    /\ FailedLaunchNamesNoAttempt
    /\ \A p \in Processes : VersionOK(p) /\ LaunchOK(req[p])

\* The inductive invariant of the versions.
VInv == TypeOK /\ Kept

\* The steps LaunchOK says nothing about.
Aside == Steps \ {"advance", "record", "draw", "resolve", "open-attempt", "mark", "activate"}

\* A request at such a step is in order.
LEMMA AsideOK ==
  ASSUME NEW q, q.pc \in Aside
  PROVE  LaunchOK(q)
  BY DEF Aside, LaunchOK

\* A step on local data keeps the versions when the request forgets its cluster or
\* keeps it.
LEMMA MovesKeeps ==
  ASSUME VInv, NEW p \in Processes, NEW q, Moves(p, q), LaunchOK(q),
         q.seen \in {req[p].seen, Blank}
  PROVE  Kept'
  BY DEF VInv, Kept, TypeOK, Moves, VersionOK, FailedLaunchNamesNoAttempt, LaunchOK

\* A read keeps them when the request keeps what it read, or nothing.
LEMMA ReadsKeeps ==
  ASSUME VInv, NEW p \in Processes, NEW q, Reads(p, q), LaunchOK(q),
         q.seen \in {run, Blank}
  PROVE  Kept'
  BY DEF VInv, Kept, TypeOK, Reads, Holding, VersionOK, FailedLaunchNamesNoAttempt, LaunchOK

\* A guarded write keeps them when the request keeps what it wrote, or nothing.
LEMMA CompareAndSetKeeps ==
  ASSUME VInv, NEW p \in Processes, NEW new, NEW q, CompareAndSet(p, new, q),
         LaunchOK(q), q.seen \in {new, Blank},
         new.failure # NoFailure => new.marked = None
  PROVE  Kept'
  BY DEF VInv, Kept, TypeOK, CompareAndSet, Holding, VersionOK, FailedLaunchNamesNoAttempt,
     LaunchOK

\* A blind write keeps them: its request holds no version afterwards.
LEMMA PatchRunKeeps ==
  ASSUME VInv, NEW p \in Processes, NEW new, NEW q, PatchRun(p, new, q),
         LaunchOK(q), new.failure # NoFailure => new.marked = None
  PROVE  Kept'
  BY DEF VInv, Kept, TypeOK, PatchRun, VersionOK, FailedLaunchNamesNoAttempt, LaunchOK

\* A step that forgets its cluster keeps them.
LEMMA ForgettingKeeps ==
  ASSUME VInv, NEW p \in Processes, NEW q, Moves(p, q) \/ Reads(p, q), LaunchOK(q), q.seen = Blank
  PROVE  Kept'
  BY MovesKeeps, ReadsKeeps

\* Clearing a launch leaves a cluster that has not failed.
LEMMA ClearedIsSound ==
  ASSUME NEW c \in LabRuns
  PROVE  /\ WithoutLaunch(c) \in LabRuns
         /\ WithoutLaunch(c).failure = NoFailure
         /\ WithoutLaunch(c).incident = None /\ WithoutLaunch(c).marked = None
<1>1. None \in Phases /\ None \in Attempts
  BY DEF Phases, None, Attempts
<1> QED
  BY <1>1, NoFailureType DEF WithoutLaunch, LabRuns

\* Where a request goes on with a cluster it has just read, or written, is in order.
LEMMA ContinueKeeps ==
  ASSUME TypeOK, NEW p \in Processes, NEW c \in LabRuns
  PROVE  LaunchOK(Continue(p, c)) /\ Continue(p, c).seen \in {c, Blank}
<1>1. \/ Continue(p, c).pc \in {"idle", "open"}
      \/ Continue(p, c).pc = "advance" /\ Continue(p, c).seen.failure = NoFailure
  BY DEF Continue, Idle, TypeOK, Requests
<1>2. Continue(p, c).seen \in {c, Blank}
  BY DEF Continue, Idle, TypeOK, Requests
<1> QED
  BY <1>1, <1>2 DEF LaunchOK

\* So is going to void an attempt; a reset keeps the cluster, everything else forgets it.
LEMMA VoidKeeps ==
  ASSUME TypeOK, NEW p \in Processes, NEW c \in LabRuns, NEW then \in Returns
  PROVE  /\ LaunchOK(ToVoid(p, c, then)) /\ LaunchOK(VoidLaunchAttempt(p, c, then))
         /\ ToVoid(p, c, then).seen \in {c, Blank}
         /\ VoidLaunchAttempt(p, c, then).seen \in {c, Blank}
         /\ then # "reset" => VoidLaunchAttempt(p, c, then).seen = Blank
<1>1. /\ ToVoid(p, c, then).pc = "void"
      /\ Goto(p, then, c).pc = then
      /\ ToVoid(p, c, then).seen = Goto(p, then, c).seen
      /\ Goto(p, then, c).seen = IF then = "reset" THEN c ELSE Blank
  BY DEF ToVoid, Goto, Idle
<1>2. then \in Aside /\ "void" \in Aside
  BY DEF Returns, Aside, Steps
<1> QED
  BY <1>1, <1>2, AsideOK DEF VoidLaunchAttempt

\* And so is going to seal a decided match.
LEMMA RateKeeps ==
  ASSUME NEW p, NEW c, NEW verdict, NEW then
  PROVE  LaunchOK(ToRate(p, c, verdict, then)) /\ ToRate(p, c, verdict, then).seen = Blank
<1>1. ToRate(p, c, verdict, then).pc = "rate" /\ ToRate(p, c, verdict, then).seen = Blank
  BY DEF ToRate, Goto, Idle
<1> QED
  BY <1>1 DEF LaunchOK

\* Recording a phase of a launch that has not failed leads on in order.
LEMMA AfterRecordKeeps ==
  ASSUME TypeOK, NEW r \in Processes, NEW c \in LabRuns,
         req[r].note.phase = "activating-incident" => c.failure = NoFailure
  PROVE  LaunchOK(AfterRecord(r, c)) /\ AfterRecord(r, c).seen \in {c, Blank}
<1>1. \/ AfterRecord(r, c) = Idle
      \/ /\ AfterRecord(r, c).pc \in {"draw", "resolve"}
         /\ AfterRecord(r, c).pc = "draw" => c.incident = None
         /\ AfterRecord(r, c).seen = c
         /\ c.failure = NoFailure
  BY DEF AfterRecord, Idle, TypeOK, Requests
<1> QED
  BY <1>1 DEF LaunchOK, Idle

\* A request that does nothing is in order.
LEMMA IdleKeeps == LaunchOK(Idle) /\ Idle.seen = Blank
  BY DEF Idle, LaunchOK

\* Every step of a launch request keeps the versions.
LEMMA LaunchingVersions ==
  ASSUME VInv, NEW r \in Replicas, Launching(r)
  PROVE  Kept'
<1>p. r \in Processes
  BY DEF Processes
<1>t. /\ TypeOK /\ req[r] \in Requests /\ run \in LabRuns /\ LaunchOK(req[r])
      /\ req[r].seen \in LabRuns
      /\ r \in current => req[r].seen = run
  BY <1>p DEF VInv, Kept, VersionOK, TypeOK, Requests
<1>f. Found \in LabRuns /\ Found \in {run, Blank}
  BY <1>t, BlankType DEF Found
<1>i. run.failure # NoFailure => run.marked = None
  BY DEF VInv, Kept, FailedLaunchNamesNoAttempt
<1>1. CASE ResumeLaunch(r) \/ ProvisionFinds(r)
  <2>1. Reads(r, Continue(r, Found))
    BY <1>1 DEF ResumeLaunch, ProvisionFinds
  <2> QED
    BY <2>1, <1>p, <1>t, <1>f, ContinueType, ContinueKeeps, ReadsKeeps
<1>2. CASE RetryLaunch(r)
  <2>1. PICK start \in {"idle", "provision"} :
          Reads(r, [VoidLaunchAttempt(r, Found, "reset") EXCEPT !.after = start])
    BY <1>2 DEF RetryLaunch
  <2> DEFINE v == VoidLaunchAttempt(r, Found, "reset")
             q == [v EXCEPT !.after = start]
  <2>2. v \in Requests /\ LaunchOK(v) /\ v.seen \in {Found, Blank}
    BY <1>p, <1>t, <1>f, VoidType, VoidKeeps DEF Returns
  <2> HIDE DEF v
  <2>3. q \in Requests /\ LaunchOK(q) /\ q.seen \in {run, Blank}
    BY <2>2, <1>f DEF Requests, LaunchOK
  <2>4. Reads(r, q)
    BY <2>1 DEF v
  <2> HIDE DEF q
  <2> QED
    BY <1>p, <2>3, <2>4, ReadsKeeps
<1>3. CASE AbandonLaunch(r)
  <2>1. Reads(r, VoidLaunchAttempt(r, Found, "discard"))
    BY <1>3 DEF AbandonLaunch
  <2> QED
    BY <2>1, <1>p, <1>t, <1>f, VoidType, VoidKeeps, ReadsKeeps DEF Returns
<1>4. CASE ProvisionArena(r)
  <2> DEFINE made == [Blank EXCEPT !.life = "live"]
             q == Continue(r, made)
  <2>1. made \in LabRuns /\ made.failure = NoFailure
    BY BlankType DEF LabRuns, Blank
  <2>2. run' = made /\ req' = [req EXCEPT ![r] = q] /\ current' = {r}
    BY <1>4 DEF ProvisionArena
  <2>3. q.seen = made
    <3>1. made.life = "live" /\ made.drill = None /\ made.launched = FALSE
      BY DEF Blank
    <3> HIDE DEF made
    <3> QED
      BY <3>1, <1>t DEF Continue, Requests
  <2>4. LaunchOK(q)
    BY <1>p, <1>t, <2>1, ContinueKeeps
  <2> HIDE DEF made, q
  <2> QED
    BY <1>p, <2>1, <2>2, <2>3, <2>4
    DEF VInv, Kept, TypeOK, VersionOK, LaunchOK, FailedLaunchNamesNoAttempt
<1>5. CASE OpenLaunch(r)
  <2> DEFINE new == [run EXCEPT !.launched = TRUE, !.phase = "provisioning", !.failure = NoFailure]
             q == [req[r] EXCEPT !.pc = "advance", !.seen = new]
  <2>1. new \in LabRuns /\ new.failure = NoFailure
    BY <1>t, NoFailureType DEF LabRuns, Phases
  <2>2. q \in Requests /\ LaunchOK(q) /\ q.seen = new
    BY <1>t, <2>1 DEF Requests, Steps, LaunchOK
  <2>3. CompareAndSet(r, new, q)
    BY <1>5 DEF OpenLaunch
  <2> HIDE DEF new, q
  <2> QED
    BY <1>p, <2>1, <2>2, <2>3, CompareAndSetKeeps
<1>6. CASE OpenLaunchLost(r)
  <2> DEFINE q == [req[r] EXCEPT !.pc = "advance", !.seen = run]
  <2>1. q \in Requests /\ LaunchOK(q) /\ q.seen = run
    BY <1>6, <1>t DEF OpenLaunchLost, Requests, Steps, LaunchOK
  <2>2. Reads(r, q)
    BY <1>6 DEF OpenLaunchLost
  <2> HIDE DEF q
  <2> QED
    BY <1>p, <2>1, <2>2, ReadsKeeps
<1>7. CASE Waiting(r) \/ WaitedTooLong(r) \/ Ready(r) \/ ReadyTooLate(r)
  <2>1. PICK step \in {"record", "fail"}, g \in Measured \cup {"activating-incident"},
             reason \in Reasons \cup {None} :
          Moves(r, [req[r] EXCEPT !.pc = step, !.note = Note(g, reason)])
    BY <1>7 DEF Waiting, WaitedTooLong, Ready, ReadyTooLate, Reasons
  <2> DEFINE q == [req[r] EXCEPT !.pc = step, !.note = Note(g, reason)]
  <2>2. Note(g, reason) \in Notes
    BY MeasuredAssumption DEF Note, Notes, Phases
  <2>3. req[r].seen.failure = NoFailure
    BY <1>7, <1>t DEF Waiting, WaitedTooLong, Ready, ReadyTooLate, At, LaunchOK
  <2>4. q \in Requests /\ q.seen = req[r].seen /\ q.pc \in {"record", "fail"}
    BY <1>t, <2>2 DEF Requests, Steps
  <2>5. LaunchOK(q)
    BY <2>3, <2>4 DEF LaunchOK
  <2> HIDE DEF q
  <2>6. Moves(r, q)
    BY <2>1 DEF q
  <2> QED
    BY <1>p, <2>4, <2>5, <2>6, MovesKeeps
<1>8. CASE StartTraffic(r)
  BY <1>8, <1>p
  DEF StartTraffic, VInv, Kept, VersionOK, FailedLaunchNamesNoAttempt, LaunchOK
<1>9. CASE TrafficRunning(r)
  <2> DEFINE q == [req[r] EXCEPT !.seen = run]
  <2>1. q \in Requests /\ q.seen = run /\ q.pc = "record" /\ q.note.phase \in Measured
    BY <1>9, <1>t DEF TrafficRunning, At, Requests
  <2>2. LaunchOK(q)
    BY <2>1, MeasuredAssumption DEF LaunchOK
  <2>3. Reads(r, q)
    BY <1>9 DEF TrafficRunning
  <2> HIDE DEF q
  <2> QED
    BY <1>p, <2>1, <2>2, <2>3, ReadsKeeps
<1>10. CASE RecordPhase(r)
  <2> DEFINE new == [run EXCEPT !.phase = req[r].note.phase]
             q == AfterRecord(r, new)
  <2>1. new \in LabRuns /\ new.failure = run.failure /\ new.marked = run.marked
    BY <1>t DEF LabRuns, Requests, Notes
  <2>2. req[r].note.phase = "activating-incident" => new.failure = NoFailure
    BY <1>10, <1>t, <2>1 DEF RecordPhase, At, CompareAndSet, LaunchOK
  <2>3. CompareAndSet(r, new, q)
    BY <1>10 DEF RecordPhase
  <2> HIDE DEF new
  <2>4. q \in Requests /\ LaunchOK(q) /\ q.seen \in {new, Blank}
    BY <1>p, <1>t, <2>1, <2>2, AfterRecordType, AfterRecordKeeps
  <2> HIDE DEF q
  <2> QED
    BY <1>p, <1>i, <2>1, <2>3, <2>4, CompareAndSetKeeps
<1>11. CASE RecordPhaseLost(r)
  <2> DEFINE q == AfterRecord(r, req[r].seen)
  <2>1. req[r].note.phase = "activating-incident" => req[r].seen.failure = NoFailure
    BY <1>11, <1>t DEF RecordPhaseLost, At, LaunchOK
  <2>2. q \in Requests /\ LaunchOK(q) /\ q.seen \in {req[r].seen, Blank}
    BY <1>p, <1>t, <2>1, AfterRecordType, AfterRecordKeeps
  <2>3. Moves(r, q)
    BY <1>11 DEF RecordPhaseLost
  <2> HIDE DEF q
  <2> QED
    BY <1>p, <2>2, <2>3, MovesKeeps
<1>12. CASE DrawIncident(r)
  <2>1. PICK d \in Drills :
          LET new == [run EXCEPT !.incident = d]
          IN  CompareAndSet(r, new, [req[r] EXCEPT !.pc = "resolve", !.seen = new])
    BY <1>12 DEF DrawIncident
  <2> DEFINE new == [run EXCEPT !.incident = d]
             q == [req[r] EXCEPT !.pc = "resolve", !.seen = new]
  <2>2. run.failure = NoFailure
    BY <1>12, <1>t, <2>1 DEF DrawIncident, At, CompareAndSet, LaunchOK
  <2>3. new \in LabRuns /\ new.failure = NoFailure
    BY <1>t, <2>2 DEF LabRuns, Attempts
  <2>4. CompareAndSet(r, new, q)
    BY <2>1
  <2> HIDE DEF new
  <2>5. q \in Requests /\ LaunchOK(q) /\ q.seen = new
    BY <1>t, <2>3 DEF Requests, Steps, LaunchOK
  <2> HIDE DEF q
  <2> QED
    BY <1>p, <2>3, <2>4, <2>5, CompareAndSetKeeps
<1>13. CASE Unmaterialized(r) \/ AttemptSealed(r)
  <2>1. PICK reason \in Reasons :
          Moves(r, [req[r] EXCEPT !.pc = "fail", !.note = Note("activating-incident", reason)])
    BY <1>13 DEF Unmaterialized, AttemptSealed, Reasons
  <2> DEFINE q == [req[r] EXCEPT !.pc = "fail", !.note = Note("activating-incident", reason)]
  <2>2. q \in Requests /\ q.seen = req[r].seen /\ q.pc = "fail"
    BY <1>t DEF Requests, Steps, Note, Notes, Phases
  <2>3. Moves(r, q)
    BY <2>1
  <2> HIDE DEF q
  <2> QED
    BY <1>p, <2>2, <2>3, MovesKeeps DEF LaunchOK
<1>14. CASE ResumeAttempt(r)
  <2> DEFINE q == [req[r] EXCEPT !.pc = "activate", !.target = req[r].seen.marked]
  <2>1. q \in Requests /\ LaunchOK(q) /\ q.seen = req[r].seen
    BY <1>t DEF Requests, Steps, LaunchOK, LabRuns
  <2>2. Moves(r, q)
    BY <1>14 DEF ResumeAttempt
  <2> HIDE DEF q
  <2> QED
    BY <1>p, <2>1, <2>2, MovesKeeps
<1>15. CASE NoAttempt(r)
  <2> DEFINE q == [req[r] EXCEPT !.pc = "open-attempt"]
  <2>1. q \in Requests /\ LaunchOK(q) /\ q.seen = req[r].seen
    BY <1>15, <1>t DEF NoAttempt, At, Requests, Steps, LaunchOK
  <2>2. Moves(r, q)
    BY <1>15 DEF NoAttempt
  <2> HIDE DEF q
  <2> QED
    BY <1>p, <2>1, <2>2, MovesKeeps
<1>16. CASE AdoptAttempt(r) \/ OpenAttempt(r)
  <2>1. PICK d \in Attempts : Moves(r, [req[r] EXCEPT !.pc = "mark", !.target = d])
    BY <1>16, <1>t DEF AdoptAttempt, OpenAttempt, Active, Attempts, LabRuns
  <2> DEFINE q == [req[r] EXCEPT !.pc = "mark", !.target = d]
  <2>2. req[r].seen.failure = NoFailure /\ req[r].seen.marked = None
    BY <1>16, <1>t DEF AdoptAttempt, OpenAttempt, At, LaunchOK
  <2>3. q \in Requests /\ LaunchOK(q) /\ q.seen = req[r].seen
    BY <1>t, <2>2 DEF Requests, Steps, LaunchOK
  <2>4. Moves(r, q)
    BY <2>1
  <2> HIDE DEF q
  <2> QED
    BY <1>p, <2>3, <2>4, MovesKeeps
<1>17. CASE MarkAttempt(r)
  <2> DEFINE new == [run EXCEPT !.marked = req[r].target]
             q == [req[r] EXCEPT !.pc = "activate", !.seen = new]
  <2>1. run.failure = NoFailure
    BY <1>17, <1>t DEF MarkAttempt, At, CompareAndSet, LaunchOK
  <2>2. new \in LabRuns /\ new.failure = NoFailure /\ new.marked = req[r].target
    BY <1>t, <2>1 DEF LabRuns, Requests
  <2>3. CompareAndSet(r, new, q)
    BY <1>17 DEF MarkAttempt
  <2> HIDE DEF new
  <2>4. q \in Requests /\ LaunchOK(q) /\ q.seen = new
    BY <1>t, <2>2 DEF Requests, Steps, LaunchOK
  <2> HIDE DEF q
  <2> QED
    BY <1>p, <2>2, <2>3, <2>4, CompareAndSetKeeps
<1>18. CASE Activate(r)
  <2> DEFINE new == [run EXCEPT !.drill = req[r].seen.incident, !.attempt = req[r].target,
                                !.terminal = {}, !.phase = "active",
                                !.failure = NoFailure, !.marked = req[r].target]
  <2>1. new.failure = NoFailure
    BY <1>t DEF LabRuns
  <2>2. CompareAndSet(r, new, Idle)
    BY <1>18 DEF Activate
  <2> HIDE DEF new
  <2> QED
    BY <1>p, <2>1, <2>2, IdleType, IdleKeeps, CompareAndSetKeeps
<1>v. /\ VoidLaunchAttempt(r, req[r].seen, "idle") \in Requests
      /\ LaunchOK(VoidLaunchAttempt(r, req[r].seen, "idle"))
      /\ VoidLaunchAttempt(r, req[r].seen, "idle").seen = Blank
  BY <1>t, <1>p, VoidType, VoidKeeps DEF Returns
<1>19. CASE MarkFailed(r)
  <2> DEFINE new == [run EXCEPT !.phase = "launch-failed", !.failure = req[r].note,
                                !.marked = None]
  <2>1. new.marked = None
    BY <1>t DEF LabRuns
  <2>2. CompareAndSet(r, new, VoidLaunchAttempt(r, req[r].seen, "idle"))
    BY <1>19 DEF MarkFailed
  <2> HIDE DEF new
  <2> QED
    BY <1>p, <1>v, <2>1, <2>2, CompareAndSetKeeps
<1>20. CASE FailureStands(r)
  BY <1>20, <1>p, <1>v, MovesKeeps DEF FailureStands
<1>21. CASE ReplaceCluster(r)
  <2>1. /\ Goto(r, "discard", Blank) \in Requests
        /\ Goto(r, "discard", Blank).pc = "discard"
        /\ Goto(r, "discard", Blank).seen = Blank
    BY <1>p, <1>t, BlankType, GotoType DEF Goto, Idle, Steps
  <2> QED
    BY <1>21, <1>p, <2>1, MovesKeeps DEF ReplaceCluster, LaunchOK
<1>22. CASE ClearLaunch(r)
  <2> DEFINE new == WithoutLaunch(run)
  <2>1. new \in LabRuns /\ new.failure = NoFailure
    BY <1>t, ClearedIsSound
  <2>2. CompareAndSet(r, new, Continue(r, new))
    BY <1>22 DEF ClearLaunch
  <2> HIDE DEF new
  <2> QED
    BY <1>p, <1>t, <2>1, <2>2, ContinueType, ContinueKeeps, CompareAndSetKeeps
<1>23. CASE ClearLaunchLost(r)
  <2>1. Reads(r, Continue(r, run))
    BY <1>23 DEF ClearLaunchLost
  <2> QED
    BY <1>p, <1>t, <2>1, ContinueType, ContinueKeeps, ReadsKeeps
<1> QED
  BY <1>1, <1>2, <1>3, <1>4, <1>5, <1>6, <1>7, <1>8, <1>9, <1>10, <1>11, <1>12, <1>13, <1>14,
     <1>15, <1>16, <1>17, <1>18, <1>19, <1>20, <1>21, <1>22, <1>23 DEF Launching

\* Where a teardown goes on with the cluster it has just read forgets it.
LEMMA SealKeeps ==
  ASSUME TypeOK, NEW p \in Processes, NEW verdict
  PROVE  LaunchOK(SealBeforeDelete(p, verdict)) /\ SealBeforeDelete(p, verdict).seen = Blank
<1>1. LaunchOK(ToVoid(p, run, "delete"))
  BY VoidKeeps DEF TypeOK, Returns
<1>2. ToVoid(p, run, "delete").seen = Blank
  BY DEF ToVoid, Goto, Idle
<1> QED
  BY <1>1, <1>2, RateKeeps DEF SealBeforeDelete

\* Every step of a worker keeps the versions: none of them guards a write.
LEMMA WorkingVersions ==
  ASSUME VInv, NEW w \in Workers, Working(w)
  PROVE  Kept'
<1>p. w \in Processes
  BY DEF Processes
<1>t. TypeOK /\ req[w] \in Requests /\ run \in LabRuns
  BY <1>p DEF VInv, TypeOK
<1>i. \A step \in Aside : LaunchOK([Idle EXCEPT !.pc = step]) /\ [Idle EXCEPT !.pc = step].seen = Blank
  BY AsideOK DEF Idle
<1>m. run.failure # NoFailure => run.marked = None
  BY DEF VInv, Kept, FailedLaunchNamesNoAttempt
<1>1. CASE StartDelete(w) \/ StartExpire(w)
  BY <1>1, <1>p, <1>i, ForgettingKeeps DEF StartDelete, StartExpire, Aside, Steps
<1>2. CASE Expire(w)
  BY <1>2, <1>p, <1>t, SealKeeps, ForgettingKeeps DEF Expire
<1>3. CASE StartDrill(w)
  BY <1>3, <1>p, <1>i, ForgettingKeeps DEF StartDrill, Aside, Steps
<1>4. CASE StartDrillPatch(w)
  <2> DEFINE new == [run EXCEPT !.drill = Practice, !.attempt = None, !.terminal = {}]
  <2>1. new.failure = run.failure /\ new.marked = run.marked
    BY <1>t DEF LabRuns
  <2>2. PatchRun(w, new, Idle)
    BY <1>4 DEF StartDrillPatch
  <2> HIDE DEF new
  <2> QED
    BY <1>p, <1>m, <2>1, <2>2, IdleKeeps, PatchRunKeeps
<1>5. CASE EndDrill(w)
  <2> DEFINE ended == [Idle EXCEPT !.pc = "end"]
  <2>1. PICK q \in {ToRate(w, run, TerminalOutcome(run, "forfeited"), "end"), ended} : Reads(w, q)
    BY <1>5 DEF EndDrill
  <2>2. LaunchOK(ended) /\ ended.seen = Blank
    BY DEF Idle, LaunchOK
  <2> HIDE DEF ended
  <2>3. LaunchOK(q) /\ q.seen = Blank
    BY <2>1, <2>2, RateKeeps
  <2> QED
    BY <1>p, <2>1, <2>3, ForgettingKeeps
<1>6. CASE EndDrillPatch(w)
  <2> DEFINE cleared == WithoutLaunch(run)
             new == [cleared EXCEPT !.drill = None, !.attempt = None, !.terminal = {}]
  <2>1. cleared \in LabRuns /\ cleared.failure = NoFailure
    BY <1>t, ClearedIsSound
  <2>2. PatchRun(w, new, Idle)
    BY <1>6 DEF EndDrillPatch
  <2> HIDE DEF cleared
  <2>3. new.failure = NoFailure
    BY <2>1 DEF LabRuns
  <2> HIDE DEF new
  <2> QED
    BY <1>p, <2>2, <2>3, IdleKeeps, PatchRunKeeps
<1>7. CASE Judge(w)
  <2> DEFINE judge == [Idle EXCEPT !.pc = "judge", !.target = run.attempt]
             practice == [Idle EXCEPT !.pc = "judge-practice"]
  <2>1. PICK q \in {ToRate(w, run, TerminalOutcome(run, None), "idle"), Idle, judge, practice} :
          Reads(w, q)
    BY <1>7 DEF Judge
  <2>2. LaunchOK(judge) /\ judge.seen = Blank /\ LaunchOK(practice) /\ practice.seen = Blank
    BY DEF Idle, LaunchOK
  <2> HIDE DEF judge, practice
  <2>3. LaunchOK(q) /\ q.seen = Blank
    BY <2>1, <2>2, IdleKeeps, RateKeeps
  <2> QED
    BY <1>p, <2>1, <2>3, ForgettingKeeps
<1>8. CASE JudgeSolved(w) \/ JudgePractice(w) \/ JudgeVoided(w)
  <2>1. PICK receipt \in {"solved", "voided"},
             q \in {ToRate(w, run, "completed", "idle"), ToRate(w, run, "void", "idle"), Idle} :
          PatchRun(w, WithReceipt(receipt), q)
    BY <1>8 DEF JudgeSolved, JudgePractice, JudgeVoided
  <2>2. LaunchOK(q)
    BY <2>1, IdleKeeps, RateKeeps
  <2> DEFINE new == WithReceipt(receipt)
  <2>3. new.failure = run.failure /\ new.marked = run.marked
    BY <1>t DEF WithReceipt, LabRuns
  <2>4. PatchRun(w, new, q)
    BY <2>1
  <2> HIDE DEF new
  <2> QED
    BY <1>p, <1>m, <2>2, <2>3, <2>4, PatchRunKeeps
<1>9. CASE ReceiptLost(w)
  <2>1. PICK verdict \in {"completed", "void"} :
          Moves(w, [req[w] EXCEPT !.pc = "rate", !.verdict = verdict])
    BY <1>9 DEF ReceiptLost
  <2> DEFINE q == [req[w] EXCEPT !.pc = "rate", !.verdict = verdict]
  <2>2. q.pc = "rate" /\ q.seen = req[w].seen
    BY <1>t DEF Requests
  <2>3. Moves(w, q)
    BY <2>1
  <2> HIDE DEF q
  <2>4. LaunchOK(q)
    BY <2>2 DEF LaunchOK
  <2> QED
    BY <1>p, <2>2, <2>3, <2>4, MovesKeeps
<1> QED
  BY <1>1, <1>2, <1>3, <1>4, <1>5, <1>6, <1>7, <1>8, <1>9 DEF Working

\* The steps launches and workers share keep the versions.
LEMMA SharedVersions ==
  ASSUME VInv, NEW p \in Processes, Shared(p)
  PROVE  Kept'
<1>t. TypeOK /\ req[p] \in Requests /\ run \in LabRuns
  BY DEF VInv, TypeOK
<1>s. LaunchOK(Resume(p)) /\ Resume(p).seen \in {req[p].seen, Blank}
  <2>1. req[p].then \in Aside
    BY <1>t DEF Requests, Returns, Aside, Steps
  <2>2. Resume(p).pc = req[p].then /\ Resume(p).seen \in {req[p].seen, Blank}
    BY DEF Resume, Goto, Idle
  <2> QED
    BY <2>1, <2>2, AsideOK
<1>d. LaunchOK(AfterDelete(p)) /\ AfterDelete(p).seen = Blank
  BY <1>t DEF AfterDelete, Idle, LaunchOK, Requests
<1>1. CASE FindActive(p)
  <2>1. ASSUME NEW d \in Active, Moves(p, [req[p] EXCEPT !.target = d])
        PROVE  Kept'
    <3> DEFINE q == [req[p] EXCEPT !.target = d]
    <3>1. q.pc \in {"void", "rate"} /\ q.seen = req[p].seen
      BY <1>1, <1>t DEF FindActive, Sealing, At, Requests
    <3>2. Moves(p, q)
      BY <2>1
    <3> HIDE DEF q
    <3>3. LaunchOK(q)
      BY <3>1 DEF LaunchOK
    <3> QED
      BY <3>1, <3>2, <3>3, MovesKeeps
  <2>2. CASE Moves(p, Resume(p))
    BY <2>2, <1>s, MovesKeeps
  <2> QED
    BY <1>1, <2>1, <2>2 DEF FindActive
<1>2. CASE Seal(p) \/ VoidSwallowed(p)
  BY <1>2, <1>s, MovesKeeps DEF Seal, VoidSwallowed
<1>3. CASE Discard(p)
  BY <1>3, <1>t, SealKeeps, ForgettingKeeps DEF Discard
<1>4. CASE NothingToDiscard(p)
  BY <1>4, <1>d, ForgettingKeeps DEF NothingToDiscard
<1>5. CASE Delete(p)
  <2> DEFINE new == [run EXCEPT !.life = "deleting"]
  <2>1. /\ run' = new /\ req' = [req EXCEPT ![p] = AfterDelete(p)]
        /\ current' = (IF run.life = "deleting" THEN current ELSE {}) \ {p}
    BY <1>5 DEF Delete
  <2>2. /\ new.failure = run.failure /\ new.marked = run.marked
        /\ run.life = "deleting" => new = run
    BY <1>t DEF LabRuns
  <2> HIDE DEF new
  <2> QED
    BY <2>1, <2>2, <1>d, <1>t DEF VInv, Kept, TypeOK, VersionOK, FailedLaunchNamesNoAttempt, LaunchOK
<1>6. CASE GiveUp(p)
  BY <1>6, IdleKeeps, ForgettingKeeps DEF GiveUp
<1> QED
  BY <1>1, <1>2, <1>3, <1>4, <1>5, <1>6 DEF Shared

\* The versions are in order initially.
LEMMA InitVersions == Init => Kept
  BY IdleKeeps DEF Init, Kept, FailedLaunchNamesNoAttempt, VersionOK, Blank

\* Every step keeps the versions: a status write of the composition moves the version
\* away from everybody, and a collected LabRun takes its version with it.
LEMMA NextVersions == VInv /\ [Next]_vars => Kept'
<1> SUFFICES ASSUME VInv, [Next]_vars PROVE Kept'
  OBVIOUS
<1>1. CASE Reconcile \/ Collected \/ UNCHANGED vars
  BY <1>1
  DEF Reconcile, Collected, vars, VInv, Kept, VersionOK, LaunchOK, FailedLaunchNamesNoAttempt, Blank
<1> QED
  BY <1>1, LaunchingVersions, WorkingVersions, SharedVersions DEF Next

\* The versions are in order in every state a request can see.
LEMMA VersionsHold == Spec => []VInv
<1>1. TypeOK /\ Kept => VInv
  BY DEF VInv
<1>2. TypeOK /\ Kept /\ [Next]_vars => Kept'
  BY <1>1, NextVersions
<1> QED
  BY TypeCorrect, InitVersions, <1>1, <1>2, PTL DEF Spec

\* A failed launch names no attempt (FailAsync clears ranked-launch-attempt in the write
\* that records the failure, RankedLaunchOrchestrator.cs:620-662): a request that would
\* mark one on the failed launch has lost its version.
THEOREM FailedLaunchIsClean == Spec => []FailedLaunchNamesNoAttempt
<1>1. VInv => FailedLaunchNamesNoAttempt
  BY DEF VInv, Kept
<1> QED
  BY VersionsHold, <1>1, PTL

\* A match is written once: DrawIncident, MarkAttempt and Activate are the only writes
\* of the incident and of the attempt that do not clear them, and each of them carries
\* the version of a cluster it has seen without one, or with the same.
LEMMA MatchStep ==
  ASSUME VInv, Next
  PROVE  /\ run.incident # None => run'.incident \in {run.incident, None}
         /\ run.marked # None => run'.marked \in {run.marked, None}
<1> DEFINE Same == run'.incident = run.incident /\ run'.marked = run.marked
           Gone == run'.incident = None /\ run'.marked = None
<1>t. TypeOK /\ run \in LabRuns /\ (\A p \in Processes : VersionOK(p) /\ LaunchOK(req[p]))
  BY DEF VInv, Kept, TypeOK
<1>b. Blank.incident = None /\ Blank.marked = None
  BY DEF Blank
<1>l. ASSUME NEW r \in Replicas, Launching(r)
      PROVE  \/ Same \/ Gone
             \/ run.incident = None /\ run'.marked = run.marked
             \/ run.marked = None /\ run'.incident = run.incident
             \/ run'.marked = None /\ run'.incident = run.incident
  <2>p. r \in Processes
    BY DEF Processes
  <2>1. CASE UNCHANGED run
    BY <2>1
  <2>2. CASE ProvisionArena(r)
    BY <2>2, <1>b DEF ProvisionArena, Blank
  <2>3. CASE OpenLaunch(r) \/ RecordPhase(r)
    <3>1. PICK phase, failure : run' = [run EXCEPT !.launched = TRUE, !.phase = phase, !.failure = failure]
                             \/ run' = [run EXCEPT !.phase = phase]
      BY <2>3 DEF OpenLaunch, RecordPhase, CompareAndSet
    <3> QED
      BY <3>1, <1>t DEF LabRuns
  <2>4. CASE DrawIncident(r)
    BY <2>4, <1>t, <2>p DEF DrawIncident, At, CompareAndSet, VersionOK, LaunchOK, LabRuns
  <2>5. CASE MarkAttempt(r)
    BY <2>5, <1>t, <2>p DEF MarkAttempt, At, CompareAndSet, VersionOK, LaunchOK, LabRuns
  <2>6. CASE Activate(r)
    BY <2>6, <1>t, <2>p DEF Activate, At, CompareAndSet, VersionOK, LaunchOK, LabRuns
  <2>7. CASE MarkFailed(r)
    BY <2>7, <1>t DEF MarkFailed, CompareAndSet, LabRuns
  <2>8. CASE ClearLaunch(r)
    BY <2>8, <1>t, ClearedIsSound DEF ClearLaunch, CompareAndSet
  <2> QED
    BY <1>l, <2>1, <2>2, <2>3, <2>4, <2>5, <2>6, <2>7, <2>8
    DEF Launching, Moves, Reads, ResumeLaunch, RetryLaunch, AbandonLaunch, ProvisionFinds,
        OpenLaunchLost, Waiting, WaitedTooLong, Ready, ReadyTooLate, StartTraffic, TrafficRunning,
        RecordPhaseLost, Unmaterialized, ResumeAttempt, AttemptSealed, NoAttempt, AdoptAttempt,
        OpenAttempt, FailureStands, ReplaceCluster, ClearLaunchLost
<1>w. ASSUME NEW w \in Workers, Working(w)
      PROVE  Same \/ Gone
  <2>1. CASE UNCHANGED run
    BY <2>1
  <2>2. CASE StartDrillPatch(w)
    BY <2>2, <1>t DEF StartDrillPatch, PatchRun, LabRuns
  <2>3. CASE EndDrillPatch(w)
    <3> DEFINE cleared == WithoutLaunch(run)
    <3>1. run' = [cleared EXCEPT !.drill = None, !.attempt = None, !.terminal = {}]
      BY <2>3 DEF EndDrillPatch, PatchRun
    <3>2. cleared \in LabRuns /\ cleared.incident = None /\ cleared.marked = None
      BY <1>t, ClearedIsSound
    <3> HIDE DEF cleared
    <3> QED
      BY <3>1, <3>2 DEF LabRuns
  <2>4. CASE JudgeSolved(w) \/ JudgePractice(w) \/ JudgeVoided(w)
    BY <2>4, <1>t DEF JudgeSolved, JudgePractice, JudgeVoided, PatchRun, WithReceipt, LabRuns
  <2> QED
    BY <1>w, <2>1, <2>2, <2>3, <2>4
    DEF Working, Moves, Reads, StartDelete, StartExpire, Expire, StartDrill, EndDrill, Judge, ReceiptLost
<1>s. ASSUME NEW p \in Processes, Shared(p)
      PROVE  Same
  <2>1. CASE UNCHANGED run
    BY <2>1
  <2>2. CASE Delete(p)
    BY <2>2, <1>t DEF Delete, LabRuns
  <2> QED
    BY <1>s, <2>1, <2>2
    DEF Shared, Moves, Reads, FindActive, Seal, VoidSwallowed, Discard, NothingToDiscard, GiveUp
<1>e. Reconcile \/ Collected => Same \/ Gone
  BY <1>b DEF Reconcile, Collected
<1> QED
  BY <1>l, <1>w, <1>s, <1>e DEF Next

\* A launch keeps the incident it drew and the attempt it recorded until it is cleared
\* (RankedLaunchOrchestrator.cs:384-472): whoever resumes it resumes the same match.
THEOREM MatchIsKept == Spec => LaunchKeepsItsMatch
<1>1. VInv /\ [Next]_vars =>
        [/\ run.incident # None => run'.incident \in {run.incident, None}
         /\ run.marked # None => run'.marked \in {run.marked, None}]_vars
  BY MatchStep
<1> QED
  BY VersionsHold, <1>1, PTL DEF Spec, LaunchKeepsItsMatch

=============================================================================

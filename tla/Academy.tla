------------------------------ MODULE Academy -------------------------------
(***************************************************************************)
(* The Academy: a learner's course progress between the browser and the    *)
(* account.                                                                *)
(*                                                                         *)
(* One browser shows one page at a time, and each page holds its own copy  *)
(* of the progress (the hook useAcademyProgress).  Signed in, the account  *)
(* is the authority; signed out, the progress is kept in the browser's     *)
(* storage and pushed up once, at the first load that finds an account.    *)
(* The requests of a page that was left go on without it, and each write   *)
(* reads its row and saves it in two steps on the server.                  *)
(*                                                                         *)
(* A segment's lessons are alike here: one stands for them, and one        *)
(* knowledge-check answer for its set.  Elapsed times and attempt counts   *)
(* are left out.                                                           *)
(***************************************************************************)
EXTENDS Integers, FiniteSets, FiniteSetsExt

CONSTANTS
  Segments,        \* the course's segments
  Prerequisites,   \* [Segments -> SUBSET Segments]
  Mastery,         \* the segments with an optional harder drill
  Scores,          \* the scores a checkpoint may be answered with, of 0..100
  CleanRequired,   \* CLEAN_CAPSTONES_REQUIRED
  MaxWrites        \* bound: writes under way on the platform at once

ASSUME CourseAssumption ==
  /\ IsFiniteSet(Segments) /\ Mastery \subseteq Segments
  /\ Prerequisites \in [Segments -> SUBSET Segments]
  /\ Scores \subseteq 0..100 /\ CleanRequired \in Nat
  /\ MaxWrites \in Nat \ {0}

CHECK_SCORE_REQUIRED == 80

VARIABLES
  account,     \* the rows, the recorded cluster attempts and the certificate
  storage,     \* the rows kept in this browser
  signedIn,    \* whether the session is one the platform accepts
  page,        \* the page shown, and the hook's state in it
  writes       \* the writes under way on the platform

academyVars == <<account, storage, signedIn, page, writes>>

-----------------------------------------------------------------------------
(* Units and rows                                                           *)

Lesson(s) == <<"lesson", s>>
Checkpoint(s) == <<"checkpoint", s>>
Capstone(s) == <<"drill", s>>
Harder(s) == <<"mastery", s>>
Assessment == <<"assessment", "course">>

ClusterOwned == {Assessment} \cup {Capstone(s) : s \in Segments} \cup {Harder(s) : s \in Mastery}
Required ==
  {Assessment} \cup UNION {{Lesson(s), Checkpoint(s), Capstone(s)} : s \in Segments}
Units == Required \cup ClusterOwned

Absent == [status |-> "absent", score |-> 0, clean |-> FALSE]
Rows == [Units -> [status: {"absent", "in-progress", "completed"}, score: {0} \cup Scores,
                   clean: BOOLEAN]]
NoRows == [u \in Units |-> Absent]

Done(rows, u) == rows[u].status = "completed"
MarkedStarted(row) == IF row.status = "absent" THEN [row EXCEPT !.status = "in-progress"] ELSE row
\* Completion is monotonic: the best score stays, and so does a clean solve.
MarkedComplete(row, score, clean) ==
  [status |-> "completed", score |-> IF score > row.score THEN score ELSE row.score,
   clean |-> row.clean \/ clean]

-----------------------------------------------------------------------------
(* What the rows open                                                       *)

PrerequisiteMet(rows, s) == Done(rows, Lesson(s)) /\ Done(rows, Checkpoint(s))
Unlocked(rows) == {s \in Segments : \A p \in Prerequisites[s] : PrerequisiteMet(rows, p)}
CapstoneUnlocked(rows, s) == s \in Unlocked(rows) /\ Done(rows, Lesson(s))
AssessmentUnlocked(rows) ==
  \A s \in Segments : PrerequisiteMet(rows, s) /\ Done(rows, Capstone(s))
OpenOn(rows, u) ==
  IF u = Assessment THEN AssessmentUnlocked(rows) ELSE CapstoneUnlocked(rows, u[2])

\* Each segment's standing on the course map.
Mastered(rows, s) == s \in Mastery /\ Done(rows, Harder(s))
Touched(rows, s) ==
  Done(rows, Lesson(s)) \/ \E u \in {Checkpoint(s), Capstone(s)} : rows[u].status # "absent"
SegmentStatus(rows, s) ==
  IF s \notin Unlocked(rows) THEN "locked"
  ELSE IF Mastered(rows, s) THEN "mastered"
  ELSE IF Done(rows, Capstone(s)) /\ Done(rows, Checkpoint(s)) THEN "complete"
  ELSE IF PrerequisiteMet(rows, s) THEN "drill-pending"
  ELSE IF Touched(rows, s) THEN "in-progress"
  ELSE "available"
NextUnit(rows, s) ==
  CASE ~Done(rows, Lesson(s)) -> Lesson(s)
    [] Done(rows, Lesson(s)) /\ ~Done(rows, Checkpoint(s)) -> Checkpoint(s)
    [] OTHER -> Capstone(s)
\* The segments "Continue learning" may lead to.
Resumable(rows) ==
  {s \in Segments : SegmentStatus(rows, s) \in {"available", "in-progress", "drill-pending"}}

\* The assessment's page: what is outstanding, segment by segment, and the stage of
\* its launch control.
Missing(rows, s) == {u \in {Lesson(s), Checkpoint(s), Capstone(s)} : ~Done(rows, u)}
Outstanding(rows) == {s \in Segments : Missing(rows, s) # {}}
Stage(rows) ==
  CASE ~AssessmentUnlocked(rows) -> "locked"
    [] AssessmentUnlocked(rows) /\ rows[Assessment].status # "absent" -> "retry"
    [] OTHER -> "first-attempt"

CleanCapstones(rows) == Cardinality({s \in Segments : rows[Capstone(s)].clean})
\* The skills the map, the assessment's blueprint and the certificate name.
Demonstrated(rows) == {s \in Segments : Done(rows, Capstone(s))}
\* The average over the checkpoints taken, rounded, reaches the required score.
CheckScoreMet(rows) ==
  LET taken == {s \in Segments : Done(rows, Checkpoint(s))}
  IN /\ taken # {}
     /\ 2 * MapThenSumSet(LAMBDA s : rows[Checkpoint(s)].score, taken)
          >= (2 * CHECK_SCORE_REQUIRED - 1) * Cardinality(taken)

\* The certificate's requirements as the pages list them, and those not met yet.
Met(rows, backed) ==
  [account |-> backed,
   lessons |-> \A s \in Segments : Done(rows, Lesson(s)),
   checkpoints |-> \A s \in Segments : Done(rows, Checkpoint(s)),
   score |-> (\A s \in Segments : Done(rows, Checkpoint(s))) /\ CheckScoreMet(rows),
   capstones |-> Demonstrated(rows) = Segments,
   clean |-> CleanCapstones(rows) >= CleanRequired,
   assessment |-> Done(rows, Assessment)]
Remaining(rows, backed) == {r \in DOMAIN Met(rows, backed) : ~Met(rows, backed)[r]}

\* And as the platform checks them, against the account's rows.
RequirementsMet(rows) ==
  /\ \A u \in Required : Done(rows, u)
  /\ CheckScoreMet(rows)
  /\ CleanCapstones(rows) >= CleanRequired

-----------------------------------------------------------------------------
(* The page                                                                 *)

Kinds == {"none", "course", "lesson", "segment", "assignment", "certificate"}

Blank(kind, u) ==
  [kind |-> kind, unit |-> u, rows |-> NoRows, certificate |-> FALSE, backed |-> FALSE,
   load |-> IF kind = "none" THEN "done" ELSE "asked", doing |-> "no"]

\* The pages, each with the unit it is about: the dashboard, outline and assessment
\* overview only read.
Pages ==
  {Blank("course", Assessment), Blank("certificate", Assessment)}
    \cup {Blank("lesson", Lesson(s)) : s \in Segments}
    \cup {Blank("segment", Checkpoint(s)) : s \in Segments}
    \cup {Blank("assignment", u) : u \in ClusterOwned}

Loaded(p) == p.kind # "none" /\ p.load = "done"
\* Whether a cluster assignment shows its cluster rather than its lock.
Open(p) == p.kind = "assignment" /\ Loaded(p) /\ OpenOn(p.rows, p.unit)

Write(op, u, score, clean, mine) ==
  [op |-> op, unit |-> u, score |-> score, clean |-> clean, mine |-> mine,
   seen |-> "unread", best |-> 0]

\* The effect after a render: a lesson page, and an assignment once it is open, mark
\* their unit started, in the browser and, when backed by the account, there as well.
\* The lesson's runs at every render, the first one of the page included.  Beyond the
\* bound a start is one that gets lost.
MarksStarted(p) == p.kind = "lesson" \/ Open(p)
Shown(p) == IF MarksStarted(p) THEN [p EXCEPT !.rows[p.unit] = MarkedStarted(@)] ELSE p
Kept(p) ==
  IF MarksStarted(p) /\ ~p.backed /\ p.rows[p.unit].status = "absent" THEN Shown(p).rows ELSE storage
Announced(p) ==
  IF MarksStarted(p) /\ p.backed /\ Cardinality(writes) + 1 < MaxWrites
  THEN {Write("start", p.unit, 0, FALSE, FALSE)}
  ELSE {}

\* The page becomes p, and its effects run.
Render(p) == page' = Shown(p) /\ storage' = Kept(p)

\* What a left page asked for still happens, and tells nobody.
Orphaned == {[w EXCEPT !.mine = FALSE] : w \in writes}

Visit ==
  \E p \in Pages :
    /\ p.kind # page.kind \/ p.unit # page.unit
    /\ Render(p)
    /\ writes' = Orphaned
    /\ UNCHANGED <<account, signedIn>>

\* Signing in goes through the auth site, away from the page; a session may end
\* under a page.
Session ==
  /\ signedIn' = ~signedIn
  /\ page' = IF signedIn THEN page ELSE Blank("none", Assessment)
  /\ writes' = IF signedIn THEN writes ELSE Orphaned
  /\ UNCHANGED <<account, storage>>

-----------------------------------------------------------------------------
(* Loading the progress                                                     *)

\* What the merge pushes: finished work the account has no row for, unless the
\* cluster owns it.
Syncable(rows) == {u \in Units \ ClusterOwned : Done(storage, u) /\ rows[u].status = "absent"}
Pushes == {Write("complete", u, storage[u].score, FALSE, TRUE) : u \in Syncable(account.rows)}

FromAccount(p) ==
  [p EXCEPT !.rows = account.rows, !.certificate = account.certificate,
            !.backed = TRUE, !.load = "done", !.doing = "no"]
FromBrowser(p) ==
  [p EXCEPT !.rows = storage, !.certificate = FALSE, !.backed = FALSE, !.load = "done"]

LoadPushes ==
  /\ page.load = "asked" /\ signedIn /\ Pushes # {}
  /\ Cardinality(writes) + Cardinality(Pushes) <= MaxWrites
  /\ page' = [page EXCEPT !.backed = TRUE, !.load = "pushing"]
  /\ writes' = writes \cup Pushes
  /\ UNCHANGED <<account, storage, signedIn>>

LoadLands ==
  /\ \/ page.load = "asked" /\ (signedIn => Pushes = {})
     \/ page.load = "again"
  /\ LET p == IF signedIn THEN FromAccount(page) ELSE FromBrowser(page)
     IN Render(p) /\ writes' = writes \cup Announced(p)
  /\ UNCHANGED <<account, signedIn>>

LoadFails ==
  /\ page.load \in {"asked", "again"}
  /\ LET p == FromBrowser(page) IN Render(p) /\ writes' = writes \cup Announced(p)
  /\ UNCHANGED <<account, signedIn>>

\* Every push settled, whatever became of it: ask again.
PushesSettle ==
  /\ page.load = "pushing" /\ \A w \in writes : ~w.mine
  /\ page' = [page EXCEPT !.load = "again"]
  /\ UNCHANGED <<account, storage, signedIn, writes>>

-----------------------------------------------------------------------------
(* The learner's work                                                       *)

\* markComplete: shown at once, then recorded in the account or, without one, in
\* the browser.  A lesson goes on to the segment when that is over.
Completed(score) == [page EXCEPT !.rows[page.unit] = MarkedComplete(@, score, FALSE)]
RecordedUnheard(p, score) ==
  IF page.backed
  THEN /\ page' = p
       /\ writes' = writes \cup Announced(p) \cup {Write("complete", page.unit, score, FALSE, TRUE)}
       /\ UNCHANGED storage
  ELSE storage' = p.rows /\ page' = p /\ UNCHANGED writes
Recorded(p, score) ==
  IF page.backed
  THEN /\ page' = [p EXCEPT !.doing = "complete"]
       /\ writes' = writes \cup Announced(p) \cup {Write("complete", page.unit, score, FALSE, TRUE)}
       /\ UNCHANGED storage
  ELSE /\ storage' = p.rows
       /\ page' = IF page.kind = "lesson" THEN Blank("segment", Checkpoint(page.unit[2])) ELSE p
       /\ UNCHANGED writes

CompleteLesson ==
  /\ Loaded(page) /\ page.kind = "lesson" /\ ~Done(page.rows, page.unit)
  /\ Cardinality(writes) < MaxWrites
  /\ Recorded(Completed(0), 0)
  /\ UNCHANGED <<account, signedIn>>

SubmitCheckpoint ==
  /\ Loaded(page) /\ page.kind = "segment" /\ page.doing \in {"no", "failed"}
  /\ Done(page.rows, Lesson(page.unit[2])) /\ Cardinality(writes) < MaxWrites
  /\ \E score \in Scores : Recorded(Completed(score), score)
  /\ UNCHANGED <<account, signedIn>>

\* The write is through: the account's answer replaces what the page showed.
Answered(p) ==
  IF page.kind = "lesson"
  THEN /\ page' = Blank("segment", Checkpoint(page.unit[2]))
       /\ writes' = Orphaned \cup Announced(p)
  ELSE page' = p /\ UNCHANGED writes

CompleteLands ==
  /\ page.doing = "complete" /\ \A w \in writes : ~w.mine
  /\ Answered(FromAccount(page))
  /\ UNCHANGED <<account, storage, signedIn>>

\* No answer, whether or not the write is, or will be, through.
CompleteFails ==
  /\ page.doing = "complete"
  /\ IF page.kind = "lesson" THEN Answered([page EXCEPT !.doing = "failed"])
     ELSE page' = [page EXCEPT !.doing = "failed"] /\ writes' = Orphaned
  /\ UNCHANGED <<account, storage, signedIn>>

\* The platform judged the assignment's incident solved, with or without a wrong
\* action, and a snapshot records it.
SolveIncident ==
  /\ Open(page) /\ signedIn /\ Cardinality(writes) < MaxWrites
  /\ \E clean \in BOOLEAN : writes' = writes \cup {Write("judge", page.unit, 0, clean, FALSE)}
  /\ UNCHANGED <<account, storage, signedIn, page>>

\* The assignment seen solved: refresh.
Refresh ==
  /\ Open(page) /\ page.unit \in account.attempts
  /\ page' = [page EXCEPT !.load = "asked"]
  /\ UNCHANGED <<account, storage, signedIn, writes>>

Claim ==
  /\ Loaded(page) /\ page.kind = "certificate" /\ page.doing \in {"no", "failed"} /\ ~page.certificate
  /\ Remaining(page.rows, page.backed) = {}
  /\ page' = [page EXCEPT !.doing = "claim"]
  /\ UNCHANGED <<account, storage, signedIn, writes>>

\* The requirements are checked again, against the account's own rows; a second
\* request finds the first certificate.
Issue ==
  /\ page.doing = "claim" /\ signedIn
  /\ account.certificate \/ RequirementsMet(account.rows)
  /\ account' = [account EXCEPT !.certificate = TRUE]
  /\ UNCHANGED <<storage, signedIn, page, writes>>

ClaimLands ==
  /\ page.doing = "claim" /\ account.certificate /\ signedIn
  /\ page' = FromAccount(page)
  /\ UNCHANGED <<account, storage, signedIn, writes>>

ClaimFails ==
  /\ page.doing = "claim"
  /\ page' = [page EXCEPT !.doing = "failed"]
  /\ UNCHANGED <<account, storage, signedIn, writes>>

-----------------------------------------------------------------------------
(* The account's store                                                      *)

\* The row is read; the client's word is refused without a session, and a solve
\* of a run already recorded is done with, and so is a start of a unit that has a row.
\* A run is named after its owner.
ReadRow(w) ==
  /\ w.seen = "unread" /\ (w.op = "judge" \/ signedIn)
  /\ IF \/ w.op = "judge" /\ w.unit \in account.attempts
        \/ w.op = "start" /\ account.rows[w.unit].status # "absent"
     THEN writes' = writes \ {w}
     ELSE LET row == account.rows[w.unit]
          IN writes' = (writes \ {w}) \cup
               {[w EXCEPT !.seen = IF row.status = "absent" THEN "absent" ELSE "row",
                          !.best = row.score]}
  /\ UNCHANGED <<account, storage, signedIn, page>>

\* The save inserts a row or updates the columns that change.  Each unit has one
\* row and each run one attempt at it: a save that would break either is lost
\* whole, and quietly.
Inserts(w) == w.seen = "absent"
NoUniqueRow(w) == w.op = "judge" /\ w.unit \in account.attempts
LosesRace(w) ==
  \/ Inserts(w) /\ account.rows[w.unit].status # "absent"
  \/ w.op = "judge" /\ w.unit \in account.attempts
Saved(w) ==
  LET now == account.rows[w.unit]
      inserted == IF w.op = "start" THEN MarkedStarted(Absent)
                  ELSE MarkedComplete(Absent, w.score, w.clean)
      updated == IF w.op = "start" THEN now
                 ELSE [status |-> "completed", clean |-> now.clean \/ w.clean,
                       score |-> IF w.score > w.best THEN w.score ELSE now.score]
  IN IF Inserts(w) THEN inserted ELSE updated

SaveRow(w) ==
  /\ w.seen # "unread"
  /\ writes' = writes \ {w}
  /\ account' = IF LosesRace(w) THEN account
                ELSE [account EXCEPT !.rows[w.unit] = Saved(w),
                        !.attempts = IF w.op = "judge" THEN @ \cup {w.unit} ELSE @]
  /\ UNCHANGED <<storage, signedIn, page>>

\* A push that fails is settled too.  Any other lost request is one never served.
LosePush(w) ==
  /\ page.load = "pushing" /\ w.mine /\ w.seen = "unread"
  /\ writes' = writes \ {w}
  /\ UNCHANGED <<account, storage, signedIn, page>>

-----------------------------------------------------------------------------

AcademyInit ==
  /\ account = [rows |-> NoRows, attempts |-> {}, certificate |-> FALSE]
  /\ storage = NoRows
  /\ signedIn \in BOOLEAN
  /\ page = Blank("none", Assessment)
  /\ writes = {}

AcademyNext ==
  \/ Visit \/ Session
  \/ LoadPushes \/ LoadLands \/ LoadFails \/ PushesSettle
  \/ CompleteLesson \/ SubmitCheckpoint \/ CompleteLands \/ CompleteFails
  \/ SolveIncident \/ Refresh \/ Claim \/ Issue \/ ClaimLands \/ ClaimFails
  \/ \E w \in writes : ReadRow(w) \/ SaveRow(w) \/ LosePush(w)

AcademySpec == AcademyInit /\ [][AcademyNext]_academyVars

-----------------------------------------------------------------------------
(* Properties                                                               *)

AcademyTypeOK ==
  /\ account \in [rows: Rows, attempts: SUBSET ClusterOwned, certificate: BOOLEAN]
  /\ storage \in Rows
  /\ signedIn \in BOOLEAN
  /\ page \in [kind: Kinds, unit: Units, rows: Rows, certificate: BOOLEAN, backed: BOOLEAN,
               load: {"asked", "pushing", "again", "done"},
               doing: {"no", "complete", "claim", "failed"}]
  /\ \A w \in writes :
       w \in [op: {"start", "complete", "judge"}, unit: Units, score: {0} \cup Scores,
              clean: BOOLEAN, mine: BOOLEAN, seen: {"unread", "absent", "row"},
              best: {0} \cup Scores]

\* Work a page shows as done is kept somewhere: in the account it is backed by,
\* unless its recording is still out or the page says it failed; otherwise in the
\* browser's storage.
ShownIsKept ==
  Loaded(page) =>
    \A u \in Units : Done(page.rows, u) =>
      IF page.backed THEN Done(account.rows, u) \/ page.doing \in {"complete", "failed"}
      ELSE Done(storage, u)

\* For a learner with an account, a cluster assignment opens, and a capstone is what
\* to continue with, only on work the account has: no order of loads, writes and
\* sign-ins opens it on less.
AssignmentsOpenOnRecord ==
  Loaded(page) /\ page.backed =>
    /\ Open(page) => OpenOn(account.rows, page.unit)
    /\ page.kind = "course" => \A s \in Resumable(page.rows) :
         NextUnit(page.rows, s) = Capstone(s) => OpenOn(account.rows, Capstone(s))

\* A certificate stands on a finished course with enough clean capstones, in rows
\* of the account alone, whatever the page that asked for it believed.
CertificateIsEarned ==
  account.certificate =>
    /\ \A u \in Required : Done(account.rows, u)
    /\ CleanCapstones(account.rows) >= CleanRequired

\* The account never forgets: a row does not fall back, a clean solve stays clean,
\* and a certificate stands, however the writes of several pages interleave.  Not so
\* the score of a row, which is ScoreNeverFalls.
AccountRemembers ==
  [][ /\ \A u \in Units :
           /\ Done(account.rows, u) => Done(account'.rows, u)
           /\ account.rows[u].status # "absent" => account'.rows[u].status # "absent"
           /\ account.rows[u].clean => account'.rows[u].clean
      /\ account.certificate => account'.certificate ]_academyVars

\* "A checkpoint keeps its best score" (LearningProgressStore.cs:161): each completion
\* takes the best of its own score and the one it read.
ScoreNeverFalls ==
  [][\A u \in Units : account'.rows[u].score >= account.rows[u].score]_academyVars

=============================================================================

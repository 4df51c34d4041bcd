---------------------------- MODULE LearnerProofs ---------------------------
EXTENDS LearnerPages, FiniteSetTheorems, TLAPS
(***************************************************************************)
(* What holds of a learner's pages: first the Academy's, then the page     *)
(* that holds a cluster, then the drill it coaches, and last the surface   *)
(* that shows one of the pages at a time, which keeps what each of them    *)
(* keeps.                                                                  *)
(***************************************************************************)

(***************************************************************************)
(* AInv is inductive.  It adds to the properties of Academy what the       *)
(* writes under way and the requests of the page allow: a clean row is a   *)
(* completed one, a page that waits for an answer has loaded, and a page   *)
(* that records nothing itself (the course, an assignment, the             *)
(* certificate) shows no more than the account has once it is backed by    *)
(* it.  The types alone are not inductive: that a judged unit is one the   *)
(* cluster owns rests on the page it was judged from.                      *)
(*                                                                         *)
(* The rows of the account only grow (Below), and everything the rows open *)
(* is monotone in them; the invariant and AccountRemembers rest on that.   *)
(***************************************************************************)

\* a's work is recorded in b too: completed rows stay completed, rows stay, and a clean
\* solve stays clean.
Below(a, b) ==
    \A u \in Units : /\ Done(a, u) => Done(b, u)
                     /\ a[u].status # "absent" => b[u].status # "absent"
                     /\ a[u].clean => b[u].clean

\* Only a completed row is clean.
CleanIsDone == \A u \in Units : account.rows[u].clean => Done(account.rows, u)

\* The shape of the page, of a row and of a write under way.
RowSet == [status: {"absent", "in-progress", "completed"}, score: {0} \cup Scores, clean: BOOLEAN]
PageSet == [kind: Kinds, unit: Units, rows: Rows, certificate: BOOLEAN, backed: BOOLEAN,
            load: {"asked", "pushing", "again", "done"},
            doing: {"no", "complete", "claim", "failed"}]
WriteSet == [op: {"start", "complete", "judge"}, unit: Units, score: {0} \cup Scores,
             clean: BOOLEAN, mine: BOOLEAN, seen: {"unread", "absent", "row"},
             best: {0} \cup Scores]

\* The unit a page is about is of its kind, and only the cluster's units are judged.
UnitOK(p) ==
    /\ p.kind = "lesson" => \E s \in Segments : p.unit = Lesson(s)
    /\ p.kind = "segment" => \E s \in Segments : p.unit = Checkpoint(s)
    /\ p.kind = "assignment" => p.unit \in ClusterOwned
JudgedIsOwned == \A w \in writes : w.op = "judge" => w.unit \in ClusterOwned

\* A page that does something has loaded, and records work only for an account.
DoingOK(p) ==
    /\ p.doing # "no" => Loaded(p) /\ p.kind \in {"lesson", "segment", "certificate"}
    /\ p.doing = "complete" => p.backed

\* A backed page that records nothing itself shows no more than the account has.
RecordOnly ==
    Loaded(page) /\ page.backed /\ page.kind \in {"course", "assignment", "certificate"} =>
        \A u \in Units : Done(page.rows, u) => Done(account.rows, u)

\* The types, with the units they need.
Typed == AcademyTypeOK /\ UnitOK(page) /\ JudgedIsOwned

\* What the page shows, against the account and the browser.
PageOK == DoingOK(page) /\ RecordOnly /\ ShownIsKept

\* The inductive invariant.
AInv == Typed /\ PageOK /\ CleanIsDone /\ CertificateIsEarned

-----------------------------------------------------------------------------
(* Units and rows.                                                         *)

\* The units a page names are units of the course.
LEMMA UnitsOfSegments ==
  /\ \A s \in Segments : Lesson(s) \in Units /\ Checkpoint(s) \in Units /\ Capstone(s) \in Units
  /\ Assessment \in Units /\ ClusterOwned \subseteq Units /\ Required \subseteq Units
<1>1. \A s \in Segments : {Lesson(s), Checkpoint(s), Capstone(s)} \subseteq Required
  BY DEF Required
<1>2. Assessment \in Required
  BY DEF Required
<1> QED
  BY <1>1, <1>2 DEF Units

\* The lesson, the checkpoint and the capstone of a segment are three units, and none is
\* the assessment.
LEMMA UnitsDiffer ==
  \A s \in Segments : /\ Lesson(s) # Capstone(s) /\ Checkpoint(s) # Capstone(s)
                      /\ Capstone(s) # Assessment /\ Lesson(s)[2] = s /\ Checkpoint(s)[2] = s
                      /\ Capstone(s)[2] = s /\ Lesson(s) # Checkpoint(s)
  BY DEF Lesson, Checkpoint, Capstone, Assessment

\* Rows are functions on the units.
LEMMA RowsAreFunctions == Rows = [Units -> RowSet]
  BY DEF Rows, RowSet

\* Starting and completing a unit keep the shape of its row; only completing completes.
LEMMA MarkedRows ==
  ASSUME NEW row \in RowSet
  PROVE  /\ MarkedStarted(row) \in RowSet
         /\ MarkedStarted(row).status # "absent" /\ MarkedStarted(row).clean = row.clean
         /\ MarkedStarted(row).status = "completed" <=> row.status = "completed"
         /\ \A score \in {0} \cup Scores, clean \in BOOLEAN :
              MarkedComplete(row, score, clean) \in RowSet
  BY DEF RowSet, MarkedStarted, MarkedComplete

\* An absent row is a row, and no rows are rows with nothing done.
LEMMA NoRowsType ==
  /\ Absent \in RowSet /\ NoRows \in Rows
  /\ \A u \in Units : ~Done(NoRows, u) /\ ~NoRows[u].clean
<1>1. Absent \in RowSet /\ Absent.status # "completed" /\ ~Absent.clean
  BY DEF Absent, RowSet
<1> QED
  BY <1>1, RowsAreFunctions DEF NoRows, Done

\* A page that has just been opened.
LEMMA BlankPage ==
  ASSUME NEW kind \in Kinds, NEW u \in Units
  PROVE  /\ Blank(kind, u) \in PageSet
         /\ Blank(kind, u).kind = kind /\ Blank(kind, u).unit = u
         /\ Blank(kind, u).doing = "no" /\ ~Loaded(Blank(kind, u))
  BY NoRowsType DEF Blank, PageSet, Loaded

\* Showing a page starts its unit and changes nothing else.
LEMMA ShownPage ==
  ASSUME NEW p \in PageSet
  PROVE  /\ Shown(p) \in PageSet
         /\ Shown(p).kind = p.kind /\ Shown(p).unit = p.unit /\ Shown(p).load = p.load
         /\ Shown(p).doing = p.doing /\ Shown(p).backed = p.backed
         /\ \A u \in Units : Done(Shown(p).rows, u) <=> Done(p.rows, u)
<1> DEFINE started == [p.rows EXCEPT ![p.unit] = MarkedStarted(p.rows[p.unit])]
<1>1. p.rows \in [Units -> RowSet] /\ p.unit \in Units
  BY RowsAreFunctions DEF PageSet
<1>2. started \in Rows
  BY <1>1, MarkedRows, RowsAreFunctions
<1>3. \A u \in Units : Done(started, u) <=> Done(p.rows, u)
  BY <1>1, MarkedRows DEF Done
<1> HIDE DEF started
<1>4. Shown(p) \in {p, [p EXCEPT !.rows = started]}
  BY DEF Shown, started
<1> QED
  BY <1>2, <1>3, <1>4 DEF PageSet

\* What the browser keeps when a page is shown is rows, and as much work as the page
\* shows or as it kept before.
LEMMA KeptRows ==
  ASSUME NEW p \in PageSet, storage \in Rows
  PROVE  Kept(p) \in Rows /\ Kept(p) \in {storage, Shown(p).rows}
  BY ShownPage DEF Kept, PageSet

\* The start a page announces.
LEMMA AnnouncedType ==
  ASSUME NEW p \in PageSet
  PROVE  /\ Announced(p) \subseteq WriteSet
         /\ \A w \in Announced(p) : w.op = "start"
<1> DEFINE start == Write("start", p.unit, 0, FALSE, FALSE)
<1>1. start \in WriteSet /\ start.op = "start"
  BY DEF Write, WriteSet, PageSet
<1>2. Announced(p) \subseteq {start}
  BY DEF Announced
<1> HIDE DEF start
<1> QED
  BY <1>1, <1>2

\* The pages a load ends in.
LEMMA LoadedPages ==
  ASSUME AcademyTypeOK
  PROVE  /\ FromAccount(page) \in PageSet /\ FromBrowser(page) \in PageSet
         /\ UnitOK(page) => UnitOK(FromAccount(page)) /\ UnitOK(FromBrowser(page))
  BY DEF AcademyTypeOK, FromAccount, FromBrowser, PageSet, UnitOK

-----------------------------------------------------------------------------
(* Types.                                                                  *)

\* A page the hook may be in, and its writes, once they are typed and about their units.
LEMMA TypedIs ==
  Typed <=> /\ account \in [rows: Rows, attempts: SUBSET ClusterOwned, certificate: BOOLEAN]
            /\ storage \in Rows /\ signedIn \in BOOLEAN
            /\ page \in PageSet /\ UnitOK(page)
            /\ \A w \in writes : w \in WriteSet /\ (w.op = "judge" => w.unit \in ClusterOwned)
  BY DEF Typed, AcademyTypeOK, PageSet, WriteSet, JudgedIsOwned

\* What a left page asked for keeps its type.
LEMMA OrphanedType ==
  ASSUME Typed
  PROVE  \A w \in Orphaned : w \in WriteSet /\ (w.op = "judge" => w.unit \in ClusterOwned)
<1> TAKE w \in Orphaned
<1>1. PICK v \in writes : w = [v EXCEPT !.mine = FALSE]
  BY DEF Orphaned
<1> QED
  BY <1>1, TypedIs DEF WriteSet

\* A step that touches no account, shows a typed page and adds typed writes.
LEMMA PageStepType ==
  ASSUME Typed, UNCHANGED account, storage' \in Rows, signedIn' \in BOOLEAN,
         page' \in PageSet, UnitOK(page'),
         \A w \in writes' : \/ w \in writes \/ w \in Orphaned
                            \/ w \in WriteSet /\ (w.op = "judge" => w.unit \in ClusterOwned)
  PROVE  Typed'
<1>1. \A w \in writes' : w \in WriteSet /\ (w.op = "judge" => w.unit \in ClusterOwned)
  BY TypedIs, OrphanedType
<1>2. AcademyTypeOK'
  BY <1>1, TypedIs DEF AcademyTypeOK, PageSet, WriteSet
<1>3. UnitOK(page)' /\ JudgedIsOwned'
  BY <1>1 DEF UnitOK, JudgedIsOwned
<1> QED
  BY <1>2, <1>3 DEF Typed

\* A load that shows what it read.
LEMMA LoadType ==
  ASSUME Typed, NEW p \in {FromAccount(page), FromBrowser(page)}, Render(p),
         writes' = writes \cup Announced(p), UNCHANGED <<account, signedIn>>
  PROVE  Typed'
<1>1. p \in PageSet /\ UnitOK(p)
  BY LoadedPages DEF Typed
<1>2. page' \in PageSet /\ UnitOK(page')
  BY <1>1, ShownPage DEF Render, UnitOK
<1>3. storage' \in Rows
  BY <1>1, KeptRows, TypedIs DEF Render
<1>4. \A w \in Announced(p) : w \in WriteSet /\ w.op = "start"
  BY <1>1, AnnouncedType
<1> QED
  BY <1>2, <1>3, <1>4, TypedIs, PageStepType

\* A segment's page, opened after its lesson, is a page.
LEMMA SegmentPage ==
  ASSUME Typed, page.kind = "lesson"
  PROVE  LET p == Blank("segment", Checkpoint(page.unit[2]))
         IN  p \in PageSet /\ UnitOK(p) /\ p.kind = "segment" /\ p.doing = "no" /\ ~Loaded(p)
<1>1. PICK s \in Segments : page.unit = Lesson(s)
  BY DEF Typed, UnitOK
<1>2. page.unit[2] = s /\ Checkpoint(s) \in Units
  BY <1>1, UnitsDiffer, UnitsOfSegments
<1> DEFINE p == Blank("segment", Checkpoint(s))
<1>3. p \in PageSet /\ p.kind = "segment" /\ p.unit = Checkpoint(s) /\ p.doing = "no" /\ ~Loaded(p)
  BY <1>2, BlankPage DEF Kinds
<1> HIDE DEF p
<1>4. UnitOK(p)
  BY <1>3 DEF UnitOK
<1> QED
  BY <1>2, <1>3, <1>4 DEF p

\* Work recorded, in the account or in the browser.
LEMMA RecordedType ==
  ASSUME Typed, NEW score \in {0} \cup Scores, Recorded(Completed(score), score),
         UNCHANGED <<account, signedIn>>
  PROVE  Typed'
<1> DEFINE p == Completed(score)
           done == [p EXCEPT !.doing = "complete"]
           w0 == Write("complete", page.unit, score, FALSE, TRUE)
<1>1. page \in PageSet /\ page.unit \in Units /\ page.rows \in Rows
  BY TypedIs DEF PageSet
<1>2. p \in PageSet /\ p.unit = page.unit /\ p.kind = page.kind
  <2> DEFINE rows == [page.rows EXCEPT ![page.unit] = MarkedComplete(page.rows[page.unit], score, FALSE)]
  <2>1. rows \in Rows
    BY <1>1, MarkedRows, RowsAreFunctions
  <2>2. p = [page EXCEPT !.rows = rows]
    BY DEF Completed
  <2> HIDE DEF rows, p
  <2> QED
    BY <1>1, <2>1, <2>2 DEF PageSet
<1> HIDE DEF p
<1>3. done \in PageSet /\ done.unit = page.unit /\ done.kind = page.kind /\ p.rows \in Rows
  BY <1>2 DEF PageSet
<1> HIDE DEF done
<1>4. w0 \in WriteSet /\ w0.op = "complete"
  BY <1>1 DEF Write, WriteSet
<1>5. \A w \in Announced(p) : w \in WriteSet /\ w.op = "start"
  BY <1>2, AnnouncedType
<1>6. UnitOK(p) /\ UnitOK(done)
  BY <1>2, <1>3, TypedIs DEF UnitOK
<1>7. CASE page.backed
  <2>1. page' = done /\ writes' = writes \cup Announced(p) \cup {w0} /\ UNCHANGED storage
    BY <1>7 DEF Recorded, p, done, w0
  <2> HIDE DEF w0
  <2> QED
    BY <2>1, <1>3, <1>4, <1>5, <1>6, TypedIs, PageStepType
<1>8. CASE ~page.backed
  <2>1. /\ storage' = p.rows /\ UNCHANGED writes
        /\ \/ page' = p
           \/ page.kind = "lesson" /\ page' = Blank("segment", Checkpoint(page.unit[2]))
    BY <1>8 DEF Recorded, p
  <2> QED
    BY <2>1, <1>2, <1>3, <1>6, SegmentPage, TypedIs, PageStepType
<1> QED
  BY <1>7, <1>8

\* An answer to a recorded lesson or check.
LEMMA AnsweredType ==
  ASSUME Typed, NEW p \in PageSet, UnitOK(p), Answered(p),
         UNCHANGED <<account, storage, signedIn>>
  PROVE  Typed'
<1>1. \A w \in Announced(p) : w \in WriteSet /\ w.op = "start"
  BY AnnouncedType
<1>2. \/ page.kind = "lesson" /\ page' = Blank("segment", Checkpoint(page.unit[2]))
         /\ writes' = Orphaned \cup Announced(p)
      \/ page' = p /\ UNCHANGED writes
  BY DEF Answered
<1> QED
  BY <1>1, <1>2, SegmentPage, TypedIs, PageStepType

\* What a save leaves in its row is a row; it never loses what the row had.
LEMMA SavedRow ==
  ASSUME Typed, NEW w \in writes, w.seen # "unread"
  PROVE  LET old == account.rows[w.unit] IN
         /\ Saved(w) \in RowSet
         /\ old.status # "absent" => Saved(w).status # "absent"
         /\ ~Inserts(w) /\ old.status = "completed" => Saved(w).status = "completed"
         /\ ~Inserts(w) /\ old.clean => Saved(w).clean
         /\ Saved(w).clean => Saved(w).status = "completed" \/ (~Inserts(w) /\ Saved(w) = old)
<1>1. w \in WriteSet /\ account.rows[w.unit] \in RowSet
  BY TypedIs, RowsAreFunctions DEF WriteSet
<1> DEFINE old == account.rows[w.unit]
           scored == IF w.score > w.best THEN w.score ELSE old.score
           updated == [status |-> "completed", clean |-> old.clean \/ w.clean, score |-> scored]
<1>2. MarkedStarted(Absent) \in RowSet /\ ~MarkedStarted(Absent).clean /\ MarkedStarted(Absent).status # "absent"
  BY NoRowsType, MarkedRows DEF Absent
<1>3. MarkedComplete(Absent, w.score, w.clean) \in RowSet /\ MarkedComplete(Absent, w.score, w.clean).status = "completed"
  BY <1>1, NoRowsType, MarkedRows DEF WriteSet, MarkedComplete
<1>4. updated \in RowSet /\ updated.status = "completed" /\ (old.clean => updated.clean)
  <2>1. scored \in {0} \cup Scores /\ (old.clean \/ w.clean) \in BOOLEAN
    BY <1>1 DEF RowSet, WriteSet
  <2> HIDE DEF scored, old
  <2> QED
    BY <2>1 DEF RowSet
<1>5. Saved(w) = IF Inserts(w)
                 THEN IF w.op = "start" THEN MarkedStarted(Absent)
                      ELSE MarkedComplete(Absent, w.score, w.clean)
                 ELSE IF w.op = "start" THEN old ELSE updated
  BY Zenon DEF Saved
<1> HIDE DEF updated, scored
<1> QED
  BY <1>1, <1>2, <1>3, <1>4, <1>5

\* A save writes one row of the account and records at most an attempt at it.
LEMMA SaveRowIs ==
  ASSUME Typed, NEW w \in writes, SaveRow(w)
  PROVE  \/ UNCHANGED account
         \/ /\ ~LosesRace(w)
            /\ account'.rows = [account.rows EXCEPT ![w.unit] = Saved(w)]
            /\ account'.certificate = account.certificate
            /\ account' \in [rows: Rows, attempts: SUBSET ClusterOwned, certificate: BOOLEAN]
<1>1. /\ account \in [rows: [Units -> RowSet], attempts: SUBSET ClusterOwned, certificate: BOOLEAN]
      /\ w \in WriteSet /\ (w.op = "judge" => w.unit \in ClusterOwned) /\ Saved(w) \in RowSet
  BY TypedIs, RowsAreFunctions, SavedRow DEF SaveRow
<1> DEFINE rows == [account.rows EXCEPT ![w.unit] = Saved(w)]
           attempts == IF w.op = "judge" THEN account.attempts \cup {w.unit} ELSE account.attempts
<1>2. rows \in Rows /\ attempts \in SUBSET ClusterOwned
  BY <1>1, RowsAreFunctions
<1>3. LosesRace(w) => UNCHANGED account
  BY DEF SaveRow
<1>4. ~LosesRace(w) => account' = [account EXCEPT !.rows = rows, !.attempts = attempts]
  BY DEF SaveRow
<1> HIDE DEF rows, attempts
<1>5. ~LosesRace(w) => /\ account'.rows = rows /\ account'.certificate = account.certificate
                       /\ account' \in [rows: Rows, attempts: SUBSET ClusterOwned, certificate: BOOLEAN]
  BY <1>1, <1>2, <1>4
<1> QED
  BY <1>3, <1>5 DEF rows

\* Every step keeps the types and the units of the page and the writes.
LEMMA NextTyped ==
  ASSUME Typed, AcademyNext
  PROVE  Typed'
<1>t. /\ account \in [rows: Rows, attempts: SUBSET ClusterOwned, certificate: BOOLEAN]
      /\ storage \in Rows /\ signedIn \in BOOLEAN
      /\ page \in PageSet /\ page.unit \in Units /\ UnitOK(page)
      /\ \A w \in writes : w \in WriteSet /\ (w.op = "judge" => w.unit \in ClusterOwned)
  BY TypedIs DEF PageSet
<1>k. FromAccount(page) \in PageSet /\ UnitOK(FromAccount(page))
  BY <1>t, LoadedPages DEF Typed
<1>u. Assessment \in Units
  BY UnitsOfSegments
<1>f. \A doing \in {"no", "complete", "claim", "failed"} :
        [page EXCEPT !.doing = doing] \in PageSet /\ UnitOK([page EXCEPT !.doing = doing])
  BY <1>t DEF PageSet, UnitOK
<1>l. \A load \in {"asked", "pushing", "again", "done"} :
        [page EXCEPT !.load = load] \in PageSet /\ UnitOK([page EXCEPT !.load = load])
  BY <1>t DEF PageSet, UnitOK
<1>1. CASE Visit
  <2>1. PICK p \in Pages : Render(p) /\ writes' = Orphaned /\ UNCHANGED <<account, signedIn>>
    BY <1>1 DEF Visit
  <2>2. p \in PageSet /\ UnitOK(p)
    <3>1. CASE p \in {Blank("course", Assessment), Blank("certificate", Assessment)}
      BY <3>1, <1>u, BlankPage DEF Kinds, UnitOK
    <3>2. ASSUME NEW s \in Segments, p = Blank("lesson", Lesson(s))
          PROVE  p \in PageSet /\ UnitOK(p)
      BY <3>2, UnitsOfSegments, BlankPage DEF Kinds, UnitOK
    <3>3. ASSUME NEW s \in Segments, p = Blank("segment", Checkpoint(s))
          PROVE  p \in PageSet /\ UnitOK(p)
      BY <3>3, UnitsOfSegments, BlankPage DEF Kinds, UnitOK
    <3>4. ASSUME NEW u \in ClusterOwned, p = Blank("assignment", u)
          PROVE  p \in PageSet /\ UnitOK(p)
      BY <3>4, UnitsOfSegments, BlankPage DEF Kinds, UnitOK
    <3> QED
      BY <2>1, <3>1, <3>2, <3>3, <3>4 DEF Pages
  <2>3. page' \in PageSet /\ UnitOK(page') /\ storage' \in Rows
    BY <2>1, <2>2, <1>t, ShownPage, KeptRows DEF Render, UnitOK
  <2> QED
    BY <2>1, <2>3, <1>t, PageStepType
<1>2. CASE Session
  <2>1. Blank("none", Assessment) \in PageSet /\ UnitOK(Blank("none", Assessment))
    BY <1>u, BlankPage DEF Kinds, UnitOK
  <2>2. /\ signedIn' \in BOOLEAN /\ UNCHANGED <<account, storage>>
        /\ page' \in {page, Blank("none", Assessment)} /\ writes' \in {writes, Orphaned}
    BY <1>2, <1>t DEF Session
  <2> QED
    BY <2>1, <2>2, <1>t, PageStepType
<1>3. CASE LoadPushes
  <2>1. ASSUME NEW w \in Pushes
        PROVE  w \in WriteSet /\ w.op = "complete"
    <3>1. PICK u \in Units : w = Write("complete", u, storage[u].score, FALSE, TRUE)
      BY DEF Pushes, Syncable
    <3>2. storage[u].score \in {0} \cup Scores
      BY <1>t, RowsAreFunctions DEF RowSet
    <3> QED
      BY <3>1, <3>2 DEF Write, WriteSet
  <2>2. /\ page' = [page EXCEPT !.backed = TRUE, !.load = "pushing"]
        /\ writes' = writes \cup Pushes /\ UNCHANGED <<account, storage, signedIn>>
    BY <1>3 DEF LoadPushes
  <2>3. page' \in PageSet /\ UnitOK(page')
    BY <2>2, <1>t DEF PageSet, UnitOK
  <2> QED
    BY <2>1, <2>2, <2>3, <1>t, PageStepType
<1>4. CASE LoadLands \/ LoadFails
  BY <1>4, LoadType DEF LoadLands, LoadFails
<1>5. CASE PushesSettle
  BY <1>5, <1>t, <1>l, PageStepType DEF PushesSettle
<1>6. CASE CompleteLesson
  BY <1>6, RecordedType DEF CompleteLesson
<1>7. CASE SubmitCheckpoint
  BY <1>7, RecordedType DEF SubmitCheckpoint
<1>8. CASE CompleteLands
  BY <1>8, <1>k, AnsweredType DEF CompleteLands
<1>9. CASE CompleteFails
  <2>1. CASE page.kind = "lesson"
    BY <1>9, <2>1, <1>f, AnsweredType DEF CompleteFails
  <2>2. CASE page.kind # "lesson"
    BY <1>9, <2>2, <1>f, <1>t, PageStepType DEF CompleteFails
  <2> QED
    BY <2>1, <2>2
<1>10. CASE SolveIncident
  <2>1. PICK clean \in BOOLEAN : writes' = writes \cup {Write("judge", page.unit, 0, clean, FALSE)}
    BY <1>10 DEF SolveIncident
  <2>2. Write("judge", page.unit, 0, clean, FALSE) \in WriteSet
    BY <1>t DEF Write, WriteSet
  <2>3. page.unit \in ClusterOwned
    BY <1>10, <1>t DEF SolveIncident, Open, UnitOK
  <2>4. Write("judge", page.unit, 0, clean, FALSE).unit = page.unit
    BY DEF Write
  <2> QED
    BY <1>10, <2>1, <2>2, <2>3, <2>4, <1>t, PageStepType DEF SolveIncident
<1>11. CASE Refresh
  BY <1>11, <1>t, <1>l, PageStepType DEF Refresh
<1>12. CASE Claim
  BY <1>12, <1>t, <1>f, PageStepType DEF Claim
<1>13. CASE Issue
  <2>1. account' \in [rows: Rows, attempts: SUBSET ClusterOwned, certificate: BOOLEAN]
    BY <1>13, <1>t DEF Issue
  <2> QED
    BY <1>13, <1>t, <2>1 DEF Issue, Typed, AcademyTypeOK, UnitOK, JudgedIsOwned
<1>14. CASE ClaimLands
  BY <1>14, <1>k, <1>t, PageStepType DEF ClaimLands
<1>15. CASE ClaimFails
  BY <1>15, <1>t, <1>f, PageStepType DEF ClaimFails
<1>16. ASSUME NEW w \in writes, ReadRow(w) \/ LosePush(w)
       PROVE  Typed'
  <2>1. \/ writes' = writes \ {w}
        \/ \E found \in {"absent", "row"} :
             writes' = (writes \ {w}) \cup {[w EXCEPT !.seen = found, !.best = account.rows[w.unit].score]}
    BY <1>16 DEF ReadRow, LosePush
  <2>2. account.rows[w.unit].score \in {0} \cup Scores
    BY <1>t, RowsAreFunctions DEF WriteSet, RowSet
  <2>3. \A found \in {"absent", "row"} :
          LET v == [w EXCEPT !.seen = found, !.best = account.rows[w.unit].score]
          IN  v \in WriteSet /\ v.op = w.op /\ v.unit = w.unit
    BY <1>t, <2>2 DEF WriteSet
  <2>4. UNCHANGED <<account, storage, signedIn, page>>
    BY <1>16 DEF ReadRow, LosePush
  <2> QED
    BY <2>1, <2>3, <2>4, <1>t, PageStepType
<1>17. ASSUME NEW w \in writes, SaveRow(w)
       PROVE  Typed'
  <2>1. account' \in [rows: Rows, attempts: SUBSET ClusterOwned, certificate: BOOLEAN]
    BY <1>17, <1>t, SaveRowIs
  <2> QED
    BY <1>17, <2>1, <1>t DEF SaveRow, Typed, AcademyTypeOK, UnitOK, JudgedIsOwned
<1> QED
  BY <1>1, <1>2, <1>3, <1>4, <1>5, <1>6, <1>7, <1>8, <1>9, <1>10, <1>11, <1>12, <1>13, <1>14,
     <1>15, <1>16, <1>17 DEF AcademyNext

-----------------------------------------------------------------------------
(* The account only grows.                                                 *)

\* Rows are below themselves.
LEMMA BelowSame == \A a : Below(a, a)
  BY DEF Below

\* What the rows open, they open when more is recorded.
LEMMA OpenGrows ==
  ASSUME NEW a, NEW b, \A u \in Units : Done(a, u) => Done(b, u), NEW u \in ClusterOwned, OpenOn(a, u)
  PROVE  OpenOn(b, u)
<1>1. CASE u = Assessment
  BY <1>1, UnitsOfSegments DEF OpenOn, AssessmentUnlocked, PrerequisiteMet
<1>2. CASE u # Assessment
  <2>1. CapstoneUnlocked(a, u[2])
    BY <1>2 DEF OpenOn
  <2>2. u[2] \in Segments
    BY <2>1 DEF CapstoneUnlocked, Unlocked
  <2>3. \A s \in Segments : PrerequisiteMet(a, s) => PrerequisiteMet(b, s)
    BY UnitsOfSegments DEF PrerequisiteMet
  <2>4. Prerequisites[u[2]] \subseteq Segments
    BY <2>2, CourseAssumption
  <2>5. CapstoneUnlocked(b, u[2])
    BY <2>1, <2>2, <2>3, <2>4, UnitsOfSegments DEF CapstoneUnlocked, Unlocked
  <2> QED
    BY <1>2, <2>5 DEF OpenOn
<1> QED
  BY <1>1, <1>2

\* The clean capstones only get more.
LEMMA CleanGrows ==
  ASSUME NEW a, NEW b, Below(a, b)
  PROVE  /\ CleanCapstones(a) \in Nat /\ CleanCapstones(b) \in Nat
         /\ CleanCapstones(a) <= CleanCapstones(b)
<1> DEFINE A == {s \in Segments : a[Capstone(s)].clean}
           B == {s \in Segments : b[Capstone(s)].clean}
<1>1. A \subseteq B
  BY UnitsOfSegments DEF Below
<1>2. IsFiniteSet(B) /\ IsFiniteSet(A)
  BY <1>1, FS_Subset, CourseAssumption
<1>3. Cardinality(A) <= Cardinality(B) /\ Cardinality(A) \in Nat /\ Cardinality(B) \in Nat
  BY <1>1, <1>2, FS_Subset, FS_CardinalityType
<1> QED
  BY <1>3 DEF CleanCapstones

\* A save adds to the account's rows: it inserts where there is no row, and an update
\* completes, or leaves what is there.
LEMMA SaveGrows ==
  ASSUME Typed, CleanIsDone, NEW w \in writes, SaveRow(w)
  PROVE  Below(account.rows, account'.rows) /\ CleanIsDone'
<1>1. CASE UNCHANGED account
  BY <1>1 DEF Below, CleanIsDone
<1>2. CASE ~LosesRace(w) /\ account'.rows = [account.rows EXCEPT ![w.unit] = Saved(w)]
  <2>1. account.rows \in [Units -> RowSet] /\ w.unit \in Units
    BY TypedIs, RowsAreFunctions DEF WriteSet
  <2>2. Inserts(w) => account.rows[w.unit].status = "absent"
    BY <1>2 DEF LosesRace
  <2>3. /\ \A u \in Units \ {w.unit} : account'.rows[u] = account.rows[u]
        /\ account'.rows[w.unit] = Saved(w)
    BY <1>2, <2>1
  <2>4. /\ Done(account.rows, w.unit) => Done(account'.rows, w.unit)
        /\ account.rows[w.unit].status # "absent" => account'.rows[w.unit].status # "absent"
        /\ account.rows[w.unit].clean => account'.rows[w.unit].clean
        /\ account'.rows[w.unit].clean => Done(account'.rows, w.unit)
    BY <2>1, <2>2, <2>3, SavedRow DEF SaveRow, CleanIsDone, Done
  <2> QED
    BY <2>3, <2>4 DEF Below, CleanIsDone, Done
<1> QED
  BY <1>1, <1>2, SaveRowIs

\* Every step adds to the account.
LEMMA AccountGrows ==
  ASSUME Typed, CleanIsDone, AcademyNext
  PROVE  /\ Below(account.rows, account'.rows)
         /\ account.certificate => account'.certificate
         /\ CleanIsDone'
<1>1. CASE UNCHANGED account
  BY <1>1, BelowSame DEF CleanIsDone
<1>2. CASE Issue
  <2>1. account'.rows = account.rows /\ account'.certificate
    BY <1>2, TypedIs DEF Issue
  <2> QED
    BY <2>1, BelowSame DEF CleanIsDone, Done
<1>3. ASSUME NEW w \in writes, SaveRow(w)
      PROVE  /\ Below(account.rows, account'.rows)
             /\ account.certificate => account'.certificate
             /\ CleanIsDone'
  BY <1>3, SaveGrows, SaveRowIs
<1> QED
  BY <1>1, <1>2, <1>3
  DEF AcademyNext, Visit, Session, LoadPushes, LoadLands, LoadFails, PushesSettle, CompleteLesson,
      SubmitCheckpoint, CompleteLands, CompleteFails, SolveIncident, Refresh, Claim, ClaimLands,
      ClaimFails, ReadRow, LosePush

\* A certificate stays earned: it is issued on a finished course, and the course only
\* gets more finished.
LEMMA CertificateStaysEarned ==
  ASSUME Typed, CleanIsDone, CertificateIsEarned, AcademyNext
  PROVE  CertificateIsEarned'
<1>1. Below(account.rows, account'.rows)
  BY AccountGrows
<1>2. CASE account.certificate
  <2>1. /\ \A u \in Required : Done(account.rows, u)
        /\ CleanCapstones(account.rows) >= CleanRequired
    BY <1>2 DEF CertificateIsEarned
  <2>2. \A u \in Required : Done(account'.rows, u)
    BY <1>1, <2>1, UnitsOfSegments DEF Below
  <2>3. CleanCapstones(account'.rows) >= CleanRequired
    BY <1>1, <2>1, CleanGrows, CourseAssumption
  <2> QED
    BY <2>2, <2>3 DEF CertificateIsEarned, CleanCapstones
<1>3. CASE ~account.certificate /\ account'.certificate
  <2>1. Issue
    <3>1. ~UNCHANGED account
      BY <1>3
    <3>2. \A w \in writes : ~SaveRow(w)
      BY <1>3, SaveRowIs
    <3> QED
      BY <3>1, <3>2
      DEF AcademyNext, Visit, Session, LoadPushes, LoadLands, LoadFails, PushesSettle,
          CompleteLesson, SubmitCheckpoint, CompleteLands, CompleteFails, SolveIncident, Refresh,
          Claim, ClaimLands, ClaimFails, ReadRow, LosePush
  <2>2. RequirementsMet(account.rows) /\ account'.rows = account.rows
    BY <2>1, <1>3, TypedIs DEF Issue
  <2> QED
    BY <2>2 DEF RequirementsMet, CertificateIsEarned, CleanCapstones
<1> QED
  BY <1>2, <1>3 DEF CertificateIsEarned

-----------------------------------------------------------------------------
(* What the page shows.                                                    *)

\* A page that has not loaded and does nothing promises nothing.
LEMMA UnloadedPage ==
  ASSUME ~Loaded(page'), page'.doing = "no"
  PROVE  PageOK'
  BY DEF PageOK, DoingOK, RecordOnly, ShownIsKept, Loaded

\* A page that shows the account's rows is in order.
LEMMA AccountPage ==
  ASSUME Typed, UNCHANGED account, page' = FromAccount(page)
  PROVE  PageOK'
<1>1. page'.rows = account'.rows /\ page'.backed /\ page'.doing = "no"
  BY TypedIs DEF FromAccount, PageSet
<1> QED
  BY <1>1 DEF PageOK, DoingOK, RecordOnly, ShownIsKept, Loaded, Done

\* The same page shows as much when the account has grown.
LEMMA SamePage ==
  ASSUME PageOK, Below(account.rows, account'.rows), UNCHANGED <<storage, page>>
  PROVE  PageOK'
  BY DEF PageOK, DoingOK, RecordOnly, ShownIsKept, Loaded, Below, Done

\* So does one that only changes what it does.
LEMMA DoingPage ==
  ASSUME Typed, PageOK, UNCHANGED <<account, storage>>, Loaded(page),
         NEW doing \in {"claim", "failed"}, page' = [page EXCEPT !.doing = doing],
         page.kind \in {"segment", "lesson", "certificate"},
         doing = "claim" => page.kind = "certificate" /\ page.backed
  PROVE  PageOK'
<1>1. /\ page'.kind = page.kind /\ page'.rows = page.rows /\ page'.load = page.load
      /\ page'.backed = page.backed /\ page'.doing = doing
  BY TypedIs DEF PageSet
<1>2. Loaded(page') /\ doing # "complete"
  BY <1>1 DEF Loaded
<1> QED
  BY <1>1, <1>2 DEF PageOK, DoingOK, RecordOnly, ShownIsKept, Done, Loaded

\* A load shows what it read, and keeps in the browser what it shows.
LEMMA LoadPage ==
  ASSUME Typed, page.doing = "no", NEW p \in {FromAccount(page), FromBrowser(page)}, Render(p),
         UNCHANGED account
  PROVE  PageOK'
<1>1. p \in PageSet /\ p.doing = "no"
  BY LoadedPages, TypedIs DEF Typed, FromAccount, FromBrowser, PageSet
<1>2. /\ page'.doing = "no" /\ page'.backed = p.backed /\ page'.kind = p.kind
      /\ \A u \in Units : Done(page'.rows, u) <=> Done(p.rows, u)
  BY <1>1, ShownPage DEF Render
<1>3. CASE p = FromAccount(page)
  <2>1. p.backed /\ p.rows = account'.rows
    BY <1>3, TypedIs DEF FromAccount, PageSet
  <2> QED
    BY <1>2, <2>1 DEF PageOK, DoingOK, RecordOnly, ShownIsKept, Done
<1>4. CASE p = FromBrowser(page)
  <2>1. ~p.backed /\ p.rows = storage
    BY <1>4, TypedIs DEF FromBrowser, PageSet
  <2>2. \A u \in Units : Done(p.rows, u) => Done(storage', u)
    BY <1>1, <1>2, <2>1, KeptRows, TypedIs DEF Render
  <2> QED
    BY <1>2, <2>1, <2>2 DEF PageOK, DoingOK, RecordOnly, ShownIsKept
<1> QED
  BY <1>3, <1>4

\* Work recorded is on its way to the account or kept in the browser.
LEMMA RecordedPage ==
  ASSUME Typed, PageOK, Loaded(page), page.kind \in {"lesson", "segment"},
         page.kind = "segment" => page.doing \in {"no", "failed"},
         NEW score \in {0} \cup Scores, Recorded(Completed(score), score), UNCHANGED account
  PROVE  PageOK'
<1> DEFINE p == Completed(score)
<1>1. p.kind = page.kind /\ p.load = page.load /\ p.backed = page.backed /\ p.doing = page.doing
  <2>1. \E rows : p = [page EXCEPT !.rows = rows]
    BY DEF Completed
  <2> HIDE DEF p
  <2> QED
    BY <2>1, TypedIs DEF PageSet
<1>2. CASE page.backed
  <2> DEFINE q == [p EXCEPT !.doing = "complete"]
  <2>1. page' = q
    BY <1>2 DEF Recorded
  <2>2. p \in [DOMAIN page -> UNION {{p[f]} : f \in DOMAIN page}] /\ DOMAIN p = DOMAIN page
    BY TypedIs DEF PageSet, Completed
  <2>3. q.doing = "complete" /\ q.kind = p.kind /\ q.load = p.load /\ q.backed = p.backed
    BY <2>2, TypedIs DEF PageSet
  <2> HIDE DEF q, p
  <2> QED
    BY <1>1, <1>2, <2>1, <2>3 DEF PageOK, DoingOK, RecordOnly, ShownIsKept, Loaded
<1>3. CASE ~page.backed /\ page.kind = "lesson"
  BY <1>3, SegmentPage, UnloadedPage DEF Recorded
<1>4. CASE ~page.backed /\ page.kind = "segment"
  <2>1. page' = p /\ storage' = p.rows
    BY <1>4 DEF Recorded
  <2> HIDE DEF p
  <2> QED
    BY <1>1, <1>4, <2>1 DEF PageOK, DoingOK, RecordOnly, ShownIsKept, Loaded
<1> QED
  BY <1>2, <1>3, <1>4

\* What the page asks for a certificate, spelled out.
LEMMA NothingRemains ==
  ASSUME NEW rows, NEW backed \in BOOLEAN
  PROVE  Remaining(rows, backed) = {} <=>
           /\ backed
           /\ \A s \in Segments : Done(rows, Lesson(s)) /\ Done(rows, Checkpoint(s))
           /\ CheckScoreMet(rows)
           /\ Demonstrated(rows) = Segments
           /\ CleanCapstones(rows) >= CleanRequired
           /\ Done(rows, Assessment)
<1> DEFINE lessons == \A s \in Segments : Done(rows, Lesson(s))
           checkpoints == \A s \in Segments : Done(rows, Checkpoint(s))
           score == checkpoints /\ CheckScoreMet(rows)
           capstones == Demonstrated(rows) = Segments
           clean == CleanCapstones(rows) >= CleanRequired
           assessment == Done(rows, Assessment)
<1>1. Met(rows, backed) = [account |-> backed, lessons |-> lessons, checkpoints |-> checkpoints,
                           score |-> score, capstones |-> capstones, clean |-> clean,
                           assessment |-> assessment]
  BY Zenon DEF Met
<1>2. /\ lessons \in BOOLEAN /\ checkpoints \in BOOLEAN /\ score \in BOOLEAN
      /\ capstones \in BOOLEAN /\ clean \in BOOLEAN /\ assessment \in BOOLEAN
  BY SMT DEF Done
<1> HIDE DEF lessons, checkpoints, score, capstones, clean, assessment
<1>3. Remaining(rows, backed) = {} <=>
        backed /\ lessons /\ checkpoints /\ score /\ capstones /\ clean /\ assessment
  <2> DEFINE met == [account |-> backed, lessons |-> lessons, checkpoints |-> checkpoints,
                     score |-> score, capstones |-> capstones, clean |-> clean,
                     assessment |-> assessment]
  <2>1. Remaining(rows, backed) = {r \in DOMAIN met : ~met[r]}
    BY <1>1 DEF Remaining
  <2>2. {r \in DOMAIN met : ~met[r]} = {} <=>
          backed /\ lessons /\ checkpoints /\ score /\ capstones /\ clean /\ assessment
    BY <1>2
  <2> HIDE DEF met
  <2> QED
    BY <2>1, <2>2
<1> QED
  BY <1>3 DEF lessons, checkpoints, score, capstones, clean, assessment

\* Every step keeps what the page shows.
LEMMA NextPage ==
  ASSUME AInv, AcademyNext
  PROVE  PageOK'
<1>t. Typed /\ PageOK /\ CleanIsDone /\ page \in PageSet /\ DoingOK(page)
  BY TypedIs DEF AInv, PageOK
<1>g. Below(account.rows, account'.rows)
  BY <1>t, AccountGrows
<1>1. CASE Visit
  <2>1. PICK p \in Pages : Render(p)
    BY <1>1 DEF Visit
  <2>2. p \in PageSet /\ ~Loaded(p) /\ p.doing = "no"
    <3>1. PICK kind \in Kinds, u \in Units : p = Blank(kind, u)
      BY <2>1, UnitsOfSegments DEF Pages, Kinds
    <3> QED
      BY <3>1, BlankPage
  <2>3. ~Loaded(page') /\ page'.doing = "no"
    BY <2>1, <2>2, ShownPage DEF Render, Loaded
  <2> QED
    BY <2>3, UnloadedPage
<1>2. CASE Session
  <2>1. ~Loaded(Blank("none", Assessment)) /\ Blank("none", Assessment).doing = "no"
    BY UnitsOfSegments, BlankPage DEF Kinds
  <2> QED
    BY <1>2, <2>1, <1>t, <1>g, SamePage, UnloadedPage DEF Session
<1>3. CASE LoadPushes \/ PushesSettle
  <2>1. page'.load \in {"pushing", "again"} /\ page'.doing = "no"
    BY <1>3, <1>t DEF LoadPushes, PushesSettle, DoingOK, Loaded, PageSet
  <2> QED
    BY <2>1, UnloadedPage DEF Loaded
<1>4. CASE LoadLands \/ LoadFails
  <2>1. page.doing = "no"
    BY <1>4, <1>t DEF LoadLands, LoadFails, DoingOK, Loaded
  <2> QED
    BY <1>4, <1>t, <2>1, LoadPage DEF LoadLands, LoadFails
<1>5. CASE CompleteLesson \/ SubmitCheckpoint
  BY <1>5, <1>t, RecordedPage DEF CompleteLesson, SubmitCheckpoint
<1>6. CASE CompleteLands
  <2>1. page.kind = "lesson" => page' = Blank("segment", Checkpoint(page.unit[2]))
    BY <1>6 DEF CompleteLands, Answered
  <2>2. page.kind # "lesson" => page' = FromAccount(page)
    BY <1>6 DEF CompleteLands, Answered
  <2> QED
    BY <1>6, <1>t, <2>1, <2>2, SegmentPage, UnloadedPage, AccountPage DEF CompleteLands
<1>7. CASE CompleteFails
  <2>1. CASE page.kind = "lesson"
    BY <1>7, <2>1, <1>t, SegmentPage, UnloadedPage DEF CompleteFails, Answered
  <2>2. CASE page.kind # "lesson"
    BY <1>7, <2>2, <1>t, DoingPage DEF CompleteFails, DoingOK
  <2> QED
    BY <2>1, <2>2
<1>8. CASE Refresh
  <2>1. page'.load = "asked" /\ page'.doing = "no"
    BY <1>8, <1>t DEF Refresh, Open, DoingOK, PageSet
  <2> QED
    BY <2>1, UnloadedPage DEF Loaded
<1>9. CASE Claim
  <2>1. page.backed
    BY <1>9, <1>t, NothingRemains DEF Claim, PageSet
  <2> QED
    BY <1>9, <1>t, <2>1, DoingPage DEF Claim
<1>10. CASE ClaimLands
  BY <1>10, <1>t, AccountPage DEF ClaimLands
<1>11. CASE ClaimFails
  BY <1>11, <1>t, DoingPage DEF ClaimFails, DoingOK
<1>12. CASE UNCHANGED <<storage, page>>
  BY <1>12, <1>t, <1>g, SamePage
<1> QED
  BY <1>1, <1>2, <1>3, <1>4, <1>5, <1>6, <1>7, <1>8, <1>9, <1>10, <1>11, <1>12
  DEF AInv, AcademyNext, SolveIncident, Issue, ReadRow, SaveRow, LosePush

-----------------------------------------------------------------------------
(* The invariant and the theorems.                                         *)

\* The invariant holds initially.
LEMMA InitAInv == AcademyInit => AInv
<1> SUFFICES ASSUME AcademyInit PROVE AInv
  OBVIOUS
<1>1. page \in PageSet /\ UnitOK(page) /\ ~Loaded(page) /\ page.doing = "no"
  BY UnitsOfSegments, BlankPage DEF AcademyInit, Kinds, UnitOK
<1>2. account \in [rows: Rows, attempts: SUBSET ClusterOwned, certificate: BOOLEAN]
  BY NoRowsType DEF AcademyInit
<1>3. Typed
  BY <1>1, <1>2, NoRowsType, TypedIs DEF AcademyInit
<1>4. PageOK
  BY <1>1 DEF PageOK, DoingOK, RecordOnly, ShownIsKept
<1>5. CleanIsDone /\ CertificateIsEarned
  BY NoRowsType DEF AcademyInit, CleanIsDone, CertificateIsEarned
<1> QED
  BY <1>3, <1>4, <1>5 DEF AInv

\* Every step keeps it.
LEMMA NextAInv == AInv /\ [AcademyNext]_academyVars => AInv'
<1>1. ASSUME AInv, AcademyNext PROVE AInv'
  BY <1>1, NextTyped, NextPage, AccountGrows, CertificateStaysEarned DEF AInv
<1>2. ASSUME AInv, UNCHANGED academyVars PROVE AInv'
  BY <1>2 DEF academyVars, AInv, Typed, AcademyTypeOK, UnitOK, JudgedIsOwned, PageOK, DoingOK,
     RecordOnly, ShownIsKept, CleanIsDone, CertificateIsEarned, Loaded, Done, CleanCapstones
<1> QED
  BY <1>1, <1>2

\* It holds in every state of the Academy.
LEMMA AInvHolds == AcademySpec => []AInv
  BY InitAInv, NextAInv, PTL DEF AcademySpec

\* Type correctness: whatever course, pages, sessions and writes, the account, the browser
\* and the page keep their shape, and only the cluster's units are judged.
THEOREM AcademyTypeCorrect == AcademySpec => []AcademyTypeOK
<1>1. AInv => AcademyTypeOK
  BY DEF AInv, Typed
<1> QED
  BY AInvHolds, <1>1, PTL

\* Work a page shows as done is kept: by the account it is backed by, unless its recording
\* is out or known to have failed, else by the browser (useAcademyProgress.ts).
THEOREM ShownWorkIsKept == AcademySpec => []ShownIsKept
<1>1. AInv => ShownIsKept
  BY DEF AInv, PageOK
<1> QED
  BY AInvHolds, <1>1, PTL

\* The account forgets no row, completion, clean solve or certificate, however starts,
\* completions and judgements of several pages interleave on the server
\* (LearningProgressStore.cs); of scores this is not claimed.
THEOREM NothingIsForgotten == AcademySpec => AccountRemembers
<1>1. AInv /\ [AcademyNext]_academyVars =>
        [ /\ \A u \in Units :
               /\ Done(account.rows, u) => Done(account'.rows, u)
               /\ account.rows[u].status # "absent" => account'.rows[u].status # "absent"
               /\ account.rows[u].clean => account'.rows[u].clean
          /\ account.certificate => account'.certificate ]_academyVars
  BY AccountGrows DEF AInv, Below
<1> QED
  BY AInvHolds, <1>1, PTL DEF AcademySpec, AccountRemembers

\* A certificate stands on a finished course with enough clean capstones, in rows of the
\* account alone (LearningEndpoints.cs, the claim).
THEOREM CertificatesAreEarned == AcademySpec => []CertificateIsEarned
<1>1. AInv => CertificateIsEarned
  BY DEF AInv
<1> QED
  BY AInvHolds, <1>1, PTL

\* For a learner with an account, an assignment opens, and a capstone is what to continue
\* with, only on work the account has (progress.ts, CapstoneView.tsx).
THEOREM OpenedOnRecord == AcademySpec => []AssignmentsOpenOnRecord
<1>1. ASSUME AInv, Loaded(page), page.backed PROVE AssignmentsOpenOnRecord
  <2>1. Open(page) => OpenOn(account.rows, page.unit)
    BY <1>1, OpenGrows DEF Open, AInv, Typed, UnitOK, PageOK, RecordOnly
  <2>2. ASSUME page.kind = "course", NEW s \in Resumable(page.rows),
               NextUnit(page.rows, s) = Capstone(s)
        PROVE  OpenOn(account.rows, Capstone(s))
    <3>1. s \in Segments /\ s \in Unlocked(page.rows)
      BY <2>2 DEF Resumable, SegmentStatus
    <3>2. Done(page.rows, Lesson(s))
      BY <2>2, <3>1, UnitsDiffer DEF NextUnit
    <3>3. OpenOn(page.rows, Capstone(s))
      BY <3>1, <3>2, UnitsDiffer DEF OpenOn, CapstoneUnlocked
    <3>4. Capstone(s) \in ClusterOwned
      BY <3>1 DEF ClusterOwned
    <3>5. \A u \in Units : Done(page.rows, u) => Done(account.rows, u)
      BY <1>1, <2>2 DEF AInv, PageOK, RecordOnly
    <3> QED
      BY <3>3, <3>4, <3>5, OpenGrows
  <2> QED
    BY <2>1, <2>2 DEF AssignmentsOpenOnRecord
<1>2. AInv => AssignmentsOpenOnRecord
  BY <1>1 DEF AssignmentsOpenOnRecord
<1> QED
  BY AInvHolds, <1>2, PTL

-----------------------------------------------------------------------------
(* Two implementations of one rule.                                        *)

\* The page and the platform agree on a certificate: the seven requirements the browser
\* lists (progress.ts) are met exactly when the platform's own check of the same rows
\* passes (LearningEndpoints.cs), so a claim the page offers on the account's rows is
\* never refused for them.
THEOREM ClaimsAgree ==
  ASSUME NEW rows \in Rows
  PROVE  Remaining(rows, TRUE) = {} <=> RequirementsMet(rows)
<1>1. Demonstrated(rows) = Segments <=> \A s \in Segments : Done(rows, Capstone(s))
  BY DEF Demonstrated
<1>2. (\A u \in Required : Done(rows, u)) <=>
        /\ Done(rows, Assessment)
        /\ \A s \in Segments : /\ Done(rows, Lesson(s)) /\ Done(rows, Checkpoint(s))
                               /\ Done(rows, Capstone(s))
  BY DEF Required
<1> QED
  BY <1>1, <1>2, NothingRemains DEF RequirementsMet

\* The overview lists nothing outstanding exactly when the assessment opens
\* (AssessmentView.tsx lists what progress.ts counts).
THEOREM NothingOutstanding ==
  ASSUME NEW rows \in Rows
  PROVE  Outstanding(rows) = {} <=> AssessmentUnlocked(rows)
<1>1. ASSUME NEW s \in Segments
      PROVE  Missing(rows, s) = {} <=> PrerequisiteMet(rows, s) /\ Done(rows, Capstone(s))
  BY DEF Missing, PrerequisiteMet
<1> QED
  BY <1>1 DEF Outstanding, AssessmentUnlocked

\* "Continue learning" never leads to what is done already: the unit offered for a
\* segment that is neither mastered nor complete is one not finished (progress.ts).
THEOREM ContinuesWithUnfinished ==
  ASSUME NEW rows \in Rows, NEW s \in Resumable(rows)
  PROVE  ~Done(rows, NextUnit(rows, s))
<1>1. s \in Segments /\ ~(Done(rows, Capstone(s)) /\ Done(rows, Checkpoint(s)))
  BY DEF Resumable, SegmentStatus
<1> QED
  BY <1>1 DEF NextUnit


-----------------------------------------------------------------------------

(***************************************************************************)
(* Three claims about the page that holds a cluster, for any number of     *)
(* reads and changes in flight.  A page that is attached is polled or has  *)
(* the read out that starts the polling (BenchOK).  A read that may still  *)
(* set the run was sent, and so is answered, after the newest change the   *)
(* page was told of: every later change takes that right away from it      *)
(* (RefreshesOK).  And only the answer to a change puts a run on a page    *)
(* that has let go.                                                        *)
(***************************************************************************)

Arenas == [life : {"absent", "live", "deleting"}, gen : Nat, rev : Nat,
           mode : Modes, decided : BOOLEAN, age : Fresh..Due, renewed : BOOLEAN]
Benches == [boot : {"asked", "mine", "none", "attaching", "done", "offline"},
            run : Views, hoped : BOOLEAN, attached : BOOLEAN, polling : BOOLEAN,
            failures : 0..StaleAfter, stale : BOOLEAN, expired : BOOLEAN,
            busy : BOOLEAN, declined : Nat, armed : BOOLEAN]
Reads == [st : {"idle", "sent", "back"}, kind : {"poll", "attach"}, fresh : BOOLEAN,
          answer : Answers]
Changes == [st : {"idle", "sent", "back"}, key : MutationKeys, answer : Answers]

AttachOut == \E r \in Refreshes : refreshes[r].st # "idle" /\ refreshes[r].kind = "attach"

ArenaOK == arena \in Arenas /\ acked \in Nat /\ lateAnswer \in BOOLEAN /\ acked <= arena.rev

BenchOK ==
  /\ workbench \in Benches
  /\ workbench.attached => workbench.polling \/ AttachOut
  /\ OnlyLateAnswersLinger

RefreshesOK ==
  /\ refreshes \in [Refreshes -> Reads]
  /\ \A r \in Refreshes : refreshes[r].fresh /\ refreshes[r].answer.code = "ok" =>
        acked <= refreshes[r].answer.view.rev

MutationsOK ==
  /\ mutations \in [Mutations -> Changes]
  /\ \A m \in Mutations : mutations[m].answer.code = "ok" =>
        mutations[m].answer.view.rev <= arena.rev

\* The inductive invariant.
PageInv == ArenaOK /\ BenchOK /\ RefreshesOK /\ MutationsOK

-----------------------------------------------------------------------------
(* Values.                                                                 *)

LEMMA ValuesAre ==
  /\ NoRun \in Views /\ NoAnswer \in Answers /\ Failed \in Answers /\ Gone \in Answers
  /\ NoAnswer.code = "none" /\ Failed.code = "error" /\ Gone.code = "gone"
  /\ IdleRefresh \in Reads /\ IdleMutation \in Changes
  /\ \A kind \in {"poll", "attach"} : Sent(kind) \in Reads
<1>1. NoRun \in Views
  BY DEF NoRun, Views, Modes
<1>2. NoAnswer \in Answers /\ Failed \in Answers /\ Gone \in Answers
  BY <1>1 DEF NoAnswer, Failed, Gone, Answer, Answers
<1>3. IdleRefresh \in Reads /\ IdleMutation \in Changes
  BY <1>2 DEF IdleRefresh, Reads, IdleMutation, Changes, MutationKeys
<1>4. \A kind \in {"poll", "attach"} : Sent(kind) \in Reads
  BY <1>2 DEF Sent, Reads
<1> QED
  BY <1>1, <1>2, <1>3, <1>4 DEF NoAnswer, Failed, Gone, Answer

LEMMA ViewIs == ASSUME NEW a \in Arenas PROVE ViewOf(a) \in Views /\ ViewOf(a).rev = a.rev
BY DEF Arenas, ViewOf, Views

LEMMA AnswerIs ==
  ASSUME NEW view \in Views
  PROVE  /\ Answer("ok", view) \in Answers /\ Answer("ok", view).code = "ok"
         /\ Answer("ok", view).view = view
BY DEF Answer, Answers

\* What the refs and setters of the hook make of a page.
LEMMA ReleaseIs ==
  ASSUME NEW p \in Benches
  PROVE  Release(p) \in Benches /\ ~Release(p).attached /\ Release(p).run = NoRun
<1>1. 0 \in 0..StaleAfter
  BY BoundsAssumption
<1>2. NoRun \in Views
  BY ValuesAre
<1>3. Release(p) \in Benches
  BY <1>1, <1>2 DEF Benches, Release
<1> QED
  BY <1>3 DEF Benches, Release

LEMMA StartPollingIs ==
  ASSUME NEW p \in Benches
  PROVE  /\ StartPolling(p) \in Benches /\ StartPolling(p).attached /\ StartPolling(p).polling
         /\ StartPolling(p).run = p.run
<1>1. 0 \in 0..StaleAfter
  BY BoundsAssumption
<1>2. StartPolling(p) \in Benches
  BY <1>1 DEF Benches, StartPolling
<1> QED
  BY <1>2 DEF Benches, StartPolling

LEMMA ShowIs ==
  ASSUME NEW p \in Benches, NEW view \in Views
  PROVE  /\ Show(p, view) \in Benches /\ Show(p, view).run = view
         /\ Show(p, view).attached = p.attached /\ Show(p, view).polling = p.polling
BY DEF Benches, Show

\* A snapshot shows nothing on a page that has let go, and nothing unless it is fresh.
LEMMA RefreshedIs ==
  ASSUME NEW p \in Benches, NEW view \in Views, NEW fresh \in BOOLEAN,
         NEW q, q = Refreshed(p, view, fresh)
  PROVE  /\ q \in Benches
         /\ q = p \/ q.run = NoRun \/ (fresh /\ q.run = view)
         /\ q.attached => p.attached /\ q.polling = p.polling
         /\ ~q.attached => q = p \/ q.run = NoRun
<1>1. CASE ~p.attached
  BY <1>1 DEF Refreshed
<1>2. CASE p.attached /\ view.over = "deleting"
  BY <1>2, ReleaseIs DEF Refreshed
<1>3. CASE p.attached /\ view.over = "due"
  <2>1. q = [Release(p) EXCEPT !.expired = TRUE]
    BY <1>3 DEF Refreshed
  <2>2. q \in Benches /\ ~q.attached /\ q.run = NoRun
    <3>1. PICK b : b = Release(p)
      OBVIOUS
    <3>2. b \in Benches /\ ~b.attached /\ b.run = NoRun
      BY <3>1, ReleaseIs
    <3> QED
      BY <2>1, <3>1, <3>2 DEF Benches
  <2> QED
    BY <2>2
<1>4. CASE p.attached /\ view.over \notin {"deleting", "due"}
  <2>1. q = IF fresh THEN Show(p, view) ELSE p
    BY <1>4 DEF Refreshed
  <2> QED
    BY <1>4, <2>1, ShowIs
<1> QED
  BY <1>1, <1>2, <1>3, <1>4

-----------------------------------------------------------------------------
(* The platform.                                                           *)

\* A change of the cluster never takes a revision back.
LEMMA ArenaMoves ==
  ASSUME PageInv, arena' \in Arenas, arena.rev <= arena'.rev, UNCHANGED <<acked, lateAnswer>>
  PROVE  ArenaOK' /\ (UNCHANGED mutations => MutationsOK')
<1>1. arena \in Arenas /\ arena.rev \in Nat /\ arena'.rev \in Nat /\ acked \in Nat
  BY DEF PageInv, ArenaOK, Arenas
<1>2. ArenaOK'
  BY <1>1 DEF PageInv, ArenaOK
<1>3. ASSUME UNCHANGED mutations PROVE MutationsOK'
  <2>1. \A m \in Mutations : mutations[m].answer.code = "ok" =>
          mutations[m].answer.view.rev \in Nat /\ mutations[m].answer.view.rev <= arena.rev
    BY DEF PageInv, MutationsOK, Changes, Answers, Views
  <2> QED
    BY <1>1, <1>3, <2>1 DEF PageInv, MutationsOK
<1> QED
  BY <1>2, <1>3

LEMMA PageStands ==
  ASSUME PageInv, UNCHANGED <<workbench, refreshes, acked, lateAnswer>>
  PROVE  BenchOK' /\ RefreshesOK'
BY DEF PageInv, BenchOK, RefreshesOK, AttachOut, OnlyLateAnswersLinger, HasRun

LEMMA AgesAre ==
  /\ Fresh \in Fresh..Due /\ {"none", "practice", "ranked"} \subseteq Modes
  /\ \A a \in Arenas : a.rev \in Nat /\ a.gen \in Nat /\ a.rev <= a.rev
<1>1. \A a \in Arenas : a.rev \in Nat /\ a.gen \in Nat
  BY DEF Arenas
<1> QED
  BY <1>1 DEF Fresh, Due, Modes

LEMMA ArenaChanges ==
  ASSUME NEW a \in Arenas
  PROVE  /\ Revise(a) \in Arenas /\ a.rev <= Revise(a).rev
         /\ EndDrill(a) \in Arenas /\ a.rev <= EndDrill(a).rev
         /\ Doomed(a) \in Arenas /\ a.rev <= Doomed(a).rev
         /\ Created(a) \in Arenas /\ a.rev <= Created(a).rev
         /\ \A mode \in Modes, decided \in BOOLEAN :
              /\ [Revise(a) EXCEPT !.mode = mode, !.decided = decided] \in Arenas
              /\ a.rev <= [Revise(a) EXCEPT !.mode = mode, !.decided = decided].rev
         /\ [Revise(a) EXCEPT !.mode = "ranked"] \in Arenas
         /\ a.rev <= [Revise(a) EXCEPT !.mode = "ranked"].rev
         /\ [Revise(a) EXCEPT !.renewed = TRUE, !.age = Fresh] \in Arenas
         /\ a.rev <= [Revise(a) EXCEPT !.renewed = TRUE, !.age = Fresh].rev
<1>1. a.rev \in Nat /\ a.gen \in Nat
  BY DEF Arenas
<1>2. PICK n : n = a.rev + 1
  OBVIOUS
<1>3. n \in Nat /\ a.rev <= n
  BY <1>1, <1>2
<1>4. Revise(a) = [a EXCEPT !.rev = n]
  BY <1>2 DEF Revise
<1>5. PICK b : b = Revise(a)
  OBVIOUS
<1>6. b \in Arenas /\ a.rev <= b.rev
  BY <1>3, <1>4, <1>5 DEF Arenas
<1>7. EndDrill(a) = [b EXCEPT !.mode = "none", !.decided = FALSE]
  BY <1>5 DEF EndDrill
<1>8. EndDrill(a) \in Arenas /\ a.rev <= EndDrill(a).rev
  BY <1>6, <1>7 DEF Arenas, Modes
<1>9. Doomed(a) \in Arenas /\ a.rev <= Doomed(a).rev
  <2>1. Doomed(a) \in Arenas /\ Doomed(a).rev = a.rev
    BY AgesAre DEF Doomed, Arenas
  <2> QED
    BY <1>1, <2>1
<1>10. Created(a) \in Arenas /\ a.rev <= Created(a).rev
  <2>1. PICK g : g = a.gen + 1
    OBVIOUS
  <2>2. g \in Nat
    BY <1>1, <2>1
  <2>3. Created(a) = [a EXCEPT !.life = "live", !.gen = g, !.mode = "none",
                               !.decided = FALSE, !.age = Fresh, !.renewed = FALSE]
    BY <2>1 DEF Created
  <2> QED
    <3>1. Created(a) \in Arenas /\ Created(a).rev = a.rev
      BY <2>2, <2>3, AgesAre DEF Arenas
    <3> QED
      BY <1>1, <3>1
<1>11. \A mode \in Modes, decided \in BOOLEAN :
         /\ [b EXCEPT !.mode = mode, !.decided = decided] \in Arenas
         /\ a.rev <= [b EXCEPT !.mode = mode, !.decided = decided].rev
  BY <1>6 DEF Arenas
<1>12. /\ [b EXCEPT !.mode = "ranked"] \in Arenas
       /\ a.rev <= [b EXCEPT !.mode = "ranked"].rev
       /\ [b EXCEPT !.renewed = TRUE, !.age = Fresh] \in Arenas
       /\ a.rev <= [b EXCEPT !.renewed = TRUE, !.age = Fresh].rev
  BY <1>6, AgesAre DEF Arenas
<1> QED
  BY <1>5, <1>6, <1>8, <1>9, <1>10, <1>11, <1>12

LEMMA WorldInv == ASSUME PageInv, World PROVE PageInv'
<1>1. arena \in Arenas
  BY DEF PageInv, ArenaOK
<1>2. arena' \in Arenas /\ arena.rev <= arena'.rev
  <2>1. CASE Ages
    <3>1. PICK n : n = arena.age + 1
      OBVIOUS
    <3>2. n \in Fresh..Due /\ arena' = [arena EXCEPT !.age = n]
      BY <1>1, <2>1, <3>1, BoundsAssumption DEF Ages, Arenas, Fresh, Due
    <3> QED
      BY <1>1, <3>2 DEF Arenas
  <2>2. CASE Judged
    <3>1. arena' \in Arenas /\ arena'.rev = arena.rev
      BY <1>1, <2>2 DEF Judged, Arenas
    <3> QED
      BY <1>1, <3>1, AgesAre
  <2>3. CASE Collected
    <3>1. arena' \in Arenas /\ arena'.rev = arena.rev
      BY <1>1, <2>3, AgesAre DEF Collected, Arenas
    <3> QED
      BY <1>1, <3>1, AgesAre
  <2>4. CASE Reaped \/ Elsewhere
    <3>1. \/ arena' = Doomed(arena) \/ arena' = EndDrill(arena)
          \/ arena' = [Revise(arena) EXCEPT !.mode = "ranked"]
      BY <2>4 DEF Reaped, Elsewhere
    <3> QED
      BY <1>1, <3>1, ArenaChanges
  <2> QED
    BY <2>1, <2>2, <2>3, <2>4 DEF World
<1>3. UNCHANGED <<workbench, refreshes, mutations, acked, lateAnswer>>
  BY DEF World
<1> QED
  BY <1>2, <1>3, ArenaMoves, PageStands DEF PageInv

LEMMA ServedIs ==
  ASSUME NEW key \in MutationKeys, arena \in Arenas
  PROVE  Served(key) \in Arenas /\ arena.rev <= Served(key).rev
<1>1. arena.rev <= arena.rev
  BY DEF Arenas
<1>2. "practice" \in Modes
  BY DEF Modes
<1>3. \/ Served(key) = arena \/ Served(key) = Created(arena) \/ Served(key) = Doomed(arena)
      \/ Served(key) = [Revise(arena) EXCEPT !.renewed = TRUE, !.age = Fresh]
      \/ Served(key) = [Revise(arena) EXCEPT !.mode = "practice", !.decided = FALSE]
      \/ Served(key) = EndDrill(arena) \/ Served(key) = Revise(arena)
  BY DEF Served, MutationKeys
<1>4. /\ [Revise(arena) EXCEPT !.mode = "practice", !.decided = FALSE] \in Arenas
      /\ arena.rev <= [Revise(arena) EXCEPT !.mode = "practice", !.decided = FALSE].rev
  BY <1>2, ArenaChanges
<1>5. /\ \A a \in {Created(arena), Doomed(arena), EndDrill(arena), Revise(arena)} :
           a \in Arenas /\ arena.rev <= a.rev
      /\ [Revise(arena) EXCEPT !.renewed = TRUE, !.age = Fresh] \in Arenas
      /\ arena.rev <= [Revise(arena) EXCEPT !.renewed = TRUE, !.age = Fresh].rev
  BY ArenaChanges
<1> QED
  BY <1>1, <1>3, <1>4, <1>5

LEMMA ServeMutationInv ==
  ASSUME PageInv, NEW m \in Mutations, ServeMutation(m)
  PROVE  PageInv'
<1>1. /\ arena \in Arenas /\ mutations \in [Mutations -> Changes]
      /\ UNCHANGED <<workbench, refreshes, acked, lateAnswer>>
      /\ mutations[m].key \in MutationKeys
      /\ \A k \in Mutations : mutations[k].answer.code = "ok" =>
            mutations[k].answer.view.rev \in Nat /\ mutations[k].answer.view.rev <= arena.rev
  BY DEF PageInv, ArenaOK, MutationsOK, ServeMutation, Changes, Answers, Views
<1>2. /\ arena' \in Arenas /\ arena.rev <= arena'.rev
      /\ \E answer \in Answers :
           /\ answer.code = "ok" => answer.view.rev = arena'.rev
           /\ mutations' = [mutations EXCEPT ![m].st = "back", ![m].answer = answer]
  <2>1. CASE UNCHANGED arena /\ mutations' = [mutations EXCEPT ![m].st = "back",
               ![m].answer = IF Exists \/ mutations[m].key = "provision" THEN Failed ELSE Gone]
    <3>1. PICK answer \in {Failed, Gone} :
            mutations' = [mutations EXCEPT ![m].st = "back", ![m].answer = answer]
      BY <2>1
    <3>2. arena.rev <= arena.rev
      BY <1>1 DEF Arenas
    <3> QED
      BY <1>1, <2>1, <3>1, <3>2, ValuesAre
  <2>2. CASE arena' = Served(mutations[m].key) /\
             \E answer \in {Answer("ok", ViewOf(arena')), Failed} :
               mutations' = [mutations EXCEPT ![m].st = "back", ![m].answer = answer]
    <3>1. arena' \in Arenas /\ arena.rev <= arena'.rev
      BY <1>1, <2>2, ServedIs
    <3>2. PICK answer \in {Answer("ok", ViewOf(arena')), Failed} :
            mutations' = [mutations EXCEPT ![m].st = "back", ![m].answer = answer]
      BY <2>2
    <3>3. ViewOf(arena') \in Views /\ ViewOf(arena').rev = arena'.rev
      BY <3>1, ViewIs
    <3>4. answer \in Answers /\ (answer.code = "ok" => answer.view.rev = arena'.rev)
      BY <3>2, <3>3, AnswerIs, ValuesAre
    <3> QED
      BY <3>1, <3>2, <3>4
  <2> QED
    BY <2>1, <2>2 DEF ServeMutation
<1>3. PICK answer \in Answers :
        /\ answer.code = "ok" => answer.view.rev = arena'.rev
        /\ mutations' = [mutations EXCEPT ![m].st = "back", ![m].answer = answer]
  BY <1>2
<1>4. arena.rev \in Nat /\ arena'.rev \in Nat
  BY <1>1, <1>2 DEF Arenas
<1>5. /\ mutations' \in [Mutations -> Changes] /\ mutations'[m].answer = answer
      /\ \A k \in Mutations \ {m} : mutations'[k] = mutations[k]
  BY <1>1, <1>3 DEF Changes
<1>6. MutationsOK'
  BY <1>1, <1>2, <1>3, <1>4, <1>5 DEF MutationsOK
<1> QED
  BY <1>1, <1>2, <1>6, ArenaMoves, PageStands DEF PageInv

LEMMA ServeRefreshInv ==
  ASSUME PageInv, NEW r \in Refreshes, ServeRefresh(r)
  PROVE  PageInv'
<1>1. /\ arena \in Arenas /\ refreshes \in [Refreshes -> Reads] /\ acked <= arena.rev
      /\ UNCHANGED <<arena, workbench, mutations, acked, lateAnswer>>
      /\ refreshes[r].st = "sent"
  BY DEF PageInv, ArenaOK, RefreshesOK, ServeRefresh
<1>2. PICK answer \in {Answer("ok", ViewOf(arena)), Gone, Failed} :
        refreshes' = [refreshes EXCEPT ![r].st = "back", ![r].answer = answer]
  BY DEF ServeRefresh
<1>3. answer \in Answers /\ (answer.code = "ok" => answer.view.rev = arena.rev)
  BY <1>1, <1>2, AnswerIs, ViewIs, ValuesAre
<1>4. /\ refreshes' \in [Refreshes -> Reads] /\ refreshes'[r].answer = answer
      /\ refreshes'[r].st = "back" /\ refreshes'[r].kind = refreshes[r].kind
      /\ \A k \in Refreshes \ {r} : refreshes'[k] = refreshes[k]
  BY <1>1, <1>2, <1>3 DEF Reads
<1>5. RefreshesOK'
  BY <1>1, <1>3, <1>4 DEF PageInv, RefreshesOK
<1>6. AttachOut => AttachOut'
  BY <1>1, <1>4 DEF AttachOut
<1>7. BenchOK' /\ ArenaOK' /\ MutationsOK'
  BY <1>1, <1>6 DEF PageInv, BenchOK, OnlyLateAnswersLinger, HasRun, ArenaOK, MutationsOK
<1> QED
  BY <1>5, <1>7 DEF PageInv

-----------------------------------------------------------------------------
(* The page.                                                               *)

\* A step of the page that leaves the cluster and what it was told of alone.
LEMMA BenchStep ==
  ASSUME PageInv, UNCHANGED <<arena, mutations, acked, lateAnswer>>, RefreshesOK',
         workbench' \in Benches,
         workbench'.attached => workbench'.polling \/ AttachOut',
         workbench'.run # NoRun /\ ~workbench'.attached => lateAnswer
  PROVE  PageInv'
BY DEF PageInv, ArenaOK, MutationsOK, BenchOK, OnlyLateAnswersLinger, HasRun

\* The reads in flight stand.
LEMMA RefreshesStand ==
  ASSUME PageInv, UNCHANGED <<refreshes, acked>>
  PROVE  RefreshesOK' /\ (AttachOut' <=> AttachOut)
BY DEF PageInv, RefreshesOK, AttachOut

\* What the page holds of its cluster.
LEMMA BenchIs ==
  ASSUME PageInv
  PROVE  /\ workbench \in Benches /\ (workbench.attached => workbench.polling \/ AttachOut)
         /\ (workbench.run # NoRun /\ ~workbench.attached => lateAnswer)
BY DEF PageInv, BenchOK, OnlyLateAnswersLinger, HasRun

\* Steps that change neither the run, nor whether the page is attached or polled.
LEMMA QuietStep ==
  ASSUME PageInv, UNCHANGED <<arena, refreshes, mutations, acked, lateAnswer>>,
         workbench' \in Benches, workbench'.run = workbench.run,
         workbench'.attached = workbench.attached, workbench'.polling = workbench.polling
  PROVE  PageInv'
BY BenchIs, RefreshesStand, BenchStep

LEMMA QuietInv ==
  ASSUME PageInv, ServeStatus \/ BootDone \/ ArmTeardown \/ DisarmTeardown \/ DeclineRenewal
  PROVE  PageInv'
<1>1. UNCHANGED <<arena, refreshes, mutations, acked, lateAnswer>> /\ workbench \in Benches
  BY BenchIs DEF ServeStatus, BootDone, ArmTeardown, DisarmTeardown, DeclineRenewal
<1>2. \/ \E boot \in {"mine", "none", "offline", "done"} :
           workbench' = [workbench EXCEPT !.boot = boot]
      \/ \E armed \in BOOLEAN : workbench' = [workbench EXCEPT !.armed = armed]
      \/ workbench' = [workbench EXCEPT !.declined = workbench.run.gen]
  BY DEF ServeStatus, BootDone, ArmTeardown, DisarmTeardown, DeclineRenewal
<1>3. workbench.run.gen \in Nat
  BY <1>1 DEF Benches, Views
<1>4. /\ workbench' \in Benches /\ workbench'.run = workbench.run
      /\ workbench'.attached = workbench.attached /\ workbench'.polling = workbench.polling
  BY <1>1, <1>2, <1>3 DEF Benches
<1> QED
  BY <1>1, <1>4, QuietStep

\* A read that is sent shows nothing yet; one that has landed is forgotten.
LEMMA SlotStep ==
  ASSUME PageInv, acked' = acked, NEW r \in Refreshes, NEW read \in Reads, read.answer.code = "none",
         refreshes' = [refreshes EXCEPT ![r] = read]
  PROVE  /\ RefreshesOK' /\ refreshes'[r] = read
         /\ \A k \in Refreshes \ {r} : refreshes'[k] = refreshes[k]
BY DEF PageInv, RefreshesOK

LEMMA BootAttachInv ==
  ASSUME PageInv, NEW r \in Refreshes, BootAttach(r)
  PROVE  PageInv'
<1>1. /\ UNCHANGED <<arena, mutations, acked, lateAnswer>> /\ workbench \in Benches
      /\ workbench' = [workbench EXCEPT !.boot = "attaching", !.attached = TRUE]
      /\ refreshes' = [refreshes EXCEPT ![r] = Sent("attach")]
  BY BenchIs DEF BootAttach
<1>2. RefreshesOK' /\ refreshes'[r] = Sent("attach")
  BY <1>1, ValuesAre, SlotStep DEF Sent
<1>3. AttachOut'
  BY <1>2 DEF AttachOut, Sent
<1>4. workbench' \in Benches /\ workbench'.attached
  BY <1>1 DEF Benches
<1> QED
  BY <1>1, <1>2, <1>3, <1>4, BenchStep

LEMMA PollTickInv ==
  ASSUME PageInv, NEW r \in Refreshes, PollTick(r)
  PROVE  PageInv'
<1>1. /\ UNCHANGED <<arena, workbench, mutations, acked, lateAnswer>>
      /\ refreshes' = [refreshes EXCEPT ![r] = Sent("poll")] /\ workbench.polling
  BY DEF PollTick
<1>2. RefreshesOK'
  BY <1>1, ValuesAre, SlotStep DEF Sent
<1> QED
  BY <1>1, <1>2, BenchIs, BenchStep

\* The answer of a poll: it shows a run only to a page that is attached.
LEMMA PollLandsInv ==
  ASSUME PageInv, NEW r \in Refreshes, PollLands(r)
  PROVE  PageInv'
<1> DEFINE answer == refreshes[r].answer
<1>1. /\ UNCHANGED <<arena, mutations, acked, lateAnswer>> /\ workbench \in Benches
      /\ refreshes' = [refreshes EXCEPT ![r] = IdleRefresh]
      /\ refreshes[r].kind = "poll"
  BY BenchIs DEF PollLands
<1>2. /\ RefreshesOK' /\ \A k \in Refreshes \ {r} : refreshes'[k] = refreshes[k]
  BY <1>1, ValuesAre, SlotStep DEF IdleRefresh
<1>3. AttachOut => AttachOut'
  BY <1>1, <1>2 DEF AttachOut
<1>4. refreshes[r].fresh \in BOOLEAN /\ answer \in Answers /\ answer.view \in Views
  BY DEF PageInv, RefreshesOK, Reads, Answers
<1>5. CASE answer.code = "ok"
  <2>1. PICK q : q = Refreshed(workbench, answer.view, refreshes[r].fresh)
    OBVIOUS
  <2>2. /\ q \in Benches /\ (q.attached => workbench.attached /\ q.polling = workbench.polling)
        /\ (~q.attached => q = workbench \/ q.run = NoRun)
    BY <1>1, <1>4, <2>1, RefreshedIs
  <2>3. workbench' = [q EXCEPT !.failures = 0, !.stale = FALSE]
    BY <1>5, <2>1 DEF PollLands
  <2>4. 0 \in 0..StaleAfter
    BY BoundsAssumption
  <2>5. /\ workbench' \in Benches /\ workbench'.attached = q.attached
        /\ workbench'.polling = q.polling /\ workbench'.run = q.run
    BY <2>2, <2>3, <2>4 DEF Benches
  <2> QED
    BY <1>1, <1>2, <1>3, <2>2, <2>5, BenchIs, BenchStep
<1>6. CASE answer.code = "gone"
  <2>1. PICK q : q = Release(workbench)
    OBVIOUS
  <2>2. q \in Benches /\ ~q.attached /\ q.run = NoRun
    BY <1>1, <2>1, ReleaseIs
  <2>3. workbench' = [q EXCEPT !.expired = TRUE]
    BY <1>6, <2>1 DEF PollLands
  <2>4. workbench' \in Benches /\ ~workbench'.attached /\ workbench'.run = NoRun
    BY <2>2, <2>3 DEF Benches
  <2> QED
    BY <1>1, <1>2, <2>4, BenchStep
<1>7. CASE answer.code \notin {"ok", "gone"}
  <2>1. workbench' = [workbench EXCEPT !.failures = IF @ < StaleAfter THEN @ + 1 ELSE @,
                                       !.stale = workbench.failures + 1 >= StaleAfter]
    BY <1>7 DEF PollLands
  <2>2. PICK n : n = IF workbench.failures < StaleAfter THEN workbench.failures + 1
                                                         ELSE workbench.failures
    OBVIOUS
  <2>3. PICK stale \in BOOLEAN : stale <=> workbench.failures + 1 >= StaleAfter
    <3>1. CASE workbench.failures + 1 >= StaleAfter
      <4>1. TRUE <=> workbench.failures + 1 >= StaleAfter
        BY <3>1
      <4> WITNESS TRUE \in BOOLEAN
      <4> QED
        BY <4>1
    <3>2. CASE ~(workbench.failures + 1 >= StaleAfter)
      <4>1. FALSE <=> workbench.failures + 1 >= StaleAfter
        BY <3>2
      <4> WITNESS FALSE \in BOOLEAN
      <4> QED
        BY <4>1
    <3> QED
      BY <3>1, <3>2
  <2>4. n \in 0..StaleAfter
    BY <1>1, <2>2, BoundsAssumption DEF Benches
  <2>5. workbench' = [workbench EXCEPT !.failures = n, !.stale = stale]
    <3>1. stale = (workbench.failures + 1 >= StaleAfter)
      BY <2>3
    <3> QED
      BY <2>1, <2>2, <3>1, Zenon
  <2>6. /\ workbench' \in Benches /\ workbench'.attached = workbench.attached
        /\ workbench'.polling = workbench.polling /\ workbench'.run = workbench.run
    BY <1>1, <2>4, <2>5 DEF Benches
  <2> QED
    BY <1>1, <1>2, <1>3, <2>6, BenchIs, BenchStep
<1> QED
  BY <1>5, <1>6, <1>7

\* The first read of a cluster the page resumes: it is polled from here on, unless the
\* page let go.
LEMMA AttachLandsInv ==
  ASSUME PageInv, NEW r \in Refreshes, AttachLands(r)
  PROVE  PageInv'
<1> DEFINE answer == refreshes[r].answer
<1>1. /\ UNCHANGED <<arena, mutations, acked, lateAnswer>> /\ workbench \in Benches
      /\ refreshes' = [refreshes EXCEPT ![r] = IdleRefresh]
  BY BenchIs DEF AttachLands
<1>2. RefreshesOK'
  BY <1>1, ValuesAre, SlotStep DEF IdleRefresh
<1>3. refreshes[r].fresh \in BOOLEAN /\ answer.view \in Views
  BY DEF PageInv, RefreshesOK, Reads, Answers
<1>4. PICK q : q = IF answer.code = "ok"
                   THEN Refreshed(workbench, answer.view, refreshes[r].fresh) ELSE workbench
  OBVIOUS
<1>5. /\ q \in Benches /\ (~q.attached => q = workbench \/ q.run = NoRun)
  BY <1>1, <1>3, <1>4, RefreshedIs
<1>6. PICK polled : polled = IF q.attached THEN StartPolling(q) ELSE q
  OBVIOUS
<1>7. /\ polled \in Benches /\ (polled.attached => polled.polling)
      /\ (~polled.attached => polled = workbench \/ polled.run = NoRun)
  BY <1>5, <1>6, StartPollingIs
<1>8. workbench' = [polled EXCEPT !.boot = IF @ = "attaching" THEN "done" ELSE @]
  BY <1>4, <1>6 DEF AttachLands
<1>9. /\ workbench' \in Benches /\ workbench'.attached = polled.attached
      /\ workbench'.polling = polled.polling /\ workbench'.run = polled.run
  BY <1>7, <1>8 DEF Benches
<1> QED
  BY <1>1, <1>2, <1>7, <1>9, BenchIs, BenchStep

-----------------------------------------------------------------------------
(* Changes.                                                                *)

\* A change that starts or ends takes from every read in flight the right to set the run.
LEMMA BumpedStep ==
  ASSUME PageInv, refreshes' = SeqBumped
  PROVE  RefreshesOK' /\ (AttachOut => AttachOut')
<1>1. refreshes \in [Refreshes -> Reads]
  BY DEF PageInv, RefreshesOK
<1>2. ASSUME NEW r \in Refreshes
      PROVE  /\ refreshes'[r] \in Reads /\ ~refreshes'[r].fresh
             /\ refreshes'[r].st = refreshes[r].st /\ refreshes'[r].kind = refreshes[r].kind
  BY <1>1 DEF SeqBumped, Reads
<1>3. refreshes' \in [Refreshes -> Reads]
  BY <1>2 DEF SeqBumped
<1>4. RefreshesOK'
  BY <1>2, <1>3 DEF RefreshesOK
<1>5. AttachOut => AttachOut'
  BY <1>2 DEF AttachOut
<1> QED
  BY <1>4, <1>5

\* A slot for a change holds no answer before it is served, nor after it has landed.
LEMMA ChangeStep ==
  ASSUME PageInv, arena' = arena, NEW m \in Mutations, NEW put \in Changes,
         put.answer.code = "none", mutations' = [mutations EXCEPT ![m] = put]
  PROVE  MutationsOK'
BY DEF PageInv, MutationsOK

LEMMA SentIs ==
  \A key \in MutationKeys :
    /\ [st |-> "sent", key |-> key, answer |-> NoAnswer] \in Changes
    /\ [st |-> "sent", key |-> key, answer |-> NoAnswer].answer.code = "none"
BY ValuesAre DEF Changes

\* A step of the page that leaves the cluster alone and keeps its own story straight.
LEMMA ActStep ==
  ASSUME PageInv, UNCHANGED arena, RefreshesOK', MutationsOK',
         acked' \in Nat, acked' <= arena.rev, lateAnswer' \in BOOLEAN,
         workbench' \in Benches,
         workbench'.attached => workbench'.polling \/ AttachOut',
         workbench'.run # NoRun /\ ~workbench'.attached => lateAnswer'
  PROVE  PageInv'
BY DEF PageInv, ArenaOK, BenchOK, OnlyLateAnswersLinger, HasRun

LEMMA ArenaIs ==
  ASSUME PageInv
  PROVE  /\ arena \in Arenas /\ arena.rev \in Nat /\ acked \in Nat /\ acked <= arena.rev
         /\ lateAnswer \in BOOLEAN
BY AgesAre DEF PageInv, ArenaOK

LEMMA ActInv ==
  ASSUME PageInv, NEW m \in Mutations, NEW key \in MutationKeys, NEW optimistic \in BOOLEAN,
         Act(m, key, optimistic)
  PROVE  PageInv'
<1>1. /\ UNCHANGED <<arena, acked, lateAnswer>> /\ refreshes' = SeqBumped
      /\ mutations' = [mutations EXCEPT ![m] =
                         [st |-> "sent", key |-> key, answer |-> NoAnswer]]
      /\ workbench' = [workbench EXCEPT !.busy = TRUE,
                              !.hoped = @ \/ (optimistic /\ HasRun(workbench))]
  BY DEF Act
<1>2. PICK hoped \in BOOLEAN : hoped = (workbench.hoped \/ (optimistic /\ HasRun(workbench)))
  OBVIOUS
<1>3. workbench' = [workbench EXCEPT !.busy = TRUE, !.hoped = hoped]
  BY <1>1, <1>2
<1>4. /\ workbench' \in Benches /\ workbench'.run = workbench.run
      /\ workbench'.attached = workbench.attached /\ workbench'.polling = workbench.polling
  BY <1>3, BenchIs DEF Benches
<1>5. MutationsOK'
  BY <1>1, SentIs, ChangeStep
<1> QED
  BY <1>1, <1>4, <1>5, ArenaIs, BenchIs, BumpedStep, ActStep

LEMMA AcceptRenewalInv ==
  ASSUME PageInv, NEW m \in Mutations, AcceptRenewal(m)
  PROVE  PageInv'
<1>1. /\ UNCHANGED <<arena, acked, lateAnswer>> /\ refreshes' = SeqBumped
      /\ mutations' = [mutations EXCEPT ![m] =
                         [st |-> "sent", key |-> "renew", answer |-> NoAnswer]]
      /\ workbench' = [workbench EXCEPT !.declined = workbench.run.gen, !.busy = TRUE]
  BY DEF AcceptRenewal
<1>2. workbench.run.gen \in Nat
  BY BenchIs DEF Benches, Views
<1>3. /\ workbench' \in Benches /\ workbench'.run = workbench.run
      /\ workbench'.attached = workbench.attached /\ workbench'.polling = workbench.polling
  BY <1>1, <1>2, BenchIs DEF Benches
<1>4. MutationsOK'
  BY <1>1, SentIs, ChangeStep DEF MutationKeys
<1> QED
  BY <1>1, <1>3, <1>4, ArenaIs, BenchIs, BumpedStep, ActStep

LEMMA ActLandsInv ==
  ASSUME PageInv, NEW m \in Mutations, ActLands(m)
  PROVE  PageInv'
<1> DEFINE answer == mutations[m].answer
<1>1. /\ UNCHANGED arena /\ refreshes' = SeqBumped
      /\ mutations' = [mutations EXCEPT ![m] = IdleMutation] /\ workbench \in Benches
  BY BenchIs DEF ActLands
<1>2. MutationsOK'
  BY <1>1, ValuesAre, ChangeStep DEF IdleMutation
<1>3. CASE answer.code = "ok"
  <2>1. /\ workbench' = [Show(workbench, answer.view) EXCEPT !.busy = FALSE]
        /\ acked' = IF answer.view.rev > acked THEN answer.view.rev ELSE acked
        /\ lateAnswer' = (lateAnswer \/ ~workbench.attached)
    BY <1>3 DEF ActLands
  <2>2. answer.view \in Views /\ answer.view.rev \in Nat /\ answer.view.rev <= arena.rev
    BY <1>3 DEF PageInv, MutationsOK, Changes, Answers, Views
  <2>3. PICK q : q = Show(workbench, answer.view)
    OBVIOUS
  <2>4. q \in Benches /\ q.attached = workbench.attached /\ q.polling = workbench.polling
    BY <1>1, <2>2, <2>3, ShowIs
  <2>5. workbench' = [q EXCEPT !.busy = FALSE]
    BY <2>1, <2>3
  <2>6. /\ workbench' \in Benches /\ workbench'.attached = workbench.attached
        /\ workbench'.polling = workbench.polling
    BY <2>4, <2>5 DEF Benches
  <2>7. acked' \in Nat /\ acked' <= arena.rev
    BY <2>1, <2>2, ArenaIs
  <2>8. lateAnswer' \in BOOLEAN /\ (~workbench.attached => lateAnswer')
    BY <2>1
  <2> QED
    BY <1>1, <1>2, <2>6, <2>7, <2>8, BenchIs, BumpedStep, ActStep
<1>4. CASE answer.code # "ok"
  <2>1. workbench' = [workbench EXCEPT !.busy = FALSE] /\ UNCHANGED <<acked, lateAnswer>>
    BY <1>4 DEF ActLands
  <2>2. /\ workbench' \in Benches /\ workbench'.run = workbench.run
        /\ workbench'.attached = workbench.attached /\ workbench'.polling = workbench.polling
    BY <1>1, <2>1 DEF Benches
  <2> QED
    BY <1>1, <1>2, <2>1, <2>2, ArenaIs, BenchIs, BumpedStep, ActStep
<1> QED
  BY <1>3, <1>4

LEMMA ProvisionInv ==
  ASSUME PageInv, NEW m \in Mutations, Provision(m)
  PROVE  PageInv'
<1>1. /\ UNCHANGED <<arena, refreshes, acked, lateAnswer>> /\ workbench \in Benches
      /\ workbench' = [workbench EXCEPT !.busy = TRUE]
      /\ mutations' = [mutations EXCEPT ![m] =
                         [st |-> "sent", key |-> "provision", answer |-> NoAnswer]]
  BY BenchIs DEF Provision
<1>2. /\ workbench' \in Benches /\ workbench'.run = workbench.run
      /\ workbench'.attached = workbench.attached /\ workbench'.polling = workbench.polling
  BY <1>1 DEF Benches
<1>3. MutationsOK'
  BY <1>1, SentIs, ChangeStep DEF MutationKeys
<1> QED
  BY <1>1, <1>2, <1>3, ArenaIs, BenchIs, RefreshesStand, ActStep

LEMMA ProvisionLandsInv ==
  ASSUME PageInv, NEW m \in Mutations, ProvisionLands(m)
  PROVE  PageInv'
<1> DEFINE answer == mutations[m].answer
<1>1. /\ UNCHANGED <<arena, refreshes, acked, lateAnswer>> /\ workbench \in Benches
      /\ mutations' = [mutations EXCEPT ![m] = IdleMutation]
  BY BenchIs DEF ProvisionLands
<1>2. MutationsOK'
  BY <1>1, ValuesAre, ChangeStep DEF IdleMutation
<1>3. CASE answer.code = "ok"
  <2>1. workbench' = [StartPolling(Show(workbench, answer.view)) EXCEPT !.busy = FALSE,
                                                                        !.expired = FALSE]
    BY <1>3 DEF ProvisionLands
  <2>2. answer.view \in Views
    BY DEF PageInv, MutationsOK, Changes, Answers
  <2>3. PICK q : q = StartPolling(Show(workbench, answer.view))
    OBVIOUS
  <2>4. q \in Benches /\ q.attached /\ q.polling
    BY <1>1, <2>2, <2>3, ShowIs, StartPollingIs
  <2>5. workbench' = [q EXCEPT !.busy = FALSE, !.expired = FALSE]
    BY <2>1, <2>3
  <2>6. workbench' \in Benches /\ workbench'.attached /\ workbench'.polling
    BY <2>4, <2>5 DEF Benches
  <2> QED
    BY <1>1, <1>2, <2>6, ArenaIs, RefreshesStand, ActStep
<1>4. CASE answer.code # "ok"
  <2>1. workbench' = [workbench EXCEPT !.busy = FALSE]
    BY <1>4 DEF ProvisionLands
  <2>2. /\ workbench' \in Benches /\ workbench'.run = workbench.run
        /\ workbench'.attached = workbench.attached /\ workbench'.polling = workbench.polling
    BY <1>1, <2>1 DEF Benches
  <2> QED
    BY <1>1, <1>2, <2>2, ArenaIs, BenchIs, RefreshesStand, ActStep
<1> QED
  BY <1>3, <1>4

LEMMA TeardownInv ==
  ASSUME PageInv, NEW m \in Mutations, Teardown(m)
  PROVE  PageInv'
<1>1. /\ UNCHANGED <<arena, refreshes, acked, lateAnswer>>
      /\ workbench' = [Release(workbench) EXCEPT !.busy = TRUE]
      /\ mutations' = [mutations EXCEPT ![m] =
                         [st |-> "sent", key |-> "teardown", answer |-> NoAnswer]]
  BY DEF Teardown
<1>2. PICK q : q = Release(workbench)
  OBVIOUS
<1>3. q \in Benches /\ ~q.attached /\ q.run = NoRun
  BY <1>2, BenchIs, ReleaseIs
<1>4. workbench' = [q EXCEPT !.busy = TRUE]
  BY <1>1, <1>2
<1>5. workbench' \in Benches /\ ~workbench'.attached /\ workbench'.run = NoRun
  BY <1>3, <1>4 DEF Benches
<1>6. MutationsOK'
  BY <1>1, SentIs, ChangeStep DEF MutationKeys
<1> QED
  BY <1>1, <1>5, <1>6, ArenaIs, RefreshesStand, ActStep

LEMMA TeardownLandsInv ==
  ASSUME PageInv, NEW m \in Mutations, TeardownLands(m)
  PROVE  PageInv'
<1>1. /\ UNCHANGED <<arena, refreshes, acked, lateAnswer>> /\ workbench \in Benches
      /\ mutations' = [mutations EXCEPT ![m] = IdleMutation]
      /\ workbench' = [workbench EXCEPT !.busy = FALSE]
  BY BenchIs DEF TeardownLands
<1>2. MutationsOK'
  BY <1>1, ValuesAre, ChangeStep DEF IdleMutation
<1>3. /\ workbench' \in Benches /\ workbench'.run = workbench.run
      /\ workbench'.attached = workbench.attached /\ workbench'.polling = workbench.polling
  BY <1>1 DEF Benches
<1> QED
  BY <1>1, <1>2, <1>3, ArenaIs, BenchIs, RefreshesStand, ActStep

-----------------------------------------------------------------------------
(* The inductive invariant, and what follows.                              *)

LEMMA InitPageInv == PracticeInit => PageInv
<1> SUFFICES ASSUME PracticeInit PROVE PageInv
  OBVIOUS
<1>1. PICK life \in {"absent", "live"}, gen \in {0, 1} :
        arena = [life |-> life, gen |-> gen, rev |-> 0, mode |-> "none", decided |-> FALSE,
                 age |-> Fresh, renewed |-> FALSE]
  <2>1. PICK life \in {"absent", "live"} :
          arena = [life |-> life, gen |-> IF life = "live" THEN 1 ELSE 0, rev |-> 0,
                   mode |-> "none", decided |-> FALSE, age |-> Fresh, renewed |-> FALSE]
    BY DEF PracticeInit
  <2>2. CASE life = "live"
    BY <2>1, <2>2
  <2>3. CASE life # "live"
    BY <2>1, <2>3
  <2> QED
    BY <2>2, <2>3
<1>2. ArenaOK
  <2>1. arena \in Arenas /\ arena.rev = 0
    BY <1>1, AgesAre DEF Arenas
  <2>2. acked = 0 /\ lateAnswer = FALSE
    BY DEF PracticeInit
  <2>3. acked \in Nat /\ acked <= arena.rev
    BY <2>1, <2>2
  <2> QED
    BY <2>1, <2>2, <2>3 DEF ArenaOK
<1>3. BenchOK
  <2>1. workbench = [boot |-> "asked", run |-> NoRun, hoped |-> FALSE, attached |-> FALSE,
             polling |-> FALSE, failures |-> 0, stale |-> FALSE, expired |-> FALSE,
             busy |-> FALSE, declined |-> 0, armed |-> FALSE]
    BY DEF PracticeInit
  <2>2. 0 \in 0..StaleAfter /\ NoRun \in Views
    BY BoundsAssumption, ValuesAre
  <2>3. workbench \in Benches /\ ~workbench.attached /\ workbench.run = NoRun
    BY <2>1, <2>2 DEF Benches
  <2> QED
    BY <2>3 DEF BenchOK, OnlyLateAnswersLinger, HasRun
<1>4. RefreshesOK /\ MutationsOK
  BY ValuesAre DEF PracticeInit, RefreshesOK, MutationsOK, IdleRefresh, IdleMutation
<1> QED
  BY <1>2, <1>3, <1>4 DEF PageInv

LEMMA NextPageInv == PageInv /\ [PracticeNext]_clusterVars => PageInv'
<1> SUFFICES ASSUME PageInv, [PracticeNext]_clusterVars PROVE PageInv'
  OBVIOUS
<1>1. CASE World \/ ServeStatus \/ BootDone \/ ArmTeardown \/ DisarmTeardown \/ DeclineRenewal
  BY <1>1, WorldInv, QuietInv
<1>2. ASSUME NEW r \in Refreshes, \/ ServeRefresh(r) \/ BootAttach(r) \/ PollTick(r)
                                  \/ PollLands(r) \/ AttachLands(r)
      PROVE  PageInv'
  BY <1>2, ServeRefreshInv, BootAttachInv, PollTickInv, PollLandsInv, AttachLandsInv
<1>3. ASSUME NEW m \in Mutations, \/ ServeMutation(m) \/ ActLands(m) \/ ProvisionLands(m)
                                  \/ TeardownLands(m) \/ ClickTeardown(m) \/ AcceptRenewal(m)
                                  \/ ClickProvision(m)
      PROVE  PageInv'
  BY <1>3, ServeMutationInv, ActLandsInv, ProvisionLandsInv, TeardownLandsInv, TeardownInv,
     AcceptRenewalInv, ProvisionInv DEF ClickTeardown, ClickProvision
<1>4. ASSUME NEW m \in Mutations, CommitSlider(m) \/ ClickControl(m) \/ ClickDrill(m)
      PROVE  PageInv'
  <2>1. \E key \in MutationKeys, optimistic \in BOOLEAN : Act(m, key, optimistic)
    BY <1>4 DEF CommitSlider, ClickControl, ClickDrill, MutationKeys
  <2> QED
    BY <2>1, ActInv
<1>5. CASE UNCHANGED clusterVars
  <2>1. UNCHANGED <<arena, workbench, refreshes, mutations, acked, lateAnswer>>
    BY <1>5 DEF clusterVars
  <2> QED
    BY <2>1, BenchIs, RefreshesStand, BenchStep
<1> QED
  BY <1>1, <1>2, <1>3, <1>4, <1>5 DEF PracticeNext, Hud

LEMMA PageInvariant == PracticeSpec => []PageInv
BY InitPageInv, NextPageInv, PTL DEF PracticeSpec

\* The cluster, the page and the requests between them are well formed (useClusterRun.ts).
THEOREM PracticeTypeCorrect == PracticeSpec => []ClusterTypeOK
<1>1. PageInv => ClusterTypeOK
  BY DEF PageInv, ArenaOK, BenchOK, RefreshesOK, MutationsOK, Arenas, Benches, Reads, Changes,
         ClusterTypeOK
<1> QED
  BY <1>1, PageInvariant, PTL

\* A run on an attached page is polled, or the read that will start the polling is out:
\* no failed, late or dropped first read freezes it (useClusterRun.ts, attach).
THEOREM RunsAreWatched == PracticeSpec => []HeldRunIsWatched
<1>1. PageInv => HeldRunIsWatched
  BY DEF PageInv, BenchOK, AttachOut, HeldRunIsWatched
<1> QED
  BY <1>1, PageInvariant, PTL

\* Only the answer to a change puts a run on a page that has let go of its cluster; no poll
\* and no attach does, in whatever order they land (useClusterRun.ts, refresh).
THEOREM NoPollLingers == PracticeSpec => []OnlyLateAnswersLinger
<1>1. PageInv => OnlyLateAnswersLinger
  BY DEF PageInv, BenchOK
<1> QED
  BY <1>1, PageInvariant, PTL

\* A snapshot never shows the cluster as it was before a change whose answer the page
\* already has: every change bumps mutationSeq as it starts and as it ends.
THEOREM PollsNeverRevert == PracticeSpec => LatePollNeverReverts
<1> DEFINE Lands == refreshes' # refreshes /\ mutations' = mutations
                      /\ workbench'.run # workbench.run /\ HasRun(workbench')
<1>1. ASSUME PageInv, [PracticeNext]_clusterVars, Lands PROVE workbench'.run.rev >= acked
  <2>1. PICK r \in Refreshes : PollLands(r) \/ AttachLands(r)
    <3>1. mutations \in [Mutations -> Changes]
      BY <1>1 DEF PageInv, MutationsOK
    <3>2. ASSUME NEW m \in Mutations, ActLands(m) PROVE FALSE
      BY <1>1, <3>1, <3>2 DEF ActLands, IdleMutation
    <3>3. ASSUME NEW m \in Mutations, NEW key, NEW optimistic, Act(m, key, optimistic)
          PROVE  FALSE
      BY <1>1, <3>1, <3>3 DEF Act
    <3>4. ASSUME NEW m \in Mutations, AcceptRenewal(m) PROVE FALSE
      BY <1>1, <3>1, <3>4 DEF AcceptRenewal
    <3>5. ASSUME NEW r \in Refreshes, BootAttach(r) PROVE FALSE
      <4>1. workbench'.run = workbench.run
        BY <1>1, <3>5, BenchIs DEF BootAttach, Benches
      <4> QED
        BY <1>1, <4>1
    <3> QED
      BY <1>1, <3>2, <3>3, <3>4, <3>5
         DEF PracticeNext, World, ServeStatus, BootDone, Hud, ArmTeardown, DisarmTeardown,
             DeclineRenewal, ClickTeardown, Teardown, ServeRefresh, PollTick, ServeMutation,
             ProvisionLands, TeardownLands, ClickProvision, Provision, CommitSlider,
             ClickControl, ClickDrill, clusterVars
  <2> DEFINE answer == refreshes[r].answer
  <2>2. workbench \in Benches /\ refreshes[r].fresh \in BOOLEAN /\ answer.view \in Views
    BY <1>1, BenchIs DEF PageInv, RefreshesOK, Reads, Answers
  <2>3. PICK q : q = Refreshed(workbench, answer.view, refreshes[r].fresh)
    OBVIOUS
  <2>4. q \in Benches /\ (q = workbench \/ q.run = NoRun \/ (refreshes[r].fresh /\ q.run = answer.view))
    BY <2>2, <2>3, RefreshedIs
  <2>5. workbench'.run = q.run /\ answer.code = "ok"
    <3>1. CASE PollLands(r)
      <4>1. CASE answer.code = "ok"
        BY <2>3, <2>4, <3>1, <4>1 DEF PollLands, Benches
      <4>2. CASE answer.code = "gone"
        <5>1. workbench'.run = NoRun
          BY <2>2, <3>1, <4>2, ReleaseIs DEF PollLands, Benches
        <5> QED
          BY <1>1, <5>1 DEF HasRun
      <4>3. CASE answer.code \notin {"ok", "gone"}
        <5>1. workbench'.run = workbench.run
          BY <2>2, <3>1, <4>3 DEF PollLands, Benches
        <5> QED
          BY <1>1, <5>1
      <4> QED
        BY <4>1, <4>2, <4>3
    <3>2. CASE AttachLands(r)
      <4>1. PICK s : s = IF answer.code = "ok" THEN q ELSE workbench
        OBVIOUS
      <4>2. PICK p : p = IF s.attached THEN StartPolling(s) ELSE s
        OBVIOUS
      <4>3. p \in Benches /\ p.run = s.run
        BY <2>2, <2>4, <4>1, <4>2, StartPollingIs
      <4>4. workbench' = [p EXCEPT !.boot = IF @ = "attaching" THEN "done" ELSE @]
        BY <2>3, <3>2, <4>1, <4>2 DEF AttachLands
      <4>5. workbench'.run = s.run
        BY <4>3, <4>4 DEF Benches
      <4> QED
        BY <1>1, <4>1, <4>5
    <3> QED
      BY <2>1, <3>1, <3>2
  <2>6. refreshes[r].fresh /\ q.run = answer.view
    BY <1>1, <2>4, <2>5 DEF HasRun
  <2>7. acked <= answer.view.rev /\ acked \in Nat /\ answer.view.rev \in Nat
    BY <1>1, <2>2, <2>5, <2>6, ArenaIs DEF PageInv, RefreshesOK, Views
  <2> QED
    BY <2>5, <2>6, <2>7
<1>2. PageInv /\ [PracticeNext]_clusterVars =>
        [ refreshes' # refreshes /\ mutations' = mutations
            /\ workbench'.run # workbench.run /\ HasRun(workbench') =>
              workbench'.run.rev >= acked ]_clusterVars
  BY <1>1
<1> QED
  BY <1>2, PageInvariant, PTL DEF PracticeSpec, LatePollNeverReverts

-----------------------------------------------------------------------------
(***************************************************************************)
(* What the coaching page claims of a drill follows from how its last      *)
(* reading of the drill relates to the drill itself: while both are on     *)
(* they are one attempt, the reading is of the same stage or an earlier    *)
(* one, and every move it shows is still there (DrillFollows).  From that  *)
(* the ledger only ever names moves of the drill on screen, each once; a   *)
(* move still pending is in no line of it for the stage on screen; and     *)
(* what was read or dismissed belongs to the incident, or the attempt, on  *)
(* screen.                                                                 *)
(***************************************************************************)

Entries == [attempt : 1..MaxAttempts, stage : 1..Stages, option : Options]
Books == [acked : 0..Stages, missteps : SUBSET Options, ledger : Seq(Entries),
          pending : Options \cup {NoMove}]
Incidents == (0..MaxAttempts) \X (0..Stages)
Lessons == [briefed : BOOLEAN, inspected : 0..(Signals + Extras), done : BOOLEAN,
            picked : BOOLEAN, read : Nat, named : Incidents, about : Incidents]

\* A drill that is on is some attempt, and its moves belong to stages already reached.
DrillOK(d) ==
    /\ d \in Drills /\ (d.on => d.attempt # 0)
    /\ \A move \in d.chosen : move[1] <= d.stage

\* A later reading of the drill e that d was a reading of.
LaterThan(e, d) ==
    d.on /\ e.on => /\ e.attempt = d.attempt /\ d.stage <= e.stage
                    /\ d.chosen \subseteq e.chosen

DrillFollows == LaterThan(drill, seen)

LedgerOK(ledger, d) ==
    /\ \A i \in DOMAIN ledger :
          ledger[i].attempt = d.attempt /\ <<ledger[i].stage, ledger[i].option>> \in d.chosen
    /\ \A i, j \in DOMAIN ledger : ledger[i] = ledger[j] => i = j

\* Every acknowledged move was applied in a stage of d a wrong move of which was explained.
Dealt(missteps, explained, d) ==
    \A o \in missteps : \E s \in 1..Stages, other \in Wrong :
        /\ {<<s, o>>, <<s, other>>} \subseteq d.chosen
        /\ <<s, other>> \in explained

SeenOK == DrillOK(seen) /\ (~seen.on => seen = NoDrill)

BookOK ==
    /\ book \in Books /\ (~seen.on => book = EmptyBook)
    /\ Dealt(book.missteps, faced, seen) /\ faced \subseteq Moves
    /\ book.pending # NoMove => <<seen.stage, book.pending>> \notin seen.chosen
    /\ LedgerOK(book.ledger, seen)

LessonOK ==
    /\ lesson \in Lessons /\ (~seen.on => lesson = EmptyLesson)
    /\ LessonIsForThisIncident
    /\ lesson.inspected # 0 => lesson.about = Incident

\* The inductive invariant.
CoachingInv ==
    /\ guided \in BOOLEAN /\ mount \in {"open", "leaving", "checking"}
    /\ call \in Options \cup {NoCall, "start", "end"}
    /\ offered \in Signals..(Signals + Extras)
    /\ DrillOK(drill) /\ DrillFollows
    /\ SeenOK /\ BookOK /\ LessonOK

-----------------------------------------------------------------------------
(* What a page without a drill holds.                                      *)

LEMMA NothingYet ==
  /\ DrillOK(NoDrill) /\ ~NoDrill.on /\ NoDrill.attempt = 0 /\ NoDrill.stage = 1
  /\ NoDrill.chosen = {}
  /\ EmptyBook \in Books /\ EmptyBook.missteps = {} /\ EmptyBook.pending = NoMove
  /\ \A d : LedgerOK(EmptyBook.ledger, d)
  /\ EmptyLesson \in Lessons /\ EmptyLesson.inspected = 0
  /\ EmptyLesson.about = NoIncident /\ EmptyLesson.named = NoIncident
<1>1. NoDrill \in Drills
  BY CoachingBounds DEF NoDrill, Drills, Moves
<1>2. DrillOK(NoDrill)
  BY <1>1 DEF DrillOK, NoDrill
<1>3. EmptyBook \in Books
  BY CoachingBounds DEF EmptyBook, Books
<1>4. \A d : LedgerOK(EmptyBook.ledger, d)
  BY DEF EmptyBook, LedgerOK
<1>5. EmptyLesson \in Lessons
  BY CoachingBounds DEF EmptyLesson, Lessons, NoIncident, Incidents
<1> QED
  BY <1>2, <1>3, <1>4, <1>5 DEF NoDrill, EmptyBook, EmptyLesson

\* A move that was applied enters the ledger once, under the stage it was applied in.
LEMMA EntersOnce ==
  ASSUME CoachingInv, NEW d, DrillOK(d), d.on, seen.on, LaterThan(d, seen),
         NEW b, b = Entered(book, d)
  PROVE  /\ b \in Books /\ b.missteps = book.missteps /\ LedgerOK(b.ledger, d)
         /\ b.pending # NoMove => <<d.stage, b.pending>> \notin d.chosen
<1>1. /\ book \in Books /\ LedgerOK(book.ledger, seen) /\ d \in Drills /\ seen \in Drills
      /\ book.ledger \in Seq(Entries) /\ book.pending \in Options \cup {NoMove}
      /\ seen.attempt = d.attempt /\ seen.stage <= d.stage /\ seen.chosen \subseteq d.chosen
      /\ d.attempt # 0 /\ \A move \in seen.chosen : move[1] <= seen.stage
      /\ book.pending # NoMove => <<seen.stage, book.pending>> \notin seen.chosen
  BY DEF CoachingInv, BookOK, SeenOK, DrillOK, Books, LaterThan
<1>2. CASE book.pending # NoMove /\ book.pending \in ChosenHere(d)
  <2> DEFINE entry == [attempt |-> d.attempt, stage |-> d.stage, option |-> book.pending]
  <2>1. /\ b = [book EXCEPT !.pending = NoMove, !.ledger = Append(@, entry)]
        /\ <<d.stage, book.pending>> \in d.chosen /\ book.pending \in Options
    BY <1>2 DEF Entered, ChosenHere
  <2>2. entry \in Entries /\ entry.attempt = d.attempt /\ entry.stage = d.stage
        /\ entry.option = book.pending
    BY <1>1, <2>1, CoachingBounds DEF Entries, Drills
  <2> HIDE DEF entry
  <2>3. /\ b \in Books /\ b.missteps = book.missteps /\ b.pending = NoMove
        /\ b.ledger = Append(book.ledger, entry)
    <3>1. PICK log : log = Append(book.ledger, entry)
      OBVIOUS
    <3>2. log \in Seq(Entries)
      BY <1>1, <2>2, <3>1
    <3>3. b = [book EXCEPT !.pending = NoMove, !.ledger = log]
      BY <2>1, <3>1
    <3> QED
      BY <1>1, <3>1, <3>2, <3>3 DEF Books
  <2>4. \A i \in DOMAIN book.ledger :
          /\ book.ledger[i] \in Entries /\ book.ledger[i].attempt = d.attempt
          /\ <<book.ledger[i].stage, book.ledger[i].option>> \in seen.chosen
    <3>1. \A i \in DOMAIN book.ledger : book.ledger[i] \in Entries
      BY <1>1
    <3>2. \A i \in DOMAIN book.ledger :
            /\ book.ledger[i].attempt = seen.attempt
            /\ <<book.ledger[i].stage, book.ledger[i].option>> \in seen.chosen
      BY <1>1 DEF LedgerOK
    <3> QED
      BY <1>1, <3>1, <3>2
  <2>5. \A i \in DOMAIN book.ledger : book.ledger[i] # entry
    <3> SUFFICES ASSUME NEW i \in DOMAIN book.ledger, book.ledger[i] = entry PROVE FALSE
      OBVIOUS
    <3>1. <<d.stage, book.pending>> \in seen.chosen
      BY <2>2, <2>4
    <3>2. d.stage <= seen.stage
      BY <1>1, <3>1
    <3>3. d.stage = seen.stage
      BY <1>1, <3>2, CoachingBounds DEF Drills
    <3> QED
      BY <1>1, <1>2, <3>1, <3>3
  <2>6. LedgerOK(b.ledger, d)
    <3>1. /\ DOMAIN b.ledger = 1..(Len(book.ledger) + 1) /\ Len(book.ledger) \in Nat
          /\ DOMAIN book.ledger = 1..Len(book.ledger)
          /\ \A i \in DOMAIN book.ledger : b.ledger[i] = book.ledger[i]
          /\ b.ledger[Len(book.ledger) + 1] = entry
      BY <1>1, <2>2, <2>3
    <3>2. \A i \in DOMAIN b.ledger :
            b.ledger[i].attempt = d.attempt
            /\ <<b.ledger[i].stage, b.ledger[i].option>> \in d.chosen
      <4> SUFFICES ASSUME NEW i \in DOMAIN b.ledger
                   PROVE  /\ b.ledger[i].attempt = d.attempt
                          /\ <<b.ledger[i].stage, b.ledger[i].option>> \in d.chosen
        OBVIOUS
      <4>1. CASE i \in DOMAIN book.ledger
        BY <1>1, <2>4, <3>1, <4>1
      <4>2. CASE i \notin DOMAIN book.ledger
        <5>1. b.ledger[i] = entry
          BY <3>1, <4>2
        <5> QED
          BY <2>1, <2>2, <5>1
      <4> QED
        BY <4>1, <4>2
    <3>3. \A i, j \in DOMAIN b.ledger : b.ledger[i] = b.ledger[j] => i = j
      <4> SUFFICES ASSUME NEW i \in DOMAIN b.ledger, NEW j \in DOMAIN b.ledger,
                          b.ledger[i] = b.ledger[j]
                   PROVE  i = j
        OBVIOUS
      <4>1. \A k \in DOMAIN book.ledger : b.ledger[k] = book.ledger[k] /\ b.ledger[k] # entry
        BY <2>5, <3>1
      <4>2. \A k \in DOMAIN b.ledger \ DOMAIN book.ledger :
              k = Len(book.ledger) + 1 /\ b.ledger[k] = entry
        BY <3>1
      <4>3. CASE i \in DOMAIN book.ledger /\ j \in DOMAIN book.ledger
        <5>1. book.ledger[i] = book.ledger[j]
          BY <4>1, <4>3
        <5> QED
          BY <1>1, <4>3, <5>1 DEF LedgerOK
      <4> QED
        BY <4>1, <4>2, <4>3
    <3> QED
      BY <3>2, <3>3 DEF LedgerOK
  <2> QED
    BY <2>3, <2>6
<1>3. CASE ~(book.pending # NoMove /\ book.pending \in ChosenHere(d))
  <2>1. b = book
    BY <1>3 DEF Entered
  <2>2. book.pending # NoMove => <<d.stage, book.pending>> \notin d.chosen
    BY <1>1, <1>3 DEF ChosenHere
  <2>3. LedgerOK(book.ledger, d)
    BY <1>1 DEF LedgerOK
  <2> QED
    BY <1>1, <2>1, <2>2, <2>3
<1> QED
  BY <1>2, <1>3

\* A reading of the cluster keeps what the page holds true of it.
LEMMA TakeInv ==
  ASSUME CoachingInv, NEW d, DrillOK(d), ~d.on => d = NoDrill, LaterThan(d, seen), Take(d)
  PROVE  SeenOK' /\ BookOK' /\ LessonOK' /\ offered' \in Signals..(Signals + Extras)
<1>1. /\ seen' = d /\ offered' \in EvidenceFor(d) /\ book' = Entered(BookOf(d), d)
      /\ lesson' = LessonOf(d) /\ faced' = IF d.attempt = seen.attempt THEN faced ELSE {}
  BY DEF Take
<1>2. d \in Drills /\ seen \in Drills /\ d.on \in BOOLEAN /\ seen.on \in BOOLEAN
  BY DEF CoachingInv, SeenOK, DrillOK, Drills
<1>3. offered' \in Signals..(Signals + Extras)
  BY <1>1, CoachingBounds DEF EvidenceFor
<1>4. SeenOK'
  BY <1>1 DEF SeenOK
<1>5. CASE d.on /\ seen.on
  <2>1. SameDrill(d) /\ d.attempt = seen.attempt
    BY <1>2, <1>5 DEF SameDrill, LaterThan
  <2>2. /\ book' \in Books /\ book'.missteps = book.missteps /\ LedgerOK(book'.ledger, d)
        /\ book'.pending # NoMove => <<d.stage, book'.pending>> \notin d.chosen
    BY <1>1, <1>5, <2>1, EntersOnce DEF BookOf
  <2>3. BookOK'
    <3>1. faced' = faced /\ seen.chosen \subseteq d.chosen
      BY <1>1, <1>5, <2>1 DEF LaterThan
    <3>2. Dealt(book'.missteps, faced', seen')
      BY <1>1, <2>2, <3>1 DEF CoachingInv, BookOK, Dealt
    <3> QED
      BY <1>1, <1>5, <2>2, <3>1, <3>2 DEF CoachingInv, BookOK, LedgerOK
  <2>4. LessonOK'
    <3>1. CASE d.stage = seen.stage
      <4>1. lesson' = lesson /\ Incident' = Incident
        BY <1>1, <2>1, <3>1 DEF LessonOf, SameIncident, Incident
      <4> QED
        BY <1>1, <1>5, <4>1 DEF CoachingInv, LessonOK, LessonIsForThisIncident
    <3>2. CASE d.stage # seen.stage
      <4>1. lesson' = EmptyLesson
        BY <1>1, <3>2 DEF LessonOf, SameIncident
      <4> QED
        BY <4>1, NothingYet DEF LessonOK, LessonIsForThisIncident
    <3> QED
      BY <3>1, <3>2
  <2> QED
    BY <1>3, <1>4, <2>3, <2>4
<1>6. CASE ~(d.on /\ seen.on)
  <2>1. BookOf(d) = EmptyBook /\ LessonOf(d) = EmptyLesson
    <3>1. CASE SameDrill(d)
      <4>1. ~seen.on
        BY <1>2, <1>6, <3>1 DEF SameDrill
      <4> QED
        BY <4>1 DEF CoachingInv, BookOK, LessonOK, BookOf, LessonOf
    <3>2. CASE ~SameDrill(d)
      BY <3>2 DEF BookOf, LessonOf, SameIncident
    <3> QED
      BY <3>1, <3>2
  <2>2. book' = EmptyBook /\ lesson' = EmptyLesson
    BY <1>1, <2>1, NothingYet DEF Entered
  <2>3. faced' \subseteq Moves
    BY <1>1 DEF CoachingInv, BookOK
  <2>4. BookOK'
    BY <2>2, <2>3, NothingYet DEF BookOK, Dealt
  <2>5. LessonOK'
    BY <2>2, NothingYet DEF LessonOK, LessonIsForThisIncident
  <2> QED
    BY <1>3, <1>4, <2>4, <2>5
<1> QED
  BY <1>5, <1>6

\* The page after a reading is related to the drill as before.
LEMMA ReadInv ==
  ASSUME CoachingInv, DrillOK(drill'), LaterThan(drill', seen),
         Take(IF drill'.on THEN drill' ELSE NoDrill),
         guided' = guided, mount' = mount, call' \in Options \cup {NoCall, "start", "end"}
  PROVE  CoachingInv'
<1>1. PICK d : d = IF drill'.on THEN drill' ELSE NoDrill
  OBVIOUS
<1>2. DrillOK(d) /\ (~d.on => d = NoDrill) /\ LaterThan(d, seen) /\ Take(d)
  BY <1>1, NothingYet DEF LaterThan
<1>3. SeenOK' /\ BookOK' /\ LessonOK' /\ offered' \in Signals..(Signals + Extras)
  BY <1>2, TakeInv
<1>4. DrillFollows'
  <2>1. seen' = d
    BY <1>2 DEF Take
  <2>2. drill' \in Drills
    BY DEF DrillOK
  <2> QED
    BY <1>1, <2>1, <2>2, NothingYet DEF DrillFollows, LaterThan, Drills
<1> QED
  BY <1>3, <1>4 DEF CoachingInv, DrillOK

-----------------------------------------------------------------------------
(* The cluster.                                                            *)

\* What the cluster does to the drill: the same attempt goes on, or it is over, or a new
\* one begins that the page has not seen the last of.
DrillMoves == DrillOK(drill') /\ LaterThan(drill', seen)

LEMMA BegunMoves == ASSUME CoachingInv, CanBegin, drill' = Begun PROVE DrillMoves
<1>1. drill \in Drills /\ drill.attempt + 1 \in 1..MaxAttempts
  BY CoachingBounds DEF CoachingInv, DrillOK, Drills, CanBegin
<1>2. /\ drill' = [on |-> TRUE, attempt |-> drill.attempt + 1, stage |-> 1, chosen |-> {},
                   solved |-> FALSE]
  BY DEF Begun, NoDrill
<1>3. drill' \in Drills
  BY <1>1, <1>2, CoachingBounds DEF Drills
<1> QED
  BY <1>1, <1>2, <1>3 DEF DrillMoves, DrillOK, LaterThan, CanBegin

LEMMA OverMoves == ASSUME CoachingInv, drill' = Over PROVE DrillMoves
<1>1. drill' = [on |-> FALSE, attempt |-> drill.attempt, stage |-> 1, chosen |-> {},
                solved |-> FALSE]
  BY DEF Over, NoDrill
<1>2. drill' \in Drills
  BY <1>1, CoachingBounds DEF CoachingInv, DrillOK, Drills
<1> QED
  BY <1>1, <1>2 DEF DrillMoves, DrillOK, LaterThan

LEMMA StandsMoves == ASSUME CoachingInv, drill' = drill PROVE DrillMoves
BY DEF CoachingInv, DrillFollows, DrillMoves, DrillOK, LaterThan

LEMMA ChosenMoves ==
  ASSUME CoachingInv, NEW o \in Options, drill.on,
         drill' = [drill EXCEPT !.chosen = @ \cup {<<drill.stage, o>>}]
  PROVE  DrillMoves
<1>1. drill \in Drills /\ DrillOK(drill) /\ LaterThan(drill, seen) /\ drill.stage \in 1..Stages
  BY DEF CoachingInv, DrillFollows, DrillOK, Drills
<1>2. /\ drill' \in Drills /\ drill'.on = drill.on /\ drill'.attempt = drill.attempt
      /\ drill'.stage = drill.stage /\ drill'.chosen = drill.chosen \cup {<<drill.stage, o>>}
  <2>1. PICK moves : moves = drill.chosen \cup {<<drill.stage, o>>}
    OBVIOUS
  <2>2. moves \in SUBSET Moves
    BY <1>1, <2>1 DEF Drills, Moves
  <2>3. drill' = [drill EXCEPT !.chosen = moves]
    BY <2>1
  <2> QED
    BY <1>1, <2>1, <2>2, <2>3 DEF Drills
<1>3. \A move \in drill'.chosen : move[1] <= drill'.stage
  BY <1>1, <1>2 DEF DrillOK
<1> QED
  BY <1>1, <1>2, <1>3 DEF DrillMoves, DrillOK, LaterThan

LEMMA ResolvedMoves ==
  ASSUME CoachingInv, StageResolved
  PROVE  DrillMoves
<1>1. drill \in Drills /\ DrillOK(drill) /\ LaterThan(drill, seen) /\ drill.stage \in 1..Stages
  BY DEF CoachingInv, DrillFollows, DrillOK, Drills
<1>2. /\ drill' \in Drills /\ drill'.on = drill.on /\ drill'.attempt = drill.attempt
      /\ drill.stage <= drill'.stage /\ drill'.chosen = drill.chosen
  <2>1. CASE drill.stage < Stages
    <3>1. PICK next : next = drill.stage + 1
      OBVIOUS
    <3>2. next \in 1..Stages /\ drill.stage <= next
      BY <1>1, <2>1, <3>1, CoachingBounds
    <3>3. drill' = [drill EXCEPT !.stage = next]
      BY <2>1, <3>1 DEF StageResolved
    <3>4. /\ drill' \in Drills /\ drill'.on = drill.on /\ drill'.attempt = drill.attempt
          /\ drill'.stage = next /\ drill'.chosen = drill.chosen
      BY <1>1, <3>2, <3>3 DEF Drills
    <3> QED
      BY <3>2, <3>4
  <2>2. CASE ~(drill.stage < Stages)
    <3>1. drill' = [drill EXCEPT !.solved = TRUE]
      BY <2>2 DEF StageResolved
    <3>2. /\ drill' \in Drills /\ drill'.on = drill.on /\ drill'.attempt = drill.attempt
          /\ drill'.stage = drill.stage /\ drill'.chosen = drill.chosen
      BY <1>1, <3>1 DEF Drills
    <3> QED
      BY <1>1, <3>2, CoachingBounds
  <2> QED
    BY <2>1, <2>2
<1>3. drill'.stage \in Nat /\ \A move \in drill'.chosen : move[1] <= drill'.stage
  <2>1. drill'.stage \in Nat /\ drill.stage \in Nat
    BY <1>1, <1>2, CoachingBounds DEF Drills
  <2>2. \A move \in drill.chosen : move[1] \in Nat /\ move[1] <= drill.stage
    BY <1>1, CoachingBounds DEF DrillOK, Drills, Moves
  <2> QED
    BY <1>2, <2>1, <2>2
<1>4. seen.stage \in Nat /\ drill.stage \in Nat
  BY <1>1, CoachingBounds DEF CoachingInv, SeenOK, DrillOK, Drills
<1> QED
  BY <1>1, <1>2, <1>3, <1>4 DEF DrillMoves, DrillOK, LaterThan

\* What the page holds stands while only the cluster moves.
LEMMA ClusterInv ==
  ASSUME CoachingInv, DrillMoves, UNCHANGED <<guided, seen, book, lesson, offered, faced>>,
         mount' = mount, call' \in Options \cup {NoCall, "start", "end"}
  PROVE  CoachingInv'
BY DEF CoachingInv, DrillMoves, DrillFollows, LaterThan, DrillOK, SeenOK, BookOK, LedgerOK, Dealt,
       LessonOK, LessonIsForThisIncident, Incident

LEMMA ServesMoves ==
  ASSUME CoachingInv, call # NoCall, Serves(call)
  PROVE  DrillMoves
<1>1. call \in Options \cup {"start", "end"}
  BY DEF CoachingInv
<1>2. CASE call = "start"
  BY <1>2, BegunMoves DEF Serves
<1>3. CASE call = "end"
  <2>1. drill' = IF drill.on THEN Over ELSE drill
    BY <1>3, "end" # "start" DEF Serves
  <2> QED
    BY <2>1, OverMoves, StandsMoves
<1>4. CASE call \notin {"start", "end"}
  <2>1. drill.on /\ drill' = [drill EXCEPT !.chosen = @ \cup {<<drill.stage, call>>}]
    BY <1>4 DEF Serves
  <2>2. PICK o \in Options : o = call
    BY <1>1, <1>4
  <2> QED
    BY <2>1, <2>2, ChosenMoves
<1> QED
  BY <1>1, <1>2, <1>3, <1>4

LEMMA ServeInv == ASSUME CoachingInv, Serve PROVE CoachingInv'
<1>1. call' = NoCall /\ guided' = guided /\ mount' = mount /\ call # NoCall
  BY DEF Serve
<1>2. CASE Serves(call) /\ Take(IF drill'.on THEN drill' ELSE NoDrill)
  BY <1>1, <1>2, ServesMoves, ReadInv DEF DrillMoves
<1>3. CASE Serves(call) /\ UNCHANGED <<seen, book, lesson, offered, faced>>
  BY <1>1, <1>3, ServesMoves, ClusterInv
<1>4. CASE UNCHANGED <<drill, seen, book, lesson, offered, faced>>
  BY <1>1, <1>4, StandsMoves, ClusterInv
<1> QED
  BY <1>2, <1>3, <1>4 DEF Serve

LEMMA SnapshotInv == ASSUME CoachingInv, Snapshot PROVE CoachingInv'
<1>1. drill' = drill /\ guided' = guided /\ mount' = mount /\ call' = call
      /\ Take(IF drill'.on THEN drill' ELSE NoDrill)
  BY DEF Snapshot
<1>2. DrillMoves
  BY <1>1, StandsMoves
<1> QED
  BY <1>1, <1>2, ReadInv DEF DrillMoves, CoachingInv

-----------------------------------------------------------------------------
(* The operator and the learner.                                           *)

\* A page that shows more than a skeleton or the drill browser has a drill.
LEMMA PanelHasDrill ==
  ASSUME Panel \in {"act", "running", "misstep", "briefing", "consequence", "observe",
                    "hypothesise", "debrief", "solved"}
  PROVE  seen.on /\ mount # "checking"
BY DEF Panel, Phase

LEMMA StepOfPage ==
  ASSUME CoachingInv, UNCHANGED <<guided, drill, seen, offered>>,
         mount' \in {"open", "leaving", "checking"},
         call' \in Options \cup {NoCall, "start", "end"}, BookOK', LessonOK'
  PROVE  CoachingInv'
BY DEF CoachingInv, DrillFollows, LaterThan, DrillOK, SeenOK

LEMMA BookStands ==
  ASSUME CoachingInv, UNCHANGED <<seen, book, faced>>
  PROVE  BookOK'
BY DEF CoachingInv, BookOK, LedgerOK, Dealt

LEMMA LessonStands ==
  ASSUME CoachingInv, UNCHANGED <<seen, lesson>>
  PROVE  LessonOK'
BY DEF CoachingInv, LessonOK, LessonIsForThisIncident, Incident

LEMMA ChooseMoveInv ==
  ASSUME CoachingInv, NEW o \in Options, ChooseMove(o)
  PROVE  CoachingInv'
<1>1. /\ UNCHANGED <<guided, drill, mount, seen, lesson, offered, faced>> /\ call' = o
      /\ book' = [book EXCEPT !.pending = o] /\ o \notin ChosenHere(seen) /\ seen.on
  BY PanelHasDrill DEF ChooseMove, Send, OffersMoves
<1>2. book \in Books /\ LedgerOK(book.ledger, seen) /\ Dealt(book.missteps, faced, seen)
      /\ faced \subseteq Moves
  BY DEF CoachingInv, BookOK
<1>3. /\ book' \in Books /\ book'.pending = o /\ book'.missteps = book.missteps
      /\ book'.ledger = book.ledger
  BY <1>1, <1>2 DEF Books
<1>4. <<seen.stage, o>> \notin seen.chosen
  BY <1>1 DEF ChosenHere
<1>5. BookOK'
  BY <1>1, <1>2, <1>3, <1>4 DEF BookOK, LedgerOK, Dealt
<1> QED
  BY <1>1, <1>5, LessonStands, StepOfPage DEF CoachingInv

LEMMA ClickInv == ASSUME CoachingInv, ClickStart \/ ClickEnd PROVE CoachingInv'
<1>1. UNCHANGED <<guided, drill, mount, seen, book, lesson, offered, faced>>
      /\ call' \in {"start", "end"}
  BY DEF ClickStart, ClickEnd, Send, pageVars
<1> QED
  BY <1>1, BookStands, LessonStands, StepOfPage DEF CoachingInv

\* There is something a screen of an assignment can be about.
Tellable == guided => WrongHere(seen) \ book.missteps # {} \/ book.ledger # <<>>

\* Dismissing an explanation acknowledges every wrong move of the stage: those that are
\* new to it were applied in the stage the explained one was.
LEMMA AcknowledgedOK ==
  ASSUME CoachingInv, seen.on, seen' = seen, book' = Acknowledged, faced' = Facing, Tellable
  PROVE  BookOK'
<1> DEFINE new == WrongHere(seen) \ book.missteps
<1>1. /\ book \in Books /\ LedgerOK(book.ledger, seen) /\ Dealt(book.missteps, faced, seen)
      /\ faced \subseteq Moves /\ seen \in Drills
      /\ book.pending # NoMove => <<seen.stage, book.pending>> \notin seen.chosen
  BY DEF CoachingInv, BookOK, SeenOK, DrillOK
<1>2. PICK missteps : missteps = book.missteps \cup WrongHere(seen)
  OBVIOUS
<1>3. missteps \in SUBSET Options
  BY <1>1, <1>2 DEF Books, WrongHere, ChosenHere
<1>4. seen.stage \in 1..Stages /\ seen.stage \in 0..Stages
  BY <1>1, CoachingBounds DEF Drills
<1>5. book' = [book EXCEPT !.acked = seen.stage, !.missteps = missteps]
  BY <1>2 DEF Acknowledged
<1>6. /\ book' \in Books /\ book'.missteps = missteps /\ book'.ledger = book.ledger
      /\ book'.pending = book.pending
  BY <1>1, <1>3, <1>4, <1>5 DEF Books
<1>7. \A o \in WrongHere(seen) : o \in Wrong /\ o \in Options /\ <<seen.stage, o>> \in seen.chosen
  BY DEF WrongHere, ChosenHere
<1>8. CASE new # {}
  <2>1. PICK told : told = CHOOSE o \in new : TRUE
    OBVIOUS
  <2>2. told \in new
    BY <1>8, <2>1
  <2>3. told \in WrongHere(seen)
    BY <2>2
  <2>4. faced' = faced \cup {<<seen.stage, told>>}
    BY <1>8, <2>1 DEF Facing, Explained
  <2>5. Dealt(missteps, faced', seen)
    <3>1. ASSUME NEW o \in missteps
          PROVE  \E s \in 1..Stages, other \in Wrong :
                   {<<s, o>>, <<s, other>>} \subseteq seen.chosen /\ <<s, other>> \in faced'
      <4>1. CASE o \in book.missteps
        <5>1. PICK s \in 1..Stages, other \in Wrong :
                {<<s, o>>, <<s, other>>} \subseteq seen.chosen /\ <<s, other>> \in faced
          BY <1>1, <4>1 DEF Dealt
        <5> QED
          BY <2>4, <5>1
      <4>2. CASE o \in WrongHere(seen)
        <5>1. {<<seen.stage, o>>, <<seen.stage, told>>} \subseteq seen.chosen /\ told \in Wrong
          BY <1>7, <2>3, <4>2
        <5>2. <<seen.stage, told>> \in faced'
          BY <2>4
        <5> QED
          BY <1>4, <5>1, <5>2
      <4> QED
        BY <1>2, <3>1, <4>1, <4>2
    <3> QED
      BY <3>1 DEF Dealt
  <2>6. faced' \subseteq Moves
    BY <1>1, <1>4, <1>7, <2>3, <2>4 DEF Moves
  <2> QED
    BY <1>1, <1>6, <2>5, <2>6 DEF BookOK, LedgerOK, Dealt
<1>9. CASE new = {}
  <2>1. missteps = book.missteps
    BY <1>2, <1>9
  <2>2. faced \subseteq faced' /\ faced' \subseteq Moves
    <3>1. CASE ~guided
      BY <1>1, <1>9, <3>1 DEF Facing, Explained
    <3>2. CASE guided
      <4>1. book.ledger \in Seq(Entries) /\ book.ledger # <<>>
        BY <1>1, <1>9, <3>2 DEF Books, Tellable
      <4>2. book.ledger[Len(book.ledger)] \in Entries
        BY <4>1
      <4>3. PICK newest \in Entries : newest = book.ledger[Len(book.ledger)]
        BY <4>2
      <4>4. faced' = faced \cup {<<newest.stage, newest.option>>}
        BY <1>9, <3>2, <4>3 DEF Facing, Explained
      <4> QED
        BY <1>1, <4>3, <4>4 DEF Entries, Moves
    <3> QED
      BY <3>1, <3>2
  <2>3. Dealt(missteps, faced', seen)
    BY <1>1, <2>1, <2>2 DEF Dealt
  <2> QED
    BY <1>1, <1>6, <2>2, <2>3 DEF BookOK, LedgerOK, Dealt
<1> QED
  BY <1>8, <1>9

LEMMA AcknowledgeInv == ASSUME CoachingInv, Acknowledge PROVE CoachingInv'
<1>1. /\ UNCHANGED <<guided, drill, mount, seen, lesson, offered, call>>
      /\ book' = Acknowledged /\ faced' = Facing /\ seen.on /\ Tellable
  BY PanelHasDrill DEF Acknowledge, Tellable
<1> QED
  BY <1>1, AcknowledgedOK, LessonStands, StepOfPage DEF CoachingInv

LEMMA ReadConsequenceInv == ASSUME CoachingInv, ReadConsequence PROVE CoachingInv'
<1>1. /\ UNCHANGED <<guided, drill, mount, seen, offered, call>>
      /\ lesson' = [lesson EXCEPT !.read = Len(book.ledger)]
      /\ book' = Acknowledged /\ faced' = Facing /\ seen.on
  BY PanelHasDrill DEF ReadConsequence
<1>t. Tellable
  BY DEF ReadConsequence, Panel, Coached, Phase, Unread, Tellable
<1>2. Len(book.ledger) \in Nat
  BY DEF CoachingInv, BookOK, Books
<1>3. LessonOK'
  BY <1>1, <1>2 DEF CoachingInv, LessonOK, Lessons, LessonIsForThisIncident, Incident
<1> QED
  BY <1>1, <1>t, <1>3, AcknowledgedOK, StepOfPage DEF CoachingInv

\* What a learner reads of, or says about, the incident on screen.
LEMMA StudyStep ==
  ASSUME CoachingInv, seen.on, UNCHANGED <<guided, drill, mount, seen, book, offered, call, faced>>,
         lesson' \in Lessons, {lesson'.about, lesson'.named} \subseteq {NoIncident, Incident},
         lesson'.inspected # 0 => lesson'.about = Incident
  PROVE  CoachingInv'
<1>1. LessonOK'
  BY DEF LessonOK, LessonIsForThisIncident, Incident
<1> QED
  BY <1>1, BookStands, StepOfPage DEF CoachingInv

LEMMA StudyInv ==
  ASSUME CoachingInv, \/ ReadBriefing \/ Inspect \/ FinishObserving
                      \/ PickHypothesis \/ ConfirmHypothesis
  PROVE  CoachingInv'
<1>1. /\ UNCHANGED <<guided, drill, mount, seen, book, offered, call, faced>> /\ seen.on
  BY PanelHasDrill
     DEF ReadBriefing, Inspect, FinishObserving, PickHypothesis, ConfirmHypothesis, Study
<1>2. /\ lesson \in Lessons /\ {lesson.about, lesson.named} \subseteq {NoIncident, Incident}
      /\ lesson.inspected # 0 => lesson.about = Incident
      /\ offered \in Signals..(Signals + Extras)
  BY DEF CoachingInv, LessonOK, LessonIsForThisIncident
<1>3. Incident \in Incidents
  BY CoachingBounds DEF CoachingInv, SeenOK, DrillOK, Drills, Incident, Incidents
<1>4. PICK incident : incident = Incident
  OBVIOUS
<1>5. CASE Inspect
  <2>1. /\ lesson' = [lesson EXCEPT !.inspected = @ + 1, !.about = incident]
        /\ lesson.inspected < offered
    BY <1>4, <1>5 DEF Inspect, Study
  <2>2. PICK n : n = lesson.inspected + 1
    OBVIOUS
  <2>3. n \in 0..(Signals + Extras)
    BY <1>2, <2>1, <2>2, CoachingBounds DEF Lessons
  <2>4. lesson' = [lesson EXCEPT !.inspected = n, !.about = incident]
    BY <2>1, <2>2
  <2>5. lesson' \in Lessons /\ lesson'.about = incident /\ lesson'.named = lesson.named
    BY <1>2, <1>3, <1>4, <2>3, <2>4 DEF Lessons
  <2> QED
    BY <1>1, <1>2, <1>4, <2>5, StudyStep
<1>6. CASE ReadBriefing \/ FinishObserving \/ PickHypothesis \/ ConfirmHypothesis
  <2>1. \/ lesson' = [lesson EXCEPT !.briefed = TRUE]
        \/ lesson' = [lesson EXCEPT !.done = TRUE]
        \/ lesson' = [lesson EXCEPT !.picked = TRUE]
        \/ lesson' = [lesson EXCEPT !.named = incident]
    BY <1>4, <1>6 DEF ReadBriefing, FinishObserving, PickHypothesis, ConfirmHypothesis, Study
  <2>2. /\ lesson' \in Lessons /\ lesson'.about = lesson.about
        /\ lesson'.named \in {lesson.named, incident} /\ lesson'.inspected = lesson.inspected
    BY <1>2, <1>3, <1>4, <2>1 DEF Lessons
  <2> QED
    BY <1>1, <1>2, <1>4, <2>2, StudyStep
<1> QED
  BY <1>5, <1>6

\* The assignment page replaces its workbench.
LEMMA MountInv == ASSUME CoachingInv, Resolved \/ Unmount \/ Remount PROVE CoachingInv'
<1>1. CASE Resolved \/ Remount
  <2>1. /\ UNCHANGED <<guided, drill, seen, book, lesson, offered, call, faced>>
        /\ mount' \in {"open", "leaving", "checking"}
    BY <1>1 DEF Resolved, Remount
  <2> QED
    BY <2>1, BookStands, LessonStands, StepOfPage DEF CoachingInv
<1>2. CASE Unmount
  <2>1. /\ mount' = "checking" /\ UNCHANGED <<guided, drill, call, faced>>
        /\ seen' = NoDrill /\ book' = EmptyBook /\ lesson' = EmptyLesson /\ offered' = Signals
    BY <1>2 DEF Unmount
  <2>2. BookOK'
    BY <2>1, NothingYet DEF BookOK, Dealt, CoachingInv
  <2>3. LessonOK'
    BY <2>1, NothingYet DEF LessonOK, LessonIsForThisIncident
  <2>4. SeenOK' /\ DrillFollows' /\ DrillOK(drill)'
    BY <2>1, NothingYet DEF SeenOK, DrillFollows, LaterThan, CoachingInv, DrillOK
  <2>5. offered' \in Signals..(Signals + Extras)
    BY <2>1, CoachingBounds
  <2> QED
    BY <2>1, <2>2, <2>3, <2>4, <2>5 DEF CoachingInv
<1> QED
  BY <1>1, <1>2

-----------------------------------------------------------------------------
(* The inductive invariant, and what follows.                              *)

LEMMA InitCoachingInv == CoachingInit => CoachingInv
<1> SUFFICES ASSUME CoachingInit PROVE CoachingInv
  OBVIOUS
<1>1. SeenOK /\ BookOK /\ LessonOK
  BY NothingYet DEF CoachingInit, SeenOK, BookOK, Dealt, LessonOK, LessonIsForThisIncident
<1>2. DrillOK(drill) /\ DrillFollows
  BY NothingYet DEF CoachingInit, DrillFollows, LaterThan
<1> QED
  BY <1>1, <1>2, CoachingBounds DEF CoachingInit, CoachingInv

LEMMA NextCoachingInv == CoachingInv /\ [CoachingNext]_coachingVars => CoachingInv'
<1> SUFFICES ASSUME CoachingInv, [CoachingNext]_coachingVars PROVE CoachingInv'
  OBVIOUS
<1>1. CASE StageResolved \/ OtherTab
  <2>1. UNCHANGED <<guided, mount, seen, book, lesson, offered, call, faced>>
    BY <1>1 DEF StageResolved, OtherTab, pageVars
  <2>2. DrillMoves
    BY <1>1, ResolvedMoves, BegunMoves, OverMoves DEF OtherTab
  <2> QED
    BY <2>1, <2>2, ClusterInv DEF CoachingInv
<1>2. CASE UNCHANGED coachingVars
  BY <1>2, BookStands, LessonStands, StepOfPage DEF coachingVars, CoachingInv
<1>3. CASE \/ Snapshot \/ Serve \/ ClickStart \/ ClickEnd \/ \E o \in Options : ChooseMove(o)
           \/ Acknowledge \/ ReadConsequence
  BY <1>3, SnapshotInv, ServeInv, ClickInv, ChooseMoveInv, AcknowledgeInv, ReadConsequenceInv
<1>4. CASE \/ ReadBriefing \/ Inspect \/ FinishObserving \/ PickHypothesis \/ ConfirmHypothesis
           \/ Resolved \/ Unmount \/ Remount
  BY <1>4, StudyInv, MountInv
<1> QED
  BY <1>1, <1>2, <1>3, <1>4 DEF CoachingNext

LEMMA CoachingInvariant == CoachingSpec => []CoachingInv
BY InitCoachingInv, NextCoachingInv, PTL DEF CoachingSpec

\* The coaching page's state is well formed: a ledger of real moves, evidence within what
\* is offered, hypotheses about incidents (useDrillState.ts, useCoaching.ts).
THEOREM CoachingTypeCorrect == CoachingSpec => []CoachingTypeOK
<1>1. CoachingInv => CoachingTypeOK
  BY DEF CoachingInv, DrillOK, SeenOK, BookOK, LessonOK, Books, Entries, Lessons, Incidents,
         CoachingTypeOK
<1> QED
  BY <1>1, CoachingInvariant, PTL

\* Evidence read and faults named never count for another incident, whatever polls,
\* answers, other tabs and stages come between (useCoaching.ts, keyed by the stage).
THEOREM LessonsDoNotCarryOver == CoachingSpec => []LessonIsForThisIncident
<1>1. CoachingInv => LessonIsForThisIncident
  BY DEF CoachingInv, LessonOK
<1> QED
  BY <1>1, CoachingInvariant, PTL

\* Every line of a debrief is a move the cluster carries for this attempt and that stage,
\* once, and what it calls unnecessary is a wrong move (coaching.ts, buildDebrief).
THEOREM DebriefsAreTrue == CoachingSpec => []DebriefIsTrue
<1>1. ASSUME CoachingInv PROVE DebriefIsTrue
  <2>1. LedgerOK(book.ledger, seen)
    BY <1>1 DEF CoachingInv, BookOK
  <2>2. /\ Debrief.timeline = book.ledger
        /\ Debrief.unnecessary = {book.ledger[i] : i \in WrongSteps}
    BY DEF Debrief
  <2> QED
    BY <2>1, <2>2 DEF DebriefIsTrue, LedgerOK, WrongSteps
<1> QED
  BY <1>1, CoachingInvariant, PTL

\* No move is offered over a wrong one of this stage that nobody acknowledged: it was, on
\* a screen that explained a wrong move of a stage it was applied in, of this attempt
\* (phase.ts, coaching.ts).
THEOREM MisstepsAreAcknowledged == CoachingSpec => []MisstepsAreFaced
<1>1. ASSUME CoachingInv, OffersMoves, NEW o \in WrongHere(seen)
      PROVE  \E s \in 1..seen.stage, other \in Wrong :
               /\ {<<s, o>>, <<s, other>>} \subseteq seen.chosen
               /\ <<s, other>> \in faced
  <2>1. o \in book.missteps
    BY <1>1 DEF OffersMoves, Panel, Coached, Phase
  <2>2. PICK s \in 1..Stages, other \in Wrong :
          {<<s, o>>, <<s, other>>} \subseteq seen.chosen /\ <<s, other>> \in faced
    BY <1>1, <2>1 DEF CoachingInv, BookOK, Dealt
  <2>3. s <= seen.stage /\ seen.stage \in Nat
    <3>1. \A move \in seen.chosen : move[1] <= seen.stage
      BY <1>1 DEF CoachingInv, SeenOK, DrillOK
    <3>2. <<s, o>>[1] <= seen.stage
      BY <2>2, <3>1
    <3> QED
      BY <1>1, <3>2 DEF CoachingInv, SeenOK, DrillOK, Drills
  <2>4. s \in 1..seen.stage
    BY <2>3, CoachingBounds
  <2> QED
    BY <2>2, <2>4
<1>2. CoachingInv => MisstepsAreFaced
  BY <1>1 DEF MisstepsAreFaced
<1> QED
  BY <1>2, CoachingInvariant, PTL

\* A course assignment sends no move before two thirds of the evidence were read of this
\* incident and its fault was named, and none over an unread consequence (coaching.ts).
THEOREM MovesFollowEvidence == CoachingSpec => MovesAreEarned
<1>1. ASSUME CoachingInv, [CoachingNext]_coachingVars, call = NoCall, call' \in Options, guided
      PROVE  lesson.named = Incident /\ lesson.about = Incident /\ Satisfied /\ ~Unread
  <2>1. PICK o \in Options : ChooseMove(o)
    BY <1>1, OptionsAreMoves
       DEF CoachingNext, Snapshot, StageResolved, OtherTab, Serve, ClickStart, ClickEnd, Send,
           Acknowledge, ReadConsequence, ReadBriefing, Inspect, FinishObserving,
           PickHypothesis, ConfirmHypothesis, Study, Resolved, Unmount, Remount,
           coachingVars, NoCall
  <2>2. Coached = "act"
    BY <1>1, <2>1 DEF ChooseMove, OffersMoves, Panel, Coached
  <2>3. Satisfied /\ ~Unread /\ lesson.named # NoIncident
    BY <2>2 DEF Coached
  <2>4. lesson.inspected # 0
    BY <1>1, <2>3, CoachingBounds DEF Satisfied, CoachingInv, LessonOK, Lessons
  <2> QED
    BY <1>1, <2>3, <2>4 DEF CoachingInv, LessonOK, LessonIsForThisIncident
<1>2. CoachingInv /\ [CoachingNext]_coachingVars =>
        [ call = NoCall /\ call' \in Options /\ guided =>
            /\ lesson.named = Incident /\ lesson.about = Incident
            /\ Satisfied /\ ~Unread ]_coachingVars
  BY <1>1
<1> QED
  BY <1>2, CoachingInvariant, PTL DEF CoachingSpec, MovesAreEarned

-----------------------------------------------------------------------------
(***************************************************************************)
(* A surface shows one page at a time.  Its steps are steps of that page   *)
(* and leave the others alone, so it implements each of them, and keeps    *)
(* what each keeps for itself.                                             *)
(***************************************************************************)

LEMMA SandboxIsAPage == LearnerSpec => PracticeSpec
<1>1. LearnerInit => PracticeInit
  BY DEF LearnerInit
<1>2. [LearnerNext]_learnerVars => [PracticeNext]_clusterVars
  BY DEF LearnerNext, SandboxSteps, GraphSteps, AssignmentSteps, AcademySteps, learnerVars
<1> QED
  BY <1>1, <1>2, PTL DEF LearnerSpec, PracticeSpec

LEMMA GraphIsAPage == LearnerSpec => CanvasSpec
<1>1. LearnerInit => CanvasInit
  BY DEF LearnerInit
<1>2. [LearnerNext]_learnerVars => [CanvasNext]_canvasVars
  BY DEF LearnerNext, SandboxSteps, GraphSteps, AssignmentSteps, AcademySteps, learnerVars
<1> QED
  BY <1>1, <1>2, PTL DEF LearnerSpec, CanvasSpec

LEMMA AssignmentIsAPage == LearnerSpec => CoachingSpec
<1>1. LearnerInit => CoachingInit
  BY DEF LearnerInit
<1>2. [LearnerNext]_learnerVars => [CoachingNext]_coachingVars
  BY DEF LearnerNext, SandboxSteps, GraphSteps, AssignmentSteps, AcademySteps, learnerVars
<1> QED
  BY <1>1, <1>2, PTL DEF LearnerSpec, CoachingSpec

LEMMA AcademyIsAPage == LearnerSpec => AcademySpec
<1>1. LearnerInit => AcademyInit
  BY DEF LearnerInit
<1>2. [LearnerNext]_learnerVars => [AcademyNext]_academyVars
  BY DEF LearnerNext, SandboxSteps, GraphSteps, AssignmentSteps, AcademySteps, learnerVars
<1> QED
  BY <1>1, <1>2, PTL DEF LearnerSpec, AcademySpec

\* Whatever surface a learner opens, the claims of every page hold of it: the cluster it
\* holds is watched, its drill's debrief is true and its lessons belong to the incident on
\* screen, missteps are acknowledged, and the course shown is the one on record.  What
\* holds of the live graph holds by GraphIsAPage.
THEOREM LearnersAreServed ==
  LearnerSpec => [](/\ HeldRunIsWatched
                    /\ LessonIsForThisIncident /\ DebriefIsTrue /\ MisstepsAreFaced
                    /\ ShownIsKept)
<1>1. LearnerSpec => []HeldRunIsWatched
  BY SandboxIsAPage, RunsAreWatched
<1>2. LearnerSpec => []LessonIsForThisIncident /\ []DebriefIsTrue /\ []MisstepsAreFaced
  BY AssignmentIsAPage, LessonsDoNotCarryOver, DebriefsAreTrue, MisstepsAreAcknowledged
<1>3. LearnerSpec => []ShownIsKept
  BY AcademyIsAPage, ShownWorkIsKept
<1> QED
  BY <1>1, <1>2, <1>3, PTL

\* And none of its steps, on whichever page, shows a cluster as it was before a change
\* already answered, sends a move that was not earned, or takes a row, completion, clean
\* solve or certificate from the account.
THEOREM LearnersLoseNothing ==
  LearnerSpec => LatePollNeverReverts /\ MovesAreEarned /\ AccountRemembers
BY SandboxIsAPage, PollsNeverRevert, AssignmentIsAPage, MovesFollowEvidence,
   AcademyIsAPage, NothingIsForgotten
=============================================================================

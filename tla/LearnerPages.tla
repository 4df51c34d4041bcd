---------------------------- MODULE LearnerPages ----------------------------
(***************************************************************************)
(* The pages of a learner on the homelab, one at a time: the sandbox of    *)
(* the practice surface with its cluster, the live graph of that cluster,  *)
(* a course assignment's drill, and the Academy's pages around it.  Each   *)
(* is checked for itself, and the composition shares no state.             *)
(***************************************************************************)
EXTENDS PracticePage, ClusterCanvas, DrillCoaching, Academy

VARIABLE surface

learnerVars == <<surface, clusterVars, canvasVars, coachingVars, academyVars>>

LearnerInit ==
  /\ surface \in {"sandbox", "graph", "assignment", "academy"}
  /\ PracticeInit /\ CanvasInit /\ CoachingInit /\ AcademyInit
  /\ surface # "sandbox" => arena.life = "absent"
  /\ surface # "assignment" => guided
  /\ surface # "academy" => signedIn

SandboxSteps ==
  /\ surface = "sandbox" /\ PracticeNext
  /\ UNCHANGED <<surface, canvasVars, coachingVars, academyVars>>
GraphSteps ==
  /\ surface = "graph" /\ CanvasNext
  /\ UNCHANGED <<surface, clusterVars, coachingVars, academyVars>>
AssignmentSteps ==
  /\ surface = "assignment" /\ CoachingNext
  /\ UNCHANGED <<surface, clusterVars, canvasVars, academyVars>>
AcademySteps ==
  /\ surface = "academy" /\ AcademyNext
  /\ UNCHANGED <<surface, clusterVars, canvasVars, coachingVars>>

LearnerNext == SandboxSteps \/ GraphSteps \/ AssignmentSteps \/ AcademySteps

LearnerSpec == LearnerInit /\ [][LearnerNext]_learnerVars
=============================================================================

----------------------------- MODULE MCLearner ------------------------------
(* The pages of a learner of the course of MCAcademy, with the graph of        *)
(* MCCanvas.                                                                   *)
EXTENDS LearnerPages, MCAcademy, MCCanvas
=============================================================================

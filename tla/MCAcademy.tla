----------------------------- MODULE MCAcademy ------------------------------
(* A course of one segment, which nothing has to come before.                *)
EXTENDS Academy

CONSTANT s1

Alone == [s \in {s1} |-> {}]
=============================================================================

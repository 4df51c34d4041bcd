--------------------------- MODULE MatchRegister ---------------------------
(***************************************************************************)
(* What the ranked ladder promises of one operator's matches, whoever      *)
(* launches, judges, cancels or tears them down: one match is under way at *)
(* a time, a drawn incident is played once, a verdict is given once and    *)
(* stands, and a rating moves only for a match that was started.           *)
(*                                                                         *)
(* It does not promise that a decided match is never started: a cancelled  *)
(* launch may still commit its clock, and the arena then holds a match     *)
(* whose verdict is given.                                                 *)
(***************************************************************************)
CONSTANT Matches  \* the incidents that can be drawn, one match each

VARIABLES
    outcome,  \* the outcome of each match, "none" until it is opened
    started   \* the matches whose clock was committed

Rated == {"completed", "failed", "forfeited", "expired"}
Verdicts == Rated \cup {"void"}

Init ==
    /\ outcome = [m \in Matches |-> "none"]
    /\ started = {}

\* BeginAsync records the attempt.
Open(m) ==
    /\ outcome[m] = "none"
    /\ \A n \in Matches : outcome[n] # "active"
    /\ outcome' = [outcome EXCEPT ![m] = "active"]
    /\ UNCHANGED started

\* The write that turns the arena into the match.
Start(m) ==
    /\ outcome[m] # "none"
    /\ started' = started \cup {m}
    /\ UNCHANGED outcome

\* FinalizeAsync changes an outcome.
Decide(m, verdict) ==
    /\ outcome[m] = "active"
    /\ verdict \in Rated => m \in started
    /\ outcome' = [outcome EXCEPT ![m] = verdict]
    /\ UNCHANGED started

Next ==
    \E m \in Matches :
        \/ Open(m) \/ Start(m)
        \/ \E verdict \in Verdicts : Decide(m, verdict)

Spec == Init /\ [][Next]_<<outcome, started>>
=============================================================================

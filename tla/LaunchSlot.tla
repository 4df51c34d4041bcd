----------------------------- MODULE LaunchSlot -----------------------------
(***************************************************************************)
(* What the launch gate promises the orchestrator of one API process: of   *)
(* the requests of one operator, at most one is inside LaunchAsync or      *)
(* AbandonAsync.  RankedLaunch rests on it when it lets every replica      *)
(* serve one launch request at a time.                                     *)
(***************************************************************************)
CONSTANTS
    Requests,  \* the requests to launch or to abandon a launch
    OwnerOf    \* the operator each request is for

VARIABLE inside  \* the requests between EnterAsync and Dispose

Init == inside = {}

\* EnterAsync returns.
Take(r) ==
    /\ \A s \in inside : OwnerOf[s] # OwnerOf[r]
    /\ inside' = inside \cup {r}

\* The request returns and disposes of its gate.
Leave(r) ==
    /\ r \in inside
    /\ inside' = inside \ {r}

Next == \E r \in Requests : Take(r) \/ Leave(r)

Spec == Init /\ [][Next]_inside
=============================================================================

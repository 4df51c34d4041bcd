--------------------------- MODULE MCLiveGateway ---------------------------
(* A small gateway: one account, a route of every kind of handler, and      *)
(* budgets of two requests a window.                                        *)
EXTENDS LiveGateway

MCLimits == [kind \in {"action", "read", "cancel", "stream"} |->
                [max |-> IF kind = "read" THEN 2 ELSE 1, window |-> 2]]
MCOffered == {RankedCommand, ReadTimes, CancelLaunch, FollowStream}
MCSent == <<"unreadable", "launch", "end", "tick">>
============================================================================

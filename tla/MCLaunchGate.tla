---------------------------- MODULE MCLaunchGate ----------------------------
EXTENDS LaunchGate

CONSTANTS a1, a2, a3, b1, b2, alice, bob

\* Three requests of one operator, two of another.
MCRequests == {a1, a2, a3, b1, b2}
MCOwnerOf == [r \in MCRequests |-> IF r \in {a1, a2, a3} THEN alice ELSE bob]
=============================================================================

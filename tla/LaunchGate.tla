----------------------------- MODULE LaunchGate -----------------------------
(***************************************************************************)
(* LaunchGate: one semaphore per operator, kept in a process-wide          *)
(* dictionary, created by the first request that needs it and removed when *)
(* nobody holds or awaits it.                                              *)
(*                                                                         *)
(* A gate is an object: a request keeps the one it entered even when the   *)
(* dictionary no longer maps its operator to it.  An object nobody refers  *)
(* to may be reused for a new gate, so as many gates as requests are       *)
(* enough.  The dictionary and the holder counts change under one lock;    *)
(* the semaphore is taken and returned outside it.                         *)
(***************************************************************************)
EXTENDS Integers, FiniteSets

CONSTANTS
    Requests,  \* the requests of one API process, each made again and again
    Owners,    \* the operators
    OwnerOf,   \* the operator each request is for
    Gates      \* the gate objects

None == "none"

ASSUME RequestsAssumption == IsFiniteSet(Requests)

ASSUME OwnerAssumption == OwnerOf \in [Requests -> Owners]

ASSUME GatesAssumption == None \notin Gates

VARIABLES
    entry,    \* Gates: the dictionary from operators to gates
    holders,  \* _holders of each gate
    permits,  \* the count of the SemaphoreSlim of each gate
    pc,       \* where each request is
    gate      \* the gate each request has entered

vars == <<entry, holders, permits, pc, gate>>

TypeOK ==
    /\ entry \in [Owners -> Gates \cup {None}]
    /\ holders \in [Gates -> Nat]
    /\ permits \in [Gates -> {0, 1}]
    /\ pc \in [Requests -> {"outside", "waiting", "inside", "leaving"}]
    /\ gate \in [Requests -> Gates \cup {None}]

Init ==
    /\ entry = [o \in Owners |-> None]
    /\ holders = [g \in Gates |-> 0]
    /\ permits = [g \in Gates |-> 1]
    /\ pc = [r \in Requests |-> "outside"]
    /\ gate = [r \in Requests |-> None]

-----------------------------------------------------------------------------
(* EnterAsync.                                                             *)

Fresh(g) ==
    /\ \A o \in Owners : entry[o] # g
    /\ \A r \in Requests : gate[r] # g

JoinGate(r) ==
    /\ entry[OwnerOf[r]] # None
    /\ gate' = [gate EXCEPT ![r] = entry[OwnerOf[r]]]
    /\ holders' = [holders EXCEPT ![entry[OwnerOf[r]]] = @ + 1]
    /\ UNCHANGED <<entry, permits>>

AddGate(r) ==
    /\ entry[OwnerOf[r]] = None
    /\ \E g \in Gates :
         /\ Fresh(g)
         /\ entry' = [entry EXCEPT ![OwnerOf[r]] = g]
         /\ gate' = [gate EXCEPT ![r] = g]
         /\ holders' = [holders EXCEPT ![g] = 1]
         /\ permits' = [permits EXCEPT ![g] = 1]

\* The lookup and the count are one step under the lock.
Enter(r) ==
    /\ pc[r] = "outside"
    /\ pc' = [pc EXCEPT ![r] = "waiting"]
    /\ JoinGate(r) \/ AddGate(r)

Acquire(r) ==
    /\ pc[r] = "waiting"
    /\ permits[gate[r]] > 0
    /\ permits' = [permits EXCEPT ![gate[r]] = @ - 1]
    /\ pc' = [pc EXCEPT ![r] = "inside"]
    /\ UNCHANGED <<entry, holders, gate>>

\* Mutant: the entry is removed while others still hold or await the gate.
RollBackAlways(r) ==
    /\ holders' = [holders EXCEPT ![gate[r]] = @ - 1]
    /\ entry' = [entry EXCEPT ![OwnerOf[r]] = None]
    /\ gate' = [gate EXCEPT ![r] = None]
    /\ pc' = [pc EXCEPT ![r] = "outside"]
    /\ UNCHANGED permits

\* The last one out removes the operator's entry, by its key.
RollBack(r) ==
    /\ holders' = [holders EXCEPT ![gate[r]] = @ - 1]
    /\ entry' = IF holders'[gate[r]] <= 0
                THEN [entry EXCEPT ![OwnerOf[r]] = None]
                ELSE entry
    /\ gate' = [gate EXCEPT ![r] = None]
    /\ pc' = [pc EXCEPT ![r] = "outside"]
    /\ UNCHANGED permits

\* Mutant: a cancelled wait leaves its count behind.
CancelUncounted(r) ==
    /\ pc[r] = "waiting"
    /\ gate' = [gate EXCEPT ![r] = None]
    /\ pc' = [pc EXCEPT ![r] = "outside"]
    /\ UNCHANGED <<entry, holders, permits>>

\* The request is cancelled while it waits.
Cancel(r) ==
    /\ pc[r] = "waiting"
    /\ RollBack(r)

-----------------------------------------------------------------------------
(* Dispose.                                                                *)

\* Mutant: the semaphore is not returned.
ReleaseNothing(r) ==
    /\ pc[r] = "inside"
    /\ pc' = [pc EXCEPT ![r] = "leaving"]
    /\ UNCHANGED <<entry, holders, permits, gate>>

\* The semaphore is returned before the lock is taken: the next request may
\* be inside while this one still counts as a holder.
Release(r) ==
    /\ pc[r] = "inside"
    /\ permits' = [permits EXCEPT ![gate[r]] = @ + 1]
    /\ pc' = [pc EXCEPT ![r] = "leaving"]
    /\ UNCHANGED <<entry, holders, gate>>

Evict(r) ==
    /\ pc[r] = "leaving"
    /\ RollBack(r)

Next ==
    \E r \in Requests : Enter(r) \/ Acquire(r) \/ Cancel(r) \/ Release(r) \/ Evict(r)

Spec == Init /\ [][Next]_vars

\* A request inside ends (its work is bounded and its caller can cancel it),
\* and SemaphoreSlim serves asynchronous waiters in their order.
Fairness ==
    \A r \in Requests : SF_vars(Acquire(r)) /\ WF_vars(Release(r)) /\ WF_vars(Evict(r))

FairSpec == Spec /\ Fairness

-----------------------------------------------------------------------------
(* Properties.                                                             *)

\* The gate gives an operator's requests the process one at a time, whatever
\* is cancelled, evicted and created anew meanwhile (RankedLaunchOrchestrator
\* .cs:175-180: "Serializing per owner closes that window inside a process").
Slot == INSTANCE LaunchSlot WITH inside <- {r \in Requests : pc[r] = "inside"}

ImplementsSlot == Slot!Spec

\* A gate stays in the dictionary only while a request of its operator refers
\* to it: "a long-lived replica does not accumulate a lock per operator it has
\* ever served" (RankedLaunchOrchestrator.cs:748-749).
NoIdleEntry ==
    \A o \in Owners : entry[o] # None =>
        \E r \in Requests : OwnerOf[r] = o /\ gate[r] = entry[o]

\* A request that waits for the gate gets it or is cancelled.
WaitersEnter == \A r \in Requests : pc[r] = "waiting" ~> pc[r] # "waiting"
=============================================================================

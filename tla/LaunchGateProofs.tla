-------------------------- MODULE LaunchGateProofs --------------------------
EXTENDS LaunchGate, FiniteSetTheorems, TLAPS
(***************************************************************************)
(* Mutual exclusion is not inductive: it rests on the requests of one      *)
(* operator sharing a gate, that on the dictionary keeping the gate while  *)
(* it is used, and that on the holder count being exact.  GateInv says the *)
(* three together.                                                         *)
(***************************************************************************)

Users(g) == {r \in Requests : gate[r] = g}
Inside(g) == {r \in Users(g) : pc[r] = "inside"}

\* A request has a gate from EnterAsync to the roll back of its count.
GatesHeld == \A r \in Requests : pc[r] = "outside" <=> gate[r] = None

\* The gate a request refers to is the one its operator's entry leads to.
GatesFound == \A r \in Requests : gate[r] # None => entry[OwnerOf[r]] = gate[r]

\* Two operators do not share a gate.
GatesApart == \A o, p \in Owners : entry[o] = entry[p] /\ entry[o] # None => o = p

\* The count is exact and not zero.
HoldersCounted ==
    \A o \in Owners : entry[o] # None =>
        /\ Users(entry[o]) # {}
        /\ holders[entry[o]] = Cardinality(Users(entry[o]))

\* The permit of a gate in use is taken by the one request inside.
PermitsTaken ==
    \A o \in Owners : entry[o] # None =>
        /\ permits[entry[o]] = 1 <=> Inside(entry[o]) = {}
        /\ \A r, s \in Inside(entry[o]) : r = s

GateInv ==
    /\ TypeOK
    /\ GatesHeld
    /\ GatesFound
    /\ GatesApart
    /\ HoldersCounted
    /\ PermitsTaken

-----------------------------------------------------------------------------
\* The requests that refer to a gate are finitely many.
LEMMA UsersFinite ==
  ASSUME NEW g
  PROVE  IsFiniteSet(Users(g)) /\ Cardinality(Users(g)) \in Nat
  BY RequestsAssumption, FS_Subset, FS_CardinalityType DEF Users

\* Initially no operator has a gate.
LEMMA InitGateInv == Init => GateInv
  BY OwnerAssumption DEF Init, GateInv, TypeOK, GatesHeld, GatesFound, GatesApart,
     HoldersCounted, PermitsTaken

\* Joining the operator's gate adds one user to it.
LEMMA JoinGateInv ==
  ASSUME GateInv, NEW r \in Requests, pc[r] = "outside",
         pc' = [pc EXCEPT ![r] = "waiting"], JoinGate(r)
  PROVE  GateInv'
<1> DEFINE o == OwnerOf[r]
<1> USE DEF GateInv
<1>0. PICK g \in Gates : g = entry[o]
  BY OwnerAssumption DEF JoinGate, TypeOK
<1>1. o \in Owners /\ entry[o] = g /\ gate[r] = None
  BY <1>0, OwnerAssumption DEF GatesHeld, TypeOK
<1>2. /\ gate' = [gate EXCEPT ![r] = g]
      /\ holders' = [holders EXCEPT ![g] = @ + 1]
      /\ UNCHANGED <<entry, permits>>
  BY <1>1 DEF JoinGate
<1> HIDE DEF o
<1>3. Users(g)' = Users(g) \cup {r} /\ r \notin Users(g)
  BY <1>1, <1>2, GatesAssumption DEF Users, TypeOK
<1>4. \A h \in Gates : h # g => Users(h)' = Users(h)
  BY <1>1, <1>2, GatesAssumption DEF Users, TypeOK
<1>5. \A h \in Gates : Inside(h)' = Inside(h)
  BY <1>1, <1>2, <1>3, <1>4 DEF Inside, Users, TypeOK
<1>6. Cardinality(Users(g)') = Cardinality(Users(g)) + 1
  BY <1>3, UsersFinite, FS_AddElement
<1>7. TypeOK'
  BY <1>1, <1>2 DEF TypeOK
<1>8. GatesHeld' /\ GatesFound' /\ GatesApart'
  BY <1>1, <1>2, GatesAssumption DEF TypeOK, GatesHeld, GatesFound, GatesApart, o
<1>9. HoldersCounted'
  <2> SUFFICES ASSUME NEW p \in Owners, entry'[p] # None
               PROVE  /\ Users(entry[p])' # {}
                      /\ holders'[entry'[p]] = Cardinality(Users(entry[p])')
    BY DEF HoldersCounted
  <2>1. CASE entry[p] = g
    <3>1. holders[g] = Cardinality(Users(g)) /\ holders'[g] = holders[g] + 1
      BY <1>1, <1>2, <2>1 DEF TypeOK, HoldersCounted
    <3> QED
      BY <1>2, <1>3, <1>6, <2>1, <3>1 DEF Users
  <2>2. CASE entry[p] # g
    <3>1. entry[p] \in Gates /\ holders'[entry[p]] = holders[entry[p]]
      BY <1>2, <2>2 DEF TypeOK
    <3>2. Users(entry[p])' = Users(entry[p])
      BY <1>2, <1>4, <2>2, <3>1 DEF Users
    <3> QED
      BY <1>2, <3>1, <3>2 DEF HoldersCounted
  <2> QED
    BY <2>1, <2>2
<1>10. PermitsTaken'
  BY <1>2, <1>5 DEF TypeOK, PermitsTaken, Inside, Users
<1> QED
  BY <1>7, <1>8, <1>9, <1>10

\* A new gate has one user, nobody inside and its permit.
LEMMA AddGateInv ==
  ASSUME GateInv, NEW r \in Requests, pc[r] = "outside",
         pc' = [pc EXCEPT ![r] = "waiting"], AddGate(r)
  PROVE  GateInv'
<1> DEFINE o == OwnerOf[r]
<1> USE DEF GateInv
<1>1. o \in Owners /\ entry[o] = None /\ gate[r] = None
  BY OwnerAssumption DEF AddGate, GatesHeld, TypeOK
<1>2. PICK g \in Gates :
        /\ Fresh(g)
        /\ entry' = [entry EXCEPT ![o] = g]
        /\ gate' = [gate EXCEPT ![r] = g]
        /\ holders' = [holders EXCEPT ![g] = 1]
        /\ permits' = [permits EXCEPT ![g] = 1]
  BY DEF AddGate
<1> HIDE DEF o
<1>3. Users(g)' = {r} /\ Inside(g)' = {}
  BY <1>1, <1>2 DEF Fresh, Users, Inside, TypeOK
<1>4. \A h \in Gates : h # g => Users(h)' = Users(h) /\ Inside(h)' = Inside(h)
  BY <1>1, <1>2, GatesAssumption DEF Users, Inside, TypeOK
<1>5. Cardinality(Users(g)') = 1
  BY <1>3, FS_Singleton
<1>6. \A p \in Owners : p # o => entry'[p] = entry[p] /\ entry[p] # g
  BY <1>2 DEF Fresh, TypeOK
<1>7. entry'[o] = g /\ holders'[g] = 1 /\ permits'[g] = 1
  BY <1>1, <1>2 DEF TypeOK
<1>8. TypeOK'
  BY <1>1, <1>2 DEF TypeOK
<1>9. GatesHeld' /\ GatesFound' /\ GatesApart'
  <2>1. GatesHeld'
    BY <1>1, <1>2, GatesAssumption DEF TypeOK, GatesHeld
  <2>2. GatesFound'
    BY <1>1, <1>2, <1>6, OwnerAssumption, GatesAssumption DEF TypeOK, GatesFound, o
  <2>3. GatesApart'
    BY <1>1, <1>6, <1>7 DEF GatesApart
  <2> QED
    BY <2>1, <2>2, <2>3
<1>10. HoldersCounted'
  <2> SUFFICES ASSUME NEW p \in Owners, entry'[p] # None
               PROVE  /\ Users(entry[p])' # {}
                      /\ holders'[entry'[p]] = Cardinality(Users(entry[p])')
    BY DEF HoldersCounted
  <2>1. CASE p = o
    BY <2>1, <1>3, <1>5, <1>7 DEF Users
  <2>2. CASE p # o
    <3>1. entry'[p] = entry[p] /\ entry[p] # g /\ entry[p] \in Gates
      BY <2>2, <1>2, <1>6 DEF TypeOK
    <3>2. holders'[entry[p]] = holders[entry[p]]
      BY <1>2, <3>1 DEF TypeOK
    <3>3. Users(entry[p])' = Users(entry[p])
      BY <1>4, <3>1 DEF Users
    <3> QED
      BY <3>1, <3>2, <3>3 DEF HoldersCounted
  <2> QED
    BY <2>1, <2>2
<1>11. PermitsTaken'
  <2> SUFFICES ASSUME NEW p \in Owners, entry'[p] # None
               PROVE  /\ permits'[entry'[p]] = 1 <=> Inside(entry[p])' = {}
                      /\ \A s, t \in Inside(entry[p])' : s = t
    BY DEF PermitsTaken
  <2>1. CASE p = o
    BY <2>1, <1>3, <1>7 DEF Inside, Users
  <2>2. CASE p # o
    BY <2>2, <1>2, <1>4, <1>6 DEF TypeOK, PermitsTaken, Inside, Users
  <2> QED
    BY <2>1, <2>2
<1> QED
  BY <1>8, <1>9, <1>10, <1>11

\* Taking the permit puts the first request inside.
LEMMA AcquireInv ==
  ASSUME GateInv, NEW r \in Requests, Acquire(r)
  PROVE  GateInv'
<1> USE DEF GateInv
<1>0. PICK g \in Gates : g = gate[r]
  BY GatesAssumption DEF Acquire, GatesHeld, TypeOK
<1>1. gate[r] = g /\ OwnerOf[r] \in Owners /\ entry[OwnerOf[r]] = g
  BY <1>0, OwnerAssumption, GatesAssumption DEF GatesFound
<1>2. /\ pc[r] = "waiting"
      /\ permits[g] = 1
      /\ permits' = [permits EXCEPT ![g] = 0]
      /\ pc' = [pc EXCEPT ![r] = "inside"]
      /\ UNCHANGED <<entry, holders, gate>>
  <2>1. permits[g] \in {0, 1} /\ permits[g] > 0
    BY <1>1 DEF Acquire, TypeOK
  <2>2. permits[g] = 1 /\ permits[g] - 1 = 0
    BY <2>1
  <2>3. permits' = [permits EXCEPT ![g] = permits[g] - 1]
    BY <1>1 DEF Acquire
  <2>4. permits' = [permits EXCEPT ![g] = 0]
    BY <2>2, <2>3, Zenon
  <2> QED
    BY <2>2, <2>4, <1>1 DEF Acquire
<1>3. \A h \in Gates : Users(h)' = Users(h)
  BY <1>2 DEF Users
<1>4. Inside(g)' = {r}
  <2>1. Inside(g) = {}
    BY <1>1, <1>2, GatesAssumption DEF PermitsTaken
  <2> QED
    BY <2>1, <1>1, <1>2 DEF Inside, Users, TypeOK
<1>5. \A h \in Gates : h # g => Inside(h)' = Inside(h)
  BY <1>1, <1>2 DEF Inside, Users, TypeOK
<1>6. TypeOK'
  BY <1>1, <1>2 DEF TypeOK
<1>7. GatesHeld' /\ GatesFound' /\ GatesApart'
  BY <1>2 DEF TypeOK, GatesHeld, GatesFound, GatesApart
<1>8. HoldersCounted'
  BY <1>2, <1>3 DEF TypeOK, HoldersCounted, Users
<1>9. PermitsTaken'
  BY <1>1, <1>2, <1>4, <1>5 DEF TypeOK, PermitsTaken, Inside, Users
<1> QED
  BY <1>6, <1>7, <1>8, <1>9

\* Giving the permit back leaves nobody inside.
LEMMA ReleaseInv ==
  ASSUME GateInv, NEW r \in Requests, Release(r)
  PROVE  GateInv'
<1> USE DEF GateInv
<1>0. PICK g \in Gates : g = gate[r]
  BY GatesAssumption DEF Release, GatesHeld, TypeOK
<1>1. gate[r] = g /\ OwnerOf[r] \in Owners /\ entry[OwnerOf[r]] = g
  BY <1>0, OwnerAssumption, GatesAssumption DEF GatesFound
<1>2. r \in Inside(g)
  BY <1>1 DEF Release, Inside, Users
<1>3. permits[g] = 0
  BY <1>1, <1>2, GatesAssumption DEF PermitsTaken, TypeOK
<1>4. /\ permits' = [permits EXCEPT ![g] = 1]
      /\ pc' = [pc EXCEPT ![r] = "leaving"]
      /\ UNCHANGED <<entry, holders, gate>>
  BY <1>1, <1>3 DEF Release, TypeOK
<1>5. \A h \in Gates : Users(h)' = Users(h)
  BY <1>4 DEF Users
<1>6. Inside(g)' = {}
  BY <1>1, <1>2, <1>4, GatesAssumption DEF PermitsTaken, Inside, Users, TypeOK
<1>7. \A h \in Gates : h # g => Inside(h)' = Inside(h)
  BY <1>1, <1>4 DEF Inside, Users, TypeOK
<1>8. TypeOK'
  BY <1>1, <1>4 DEF TypeOK
<1>9. GatesHeld' /\ GatesFound' /\ GatesApart'
  BY <1>2, <1>4 DEF TypeOK, GatesHeld, GatesFound, GatesApart, Inside
<1>10. HoldersCounted'
  BY <1>4, <1>5 DEF TypeOK, HoldersCounted, Users
<1>11. PermitsTaken'
  BY <1>1, <1>4, <1>6, <1>7 DEF TypeOK, PermitsTaken, Inside, Users
<1> QED
  BY <1>8, <1>9, <1>10, <1>11

\* Rolling a count back removes the entry exactly when the last user leaves.
LEMMA RollBackInv ==
  ASSUME GateInv, NEW r \in Requests, pc[r] \in {"waiting", "leaving"}, RollBack(r)
  PROVE  GateInv'
<1> DEFINE o == OwnerOf[r]
<1> USE DEF GateInv
<1>0. PICK g \in Gates : g = gate[r]
  BY GatesAssumption DEF GatesHeld, TypeOK
<1>1. gate[r] = g /\ o \in Owners /\ entry[o] = g
  BY <1>0, OwnerAssumption, GatesAssumption DEF GatesFound
<1>2. /\ holders' = [holders EXCEPT ![g] = @ - 1]
      /\ entry' = IF holders'[g] <= 0 THEN [entry EXCEPT ![o] = None] ELSE entry
      /\ gate' = [gate EXCEPT ![r] = None]
      /\ pc' = [pc EXCEPT ![r] = "outside"]
      /\ UNCHANGED permits
  BY <1>1 DEF RollBack
<1>u. r \in Users(g)
  BY <1>1 DEF Users
<1> HIDE DEF o
<1>3. Users(g)' = Users(g) \ {r}
  BY <1>1, <1>2, <1>u, GatesAssumption DEF Users, TypeOK
<1>4. \A h \in Gates : h # g => Users(h)' = Users(h)
  BY <1>2, <1>u, GatesAssumption DEF Users, TypeOK
<1>5. \A h \in Gates : Inside(h)' = Inside(h)
  BY <1>1, <1>2, <1>3, <1>4, GatesAssumption DEF Inside, Users, TypeOK
<1>6. holders'[g] = Cardinality(Users(g)') /\ holders'[g] \in Nat
  <2>1. Cardinality(Users(g) \ {r}) = Cardinality(Users(g)) - 1
    BY <1>u, UsersFinite, FS_RemoveElement
  <2>2. Cardinality(Users(g) \ {r}) \in Nat
    BY UsersFinite, FS_RemoveElement, FS_CardinalityType
  <2> QED
    BY <2>1, <2>2, <1>1, <1>2, <1>3, GatesAssumption DEF HoldersCounted, TypeOK
<1>7. holders'[g] <= 0 <=> Users(g)' = {}
  <2>1. IsFiniteSet(Users(g)')
    BY <1>3, <1>u, UsersFinite, FS_RemoveElement
  <2>2. Cardinality(Users(g)') = 0 <=> Users(g)' = {}
    BY <2>1, FS_EmptySet
  <2> QED
    BY <2>2, <1>6
<1>8. entry' \in [Owners -> Gates \cup {None}]
  BY <1>1, <1>2 DEF TypeOK
<1>9. \A p \in Owners : p # o => entry'[p] = entry[p] /\ entry[p] # g
  BY <1>1, <1>2, GatesAssumption DEF TypeOK, GatesApart
<1>10. IF Users(g)' = {} THEN entry'[o] = None ELSE entry'[o] = g
  BY <1>1, <1>2, <1>7 DEF TypeOK
<1>11. TypeOK'
  BY <1>1, <1>2, <1>6, <1>8 DEF TypeOK
<1>12. GatesHeld'
  BY <1>2 DEF TypeOK, GatesHeld
<1>13. GatesFound'
  <2> SUFFICES ASSUME NEW s \in Requests, gate'[s] # None
               PROVE  entry'[OwnerOf[s]] = gate'[s]
    BY DEF GatesFound
  <2>1. s # r /\ gate'[s] = gate[s]
    BY <1>2 DEF TypeOK
  <2>2. entry[OwnerOf[s]] = gate[s] /\ OwnerOf[s] \in Owners
    BY <2>1, OwnerAssumption DEF GatesFound
  <2>3. CASE gate[s] = g
    <3>1. s \in Users(g)'
      BY <2>1, <2>3 DEF Users
    <3>2. OwnerOf[s] = o
      BY <2>2, <2>3, <1>9
    <3> QED
      BY <3>1, <3>2, <2>1, <2>3, <1>10
  <2>4. CASE gate[s] # g
    BY <2>1, <2>2, <2>4, <1>1, <1>9
  <2> QED
    BY <2>3, <2>4
<1>14. GatesApart'
  BY <1>1, <1>9, <1>10 DEF GatesApart
<1>15. HoldersCounted'
  <2> SUFFICES ASSUME NEW p \in Owners, entry'[p] # None
               PROVE  /\ Users(entry[p])' # {}
                      /\ holders'[entry'[p]] = Cardinality(Users(entry[p])')
    BY DEF HoldersCounted
  <2>1. CASE p = o
    BY <2>1, <1>6, <1>10 DEF Users
  <2>2. CASE p # o
    BY <2>2, <1>2, <1>4, <1>9 DEF TypeOK, HoldersCounted, Users
  <2> QED
    BY <2>1, <2>2
<1>16. PermitsTaken'
  <2> SUFFICES ASSUME NEW p \in Owners, entry'[p] # None
               PROVE  /\ permits'[entry'[p]] = 1 <=> Inside(entry[p])' = {}
                      /\ \A s, t \in Inside(entry[p])' : s = t
    BY DEF PermitsTaken
  <2>1. entry'[p] = entry[p] /\ entry[p] \in Gates
    BY <1>1, <1>9, <1>10 DEF TypeOK
  <2> QED
    BY <2>1, <1>2, <1>5 DEF PermitsTaken, Inside, Users
<1> QED
  BY <1>11, <1>12, <1>13, <1>14, <1>15, <1>16

\* Every step keeps the invariant.
LEMMA NextGateInv == GateInv /\ [Next]_vars => GateInv'
<1> SUFFICES ASSUME GateInv, [Next]_vars PROVE GateInv'
  OBVIOUS
<1>1. ASSUME NEW r \in Requests, Enter(r) PROVE GateInv'
  BY <1>1, JoinGateInv, AddGateInv DEF Enter
<1>2. ASSUME NEW r \in Requests, Acquire(r) PROVE GateInv'
  BY <1>2, AcquireInv
<1>3. ASSUME NEW r \in Requests, Cancel(r) \/ Evict(r) PROVE GateInv'
  BY <1>3, RollBackInv DEF Cancel, Evict
<1>4. ASSUME NEW r \in Requests, Release(r) PROVE GateInv'
  BY <1>4, ReleaseInv
<1>5. CASE UNCHANGED vars
  BY <1>5 DEF vars, GateInv, TypeOK, GatesHeld, GatesFound, GatesApart, HoldersCounted,
     PermitsTaken, Users, Inside
<1> QED
  BY <1>1, <1>2, <1>3, <1>4, <1>5 DEF Next

-----------------------------------------------------------------------------
\* The gate's types; among them, that Release never returns a permit too many,
\* which SemaphoreSlim(1, 1) would answer with an exception.
THEOREM GateTypeCorrect == Spec => []TypeOK
<1>1. GateInv => TypeOK
  BY DEF GateInv
<1> QED
  BY InitGateInv, NextGateInv, <1>1, PTL DEF Spec

\* The dictionary holds no entry nobody uses, however many requests and
\* operators a replica serves.
THEOREM EntriesAreUsed == Spec => []NoIdleEntry
<1>1. GateInv => NoIdleEntry
  <2> SUFFICES ASSUME GateInv, NEW o \in Owners, entry[o] # None
               PROVE  \E r \in Requests : OwnerOf[r] = o /\ gate[r] = entry[o]
    BY DEF NoIdleEntry
  <2>1. PICK r \in Requests : gate[r] = entry[o]
    BY DEF GateInv, HoldersCounted, Users
  <2>2. OwnerOf[r] = o
    BY <2>1, OwnerAssumption DEF GateInv, GatesFound, GatesApart
  <2> QED
    BY <2>1, <2>2
<1> QED
  BY InitGateInv, NextGateInv, <1>1, PTL DEF Spec

\* The gate gives each operator's requests the process one at a time.
THEOREM GateImplementsSlot == Spec => ImplementsSlot
<1> DEFINE in == {r \in Requests : pc[r] = "inside"}
<1>1. Init => Slot!Init
  BY DEF Init, Slot!Init
<1>2. GateInv /\ [Next]_vars => [Slot!Next]_in
  <2> SUFFICES ASSUME GateInv, [Next]_vars PROVE Slot!Next \/ UNCHANGED in
    OBVIOUS
  <2>t. TypeOK
    BY DEF GateInv
  <2>1. ASSUME NEW r \in Requests, Acquire(r) PROVE Slot!Next
    <3>1. in' = in \cup {r}
      BY <2>1, <2>t DEF Acquire, TypeOK
    <3>2. ASSUME NEW s \in in, OwnerOf[s] = OwnerOf[r] PROVE FALSE
      <4> DEFINE g == gate[r]
      <4>1. pc[s] = "inside" /\ pc[r] = "waiting" /\ permits[g] > 0
        BY <2>1 DEF Acquire
      <4>2. gate[r] # None /\ gate[s] # None /\ OwnerOf[r] \in Owners
        BY <4>1, OwnerAssumption DEF GateInv, GatesHeld
      <4>3. entry[OwnerOf[r]] = g /\ gate[s] = g
        BY <4>2, <3>2 DEF GateInv, GatesFound
      <4>4. permits[g] = 1
        BY <4>1, <4>2, <2>t DEF TypeOK
      <4>5. s \in Inside(g)
        BY <4>1, <4>3 DEF Inside, Users
      <4> QED
        BY <4>2, <4>3, <4>4, <4>5 DEF GateInv, PermitsTaken
    <3>3. Slot!Take(r)
      BY <3>1, <3>2 DEF Slot!Take
    <3> QED
      BY <3>3 DEF Slot!Next
  <2>2. ASSUME NEW r \in Requests, Release(r) PROVE Slot!Next
    <3>1. r \in in /\ in' = in \ {r}
      BY <2>2, <2>t DEF Release, TypeOK
    <3> QED
      BY <3>1 DEF Slot!Next, Slot!Leave
  <2>3. ASSUME NEW r \in Requests, Enter(r) \/ Cancel(r) \/ Evict(r) PROVE UNCHANGED in
    BY <2>3, <2>t DEF Enter, Cancel, Evict, RollBack, TypeOK
  <2>4. CASE UNCHANGED vars
    BY <2>4 DEF vars
  <2> QED
    BY <2>1, <2>2, <2>3, <2>4 DEF Next
<1> QED
  BY InitGateInv, NextGateInv, <1>1, <1>2, PTL DEF Spec, ImplementsSlot, Slot!Spec
=============================================================================

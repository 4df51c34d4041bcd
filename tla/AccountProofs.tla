---------------------------- MODULE AccountProofs ----------------------------
EXTENDS Account, FiniteSetTheorems, TLAPS
(***************************************************************************)
(* The properties of Account speak of the account and of the pages; their  *)
(* proofs rest on what the requests under way carry.  A handler about to   *)
(* write holds the user row as it read it, and if no other update came     *)
(* between, that row is the account (the concurrency stamp, CallOK).  A    *)
(* request sent after its session was revoked carries an id that no row    *)
(* opens again (LateOK).  A control that waits has a request of its own,   *)
(* and no two requests share an id (Waits, CallsOK).                       *)
(***************************************************************************)

\* What a request asks, and what the service reads for it.
Args == Profiles \cup Themes \cup {System, Nothing} \cup Providers \cup Sids
Read == Accounts \cup Users \cup {Nothing} \cup (SUBSET Sids)

CallSet ==
    [id : Nat, device : Devices, kind : Kinds, arg : Args, sid : Sids \cup {NoSid},
     security : Nat, late : BOOLEAN, stage : Stages, row : Read,
     answer : {"ok", "error", "refused", Nothing}, here : {"tab", "page", "gone"}]

\* The argument of a request, by its kind.
ArgOK(kind, arg) ==
    /\ arg \in Args
    /\ kind = "save" => arg \in Profiles
    /\ kind = "theme" => arg \in Themes \cup {System}
    /\ kind \in {"disconnect", "connect"} => arg \in Providers
    /\ kind = "revoke" => arg \in Sids

\* A request under way: a row it has read is older than the account or the same, and an
\* answer carries what its kind answers with.
CallOK(c) ==
    /\ c \in CallSet /\ ArgOK(c.kind, c.arg)
    /\ c.stage # "done" => c.answer = Nothing
    /\ c.stage = "read" => /\ c.kind \in RowKinds
                           /\ c.row \in Accounts /\ c.row.stamp <= account.stamp
                           /\ c.row.stamp = account.stamp => c.row = account
    /\ c.answer = "ok" => /\ c.kind \in {"me", "save", "disconnect"} => c.row \in Users
                          /\ c.kind = "sessions" => c.row \in SUBSET Sids

\* A session a browser has carried is not unused, and one that was revoked when the
\* request left is not open.
LateOK(c) ==
    /\ c.sid # NoSid => rows[c.sid] # "unused"
    /\ c.late => /\ c.sid = NoSid \/ rows[c.sid] # "open"
                 /\ c.stage # "read" /\ (c.answer = "ok" => c.kind = "logout")

CallsOK ==
    /\ IsFiniteSet(calls)
    /\ \A c, k \in calls : c.id = k.id => c = k
    /\ \A c \in calls : CallOK(c) /\ LateOK(c)

ServiceOK ==
    /\ account \in Accounts /\ SignInMethodRemains
    /\ rows \in [Sids -> {"unused", "open", "revoked"}]

BrowserOK ==
    /\ cookie \in [Devices -> Cookies]
    /\ \A d \in Devices : cookie[d].sid # NoSid => rows[cookie[d].sid] # "unused"
    /\ theme \in [Devices -> Themes \cup {System, Nothing}] /\ picked \subseteq Devices
    /\ \A d \in picked : theme[d] # Nothing

PageOK ==
    /\ user \in [Devices -> Users \cup {SignedOut, Loading}]
    /\ tab \in [Devices -> Tabs] /\ form \in [Devices -> Forms]
    /\ busy \in [Devices -> Providers \cup Sids \cup {"others", Nothing}]
    /\ listed \in [Devices -> SUBSET Sids]

CountsOK == asked \in [Devices -> 0 .. MaxAsked] /\ moves \in 0 .. MaxMoves

\* The inductive invariant.
AccInv ==
    /\ ServiceOK /\ CallsOK /\ BrowserOK /\ PageOK /\ CountsOK
    /\ WaitsForAnAnswer

-----------------------------------------------------------------------------
(* Requests under way.                                                     *)

\* There is an id no request has.
LEMMA FreeIdIsFree ==
  ASSUME IsFiniteSet(calls)
  PROVE  FreeId \in Nat /\ \A c \in calls : c.id # FreeId
<1> DEFINE n == Cardinality(calls)
<1>1. n \in Nat
  BY FS_CardinalityType
<1>2. \E i \in 1 .. n + 1 : \A c \in calls : c.id # i
  <2> SUFFICES ASSUME \A i \in 1 .. n + 1 : \E c \in calls : c.id = i PROVE FALSE
    OBVIOUS
  <2> DEFINE of == [i \in 1 .. n + 1 |-> CHOOSE c \in calls : c.id = i]
  <2>1. of \in [1 .. n + 1 -> calls] /\ \A i \in 1 .. n + 1 : of[i].id = i
    OBVIOUS
  <2>2. IsFiniteSet(1 .. n + 1) /\ Cardinality(1 .. n + 1) = n + 1
    BY <1>1, FS_Interval
  <2> HIDE DEF of
  <2>3. Cardinality(calls) < Cardinality(1 .. n + 1)
    BY <1>1, <2>2
  <2>4. \E i, j \in 1 .. n + 1 : i # j /\ of[i] = of[j]
    <3> DEFINE Ids == 1 .. n + 1
    <3>1. of \in [Ids -> calls] /\ IsFiniteSet(Ids) /\ Cardinality(calls) < Cardinality(Ids)
      BY <2>1, <2>2, <2>3
    <3> HIDE DEF Ids, n
    <3>2. \E i, j \in Ids : i # j /\ of[i] = of[j]
      BY <3>1, FS_PigeonHole
    <3> QED
      BY <3>2 DEF Ids
  <2> QED
    BY <2>1, <2>4
<1> HIDE DEF n
<1> QED
  BY <1>1, <1>2 DEF FreeId, n

\* The argument of a request does not matter to the requests before it: a new request is
\* in order, and its id is its own.
LEMMA NewCall ==
  ASSUME ServiceOK, CallsOK, BrowserOK, NEW d \in Devices, NEW kind \in Kinds, NEW arg,
         ArgOK(kind, arg)
  PROVE  LET k == Call(d, kind, arg)
         IN  /\ CallOK(k) /\ LateOK(k) /\ \A c \in calls : c.id # k.id
             /\ k.device = d /\ k.kind = kind /\ k.arg = arg /\ k.here = "tab"
<1> DEFINE k == Call(d, kind, arg)
<1>1. FreeId \in Nat /\ \A c \in calls : c.id # FreeId
  BY FreeIdIsFree DEF CallsOK
<1>2. cookie[d].sid \in Sids \cup {NoSid} /\ cookie[d].security \in Nat
  BY DEF BrowserOK, Cookies
<1>3. /\ k.id = FreeId /\ k.device = d /\ k.kind = kind /\ k.arg = arg /\ k.sid = cookie[d].sid
      /\ k.stage = "sent" /\ k.answer = Nothing /\ k.here = "tab"
      /\ k.late <=> cookie[d].sid = NoSid \/ rows[cookie[d].sid] # "open"
  BY DEF Call
<1>4. k \in CallSet
  <2> DEFINE late == cookie[d].sid = NoSid \/ rows[cookie[d].sid] # "open"
  <2>1. late \in BOOLEAN
    OBVIOUS
  <2>3. Nothing \in Read /\ "sent" \in Stages
    BY DEF Read, Stages
  <2>4. arg \in Args
    BY DEF ArgOK
  <2>2. k = [id |-> FreeId, device |-> d, kind |-> kind, arg |-> arg,
             sid |-> cookie[d].sid, security |-> cookie[d].security, late |-> late,
             stage |-> "sent", row |-> Nothing, answer |-> Nothing, here |-> "tab"]
    BY DEF Call
  <2> HIDE DEF late, k
  <2> QED
    BY <1>1, <1>2, <2>1, <2>2, <2>3, <2>4 DEF CallSet
<1> HIDE DEF k
<1>5. CallOK(k)
  BY <1>3, <1>4, NothingAssumption DEF CallOK
<1>6. LateOK(k)
  BY <1>3, NothingAssumption DEF LateOK, BrowserOK
<1> QED
  BY <1>1, <1>3, <1>5, <1>6 DEF k

\* A session row is never opened again.
RowsKept ==
    \A s \in Sids : /\ rows[s] # "unused" => rows'[s] # "unused"
                    /\ rows[s] \notin {"unused", "open"} => rows'[s] # "open"

LEMMA RevokedStays ==
  ASSUME RowsKept, NEW c, c.sid \in Sids \cup {NoSid}, LateOK(c)
  PROVE  LateOK(c)'
<1>1. c.sid # NoSid => c.sid \in Sids
  OBVIOUS
<1>2. c.sid # NoSid => rows[c.sid] # "unused"
  BY Zenon DEF LateOK
<1>3. c.sid # NoSid => rows'[c.sid] # "unused"
  BY <1>1, <1>2, Zenon DEF RowsKept
<1>4. ASSUME c.late PROVE c.sid = NoSid \/ rows'[c.sid] # "open"
  <2>1. c.sid = NoSid \/ (c.sid \in Sids /\ rows[c.sid] \notin {"unused", "open"})
    BY <1>1, <1>4 DEF LateOK
  <2> QED
    BY <2>1, Zenon DEF RowsKept
<1>5. c.late => c.stage # "read" /\ (c.answer = "ok" => c.kind = "logout")
  BY Zenon DEF LateOK
<1> QED
  BY <1>3, <1>4, <1>5, Zenon DEF LateOK

\* A request in order stays so whatever else is served: an update of the account moves
\* its stamp.
AccountMoves ==
    /\ account' \in Accounts
    /\ account' = account \/ account'.stamp = account.stamp + 1

LEMMA CallStands ==
  ASSUME account \in Accounts, AccountMoves, RowsKept, NEW c, CallOK(c), LateOK(c)
  PROVE  CallOK(c)' /\ LateOK(c)'
<1>1. c.sid \in Sids \cup {NoSid}
  BY DEF CallOK, CallSet
<1>2. LateOK(c)'
  BY <1>1, RevokedStays
<1>3. c.stage = "read" => /\ c.row.stamp <= account'.stamp
                          /\ c.row.stamp = account'.stamp => c.row = account'
  BY DEF CallOK, Accounts, AccountMoves
<1> QED
  BY <1>2, <1>3 DEF CallOK

\* Requests in order, and perhaps one more.
LEMMA AddCall ==
  ASSUME NEW T, IsFiniteSet(T), \A c, k \in T : c.id = k.id => c = k,
         \A c \in T : CallOK(c)' /\ LateOK(c)',
         NEW N, N = {} \/ \E k : N = {k} /\ CallOK(k)' /\ LateOK(k)' /\ \A c \in T : c.id # k.id,
         calls' = T \cup N
  PROVE  CallsOK'
<1>1. IsFiniteSet(calls')
  BY FS_AddElement
<1> QED
  BY <1>1 DEF CallsOK

\* Requests whose tab or page is left are the same requests.
LeftBy(f) ==
    /\ f = [c \in calls |-> f[c]]
    /\ \A c \in calls : f[c] = c \/ \E h \in {"page", "gone"} : f[c] = [c EXCEPT !.here = h]

SameRequest(k, c) == k.id = c.id /\ k.device = c.device /\ k.kind = c.kind /\ k.arg = c.arg

LEMMA LeftCall ==
  ASSUME CallsOK, NEW f, LeftBy(f), NEW c \in calls
  PROVE  SameRequest(f[c], c) /\ CallOK(f[c]) /\ LateOK(f[c])
<1>1. c \in CallSet /\ CallOK(c) /\ LateOK(c)
  BY DEF CallsOK, CallOK
<1>2. CASE f[c] = c
  BY <1>1, <1>2 DEF SameRequest
<1>3. ASSUME NEW h \in {"page", "gone"}, f[c] = [c EXCEPT !.here = h]
      PROVE  SameRequest(f[c], c) /\ CallOK(f[c]) /\ LateOK(f[c])
  <2> DEFINE k == [c EXCEPT !.here = h]
  <2>1. /\ k \in CallSet /\ k.id = c.id /\ k.device = c.device /\ k.kind = c.kind
        /\ k.arg = c.arg /\ k.sid = c.sid /\ k.late = c.late /\ k.stage = c.stage
        /\ k.row = c.row /\ k.answer = c.answer
    BY <1>1 DEF CallSet
  <2>2. f[c] = k
    BY <1>3
  <2> HIDE DEF k
  <2>3. CallOK(k) /\ LateOK(k)
    BY <1>1, <2>1 DEF CallOK, LateOK
  <2> QED
    BY <2>1, <2>2, <2>3 DEF SameRequest
<1> QED
  BY <1>2, <1>3 DEF LeftBy

LEMMA LeftCalls ==
  ASSUME CallsOK, NEW f, LeftBy(f), NEW T, T = {f[c] : c \in calls}
  PROVE  /\ IsFiniteSet(T) /\ \A c, k \in T : c.id = k.id => c = k
         /\ \A k \in T : CallOK(k) /\ LateOK(k) /\ \E c \in calls : SameRequest(k, c)
<1>1. \A c \in calls : SameRequest(f[c], c) /\ CallOK(f[c]) /\ LateOK(f[c])
  BY LeftCall
<1>2. IsFiniteSet(T)
  <2>1. f \in Surjection(calls, T)
    BY DEF Surjection, LeftBy
  <2> QED
    BY <2>1, FS_Surjection DEF CallsOK
<1>3. \A c, k \in T : c.id = k.id => c = k
  BY <1>1 DEF CallsOK, SameRequest
<1> QED
  BY <1>1, <1>2, <1>3

-----------------------------------------------------------------------------
(* What a step of a visitor leaves in order.                               *)

\* Leaving a tab or a page, or none, leaves the requests in order.
LEMMA LeftRequests ==
  ASSUME CallsOK, NEW d \in Devices, NEW T \in {calls, Detached(d), Abandoned(d)}
  PROVE  /\ IsFiniteSet(T) /\ \A c, k \in T : c.id = k.id => c = k
         /\ \A k \in T : CallOK(k) /\ LateOK(k) /\ \E c \in calls : SameRequest(k, c)
         /\ \A c \in calls : T = calls \/ c.device # d => c \in T
<1>1. CASE T = calls
  BY <1>1 DEF CallsOK, SameRequest
<1>2. CASE T = Detached(d)
  <2> DEFINE f == [c \in calls |-> IF c.device = d /\ c.here = "tab"
                                   THEN [c EXCEPT !.here = "page"] ELSE c]
  <2>1. LeftBy(f)
    BY DEF LeftBy
  <2>2. T = {f[c] : c \in calls} /\ \A c \in calls : c.device # d => f[c] = c
    BY <1>2 DEF Detached
  <2> HIDE DEF f
  <2> QED
    BY <2>1, <2>2, LeftCalls
<1>3. CASE T = Abandoned(d)
  <2> DEFINE f == [c \in calls |-> IF c.device = d THEN [c EXCEPT !.here = "gone"] ELSE c]
  <2>1. LeftBy(f)
    BY DEF LeftBy
  <2>2. T = {f[c] : c \in calls} /\ \A c \in calls : c.device # d => f[c] = c
    BY <1>3 DEF Abandoned
  <2> HIDE DEF f
  <2> QED
    BY <2>1, <2>2, LeftCalls
<1> QED
  BY <1>1, <1>2, <1>3

\* The requests a tab of e waits for are still there, in whatever stage.
CallsCarried(e) ==
    \A c \in calls : c.device = e /\ c.here = "tab" =>
        \E k \in calls' : k.device = e /\ k.kind = c.kind /\ k.arg = c.arg /\ k.here = "tab"

SaveAsked(e) == \E c \in calls : c.device = e /\ c.kind = "save" /\ c.here = "tab"
ControlAsked(e) ==
    \E c \in calls : /\ c.device = e /\ c.here = "tab"
                     /\ \/ c.kind = "others" /\ busy[e] = "others"
                        \/ c.kind \in {"disconnect", "revoke"} /\ c.arg = busy[e]
Waits(e) ==
    /\ form[e].status = "saving" => SaveAsked(e)
    /\ busy[e] # Nothing => ControlAsked(e)

LEMMA WaitsIs == WaitsForAnAnswer <=> \A e \in Devices : Waits(e)
BY DEF WaitsForAnAnswer, Waits, SaveAsked, ControlAsked

\* What waited for a request that is carried along still waits for one.
LEMMA WaitsStands ==
  ASSUME NEW e, Waits(e), CallsCarried(e),
         form'[e].status = "saving" => form[e].status = "saving" \/ SaveAsked(e)',
         busy'[e] # Nothing => busy'[e] = busy[e] \/ ControlAsked(e)'
  PROVE  Waits(e)'
<1>1. SaveAsked(e) => SaveAsked(e)'
  BY DEF SaveAsked, CallsCarried
<1>2. ControlAsked(e) /\ busy'[e] = busy[e] => ControlAsked(e)'
  BY DEF ControlAsked, CallsCarried
<1> QED
  BY <1>1, <1>2 DEF Waits

\* What a visitor of d does to the requests: those of the tab or page that is left, and at
\* most one new one.
Asks(d, T, N) ==
    /\ T \in {calls, Detached(d), Abandoned(d)}
    /\ N = {} \/ \E kind \in Kinds, arg \in Args : ArgOK(kind, arg) /\ N = {Call(d, kind, arg)}
    /\ calls' = T \cup N

LEMMA VisitCalls ==
  ASSUME ServiceOK, CallsOK, BrowserOK, NEW d \in Devices, NEW T, NEW N, Asks(d, T, N),
         AccountMoves, RowsKept
  PROVE  /\ CallsOK'
         /\ \A e \in Devices : e # d \/ T = calls => CallsCarried(e)
<1>1. /\ IsFiniteSet(T) /\ \A c, k \in T : c.id = k.id => c = k
      /\ \A k \in T : CallOK(k) /\ LateOK(k) /\ \E c \in calls : SameRequest(k, c)
      /\ \A c \in calls : T = calls \/ c.device # d => c \in T
  BY LeftRequests DEF Asks
<1>2. account \in Accounts
  BY DEF ServiceOK
<1>3. \A k \in T : CallOK(k)' /\ LateOK(k)'
  BY <1>1, <1>2, CallStands
<1>4. N = {} \/ \E k : N = {k} /\ CallOK(k)' /\ LateOK(k)' /\ \A c \in T : c.id # k.id
  <2> SUFFICES ASSUME NEW kind \in Kinds, NEW arg \in Args, ArgOK(kind, arg),
                      N = {Call(d, kind, arg)}
               PROVE  \E k : /\ N = {k} /\ CallOK(k)' /\ LateOK(k)'
                             /\ \A c \in T : c.id # k.id
    BY DEF Asks
  <2>2. PICK k : k = Call(d, kind, arg)
    OBVIOUS
  <2>1. CallOK(k) /\ LateOK(k) /\ \A c \in calls : c.id # k.id
    BY <2>2, NewCall
  <2>3. CallOK(k)' /\ LateOK(k)'
    BY <2>1, <1>2, CallStands
  <2>4. \A c \in T : c.id # k.id
    BY <1>1, <2>1 DEF SameRequest
  <2> QED
    BY <2>2, <2>3, <2>4
<1>5. calls' = T \cup N
  BY DEF Asks
<1>6. CallsOK'
  BY <1>1, <1>3, <1>4, <1>5, AddCall
<1>7. ASSUME NEW e \in Devices, e # d \/ T = calls PROVE CallsCarried(e)
  BY <1>1, <1>5, <1>7 DEF CallsCarried
<1> QED
  BY <1>6, <1>7

\* A user to show before any has been read.
LEMMA TypicalUserType == TypicalUser \in Users /\ NoForm \in Forms
<1>1. PICK name \in Names, link \in Links : link # NoLink
  BY DataAssumption
<1> DEFINE u == [name |-> name, link |-> link, theme |-> System, logins |-> Providers]
<1>2. u \in Users /\ u.logins = Providers /\ u.theme = System /\ u.link # NoLink
  BY <1>1 DEF Users
<1> HIDE DEF u
<1>3. TypicalUser \in Users
  BY <1>2 DEF TypicalUser
<1>4. ProfileOf(TypicalUser) \in Profiles
  BY <1>3 DEF Users, Profiles, ProfileOf
<1> QED
  BY <1>3, <1>4 DEF NoForm, FreshForm, Forms

LEMMA FreshFormType == \A u \in Users : ProfileOf(u) \in Profiles /\ FreshForm(u) \in Forms
<1> TAKE u \in Users
<1>1. ProfileOf(u) \in Profiles
  BY DEF Users, Profiles, ProfileOf
<1> QED
  BY <1>1 DEF FreshForm, Forms

\* A page whose modal is closed.
LEMMA ClosingIs ==
  ASSUME PageOK, NEW d \in Devices, Closing(d)
  PROVE  /\ tab' \in [Devices -> Tabs] /\ form' \in [Devices -> Forms]
         /\ busy' \in [Devices -> Providers \cup Sids \cup {"others", Nothing}]
         /\ listed' \in [Devices -> SUBSET Sids]
         /\ form'[d].status # "saving" /\ busy'[d] = Nothing
         /\ \A e \in Devices \ {d} : form'[e] = form[e] /\ busy'[e] = busy[e]
<1>1. NoForm \in Forms /\ NoForm.status = "idle"
  BY TypicalUserType DEF NoForm, FreshForm
<1>2. "closed" \in Tabs
  BY DEF Tabs
<1>3. tab' \in [Devices -> Tabs]
  BY <1>2 DEF PageOK, Closing
<1>4. form' \in [Devices -> Forms] /\ form'[d] = NoForm
  BY <1>1 DEF PageOK, Closing
<1>5. busy' \in [Devices -> Providers \cup Sids \cup {"others", Nothing}] /\ busy'[d] = Nothing
  BY DEF PageOK, Closing
<1>6. listed' \in [Devices -> SUBSET Sids]
  BY DEF PageOK, Closing
<1>7. \A e \in Devices \ {d} : form'[e] = form[e] /\ busy'[e] = busy[e]
  BY DEF PageOK, Closing
<1> QED
  BY <1>1, <1>3, <1>4, <1>5, <1>6, <1>7

LEMMA CountsStep ==
  ASSUME CountsOK, NEW d \in Devices, Ask(d) \/ Move \/ UNCHANGED counts
  PROVE  CountsOK'
BY BoundsAssumption DEF CountsOK, Ask, Move, counts

-----------------------------------------------------------------------------
(* What a visitor does in a browser.                                       *)

LEMMA CallIs ==
  ASSUME NEW d, NEW kind, NEW arg
  PROVE  /\ Call(d, kind, arg).device = d /\ Call(d, kind, arg).kind = kind
         /\ Call(d, kind, arg).arg = arg /\ Call(d, kind, arg).here = "tab"
BY DEF Call

LEMMA ServiceStands ==
  ASSUME ServiceOK, UNCHANGED service
  PROVE  AccountMoves /\ RowsKept /\ ServiceOK'
BY DEF ServiceOK, service, AccountMoves, RowsKept, SignInMethodRemains

LEMMA BrowserStands ==
  ASSUME BrowserOK, RowsKept, UNCHANGED browser
  PROVE  BrowserOK'
<1>1. cookie' = cookie /\ theme' = theme /\ picked' = picked
  BY DEF browser
<1>2. ASSUME NEW d \in Devices, cookie[d].sid # NoSid PROVE rows'[cookie[d].sid] # "unused"
  <2>1. cookie[d].sid \in Sids /\ rows[cookie[d].sid] # "unused"
    BY <1>2 DEF BrowserOK, Cookies
  <2> QED
    BY <2>1 DEF RowsKept
<1> QED
  BY <1>1, <1>2 DEF BrowserOK

\* An update of the user row moves its stamp.
LEMMA UpdatedAccount ==
  ASSUME account \in Accounts, NEW u \in Users, u.logins # {}, NEW n \in Nat,
         account' = [user |-> u, security |-> n, stamp |-> account.stamp + 1]
  PROVE  AccountMoves /\ account' \in Accounts /\ account'.user.logins # {}
<1>1. account.stamp + 1 \in Nat
  BY DEF Accounts
<1> QED
  BY <1>1 DEF Accounts, AccountMoves

\* A step of a visitor: the requests it asks, the page it leaves, and nobody left waiting.
LEMMA VisitStep ==
  ASSUME AccInv, NEW d \in Devices, AccountMoves, RowsKept,
         ServiceOK', BrowserOK', PageOK', CountsOK',
         \E T, N : /\ Asks(d, T, N)
                   /\ T = calls \/ (form'[d].status # "saving" /\ busy'[d] = Nothing),
         form'[d].status = "saving" => form[d].status = "saving" \/ SaveAsked(d)',
         busy'[d] # Nothing => busy'[d] = busy[d] \/ ControlAsked(d)',
         \A e \in Devices \ {d} : form'[e] = form[e] /\ busy'[e] = busy[e]
  PROVE  AccInv'
<1>1. ServiceOK /\ CallsOK /\ BrowserOK /\ \A e \in Devices : Waits(e)
  BY WaitsIs DEF AccInv
<1>2. PICK T, N : /\ Asks(d, T, N)
                  /\ T = calls \/ (form'[d].status # "saving" /\ busy'[d] = Nothing)
  OBVIOUS
<1>3. CallsOK' /\ \A e \in Devices : e # d \/ T = calls => CallsCarried(e)
  BY <1>1, <1>2, VisitCalls
<1>4. \A e \in Devices \ {d} : Waits(e)'
  BY <1>1, <1>3, WaitsStands
<1>5. Waits(d)'
  <2>1. CASE T = calls
    BY <2>1, <1>1, <1>3, WaitsStands
  <2>2. CASE form'[d].status # "saving" /\ busy'[d] = Nothing
    BY <2>2 DEF Waits
  <2> QED
    BY <1>2, <2>1, <2>2
<1>6. WaitsForAnAnswer'
  BY <1>4, <1>5 DEF WaitsForAnAnswer, Waits, SaveAsked, ControlAsked
<1> QED
  BY <1>3, <1>6 DEF AccInv

\* A request that waits for nothing on the page.
LEMMA SendStep ==
  ASSUME AccInv, NEW d \in Devices, NEW kind \in Kinds, NEW arg \in Args, ArgOK(kind, arg),
         Send(d, kind, arg), UNCHANGED <<service, page>>, BrowserOK', CountsOK'
  PROVE  AccInv'
<1>1. ServiceOK /\ BrowserOK /\ PageOK /\ UNCHANGED <<user, tab, form, busy, listed>>
  BY DEF AccInv, page
<1>2. AccountMoves /\ RowsKept /\ ServiceOK'
  BY <1>1, ServiceStands
<1>3. PageOK'
  BY <1>1 DEF PageOK
<1>4. \E T, N : Asks(d, T, N) /\ T = calls
  BY DEF Send, Asks
<1> QED
  BY <1>1, <1>2, <1>3, <1>4, VisitStep

LEMMA NothingArg ==
  \A kind \in {"me", "sessions", "others", "logout"} :
      kind \in Kinds /\ Nothing \in Args /\ ArgOK(kind, Nothing)
BY DEF Kinds, Args, ArgOK

LEMMA LoadInv == ASSUME AccInv, NEW d \in Devices, Load(d) PROVE AccInv'
<1>1. Send(d, "me", Nothing) /\ UNCHANGED <<service, page>> /\ UNCHANGED <<counts, browser>>
  BY DEF Load
<1>2. BrowserOK'
  BY <1>1, ServiceStands, BrowserStands DEF AccInv
<1>3. CountsOK'
  BY <1>1, CountsStep DEF AccInv
<1> QED
  BY <1>1, <1>2, <1>3, NothingArg, SendStep

LEMMA SignOutInv == ASSUME AccInv, NEW d \in Devices, SignOut(d) PROVE AccInv'
<1>1. Send(d, "logout", Nothing) /\ UNCHANGED <<service, page>> /\ UNCHANGED browser /\ Ask(d)
  BY DEF SignOut
<1>2. BrowserOK'
  BY <1>1, ServiceStands, BrowserStands DEF AccInv
<1>3. CountsOK'
  BY <1>1, CountsStep DEF AccInv
<1> QED
  BY <1>1, <1>2, <1>3, NothingArg, SendStep

LEMMA PickInv ==
  ASSUME AccInv, NEW d \in Devices, NEW t \in Themes \cup {System}, Pick(d, t)
  PROVE  AccInv'
<1>1. /\ Send(d, "theme", t) /\ UNCHANGED <<service, page>> /\ Ask(d)
      /\ cookie' = cookie /\ theme' = [theme EXCEPT ![d] = t] /\ picked' = picked \cup {d}
  BY DEF Pick, SetThemeChoice, page
<1>2. "theme" \in Kinds /\ t \in Args /\ ArgOK("theme", t)
  BY DEF Kinds, Args, ArgOK
<1>3. CountsOK'
  BY <1>1, CountsStep DEF AccInv
<1>4. BrowserOK'
  <2>1. BrowserOK /\ rows' = rows
    BY <1>1 DEF AccInv, service
  <2>2. t # Nothing
    BY NothingAssumption
  <2> QED
    BY <1>1, <2>1, <2>2 DEF BrowserOK
<1> QED
  BY <1>1, <1>2, <1>3, <1>4, SendStep

\* Leaving the page: nothing waits any more.
LEMMA ReloadInv == ASSUME AccInv, NEW d \in Devices, Reload(d) PROVE AccInv'
<1>1. /\ Closing(d) /\ UNCHANGED service /\ UNCHANGED browser /\ Move
      /\ calls' = Abandoned(d) /\ user' = [user EXCEPT ![d] = Loading]
  BY DEF Reload
<1>2. AccountMoves /\ RowsKept /\ ServiceOK' /\ BrowserOK' /\ CountsOK'
  BY <1>1, ServiceStands, BrowserStands, CountsStep DEF AccInv
<1>3. PageOK'
  BY <1>1, ClosingIs DEF PageOK, AccInv
<1>4. \E T, N : Asks(d, T, N)
  <2>1. Asks(d, Abandoned(d), {})
    BY <1>1 DEF Asks
  <2> QED
    BY <2>1
<1> QED
  BY <1>1, <1>2, <1>3, <1>4, ClosingIs, VisitStep DEF AccInv

LEMMA ConnectInv ==
  ASSUME AccInv, NEW d \in Devices, NEW p \in Providers, Connect(d, p)
  PROVE  AccInv'
<1>1. /\ Closing(d) /\ UNCHANGED service /\ UNCHANGED browser /\ Ask(d)
      /\ calls' = Abandoned(d) \cup {Call(d, "connect", p)}
      /\ user' = [user EXCEPT ![d] = Loading]
  BY DEF Connect
<1>2. AccountMoves /\ RowsKept /\ ServiceOK' /\ BrowserOK' /\ CountsOK'
  BY <1>1, ServiceStands, BrowserStands, CountsStep DEF AccInv
<1>3. PageOK'
  BY <1>1, ClosingIs DEF PageOK, AccInv
<1>4. \E T, N : Asks(d, T, N)
  <2>1. "connect" \in Kinds /\ p \in Args /\ ArgOK("connect", p)
    BY DEF Kinds, Args, ArgOK
  <2>2. Asks(d, Abandoned(d), {Call(d, "connect", p)})
    BY <1>1, <2>1 DEF Asks
  <2> QED
    BY <2>2
<1> QED
  BY <1>1, <1>2, <1>3, <1>4, ClosingIs, VisitStep DEF AccInv

LEMMA SignInInv ==
  ASSUME AccInv, NEW d \in Devices, NEW s \in Sids, NEW p \in Providers, SignIn(d, s, p)
  PROVE  AccInv'
<1>1. /\ Closing(d) /\ UNCHANGED counts /\ calls' = Abandoned(d)
      /\ user' = [user EXCEPT ![d] = Loading]
      /\ rows[s] = "unused" /\ rows' = [rows EXCEPT ![s] = "open"]
      /\ cookie' = [cookie EXCEPT ![d] = [sid |-> s, security |-> account.security]]
      /\ theme' = theme /\ picked' = picked
  BY DEF SignIn
<1>2. /\ ServiceOK /\ BrowserOK /\ PageOK /\ CountsOK /\ account \in Accounts
      /\ rows \in [Sids -> {"unused", "open", "revoked"}]
  BY DEF AccInv, ServiceOK
<1>3. /\ AccountMoves /\ account' \in Accounts /\ account'.user.logins # {}
  <2>1. CASE account' = account
    BY <1>2, <2>1 DEF AccountMoves, ServiceOK, SignInMethodRemains
  <2>2. CASE account' = [account EXCEPT !.user.logins = @ \cup {p}, !.stamp = @ + 1]
    <3>1. PICK u : u = [account.user EXCEPT !.logins = @ \cup {p}]
      OBVIOUS
    <3>2. account.user \in Users /\ account.security \in Nat
      BY <1>2 DEF Accounts
    <3>3. u \in Users /\ u.logins # {}
      BY <3>1, <3>2 DEF Users
    <3>4. account' = [user |-> u, security |-> account.security, stamp |-> account.stamp + 1]
      BY <1>2, <2>2, <3>1 DEF Accounts
    <3> QED
      BY <1>2, <3>2, <3>3, <3>4, UpdatedAccount
  <2> QED
    BY <2>1, <2>2 DEF SignIn
<1>4. RowsKept /\ rows' \in [Sids -> {"unused", "open", "revoked"}] /\ rows'[s] # "unused"
  BY <1>1, <1>2 DEF RowsKept
<1>5. ServiceOK'
  BY <1>3, <1>4 DEF ServiceOK, SignInMethodRemains
<1>6. BrowserOK'
  <2>1. account.security \in Nat
    BY <1>2 DEF Accounts
  <2>2. cookie' \in [Devices -> Cookies]
    BY <1>1, <1>2, <2>1 DEF BrowserOK, Cookies
  <2>3. ASSUME NEW e \in Devices, cookie'[e].sid # NoSid PROVE rows'[cookie'[e].sid] # "unused"
    <3>1. CASE e = d
      BY <3>1, <1>1, <1>2, <1>4 DEF BrowserOK
    <3>2. CASE e # d
      <4>1. cookie'[e] = cookie[e]
        BY <3>2, <1>1, <1>2 DEF BrowserOK
      <4>2. cookie[e].sid \in Sids /\ rows[cookie[e].sid] # "unused"
        BY <4>1, <2>3, <1>2 DEF BrowserOK, Cookies
      <4> QED
        BY <4>1, <4>2, <1>4 DEF RowsKept
    <3> QED
      BY <3>1, <3>2
  <2> QED
    BY <1>1, <1>2, <2>2, <2>3 DEF BrowserOK
<1>7. PageOK'
  BY <1>1, <1>2, ClosingIs DEF PageOK
<1>8. CountsOK'
  BY <1>1, <1>2, CountsStep
<1>9. \E T, N : Asks(d, T, N)
  <2>1. Asks(d, Abandoned(d), {})
    BY <1>1 DEF Asks
  <2> QED
    BY <2>1
<1> QED
  BY <1>1, <1>2, <1>3, <1>4, <1>5, <1>6, <1>7, <1>8, <1>9, ClosingIs, VisitStep

LEMMA OpenInv ==
  ASSUME AccInv, NEW d \in Devices, NEW t \in Tabs, Open(d, t)
  PROVE  AccInv'
<1>1. /\ UNCHANGED service /\ UNCHANGED browser /\ Move /\ user' = user
      /\ tab' = [tab EXCEPT ![d] = t]
      /\ form' = [form EXCEPT ![d] = IF t = "profile" THEN FreshForm(user[d]) ELSE NoForm]
      /\ busy' = [busy EXCEPT ![d] = Nothing] /\ listed' = [listed EXCEPT ![d] = {}]
  BY DEF Open
<1>2. AccountMoves /\ RowsKept /\ ServiceOK' /\ BrowserOK' /\ CountsOK' /\ PageOK
  BY <1>1, ServiceStands, BrowserStands, CountsStep DEF AccInv
<1>3. form'[d] \in Forms /\ form'[d].status = "idle"
  <2>1. CASE t = "profile"
    <3>1. user[d] \in Users
      BY <1>2, <2>1 DEF Open, PageOK, SignedIn
    <3> QED
      BY <1>1, <1>2, <2>1, <3>1, FreshFormType DEF PageOK, FreshForm
  <2>2. CASE t # "profile"
    BY <1>1, <1>2, <2>2, TypicalUserType DEF PageOK, NoForm, FreshForm
  <2> QED
    BY <2>1, <2>2
<1>4. PageOK' /\ busy'[d] = Nothing
  BY <1>1, <1>2, <1>3 DEF PageOK
<1>5. \A e \in Devices \ {d} : form'[e] = form[e] /\ busy'[e] = busy[e]
  BY <1>1, <1>2 DEF PageOK
<1>6. \E T, N : Asks(d, T, N)
  <2>1. CASE t = "sessions"
    <3>1. calls' = Detached(d) \cup {Call(d, "sessions", Nothing)}
      BY <2>1 DEF Open
    <3>2. Asks(d, Detached(d), {Call(d, "sessions", Nothing)})
      BY <3>1, NothingArg DEF Asks
    <3> QED
      BY <3>2
  <2>2. CASE t # "sessions"
    <3>1. calls' = Detached(d)
      BY <2>2 DEF Open
    <3>2. Asks(d, Detached(d), {})
      BY <3>1 DEF Asks
    <3> QED
      BY <3>2
  <2> QED
    BY <2>1, <2>2
<1> QED
  BY <1>2, <1>3, <1>4, <1>5, <1>6, VisitStep

\* The profile form, and its timer.
LEMMA EditInv ==
  ASSUME AccInv, NEW d \in Devices, NEW draft \in Profiles, Edit(d, draft)
  PROVE  AccInv'
<1>1. /\ UNCHANGED service /\ UNCHANGED browser /\ Move /\ calls' = calls
      /\ form' = [form EXCEPT ![d].draft = draft]
      /\ UNCHANGED <<user, tab, busy, listed>>
  BY DEF Edit
<1>2. AccountMoves /\ RowsKept /\ ServiceOK' /\ BrowserOK' /\ CountsOK' /\ PageOK
  BY <1>1, ServiceStands, BrowserStands, CountsStep DEF AccInv
<1>3. /\ form' \in [Devices -> Forms] /\ form'[d].status = form[d].status
      /\ \A e \in Devices \ {d} : form'[e] = form[e]
  BY <1>1, <1>2 DEF PageOK, Forms
<1>4. PageOK'
  BY <1>1, <1>2, <1>3 DEF PageOK
<1>5. Asks(d, calls, {})
  BY <1>1 DEF Asks
<1> QED
  BY <1>1, <1>2, <1>3, <1>4, <1>5, VisitStep

LEMMA SavedFadesInv ==
  ASSUME AccInv, NEW d \in Devices, SavedFades(d)
  PROVE  AccInv'
<1>1. /\ UNCHANGED service /\ UNCHANGED browser /\ UNCHANGED counts /\ calls' = calls
      /\ form' = [form EXCEPT ![d].status = "idle", ![d].timer = FALSE]
      /\ UNCHANGED <<user, tab, busy, listed>>
  BY DEF SavedFades
<1>2. AccountMoves /\ RowsKept /\ ServiceOK' /\ BrowserOK' /\ CountsOK' /\ PageOK
  BY <1>1, ServiceStands, BrowserStands, CountsStep DEF AccInv
<1>3. /\ form' \in [Devices -> Forms] /\ form'[d].status = "idle"
      /\ \A e \in Devices \ {d} : form'[e] = form[e]
  BY <1>1, <1>2 DEF PageOK, Forms
<1>4. PageOK'
  BY <1>1, <1>2, <1>3 DEF PageOK
<1>5. Asks(d, calls, {})
  BY <1>1 DEF Asks
<1> QED
  BY <1>1, <1>2, <1>3, <1>4, <1>5, VisitStep

LEMMA SaveInv == ASSUME AccInv, NEW d \in Devices, Save(d) PROVE AccInv'
<1>1. /\ UNCHANGED service /\ UNCHANGED browser /\ Ask(d)
      /\ calls' = calls \cup {Call(d, "save", form[d].draft)}
      /\ form' = [form EXCEPT ![d].status = "saving"]
      /\ UNCHANGED <<user, tab, busy, listed>>
  BY DEF Save, Send
<1>2. AccountMoves /\ RowsKept /\ ServiceOK' /\ BrowserOK' /\ CountsOK' /\ PageOK
  BY <1>1, ServiceStands, BrowserStands, CountsStep DEF AccInv
<1>3. /\ form' \in [Devices -> Forms] /\ form[d].draft \in Profiles
      /\ \A e \in Devices \ {d} : form'[e] = form[e]
  BY <1>1, <1>2 DEF PageOK, Forms
<1>4. PageOK'
  BY <1>1, <1>2, <1>3 DEF PageOK
<1>5. Asks(d, calls, {Call(d, "save", form[d].draft)})
  BY <1>1, <1>3 DEF Asks, Kinds, Args, ArgOK
<1>6. SaveAsked(d)'
  BY <1>1, CallIs DEF SaveAsked
<1> QED
  BY <1>1, <1>2, <1>3, <1>4, <1>5, <1>6, VisitStep

\* A control of the modal that waits for the request it sends.
LEMMA ControlStep ==
  ASSUME AccInv, NEW d \in Devices, NEW kind \in {"disconnect", "revoke", "others"},
         NEW arg, ArgOK(kind, arg), NEW control \in Providers \cup Sids \cup {"others"},
         control = IF kind = "others" THEN "others" ELSE arg,
         busy' = [busy EXCEPT ![d] = control], Send(d, kind, arg), Ask(d),
         UNCHANGED <<service, browser, user, tab, form, listed>>
  PROVE  AccInv'
<1>1. /\ UNCHANGED service /\ UNCHANGED browser /\ UNCHANGED <<user, tab, form, listed>>
      /\ calls' = calls \cup {Call(d, kind, arg)}
  BY DEF Send
<1>2. AccountMoves /\ RowsKept /\ ServiceOK' /\ BrowserOK' /\ CountsOK' /\ PageOK
  BY <1>1, ServiceStands, BrowserStands, CountsStep DEF AccInv
<1>3. /\ busy' \in [Devices -> Providers \cup Sids \cup {"others", Nothing}]
      /\ busy'[d] = control /\ \A e \in Devices \ {d} : busy'[e] = busy[e]
  BY <1>2 DEF PageOK
<1>4. PageOK'
  BY <1>1, <1>2, <1>3 DEF PageOK
<1>5. Asks(d, calls, {Call(d, kind, arg)})
  BY <1>1 DEF Asks, Kinds, ArgOK
<1>6. ControlAsked(d)'
  BY <1>1, <1>3, CallIs DEF ControlAsked
<1> QED
  BY <1>1, <1>2, <1>3, <1>4, <1>5, <1>6, VisitStep

LEMMA DisconnectInv ==
  ASSUME AccInv, NEW d \in Devices, NEW p \in Providers, Disconnect(d, p)
  PROVE  AccInv'
<1>1. ArgOK("disconnect", p)
  BY DEF ArgOK, Args
<1> QED
  BY <1>1, ControlStep DEF Disconnect

LEMMA RevokeInv ==
  ASSUME AccInv, NEW d \in Devices, NEW s \in Sids, Revoke(d, s)
  PROVE  AccInv'
<1>1. ArgOK("revoke", s)
  BY DEF ArgOK, Args
<1> QED
  BY <1>1, ControlStep DEF Revoke

LEMMA RevokeOthersInv == ASSUME AccInv, NEW d \in Devices, RevokeOthers(d) PROVE AccInv'
BY NothingArg, ControlStep DEF RevokeOthers

\* Every step a visitor takes.
LEMMA VisitInv == ASSUME AccInv, NEW d \in Devices, Visit(d) PROVE AccInv'
BY LoadInv, ReloadInv, SaveInv, SavedFadesInv, RevokeOthersInv, SignOutInv, OpenInv, EditInv,
   PickInv, DisconnectInv, ConnectInv, RevokeInv, SignInInv DEF Visit

-----------------------------------------------------------------------------
(* What the service does with a request.                                   *)

LEMMA AnsweredOK ==
  ASSUME NEW c, CallOK(c), LateOK(c), NEW answer \in {"ok", "error", "refused"}, NEW row \in Read,
         answer = "ok" => /\ c.kind \in {"me", "save", "disconnect"} => row \in Users
                          /\ c.kind = "sessions" => row \in SUBSET Sids
                          /\ c.late => c.kind = "logout",
         NEW k, k = Answered(c, answer, row)
  PROVE  CallOK(k) /\ LateOK(k) /\ SameRequest(k, c) /\ k.here = c.here
<1>1. c \in CallSet /\ "done" \in Stages
  BY DEF CallOK, Stages
<1>2. /\ k \in CallSet /\ k.id = c.id /\ k.device = c.device /\ k.kind = c.kind
      /\ k.arg = c.arg /\ k.sid = c.sid /\ k.late = c.late /\ k.here = c.here
      /\ k.stage = "done" /\ k.answer = answer /\ k.row = row
  BY <1>1 DEF Answered, CallSet
<1>3. CallOK(k)
  BY <1>2 DEF CallOK
<1>4. LateOK(k)
  <2>1. answer = "ok" /\ c.late => c.kind = "logout"
    OBVIOUS
  <2> QED
    BY <1>2, <2>1, "done" # "read" DEF LateOK
<1> QED
  BY <1>2, <1>3, <1>4 DEF SameRequest

\* A step of the service: one request moves on, in order.
LEMMA ServeStep ==
  ASSUME AccInv, NEW c \in calls, NEW k, SameRequest(k, c), k.here = c.here,
         CallOK(k), LateOK(k)', CallOK(k)', Becomes(c, k),
         AccountMoves, RowsKept, ServiceOK', UNCHANGED <<counts, browser, page>>
  PROVE  AccInv'
<1>1. /\ ServiceOK /\ CallsOK /\ BrowserOK /\ PageOK /\ CountsOK
      /\ \A e \in Devices : Waits(e)
  BY WaitsIs DEF AccInv
<1>2. UNCHANGED <<user, tab, form, busy, listed>>
  BY DEF page
<1>3. BrowserOK' /\ CountsOK' /\ PageOK'
  BY <1>1, <1>2, BrowserStands, CountsStep DEF PageOK, CountsOK, counts
<1>4. CallsOK'
  <2>1. PICK T : T = calls \ {c}
    OBVIOUS
  <2>2. IsFiniteSet(T) /\ \A b, g \in T : b.id = g.id => b = g
    BY <1>1, <2>1, FS_Subset DEF CallsOK
  <2>3. account \in Accounts
    BY <1>1 DEF ServiceOK
  <2>4. \A g \in T : CallOK(g)' /\ LateOK(g)'
    BY <1>1, <2>1, <2>3, CallStands DEF CallsOK
  <2>5. \A g \in T : g.id # k.id
    BY <1>1, <2>1 DEF CallsOK, SameRequest
  <2>6. PICK N : N = {k}
    OBVIOUS
  <2>7. calls' = T \cup N
    BY <2>1, <2>6 DEF Becomes
  <2> QED
    BY <2>2, <2>4, <2>5, <2>6, <2>7, AddCall
<1>5. ASSUME NEW e \in Devices PROVE Waits(e)'
  <2>1. CallsCarried(e)
    BY DEF CallsCarried, Becomes, SameRequest
  <2> QED
    BY <1>1, <1>2, <2>1, WaitsStands
<1>6. WaitsForAnAnswer'
  BY <1>5 DEF WaitsForAnAnswer, Waits, SaveAsked, ControlAsked
<1> QED
  BY <1>3, <1>4, <1>6 DEF AccInv

\* A request that moves on in order, to be served by ServeStep.
LEMMA ServeAnswer ==
  ASSUME AccInv, NEW c \in calls, NEW k, SameRequest(k, c), k.here = c.here,
         CallOK(k), LateOK(k), Becomes(c, k),
         AccountMoves, RowsKept, ServiceOK', UNCHANGED <<counts, browser, page>>
  PROVE  AccInv'
<1>1. account \in Accounts
  BY DEF AccInv, ServiceOK
<1>2. CallOK(k)' /\ LateOK(k)'
  BY <1>1, CallStands
<1> QED
  BY <1>2, ServeStep

LEMMA RefuseInv == ASSUME AccInv, NEW c \in calls, Refuse(c) PROVE AccInv'
<1>1. CallOK(c) /\ LateOK(c) /\ ServiceOK
  BY DEF AccInv, CallsOK
<1>2. AccountMoves /\ RowsKept /\ ServiceOK'
  BY <1>1, ServiceStands DEF Refuse
<1>3. Nothing \in Read
  BY DEF Read
<1>4. CASE Becomes(c, Unserved(c, "refused")) \/ Becomes(c, Unserved(c, "error"))
  <2>1. PICK answer \in {"refused", "error"} : Becomes(c, Unserved(c, answer))
    BY <1>4
  <2>2. PICK k : k = Answered(c, answer, Nothing)
    OBVIOUS
  <2>3. CallOK(k) /\ LateOK(k) /\ SameRequest(k, c) /\ k.here = c.here
    BY <1>1, <1>3, <2>2, AnsweredOK
  <2>4. Becomes(c, k)
    BY <2>1, <2>2 DEF Unserved
  <2> QED
    BY <1>2, <2>3, <2>4, ServeAnswer DEF Refuse
<1>5. CASE c.kind = "logout" /\ Becomes(c, Unserved(c, "ok"))
  <2>1. PICK k : k = Answered(c, "ok", Nothing)
    OBVIOUS
  <2>2. CallOK(k) /\ LateOK(k) /\ SameRequest(k, c) /\ k.here = c.here
    BY <1>1, <1>3, <1>5, <2>1, AnsweredOK
  <2>3. Becomes(c, k)
    BY <1>5, <2>1 DEF Unserved
  <2> QED
    BY <1>2, <2>2, <2>3, ServeAnswer DEF Refuse
<1> QED
  BY <1>4, <1>5 DEF Refuse

\* A request that is served has an open session: it did not leave with a revoked one.
LEMMA AdmittedIsNotLate ==
  ASSUME NEW c, LateOK(c), c.sid # NoSid, Admitted(c)
  PROVE  ~c.late
BY Zenon DEF LateOK, Admitted

LEMMA ReadUserInv == ASSUME AccInv, NEW c \in calls, ReadUser(c) PROVE AccInv'
<1>1. CallOK(c) /\ LateOK(c) /\ ServiceOK /\ c \in CallSet
  BY DEF AccInv, CallsOK, CallOK
<1>2. AccountMoves /\ RowsKept /\ ServiceOK'
  BY <1>1, ServiceStands DEF ReadUser
<1>3. PICK k : k = [c EXCEPT !.stage = "read", !.row = account]
  OBVIOUS
<1>4. c.stage = "sent" /\ c.kind \in RowKinds /\ c.answer = Nothing
  BY <1>1 DEF ReadUser, CallOK
<1>5. account \in Read /\ "read" \in Stages /\ account \in Accounts /\ account.stamp \in Nat
  BY <1>1 DEF ServiceOK, Read, Stages, Accounts
<1>6. /\ k \in CallSet /\ k.id = c.id /\ k.device = c.device /\ k.kind = c.kind
      /\ k.arg = c.arg /\ k.sid = c.sid /\ k.late = c.late /\ k.here = c.here
      /\ k.stage = "read" /\ k.answer = Nothing /\ k.row = account
  BY <1>1, <1>3, <1>4, <1>5 DEF CallSet
<1>7. CallOK(k)
  BY <1>1, <1>4, <1>5, <1>6, NothingAssumption DEF CallOK
<1>8. LateOK(k)
  <2>1. ~c.late
    BY <1>1, AdmittedIsNotLate DEF ReadUser
  <2> QED
    BY <1>1, <1>6, <2>1 DEF LateOK
<1>9. Becomes(c, k)
  BY <1>3 DEF ReadUser
<1>10. SameRequest(k, c)
  BY <1>6 DEF SameRequest
<1> QED
  BY <1>2, <1>6, <1>7, <1>8, <1>9, <1>10, ServeAnswer DEF ReadUser

\* The sessions an endpoint closes; the row of the account is only read.
LEMMA LookInv == ASSUME AccInv, NEW c \in calls, Look(c) PROVE AccInv'
<1>1. CallOK(c) /\ LateOK(c) /\ ServiceOK /\ c \in CallSet /\ ~c.late
  BY AdmittedIsNotLate DEF AccInv, CallsOK, CallOK, Look
<1>2. /\ AccountMoves /\ account' = account /\ account \in Accounts
      /\ rows' = [s \in Sids |-> IF s \in Closed(c) THEN "revoked" ELSE rows[s]]
  BY <1>1 DEF Look, ServiceOK, AccountMoves
<1>3. RowsKept /\ ServiceOK'
  BY <1>1, <1>2 DEF RowsKept, ServiceOK, SignInMethodRemains
<1>4. PICK row : row = CASE c.kind = "me" -> account.user
                         [] c.kind = "sessions" -> OpenRows
                         [] OTHER -> Nothing
  OBVIOUS
<1>5. account.user \in Users /\ OpenRows \in SUBSET Sids
  BY <1>2 DEF Accounts, OpenRows
<1>6. /\ row \in Read /\ (c.kind = "me" => row \in Users)
      /\ (c.kind = "sessions" => row \in SUBSET Sids)
  BY <1>4, <1>5 DEF Read
<1>7. c.kind \notin {"save", "disconnect"}
  BY DEF Look, RowKinds
<1>8. PICK k : k = Answered(c, "ok", row)
  OBVIOUS
<1>9. CallOK(k) /\ LateOK(k) /\ SameRequest(k, c) /\ k.here = c.here
  BY <1>1, <1>6, <1>7, <1>8, AnsweredOK
<1>10. Becomes(c, k)
  BY <1>4, <1>8 DEF Look
<1> QED
  BY <1>2, <1>3, <1>9, <1>10, ServeAnswer DEF Look

\* Of two ways to sign in or more, one remains when one is removed.
LEMMA OneRemains ==
  ASSUME NEW logins \in SUBSET Providers, ~(Cardinality(logins) <= 1), NEW p
  PROVE  logins \ {p} # {}
<1> SUFFICES ASSUME logins \subseteq {p} PROVE FALSE
  OBVIOUS
<1>1. IsFiniteSet({p}) /\ Cardinality({p}) = 1
  BY FS_Singleton
<1>2. Cardinality(logins) <= Cardinality({p})
  BY <1>1, FS_Subset
<1> QED
  BY <1>1, <1>2

\* A handler that answers with the user it holds, having updated the row or not.
LEMMA HandleStep ==
  ASSUME AccInv, NEW c \in calls, c.stage = "read",
         account' = account \/ \E u \in Users, n \in Nat :
             /\ u.logins # {}
             /\ account' = [user |-> u, security |-> n, stamp |-> account.stamp + 1],
         \/ \E u \in Users : Becomes(c, AnsweredWith(c, u))
         \/ Becomes(c, Unserved(c, "error"))
         \/ c.kind = "connect" /\ Becomes(c, Unserved(c, "ok")),
         UNCHANGED rows, UNCHANGED <<counts, browser, page>>
  PROVE  AccInv'
<1>1. CallOK(c) /\ LateOK(c) /\ ServiceOK /\ account \in Accounts
  BY DEF AccInv, CallsOK, ServiceOK
<1>2. ~c.late
  BY <1>1, Zenon DEF LateOK
<1>3. AccountMoves /\ account' \in Accounts /\ account'.user.logins # {}
  <2>1. CASE account' = account
    BY <1>1, <2>1 DEF AccountMoves, ServiceOK, SignInMethodRemains
  <2>2. CASE \E u \in Users, n \in Nat :
                /\ u.logins # {}
                /\ account' = [user |-> u, security |-> n, stamp |-> account.stamp + 1]
    BY <1>1, <2>2, UpdatedAccount
  <2> QED
    BY <2>1, <2>2
<1>4. RowsKept /\ ServiceOK'
  BY <1>1, <1>3 DEF RowsKept, ServiceOK, SignInMethodRemains
<1>5. \E answer \in {"ok", "error"}, row \in Read :
        /\ Becomes(c, Answered(c, answer, row))
        /\ answer = "ok" => row \in Users \/ c.kind = "connect"
  <2>1. CASE \E u \in Users : Becomes(c, AnsweredWith(c, u))
    <3>1. PICK u \in Users : Becomes(c, AnsweredWith(c, u))
      BY <2>1
    <3>2. PICK row : row = [u EXCEPT !.logins = account'.user.logins]
      OBVIOUS
    <3>3. account'.user \in Users
      BY <1>3 DEF Accounts
    <3>4. row \in Users /\ row \in Read
      BY <3>2, <3>3 DEF Users, Read
    <3>5. Becomes(c, Answered(c, "ok", row))
      BY <3>1, <3>2 DEF AnsweredWith
    <3> QED
      BY <3>4, <3>5
  <2>2. CASE Becomes(c, Unserved(c, "error"))
    BY <2>2 DEF Unserved, Read
  <2>3. CASE c.kind = "connect" /\ Becomes(c, Unserved(c, "ok"))
    BY <2>3 DEF Unserved, Read
  <2> QED
    BY <2>1, <2>2, <2>3
<1>6. PICK answer \in {"ok", "error"}, row \in Read :
        /\ Becomes(c, Answered(c, answer, row))
        /\ answer = "ok" => row \in Users \/ c.kind = "connect"
  BY <1>5
<1>7. c.kind \in RowKinds
  BY <1>1 DEF CallOK
<1>8. PICK k : k = Answered(c, answer, row)
  OBVIOUS
<1>9. CallOK(k) /\ LateOK(k) /\ SameRequest(k, c) /\ k.here = c.here
  BY <1>1, <1>2, <1>6, <1>7, <1>8, AnsweredOK DEF RowKinds
<1> QED
  BY <1>3, <1>4, <1>6, <1>8, <1>9, ServeAnswer

\* The row a handler holds is the account if no other update came between.
LEMMA HeldRow ==
  ASSUME AccInv, NEW c \in calls, c.stage = "read"
  PROVE  /\ c.row \in Accounts /\ c.row.user \in Users /\ account \in Accounts
         /\ account.security \in Nat /\ account.user \in Users /\ account.user.logins # {}
         /\ ArgOK(c.kind, c.arg) /\ (Unraced(c) => c.row = account)
<1>1. CallOK(c) /\ account \in Accounts /\ account.user.logins # {}
  BY DEF AccInv, CallsOK, ServiceOK, SignInMethodRemains
<1>2. c.row \in Accounts /\ (Unraced(c) => c.row = account) /\ ArgOK(c.kind, c.arg)
  BY <1>1 DEF CallOK, Unraced
<1> QED
  BY <1>1, <1>2 DEF Accounts

LEMMA SaveProfileInv ==
  ASSUME AccInv, NEW c \in calls, c.stage = "read", SaveProfile(c),
         UNCHANGED <<counts, browser, page>>
  PROVE  AccInv'
<1>1. /\ c.row.user \in Users /\ account \in Accounts /\ account.user.logins # {}
      /\ account.security \in Nat /\ ArgOK(c.kind, c.arg) /\ (Unraced(c) => c.row = account)
  BY HeldRow
<1>2. PICK u : u = IF c.kind = "save" THEN Patched(c.row.user, c.arg)
                                      ELSE [c.row.user EXCEPT !.theme = c.arg]
  OBVIOUS
<1>3. u \in Users /\ u.logins = c.row.user.logins
  <2>1. CASE c.kind = "save"
    <3>1. c.arg.name \in Names /\ c.arg.link \in Links \cup {NoLink}
      BY <1>1, <2>1 DEF ArgOK, Profiles
    <3> QED
      BY <1>1, <1>2, <2>1, <3>1 DEF Patched, Users
  <2>2. CASE c.kind # "save"
    <3>1. c.arg \in Themes \cup {System}
      BY <1>1, <2>2 DEF ArgOK, SaveProfile
    <3> QED
      BY <1>1, <1>2, <2>2, <3>1 DEF Users
  <2> QED
    BY <2>1, <2>2
<1>4. UpdateUser(c, u) /\ Becomes(c, AnsweredWith(c, u)) /\ UNCHANGED rows
  BY <1>2 DEF SaveProfile
<1>5. account' = account \/ \E v \in Users, n \in Nat :
        /\ v.logins # {}
        /\ account' = [user |-> v, security |-> n, stamp |-> account.stamp + 1]
  <2>1. CASE Unraced(c)
    <3>1. account' = [user |-> u, security |-> account.security, stamp |-> account.stamp + 1]
      BY <1>1, <1>4, <2>1 DEF UpdateUser, Accounts
    <3> QED
      BY <1>1, <1>3, <2>1, <3>1
  <2>2. CASE ~Unraced(c)
    BY <1>4, <2>2 DEF UpdateUser
  <2> QED
    BY <2>1, <2>2
<1> QED
  BY <1>3, <1>4, <1>5, HandleStep

LEMMA RemoveConnectionInv ==
  ASSUME AccInv, NEW c \in calls, c.stage = "read", RemoveConnection(c),
         UNCHANGED <<counts, browser, page>>
  PROVE  AccInv'
<1>1. /\ c.row.user \in Users /\ account \in Accounts /\ account.user \in Users
      /\ account.security \in Nat /\ (Unraced(c) => c.row = account)
  BY HeldRow
<1>2. CASE c.arg \notin c.row.user.logins \/ LastMethod(c)
  <2>1. Becomes(c, Unserved(c, "error")) /\ account' = account /\ UNCHANGED rows
    BY <1>2 DEF RemoveConnection
  <2> QED
    BY <2>1, HandleStep
<1>3. CASE ~(c.arg \notin c.row.user.logins \/ LastMethod(c))
  <2>1. /\ Becomes(c, AnsweredWith(c, c.row.user)) /\ UNCHANGED rows
        /\ account' = IF Unraced(c)
                      THEN [account EXCEPT !.user.logins = @ \ {c.arg},
                                           !.security = @ + 1, !.stamp = @ + 1]
                      ELSE account
    BY <1>3 DEF RemoveConnection
  <2>2. account' = account \/ \E v \in Users, n \in Nat :
          /\ v.logins # {}
          /\ account' = [user |-> v, security |-> n, stamp |-> account.stamp + 1]
    <3>1. CASE Unraced(c)
      <4>1. PICK u : u = [account.user EXCEPT !.logins = @ \ {c.arg}]
        OBVIOUS
      <4>2. account.user.logins \ {c.arg} # {}
        <5>1. account.user.logins \in SUBSET Providers
          BY <1>1 DEF Users
        <5>2. ~(Cardinality(account.user.logins) <= 1)
          BY <1>1, <1>3, <3>1 DEF LastMethod
        <5> QED
          BY <5>1, <5>2, OneRemains
      <4>3. u \in Users /\ u.logins # {}
        BY <1>1, <4>1, <4>2 DEF Users
      <4>4. account' = [user |-> u, security |-> account.security + 1,
                        stamp |-> account.stamp + 1]
        BY <1>1, <2>1, <3>1, <4>1 DEF Accounts
      <4>5. account.security + 1 \in Nat
        BY <1>1
      <4> QED
        BY <4>3, <4>4, <4>5
    <3>2. CASE ~Unraced(c)
      BY <2>1, <3>2
    <3> QED
      BY <3>1, <3>2
  <2> QED
    BY <1>1, <2>1, <2>2, HandleStep
<1> QED
  BY <1>2, <1>3

LEMMA AddConnectionInv ==
  ASSUME AccInv, NEW c \in calls, c.stage = "read", AddConnection(c),
         UNCHANGED <<counts, browser, page>>
  PROVE  AccInv'
<1>1. /\ account \in Accounts /\ account.user \in Users /\ account.security \in Nat
      /\ ArgOK(c.kind, c.arg)
  BY HeldRow
<1>2. /\ c.kind = "connect" /\ Becomes(c, Unserved(c, "ok")) /\ UNCHANGED rows
      /\ account' = IF c.arg \notin account.user.logins /\ Unraced(c)
                    THEN [account EXCEPT !.user.logins = @ \cup {c.arg}, !.stamp = @ + 1]
                    ELSE account
  BY DEF AddConnection
<1>3. c.arg \in Providers
  BY <1>1, <1>2 DEF ArgOK
<1>4. account' = account \/ \E v \in Users, n \in Nat :
        /\ v.logins # {}
        /\ account' = [user |-> v, security |-> n, stamp |-> account.stamp + 1]
  <2>1. CASE c.arg \notin account.user.logins /\ Unraced(c)
    <3>1. PICK u : u = [account.user EXCEPT !.logins = @ \cup {c.arg}]
      OBVIOUS
    <3>2. u \in Users /\ u.logins # {}
      BY <1>1, <1>3, <3>1 DEF Users
    <3>3. account' = [user |-> u, security |-> account.security, stamp |-> account.stamp + 1]
      BY <1>1, <1>2, <2>1, <3>1 DEF Accounts
    <3> QED
      BY <1>1, <3>2, <3>3
  <2>2. CASE ~(c.arg \notin account.user.logins /\ Unraced(c))
    BY <1>2, <2>2
  <2> QED
    BY <2>1, <2>2
<1> QED
  BY <1>2, <1>4, HandleStep

-----------------------------------------------------------------------------
(* What an answer, or the loss of one, does to the page.                   *)

\* An answer as the page sees it: one of the requests under way, perhaps lost.
Seen(a, c) ==
    /\ SameRequest(a, c) /\ a.here = c.here
    /\ a.answer = "ok" => /\ a.kind \in {"me", "save", "disconnect"} => a.row \in Users
                          /\ a.kind = "sessions" => a.row \in SUBSET Sids

LEMMA DeliveredIsSeen ==
  ASSUME AccInv, NEW c \in calls
  PROVE  Seen(c, c) /\ Seen(Unserved(c, "lost"), c)
<1>1. CallOK(c) /\ c \in CallSet
  BY DEF AccInv, CallsOK, CallOK
<1>2. Seen(c, c)
  BY <1>1 DEF Seen, SameRequest, CallOK
<1>3. PICK a : a = Unserved(c, "lost")
  OBVIOUS
<1>4. /\ a.id = c.id /\ a.device = c.device /\ a.kind = c.kind /\ a.arg = c.arg
      /\ a.here = c.here /\ a.answer = "lost"
  BY <1>1, <1>3 DEF Unserved, Answered, CallSet
<1> QED
  BY <1>2, <1>3, <1>4 DEF Seen, SameRequest

\* The requests left: not the one answered, and the tabs that wait for others keep theirs.
LEMMA ArrivesCalls ==
  ASSUME AccInv, NEW c \in calls, NEW a, Seen(a, c), Arrives(a)
  PROVE  /\ CallsOK'
         /\ \A e \in Devices : e # a.device => CallsCarried(e)
         /\ ~ReloadedBy(a) => \A g \in calls : g # c => g \in calls'
<1> DEFINE d == a.device
<1>1. CallsOK /\ ServiceOK /\ BrowserOK /\ d \in Devices /\ a.id = c.id /\ c.device = d
  BY DEF AccInv, CallsOK, CallOK, CallSet, Seen, SameRequest
<1>2. PICK S : S = IF ReloadedBy(a) THEN Abandoned(d) ELSE calls
  OBVIOUS
<1>3. /\ IsFiniteSet(S) /\ \A b, k \in S : b.id = k.id => b = k
      /\ \A k \in S : CallOK(k) /\ LateOK(k) /\ \E g \in calls : SameRequest(k, g)
      /\ \A g \in calls : S = calls \/ g.device # d => g \in S
  BY <1>1, <1>2, LeftRequests
<1>4. PICK T : T = {k \in S : k.id # a.id}
  OBVIOUS
<1>5. PICK N : N = IF Relists(a) THEN {Call(d, "sessions", Nothing)} ELSE {}
  OBVIOUS
<1>6. calls' = T \cup N /\ UNCHANGED service
  BY <1>2, <1>4, <1>5 DEF Arrives
<1>7. AccountMoves /\ RowsKept /\ account \in Accounts
  BY <1>1, <1>6, ServiceStands DEF ServiceOK
<1>8. IsFiniteSet(T) /\ \A b, k \in T : b.id = k.id => b = k
  BY <1>3, <1>4, FS_Subset
<1>9. \A k \in T : CallOK(k)' /\ LateOK(k)'
  BY <1>3, <1>4, <1>7, CallStands
<1>10. N = {} \/ \E k : N = {k} /\ CallOK(k)' /\ LateOK(k)' /\ \A b \in T : b.id # k.id
  <2> SUFFICES ASSUME Relists(a)
               PROVE  \E k : N = {k} /\ CallOK(k)' /\ LateOK(k)' /\ \A b \in T : b.id # k.id
    BY <1>5
  <2>1. PICK k : k = Call(d, "sessions", Nothing)
    OBVIOUS
  <2>2. CallOK(k) /\ LateOK(k) /\ \A g \in calls : g.id # k.id
    BY <1>1, <2>1, NothingArg, NewCall
  <2>3. CallOK(k)' /\ LateOK(k)'
    BY <1>7, <2>2, CallStands
  <2>4. \A b \in T : b.id # k.id
    BY <1>3, <1>4, <2>2 DEF SameRequest
  <2> QED
    BY <1>5, <2>1, <2>3, <2>4
<1>11. CallsOK'
  BY <1>6, <1>8, <1>9, <1>10, AddCall
<1>12. \A g \in calls : g # c /\ g \in S => g \in calls'
  BY <1>1, <1>4, <1>6 DEF CallsOK
<1>13. ASSUME NEW e \in Devices, e # d PROVE CallsCarried(e)
  BY <1>1, <1>3, <1>12, <1>13 DEF CallsCarried
<1> QED
  BY <1>2, <1>11, <1>12, <1>13

\* The page and the cookies after an answer.
LEMMA ArrivesBrowser ==
  ASSUME AccInv, NEW c \in calls, NEW a, Seen(a, c), Arrives(a)
  PROVE  BrowserOK' /\ \A d \in picked : theme'[d] = theme[d]
<1> DEFINE d == a.device
<1>1. /\ BrowserOK /\ d \in Devices /\ UNCHANGED <<service, picked>>
      /\ cookie' = [cookie EXCEPT ![d] =
                      IF SignedOutBy(a) THEN [sid |-> NoSid, security |-> 0] ELSE @]
      /\ theme' = [theme EXCEPT ![d] =
                      IF LearnsTheTheme(a) THEN Adopted(d, a.row.theme) ELSE @]
  BY DEF AccInv, CallsOK, CallOK, CallSet, Seen, SameRequest, Arrives
<1>2. cookie' \in [Devices -> Cookies]
  <2>1. [sid |-> NoSid, security |-> 0] \in Cookies
    BY DEF Cookies
  <2> QED
    BY <1>1, <2>1 DEF BrowserOK
<1>3. ASSUME NEW e \in Devices, cookie'[e].sid # NoSid PROVE rows'[cookie'[e].sid] # "unused"
  <2>1. cookie'[e] = cookie[e]
    BY <1>1, <1>3 DEF BrowserOK
  <2> QED
    BY <1>1, <1>3, <2>1 DEF BrowserOK, service
<1>4. /\ theme' \in [Devices -> Themes \cup {System, Nothing}]
      /\ \A e \in picked : theme'[e] = theme[e]
  <2>1. CASE LearnsTheTheme(a)
    <3>1. a.row \in Users
      BY <2>1 DEF LearnsTheTheme, Seen
    <3>2. a.row.theme \in Themes \cup {System}
      BY <3>1 DEF Users
    <3>3. Adopted(d, a.row.theme) \in Themes \cup {System, Nothing}
      BY <1>1, <3>2 DEF Adopted, BrowserOK
    <3>4. d \in picked => Adopted(d, a.row.theme) = theme[d]
      BY <1>1 DEF Adopted, BrowserOK
    <3> QED
      BY <1>1, <2>1, <3>3, <3>4 DEF BrowserOK
  <2>2. CASE ~LearnsTheTheme(a)
    BY <1>1, <2>2 DEF BrowserOK
  <2> QED
    BY <2>1, <2>2
<1>5. \A e \in picked : theme'[e] # Nothing
  BY <1>1, <1>4 DEF BrowserOK
<1> QED
  BY <1>1, <1>2, <1>3, <1>4, <1>5 DEF BrowserOK

LEMMA ArrivesPage ==
  ASSUME AccInv, NEW c \in calls, NEW a, Seen(a, c), Arrives(a)
  PROVE  PageOK'
<1> DEFINE d == a.device
<1>1. /\ PageOK /\ d \in Devices
      /\ user' = [user EXCEPT ![d] = IF ReloadedBy(a) THEN Loading ELSE Shown(a)]
  BY DEF AccInv, CallsOK, CallOK, CallSet, Seen, SameRequest, Arrives
<1>2. user' \in [Devices -> Users \cup {SignedOut, Loading}]
  <2>1. user[d] \in Users \cup {SignedOut, Loading}
    BY <1>1 DEF PageOK
  <2>2. Shown(a) \in Users \cup {SignedOut, Loading}
    <3>1. \/ Shown(a) \in {user[d], SignedOut}
          \/ /\ Shown(a) = a.row /\ a.answer = "ok"
             /\ a.kind \in {"me", "save", "disconnect"}
      BY DEF Shown
    <3> QED
      BY <2>1, <3>1 DEF Seen
  <2> QED
    BY <1>1, <2>2 DEF PageOK
<1>3. CASE ReloadedBy(a)
  <2>1. Closing(d)
    BY <1>3 DEF Arrives
  <2> QED
    BY <1>1, <1>2, <2>1, ClosingIs DEF PageOK
<1>4. CASE ~ReloadedBy(a)
  <2>1. /\ form' = [form EXCEPT ![d] = FormAfter(a)]
        /\ busy' = [busy EXCEPT ![d] = BusyAfter(a)]
        /\ listed' = [listed EXCEPT ![d] = ListAfter(a)] /\ tab' = tab
    BY <1>4 DEF Arrives
  <2>2. FormAfter(a) \in Forms
    <3>1. form[d] \in Forms /\ [form[d] EXCEPT !.status = "idle"] \in Forms
      BY <1>1 DEF PageOK, Forms
    <3>2. ASSUME a.kind = "save", a.answer = "ok"
          PROVE  [draft |-> ProfileOf(a.row), status |-> "saved", timer |-> TRUE] \in Forms
      BY <3>2, FreshFormType DEF Seen, Forms
    <3> QED
      BY <3>1, <3>2 DEF FormAfter
  <2>3. BusyAfter(a) \in Providers \cup Sids \cup {"others", Nothing}
    BY <1>1 DEF BusyAfter, PageOK
  <2>4. ListAfter(a) \in SUBSET Sids
    <3>1. listed[d] \in SUBSET Sids
      BY <1>1 DEF PageOK
    <3> QED
      BY <3>1 DEF ListAfter, Seen
  <2> QED
    BY <1>1, <1>2, <2>1, <2>2, <2>3, <2>4 DEF PageOK
<1> QED
  BY <1>3, <1>4

\* Whoever still waits waits for another request than the one answered.
LEMMA ArrivesWaits ==
  ASSUME AccInv, NEW c \in calls, NEW a, Seen(a, c), Arrives(a)
  PROVE  WaitsForAnAnswer'
<1> DEFINE d == a.device
<1>1. /\ PageOK /\ d \in Devices /\ c.device = d /\ c.kind = a.kind /\ c.arg = a.arg
      /\ c.here = a.here /\ \A e \in Devices : Waits(e)
  BY WaitsIs DEF AccInv, CallsOK, CallOK, CallSet, Seen, SameRequest
<1>2. /\ \A e \in Devices : e # d => CallsCarried(e)
      /\ ~ReloadedBy(a) => \A g \in calls : g # c => g \in calls'
  BY ArrivesCalls
<1>3. ASSUME NEW e \in Devices, e # d PROVE Waits(e)'
  <2>1. form'[e] = form[e] /\ busy'[e] = busy[e]
    <3>1. CASE ReloadedBy(a)
      <4>1. Closing(d)
        BY <3>1 DEF Arrives
      <4> QED
        BY <1>1, <1>3, <4>1, ClosingIs
    <3>2. CASE ~ReloadedBy(a)
      <4>1. /\ form' = [form EXCEPT ![d] = FormAfter(a)]
            /\ busy' = [busy EXCEPT ![d] = BusyAfter(a)]
        BY <3>2 DEF Arrives
      <4> QED
        BY <1>1, <1>3, <4>1 DEF PageOK
    <3> QED
      BY <3>1, <3>2
  <2> QED
    BY <1>1, <1>2, <1>3, <2>1, WaitsStands
<1>4. Waits(d)'
  <2>1. CASE ReloadedBy(a)
    <3>1. Closing(d)
      BY <2>1 DEF Arrives
    <3> QED
      BY <1>1, <3>1, ClosingIs DEF Waits
  <2>2. CASE ~ReloadedBy(a)
    <3>1. form'[d] = FormAfter(a) /\ busy'[d] = BusyAfter(a)
      BY <1>1, <2>2 DEF Arrives, PageOK
    <3>2. \A g \in calls : g # c => g \in calls'
      BY <1>2, <2>2
    <3>3. ASSUME form'[d].status = "saving" PROVE SaveAsked(d)'
      <4>1. form'[d] = form[d] /\ ~(a.kind = "save" /\ a.here = "tab")
        <5>1. form[d] \in Forms
          BY <1>1 DEF PageOK
        <5>2. [form[d] EXCEPT !.status = "idle"].status = "idle"
          BY <5>1 DEF Forms
        <5> QED
          BY <3>1, <3>3, <5>2 DEF FormAfter
      <4>2. PICK g \in calls : g.device = d /\ g.kind = "save" /\ g.here = "tab"
        BY <1>1, <3>3, <4>1 DEF Waits, SaveAsked
      <4> QED
        BY <1>1, <3>2, <4>1, <4>2 DEF SaveAsked
    <3>4. ASSUME busy'[d] # Nothing PROVE ControlAsked(d)'
      <4>1. /\ busy'[d] = busy[d]
            /\ ~(a.kind \in {"disconnect", "revoke", "others"} /\ a.here = "tab")
        BY <3>1, <3>4 DEF BusyAfter
      <4>2. PICK g \in calls : /\ g.device = d /\ g.here = "tab"
                               /\ \/ g.kind = "others" /\ busy[d] = "others"
                                  \/ g.kind \in {"disconnect", "revoke"} /\ g.arg = busy[d]
        BY <1>1, <3>4, <4>1 DEF Waits, ControlAsked
      <4>3. g \in calls'
        BY <1>1, <3>2, <4>1, <4>2
      <4> QED
        BY <4>1, <4>2, <4>3 DEF ControlAsked
    <3> QED
      BY <3>3, <3>4 DEF Waits
  <2> QED
    BY <2>1, <2>2
<1> QED
  BY <1>3, <1>4 DEF WaitsForAnAnswer, Waits, SaveAsked, ControlAsked

LEMMA ArrivesInv ==
  ASSUME AccInv, NEW c \in calls, NEW a, Seen(a, c), Arrives(a)
  PROVE  AccInv'
<1>1. CallsOK' /\ BrowserOK' /\ PageOK' /\ WaitsForAnAnswer'
  BY ArrivesCalls, ArrivesBrowser, ArrivesPage, ArrivesWaits
<1>2. UNCHANGED service /\ UNCHANGED counts
  BY DEF Arrives
<1>3. ServiceOK' /\ CountsOK'
  BY <1>2, ServiceStands DEF AccInv, CountsOK, counts
<1> QED
  BY <1>1, <1>3 DEF AccInv

-----------------------------------------------------------------------------
(* The inductive invariant.                                                *)

LEMMA InitAccInv == Init => AccInv
<1> SUFFICES ASSUME Init PROVE AccInv
  OBVIOUS
<1>1. FirstSids \in [Devices -> Sids]
  BY SessionsAssumption DEF FirstSids
<1>2. TypicalUser \in Users /\ TypicalUser.logins # {}
  <2>1. PICK name \in Names, link \in Links : link # NoLink
    BY DataAssumption
  <2>2. PICK u : u = [name |-> name, link |-> link, theme |-> System, logins |-> Providers]
    OBVIOUS
  <2>3. u \in Users /\ u.logins = Providers /\ u.theme = System /\ u.link # NoLink
    BY <2>1, <2>2 DEF Users
  <2>4. TypicalUser \in Users /\ TypicalUser.logins = Providers
    BY <2>3 DEF TypicalUser
  <2> QED
    BY <2>4, ProvidersAssumption
<1>3. ServiceOK
  BY <1>2 DEF Init, ServiceOK, SignInMethodRemains, Accounts
<1>4. CallsOK
  BY FS_EmptySet DEF Init, CallsOK
<1>5. BrowserOK
  BY <1>1 DEF Init, BrowserOK, Cookies
<1>6. PageOK
  BY <1>2, FreshFormType DEF Init, PageOK, Tabs
<1>7. CountsOK
  BY BoundsAssumption DEF Init, CountsOK
<1>8. WaitsForAnAnswer
  BY DEF Init, WaitsForAnAnswer, FreshForm
<1> QED
  BY <1>3, <1>4, <1>5, <1>6, <1>7, <1>8 DEF AccInv

LEMMA NextAccInv == AccInv /\ [Next]_vars => AccInv'
<1> SUFFICES ASSUME AccInv, [Next]_vars PROVE AccInv'
  OBVIOUS
<1>1. ASSUME NEW d \in Devices, Visit(d) PROVE AccInv'
  BY <1>1, VisitInv
<1>2. ASSUME NEW c \in calls, Serve(c) PROVE AccInv'
  <2>1. CASE Refuse(c)
    BY <2>1, RefuseInv
  <2>2. CASE ReadUser(c)
    BY <2>2, ReadUserInv
  <2>3. CASE Handle(c)
    <3>1. c.stage = "read" /\ UNCHANGED <<counts, browser, page>>
      BY <2>3 DEF Handle
    <3> QED
      BY <2>3, <3>1, SaveProfileInv, RemoveConnectionInv, AddConnectionInv DEF Handle
  <2>4. CASE Look(c)
    BY <2>4, LookInv
  <2>5. CASE Deliver(c)
    BY <2>5, DeliveredIsSeen, ArrivesInv DEF Deliver
  <2> QED
    BY <1>2, <2>1, <2>2, <2>3, <2>4, <2>5 DEF Serve
<1>3. ASSUME NEW c \in calls, Lose(c) PROVE AccInv'
  BY <1>3, DeliveredIsSeen, ArrivesInv DEF Lose
<1>4. CASE UNCHANGED vars
  <2>1. UNCHANGED <<account, rows, calls, asked, moves, cookie, theme, picked,
                    user, tab, form, busy, listed>>
    BY <1>4 DEF vars, service, counts, browser, page
  <2>2. ServiceOK' /\ BrowserOK' /\ PageOK' /\ CountsOK' /\ WaitsForAnAnswer'
    BY <2>1 DEF AccInv, ServiceOK, SignInMethodRemains, BrowserOK, PageOK, CountsOK,
                WaitsForAnAnswer
  <2>3. CallsOK'
    BY <2>1 DEF AccInv, CallsOK, CallOK, LateOK
  <2> QED
    BY <2>2, <2>3 DEF AccInv
<1> QED
  BY <1>1, <1>2, <1>3, <1>4 DEF Next

LEMMA AccountInvariant == AccountSpec => []AccInv
BY InitAccInv, NextAccInv, PTL DEF AccountSpec

\* Every state of an account, its sessions and its browsers is well formed (the records of
\* Program.cs, session.ts and the settings modal).
THEOREM AccountTypeCorrect == AccountSpec => []TypeOK
<1>1. AccInv => TypeOK
  BY DEF AccInv, ServiceOK, CallsOK, CallOK, CallSet, BrowserOK, PageOK, CountsOK, TypeOK
<1> QED
  BY <1>1, AccountInvariant, PTL

\* However the disconnections of any number of browsers interleave, one way to sign in
\* remains: each handler counts the logins of a row it has read, and the concurrency stamp
\* drops its write when another update came between (Program.cs, DELETE /auth/connections).
THEOREM LastSignInMethodRemains == AccountSpec => []SignInMethodRemains
<1>1. AccInv => SignInMethodRemains
  BY DEF AccInv, ServiceOK
<1> QED
  BY <1>1, AccountInvariant, PTL

\* A request that left a browser after its session was revoked never reads or writes the
\* account, and is answered as served only if it was a sign-out (OnValidatePrincipal).
THEOREM RevokedSessionsAreRefused == AccountSpec => []RevokedIsRefused
<1>1. AccInv => RevokedIsRefused
  BY Zenon DEF AccInv, CallsOK, LateOK, RevokedIsRefused
<1> QED
  BY <1>1, AccountInvariant, PTL

\* Whatever is lost, reloaded, closed or reopened, a disabled control of the modal has a
\* request under way whose answer, or loss, frees it (SettingsModal).
THEOREM NoControlIsStranded == AccountSpec => []WaitsForAnAnswer
<1>1. AccInv => WaitsForAnAnswer
  BY DEF AccInv
<1> QED
  BY <1>1, AccountInvariant, PTL

\* No answer of the service changes the theme of a browser in which the visitor has picked
\* one; only another pick there does (PreferencesProvider).
THEOREM PickedThemesStand == AccountSpec => PicksStand
<1>1. ASSUME AccInv, [Next]_vars, NEW d \in picked, theme'[d] # theme[d]
      PROVE  \E t \in Themes \cup {System} : Pick(d, t)
  <2>1. picked \subseteq Devices /\ theme \in [Devices -> Themes \cup {System, Nothing}]
    BY <1>1 DEF AccInv, BrowserOK
  <2>2. ASSUME NEW e \in Devices, Visit(e) PROVE \E t \in Themes \cup {System} : Pick(d, t)
    <3>1. theme' = theme \/ \E t \in Themes \cup {System} : Pick(e, t)
      BY <2>2 DEF Visit, browser, Load, Reload, Open, Edit, Save, SavedFades, Disconnect,
                  Connect, Revoke, RevokeOthers, SignOut, SignIn
    <3>2. PICK t \in Themes \cup {System} : Pick(e, t)
      BY <1>1, <3>1
    <3>3. e = d
      BY <1>1, <2>1, <3>2 DEF Pick, SetThemeChoice
    <3> QED
      BY <3>2, <3>3
  <2>3. ASSUME NEW c \in calls, Serve(c) \/ Lose(c) PROVE FALSE
    <3>1. UNCHANGED browser \/ \E a : Seen(a, c) /\ Arrives(a)
      BY <1>1, <2>3, DeliveredIsSeen DEF Serve, Refuse, ReadUser, Handle, Look, Deliver, Lose
    <3>2. theme'[d] = theme[d]
      BY <1>1, <3>1, ArrivesBrowser DEF browser
    <3> QED
      BY <1>1, <3>2
  <2>4. CASE UNCHANGED vars
    BY <1>1, <2>4 DEF vars, browser
  <2> QED
    BY <1>1, <2>2, <2>3, <2>4 DEF Next
<1>2. AccInv /\ [Next]_vars =>
        [\A d \in picked : theme'[d] # theme[d] =>
            \E t \in Themes \cup {System} : Pick(d, t)]_vars
  BY <1>1
<1> QED
  BY <1>2, AccountInvariant, PTL DEF AccountSpec, PicksStand

=============================================================================

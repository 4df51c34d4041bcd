------------------------------ MODULE Account ------------------------------
(***************************************************************************)
(* One account of the network, seen from several browsers.                *)
(*                                                                         *)
(* The auth service (apps/auth/Program.cs) keeps one user row, a table of  *)
(* external logins and a table of sessions.  Each browser holds a session  *)
(* cookie, a theme cookie and a page with the shared settings modal        *)
(* (packages/ui SettingsModal), whose requests (packages/core session.ts)  *)
(* travel, are authenticated, read the user row and write it in separate   *)
(* steps, so that the requests of two browsers interleave.                 *)
(***************************************************************************)
EXTENDS Integers, FiniteSets

CONSTANTS
    Devices,    \* browsers signed in, or that may sign in, to the account
    Providers,  \* external sign-in providers wired in the auth service
    Names,      \* display names
    Links,      \* public links
    Themes,     \* explicit theme choices ("light", "dark")
    Sids,       \* ids of session rows
    MaxAsked,   \* bound: changes a visitor asks for from one browser
    MaxMoves,   \* bound: edits, tabs opened and reloads in a behaviour
    NoSid,      \* a browser without a session cookie
    SignedOut,  \* what a page shows when there is no user
    Loading,    \* what it shows until it knows
    Nothing     \* no argument, no theme cookie, no control waited for

ASSUME ProvidersAssumption == Providers # {} /\ IsFiniteSet(Providers)
ASSUME BoundsAssumption == MaxAsked \in Nat /\ MaxMoves \in Nat

NoLink == "no link"
System == "system"

ASSUME DataAssumption == Names # {} /\ Links \ {NoLink} # {}
ASSUME NothingAssumption ==
    Nothing \notin Themes \cup Providers \cup Sids \cup {System, "others", "ok"}
(* There are sessions enough for every browser to be signed in.             *)
ASSUME SessionsAssumption ==
    \E f \in [Devices -> Sids] : \A d, e \in Devices : f[d] = f[e] => d = e

(* The tabs that show no account are one with the modal being closed.       *)
Tabs == {"closed", "profile", "sessions"}

VARIABLES
    account,    \* the user row and its logins, with the row's two stamps
    rows,       \* the session table: unused, open or revoked
    calls,      \* requests on their way, in the service, or answered
    asked,      \* changes asked for from each browser so far
    moves,      \* edits, tabs opened and reloads so far
    cookie,     \* each browser's session cookie
    theme,      \* each browser's theme cookie
    picked,     \* browsers in which the visitor has picked a theme
    user,       \* the user each page shows
    tab,        \* the tab of the settings modal each page has open
    form,       \* the profile form of each page
    busy,       \* the connection or session control each page waits for
    listed      \* the sessions each page lists

service == <<account, rows>>
page == <<user, tab, form, busy, listed>>
browser == <<cookie, theme, picked>>
counts == <<asked, moves>>
vars == <<service, calls, counts, browser, page>>

----------------------------------------------------------------------------
(* The shapes of the data.                                                 *)

Profiles == [name : Names, link : Links \cup {NoLink}]
Users == [name : Names, link : Links \cup {NoLink},
          theme : Themes \cup {System}, logins : SUBSET Providers]
Accounts == [user : Users, security : Nat, stamp : Nat]
Cookies == [sid : Sids \cup {NoSid}, security : Nat]
Forms == [draft : Profiles, status : {"idle", "saving", "saved"}, timer : BOOLEAN]
Kinds == {"me", "save", "theme", "disconnect", "connect",
          "sessions", "revoke", "others", "logout"}

RowKinds == {"save", "theme", "disconnect", "connect"}

ProfileOf(u) == [name |-> u.name, link |-> u.link]
FreshForm(u) == [draft |-> ProfileOf(u), status |-> "idle", timer |-> FALSE]

TypicalUser == CHOOSE u \in Users :
    u.logins = Providers /\ u.theme = System /\ u.link # NoLink

(* The modal as it is when it is not there.                                 *)
NoForm == FreshForm(TypicalUser)

Closing(d) ==
    /\ tab' = [tab EXCEPT ![d] = "closed"]
    /\ form' = [form EXCEPT ![d] = NoForm]
    /\ busy' = [busy EXCEPT ![d] = Nothing]
    /\ listed' = [listed EXCEPT ![d] = {}]

FreeId == CHOOSE n \in 1 .. Cardinality(calls) + 1 : \A c \in calls : c.id # n

(* A request a page of d sends: what it asks, under which cookie, whether   *)
(* its session was already revoked when it left, and whether the tab and    *)
(* the page that wait for the answer are still there.                       *)
Call(d, kind, arg) ==
    [id |-> FreeId, device |-> d, kind |-> kind, arg |-> arg,
     sid |-> cookie[d].sid, security |-> cookie[d].security,
     late |-> cookie[d].sid = NoSid \/ rows[cookie[d].sid] # "open",
     stage |-> "sent", row |-> Nothing, answer |-> Nothing, here |-> "tab"]

Send(d, kind, arg) == calls' = calls \cup {Call(d, kind, arg)}

Ask(d) ==
    /\ asked[d] < MaxAsked /\ asked' = [asked EXCEPT ![d] = @ + 1]
    /\ UNCHANGED moves

Becomes(c, changes) == calls' = (calls \ {c}) \cup {changes}

(* The tab a page leaves stops waiting; a page that reloads, wholly.        *)
Detached(d) ==
    {IF c.device = d /\ c.here = "tab" THEN [c EXCEPT !.here = "page"] ELSE c :
        c \in calls}
Abandoned(d) ==
    {IF c.device = d THEN [c EXCEPT !.here = "gone"] ELSE c : c \in calls}

Move == moves < MaxMoves /\ moves' = moves + 1 /\ UNCHANGED asked

SignedIn(d) == user[d] \notin {SignedOut, Loading}

----------------------------------------------------------------------------
(* What the visitor does in a browser.                                     *)

(* Opening a page, or reloading it: one shared read of /auth/me serves the  *)
(* account menu and the preferences.                                        *)
Load(d) ==
    /\ user[d] = Loading
    /\ \A c \in calls : c.device = d => c.here = "gone" \/ c.kind = "theme"
    /\ Send(d, "me", Nothing)
    /\ UNCHANGED <<counts, service, browser, page>>

Reload(d) ==
    /\ Move /\ user[d] # Loading
    /\ user' = [user EXCEPT ![d] = Loading]
    /\ Closing(d)
    /\ calls' = Abandoned(d)
    /\ UNCHANGED <<service, browser>>

(* Opening the modal, another tab of it, or closing it: the tab's state is   *)
(* made anew, and the sessions tab reads the list as it mounts.             *)
Open(d, t) ==
    /\ Move /\ user[d] # Loading /\ t # tab[d]
    /\ t \in {"profile", "sessions"} => SignedIn(d)
    /\ tab' = [tab EXCEPT ![d] = t]
    /\ form' = [form EXCEPT ![d] = IF t = "profile" THEN FreshForm(user[d]) ELSE NoForm]
    /\ busy' = [busy EXCEPT ![d] = Nothing]
    /\ listed' = [listed EXCEPT ![d] = {}]
    /\ IF t = "sessions"
       THEN calls' = Detached(d) \cup {Call(d, "sessions", Nothing)}
       ELSE calls' = Detached(d)
    /\ UNCHANGED <<service, browser, user>>

Edit(d, draft) ==
    /\ tab[d] = "profile" /\ SignedIn(d)
    /\ Move /\ draft # form[d].draft
    /\ form' = [form EXCEPT ![d].draft = draft]
    /\ UNCHANGED <<service, calls, browser, user, tab, busy, listed>>

(* Save changes: offered when the form differs from the user shown and no    *)
(* save is waited for.  Every field is sent, and an empty link as null.      *)
Save(d) ==
    /\ tab[d] = "profile" /\ SignedIn(d)
    /\ form[d].draft # ProfileOf(user[d]) /\ form[d].status # "saving"
    /\ form' = [form EXCEPT ![d].status = "saving"]
    /\ Send(d, "save", form[d].draft)
    /\ Ask(d)
    /\ UNCHANGED <<service, browser, user, tab, busy, listed>>

(* 1.6 s after a save, whatever the form does by then.                      *)
SavedFades(d) ==
    /\ form[d].timer
    /\ form' = [form EXCEPT ![d].status = "idle", ![d].timer = FALSE]
    /\ UNCHANGED <<counts, service, calls, browser, user, tab, busy, listed>>

(* A theme is set in the browser's cookie first, then in the account, and     *)
(* nobody listens to the answer.  The picker does not wait for /auth/me.     *)
SetThemeChoice(d, t) ==
    /\ theme' = [theme EXCEPT ![d] = t]
    /\ Send(d, "theme", t)

Pick(d, t) ==
    /\ Ask(d)
    /\ SetThemeChoice(d, t)
    /\ picked' = picked \cup {d}
    /\ UNCHANGED <<service, cookie, page>>

(* Disconnecting a provider: not the last one the page knows of.            *)
Disconnect(d, p) ==
    /\ tab[d] = "profile" /\ SignedIn(d) /\ busy[d] = Nothing
    /\ p \in user[d].logins /\ user[d].logins # {p}
    /\ busy' = [busy EXCEPT ![d] = p]
    /\ Send(d, "disconnect", p)
    /\ Ask(d)
    /\ UNCHANGED <<service, browser, user, tab, form, listed>>

(* Connecting one: the whole page leaves for the provider.                  *)
Connect(d, p) ==
    /\ tab[d] = "profile" /\ SignedIn(d) /\ p \notin user[d].logins
    /\ calls' = Abandoned(d) \cup {Call(d, "connect", p)}
    /\ user' = [user EXCEPT ![d] = Loading]
    /\ Closing(d)
    /\ Ask(d)
    /\ UNCHANGED <<service, browser>>

Revoke(d, s) ==
    /\ tab[d] = "sessions" /\ SignedIn(d) /\ busy[d] = Nothing
    /\ s \in listed[d]
    /\ busy' = [busy EXCEPT ![d] = s]
    /\ Send(d, "revoke", s)
    /\ Ask(d)
    /\ UNCHANGED <<service, browser, user, tab, form, listed>>

RevokeOthers(d) ==
    /\ tab[d] = "sessions" /\ SignedIn(d) /\ busy[d] = Nothing
    /\ Cardinality(listed[d]) > 1
    /\ busy' = [busy EXCEPT ![d] = "others"]
    /\ Send(d, "others", Nothing)
    /\ Ask(d)
    /\ UNCHANGED <<service, browser, user, tab, form, listed>>

SignOut(d) ==
    /\ SignedIn(d)
    /\ Send(d, "logout", Nothing)
    /\ Ask(d)
    /\ UNCHANGED <<service, browser, page>>

(* Signing in: a provider that is not linked yet is, by its email address,  *)
(* and a new session row is opened for the browser.                         *)
SignIn(d, s, p) ==
    /\ user[d] = SignedOut /\ rows[s] = "unused"
    /\ account' = IF p \in account.user.logins THEN account
                  ELSE [account EXCEPT !.user.logins = @ \cup {p}, !.stamp = @ + 1]
    /\ rows' = [rows EXCEPT ![s] = "open"]
    /\ cookie' = [cookie EXCEPT ![d] = [sid |-> s, security |-> account.security]]
    /\ user' = [user EXCEPT ![d] = Loading]
    /\ Closing(d)
    /\ calls' = Abandoned(d)
    /\ UNCHANGED <<counts, theme, picked>>

----------------------------------------------------------------------------
(* What the auth service does with a request.                              *)

(* A slip: the session row is not looked up.                                *)
AdmittedByStamp(c) == c.security = account.security

(* OnValidatePrincipal: the security stamp is compared only when the cookie  *)
(* is due for it (every half hour), the session row on every request.       *)
MayBeRefused(c) == rows[c.sid] # "open" \/ c.security # account.security
Admitted(c) == rows[c.sid] = "open"

Answered(c, answer, row) ==
    [c EXCEPT !.stage = "done", !.answer = answer, !.row = row]
Unserved(c, answer) == Answered(c, answer, Nothing)

(* The checks before the handler.  A handler that writes the user row reads  *)
(* it first; the others do all they do at once.  Signing out asks for no     *)
(* session: it is answered all the same, and the cookie removed.             *)
Refuse(c) ==
    /\ c.stage = "sent"
    /\ c.sid # NoSid => MayBeRefused(c)
    /\ Becomes(c, Unserved(c, IF c.kind = "logout" THEN "ok"
                              ELSE IF c.sid = NoSid THEN "error" ELSE "refused"))
    /\ UNCHANGED <<counts, service, browser, page>>

ReadUser(c) ==
    /\ c.stage = "sent" /\ c.kind \in RowKinds
    /\ c.sid # NoSid /\ Admitted(c)
    /\ Becomes(c, [c EXCEPT !.stage = "read", !.row = account])
    /\ UNCHANGED <<counts, service, browser, page>>

(* A slip: the last write wins.                                            *)
UnracedAnyhow(c) == TRUE

(* The user row carries a concurrency stamp: an update made from a row read  *)
(* before another update changes nothing, and the handlers do not look.      *)
Unraced(c) == c.row.stamp = account.stamp

UpdateUser(c, u) ==
    account' = IF Unraced(c) THEN [account EXCEPT !.user = u, !.stamp = @ + 1]
                             ELSE account

(* The answer is the user the handler holds in memory, the logins it reads.  *)
AnsweredWith(c, u) ==
    Answered(c, "ok", [u EXCEPT !.logins = account'.user.logins])

(* POST /auth/profile: a field that is null is left as it was.               *)
Patched(u, profile) ==
    [u EXCEPT !.name = profile.name,
              !.link = IF profile.link = NoLink THEN @ ELSE profile.link]

SaveProfile(c) ==
    LET u == IF c.kind = "save" THEN Patched(c.row.user, c.arg)
                                ELSE [c.row.user EXCEPT !.theme = c.arg] IN
    /\ c.kind \in {"save", "theme"}
    /\ UpdateUser(c, u)
    /\ Becomes(c, AnsweredWith(c, u))
    /\ UNCHANGED rows

(* DELETE /auth/connections: never the last way to sign in.  Removing a      *)
(* login changes the security stamp.                                        *)
LastMethod(c) == Cardinality(c.row.user.logins) <= 1

RemoveConnection(c) ==
    /\ c.kind = "disconnect"
    /\ IF c.arg \notin c.row.user.logins \/ LastMethod(c)
       THEN Becomes(c, Unserved(c, "error")) /\ UNCHANGED account
       ELSE /\ account' = IF Unraced(c)
                          THEN [account EXCEPT !.user.logins = @ \ {c.arg},
                                               !.security = @ + 1, !.stamp = @ + 1]
                          ELSE account
            /\ Becomes(c, AnsweredWith(c, c.row.user))
    /\ UNCHANGED rows

(* GET /auth/connect/complete: the login is added unless it is linked.       *)
AddConnection(c) ==
    /\ c.kind = "connect"
    /\ account' = IF c.arg \notin account.user.logins /\ Unraced(c)
                  THEN [account EXCEPT !.user.logins = @ \cup {c.arg}, !.stamp = @ + 1]
                  ELSE account
    /\ Becomes(c, Unserved(c, "ok"))
    /\ UNCHANGED rows

OpenRows == {s \in Sids : rows[s] = "open"}

(* The session endpoints: a row is only ever closed.                        *)
Closed(c) ==
    CASE c.kind = "revoke" -> {c.arg}
      [] c.kind = "others" -> OpenRows \ {c.sid}
      [] c.kind = "logout" -> {c.sid}
      [] OTHER -> {}

Look(c) ==
    /\ c.stage = "sent" /\ c.kind \notin RowKinds
    /\ c.sid # NoSid /\ Admitted(c)
    /\ rows' = [s \in Sids |-> IF s \in Closed(c) THEN "revoked" ELSE rows[s]]
    /\ Becomes(c, Answered(c, "ok", CASE c.kind = "me" -> account.user
                                      [] c.kind = "sessions" -> OpenRows
                                      [] OTHER -> Nothing))
    /\ UNCHANGED <<counts, account, browser, page>>

Handle(c) ==
    /\ c.stage = "read"
    /\ SaveProfile(c) \/ RemoveConnection(c) \/ AddConnection(c)
    /\ UNCHANGED <<counts, browser, page>>

----------------------------------------------------------------------------
(* What the answer does to the page.                                       *)

RevokedItself(c) ==
    /\ c.answer = "ok"
    /\ c.kind = "logout" \/ (c.kind = "revoke" /\ c.arg = c.sid)
SignedOutBy(c) == c.answer = "refused" \/ RevokedItself(c)
ReloadedBy(c) == RevokedItself(c) /\ c.here # "gone"

(* A slip: the account's theme always replaces the browser's.              *)
AdoptedAnyhow(d, t) == t

(* A browser with no theme of its own takes the account's.                  *)
Adopted(d, t) == IF theme[d] = Nothing /\ t # System THEN t ELSE theme[d]

LearnsTheTheme(c) == c.kind = "me" /\ c.answer = "ok" /\ c.here # "gone"

Shown(c) ==
    IF c.here # "gone" /\ c.answer = "ok" /\ c.kind \in {"me", "save", "disconnect"}
    THEN c.row
    ELSE IF c.here # "gone" /\ c.kind = "me" THEN SignedOut ELSE user[c.device]

(* The profile form is idle again, whatever the answer was.                  *)
FormAfter(c) ==
    IF c.kind # "save" \/ c.here # "tab" THEN form[c.device]
    ELSE IF c.answer = "ok"
         THEN [draft |-> ProfileOf(c.row), status |-> "saved", timer |-> TRUE]
         ELSE [form[c.device] EXCEPT !.status = "idle"]

(* A slip: the control is freed only when the request succeeds.            *)
BusyAfterSuccess(c) ==
    IF /\ c.kind \in {"disconnect", "revoke", "others"} /\ c.here = "tab"
       /\ c.answer = "ok"
    THEN Nothing ELSE busy[c.device]

BusyAfter(c) ==
    IF c.kind \in {"disconnect", "revoke", "others"} /\ c.here = "tab"
    THEN Nothing ELSE busy[c.device]

ListAfter(c) ==
    IF c.kind = "sessions" /\ c.answer = "ok" /\ c.here = "tab"
    THEN c.row ELSE listed[c.device]

(* A revocation that is answered reads the list again.                      *)
Relists(c) ==
    /\ c.kind \in {"revoke", "others"} /\ c.answer = "ok" /\ c.here = "tab"
    /\ ~ReloadedBy(c)

Arrives(c) ==
    LET d == c.device IN
    /\ cookie' = [cookie EXCEPT ![d] =
                    IF SignedOutBy(c) THEN [sid |-> NoSid, security |-> 0] ELSE @]
    /\ theme' = [theme EXCEPT ![d] =
                    IF LearnsTheTheme(c) THEN Adopted(d, c.row.theme) ELSE @]
    /\ user' = [user EXCEPT ![d] = IF ReloadedBy(c) THEN Loading ELSE Shown(c)]
    /\ IF ReloadedBy(c) THEN Closing(d)
       ELSE /\ form' = [form EXCEPT ![d] = FormAfter(c)]
            /\ busy' = [busy EXCEPT ![d] = BusyAfter(c)]
            /\ listed' = [listed EXCEPT ![d] = ListAfter(c)]
            /\ UNCHANGED tab
    /\ calls' = {k \in (IF ReloadedBy(c) THEN Abandoned(d) ELSE calls) : k.id # c.id}
                  \cup (IF Relists(c) THEN {Call(d, "sessions", Nothing)} ELSE {})
    /\ UNCHANGED <<counts, service, picked>>

Deliver(c) == c.stage = "done" /\ Arrives(c)

(* The network may lose a request, or the answer to one: the fetch fails.    *)
Lose(c) == c.stage \in {"sent", "done"} /\ Arrives(Unserved(c, "lost"))

----------------------------------------------------------------------------
FirstSids == CHOOSE f \in [Devices -> Sids] :
    \A d, e \in Devices : f[d] = f[e] => d = e

(* Every browser is signed in to an account linked to every provider, its    *)
(* page open, one perhaps about to load (the browsers are alike, so always    *)
(* the same one); rows are left for signing in again.                        *)
Init ==
    /\ account = [user |-> TypicalUser, security |-> 0, stamp |-> 0]
    /\ rows = [s \in Sids |-> IF \E d \in Devices : FirstSids[d] = s
                              THEN "open" ELSE "unused"]
    /\ cookie = [d \in Devices |-> [sid |-> FirstSids[d], security |-> 0]]
    /\ calls = {} /\ asked = [d \in Devices |-> 0] /\ moves = 0
    /\ theme = [d \in Devices |-> Nothing] /\ picked = {}
    /\ \E loading \in {{}, {CHOOSE d \in Devices : TRUE}} :
         /\ user = [d \in Devices |-> IF d \in loading THEN Loading ELSE TypicalUser]
         /\ tab = [d \in Devices |-> IF d \in loading THEN "closed" ELSE "profile"]
    /\ form = [d \in Devices |-> FreshForm(TypicalUser)]
    /\ busy = [d \in Devices |-> Nothing]
    /\ listed = [d \in Devices |-> {}]

Visit(d) ==
    \/ Load(d) \/ Reload(d) \/ Save(d) \/ SavedFades(d) \/ RevokeOthers(d) \/ SignOut(d)
    \/ \E t \in Tabs : Open(d, t)
    \/ \E draft \in Profiles : Edit(d, draft)
    \/ \E t \in Themes \cup {System} : Pick(d, t)
    \/ \E p \in Providers : Disconnect(d, p) \/ Connect(d, p)
    \/ \E s \in Sids : Revoke(d, s)
    \/ \E s \in Sids, p \in Providers : SignIn(d, s, p)

Serve(c) == Refuse(c) \/ ReadUser(c) \/ Handle(c) \/ Look(c) \/ Deliver(c)

Next ==
    \/ \E d \in Devices : Visit(d)
    \/ \E c \in calls : Serve(c) \/ Lose(c)

AccountSpec == Init /\ [][Next]_vars

----------------------------------------------------------------------------
Stages == {"sent", "read", "done"}

TypeOK ==
    /\ account \in Accounts
    /\ rows \in [Sids -> {"unused", "open", "revoked"}]
    /\ asked \in [Devices -> 0 .. MaxAsked] /\ moves \in 0 .. MaxMoves
    /\ cookie \in [Devices -> Cookies]
    /\ theme \in [Devices -> Themes \cup {System, Nothing}] /\ picked \subseteq Devices
    /\ user \in [Devices -> Users \cup {SignedOut, Loading}]
    /\ tab \in [Devices -> Tabs] /\ form \in [Devices -> Forms]
    /\ busy \in [Devices -> Providers \cup Sids \cup {"others", Nothing}]
    /\ listed \in [Devices -> SUBSET Sids]
    /\ \A c \in calls : /\ c.device \in Devices /\ c.kind \in Kinds
                        /\ c.stage \in Stages
                        /\ c.sid \in Sids \cup {NoSid} /\ c.id \in Nat

(* An account always keeps a way to sign in, however the disconnections of   *)
(* two browsers interleave.                                                 *)
SignInMethodRemains == account.user.logins # {}

(* A theme the visitor picked in a browser is only changed there by another   *)
(* pick, never by an answer that brings the account's.                      *)
PicksStand ==
    [][\A d \in picked : theme'[d] # theme[d] =>
          \E t \in Themes \cup {System} : Pick(d, t)]_vars

(* A request sent after its session was revoked does nothing and is refused. *)
RevokedIsRefused ==
    \A c \in calls : c.late => /\ c.stage # "read"
                               /\ c.answer = "ok" => c.kind = "logout"

(* A control that is disabled until an answer has a request under way: what   *)
(* becomes of the request, the page or the tab, it is never left disabled.   *)
WaitsForAnAnswer ==
    \A d \in Devices :
        /\ form[d].status = "saving" =>
             \E c \in calls : c.device = d /\ c.kind = "save" /\ c.here = "tab"
        /\ busy[d] # Nothing =>
             \E c \in calls : /\ c.device = d /\ c.here = "tab"
                              /\ \/ c.kind = "others" /\ busy[d] = "others"
                                 \/ c.kind \in {"disconnect", "revoke"} /\ c.arg = busy[d]
=============================================================================

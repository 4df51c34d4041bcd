---------------------------- MODULE LiveGateway ----------------------------
(***************************************************************************)
(* The /api/live routes of the homelab: the server side that stands        *)
(* between the browsers and the HomeOps API.                               *)
(*                                                                         *)
(* A request is identified (shared/api/session.ts), guarded and charged to *)
(* a budget (shared/api/guard.ts), and forwarded with a deadline or as a   *)
(* stream (shared/api/live-server.ts); the browser reads a launch stream   *)
(* frame by frame (shared/api/live-client.ts).  Requests interleave at     *)
(* every await, time passes between any two steps, and a browser may go    *)
(* away at any moment.  Time is counted in ticks; a deadline or a window   *)
(* is the number of ticks it lasts.                                        *)
(***************************************************************************)
EXTENDS Integers, FiniteSets, SequencesExt, FiniteSetsExt

CONSTANTS
    Slots,              \* requests that may be open at the same time
    Visitors,           \* the accounts browsers may be signed in to
    Anon,               \* the address of the browsers, when no account is known
    Offered,            \* the routes asked for
    Limits,             \* the budget of every kind: [max, window]
    SweepAt,            \* buckets kept before the expired ones are dropped
    CallerDeadline,     \* ticks getCaller waits for the auth service
    UpstreamDeadline,   \* ticks liveFetch waits for the API
    HandshakeDeadline,  \* ticks liveStream waits for the stream to start
    Sent,               \* the frames the API writes on a launch stream
    MaxAsked            \* bound: requests asked for in a behaviour

Kinds == DOMAIN Limits
Keys == Visitors \cup {Anon}

ASSUME LimitsAssumption ==
    \A k \in Kinds : Limits[k].max \in Nat \ {0} /\ Limits[k].window \in Nat \ {0}
ASSUME DeadlinesAssumption ==
    {CallerDeadline, UpstreamDeadline, HandshakeDeadline} \subseteq Nat \ {0}
ASSUME AskedAssumption == MaxAsked \in Nat
ASSUME SentAssumption == Sent \in Seq({"launch", "tick", "end", "unreadable"})

VARIABLES
    configured,  \* whether the server holds a key for the API
    buckets,     \* the fixed windows in memory: <<kind, key>> to count and ticks left
    recent,      \* history: requests admitted, by purpose and by age in ticks
    req,         \* the request in every slot
    pipe,        \* the launch stream of every slot
    asked        \* requests asked for so far

gatewayVars == <<configured, buckets, recent, req, pipe, asked>>

----------------------------------------------------------------------------
(* The routes: who may call one, the budget it spends, where the id in its *)
(* path is checked, what it reads of the body, and the second call that    *)
(* completes the answer.  "op" is the purpose the budget is meant for.     *)

Route(kind, who) ==
    [op |-> kind, kind |-> kind, who |-> who, id |-> "none", body |-> "none",
     after |-> "none", stream |-> FALSE]

OnRun(kind) == [Route(kind, "session") EXCEPT !.id = "guard"]

CreateRun == [Route("provision", "session") EXCEPT !.body = "any"]
ReadRun == [OnRun("action") EXCEPT !.after = "telemetry"]
DeleteRun == OnRun("action")
ReadSnapshot == OnRun("action")
ReadReport == OnRun("action")
RenewRun == [OnRun("action") EXCEPT !.after = "telemetry"]
StartDrill == [OnRun("action") EXCEPT !.body = "json", !.after = "telemetry"]
EndDrill == [OnRun("action") EXCEPT !.after = "telemetry"]
Decide == [OnRun("action") EXCEPT !.body = "json", !.after = "telemetry"]
RankedCommand == [OnRun("action") EXCEPT !.body = "bounded", !.after = "snapshot"]
PracticeCommand == [OnRun("action") EXCEPT !.body = "bounded", !.after = "snapshot"]
RankedInspect == [OnRun("inspect") EXCEPT !.body = "bounded"]
PracticeInspect == [OnRun("inspect") EXCEPT !.body = "bounded"]
PracticeAction == [OnRun("action") EXCEPT !.body = "any"]
ReadDrills == Route("action", "session")
ReadActions == [Route("read", "session") EXCEPT !.id = "last"]
ReadProfile == Route("read", "session")
ReadTimes == Route("read", "public")
ReadRatings == Route("read", "public")
ReadLaunch == Route("read", "session")
CancelLaunch == Route("cancel", "session")
StartStream == [Route("provision", "session") EXCEPT !.stream = TRUE]
FollowStream == [Route("stream", "session") EXCEPT !.stream = TRUE]
ReadProgress == Route("read", "session")
RecordUnit == [Route("action", "session") EXCEPT !.id = "first", !.body = "any"]
ReadCertificate == Route("read", "session")
IssueCertificate == [Route("action", "session") EXCEPT !.body = "any"]
VerifyCertificate == [Route("inventory", "anyone") EXCEPT !.id = "first"]
ReadOverview == Route("inventory", "anyone")
ReadPlatform == Route("inventory", "anyone")
ReadTopology == Route("inventory", "anyone")
ReadStatus == Route("inventory", "status")

(* What the browsers call: the reads of the pages, the launch, a cluster,  *)
(* and the rest of the homelab.                                            *)
PageReads == {ReadDrills, ReadTimes, ReadProfile, ReadRatings, ReadActions}
LaunchCalls == {ReadLaunch, CancelLaunch, StartStream, FollowStream}
RunCalls == {StartDrill, EndDrill, RenewRun, ReadSnapshot, DeleteRun, ReadReport}

Routes ==
    PageReads \cup LaunchCalls \cup RunCalls \cup
    {CreateRun, ReadRun, Decide, RankedCommand, PracticeCommand, RankedInspect,
     PracticeInspect, PracticeAction, ReadProgress, RecordUnit, ReadCertificate,
     IssueCertificate, VerifyCertificate, ReadOverview, ReadPlatform, ReadTopology,
     ReadStatus}

ASSUME OfferedAssumption ==
    Offered \subseteq Routes /\ \A r \in Offered : {r.kind, r.op} \subseteq Kinds

----------------------------------------------------------------------------
(* The state of a request.                                                 *)

Idle == [stage |-> "idle", route |-> ReadLaunch, by |-> Anon, wellFormed |-> TRUE,
         gone |-> FALSE, left |-> 0, payload |-> "none", answer |-> "none"]

Timed == {"identify", "first", "second", "opening"}
NothingRead == [read |-> 0, buffer |-> << >>, shown |-> << >>]

At(s, stage) == req[s].stage = stage
Answered(r, what) ==
    [Idle EXCEPT !.stage = "answered", !.route = r.route, !.by = r.by, !.answer = what]
Set(s, r) == req' = [req EXCEPT ![s] = r]

----------------------------------------------------------------------------
(* The budgets: a fixed window for every kind and key.                     *)

FreshTooEarly(id) == id \notin DOMAIN buckets \/ buckets[id].left <= 1

Expired(id) == buckets[id].left = 0
Fresh(id) == id \notin DOMAIN buckets \/ Expired(id)

Within(kind, key) ==
    LET id == <<kind, key>>
    IN  Fresh(id) \/ buckets[id].count < Limits[kind].max

Swept(b) ==
    IF Cardinality(DOMAIN b) > SweepAt
    THEN [id \in {i \in DOMAIN b : b[i].left > 0} |-> b[id]]
    ELSE b

Charged(kind, key) ==
    LET id == <<kind, key>>
    IN  IF Fresh(id)
        THEN Swept([i \in DOMAIN buckets \cup {id} |->
                        IF i = id THEN [count |-> 1, left |-> Limits[kind].window]
                                  ELSE buckets[i]])
        ELSE [buckets EXCEPT ![id].count = @ + 1]

Noted(op, key) == recent' = [recent EXCEPT ![<<op, key>>][0] = @ + 1]

----------------------------------------------------------------------------
(* Forwarding: the call that follows the guard and the body.               *)

ForwardedUnheard(r) ==
    [r EXCEPT !.stage = IF r.route.stream THEN "opening" ELSE "first",
              !.left = IF r.route.stream THEN HandshakeDeadline ELSE UpstreamDeadline]

Forwarded(r) ==
    CASE ~ r.route.stream ->
           [r EXCEPT !.stage = "first", !.left = UpstreamDeadline]
      [] r.route.stream /\ r.gone -> Answered(r, "unavailable")
      [] r.route.stream /\ ~ r.gone ->
           [r EXCEPT !.stage = "opening", !.left = HandshakeDeadline]

Past(r) ==
    IF r.route.id = "last" /\ ~ r.wellFormed THEN Answered(r, "malformed")
    ELSE IF r.route.body # "none" THEN [r EXCEPT !.stage = "body", !.left = 0]
    ELSE Forwarded(r)

(* rateLimit and what its callers make of the verdict, in one turn.        *)
Charge(s, r, key, next) ==
    IF Within(r.route.kind, key)
    THEN /\ buckets' = Charged(r.route.kind, key)
         /\ Noted(r.route.op, key)
         /\ Set(s, next)
    ELSE Set(s, Answered(r, "too many")) /\ UNCHANGED <<buckets, recent>>

Refuse(s, r, what) == Set(s, Answered(r, what)) /\ UNCHANGED <<buckets, recent>>

Identifying(r) == [r EXCEPT !.stage = "identify", !.left = CallerDeadline]

(* A request arrives: the checks made before anything is awaited.          *)
Ask(s, route, v, wellFormed) ==
    LET r == [Idle EXCEPT !.route = route, !.by = v, !.wellFormed = wellFormed]
    IN  /\ req[s].stage \in {"idle", "answered"}
        /\ asked < MaxAsked
        /\ wellFormed \/ route.id # "none"
        /\ asked' = asked + 1
        /\ pipe' = [pipe EXCEPT ![s] = NothingRead]
        /\ CASE route.id = "first" /\ ~ wellFormed -> Refuse(s, r, "not found")
             [] ~ configured /\ (route.id # "first" \/ wellFormed) ->
                  Refuse(s, r, "not configured")
             [] configured /\ route.who = "anyone" /\ wellFormed ->
                  Charge(s, r, Anon, Forwarded(r))
             [] configured /\ route.who = "status" ->
                  Charge(s, r, Anon, Identifying(r))
             [] OTHER -> Set(s, Identifying(r)) /\ UNCHANGED <<buckets, recent>>
        /\ UNCHANGED configured

(* The auth service names the caller, or nobody: a missing cookie, a       *)
(* refusal, an error and a timeout are one.                                *)
Identified(s, caller) ==
    LET r == req[s]
    IN  /\ At(s, "identify")
        /\ caller # Anon => r.left > 0
        /\ CASE r.route.who = "status" ->
                  /\ Set(s, IF caller = Anon THEN Answered(r, "ok") ELSE Forwarded(r))
                  /\ UNCHANGED <<buckets, recent>>
             [] r.route.who = "public" -> Charge(s, r, caller, Forwarded(r))
             [] OTHER ->
                  CASE caller = Anon -> Refuse(s, r, "sign in")
                    [] caller # Anon /\ r.route.id = "guard" /\ ~ r.wellFormed ->
                         Refuse(s, r, "malformed")
                    [] OTHER -> Charge(s, r, caller, Past(r))
        /\ UNCHANGED <<configured, pipe, asked>>

(* The body arrives from the browser, whole, unreadable or too long.       *)
BodyRead(s, what) ==
    LET r == req[s]
    IN  /\ At(s, "body")
        /\ what = "too large" => r.route.body = "bounded"
        /\ Set(s, IF what = "whole" \/ r.route.body = "any"
                  THEN Forwarded(r)
                  ELSE Answered(r, what))
        /\ UNCHANGED <<configured, buckets, recent, pipe, asked>>

(* The API answers the call it has acted on or refused; the body of a good *)
(* answer may be cut off by the deadline, and then reads as an empty       *)
(* object.  A call that is not answered in time may have been acted on too.*)
FirstAnswered(s, what) ==
    LET r == req[s]
    IN  /\ At(s, "first")
        /\ Set(s, IF what = "refused" \/ r.route.after = "none"
                  THEN Answered(r, what)
                  ELSE [r EXCEPT !.stage = "second", !.left = UpstreamDeadline,
                                 !.payload = what])
        /\ UNCHANGED <<configured, buckets, recent, pipe, asked>>

(* What is answered once the second call has ended, well or not.           *)
Completed(r, good) ==
    Answered(r, IF good /\ r.route.after = "snapshot" THEN "ok" ELSE r.payload)

SecondAnswered(s, good) ==
    /\ At(s, "second")
    /\ Set(s, Completed(req[s], good))
    /\ UNCHANGED <<configured, buckets, recent, pipe, asked>>


(* A deadline passes: nobody is signed in, the API is not responding, or   *)
(* the second call is done without.                                        *)
TimesOut(s) ==
    /\ req[s].stage \in Timed /\ req[s].left = 0
    /\ \/ Identified(s, Anon)
       \/ /\ req[s].stage \in {"first", "opening"}
          /\ Set(s, Answered(req[s], "unavailable"))
          /\ UNCHANGED <<configured, buckets, recent, pipe, asked>>
       \/ SecondAnswered(s, FALSE)

----------------------------------------------------------------------------
(* A launch stream: the API writes frames, the gateway passes bytes on,    *)
(* and chunks reach the browser with no regard for where a frame ends.     *)

Halves(i) == << <<i, "head">>, <<i, "tail">> >>
Bytes == [b \in 1..(2 * Len(Sent)) |-> Halves((b + 1) \div 2)[IF b % 2 = 1 THEN 1 ELSE 2]]

HandshakeAnswered(s, verdict) ==
    LET r == req[s]
    IN  /\ At(s, "opening")
        /\ Set(s, IF verdict = "refused"
                  THEN Answered(r, "refused")
                  ELSE [r EXCEPT !.stage = "streaming", !.left = 0])
        /\ UNCHANGED <<configured, buckets, recent, pipe, asked>>

(* A slip: what was left after the last whole frame is lost.               *)
Overwritten(buffer, chunk) == chunk

Grown(buffer, chunk) == buffer \o chunk

(* One frame, without its separator: what it says, if it is whole.         *)
Frame(bytes) ==
    LET i == bytes[1][1]
    IN  <<i, IF bytes = Halves(i) THEN Sent[i] ELSE "unreadable">>

Readable(frame) == frame[2] \in {"launch", "tick"}

(* A frame is handed to a callback, passed over, or the end of the stream. *)
Dispatched(reader, frame) ==
    [rest |-> << >>, over |-> frame[2] = "end",
     shown |-> IF Readable(frame) THEN Append(reader.shown, frame) ELSE reader.shown]

(* A frame ends where a blank line follows it; what comes after the last   *)
(* one is a partial frame and waits.                                       *)
Taken(reader, byte) ==
    LET bytes == Append(reader.rest, byte)
    IN  CASE reader.over -> reader
          [] ~ reader.over /\ byte[2] = "tail" -> Dispatched(reader, Frame(bytes))
          [] ~ reader.over /\ byte[2] # "tail" -> [reader EXCEPT !.rest = bytes]

Split(shown, buffer) ==
    FoldLeft(Taken, [rest |-> << >>, over |-> FALSE, shown |-> shown], buffer)

(* A chunk is read: every whole frame is dispatched, a partial one waits,  *)
(* and "end" lets go of the connection.                                    *)
ReadChunk(s, n) ==
    LET p == pipe[s]
        reader == Split(p.shown, Grown(p.buffer, SubSeq(Bytes, p.read + 1, p.read + n)))
    IN  /\ At(s, "streaming")
        /\ pipe' = [pipe EXCEPT ![s] = [read |-> p.read + n, buffer |-> reader.rest,
                                         shown |-> reader.shown]]
        /\ IF reader.over THEN Set(s, Answered(req[s], "ok")) ELSE UNCHANGED req
        /\ UNCHANGED <<configured, buckets, recent, asked>>

(* The connection to the API ends, wherever the frames have got to.        *)
Dropped(s) ==
    /\ At(s, "streaming")
    /\ Set(s, Answered(req[s], "ok"))
    /\ UNCHANGED <<configured, buckets, recent, pipe, asked>>

(* The browser goes away: a stream ends with it, a forwarded call does     *)
(* not, and a body cut short is unreadable or, where any body will do, the *)
(* default one.                                                            *)
Leave(s) ==
    LET r == [req[s] EXCEPT !.gone = TRUE]
    IN  /\ req[s].stage \notin {"idle", "answered"} /\ ~ req[s].gone
        /\ Set(s, CASE r.stage \in {"opening", "streaming"} -> Answered(r, "unavailable")
                    [] r.stage = "body" /\ r.route.body = "any" -> Forwarded(r)
                    [] r.stage = "body" /\ r.route.body # "any" ->
                         Answered(r, "malformed")
                    [] OTHER -> r)
        /\ UNCHANGED <<configured, buckets, recent, pipe, asked>>

(* Time passes, unless a deadline has come and has yet to be acted on.     *)
Aged(counts) == [age \in DOMAIN counts |-> IF age = 0 THEN 0 ELSE counts[age - 1]]

Tick ==
    /\ \A s \in Slots : req[s].stage \in Timed => req[s].left > 0
    /\ req' = [s \in Slots |-> IF req[s].stage \in Timed
                               THEN [req[s] EXCEPT !.left = @ - 1] ELSE req[s]]
    /\ buckets' = [id \in DOMAIN buckets |->
                     [buckets[id] EXCEPT !.left = IF @ = 0 THEN 0 ELSE @ - 1]]
    /\ recent' = [id \in DOMAIN recent |-> Aged(recent[id])]
    /\ UNCHANGED <<configured, pipe, asked>>

----------------------------------------------------------------------------
Init ==
    /\ configured \in BOOLEAN
    /\ buckets = << >>
    /\ recent = [id \in Kinds \X Keys |-> [age \in 0..(Limits[id[1]].window - 1) |-> 0]]
    /\ req = [s \in Slots |-> Idle]
    /\ pipe = [s \in Slots |-> NothingRead]
    /\ asked = 0

Arrives == \E s \in Slots, route \in Offered, v \in Visitors, ok \in BOOLEAN :
                Ask(s, route, v, ok)

Handled(s) ==
    \/ Identified(s, req[s].by)
    \/ Identified(s, Anon)
    \/ \E what \in {"whole", "malformed", "too large"} : BodyRead(s, what)
    \/ \E what \in {"ok", "empty", "refused"} : FirstAnswered(s, what)
    \/ \E good \in BOOLEAN : SecondAnswered(s, good)
    \/ \E verdict \in {"done", "refused"} : HandshakeAnswered(s, verdict)
    \/ TimesOut(s)

Elsewhere(s) ==
    \/ \E n \in 1..(Len(Bytes) - pipe[s].read) : ReadChunk(s, n)
    \/ Dropped(s)
    \/ Leave(s)

Next == Arrives \/ (\E s \in Slots : Handled(s) \/ Elsewhere(s)) \/ Tick

GatewaySpec == Init /\ [][Next]_gatewayVars

----------------------------------------------------------------------------
(* The properties.                                                         *)

InWindow(op, key) ==
    MapThenSumSet(LAMBDA age : recent[<<op, key>>][age], DOMAIN recent[<<op, key>>])

(* The types of the variables.                                             *)
TypeOK ==
    /\ configured \in BOOLEAN
    /\ \A id \in DOMAIN buckets :
          /\ id \in Kinds \X Keys
          /\ buckets[id].count \in 1..Limits[id[1]].max
          /\ buckets[id].left \in 0..Limits[id[1]].window
    /\ asked \in 0..MaxAsked

(* However requests and windows fall, no caller is let through more than   *)
(* twice a budget less one in the length of a window (guard.ts rateLimit): *)
(* what fixed windows promise, and a restart one tick early would break.   *)
BudgetHolds ==
    \A kind \in Kinds, key \in Keys :
        InWindow(kind, key) <= 2 * Limits[kind].max - 1

(* A launch stream is open upstream only for a browser that is still there,*)
(* also when it left while it was being identified (live-server.ts         *)
(* liveStream): the launch is driven for as long as the connection stands. *)
StreamHasAReader ==
    \A s \in Slots : req[s].stage \in {"opening", "streaming"} => ~ req[s].gone

(* What the browser is shown of a launch is every readable frame it has    *)
(* read whole, in order and up to "end", wherever the chunks were cut      *)
(* (live-client.ts streamRankedLaunch).                                    *)
FramesArriveWhole ==
    \A s \in Slots :
        LET shown == pipe[s].shown
            due == {i \in 1..(pipe[s].read \div 2) :
                       Readable(<<i, Sent[i]>>) /\ \A j \in 1..(i - 1) : Sent[j] # "end"}
        IN  /\ {shown[i] : i \in DOMAIN shown} = {<<i, Sent[i]>> : i \in due}
            /\ \A i, j \in DOMAIN shown : i < j => shown[i][1] < shown[j][1]

============================================================================

----------------------------- MODULE RunEngine -----------------------------
(***************************************************************************)
(* The reference run engine of the labs (packages/lab-runtime engine.ts):  *)
(* runs kept in memory, whose phase and telemetry are functions of the     *)
(* clock, the scenario and the decisions accepted so far.                  *)
(***************************************************************************)
EXTENDS Integers, Sequences, FiniteSets, FiniteSetsExt

CONSTANTS
    Scenarios,      \* the timing of every scenario offered
    Keys,           \* idempotency keys
    NoKey,          \* a request without one
    MaxConcurrent,  \* runs that may be active at a time
    Ttl,            \* the time to live of a run
    QueueFor, ProvisionFor, CollectFor, Sampling,  \* the spans of engine.ts:31-33, 426
    Patience,       \* how long an operator may do nothing (engine.ts:157)
    MaxRuns,        \* bound: runs created
    Horizon         \* bound: the clock

(* Spans of time, and instants of a scenario counted from its start.       *)
ASSUME TimingAssumption ==
    /\ {QueueFor, ProvisionFor, CollectFor, Ttl} \subseteq Nat /\ Sampling \in Nat \ {0}
    /\ \A s \in Scenarios :
          {s.duration, s.incidentStart, s.incidentEnd, s.autoScaleAt} \subseteq Nat

VARIABLES
    clock,
    runs,           \* the runs created, oldest first
    keyed,          \* the run each idempotency key has created, 0 for none
    strained        \* history: instants each run has been seen under pressure

engineVars == <<clock, runs, keyed, strained>>

----------------------------------------------------------------------------
(* The phases of a run at time t.                                          *)

RunningAt(run) == run.created + QueueFor + ProvisionFor
CollectingAt(run) == RunningAt(run) + run.scenario.duration
CompleteAt(run) == CollectingAt(run) + CollectFor

StatusOf(run, t) ==
    CASE t >= CompleteAt(run) -> "complete"
      [] t < CompleteAt(run) /\ t - run.created > Ttl -> "expired"
      [] t < run.created + QueueFor /\ t - run.created <= Ttl -> "queued"
      [] t >= run.created + QueueFor /\ t < RunningAt(run) /\ t - run.created <= Ttl ->
           "provisioning"
      [] t >= RunningAt(run) /\ t < CollectingAt(run) /\ t - run.created <= Ttl -> "running"
      [] OTHER -> "collecting"

Terminal == {"complete", "failed", "expired"}

Elapsed(run, t) == Max({0, Min({t - RunningAt(run), run.scenario.duration})})

Active(t) == {r \in DOMAIN runs : StatusOf(runs[r], t) \notin Terminal}

----------------------------------------------------------------------------
(* The telemetry of a scenario e into its running window, as far as the    *)
(* score and the report tell it apart.                                     *)

Scaled(s, e, accepted) == "scale" \in accepted \/ e >= s.autoScaleAt

Pressure(s, e, accepted) ==
    /\ s.incidentStart <= e /\ e < s.incidentEnd
    /\ ~ Scaled(s, e, accepted)
    /\ accepted \cap {"cache", "rollback"} = {}

Score(s, e, accepted) ==
    100 - (IF Pressure(s, e, accepted) THEN 31 ELSE 0)
        - (IF e > s.incidentStart + Patience /\ accepted = {} THEN 12 ELSE 0)

Accepted(run) == {d.id : d \in run.decisions}

(* What a view of the run offers.                                          *)
Available(run, t) ==
    {d \in DOMAIN run.scenario.availableAfter :
        /\ StatusOf(run, t) = "running"
        /\ Elapsed(run, t) >= run.scenario.availableAfter[d]
        /\ d \notin Accepted(run)}

(* The after-action report: the run sampled second by second, each         *)
(* decision in effect from the instant it was accepted.                    *)
EffectiveInTheEnd(run, e) == Accepted(run)
EffectiveAt(run, e) == {d.id : d \in {x \in run.decisions : x.at <= e}}

Report(run) ==
    LET s == run.scenario
        samples == {e \in 0..s.duration : e % Sampling = 0}
        final == Score(s, s.duration, Accepted(run))
    IN  [score |-> final,
         outcome |-> IF final >= 85 THEN "passed"
                     ELSE IF final >= 60 THEN "degraded" ELSE "failed",
         burned |-> \E e \in samples : Pressure(s, e, EffectiveAt(run, e)),
         scaledAhead |-> "scale" \in Accepted(run),
         idle |-> run.decisions = {}]

----------------------------------------------------------------------------
(* The operations.                                                         *)

CreateRun(scenario, key) ==
    /\ key # NoKey => keyed[key] = 0
    /\ Cardinality(Active(clock)) < MaxConcurrent
    /\ Len(runs) < MaxRuns
    /\ runs' = Append(runs, [scenario |-> scenario, created |-> clock, decisions |-> {}])
    /\ strained' = Append(strained, 0)
    /\ keyed' = IF key = NoKey THEN keyed ELSE [keyed EXCEPT ![key] = Len(runs) + 1]
    /\ UNCHANGED clock

SubmitDecision(r, d) ==
    /\ d \in Available(runs[r], clock)
    /\ runs' = [runs EXCEPT ![r].decisions =
                  @ \cup {[id |-> d, at |-> Elapsed(runs[r], clock)]}]
    /\ UNCHANGED <<clock, keyed, strained>>

Advance ==
    /\ clock < Horizon
    /\ clock' = clock + 1
    /\ strained' = [r \in DOMAIN runs |->
         IF /\ StatusOf(runs[r], clock) = "running"
            /\ Pressure(runs[r].scenario, Elapsed(runs[r], clock), Accepted(runs[r]))
         THEN strained[r] + 1 ELSE strained[r]]
    /\ UNCHANGED <<runs, keyed>>

EngineInit ==
    /\ clock = 0 /\ runs = << >> /\ strained = << >>
    /\ keyed = [key \in Keys |-> 0]

EngineNext ==
    \/ Advance
    \/ \E s \in Scenarios, key \in Keys \cup {NoKey} : CreateRun(s, key)
    \/ \E r \in DOMAIN runs, d \in {"scale", "cache", "rollback"} : SubmitDecision(r, d)

----------------------------------------------------------------------------
(* A run seen under pressure for as long as the report's sampling takes    *)
(* has the burn in its report, whatever was accepted afterwards: the       *)
(* report never applies the final configuration backwards                  *)
(* (engine.ts:417-419).                                                    *)
ReportOwnsUp ==
    \A r \in DOMAIN runs :
        StatusOf(runs[r], clock) = "complete" /\ strained[r] > Sampling =>
            Report(runs[r]).burned

============================================================================

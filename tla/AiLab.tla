------------------------------- MODULE AiLab -------------------------------
(***************************************************************************)
(* The AI lab's page: the experiment a visitor runs                        *)
(* (widgets/ExperimentArena.tsx), whose phases are timers and whose tables *)
(* are functions of the elapsed time and the hints, and the routing policy *)
(* of its model observatory (widgets/ModelObservatory.tsx).                *)
(* Elapsed times are in seconds, as the arena's interval adds them.        *)
(***************************************************************************)
EXTENDS Integers

CONSTANTS
    Length,       \* the experiment's duration
    HintsFrom,    \* hints may be given from here,
    HintsUntil,   \* and until here
    JudgedAt,     \* the lanes are judged
    WorksFrom     \* the agents work

(* Hints are over at 40 s, and the lanes are judged at 43 s.                *)
ASSUME HintsAreOver ==
    JudgedAt \in Nat \ {0} /\ HintsUntil \in Nat /\ HintsUntil <= JudgedAt

VARIABLES
    status,       \* the arena's status
    elapsed,      \* elapsedMs, in seconds
    hints,        \* the agents hinted
    mode          \* the observatory's routing policy

aiVars == <<status, elapsed, hints, mode>>

----------------------------------------------------------------------------
(* The arena: one timer for each status, an interval while it runs.        *)

Start ==
    /\ status \in {"idle", "complete"}
    /\ status' = "queued" /\ elapsed' = 0 /\ hints' = {}
    /\ UNCHANGED mode

After == [queued |-> "provisioning", provisioning |-> "running", collecting |-> "complete"]

ArenaPhase ==
    /\ \/ status \in DOMAIN After /\ status' = After[status]
       \/ status = "running" /\ elapsed = Length /\ status' = "collecting"
    /\ UNCHANGED <<elapsed, hints, mode>>

Interval ==
    /\ status = "running" /\ elapsed < Length
    /\ elapsed' = elapsed + 1
    /\ UNCHANGED <<status, hints, mode>>

CanHintToTheEnd == status = "running" /\ HintsFrom <= elapsed
CanHint == status = "running" /\ HintsFrom <= elapsed /\ elapsed < HintsUntil

Hint(agent) ==
    /\ CanHint /\ agent \notin hints
    /\ hints' = hints \cup {agent}
    /\ UNCHANGED <<status, elapsed, mode>>

Judged == elapsed >= JudgedAt

Lane(agent) ==
    [state |-> IF Judged THEN "judged" ELSE IF elapsed > WorksFrom THEN "working" ELSE "waiting",
     score |-> IF agent = "primary" THEN 96 ELSE IF "fast" \in hints THEN 92 ELSE 78]

(* The verdict shown when the run is complete.                             *)
Winner == IF "fast" \in hints THEN "tie" ELSE "primary"

(* A routing policy chosen with a button, or by clicking on a worker.      *)
SetMode(m) ==
    /\ mode' = m
    /\ UNCHANGED <<status, elapsed, hints>>

AiInit ==
    /\ status = "idle" /\ elapsed = 0 /\ hints = {} /\ mode = "balanced"

AiNext ==
    \/ Start \/ ArenaPhase \/ Interval
    \/ \E agent \in {"primary", "fast"} : Hint(agent)
    \/ \E m \in {"balanced", "quality", "speed"} : SetMode(m)

----------------------------------------------------------------------------
(* A verdict once shown stands: the hints, which sway it, are over before  *)
(* the lanes are judged (ExperimentArena.tsx:67,190-191).                  *)
VerdictStands ==
    [][ Judged /\ Judged' =>
          Winner' = Winner /\ \A agent \in {"primary", "fast"} : Lane(agent)' = Lane(agent) ]_aiVars

============================================================================

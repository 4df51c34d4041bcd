-------------------------------- MODULE Labs --------------------------------
(***************************************************************************)
(* The labs of the network, one visitor at a time on one of their pages:   *)
(* the run engine the labs share, the scenario player and the live range   *)
(* of the cyberlab, the AI lab, the moving pictures of them all, and the   *)
(* operator console and the topology map of the homelab.  They share no    *)
(* state.                                                                  *)
(***************************************************************************)
EXTENDS RunEngine, ScenarioPlayer, LiveRange, AiLab, LabMotion, OperatorConsole, HomelabMap

VARIABLE lab

LabNames == {"engine", "player", "range", "ai", "motion", "console", "map"}

labsVars == <<lab, engineVars, playerVars, rangeVars, aiVars, motionVars, consoleVars, mapVars>>

LabsInit ==
    /\ lab \in LabNames
    /\ EngineInit /\ PlayerInit /\ RangeInit /\ AiInit /\ MotionInit /\ ConsoleInit /\ MapInit
    /\ lab # "player" => script = CHOOSE s \in Scripts : TRUE
    /\ lab # "range" => second = 0
    /\ lab # "motion" => browser.visible /\ browser.less
    /\ lab # "map" => wiring = CHOOSE w \in Wirings : TRUE

EngineSteps ==
    /\ lab = "engine" /\ EngineNext
    /\ UNCHANGED <<lab, playerVars, rangeVars, aiVars, motionVars, consoleVars, mapVars>>
PlayerSteps ==
    /\ lab = "player" /\ PlayerNext
    /\ UNCHANGED <<lab, engineVars, rangeVars, aiVars, motionVars, consoleVars, mapVars>>
RangeSteps ==
    /\ lab = "range" /\ RangeNext
    /\ UNCHANGED <<lab, engineVars, playerVars, aiVars, motionVars, consoleVars, mapVars>>
AiSteps ==
    /\ lab = "ai" /\ AiNext
    /\ UNCHANGED <<lab, engineVars, playerVars, rangeVars, motionVars, consoleVars, mapVars>>
MotionSteps ==
    /\ lab = "motion" /\ MotionNext
    /\ UNCHANGED <<lab, engineVars, playerVars, rangeVars, aiVars, consoleVars, mapVars>>
ConsoleSteps ==
    /\ lab = "console" /\ ConsoleNext
    /\ UNCHANGED <<lab, engineVars, playerVars, rangeVars, aiVars, motionVars, mapVars>>
MapSteps ==
    /\ lab = "map" /\ MapNext
    /\ UNCHANGED <<lab, engineVars, playerVars, rangeVars, aiVars, motionVars, consoleVars>>

LabsNext ==
    \/ EngineSteps \/ PlayerSteps \/ RangeSteps \/ AiSteps
    \/ MotionSteps \/ ConsoleSteps \/ MapSteps

(* The range's page polls at an interval that never stops while it is      *)
(* open; every request is answered or fails, and not every poll fails for  *)
(* ever.                                                                   *)
OnRange(step) == lab = "range" /\ step

RangeFairness ==
    /\ WF_rangeVars(OnRange(Poll))
    /\ WF_rangeVars(OnRange(Enqueue)) /\ WF_rangeVars(OnRange(Replied))
    /\ WF_rangeVars(OnRange(\E a \in answers : Refreshed(a) \/ Missed(a)))
    /\ SF_rangeVars(OnRange(\E a \in answers : a.queue = queue /\ Refreshed(a)))

LabsSpec == LabsInit /\ [][LabsNext]_labsVars /\ RangeFairness

============================================================================

---------------------------- MODULE PracticePage ----------------------------
(***************************************************************************)
(* The practice surface of the cluster workbench, in its sandbox form (no  *)
(* course assignment): which screen is drawn, and which requests its       *)
(* buttons and sliders send through the hook of ClusterRun.                *)
(***************************************************************************)
EXTENDS ClusterRun

\* The first paint, the launch screen, or the canvas with its panel; a ranked
\* match on the cluster belongs to the other surface and takes the panel away.
Screen ==
  IF workbench.boot \notin {"done", "offline"} THEN "booting"
  ELSE IF ~HasRun(workbench) THEN "launch"
  ELSE IF workbench.run.mode = "ranked" THEN "mismatch"
  ELSE "panel"

PracticeInit ==
  /\ \E life \in {"absent", "live"} :
       arena = [life |-> life, gen |-> IF life = "live" THEN 1 ELSE 0, rev |-> 0,
                mode |-> "none", decided |-> FALSE, age |-> Fresh, renewed |-> FALSE]
  /\ workbench = [boot |-> "asked", run |-> NoRun, hoped |-> FALSE, attached |-> FALSE,
             polling |-> FALSE, failures |-> 0, stale |-> FALSE, expired |-> FALSE,
             busy |-> FALSE, declined |-> 0, armed |-> FALSE]
  /\ refreshes = [r \in Refreshes |-> IdleRefresh]
  /\ mutations = [m \in Mutations |-> IdleMutation]
  /\ acked = 0
  /\ lateAnswer = FALSE

\* The one button of the launch screen; a page that could not read its status
\* takes the visitor for signed out and has no button.
ClickProvision(m) ==
  /\ Screen = "launch" /\ workbench.boot = "done" /\ ~workbench.busy
  /\ Provision(m)

\* A slider commits whatever the busy line says; every other control, and every
\* decision, waits for it.
CommitSlider(m) == Screen = "panel" /\ Act(m, "change", TRUE)
ClickControl(m) == Screen = "panel" /\ ~workbench.busy /\ Act(m, "change", FALSE)

\* The drill browser and the end button of the drill panel.
ClickDrill(m) ==
  /\ Screen = "panel" /\ ~workbench.busy
  /\ Act(m, IF workbench.run.mode = "none" THEN "start" ELSE "end", FALSE)

PracticeNext ==
  \/ World \/ ServeStatus \/ BootDone \/ Hud
  \/ \E r \in Refreshes : \/ ServeRefresh(r) \/ BootAttach(r) \/ PollTick(r)
                          \/ PollLands(r) \/ AttachLands(r)
  \/ \E m \in Mutations : \/ ServeMutation(m) \/ ActLands(m) \/ ProvisionLands(m)
                          \/ TeardownLands(m) \/ ClickProvision(m) \/ CommitSlider(m)
                          \/ ClickControl(m) \/ ClickDrill(m)

PracticeSpec == PracticeInit /\ [][PracticeNext]_clusterVars
=============================================================================

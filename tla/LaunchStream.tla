---------------------------- MODULE LaunchStream ----------------------------
(***************************************************************************)
(* The two ends of a launch stream, one at a time: the ranked page that    *)
(* follows a launch over it, and the gateway that budgets the requests of  *)
(* the pages and passes the frames on.  They share no variable; what the   *)
(* gateway shows a browser of a stream is what the page takes from one.    *)
(***************************************************************************)
EXTENDS RankedPage, LiveGateway

VARIABLE end

Ends == {"page", "gateway"}

streamVars == <<end, vars, gatewayVars>>

\* Beside the gateway, the page stands as a new operator finds it.
StreamInit ==
  /\ end \in Ends
  /\ RankedInit /\ Init
  /\ end = "gateway" => arena.life = "absent"
  /\ end = "page" => configured

PageSteps == end = "page" /\ RankedNext /\ UNCHANGED <<end, gatewayVars>>
GatewaySteps == end = "gateway" /\ Next /\ UNCHANGED <<end, vars>>

StreamNext == PageSteps \/ GatewaySteps

\* What RankedFairness says, of the behaviours of the page.
OnPage(step) == end = "page" /\ step
StreamFairness ==
  /\ WF_vars(OnPage(MatchEdge)) /\ WF_vars(OnPage(HandOff))
  /\ WF_vars(OnPage(Rendered /\ Boot)) /\ WF_vars(OnPage(Rendered /\ Snapshot))
  /\ WF_vars(OnPage(Rendered /\ (AskLaunch \/ ServeLaunchRead \/ LaunchReadFails)))
  /\ WF_vars(OnPage(Rendered /\ ServeCancel)) /\ WF_vars(OnPage(Rendered /\ CancelLands))
  /\ \A s \in Streams :
       /\ SF_vars(OnPage(Rendered /\ Reconnect(s)))
       /\ WF_vars(OnPage(Rendered /\ (\/ FrameLands(s) \/ StreamLands(s) \/ AbortedGoes(s)
                                      \/ ServeHandshake(s) \/ TickOpens(s) \/ SendFrame(s)
                                      \/ LaunchReadLands(s))))

StreamSpec == StreamInit /\ [][StreamNext]_streamVars /\ StreamFairness
=============================================================================

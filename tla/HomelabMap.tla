----------------------------- MODULE HomelabMap -----------------------------
(***************************************************************************)
(* The topology page: the sanitized inventory polled from the cluster, and *)
(* the map drawn from it, which the operator moves around.                 *)
(*                                                                         *)
(* The inventory is a set of components, each in a layer, with the links   *)
(* between them.  Of the layout only what the connectors join and whether  *)
(* the diagram's size changed is kept; where boxes lie is left out.        *)
(***************************************************************************)
EXTENDS Integers, Sequences, FiniteSets, FiniteSetsExt, SequencesExt

CONSTANTS
  Components,  \* the components there may be
  LayerOf,     \* [Components -> layers]
  Wirings,     \* sequences of links, pairs of components
  Rolled,      \* bound: the components that come and go
  Searches,    \* bound: what a search may match, sets of components
  Nothing,     \* no topology read yet, nothing picked
  MaxLoads     \* bound: reads of the inventory under way

ASSUME WiringsAssumption == \A links \in Wirings : links \in Seq(Components \X Components)

VARIABLES
  inventory,   \* the components the cluster runs
  wiring,      \* the links between them
  topology,    \* the components of the last read, or Nothing
  search,      \* the components the search box matches
  poll,        \* the reads under way, the timers set, and the handle of the last one
  tab,         \* whether the tab is visible, and whether the page is open
  view         \* how the map is looked at, and the last list pick it was centred on

mapVars == <<inventory, wiring, topology, search, poll, tab, view>>

-----------------------------------------------------------------------------
(* The map                                                                  *)

\* A machine stands for itself, anything else for the container of its layer.
GroupFor(c) == IF LayerOf[c] = "compute" THEN c ELSE LayerOf[c]

\* Links rolled up to their containers: a link the other way joins the connector
\* that is already there, and makes it two-way.
JoinForward(coarse, from, to) ==
  IF \E e \in coarse : e.from = from /\ e.to = to
  THEN {IF e.from = from /\ e.to = to THEN [e EXCEPT !.weight = @ + 1] ELSE e : e \in coarse}
  ELSE coarse \cup {[from |-> from, to |-> to, both |-> FALSE, weight |-> 1]}
Join(coarse, from, to) ==
  IF \E e \in coarse : e.from = to /\ e.to = from
  THEN {IF e.from = to /\ e.to = from THEN [e EXCEPT !.both = TRUE, !.weight = @ + 1] ELSE e :
          e \in coarse}
  ELSE JoinForward(coarse, from, to)

Crosses(shown, link) ==
  {link[1], link[2]} \subseteq shown /\ GroupFor(link[1]) # GroupFor(link[2])
Aggregate(shown, links) ==
  FoldLeft(LAMBDA coarse, link :
             IF Crosses(shown, link) THEN Join(coarse, GroupFor(link[1]), GroupFor(link[2]))
             ELSE coarse,
           {}, links)

Visible(read, matched) == IF read = Nothing THEN {} ELSE read \cap matched
\* The diagram's width and height are functions of these counts, not always different
\* ones for different counts.
MapSize(shown) == [l \in {LayerOf[c] : c \in shown} |-> Cardinality({c \in shown : LayerOf[c] = l})]
OnMap == Visible(topology, search)
Resizes(shown) == IF MapSize(shown) = MapSize(OnMap) THEN {FALSE} ELSE BOOLEAN

FreshView == [at |-> "fitted", asked |-> Nothing, centred |-> Nothing]

\* The layout effects after a change of what is shown: a map of another size is
\* fitted again, a map that was not there is a new one, and a list pick brings its
\* box to the centre, once.
Centres(v) == v.asked # v.centred
Laid(v, shown, resized) ==
  LET base == IF OnMap = {} THEN [FreshView EXCEPT !.asked = v.asked]
              ELSE IF resized THEN [v EXCEPT !.at = "fitted"] ELSE v
  IN IF shown = {} THEN [FreshView EXCEPT !.asked = v.asked]
     ELSE IF Centres(base)
          THEN [base EXCEPT !.centred = base.asked,
                            !.at = IF base.asked \in shown THEN "centred" ELSE @]
          ELSE base

Search ==
  \E matched \in Searches :
    /\ tab.open /\ matched # search
    /\ search' = matched
    /\ LET shown == Visible(topology, matched)
       IN \E resized \in Resizes(shown) : view' = Laid(view, shown, resized)
    /\ UNCHANGED <<inventory, wiring, topology, poll, tab>>

Looks(v) ==
  /\ tab.open /\ OnMap # {}
  /\ view' = v
  /\ UNCHANGED <<inventory, wiring, topology, search, poll, tab>>

PanOrZoom == Looks([view EXCEPT !.at = "moved"])
\* The fit button, and any change of the frame's size.
Fit == Looks([view EXCEPT !.at = "fitted"])
\* Picked from the inspector's lists: brought to the centre by the map there is, or by
\* the next one.
PickFromList ==
  \E c \in topology :
    /\ tab.open
    /\ view' = IF OnMap = {} THEN [view EXCEPT !.asked = c]
               ELSE [view EXCEPT !.asked = c, !.centred = c,
                                 !.at = IF c \in OnMap THEN "centred" ELSE @]
    /\ UNCHANGED <<inventory, wiring, topology, search, poll, tab>>

-----------------------------------------------------------------------------
(* Reading the inventory                                                    *)

\* A read sees the inventory of some moment of it: the one of its start is kept, and
\* the one of its end is the current one.
Load(p) == [p EXCEPT !.loads = Append(@, inventory)]

Timers == 1..3
ScheduledTwice(p) ==
  LET t == CHOOSE t \in Timers : t \notin p.timers
  IN IF tab.hidden THEN p ELSE [p EXCEPT !.timers = @ \cup {t}, !.handle = t]
Scheduled(p) ==
  LET rest == p.timers \ {p.handle}
      t == CHOOSE t \in Timers : t \notin rest
  IN IF tab.hidden THEN [p EXCEPT !.timers = rest]
     ELSE [p EXCEPT !.timers = rest \cup {t}, !.handle = t]

\* The read is over: shown, unless it failed or the page was left, and in any case
\* the next one is scheduled.
Loaded(i) ==
  \E read \in {poll.loads[i], inventory, topology} :
    LET now == IF tab.open THEN read ELSE topology
    IN /\ poll' = Scheduled([poll EXCEPT !.loads = RemoveAt(@, i)])
       /\ topology' = now
       /\ \E resized \in Resizes(Visible(now, search)) :
            view' = IF now = topology THEN view ELSE Laid(view, Visible(now, search), resized)
       /\ UNCHANGED <<inventory, wiring, search, tab>>

TimerFires ==
  \E t \in poll.timers :
    /\ Len(poll.loads) < MaxLoads
    /\ poll' = Load([poll EXCEPT !.timers = @ \ {t}])
    /\ UNCHANGED <<inventory, wiring, topology, search, tab, view>>

\* A page that was left no longer listens.
OnTabVisibility ==
  /\ tab' = [tab EXCEPT !.hidden = ~@]
  /\ ~tab.hidden \/ Len(poll.loads) < MaxLoads
  /\ poll' = IF ~tab.open THEN poll
             ELSE IF tab.hidden THEN Load(poll) ELSE [poll EXCEPT !.timers = @ \ {poll.handle}]
  /\ UNCHANGED <<inventory, wiring, topology, search, view>>

\* Leaving clears the timer there is; a read that is out still schedules the next.
LeaveMap ==
  /\ tab.open
  /\ tab' = [tab EXCEPT !.open = FALSE]
  /\ poll' = [poll EXCEPT !.timers = @ \ {poll.handle}]
  /\ UNCHANGED <<inventory, wiring, topology, search, view>>

Rollout ==
  \E c \in Rolled :
    /\ inventory' = IF c \in inventory THEN inventory \ {c} ELSE inventory \cup {c}
    /\ UNCHANGED <<wiring, topology, search, poll, tab, view>>

-----------------------------------------------------------------------------

MapInit ==
  /\ inventory = Components
  /\ wiring \in Wirings
  /\ topology = Nothing
  /\ search = Components
  /\ poll = [loads |-> <<inventory>>, timers |-> {}, handle |-> 0]
  /\ tab = [hidden |-> FALSE, open |-> TRUE]
  /\ view = FreshView

MapNext ==
  \/ Search \/ PanOrZoom \/ Fit \/ (topology # Nothing /\ PickFromList)
  \/ (\E i \in DOMAIN poll.loads : Loaded(i)) \/ TimerFires \/ OnTabVisibility \/ LeaveMap \/ Rollout

-----------------------------------------------------------------------------
(* Properties                                                               *)

\* An open page polls along one chain, and a hidden one not at all: a tab hidden and
\* shown while a read is out starts another read, and both schedule the next
\* (useTopology.ts:16-20,45-60).
OnePollAtATime ==
  tab.open => Cardinality(poll.timers) <= (IF tab.hidden THEN 0 ELSE 1)

\* Every link between two containers on the map is in exactly one connector, which
\* counts it, and which is two-way exactly when there are links both ways, in
\* whatever order the inventory lists them (grouped.ts:342-373).
EveryLinkIsDrawn ==
  LET coarse == Aggregate(OnMap, wiring)
      Between(g, h) == {i \in DOMAIN wiring : Crosses(OnMap, wiring[i]) /\
                          GroupFor(wiring[i][1]) = g /\ GroupFor(wiring[i][2]) = h}
      Groups == {GroupFor(c) : c \in Components}
  IN \A g, h \in Groups :
       LET drawn == {e \in coarse : {e.from, e.to} = {g, h}}
       IN /\ Cardinality(drawn) = (IF g # h /\ Between(g, h) \cup Between(h, g) # {} THEN 1 ELSE 0)
          /\ \A e \in drawn :
               /\ e.weight = Cardinality(Between(g, h) \cup Between(h, g))
               /\ e.both <=> Between(g, h) # {} /\ Between(h, g) # {}
=============================================================================

---------------------------- MODULE GraphExplorer ----------------------------
(***************************************************************************)
(* The knowledge graph page: GraphExplorer (components/graph/              *)
(* graph-explorer.tsx), its canvas and its entity panel.  The page shows   *)
(* an overview (an entities query joined with a relations query) or, when  *)
(* an entity is focused, the subgraph around it; what is drawn on the      *)
(* canvas is memoised under a hand-written list of dependencies.           *)
(*                                                                         *)
(* The graph the gateway holds is the constant GraphAt, one graph per      *)
(* version; the queries' limits (120 entities, 300 relations) are above    *)
(* its size.  Positions, colours and sizes are left out.                   *)
(***************************************************************************)
EXTENDS GatewayQueries

CONSTANTS
  GraphAt,    \* version -> [ent : id -> [name, type], rel : a set of relations]
  Matches,    \* search word -> the names that contain it
  MaxEdges,   \* MAX_EDGES: the most relations drawn
  MaxClicks   \* bound: how often the operator acts or the gateway's state changes

ASSUME GraphAssumption ==
  /\ DOMAIN GraphAt = 0..MaxVersion
  /\ \A v \in DOMAIN GraphAt : \A r, q \in GraphAt[v].rel :
       /\ {r.from, r.to} \subseteq DOMAIN GraphAt[v].ent
       /\ r # q => r.confidence # q.confidence
  /\ MaxEdges \in Nat /\ MaxClicks \in Nat

VARIABLES
  search, typeFilter, depth, focusId, selectedId,  \* GraphExplorer's state
  view,       \* GraphExplorer's memo: the entities and relations to show
  hoveredId,  \* GraphCanvas's state
  canvas,     \* what is drawn: the memoised nodes and edges
  asked,      \* the version the gateway had when the view was last refreshed
  clicks      \* how often the operator has acted

explorerVars == <<search, typeFilter, depth, focusId, selectedId, asked>>
graphVars == <<queryVars, explorerVars, view, hoveredId, canvas, clicks>>

NoId == ""
Depths == {1, 2}
EntityIds == UNION {DOMAIN GraphAt[v].ent : v \in DOMAIN GraphAt}
EntityTypes == UNION {{GraphAt[v].ent[e].type : e \in DOMAIN GraphAt[v].ent} :
                      v \in DOMAIN GraphAt}
Words == DOMAIN Matches

Keep(f, S) == [e \in DOMAIN f \cap S |-> f[e]]
NoGraph == [ent |-> <<>>, rel |-> {}]

-----------------------------------------------------------------------------
(* The gateway's answers.                                                  *)

OfType(ent, t) == {e \in DOMAIN ent : t = Blank \/ ent[e].type = t}
Named(ent, s) == {e \in DOMAIN ent : s = Blank \/ ent[e].name \in Matches[s]}

EntitiesAnswer(v, t, s) ==
  LET ent == GraphAt[v].ent IN Keep(ent, OfType(ent, t) \cap Named(ent, s))

Around(v, S) ==
  S \cup {r.to : r \in {q \in GraphAt[v].rel : q.from \in S}}
    \cup {r.from : r \in {q \in GraphAt[v].rel : q.to \in S}}

SubgraphAnswer(v, id, d) ==
  IF id \notin DOMAIN GraphAt[v].ent THEN NoGraph
  ELSE LET near == Around(v, {id})
           ids  == IF d = 1 THEN near ELSE Around(v, near)
       IN [ent |-> Keep(GraphAt[v].ent, ids),
           rel |-> {r \in GraphAt[v].rel : {r.from, r.to} \subseteq ids}]

TypeCounts(v) ==
  [t \in {GraphAt[v].ent[e].type : e \in DOMAIN GraphAt[v].ent} |->
     Cardinality(OfType(GraphAt[v].ent, t))]

-----------------------------------------------------------------------------
(* The queries of the page.                                                *)

StatsKey == <<"graph-stats">>
EntitiesKey(t, s) == <<"graph-entities", t, s>>
RelationsKey == <<"graph-relations">>

\* Mutant: the subgraph's key leaves the depth out.
SubgraphKeyNoDepth(id, d) == <<"graph-subgraph", id, 1>>

SubgraphKey(id, d) == <<"graph-subgraph", id, d>>

overviewMode == focusId = NoId

\* The page's observers: what is not shown is not enabled.
Wanted ==
  {StatsKey} \cup
  IF overviewMode THEN {EntitiesKey(typeFilter, search), RelationsKey}
  ELSE {SubgraphKey(focusId, depth)}

\* The answer in an entry is the one to the request its key describes.
entitiesData ==
  LET k == EntitiesKey(typeFilter, search) IN
  IF HasData(k) THEN EntitiesAnswer(Entry(k).ver, k[2], k[3]) ELSE <<>>

relationsData ==
  IF HasData(RelationsKey) THEN GraphAt[Entry(RelationsKey).ver].rel ELSE {}

subgraphLoaded == ~overviewMode /\ HasData(SubgraphKey(focusId, depth))

subgraphData ==
  LET k == SubgraphKey(focusId, depth) IN
  IF subgraphLoaded THEN SubgraphAnswer(Entry(k).ver, k[2], k[3]) ELSE NoGraph

statsData ==
  IF HasData(StatsKey) THEN TypeCounts(Entry(StatsKey).ver) ELSE <<>>

-----------------------------------------------------------------------------
(* What is shown.                                                          *)

\* The relations of highest confidence, at most MaxEdges of them.
cap(rels) ==
  {r \in rels : Cardinality({q \in rels : q.confidence > r.confidence}) < MaxEdges}

JoinShown(rels, ids) == {r \in rels : r.from \in ids /\ r.to \in ids}

Overview(ent, rel) ==
  LET shown  == Keep(ent, OfType(ent, typeFilter) \cap Named(ent, search))
      joined == JoinShown(rel, DOMAIN shown)
  IN [entities |-> shown, relations |-> cap(joined), centerId |-> NoId,
      relationsTotal |-> Cardinality(joined)]

Subgraph(data) ==
  [entities |-> data.ent, relations |-> cap(data.rel), centerId |-> focusId,
   relationsTotal |-> Cardinality(data.rel)]

\* What the memo computes, as a singleton: the focused subgraph once it is there,
\* until then whatever the overview's queries hold.
Views ==
  IF subgraphLoaded THEN {Subgraph(data) : data \in {subgraphData}}
  ELSE {Overview(ent, rel) : ent \in {entitiesData}, rel \in {relationsData}}

isCapped == view.relationsTotal > MaxEdges

effectiveSelectedId ==
  IF selectedId \in DOMAIN view.entities THEN selectedId ELSE NoId

isLoading ==
  \/ ~useGatewayOnline
  \/ \E k \in Wanted : IsPending(k)

isError == \E k \in Wanted : IsError(k)

topTypes ==
  {t \in DOMAIN statsData :
     Cardinality({u \in DOMAIN statsData : statsData[u] > statsData[t]}) < 8}

hasFilters == search # Blank \/ typeFilter # Blank

\* The messages and views in the page's main area.
MainArea ==
  LET none == DOMAIN view.entities = {}
  IN {n \in {"offline", "loading", "failed", "no matches", "empty", "canvas"} :
        CASE n = "offline"    -> ~useGatewayOnline
          [] n = "loading"    -> useGatewayOnline /\ isLoading /\ none
          [] n = "failed"     -> useGatewayOnline /\ isError
          [] n = "no matches" -> ~isLoading /\ ~isError /\ none /\ hasFilters
          [] n = "empty"      -> ~isLoading /\ ~isError /\ none /\ ~hasFilters
          [] n = "canvas"     -> useGatewayOnline /\ ~none}

\* The panel: the selected entity and the relations of the view that touch it.
Panel ==
  LET id == effectiveSelectedId
  IN [entity |-> id, connected |-> {r \in view.relations : id \in {r.from, r.to}}]

-----------------------------------------------------------------------------
(* The canvas.                                                             *)

CanvasMounted == useGatewayOnline /\ DOMAIN view.entities # {}

buildNeighborSet(active, rels) ==
  IF active = NoId THEN {}
  ELSE {active} \cup {r.to : r \in {q \in rels : q.from = active}}
                \cup {r.from : r \in {q \in rels : q.to = active}}

\* A selected or hovered id counts only while it is drawn.
Valid(id, v) == IF id \in DOMAIN v.entities THEN id ELSE NoId

\* The nodes and edges the canvas's memo builds from a view.
Drawing(v, select, hover, focus) ==
  LET selected == Valid(select, v)
      hovered  == Valid(hover, v)
      active   == IF hovered # NoId THEN hovered ELSE selected
      glow     == buildNeighborSet(active, v.relations)
      near     == buildNeighborSet(selected, v.relations)
  IN [nodes |-> [e \in DOMAIN v.entities |->
                   [label     |-> v.entities[e].name,
                    degree    |-> Cardinality({r \in v.relations : e \in {r.from, r.to}}),
                    selected  |-> e = selected,
                    connected |-> e \in glow \ {active},
                    focused   |-> e \in {focus, v.centerId},
                    hovered   |-> e = hovered,
                    dimmed    |-> selected # NoId /\ e \notin near]],
      edges |-> {[from |-> r.from, to |-> r.to,
                  active |-> active \in {r.from, r.to},
                  dimmed |-> selected # NoId /\ active \notin {r.from, r.to}] :
                   r \in v.relations}]

\* layoutKey holds the ids, the number of relations and the centre of the view.
layoutKey(v, focus) ==
  <<DOMAIN v.entities, Cardinality(v.relations),
    IF v.centerId # NoId THEN v.centerId ELSE focus>>

\* Mutant: the degree map is not a dependency.
CanvasDepsNoDegree(v, select, hover, focus) ==
  <<layoutKey(v, focus), Valid(select, v), Valid(hover, v)>>

\* The memo's dependencies.  The last stands for the degree map: it is a new one
\* for every new array of relations, which the view's memo makes when it runs.
CanvasDeps(v, select, hover, focus) ==
  <<layoutKey(v, focus), Valid(select, v), Valid(hover, v), v>>

NoCanvas == [nodes |-> <<>>, edges |-> {}]

\* The end of every step: React renders the page.  A canvas that leaves the page
\* loses its hover state; one that stays is drawn anew when a dependency changed.
Render(hover) ==
  /\ view' \in Views'
  /\ hoveredId' = IF CanvasMounted' THEN hover ELSE NoId
  /\ canvas' =
       IF ~CanvasMounted' THEN NoCanvas
       ELSE IF CanvasMounted /\ CanvasDeps(view', effectiveSelectedId', hoveredId', focusId')
                                  = CanvasDeps(view, effectiveSelectedId, hoveredId, focusId)
       THEN canvas
       ELSE Drawing(view', effectiveSelectedId', hoveredId', focusId')

-----------------------------------------------------------------------------
(* What the operator does.  A step that changes what the page reads makes  *)
(* its observers follow; `asked' no longer speaks of the new view.         *)

MayAct == clicks + changes < MaxClicks
Click == MayAct /\ clicks' = clicks + 1

\* The page reads other keys, or is just drawn again.
Reads ==
  /\ UNCHANGED <<gateway, version, changes, health, wasOnline>>
  /\ observed' = Wanted'
  /\ asked' = IF Wanted' = Wanted THEN asked ELSE None
  /\ Follow(cache)
  /\ Render(hoveredId)

Search(w) ==
  /\ Click /\ w # search
  /\ search' = w /\ focusId' = NoId
  /\ UNCHANGED <<typeFilter, depth, selectedId>>
  /\ Reads

SetDepth(d) ==
  /\ Click /\ d # depth
  /\ depth' = d
  /\ UNCHANGED <<search, typeFilter, focusId, selectedId>>
  /\ Reads

ShowOverview ==
  /\ Click /\ focusId # NoId
  /\ focusId' = NoId /\ selectedId' = NoId
  /\ UNCHANGED <<search, typeFilter, depth>>
  /\ Reads

toggleType(t) ==
  /\ Click /\ t \in topTypes
  /\ typeFilter' = IF typeFilter = t THEN Blank ELSE t
  /\ focusId' = NoId /\ selectedId' = NoId
  /\ UNCHANGED <<search, depth>>
  /\ Reads

\* Offered by the chips, by the empty view and, under another name, by the bar
\* that says the edges are capped.
clearFilters ==
  /\ Click
  /\ hasFilters \/ (isCapped /\ ~isLoading)
  /\ search' = Blank /\ typeFilter' = Blank /\ focusId' = NoId /\ selectedId' = NoId
  /\ UNCHANGED depth
  /\ Reads

\* The canvas's onSelect and the panel's onClose.
Select(id) ==
  /\ Click
  /\ \/ id = NoId
     \/ CanvasMounted /\ id \in DOMAIN canvas.nodes \ {effectiveSelectedId}
  /\ id # selectedId
  /\ selectedId' = id
  /\ UNCHANGED <<search, typeFilter, depth, focusId>>
  /\ Reads

Focus ==
  /\ Click /\ effectiveSelectedId \notin {NoId, focusId}
  /\ focusId' = effectiveSelectedId
  /\ UNCHANGED <<search, typeFilter, depth, selectedId>>
  /\ Reads

Navigate(r) ==
  /\ Click /\ effectiveSelectedId # NoId /\ r \in Panel.connected
  /\ selectedId' = IF r.from = effectiveSelectedId THEN r.to ELSE r.from
  /\ focusId' = selectedId'
  /\ UNCHANGED <<search, typeFilter, depth>>
  /\ Reads

\* Mutant: the refresh button forgets the subgraph.
RefreshedOverview ==
  {k \in DOMAIN cache : k[1] \in {"graph-stats", "graph-entities", "graph-relations"}}

\* The keys the refresh button invalidates: for a focused entity, its subgraphs
\* of either depth.
Refreshed ==
  {k \in DOMAIN cache : \/ k[1] \in {"graph-stats", "graph-entities", "graph-relations"}
                        \/ k[1] = "graph-subgraph" /\ focusId # NoId /\ k[2] = focusId}

refreshGraph ==
  /\ Click /\ ~isLoading
  /\ cache' = Invalidate(cache, Refreshed, Active)
  /\ asked' = version
  /\ UNCHANGED <<gateway, version, changes, health, wasOnline, observed,
                 search, typeFilter, depth, focusId, selectedId>>
  /\ Render(hoveredId)

Hover(id) ==
  /\ Click /\ CanvasMounted
  /\ id \in DOMAIN canvas.nodes \cup {NoId}
  /\ id # hoveredId
  /\ UNCHANGED <<queryVars, explorerVars>>
  /\ Render(id)

-----------------------------------------------------------------------------
GraphInit ==
  /\ search = Blank /\ typeFilter = Blank /\ depth = 1
  /\ focusId = NoId /\ selectedId = NoId
  /\ observed = Wanted
  /\ QueryInit
  /\ view \in Views /\ hoveredId = NoId /\ canvas = NoCanvas /\ asked = None /\ clicks = 0

\* Steps of the queries, after which the page is drawn again.
GraphQueryStep ==
  /\ \/ MayAct /\ GatewayChanges
     \/ DataChanges
     \/ PollHealth
     \/ \E k \in DOMAIN cache : Settle(k)
  /\ UNCHANGED <<explorerVars, clicks>>
  /\ Render(hoveredId)

OperatorStep ==
  \/ \E w \in Words \cup {Blank} : Search(w)
  \/ \E d \in Depths : SetDepth(d)
  \/ ShowOverview
  \/ \E t \in EntityTypes : toggleType(t)
  \/ clearFilters
  \/ \E id \in EntityIds \cup {NoId} : Select(id) \/ Hover(id)
  \/ Focus
  \/ \E r \in Panel.connected : Navigate(r)
  \/ refreshGraph

GraphNext == GraphQueryStep \/ OperatorStep

GraphSpec == GraphInit /\ [][GraphNext]_graphVars

-----------------------------------------------------------------------------
(* Properties.                                                             *)

\* Type invariant of the page.
GraphTypeOK ==
  /\ QueryTypeOK
  /\ observed = Wanted
  /\ search \in Words \cup {Blank} /\ typeFilter \in EntityTypes \cup {Blank}
  /\ depth \in Depths
  /\ {focusId, selectedId, hoveredId} \subseteq EntityIds \cup {NoId}
  /\ asked \in None..MaxVersion
  /\ clicks \in 0..MaxClicks

\* Every edge drawn joins two drawn nodes, though in the overview nodes and
\* edges come from two answers that may be of different versions of the graph,
\* the first of them filtered by type and name (graph-explorer.tsx:89-90).
EdgesJoinNodes ==
  \A e \in canvas.edges : {e.from, e.to} \subseteq DOMAIN canvas.nodes

\* What is drawn is what the view holds, labels included: the hand-written
\* dependency list of the canvas's memo, with the linter silenced, misses no
\* change, not even a renamed entity (graph-canvas.tsx:164-166).
CanvasIsCurrent ==
  CanvasMounted =>
    \A v \in Views : canvas = Drawing(v, effectiveSelectedId, hoveredId, focusId)

\* Nodes are dimmed only around a selected node that is drawn and whose panel is
\* open, whatever was refetched, filtered or focused since it was selected.
DimmedAroundSelection ==
  (\E e \in DOMAIN canvas.nodes : canvas.nodes[e].dimmed)
    => /\ Panel.entity \in DOMAIN canvas.nodes
       /\ canvas.nodes[Panel.entity].selected
       /\ \A r \in Panel.connected : \A e \in {r.from, r.to} : ~canvas.nodes[e].dimmed

\* A focused view that has loaded is the neighbourhood of the focused entity, to
\* the depth the toolbar shows, in one version of the graph: no late answer to
\* another focus or depth is ever shown in its place.
FocusShowsItsOwn ==
  subgraphLoaded =>
    \E v \in 0..version :
      view.entities = SubgraphAnswer(v, focusId, depth).ent

\* The overview says that the graph is empty, or that nothing matches, only when
\* the gateway has answered so to this very search and type, never because an
\* answer is still to come or one to other filters was empty.  Over a focused
\* entity the same words (graph-explorer.tsx:351-353) say nothing of the graph or
\* of the filters: only that the gateway did not have that entity any more.
EmptyMeansGone ==
  {"empty", "no matches"} \cap MainArea # {} =>
    \E v \in 0..version :
      IF overviewMode THEN DOMAIN EntitiesAnswer(v, typeFilter, search) = {}
      ELSE focusId \notin DOMAIN GraphAt[v].ent

\* What the page shows is true of the gateway's answers, taken one by one above.
ViewIsTrue ==
  GraphTypeOK /\ EdgesJoinNodes /\ DimmedAroundSelection /\ FocusShowsItsOwn /\ EmptyMeansGone

\* The refresh button misses nothing the operator looks at: while the view stays,
\* everything it reads is of the version the gateway had when the button was
\* pressed or later, is being fetched since, or says that it could not be.
RefreshReachesView ==
  asked # None /\ useGatewayOnline =>
    \A k \in Wanted : Entry(k).ver >= asked \/ Entry(k).since >= asked \/ IsError(k)

\* The query keys are refetched when the gateway comes back: "Refetch subsystem
\* data when the gateway comes back online." (gateway-query-sync.tsx:7)
ComebackRefetches ==
  [][~useGatewayOnline /\ useGatewayOnline'
       => \A k \in Wanted : Entry(k)'.since # None]_graphVars
=============================================================================

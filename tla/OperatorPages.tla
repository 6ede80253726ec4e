---------------------------- MODULE OperatorPages ----------------------------
(***************************************************************************)
(* A visit to one of the console's other pages: the context audit          *)
(* (components/system/context-state-panel.tsx), the memory explorer, the   *)
(* tools page with its call dialog, the system panel, the agents page, the *)
(* three observability panels, the satellites of the network page and the  *)
(* light of the language model in the chat page's header.                  *)
(* The pages poll the gateway, send requests of their own with useMutation *)
(* and show the answers.                                                   *)
(*                                                                         *)
(* `part' says what is visited; the parts share no state but what          *)
(* GatewayQueries holds, so each is modelled with the queries that it      *)
(* reads: the context page is two parts, "context" its header and audit,   *)
(* "stores" its cards about the memory stores, and of the network page the *)
(* satellites lit by one of its queries are looked at.                     *)
(*                                                                         *)
(* useMutation is external: its observer shows the request made last, and  *)
(* nothing of it once its component has gone.                              *)
(***************************************************************************)
EXTENDS GatewayQueries

CONSTANTS
  Texts,     \* what the operator may type, other than blanks
  Tools,     \* names of tools
  EmptyAt,   \* versions at which the gateway's lists are empty, nothing is probed
             \* or decided, its model is down, it has no voice and no metrics
  MaxCalls,  \* bound: how often a request is made with useMutation
  MaxPolls   \* bound: how many polls of the agents page are on their way at once

ASSUME PagesAssumption ==
  /\ Blank \notin Texts \cup Tools
  /\ EmptyAt \subseteq 0..MaxVersion
  /\ MaxCalls \in Nat /\ MaxPolls \in Nat

VARIABLES
  part,     \* what is visited
  input,    \* the page's field: "" when blank, or the form is not filled in
  subject,  \* memory: submittedQuery; tools: the tool of the open dialog
  call,     \* what useMutation shows
  sent,     \* the mutation requests on their way
  calls,    \* how many there have been
  runs,     \* agents: the version of the list shown, None for none yet
  polls,    \* agents: the list requests on their way, and since which version
  busy      \* agents: where dispatch() is

pageVars == <<part, input, subject, call, sent, calls, runs, polls, busy>>
vars == <<queryVars, pageVars>>

Parts == {"context", "stores", "memory", "tools", "system", "agents", "llm",
          "health", "inference", "hitl", "network"}
Idle == [of |-> None, status |-> "idle", subject |-> Blank, ver |-> None]

\* Slot 0 is the list request that dispatch() awaits.
Slots == 0..MaxPolls

-----------------------------------------------------------------------------
(* The queries of each part.                                               *)

Keys(p) ==
  CASE p = "context" -> {"system-state"}
    [] p = "stores"  -> {"memory-tier-health", "graph-stats"}
    [] p = "memory"  -> {"memory-surface"}
    [] p = "tools"   -> {"mcp-tools", "mcp-servers"}
    [] p = "system"  -> {"system-state", "capabilities"}
    [] p = "agents"  -> {}
    [] p = "llm"     -> {"llm-status"}
    [] p = "health"  -> {"obs-summary"}
    [] p = "hitl"    -> {"obs-hitl"}
    [] p = "inference" -> {"obs-inference"}
    [] p = "network" -> {"memory-surface", "mcp-tools", "system-state", "capabilities"}

Visits(p) == IF p = "network" THEN {{k} : k \in Keys(p)} ELSE {Keys(p)}

\* Mutant: the state of the system is asked for once.
PolledOthers == {"memory-tier-health", "memory-surface", "mcp-tools", "mcp-servers",
                 "capabilities", "llm-status", "obs-summary", "obs-hitl", "obs-inference"}

\* The keys with a refetchInterval.
Polled == {"system-state", "memory-tier-health", "memory-surface", "mcp-tools",
           "mcp-servers", "capabilities", "llm-status", "obs-summary", "obs-hitl",
           "obs-inference"}

\* The polled keys in two sets: of either, no visit has more than one key, so that
\* what is said of every key can be said of the set.
Timers == LET second == {"mcp-servers", "capabilities"} IN {Polled \ second, Polled \cap second}

\* The observability hooks do not ask whether the gateway is online.
ASSUME UnconditionalAssumption == Unconditional = {"obs-summary", "obs-hitl", "obs-inference"}

-----------------------------------------------------------------------------
(* What is shown.                                                          *)

\* There is data, and something in it.
Full(k) == HasData(k) /\ Entry(k).ver \notin EmptyAt

\* A card of the context page: old data stays when the gateway goes offline.
Card(k) ==
  IF IsPending(k) THEN "loading" ELSE IF IsError(k) THEN "unavailable" ELSE "data"

\* A card of the system panel.
SystemCard(k) == IF ~useGatewayOnline THEN "waiting" ELSE Card(k)

\* The manifest's version against the one in the header.
pinnedMatchesLive == Entry("system-state").ver = call.ver

StalenessBadge == IF pinnedMatchesLive THEN "current" ELSE "stale"

\* The header shows the badge next to the live versions, once there is a manifest.
HeaderBadge ==
  IF Card("system-state") # "data" \/ call.ver = None THEN "none" ELSE StalenessBadge

\* The light in the chat page's header.
LlmState ==
  CASE ~useGatewayOnline       -> "hidden"
    [] IsPending("llm-status") -> "checking"
    [] IsError("llm-status")   -> "unavailable"
    [] OTHER -> IF Entry("llm-status").ver \in EmptyAt THEN "unavailable" ELSE "available"

SurfaceShows ==
  LET k == "memory-surface"
  IN {n \in {"waiting", "unavailable", "loading", "no events", "events"} :
        CASE n = "waiting"     -> ~useGatewayOnline
          [] n = "unavailable" -> useGatewayOnline /\ IsError(k)
          [] n = "loading"     -> IsPending(k)
          [] n = "no events"   -> HasData(k) /\ ~Full(k)
          [] n = "events"      -> Full(k)}

RecallShows ==
  {n \in {"failed", "loading", "no match", "results", "idle"} :
     CASE n = "failed"   -> call.status = "error"
       [] n = "loading"  -> call.status = "pending"
       [] n = "no match" -> call.ver \in EmptyAt
       [] n = "results"  -> call.ver # None /\ call.ver \notin EmptyAt
       [] n = "idle"     -> call.ver = None /\ call.status # "pending"}

\* Servers once known stay, though later polls fail.
ServersShow ==
  IF IsPending("mcp-servers") THEN "loading"
  ELSE IF HasData("mcp-servers") THEN "servers" ELSE "unavailable"

ToolsShow ==
  LET k == "mcp-tools"
  IN {n \in {"loading", "failed", "no tools", "tools"} :
        CASE n = "loading"  -> IsPending(k)
          [] n = "failed"   -> IsError(k)
          [] n = "no tools" -> HasData(k) /\ ~Full(k)
          [] n = "tools"    -> Full(k)}

DialogShows ==
  {n \in {"invoking", "result", "call failed"} :
     CASE n = "invoking"    -> call.status = "pending"
       [] n = "result"      -> call.ver # None
       [] n = "call failed" -> call.status = "error"}

\* The list is empty before the first answer too.
AgentsShow == IF runs = None \/ runs \in EmptyAt THEN {"no runs"} ELSE {"runs"}

\* The cards of the observability pages keep their data when a poll fails.  The
\* nodes, the GPU and the memory tiers; the last are called not probed whenever
\* there are none, be it for want of an answer.
HealthShows ==
  LET k == "obs-summary"
  IN {n \in {"offline", "loading", "nodes", "metrics", "no metrics", "tiers", "not probed"} :
        CASE n = "offline"    -> ~IsPending(k) /\ ~HasData(k)
          [] n = "loading"    -> IsPending(k)
          [] n = "nodes"      -> HasData(k)
          [] n = "metrics"    -> Full(k)
          [] n = "no metrics" -> ~Full(k) /\ ~IsPending(k)
          [] n = "tiers"      -> Full(k)
          [] n = "not probed" -> ~Full(k)}

\* The throughput waits for the first answer; the utilisation and the VRAM are
\* called unavailable at once.
InferenceShows ==
  LET k == "obs-inference"
  IN {n \in {"series", "loading", "no throughput", "no metrics"} :
        CASE n = "series"        -> Full(k)
          [] n = "loading"       -> IsPending(k)
          [] n = "no throughput" -> ~Full(k) /\ ~IsPending(k)
          [] n = "no metrics"    -> ~Full(k)}

\* The queue waits likewise; the decisions are called none at once.
HitlShows ==
  LET k == "obs-hitl"
  IN {n \in {"series", "loading", "no metrics", "decisions", "no decisions"} :
        CASE n = "series"       -> Full(k)
          [] n = "loading"      -> IsPending(k)
          [] n = "no metrics"   -> ~Full(k) /\ ~IsPending(k)
          [] n = "decisions"    -> Full(k)
          [] n = "no decisions" -> ~Full(k)}

\* The network page: the core shows the health, a satellite what the queries say.
CoreStatus ==
  IF health.error \/ health.data = "none" THEN "offline"
  ELSE IF health.data = "ok" THEN "ok" ELSE "degraded"

SatelliteKey == [memory |-> "memory-surface", tools |-> "mcp-tools", policy |-> "system-state",
                 capabilities |-> "capabilities", voice |-> "capabilities"]

SatelliteOnline(s) ==
  LET k == SatelliteKey[s]
  IN /\ useGatewayOnline /\ ~IsError(k)
     /\ s = "memory" \/ HasData(k)
     /\ s = "voice" => Entry(k).ver \notin EmptyAt

-----------------------------------------------------------------------------
(* Requests made with useMutation.                                         *)

Mutate(x) ==
  /\ calls < MaxCalls
  /\ calls' = calls + 1
  /\ sent' = sent \cup {[n |-> calls', subject |-> x, since |-> version]}
  /\ call' = [of |-> calls', status |-> "pending", subject |-> Blank, ver |-> None]

Settled(r, shown) ==
  /\ sent' = sent \ {r}
  /\ call' = IF r.n = call.of THEN shown ELSE call
  /\ UNCHANGED <<queryVars, part, input, subject, calls, runs, polls, busy>>

CallAnswered(r) ==
  /\ gateway # "down"
  /\ \E v \in r.since..version :
       Settled(r, [of |-> r.n, status |-> "success", subject |-> r.subject, ver |-> v])

CallFails(r) == Settled(r, [Idle EXCEPT !.of = r.n, !.status = "error"])

\* The button of the form, whose session and actor must be filled in.
AuditEnabled == input # Blank /\ call.status # "pending"

runAudit ==
  /\ part = "context"
  /\ AuditEnabled
  /\ Mutate(input)
  /\ UNCHANGED <<queryVars, part, input, subject, runs, polls, busy>>

\* Mutant: the query is remembered when the first recall is made, and kept.
runRecallKeepsFirst ==
  /\ part = "memory"
  /\ input # Blank
  /\ subject' = IF subject = Blank THEN input ELSE subject
  /\ Mutate(input)
  /\ UNCHANGED <<queryVars, part, input, runs, polls, busy>>

\* The Enter key recalls also while another recall is on its way.
runRecall ==
  /\ part = "memory"
  /\ input # Blank
  /\ subject' = input
  /\ Mutate(input)
  /\ UNCHANGED <<queryVars, part, input, runs, polls, busy>>

-----------------------------------------------------------------------------
(* The tools page.  The dialog's body, with its field and its mutation, is *)
(* there only while a tool is selected.                                    *)

OpenTool(t) ==
  /\ part = "tools" /\ subject = Blank
  /\ "tools" \in ToolsShow
  /\ subject' = t
  /\ UNCHANGED <<queryVars, part, input, call, sent, calls, runs, polls, busy>>

CloseTool ==
  /\ part = "tools" /\ subject # Blank
  /\ subject' = Blank /\ call' = Idle
  /\ UNCHANGED <<queryVars, part, input, sent, calls, runs, polls, busy>>

\* The arguments are left out: blank ones are none, and what is no JSON object is
\* not sent.
run ==
  /\ part = "tools" /\ subject # Blank
  /\ call.status # "pending"
  /\ Mutate(subject)
  /\ UNCHANGED <<queryVars, part, input, subject, runs, polls, busy>>

-----------------------------------------------------------------------------
(* The agents page.  A run dispatched is a change of what the gateway      *)
(* holds.  The answers of polls may overtake one another.                  *)

Sent(i) == polls' = [polls EXCEPT ![i] = version]

\* The interval, the timer at the start and the refresh button.
refresh(i) ==
  /\ part = "agents"
  /\ i # 0 /\ polls[i] = None
  /\ Sent(i)
  /\ UNCHANGED <<queryVars, part, input, subject, call, sent, calls, runs, busy>>

PollEnds(i) ==
  /\ polls[i] # None
  /\ polls' = [polls EXCEPT ![i] = None]
  /\ busy' = IF i = 0 THEN "no" ELSE busy
  /\ UNCHANGED <<queryVars, part, input, subject, call, sent, calls>>

PollAnswered(i) ==
  /\ gateway # "down"
  /\ PollEnds(i)
  /\ \E v \in polls[i]..version : runs' = v

\* A poll that fails is not told: the next one will do.
PollFails(i) == PollEnds(i) /\ runs' = runs

dispatch ==
  /\ part = "agents"
  /\ input # Blank /\ busy = "no"
  /\ busy' = "sent"
  /\ UNCHANGED <<queryVars, part, input, subject, call, sent, calls, runs, polls>>

\* The gateway enters the run, and has one then.
RunCreated ==
  /\ busy = "sent" /\ gateway # "down"
  /\ version < MaxVersion /\ version + 1 \notin EmptyAt
  /\ version' = version + 1
  /\ busy' = "created"
  /\ UNCHANGED <<gateway, changes, health, wasOnline, observed, cache, part, input,
                 subject, call, sent, calls, runs, polls>>

\* The answer clears the field, whatever has been typed since, and is followed
\* by a list request, which dispatch() awaits.
Dispatched ==
  /\ busy = "created"
  /\ input' = Blank /\ busy' = "listing"
  /\ Sent(0)
  /\ UNCHANGED <<queryVars, part, subject, call, sent, calls, runs>>

\* The request or its answer is lost: the prompt stays.
DispatchFails ==
  /\ busy \in {"sent", "created"}
  /\ busy' = "no"
  /\ UNCHANGED <<queryVars, part, input, subject, call, sent, calls, runs, polls>>

-----------------------------------------------------------------------------
Type(x) ==
  /\ part \in {"context", "memory", "agents"} /\ x # input
  /\ input' = x
  /\ UNCHANGED <<queryVars, part, subject, call, sent, calls, runs, polls, busy>>

Init ==
  /\ part \in Parts
  /\ observed \in Visits(part)
  /\ QueryInit
  /\ input = Blank /\ subject = Blank /\ call = Idle /\ sent = {} /\ calls = 0
  /\ runs = None /\ polls = [i \in Slots |-> None] /\ busy = "no"

QueryStep ==
  /\ \/ GatewayChanges
     \/ DataChanges
     \/ PollHealth
     \/ \E k \in DOMAIN cache : Settle(k) \/ (k \in Polled /\ Interval(k))
  /\ UNCHANGED pageVars

Next ==
  \/ QueryStep
  \/ \E x \in Texts \cup {Blank} : Type(x)
  \/ \E r \in sent : CallAnswered(r) \/ CallFails(r)
  \/ runAudit
  \/ runRecall
  \/ \E t \in Tools : OpenTool(t)
  \/ CloseTool
  \/ run
  \/ \E i \in Slots : refresh(i) \/ PollAnswered(i) \/ PollFails(i)
  \/ dispatch \/ RunCreated \/ Dispatched \/ DispatchFails

Spec == Init /\ [][Next]_vars

\* The queries of which a page keeps the old data, and no more, when a poll fails
\* (tools-panel.tsx:63-79, system-health-panel.tsx:75-101, inference-panel.tsx:26,
\* hitl-activity-panel.tsx:47).
KeptSilently == {"mcp-servers"} \cup Unconditional

(* The browser's timers go off, and requests end, with or without an       *)
(* answer.  Where a page does not tell that a poll failed, in what it      *)
(* keeps silently and in the list of the agents page, answers keep coming  *)
(* through while the gateway is up.  Neither the operator nor the gateway  *)
(* owes anything.                                                          *)
Fairness ==
  /\ WF_vars(PollHealth /\ UNCHANGED pageVars)
  /\ \A K \in Timers :
       /\ WF_vars(\E k \in K : Settle(k) /\ UNCHANGED pageVars)
       /\ WF_vars(\E k \in K : Interval(k) /\ UNCHANGED pageVars)
  /\ SF_vars(\E k \in KeptSilently : Settle(k) /\ ~IsError(k)' /\ UNCHANGED pageVars)
  /\ \A i \in Slots \ {0} : WF_vars(refresh(i)) /\ SF_vars(PollAnswered(i))

FairSpec == Spec /\ Fairness

-----------------------------------------------------------------------------
(* Properties.                                                             *)

\* Type invariant of the pages.
TypeOK ==
  /\ QueryTypeOK
  /\ part \in Parts /\ observed \in Visits(part)
  /\ input \in Texts \cup {Blank}
  /\ subject \in Texts \cup Tools \cup {Blank}
  /\ call.status \in {"idle", "pending", "success", "error"}
  /\ call.ver # None <=> call.status = "success"
  /\ calls \in 0..MaxCalls /\ \A r \in sent : r.n \in 1..calls
  /\ runs \in None..MaxVersion
  /\ polls \in [Slots -> None..MaxVersion]
  /\ busy \in {"no", "sent", "created", "listing"}
  /\ busy = "listing" <=> polls[0] # None

\* What is shown as the answer is the answer to what is shown as the question,
\* though requests overtake each other and dialogs are closed in between: the
\* recall of the query named on the page (memory-explorer.tsx:27-28, 105), the
\* result of the tool in the dialog (tool-call-modal.tsx:37, 69).
AnswersMatchQuestions ==
  /\ part = "memory" /\ {"results", "no match"} \cap RecallShows # {} => call.subject = subject
  /\ part = "tools" /\ "result" \in DialogShows => call.subject = subject

\* The words by which a page says that there is nothing.
NothingWords == {"no events", "no match", "no tools", "no runs", "not probed", "no decisions"}

Shown ==
  CASE part = "memory" -> SurfaceShows \cup RecallShows
    [] part = "tools"  -> ToolsShow
    [] part = "agents" -> AgentsShow
    [] part = "health" -> HealthShows
    [] part = "hitl"   -> HitlShows
    [] OTHER           -> {}

\* Three pages say so from the start, before they have asked: of runs
\* (agents/page.tsx:112), of the memory tiers (system-health-panel.tsx:165) and of
\* decisions (hitl-activity-panel.tsx:102).  A page comes to say so only by an
\* answer that has none, to the request on the way and to the question shown, of
\* what the gateway held since that was sent: not by a poll that failed, an
\* outage, a refetch, a closed dialog or the answer to an earlier question.
NothingIsNews ==
  \A word \in NothingWords \cap (Shown' \ Shown) :
    CASE word = "no match" ->
           \E r \in sent \ sent' : /\ r.subject = subject
                                  /\ call'.ver \in EmptyAt \cap (r.since..version)
      [] word = "no runs" ->
           \E i \in Slots : polls[i] # None /\ runs' \in EmptyAt \cap (polls[i]..version)
      [] OTHER ->
           \E k \in observed : /\ Entry(k).since # None /\ Entry(k)'.since = None
                              /\ Entry(k)'.ver \in EmptyAt \cap (Entry(k).since..version)

\* What the pages show is true of the gateway's answers.
PagesTellTheTruth == [](TypeOK /\ AnswersMatchQuestions) /\ [][NothingIsNews]_vars

\* The badge of the context page comes to tell whether the manifest's version
\* is the one the gateway has now, as long as the page is online and does not
\* show the header as unavailable (context-state-panel.tsx:70-73).
TruthfulBadge ==
  []<>(\/ part # "context" \/ ~useGatewayOnline
       \/ Card("system-state") = "unavailable"
       \/ call.ver = None
       \/ HeaderBadge = IF call.ver = version THEN "current" ELSE "stale")

\* A run that was dispatched comes to be listed, and what the runner did to it,
\* whichever polls were lost or overtaken (agents/page.tsx:25-40).
DispatchedIsListed == []<>(part # "agents" \/ gateway = "down" \/ runs = version)

\* Where the visited page tells that the last poll of k has failed.
Told(k) ==
  /\ IsError(k)
  /\ CASE part \in {"context", "stores"} -> Card(k) = "unavailable"
       [] part = "system"  -> SystemCard(k) = "unavailable"
       [] part = "memory"  -> "unavailable" \in SurfaceShows
       [] part = "tools"   -> k = "mcp-tools" /\ "failed" \in ToolsShow
       [] part = "llm"     -> LlmState = "unavailable"
       [] part = "network" -> \A s \in DOMAIN SatelliteKey :
                                SatelliteKey[s] = k => ~SatelliteOnline(s)
       [] OTHER            -> FALSE

\* What is polled catches up, on every page, with its data or, where the page does
\* so, by telling that the last poll failed; unless the light in the sidebar
\* (connection-status.tsx:11-14) says that the gateway is away.  The observability
\* panels poll a gateway also then, and tell nothing of a failed poll: they catch
\* up unless it is down (observability-hooks.ts:10-43).
PollsCatchUp ==
  \A K \in Timers :
    []<>(\A k \in K \cap observed :
           \/ IF k \in Unconditional THEN gateway = "down" ELSE ConnectionState # "online"
           \/ Told(k)
           \/ Entry(k).ver = version)

\* The lights come to tell how it is: that of the language model is on, in the end,
\* just when the model is up and the last poll came through (llm-status.tsx:8-15),
\* those of the network page likewise (use-subsystem-status.ts:45-52), and its core
\* shows the gateway's own state (network-view.tsx:134-140).  The panels that
\* Prometheus fills have no words for a failed poll, but come to have those for
\* what the gateway has now unless it is down.
TellsHowItIs ==
  LET up == version \notin EmptyAt
  IN CASE part = "llm" ->
            LlmState \in {"hidden", IF up /\ ~IsError("llm-status") THEN "available"
                                                               ELSE "unavailable"}
       [] part = "network" ->
            /\ CoreStatus = IF gateway = "down" THEN "offline" ELSE gateway
            /\ \A s \in {x \in DOMAIN SatelliteKey : SatelliteKey[x] \in observed} :
                 SatelliteOnline(s) = /\ useGatewayOnline
                                      /\ ~IsError(SatelliteKey[s])
                                      /\ s # "voice" \/ up
       [] part = "health" ->
            \/ gateway = "down"
            \/ HealthShows = {"nodes"} \cup IF up THEN {"metrics", "tiers"}
                                                ELSE {"no metrics", "not probed"}
       [] part = "inference" ->
            \/ gateway = "down"
            \/ InferenceShows = IF up THEN {"series"} ELSE {"no throughput", "no metrics"}
       [] part = "hitl" ->
            \/ gateway = "down"
            \/ HitlShows = IF up THEN {"series", "decisions"} ELSE {"no metrics", "no decisions"}
       [] OTHER -> TRUE

TruthfulLights == []<>TellsHowItIs

\* All of the above: what a page shows catches up with the gateway.
ShownCatchesUp == TruthfulBadge /\ TruthfulLights /\ DispatchedIsListed /\ PollsCatchUp
=============================================================================

--------------------------- MODULE GatewayQueries ---------------------------
(***************************************************************************)
(* What every page of the web console shares: the health check that tells  *)
(* whether the gateway is online, the cache of answers the pages read from *)
(* (the useQuery hooks of lib/api/hooks.ts) and GatewayQuerySync, which    *)
(* refetches when the gateway comes back.                                  *)
(*                                                                         *)
(* The gateway is external: its state is "ok", "degraded" or "down", and   *)
(* `version' counts the changes of what its other endpoints answer.  An    *)
(* entry of the cache is what TanStack Query keeps for a query key, again  *)
(* external and modelled from how the hooks use it:                        *)
(*   ver     the version of the data, None before the first answer         *)
(*   error   the last fetch failed (data, if any, stays)                   *)
(*   invalid invalidated since the last answer                             *)
(*   since   None when no request is in flight, else the gateway's version *)
(*           when it was sent: the answer is of that version or a later one*)
(* Time is not modelled: an entry may pass its staleTime at any moment.    *)
(***************************************************************************)
EXTENDS Integers, FiniteSets, TLC

CONSTANTS
  Unconditional,   \* the query keys that are asked for online or not
  MaxVersion,   \* bound: how often the gateway's data changes
  MaxChanges    \* bound: how often the gateway's state changes

ASSUME BoundsAssumption == MaxVersion \in Nat /\ MaxChanges \in Nat

VARIABLES
  gateway,    \* the state of the gateway itself
  version,    \* the version of its data
  changes,    \* how often `gateway' has changed
  health,     \* the entry of the query key "health"
  wasOnline,  \* GatewayQuerySync's ref
  observed,   \* the keys of the mounted observers
  cache       \* query key -> entry

queryVars == <<gateway, version, changes, health, wasOnline, observed, cache>>

None == -1

\* The text of a field left blank.
Blank == ""

GatewayStates == {"ok", "degraded", "down"}
HealthEntries == [data : {"none", "ok", "degraded"}, error : BOOLEAN]
Entries == [ver : None..MaxVersion, error : BOOLEAN, invalid : BOOLEAN,
            since : None..MaxVersion]

NewEntry == [ver |-> None, error |-> FALSE, invalid |-> FALSE, since |-> None]

-----------------------------------------------------------------------------
(* Reading: what a component sees.                                         *)

useGatewayOnline == ~health.error /\ health.data = "ok"

ConnectionState ==
  CASE health.error           -> "offline"
    [] health.data = "none"   -> "checking"
    [] health.data = "ok"     -> "online"
    [] OTHER                  -> "degraded"

Entry(k) == IF k \in DOMAIN cache THEN cache[k] ELSE NewEntry
HasData(k) == Entry(k).ver # None
IsError(k) == Entry(k).error
IsPending(k) == ~HasData(k) /\ ~IsError(k)

\* The observers that may fetch: mounted and, nearly all, enabled only online.
ActiveWhen(online) == IF online THEN observed ELSE observed \cap Unconditional

Active == ActiveWhen(useGatewayOnline)

-----------------------------------------------------------------------------
(* Fetching.                                                               *)

\* A fetch: one request per key at a time; without data an error is cleared.
Ask(e) ==
  IF e.since # None THEN e
  ELSE [e EXCEPT !.since = version, !.error = @ /\ e.ver # None]

\* The refetch of an invalidation drops the request in flight and sends a new
\* one, unless the key has no data yet.
Refetch(e) ==
  IF e.ver # None THEN [e EXCEPT !.since = version, !.invalid = TRUE]
  ELSE [Ask(e) EXCEPT !.invalid = TRUE]

Invalidate(c, K, active) ==
  [k \in DOMAIN c |-> IF k \notin K THEN c[k]
                      ELSE IF k \in active THEN Refetch(c[k])
                      ELSE [c[k] EXCEPT !.invalid = TRUE]]

\* Observers that start (mounted, enabled or given a new key) fetch what has no
\* data, is invalidated or is past its staleTime.
Observe(c, started, stale) ==
  [k \in DOMAIN c \cup started |->
     LET e == IF k \in DOMAIN c THEN c[k] ELSE NewEntry IN
     IF k \in started /\ (e.ver = None \/ e.invalid \/ k \in stale) THEN Ask(e)
     ELSE e]

\* The end of a step of a page: the observers follow what it now reads.
Follow(c) ==
  \E stale \in SUBSET {k \in Active' \ Active : k \in DOMAIN c /\ c[k].ver # None} :
    cache' = Observe(c, Active' \ Active, stale)

QueryInit ==
  /\ gateway \in GatewayStates
  /\ version = 0
  /\ changes = 0
  /\ health = [data |-> "none", error |-> FALSE]
  /\ wasOnline = FALSE
  /\ cache = Observe(<<>>, observed \cap Unconditional, {})

-----------------------------------------------------------------------------
(* Actions.                                                                *)

\* The gateway goes down, degrades or recovers.
GatewayChanges ==
  /\ changes < MaxChanges
  /\ \E g \in GatewayStates \ {gateway} : gateway' = g
  /\ changes' = changes + 1
  /\ UNCHANGED <<version, health, wasOnline, observed, cache>>

\* Someone else changes what the gateway answers.
DataChanges ==
  /\ version < MaxVersion
  /\ version' = version + 1
  /\ UNCHANGED <<gateway, changes, health, wasOnline, observed, cache>>

\* What a health poll leaves: a failed one keeps the last answer.
HealthAfterPoll ==
  IF gateway = "down" THEN [health EXCEPT !.error = TRUE]
  ELSE [data |-> gateway, error |-> FALSE]

\* GatewayQuerySync's effect: when the health data turns "ok", everything but
\* the health itself is invalidated.
GatewayQuerySync(h) ==
  IF h.data = "ok" /\ ~wasOnline
  THEN Invalidate(cache, DOMAIN cache, ActiveWhen(~h.error))
  ELSE cache

PollHealth ==
  /\ health' = HealthAfterPoll
  /\ wasOnline' = (HealthAfterPoll.data = "ok")
  /\ UNCHANGED <<gateway, version, changes, observed>>
  /\ Follow(GatewayQuerySync(HealthAfterPoll))

\* A request is answered with what the gateway held at some moment since it
\* was sent; one sent to a gateway that is not up fails, any other may.
Answered(k) ==
  /\ gateway # "down"
  /\ \E v \in cache[k].since..version :
       cache' = [cache EXCEPT ![k] = [NewEntry EXCEPT !.ver = v]]

Failed(k) ==
  cache' = [cache EXCEPT ![k] = [@ EXCEPT !.error = TRUE, !.invalid = TRUE,
                                          !.since = None]]

Settle(k) ==
  /\ k \in DOMAIN cache
  /\ cache[k].since # None
  /\ Answered(k) \/ Failed(k)
  /\ UNCHANGED <<gateway, version, changes, health, wasOnline, observed>>

\* refetchInterval: an enabled query asks again.
Interval(k) ==
  /\ k \in Active
  /\ cache[k].since = None
  /\ cache' = [cache EXCEPT ![k] = Ask(@)]
  /\ UNCHANGED <<gateway, version, changes, health, wasOnline, observed>>

QueryTypeOK ==
  /\ gateway \in GatewayStates
  /\ version \in 0..MaxVersion
  /\ changes \in 0..MaxChanges
  /\ health \in HealthEntries
  /\ wasOnline \in BOOLEAN
  /\ \A k \in DOMAIN cache : cache[k] \in Entries
  /\ Active \subseteq DOMAIN cache
=============================================================================

------------------------- MODULE GatewayPagesProofs -------------------------
(***************************************************************************)
(* The pages that read the gateway through the query cache.                *)
(*                                                                         *)
(* For any gateway, any graphs and any number of steps: the graph page     *)
(* shows and draws what the answers say, and its refresh button reaches    *)
(* all of it; the other pages show an answer under its own question, and   *)
(* come to say that there is nothing only by an answer that has none.      *)
(***************************************************************************)
EXTENDS GraphExplorer, OperatorPages, TLAPS

-----------------------------------------------------------------------------
(***************************************************************************)
(* Entries of the cache.  One that is asked for again keeps its data; the  *)
(* request on its way is the one it had, or one sent now, which leaves an  *)
(* error only beside data.                                                 *)
(***************************************************************************)
Renewed(e, x) ==
  /\ x \in Entries
  /\ x.ver = e.ver
  /\ \/ x.since = version /\ (x.error => e.error /\ e.ver # None)
     \/ x.since = e.since /\ x.error = e.error

(* What a step makes of the cache when no request ends in it.              *)
Renews ==
  /\ DOMAIN cache \cup Active' \subseteq DOMAIN cache'
  /\ \A k \in DOMAIN cache' : Renewed(Entry(k), cache'[k])

LEMMA NewEntryType == NewEntry \in Entries
BY BoundsAssumption DEF NewEntry, Entries, None

LEMMA RenewedSame ==
  ASSUME NEW e \in Entries
  PROVE  Renewed(e, e) /\ Renewed(e, [e EXCEPT !.invalid = TRUE])
BY DEF Renewed, Entries

LEMMA RenewedTwice ==
  ASSUME NEW e \in Entries, NEW x, NEW y, Renewed(e, x), Renewed(x, y)
  PROVE  Renewed(e, y)
BY DEF Renewed, Entries

LEMMA AskRenews ==
  ASSUME version \in 0..MaxVersion, NEW e \in Entries
  PROVE  Renewed(e, Ask(e))
<1>1. CASE e.since # None
  BY <1>1, RenewedSame DEF Ask
<1>2. CASE e.since = None
  <2>1. Ask(e) = [e EXCEPT !.since = version, !.error = e.error /\ e.ver # None]
    BY <1>2 DEF Ask
  <2>2. CASE e.error /\ e.ver # None
    <3>1. Ask(e) = [ver |-> e.ver, error |-> TRUE, invalid |-> e.invalid, since |-> version]
      BY <2>1, <2>2 DEF Entries
    <3>2. QED
      BY <2>2, <3>1, BoundsAssumption DEF Renewed, Entries, None
  <2>3. CASE ~(e.error /\ e.ver # None)
    <3>1. Ask(e) = [ver |-> e.ver, error |-> FALSE, invalid |-> e.invalid, since |-> version]
      BY <2>1, <2>3 DEF Entries
    <3>2. QED
      BY <3>1, BoundsAssumption DEF Renewed, Entries, None
  <2>4. QED
    BY <2>2, <2>3
<1>3. QED
  BY <1>1, <1>2

LEMMA RefetchRenews ==
  ASSUME version \in 0..MaxVersion, NEW e \in Entries
  PROVE  Renewed(e, Refetch(e))
<1>1. CASE e.ver # None
  <2>1. Refetch(e) = [e EXCEPT !.since = version, !.invalid = TRUE]
    BY <1>1 DEF Refetch
  <2>2. Refetch(e) = [ver |-> e.ver, error |-> e.error, invalid |-> TRUE, since |-> version]
    BY <2>1 DEF Entries
  <2>3. Refetch(e) \in Entries
    BY <2>2, BoundsAssumption DEF Entries, None
  <2>4. QED
    BY <1>1, <2>2, <2>3 DEF Renewed
<1>2. CASE e.ver = None
  <2>1. Renewed(e, Ask(e))
    BY AskRenews
  <2>2. Renewed(Ask(e), [Ask(e) EXCEPT !.invalid = TRUE])
    BY <2>1, RenewedSame DEF Renewed
  <2>3. QED
    BY <1>2, <2>1, <2>2, RenewedTwice DEF Refetch
<1>3. QED
  BY <1>1, <1>2

-----------------------------------------------------------------------------
(* Steps of the cache.                                                     *)

LEMMA InvalidateRenews ==
  ASSUME QueryTypeOK, NEW K, NEW active
  PROVE  /\ DOMAIN Invalidate(cache, K, active) = DOMAIN cache
         /\ \A k \in DOMAIN cache : Renewed(cache[k], Invalidate(cache, K, active)[k])
<1>1. version \in 0..MaxVersion /\ \A k \in DOMAIN cache : cache[k] \in Entries
  BY DEF QueryTypeOK
<1>2. DOMAIN Invalidate(cache, K, active) = DOMAIN cache
  BY DEF Invalidate
<1>3. ASSUME NEW k \in DOMAIN cache
      PROVE  Renewed(cache[k], Invalidate(cache, K, active)[k])
  <2>1. /\ Renewed(cache[k], cache[k])
        /\ Renewed(cache[k], Refetch(cache[k]))
        /\ Renewed(cache[k], [cache[k] EXCEPT !.invalid = TRUE])
    BY <1>1, RenewedSame, RefetchRenews
  <2>2. Invalidate(cache, K, active)[k]
          \in {cache[k], Refetch(cache[k]), [cache[k] EXCEPT !.invalid = TRUE]}
    BY DEF Invalidate
  <2>3. QED
    BY <2>1, <2>2
<1>4. QED
  BY <1>2, <1>3

LEMMA ObserveRenews ==
  ASSUME version \in 0..MaxVersion, NEW c, \A k \in DOMAIN c : c[k] \in Entries,
         NEW started, NEW stale
  PROVE  /\ DOMAIN Observe(c, started, stale) = DOMAIN c \cup started
         /\ \A k \in DOMAIN c \cup started :
              Renewed(IF k \in DOMAIN c THEN c[k] ELSE NewEntry, Observe(c, started, stale)[k])
<1>1. DOMAIN Observe(c, started, stale) = DOMAIN c \cup started
  BY DEF Observe
<1>2. ASSUME NEW k \in DOMAIN c \cup started
      PROVE  Renewed(IF k \in DOMAIN c THEN c[k] ELSE NewEntry, Observe(c, started, stale)[k])
  <2> DEFINE e == IF k \in DOMAIN c THEN c[k] ELSE NewEntry
  <2>1. e \in Entries
    BY NewEntryType
  <2>2. Renewed(e, e) /\ Renewed(e, Ask(e))
    <3> HIDE DEF e
    <3>1. QED
      BY <2>1, RenewedSame, AskRenews
  <2>3. Observe(c, started, stale)[k] \in {e, Ask(e)}
    BY DEF Observe
  <2>4. QED
    BY <2>2, <2>3
<1>3. QED
  BY <1>1, <1>2

LEMMA FollowRenews ==
  ASSUME QueryTypeOK, NEW c, DOMAIN c = DOMAIN cache,
         \A k \in DOMAIN cache : Renewed(cache[k], c[k]),
         Follow(c)
  PROVE  Renews
<1>1. version \in 0..MaxVersion /\ Active \subseteq DOMAIN cache
  BY DEF QueryTypeOK
<1>2. PICK stale : cache' = Observe(c, Active' \ Active, stale)
  BY DEF Follow
<1>3. \A k \in DOMAIN c : c[k] \in Entries
  BY DEF Renewed
<1>4. /\ DOMAIN cache' = DOMAIN c \cup (Active' \ Active)
      /\ \A k \in DOMAIN c \cup (Active' \ Active) :
           Renewed(IF k \in DOMAIN c THEN c[k] ELSE NewEntry, cache'[k])
  BY <1>1, <1>2, <1>3, ObserveRenews
<1>5. ASSUME NEW k \in DOMAIN cache' PROVE Renewed(Entry(k), cache'[k])
  <2>1. CASE k \in DOMAIN cache
    <3>1. cache[k] \in Entries /\ Renewed(cache[k], c[k]) /\ Renewed(c[k], cache'[k])
      BY <1>4, <2>1 DEF QueryTypeOK
    <3>2. QED
      BY <2>1, <3>1, RenewedTwice DEF Entry
  <2>2. CASE k \notin DOMAIN cache
    BY <1>4, <1>5, <2>2 DEF Entry
  <2>3. QED
    BY <2>1, <2>2
<1>6. QED
  BY <1>1, <1>4, <1>5 DEF Renews

(* A poll of the health, whether or not GatewayQuerySync invalidates.      *)
LEMMA PollRenews ==
  ASSUME QueryTypeOK, PollHealth
  PROVE  Renews /\ QueryTypeOK'
<1> DEFINE c == GatewayQuerySync(HealthAfterPoll)
<1>1. DOMAIN c = DOMAIN cache /\ \A k \in DOMAIN cache : Renewed(cache[k], c[k])
  BY InvalidateRenews, RenewedSame DEF GatewayQuerySync, QueryTypeOK
<1>2. Renews
  <2> HIDE DEF c
  <2>1. Follow(c)
    BY DEF PollHealth, c
  <2>2. QED
    BY <1>1, <2>1, FollowRenews
<1>3. health' \in HealthEntries /\ wasOnline' \in BOOLEAN
  <2>1. HealthAfterPoll \in HealthEntries
    <3>1. gateway \in GatewayStates /\ health \in HealthEntries
      BY DEF QueryTypeOK
    <3>2. CASE gateway = "down"
      BY <3>1, <3>2 DEF HealthAfterPoll, HealthEntries
    <3>3. CASE gateway # "down"
      BY <3>1, <3>3 DEF HealthAfterPoll, HealthEntries, GatewayStates
    <3>4. QED
      BY <3>2, <3>3
  <2>2. QED
    BY <2>1 DEF PollHealth
<1>4. QED
  BY <1>2, <1>3 DEF PollHealth, QueryTypeOK, Renews, Renewed

(* The end of a request: data of the gateway since it was sent, or an      *)
(* error beside the data there was.                                        *)
LEMMA SettleEntry ==
  ASSUME QueryTypeOK, NEW k, Settle(k)
  PROVE  /\ DOMAIN cache' = DOMAIN cache /\ k \in DOMAIN cache /\ cache[k].since # None
         /\ \A j \in DOMAIN cache \ {k} : cache'[j] = cache[j]
         /\ cache'[k] \in Entries /\ cache'[k].since = None
         /\ \/ cache'[k].ver \in cache[k].since..version /\ cache'[k].error = FALSE
            \/ cache'[k].ver = cache[k].ver /\ cache'[k].error = TRUE
         /\ QueryTypeOK'
<1>1. k \in DOMAIN cache /\ cache[k] \in Entries /\ cache[k].since # None /\ version \in 0..MaxVersion
  BY DEF QueryTypeOK, Settle
<1>2. CASE Answered(k)
  <2>1. PICK v \in cache[k].since..version :
          cache' = [cache EXCEPT ![k] = [NewEntry EXCEPT !.ver = v]]
    BY <1>2 DEF Answered
  <2>2. cache'[k] = [ver |-> v, error |-> FALSE, invalid |-> FALSE, since |-> None]
    BY <1>1, <2>1 DEF NewEntry
  <2>3. v \in 0..MaxVersion
    BY <1>1, <2>1, BoundsAssumption DEF Entries, None
  <2>4. cache'[k] \in Entries
    BY <2>2, <2>3, BoundsAssumption DEF Entries, None
  <2>5. DOMAIN cache' = DOMAIN cache /\ \A j \in DOMAIN cache \ {k} : cache'[j] = cache[j]
    BY <2>1
  <2>6. QueryTypeOK'
    BY <2>4, <2>5 DEF QueryTypeOK, Settle, Active, ActiveWhen, useGatewayOnline
  <2>7. QED
    BY <1>1, <2>1, <2>2, <2>4, <2>5, <2>6
<1>3. CASE Failed(k)
  <2>1. cache' = [cache EXCEPT ![k] = [cache[k] EXCEPT !.error = TRUE, !.invalid = TRUE, !.since = None]]
    BY <1>3 DEF Failed
  <2>2. cache'[k] = [ver |-> cache[k].ver, error |-> TRUE, invalid |-> TRUE, since |-> None]
    BY <1>1, <2>1 DEF Entries
  <2>3. cache'[k] \in Entries
    BY <1>1, <2>2, BoundsAssumption DEF Entries, None
  <2>4. DOMAIN cache' = DOMAIN cache /\ \A j \in DOMAIN cache \ {k} : cache'[j] = cache[j]
    BY <2>1
  <2>5. QueryTypeOK'
    BY <2>3, <2>4 DEF QueryTypeOK, Settle, Active, ActiveWhen, useGatewayOnline
  <2>6. QED
    BY <1>1, <2>2, <2>3, <2>4, <2>5
<1>4. QED
  BY <1>2, <1>3 DEF Settle

LEMMA OutsideType ==
  ASSUME QueryTypeOK, GatewayChanges \/ DataChanges
  PROVE  QueryTypeOK' /\ UNCHANGED <<cache, health, observed>>
BY BoundsAssumption
   DEF QueryTypeOK, GatewayChanges, DataChanges, Active, ActiveWhen, useGatewayOnline

LEMMA IntervalType ==
  ASSUME QueryTypeOK, NEW k, Interval(k)
  PROVE  QueryTypeOK'
<1>1. k \in DOMAIN cache /\ cache[k] \in Entries /\ version \in 0..MaxVersion
  BY DEF Interval, QueryTypeOK
<1>2. Ask(cache[k]) \in Entries
  BY <1>1, AskRenews DEF Renewed
<1>3. QED
  BY <1>1, <1>2 DEF Interval, QueryTypeOK, Active, ActiveWhen, useGatewayOnline

LEMMA QueryInitType ==
  ASSUME QueryInit
  PROVE  QueryTypeOK /\ \A k \in DOMAIN cache : Renewed(NewEntry, cache[k])
<1>1. version \in 0..MaxVersion /\ changes \in 0..MaxChanges
  BY BoundsAssumption DEF QueryInit
<1>2. /\ DOMAIN cache = observed \cap Unconditional
      /\ \A k \in DOMAIN cache : cache[k] \in Entries /\ Renewed(NewEntry, cache[k])
  <2> DEFINE c == <<>>
  <2>1. DOMAIN c = {}
    OBVIOUS
  <2>2. cache = Observe(c, observed \cap Unconditional, {})
    BY DEF QueryInit
  <2>3. \A k \in DOMAIN c : c[k] \in Entries
    BY <2>1
  <2> HIDE DEF c
  <2> DEFINE started == observed \cap Unconditional
  <2> HIDE DEF started
  <2>4. /\ DOMAIN cache = DOMAIN c \cup started
        /\ \A k \in DOMAIN c \cup started :
             Renewed(IF k \in DOMAIN c THEN c[k] ELSE NewEntry, cache[k])
    BY <1>1, <2>2, <2>3, ObserveRenews DEF started
  <2>5. QED
    BY <2>1, <2>4 DEF Renewed, started
<1>3. QED
  BY <1>1, <1>2 DEF QueryInit, QueryTypeOK, Active, ActiveWhen, useGatewayOnline,
                    HealthEntries

-----------------------------------------------------------------------------
(***************************************************************************)
(* The other pages.                                                        *)
(***************************************************************************)
(* The requests on their way have numbers given out already; one whose     *)
(* answer would be shown asks what the page names as the question; and     *)
(* while no dialog is open nothing is shown or awaited.                    *)
CallsOfPage ==
  /\ sent \subseteq [n: 1..calls, subject: Texts \cup Tools, since: 0..MaxVersion]
  /\ part = "tools" /\ subject = Blank => call.of = None /\ call.ver = None
  /\ part \in {"memory", "tools"} => \A r \in sent : r.n = call.of => r.subject = subject

(* An answer there is is that to the question of the page.                 *)
AnswerOwn ==
  part \in {"memory", "tools"} /\ call.ver # None => call.subject = subject

(* The inductive invariant.                                                *)
PagesInv == TypeOK /\ CallsOfPage /\ AnswerOwn

LEMMA OwnAnswers == PagesInv => AnswersMatchQuestions
<1> SUFFICES ASSUME PagesInv PROVE AnswersMatchQuestions
  OBVIOUS
<1>1. None \notin EmptyAt
  BY PagesAssumption DEF None
<1>2. {"results", "no match"} \cap RecallShows # {} => call.ver # None
  BY <1>1 DEF RecallShows
<1>3. "result" \in DialogShows => call.ver # None
  BY DEF DialogShows
<1>4. QED
  BY <1>2, <1>3 DEF PagesInv, AnswerOwn, AnswersMatchQuestions

LEMMA PagesInit == Init => PagesInv
<1> SUFFICES ASSUME Init PROVE PagesInv
  OBVIOUS
<1>1. QueryTypeOK
  BY QueryInitType DEF Init
<1>2. call.of = None /\ call.status = "idle" /\ call.ver = None
  BY DEF Init, Idle
<1>3. runs \in None..MaxVersion /\ polls \in [Slots -> None..MaxVersion] /\ polls[0] = None
  BY BoundsAssumption, PagesAssumption DEF Init, None, Slots
<1>4. calls \in 0..MaxCalls
  BY PagesAssumption DEF Init
<1>5. TypeOK
  BY <1>1, <1>2, <1>3, <1>4 DEF Init, TypeOK
<1>6. CallsOfPage /\ AnswerOwn
  BY <1>2 DEF Init, CallsOfPage, AnswerOwn
<1>7. QED
  BY <1>5, <1>6 DEF PagesInv

(* A step that leaves the requests and the question alone keeps what is    *)
(* said of them.                                                           *)
LEMMA QuietKeeps ==
  ASSUME PagesInv, UNCHANGED <<part, subject, call, sent, calls>>, TypeOK'
  PROVE  PagesInv'
BY DEF PagesInv, CallsOfPage, AnswerOwn

LEMMA PagesQueryStep ==
  ASSUME PagesInv, QueryStep
  PROVE  PagesInv'
<1>1. QueryTypeOK
  BY DEF PagesInv, TypeOK
<1>2. QueryTypeOK' /\ observed' = observed
  <2>1. CASE GatewayChanges \/ DataChanges
    BY <1>1, <2>1, OutsideType
  <2>2. CASE PollHealth
    BY <1>1, <2>2, PollRenews DEF PollHealth
  <2>3. CASE \E k \in DOMAIN cache : Settle(k)
    BY <1>1, <2>3, SettleEntry DEF Settle
  <2>4. CASE \E k \in DOMAIN cache : Interval(k)
    BY <1>1, <2>4, IntervalType DEF Interval
  <2>5. QED
    BY <2>1, <2>2, <2>3, <2>4 DEF QueryStep
<1>3. UNCHANGED pageVars
  BY DEF QueryStep
<1>4. TypeOK'
  BY <1>2, <1>3 DEF PagesInv, TypeOK, pageVars
<1>5. QED
  BY <1>3, <1>4, QuietKeeps DEF pageVars

LEMMA QueriesAlone ==
  ASSUME QueryTypeOK, UNCHANGED queryVars
  PROVE  QueryTypeOK'
BY DEF QueryTypeOK, queryVars, Active, ActiveWhen, useGatewayOnline

(* A request is made with a number of its own.                             *)
LEMMA MutateKeeps ==
  ASSUME PagesInv, NEW x \in Texts \cup Tools, Mutate(x),
         UNCHANGED <<queryVars, part, input, runs, polls, busy>>,
         subject' \in Texts \cup Tools \cup {Blank},
         part \in {"memory", "tools"} => subject' = x
  PROVE  PagesInv'
<1>1. calls \in 0..MaxCalls /\ version \in 0..MaxVersion /\ calls' = calls + 1 /\ calls' \in 1..MaxCalls
  BY PagesAssumption DEF PagesInv, TypeOK, QueryTypeOK, Mutate
<1> DEFINE new == [n |-> calls', subject |-> x, since |-> version]
<1>2. sent' = sent \cup {new}
  BY DEF Mutate
<1>3. new \in [n: 1..calls', subject: Texts \cup Tools, since: 0..MaxVersion]
  BY <1>1
<1>4. \A r \in sent : /\ r \in [n: 1..calls', subject: Texts \cup Tools, since: 0..MaxVersion]
                      /\ r.n \in 1..calls
  BY <1>1 DEF PagesInv, CallsOfPage
<1>5. call'.of = calls' /\ call'.status = "pending" /\ call'.ver = None
  BY DEF Mutate
<1>6. TypeOK'
  <2>1. QueryTypeOK'
    BY QueriesAlone DEF PagesInv, TypeOK
  <2>2. \A r \in sent' : r.n \in 1..calls'
    BY <1>2, <1>3, <1>4
  <2>3. observed' = observed
    BY DEF queryVars
  <2>4. QED
    BY <1>1, <1>5, <2>1, <2>2, <2>3 DEF PagesInv, TypeOK
<1>7. \A r \in sent' : r.n = call'.of => r.subject = x
  BY <1>1, <1>2, <1>4, <1>5
<1>8. part = "tools" => subject' # Blank
  BY PagesAssumption
<1>9. CallsOfPage'
  BY <1>2, <1>3, <1>4, <1>7, <1>8 DEF CallsOfPage
<1>10. AnswerOwn'
  BY <1>5 DEF AnswerOwn
<1>11. QED
  BY <1>6, <1>9, <1>10 DEF PagesInv

(* The end of a request is shown if it is the one made last.               *)
LEMMA SettledKeeps ==
  ASSUME PagesInv, NEW r \in sent, NEW shown, Settled(r, shown),
         shown.of = r.n,
         shown.status \in {"success", "error"},
         shown.ver # None <=> shown.status = "success",
         shown.ver # None => shown.subject = r.subject
  PROVE  PagesInv'
<1>1. sent' \subseteq sent /\ UNCHANGED <<queryVars, part, input, subject, calls, runs, polls, busy>>
  BY DEF Settled
<1>2. r.n \in 1..calls /\ calls \in Nat
  BY DEF PagesInv, TypeOK
<1>3. CASE r.n = call.of
  <2>1. call' = shown /\ call'.of = call.of
    BY <1>3 DEF Settled
  <2>2. call.of # None
    BY <1>2, <1>3 DEF None
  <2>3. QueryTypeOK' /\ observed' = observed
    BY <1>1, QueriesAlone DEF PagesInv, TypeOK, queryVars
  <2>4. TypeOK'
    BY <1>1, <2>1, <2>3 DEF PagesInv, TypeOK
  <2>5. CallsOfPage'
    BY <1>1, <2>1, <2>2 DEF PagesInv, CallsOfPage
  <2>6. AnswerOwn'
    BY <1>1, <1>3, <2>1 DEF PagesInv, CallsOfPage, AnswerOwn
  <2>7. QED
    BY <2>4, <2>5, <2>6 DEF PagesInv
<1>4. CASE r.n # call.of
  <2>1. call' = call
    BY <1>4 DEF Settled
  <2>2. QueryTypeOK' /\ observed' = observed
    BY <1>1, QueriesAlone DEF PagesInv, TypeOK, queryVars
  <2>3. TypeOK'
    BY <1>1, <2>1, <2>2 DEF PagesInv, TypeOK
  <2>4. CallsOfPage' /\ AnswerOwn'
    BY <1>1, <2>1 DEF PagesInv, CallsOfPage, AnswerOwn
  <2>5. QED
    BY <2>3, <2>4 DEF PagesInv
<1>5. QED
  BY <1>3, <1>4

(* Polls of the agents page.                                               *)
LEMMA PollEndsKeeps ==
  ASSUME PagesInv, NEW i \in Slots, PollEnds(i), runs' \in None..MaxVersion
  PROVE  PagesInv'
<1>1. polls \in [Slots -> None..MaxVersion] /\ None \in None..MaxVersion /\ 0 \in Slots
  BY BoundsAssumption, PagesAssumption DEF PagesInv, TypeOK, None, Slots
<1>2. polls' \in [Slots -> None..MaxVersion]
  BY <1>1 DEF PollEnds
<1>3. busy' \in {"no", "sent", "created", "listing"} /\ (busy' = "listing" <=> polls'[0] # None)
  BY <1>1 DEF PollEnds, PagesInv, TypeOK
<1>4. QueryTypeOK' /\ observed' = observed
  BY QueriesAlone DEF PagesInv, TypeOK, queryVars, PollEnds
<1>5. TypeOK'
  BY <1>2, <1>3, <1>4 DEF PagesInv, TypeOK, PollEnds
<1>6. QED
  BY <1>5, QuietKeeps DEF PollEnds

(* The steps of a page that make no request and change no question.        *)
LEMMA FieldKeeps ==
  ASSUME PagesInv, UNCHANGED <<queryVars, part, subject, call, sent, calls, runs>>,
         input' \in Texts \cup {Blank},
         polls' \in [Slots -> None..MaxVersion],
         busy' \in {"no", "sent", "created", "listing"},
         busy' = "listing" <=> polls'[0] # None
  PROVE  PagesInv'
<1>1. QueryTypeOK' /\ observed' = observed
  BY QueriesAlone DEF PagesInv, TypeOK, queryVars
<1>2. TypeOK'
  BY <1>1 DEF PagesInv, TypeOK
<1>3. QED
  BY <1>2, QuietKeeps

LEMMA PagesStep ==
  ASSUME PagesInv, [Next]_vars
  PROVE  PagesInv'
<1>1. CASE QueryStep
  BY <1>1, PagesQueryStep
<1>2. ASSUME NEW x \in Texts \cup {Blank}, Type(x) PROVE PagesInv'
  BY <1>2, FieldKeeps DEF Type, PagesInv, TypeOK
<1>3. ASSUME NEW r \in sent, CallAnswered(r) PROVE PagesInv'
  <2>1. r.since \in 0..MaxVersion /\ version \in 0..MaxVersion
    BY <1>3 DEF PagesInv, CallsOfPage, TypeOK, QueryTypeOK
  <2>2. PICK v \in r.since..version :
          Settled(r, [of |-> r.n, status |-> "success", subject |-> r.subject, ver |-> v])
    BY <1>3 DEF CallAnswered
  <2>3. v # None
    BY <2>1, <2>2 DEF None
  <2>4. QED
    BY <1>3, <2>2, <2>3, SettledKeeps
<1>4. ASSUME NEW r \in sent, CallFails(r) PROVE PagesInv'
  <2> DEFINE shown == [Idle EXCEPT !.of = r.n, !.status = "error"]
  <2>1. shown.of = r.n /\ shown.status = "error" /\ shown.ver = None
    BY DEF Idle
  <2>2. Settled(r, shown)
    BY <1>4 DEF CallFails
  <2> HIDE DEF shown
  <2>3. QED
    BY <1>4, <2>1, <2>2, SettledKeeps
<1>5. CASE runAudit
  <2>1. part = "context" /\ input \in Texts /\ Mutate(input)
    BY <1>5 DEF runAudit, AuditEnabled, PagesInv, TypeOK
  <2>2. UNCHANGED <<queryVars, part, input, subject, runs, polls, busy>>
    BY <1>5 DEF runAudit
  <2>3. QED
    BY <2>1, <2>2, MutateKeeps DEF PagesInv, TypeOK
<1>6. CASE runRecall
  <2>1. input \in Texts /\ Mutate(input) /\ subject' = input
    BY <1>6 DEF runRecall, PagesInv, TypeOK
  <2>2. QED
    BY <1>6, <2>1, MutateKeeps DEF runRecall
<1>7. ASSUME NEW t \in Tools, OpenTool(t) PROVE PagesInv'
  <2>1. call.of = None /\ call.ver = None /\ part = "tools" /\ t # Blank
    BY <1>7, PagesAssumption DEF OpenTool, PagesInv, CallsOfPage
  <2>2. \A r \in sent : r.n # call.of
    BY <2>1 DEF PagesInv, CallsOfPage, TypeOK, None
  <2>3. QueryTypeOK' /\ observed' = observed
    BY <1>7, QueriesAlone DEF OpenTool, PagesInv, TypeOK, queryVars
  <2>4. TypeOK'
    BY <1>7, <2>3 DEF OpenTool, PagesInv, TypeOK
  <2>5. CallsOfPage' /\ AnswerOwn'
    BY <1>7, <2>1, <2>2 DEF OpenTool, PagesInv, CallsOfPage, AnswerOwn
  <2>6. QED
    BY <2>4, <2>5 DEF PagesInv
<1>8. CASE CloseTool
  <2>1. call'.of = None /\ call'.ver = None /\ call'.status = "idle"
    BY <1>8 DEF CloseTool, Idle
  <2>2. \A r \in sent : r.n # None
    BY DEF PagesInv, TypeOK, None
  <2>3. QueryTypeOK' /\ observed' = observed
    BY <1>8, QueriesAlone DEF CloseTool, PagesInv, TypeOK, queryVars
  <2>4. TypeOK'
    BY <1>8, <2>1, <2>3 DEF CloseTool, PagesInv, TypeOK
  <2>5. CallsOfPage' /\ AnswerOwn'
    BY <1>8, <2>1, <2>2 DEF CloseTool, PagesInv, CallsOfPage, AnswerOwn
  <2>6. QED
    BY <2>4, <2>5 DEF PagesInv
<1>9. CASE run
  <2>1. subject \in Texts \cup Tools /\ Mutate(subject) /\ subject' = subject
    BY <1>9 DEF run, PagesInv, TypeOK
  <2>2. QED
    BY <1>9, <2>1, MutateKeeps DEF run
<1>10. ASSUME NEW i \in Slots, refresh(i) PROVE PagesInv'
  <2>1. polls' \in [Slots -> None..MaxVersion] /\ polls'[0] = polls[0]
    BY <1>10, PagesAssumption DEF refresh, Sent, PagesInv, TypeOK, QueryTypeOK, Slots, None
  <2>2. QED
    BY <1>10, <2>1, FieldKeeps DEF refresh, PagesInv, TypeOK
<1>11. ASSUME NEW i \in Slots, PollAnswered(i) \/ PollFails(i) PROVE PagesInv'
  <2>1. polls[i] \in None..MaxVersion /\ version \in 0..MaxVersion /\ runs \in None..MaxVersion
    BY <1>11 DEF PagesInv, TypeOK, QueryTypeOK
  <2>2. runs' \in None..MaxVersion
    BY <1>11, <2>1, BoundsAssumption DEF PollAnswered, PollFails, None
  <2>3. QED
    BY <1>11, <2>2, PollEndsKeeps DEF PollAnswered, PollFails
<1>12. CASE dispatch \/ DispatchFails
  BY <1>12, FieldKeeps DEF dispatch, DispatchFails, PagesInv, TypeOK
<1>13. CASE RunCreated
  <2>1. version' \in 0..MaxVersion
    BY <1>13, BoundsAssumption DEF RunCreated, PagesInv, TypeOK, QueryTypeOK
  <2>2. QueryTypeOK'
    BY <1>13, <2>1 DEF RunCreated, PagesInv, TypeOK, QueryTypeOK, Active, ActiveWhen, useGatewayOnline
  <2>3. TypeOK'
    BY <1>13, <2>2 DEF RunCreated, PagesInv, TypeOK
  <2>4. QED
    BY <1>13, <2>3, QuietKeeps DEF RunCreated
<1>14. CASE Dispatched
  <2>1. /\ polls' \in [Slots -> None..MaxVersion]
        /\ polls'[0] # None
    BY <1>14, PagesAssumption DEF Dispatched, Sent, PagesInv, TypeOK, QueryTypeOK, Slots, None
  <2>2. QED
    BY <1>14, <2>1, FieldKeeps DEF Dispatched
<1>15. CASE UNCHANGED vars
  BY <1>15, FieldKeeps DEF vars, pageVars, PagesInv, TypeOK
<1>16. QED
  BY <1>1, <1>2, <1>3, <1>4, <1>5, <1>6, <1>7, <1>8, <1>9, <1>10, <1>11, <1>12, <1>13,
     <1>14, <1>15 DEF Next

-----------------------------------------------------------------------------
(* The words of the pages that say there is nothing.                       *)

SaidExactly ==
  /\ "no events" \in Shown <=> part = "memory" /\ HasData("memory-surface") /\ ~Full("memory-surface")
  /\ "no match" \in Shown <=> part = "memory" /\ call.ver \in EmptyAt
  /\ "no tools" \in Shown <=> part = "tools" /\ HasData("mcp-tools") /\ ~Full("mcp-tools")
  /\ "no runs" \in Shown <=> part = "agents" /\ (runs = None \/ runs \in EmptyAt)
  /\ "not probed" \in Shown <=> part = "health" /\ ~Full("obs-summary")
  /\ "no decisions" \in Shown <=> part = "hitl" /\ ~Full("obs-hitl")

LEMMA SaidWhen == SaidExactly
<1>1. CASE part = "memory"
  BY <1>1 DEF SaidExactly, Shown, SurfaceShows, RecallShows
<1>2. CASE part = "tools"
  BY <1>2 DEF SaidExactly, Shown, ToolsShow
<1>3. CASE part = "agents"
  BY <1>3 DEF SaidExactly, Shown, AgentsShow
<1>4. CASE part = "health"
  BY <1>4 DEF SaidExactly, Shown, HealthShows
<1>5. CASE part = "hitl"
  BY <1>5 DEF SaidExactly, Shown, HitlShows
<1>6. CASE part \notin {"memory", "tools", "agents", "health", "hitl"}
  BY <1>6 DEF SaidExactly, Shown
<1>7. QED
  BY <1>1, <1>2, <1>3, <1>4, <1>5, <1>6

(* Data changes by the end of a request alone.                             *)
AnswerCame(k) ==
  /\ Entry(k).since # None /\ Entry(k)'.since = None
  /\ Entry(k)'.ver \in Entry(k).since..version /\ Entry(k)'.ver # None

LEMMA RenewsKeepsData ==
  ASSUME Renews, NEW k
  PROVE  Entry(k)'.ver = Entry(k).ver
<1>1. CASE k \in DOMAIN cache'
  BY <1>1 DEF Renews, Renewed, Entry
<1>2. CASE k \notin DOMAIN cache'
  <2>1. k \notin DOMAIN cache
    BY <1>2 DEF Renews
  <2>2. QED
    BY <1>2, <2>1 DEF Entry
<1>3. QED
  BY <1>1, <1>2

LEMMA SettleAnswers ==
  ASSUME QueryTypeOK, NEW j, Settle(j), NEW k
  PROVE  Entry(k)'.ver = Entry(k).ver \/ AnswerCame(k)
<1>1. /\ DOMAIN cache' = DOMAIN cache /\ j \in DOMAIN cache /\ cache[j].since # None
      /\ \A i \in DOMAIN cache \ {j} : cache'[i] = cache[i]
      /\ cache'[j].since = None
      /\ \/ cache'[j].ver \in cache[j].since..version
         \/ cache'[j].ver = cache[j].ver
  BY SettleEntry
<1>2. CASE k = j
  <2>1. Entry(k) = cache[j] /\ Entry(k)' = cache'[j]
    BY <1>1, <1>2 DEF Entry
  <2>2. cache[j].since \in 0..MaxVersion
    BY <1>1, BoundsAssumption DEF QueryTypeOK, Entries, None
  <2>3. cache'[j].ver \in cache[j].since..version => cache'[j].ver # None
    BY <2>2 DEF None, QueryTypeOK
  <2>4. QED
    BY <1>1, <2>1, <2>3 DEF AnswerCame
<1>3. CASE k # j
  BY <1>1, <1>3 DEF Entry
<1>4. QED
  BY <1>2, <1>3

LEMMA IntervalKeepsData ==
  ASSUME QueryTypeOK, NEW j, Interval(j), NEW k
  PROVE  Entry(k)'.ver = Entry(k).ver
<1>1. j \in DOMAIN cache /\ cache[j] \in Entries /\ version \in 0..MaxVersion
  BY DEF Interval, QueryTypeOK
<1>2. Ask(cache[j]).ver = cache[j].ver
  BY <1>1, AskRenews DEF Renewed
<1>3. DOMAIN cache' = DOMAIN cache /\ cache' = [cache EXCEPT ![j] = Ask(cache[j])]
  BY DEF Interval
<1>4. QED
  BY <1>1, <1>2, <1>3 DEF Entry

(* Every action but those of the queries leaves the cache alone.           *)
LEMMA CacheStep ==
  ASSUME [Next]_vars
  PROVE  QueryStep \/ UNCHANGED <<cache, part, observed>>
<1>1. CASE QueryStep
  BY <1>1
<1>2. CASE \E x \in Texts \cup {Blank} : Type(x)
  BY <1>2 DEF Type, queryVars
<1>3. CASE \E r \in sent : CallAnswered(r) \/ CallFails(r)
  BY <1>3 DEF CallAnswered, CallFails, Settled, queryVars
<1>4. CASE runAudit \/ runRecall \/ run
  BY <1>4 DEF runAudit, runRecall, run, queryVars
<1>5. CASE (\E t \in Tools : OpenTool(t)) \/ CloseTool
  BY <1>5 DEF OpenTool, CloseTool, queryVars
<1>6. CASE \E i \in Slots : refresh(i) \/ PollAnswered(i) \/ PollFails(i)
  BY <1>6 DEF refresh, PollAnswered, PollFails, PollEnds, queryVars
<1>7. CASE dispatch \/ RunCreated \/ Dispatched \/ DispatchFails
  BY <1>7 DEF dispatch, RunCreated, Dispatched, DispatchFails, queryVars
<1>8. CASE UNCHANGED vars
  BY <1>8 DEF vars, queryVars, pageVars
<1>9. QED
  BY <1>1, <1>2, <1>3, <1>4, <1>5, <1>6, <1>7, <1>8 DEF Next

LEMMA DataSteps ==
  ASSUME PagesInv, [Next]_vars
  PROVE  part' = part /\ \A k : Entry(k)'.ver = Entry(k).ver \/ AnswerCame(k)
<1>1. QueryTypeOK
  BY DEF PagesInv, TypeOK
<1>2. CASE UNCHANGED <<cache, part, observed>>
  BY <1>2 DEF Entry
<1>3. CASE QueryStep
  <2>1. part' = part
    BY <1>3 DEF QueryStep, pageVars
  <2>2. ASSUME NEW k PROVE Entry(k)'.ver = Entry(k).ver \/ AnswerCame(k)
    <3>1. CASE GatewayChanges \/ DataChanges
      BY <1>1, <3>1, OutsideType DEF Entry
    <3>2. CASE PollHealth
      BY <1>1, <3>2, PollRenews, RenewsKeepsData
    <3>3. CASE \E j \in DOMAIN cache : Settle(j)
      BY <1>1, <3>3, SettleAnswers
    <3>4. CASE \E j \in DOMAIN cache : Interval(j)
      BY <1>1, <3>4, IntervalKeepsData
    <3>5. QED
      BY <1>3, <3>1, <3>2, <3>3, <3>4 DEF QueryStep
  <2>3. QED
    BY <2>1, <2>2
<1>4. QED
  BY <1>2, <1>3, CacheStep

(* A recall that comes to have no match asked for the query on the page.   *)
LEMMA RecallSteps ==
  ASSUME PagesInv, [Next]_vars, part = "memory", call'.ver \in EmptyAt, call.ver \notin EmptyAt
  PROVE  \E r \in sent \ sent' : r.subject = subject /\ call'.ver \in r.since..version
<1>1. None \notin EmptyAt
  BY PagesAssumption DEF None
<1>2. ASSUME NEW r \in sent, CallAnswered(r)
      PROVE  r \notin sent' /\ r.subject = subject /\ call'.ver \in r.since..version
  <2>1. PICK v \in r.since..version :
          Settled(r, [of |-> r.n, status |-> "success", subject |-> r.subject, ver |-> v])
    BY <1>2 DEF CallAnswered
  <2>2. r.n = call.of /\ call'.ver = v /\ r \notin sent'
    BY <2>1 DEF Settled
  <2>3. r.subject = subject
    BY <2>2 DEF PagesInv, CallsOfPage
  <2>4. QED
    BY <2>1, <2>2, <2>3
<1>3. ASSUME NEW r \in sent PROVE ~CallFails(r)
  <2>1. CallFails(r) => call' = call \/ call'.ver = None
    BY DEF CallFails, Settled, Idle
  <2>2. QED
    BY <1>1, <2>1
<1>4. ~runAudit /\ ~runRecall /\ ~run /\ ~CloseTool
  BY <1>1 DEF runAudit, runRecall, run, CloseTool, Mutate
<1>5. ~QueryStep /\ ~UNCHANGED vars
  BY DEF QueryStep, vars, pageVars
<1>6. \A x : ~Type(x) /\ ~OpenTool(x)
  BY DEF Type, OpenTool
<1>7. \A i : ~refresh(i) /\ ~PollAnswered(i) /\ ~PollFails(i)
  BY DEF refresh, PollAnswered, PollFails, PollEnds
<1>8. ~dispatch /\ ~RunCreated /\ ~Dispatched /\ ~DispatchFails
  BY DEF dispatch, RunCreated, Dispatched, DispatchFails
<1>9. QED
  BY <1>2, <1>3, <1>4, <1>5, <1>6, <1>7, <1>8 DEF Next

(* The list of runs changes by an answer alone.                            *)
LEMMA RunsSteps ==
  ASSUME PagesInv, [Next]_vars, runs' # runs
  PROVE  \E i \in Slots : polls[i] # None /\ runs' # None /\ runs' \in polls[i]..version
<1>1. ASSUME NEW i \in Slots, PollAnswered(i)
      PROVE  polls[i] # None /\ runs' # None /\ runs' \in polls[i]..version
  <2>1. polls[i] # None /\ runs' \in polls[i]..version
    BY <1>1 DEF PollAnswered, PollEnds
  <2>2. polls[i] \in 0..MaxVersion /\ version \in 0..MaxVersion
    BY <1>1, <2>1, BoundsAssumption DEF PagesInv, TypeOK, QueryTypeOK, None
  <2>3. QED
    BY <2>1, <2>2 DEF None
<1>2. ~QueryStep /\ ~UNCHANGED vars
  BY DEF QueryStep, vars, pageVars
<1>3. \A x : ~Type(x) /\ ~OpenTool(x)
  BY DEF Type, OpenTool
<1>4. \A r : ~CallAnswered(r) /\ ~CallFails(r)
  BY DEF CallAnswered, CallFails, Settled
<1>5. ~runAudit /\ ~runRecall /\ ~run /\ ~CloseTool
  BY DEF runAudit, runRecall, run, CloseTool
<1>6. \A i : ~refresh(i) /\ ~PollFails(i)
  BY DEF refresh, PollFails
<1>7. ~dispatch /\ ~RunCreated /\ ~Dispatched /\ ~DispatchFails
  BY DEF dispatch, RunCreated, Dispatched, DispatchFails
<1>8. QED
  BY <1>1, <1>2, <1>3, <1>4, <1>5, <1>6, <1>7 DEF Next

(* A query that had something, or no data, and now has an empty answer.    *)
LEMMA EmptyAnswerCame ==
  ASSUME PagesInv, [Next]_vars, NEW k \in observed, ~Full(k)',
         Full(k) \/ (HasData(k)' /\ ~HasData(k))
  PROVE  \E j \in observed : /\ Entry(j).since # None /\ Entry(j)'.since = None
                            /\ Entry(j)'.ver \in EmptyAt \cap (Entry(j).since..version)
<1>1. Entry(k)'.ver = Entry(k).ver \/ AnswerCame(k)
  BY DataSteps
<1>2. AnswerCame(k)
  BY <1>1 DEF Full, HasData
<1>3. Entry(k)'.ver \in EmptyAt
  BY <1>2 DEF AnswerCame, Full, HasData
<1>4. QED
  BY <1>2, <1>3 DEF AnswerCame

LEMMA OnlyNews ==
  ASSUME PagesInv, [Next]_vars
  PROVE  NothingIsNews
<1> SUFFICES ASSUME NEW word \in NothingWords, word \in Shown', word \notin Shown
             PROVE  CASE word = "no match" ->
                           \E r \in sent \ sent' : /\ r.subject = subject
                                                  /\ call'.ver \in EmptyAt \cap (r.since..version)
                      [] word = "no runs" ->
                           \E i \in Slots : polls[i] # None /\ runs' \in EmptyAt \cap (polls[i]..version)
                      [] OTHER ->
                           \E k \in observed : /\ Entry(k).since # None /\ Entry(k)'.since = None
                                              /\ Entry(k)'.ver \in EmptyAt \cap (Entry(k).since..version)
  BY DEF NothingIsNews
<1>1. part' = part
  BY DataSteps
<1>2. SaidExactly /\ SaidExactly'
  BY SaidWhen, PTL
<1>3. observed \in Visits(part)
  BY DEF PagesInv, TypeOK
<1>4. CASE word = "no match"
  <2>1. part = "memory" /\ call'.ver \in EmptyAt /\ call.ver \notin EmptyAt
    BY <1>1, <1>2, <1>4 DEF SaidExactly
  <2>2. QED
    BY <1>4, <2>1, RecallSteps
<1>5. CASE word = "no runs"
  <2>1. runs' # runs /\ (runs' = None \/ runs' \in EmptyAt)
    BY <1>1, <1>2, <1>5 DEF SaidExactly
  <2>2. QED
    BY <1>5, <2>1, RunsSteps
<1>6. CASE word = "no events"
  <2>1. /\ part = "memory" /\ HasData("memory-surface")' /\ ~Full("memory-surface")'
        /\ Full("memory-surface") \/ ~HasData("memory-surface")
    BY <1>1, <1>2, <1>6 DEF SaidExactly
  <2>2. "memory-surface" \in observed
    BY <1>3, <2>1 DEF Visits, Keys
  <2>3. QED
    BY <1>6, <2>1, <2>2, EmptyAnswerCame
<1>7. CASE word = "no tools"
  <2>1. /\ part = "tools" /\ HasData("mcp-tools")' /\ ~Full("mcp-tools")'
        /\ Full("mcp-tools") \/ ~HasData("mcp-tools")
    BY <1>1, <1>2, <1>7 DEF SaidExactly
  <2>2. "mcp-tools" \in observed
    BY <1>3, <2>1 DEF Visits, Keys
  <2>3. QED
    BY <1>7, <2>1, <2>2, EmptyAnswerCame
<1>8. CASE word = "not probed"
  <2>1. part = "health" /\ ~Full("obs-summary")' /\ Full("obs-summary")
    BY <1>1, <1>2, <1>8 DEF SaidExactly
  <2>2. "obs-summary" \in observed
    BY <1>3, <2>1 DEF Visits, Keys
  <2>3. QED
    BY <1>8, <2>1, <2>2, EmptyAnswerCame
<1>9. CASE word = "no decisions"
  <2>1. part = "hitl" /\ ~Full("obs-hitl")' /\ Full("obs-hitl")
    BY <1>1, <1>2, <1>9 DEF SaidExactly
  <2>2. "obs-hitl" \in observed
    BY <1>3, <2>1 DEF Visits, Keys
  <2>3. QED
    BY <1>9, <2>1, <2>2, EmptyAnswerCame
<1>10. QED
  BY <1>4, <1>5, <1>6, <1>7, <1>8, <1>9 DEF NothingWords

(* Whatever the order in which requests are answered, and whichever dialog *)
(* is closed or query typed in between, an answer shown is that to the     *)
(* question shown; and a page that did not say that there is nothing comes *)
(* to say so only by an answer that has none, to the request on its way    *)
(* and the question shown.                                                 *)
THEOREM PagesTruthful == Spec => PagesTellTheTruth
<1>1. Init => PagesInv
  BY PagesInit
<1>2. PagesInv /\ [Next]_vars => PagesInv'
  BY PagesStep
<1>3. PagesInv => TypeOK /\ AnswersMatchQuestions
  BY OwnAnswers DEF PagesInv
<1>4. PagesInv /\ [Next]_vars => [NothingIsNews]_vars
  BY OnlyNews
<1>5. QED
  BY <1>1, <1>2, <1>3, <1>4, PTL DEF Spec, PagesTellTheTruth

-----------------------------------------------------------------------------
(***************************************************************************)
(* The graph page.                                                         *)
(***************************************************************************)
(* No entry is newer than the gateway; the answer on its way will not be   *)
(* older than the data there is; and a query that has failed without data  *)
(* is not being fetched.                                                   *)
EntriesInOrder ==
  \A k \in DOMAIN cache :
    /\ cache[k].ver <= version
    /\ cache[k].since # None => cache[k].since \in cache[k].ver..version
    /\ cache[k].error /\ cache[k].ver = None => cache[k].since = None

(* What the refresh button has reached: fresh data, a request sent since,  *)
(* or an error after which nothing older can come.                         *)
Reached(e) == e.ver >= asked \/ e.since >= asked \/ (e.error /\ e.since = None)

AskedReached ==
  /\ asked \in None..version
  /\ asked # None => \A k \in Wanted : k \in DOMAIN cache /\ Reached(cache[k])

(* What the memos hold is what they would compute now.                     *)
ViewOfNow == view \in Views

CanvasOfView ==
  canvas = IF CanvasMounted THEN Drawing(view, effectiveSelectedId, hoveredId, focusId)
           ELSE NoCanvas

(* The inductive invariant.                                                *)
GraphInv == GraphTypeOK /\ EntriesInOrder /\ AskedReached /\ ViewOfNow /\ CanvasOfView

-----------------------------------------------------------------------------
(* The cache.                                                              *)

LEMMA RenewsType ==
  ASSUME QueryTypeOK, Renews, UNCHANGED <<gateway, version, changes, health, wasOnline>>
  PROVE  QueryTypeOK'
BY DEF QueryTypeOK, Renews, Renewed

LEMMA EntryType ==
  ASSUME QueryTypeOK, NEW k
  PROVE  Entry(k) \in Entries
BY NewEntryType DEF QueryTypeOK, Entry

LEMMA RenewsOrder ==
  ASSUME QueryTypeOK, EntriesInOrder, Renews, version' = version
  PROVE  EntriesInOrder'
<1> SUFFICES ASSUME NEW k \in DOMAIN cache'
             PROVE  /\ cache'[k].ver <= version
                    /\ cache'[k].since # None => cache'[k].since \in cache'[k].ver..version
                    /\ cache'[k].error /\ cache'[k].ver = None => cache'[k].since = None
  BY DEF EntriesInOrder
<1> DEFINE e == Entry(k)
           x == cache'[k]
<1>1. e \in Entries /\ Renewed(e, x) /\ version \in 0..MaxVersion
  BY EntryType DEF Renews, QueryTypeOK
<1>2. /\ e.ver <= version
      /\ e.since # None => e.since \in e.ver..version
      /\ e.error /\ e.ver = None => e.since = None
  <2>1. CASE k \in DOMAIN cache
    BY <2>1 DEF Entry, EntriesInOrder
  <2>2. CASE k \notin DOMAIN cache
    BY <1>1, <2>2 DEF Entry, NewEntry, None
  <2>3. QED
    BY <2>1, <2>2
<1> HIDE DEF e, x
<1>3. x \in Entries /\ x.ver = e.ver
  BY <1>1 DEF Renewed
<1>4. e.ver \in None..MaxVersion /\ e.since \in None..MaxVersion
  BY <1>1 DEF Entries
<1>5. /\ x.ver <= version
      /\ x.since # None => x.since \in x.ver..version
  BY <1>1, <1>2, <1>3, <1>4, BoundsAssumption DEF Renewed, None
<1>6. x.error /\ x.ver = None => x.since = None
  BY <1>1, <1>2, <1>3 DEF Renewed
<1>7. QED
  BY <1>5, <1>6 DEF x

LEMMA RenewsReach ==
  ASSUME QueryTypeOK, AskedReached, Renews, version' = version,
         asked' = None \/ (asked' = asked /\ Wanted' = Wanted)
  PROVE  AskedReached'
<1>1. asked' \in None..version /\ version \in 0..MaxVersion
  BY DEF AskedReached, QueryTypeOK, None
<1>2. ASSUME asked' # None, NEW k \in Wanted'
      PROVE  k \in DOMAIN cache' /\ Reached(cache[k])'
  <2> DEFINE e == cache[k]
             x == cache'[k]
  <2>1. k \in DOMAIN cache /\ Reached(e) /\ asked' = asked /\ asked \in 0..version
    BY <1>1, <1>2 DEF AskedReached, None
  <2>2. k \in DOMAIN cache' /\ Renewed(e, x)
    BY <2>1 DEF Renews, Entry
  <2>3. e \in Entries
    BY <2>1 DEF QueryTypeOK
  <2> HIDE DEF e, x
  <2>4. x.ver >= asked \/ x.since >= asked \/ (x.error /\ x.since = None)
    <3>1. CASE x.since = version
      BY <1>1, <2>1, <3>1
    <3>2. CASE x.since = e.since /\ x.error = e.error /\ x.ver = e.ver
      BY <2>1, <3>2 DEF Reached
    <3>3. QED
      BY <2>2, <3>1, <3>2 DEF Renewed
  <2>5. QED
    BY <2>1, <2>2, <2>4 DEF Reached, x
<1>3. QED
  BY <1>1, <1>2 DEF AskedReached

LEMMA SettleKeeps ==
  ASSUME QueryTypeOK, EntriesInOrder, AskedReached, NEW s, Settle(s),
         asked' = asked, Wanted' = Wanted
  PROVE  QueryTypeOK' /\ EntriesInOrder' /\ AskedReached'
<1>1. version' = version /\ version \in 0..MaxVersion
  BY DEF Settle, QueryTypeOK
<1>2. /\ DOMAIN cache' = DOMAIN cache /\ s \in DOMAIN cache /\ cache[s].since # None
      /\ \A j \in DOMAIN cache \ {s} : cache'[j] = cache[j]
      /\ cache'[s] \in Entries /\ cache'[s].since = None
      /\ \/ cache'[s].ver \in cache[s].since..version /\ cache'[s].error = FALSE
         \/ cache'[s].ver = cache[s].ver /\ cache'[s].error = TRUE
      /\ QueryTypeOK'
  BY SettleEntry
<1> DEFINE e == cache[s]
           x == cache'[s]
<1>3. /\ e \in Entries /\ e.ver <= version
      /\ e.since \in e.ver..version
      /\ e.error /\ e.ver = None => e.since = None
  BY <1>2 DEF EntriesInOrder, QueryTypeOK
<1>4. /\ x \in Entries /\ x.since = None /\ e.since # None
      /\ \/ x.ver \in e.since..version /\ x.error = FALSE
         \/ x.ver = e.ver /\ x.error = TRUE
  BY <1>2
<1>5. /\ e.ver \in None..MaxVersion /\ e.since \in 0..MaxVersion
      /\ x.ver \in None..MaxVersion
  <2>1. e.ver \in None..MaxVersion /\ e.since \in None..MaxVersion /\ x.ver \in None..MaxVersion
    BY <1>3, <1>4 DEF Entries
  <2>2. e.since # None
    BY <1>4
  <2> HIDE DEF e, x
  <2>3. QED
    BY <2>1, <2>2, BoundsAssumption DEF None
<1>6. EntriesInOrder'
  <2>1. x.ver <= version
    <3> HIDE DEF e, x
    <3>1. QED
      BY <1>1, <1>3, <1>4, <1>5, BoundsAssumption DEF None
  <2>2. ASSUME NEW j \in DOMAIN cache'
        PROVE  /\ cache'[j].ver <= version'
               /\ cache'[j].since # None => cache'[j].since \in cache'[j].ver..version'
               /\ cache'[j].error /\ cache'[j].ver = None => cache'[j].since = None
    <3>1. CASE j = s
      BY <1>1, <1>4, <2>1, <3>1
    <3>2. CASE j # s
      BY <1>1, <1>2, <2>2, <3>2 DEF EntriesInOrder
    <3>3. QED
      BY <3>1, <3>2
  <2>3. QED
    BY <2>2 DEF EntriesInOrder
<1>7. AskedReached'
  <2>1. asked' \in None..version'
    BY <1>1 DEF AskedReached
  <2>2. ASSUME asked' # None, NEW k \in Wanted'
        PROVE  k \in DOMAIN cache' /\ Reached(cache[k])'
    <3>1. k \in DOMAIN cache /\ Reached(cache[k]) /\ asked \in 0..version
      BY <2>2 DEF AskedReached, None
    <3>2. CASE k # s
      BY <1>2, <3>1, <3>2 DEF Reached
    <3>3. CASE k = s
      <4>1. e.ver >= asked \/ e.since >= asked
        BY <1>4, <3>1, <3>3 DEF Reached
      <4>2. x.ver >= asked \/ (x.error /\ x.since = None)
        <5> HIDE DEF e, x
        <5>1. CASE x.ver \in e.since..version
          BY <1>1, <1>3, <1>5, <3>1, <4>1, <5>1, BoundsAssumption DEF None
        <5>2. CASE x.error = TRUE
          BY <1>4, <5>2
        <5>3. QED
          BY <1>4, <5>1, <5>2
      <4>3. QED
        BY <1>2, <3>1, <3>3, <4>2 DEF Reached
    <3>4. QED
      BY <3>2, <3>3
  <2>3. QED
    BY <2>1, <2>2 DEF AskedReached
<1>8. QED
  BY <1>2, <1>6, <1>7

(* A query with data, or with nothing on its way, is sent anew.            *)
LEMMA RefetchNow ==
  ASSUME version \in 0..MaxVersion, NEW e \in Entries, e.ver # None \/ e.since = None
  PROVE  Refetch(e).since = version
<1>1. CASE e.ver # None
  BY <1>1 DEF Refetch, Entries
<1>2. CASE e.ver = None
  <2> DEFINE a == Ask(e)
  <2>1. a = [e EXCEPT !.since = version, !.error = e.error /\ e.ver # None]
    BY <1>2 DEF Ask
  <2>2. a.since = version /\ a \in Entries
    BY <2>1, AskRenews DEF Entries, Renewed
  <2>3. Refetch(e) = [a EXCEPT !.invalid = TRUE]
    BY <1>2 DEF Refetch
  <2> HIDE DEF a
  <2>4. QED
    BY <2>2, <2>3 DEF Entries
<1>3. QED
  BY <1>1, <1>2

-----------------------------------------------------------------------------
(* The view.                                                               *)

LEMMA ViewsAre ==
  Views = {IF subgraphLoaded THEN Subgraph(subgraphData) ELSE Overview(entitiesData, relationsData)}
BY DEF Views

LEMMA OverviewFacts ==
  ASSUME NEW ent, NEW rel
  PROVE  LET o == Overview(ent, rel)
         IN /\ o.centerId = NoId
            /\ o.entities = Keep(ent, OfType(ent, typeFilter) \cap Named(ent, search))
            /\ \A r \in o.relations : {r.from, r.to} \subseteq DOMAIN o.entities
BY DEF Overview, cap, JoinShown

LEMMA SubgraphFacts ==
  ASSUME NEW data
  PROVE  LET o == Subgraph(data)
         IN /\ o.centerId = focusId
            /\ o.entities = data.ent
            /\ o.relations \subseteq data.rel
BY DEF Subgraph, cap

LEMMA KeepFacts ==
  ASSUME NEW f, NEW S
  PROVE  /\ DOMAIN Keep(f, S) = DOMAIN f \cap S
         /\ \A e \in DOMAIN f \cap S : Keep(f, S)[e] = f[e]
BY DEF Keep

(* Data is the gateway's of some version there has been.                   *)
LEMMA DataVersion ==
  ASSUME QueryTypeOK, EntriesInOrder, NEW k, HasData(k)
  PROVE  k \in DOMAIN cache /\ Entry(k).ver \in 0..version /\ Entry(k).ver \in DOMAIN GraphAt
<1>1. k \in DOMAIN cache
  BY DEF HasData, Entry, NewEntry
<1>2. /\ Entry(k) = cache[k] /\ Entry(k).ver \in None..MaxVersion
      /\ Entry(k).ver # None /\ Entry(k).ver <= version /\ version \in 0..MaxVersion
  BY <1>1 DEF Entry, Entries, QueryTypeOK, EntriesInOrder, HasData
<1>3. Entry(k).ver \in 0..version /\ Entry(k).ver \in 0..MaxVersion
  BY <1>2, BoundsAssumption DEF None
<1>4. QED
  BY <1>1, <1>3, GraphAssumption

LEMMA SubgraphClosed ==
  ASSUME NEW v \in DOMAIN GraphAt, NEW id, NEW d
  PROVE  LET g == SubgraphAnswer(v, id, d)
         IN /\ DOMAIN g.ent \subseteq DOMAIN GraphAt[v].ent
            /\ \A r \in g.rel : {r.from, r.to} \subseteq DOMAIN g.ent
<1>1. CASE id \notin DOMAIN GraphAt[v].ent
  <2>1. SubgraphAnswer(v, id, d) = [ent |-> <<>>, rel |-> {}]
    BY <1>1 DEF SubgraphAnswer, NoGraph
  <2>2. QED
    BY <2>1
<1>2. CASE id \in DOMAIN GraphAt[v].ent
  <2> DEFINE near == Around(v, {id})
             ids  == IF d = 1 THEN near ELSE Around(v, near)
  <2>1. SubgraphAnswer(v, id, d) = [ent |-> Keep(GraphAt[v].ent, ids),
                                    rel |-> {r \in GraphAt[v].rel : {r.from, r.to} \subseteq ids}]
    BY <1>2 DEF SubgraphAnswer
  <2> HIDE DEF ids
  <2>2. \A r \in GraphAt[v].rel : {r.from, r.to} \subseteq DOMAIN GraphAt[v].ent
    BY GraphAssumption
  <2>3. DOMAIN Keep(GraphAt[v].ent, ids) = DOMAIN GraphAt[v].ent \cap ids
    BY KeepFacts
  <2>4. QED
    BY <2>1, <2>2, <2>3
<1>3. QED
  BY <1>1, <1>2

(* The entity asked for is in its own subgraph.                            *)
LEMMA SubgraphHasCenter ==
  ASSUME NEW v, NEW id \in DOMAIN GraphAt[v].ent, NEW d
  PROVE  id \in DOMAIN SubgraphAnswer(v, id, d).ent
<1> DEFINE near == Around(v, {id})
           ids  == IF d = 1 THEN near ELSE Around(v, near)
<1>1. SubgraphAnswer(v, id, d).ent = Keep(GraphAt[v].ent, ids)
  BY DEF SubgraphAnswer
<1>2. id \in ids
  BY DEF Around
<1> HIDE DEF ids
<1>3. DOMAIN Keep(GraphAt[v].ent, ids) = DOMAIN GraphAt[v].ent \cap ids
  BY KeepFacts
<1>4. QED
  BY <1>1, <1>2, <1>3

(* The two kinds of view, with what they are made of.                      *)
LEMMA FocusedView ==
  ASSUME QueryTypeOK, EntriesInOrder, subgraphLoaded
  PROVE  \E v \in 0..version : v \in DOMAIN GraphAt /\ subgraphData = SubgraphAnswer(v, focusId, depth)
<1> DEFINE k == SubgraphKey(focusId, depth)
<1>1. HasData(k)
  BY DEF subgraphLoaded
<1>2. k[2] = focusId /\ k[3] = depth
  BY DEF SubgraphKey
<1>3. subgraphData = SubgraphAnswer(Entry(k).ver, k[2], k[3])
  BY DEF subgraphData
<1> HIDE DEF k
<1>4. QED
  BY <1>1, <1>2, <1>3, DataVersion

LEMMA OverviewEntities ==
  ASSUME QueryTypeOK, EntriesInOrder
  PROVE  \/ ~HasData(EntitiesKey(typeFilter, search)) /\ DOMAIN entitiesData = {}
         \/ \E v \in 0..version : /\ v \in DOMAIN GraphAt
                                  /\ entitiesData = EntitiesAnswer(v, typeFilter, search)
<1> DEFINE k == EntitiesKey(typeFilter, search)
<1>1. k[2] = typeFilter /\ k[3] = search
  BY DEF EntitiesKey
<1>2. entitiesData = IF HasData(k) THEN EntitiesAnswer(Entry(k).ver, k[2], k[3]) ELSE <<>>
  BY DEF entitiesData
<1> HIDE DEF k
<1>3. CASE HasData(k)
  BY <1>1, <1>2, <1>3, DataVersion
<1>4. CASE ~HasData(k)
  BY <1>2, <1>4 DEF k
<1>5. QED
  BY <1>3, <1>4

LEMMA AnswerFacts ==
  ASSUME NEW v \in DOMAIN GraphAt
  PROVE  LET ent == EntitiesAnswer(v, typeFilter, search)
         IN /\ DOMAIN ent \subseteq DOMAIN GraphAt[v].ent
            /\ \A e \in DOMAIN ent : e \in OfType(ent, typeFilter) \cap Named(ent, search)
<1> DEFINE G == GraphAt[v].ent
           S == OfType(G, typeFilter) \cap Named(G, search)
           ent == Keep(G, S)
<1>1. EntitiesAnswer(v, typeFilter, search) = ent
  BY DEF EntitiesAnswer
<1>2. \A e \in S : /\ e \in DOMAIN G
                   /\ typeFilter = Blank \/ G[e].type = typeFilter
                   /\ search = Blank \/ G[e].name \in Matches[search]
  BY DEF OfType, Named
<1> HIDE DEF G, S
<1>3. DOMAIN ent = DOMAIN G \cap S /\ \A e \in DOMAIN G \cap S : ent[e] = G[e]
  BY KeepFacts
<1> HIDE DEF ent
<1>4. \A e \in DOMAIN ent : e \in OfType(ent, typeFilter) \cap Named(ent, search)
  BY <1>2, <1>3 DEF OfType, Named
<1>5. QED
  BY <1>1, <1>3, <1>4 DEF G

(* A view is around the focus, or around nothing.                          *)
LEMMA ViewCenter == view \in Views => view.centerId \in {NoId, focusId}
<1>1. \A data : Subgraph(data).centerId = focusId
  BY SubgraphFacts
<1>2. \A ent, rel : Overview(ent, rel).centerId = NoId
  BY OverviewFacts
<1>3. QED
  BY <1>1, <1>2, ViewsAre

LEMMA ViewFacts ==
  ASSUME QueryTypeOK, EntriesInOrder, view \in Views
  PROVE  /\ \A r \in view.relations : {r.from, r.to} \subseteq DOMAIN view.entities
         /\ DOMAIN view.entities \subseteq EntityIds
<1>1. CASE subgraphLoaded
  <2>1. view = Subgraph(subgraphData)
    BY <1>1, ViewsAre
  <2>2. PICK v \in DOMAIN GraphAt : subgraphData = SubgraphAnswer(v, focusId, depth)
    BY <1>1, FocusedView
  <2>3. /\ DOMAIN subgraphData.ent \subseteq DOMAIN GraphAt[v].ent
        /\ \A r \in subgraphData.rel : {r.from, r.to} \subseteq DOMAIN subgraphData.ent
    BY <2>2, SubgraphClosed
  <2>4. /\ view.entities = subgraphData.ent
        /\ view.relations \subseteq subgraphData.rel
    BY <2>1, SubgraphFacts
  <2>5. DOMAIN GraphAt[v].ent \subseteq EntityIds
    BY DEF EntityIds
  <2>6. QED
    BY <2>3, <2>4, <2>5
<1>2. CASE ~subgraphLoaded
  <2>1. view = Overview(entitiesData, relationsData)
    BY <1>2, ViewsAre
  <2>2. /\ view.entities = Keep(entitiesData, OfType(entitiesData, typeFilter) \cap Named(entitiesData, search))
        /\ \A r \in view.relations : {r.from, r.to} \subseteq DOMAIN view.entities
    BY <2>1, OverviewFacts
  <2>3. DOMAIN view.entities \subseteq DOMAIN entitiesData
    <3> DEFINE S == OfType(entitiesData, typeFilter) \cap Named(entitiesData, search)
    <3>1. view.entities = Keep(entitiesData, S)
      BY <2>2
    <3> HIDE DEF S
    <3>2. DOMAIN Keep(entitiesData, S) = DOMAIN entitiesData \cap S
      BY KeepFacts
    <3>3. QED
      BY <3>1, <3>2
  <2>4. DOMAIN entitiesData \subseteq EntityIds
    <3>1. \A v \in DOMAIN GraphAt : DOMAIN GraphAt[v].ent \subseteq EntityIds
      BY DEF EntityIds
    <3>2. QED
      BY <3>1, OverviewEntities, AnswerFacts
  <2>5. QED
    BY <2>2, <2>3, <2>4
<1>3. QED
  BY <1>1, <1>2

-----------------------------------------------------------------------------
(* The canvas.                                                             *)

LEMMA DrawingDepends ==
  ASSUME NEW v, NEW f, NEW s, NEW h, NEW t, NEW i,
         Valid(s, v) = Valid(t, v), Valid(h, v) = Valid(i, v)
  PROVE  Drawing(v, s, h, f) = Drawing(v, t, i, f)
<1> DEFINE Draw(selected, hovered) ==
      LET active == IF hovered # NoId THEN hovered ELSE selected
          glow   == buildNeighborSet(active, v.relations)
          near   == buildNeighborSet(selected, v.relations)
      IN [nodes |-> [e \in DOMAIN v.entities |->
                       [label     |-> v.entities[e].name,
                        degree    |-> Cardinality({r \in v.relations : e \in {r.from, r.to}}),
                        selected  |-> e = selected,
                        connected |-> e \in glow \ {active},
                        focused   |-> e \in {f, v.centerId},
                        hovered   |-> e = hovered,
                        dimmed    |-> selected # NoId /\ e \notin near]],
          edges |-> {[from |-> r.from, to |-> r.to,
                      active |-> active \in {r.from, r.to},
                      dimmed |-> selected # NoId /\ active \notin {r.from, r.to}] :
                       r \in v.relations}]
<1>1. Drawing(v, s, h, f) = Draw(Valid(s, v), Valid(h, v))
  BY DEF Drawing
<1>2. Drawing(v, t, i, f) = Draw(Valid(t, v), Valid(i, v))
  BY DEF Drawing
<1> HIDE DEF Draw
<1>3. QED
  BY <1>1, <1>2

(* The dependencies miss nothing.                                          *)
LEMMA DepsSuffice ==
  ASSUME NEW v, NEW w, NEW s, NEW t, NEW h, NEW i, NEW f, NEW g,
         v.centerId \in {NoId, f}, w.centerId \in {NoId, g},
         CanvasDeps(v, s, h, f) = CanvasDeps(w, t, i, g)
  PROVE  Drawing(v, s, h, f) = Drawing(w, t, i, g)
<1>1. /\ v = w
      /\ Valid(s, v) = Valid(t, w)
      /\ Valid(h, v) = Valid(i, w)
      /\ layoutKey(v, f) = layoutKey(w, g)
  BY Zenon DEF CanvasDeps
<1>2. (IF v.centerId # NoId THEN v.centerId ELSE f) = (IF w.centerId # NoId THEN w.centerId ELSE g)
  BY <1>1, Zenon DEF layoutKey
<1>3. f = g
  BY <1>1, <1>2
<1>4. QED
  BY <1>1, <1>3, DrawingDepends

LEMMA RenderKeeps ==
  ASSUME ViewOfNow, CanvasOfView, NEW hover, Render(hover)
  PROVE  ViewOfNow' /\ CanvasOfView'
<1>1. ViewOfNow'
  BY DEF Render, ViewOfNow
<1>2. view.centerId \in {NoId, focusId}
  BY ViewCenter DEF ViewOfNow
<1>3. view'.centerId \in {NoId, focusId'}
  <2>1. (view \in Views => view.centerId \in {NoId, focusId})'
    BY ViewCenter, PTL
  <2>2. QED
    BY <1>1, <2>1 DEF ViewOfNow
<1>4. CanvasOfView'
  <2>1. CASE ~CanvasMounted'
    BY <2>1 DEF Render, CanvasOfView
  <2>2. CASE /\ CanvasMounted' /\ CanvasMounted
             /\ CanvasDeps(view', effectiveSelectedId', hoveredId', focusId')
                  = CanvasDeps(view, effectiveSelectedId, hoveredId, focusId)
    <3>1. canvas' = canvas /\ canvas = Drawing(view, effectiveSelectedId, hoveredId, focusId)
      BY <2>2 DEF Render, CanvasOfView
    <3>2. Drawing(view', effectiveSelectedId', hoveredId', focusId')
            = Drawing(view, effectiveSelectedId, hoveredId, focusId)
      BY <1>2, <1>3, <2>2, DepsSuffice
    <3>3. QED
      BY <2>2, <3>1, <3>2 DEF CanvasOfView
  <2>3. CASE /\ CanvasMounted'
             /\ ~(/\ CanvasMounted
                  /\ CanvasDeps(view', effectiveSelectedId', hoveredId', focusId')
                       = CanvasDeps(view, effectiveSelectedId, hoveredId, focusId))
    BY <2>3 DEF Render, CanvasOfView
  <2>4. QED
    BY <2>1, <2>2, <2>3
<1>5. QED
  BY <1>1, <1>4

-----------------------------------------------------------------------------
(* The steps.                                                              *)

FieldsOK ==
  /\ search \in Words \cup {Blank} /\ typeFilter \in EntityTypes \cup {Blank}
  /\ depth \in Depths
  /\ {focusId, selectedId} \subseteq EntityIds \cup {NoId}
  /\ clicks \in 0..MaxClicks

LEMMA DrawnKeeps ==
  ASSUME GraphInv, QueryTypeOK', EntriesInOrder', AskedReached', FieldsOK',
         observed' = Wanted', NEW hover \in EntityIds \cup {NoId}, Render(hover)
  PROVE  GraphInv'
<1>1. ViewOfNow' /\ CanvasOfView'
  BY RenderKeeps DEF GraphInv
<1>2. hoveredId' \in EntityIds \cup {NoId}
  BY DEF Render
<1>3. asked' \in None..MaxVersion
  BY BoundsAssumption DEF AskedReached, QueryTypeOK, None
<1>4. GraphTypeOK'
  BY <1>2, <1>3 DEF FieldsOK, GraphTypeOK
<1>5. QED
  BY <1>1, <1>4 DEF GraphInv

LEMMA InvFacts ==
  ASSUME GraphInv
  PROVE  /\ QueryTypeOK /\ FieldsOK /\ observed = Wanted
         /\ hoveredId \in EntityIds \cup {NoId}
BY DEF GraphInv, GraphTypeOK, FieldsOK

LEMMA WantedSame ==
  ASSUME UNCHANGED <<search, typeFilter, depth, focusId>>
  PROVE  Wanted' = Wanted
BY DEF Wanted, overviewMode, EntitiesKey, SubgraphKey, RelationsKey, StatsKey

LEMMA ClickCounts ==
  ASSUME GraphInv, Click
  PROVE  clicks' \in 0..MaxClicks
<1>1. clicks \in 0..MaxClicks /\ changes \in 0..MaxChanges /\ MaxClicks \in Nat /\ MaxChanges \in Nat
  BY GraphAssumption, BoundsAssumption DEF GraphInv, GraphTypeOK, QueryTypeOK
<1>2. QED
  BY <1>1 DEF Click, MayAct

(* A step of the operator that the observers follow.                       *)
LEMMA ReadsKeeps ==
  ASSUME GraphInv, Reads, FieldsOK'
  PROVE  GraphInv'
<1>1. QueryTypeOK /\ EntriesInOrder /\ AskedReached /\ hoveredId \in EntityIds \cup {NoId}
  BY InvFacts DEF GraphInv
<1>2. /\ UNCHANGED <<gateway, version, changes, health, wasOnline>>
      /\ observed' = Wanted' /\ Follow(cache) /\ Render(hoveredId)
      /\ asked' = IF Wanted' = Wanted THEN asked ELSE None
  BY DEF Reads
<1>3. \A k \in DOMAIN cache : Renewed(cache[k], cache[k])
  BY <1>1, RenewedSame DEF QueryTypeOK
<1>4. Renews
  BY <1>1, <1>2, <1>3, FollowRenews
<1>5. QueryTypeOK' /\ EntriesInOrder' /\ AskedReached'
  BY <1>1, <1>2, <1>4, RenewsType, RenewsOrder, RenewsReach
<1>6. QED
  BY <1>1, <1>2, <1>5, DrawnKeeps

(* A relation of the view leads to an entity of the graph.                 *)
LEMMA NavigateStays ==
  ASSUME GraphInv, NEW r \in Panel.connected
  PROVE  {r.from, r.to} \subseteq EntityIds
<1>1. r \in view.relations
  BY DEF Panel
<1>2. QED
  BY <1>1, InvFacts, ViewFacts DEF GraphInv, ViewOfNow

(* The refresh button reaches every query of the view.                     *)
LEMMA RefreshKeeps ==
  ASSUME GraphInv, refreshGraph
  PROVE  GraphInv'
<1>1. /\ QueryTypeOK /\ EntriesInOrder /\ AskedReached /\ hoveredId \in EntityIds \cup {NoId}
      /\ FieldsOK /\ observed = Wanted
  BY InvFacts DEF GraphInv
<1>2. /\ cache' = Invalidate(cache, Refreshed, Active) /\ asked' = version
      /\ UNCHANGED <<gateway, version, changes, health, wasOnline, observed>>
      /\ UNCHANGED <<search, typeFilter, depth, focusId, selectedId>>
      /\ Render(hoveredId) /\ ~isLoading /\ Click
  BY DEF refreshGraph
<1>3. Wanted' = Wanted
  BY <1>2, WantedSame
<1>4. FieldsOK'
  BY <1>1, <1>2, ClickCounts DEF FieldsOK
<1>5. Active' = Active
  BY <1>2 DEF Active, ActiveWhen, useGatewayOnline
<1>6. Renews
  BY <1>1, <1>2, <1>5, InvalidateRenews DEF Renews, Entry, QueryTypeOK
<1>7. QueryTypeOK' /\ EntriesInOrder'
  BY <1>1, <1>2, <1>6, RenewsType, RenewsOrder
<1>8. ASSUME NEW k \in Wanted
      PROVE  k \in DOMAIN cache' /\ cache'[k].since = version
  <2>1. k \in Active /\ k \in DOMAIN cache /\ ~IsPending(k)
    BY <1>1, <1>2 DEF isLoading, Active, ActiveWhen, QueryTypeOK
  <2>2. k \in Refreshed
    <3>1. \/ k[1] \in {"graph-stats", "graph-entities", "graph-relations"}
          \/ k[1] = "graph-subgraph" /\ focusId # NoId /\ k[2] = focusId
      BY DEF Wanted, StatsKey, EntitiesKey, RelationsKey, SubgraphKey, overviewMode
    <3>2. QED
      BY <2>1, <3>1 DEF Refreshed
  <2>3. cache'[k] = Refetch(cache[k]) /\ k \in DOMAIN cache'
    BY <1>2, <2>1, <2>2 DEF Invalidate
  <2>4. cache[k] \in Entries /\ version \in 0..MaxVersion
    BY <1>1, <2>1 DEF QueryTypeOK
  <2>5. cache[k].ver # None \/ cache[k].since = None
    BY <1>1, <2>1 DEF IsPending, HasData, IsError, Entry, EntriesInOrder
  <2>6. QED
    BY <2>3, <2>4, <2>5, RefetchNow
<1>9. AskedReached'
  <2>1. asked' = version' /\ version' \in 0..MaxVersion
    BY <1>1, <1>2 DEF QueryTypeOK
  <2>2. asked' \in None..version'
    BY <2>1 DEF None
  <2>3. \A k \in Wanted' : k \in DOMAIN cache' /\ Reached(cache[k])'
    BY <1>2, <1>3, <1>8, <2>1 DEF Reached
  <2>4. QED
    BY <2>2, <2>3 DEF AskedReached
<1>10. QED
  BY <1>1, <1>2, <1>3, <1>4, <1>7, <1>9, DrawnKeeps

LEMMA OperatorKeeps ==
  ASSUME GraphInv, OperatorStep
  PROVE  GraphInv'
<1>1. FieldsOK
  BY InvFacts
<1>2. effectiveSelectedId \in EntityIds \cup {NoId}
  BY <1>1 DEF effectiveSelectedId, FieldsOK
<1>3. ASSUME NEW w \in Words \cup {Blank}, Search(w) PROVE GraphInv'
  BY <1>1, <1>3, ClickCounts, ReadsKeeps DEF Search, FieldsOK
<1>4. ASSUME NEW d \in Depths, SetDepth(d) PROVE GraphInv'
  BY <1>1, <1>4, ClickCounts, ReadsKeeps DEF SetDepth, FieldsOK
<1>5. CASE ShowOverview
  BY <1>1, <1>5, ClickCounts, ReadsKeeps DEF ShowOverview, FieldsOK
<1>6. ASSUME NEW t \in EntityTypes, toggleType(t) PROVE GraphInv'
  BY <1>1, <1>6, ClickCounts, ReadsKeeps DEF toggleType, FieldsOK
<1>7. CASE clearFilters
  BY <1>1, <1>7, ClickCounts, ReadsKeeps DEF clearFilters, FieldsOK
<1>8. ASSUME NEW id \in EntityIds \cup {NoId}, Select(id) PROVE GraphInv'
  BY <1>1, <1>8, ClickCounts, ReadsKeeps DEF Select, FieldsOK
<1>9. ASSUME NEW id \in EntityIds \cup {NoId}, Hover(id) PROVE GraphInv'
  <2>1. clicks' \in 0..MaxClicks /\ UNCHANGED <<queryVars, explorerVars>> /\ Render(id)
    BY <1>9, ClickCounts DEF Hover
  <2>2. Wanted' = Wanted /\ observed' = observed /\ asked' = asked
    BY <2>1, WantedSame DEF queryVars, explorerVars
  <2>3. FieldsOK'
    BY <1>1, <2>1 DEF FieldsOK, explorerVars
  <2>4. QueryTypeOK'
    BY <2>1, InvFacts, QueriesAlone
  <2>5. EntriesInOrder' /\ AskedReached'
    BY <2>1, <2>2 DEF GraphInv, EntriesInOrder, AskedReached, Reached, queryVars
  <2>6. QED
    BY <1>9, <2>1, <2>2, <2>3, <2>4, <2>5, InvFacts, DrawnKeeps
<1>10. CASE Focus
  BY <1>1, <1>2, <1>10, ClickCounts, ReadsKeeps DEF Focus, FieldsOK
<1>11. ASSUME NEW r \in Panel.connected, Navigate(r) PROVE GraphInv'
  <2>1. {r.from, r.to} \subseteq EntityIds
    BY <1>11, NavigateStays
  <2>2. FieldsOK'
    BY <1>1, <1>11, <2>1, ClickCounts DEF Navigate, FieldsOK
  <2>3. QED
    BY <1>11, <2>2, ReadsKeeps DEF Navigate
<1>12. CASE refreshGraph
  BY <1>12, RefreshKeeps
<1>13. QED
  BY <1>3, <1>4, <1>5, <1>6, <1>7, <1>8, <1>9, <1>10, <1>11, <1>12 DEF OperatorStep

LEMMA GraphQueryKeeps ==
  ASSUME GraphInv, GraphQueryStep
  PROVE  GraphInv'
<1>1. /\ QueryTypeOK /\ EntriesInOrder /\ AskedReached /\ hoveredId \in EntityIds \cup {NoId}
      /\ FieldsOK /\ observed = Wanted
  BY InvFacts DEF GraphInv
<1>2. UNCHANGED <<explorerVars, clicks>> /\ Render(hoveredId)
  BY DEF GraphQueryStep
<1>3. Wanted' = Wanted /\ asked' = asked
  BY <1>2, WantedSame DEF explorerVars
<1>4. FieldsOK'
  BY <1>1, <1>2 DEF FieldsOK, explorerVars
<1>5. QueryTypeOK' /\ EntriesInOrder' /\ AskedReached' /\ observed' = observed
  <2>1. CASE GatewayChanges \/ DataChanges
    <3>1. QueryTypeOK' /\ UNCHANGED <<cache, observed>>
      BY <1>1, <2>1, OutsideType
    <3>2. version' \in Nat /\ version \in Nat /\ version' >= version
      BY <1>1, <2>1 DEF GatewayChanges, DataChanges, QueryTypeOK
    <3>3. EntriesInOrder'
      <4>1. \A k \in DOMAIN cache : cache[k].ver \in Int /\ cache[k].since \in Int
        BY <1>1, BoundsAssumption DEF QueryTypeOK, Entries, None
      <4>2. QED
        BY <1>1, <3>1, <3>2, <4>1 DEF EntriesInOrder, None
    <3>4. AskedReached'
      <4>1. asked' \in None..version'
        BY <1>1, <1>3, <3>2 DEF AskedReached, None
      <4>2. QED
        BY <1>1, <1>3, <3>1, <4>1 DEF AskedReached, Reached
    <3>5. QED
      BY <3>1, <3>3, <3>4
  <2>2. CASE PollHealth
    <3>1. Renews /\ QueryTypeOK' /\ version' = version /\ observed' = observed
      BY <1>1, <2>2, PollRenews DEF PollHealth
    <3>2. QED
      BY <1>1, <1>3, <3>1, RenewsOrder, RenewsReach
  <2>3. CASE \E k \in DOMAIN cache : Settle(k)
    BY <1>1, <1>3, <2>3, SettleKeeps DEF Settle
  <2>4. QED
    BY <2>1, <2>2, <2>3 DEF GraphQueryStep
<1>6. QED
  BY <1>1, <1>2, <1>3, <1>4, <1>5, DrawnKeeps

LEMMA ViewsSame ==
  ASSUME UNCHANGED <<cache, search, typeFilter, depth, focusId>>
  PROVE  Views' = Views
<1>1. \A k : Entry(k)' = Entry(k)
  BY DEF Entry
<1>2. entitiesData' = entitiesData
  BY <1>1 DEF entitiesData, HasData, EntitiesKey
<1>3. relationsData' = relationsData
  BY <1>1 DEF relationsData, HasData, RelationsKey
<1>4. subgraphLoaded' = subgraphLoaded
  BY <1>1 DEF subgraphLoaded, overviewMode, HasData, SubgraphKey
<1>5. subgraphData' = subgraphData
  BY <1>1, <1>4 DEF subgraphData, SubgraphKey
<1>6. Subgraph(subgraphData)' = Subgraph(subgraphData)
  BY <1>5 DEF Subgraph
<1>7. Overview(entitiesData, relationsData)' = Overview(entitiesData, relationsData)
  BY <1>2, <1>3 DEF Overview
<1>8. (Views = {IF subgraphLoaded THEN Subgraph(subgraphData)
                                  ELSE Overview(entitiesData, relationsData)})'
  BY ViewsAre, PTL
<1>9. QED
  BY <1>4, <1>6, <1>7, <1>8, ViewsAre

LEMMA GraphStep ==
  ASSUME GraphInv, [GraphNext]_graphVars
  PROVE  GraphInv'
<1>1. CASE GraphQueryStep
  BY <1>1, GraphQueryKeeps
<1>2. CASE OperatorStep
  BY <1>2, OperatorKeeps
<1>3. CASE UNCHANGED graphVars
  <2>1. UNCHANGED <<queryVars, explorerVars, view, hoveredId, canvas, clicks>>
    BY <1>3 DEF graphVars
  <2>2. Wanted' = Wanted
    BY <2>1, WantedSame DEF explorerVars
  <2>3. QueryTypeOK'
    BY <2>1, InvFacts, QueriesAlone
  <2>4. GraphTypeOK'
    BY <2>1, <2>2, <2>3 DEF GraphInv, GraphTypeOK, queryVars, explorerVars
  <2>5. EntriesInOrder' /\ AskedReached'
    BY <2>1, <2>2 DEF GraphInv, EntriesInOrder, AskedReached, Reached, queryVars, explorerVars
  <2>6. ViewOfNow'
    BY <2>1, ViewsSame DEF GraphInv, ViewOfNow, queryVars, explorerVars
  <2>7. CanvasOfView'
    <3>1. CanvasMounted' = CanvasMounted /\ effectiveSelectedId' = effectiveSelectedId
      BY <2>1 DEF CanvasMounted, useGatewayOnline, effectiveSelectedId, queryVars, explorerVars
    <3>2. QED
      BY <2>1, <3>1 DEF GraphInv, CanvasOfView, queryVars, explorerVars
  <2>8. QED
    BY <2>4, <2>5, <2>6, <2>7 DEF GraphInv
<1>4. QED
  BY <1>1, <1>2, <1>3 DEF GraphNext

LEMMA GraphStart ==
  ASSUME GraphInit
  PROVE  GraphInv
<1>1. QueryTypeOK /\ \A k \in DOMAIN cache : Renewed(NewEntry, cache[k])
  BY QueryInitType DEF GraphInit
<1>2. version = 0
  BY DEF GraphInit, QueryInit
<1>3. EntriesInOrder
  <2>1. ASSUME NEW k \in DOMAIN cache
        PROVE  /\ cache[k].ver = None /\ cache[k].since \in {0, None} /\ cache[k].error = FALSE
    <3>1. cache[k] \in Entries
      BY <1>1 DEF QueryTypeOK
    <3>2. QED
      BY <1>1, <1>2, <3>1 DEF Renewed, NewEntry, Entries
  <2>2. ASSUME NEW k \in DOMAIN cache
        PROVE  /\ cache[k].ver <= version
               /\ cache[k].since # None => cache[k].since \in cache[k].ver..version
    <3>1. 0 \in None..0 /\ None <= 0
      BY DEF None
    <3>2. QED
      BY <1>2, <2>1, <2>2, <3>1
  <2>3. QED
    BY <2>1, <2>2 DEF EntriesInOrder
<1>4. AskedReached
  BY <1>2 DEF GraphInit, AskedReached, None
<1>5. ViewOfNow
  BY DEF GraphInit, ViewOfNow
<1>6. CanvasOfView
  BY DEF GraphInit, QueryInit, CanvasOfView, CanvasMounted, useGatewayOnline
<1>7. GraphTypeOK
  <2>1. asked \in None..MaxVersion /\ clicks \in 0..MaxClicks
    BY GraphAssumption, BoundsAssumption DEF GraphInit, None
  <2>2. QED
    BY <1>1, <2>1 DEF GraphInit, GraphTypeOK, Depths
<1>8. QED
  BY <1>3, <1>4, <1>5, <1>6, <1>7 DEF GraphInv

-----------------------------------------------------------------------------
(* What follows from the invariant.                                        *)

LEMMA CanvasShowsView == GraphInv => CanvasIsCurrent
BY ViewsAre DEF GraphInv, ViewOfNow, CanvasOfView, CanvasIsCurrent

LEMMA RefreshReaches == GraphInv => RefreshReachesView
BY DEF GraphInv, AskedReached, Reached, RefreshReachesView, Entry, IsError

(* What a drawing has, whatever is selected in it.                         *)
LEMMA DrawingFacts ==
  ASSUME NEW v, NEW s, NEW h, NEW f
  PROVE  LET d == Drawing(v, s, h, f)
         IN /\ DOMAIN d.nodes = DOMAIN v.entities
            /\ \A e \in d.edges : \E r \in v.relations : e.from = r.from /\ e.to = r.to
            /\ \A e \in DOMAIN d.nodes :
                 /\ d.nodes[e].selected = (e = Valid(s, v))
                 /\ d.nodes[e].dimmed =
                      (Valid(s, v) # NoId /\ e \notin buildNeighborSet(Valid(s, v), v.relations))
BY DEF Drawing

LEMMA EdgesJoin == GraphInv => EdgesJoinNodes
<1> SUFFICES ASSUME GraphInv, NEW e \in canvas.edges
             PROVE  {e.from, e.to} \subseteq DOMAIN canvas.nodes
  BY DEF EdgesJoinNodes
<1>1. CASE CanvasMounted
  <2>1. /\ DOMAIN canvas.nodes = DOMAIN view.entities
        /\ \E r \in view.relations : e.from = r.from /\ e.to = r.to
    BY <1>1, DrawingFacts DEF GraphInv, CanvasOfView
  <2>2. \A r \in view.relations : {r.from, r.to} \subseteq DOMAIN view.entities
    BY InvFacts, ViewFacts DEF GraphInv, ViewOfNow
  <2>3. QED
    BY <2>1, <2>2
<1>2. CASE ~CanvasMounted
  BY <1>2 DEF GraphInv, CanvasOfView, NoCanvas
<1>3. QED
  BY <1>1, <1>2

LEMMA DimmedAround == GraphInv => DimmedAroundSelection
<1> SUFFICES ASSUME GraphInv, NEW x \in DOMAIN canvas.nodes, canvas.nodes[x].dimmed
             PROVE  /\ Panel.entity \in DOMAIN canvas.nodes
                    /\ canvas.nodes[Panel.entity].selected
                    /\ \A r \in Panel.connected : \A e \in {r.from, r.to} : ~canvas.nodes[e].dimmed
  BY DEF DimmedAroundSelection
<1> DEFINE sel == effectiveSelectedId
<1>1. CanvasMounted /\ canvas = Drawing(view, sel, hoveredId, focusId)
  <2>1. DOMAIN NoCanvas.nodes = {}
    BY DEF NoCanvas
  <2>2. QED
    BY <2>1 DEF GraphInv, CanvasOfView
<1>2. Valid(sel, view) = sel
  BY DEF effectiveSelectedId, Valid
<1>3. sel # NoId => sel \in DOMAIN view.entities
  BY DEF effectiveSelectedId
<1> HIDE DEF sel
<1>4. /\ DOMAIN canvas.nodes = DOMAIN view.entities
      /\ \A e \in DOMAIN canvas.nodes :
           /\ canvas.nodes[e].selected = (e = sel)
           /\ canvas.nodes[e].dimmed = (sel # NoId /\ e \notin buildNeighborSet(sel, view.relations))
  BY <1>1, <1>2, DrawingFacts
<1>5. sel # NoId /\ sel \in DOMAIN canvas.nodes
  BY <1>3, <1>4
<1>6. Panel.entity = sel /\ Panel.connected = {r \in view.relations : sel \in {r.from, r.to}}
  BY DEF Panel, sel
<1>7. ASSUME NEW r \in Panel.connected, NEW e \in {r.from, r.to}
      PROVE  ~canvas.nodes[e].dimmed
  <2>1. r \in view.relations /\ sel \in {r.from, r.to}
    BY <1>6
  <2>2. e \in buildNeighborSet(sel, view.relations)
    BY <1>5, <2>1 DEF buildNeighborSet
  <2>3. e \in DOMAIN canvas.nodes
    BY <1>4, <2>1, InvFacts, ViewFacts DEF GraphInv, ViewOfNow
  <2>4. QED
    BY <1>4, <2>2, <2>3
<1>8. QED
  BY <1>4, <1>5, <1>6, <1>7

LEMMA FocusIsShown == GraphInv => FocusShowsItsOwn
<1> SUFFICES ASSUME GraphInv, subgraphLoaded
             PROVE  \E v \in 0..version : view.entities = SubgraphAnswer(v, focusId, depth).ent
  BY DEF FocusShowsItsOwn
<1>1. view = Subgraph(subgraphData)
  BY ViewsAre DEF GraphInv, ViewOfNow
<1>2. view.entities = subgraphData.ent
  BY <1>1, SubgraphFacts
<1>3. QED
  BY <1>2, InvFacts, FocusedView DEF GraphInv

LEMMA EmptyIsGone == GraphInv => EmptyMeansGone
<1> SUFFICES ASSUME GraphInv, {"empty", "no matches"} \cap MainArea # {}
             PROVE  \E v \in 0..version :
                      IF overviewMode THEN DOMAIN EntitiesAnswer(v, typeFilter, search) = {}
                      ELSE focusId \notin DOMAIN GraphAt[v].ent
  BY DEF EmptyMeansGone
<1>1. ~isLoading /\ ~isError /\ DOMAIN view.entities = {}
  BY DEF MainArea
<1>2. \A k \in Wanted : HasData(k)
  BY <1>1 DEF isLoading, isError, IsPending
<1>3. QueryTypeOK /\ EntriesInOrder /\ view \in Views
  BY InvFacts DEF GraphInv, ViewOfNow
<1>4. CASE overviewMode
  <2>1. HasData(EntitiesKey(typeFilter, search))
    BY <1>2, <1>4 DEF Wanted
  <2>2. PICK v \in 0..version : v \in DOMAIN GraphAt /\ entitiesData = EntitiesAnswer(v, typeFilter, search)
    BY <1>3, <2>1, OverviewEntities
  <2> DEFINE S == OfType(entitiesData, typeFilter) \cap Named(entitiesData, search)
  <2>3. view.entities = Keep(entitiesData, S)
    <3>1. view = Overview(entitiesData, relationsData)
      BY <1>3, <1>4, ViewsAre DEF subgraphLoaded
    <3>2. QED
      BY <3>1, OverviewFacts
  <2>4. \A e \in DOMAIN entitiesData : e \in S
    BY <2>2, AnswerFacts
  <2> HIDE DEF S
  <2>5. DOMAIN Keep(entitiesData, S) = DOMAIN entitiesData \cap S
    BY KeepFacts
  <2>6. DOMAIN entitiesData = {}
    BY <1>1, <2>3, <2>4, <2>5
  <2>7. QED
    BY <1>4, <2>2, <2>6
<1>5. CASE ~overviewMode
  <2>1. subgraphLoaded
    BY <1>2, <1>5 DEF Wanted, subgraphLoaded
  <2>2. view = Subgraph(subgraphData)
    BY <1>3, <2>1, ViewsAre
  <2>3. view.entities = subgraphData.ent
    BY <2>2, SubgraphFacts
  <2>4. PICK v \in 0..version : v \in DOMAIN GraphAt /\ subgraphData = SubgraphAnswer(v, focusId, depth)
    BY <1>3, <2>1, FocusedView
  <2>5. DOMAIN SubgraphAnswer(v, focusId, depth).ent = {}
    BY <1>1, <2>3, <2>4
  <2>6. focusId \notin DOMAIN GraphAt[v].ent
    BY <2>5, SubgraphHasCenter
  <2>7. QED
    BY <1>5, <2>6
<1>6. QED
  BY <1>4, <1>5

-----------------------------------------------------------------------------
(* The graph page's invariant holds.                                       *)
THEOREM GraphCorrect == GraphSpec => []GraphInv
<1>1. GraphInit => GraphInv
  BY GraphStart
<1>2. GraphInv /\ [GraphNext]_graphVars => GraphInv'
  BY GraphStep
<1>3. QED
  BY <1>1, <1>2, PTL DEF GraphSpec

(* For any graphs the gateway may hold, of any size, and any order of      *)
(* answers, failures and clicks: an edge drawn joins nodes that are drawn, *)
(* nodes are dimmed around the selection alone, and a focus shows its own  *)
(* neighbourhood.  The overview says that there is nothing only when the   *)
(* gateway has answered so to the very search and type shown; a focused    *)
(* page only when the focused entity was gone.                             *)
THEOREM ViewTrue == GraphSpec => []ViewIsTrue
<1>1. GraphInv => ViewIsTrue
  BY EdgesJoin, DimmedAround, FocusIsShown, EmptyIsGone DEF GraphInv, ViewIsTrue
<1>2. QED
  BY <1>1, GraphCorrect, PTL

(* What is drawn is what the view holds now: the dependencies of the       *)
(* canvas's memo (graph-canvas.tsx:164-166) miss no change.                *)
THEOREM CanvasCurrent == GraphSpec => []CanvasIsCurrent
<1>1. GraphInv => CanvasIsCurrent
  BY CanvasShowsView
<1>2. QED
  BY <1>1, GraphCorrect, PTL

(* While a view stays, the refresh button has reached every query it reads *)
(* (graph-explorer.tsx:133-140).                                           *)
THEOREM RefreshReachesAll == GraphSpec => []RefreshReachesView
<1>1. GraphInv => RefreshReachesView
  BY RefreshReaches
<1>2. QED
  BY <1>1, GraphCorrect, PTL
=============================================================================

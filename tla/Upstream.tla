------------------------------ MODULE Upstream ------------------------------
(***************************************************************************)
(* The road of a model call: the adapter cache, the Anthropic attempt, the  *)
(* one attempt through OpenRouter, and what the caller is sent, charged and *)
(* logged, streamed or not.  Beside it the judge's circuit breaker, which   *)
(* concurrent turns share.                                                  *)
(***************************************************************************)
EXTENDS Integers, FiniteSets

CONSTANTS
    MaxCalls,     \* bound: model calls, one after the other
    MaxChunks,    \* bound: text events of a streamed answer
    MaxAlerts,    \* bound: incidents counted
    Turns,        \* turns that ask the judge at once
    Threshold,    \* BREAKER_THRESHOLD
    Cooldown,     \* BREAKER_COOLDOWN_SECONDS, in ticks
    MaxTicks,     \* bound: ticks
    Nothing

ASSUME UpstreamAssumption ==
    /\ MaxCalls \in Nat /\ MaxChunks \in Nat \ {0} /\ MaxAlerts \in Nat
    /\ Threshold \in Nat /\ Cooldown \in Nat \ {0} /\ MaxTicks \in Nat /\ Turns # {} /\ IsFiniteSet(Turns)
    /\ Nothing \notin Nat \cup {"live", "test", "or"}

VARIABLES
    keys,      \* provider keys that are configured
    adapters,  \* ProviderRouter._adapters: the key each cached adapter holds
    asked,     \* calls made
    routed,      \* the call in hand, or Nothing
    told,      \* incidents reported for this call
    row        \* the usage row of the last call, or Nothing

routeVars == <<keys, adapters, asked, routed, told, row>>

CacheKeys == {"anthropic", "anthropic@test", "openrouter"}

UpstreamInit ==
    /\ keys \in SUBSET {"live", "test", "or"}
    /\ adapters = [c \in CacheKeys |-> Nothing]
    /\ asked = 0 /\ routed = Nothing /\ told = 0 /\ row = Nothing
----------------------------------------------------------------------------
(* ProviderRouter                                                            *)

(* Faulty variant: one cached adapter per provider.                          *)
OnePerProvider(prov, test) == prov

cache_key(prov, test) == IF prov = "anthropic" /\ test THEN "anthropic@test" ELSE prov

KeyFor(prov, test) == IF prov = "openrouter" THEN "or" ELSE IF test THEN "test" ELSE "live"

(* The key of the adapter that serves the call, or Nothing when there is none  *)
(* configured: a cached adapter is used as it is.                             *)
get_adapter(prov, test) ==
    LET c == cache_key(prov, test)
    IN  IF adapters[c] # Nothing THEN adapters[c]
        ELSE IF KeyFor(prov, test) \in keys THEN KeyFor(prov, test) ELSE Nothing

Cached(prov, test) == [adapters EXCEPT ![cache_key(prov, test)] = get_adapter(prov, test)]
----------------------------------------------------------------------------
(* route_with_fallback and route_stream_with_fallback                         *)

(* A harness call, a build and a model OpenRouter does not carry never fall    *)
(* back.                                                                      *)
falls_back(c) == c.prov = "anthropic" /\ ~c.test /\ ~c.build /\ c.carried

(* What the adapter raises: it turns every status into 502, and on a stream    *)
(* every failure.                                                             *)
raised(c, answer) ==
    CASE answer \in {"400", "401", "429", "500"} -> "502"
      [] answer = "timeout" -> IF c.stream THEN "502" ELSE "timeout"

should_fallback(e) == e \in {"timeout", "401", "403", "429", "500", "502"}

AskRouter ==
    /\ routed = Nothing /\ asked < MaxCalls
    /\ \E prov \in {"anthropic", "openrouter"}, test, build, carried, stream \in BOOLEAN :
         /\ build => ~stream
         /\ routed' = [prov |-> prov, test |-> test, build |-> build, carried |-> carried, stream |-> stream,
                     at |-> "route", via |-> prov, key |-> Nothing, tries |-> 0, heard |-> 0, from |-> {},
                     full |-> 0, status |-> Nothing, cause |-> Nothing]
    /\ asked' = asked + 1 /\ told' = 0 /\ row' = Nothing
    /\ UNCHANGED <<keys, adapters>>

Failed(c, e) == [c EXCEPT !.at = "settle", !.status = "error", !.cause = e]

(* validate_model: a model nobody configured is refused, here and for good.    *)
Invalid ==
    /\ routed # Nothing /\ routed.at = "route" /\ routed.tries = 0 /\ routed.via = routed.prov
    /\ routed' = Failed(routed, "400")
    /\ UNCHANGED <<keys, adapters, asked, told, row>>

(* An unknown key fails the call; it falls back only where the adapter is       *)
(* looked up inside the try, which on a stream it is not.                      *)
NoAdapter ==
    /\ routed # Nothing /\ routed.at = "route" /\ get_adapter(routed.via, routed.test) = Nothing
    /\ routed' = IF falls_back(routed) /\ routed.tries = 0 /\ ~routed.stream
               THEN [routed EXCEPT !.at = "alert", !.cause = "502"] ELSE Failed(routed, "502")
    /\ UNCHANGED <<keys, adapters, asked, told, row>>

(* A call that is not streamed, or one to an adapter that only pretends to       *)
(* stream: the answer comes whole.                                            *)
Whole == ~routed.stream \/ routed.via = "openrouter"

SentUpstream == [routed EXCEPT !.key = get_adapter(routed.via, routed.test), !.tries = @ + 1]

Route ==
    /\ routed # Nothing /\ routed.at = "route" /\ Whole /\ get_adapter(routed.via, routed.test) # Nothing
    /\ adapters' = Cached(routed.via, routed.test)
    /\ \E answer \in {"ok", "400", "401", "429", "500", "timeout"} :
         routed' = IF answer = "ok"
                 THEN [SentUpstream EXCEPT !.at = "settle", !.status = "ok", !.full = MaxChunks,
                                   !.heard = IF routed.stream THEN @ ELSE MaxChunks,
                                   !.from = IF routed.stream THEN @ ELSE {routed.via}]
                 ELSE IF should_fallback(raised(routed, answer)) /\ falls_back(routed) /\ routed.tries = 0
                 THEN [SentUpstream EXCEPT !.at = "alert", !.cause = answer]
                 ELSE Failed(SentUpstream, answer)
    /\ UNCHANGED <<keys, asked, told, row>>

(* The stream is opened; nothing has been sent to the caller.                   *)
Open ==
    /\ routed # Nothing /\ routed.at = "route" /\ ~Whole /\ get_adapter(routed.via, routed.test) # Nothing
    /\ adapters' = Cached(routed.via, routed.test)
    /\ routed' = [SentUpstream EXCEPT !.at = "stream"]
    /\ UNCHANGED <<keys, asked, told, row>>

Chunk ==
    /\ routed # Nothing /\ routed.at = "stream" /\ routed.full < MaxChunks
    /\ routed' = [routed EXCEPT !.full = @ + 1, !.heard = @ + 1, !.from = @ \cup {routed.via}]
    /\ UNCHANGED <<keys, adapters, asked, told, row>>

(* The provider ends the stream, finished or not: the text so far is the answer. *)
StreamEnds ==
    /\ routed # Nothing /\ routed.at = "stream"
    /\ routed' = [routed EXCEPT !.at = "settle", !.status = "ok"]
    /\ UNCHANGED <<keys, adapters, asked, told, row>>

before_first_event(c) == c.heard = 0

StreamFails ==
    /\ routed # Nothing /\ routed.at = "stream"
    /\ \E answer \in {"400", "401", "429", "500", "timeout"} :
         routed' = IF before_first_event(routed) /\ falls_back(routed) /\ should_fallback(raised(routed, answer))
                 THEN [routed EXCEPT !.at = "alert", !.cause = answer] ELSE Failed(routed, answer)
    /\ UNCHANGED <<keys, adapters, asked, told, row>>

(* The ceiling on a stream, and the caller who hangs up: of the one a row is     *)
(* left, of the other nothing.                                                 *)
WallClock ==
    /\ routed # Nothing /\ routed.stream /\ routed.at \in {"route", "stream"}
    /\ routed' = [routed EXCEPT !.at = "settle", !.status = "timeout"]
    /\ UNCHANGED <<keys, adapters, asked, told, row>>

HangUp ==
    /\ routed # Nothing /\ routed.stream /\ routed.at \in {"route", "stream"}
    /\ routed' = Nothing
    /\ UNCHANGED <<keys, adapters, asked, told, row>>

(* _alert_on_fallback, then the attempt through OpenRouter.  An incident that    *)
(* cannot be written does not stop it.                                         *)
Alert ==
    /\ routed # Nothing /\ routed.at = "alert"
    /\ told' \in {told, IF told < MaxAlerts THEN told + 1 ELSE told}
    /\ routed' = [routed EXCEPT !.at = "route", !.via = "openrouter", !.tries = 1]
    /\ UNCHANGED <<keys, adapters, asked, row>>

(* What is charged is what the response says; an error or a timeout is logged    *)
(* without one.                                                                *)
Settle ==
    /\ routed # Nothing /\ routed.at = "settle"
    /\ row' = [status |-> routed.status, charged |-> (IF routed.status = "ok" THEN routed.full ELSE 0), call |-> routed]
    /\ routed' = Nothing
    /\ UNCHANGED <<keys, adapters, asked, told>>

RouteNext ==
    \/ AskRouter \/ Invalid \/ NoAdapter \/ Route \/ Open \/ Chunk \/ StreamEnds \/ StreamFails \/ WallClock \/ HangUp
    \/ Alert \/ Settle
----------------------------------------------------------------------------
(* The judge's breaker.                                                       *)

VARIABLES
    fails,    \* consecutive_failures
    opened_at,   \* opened_at, or Nothing
    ticks,    \* monotonic time
    asking,   \* turns waiting for the judge
    slow      \* history: failures since the last success or the last time it let all through

judgeVars == <<fails, opened_at, ticks, asking, slow>>

JudgeInit == fails = 0 /\ opened_at = Nothing /\ ticks = 0 /\ asking = {} /\ slow = 0

allow == opened_at # Nothing => ticks - opened_at >= Cooldown

(* breaker_open: the judge is not asked and the turn goes on without it.        *)
GuardedAsk(t) ==
    /\ t \notin asking /\ allow
    /\ asking' = asking \cup {t}
    /\ UNCHANGED <<fails, opened_at, ticks, slow>>

JudgeAnswers(t) ==
    /\ t \in asking
    /\ asking' = asking \ {t}
    /\ fails' = 0 /\ opened_at' = Nothing /\ slow' = 0
    /\ UNCHANGED ticks

(* Faulty variant: the failure at hand is not counted.                         *)
OpensLate == IF fails > Threshold THEN ticks ELSE opened_at

opened_after_failure == IF fails + 1 > Threshold THEN ticks ELSE opened_at

JudgeFails(t) ==
    /\ t \in asking
    /\ asking' = asking \ {t}
    /\ fails' = IF fails <= Threshold THEN fails + 1 ELSE fails
    /\ opened_at' = opened_after_failure
    /\ slow' = slow + 1
    /\ UNCHANGED ticks

JudgeTick ==
    /\ ticks < MaxTicks
    /\ ticks' = ticks + 1
    /\ slow' = IF opened_at # Nothing /\ ticks' - opened_at = Cooldown THEN 0 ELSE slow
    /\ UNCHANGED <<fails, opened_at, asking>>

JudgeNext == JudgeTick \/ \E t \in Turns : GuardedAsk(t) \/ JudgeAnswers(t) \/ JudgeFails(t)
----------------------------------------------------------------------------
(* The three parts of RoadKept.  A call spends on its own scope's key, though the  *)
(* adapter cache outlives the call that filled it.                                *)
KeyKept ==
    routed # Nothing =>
        /\ routed.key \in {Nothing, KeyFor(routed.via, routed.test), KeyFor(routed.prov, routed.test)}
                          \cap (keys \cup {Nothing})
        /\ routed.test /\ routed.prov = "anthropic" => routed.key # "live"

(* A harness call, a build and a model OpenRouter does not carry never reach it    *)
(* by falling back; every text event of one answer is from one provider.          *)
OneRoad ==
    routed # Nothing =>
        /\ routed.via # routed.prov => falls_back(routed) /\ routed.from \subseteq {"openrouter"}
        /\ routed.tries <= 2 /\ Cardinality(routed.from) <= 1

(* An answer charged is an answer sent, except where a stream fell back to an       *)
(* adapter that answers whole, or was asked of one.                               *)
PaidIsHeard ==
    row # Nothing /\ row.status = "ok" =>
        row.charged = row.call.heard \/ (row.call.stream /\ row.call.via = "openrouter")

(* The road of a model call: its key, its provider and its text, whatever was       *)
(* called before it and however it failed.                                        *)
RoadKept == KeyKept /\ OneRoad /\ PaidIsHeard

(* A call that fell back still answers its user: a streamed turn that ends well   *)
(* has sent the text it is charged for.                                          *)
StreamedTextSent == row # Nothing /\ row.status = "ok" => row.call.heard = row.call.full

(* A request the provider finds malformed is not tried through OpenRouter.        *)
ShapeErrorsStay == routed # Nothing /\ routed.via # routed.prov => routed.cause # "400"

(* An outage of the judge costs a bounded number of slow calls: the ones that      *)
(* open the breaker, and the ones other turns had begun by then; the same again    *)
(* each time it lets them through.                                                *)
OutageBounded == slow <= Threshold + Cardinality(Turns)
=============================================================================

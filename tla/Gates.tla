------------------------------- MODULE Gates --------------------------------
(***************************************************************************)
(* What stands between a chat request and the model besides the account      *)
(* meter: the project-chat policy and its free taste, the checks of the      *)
(* request itself, the sliding rate window, the hourly latch of test         *)
(* accounts, and the caps an app keeps over its own usage_log rows (by       *)
(* entitlement for Tech Rehearsal, flat for N-400, per application, install, *)
(* network and day for an anonymous account).                                *)
(*                                                                         *)
(* One account of some kind; Calls are its requests in flight.  A gate that  *)
(* does not concern the account's kind lets the request pass, as in the      *)
(* code.  Money is counted in units; the gate knows the estimate of a call,  *)
(* which its cost does not exceed.                                           *)
(***************************************************************************)
EXTENDS Integers, Sequences, FiniteSets, FiniteSetsExt

CONSTANTS
    Kinds,       \* account kinds: a subset of {"free", "automation", "tr", "flat", "anonymous"}
    Calls,       \* requests that may overlap
    ChatSessions,\* client session ids, and Absent for a client that sends none
    Cases,       \* applications (case_id)
    Rpm,         \* tier.requests_per_minute
    HourlyCap,   \* automation_cap.HOURLY_CAP
    TasteCap,    \* FREE_TASTE_PER_MONTH
    TrCap,       \* monthly_cost_limit_usd per X-TR-Entitlement
    Tolerance,   \* tr_budget.OVERAGE_TOLERANCE_USD
    SearchFee,   \* fee of the searches of one call, outside the estimate
    FlatCap, PerApplication, PerInstall, PerIp, Daily,   \* caps
    Carried,     \* spend carried over from a deleted account of the install
    MaxEstimate, \* the dearest estimate of a call
    MaxOthers,   \* bound: spend of other anonymous accounts in a day
    MaxRequests, \* bound: requests in a behaviour
    Days,        \* bound: days
    Absent       \* no value

ASSUME GatesAssumption ==
    /\ {Rpm, HourlyCap, TasteCap, FlatCap, PerApplication, PerInstall, PerIp, Daily} \subseteq Nat \ {0}
    /\ {Tolerance, SearchFee, Carried, MaxOthers, MaxRequests} \subseteq Nat
    /\ MaxEstimate \in Nat \ {0} /\ Days \in Nat \ {0} /\ IsFiniteSet(Calls)
    /\ Absent \notin Nat /\ Absent \notin {"application", "install", "daily"}
    /\ TrCap \in [{"free", "paid"} -> Nat]

VARIABLES
    kind,      \* what the account is
    day,       \* the day; minutes are days here too: a tick ages the rate window
    bucket,    \* RateLimiter._buckets: admissions still in the window
    taste,     \* project_chat_taste of the month: session ids
    active,    \* users.is_active
    spent,     \* usage_log as the gates sum it: over all, per case, per day
    rows,      \* usage_log: how many rows
    others,    \* spend of the other anonymous accounts, per day
    ceiling,   \* the served flat cap, or Absent when the document has none
    reachable, \* the app's bundle id passes the audience check
    incidents, \* categories with an open incident
    call,      \* [Calls -> locals of the handler]
    made,      \* requests so far
    raced,     \* history: two calls were admitted on the same sum
    tasteRaced,\* history: two sends were judged on the same taste
    opened     \* history: a call ran with no ceiling

gateVars == <<kind, day, bucket, taste, active, spent, rows, others, ceiling, reachable, incidents, call, made,
              raced, tasteRaced, opened>>

NoCall == [pc |-> "idle", session |-> Absent, case |-> Absent, entitled |-> Absent, est |-> 0,
           flaw |-> Absent, tasted |-> 0, mine |-> FALSE, saw |-> Absent, search |-> FALSE]

GatesInit ==
    /\ kind \in Kinds
    /\ day = 1 /\ bucket = 0 /\ taste = {} /\ active = TRUE
    /\ spent = [all |-> 0, case |-> [c \in Cases |-> 0], day |-> [d \in 1 .. Days |-> 0]] /\ rows = 0
    /\ others = [d \in 1 .. Days |-> 0]
    /\ ceiling = FlatCap /\ reachable \in BOOLEAN /\ incidents = {}
    /\ call = [q \in Calls |-> NoCall] /\ made = 0
    /\ raced = FALSE /\ tasteRaced = FALSE /\ opened = FALSE
    /\ kind # "flat" => reachable
----------------------------------------------------------------------------
Refuse(q) == call' = [call EXCEPT ![q] = NoCall]

(* Authentication and what the client sent; taste_state is read next.         *)
Arrive(q) ==
    /\ call[q].pc = "idle" /\ active /\ made < MaxRequests
    /\ made' = made + 1
    /\ \E s \in ChatSessions, c \in Cases, e \in {"free", "paid", "odd"}, est \in 1 .. MaxEstimate, web \in BOOLEAN,
       flaw \in {Absent, "form", "plan", "prompt", "model", "device"} :
         /\ kind # "free" => s = CHOOSE x \in ChatSessions : TRUE
         /\ kind # "anonymous" => c = CHOOSE x \in Cases : TRUE
         /\ flaw # Absent => est = 1 /\ ~web /\ e = "free"
         /\ flaw = "form" => kind = "flat"
         /\ flaw \in {"prompt", "model"} => kind = "automation"
         /\ flaw = "plan" => kind = "tr"
         /\ flaw = "device" => kind = "flat"
         /\ kind # "tr" => e = "free" /\ ~web
         /\ kind \in {"free", "automation"} \/ e = "odd" \/ web => est = 1
         /\ call' = [call EXCEPT ![q] = [NoCall EXCEPT !.pc = "policy", !.session = s, !.case = c, !.entitled = e,
               !.est = est, !.flaw = flaw, !.search = web, !.tasted = Cardinality(taste),
               !.mine = (s # Absent /\ s \in taste)]]
    /\ UNCHANGED <<kind, day, bucket, taste, active, spent, rows, others, ceiling, reachable, incidents,
                   raced, tasteRaced, opened>>

(* resolve_project_chat_verdict for a signed-in free account on SS AI.        *)
resolve_project_chat_verdict(l) ==
    IF kind # "free" \/ l.mine \/ l.tasted < TasteCap THEN "send_to_gp" ELSE "quota_exhausted"

(* 1.5: the verdict, and the taste recorded when it lets the send through:     *)
(* before every other gate, under "no-session" when the client names none.    *)
Policy(q) ==
    LET l == call[q]
        seat == IF l.session = Absent THEN "no-session" ELSE l.session
    IN  /\ l.pc = "policy"
        /\ IF resolve_project_chat_verdict(l) = "quota_exhausted"
           THEN Refuse(q) /\ UNCHANGED <<taste, tasteRaced>>
           ELSE /\ taste' = IF kind = "free" THEN taste \cup {seat} ELSE taste
                /\ tasteRaced' = (tasteRaced \/ (kind = "free" /\ Cardinality(taste) > l.tasted))
                /\ call' = [call EXCEPT ![q].pc = "checks", ![q].tasted = 0, ![q].mine = FALSE]
        /\ UNCHANGED <<kind, day, bucket, active, spent, rows, others, ceiling, reachable, incidents, made,
                       raced, opened>>

(* 1.6 to 3: what the request itself may be refused for, before anything has   *)
(* changed: the form of an interviewer lane, the plan of the interview         *)
(* reference, a prompt that lacks a declared variable or is not there at all,   *)
(* a model outside the tier.                                                   *)
unknown_form_for_lane(l) == l.flaw = "form"
interview_reference_blocked(l) == l.flaw = "plan"
assemble_prompt_fails(l) == l.flaw = "prompt"
check_model_access_fails(l) == l.flaw = "model"

RequestRefused(q) ==
    LET l == call[q]
    IN  /\ l.pc = "checks"
        /\ unknown_form_for_lane(l) \/ interview_reference_blocked(l) \/ assemble_prompt_fails(l)
           \/ check_model_access_fails(l)
        /\ Refuse(q)
        /\ UNCHANGED <<kind, day, bucket, taste, active, spent, rows, others, ceiling, reachable, incidents, made,
                       raced, tasteRaced, opened>>

(* RateLimiter.check: an admission is recorded, a refusal is not.             *)
RateLimit(q) ==
    /\ call[q].pc = "checks" /\ call[q].flaw \in {Absent, "device"}
    /\ IF bucket >= Rpm
       THEN Refuse(q) /\ UNCHANGED bucket
       ELSE bucket' = bucket + 1 /\ call' = [call EXCEPT ![q].pc = "latch"]
    /\ UNCHANGED <<kind, day, taste, active, spent, rows, others, ceiling, reachable, incidents, made,
                   raced, tasteRaced, opened>>

(* Faulty variant: the account is told off and not latched.                   *)
LatchForgets == UNCHANGED active

latch_off == active' = FALSE

(* 4.4 n400_device_test.enforce: an owner-only lane refuses another device,     *)
(* which has used up its place in the rate window by then.                     *)
device_refused(l) == l.flaw = "device"

(* 4.5 automation_cap.enforce: at the cap the account is switched off, an      *)
(* incident opened and the call refused.                                      *)
Latch(q) ==
    /\ call[q].pc = "latch"
    /\ IF device_refused(call[q]) THEN Refuse(q) /\ UNCHANGED <<active, incidents>>
       ELSE IF kind = "automation" /\ rows >= HourlyCap
       THEN /\ latch_off
            /\ incidents' = incidents \cup {"automation_hourly_cap"}
            /\ Refuse(q)
       ELSE /\ call' = [call EXCEPT ![q].pc = "budget"]
            /\ UNCHANGED <<active, incidents>>
    /\ UNCHANGED <<kind, day, bucket, taste, spent, rows, others, ceiling, reachable, made, raced, tasteRaced, opened>>
----------------------------------------------------------------------------
(* The sums the caps are held against.                                        *)

application_spend(c) == spent.case[c]
lifetime_spend == spent.all
install_spend == lifetime_spend + Carried
daily_spend == spent.day[day] + others[day]

(* would_exceed_flat_budget, and each cap of anonymous_budget.check.          *)
over(sum, est, cap) == sum >= cap \/ sum + est > cap

(* tr_budget.cap_for_entitlement: a value nobody declared gets the lowest.    *)
cap_for_entitlement(e) == IF e \in DOMAIN TrCap THEN TrCap[e] ELSE Min({TrCap[x] : x \in DOMAIN TrCap})

would_exceed_tr_budget(l) ==
    \/ lifetime_spend >= cap_for_entitlement(l.entitled)
    \/ lifetime_spend + l.est > cap_for_entitlement(l.entitled) + Tolerance

(* Faulty variant: a new account of the install starts from nothing.          *)
InstallFresh(l) ==
    IF over(application_spend(l.case), l.est, PerApplication) THEN "application"
    ELSE IF over(lifetime_spend, l.est, PerInstall) THEN "install"
    ELSE IF others[day] >= PerIp THEN "install"
    ELSE IF over(daily_spend, l.est, Daily) THEN "daily"
    ELSE Absent

(* anonymous_budget.check, in its order: the application, the install with     *)
(* what it carries, what others spent from the network, the day.              *)
anonymous_check(l) ==
    IF over(application_spend(l.case), l.est, PerApplication) THEN "application"
    ELSE IF over(install_spend, l.est, PerInstall) THEN "install"
    ELSE IF others[day] >= PerIp THEN "install"
    ELSE IF over(daily_spend, l.est, Daily) THEN "daily"
    ELSE Absent

(* refuse_uncapped_reachable: no ceiling is fine only while nobody can sign in. *)
uncapped == kind = "flat" /\ ceiling = Absent /\ reachable

Blocked(l) ==
    \/ uncapped
    \/ kind = "tr" /\ would_exceed_tr_budget(l)
    \/ kind = "flat" /\ ceiling # Absent /\ over(lifetime_spend, l.est, ceiling)
    \/ kind = "anonymous" /\ anonymous_check(l) # Absent

Reported(l) ==
    (IF uncapped THEN {"uncapped_and_reachable"} ELSE {})
    \cup (IF kind = "anonymous" /\ anonymous_check(l) = "daily" THEN {"anonymous_daily_cap"} ELSE {})

(* 5.6: a blocked call is answered with an envelope and no model call.        *)
Budget(q) ==
    LET l == call[q]
    IN  /\ l.pc = "budget"
        /\ incidents' = incidents \cup Reported(l)
        /\ IF Blocked(l) THEN Refuse(q) /\ UNCHANGED opened
           ELSE /\ call' = [call EXCEPT ![q].pc = "run", ![q].saw = <<lifetime_spend, others[day]>>]
                /\ opened' = (opened \/ (kind = "flat" /\ ceiling = Absent))
        /\ UNCHANGED <<kind, day, bucket, taste, active, spent, rows, others, ceiling, reachable, made,
                       raced, tasteRaced>>

(* The answer is logged: usage_log gets a row whatever the call cost.          *)
LogUsage(q) ==
    LET l == call[q]
    IN  /\ l.pc = "run"
        /\ \E cost \in {0, l.est} :
             LET bill == cost + (IF l.search THEN SearchFee ELSE 0)
             IN  spent' = [all |-> spent.all + bill, case |-> [spent.case EXCEPT ![l.case] = @ + bill],
                           day |-> [spent.day EXCEPT ![day] = @ + bill]]
        /\ rows' = rows + 1
        /\ raced' = (raced \/ l.saw # <<lifetime_spend, others[day]>>)
        /\ call' = [call EXCEPT ![q] = NoCall]
        /\ UNCHANGED <<kind, day, bucket, taste, active, others, ceiling, reachable, incidents, made,
                       tasteRaced, opened>>
----------------------------------------------------------------------------
(* The rest of the world.                                                     *)

OthersSpend ==
    /\ kind = "anonymous" /\ others[day] < MaxOthers
    /\ others' = [others EXCEPT ![day] = @ + 1]
    /\ UNCHANGED <<kind, day, bucket, taste, active, spent, rows, ceiling, reachable, incidents, call, made,
                   raced, tasteRaced, opened>>

(* A dashboard edit of the budget document.                                   *)
EditCeiling ==
    /\ kind = "flat"
    /\ ceiling' = IF ceiling = Absent THEN FlatCap ELSE Absent
    /\ UNCHANGED <<kind, day, bucket, taste, active, spent, rows, others, reachable, incidents, call, made,
                   raced, tasteRaced, opened>>

(* The operator clears a latched account, within the hour or later.            *)
ClearLatch ==
    /\ ~active
    /\ active' = TRUE /\ rows' \in {0, rows}
    /\ incidents' = incidents \ {"automation_hourly_cap"}
    /\ UNCHANGED <<kind, day, bucket, taste, spent, others, ceiling, reachable, call, made, raced, tasteRaced, opened>>

(* Time: the rate window empties, and a day may begin.                         *)
Minute ==
    /\ bucket > 0
    /\ bucket' = 0
    /\ day' \in {day} \cup ({day + 1} \cap 1 .. Days)
    /\ UNCHANGED <<kind, taste, active, spent, rows, others, ceiling, reachable, incidents, call, made,
                   raced, tasteRaced, opened>>

GatesNext ==
    \/ OthersSpend \/ EditCeiling \/ ClearLatch \/ Minute
    \/ \E q \in Calls :
         \/ Arrive(q) \/ Policy(q) \/ RequestRefused(q) \/ RateLimit(q) \/ Latch(q) \/ Budget(q) \/ LogUsage(q)
----------------------------------------------------------------------------
InFlight == {q \in Calls : call[q].pc = "run"}

(* No app spends past its own cap: as long as no two calls were admitted on    *)
(* the same sum, an anonymous install, each of its applications and its day    *)
(* stay within their caps, a flat app within its ceiling and Tech Rehearsal    *)
(* within its cap, its tolerance and the search fees no estimate knows; raced,  *)
(* an install overshoots by the calls in flight.  An app with no ceiling is     *)
(* served only while nobody can sign in to it.                                 *)
CapsHold ==
    /\ kind = "anonymous" /\ ~raced =>
         /\ lifetime_spend > 0 => install_spend <= PerInstall
         /\ \A c \in Cases : application_spend(c) <= PerApplication
         /\ \A d \in 1 .. Days : spent.day[d] <= Daily
    /\ kind = "anonymous" /\ lifetime_spend > 0 =>
         install_spend <= PerInstall + (Cardinality(Calls) - 1) * MaxEstimate
    /\ kind = "tr" /\ ~raced => \E e \in DOMAIN TrCap : lifetime_spend <= TrCap[e] + Tolerance + SearchFee
    /\ kind = "flat" /\ ~raced /\ ~opened => lifetime_spend <= FlatCap
    /\ opened => ~reachable

(* What is free once stays free once: a free account tastes project chat in    *)
(* one session a month, and in a second one only if two sends were judged on    *)
(* the same read; a test account past its hourly cap makes no more calls than   *)
(* those already admitted, until the operator clears it.                        *)
OncePerWindow ==
    /\ kind = "free" => Cardinality(taste) <= TasteCap \/ tasteRaced
    /\ kind = "automation" => rows <= HourlyCap - 1 + Cardinality(Calls)
    /\ ~active => \A q \in InFlight : rows < HourlyCap + Cardinality(Calls)
    /\ "automation_hourly_cap" \in incidents => ~active

(* The gates keep every app within its cap and every free thing within its      *)
(* window.                                                                      *)
GatesHold == CapsHold /\ OncePerWindow
=============================================================================

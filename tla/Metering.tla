------------------------------ MODULE Metering ------------------------------
(***************************************************************************)
(* The account meter: one row of `users`, the columns monthly_used_usd and  *)
(* allocation_resets_at, and everything that reads or writes them while     *)
(* managed model calls are in flight.                                       *)
(*                                                                         *)
(*   usage_tracker.check_quota      lazy reset, then read the meter         *)
(*   chat / reports / translations  the budget gate, the model call and its *)
(*                                  metered sub-calls                       *)
(*   usage_tracker.record_cost      add the real cost once it is known      *)
(*   allocation_reset_sweep         the daemon that resets idle accounts    *)
(*   apple_webhooks DID_RENEW       the same-tier renewal                   *)
(*                                                                         *)
(* Every request has its own SQLite connection and every statement commits  *)
(* before the next await, so a handler is a sequence of atomic reads and    *)
(* writes and other handlers run between any two of them.  Money is counted *)
(* in whole units, time in whole ticks, a month is Period ticks.            *)
(***************************************************************************)
EXTENDS Integers, FiniteSets

CONSTANTS
    Requests,        \* request slots: how many calls of one account overlap
    Kinds,           \* which routes are used, a subset of AllKinds
    TierLimit,       \* the tier's (or trial's) monthly limit, or Unlimited
    AnonymousFree,   \* an anonymous account on the free tier
    AnonymousCapped, \* the calling app caps anonymous accounts itself
    CaptionsCleanup, \* settings.captions_cleanup_enabled
    Anchored,        \* the row starts with a reset date (it has had a plan)
    BootPricing,     \* whether prices can be loaded / missing at startup
    Tolerance,       \* OVERAGE_TOLERANCE_USD
    Estimates,       \* estimates the pricing table gives for a call
    Slack,           \* how far a real cost may exceed its estimate
    MaxCost,         \* the most one provider call costs
    MaxSubcalls,     \* metered sub-calls of one chat turn
    Period,          \* ticks in a month
    MaxTime,         \* bound on the clock
    MaxRenewals,     \* bound on delivered renewal notifications
    Sweeper,         \* the process of the reset daemon
    None             \* SQL NULL / Python None

Unlimited == -1
AllKinds == {"chat", "report", "translation"}

ASSUME MeteringAssumption ==
    /\ IsFiniteSet(Requests)
    /\ Sweeper \notin Requests
    /\ Kinds \subseteq AllKinds
    /\ TierLimit \in Nat \cup {Unlimited}
    /\ AnonymousFree \in BOOLEAN
    /\ AnonymousCapped \in BOOLEAN
    /\ CaptionsCleanup \in BOOLEAN
    /\ Anchored \in BOOLEAN
    /\ BootPricing \subseteq BOOLEAN
    /\ Tolerance \in Nat
    /\ Estimates \subseteq Nat
    /\ Slack \in Nat
    /\ MaxCost \in Nat
    /\ MaxSubcalls \in Nat
    /\ Period \in Nat \ {0}
    /\ MaxTime \in Nat
    /\ MaxRenewals \in Nat
    /\ None \notin Int

VARIABLES
    clock,      \* datetime.now
    used,       \* users.monthly_used_usd
    resetsAt,   \* users.allocation_resets_at
    priced,     \* pricing.is_loaded
    renewals,   \* renewal notifications applied so far
    lastReset,  \* history: when the meter last became zero by a reset
    pc,         \* where each process is in its handler
    kind,       \* the route a request came in on
    snap,       \* the reset date a lazy reset read
    now,        \* the `now` a lazy reset was called with
    seen,       \* the usage a request's gate judges
    est,        \* the estimate the gate accepted, None when it had none
    charged     \* costs this request has finished reporting

vars == <<clock, used, resetsAt, priced, renewals, lastReset,
          pc, kind, snap, now, seen, est, charged>>

row == <<used, resetsAt, lastReset>>
world == <<clock, priced, renewals>>

Procs == Requests \cup {Sweeper}

Init ==
    /\ clock = 0
    /\ used = 0
    /\ resetsAt \in IF Anchored THEN 1 .. Period ELSE {None}
    /\ priced \in BootPricing
    /\ renewals = 0
    /\ lastReset = 0
    /\ pc = [p \in Procs |-> "idle"]
    /\ kind = [r \in Requests |-> "chat"]
    /\ snap = [p \in Procs |-> None]
    /\ now = [p \in Procs |-> 0]
    /\ seen = [r \in Requests |-> 0]
    /\ est = [r \in Requests |-> None]
    /\ charged = [r \in Requests |-> 0]

-----------------------------------------------------------------------------
(* The limits.                                                              *)

(* effective_monthly_limit: nothing for an anonymous free account, unless   *)
(* the app being called caps such accounts itself.                          *)
EffectiveMonthlyLimit(anonymousCapped) ==
    IF AnonymousFree THEN (IF anonymousCapped THEN Unlimited ELSE 0)
                     ELSE TierLimit

(* The limit each route's gate judges against.  Only chat passes the        *)
(* anonymous cap; translations read the tier's own limit.                   *)
LimitFor(k) ==
    CASE k = "chat"        -> EffectiveMonthlyLimit(AnonymousCapped)
      [] k = "report"      -> EffectiveMonthlyLimit(FALSE)
      [] k = "translation" -> TierLimit

(* Faulty variant: a spent allowance is not looked at, only the estimate.    *)
NeverExhausted(u, limit) == FALSE

AlreadyExhausted(u, limit) == limit # Unlimited /\ u >= limit

(* Faulty variant: the pre-flight check forgets the estimate.               *)
ChecksSpentOnly(u, estimate, limit) ==
    limit # Unlimited /\ estimate # None /\ u > limit + Tolerance

WouldExceedBudget(u, estimate, limit) ==
    limit # Unlimited /\ estimate # None /\ u + estimate > limit + Tolerance

-----------------------------------------------------------------------------
(* The lazy reset, shared by check_quota and the sweep.                     *)

(* Faulty variant: months are counted backwards.                            *)
RollBack(date, t) == date - Period

(* roll_forward_past: whole months from the stale date, past `t`.           *)
RollForwardPast(date, t) == date + ((t - date) \div Period + 1) * Period

(* Faulty variant: the comparison is the wrong way round.                   *)
DueReversed(date, t) == date # None /\ date > t

Due(date, t) == date # None /\ date <= t

(* Where a handler continues once lazy_reset_if_due has returned.           *)
AfterReset(p) == IF p = Sweeper THEN "idle" ELSE "read"

(* check_quota up to the SELECT of lazy_reset_if_due.  An unlimited tier     *)
(* returns (0, 0) before any reset.  The sweep passes its own `now`.        *)
ResetRead(p) ==
    LET t == IF p = Sweeper THEN now[p] ELSE clock IN
    /\ pc[p] = "quota"
    /\ IF p # Sweeper /\ TierLimit = Unlimited
         THEN /\ pc' = [pc EXCEPT ![p] =
                          IF kind[p] = "report" THEN "cleanup" ELSE "gate"]
              /\ seen' = [seen EXCEPT ![p] = 0]
              /\ UNCHANGED <<snap, now>>
         ELSE IF Due(resetsAt, t)
         THEN /\ pc' = [pc EXCEPT ![p] = "reset"]
              /\ snap' = [snap EXCEPT ![p] = resetsAt]
              /\ now' = [now EXCEPT ![p] = t]
              /\ UNCHANGED seen
         ELSE /\ pc' = [pc EXCEPT ![p] = AfterReset(p)]
              /\ now' = [now EXCEPT ![p] = 0]
              /\ UNCHANGED <<snap, seen>>
    /\ UNCHANGED <<row, world, kind, est, charged>>

(* Faulty variant: the UPDATE has no guard on the date that was read.       *)
ResetUnguarded(p) ==
    /\ pc[p] = "reset"
    /\ used' = 0
    /\ resetsAt' = RollForwardPast(snap[p], now[p])
    /\ lastReset' = clock
    /\ pc' = [pc EXCEPT ![p] = AfterReset(p)]
    /\ snap' = [snap EXCEPT ![p] = None]
    /\ now' = [now EXCEPT ![p] = 0]
    /\ UNCHANGED <<world, kind, seen, est, charged>>

(* The WHERE-guarded UPDATE: it matches only while the row still holds the  *)
(* date that was read.                                                      *)
ResetWrite(p) ==
    /\ pc[p] = "reset"
    /\ IF resetsAt = snap[p]
         THEN /\ used' = 0
              /\ resetsAt' = RollForwardPast(snap[p], now[p])
              /\ lastReset' = clock
         ELSE UNCHANGED row
    /\ pc' = [pc EXCEPT ![p] = AfterReset(p)]
    /\ snap' = [snap EXCEPT ![p] = None]
    /\ now' = [now EXCEPT ![p] = 0]
    /\ UNCHANGED <<world, kind, seen, est, charged>>

(* The sweep's candidate SELECT for this account.                           *)
SweepSelect ==
    /\ pc[Sweeper] = "idle"
    /\ resetsAt # None
    /\ resetsAt < clock
    /\ pc' = [pc EXCEPT ![Sweeper] = "quota"]
    /\ now' = [now EXCEPT ![Sweeper] = clock]
    /\ UNCHANGED <<row, world, kind, snap, seen, est, charged>>

-----------------------------------------------------------------------------
(* A request, from its first quota check to its last recorded cost.          *)

(* The handler returns and its locals are gone.                              *)
Return(r) ==
    /\ pc' = [pc EXCEPT ![r] = "idle"]
    /\ seen' = [seen EXCEPT ![r] = 0]
    /\ est' = [est EXCEPT ![r] = None]
    /\ charged' = [charged EXCEPT ![r] = 0]
    /\ UNCHANGED <<kind, snap, now>>

(* A translation has no check_quota: it goes straight to its gate.           *)
Begin(r, k) ==
    /\ pc[r] = "idle"
    /\ kind' = [kind EXCEPT ![r] = k]
    /\ pc' = [pc EXCEPT ![r] = IF k = "translation" THEN "gate" ELSE "quota"]
    /\ UNCHANGED <<row, world, snap, now, seen, est, charged>>

(* The meter read that ends check_quota.  Chat keeps the value for its gate; *)
(* a report throws it away and reads again at its own gate.                  *)
ReadUsed(r) ==
    /\ pc[r] = "read"
    /\ seen' = [seen EXCEPT ![r] = used]
    /\ pc' = [pc EXCEPT ![r] = IF kind[r] = "report" THEN "cleanup" ELSE "gate"]
    /\ UNCHANGED <<row, world, kind, snap, now, est, charged>>

(* Another gate refuses the request, or it fails, before any model call:     *)
(* simulated exhaustion, rate limit, oversized context, an app's own cap.    *)
Refuse(r) ==
    /\ pc[r] \in {"quota", "read", "cleanup", "gate"}
    /\ Return(r)
    /\ UNCHANGED <<row, world>>

(* record_cost for a call that cost c.  The UPDATE adds in SQL, so it never  *)
(* loses a concurrent one.  Nothing lands when the tier is unlimited, the    *)
(* pricing table is not loaded, the app meters on its own, or the database   *)
(* stayed locked through every retry.                                        *)
RecordCost(c) ==
    /\ used' \in {used} \cup (IF TierLimit # Unlimited /\ priced
                                THEN {used + c} ELSE {})
    /\ UNCHANGED <<resetsAt, lastReset>>

(* A report's transcript cleanup is a metered model call that runs before    *)
(* the report's own gate.                                                    *)
Cleanup(r) ==
    /\ pc[r] = "cleanup"
    /\ pc' = [pc EXCEPT ![r] = "gate"]
    /\ \/ CaptionsCleanup /\ \E c \in 0 .. MaxCost : RecordCost(c)
       \/ UNCHANGED row
    /\ UNCHANGED <<world, kind, snap, now, seen, est, charged>>

(* The usage a gate judges: chat's was read earlier, by check_quota; reports *)
(* and translations read it here.                                            *)
GateReads(r) == IF kind[r] = "chat" \/ LimitFor(kind[r]) = Unlimited
                  THEN seen[r] ELSE used

(* The estimate a gate has: none while the pricing table is not loaded and   *)
(* none on the translation route.  A model missing from the table has none   *)
(* either, but it also costs nothing: it counts as an estimate of 0.         *)
GateEstimates(r) ==
    IF priced /\ kind[r] # "translation" THEN Estimates ELSE {None}

(* The budget gate: blocked requests answer with the exhausted envelope (or  *)
(* the canned report, or 429) and spend nothing more.                        *)
Gate(r, e) ==
    LET u == GateReads(r)
        limit == LimitFor(kind[r]) IN
    /\ pc[r] = "gate"
    /\ e \in GateEstimates(r)
    /\ IF AlreadyExhausted(u, limit) \/ WouldExceedBudget(u, e, limit)
         THEN Return(r)
         ELSE /\ pc' = [pc EXCEPT ![r] = "call"]
              /\ seen' = [seen EXCEPT ![r] = u]
              /\ est' = [est EXCEPT ![r] = e]
              /\ UNCHANGED <<kind, snap, now, charged>>
    /\ UNCHANGED <<row, world>>

(* A metered sub-call of a chat turn (intent classifier, captions cleanup,   *)
(* title, native action), before or after the main call.  No gate of its own.*)
Subcall(r, c) ==
    /\ pc[r] \in {"call", "tail"}
    /\ kind[r] = "chat"
    /\ charged[r] < MaxSubcalls
    /\ charged' = [charged EXCEPT ![r] = @ + 1]
    /\ RecordCost(c)
    /\ UNCHANGED <<world, pc, kind, snap, now, seen, est>>

(* The main call answers and its cost is recorded.                           *)
Answer(r, c) ==
    /\ pc[r] = "call"
    /\ est[r] # None => c <= est[r] + Slack
    /\ pc' = [pc EXCEPT ![r] = "tail"]
    /\ RecordCost(c)
    /\ UNCHANGED <<world, kind, snap, now, seen, est, charged>>

(* The turn ends: served, or the provider failed and nothing is recorded.    *)
Finish(r) ==
    /\ pc[r] \in {"call", "tail"}
    /\ Return(r)
    /\ UNCHANGED <<row, world>>

-----------------------------------------------------------------------------
(* The rest of the world.                                                    *)

(* DID_RENEW on the same tier: Apple's expiresDate, however late it arrives. *)
RenewSameTier(expires) ==
    /\ renewals < MaxRenewals
    /\ renewals' = renewals + 1
    /\ used' = 0
    /\ resetsAt' = expires
    /\ lastReset' = clock
    /\ UNCHANGED <<clock, priced, pc, kind, snap, now, seen, est, charged>>

LoadPricing ==
    /\ ~priced
    /\ priced' = TRUE
    /\ UNCHANGED <<row, clock, renewals, pc, kind, snap, now, seen, est, charged>>

Tick ==
    /\ clock < MaxTime
    /\ clock' = clock + 1
    /\ UNCHANGED <<row, priced, renewals, pc, kind, snap, now, seen, est, charged>>

SweepStep == SweepSelect \/ ResetRead(Sweeper) \/ ResetWrite(Sweeper)

RequestStep(r) ==
    \/ \E k \in Kinds : Begin(r, k)
    \/ ResetRead(r)
    \/ ResetWrite(r)
    \/ ReadUsed(r)
    \/ Refuse(r)
    \/ Cleanup(r)
    \/ \E e \in Estimates \cup {None} : Gate(r, e)
    \/ \E c \in 0 .. MaxCost : Subcall(r, c)
    \/ \E c \in 0 .. MaxCost : Answer(r, c)
    \/ Finish(r)

Next ==
    \/ SweepStep
    \/ \E r \in Requests : RequestStep(r)
    \/ \E expires \in 1 .. clock + Period : RenewSameTier(expires)
    \/ LoadPricing
    \/ Tick

Spec == Init /\ [][Next]_vars

(* The daemon is a loop that sleeps and sweeps for the life of the process,  *)
(* and time passes; no request is ever obliged to arrive or to finish.       *)
FairSpec == Spec /\ WF_vars(SweepStep)

-----------------------------------------------------------------------------
(* Properties.                                                               *)

States == {"idle", "quota", "reset", "read", "cleanup", "gate", "call", "tail"}

(* Every column and handler variable stays in its type; the meter is never   *)
(* negative.                                                                 *)
TypeOK ==
    /\ clock \in Nat
    /\ used \in Nat
    /\ resetsAt \in Nat \cup {None}
    /\ priced \in BOOLEAN
    /\ renewals \in Nat
    /\ lastReset \in Nat
    /\ pc \in [Procs -> States]
    /\ kind \in [Requests -> AllKinds]
    /\ snap \in [Procs -> Nat \cup {None}]
    /\ now \in [Procs -> Nat]
    /\ seen \in [Requests -> Nat]
    /\ est \in [Requests -> Nat \cup {None}]
    /\ charged \in [Requests -> 0 .. MaxSubcalls]

(* Accounts every route of which is gated: a limited tier, no ungated        *)
(* anonymous lane, and no model call ahead of the gate.                      *)
EveryCallGated ==
    /\ TierLimit # Unlimited
    /\ ~(AnonymousFree /\ AnonymousCapped)
    /\ ~CaptionsCleanup

(* However many calls overlap, a gated account's meter never passes its      *)
(* limit by more than what the calls in flight can still cost: the gates     *)
(* read stale usage, but each stale read is worth one turn.                  *)
OverspendBounded ==
    EveryCallGated =>
        used <= TierLimit + Cardinality(Requests) * (MaxSubcalls + 1) * MaxCost

(* budget_gate: "A user can land mid-call into this band; the next call will *)
(* be blocked."  The meter stays within the overage tolerance of the limit.  *)
WithinOverageBand ==
    TierLimit # Unlimited => used <= TierLimit + Tolerance

(* lazy_reset_if_due: racing requests, sweeps and renewals never hand out    *)
(* the same period's allowance twice.  Outside a renewal the meter falls     *)
(* only together with a move of the date by whole months.                    *)
ResetOncePerPeriod ==
    [][used' < used /\ renewals' = renewals
         => /\ resetsAt' > resetsAt
            /\ (resetsAt' - resetsAt) % Period = 0]_vars

(* allocation_reset: lazy reset on read "handles missed/delayed Apple         *)
(* webhooks AND Free users who have no webhook path".  When lazy_reset_if_due *)
(* answers "not due", the allowance being judged is at most a month old.      *)
NotDueMeansCurrent ==
    [][\A r \in Requests : pc[r] = "quota" /\ pc'[r] = "read"
                              => clock <= lastReset + Period]_vars

(* The daemon's promise: an account whose allowance is more than a month old *)
(* gets a fresh one, whether or not it ever makes a request.                 *)
AllowanceRenewed ==
    (clock > lastReset + Period) ~> (clock <= lastReset + Period)
=============================================================================

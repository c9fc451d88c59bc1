----------------------------- MODULE Entitlement -----------------------------
(***************************************************************************)
(* Who holds which plan: the plan columns of `users`, the per-subscription  *)
(* `subscription_status` rows, the grants in `subscription_events`, and the *)
(* five writers that change them.                                           *)
(*                                                                         *)
(*   POST /v1/verify-receipt        a client presents a transaction         *)
(*   POST /v1/sync-subscription     a client states its entitlement         *)
(*   POST /v1/apple-notifications   Apple's server notifications            *)
(*   subscription_reconcile.sweep   asks Apple about every stored id        *)
(*   anonymous_merge.merge_into     closes an anonymous account             *)
(*   webhooks.set_tier              the operator                            *)
(*                                                                         *)
(* A handler reads the account, awaits, and writes what the read implied;   *)
(* each database commit is one step, and the history row that follows a     *)
(* plan write is part of that write's step.  A handler occupies a worker    *)
(* while it runs, so one worker means one request at a time.  Apple is the  *)
(* environment: it starts and ends subscriptions and its notifications may  *)
(* be late, repeated, reordered or lost.                                    *)
(***************************************************************************)
EXTENDS Integers, FiniteSets, FiniteSetsExt

CONSTANTS
    Users,
    Anonymous, AppleUser,  \* the anonymous account and the one it signs in to
    Otids,                 \* Apple's original transaction ids
    Plan,                  \* [Otids -> PaidTiers]: the product bought
    Token,                 \* [Otids -> Users \cup {None}]: its appAccountToken
    Receipts,              \* the receipts clients present
    NoticeTypes,           \* the notification types Apple sends
    Routes,                \* which writers take part
    Faults,                \* TRUE: a handler may die between two commits
    Workers,               \* handler invocations that may overlap
    MaxCalls,              \* bound on handler invocations
    MaxClock,              \* bound on Apple's changes
    None

PaidTiers == {"plus", "pro"}
Tiers == PaidTiers \cup {"free"}
Full == 1         \* a meter that is used up; 0 is a fresh allowance
Unnamed == "unnamed"  \* the purchase behind a receipt whose id was rejected,
Unlogged == "unlogged"  \* and one of these whose grant nothing recorded

Receipt == [otid : Otids \cup {None}, tier : PaidTiers, trial : BOOLEAN, signed : BOOLEAN]

UpgradeTypes == {"SUBSCRIBED", "DID_RENEW"}
DowngradeTypes == {"EXPIRED", "REVOKE", "GRACE_PERIOD_EXPIRED"}
RefundTypes == {"REFUND"}
RecordedTypes == {"DID_FAIL_TO_RENEW", "DID_CHANGE_RENEWAL_STATUS"}
OtherTypes == {"TEST", "DID_CHANGE_RENEWAL_PREF"}

ASSUME EntitlementAssumption ==
    /\ Anonymous \in Users
    /\ AppleUser \in Users \ {Anonymous}
    /\ Plan \in [Otids -> PaidTiers]
    /\ Token \in [Otids -> Users \cup {None}]
    /\ Receipts \subseteq Receipt
    /\ NoticeTypes \subseteq UpgradeTypes \cup DowngradeTypes \cup RefundTypes
                                \cup RecordedTypes \cup OtherTypes
    /\ Routes \subseteq {"verify", "sync", "assn", "sweep", "merge", "admin"}
    /\ Faults \in BOOLEAN
    /\ MaxCalls \in Nat
    /\ MaxClock \in Nat
    /\ None \notin Users \cup Otids \cup {Unnamed, Unlogged}
    /\ Unnamed \notin Otids /\ Unlogged \notin Otids

VARIABLES
    users,      \* [Users -> plan columns]
    status,     \* [Otids -> subscription_status row, or None]
    grants,     \* the grant events of subscription_events
    conflicts,  \* anonymous_merges rows with plan_conflict = 1: <<into, otid>>
    live,       \* Apple: the subscriptions that are active
    lapsed,     \* Apple: [Otids -> when it last lapsed]
    sent,       \* Apple: the notifications it has sent
    clock,      \* counts Apple's changes
    calls,      \* handlers started so far
    work        \* [Workers -> the handler's locals]

vars == <<users, status, grants, conflicts, live, lapsed, sent, clock, calls, work>>
tables == <<users, status, grants, conflicts>>
apple == <<live, lapsed, sent, clock>>

(* src and at are history: the purchase behind the tier, and when a grant   *)
(* of it was last applied.                                                  *)
UserRow == [tier : Tiers, trial : BOOLEAN, used : 0 .. Full, otid : Otids \cup {None},
            active : BOOLEAN, src : Otids \cup {None, Unnamed, Unlogged}, at : Nat]
NewUser == [tier |-> "free", trial |-> FALSE, used |-> 0, otid |-> None,
            active |-> TRUE, src |-> None, at |-> 0]
Idle == [pc |-> "idle"]

Init ==
    /\ users = [u \in Users |-> NewUser]
    /\ status = [o \in Otids |-> None]
    /\ grants = {}
    /\ conflicts = {}
    /\ live = {}
    /\ lapsed = [o \in Otids |-> 0]
    /\ sent = {}
    /\ clock = 0
    /\ calls = 0
    /\ work = [w \in Workers |-> Idle]

Paid(row) == row.tier # "free"

-----------------------------------------------------------------------------
(* Row updates shared by the writers.                                       *)

(* Faulty variant: the used-up allowance is added, not set.                 *)
DowngradeAdds(row) ==
    [row EXCEPT !.tier = "free", !.trial = FALSE, !.used = @ + Full, !.src = None]

(* _downgrade_to_free: the free allowance starts used up.                   *)
DowngradeToFree(row) ==
    [row EXCEPT !.tier = "free", !.trial = FALSE, !.used = Full, !.src = None]

(* _upgrade_to_tier and the paid branch of a state change.                  *)
FreshPlan(row, t, trial, source) ==
    [row EXCEPT !.tier = t, !.trial = trial, !.used = 0, !.src = source, !.at = clock]

(* COALESCE(?, original_transaction_id)                                     *)
BindOtid(row, o) == IF o = None THEN row ELSE [row EXCEPT !.otid = o]

(* record_subscription_event, for the event types that grant a tier.        *)
Grant(u, type, t, o, source) ==
    [user |-> u, type |-> type, tier |-> t, otid |-> o, source |-> source, at |-> clock]

(* What verify-receipt and the webhook call a change from `old`.            *)
Rank(t) == CASE t = "free" -> 0 [] t = "plus" -> 1 [] t = "pro" -> 2
GrantEvents(u, old, t, converted, o, source) ==
    IF converted \/ old = "free" THEN {Grant(u, "subscribed", t, o, source)}
    ELSE IF Rank(t) >= Rank(old) THEN {Grant(u, "upgraded", t, o, source)}
    ELSE {}

SourceOf(o, events) == IF o # None THEN o ELSE IF events = {} THEN Unlogged ELSE Unnamed

(* upsert_subscription_status: a notification that says nothing about the   *)
(* status keeps the stored one.                                             *)
StatusOf(type) ==
    CASE type \in UpgradeTypes -> 1
      [] type \in {"EXPIRED", "GRACE_PERIOD_EXPIRED"} -> 2
      [] type = "DID_FAIL_TO_RENEW" -> 3
      [] type = "REVOKE" -> 5
      [] OTHER -> None

UpsertStatus(o, u, type) ==
    [status EXCEPT ![o] =
       [user |-> u,
        state |-> IF StatusOf(type) # None \/ @ = None THEN StatusOf(type) ELSE @.state]]

Start(w, route, job) ==
    /\ route \in Routes
    /\ work[w] = Idle
    /\ calls < MaxCalls
    /\ calls' = calls + 1
    /\ work' = [work EXCEPT ![w] = job]

Goto(w, job) == work' = [work EXCEPT ![w] = job] /\ UNCHANGED calls
Done(w) == Goto(w, Idle)

-----------------------------------------------------------------------------
(* POST /v1/verify-receipt.                                                 *)

(* get_current_user: the caller's row as it is now, kept to the end.        *)
VerifyAuth(w, u, receipt) ==
    /\ users[u].active
    /\ Start(w, "verify", [pc |-> "v_holders", user |-> u, receipt |-> receipt,
                           tier |-> users[u].tier, trial |-> users[u].trial, held |-> {}])
    /\ UNCHANGED <<tables, apple>>

(* Faulty variant: a transaction left behind by a merge is not recognised.  *)
NeverKept(u, o) == FALSE

(* The transaction was left behind by a merge into this account.            *)
KeptByConflict(u, o) == o # None /\ <<u, o>> \in conflicts

(* The plan_conflict check answers with the existing plan; otherwise read   *)
(* who else holds the transaction.                                          *)
VerifyHolders(w) ==
    LET job == work[w]
        o == job.receipt.otid IN
    /\ job.pc = "v_holders"
    /\ IF KeptByConflict(job.user, o)
         THEN Done(w)
         ELSE Goto(w, [job EXCEPT
                !.pc = "v_detach",
                !.held = {[user |-> u, tier |-> users[u].tier, used |-> users[u].used] :
                            u \in {x \in Users \ {job.user} : o # None /\ users[x].otid = o}}])
    /\ UNCHANGED <<tables, apple>>

(* Faulty variant: the other rows keep the id.                              *)
DetachNothing(u, o) == users

(* Every other row lets go of the id (committed by resolve_incident).       *)
Detach(u, o) ==
    [x \in Users |-> IF x # u /\ o # None /\ users[x].otid = o
                        THEN [users[x] EXCEPT !.otid = None] ELSE users[x]]

VerifyDetach(w) ==
    LET job == work[w] IN
    /\ job.pc = "v_detach"
    /\ users' = Detach(job.user, job.receipt.otid)
    /\ Goto(w, [job EXCEPT !.pc = "v_plan"])
    /\ UNCHANGED <<status, grants, conflicts, apple>>

(* What a change of the plan logs.                                          *)
VerifyEvents(job) ==
    LET rc == job.receipt IN
    GrantEvents(job.user, job.tier, rc.tier, (job.trial /\ ~rc.trial) \/ rc.trial, rc.otid, "verify")

(* The plan.  A change of tier, or a trial that converted, judged from the  *)
(* row as it was at authentication, grants a fresh allowance and is logged; *)
(* a re-verification only rebinds the id.                                   *)
VerifyPlan(w) ==
    LET job == work[w]
        rc == job.receipt
        change == job.tier # rc.tier \/ (job.trial /\ ~rc.trial)
        row == users[job.user] IN
    /\ job.pc = "v_plan"
    /\ users' = [users EXCEPT ![job.user] = BindOtid(
         IF change THEN FreshPlan(row, rc.tier, rc.trial, SourceOf(rc.otid, VerifyEvents(job)))
         ELSE [row EXCEPT !.trial = rc.trial,
                          !.src = IF Paid(row) /\ rc.otid # None THEN rc.otid ELSE @],
         rc.otid)]
    /\ grants' = IF change THEN grants \cup VerifyEvents(job) ELSE grants
    /\ Goto(w, [job EXCEPT !.pc = "v_move"])
    /\ UNCHANGED <<status, conflicts, apple>>

(* Faulty variant: the holders to downgrade are the ones already free.      *)
FreeHolders(job) == {h \in job.held : h.tier = "free"}

(* The holders that had a plan when they were read.                        *)
PaidHolders(job) == {h \in job.held : h.tier # "free"}

(* Faulty variant: the requester keeps the fresh allowance.                 *)
MoveWithoutUsage(u, paid) ==
    [x \in Users |-> IF x \in {h.user : h \in paid} THEN DowngradeToFree(users[x])
                                                     ELSE users[x]]

(* move_plan, first commit: for a signed transaction the requester inherits *)
(* the most used of the paid holders' meters, and those holders go free.    *)
MovePlan(u, paid) ==
    [x \in Users |->
       IF x = u THEN [users[x] EXCEPT !.used = Max({h.used : h \in paid})]
       ELSE IF x \in {h.user : h \in paid} THEN DowngradeToFree(users[x])
       ELSE users[x]]

VerifyMove(w) ==
    LET job == work[w]
        paid == PaidHolders(job) IN
    /\ job.pc = "v_move"
    /\ IF job.receipt.signed /\ paid # {}
         THEN /\ users' = MovePlan(job.user, paid)
              /\ Goto(w, [job EXCEPT !.pc = "v_records"])
         ELSE Done(w) /\ UNCHANGED users
    /\ UNCHANGED <<status, grants, conflicts, apple>>

(* move_plan, last commit: the status row and the holders' events follow    *)
(* the plan, and the "subscribed" this request logged is demoted when the   *)
(* purchase had one already.                                                *)
VerifyRecords(w) ==
    LET job == work[w]
        o == job.receipt.otid
        from == {h.user : h \in job.held}
        theirs == {g \in grants : g.otid = o /\ g.user \in from}
        moved == (grants \ theirs) \cup {[g EXCEPT !.user = job.user] : g \in theirs}
        mine == {g \in moved : /\ g.user = job.user /\ g.otid = o
                               /\ g.source = "verify" /\ g.type = "subscribed"}
        newest == {g \in mine : \A h \in mine : h.at <= g.at} IN
    /\ job.pc = "v_records"
    /\ status' = [status EXCEPT ![o] = IF @ = None THEN None ELSE [@ EXCEPT !.user = job.user]]
    /\ grants' = IF \E g \in theirs : g.type = "subscribed" THEN moved \ newest ELSE moved
    /\ Done(w)
    /\ UNCHANGED <<users, conflicts, apple>>

-----------------------------------------------------------------------------
(* POST /v1/sync-subscription.  `receipt` is the entitlement StoreKit has   *)
(* on the device, None when it has none; only its product is sent.          *)

SyncAuth(w, u, receipt) ==
    /\ users[u].active
    /\ Start(w, "sync", [pc |-> "s_apply", user |-> u, receipt |-> receipt,
                         tier |-> users[u].tier, trial |-> users[u].trial])
    /\ UNCHANGED <<tables, apple>>

SyncApply(w) ==
    LET job == work[w]
        rc == job.receipt
        row == users[job.user] IN
    /\ job.pc = "s_apply"
    /\ users' = [users EXCEPT ![job.user] =
         IF rc = None
           THEN IF job.tier = "free" THEN row ELSE DowngradeToFree(row)
         ELSE IF job.tier = rc.tier /\ job.trial = rc.trial THEN row
         ELSE IF job.trial /\ ~rc.trial THEN FreshPlan(row, rc.tier, FALSE, SourceOf(rc.otid, {}))
         ELSE [row EXCEPT !.tier = rc.tier, !.trial = rc.trial,
                          !.src = SourceOf(rc.otid, {}), !.at = clock]]
    /\ Done(w)
    /\ UNCHANGED <<status, grants, conflicts, apple>>

-----------------------------------------------------------------------------
(* POST /v1/apple-notifications.                                            *)

(* By stored id, else by appAccountToken; nobody means it is skipped.       *)
Holders(o) == {u \in Users : users[u].otid = o}

NotifyLookup(w, n) ==
    /\ \/ \E u \in Holders(n.otid) :
            Start(w, "assn", [pc |-> "n_apply", notice |-> n, user |-> u, byToken |-> FALSE,
                              tier |-> users[u].tier, trial |-> users[u].trial])
       \/ /\ Holders(n.otid) = {}
          /\ Token[n.otid] # None
          /\ LET u == Token[n.otid] IN
             Start(w, "assn", [pc |-> "n_apply", notice |-> n, user |-> u, byToken |-> TRUE,
                               tier |-> users[u].tier, trial |-> users[u].trial])
    /\ UNCHANGED <<tables, apple>>

(* One transaction: the status upsert, the adopted id and the plan.  It is  *)
(* committed by the plan write or the history row; a branch with neither    *)
(* returns without a commit and the upsert is rolled back.                  *)
NotifyUpgrade(job) ==
    LET t == Plan[job.notice.otid]
        adopted == IF job.byToken THEN [users[job.user] EXCEPT !.otid = job.notice.otid]
                                  ELSE users[job.user]
        same == job.tier = t /\ ~job.trial IN
    /\ job.notice.type \in UpgradeTypes
    /\ users' = [users EXCEPT ![job.user] =
         IF same THEN [adopted EXCEPT !.used = 0, !.src = job.notice.otid, !.at = clock]
                 ELSE FreshPlan(adopted, t, FALSE, job.notice.otid)]
    /\ grants' = grants \cup {Grant(job.user, IF same THEN "renewed"
                                              ELSE IF job.tier = "free" THEN "subscribed"
                                              ELSE "upgraded", t, job.notice.otid, "assn")}
    /\ status' = UpsertStatus(job.notice.otid, job.user, job.notice.type)

NotifyDowngrade(job) ==
    /\ job.notice.type \in DowngradeTypes \cup RefundTypes
    /\ IF job.tier = "free"
         THEN UNCHANGED <<users, status>>
         ELSE /\ users' = [users EXCEPT ![job.user] = DowngradeToFree(@)]
              /\ status' = UpsertStatus(job.notice.otid, job.user, job.notice.type)
    /\ UNCHANGED grants

NotifyRecord(job) ==
    /\ job.notice.type \in RecordedTypes
    /\ status' = UpsertStatus(job.notice.otid, job.user, job.notice.type)
    /\ UNCHANGED <<users, grants>>

NotifyOther(job) ==
    /\ job.notice.type \in OtherTypes
    /\ UNCHANGED <<users, status, grants>>

NotifyApply(w) ==
    /\ work[w].pc = "n_apply"
    /\ \/ NotifyUpgrade(work[w])
       \/ NotifyDowngrade(work[w])
       \/ NotifyRecord(work[w])
       \/ NotifyOther(work[w])
    /\ Done(w)
    /\ UNCHANGED <<conflicts, apple>>

-----------------------------------------------------------------------------
(* The reconciliation sweep.                                                *)

(* The row as the sweep's SELECT saw it, some users earlier.  The daemon     *)
(* comes round for ever, so its visits are not counted as calls.            *)
SweepRead(w, u) ==
    /\ "sweep" \in Routes
    /\ work[w] = Idle
    /\ users[u].otid # None
    /\ Goto(w, [pc |-> "r_ask", user |-> u, otid |-> users[u].otid,
                tier |-> users[u].tier, answer |-> None, expires |-> 0])
    /\ UNCHANGED <<tables, apple>>

(* get_subscription_state: the visit failed and the user is left alone,       *)
(* or Apple answers for that one subscription.                              *)
SweepUnanswered(w) ==
    /\ work[w].pc = "r_ask"
    /\ Done(w)
    /\ UNCHANGED <<tables, apple>>

AppleTier(o) == IF o \in live THEN Plan[o] ELSE "free"

SweepAsk(w) ==
    LET job == work[w] IN
    /\ job.pc = "r_ask"
    /\ Goto(w, [job EXCEPT !.pc = "r_apply", !.answer = AppleTier(job.otid),
                           !.expires = lapsed[job.otid]])
    /\ UNCHANGED <<tables, apple>>

(* Faulty variant: every lapse is believed.                                 *)
NoNewerGrant(u, o, t, expires) == FALSE

(* _newer_grant: another purchase gave this tier after that one lapsed.     *)
NewerGrant(u, o, t, expires) ==
    \E g \in grants : g.user = u /\ g.tier = t /\ g.otid # o /\ g.at >= expires

(* Faulty variant: only lapses are fixed.                                   *)
OnlyLapses(row, t, o) ==
    IF t = "free" THEN [row EXCEPT !.tier = "free", !.trial = FALSE, !.src = None] ELSE row

(* _apply_tier leaves the meter and, for a paid tier, the trial alone.      *)
ApplyTier(row, t, o) ==
    IF t = "free" THEN [row EXCEPT !.tier = "free", !.trial = FALSE, !.src = None]
                  ELSE [row EXCEPT !.tier = t, !.src = o, !.at = clock]

SweepApply(w) ==
    LET job == work[w] IN
    /\ job.pc = "r_apply"
    /\ users' = IF \/ job.answer = job.tier
                   \/ /\ job.answer = "free"
                      /\ NewerGrant(job.user, job.otid, job.tier, job.expires)
                  THEN users
                ELSE [users EXCEPT ![job.user] = ApplyTier(@, job.answer, job.otid)]
    /\ Done(w)
    /\ UNCHANGED <<status, grants, conflicts, apple>>

-----------------------------------------------------------------------------
(* Merge, operator, the meter.                                              *)

(* apple_auth read both rows; merge_into works from those copies.           *)
MergeAuth(w) ==
    /\ users[Anonymous].active
    /\ Start(w, "merge", [pc |-> "m_apply", anon |-> users[Anonymous],
                          apple |-> users[AppleUser]])
    /\ UNCHANGED <<tables, apple>>

MergeApply(w) ==
    LET anon == work[w].anon
        moves == Paid(anon) /\ ~Paid(work[w].apple)
        closed == [users[Anonymous] EXCEPT !.active = FALSE] IN
    /\ work[w].pc = "m_apply"
    /\ users' = IF moves
         THEN [users EXCEPT ![AppleUser] = [anon EXCEPT !.active = users[AppleUser].active],
                            ![Anonymous] = [closed EXCEPT !.tier = "free", !.otid = None,
                                                          !.src = None]]
         ELSE [users EXCEPT ![Anonymous] = closed]
    /\ status' = IF ~moves THEN status
         ELSE [o \in Otids |-> IF status[o] # None /\ status[o].user = Anonymous
                                 THEN [status[o] EXCEPT !.user = AppleUser] ELSE status[o]]
    /\ grants' = IF ~moves THEN grants
         ELSE {IF g.user = Anonymous THEN [g EXCEPT !.user = AppleUser] ELSE g : g \in grants}
    /\ conflicts' = IF Paid(anon) /\ Paid(work[w].apple)
         THEN conflicts \cup {<<AppleUser, anon.otid>>} ELSE conflicts
    /\ Done(w)
    /\ UNCHANGED apple

(* set_tier: tier and a fresh meter; the id and the trial flag stay.        *)
SetTier(w, u, t) ==
    /\ Start(w, "admin", Idle)
    /\ users' = [users EXCEPT ![u].tier = t, ![u].used = 0, ![u].src = None]
    /\ UNCHANGED <<status, grants, conflicts, apple>>

(* The account's paid calls use up its allowance.                           *)
Spend(w, u) ==
    /\ work[w] = Idle
    /\ Paid(users[u])
    /\ users' = [users EXCEPT ![u].used = Full]
    /\ UNCHANGED <<status, grants, conflicts, apple, calls, work>>

(* The process dies, or the database stays locked, between two commits.  A  *)
(* visit of the sweep has one commit: its failure is SweepUnanswered.       *)
Abort(w) ==
    /\ Faults
    /\ work[w].pc \notin {"idle", "r_ask", "r_apply"}
    /\ Done(w)
    /\ UNCHANGED <<tables, apple>>

-----------------------------------------------------------------------------
(* Apple.                                                                   *)

Send(o, types) == sent' = sent \cup {[type |-> t, otid |-> o] : t \in types \cap NoticeTypes}

Subscribe(o) ==
    /\ o \notin live
    /\ clock < MaxClock
    /\ clock' = clock + 1
    /\ live' = live \cup {o}
    /\ Send(o, UpgradeTypes \cup RecordedTypes \cup OtherTypes)
    /\ UNCHANGED <<lapsed, tables, calls, work>>

Lapse(o) ==
    /\ o \in live
    /\ clock < MaxClock
    /\ clock' = clock + 1
    /\ live' = live \ {o}
    /\ lapsed' = [lapsed EXCEPT ![o] = clock + 1]
    /\ Send(o, DowngradeTypes \cup RefundTypes)
    /\ UNCHANGED <<tables, calls, work>>

(* A device holds a receipt for every subscription bought on it, and for as *)
(* long as it is live StoreKit reports it as the current entitlement.       *)
Presentable(rc) == rc.otid = None \/ rc.otid \in live

VerifyStep(w) ==
    \/ \E u \in Users : \E rc \in Receipts : Presentable(rc) /\ VerifyAuth(w, u, rc)
    \/ VerifyHolders(w) \/ VerifyDetach(w) \/ VerifyPlan(w)
    \/ VerifyMove(w) \/ VerifyRecords(w)

SyncStep(w) ==
    \/ \E u \in Users : \E rc \in {x \in Receipts : Presentable(x)} \cup {None} : SyncAuth(w, u, rc)
    \/ SyncApply(w)

NotifyStep(w) ==
    \/ \E n \in sent : NotifyLookup(w, n)
    \/ NotifyApply(w)

SweepStep(w) ==
    \/ \E u \in Users : SweepRead(w, u)
    \/ SweepUnanswered(w) \/ SweepAsk(w) \/ SweepApply(w)

MergeStep(w) == MergeAuth(w) \/ MergeApply(w)

Next ==
    \/ \E w \in Workers : VerifyStep(w) \/ SyncStep(w) \/ NotifyStep(w)
                             \/ SweepStep(w) \/ MergeStep(w) \/ Abort(w)
    \/ \E w \in Workers, u \in Users, t \in Tiers : SetTier(w, u, t)
    \/ \E w \in Workers, u \in Users : Spend(w, u)
    \/ \E o \in Otids : Subscribe(o) \/ Lapse(o)

Spec == Init /\ [][Next]_vars

(* A request that was accepted runs to its end unless it dies, the daemon    *)
(* keeps visiting every account, and not every visit to it fails.           *)
Serve(w) == VerifyHolders(w) \/ VerifyDetach(w) \/ VerifyPlan(w) \/ VerifyMove(w)
              \/ VerifyRecords(w) \/ SyncApply(w) \/ NotifyApply(w)
              \/ SweepApply(w) \/ MergeApply(w)

FairSpec ==
    /\ Spec
    /\ \A w \in Workers : WF_vars(Serve(w))
    /\ \A w \in Workers, u \in Users :
         /\ SF_vars(SweepRead(w, u))
         /\ SF_vars(SweepAsk(w) /\ work[w].user = u)

-----------------------------------------------------------------------------
(* Properties.                                                              *)

(* The tables keep their types and every grant names an account and a tier. *)
TypeOK ==
    /\ users \in [Users -> UserRow]
    /\ \A o \in Otids : status[o] # None =>
         status[o].user \in Users /\ status[o].state \in {None, 1, 2, 3, 5}
    /\ \A g \in grants : /\ g.user \in Users /\ g.tier \in PaidTiers
                         /\ g.otid \in Otids \cup {None} /\ g.at \in 0 .. MaxClock
                         /\ g.type \in {"subscribed", "upgraded", "renewed"}
    /\ conflicts \subseteq Users \X (Otids \cup {None})
    /\ live \subseteq Otids
    /\ lapsed \in [Otids -> 0 .. MaxClock]
    /\ calls \in 0 .. MaxCalls

(* "No other row can hold this id": at most one account holds a transaction *)
(* id, so that a notification finds the account it is about.                *)
HeldOnce == \A o \in Otids : Cardinality(Holders(o)) <= 1

(* "the plan moves: the other holder is downgraded": one subscription       *)
(* never pays for two accounts, once the handlers that move it are done.    *)
OnePaidAccount ==
    (\A w \in Workers : work[w].pc \notin {"v_detach", "v_plan", "v_move"}) =>
        \A o \in Otids : Cardinality({u \in Users : Paid(users[u]) /\ users[u].src = o}) <= 1

(* "the requester inherits its usage for the period instead of the fresh    *)
(* allowance ... buying once and restoring onto new installs cannot mint a  *)
(* new month each time": when a move takes the plan off an account, the     *)
(* account it went to starts with at least what was used of it.             *)
UsageTravels ==
    [][\A w \in Workers : \A u \in Users :
         /\ work[w].pc = "v_move" /\ work'[w].pc # "v_move"
         /\ u # work[w].user /\ Paid(users[u]) /\ ~Paid(users'[u])
         => users'[work[w].user].used >= users[u].used]_vars

(* A notification that no stored id matched is for the account its token     *)
(* names.                                                                   *)
MatchedByToken(o) ==
    \E w \in Workers : work[w].pc = "n_apply" /\ work[w].byToken /\ work[w].notice.otid = o

(* "A transaction a plan_conflict merge left behind never replaces this     *)
(* account's plan": not from a client's replay, the sweep or another merge, *)
(* unless Apple's token has made the account its holder.                    *)
ConflictKeepsPlan ==
    [][\A u \in Users, o \in Otids :
         <<u, o>> \in conflicts /\ users'[u].src = o
         => users[u].src = o \/ users[u].otid = o \/ MatchedByToken(o)]_vars

(* "The reconcile sweep must not take a tier that a NEWER purchase          *)
(* granted": it takes a plan only when the lapsed subscription it asked     *)
(* about, or a grant applied before that lapse, is what gave it, or a       *)
(* purchase under no usable id that verify-receipt took for a downgrade, so *)
(* that no grant of it is on record.                                        *)
SweepKeepsNewerPurchase ==
    [][\A w \in Workers :
         LET job == work[w] IN
         /\ job.pc = "r_apply" /\ work'[w].pc = "idle"
         /\ Paid(users[job.user]) /\ ~Paid(users'[job.user])
         => \/ users[job.user].src \in {job.otid, None, Unlogged}
            \/ users[job.user].at < job.expires]_vars

(* "fix any drift in BOTH directions": once Apple and the clients are       *)
(* quiet, every account that stores an id has the tier Apple gives it, or   *)
(* one that a newer purchase granted.                                       *)
InSync(u) ==
    LET o == users[u].otid IN
    o # None => \/ users[u].tier = AppleTier(o)
                \/ AppleTier(o) = "free" /\ NewerGrant(u, o, users[u].tier, lapsed[o])

DriftFixed == <>[](\A u \in Users : InSync(u))

(* One subscription pays for one account and its id is stored on one.       *)
PaidOnce == TypeOK /\ HeldOnce /\ OnePaidAccount

(* Neither a transaction a merge left behind nor a lapse of an older one     *)
(* changes the plan an account has.                                         *)
PlansKept == ConflictKeepsPlan /\ SweepKeepsNewerPurchase
=============================================================================

------------------------------ MODULE Outreach ------------------------------
(***************************************************************************)
(* What GhostPour sends out on its own: the welcome letter and its durable  *)
(* queue, the mail provider's webhook and the suppression list, pushes to   *)
(* registered phones, offer codes handed out of a pool, promo campaigns     *)
(* resolved on launch, and the exchange of Apple Ads attribution tokens.    *)
(*                                                                         *)
(* The parts share no table but the accounts; each has its own variables    *)
(* and its own next-state relation, so that a run can take them one at a    *)
(* time.  A restart kills the loop or the handler that is in the middle of  *)
(* something; what is committed stays.                                      *)
(***************************************************************************)
EXTENDS Integers, Sequences, FiniteSets

CONSTANTS
    People,      \* accounts
    Devices,     \* phones
    AdDevices,   \* phones that report an attribution token
    Codes,       \* offer codes of one pool
    Resolvers,   \* promo resolves that may overlap
    Campaigns,   \* active campaigns: [id, priority, placements, cap, again, needs]
    Features,    \* features a gate can be about
    Mails,       \* the provider's webhook messages: [id, to, kind]
    MaxAttempts, \* welcome_email.MAX_ATTEMPTS
    MaxTokens,   \* device_tokens.MAX_TOKENS_PER_USER
    MaxShown,    \* bound: impressions counted per campaign
    MaxRestarts, \* bound: restarts in a behaviour
    Horizon,     \* bound: the clock of the attribution sweep
    Ttl,         \* apple_ads_attribution.TOKEN_TTL_HOURS, in ticks
    StalePending,\* apple_ads_attribution.STALE_PENDING_SECONDS, in ticks
    Null

Statuses == {"pending", "no_token", "expired", "error", "organic", "attributed"}
AdRow == [status : Statuses, token : {0, 1}, created : Nat, attempt : Nat \cup {Null}]
Presented == [count : Nat, converted : BOOLEAN]

ASSUME OutreachAssumption ==
    /\ MaxAttempts \in Nat \ {0} /\ MaxTokens \in Nat \ {0}
    /\ MaxShown \in Nat /\ MaxRestarts \in Nat /\ Horizon \in Nat
    /\ StalePending \in 1 .. Ttl /\ Ttl \in Nat
    /\ IsFiniteSet(Devices)
    /\ \A m \in Mails : m.to \in People /\ m.kind \in {"hard", "soft", "complaint"}
    /\ \A m, n \in Mails : m.id = n.id => m = n
    /\ Null \notin People \cup Devices \cup AdDevices \cup Codes \cup Statuses
    /\ Null \notin Mails \cup Campaigns /\ Null \notin Nat
    /\ Null \notin AdRow /\ Null \notin Presented

VARIABLES
    account,    \* [People -> BOOLEAN]: the users row exists
    intent,     \* enqueues that have read the account and not inserted yet
    queue,      \* welcome_email_queue: attempts so far, or Null
    sentAt,     \* users.welcome_email_sent_at is set
    sweep,      \* the letter loop: rows it selected and where it is
    suppressed, \* email_suppression
    optedIn,    \* users.marketing_opt_in
    events,     \* email_events: ids recorded
    hook,       \* the webhook handler: the message and where it is
    acked,      \* messages the provider has had a 200 for
    letters,    \* history: letters that left, per person
    restarts,   \* restarts so far
    mailSlip    \* history: the restarts and races that really happened

mailVars == <<account, intent, queue, sentAt, sweep, suppressed, optedIn, events, hook, acked, letters,
              restarts, mailSlip>>

VARIABLES
    phones,     \* device_tokens: device -> owner, environment, rank by last_seen_at; or Null
    push,       \* the push in flight: the person and the rows it read
    built,      \* generations: none, done or acked, per person
    pushed,     \* history: <<person, device>> delivered by the current or last push
    hands,      \* history: who signed in last on each phone, and has not signed out
    pushSlip    \* history: phones that changed hands under the push in flight

pushVars == <<phones, push, built, pushed, hands, pushSlip>>

VARIABLES
    pool,       \* offer_code_pool: code -> Null when available, else whose
    resolver,   \* dispense in progress
    given,      \* history: <<code, person>> handed out
    overlapped  \* history: people with two resolves in flight at once

offerVars == <<pool, resolver, given, overlapped>>

VARIABLES
    shown,      \* promo_presentations: [count, converted], or Null
    served,     \* history: the question resolve has just answered, and the answer
    converts,   \* history: campaigns a convert was accepted for
    early       \* history: campaigns whose convert came before any impression

promoVars == <<shown, served, converts, early>>

VARIABLES
    clock,      \* time
    ad,         \* ad_attribution: device -> [status, token, created, attempt], or Null
    exchange,   \* the sweep: the rows it selected and the one it is asking about
    report,     \* a report of a token: the status it read
    answered,   \* history: when Apple last answered for a device's row
    alarm,      \* history: the last stalled-sweep incident of this tick
    rearmed     \* history: devices whose row was re-armed under its old age

adVars == <<clock, ad, exchange, report, answered, alarm, rearmed>>

outreachVars == <<mailVars, pushVars, offerVars, promoVars, adVars>>
----------------------------------------------------------------------------
(* The welcome letter.                                                      *)

NoSweep == [pc |-> "idle", due |-> {}, who |-> Null, sent |-> FALSE, ok |-> FALSE]
NoHook  == [pc |-> "idle", mail |-> Null]

(* welcome_email.enqueue, for a first paid event that is no gift: the         *)
(* account is read, the row inserted afterwards.                             *)
enqueue(p) ==
    /\ account[p] /\ ~sentAt[p] /\ p \notin intent
    /\ intent' = intent \cup {p}
    /\ UNCHANGED <<account, queue, sentAt, sweep, suppressed, optedIn, events, hook, acked,
                   letters, restarts, mailSlip>>

EnqueueInsert(p) ==
    /\ p \in intent
    /\ intent' = intent \ {p}
    /\ queue' = [queue EXCEPT ![p] = IF @ = Null THEN 0 ELSE @]     \* INSERT OR IGNORE
    /\ UNCHANGED <<account, sentAt, sweep, suppressed, optedIn, events, hook, acked, letters,
                   restarts, mailSlip>>

(* Faulty variant: the queue is read without its accounts.                   *)
DueUnjoined == {p \in People : queue[p] # Null}

(* welcome_email_queue q JOIN users u                                        *)
due_rows == {p \in People : queue[p] # Null /\ account[p]}

(* welcome_email.sweep_once: the due rows, joined with their accounts.       *)
SweepSelect ==
    /\ sweep.pc = "idle"
    /\ \E D \in SUBSET due_rows :
         /\ D # {}
         /\ sweep' = [NoSweep EXCEPT !.pc = "next", !.due = {<<p, sentAt[p], queue[p]>> : p \in D}]
    /\ UNCHANGED <<account, intent, queue, sentAt, suppressed, optedIn, events, hook, acked, letters,
                   restarts, mailSlip>>

Rest(r) == IF sweep.due \ {r} = {} THEN NoSweep
           ELSE [NoSweep EXCEPT !.pc = "next", !.due = sweep.due \ {r}]

(* A row whose letter had gone out already is dropped unsent.                *)
SweepDrop ==
    /\ sweep.pc = "next"
    /\ \E r \in sweep.due :
         /\ r[2]
         /\ queue' = [queue EXCEPT ![r[1]] = Null]
         /\ sweep' = Rest(r)
    /\ UNCHANGED <<account, intent, sentAt, suppressed, optedIn, events, hook, acked, letters,
                   restarts, mailSlip>>

(* email_send.send_email: the suppression list first, then the provider.     *)
send_email(p, outcome) == IF p \in suppressed THEN "suppressed" ELSE outcome

SweepSend ==
    /\ sweep.pc = "next"
    /\ \E r \in sweep.due, outcome \in {"sent", "failed"} :
         LET p == r[1]
             result == send_email(p, outcome)
         IN  /\ ~r[2]
             /\ letters' = [letters EXCEPT ![p] = IF result = "sent" THEN @ + 1 ELSE @]
             /\ sweep' = [sweep EXCEPT !.pc = "record", !.who = r,
                                       !.sent = (result = "sent"),
                                       !.ok = (result \in {"sent", "suppressed"})]
             /\ mailSlip' = [mailSlip EXCEPT
                   !.late = IF result = "sent" /\ ~account[p] THEN @ \cup {p} ELSE @]
    /\ UNCHANGED <<account, intent, queue, sentAt, suppressed, optedIn, events, hook, acked, restarts>>

spent_up(n) == n + 1 >= MaxAttempts

(* The outcome is recorded: sent or suppressed is final, a failure counts     *)
(* towards MAX_ATTEMPTS.                                                     *)
SweepRecord ==
    LET r == sweep.who
        p == r[1]
    IN  /\ sweep.pc = "record"
        /\ IF sweep.ok
           THEN /\ sentAt' = [sentAt EXCEPT ![p] = account[p] \/ @]
                /\ queue' = [queue EXCEPT ![p] = Null]
           ELSE /\ queue' = [queue EXCEPT ![p] = IF spent_up(r[3]) \/ @ = Null THEN Null ELSE r[3] + 1]
                /\ UNCHANGED sentAt
        /\ sweep' = Rest(r)
        /\ UNCHANGED <<account, intent, suppressed, optedIn, events, hook, acked, letters,
                       restarts, mailSlip>>

(* The deletion of the last app removes the account and its queue row.       *)
DeletePerson(p) ==
    /\ account[p]
    /\ account' = [account EXCEPT ![p] = FALSE]
    /\ queue' = [queue EXCEPT ![p] = Null]
    /\ sentAt' = [sentAt EXCEPT ![p] = FALSE]
    /\ optedIn' = [optedIn EXCEPT ![p] = FALSE]
    /\ mailSlip' = [mailSlip EXCEPT !.underSweep =
          IF \E r \in sweep.due : r[1] = p THEN @ \cup {p} ELSE @]
    /\ UNCHANGED <<intent, sweep, suppressed, events, hook, acked, letters, restarts>>

(* preferences.update_marketing_opt_in and the link of a marketing mail:     *)
(* set_marketing_opt_in, a no-op for a missing row or an unchanged value.     *)
set_marketing_opt_in(p, value) ==
    /\ account[p] /\ optedIn[p] # value
    /\ optedIn' = [optedIn EXCEPT ![p] = value]
    /\ UNCHANGED <<account, intent, queue, sentAt, sweep, suppressed, events, hook, acked, letters,
                   restarts, mailSlip>>

(* resend_webhooks.receive_resend_webhook: an event already recorded is      *)
(* acknowledged and skipped; a new one is recorded, and committed, first.     *)
receive_resend_webhook(m) ==
    /\ hook.pc = "idle" /\ m \notin acked
    /\ IF m.id \in events
       THEN /\ acked' = acked \cup {m}
            /\ UNCHANGED <<events, hook>>
       ELSE /\ events' = events \cup {m.id}
            /\ hook' = [pc |-> "suppress", mail |-> m]
            /\ UNCHANGED acked
    /\ UNCHANGED <<account, intent, queue, sentAt, sweep, suppressed, optedIn, letters, restarts,
                   mailSlip>>

(* Faulty variant: every bounce bars the address, a full mailbox included.   *)
BarsEveryBounce(m) == m.kind \in {"hard", "soft", "complaint"}

(* A hard bounce or a complaint bars the address for good.                   *)
bars(m) == m.kind \in {"hard", "complaint"}

HookSuppress ==
    LET m == hook.mail
    IN  /\ hook.pc = "suppress"
        /\ suppressed' = IF bars(m) THEN suppressed \cup {m.to} ELSE suppressed
        /\ IF m.kind = "complaint"
           THEN hook' = [hook EXCEPT !.pc = "optout"] /\ UNCHANGED acked
           ELSE hook' = NoHook /\ acked' = acked \cup {m}
        /\ UNCHANGED <<account, intent, queue, sentAt, sweep, optedIn, events, letters, restarts,
                       mailSlip>>

(* marketing_opt_in.opt_out_by_recipient                                     *)
HookOptOut ==
    /\ hook.pc = "optout"
    /\ optedIn' = [optedIn EXCEPT ![hook.mail.to] = FALSE]
    /\ hook' = NoHook
    /\ acked' = acked \cup {hook.mail}
    /\ UNCHANGED <<account, intent, queue, sentAt, sweep, suppressed, events, letters, restarts,
                   mailSlip>>

(* A deploy or a crash: the loop and the handler stop where they are.        *)
RestartMail ==
    /\ restarts < MaxRestarts
    /\ sweep.pc # "idle" \/ hook.pc # "idle"
    /\ restarts' = restarts + 1
    /\ mailSlip' = [mailSlip EXCEPT
         !.resent = IF sweep.pc = "record" /\ sweep.sent THEN @ \cup {sweep.who[1]} ELSE @,
         !.dropped = IF hook.pc # "idle" THEN @ \cup {hook.mail.id} ELSE @]
    /\ sweep' = NoSweep /\ hook' = NoHook
    /\ UNCHANGED <<account, intent, queue, sentAt, suppressed, optedIn, events, acked, letters>>

MailInit ==
    /\ account = [p \in People |-> TRUE] /\ intent = {} /\ queue = [p \in People |-> Null]
    /\ sentAt = [p \in People |-> FALSE] /\ sweep = NoSweep /\ suppressed = {}
    /\ optedIn = [p \in People |-> FALSE] /\ events = {} /\ hook = NoHook /\ acked = {}
    /\ letters = [p \in People |-> 0] /\ restarts = 0
    /\ mailSlip = [resent |-> {}, dropped |-> {}, underSweep |-> {}, late |-> {}]

Sweeping == SweepSelect \/ SweepDrop \/ SweepSend \/ SweepRecord

LetterNext ==
    \/ \E p \in People : enqueue(p) \/ EnqueueInsert(p)
    \/ Sweeping
    \/ RestartMail

HookNext ==
    \/ \E p \in People, v \in BOOLEAN : set_marketing_opt_in(p, v)
    \/ \E m \in Mails : receive_resend_webhook(m)
    \/ HookSuppress \/ HookOptOut

MailNext == LetterNext \/ HookNext \/ \E p \in People : DeletePerson(p)
----------------------------------------------------------------------------
(* Pushes.                                                                  *)

NoPush == [who |-> Null, rows |-> {}]
Envs == {"production", "sandbox"}
Other(env) == IF env = "production" THEN "sandbox" ELSE "production"
Owned(p) == {d \in Devices : phones[d] # Null /\ phones[d].who = p}

(* Faulty variant: a phone that is known keeps the owner it was known under. *)
KeepOwner(p, d, env) ==
    IF phones[d] = Null THEN [who |-> p, env |-> env, seen |-> 0]
    ELSE [phones[d] EXCEPT !.env = env]

(* ON CONFLICT(device_token) DO UPDATE SET user_id = excluded.user_id         *)
registered(p, d, env) == [who |-> p, env |-> env, seen |-> 0]

(* History: a phone changes hands.                                           *)
Holds(d, who) ==
    /\ hands' = [hands EXCEPT ![d] = who]
    /\ pushSlip' = IF who # push.who THEN pushSlip \cup {d} ELSE pushSlip

(* device_tokens.register: the row, then the owner's rows past the cap go,    *)
(* the longest unseen first.  seen is the rank by last_seen_at, 0 the latest. *)
register(p, d, env) ==
    LET rows == [phones EXCEPT ![d] = registered(p, d, env)]
        mine == {e \in Devices \ {d} : rows[e] # Null /\ rows[e].who = p}
        rank(e) == Cardinality({f \in mine : rows[f].seen <= rows[e].seen})
    IN  /\ phones' = [e \in Devices |->
             IF e \notin mine THEN rows[e]
             ELSE IF rank(e) >= MaxTokens THEN Null
             ELSE [rows[e] EXCEPT !.seen = rank(e)]]
        /\ Holds(d, p)
        /\ UNCHANGED <<push, built, pushed>>

(* device_tokens.unregister, at sign-out.                                    *)
unregister(p, d) ==
    /\ d \in Owned(p)
    /\ phones' = [phones EXCEPT ![d] = Null]
    /\ Holds(d, Null)
    /\ UNCHANGED <<push, built, pushed>>

(* A file build finishes, or the phone acknowledges that it has the file.    *)
BuildDone(p) == built[p] = "none" /\ built' = [built EXCEPT ![p] = "done"]
                /\ UNCHANGED <<phones, push, pushed, hands, pushSlip>>
Acknowledge(p) == built[p] = "done" /\ built' = [built EXCEPT ![p] = "acked"]
                  /\ UNCHANGED <<phones, push, pushed, hands, pushSlip>>

(* apns.notify_generation_done: the row must be done and unacknowledged at    *)
(* send time; then every device row of the person.                           *)
notify_generation_done(p) ==
    /\ push.who = Null /\ built[p] = "done" /\ Owned(p) # {}
    /\ push' = [who |-> p, rows |-> {<<d, phones[d].env>> : d \in Owned(p)}]
    /\ pushed' = {} /\ pushSlip' = {}
    /\ UNCHANGED <<phones, built, hands>>

Pushed(r) == IF push.rows \ {r} = {} THEN NoPush ELSE [push EXCEPT !.rows = @ \ {r}]

(* apns.send_to_token: 410 retires the row, BadDeviceToken is tried once on   *)
(* the other host, which corrects the row's environment if it takes.         *)
send_to_token(r) ==
    LET d == r[1]
    IN  /\ r \in push.rows
        /\ \/ /\ pushed' = pushed \cup {<<push.who, d>>}
              /\ UNCHANGED phones
           \/ /\ pushed' = pushed \cup {<<push.who, d>>}
              /\ phones' = [phones EXCEPT ![d] = IF @ = Null THEN Null
                                                 ELSE [@ EXCEPT !.env = Other(r[2])]]
           \/ phones' = [phones EXCEPT ![d] = Null] /\ UNCHANGED pushed
           \/ UNCHANGED <<phones, pushed>>
        /\ push' = Pushed(r)
        /\ UNCHANGED <<built, hands, pushSlip>>

PushInit ==
    /\ phones = [d \in Devices |-> Null] /\ push = NoPush
    /\ built = [p \in People |-> "none"] /\ pushed = {}
    /\ hands = [d \in Devices |-> Null] /\ pushSlip = {}

PushNext ==
    \/ \E p \in People, d \in Devices : unregister(p, d) \/ \E e \in Envs : register(p, d, e)
    \/ \E p \in People : BuildDone(p) \/ Acknowledge(p) \/ notify_generation_done(p)
    \/ \E r \in push.rows : send_to_token(r)
----------------------------------------------------------------------------
(* Offer codes: offer_dispense.dispense.                                    *)

NoResolve == [pc |-> "idle", who |-> Null, code |-> Null]
Mine(p) == {c \in Codes : pool[c] = p}
Resolving(p) == \E q \in Resolvers : resolver[q].who = p

(* An actor that already has a code gets the same one back.                  *)
DispenseAgain(q, p) ==
    /\ resolver[q].pc = "idle" /\ Mine(p) # {}
    /\ \E c \in Mine(p) : given' = given \cup {<<c, p>>}
    /\ UNCHANGED <<pool, resolver, overlapped>>

dispense(q, p) ==
    /\ resolver[q].pc = "idle" /\ Mine(p) = {}
    /\ resolver' = [resolver EXCEPT ![q] = [pc |-> "pick", who |-> p, code |-> Null]]
    /\ overlapped' = IF Resolving(p) THEN overlapped \cup {p} ELSE overlapped
    /\ UNCHANGED <<pool, given>>

(* The first available code, or none left.                                   *)
DispensePick(q) ==
    /\ resolver[q].pc = "pick"
    /\ IF \E c \in Codes : pool[c] = Null
       THEN \E c \in Codes : /\ pool[c] = Null
                             /\ resolver' = [resolver EXCEPT ![q].pc = "take", ![q].code = c]
       ELSE resolver' = [resolver EXCEPT ![q] = NoResolve]
    /\ UNCHANGED <<pool, given, overlapped>>

(* Faulty variant: UPDATE without AND status = 'available'.                  *)
TakeAny(c) == TRUE

(* UPDATE ... WHERE code = ? AND status = 'available'                        *)
takes(c) == pool[c] = Null

DispenseTake(q) ==
    LET c == resolver[q].code
        p == resolver[q].who
    IN  /\ resolver[q].pc = "take"
        /\ IF takes(c)
           THEN /\ pool' = [pool EXCEPT ![c] = p]
                /\ given' = given \cup {<<c, p>>}
                /\ resolver' = [resolver EXCEPT ![q] = NoResolve]
           ELSE /\ resolver' = [resolver EXCEPT ![q].pc = "pick"]
                /\ UNCHANGED <<pool, given>>
        /\ UNCHANGED overlapped

OfferInit ==
    /\ pool = [c \in Codes |-> Null] /\ resolver = [q \in Resolvers |-> NoResolve]
    /\ given = {} /\ overlapped = {}

OfferNext ==
    \E q \in Resolvers :
       \/ \E p \in People : DispenseAgain(q, p) \/ dispense(q, p)
       \/ DispensePick(q)
       \/ DispenseTake(q)
----------------------------------------------------------------------------
(* Promo campaigns: what a device is shown, and when.                       *)

Moments == {"launch", "feature_locked"}
NoAnswer == [asked |-> Null, got |-> Null, after |-> {}]

(* A question: the moment and the gate, if the client names them, and what    *)
(* is known of the device.                                                    *)
Questions == [placement : Moments \cup {Null}, feature : Features \cup {Null},
              signedIn : BOOLEAN, profile : BOOLEAN, audience : BOOLEAN]

(* The entries of a campaign that want this moment.  A client that names no   *)
(* moment draws a launch card, so it asks for one.                            *)
placement_entries(c, q) ==
    IF q.placement = Null THEN {e \in c.placements : e.placement = "launch"}
    ELSE {e \in c.placements : e.placement = q.placement /\ e.feature \in {Null, q.feature}}

wants(c, q) == c.placements = {} \/ placement_entries(c, q) # {}

_placement_priority(c, q) ==
    LET own(e) == IF e.priority = Null THEN c.priority ELSE e.priority
        ranks == {own(e) : e \in placement_entries(c, q)}
    IN  IF c.placements = {} THEN c.priority
        ELSE CHOOSE n \in ranks : \A r \in ranks : r <= n

(* A rule that cannot be verified does not match; a campaign aimed at a place *)
(* is withheld while too few devices have been seen there.                    *)
_targeting_matches(c, q) ==
    /\ "signedIn" \in c.needs => q.signedIn
    /\ "signedOut" \in c.needs => ~q.signedIn
    /\ "profile" \in c.needs => q.profile
    /\ "geo" \in c.needs => q.profile /\ q.audience
    /\ "version" \in c.needs => q.profile

(* Impressions up to the cap; never again after a convert, unless asked for.  *)
may_present(c) ==
    \/ shown[c.id] = Null
    \/ /\ shown[c.id].converted => c.again
       /\ c.cap # Null => shown[c.id].count < c.cap

(* promo.resolve_promo                                                        *)
resolve_promo(q) ==
    LET fit == {c \in Campaigns : wants(c, q) /\ _targeting_matches(c, q) /\ may_present(c)}
        top == {c \in fit : \A o \in fit : _placement_priority(o, q) <= _placement_priority(c, q)}
    IN  /\ IF fit = {} THEN served' = NoAnswer
           ELSE \E c \in top : served' = [asked |-> q, got |-> c, after |-> converts \ early]
        /\ UNCHANGED <<shown, converts, early>>

(* Faulty variant: the impression is stored with INSERT OR REPLACE.           *)
ImpressionReplaces(row) ==
    [count |-> IF row = Null THEN 1 ELSE row.count + 1, converted |-> FALSE]

(* INSERT ... ON CONFLICT DO UPDATE SET shown_count = shown_count + 1         *)
impression(row) ==
    IF row = Null THEN [count |-> 1, converted |-> FALSE] ELSE [row EXCEPT !.count = @ + 1]

(* promo.ingest_promo_event: anything but an impression is an UPDATE, which   *)
(* finds no row before the first impression.                                  *)
ingest_promo_event(c, kind) ==
    LET row == shown[c.id]
    IN  /\ kind = "impression" => (row # Null => row.count < MaxShown)
        /\ shown' = [shown EXCEPT ![c.id] =
              IF kind = "impression" THEN impression(@)
              ELSE IF kind = "convert" /\ @ # Null THEN [@ EXCEPT !.converted = TRUE]
              ELSE @]
        /\ converts' = IF kind = "convert" THEN converts \cup {c.id} ELSE converts
        /\ early' = IF kind = "convert" THEN (IF row = Null THEN early \cup {c.id} ELSE early \ {c.id})
                    ELSE early
        /\ served' = NoAnswer

PromoInit ==
    /\ shown = [i \in {c.id : c \in Campaigns} |-> Null]
    /\ served = NoAnswer /\ converts = {} /\ early = {}

PromoNext ==
    \/ \E q \in Questions : resolve_promo(q)
    \/ \E c \in Campaigns, k \in {"impression", "dismiss", "click", "convert"} : ingest_promo_event(c, k)
----------------------------------------------------------------------------
(* Apple Ads attribution.                                                   *)

NoExchange == [pc |-> "idle", rows |-> {}, row |-> Null]
NoReport   == [pc |-> "idle", device |-> Null, token |-> 0, status |-> Null]
Settled(row) == row # Null /\ row.status \in {"attributed", "organic"}
Old(t) == t < clock - StalePending

(* acquisition.report_attribution: the row's status is read first.  Token 0   *)
(* is the link form, which carries none.                                      *)
report_attribution(d, t) ==
    /\ report.pc = "idle"
    /\ report' = [pc |-> "write", device |-> d, token |-> t,
                  status |-> IF ad[d] = Null THEN Null ELSE ad[d].status]
    /\ UNCHANGED <<clock, ad, exchange, answered, alarm, rearmed>>

(* Faulty variant: any row is armed again.                                    *)
RearmAlways(status) == TRUE

(* A completed exchange is not armed again.                                   *)
rearms(status) == status \notin {"attributed", "organic"}

(* unattended_pending: a row that old whose stamp is missing or old.          *)
unattended_pending(rows) ==
    {d \in AdDevices : /\ rows[d] # Null
                       /\ rows[d].status = "pending" /\ rows[d].token # 0 /\ Old(rows[d].created)
                       /\ rows[d].attempt # Null => Old(rows[d].attempt)}

(* The row is inserted or armed, and the sweep's liveness checked.            *)
ReportWrite ==
    LET d == report.device
        t == report.token
        fresh == [status |-> IF t = 0 THEN "no_token" ELSE "pending", token |-> t,
                  created |-> clock, attempt |-> Null]
        rows == [ad EXCEPT ![d] = IF report.status = Null THEN (IF @ = Null THEN fresh ELSE @)
                                  ELSE IF t # 0 /\ rearms(report.status)
                                  THEN [@ EXCEPT !.token = t, !.status = "pending"] ELSE @]
        stuck == unattended_pending(rows)
    IN  /\ report.pc = "write"
        /\ ad' = rows
        /\ rearmed' = IF ad[d] # Null /\ ad[d].status # "pending" /\ rows[d].status = "pending"
                      THEN rearmed \cup {d} ELSE rearmed
        /\ IF stuck = {} THEN UNCHANGED alarm
           ELSE \E s \in stuck :
                  /\ \A o \in stuck : rows[s].created <= rows[o].created
                  /\ alarm' = [device |-> s, at |-> clock, last |-> answered[s], odd |-> s \in rearmed']
        /\ report' = NoReport
        /\ UNCHANGED <<clock, exchange, answered>>

(* apple_ads_attribution.sweep_pending: rows past their TTL expire, in a      *)
(* transaction of their own; the others are selected.                         *)
SweepExpire ==
    /\ exchange.pc = "idle"
    /\ ad' = [d \in AdDevices |->
          IF ad[d] # Null /\ ad[d].status = "pending" /\ ad[d].created < clock - Ttl
          THEN [ad[d] EXCEPT !.status = "expired", !.token = 0] ELSE ad[d]]
    /\ exchange' = [NoExchange EXCEPT !.pc = "select"]
    /\ UNCHANGED <<clock, report, answered, alarm, rearmed>>

sweep_pending ==
    LET due == {d \in AdDevices : ad[d] # Null /\ ad[d].status = "pending" /\ ad[d].token # 0}
    IN  /\ exchange.pc = "select"
        /\ exchange' = IF due = {} THEN NoExchange ELSE [pc |-> "next", rows |-> due, row |-> Null]
        /\ UNCHANGED <<clock, ad, report, answered, alarm, rearmed>>

AskApple ==
    /\ exchange.pc = "next"
    /\ \E d \in exchange.rows : exchange' = [exchange EXCEPT !.pc = "wait", !.row = d]
    /\ UNCHANGED <<clock, ad, report, answered, alarm, rearmed>>

(* Faulty variant: a retry leaves no footprint.                               *)
StampNothing(row) == row

(* apple_ads_attribution._stamp_attempt                                       *)
_stamp_attempt(row) == [row EXCEPT !.attempt = clock]

(* apple_ads_attribution.exchange_row: the outcome is written by row id; a    *)
(* connection that fails writes nothing.                                      *)
exchange_row(outcome) ==
    LET d == exchange.row
        rest == exchange.rows \ {d}
    IN  /\ exchange.pc = "wait"
        /\ ad' = [ad EXCEPT ![d] =
              IF outcome = "unreachable" THEN @
              ELSE IF outcome = "pending" THEN _stamp_attempt(@)
              ELSE [@ EXCEPT !.status = outcome, !.token = 0]]
        /\ answered' = IF outcome = "unreachable" THEN answered ELSE [answered EXCEPT ![d] = clock]
        /\ exchange' = IF rest = {} THEN NoExchange ELSE [pc |-> "next", rows |-> rest, row |-> Null]
        /\ UNCHANGED <<clock, report, alarm, rearmed>>

(* Time passes, but not while Apple is being asked: the call times out after  *)
(* fifteen seconds, far below any window here.                                *)
AdTick ==
    /\ clock < Horizon /\ exchange.pc # "wait" /\ report.pc = "idle"
    /\ clock' = clock + 1
    /\ alarm' = Null
    /\ UNCHANGED <<ad, exchange, report, answered, rearmed>>

AdInit ==
    /\ clock = 0 /\ ad = [d \in AdDevices |-> Null] /\ exchange = NoExchange /\ report = NoReport
    /\ answered = [d \in AdDevices |-> Null] /\ alarm = Null /\ rearmed = {}

AdNext ==
    \/ \E d \in AdDevices, t \in {0, 1} : report_attribution(d, t)
    \/ ReportWrite \/ SweepExpire \/ sweep_pending \/ AskApple \/ AdTick
    \/ \E o \in {"unreachable", "pending", "error", "organic", "attributed"} : exchange_row(o)
----------------------------------------------------------------------------
OutreachInit == MailInit /\ PushInit /\ OfferInit /\ PromoInit /\ AdInit

OutreachTypeOK ==
    /\ account \in [People -> BOOLEAN] /\ intent \subseteq People
    /\ queue \in [People -> 0 .. MaxAttempts - 1 \cup {Null}]
    /\ sentAt \in [People -> BOOLEAN] /\ suppressed \subseteq People
    /\ acked \subseteq Mails /\ events \subseteq {m.id : m \in Mails}
    /\ \A d \in Devices : phones[d] # Null =>
          phones[d] \in [who : People, env : Envs, seen : 0 .. MaxTokens - 1]
    /\ pool \in [Codes -> People \cup {Null}] /\ clock \in 0 .. Horizon
    /\ \A d \in AdDevices : ad[d] # Null => ad[d].status \in Statuses /\ (ad[d].token # 0 <=> ad[d].status = "pending")
----------------------------------------------------------------------------
(* One welcome letter per person, and none to an account that was gone when   *)
(* the queue was read: a letter goes out twice only when a restart fell       *)
(* between the send and its record, and to a deleted account only when the    *)
(* deletion came after the sweep had read its rows.                           *)
LetterAsOwed ==
    /\ \A p \in People : letters[p] > 1 => p \in mailSlip.resent
    /\ mailSlip.late \subseteq mailSlip.underSweep

(* A hard bounce or a complaint that was acknowledged to the provider bars    *)
(* its address (the provider will not repeat it), unless a restart fell       *)
(* between recording the event and acting on it; and nothing else bars one.   *)
ComplaintSticks ==
    /\ \A m \in acked : m.kind \in {"hard", "complaint"} /\ m.id \notin mailSlip.dropped
                         => m.to \in suppressed
    /\ \A p \in suppressed : \E m \in Mails : m.to = p /\ m.kind # "soft" /\ m.id \in events

(* A push about one person's file reaches the phone that person last signed   *)
(* in on; another's only when it changed hands after the rows were read.      *)
PushToOwner ==
    [][\A x \in pushed' \ pushed : hands[x[2]] = x[1] \/ x[2] \in pushSlip]_pushVars

(* No offer code is handed to two people, and a person is handed two codes    *)
(* only by resolves that overlapped.                                          *)
CodeOnce ==
    \A g, h \in given :
        /\ g[1] = h[1] => g[2] = h[2]
        /\ g[2] = h[2] /\ g[2] \notin overlapped => g[1] = h[1]

(* A device that converted on a campaign is not shown it again unless the     *)
(* campaign allows it, however impressions and converts interleave; only a    *)
(* convert that overtook its first impression is forgotten.  And a gate's     *)
(* copy is shown only at that gate.                                           *)
ConvertedStaysAway ==
    served.got # Null =>
        /\ served.got.id \in served.after => served.got.again
        /\ served.got.placements # {} =>
              \E e \in served.got.placements :
                 /\ e.placement = IF served.asked.placement = Null THEN "launch" ELSE served.asked.placement
                 /\ served.asked.placement # Null /\ e.feature # Null => e.feature = served.asked.feature

(* A completed exchange is never overwritten by a later token, unless the     *)
(* report had read the row before it completed.                               *)
ExchangeKept ==
    [][\A d \in AdDevices :
         Settled(ad[d]) /\ ad'[d] # ad[d] =>
            report.device = d /\ ~Settled([status |-> report.status])]_adVars

(* The stalled-sweep incident is about a token Apple has not answered for     *)
(* within the window, whatever else is waiting or succeeding; except for a    *)
(* row that was armed again and kept the age of its first report.             *)
StallIsReal ==
    alarm # Null =>
        alarm.odd \/ alarm.last = Null \/ alarm.at - alarm.last > StalePending

(* What is sent to people is owed to them: letters, codes and campaigns, and  *)
(* the one alarm about what Apple owes us.                                    *)
OutreachKept ==
    OutreachTypeOK /\ LetterAsOwed /\ ComplaintSticks /\ CodeOnce /\ ConvertedStaysAway /\ StallIsReal

(* No step pushes to another's phone or overwrites an answer of Apple.        *)
OutreachSteps == PushToOwner /\ ExchangeKept
=============================================================================

# A TLA+ model of GhostPour

GhostPour is the gateway between a family of iOS apps and the model providers
they use. It signs people in, decides which subscription tier an account is on,
meters what each account spends, gates and routes model calls, and runs a set
of daemons beside the request handlers. It is one FastAPI process over one
SQLite database: every request has its own connection, a statement becomes
visible when its connection commits, and any other handler may run at each
`await`. Almost everything that can go wrong here is an interleaving of
handlers on one row, a notification from Apple that is late, repeated or lost,
or a failure between two commits, and that is what these modules describe.

Source paths below are relative to `src/`.

## The parts of the system

| Part | State it keeps | Operations | Hard because |
|---|---|---|---|
| Account meter (`usage_tracker`, `budget_gate`, `allowance`, `allocation_reset*`, `pricing`) | `users.monthly_used_usd`, `users.allocation_resets_at`, the pricing table | `check_quota`, the budget gates of chat, reports and translations, `record_cost`, lazy reset, the reset daemon, same-tier renewal | usage is read long before it is judged and the cost is added after the call; several actors reset the same row |
| Reset calendar (`allocation_reset`) | a date per account | `compute_next_reset`, `roll_forward_past`, `period_start` | months have different lengths, months are missed |
| One-time unlocks (`unlocks`) | `purchases`, `account_links` | `record`, `revoke`, `find_user`, `_resolve_pending`, the merge | a pack and its upgrade arrive in any order from two senders; decisions are taken before the INSERT |
| Entitlement (`chat.verify_receipt`, `chat.sync_subscription`, `apple_webhooks`, `plan_moves`, `subscription_reconcile`, `subscriptions`, `webhooks.set_tier`) | plan columns of `users`, `subscription_status`, `subscription_events` | five writers of the same columns | every writer reads, awaits and writes; Apple's notices are unreliable; a plan move is several commits |
| Sessions, merge, deletion (`auth`, `jwt_service`, `dependencies`, `app_claim`, `anonymous_merge`, `account_deletion`, `retention`) | `users`, `refresh_tokens`, `user_apps`, `anonymous_spend_carry` | sign in, mint, convert, merge, refresh, delete per app, expire usage | every handler writes what it read earlier; spend must survive the rows it was summed from |
| Gates (`app_budget`, `anonymous_budget`, `tr_budget`, `rate_limiter`, `automation_cap`, `project_chat_policy`) | sums over `usage_log`, a sliding window, an hourly latch, the free taste | check before a call, log after it | check-then-act over an append-only log; boundaries of windows and days |
| File offers (`generation_offers`, `search_caps`, `document_generation`, the chat route) | offers in process memory, two counters | search gate, offer, reply, fast path, build, count | an offer is echoed twice, late, or beside another ask |
| Chat and generation turns (`chat_turns`, `generation_turns`, `generated_files`) | two in-flight maps, two tables | begin, replay, finish, sweep, acknowledge | client retries of a turn that is still running |
| Road to the provider (`provider_router`, `anthropic_or_fallback`, `providers`, `typesafe_judge`) | cached adapters, the judge's breaker | route, connect, stream, fall back, charge, log | a stream breaks after some of it is out; a breaker is shared by turns in flight |
| Interviewer (`n400_interviewer_guard`, `n400_sentence_stream`, `n400_evidence_support`) | the reply in hand, the sentences spoken | parse, guard, refuse and retry, judge evidence, release | guards rewrite in a fixed order while sentences are already spoken |
| Reports (`reports`, `transcript_cleanup`) | transcripts, reports, `report_jobs`, `_RUNNING` | capture, clean, build, poll | a job is known in two places; requests and jobs overlap |
| Translations | a cache | serve, gate, ask twice, charge, store | its own limit, its own retries |
| Shares (`meeting_shares`, `shares`) | rows and files | create, revoke, purge, card, player | a file and its row are two steps |
| ContextQuilt (`context_quilt`, its hook, `cq_proxy`, `memory_capture_*`, `woven_cache`) | tokens, cooldowns, strikes, the free quota, the digest cache | mint, recall, capture, proxy, refresh | two apps share a person; a slow or absent service |
| Alerting (`alerting`, `provider_health`, `cost_alerts`) | incidents, recipients | report, join, sweep, mail, resolve | reporters race; a busy database skips the sweep that serialises them |
| Remote configuration (`routers/config`, `config_stall`, the dashboard) | bundle, overlay, memory; a device's copy | hydrate, edit, serve, detect stalls | the version number stands for the document |
| Certificate pins | signed manifests, the last check | probe, compare, publish | seconds pass between read and verdict |
| Outreach (`welcome_email`, `email_*`, `device_tokens`, `apns`, `offer_dispense`, `promo`, `apple_ads_attribution`) | queues, suppressions, tokens, code pool, campaign rows | send, suppress, push, dispense, resolve, exchange | sent before recorded; read before sent |
| Start-up (`database.init_db`) | the schema, two fingerprints | converge, sweep, purge | a sweep that dies, is skipped, or is rolled back |
| Telemetry | raw rows, first sightings, daily figures | ping, purge, roll up | repeats, losses, figures recomputed from purged rows |
| App purchase ledger, documents, dashboards, other providers | see `PROJECT.json` | | one statement, or data transformation |

Interactions: the chat, report and translation routes call the meter; the meter
calls the calendar; `verify_receipt`, the webhook and the reconcile sweep write
the plan columns the meter's gates read, and set the meter to zero when a plan
begins; `anonymous_merge` moves plans, unlocks and sessions; the chat route
registers its turn, passes the gates, settles the offer, calls the provider,
records the cost and stores the turn, in that order. The daemons (reset sweep,
reconcile sweep, retention, letters, probes, pins, pricing) run beside the
request handlers in the same process.

## The modules

Each component is a module. Metering, Unlocks, Entitlement and Turns have an MC
module each; the others are gathered by neighbourhood into four MC modules:

| MC module | Modules |
|---|---|
| `MCChat` | Offers, Gates, Interview, Upstream |
| `MCAccounts` | Sessions, Outreach |
| `MCOperations` | ResetCalendar, Alerting, RemoteConfig, CertPins, Store (Startup, Telemetry) |
| `MCMeetings` | Shares, Meetings (with ReportJob), Translations, Memory, Digest |

The modules of one MC module share no variable. The variable `topic`, chosen in
the first state, says which of them runs, so that the state spaces add up
instead of multiplying; the others stay in one fixed initial state. A run then
checks the properties of each in one pass.

`PROJECT.json` maps every definition to the lines it models. The operators marked
*Faulty variant* are not part of the system: each is a plausible mistake in the
definition below it, kept to show that the property it breaks notices it.

### Metering

One account's row: `used` is `users.monthly_used_usd`, `resetsAt` is
`users.allocation_resets_at`. A request is a process with the locals of its
handler (`seen` is the usage its gate judges, `est` the estimate it was admitted
with, `snap`/`now` the locals of `lazy_reset_if_due`), and one action per step
between two awaits:

| Action | Code |
|---|---|
| `Begin` | the chat, report or translation route is entered; a translation has no `check_quota` |
| `ResetRead`, `ResetWrite` | `lazy_reset_if_due`: the SELECT, and the UPDATE that only matches the date that was read |
| `ReadUsed` | the meter read that ends `check_quota`; chat keeps the value, a report discards it |
| `Cleanup` | the report route's metered transcript cleanup, which precedes its gate |
| `Gate` | `monthly_used >= limit`, then `would_exceed_budget`; chat judges the value read before, the others read now |
| `Subcall`, `Answer` | metered sub-calls and the main call: `record_cost` adds in SQL |
| `Refuse`, `Finish` | another gate refuses, the provider fails, or the turn ends |
| `SweepSelect` and the reset actions of `Sweeper` | `allocation_reset_sweep` |
| `RenewSameTier` | the webhook's same-tier renewal |
| `LoadPricing`, `Tick` | prices become available while calls are in flight; time |

`RecordCost` may also do nothing: an unlimited tier, a pricing table that is not
loaded, and an UPDATE that stays locked through every retry all drop the cost.
Money is in whole units and a month is `Period` ticks; ResetCalendar covers what
that leaves out.

### ResetCalendar

Real month lengths, `relativedelta`'s cut to the last day, `compute_next_reset`,
`roll_forward_past` and `period_start`, for one account as days pass and reads
come on any day or not at all for months.

### Unlocks

The `purchases` table for one-time unlocks, `account_links`, and the handlers that write them.
`record()` is three visits to the database (`RecordSelect`, `RecordDecide`,
`RecordInsert` or `RecordMove`) and any other handler may run between them.
`Decide` and `Redecide` are `_decide` and the body of `_resolve_pending`, which
goes over the rows in `recorded_at` order (a recursive function of how many it has
done). `overlapped` is a history
variable: it says whether two handlers were ever in flight together.

### Entitlement

The plan columns of every account, the status rows, the grants of
`subscription_events` and the `plan_conflict` rows; five writers and the
operator, each a sequence of its commits (`VerifyHolders`, `VerifyDetach`,
`VerifyPlan`, `VerifyMove`, `VerifyRecords`, and so on), with the row read at
authentication kept in the handler's locals as the code keeps it. `Abort` ends a
handler between two commits. Apple is the environment: `Subscribe`, `Lapse`, and
a set of sent notices any of which may be delivered any number of times, in any
order, or never. `src` and `at` are history: which purchase is behind the tier.
The meter is two-valued (fresh, used up), which is all that `UsageTravels` tells
apart.

### Turns

One user's turn id and generation id, and the requests that carry them: the send
and its resends. `flight` and `gflight` are the two in-memory `_IN_FLIGHT` maps,
`chat` and `gen` the rows of `chat_turns` and `generations`. A request goes
through the idempotency block (`LookupTerminal`, then `Admit`: replay,
`turn_in_progress` or register), the gates (`Refuse` stands for every one of
them), the generation block (`GenerationLookup`, `GenerationAdmit`,
`RecordStart`), its transport and the turn (`RunTail`, `GenerationFinish`,
`Settle`, `Finish`). `finish` drops its map entry before its statement, so
`RunTail`/`Settle` and the row write are separate steps. What the code between
two awaits does is one step; every statement may also raise, which is an action
of its own (`LookupFails`, `FinishFails` and so on). `Release` is the route
wrapper `chat()`, part of every way out of the handler that it sees. `Age` is the
240 s valve, `Poll` the GET that applies it, `Restart` and `SweepLostToRestart`
the boot. `slip` and `gslip` are history: the first way in which two requests came
to run the same id.

### Offers

One account's sends in flight through the file-build part of the chat route.
`req` holds a handler's locals, `offers` is `_OFFERS`. A step runs from one await
to the next: the search gate (`search_kept` strips the flag past
the cap, `search_enabled` sets it again, behind the gate, for the interview
reference), the build cap, `take` of an echoed offer, the judging of the reply,
`fast_path`, the teaser, minting, the three lanes, and the counters once the
answer is there. A text is a member of `Asks`: the readings the code takes of it
(asks for a file, explicit, template, ambiguous, marker). What a classifier says
is a free choice.

### Gates

The checks between a request and the model, for one account of each kind, in the
order the route makes them: project-chat policy and its free taste, request
checks, rate window, test-account latch, then the cap of the app (by entitlement
with a tolerance, flat, or per application, install, network and day). The log is
kept as the sums the gates read of it (`spent`: over all, per application, per day)
and its number of rows. `LogUsage` adds the cost to them after the call, so calls in
flight are judged against the same sums.

### Interview

One turn. A reply is what the guards read of it: the field asked next, and for
each field whether the fact filed is right or what is wrong with it (unsaid,
wrong digits, misheard, day invented, outside the options, and so on). The four
refusals that ask the model again, the deterministic repairs, the judge that
restores a fact, the deferrals and the checkpoint follow in the code's order.
Meanwhile `heard`, `pending` and `buffered` are the sentence stream: what has been
spoken, what is held back, and why the rest is not released.

### Upstream

A model call from the router's adapter cache to its usage row: key scope,
the attempt at Anthropic with its retry, the decision to fall back, the alert, the
attempt through OpenRouter, chunks, wall clock, hang-up and settlement; `from` and
`heard` record which provider's text the caller received. Beside it the judge's
breaker: `fails`, `opened_at` and the turns that are waiting for an answer.

### Sessions

The users table, refresh tokens, memberships and access tokens, with handlers that
read in one step and write in another. Sign-in finds, converts, merges or creates;
`refresh_token`, `RefreshRevoke` and `build_auth_response` are separate steps; `refresh_scope` decides
which app a rotated session belongs to; deletion is per app or whole; retention
and deletion carry an anonymous install's spend (`carry_upsert`). History variables
record who entered which app by a sign-in, what an install really spent, what of
that left it with a converted account, and what was charged against the one bought
plan.

### Outreach

Five independent parts: the welcome letter's queue (enqueue, select, send, record,
give up) with restarts and deletions; the mail provider's webhook and the
suppression list; pushes to registered phones, which change hands; the code pool;
campaign resolution, impressions and events; and attribution rows, their exchange
and the alarm that says the exchange has stopped.

### Alerting

`report_incident` on several connections: the sweep that closes quiet incidents
takes the write lock; a sweep that fails on a busy database is passed over and the
report then reads without a lock (`report_unswept`, `write_unswept`). Mail is sent
after the commit and recorded after that. The reporters are the provider probe
(`_alert_decision` per answer) and the request paths.

### RemoteConfig

A document in the image, on disk and in memory, with two fields; hydration at boot,
dashboard edits, tunable fields, the matrix, deploys, tester rows and build pins; a
device that keeps one copy per name and asks with its version. `filled_from` and
`window` are the serve-time rendering: a copy called `tiers` or `tiers.<language>`
is filled from the English dial and the matrix, and the device remembers from which
(`filled`); a tester's, a pinned build's and another app's copies are not rendered. The stall rows are keyed by
app, document and presented version, as the table is; their write may fail
(`wrote`), and so may the look at the tester table (`read`). The histories `taken`,
`takenSince` and `unwritten` say what a device that cannot read was really given.

### CertPins

Chains that rotate, the manifests by version, the daemon's check from its read to
its commit (`publish_by_daemon`), its awaited report (`report_change`), which may
fail, and its entry in `_last_check`; ticks that end by any other exception
(`tick_fails`), the operator's publication in two steps, and the banner computed from
the last check. `told` of a manifest says whether its report is due, told or lost.

### Startup and Telemetry

`Startup` is `init_db`: what the file holds and what the boot's connection sees
are different until a commit, as SQLite's implicit transactions make them (a
schema statement commits itself until the first write opens a transaction).
Failing statements, crashes, redeploys, rollbacks, a restored replica and an
operator's drop come in between, and so does the deletion of an app with a call in
flight or a ping queued on the phone. Seven migrations stand for the list: an object
added and dropped again, the two backfills of `user_apps` (from the usage log and from
the pings), a unique index with its de-duplication, and a column with the statement
that fills it. What a call or a ping brought in after the deletion is `late`. The history `missed` follows the statements whose last try failed, and
`excused` keeps those of the sweep on record: only these may be wanting in a file
whose sweep is skipped.
`Telemetry` is the ping handler with the write lock its first INSERT takes, the
purge that absorbs first sightings, the daily figures, and the live view.
`Store` is the two on one file: `StoreSpec`, and `StoreKept` of both.

### Shares, Meetings, ReportJob, Translations, Memory, Digest

`Shares` keeps rows and files apart and lets every handler be interrupted between
the two; the volume may refuse any deletion, which each of the three deleters logs
and passes over. `Meetings` has the transcript's two texts, the report, the job's row and
its entry in memory; a poll reads the entry, then the row; the hourly sweep takes
transcripts and reports, table by table. `ReportJob` is the
abstract specification: what a poll is shown, that a job is told as failed only if
it stored nothing, that an old report is never shown as new, and that a report on
record goes only by the sweep;
`Meetings!ReportPromise` is `Promise!JobSpec` under the refinement mapping of
`Promise`. `Translations` is one route with
its two attempts, for accounts with and without a limit and apps with and without a
cap of their own; a charge lands, finds no price, or gives up on a locked database. `Memory` is
ContextQuilt as the code uses it: a set of writers per subject. `Digest` is the day
cache with its lock and its eviction order.

### The proofs

Eight modules extend the ones they prove about: `MeteringProofs` (Metering),
`ChatProofs` (Offers, Gates, Upstream, Interview), `MeetingsProofs` (Meetings against ReportJob,
Translations, Digest, Memory, Shares), `UnlocksProofs`, `TurnsProofs`, `OperationsProofs`
(CertPins, Alerting, ResetCalendar, RemoteConfig, Store), `AccountsProofs` (Sessions,
Outreach) and `EntitlementProofs`. Each component's part begins with the inductive invariant, as a
conjunction of named parts; see "What is proved".

## The runs

| Run | Instance | Shows |
|---|---|---|
| `metering_concurrent` | 2 requests, all routes, late prices, 1 renewal, limit 2, cost up to 2 per call, 1 sub-call, 3 ticks with a month of 2 | `OverspendBounded`, `ResetOncePerPeriod` |
| `metering_sequential` | 1 request, estimates that are upper bounds, 5 ticks | `WithinOverageBand`; `AllowanceRenewed` under fairness of the daemon |
| `unlocks_concurrent` | 2 handlers, a bundle and both upgrades, 2 accounts | `RowsKept`: decisions and refunds only advance whatever overlaps; without overlap `UnlocksSettled`, `UpgradeEarned` |
| `entitlement_serial` | 1 handler at a time, 2 subscriptions, 2 accounts, 4 requests, 3 changes by Apple | `PaidOnce` (one holder, one paid account), `UsageTravels`, `PlansKept` (conflicts, newer purchases) |
| `entitlement_drift` | all routes, one notice type per branch of the webhook, crashes, 3 requests | `DriftFixed` |
| `turns_concurrent` | 3 sends, one kind per way a turn ends | `TurnOnce`, `IdReleased`, `AnswerKept` |
| `turns_restarts` | 2 sends of every kind, 2 restarts | `RunningIsHonest`; `IdHeals` under fairness |
| `chat` | offers: 2 sends at once, 3 in all, caps of 1; gates: 5 kinds of account, 2 calls at once, 2 days; interview: 4 agendas, 2 things wrong at first, 1 in a retry; route: 3 calls, 2 chunks; judge: 3 turns, threshold 2 | `OffersHonoured`, `CountersBounded`, `GatesHold`, `InterviewHonest`, `SpokenStands`, `RoadKept`, `OutageBounded` |
| `accounts` | 2 handlers, 2 apps of which one strict, 1 Apple id, 1 install, 3 sessions; letters with a restart, 2 people, 2 phones, 2 codes, 2 campaigns | `SignInHolds`, `MoneyMoves`, `OutreachKept`, `OutreachSteps` |
| `operations` | 14 months over a leap day from 18 start days; 2 reporters; 2 edits and 3 versions, 4 edits, fetches and hours together; 2 hosts and 2 pins; 2 boots, 2 upsets; 2 recordings, 2 boots over 3 days | `CalendarHolds`, `ResetDateKept`, `MailedOncePerTrouble`, `ServedFaithfully`, `PinsHonest`, `StoreKept` |
| `meetings` | 2 shares and 2 handlers; 2 report requests, a job, a poll, 1 restart or lost write; 3 translations; 3 calls to memory by 2 apps; 4 digest reads over 3 days | `SharesKept`, `MeetingsHonest`, `ReportPromise`, `TranslationsPaid`, `MemoryKept`, `DigestKept` |
| `stream_fallback` | the route topic of `chat` | violation of `StreamedTextSent` |

Several properties are conjunctions of named parts, each with its own comment in
its module: `UnlocksSettled` (with the type invariant), `RowsKept`, `PaidOnce`,
`PlansKept`, `TurnOnce`, `OffersHonoured` (`DecisionRespected`, `AskCarried`),
`GatesHold` (`CapsHold`, `OncePerWindow`), `InterviewHonest` (`FiledAsSaid`,
`CheckpointHonest`), `RoadKept` (`KeyKept`, `OneRoad`, `PaidIsHeard`),
`SignInHolds` (`StrictLaneEntered`, `OneLivePerSignIn`), `MoneyMoves`
(`PlanMovesWithMeter`, `SpendSurvivesDelete`), `OutreachKept` (`LetterAsOwed`,
`ComplaintSticks`, `CodeOnce`, `ConvertedStaysAway`, `StallIsReal`),
`OutreachSteps` (`PushToOwner`, `ExchangeKept`), `MailedOncePerTrouble`
(`QuietBetween`, `OneOpen`), `CalendarHolds` (`WindowCoversMeter`),
`ResetDateKept` (`ResetsIntoThisMonth`, `DayKeptAcrossMissedCycles`), `StoreKept`
(`SkipCostsNothing`, `NewestUploadKept`, `DeletedAppStaysDeleted`,
`StopCountedOnce`, `FirstSeenKept`, `RollupExact`, `ShownIsGoingOn`), `SharesKept`
(`FilesAccounted`, `DayCapKept`), `MeetingsHonest` (`PollHonest`,
`CleanedFromRaw`) and `MemoryKept` (`MemoryApart`, `CooldownEarned`, `QuotaKept`).

Why the bounds are enough. Metering: two requests already show every stale read,
a limit of 2 with costs of 0 to 2 puts the meter below, at, and beyond the limit
and its tolerance, and a month of 2 ticks within 3 to 5 gives a missed reset and
a reset racing another; the theorems remove the bounds. Calendar: the two
Februaries and every start day at a month's end are in it, and an account may
stay unread for the whole horizon. Unlocks: a bundle with both upgrades is the
longest chain of decisions the catalogue allows, and two accounts are a source
and a target for moves and the merge. Entitlement: a conflict needs two
subscriptions, a move two accounts, and the sweep's newer-purchase rule a lapse
between two purchases, which three changes by Apple allow. Turns: ids are
independent of each other, so one of each is enough; three sends are one running,
one that takes its place and one that meets both. Offers: two sends may echo one
offer, and a third meets what they left; caps of 1 are passed by the second.
Gates: two calls are judged against the same sums; caps of 1 to 4 with costs up
to 2 are reached, met exactly and overshot. Interview: guards act on one field or
on two that compete, so two wrongs let one guard undo another; what takes a third
(a checkpoint beside two deferrals) is left to the proof, which is for any number. Route:
three calls fill a cache entry, use it and use it under the other scope. Judge:
one turn more than the threshold. Accounts: two handlers interleave on one
person; a merge needs two accounts, a rotation two sessions and a third that
survives. Alerting: two reporters, an incident that closes and one that opens
again. Configuration: two edits are an edit and one behind it, or an edit and a
deploy; four moves leave two fetches around them, or three around one. Pins: two versions are the one read and the one that overtakes it. Boots:
one upset to break a sweep and one to spoil its repair. Telemetry: retention of 1
day under a look-back of 3 keeps the order of the code's 30 and 35. Shares,
reports, memory: the writer, and the one that comes in between.
Deadlock is checked for Metering and Unlocks only; elsewhere clocks, call
budgets and requests are bounded and may run out.

Symmetry is used where the handlers are interchangeable and no liveness is checked:
requests of Metering and Turns, transactions' workers in Unlocks, sends, workers
of Sessions, handlers of Shares, and callers of Memory.

Fairness. `Metering!FairSpec` asks only for the daemon: it is a loop that sleeps
and sweeps for the life of the process, so a step of it that stays possible is
taken. No request is obliged to arrive or to finish. `Entitlement!FairSpec` asks
that an accepted request runs to its next commit, unless it fails; that the
reconcile daemon keeps coming round to each account that stores an id (strong
fairness, since handlers keep occupying the worker in between); and that neither
Apple nor the database refuses the sweep every single time it visits an account.
`Turns!FairSpec` asks for time (`Age`) and for a client that keeps polling an
unanswered turn, which `poll_after_seconds` tells it to; no request is obliged to
finish. The other specifications state no fairness and are checked for safety
only; `ReportJob` promises no progress either.

## What is proved

The theorems hold for every value of the constants their modules' assumptions
allow, so the bounds of the runs (ids, handlers, days, restarts) are not theirs.
All are safety: for each, `Init` gives the invariant, each action keeps it (one step
per action, one lemma per action where that takes more than a few facts), and it
gives the property. What follows is each invariant beside the types, and why the
property is not inductive without it. Every one was checked by TLC on the run of its
component before it was proved.

**MeteringProofs** (Metering)

- `TypeCorrect`: `Spec => []TypeOK`. The invariant carries one fact besides the
  types: a process about to write a reset holds a date that was due when it read
  it (`PendingResetIsDue`). Without it `roll_forward_past` could be applied to a
  date in the future and the new date would not be known to be a date.
- `OverspendIsBounded`: `Spec => []OverspendBounded`. The bound is not inductive:
  a request that passed its gate long ago may still charge. The strengthening
  counts what is still possible. `Pending` is the set of pairs (request, index)
  of charges an admitted request has left, and `SpendInv` says that once the
  meter is at the limit, the meter plus `MaxCost` per pending pair stays within
  the bound. A gate adds pairs only while it sees usage below the limit, a charge
  removes one pair and adds at most `MaxCost`, a reset or renewal zeroes the
  meter. (`GateReads` may be older than the meter: a chat can be admitted when
  the meter is already past the limit, but only with the pairs its own slot had
  counted since it read below it.)
- `ResetsOncePerPeriod`: `Spec => ResetOncePerPeriod`. Outside a renewal the
  meter falls only in `ResetWrite`, whose guard says the row still holds the date
  that was read; with `PendingResetIsDue` that date is moved on by a positive
  whole number of months (`MonthsAdvance`), so no second reset of the same date
  can match.
- `OneCallStaysInBand`: `OneCallAtATime => (Spec => []WithinOverageBand)`, what
  `budget_gate.py:25` says of a call that lands in the tolerance band, for the case in
  which it is so: the account's calls do not overlap and cost no more than was
  estimated. The band alone says nothing of a call on its way; `BandInv` adds that
  whoever is past its gate still fits, and that a chat about to be judged has read no
  less than what is used, so nothing is spent between what a gate judged and the end
  of its call.

**ChatProofs** (Offers, Gates, Upstream, Interview)

- `WhatIsBuiltWasDecided`: `[]OffersHonoured`. `StoreInv`: an id beyond the last one
  minted is free and an offer in the store has not been given to a reply, so none is
  given twice. `Fits` says of each send, by where it is, what it has decided
  (`Decided` while it is armed) and that the offer it names is, as far as research
  goes, the one the search gate ruled on, or gone; this is what makes the gate's
  ruling hold for an offer read two awaits later, because the store only grows and
  forgets (`StoreGrows`).
- `MonthlyCountersAreBounded`: `[]CountersBounded`. The searches in flight count
  `MaxUses` each; those of an interview reference, on which no gate ruled, are
  counted apart (`referenced`). For builds the property is not inductive: a send past its gate may
  still be judged, confirmed and armed. `Admits` counts these too, each is let in
  below the cap, and an answer gives up its place when it charges.
- `EveryAppWithinItsCap`: `[]GatesHold`. `CallFits` says of a running call that the sum
  it was admitted on is not above today's and, as long as it is today's, that there is
  room for its estimate under every cap of its kind (`Roomy`); `CapsKept` adds that no
  day to come has spent. `LastFits` bounds what overlapping calls overshoot by: of the
  calls in flight the one admitted last had room for its own estimate. `WindowsKept`
  counts the calls past the hourly latch (`Unlatched`) with the rows.
- `OutageIsBounded`: `[]OutageBounded`. `BreakerCounts` says what the breaker's own
  counter knows of the slow calls: closed, it counts all of them; open, the slow
  ones and those still on their way are within the bound together, because no other
  is let in; past the cooldown the count begins again.
- `RoadIsKept`: `[]RoadKept`. `AdaptersRight` (an adapter outlives the call that made
  it, with the key of its place) and `CallInv` (what a call has tried and what was
  heard of it, by where it is).
- `InterviewIsHonest`: `InterviewSpec => []InterviewHonest`, for any agendas and any
  number of things wrong with the model's replies. Three layers. *The reply*: however
  many things are changed about it, it stays one the guards know (`RepliesSound`, by a
  least counterexample: the set of replies is a recursive function, and neither
  induction nor a fold is within reach). *The repairs*: `At` ties the turn under repair
  to the reply it began with: no fact is gone that is on neither list, and every fact
  left is of a kind the guards so far have not dealt with. Each guard is one lemma, each
  stage of `guard_response_text` takes a set of kinds out of the account
  (`IdentifiersRepaired`, `EvidenceRepaired`, `DeferralsRepaired`, `ReplyRepaired`), and
  `Filed` adds, from the deferrals on, what is put off and what is noted. `Judged` says
  what the judge may give back. *The turn*: `CheckpointRead`, that behind its refusal a
  checkpoint of the reply in hand leaves nothing open except for dates that were
  refused, and `DatesInOrder`, that no inverted date reaches the guards.
- `SpokenWordsStand`: `InterviewSpec => []SpokenStands`. `Speaking` and `Told` count the
  sentences handed over against the reply in hand, for as long as no retry has replaced
  it: all but the last are heard, the last is held. `Withheld` and `NoOathSaid` say what
  is kept back, and `Words` what the repairs may do to the text: leave it as corrected,
  replace it or its last sentence by a scripted one, or empty it.

**MeetingsProofs** (Meetings, ReportJob, Translations, Digest, Memory, Shares)

- `MeetingsAreHonest`: `[]MeetingsHonest`. `OneJob` (whoever inserts the job's row
  is alone, and a taken key has an owner unless its insert failed), `StoredKnown`
  and `RowKnown` (what the row says, by where the job is) and `PollKnown` (a poll's
  first read may be old; what it will answer is true when it answers).
- `RecordsKeepThePromise`: `MeetingsSpec => ReportPromise`, the refinement. The
  initial states are ReportJob's; under the invariant each of the routes' steps is a
  step of `Promise!JobSpec` or leaves what it sees alone, because what the two
  records show a poll (`ShownByRecords`) changes only when the abstract job does.
  `kept` is mapped to the report's row, which the sweep may delete at any time.
- `EveryTranslationIsPaid`: `[]TranslationsPaid`. The same counting argument:
  `TranslationsInv` adds the requests the gate let through (`Admitted`) to the meter,
  and the responses not paid yet (`Charging`) to what is accounted for elsewhere
  (`given_up`, `spared`, `dropped`). Needs at least one translator, or the bound
  `tlimit + N - 1` is below zero.
- `DigestIsKept`: `[]DigestKept`. `OrderIsCache` ties the sequence of keys by age to
  the keys of the cache, each once: otherwise a full cache might evict a key it does
  not hold and grow. `OneRefresh` ties `_LOCK_HOLDERS` to the refreshes in flight.
- `MemoryIsKept`: `[]MemoryKept`. `SubjectsOwned` (a subject holds what its own app
  wrote), `StrikesEarned` (a strike is a rejection since the last token) and
  `QuotaCounted` (captures counted, on their way and never counted are those taken).
- `SharesAreKept`: `[]SharesKept`, a refused deletion among the named gaps. `Relies` is what one handler may count on between
  two of its awaits whatever the others do: that the share it inserts has its
  archive and no row, that one it marks has no archive but a leaked one, that what its sweep will
  delete can never have a file again (`Barren`). `OneInserts` and `NewIsPlain` make
  each handler's step keep the others'. `DayInv` keeps room under the day's cap for
  the upload in hand, as long as there is one at a time.

**UnlocksProofs** (Unlocks)

- `UpgradesAreSettled`: `[]UnlocksSettled`. That no upgrade waits for a pack its account
  owns is not kept by `_resolve_pending` as it stands: granting one row could release
  another that was passed over before it. `WaitersOwnNothing` is: an upgrade grants one
  of the two features and requires the other (`UpgradeShape`), so the account of one that
  waits owns neither, and nothing later in the pass can be granted either. `Passed` is
  this of the rows done so far; `StepsExist` and `Resolved` are the induction on their
  number, through a least counterexample (`LeastOf`), so it holds for every number of
  rows. `Serial` adds what one request at a time may count on: a status to insert is
  what would be decided now, and Apple's notification was for the row's owner (`Fresh`).
- `UpgradesAreEarned`: `Spec => UpgradeEarned`; `PurchasesAreKept`: `Spec => RowsKept`,
  action properties. `Advanced` says what a pass does to a table: no row is lost, a
  decided row stays as it is, what the account owned it owns, and a status that changed
  is earned by what the account owns at the end.

**TurnsProofs** (Turns)

- `TurnsRunOnce`, `IdsAreReleased`, `RunningRowsAreHonest`: `[]TurnOnce`,
  `[]IdReleased`, `[]RunningIsHonest`; `AnswersAreKept`: `Spec => AnswerKept`, an
  action property. `TurnIdHeld` says that whoever runs the turn id is the one
  registered, except between dropping its entry and storing its answer, and that
  short of a named slip there is one; `GenerationHeld` the same of the generation
  id and its row, of which a running one has somebody behind it once the sweep ran.

**OperationsProofs** (CertPins, Alerting, ResetCalendar, RemoteConfig, Store)

- `PinsAreHonest`: `[]PinsHonest`. `CheckRelies` is what a check under way may still
  assume of what it read (no rotation: the pins are the chains'; no operator: the
  version it takes is free), `Covers` what a finished check leaves behind, and a
  report is due only for the manifest of the check under way.
- `TroubleIsMailedOnce`: `[]MailedOncePerTrouble`. `Settled` says of every incident
  not written past the lock that it is closed for good before the next of its
  fingerprint, and, while time passes, how long it has been quiet.
- `WindowCoversTheMeter`, `ResetDatesAreKept`: `[]CalendarHolds` and the action
  property `ResetDateKept`, for a calendar of any length whose months have 28 to 31
  days. `CalendarInv`: the stored date is at most one month ahead, and the month
  before it had begun when the meter was zeroed.
- `ServingIsFaithful`: `[]ServedFaithfully`. `Succession` orders the copies of a
  document: what a phone holds is not newer than what is served, nor that than what
  is on disk, and one number has one content, since the last time a number was
  lowered; the same holds of the documents a copy was filled from. `StallsAre` ties
  every stall row of a phone that cannot read to what it was given: never more, and
  exactly that under a key none of whose writes failed.
- `TheStoreIsKept`: `StoreSpec => []StoreKept`. *Startup*: `Swept` says what the
  statements a sweep has run have done and no later one has undone; `RecordKnows`,
  of the file, the connection and the replica's copy, that the record still speaks
  for the database: between two sweeps the schema gains at most the column that
  comes and goes, and if it is the recorded one again, what the statements on record
  asked for holds, but for those that had failed. `RowsRight` orders the uploads of a
  meeting. *Telemetry*: `StoredRight` says that rows young enough are still raw, that
  no start is later than a stop of its meeting, and that two stops of one meeting are
  never of one day; `HandledRight` that what a handler was told of an earlier stop
  stays true while it holds the lock. The figures are then bounded by an injection of
  the counted rows into the meetings and one back.

**AccountsProofs** (Sessions, Outreach)

- `SignInsHold`: `[]SignInHolds`. `LanesKept` carries the entry to a strict app
  through tokens, sessions, memberships and whatever a handler has in hand;
  `OneToken` counts a refresh token about to be minted with the live ones.
- `MoneyFollowsItsOwner`: `[]MoneyMoves`. `OwnersKept`: ids are fresh, a subject has
  one account, and an account somebody read is, as long as it is a phone's, the
  phone it was. `PlanHeld`: nobody has a plan before one was bought, and afterwards
  closed accounts are phones' and one open account has it with its meter.
  `SpendHeld`: what was carried for a phone and what its account shows is what was
  spent there, less what left with its converted accounts (`Owed`).
- `WhatIsSentIsOwed`: `OutreachSpec => []OutreachKept`; `StepsReachTheirOwner`:
  `OutreachSpec => OutreachSteps`, the action properties. The five parts share no
  variable, so the specification is the conjunction of theirs, and so is the
  invariant. *Letters*: a row in hand that says unsent is of someone who had no
  letter, or whose letter a restart kept from being recorded, and its account was
  deleted, if at all, after the row was read (`SweepRelies`); a letter that left is
  on record or about to be (`LettersRecorded`). *Webhook*: a complaint recorded as an
  event bars its address, is about to, or was dropped by a restart (`Heeded`).
  *Pushes*: a phone's row is of who signed in last, and so are the rows in the push's
  hand unless the phone changed hands since. *Codes*: a code handed out is its
  owner's in the pool; without overlap a person has one, and none while a resolve
  for them still looks. *Campaigns*: an event the run calls kept is in its row,
  unless there was none. *Attribution*: a row that waits under its own age was
  stamped when Apple last answered, and the exchange's rows still wait.

**EntitlementProofs** (Entitlement)

The theorems on plans are of one handler at a time (`OneAtATime`): one worker, no
handler dying between two commits, no sync-subscription, and Apple's signature on every
transaction with an id (an unsigned one takes the id and moves no plan). Each of these is
needed, see "Disagreements" for the first three; any number of accounts, subscriptions, receipts and requests, the operator and Apple's notices in any
order are not restricted.

- `OneSubscriptionPaysOnce`: `OneAtATime => (Spec => []PaidOnce)`. That one purchase
  pays for one account follows from the ids: nobody shares one (`HeldByOne`), and the
  purchase behind a plan is the one whose id the account holds (`SourceIsHeld`). That
  is broken between the commit that takes the id off the old holder and the one that
  downgrades it; `Moving` says that the request in between has the holder in hand, and
  `VerifyRelies` and `OthersRely` that what a handler has read is still so.
- `RestoresBringTheirUsage`: `OneAtATime => (Spec => UsageTravels)`, from the same
  invariant: the meters read with the holders are those at the move.
- `ConflictsStayBehind`: `OneAtATime => (Spec => ConflictKeepsPlan)`, the first part of
  `PlansKept`. `KeepInv`: once a merge has left a purchase behind, the anonymous account
  is closed for good, so no second merge can carry the purchase over.
- `PlansAreKept`: `OneAtATime => (Spec => PlansKept)`, with the sweep's part: a plan
  bought under an id is on the account that holds the id, and one bought under no usable
  id has its grant on record (`GrantBehind`, the other half of `KeepInv`), which the
  sweep then finds. The exception is in the property: a purchase under no usable id that
  verify-receipt takes for a downgrade logs no grant (`Unlogged`).
- `EntitlementTyped`: `Spec => []TypeOK`, with no hypothesis.

The assumptions are those of the modules, which TLC evaluates on the runs. Most give
the types of bounds. The others say what the code's values are by construction: that
the value that stands for "none" is none of the records in its place (Translations,
Digest, Upstream, Meetings, Memory, Turns, Alerting, CertPins, Sessions,
RemoteConfig, Outreach, Offers, Gates, Startup, Telemetry, Unlocks, Entitlement,
Interview), that an agenda is of known fields, that what is counted is finite (requests, sends,
calls, turns, callers, shares, providers, phones), that the mail provider's event ids are unique, that there is at least one translator, caller and Apple id, that
"unscoped" is no app, that a release's migrations are a beginning of the list, that
raw rows are kept for at least a day and fewer than the look-back, and that a month
has 28 to 31 days.

What the attempts found in the models:

- `QuotaKept` was false for a free quota of 0: `exempt`, which says that captures were
  taken beyond the quota because of people, was reset at a new month or a change of
  tier although some of them were still on their way, and these count in the new
  month. It now stays until none is (`Uncounted`).
- `SpendSurvivesDelete` was false with three handlers (the run has two): the sweep
  reads a phone's account, which becomes an Apple account and is deleted; a call in
  flight logs to it, and the sweep carries that sum to the phone. The `leak` history
  now compares the owner at the time of the carry with the one that was read.
- The bound `2 * MaxCalls` in Sessions' types held for two handlers only.
- The alarm's choice of the oldest stuck attribution row was a `CHOOSE`, so one row
  of several as old as each other; the SQL (`ORDER BY created_at LIMIT 1`) says less,
  and the model now takes any of the oldest.
- `DecisionRespected` took an explicit command to have file vocabulary. The regex of
  the command reads the last 4000 characters and the vocabulary's the last 2000
  (`document_generation.py:272`, `:453`), so this is no assumption one can make; the
  property now says what arms the build: an explicit command, or a request in words
  with research on.
- `CapsHold` was false where what an install carries over is above its cap: a deletion
  leaves the sum of calls that overshot it, and the new account has spent nothing of
  it. The cap is now claimed of an install that has spent anything, and the cap of a
  day of every day, as the gate's sum includes what others spent.
- `SkipCostsNothing` excused the statements whose last try had failed, and was false
  with four upsets (the run has two): a sweep records that dropping a column failed;
  an operator drops it; one sweep adds it and drops it again and dies, the next adds
  it and dies. The schema is the recorded one again, the sweep is skipped, and the
  column is there although its last drop worked. What is excused is now what had
  failed in the sweep on record. (The comment at `database.py:1551`, that a boot that
  dies "simply leaves no record", holds of the first boot only.)
- `Decide` was a `CASE` whose guards overlap (a product that requires nothing is also one
  whose grants may be owned), which leaves the choice open where the code's returns are
  in order; it now has their order. The fold of `_resolve_pending` became a recursive
  function, and the assumption that `None` is no row is stated (`NoRow`).
- `ConflictKeepsPlan` was true only because the run has four requests. With five, a
  merge closes an anonymous account that then adopts another id, by a notification its
  token names; nobody holds the id the merge left behind any more, so the next
  notification about it is matched by its token and gives it to the account that had
  refused it. The property now speaks of everything but a match by token
  (`MatchedByToken`).
- `CheckpointHonest` was false with three things wrong with a reply (the run has two).
  The checkpoint of a reply that puts off a question which is already on file passes its
  refusal, as that question counts as settled; then the guards take the deferral back
  (`drop_deferrals_of_filed_values`), and the section is declared read back with the
  question open. The same with dates: inverted ones count as settled, are refused two
  steps later, and if the retry does not put them right they are dropped from under the
  checkpoint. Both are what the code does (`n400_interviewer_guard.py:3042`, `:3014`);
  the property now says that a node may be open only because the reply had settled it
  or because its dates were refused, and the retries of later refusals are left out as
  before.
- That "no field" is none of the reasons to withhold a reply and none of the reminders
  was not said (`InterviewAssumption`). `first_line`, `buffer_reason` and `After` had
  the code's order in an enumeration or in overlapping cases; they say it in guards.
- `ShownIsGoingOn` made an exception for stops that came back after their row had been
  purged. The proof does not need it, and it is gone.
- Removing a key from an order, fresh ids, joining the rows of an incident and
  resolving a slug were filters of sequences the provers cannot reason about; they
  are now stated by index or by choice (`Without`, `FreshIds`, `Joined`,
  `resolve_slug`). The sums of Gates were folds over the log.

Only model-checked, and why:

- Liveness (`AllowanceRenewed`, `IdHeals`, `DriftFixed`): fairness is outside the
  prover's reach.
- Entitlement with overlapping handlers, crashes or sync-subscription: the promises are
  false there, see below; `entitlement_drift` checks what remains.

## Disagreements met while modelling

One is kept as a run, with its finding in `PROJECT.json`: a streamed turn that
falls back to OpenRouter is charged and its text is never sent (`stream_fallback`;
`routers/chat.py:5745`, `services/providers/base.py:161`). The models show the
others below. Where a definition states the disputed promise it is named in
brackets: it can be added to the run's configuration and TLC refutes it.

Meter, unlocks, plans and turns:

- *No reset date* [`Metering!NotDueMeansCurrent` with `Anchored = FALSE`]
  (`allocation_reset.py:14`, "AND Free users who have no webhook path"): sign-up
  stores no date, `lazy_reset_if_due` returns for a NULL one (`:185`) and the
  sweep skips it, so a free user who never had a plan is never reset.
- *Stranded upgrade* [`Unlocks!NoStrandedUpgrade`] (`unlocks.py:12`, "granted when
  it arrives"): with the pack and the upgrade in flight together, the pack's
  `_resolve_pending` runs before the upgrade's row exists; the upgrade is then
  inserted as pending with nothing left to resolve it.
- *Two restores* [`Entitlement!OnePaidAccount` with two workers]
  (`plan_moves.py:9`, "the other holder is downgraded"): both read the holders
  before either writes its plan (`chat.py:782`) and both accounts stay paid.
- *Unseen file* [`Turns!UnseenFileKept`] (`generated_files.py:57`, "Files the
  client has already ACKED ... go first"): `finish` updates a failed row to done
  and leaves `acked_at` of the failure (`generation_turns.py:135`), so the new
  file is the first to be deleted and its push is skipped.
- *The overage band* (`budget_gate.py:25`, "A user can land mid-call into this
  band; the next call will be blocked"): `WithinOverageBand` fails with two
  overlapping chats, which are both judged against usage read before either was
  recorded. `OverspendBounded` is the bound that does hold.
- *Anonymous translations* (`allowance.py:3`, "the one rule they must all
  share"): `translate_group` gates on the tier's limit, so with `AnonymousFree`
  an anonymous account spends the free tier's allowance on that route.
- *Cleanup before the gate* (`reports.py:176`, "BEFORE expensive work"): with
  `CaptionsCleanup` an exhausted account is charged for `Cleanup` and then
  refused.
- *The billing anchor* (`allocation_reset.py:54`, "Apple snaps back to the
  original day when the target month has it, and so do we"): holds within one
  reset (`DayKeptAcrossMissedCycles`), but each reset starts from the stored date,
  so a plan begun on the 31st stays on the 28th after its first February.
- *The webhook moves a purchase* (`unlocks.py:124`, "the webhook after the
  client) changes nothing"): when it resolves its user before the client's row
  exists, `record()` moves the row to the token's account; `OnlyVerifierMoves` is
  therefore stated without overlap.
- *A second move between two accounts* (`unlocks.py:125`): the plain INSERT into
  `account_links` (`unlocks.py:148`) fails on its primary key and the move is
  rolled back (`RecordMove`).
- *A refund that arrives first* (`unlocks.py:17`) matches no row in `revoke` and
  the later `record` grants the refunded purchase.
- *A charge notice after the merge* (`anonymous_merge.py:66`, "One-time unlocks
  always follow the person") is recorded on the closed account its token names.
- *Adopting an id* (`apple_webhooks.py:526`, "No other row can hold this id"):
  with two handlers `HeldOnce` fails, a verify-receipt binding the id between the
  lookup and the adoption.
- *A crash after the plan is committed* (`plan_moves.py:9`): with `Faults`
  `OnePaidAccount` fails; the old holder keeps its plan and no longer holds the
  id by which anything could find it.
- *Sync after a conflict merge* (`chat.py:704`): with the `sync` route
  `ConflictKeepsPlan` fails; only verify-receipt asks `anonymous_merges`.
- *A purchase a merge left behind* (`chat.py:704`, "never replaces this account's
  plan"): the webhook does not ask `anonymous_merges`, and matched by token
  (`apple_webhooks.py:520`) a renewal of that purchase is applied to the account.
- *A re-purchase without a usable id* (`tests/test_reconcile_newer_purchase.py:1`):
  with a receipt whose id is rejected, of the tier the account still has or of a lower
  one, no grant is logged, and the sweep then takes the plan for the lapse of the older
  subscription. Of the lower tier this is the `Unlogged` case that
  `SweepKeepsNewerPurchase` names; of the same tier the request is a re-verification
  like any other, and the model does not count it as a purchase. A history row that
  fails to be written (`chat.py:982`) would do the same.
- *The status row* (`apple_webhooks.py:490`, "current on EVERY notification"):
  branches that change no plan return without a commit, and the upsert is rolled
  back (`NotifyDowngrade`, `NotifyOther`).

- *A second call for one turn id* (`chat_turns.py:13`, "do NOT start a second
  upstream call", "terminal -> return the stored body, no second bill"): `OneCall`
  names the three ways it happens. A resend reads no row, the original drops its
  entry and then inserts, the resend finds no entry and registers (`Begin`,
  "race"). A turn is still running when the valve opens (`chat_turns.py:63`,
  "a turn we would still serve is never mistaken for a leak": that is so for the
  two capped streams, but the heartbeat transport has no cap). A request whose
  lookup raises releases the id another request holds ("released").
- *A still-running generation id* (`generation_turns.py:10`, "a still-running id
  409s"): the retry of a failed build falls through without registering, so a
  further resend builds beside it, the id reads failed meanwhile, and the later
  of the two outcomes wins (`OneBuild` and `AnswerKept` exclude it as the
  "unregistered" slip).
- *Lost to a restart* (`generation_turns.py:254`): the sweep is not awaited by the
  server's start, and an error in its first pass defers it by an hour; it then
  marks builds of the live process (`SweepLostToRestart`, the "swept" slip).
- *Ids that stay registered*: the token stream never finishes its turn id, the
  N-400 wall clock cancels past `except Exception`, and a generator that never
  starts owns nothing (`IdReleased` names the three). The valve heals a turn id;
  a generation id has no valve and `generation_turns.abandon` has no caller, so
  `CollectFails` or `RecordStartFails` leave it answering 409 until a restart.
- *A repeated DID_RENEW* (`apple_webhooks.py:539`) zeroes the meter again and moves
  the date to an old `expiresDate`; nothing records which renewals were applied.
- *A lapse notice matched by token* (`apple_webhooks.py:567`) downgrades an account
  whose plan comes from another subscription.

Chat:

- *Builds nobody confirmed* [`Offers!ConfirmedOnly`] (`chat.py:3013`, "arming is
  confirmed-only", `tests/test_document_generation.py:728`): at the monthly cap
  (`chat.py:3065`) and for a tap whose photo is gone, clearing the flag leaves the
  gate's own arming in force.
- *Searches of the interview reference* (`chat.py:2904`, "set AFTER the search gate
  on purpose", "TR meters in dollars"): they are counted on the shared
  `users.searches_used` all the same (`chat.py:4690`), so they use up and pass the
  cap of the account's ShoulderSurf tier. `CountersBounded` is of the others.
- *Smaller ones of the offers*: a second tap, or a tap at an expired offer, builds
  from its own words; a tap at a contract offer rides the sandbox lane;
  the lane question forgets that images were dropped; the free taste is recorded
  before later refusals; search fees are not in the estimate of the entitlement
  cap; the test account's hourly cap is passed by calls in flight.
- *The held sentence* [`Interview!HeldIsSuffix`] (`n400_sentence_stream.py:23`,
  "Otherwise no guard rewrites the spoken text",
  `tests/test_n400_sentence_stream_route.py:105`): after a repair of the tail the
  held sentence is not what follows the spoken ones (`chat.py:5606`).
- *Order of guards*: `drop_facts_without_current_evidence` overwrites
  `facts_dropped` (`n400_interviewer_guard.py:440`); the stale-question and
  checkpoint checks run before facts are dropped, deferrals are taken back and inverted
  dates removed, so a checkpoint can leave with a question open
  (the check's own "still open AFTER this response", `n400_interviewer_guard.py:2214`,
  is judged before the repairs); a later refusal's retry is not
  checked for what an earlier one refused; `replace_settled_question` can override
  an identifier's re-ask; a retry that fails takes the charged turn with it
  (`chat.py:4656`).
- *Malformed requests* [`Upstream!ShapeErrorsStay`] (`anthropic_or_fallback.py:17`,
  "NOT triggered on: 400 / 422"): the adapter turns them into 502
  (`providers/anthropic.py:90`), which falls back. A stream with no key never
  falls back (`anthropic_or_fallback.py:230`). A hang-up leaves no usage row; an
  error in mid-stream is logged uncharged.

Accounts and outreach:

- A letter is repeated when the process dies between sending and recording
  (`welcome_email.py:227`), and can go to an account deleted meanwhile.
- The mail webhook records the event before it suppresses, so a failure in between
  is taken for done. Overlapping resolves of one actor reserve two codes
  (`offer_dispense.py:60`). A conversion before the impression is lost
  (`promo.py:661`). A re-armed attribution row keeps `created_at` and raises the
  stall alarm. A push goes to the owner read before the phone changed hands.
- *An install's lifetime allowance* [`Sessions!LifetimeSpendKept`]
  (`anonymous_budget.py:10`, "what ONE install may ever spend in this app.
  Lifetime"): a sign-in that converts the anonymous account (`auth.py:148`) renames
  the row and carries nothing over, so the next anonymous account of that install
  starts with none of the spend counted. `SpendSurvivesDelete` says that this is the
  only way, and that exactly what the account had live is lost (`converted`).
- Concurrent first sign-ins with one Apple id end in an IntegrityError; the sum
  carried for an install is read before the transaction that deletes
  (`anonymous_budget.py:159`); a refresh reads its row before it revokes it, so a
  merge in between does not stop the new session (`auth.py:330`).

Operations:

- *Alerting*: a letter that fails when its incident opens is never retried
  (`alerting.py:576`); a sweep on a busy database is swallowed and two reports
  open two incidents (`alerting.py:487`; `database.py:306` calls the index
  unique, it is not); `list_incidents` never commits its sweep.
- *A retired tester* [`RemoteConfig!RetiredTesterReturns`]
  (`tests/test_config_audience.py:14`): a tester's copy with a higher number is
  answered "unchanged" (`routers/config.py:643`) after the row is retired; the
  same happens on a switch of language or build pin. A second device of the account
  clears the stall row of the stuck one (`config_stall.py:107`). A tunable edit
  that fails at one language has written the ones before it (`webhooks.py:853`). A
  stall row whose write fails is not made up for (`config_stall.py:93`).
- *The window in the copy* (`recall_window.py:70`, "so a dashboard change propagates
  to what users read"): the copy is filled when it is served (`config.py:669`), and a
  change of the matrix, or for `tiers.es` of the English dial, leaves the copy's own
  number where it was; a device that has the number is answered "unchanged" and keeps
  the old window. `UnchangedIsCurrent` claims the window only while the documents it
  was filled from have not moved on. A tester's, a pinned build's and another app's
  file is served under a name that does not begin with `tiers`, so its placeholder is
  not filled.
- *Pins*: the daemon compares with the manifest it read before the probes
  (`cert_pin_auto_republish.py:167`), so a pin an operator published meanwhile is
  dropped; two publications race for the next version; the banner judges the
  operator's manifest by an older check. A restart between the commit (`:257`) and the
  report (`:287`), or a report that fails (`:467`), loses `pin_set_changed` for good:
  the next check finds nothing changed. An exception that is not a signing error ends
  the tick (`:438`) with the `noop_healthy` of an earlier one still on the banner.
- *A migration that failed once* (`database.py:1536`,
  `tests/test_schema_convergence.py:1`) is recorded as converged and skipped at
  every later boot until the list changes; backfills leave no trace in the schema
  fingerprint. A failing `PyMigration` kills the boot, because the warning
  normalises an object that is not text (`database.py:1549`). The backfills, which
  by `database.py:911` never resurrect "an app the user has since deleted", do when
  a call in flight logged usage after the delete (`:914`) or a ping queued on the phone
  was delivered after it (`:922`, `telemetry.py:453`).
- *The trend* [`Telemetry!TrendKept`] (`telemetry_rollup.py:5`, "rollups keep the
  trend lines intact indefinitely"): every boot recomputes 35 days (`:32`) from
  raw rows kept for 30 (`retention.py:107`) and overwrites the days in between
  with what is left. A stop re-sent after its row was purged counts again. The stop's
  de-duplication (`telemetry.py:440`) is safe only because an earlier INSERT holds
  the write lock.

Meetings and memory:

- *Sidecars* [`Shares!SidecarsDieWithShare`] (`meeting_shares.py:322`,
  `routers/shares.py:455`): revoking (`meeting_shares.py:298`) and deleting the
  account (`account_deletion.py:123`) unlink the archive and blank its path, so
  the player's and the card's files stay. A deletion the volume refuses is passed
  over by all three (`meeting_shares.py:302`, `:329`, `account_deletion.py:140`): the
  path is blanked or the row deleted, and nothing will look for the file again. A card rendered late writes beside a
  revoked share; a failed insert orphans its archive; uploads that overlap pass
  the day's cap (`meeting_shares.py:243`).
- *Reports*: a failed insert of the job's row leaves the key in `_RUNNING`
  (`reports.py:757`) until a restart; a poll's two reads (`:812`) can report a job
  that just began as lost; a crash between storing and clearing tells a failure
  though the report is there; a synchronous request erases a running job's row; a
  report's `created_at` is its meeting's date (`reports.py:579`, `:684`), so one just
  built for a meeting older than 30 days goes with the next hourly sweep
  (`retention.py:96`), whose own comment aligns it with the transcript's window; a
  placeholder replaces a good report; a cleaning is saved beside a newer upload
  (`:298`); `meeting_reports.meeting_id` is unique across users
  (`database.py:199`). A translation's discarded first answer is
  never charged; nor is an answer that came while no price table was loaded, while
  the database stayed locked through every retry (`usage_tracker.py:46`), or whose
  request died before its charge: `TranslationsPaid` counts these apart. An app
  with a cap of its own is gated on the account's meter (`translations.py:232`) and
  adds nothing to it (`usage_tracker.py:303`).
- *Digests across apps* [`Digest!DigestApart`] (`cq_subject.py:3`): the cache key
  has no app (`cq_proxy.py:1787`, `:1851`), and the dossier
  (`context_quilt.py:812`) and `notify_tier_change` use the bare user id
  (`MemoryApart` names the dossier). A fetch that crosses midnight is stamped with
  the new day. Concurrent rejections of one blip are two strikes
  (`context_quilt.py:288`). A capture is launched before it is counted
  (`memory_capture_quota.py:125`), and stays free if the count fails (`cq_proxy.py:438`), and captures of other apps are not counted. A
  401 from a proxied call does not drop the token. The teaser branch
  `context_quilt_hook.py:361` cannot be reached.

## What is left out

- Metering: the columns of the usage log and tier changes (in Entitlement); the
  per-app caps appear as `Refuse` (they are in Gates).
- Unlocks: price columns, the operator's alert for a flagged refund, and that
  `report_incident` commits in the middle of `_resolve_pending` (`unlocks.py:84`).
- Entitlement: the `ever_subscribed` cache, prices, reset dates, and the history
  rows as separate commits (each is part of the plan write that precedes it).
- Turns: the bodies and texts that are replayed, and file expiry.
- Offers, Interview, Upstream, Memory: texts. A classifier, a judge, a provider and
  ContextQuilt answer anything the code distinguishes.
- Interview: numerals, quotes and dates are matched by hundreds of lines of text
  rules; the model has their verdicts, not the rules, and starts from the
  verdicts.
- RemoteConfig, CertPins: contents, signatures and TLS.
- Startup, Telemetry: tables other than the ones named; heartbeats, onboarding and
  companion events; the figures other than stops.
- Not modelled: documents and templates (layout), the purchase ledger (one
  statement), the other providers' wire formats, the dashboards' reports, request
  logging and the version gate (stateless), images and static pages. In the report's
  gate, the estimate of one more call (`would_exceed`) and the rehearsal app's own
  budget (either answer is allowed over the limit). In memory, calls with no or an
  unknown app: they write to the subject of the first app, as its own do
  (`cq_subject.py:52`), on purpose; and a restart, which empties the token cache.

## Plan

- *Entitlement*: for overlapping handlers, the invariant that does hold: an id is held
   twice only while two restores of it overlap.

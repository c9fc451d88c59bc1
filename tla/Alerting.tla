------------------------------ MODULE Alerting ------------------------------
(***************************************************************************)
(* Operator alerts.  A report opens an incident and mails the recipients,   *)
(* or joins the incident its fingerprint has open; quiet closes it.  The    *)
(* reporters are the provider probe and the request paths (whale check,     *)
(* purchases, a dashboard's test).  The sweep's UPDATE takes the database's *)
(* write lock for the rest of the report; a sweep that fails on a busy      *)
(* database is passed over, and the report then reads without a lock.       *)
(***************************************************************************)
EXTENDS Integers, Sequences, FiniteSets

CONSTANTS
    Reporters,      \* connections that may report at once; "health" is the daemon
    Providers,      \* providers the daemon probes
    ProbeAnswers,   \* what a probe may come back with
    Recipients,     \* rows of alert_recipients
    QuietTicks,     \* INCIDENT_AUTO_RESOLVE_MINUTES, in ticks of the probe's interval
    MaxClock,       \* bound: ticks
    MaxIncidents,   \* bound: incidents opened
    Void

ASSUME AlertingAssumption ==
    /\ "health" \in Reporters /\ IsFiniteSet(Providers)
    /\ QuietTicks \in Nat \ {0} /\ MaxClock \in Nat /\ MaxIncidents \in Nat
    /\ Void \notin [fp : {<<"user", "whale">>} \cup (Providers \X {"auth", "budget"}), stage : {"found", "mail", "record"},
                    row : Nat, to : SUBSET Recipients]

VARIABLES
    clock,       \* now
    incidents,   \* alert_incidents, in the order of their ids
    subscribed,  \* alert_recipients: who wants what
    reports,     \* the report each connection is in the middle of, or Void
    probed       \* fingerprints the daemon has still to report in this tick

alertVars == <<clock, incidents, subscribed, reports, probed>>

AlertingInit ==
    /\ clock = 0 /\ incidents = <<>> /\ probed = <<>>
    /\ subscribed = [r \in Recipients |-> "all"]
    /\ reports = [p \in Reporters |-> Void]
----------------------------------------------------------------------------
(* The incidents                                                              *)

(* Faulty variant: an incident is as old as its first report.                 *)
StaleSinceOpened(i) == i.open /\ i.first < clock - QuietTicks

stale(i) == i.open /\ i.last < clock - QuietTicks

_sweep_stale_incidents ==
    [n \in DOMAIN incidents |->
        IF stale(incidents[n]) THEN [incidents[n] EXCEPT !.open = FALSE, !.closed = "quiet"] ELSE incidents[n]]

(* The row of the open incident with this fingerprint, 0 when there is none.   *)
open_row(table, fp) ==
    LET found == {n \in DOMAIN table : table[n].open /\ table[n].fp = fp}
    IN  IF found = {} THEN 0 ELSE CHOOSE n \in found : \A k \in found : n <= k

(* A fingerprint is a subject and a category.                                  *)
Whale == <<"user", "whale">>

(* Recipients with no category filter receive everything.                      *)
_active_recipients_for(fp) ==
    {r \in Recipients : subscribed[r] = "all" \/ (subscribed[r] = "providers" /\ fp # Whale)}

Incident(fp, blind) ==
    [fp |-> fp, first |-> clock, last |-> clock, open |-> TRUE, closed |-> Void, mailed |-> {},
     blind |-> blind]

Joined(table, n, blind) ==
    [table EXCEPT ![n].last = clock, ![n].blind = @ \/ blind]

(* The write a report ends in, on the row it found.                            *)
bump_or_insert(p, fp, table, n, blind) ==
    \/ /\ n # 0
       /\ incidents' = Joined(table, n, blind)
       /\ reports' = [reports EXCEPT ![p] = Void]
    \/ /\ n = 0 /\ Len(incidents) < MaxIncidents
       /\ incidents' = Append(table, Incident(fp, blind))
       /\ reports' = [reports EXCEPT ![p] =
              IF _active_recipients_for(fp) = {} THEN Void
              ELSE [fp |-> fp, stage |-> "mail", row |-> Len(incidents) + 1,
                    to |-> _active_recipients_for(fp)]]

(* report_incident, the sweep's write lock held from end to end.               *)
report_incident(p, fp) ==
    /\ reports[p] = Void
    /\ bump_or_insert(p, fp, _sweep_stale_incidents, open_row(_sweep_stale_incidents, fp), FALSE)
    /\ UNCHANGED <<clock, subscribed>>

(* The sweep failed: the SELECT holds no lock, and others write before the      *)
(* report does.                                                                 *)
report_unswept(p, fp) ==
    /\ reports[p] = Void
    /\ reports' = [reports EXCEPT ![p] =
           [fp |-> fp, stage |-> "found", row |-> open_row(incidents, fp), to |-> {}]]
    /\ UNCHANGED <<clock, incidents, subscribed>>

write_unswept(p) ==
    /\ reports[p] # Void /\ reports[p].stage = "found"
    /\ bump_or_insert(p, reports[p].fp, incidents, reports[p].row, TRUE)
    /\ UNCHANGED <<clock, subscribed, probed>>

(* The pushes and the letters of a new incident; a letter that fails is logged  *)
(* and not sent again.                                                          *)
send_alerts(p) ==
    /\ reports[p] # Void /\ reports[p].stage = "mail"
    /\ \E sent \in SUBSET reports[p].to :
          reports' = [reports EXCEPT ![p] =
              IF sent = {} THEN Void ELSE [@ EXCEPT !.stage = "record", !.to = sent]]
    /\ UNCHANGED <<clock, incidents, subscribed, probed>>

record_emailed(p) ==
    /\ reports[p] # Void /\ reports[p].stage = "record"
    /\ incidents' = [incidents EXCEPT ![reports[p].row].mailed = reports[p].to]
    /\ reports' = [reports EXCEPT ![p] = Void]
    /\ UNCHANGED <<clock, subscribed, probed>>

resolve_incident(fp) ==
    /\ \E n \in DOMAIN incidents : incidents[n].open /\ incidents[n].fp = fp
    /\ incidents' = [n \in DOMAIN incidents |->
           IF incidents[n].open /\ incidents[n].fp = fp
           THEN [incidents[n] EXCEPT !.open = FALSE, !.closed = "resolved"] ELSE incidents[n]]
    /\ UNCHANGED <<clock, subscribed, reports, probed>>
----------------------------------------------------------------------------
(* The reporters                                                              *)

(* _alert_decision: the fingerprint of a probe's answer, Void for no alert.    *)
_alert_decision(provider, answer) ==
    CASE answer \in {"401", "403"} -> "auth"
      [] answer \in {"402", "400 budget"} -> "budget"
      [] answer = "low balance" /\ provider = "openrouter" -> "budget"
      [] OTHER -> Void

(* check_anthropic, check_openrouter, check_openai: only OpenRouter tells its   *)
(* balance.                                                                     *)
answers_of(provider) ==
    IF provider = "openrouter" THEN ProbeAnswers ELSE ProbeAnswers \ {"low balance"}

(* tick: every provider is probed, then each alert is reported in turn.         *)
probe_providers ==
    /\ probed = <<>> /\ reports["health"] = Void
    /\ \E seen \in [Providers -> ProbeAnswers] :
          /\ \A v \in Providers : seen[v] \in answers_of(v)
          /\ LET hits == {v \in Providers : _alert_decision(v, seen[v]) # Void}
             IN  /\ hits # {}
                 /\ \E order \in [1 .. Cardinality(hits) -> hits] :
                       /\ \A i, j \in DOMAIN order : order[i] = order[j] => i = j
                       /\ probed' = [i \in DOMAIN order |->
                                        <<order[i], _alert_decision(order[i], seen[order[i]])>>]
    /\ UNCHANGED <<clock, incidents, subscribed, reports>>

report_probe ==
    /\ probed # <<>>
    /\ report_incident("health", Head(probed)) \/ report_unswept("health", Head(probed))
    /\ probed' = Tail(probed)

(* check_whale on its own connection, after the request: every call of an        *)
(* account past the threshold reports again.                                     *)
check_whale(p) ==
    /\ p # "health"
    /\ report_incident(p, Whale) \/ report_unswept(p, Whale)
    /\ UNCHANGED probed

(* The dashboard's recipients: create, change, delete ("off").                    *)
edit_recipient(r) ==
    /\ \E want \in {"all", "providers", "off"} :
          want # subscribed[r] /\ subscribed' = [subscribed EXCEPT ![r] = want]
    /\ UNCHANGED <<clock, incidents, reports, probed>>

(* The process ends between two awaits: what a report had not done is lost.       *)
Stop ==
    /\ \E p \in Reporters : reports[p] # Void
    /\ reports' = [p \in Reporters |-> Void] /\ probed' = <<>>
    /\ UNCHANGED <<clock, incidents, subscribed>>

ClockTick ==
    /\ clock < MaxClock /\ clock' = clock + 1
    /\ UNCHANGED <<incidents, subscribed, reports, probed>>

AlertingNext ==
    \/ probe_providers \/ report_probe \/ Stop \/ ClockTick
    \/ \E p \in Reporters : check_whale(p) \/ write_unswept(p) \/ send_alerts(p) \/ record_emailed(p)
    \/ \E n \in DOMAIN incidents : resolve_incident(incidents[n].fp)
    \/ \E r \in Recipients : edit_recipient(r)
----------------------------------------------------------------------------
(* A second incident (and letter) of one fingerprint means that the first was   *)
(* resolved by hand or had seen no report for longer than the quiet time,        *)
(* unless one of the two was written by a report that had read without the lock. *)
QuietBetween ==
    \A i, j \in DOMAIN incidents :
        (i < j /\ incidents[i].fp = incidents[j].fp /\ ~incidents[i].blind /\ ~incidents[j].blind)
        => incidents[i].closed = "resolved" \/ incidents[j].first - incidents[i].last > QuietTicks

(* One open incident for a fingerprint, again unless a report read without the    *)
(* lock: the partial index on open fingerprints is not unique.                    *)
OneOpen ==
    \A i, j \in DOMAIN incidents :
        (i < j /\ incidents[i].fp = incidents[j].fp /\ incidents[i].open /\ incidents[j].open)
        => incidents[j].blind

(* Nobody is mailed twice about one stretch of trouble, and trouble that comes     *)
(* back after the quiet time is a new incident (report_incident, sweep, resolve).   *)
MailedOncePerTrouble == QuietBetween /\ OneOpen
=============================================================================

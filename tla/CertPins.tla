------------------------------ MODULE CertPins ------------------------------
(***************************************************************************)
(* The signed manifest of certificate pins.  A daily daemon probes every    *)
(* pinned host and publishes when the manifest nears its expiry or the      *)
(* chains have moved away from it; an operator publishes by hand.  Both     *)
(* read the next version and insert it in two steps; a set of pins that has  *)
(* changed is reported after the insert is committed.  The banner judges by  *)
(* the last check, which is kept in memory only.                            *)
(***************************************************************************)
EXTENDS Integers, Sequences, FiniteSets

CONSTANTS
    Hosts,        \* cert_pin_host_list
    Pins,         \* pins a host's chain may have
    RepublishAt,  \* _AUTO_REPUBLISH_THRESHOLD_DAYS
    WarnAt,       \* _BANNER_WARN_THRESHOLD_DAYS
    Validity,     \* _AUTO_REPUBLISH_DAYS_VALID
    OperatorDays, \* days_valid an operator may send
    MaxDays,      \* bound: days
    MaxVersions,  \* bound: manifests
    MaxRotations, \* bound: rotations of a host's chain
    NoCheck

ASSUME CertPinsAssumption ==
    /\ Hosts # {} /\ RepublishAt < WarnAt /\ WarnAt < Validity
    /\ {RepublishAt, WarnAt, Validity, MaxDays, MaxVersions, MaxRotations} \subseteq Nat
    /\ OperatorDays \subseteq Nat \ {0}
    /\ NoCheck \notin [pins : SUBSET Pins, expires : Nat, told : {"none", "due", "told", "lost"}, mid : BOOLEAN]
    /\ NoCheck \notin [version : Nat, pins : SUBSET Pins, valid : Nat]
    /\ NoCheck \notin [stage : {"probe", "insert", "report"}, left : SUBSET Hosts, got : SUBSET Pins, drifted : BOOLEAN,
                       version : Nat, prior : SUBSET Pins, needed : BOOLEAN]

VARIABLES
    day,        \* now
    chain,      \* the pin each host presents
    rotations,  \* rotations so far
    manifests,  \* cert_pin_manifest, by version
    signing,    \* the signing key is configured
    check,      \* the check in hand, or NoCheck
    manual,     \* the operator's publication in hand, or NoCheck
    last_check, \* _last_check.action
    touched     \* history: what has come since the check began: an operator's manifest, a rotation, a
                \* tick that failed

pinVars == <<day, chain, rotations, manifests, signing, check, manual, last_check, touched>>

CertPinsInit ==
    /\ day = 0 /\ rotations = 0 /\ chain \in [Hosts -> Pins]
    /\ manifests \in {<<>>} \cup {<<[pins |-> p, expires |-> e, told |-> "told", mid |-> FALSE]>> :
                                     p \in SUBSET Pins \ {{}}, e \in {RepublishAt + 1, Validity}}
    /\ signing \in BOOLEAN
    /\ check = NoCheck /\ manual = NoCheck /\ last_check = "none" /\ touched = {"operator"}
----------------------------------------------------------------------------
latest_manifest == IF manifests = <<>> THEN NoCheck ELSE manifests[Len(manifests)]

_next_version == Len(manifests) + 1

(* Faulty variant: the chains have drifted when none of them is pinned.        *)
DriftWhenDisjoint(live, pins) == live \cap pins = {}

drifts(live, pins) == ~(live \subseteq pins)

(* Faulty variant: only a pin that is added counts as a change.                 *)
ChangeIsAddition(live, pins) == pins # {} /\ ~(live \subseteq pins)

pins_changed(live, pins) == pins # {} /\ live # pins

Ended(result) ==
    /\ check' = NoCheck /\ last_check' = result

(* maybe_auto_republish: read the manifest, decide by its age.                  *)
check_begins ==
    /\ check = NoCheck
    /\ touched' = {}
    /\ IF ~signing THEN Ended("noop_no_signing")
       ELSE /\ check' = [stage |-> "probe", left |-> Hosts, got |-> {}, drifted |-> FALSE, version |-> 0,
                         prior |-> IF latest_manifest = NoCheck THEN {} ELSE latest_manifest.pins,
                         needed |-> \/ latest_manifest = NoCheck
                                    \/ latest_manifest.expires - day <= RepublishAt]
            /\ UNCHANGED last_check
    /\ UNCHANGED <<day, chain, rotations, manifests, signing, manual>>

(* _live_pins: one host after the other.                                        *)
probe_host ==
    /\ check # NoCheck /\ check.stage = "probe" /\ check.left # {}
    /\ LET h == CHOOSE x \in check.left : TRUE
       IN  check' = [check EXCEPT !.left = @ \ {h}, !.got = @ \cup {chain[h]}]
    /\ UNCHANGED <<day, chain, rotations, manifests, signing, manual, last_check, touched>>

(* A host that cannot be read: an incident only when a manifest was needed.      *)
probe_fails ==
    /\ check # NoCheck /\ check.stage = "probe" /\ check.left # {}
    /\ Ended(IF check.needed THEN "failed" ELSE "probe_failed")
    /\ UNCHANGED <<day, chain, rotations, manifests, signing, manual, touched>>

decide ==
    /\ check # NoCheck /\ check.stage = "probe" /\ check.left = {}
    /\ IF check.needed \/ drifts(check.got, check.prior)
       THEN /\ check' = [check EXCEPT !.stage = "insert", !.version = _next_version,
                                      !.drifted = ~check.needed]
            /\ UNCHANGED last_check
       ELSE Ended("noop_healthy")
    /\ UNCHANGED <<day, chain, rotations, manifests, signing, manual, touched>>

Republished == Ended(IF check.drifted THEN "republished_drift" ELSE "republished")

(* publish_manifest and its commit; a changed set of pins is still to be reported. *)
publish_by_daemon ==
    /\ check # NoCheck /\ check.stage = "insert"
    /\ check.version = _next_version /\ check.version <= MaxVersions
    /\ LET changed == pins_changed(check.got, check.prior)
       IN  /\ manifests' = Append(manifests, [pins |-> check.got, expires |-> day + Validity,
                                              told |-> IF changed THEN "due" ELSE "none",
                                              mid |-> "operator" \in touched])
           /\ IF changed THEN check' = [check EXCEPT !.stage = "report"] /\ UNCHANGED last_check
              ELSE Republished
    /\ UNCHANGED <<day, chain, rotations, signing, manual, touched>>

reported(end) == [manifests EXCEPT ![check.version].told = end]

(* _alert with pin_set_changed, awaited; a failure of it is swallowed.              *)
report_change ==
    /\ check # NoCheck /\ check.stage = "report"
    /\ \E end \in {"told", "lost"} : manifests' = reported(end)
    /\ Republished
    /\ UNCHANGED <<day, chain, rotations, signing, manual, touched>>

(* Any other exception of the daemon's reads and of publish_manifest, a version     *)
(* that is taken among them: the tick ends and _last_check stands.                  *)
tick_fails ==
    /\ check # NoCheck => check.stage = "insert"
    /\ check' = NoCheck /\ touched' = touched \cup {"failure"}
    /\ UNCHANGED <<day, chain, rotations, manifests, signing, manual, last_check>>

signing_fails ==
    /\ check # NoCheck /\ check.stage = "insert"
    /\ Ended("failed")
    /\ UNCHANGED <<day, chain, rotations, manifests, signing, manual, touched>>

(* admin_cert_pins_publish                                                       *)
publish_begins ==
    /\ manual = NoCheck /\ signing /\ _next_version <= MaxVersions
    /\ \E p \in SUBSET Pins \ {{}}, valid \in OperatorDays :
          manual' = [version |-> _next_version, pins |-> p, valid |-> valid]
    /\ UNCHANGED <<day, chain, rotations, manifests, signing, check, last_check, touched>>

publish_by_hand ==
    /\ manual # NoCheck /\ manual' = NoCheck
    /\ \/ /\ manual.version = _next_version
          /\ manifests' = Append(manifests, [pins |-> manual.pins, expires |-> day + manual.valid,
                                             told |-> "told", mid |-> FALSE])
          /\ touched' = touched \cup {"operator"}
       \/ manual.version # _next_version /\ UNCHANGED <<manifests, touched>>
    /\ UNCHANGED <<day, chain, rotations, signing, check, last_check>>

(* A host's certificate authority moves to another intermediate.                  *)
Rotate ==
    /\ rotations < MaxRotations /\ rotations' = rotations + 1
    /\ \E h \in Hosts, p \in Pins : p # chain[h] /\ chain' = [chain EXCEPT ![h] = p]
    /\ touched' = touched \cup {"rotation"}
    /\ UNCHANGED <<day, manifests, signing, check, manual, last_check>>

DayPasses ==
    /\ day < MaxDays /\ day' = day + 1
    /\ UNCHANGED <<chain, rotations, manifests, signing, check, manual, last_check, touched>>

RestartServer ==
    /\ check' = NoCheck /\ manual' = NoCheck /\ last_check' = "none"
    /\ touched' = {"operator"}
    /\ <<check, manual, last_check>> # <<NoCheck, NoCheck, "none">>
    /\ manifests' = IF check # NoCheck /\ check.stage = "report" THEN reported("lost") ELSE manifests
    /\ UNCHANGED <<day, chain, rotations, signing>>

CertPinsNext ==
    \/ check_begins \/ probe_host \/ probe_fails \/ decide \/ publish_by_daemon \/ signing_fails
    \/ report_change \/ tick_fails
    \/ publish_begins \/ publish_by_hand \/ Rotate \/ DayPasses \/ RestartServer

(* compute_status                                                                *)
compute_status ==
    IF ~signing \/ latest_manifest = NoCheck THEN "red"
    ELSE LET left == latest_manifest.expires - day
         IN  CASE last_check = "failed" -> "red"
               [] last_check \in {"probe_failed", "republished_drift"} -> "yellow"
               [] left <= 0 -> "red"
               [] left <= WarnAt -> "yellow"
               [] OTHER -> "green"
----------------------------------------------------------------------------
(* A green banner after a check: the manifest covers the chain of every host,    *)
(* unless an operator published, a host rotated or a tick failed since the check   *)
(* began (the banner of August 2026 was green over pins nobody served any more).   *)
GreenIsCovered ==
    (compute_status = "green" /\ last_check # "none" /\ check = NoCheck /\ touched = {})
    => {chain[h] : h \in Hosts} \subseteq latest_manifest.pins

(* A manifest of the daemon that drops a pin of the manifest before it is reported   *)
(* as pin_set_changed, unless an operator published while the check was under way:    *)
(* the daemon compares with the manifest it read before the probes.  A report is      *)
(* outstanding only while its check is; one that fails, or that a restart cuts off,    *)
(* is lost for good.                                                                  *)
DropsAreTold ==
    \A n \in 1 .. Len(manifests) :
        /\ manifests[n].told = "due" => check # NoCheck /\ check.stage = "report" /\ check.version = n
        /\ (n > 1 /\ ~(manifests[n - 1].pins \subseteq manifests[n].pins) /\ ~manifests[n].mid)
           => manifests[n].told # "none"

PinsHonest == GreenIsCovered /\ DropsAreTold
=============================================================================

---------------------------- MODULE MCOperations ----------------------------
(* What runs beside the requests: the reset calendar, alerting, the served      *)
(* configuration, the certificate pins, bringing the database up and telemetry, *)
(* one topic at a time.  The topic is chosen first and only its actions are     *)
(* taken.                                                                       *)
EXTENDS ResetCalendar, Alerting, RemoteConfig, CertPins, Store, TLC

CONSTANT Topics

VARIABLE topic

(* A common year, then a leap one; plans begun on the days whose month may be   *)
(* too short for them, before long and short months, and two plain ones.       *)
CommonThenLeap == <<31, 28, 31, 30, 31, 30, 31, 31, 30, 31, 30, 31, 31, 29, 31, 30>>
MonthEnds == {[m |-> m, d |-> d] : m \in {1, 3, 12}, d \in {1, 15, 28, 29, 30, 31}}

(* A topic that is not the one chosen has one initial state.                    *)
Idles ==
    /\ topic # "calendar" => today = [m |-> 1, d |-> 31]
    /\ topic # "config" => bundle["tiers.es"] = NoDoc /\ ~tester /\ device.decodes
    /\ topic # "boot" => file = Legacy /\ \A n \in Cuts : length <= n
    /\ topic # "pins" => manifests = <<>> /\ signing /\ \A h \in Hosts : chain[h] = CHOOSE p \in Pins : TRUE

OpsInit ==
    /\ topic \in Topics
    /\ Init /\ AlertingInit /\ RemoteConfigInit /\ CertPinsInit /\ StartupInit /\ TelemetryInit
    /\ Idles

OpsNext ==
    /\ UNCHANGED topic
    /\ \/ topic = "calendar" /\ Next /\ UNCHANGED <<alertVars, configVars, pinVars, bootVars, telemetryVars>>
       \/ topic = "alerts" /\ AlertingNext /\ UNCHANGED <<vars, configVars, pinVars, bootVars, telemetryVars>>
       \/ topic = "config" /\ RemoteConfigNext /\ UNCHANGED <<vars, alertVars, pinVars, bootVars, telemetryVars>>
       \/ topic = "pins" /\ CertPinsNext /\ UNCHANGED <<vars, alertVars, configVars, bootVars, telemetryVars>>
       \/ topic = "boot" /\ StartupNext /\ UNCHANGED <<vars, alertVars, configVars, pinVars, telemetryVars>>
       \/ topic = "telemetry" /\ TelemetryNext /\ UNCHANGED <<vars, alertVars, configVars, pinVars, bootVars>>

OpsSpec == OpsInit /\ [][OpsNext]_<<vars, alertVars, configVars, pinVars, bootVars, telemetryVars, topic>>
=============================================================================

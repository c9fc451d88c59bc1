-------------------------- MODULE OperationsProofs --------------------------
(***************************************************************************)
(* Proofs about what runs beside the requests: the certificate pins, for   *)
(* any hosts, pins, thresholds and number of publications; the operator    *)
(* alerts, for any number of connections that report at once; the reset    *)
(* calendar, for any month lengths from 28 to 31 days; the served          *)
(* configuration, for any number of edits and any values of the fields;    *)
(* and the database file, brought up and cleared out, for any apps,        *)
(* releases, recordings and number of things that go wrong.                *)
(***************************************************************************)
EXTENDS ResetCalendar, Alerting, RemoteConfig, CertPins, FiniteSetTheorems, SequenceTheorems,
        Store, WellFoundedInduction, TLAPS

(* A set of numbers that is not empty has a least.                                    *)
LEMMA SmallestOf ==
    ASSUME NEW S \in SUBSET Nat, S # {}
    PROVE  \E n \in S : \A k \in S : n <= k
  <1>1. \E n \in S : \A k \in S : ~(<<k, n>> \in OpToRel(<, Nat))
    BY NatLessThanWellFounded, WFMin
  <1>2. PICK n \in S : \A k \in S : ~(<<k, n>> \in OpToRel(<, Nat))
    BY <1>1
  <1>3. ASSUME NEW k \in S, k < n PROVE FALSE
    <2>1. <<k, n>> \in Nat \X Nat /\ <<k, n>>[1] = k /\ <<k, n>>[2] = n
      OBVIOUS
    <2>2. <<k, n>> \in {ss \in Nat \X Nat : ss[1] < ss[2]}
      BY <1>3, <2>1
    <2> QED BY <1>2, <2>2 DEF OpToRel
  <1> QED BY <1>3

-----------------------------------------------------------------------------
(* Certificate pins                                                          *)

CertPinsSpec == CertPinsInit /\ [][CertPinsNext]_pinVars

Tellings == {"none", "due", "told", "lost"}
Published == [pins : SUBSET Pins, expires : Nat, told : Tellings, mid : BOOLEAN]

Checks ==
    [stage : {"probe", "insert", "report"}, left : SUBSET Hosts, got : SUBSET Pins, drifted : BOOLEAN,
     version : Nat, prior : SUBSET Pins, needed : BOOLEAN]

Manuals == [version : Nat, pins : SUBSET Pins, valid : Nat]

PinsType ==
    /\ day \in Nat /\ chain \in [Hosts -> Pins] /\ manifests \in Seq(Published)
    /\ signing \in BOOLEAN /\ check \in Checks \cup {NoCheck} /\ manual \in Manuals \cup {NoCheck}

(* The pins the newest of these manifests lists.                             *)
ListedBy(table) == IF table = <<>> THEN {} ELSE table[Len(table)].pins

(* What a check under way relies on between two steps: the pins it has read    *)
(* are the chains of the hosts it has done, unless one rotated; the manifest   *)
(* it compares with is still the newest and the version it takes still free,   *)
(* unless an operator published; one that has published is the newest then.      *)
CheckRelies(c, table, at, since) ==
    /\ "rotation" \notin since => c.got = {at[h] : h \in Hosts \ c.left}
    /\ c.stage # "probe" => c.left = {}
    /\ c.stage = "report" => c.version \in 1 .. Len(table)
    /\ "operator" \notin since /\ c.stage # "report" =>
         /\ c.prior = ListedBy(table)
         /\ table = <<>> => c.needed
         /\ c.stage = "insert" => c.version = Len(table) + 1
    /\ "operator" \notin since /\ c.stage = "report" => table # <<>> /\ ListedBy(table) = c.got

(* What a check leaves behind: a result that is no warning means that the      *)
(* newest manifest lists the chain of every host.                              *)
Covers ==
    (check = NoCheck /\ touched = {} /\ signing
       /\ last_check \notin {"none", "failed", "probe_failed", "republished_drift"})
    => manifests # <<>> /\ {chain[h] : h \in Hosts} \subseteq ListedBy(manifests)

PinsInv ==
    /\ PinsType
    /\ check # NoCheck => signing /\ CheckRelies(check, manifests, chain, touched)
    /\ Covers
    /\ DropsAreTold

(* A report that ends changes what its manifest says of it and nothing else.    *)
LEMMA OneReported ==
    ASSUME PinsType, check # NoCheck, check.stage = "report", check.version \in 1 .. Len(manifests),
           NEW end \in Tellings
    PROVE  /\ reported(end) \in Seq(Published) /\ Len(reported(end)) = Len(manifests)
           /\ reported(end) # <<>> /\ ListedBy(reported(end)) = ListedBy(manifests)
           /\ reported(end)[check.version].told = end
           /\ \A n \in 1 .. Len(manifests) :
                /\ n # check.version => reported(end)[n] = manifests[n]
                /\ reported(end)[n].pins = manifests[n].pins /\ reported(end)[n].mid = manifests[n].mid
  <1>1. PICK v \in 1 .. Len(manifests) : v = check.version
    OBVIOUS
  <1>0. manifests[v] \in Published
    BY DEF PinsType
  <1>2. PICK m : m = [manifests[v] EXCEPT !.told = end]
    OBVIOUS
  <1>3. m \in Published /\ m.told = end /\ m.pins = manifests[v].pins /\ m.mid = manifests[v].mid
    BY <1>0, <1>2 DEF Published
  <1>4. PICK w : w = [manifests EXCEPT ![v] = m]
    OBVIOUS
  <1>5. reported(end) = w
    BY <1>1, <1>2, <1>4 DEF reported, PinsType
  <1>6. /\ w \in Seq(Published) /\ Len(w) = Len(manifests) /\ w # <<>> /\ w[v] = m
        /\ \A n \in 1 .. Len(manifests) : n # v => w[n] = manifests[n]
    BY <1>3, <1>4 DEF PinsType
  <1>7. ListedBy(w) = ListedBy(manifests)
    BY <1>3, <1>6 DEF ListedBy, PinsType
  <1> QED BY <1>1, <1>3, <1>5, <1>6, <1>7

(* Outside a report nothing is outstanding.                                    *)
LEMMA NothingDue ==
    ASSUME DropsAreTold, check # NoCheck => check.stage # "report"
    PROVE  \A n \in 1 .. Len(manifests) : manifests[n].told # "due"
  BY DEF DropsAreTold

(* A check that begins with the signing key at hand is under way.              *)
LEMMA BegunFits == ASSUME PinsType, check_begins, signing PROVE check' \in Checks
  <1>1. latest_manifest \in Published \cup {NoCheck}
    BY DEF latest_manifest, PinsType
  <1>2. PICK p \in SUBSET Pins : p = IF latest_manifest = NoCheck THEN {} ELSE latest_manifest.pins
    BY <1>1 DEF Published
  <1>3. PICK n \in BOOLEAN : n = (\/ latest_manifest = NoCheck
                                 \/ latest_manifest.expires - day <= RepublishAt)
    BY Zenon
  <1>4. PICK f \in BOOLEAN : f = FALSE
    OBVIOUS
  <1>5. check' = [stage |-> "probe", left |-> Hosts, got |-> {}, drifted |-> f, version |-> 0,
                  prior |-> p, needed |-> n]
    BY <1>2, <1>3, <1>4 DEF check_begins, Ended
  <1> QED BY <1>5 DEF Checks

(* A check that decides to publish goes on to do so.                            *)
LEMMA DecidedFits ==
    ASSUME PinsType, decide, check.needed \/ drifts(check.got, check.prior) PROVE check' \in Checks
  <1>1. check \in Checks /\ (~check.needed) \in BOOLEAN /\ _next_version \in Nat
    BY DEF decide, Checks, _next_version, PinsType
  <1>2. check' = [check EXCEPT !.stage = "insert", !.version = _next_version, !.drifted = ~check.needed]
    BY DEF decide
  <1>3. PICK v \in BOOLEAN : v = ~check.needed
    BY <1>1
  <1> QED BY <1>1, <1>2, <1>3 DEF Checks

(* What the daemon publishes is a manifest.                                     *)
LEMMA DaemonPublishes ==
    ASSUME PinsType, publish_by_daemon
    PROVE  \E m \in Published :
              /\ m.pins = check.got /\ manifests' = Append(manifests, m)
              /\ m.mid = TRUE <=> "operator" \in touched
              /\ m.told = IF pins_changed(check.got, check.prior) THEN "due" ELSE "none"
  <1>1. PICK t \in Tellings : t = IF pins_changed(check.got, check.prior) THEN "due" ELSE "none"
    BY DEF Tellings
  <1>2. PICK b \in BOOLEAN : b = ("operator" \in touched)
    <2>1. CASE "operator" \in touched
      BY <2>1, ("operator" \in touched) = TRUE, Zenon
    <2>2. CASE "operator" \notin touched
      BY <2>2, ("operator" \in touched) = FALSE, Zenon
    <2> QED BY <2>1, <2>2
  <1>3. check.got \in SUBSET Pins /\ day + Validity \in Nat
    BY CertPinsAssumption DEF publish_by_daemon, Checks, PinsType
  <1>4. PICK m : m = [pins |-> check.got, expires |-> day + Validity, told |-> t, mid |-> b]
    OBVIOUS
  <1>5. manifests' = Append(manifests, m)
    BY <1>1, <1>2, <1>4 DEF publish_by_daemon
  <1>6. m \in Published /\ m.pins = check.got /\ m.told = t /\ m.mid = b
    BY <1>3, <1>4 DEF Published
  <1>7. b = TRUE <=> "operator" \in touched
    BY <1>2
  <1> QED BY <1>1, <1>5, <1>6, <1>7

LEMMA DaemonLeaves ==
    ASSUME publish_by_daemon
    PROVE  /\ UNCHANGED <<day, chain, signing, manual, touched>>
           /\ check # NoCheck /\ check.stage = "insert" /\ check.version = Len(manifests) + 1
  <1>1. UNCHANGED <<day, chain, signing, manual, touched>>
    BY Zenon DEF publish_by_daemon
  <1>2. check # NoCheck /\ check.stage = "insert" /\ check.version = Len(manifests) + 1
    BY Zenon DEF publish_by_daemon, _next_version
  <1> QED BY <1>1, <1>2

(* The checks, probes and publications keep the types.                         *)
LEMMA PinsTypeStep == PinsInv /\ [CertPinsNext]_pinVars => PinsType'
  <1> SUFFICES ASSUME PinsInv, [CertPinsNext]_pinVars PROVE PinsType'
    OBVIOUS
  <1>0. PinsType /\ (check # NoCheck => CheckRelies(check, manifests, chain, touched))
    BY DEF PinsInv
  <1> USE CertPinsAssumption DEF PinsType
  <1>1. CASE check_begins
    BY <1>0, <1>1, BegunFits DEF check_begins, Ended
  <1>2. CASE probe_host
    BY <1>0, <1>2 DEF probe_host, Checks
  <1>3. CASE probe_fails
    BY <1>0, <1>3 DEF probe_fails, Ended
  <1>4. CASE decide
    BY <1>0, <1>4, DecidedFits DEF decide, Ended
  <1>5. CASE publish_by_daemon
    <2>1. manifests' \in Seq(Published)
      <3>1. \E m \in Published : manifests' = Append(manifests, m)
        BY <1>0, <1>5, DaemonPublishes
      <3> QED BY <1>0, <3>1
    <2>2. check' \in Checks \cup {NoCheck}
      <3>1. check' = NoCheck \/ check' = [check EXCEPT !.stage = "report"]
        BY <1>5 DEF publish_by_daemon, Republished, Ended
      <3>2. check \in Checks
        BY <1>0, <1>5 DEF publish_by_daemon
      <3> QED BY <3>1, <3>2 DEF Checks
    <2> QED BY <1>0, <1>5, <2>1, <2>2, DaemonLeaves
  <1>6. CASE signing_fails \/ tick_fails
    BY <1>0, <1>6 DEF signing_fails, tick_fails, Ended
  <1>7. CASE publish_begins
    BY <1>0, <1>7 DEF publish_begins, _next_version, Manuals
  <1>8. CASE publish_by_hand
    <2>1. CASE manifests' = manifests
      BY <1>0, <1>8, <2>1 DEF publish_by_hand
    <2>2. CASE manifests' # manifests
      <3>1. PICK m : m = [pins |-> manual.pins, expires |-> day + manual.valid, told |-> "told", mid |-> FALSE]
        OBVIOUS
      <3>2. manifests' = Append(manifests, m)
        BY <1>8, <2>2, <3>1 DEF publish_by_hand
      <3>3. m.told \in Tellings /\ m.mid \in BOOLEAN
        BY <3>1, Zenon DEF Tellings
      <3>4. manual.pins \in SUBSET Pins /\ day + manual.valid \in Nat
        BY <1>0, <1>8 DEF publish_by_hand, Manuals
      <3>5. m \in Published
        BY <3>1, <3>3, <3>4 DEF Published
      <3> QED BY <1>0, <1>8, <3>2, <3>5 DEF publish_by_hand
    <2> QED BY <2>1, <2>2
  <1>9. CASE report_change
    <2>1. check # NoCheck /\ check.stage = "report" /\ check.version \in 1 .. Len(manifests)
      BY <1>0, <1>9 DEF report_change, CheckRelies
    <2>2. manifests' \in Seq(Published)
      BY <1>0, <1>9, <2>1, OneReported DEF report_change, Tellings
    <2> QED BY <1>0, <1>9, <2>2 DEF report_change, Republished, Ended
  <1>10. CASE RestartServer
    <2>1. manifests' \in Seq(Published)
      <3>1. CASE check # NoCheck /\ check.stage = "report"
        <4>1. check.version \in 1 .. Len(manifests)
          BY <1>0, <3>1 DEF CheckRelies
        <4> QED BY <1>0, <1>10, <3>1, <4>1, OneReported DEF RestartServer, Tellings
      <3>2. CASE ~(check # NoCheck /\ check.stage = "report")
        BY <1>0, <1>10, <3>2 DEF RestartServer
      <3> QED BY <3>1, <3>2
    <2> QED BY <1>0, <1>10, <2>1 DEF RestartServer
  <1>11. CASE Rotate \/ DayPasses \/ UNCHANGED pinVars
    BY <1>0, <1>11 DEF Rotate, DayPasses, pinVars
  <1> QED BY <1>1, <1>2, <1>3, <1>4, <1>5, <1>6, <1>7, <1>8, <1>9, <1>10, <1>11 DEF CertPinsNext

(* A check that begins finds no newer manifest; each answer and decision keeps  *)
(* what it relies on, and a chain or manifest that moves under it is noted.     *)
LEMMA CheckRelied ==
    ASSUME PinsInv, [CertPinsNext]_pinVars, check' # NoCheck
    PROVE  signing' /\ CheckRelies(check', manifests', chain', touched')
  <1> USE CertPinsAssumption DEF PinsInv, PinsType
  <1>1. CASE check_begins
    <2>1. signing /\ check' = [stage |-> "probe", left |-> Hosts, got |-> {}, drifted |-> FALSE, version |-> 0,
                 prior |-> IF latest_manifest = NoCheck THEN {} ELSE latest_manifest.pins,
                 needed |-> \/ latest_manifest = NoCheck
                            \/ latest_manifest.expires - day <= RepublishAt]
      BY <1>1 DEF check_begins, Ended
    <2>2. check'.stage = "probe" /\ check'.got = {} /\ check'.left = Hosts
      BY <2>1
    <2>3. manifests = <<>> => latest_manifest = NoCheck
      BY DEF latest_manifest
    <2>4. manifests # <<>> => latest_manifest = manifests[Len(manifests)] /\ latest_manifest \in Published
      BY DEF latest_manifest
    <2>5. check'.prior = ListedBy(manifests)
      BY <2>1, <2>3, <2>4 DEF ListedBy, Published, Tellings
    <2>6. manifests = <<>> => check'.needed
      BY <2>1, <2>3
    <2> QED BY <1>1, <2>1, <2>2, <2>5, <2>6 DEF check_begins, CheckRelies
  <1>2. CASE probe_host
    <2>1. check \in Checks /\ signing /\ CheckRelies(check, manifests, chain, touched)
      BY <1>2 DEF probe_host
    <2>2. PICK h \in check.left : check' = [check EXCEPT !.left = @ \ {h}, !.got = @ \cup {chain[h]}]
      BY <1>2 DEF probe_host
    <2>3. /\ check'.left = check.left \ {h} /\ check'.got = check.got \cup {chain[h]}
          /\ check'.stage = check.stage /\ check'.prior = check.prior
          /\ check'.needed = check.needed /\ check'.version = check.version
      BY <2>1, <2>2 DEF Checks
    <2>4. h \in Hosts /\ check.stage = "probe"
      BY <2>1, <1>2 DEF Checks, probe_host
    <2> QED BY <1>2, <2>1, <2>3, <2>4 DEF probe_host, CheckRelies
  <1>3. CASE decide
    <2>1. check \in Checks /\ signing /\ CheckRelies(check, manifests, chain, touched)
      BY <1>3 DEF decide
    <2>2. check' = [check EXCEPT !.stage = "insert", !.version = _next_version, !.drifted = ~check.needed]
      BY <1>3 DEF decide, Ended
    <2>3. /\ check'.left = check.left /\ check'.got = check.got /\ check'.prior = check.prior
          /\ check'.needed = check.needed /\ check'.version = Len(manifests) + 1 /\ check'.stage = "insert"
          /\ check.stage = "probe" /\ check.left = {}
      BY <1>3, <2>1, <2>2 DEF Checks, _next_version, decide
    <2> QED BY <1>3, <2>1, <2>3 DEF decide, CheckRelies
  <1>4. CASE publish_by_hand
    <2>1. CheckRelies(check, manifests, chain, touched) /\ signing /\ check' = check
      BY <1>4 DEF publish_by_hand
    <2>2. Len(manifests') = Len(manifests) \/ Len(manifests') = Len(manifests) + 1
      BY <1>4 DEF publish_by_hand
    <2>3. check.version \in 1 .. Len(manifests) => check.version \in 1 .. Len(manifests')
      BY <2>2
    <2> QED BY <1>4, <2>1, <2>3 DEF publish_by_hand, CheckRelies
  <1>5. CASE Rotate
    BY <1>5 DEF Rotate, CheckRelies
  <1>6. CASE probe_fails \/ signing_fails \/ tick_fails \/ report_change \/ RestartServer
    BY <1>6 DEF probe_fails, signing_fails, tick_fails, report_change, RestartServer, Republished, Ended
  <1>8. CASE publish_by_daemon
    <2>1. check \in Checks /\ signing /\ CheckRelies(check, manifests, chain, touched) /\ check.stage = "insert"
      BY <1>8 DEF publish_by_daemon
    <2>2. check' = [check EXCEPT !.stage = "report"]
      BY <1>8 DEF publish_by_daemon, Republished, Ended
    <2>3. check'.stage = "report" /\ check'.left = check.left /\ check'.got = check.got /\ check'.version = check.version
      BY <2>1, <2>2 DEF Checks
    <2>4. PICK m \in Published : m.pins = check.got /\ manifests' = Append(manifests, m)
      <3>1. PinsType
        BY DEF PinsInv
      <3> QED BY <1>8, <3>1, DaemonPublishes
    <2>5. /\ Len(manifests') = Len(manifests) + 1 /\ manifests' # <<>> /\ ListedBy(manifests') = check.got
          /\ check.version = Len(manifests) + 1
      BY <1>8, <2>4, DaemonLeaves DEF ListedBy
    <2> QED BY <1>8, <2>1, <2>3, <2>5, DaemonLeaves DEF CheckRelies
  <1>7. CASE publish_begins \/ DayPasses \/ UNCHANGED pinVars
    BY <1>7 DEF publish_begins, DayPasses, pinVars
  <1> QED BY <1>1, <1>2, <1>3, <1>4, <1>5, <1>6, <1>7, <1>8 DEF CertPinsNext

(* A check that ends in no warning has compared the chain of every host with    *)
(* the newest manifest, or has published one that lists them.                   *)
LEMMA CheckCovers == PinsInv /\ [CertPinsNext]_pinVars => Covers'
  <1> SUFFICES ASSUME PinsInv, [CertPinsNext]_pinVars PROVE Covers'
    OBVIOUS
  <1> USE CertPinsAssumption DEF PinsInv, PinsType, Covers
  <1>1. CASE check_begins
    BY <1>1, BegunFits DEF check_begins, Ended, Checks
  <1>2. CASE probe_host
    <2>1. check' \in Checks
      BY <1>2 DEF probe_host, Checks
    <2> QED BY <2>1 DEF Checks
  <1>3. CASE decide
    <2>1. CASE check' = NoCheck
      <3>1. check \in Checks /\ CheckRelies(check, manifests, chain, touched) /\ check.left = {}
        BY <1>3 DEF decide
      <3>2. ~check.needed /\ check.got \subseteq check.prior
        BY <1>3, <2>1, DecidedFits DEF decide, drifts, Checks
      <3> QED BY <1>3, <3>1, <3>2 DEF decide, CheckRelies
    <2>2. CASE check' # NoCheck
      BY <2>2
    <2> QED BY <2>1, <2>2
  <1>4. CASE publish_by_daemon
    <2> SUFFICES ASSUME touched' = {}
                 PROVE  manifests' # <<>> /\ {chain'[h] : h \in Hosts} \subseteq ListedBy(manifests')
      OBVIOUS
    <2>1. check \in Checks /\ CheckRelies(check, manifests, chain, touched) /\ touched = {} /\ check.stage = "insert"
      BY <1>4 DEF publish_by_daemon
    <2>2. check.got = {chain[h] : h \in Hosts}
      BY <2>1 DEF CheckRelies
    <2>3. PICK m \in Published : m.pins = check.got /\ manifests' = Append(manifests, m)
      <3>1. PinsType
        BY DEF PinsInv
      <3> QED BY <1>4, <3>1, DaemonPublishes
    <2>4. manifests' # <<>> /\ ListedBy(manifests') = check.got
      BY <2>3 DEF ListedBy
    <2> QED BY <1>4, <2>2, <2>4, DaemonLeaves
  <1>5. CASE probe_fails \/ signing_fails \/ tick_fails \/ RestartServer
    BY <1>5 DEF probe_fails, signing_fails, tick_fails, RestartServer, Ended
  <1>8. CASE report_change
    <2> SUFFICES ASSUME touched' = {}
                 PROVE  manifests' # <<>> /\ {chain'[h] : h \in Hosts} \subseteq ListedBy(manifests')
      OBVIOUS
    <2>1. /\ check # NoCheck /\ CheckRelies(check, manifests, chain, touched) /\ touched = {}
          /\ check.stage = "report"
      BY <1>8 DEF report_change
    <2>2. /\ check.got = {chain[h] : h \in Hosts} /\ ListedBy(manifests) = check.got
          /\ check.version \in 1 .. Len(manifests)
      BY <2>1 DEF CheckRelies
    <2>3. manifests' # <<>> /\ ListedBy(manifests') = ListedBy(manifests)
      BY <1>8, <2>1, <2>2, OneReported DEF report_change, Tellings
    <2> QED BY <1>8, <2>2, <2>3 DEF report_change
  <1>6. CASE publish_by_hand \/ Rotate
    BY <1>6 DEF publish_by_hand, Rotate
  <1>7. CASE publish_begins \/ DayPasses \/ UNCHANGED pinVars
    BY <1>7 DEF publish_begins, DayPasses, pinVars
  <1> QED BY <1>1, <1>2, <1>3, <1>4, <1>5, <1>6, <1>7, <1>8 DEF CertPinsNext

(* What a manifest says of the one before it is settled when it is inserted; what *)
(* is outstanding is in the hands of the check that inserted it.                 *)
LEMMA PublishedIsTold == PinsInv /\ [CertPinsNext]_pinVars => DropsAreTold'
  <1> SUFFICES ASSUME PinsInv, [CertPinsNext]_pinVars PROVE DropsAreTold'
    OBVIOUS
  <1> USE CertPinsAssumption DEF PinsInv, PinsType
  <1>1. ASSUME manifests' = manifests,
               check' = check \/ (check # NoCheck => check.stage # "report")
        PROVE  DropsAreTold'
    <2>1. CASE check' = check
      BY <1>1, <2>1 DEF DropsAreTold
    <2>2. CASE check # NoCheck => check.stage # "report"
      BY <1>1, <2>2, NothingDue DEF DropsAreTold
    <2> QED BY <1>1, <2>1, <2>2
  <1>2. ASSUME NEW m \in Published, manifests' = Append(manifests, m),
               \A n \in 1 .. Len(manifests) : manifests[n].told = "due" =>
                    check' # NoCheck /\ check'.stage = "report" /\ check'.version = n,
               m.told = "due" => check' # NoCheck /\ check'.stage = "report" /\ check'.version = Len(manifests) + 1,
               (manifests # <<>> /\ ~(ListedBy(manifests) \subseteq m.pins) /\ ~m.mid) => m.told # "none"
        PROVE  DropsAreTold'
    <2> SUFFICES ASSUME NEW n \in 1 .. Len(manifests')
                 PROVE  /\ manifests'[n].told = "due" => check' # NoCheck /\ check'.stage = "report" /\ check'.version = n
                        /\ (n > 1 /\ ~(manifests'[n - 1].pins \subseteq manifests'[n].pins) /\ ~manifests'[n].mid)
                           => manifests'[n].told # "none"
      BY DEF DropsAreTold
    <2>1. Len(manifests') = Len(manifests) + 1
      BY <1>2
    <2>2. CASE n <= Len(manifests)
      <3>1. manifests'[n] = manifests[n] /\ (n > 1 => manifests'[n - 1] = manifests[n - 1])
        BY <1>2, <2>2
      <3> QED BY <1>2, <2>2, <3>1 DEF DropsAreTold
    <2>3. CASE n = Len(manifests) + 1
      <3>1. manifests'[n] = m /\ (n > 1 => manifests # <<>> /\ manifests'[n - 1].pins = ListedBy(manifests))
        BY <1>2, <2>3 DEF ListedBy
      <3> QED BY <1>2, <2>3, <3>1
    <2> QED BY <2>1, <2>2, <2>3
  <1>3. CASE publish_by_daemon
    <2>1. check \in Checks /\ CheckRelies(check, manifests, chain, touched) /\ check.stage = "insert"
      BY <1>3 DEF publish_by_daemon
    <2>2. PICK m \in Published :
              /\ m.pins = check.got /\ manifests' = Append(manifests, m)
              /\ m.mid = TRUE <=> "operator" \in touched
              /\ m.told = IF pins_changed(check.got, check.prior) THEN "due" ELSE "none"
      BY <1>3, DaemonPublishes
    <2>3. (~(ListedBy(manifests) \subseteq check.got) /\ "operator" \notin touched)
          => pins_changed(check.got, check.prior)
      BY <2>1 DEF CheckRelies, pins_changed
    <2>4. (manifests # <<>> /\ ~(ListedBy(manifests) \subseteq m.pins) /\ ~m.mid) => m.told # "none"
      <3>1. ~m.mid => "operator" \notin touched
        BY <2>2
      <3> QED BY <2>2, <2>3, <3>1
    <2>5. m.told = "due" => check' # NoCheck /\ check'.stage = "report" /\ check'.version = Len(manifests) + 1
      <3>1. m.told = "due" => check' = [check EXCEPT !.stage = "report"]
        BY <1>3, <2>2 DEF publish_by_daemon
      <3>2. [check EXCEPT !.stage = "report"] \in Checks /\ NoCheck \notin Checks
        BY <2>1 DEF Checks
      <3>3. check.version = Len(manifests) + 1
        BY <1>3 DEF publish_by_daemon, _next_version
      <3> QED BY <2>1, <3>1, <3>2, <3>3 DEF Checks
    <2>6. \A n \in 1 .. Len(manifests) : manifests[n].told # "due"
      BY <2>1, NothingDue
    <2> QED BY <1>2, <2>2, <2>4, <2>5, <2>6
  <1>4. CASE publish_by_hand /\ manifests' # manifests
    <2>1. PICK m : m = [pins |-> manual.pins, expires |-> day + manual.valid, told |-> "told", mid |-> FALSE]
      OBVIOUS
    <2>2. manifests' = Append(manifests, m) /\ check' = check
      BY <1>4, <2>1 DEF publish_by_hand
    <2>3. m.told = "told"
      BY <2>1
    <2>4. m \in Published
      <3>1. m.told \in Tellings /\ m.mid \in BOOLEAN
        BY <2>1, Zenon DEF Tellings
      <3>2. manual.pins \in SUBSET Pins /\ day + manual.valid \in Nat
        BY <1>4 DEF publish_by_hand, Manuals
      <3> QED BY <2>1, <3>1, <3>2 DEF Published
    <2> QED BY <1>2, <2>2, <2>3, <2>4 DEF DropsAreTold
  <1>5. CASE check_begins \/ probe_host \/ probe_fails \/ decide \/ signing_fails \/ tick_fails
    <2>1. manifests' = manifests /\ (check # NoCheck => check.stage # "report")
      BY <1>5 DEF check_begins, probe_host, probe_fails, decide, signing_fails, tick_fails
    <2> QED BY <1>1, <2>1
  <1>6. CASE publish_begins \/ Rotate \/ DayPasses \/ UNCHANGED pinVars
    BY <1>1, <1>6 DEF publish_begins, Rotate, DayPasses, pinVars
  <1>7. CASE publish_by_hand /\ manifests' = manifests
    BY <1>1, <1>7 DEF publish_by_hand
  <1>8. ASSUME check # NoCheck, check.stage = "report", NEW end \in {"told", "lost"}, manifests' = reported(end)
        PROVE  DropsAreTold'
    <2>1. check.version \in 1 .. Len(manifests) /\ end \in Tellings
      BY <1>8 DEF CheckRelies, Tellings
    <2>2. /\ Len(manifests') = Len(manifests) /\ manifests'[check.version].told = end
          /\ \A n \in 1 .. Len(manifests) :
               /\ n # check.version => manifests'[n] = manifests[n]
               /\ manifests'[n].pins = manifests[n].pins /\ manifests'[n].mid = manifests[n].mid
      BY <1>8, <2>1, OneReported
    <2>3. ASSUME NEW n \in 1 .. Len(manifests)
          PROVE  /\ manifests'[n].told # "due"
                 /\ (n > 1 /\ ~(manifests'[n - 1].pins \subseteq manifests'[n].pins) /\ ~manifests'[n].mid)
                    => manifests'[n].told # "none"
      <3>1. CASE n = check.version
        BY <1>8, <2>2, <3>1
      <3>2. CASE n # check.version
        <4>1. manifests'[n] = manifests[n] /\ (n > 1 => manifests'[n - 1].pins = manifests[n - 1].pins)
          BY <2>2, <3>2
        <4> QED BY <3>2, <4>1 DEF DropsAreTold
      <3> QED BY <3>1, <3>2
    <2> QED BY <2>2, <2>3 DEF DropsAreTold
  <1>9. CASE report_change
    BY <1>8, <1>9 DEF report_change
  <1>10. CASE RestartServer
    <2>1. CASE check # NoCheck /\ check.stage = "report"
      BY <1>8, <1>10, <2>1 DEF RestartServer
    <2>2. CASE ~(check # NoCheck /\ check.stage = "report")
      BY <1>1, <1>10, <2>2 DEF RestartServer
    <2> QED BY <2>1, <2>2
  <1> QED BY <1>3, <1>4, <1>5, <1>6, <1>7, <1>9, <1>10 DEF CertPinsNext

(* A green banner after a check means that the manifest covers every host's      *)
(* chain unless somebody published, a host rotated or a tick failed since the     *)
(* check began, and the daemon sets about reporting every pin it drops, in the    *)
(* tick that drops it (maybe_auto_republish, compute_status).                     *)
THEOREM PinsAreHonest == CertPinsSpec => []PinsHonest
  <1>1. CertPinsInit => PinsInv
    <2> SUFFICES ASSUME CertPinsInit PROVE PinsInv
      OBVIOUS
    <2> USE CertPinsAssumption
    <2>1. manifests \in Seq(Published)
      <3>1. CASE manifests = <<>>
        BY <3>1
      <3>2. CASE manifests # <<>>
        <4>1. PICK p \in SUBSET Pins, e \in {RepublishAt + 1, Validity} :
                 manifests = <<[pins |-> p, expires |-> e, told |-> "told", mid |-> FALSE]>>
          BY <3>2 DEF CertPinsInit
        <4>3. PICK f \in BOOLEAN : f = FALSE
          OBVIOUS
        <4>4. e \in Nat
          OBVIOUS
        <4>5. [pins |-> p, expires |-> e, told |-> "told", mid |-> f] \in Published
          BY <4>4 DEF Published, Tellings
        <4>6. manifests = <<[pins |-> p, expires |-> e, told |-> "told", mid |-> f]>>
          BY <4>1, <4>3
        <4> QED BY <4>5, <4>6
      <3> QED BY <3>1, <3>2
    <2>2. Len(manifests) <= 1 /\ \A n \in 1 .. Len(manifests) : manifests[n].told = "told"
      <3>1. CASE manifests = <<>>
        BY <3>1
      <3>2. CASE manifests # <<>>
        <4>1. PICK m : manifests = <<m>> /\ m.told = "told"
          BY <3>2 DEF CertPinsInit
        <4> QED BY <4>1
      <3> QED BY <3>1, <3>2
    <2>3. DropsAreTold
      BY <2>1, <2>2 DEF DropsAreTold
    <2> QED BY <2>1, <2>3 DEF CertPinsInit, PinsInv, PinsType, Covers
  <1>2. PinsInv /\ [CertPinsNext]_pinVars => PinsInv'
    <2> SUFFICES ASSUME PinsInv, [CertPinsNext]_pinVars PROVE PinsInv'
      OBVIOUS
    <2>1. PinsType'
      BY PinsTypeStep
    <2>2. check' # NoCheck => signing' /\ CheckRelies(check', manifests', chain', touched')
      BY CheckRelied
    <2> QED BY <2>1, <2>2, CheckCovers, PublishedIsTold DEF PinsInv
  <1>3. PinsInv => PinsHonest
    <2> SUFFICES ASSUME PinsInv, compute_status = "green", last_check # "none", check = NoCheck, touched = {}
                 PROVE  {chain[h] : h \in Hosts} \subseteq latest_manifest.pins
      BY DEF PinsHonest, GreenIsCovered, PinsInv
    <2>1. signing /\ last_check \notin {"failed", "probe_failed", "republished_drift"}
      BY DEF compute_status
    <2> QED BY <2>1 DEF PinsInv, Covers, ListedBy, latest_manifest
  <1> QED BY <1>1, <1>2, <1>3, PTL DEF CertPinsSpec

-----------------------------------------------------------------------------
(* Operator alerts                                                           *)

AlertingSpec == AlertingInit /\ [][AlertingNext]_alertVars

Fingerprints == {<<"user", "whale">>} \cup (Providers \X {"auth", "budget"})

Rows ==
    [fp : Fingerprints, first : Nat, last : Nat, open : BOOLEAN, closed : {Void, "resolved", "quiet"},
     mailed : SUBSET Recipients, blind : BOOLEAN]

Underway ==
    [fp : Fingerprints, stage : {"found", "mail", "record"}, row : Nat, to : SUBSET Recipients]

AlertingType ==
    /\ clock \in Nat /\ incidents \in Seq(Rows) /\ probed \in Seq(Fingerprints)
    /\ reports \in [Reporters -> Underway \cup {Void}]

(* What is true of the incidents that nobody wrote without the lock: one that   *)
(* is closed was resolved or has been quiet for long, and one that a later       *)
(* incident of its fingerprint follows was closed, for good, before that.        *)
Settled(T, present) ==
    \A i \in DOMAIN T :
        /\ (~T[i].open /\ ~T[i].blind) => T[i].closed = "resolved" \/ T[i].last + QuietTicks < present
        /\ \A j \in DOMAIN T :
              (i < j /\ T[i].fp = T[j].fp /\ ~T[j].blind)
              => /\ ~T[i].open
                 /\ ~T[i].blind => T[i].closed = "resolved" \/ T[j].first - T[i].last > QuietTicks

AlertingInv == AlertingType /\ Settled(incidents, clock)

(* A new incident follows only incidents of its fingerprint that are closed,     *)
(* or is one that was written without the lock.                                  *)
LEMMA AppendSettles ==
    ASSUME NEW T \in Seq(Rows), clock \in Nat, Settled(T, clock), NEW fp \in Fingerprints, NEW blind \in BOOLEAN,
           blind \/ \A i \in DOMAIN T : T[i].fp = fp => ~T[i].open
    PROVE  /\ Append(T, Incident(fp, blind)) \in Seq(Rows)
           /\ Settled(Append(T, Incident(fp, blind)), clock)
  <1>1. PICK b \in BOOLEAN : b = TRUE
    OBVIOUS
  <1>2. PICK x : x = Incident(fp, blind)
    OBVIOUS
  <1>3. x = [fp |-> fp, first |-> clock, last |-> clock, open |-> b, closed |-> Void, mailed |-> {}, blind |-> blind]
    BY <1>1, <1>2 DEF Incident
  <1>4. x \in Rows
    BY <1>3 DEF Rows
  <1>5. x.fp = fp /\ x.first = clock /\ x.open /\ x.blind = blind
    BY <1>1, <1>3
  <1> DEFINE U == Append(T, x)
  <1>6. U \in Seq(Rows) /\ Len(U) = Len(T) + 1
    BY <1>4
  <1>7. U[Len(T) + 1] = x /\ \A i \in DOMAIN T : U[i] = T[i] /\ T[i] \in Rows
    BY <1>4
  <1>8. DOMAIN U = DOMAIN T \cup {Len(T) + 1} /\ DOMAIN T = 1 .. Len(T)
    BY <1>6
  <1> HIDE DEF U
  <1>9. Settled(U, clock)
    <2> SUFFICES ASSUME NEW i \in DOMAIN U
                 PROVE  /\ (~U[i].open /\ ~U[i].blind) => U[i].closed = "resolved" \/ U[i].last + QuietTicks < clock
                        /\ \A j \in DOMAIN U :
                              (i < j /\ U[i].fp = U[j].fp /\ ~U[j].blind)
                              => /\ ~U[i].open
                                 /\ ~U[i].blind => U[i].closed = "resolved" \/ U[j].first - U[i].last > QuietTicks
      BY DEF Settled
    <2>1. CASE i = Len(T) + 1
      BY <1>5, <1>7, <1>8, <2>1
    <2>2. CASE i \in DOMAIN T
      <3>1. (~U[i].open /\ ~U[i].blind) => U[i].closed = "resolved" \/ U[i].last + QuietTicks < clock
        BY <1>7, <2>2 DEF Settled
      <3>2. ASSUME NEW j \in DOMAIN U, i < j, U[i].fp = U[j].fp, ~U[j].blind
            PROVE  /\ ~U[i].open
                   /\ ~U[i].blind => U[i].closed = "resolved" \/ U[j].first - U[i].last > QuietTicks
        <4>1. CASE j \in DOMAIN T
          BY <1>7, <2>2, <3>2, <4>1 DEF Settled
        <4>2. CASE j = Len(T) + 1
          <5>1. U[j] = x /\ ~blind /\ U[i].fp = fp
            BY <1>5, <1>7, <3>2, <4>2
          <5>2. ~U[i].open
            BY <1>7, <2>2, <5>1
          <5>3. U[i].last \in Nat
            BY <1>7, <2>2 DEF Rows
          <5> QED BY <1>5, <3>1, <5>1, <5>2, <5>3, AlertingAssumption
        <4> QED BY <1>8, <4>1, <4>2
      <3> QED BY <3>1, <3>2
    <2> QED BY <1>8, <2>1, <2>2
  <1> QED BY <1>2, <1>6, <1>9 DEF U

(* The rest writes rows that are there: whatever keeps the order of the           *)
(* fingerprints, opens none, takes no row out of the exemption, moves the last     *)
(* report of no row but an open or an exempt one, and closes only what is          *)
(* resolved or quiet.                                                              *)
Rewrites(T, U, present) ==
    /\ DOMAIN U = DOMAIN T
    /\ \A i \in DOMAIN T :
          /\ U[i].fp = T[i].fp /\ U[i].first = T[i].first
          /\ U[i].open => T[i].open
          /\ T[i].blind => U[i].blind
          /\ (~T[i].open /\ ~U[i].blind) => U[i].last = T[i].last /\ U[i].closed = T[i].closed
          /\ (T[i].open /\ ~U[i].open /\ ~U[i].blind) =>
                U[i].closed = "resolved" \/ U[i].last + QuietTicks < present

(* A table that is rewritten that way is as settled as it was.                    *)
LEMMA RewriteSettles ==
    ASSUME NEW T, NEW U, NEW present, Settled(T, present), Rewrites(T, U, present)
    PROVE  Settled(U, present)
  BY DEF Settled, Rewrites

(* Time that passes makes a quiet incident no less quiet.                          *)
LEMMA TickSettles ==
    ASSUME NEW T \in Seq(Rows), NEW present \in Nat, Settled(T, present)
    PROVE  Settled(T, present + 1)
  <1>1. ASSUME NEW i \in DOMAIN T PROVE T[i].last \in Nat
    <2>1. T[i] \in Rows
      OBVIOUS
    <2> QED BY <2>1 DEF Rows
  <1> QED BY <1>1, AlertingAssumption DEF Settled

(* The sweep closes only what has been quiet for long.                             *)
LEMMA SweepSettles ==
    ASSUME AlertingInv
    PROVE  /\ _sweep_stale_incidents \in Seq(Rows) /\ Len(_sweep_stale_incidents) = Len(incidents)
           /\ Settled(_sweep_stale_incidents, clock)
  <1> DEFINE U == _sweep_stale_incidents
  <1>1. PICK f \in BOOLEAN : f = FALSE
    OBVIOUS
  <1>2. incidents \in Seq(Rows) /\ clock \in Nat /\ Settled(incidents, clock)
    BY DEF AlertingInv, AlertingType
  <1>3. U = [n \in DOMAIN incidents |->
               IF stale(incidents[n]) THEN [incidents[n] EXCEPT !.open = f, !.closed = "quiet"] ELSE incidents[n]]
    BY <1>1 DEF _sweep_stale_incidents
  <1> HIDE DEF U
  <1>4. ASSUME NEW n \in DOMAIN incidents
        PROVE  /\ U[n] \in Rows
               /\ stale(incidents[n]) =>
                     /\ U[n].fp = incidents[n].fp /\ U[n].first = incidents[n].first /\ ~U[n].open
                     /\ U[n].blind = incidents[n].blind /\ U[n].last = incidents[n].last
               /\ ~stale(incidents[n]) => U[n] = incidents[n]
    <2>1. incidents[n] \in Rows
      BY <1>2
    <2>2. CASE stale(incidents[n])
      <3>1. U[n] = [incidents[n] EXCEPT !.open = f, !.closed = "quiet"]
        BY <1>3, <2>2
      <3> QED BY <1>1, <2>1, <2>2, <3>1 DEF Rows
    <2>3. CASE ~stale(incidents[n])
      BY <1>3, <2>1, <2>3
    <2> QED BY <2>2, <2>3
  <1>5. DOMAIN U = 1 .. Len(incidents) /\ U \in Seq(Rows) /\ Len(U) = Len(incidents)
    <2>1. U \in [1 .. Len(incidents) -> Rows]
      <3>1. DOMAIN incidents = 1 .. Len(incidents)
        BY <1>2
      <3>2. DOMAIN U = DOMAIN incidents /\ \A n \in DOMAIN incidents : U[n] \in Rows
        BY <1>3, <1>4
      <3>3. U = [n \in DOMAIN U |-> U[n]]
        BY <1>3
      <3> QED BY <3>1, <3>2, <3>3
    <2> QED BY <1>2, <2>1
  <1>6. Rewrites(incidents, U, clock)
    <2>1. ASSUME NEW i \in DOMAIN incidents
          PROVE  /\ U[i].fp = incidents[i].fp /\ U[i].first = incidents[i].first
                 /\ U[i].open => incidents[i].open
                 /\ incidents[i].blind => U[i].blind
                 /\ (~incidents[i].open /\ ~U[i].blind) => U[i].last = incidents[i].last /\ U[i].closed = incidents[i].closed
                 /\ (incidents[i].open /\ ~U[i].open /\ ~U[i].blind) =>
                       U[i].closed = "resolved" \/ U[i].last + QuietTicks < clock
      <3>1. CASE stale(incidents[i])
        <4>a. incidents[i] \in Rows
          BY <1>2
        <4>1. incidents[i].open /\ incidents[i].last < clock - QuietTicks /\ incidents[i].last \in Nat
          BY <4>a, <3>1 DEF stale, Rows
        <4>2. U[i].last + QuietTicks < clock
          BY <1>2, <1>4, <3>1, <4>1, AlertingAssumption
        <4> QED BY <1>4, <3>1, <4>1, <4>2
      <3>2. CASE ~stale(incidents[i])
        BY <1>4, <3>2
      <3> QED BY <3>1, <3>2
    <2> QED BY <1>2, <1>5, <2>1 DEF Rewrites
  <1> QED BY <1>2, <1>5, <1>6, RewriteSettles DEF U

(* A report joins the incident that is open, or one that is not any more when      *)
(* it read without the lock.                                                       *)
LEMMA JoinSettles ==
    ASSUME NEW T \in Seq(Rows), clock \in Nat, Settled(T, clock), NEW n, NEW blind \in BOOLEAN,
           n \in DOMAIN T => blind \/ T[n].open
    PROVE  Joined(T, n, blind) \in Seq(Rows) /\ Settled(Joined(T, n, blind), clock)
  <1> DEFINE U == Joined(T, n, blind)
  <1>1. CASE n \notin DOMAIN T
    <2>1. U = T
      BY <1>1 DEF Joined
    <2> QED BY <2>1
  <1>2. CASE n \in DOMAIN T
    <2>1. T[n] \in Rows
      BY <1>2
    <2>2. PICK b \in BOOLEAN : b = (T[n].blind \/ blind)
      BY Zenon
    <2>a. PICK x : x = [T[n] EXCEPT !.last = clock, !.blind = T[n].blind \/ blind]
      OBVIOUS
    <2>3. x = [T[n] EXCEPT !.last = clock, !.blind = b]
      BY <2>2, <2>a
    <2>4. /\ x \in Rows /\ x.fp = T[n].fp /\ x.first = T[n].first /\ x.open = T[n].open
          /\ x.last = clock /\ x.blind = b /\ x.closed = T[n].closed
      BY <2>1, <2>3 DEF Rows
    <2>5. U = [T EXCEPT ![n] = x]
      BY <1>2, <2>2, <2>3 DEF Joined
    <2> HIDE DEF U
    <2>6. U \in Seq(Rows) /\ DOMAIN U = DOMAIN T
      BY <1>2, <2>4, <2>5
    <2>7. Rewrites(T, U, clock)
      <3>1. U[n] = x /\ \A i \in DOMAIN T : i # n => U[i] = T[i]
        BY <1>2, <2>5
      <3>2. T[n].blind => x.blind
        BY <2>2, <2>4
      <3>3. ~x.blind => T[n].open
        BY <1>2, <2>2, <2>4
      <3> QED BY <2>4, <2>6, <3>1, <3>2, <3>3 DEF Rewrites
    <2> QED BY <2>6, <2>7, RewriteSettles DEF U
  <1> QED BY <1>1, <1>2

(* What a report ends in, on the table it has swept or has not swept: an incident    *)
(* it joins is open, or the report is one without the lock.                          *)
LEMMA WriteSettles ==
    ASSUME AlertingType, NEW p \in Reporters, NEW fp \in Fingerprints, NEW T \in Seq(Rows), Settled(T, clock),
           NEW n \in Nat, NEW blind \in BOOLEAN, Len(T) = Len(incidents),
           (n \in DOMAIN T) => blind \/ T[n].open,
           n = 0 => blind \/ \A i \in DOMAIN T : T[i].fp = fp => ~T[i].open,
           bump_or_insert(p, fp, T, n, blind)
    PROVE  /\ incidents' \in Seq(Rows) /\ reports' \in [Reporters -> Underway \cup {Void}]
           /\ Settled(incidents', clock)
  <1> USE DEF AlertingType
  <1>1. CASE n # 0
    <2>1. incidents' = Joined(T, n, blind) /\ reports' = [reports EXCEPT ![p] = Void]
      BY <1>1 DEF bump_or_insert
    <2> QED BY <2>1, JoinSettles
  <1>2. CASE n = 0
    <2>1. incidents' = Append(T, Incident(fp, blind))
      BY <1>2 DEF bump_or_insert
    <2>2. incidents' \in Seq(Rows) /\ Settled(incidents', clock)
      BY <1>2, <2>1, AppendSettles
    <2>3. PICK x : /\ x \in Underway \cup {Void}
                   /\ reports' = [reports EXCEPT ![p] = x]
      <3>1. CASE _active_recipients_for(fp) = {}
        BY <1>2, <3>1 DEF bump_or_insert
      <3>2. CASE _active_recipients_for(fp) # {}
        <4>1. _active_recipients_for(fp) \in SUBSET Recipients /\ Len(incidents) + 1 \in Nat
          BY DEF _active_recipients_for
        <4>2. reports' = [reports EXCEPT ![p] =
                 [fp |-> fp, stage |-> "mail", row |-> Len(incidents) + 1, to |-> _active_recipients_for(fp)]]
          BY <1>2, <3>2 DEF bump_or_insert
        <4>3. [fp |-> fp, stage |-> "mail", row |-> Len(incidents) + 1, to |-> _active_recipients_for(fp)] \in Underway
          BY <4>1 DEF Underway
        <4> QED BY <4>2, <4>3
      <3> QED BY <3>1, <3>2
    <2> QED BY <2>2, <2>3
  <1> QED BY <1>1, <1>2

(* The row a report finds is open; it finds none when none is.                        *)
LEMMA OpenRowFound ==
    ASSUME NEW T \in Seq(Rows), NEW fp
    PROVE  /\ open_row(T, fp) \in Nat
           /\ open_row(T, fp) \in DOMAIN T => T[open_row(T, fp)].open
           /\ open_row(T, fp) = 0 => \A i \in DOMAIN T : T[i].fp = fp => ~T[i].open
  <1> DEFINE found == {n \in DOMAIN T : T[n].open /\ T[n].fp = fp}
  <1>1. found \subseteq Nat \ {0}
    OBVIOUS
  <1>2. CASE found = {}
    BY <1>2 DEF open_row
  <1>3. CASE found # {}
    <2>1. \E n \in found : \A k \in found : n <= k
      BY <1>1, <1>3, SmallestOf
    <2>2. open_row(T, fp) \in found
      BY <1>3, <2>1 DEF open_row
    <2> QED BY <1>1, <2>2
  <1> QED BY <1>2, <1>3

(* A report that sweeps, and one that reads without the lock and writes later.         *)
LEMMA ReportSettles ==
    ASSUME AlertingInv, NEW p \in Reporters, NEW fp \in Fingerprints, report_incident(p, fp)
    PROVE  /\ incidents' \in Seq(Rows) /\ reports' \in [Reporters -> Underway \cup {Void}]
           /\ Settled(incidents', clock)
  <1> DEFINE U == _sweep_stale_incidents
             n == open_row(U, fp)
  <1>1. U \in Seq(Rows) /\ Len(U) = Len(incidents) /\ Settled(U, clock)
    BY SweepSettles
  <1>2. /\ n \in Nat
        /\ n \in DOMAIN U => U[n].open
        /\ n = 0 => \A i \in DOMAIN U : U[i].fp = fp => ~U[i].open
    BY <1>1, OpenRowFound
  <1>3. bump_or_insert(p, fp, U, n, FALSE)
    BY DEF report_incident
  <1>4. AlertingType /\ FALSE \in BOOLEAN
    BY DEF AlertingInv
  <1>5. /\ n \in DOMAIN U => FALSE \/ U[n].open
        /\ n = 0 => FALSE \/ \A i \in DOMAIN U : U[i].fp = fp => ~U[i].open
    BY <1>2
  <1> HIDE DEF U, n
  <1> QED BY <1>1, <1>2, <1>3, <1>4, <1>5, WriteSettles

(* A report whose sweep was skipped reads the open row without a lock.              *)
LEMMA UnsweptFits ==
    ASSUME AlertingInv, NEW p \in Reporters, NEW fp \in Fingerprints, report_unswept(p, fp)
    PROVE  reports' \in [Reporters -> Underway \cup {Void}] /\ UNCHANGED <<clock, incidents>>
  <1>1. open_row(incidents, fp) \in Nat
    BY OpenRowFound DEF AlertingInv, AlertingType
  <1>2. [fp |-> fp, stage |-> "found", row |-> open_row(incidents, fp), to |-> {}] \in Underway
    BY <1>1 DEF Underway
  <1> QED BY <1>2 DEF report_unswept, AlertingInv, AlertingType

(* Only an alert is reported, and it names a provider and what is wrong with it.        *)
LEMMA ProbesFit == ASSUME AlertingInv, probe_providers PROVE probed' \in Seq(Fingerprints)
  <1>1. PICK seen \in [Providers -> ProbeAnswers] :
          \E order \in [1 .. Cardinality({v \in Providers : _alert_decision(v, seen[v]) # Void}) ->
                         {v \in Providers : _alert_decision(v, seen[v]) # Void}] :
             probed' = [i \in DOMAIN order |-> <<order[i], _alert_decision(order[i], seen[order[i]])>>]
    BY DEF probe_providers
  <1> DEFINE hits == {v \in Providers : _alert_decision(v, seen[v]) # Void}
  <1>a. PICK order \in [1 .. Cardinality(hits) -> hits] :
           probed' = [i \in DOMAIN order |-> <<order[i], _alert_decision(order[i], seen[order[i]])>>]
    BY <1>1
  <1>2. Cardinality(hits) \in Nat
    BY AlertingAssumption, FS_Subset, FS_CardinalityType
  <1>3. ASSUME NEW v \in hits PROVE <<v, _alert_decision(v, seen[v])>> \in Fingerprints
    <2>1. _alert_decision(v, seen[v]) \in {"auth", "budget"}
      BY DEF _alert_decision
    <2> QED BY <2>1 DEF Fingerprints
  <1>4. DOMAIN order = 1 .. Cardinality(hits) /\ \A i \in DOMAIN order : order[i] \in hits
    BY <1>a
  <1> HIDE DEF hits
  <1>5. probed' \in [1 .. Cardinality(hits) -> Fingerprints]
    BY <1>a, <1>3, <1>4
  <1> QED BY <1>2, <1>5

(* A row put in place of another leaves a table of rows.                                  *)
LEMMA RowReplaced ==
    ASSUME NEW T \in Seq(Rows), NEW n \in DOMAIN T, NEW x \in Rows, NEW U, U = [T EXCEPT ![n] = x]
    PROVE  U \in Seq(Rows) /\ DOMAIN U = DOMAIN T
  OBVIOUS

(* Every report, letter, answer of the operator, crash and tick keeps the incidents so.  *)
LEMMA AlertingStep == AlertingInv /\ [AlertingNext]_alertVars => AlertingInv'
  <1> SUFFICES ASSUME AlertingInv, [AlertingNext]_alertVars PROVE AlertingInv'
    OBVIOUS
  <1> USE DEF AlertingInv, AlertingType
  <1>1. CASE probe_providers
    BY <1>1, ProbesFit DEF probe_providers
  <1>2. CASE report_probe
    <2>1. Head(probed) \in Fingerprints /\ Tail(probed) \in Seq(Fingerprints) /\ "health" \in Reporters
      BY <1>2, AlertingAssumption DEF report_probe
    <2>2. CASE report_incident("health", Head(probed))
      BY <1>2, <2>1, <2>2, ReportSettles DEF report_probe, report_incident
    <2>3. CASE report_unswept("health", Head(probed))
      BY <1>2, <2>1, <2>3, UnsweptFits DEF report_probe
    <2> QED BY <1>2, <2>2, <2>3 DEF report_probe
  <1>3. CASE Stop
    BY <1>3 DEF Stop
  <1>4. CASE ClockTick
    BY <1>4, TickSettles DEF ClockTick
  <1>5. ASSUME NEW p \in Reporters, check_whale(p) PROVE AlertingInv'
    <2>1. Whale \in Fingerprints
      BY DEF Whale, Fingerprints
    <2>2. CASE report_incident(p, Whale)
      BY <1>5, <2>1, <2>2, ReportSettles DEF check_whale, report_incident
    <2>3. CASE report_unswept(p, Whale)
      BY <1>5, <2>1, <2>3, UnsweptFits DEF check_whale
    <2> QED BY <1>5, <2>2, <2>3 DEF check_whale
  <1>6. ASSUME NEW p \in Reporters, write_unswept(p) PROVE AlertingInv'
    <2>1. reports[p] \in Underway
      BY <1>6 DEF write_unswept
    <2>2. reports[p].fp \in Fingerprints /\ reports[p].row \in Nat
      BY <2>1 DEF Underway
    <2>3. PICK b \in BOOLEAN : b = TRUE
      OBVIOUS
    <2>4. bump_or_insert(p, reports[p].fp, incidents, reports[p].row, b)
      BY <1>6, <2>3 DEF write_unswept
    <2> QED BY <1>6, <2>2, <2>3, <2>4, WriteSettles DEF write_unswept
  <1>7. ASSUME NEW p \in Reporters, send_alerts(p) PROVE AlertingInv'
    <2>1. PICK sent \in SUBSET reports[p].to :
             reports' = [reports EXCEPT ![p] =
                IF sent = {} THEN Void ELSE [reports[p] EXCEPT !.stage = "record", !.to = sent]]
      BY <1>7 DEF send_alerts
    <2>2. reports[p] \in Underway
      BY <1>7 DEF send_alerts
    <2>3. sent \in SUBSET Recipients
      BY <2>2 DEF Underway
    <2>4. [reports[p] EXCEPT !.stage = "record", !.to = sent] \in Underway
      BY <2>2, <2>3 DEF Underway
    <2> QED BY <1>7, <2>1, <2>4 DEF send_alerts
  <1>8. ASSUME NEW p \in Reporters, record_emailed(p) PROVE AlertingInv'
    <2>1. reports[p] \in Underway
      BY <1>8 DEF record_emailed
    <2>2. PICK n \in Nat, to \in SUBSET Recipients : n = reports[p].row /\ to = reports[p].to
      BY <2>1 DEF Underway
    <2>a. incidents \in Seq(Rows) /\ incidents' = [incidents EXCEPT ![n].mailed = to]
      BY <1>8, <2>2 DEF record_emailed
    <2>3. CASE n \notin DOMAIN incidents
      <3>1. incidents' = incidents
        BY <2>a, <2>3
      <3> QED BY <1>8, <3>1 DEF record_emailed
    <2>4. CASE n \in DOMAIN incidents
      <3>1. incidents[n] \in Rows
        BY <2>4
      <3>2. PICK x : x = [incidents[n] EXCEPT !.mailed = to]
        OBVIOUS
      <3>3. /\ x \in Rows /\ x.fp = incidents[n].fp /\ x.first = incidents[n].first /\ x.open = incidents[n].open
            /\ x.last = incidents[n].last /\ x.blind = incidents[n].blind /\ x.closed = incidents[n].closed
        BY <2>2, <3>1, <3>2 DEF Rows
      <3>4. incidents' = [incidents EXCEPT ![n] = x]
        BY <2>a, <3>2
      <3>5. incidents' \in Seq(Rows) /\ DOMAIN incidents' = DOMAIN incidents
        BY <2>a, <2>4, <3>3, <3>4, RowReplaced
      <3>6. Rewrites(incidents, incidents', clock)
        BY <2>4, <3>3, <3>4, <3>5 DEF Rewrites
      <3> QED BY <1>8, <3>5, <3>6, RewriteSettles DEF record_emailed
    <2> QED BY <2>3, <2>4
  <1>9. ASSUME NEW fp, resolve_incident(fp) PROVE AlertingInv'
    <2>1. PICK f \in BOOLEAN : f = FALSE
      OBVIOUS
    <2>2. incidents' = [n \in DOMAIN incidents |->
             IF incidents[n].open /\ incidents[n].fp = fp
             THEN [incidents[n] EXCEPT !.open = f, !.closed = "resolved"] ELSE incidents[n]]
      BY <1>9, <2>1 DEF resolve_incident
    <2>3. ASSUME NEW n \in DOMAIN incidents
          PROVE  /\ incidents'[n] \in Rows
                 /\ \/ incidents'[n] = incidents[n]
                    \/ /\ incidents'[n].fp = incidents[n].fp /\ incidents'[n].first = incidents[n].first
                       /\ ~incidents'[n].open /\ incidents'[n].closed = "resolved" /\ incidents[n].open
                       /\ incidents'[n].blind = incidents[n].blind
      <3>1. incidents[n] \in Rows
        BY <2>3
      <3>2. CASE incidents[n].open /\ incidents[n].fp = fp
        <4>1. incidents'[n] = [incidents[n] EXCEPT !.open = f, !.closed = "resolved"]
          BY <2>2, <3>2
        <4> QED BY <2>1, <3>1, <3>2, <4>1 DEF Rows
      <3>3. CASE ~(incidents[n].open /\ incidents[n].fp = fp)
        BY <2>2, <3>1, <3>3
      <3> QED BY <3>2, <3>3
    <2>4. incidents' \in [1 .. Len(incidents) -> Rows] /\ DOMAIN incidents' = DOMAIN incidents
      <3>1. DOMAIN incidents = 1 .. Len(incidents)
        OBVIOUS
      <3>2. DOMAIN incidents' = DOMAIN incidents /\ incidents' = [n \in DOMAIN incidents' |-> incidents'[n]]
        BY <2>2
      <3> QED BY <2>3, <3>1, <3>2
    <2>5. incidents' \in Seq(Rows)
      BY <2>4
    <2>6. Rewrites(incidents, incidents', clock)
      BY <2>3, <2>4 DEF Rewrites
    <2> QED BY <1>9, <2>5, <2>6, RewriteSettles DEF resolve_incident
  <1>10. ASSUME NEW r \in Recipients, edit_recipient(r) PROVE AlertingInv'
    BY <1>10 DEF edit_recipient
  <1>11. CASE UNCHANGED alertVars
    BY <1>11 DEF alertVars
  <1> QED BY <1>1, <1>2, <1>3, <1>4, <1>5, <1>6, <1>7, <1>8, <1>9, <1>10, <1>11 DEF AlertingNext

(* Of two incidents (and letters) of one fingerprint, none written by a report that      *)
(* had read without the lock, the first was resolved by hand or had seen no report for    *)
(* longer than the quiet time; and one of them at most is open (report_incident,          *)
(* _sweep_stale_incidents, resolve_incident).                                             *)
THEOREM TroubleIsMailedOnce == AlertingSpec => []MailedOncePerTrouble
  <1>1. AlertingInit => AlertingInv
    <2> SUFFICES ASSUME AlertingInit PROVE AlertingInv
      OBVIOUS
    <2>1. DOMAIN incidents = {}
      BY DEF AlertingInit
    <2> QED BY <2>1 DEF AlertingInit, AlertingInv, AlertingType, Settled
  <1>2. AlertingInv => MailedOncePerTrouble
    BY DEF AlertingInv, Settled, MailedOncePerTrouble, QuietBetween, OneOpen
  <1> QED BY <1>1, <1>2, AlertingStep, PTL DEF AlertingSpec

-----------------------------------------------------------------------------
(* The reset calendar                                                        *)

(* What is true of an account's date beside the types: it lies at most one      *)
(* month ahead, so the month before it had begun when the meter was zeroed.      *)
CalendarInv ==
    /\ TypeOK
    /\ today.m <= Horizon + 1 /\ resetsAt.m \in 2 .. today.m + 1
    /\ AtOrBefore(zeroed, today)
    /\ AtOrBefore(AddMonths(resetsAt, -1), zeroed)

(* The months are numbered from 1, and each has its number of days.               *)
LEMMA MonthsNumbered ==
    /\ Len(Length) \in Nat /\ Months = 1 .. Len(Length)
    /\ \A m \in Months : Length[m] \in 28 .. 31
  BY CalendarAssumption DEF Months

(* A date has a month and a day, and is told from another by them.                *)
LEMMA DatesAreRecords ==
    ASSUME NEW a \in Date
    PROVE  /\ a.m \in Months /\ a.m \in Int /\ a.d \in 1 .. 31 /\ a.d \in Int
           /\ a = [m |-> a.m, d |-> a.d]
  <1>1. a.m \in Months /\ a.d \in 1 .. 31 /\ a = [m |-> a.m, d |-> a.d]
    BY DEF Date
  <1>2. \A m \in Months : m \in Int
    BY MonthsNumbered
  <1> QED BY <1>1, <1>2

(* A date moved by whole months is a date of the month it is moved to.           *)
LEMMA MonthsMoved ==
    ASSUME NEW date \in Date, date.d <= Length[date.m], NEW n \in Int, date.m + n \in Months
    PROVE  /\ AddMonths(date, n) \in Date
           /\ AddMonths(date, n).m = date.m + n
           /\ AddMonths(date, n).d <= Length[date.m + n]
           /\ AddMonths(date, n).d <= date.d
           /\ AddMonths(date, n).d = date.d \/ AddMonths(date, n).d = Length[date.m + n]
           /\ AddMonths(date, n).d # date.d => date.d > Length[date.m + n]
  <1>1. Length[date.m + n] \in 28 .. 31
    BY MonthsNumbered
  <1>2. PICK k \in 1 .. 31 : k = IF date.d > Length[date.m + n] THEN Length[date.m + n] ELSE date.d
    BY <1>1, DatesAreRecords
  <1>3. AddMonths(date, n) = [m |-> date.m + n, d |-> k]
    BY <1>2 DEF AddMonths
  <1>4. [m |-> date.m + n, d |-> k] \in Date
    BY DEF Date
  <1> QED BY <1>1, <1>2, <1>3, <1>4, DatesAreRecords

(* Of two dates one is not after the other.                                      *)
LEMMA DatesCompare ==
    ASSUME NEW a \in Date, NEW b \in Date
    PROVE  /\ ~Before(a, b) => AtOrBefore(b, a)
           /\ Before(a, b) => ~AtOrBefore(b, a)
           /\ \A c \in Date : AtOrBefore(a, b) /\ AtOrBefore(b, c) => AtOrBefore(a, c)
  <1>1. a.m \in Int /\ a.d \in Int /\ b.m \in Int /\ b.d \in Int
    BY DatesAreRecords
  <1>2. \A c \in Date : c.m \in Int /\ c.d \in Int
    BY DatesAreRecords
  <1>3. \A x, y \in Date : x.m = y.m /\ x.d = y.d => x = y
    BY DatesAreRecords
  <1> QED BY <1>1, <1>2, <1>3 DEF Before, AtOrBefore

(* roll_forward_past lands in the month that is running: some number of months    *)
(* leads past `present`, and the one below it does not.                           *)
LEMMA RolledIntoThisMonth ==
    ASSUME NEW date \in Date, date.d <= Length[date.m],
           NEW present \in Date, present.d <= Length[present.m], present.m <= Horizon + 1,
           AtOrBefore(date, present)
    PROVE  \E n \in 1 .. Horizon + 2 :
             /\ date.m + n \in Months /\ date.m + n <= present.m + 1
             /\ RollForwardPast(date, present) = AddMonths(date, n)
             /\ Before(present, AddMonths(date, n))
             /\ AtOrBefore(AddMonths(AddMonths(date, n), -1), present)
  <1> DEFINE past(n) == Before(present, AddMonths(date, n))
             reach == 1 .. Len(Length) - date.m
             S == {n \in reach : past(n)}
             first(k) == past(k) /\ \A j \in 1 .. k - 1 : ~past(j)
  <1>1. /\ date.m \in Nat \ {0} /\ present.m \in Nat \ {0} /\ date.m <= present.m
        /\ Horizon \in Nat /\ Horizon + 2 <= Len(Length) /\ Len(Length) \in Nat
        /\ Months = 1 .. Len(Length)
    BY CalendarAssumption DEF Date, Months, AtOrBefore, Before
  <1>2. present.m + 1 - date.m \in S
    <2>1. present.m + 1 - date.m \in reach
      BY <1>1
    <2>2. AddMonths(date, present.m + 1 - date.m).m = present.m + 1
      BY <1>1 DEF AddMonths
    <2> QED BY <1>1, <2>1, <2>2 DEF Before
  <1>3. PICK n \in S : \A k \in S : n <= k
    <2>1. S \in SUBSET Nat
      BY <1>1
    <2> QED BY <1>2, <2>1, SmallestOf
  <1>4. n \in reach /\ n <= present.m + 1 - date.m /\ first(n)
    BY <1>1, <1>2, <1>3
  <1>5. ASSUME NEW k \in reach, first(k) PROVE k = n
    <2>1. k \in Int /\ n \in Int /\ 1 <= k /\ 1 <= n
      BY <1>1, <1>4
    <2>2. ~(k < n)
      <3> SUFFICES ASSUME k < n PROVE FALSE
        OBVIOUS
      <3>1. k \in 1 .. n - 1
        BY <2>1
      <3> QED BY <1>4, <1>5, <3>1
    <2>3. ~(n < k)
      <3> SUFFICES ASSUME n < k PROVE FALSE
        OBVIOUS
      <3>1. n \in 1 .. k - 1
        BY <2>1
      <3> QED BY <1>4, <1>5, <3>1
    <2> QED BY <2>1, <2>2, <2>3
  <1>6. RollForwardPast(date, present) = AddMonths(date, n)
    <2> DEFINE chosen == CHOOSE k \in reach : first(k)
    <2>1. chosen \in reach /\ first(chosen)
      BY <1>4
    <2>2. chosen = n
      BY <1>5, <2>1
    <2>3. RollForwardPast(date, present) = AddMonths(date, chosen)
      BY DEF RollForwardPast
    <2> QED BY <2>2, <2>3
  <1>7. n \in 1 .. Horizon + 2 /\ date.m + n \in Months /\ date.m + n <= present.m + 1
        /\ date.m + (n - 1) \in Months
    <2>1. n \in 1 .. Len(Length) - date.m /\ n <= present.m + 1 - date.m
      BY <1>4
    <2>2. n \in Nat /\ 1 <= n /\ n <= present.m + 1 - date.m
      BY <1>1, <2>1
    <2>3. present.m <= Horizon + 1
      OBVIOUS
    <2> HIDE DEF past, reach, S, first
    <2>4. PICK a \in Nat, b \in Nat, h \in Nat, l \in Nat :
            a = date.m /\ b = present.m /\ h = Horizon /\ l = Len(Length)
      BY <1>1
    <2>5. 1 <= a /\ a <= b /\ b <= h + 1 /\ h + 2 <= l /\ n <= b + 1 - a
      BY <1>1, <2>2, <2>3, <2>4
    <2>6. /\ n \in 1 .. h + 2 /\ a + n \in 1 .. l
          /\ a + n <= b + 1 /\ a + (n - 1) \in 1 .. l
      BY <2>2, <2>5
    <2> QED BY <1>1, <2>4, <2>6
  <1>8. AtOrBefore(AddMonths(date, n - 1), present)
    <2>1. CASE n = 1
      <3>1. AddMonths(date, 0) = date
        <4>1. date.m + 0 = date.m
          BY <1>1
        <4>2. ~(date.d > Length[date.m])
          <5>1. Length[date.m] \in Int /\ date.d \in Int
            BY DatesAreRecords, MonthsNumbered
          <5> QED BY <5>1
        <4> QED BY <4>1, <4>2, DatesAreRecords DEF AddMonths
      <3> QED BY <2>1, <3>1
    <2>2. CASE n # 1
      <3>1. ~past(n - 1)
        BY <1>4, <2>2
      <3>2. AddMonths(date, n - 1) \in Date
        BY <1>7, MonthsMoved
      <3> QED BY <3>1, <3>2, DatesCompare
    <2> QED BY <2>1, <2>2
  <1>9. AtOrBefore(AddMonths(AddMonths(date, n), -1), AddMonths(date, n - 1))
    <2>1. AddMonths(date, n) = [m |-> date.m + n, d |-> AddMonths(date, n).d]
      BY DEF AddMonths
    <2>2. /\ AddMonths(date, n) \in Date /\ AddMonths(date, n).m = date.m + n
          /\ AddMonths(date, n).d <= Length[date.m + n] /\ AddMonths(date, n).d <= date.d
      BY <1>7, MonthsMoved
    <2>3. /\ AddMonths(AddMonths(date, n), -1) \in Date
          /\ AddMonths(AddMonths(date, n), -1).m = date.m + (n - 1)
          /\ AddMonths(AddMonths(date, n), -1).d <= AddMonths(date, n).d
          /\ AddMonths(AddMonths(date, n), -1).d <= Length[date.m + (n - 1)]
      <3>1. date.m + n + -1 = date.m + (n - 1)
        BY <1>1, <1>4
      <3> HIDE DEF reach, S
      <3> QED BY <1>7, <2>2, <3>1, MonthsMoved
    <2>4. /\ AddMonths(date, n - 1) \in Date /\ AddMonths(date, n - 1).m = date.m + (n - 1)
          /\ AddMonths(date, n - 1).d = date.d \/ AddMonths(date, n - 1).d = Length[date.m + (n - 1)]
      BY <1>7, MonthsMoved
    <2>5. \A x, y \in Date : x.m = y.m /\ x.d <= y.d => AtOrBefore(x, y)
      BY DatesAreRecords DEF AtOrBefore, Before
    <2>6. AddMonths(AddMonths(date, n), -1).d <= AddMonths(date, n - 1).d
      <3>1. /\ AddMonths(AddMonths(date, n), -1).d \in Int /\ AddMonths(date, n).d \in Int
            /\ date.d \in Int /\ Length[date.m + (n - 1)] \in Int
        <4>1. \A a \in Date : a.d \in Int
          BY DatesAreRecords
        <4>2. \A m \in Months : Length[m] \in Int
          BY MonthsNumbered
        <4> HIDE DEF past, reach, S, first
        <4> QED BY <1>7, <2>2, <2>3, <4>1, <4>2
      <3>2. PICK x \in Int, y \in Int, z \in Int, w \in Int :
              /\ x = AddMonths(AddMonths(date, n), -1).d /\ y = AddMonths(date, n).d
              /\ z = date.d /\ w = Length[date.m + (n - 1)]
        BY <3>1
      <3>3. x <= y /\ x <= w /\ y <= z
        BY <2>2, <2>3, <3>2
      <3>4. x <= z
        BY <3>3
      <3> QED BY <2>4, <3>2, <3>3, <3>4
    <2> QED BY <2>3, <2>4, <2>5, <2>6
  <1>10. AtOrBefore(AddMonths(AddMonths(date, n), -1), present)
    <2>1. AddMonths(AddMonths(date, n), -1) \in Date /\ AddMonths(date, n - 1) \in Date
      <3>1. AddMonths(date, n) \in Date /\ AddMonths(date, n).m + -1 \in Months
            /\ AddMonths(date, n).d <= Length[AddMonths(date, n).m]
        <4>1. date.m + n + -1 = date.m + (n - 1)
          BY <1>1, <1>4
        <4> QED BY <1>7, <4>1, MonthsMoved
      <3> QED BY <1>7, <3>1, MonthsMoved
    <2> QED BY <1>8, <1>9, <2>1, DatesCompare
  <1> QED BY <1>4, <1>6, <1>7, <1>10

(* A day that passes and a reset keep the invariant.                              *)
LEMMA CalendarStep == CalendarInv /\ [Next]_vars => CalendarInv'
  <1> SUFFICES ASSUME CalendarInv, [Next]_vars PROVE CalendarInv'
    OBVIOUS
  <1> USE DEF CalendarInv
  <1>1. Horizon \in Nat /\ \A m \in 1 .. Horizon + 2 : m \in Months
    BY CalendarAssumption, MonthsNumbered
  <1>2. CASE NextDay
    <2>1. resetsAt' = resetsAt /\ zeroed' = zeroed
      BY <1>2 DEF NextDay
    <2>2. PICK m \in Months, d \in 1 .. 31 : today = [m |-> m, d |-> d]
      BY DatesAreRecords DEF TypeOK
    <2>3. m \in Int /\ d \in Int /\ Length[m] \in 28 .. 31 /\ Length[m + 1] \in 28 .. 31
          /\ m <= Horizon /\ m + 1 \in Months
      <3>1. m \in Int /\ 1 <= m /\ d \in Int
        BY MonthsNumbered
      <3>2. m <= Horizon
        BY <1>2, <2>2 DEF NextDay
      <3>3. m + 1 \in 1 .. Horizon + 2
        BY <1>1, <3>1, <3>2
      <3> QED BY <1>1, <3>1, <3>2, <3>3, MonthsNumbered
    <2>4. today' = IF d < Length[m] THEN [m |-> m, d |-> d + 1] ELSE [m |-> m + 1, d |-> 1]
      BY <1>2, <2>2 DEF NextDay
    <2>5. today' \in Date /\ today'.d <= Length[today'.m] /\ today'.m \in m .. m + 1
          /\ Before(today, today')
      <3>1. CASE d < Length[m]
        <4>1. d + 1 \in 1 .. 31 /\ d + 1 <= Length[m] /\ d < d + 1
          BY <2>3, <3>1
        <4>2. today' = [m |-> m, d |-> d + 1]
          BY <2>4, <3>1
        <4> QED BY <2>2, <2>3, <4>1, <4>2 DEF Date, Before
      <3>2. CASE ~(d < Length[m])
        <4>1. today' = [m |-> m + 1, d |-> 1]
          BY <2>4, <3>2
        <4> QED BY <2>2, <2>3, <4>1 DEF Date, Before
      <3> QED BY <3>1, <3>2
    <2>6. AtOrBefore(zeroed, today')
      BY <2>5, DatesCompare DEF AtOrBefore, TypeOK
    <2>7. resetsAt.m \in 2 .. today'.m + 1 /\ today'.m <= Horizon + 1
      <3>1. today.m = m /\ resetsAt.m \in Int /\ today'.m \in Int
        BY <2>2, <2>5, DatesAreRecords DEF TypeOK
      <3> QED BY <2>3, <2>5, <3>1, <1>1
    <2> QED BY <2>1, <2>5, <2>6, <2>7 DEF TypeOK
  <1>3. CASE LazyReset
    <2>1. PICK n \in 1 .. Horizon + 2 :
            /\ resetsAt.m + n \in Months /\ resetsAt.m + n <= today.m + 1
            /\ RollForwardPast(resetsAt, today) = AddMonths(resetsAt, n)
            /\ AtOrBefore(AddMonths(AddMonths(resetsAt, n), -1), today)
      BY <1>3, RolledIntoThisMonth DEF LazyReset, TypeOK
    <2>2. resetsAt' = AddMonths(resetsAt, n) /\ zeroed' = today /\ today' = today
      BY <1>3, <2>1 DEF LazyReset
    <2>3. n \in Int
      OBVIOUS
    <2>4. resetsAt' \in Date /\ resetsAt'.m = resetsAt.m + n /\ resetsAt'.d <= Length[resetsAt'.m]
      BY <2>1, <2>2, <2>3, MonthsMoved DEF TypeOK
    <2>5. resetsAt'.m \in 2 .. today.m + 1
      <3>1. resetsAt.m \in Int /\ today.m \in Int
        BY DatesAreRecords DEF TypeOK
      <3>2. resetsAt.m >= 2 /\ n >= 1
        BY <3>1
      <3> QED BY <2>1, <2>3, <2>4, <3>1, <3>2
    <2> QED BY <2>1, <2>2, <2>4, <2>5 DEF TypeOK, AtOrBefore
  <1>4. CASE UNCHANGED vars
    BY <1>4 DEF vars, TypeOK
  <1> QED BY <1>2, <1>3, <1>4 DEF Next

(* A plan's first date lies one month after its start.                            *)
LEMMA CalendarStarts == Init => CalendarInv
  <1> SUFFICES ASSUME Init PROVE CalendarInv
    OBVIOUS
  <1>1. PICK s \in Starts : today = s /\ resetsAt = AddMonths(s, 1) /\ zeroed = s
    BY DEF Init, ComputeNextReset
  <1>2. s \in Date /\ s.m \in 1 .. Horizon /\ s.d <= Length[s.m] /\ s.m + 1 \in Months
        /\ Horizon \in Int
    <2>1. s \in [m : 1 .. Horizon, d : 1 .. 31] /\ s.d <= Length[s.m] /\ Horizon \in Int
      BY CalendarAssumption, MonthsNumbered
    <2>2. \A m \in 1 .. Horizon + 2 : m \in Months
      BY CalendarAssumption, MonthsNumbered
    <2>3. s.m \in 1 .. Horizon /\ s.m \in Months /\ s.m + 1 \in Months
      BY <2>1, <2>2
    <2> QED BY <2>1, <2>2, <2>3 DEF Date
  <1>3. /\ resetsAt \in Date /\ resetsAt.m = s.m + 1 /\ resetsAt.d <= Length[resetsAt.m]
        /\ resetsAt.d <= s.d
    BY <1>1, <1>2, MonthsMoved
  <1>4. AddMonths(resetsAt, -1) \in Date /\ AddMonths(resetsAt, -1).m = s.m
        /\ AddMonths(resetsAt, -1).d <= resetsAt.d
    <2>1. s.m \in Int /\ s.m + 1 + -1 = s.m /\ s.m \in Months
      BY <1>2, DatesAreRecords
    <2> QED BY <1>3, <2>1, MonthsMoved
  <1>5. AtOrBefore(AddMonths(resetsAt, -1), s)
    BY <1>2, <1>3, <1>4, DatesAreRecords DEF AtOrBefore, Before
  <1>6. resetsAt.m \in 2 .. today.m + 1 /\ today.m <= Horizon + 1
    <2>1. s.m \in Int /\ 1 <= s.m /\ s.m <= Horizon
      BY <1>2
    <2> QED BY <1>1, <1>2, <1>3, <2>1
  <1> QED BY <1>1, <1>2, <1>3, <1>5, <1>6 DEF CalendarInv, TypeOK, AtOrBefore

(* While no reset is due, the account's period began no later than its meter.      *)
LEMMA PeriodCoversMeter == CalendarInv => WindowCoversMeter
  <1> SUFFICES ASSUME CalendarInv, Before(today, resetsAt)
               PROVE  AtOrBefore(PeriodStart(resetsAt, today), zeroed)
    BY DEF WindowCoversMeter
  <1> DEFINE start == AddMonths(resetsAt, -1)
  <1>1. start \in Date /\ zeroed \in Date /\ today \in Date /\ resetsAt \in Date
    <2>1. resetsAt.m + -1 \in Months
      BY CalendarAssumption, MonthsNumbered, DatesAreRecords DEF CalendarInv, TypeOK
    <2> QED BY <2>1, MonthsMoved DEF CalendarInv, TypeOK
  <1>2. AtOrBefore(start, zeroed) /\ AtOrBefore(zeroed, today)
    BY DEF CalendarInv
  <1>3. AtOrBefore(start, today)
    BY <1>1, <1>2, DatesCompare
  <1>4. ~AtOrBefore(resetsAt, today) /\ ~Before(today, start)
    BY <1>1, <1>3, DatesCompare
  <1> HIDE DEF start
  <1>5. PeriodStart(resetsAt, today) = start
    BY <1>4 DEF PeriodStart, start
  <1> QED BY <1>2, <1>5

(* CalendarHolds, for any months of 28 to 31 days and any horizon: the spend window   *)
(* of real_spend_alerts covers everything the meter counted.                       *)
THEOREM WindowCoversTheMeter == Spec => []CalendarHolds
  <1>1. CalendarInv => CalendarHolds
    BY PeriodCoversMeter DEF CalendarInv, CalendarHolds
  <1> QED BY <1>1, CalendarStarts, CalendarStep, PTL DEF Spec

(* A step that moves the date moves it as lazy_reset_if_due promises.              *)
LEMMA DateMovesOn ==
    CalendarInv /\ [Next]_vars /\ resetsAt' # resetsAt =>
      /\ Before(today, resetsAt') /\ AtOrBefore(AddMonths(resetsAt', -1), today)
      /\ \/ resetsAt'.d = resetsAt.d
         \/ resetsAt'.d = Length[resetsAt'.m] /\ resetsAt.d > Length[resetsAt'.m]
  <1> SUFFICES ASSUME CalendarInv, [Next]_vars, resetsAt' # resetsAt
               PROVE  /\ Before(today, resetsAt') /\ AtOrBefore(AddMonths(resetsAt', -1), today)
                      /\ \/ resetsAt'.d = resetsAt.d
                         \/ resetsAt'.d = Length[resetsAt'.m] /\ resetsAt.d > Length[resetsAt'.m]
    OBVIOUS
  <1>1. AtOrBefore(resetsAt, today) /\ resetsAt' = RollForwardPast(resetsAt, today)
    BY DEF Next, NextDay, LazyReset, vars
  <1>2. PICK n \in 1 .. Horizon + 2 :
          /\ resetsAt.m + n \in Months
          /\ resetsAt' = AddMonths(resetsAt, n)
          /\ Before(today, AddMonths(resetsAt, n))
          /\ AtOrBefore(AddMonths(AddMonths(resetsAt, n), -1), today)
    BY <1>1, RolledIntoThisMonth DEF CalendarInv, TypeOK
  <1>3. n \in Int
    OBVIOUS
  <1>4. /\ resetsAt'.m = resetsAt.m + n
        /\ resetsAt'.d = resetsAt.d \/ resetsAt'.d = Length[resetsAt.m + n]
        /\ resetsAt'.d # resetsAt.d => resetsAt.d > Length[resetsAt.m + n]
    BY <1>2, <1>3, MonthsMoved DEF CalendarInv, TypeOK
  <1> QED BY <1>2, <1>4

(* ResetDateKept: a reset lands in the month that is running and keeps the day of    *)
(* the date it starts from unless the month is too short for it.                   *)
THEOREM ResetDatesAreKept == Spec => ResetDateKept
  <1>1. CalendarInv /\ [Next]_vars =>
          [resetsAt' # resetsAt => /\ Before(today, resetsAt')
                                   /\ AtOrBefore(AddMonths(resetsAt', -1), today)]_vars
    BY DateMovesOn
  <1>2. CalendarInv /\ [Next]_vars =>
          [resetsAt' # resetsAt => \/ resetsAt'.d = resetsAt.d
                                   \/ /\ resetsAt'.d = Length[resetsAt'.m]
                                      /\ resetsAt.d > Length[resetsAt'.m]]_vars
    BY DateMovesOn
  <1> QED BY <1>1, <1>2, CalendarStarts, CalendarStep, PTL
          DEF Spec, ResetDateKept, ResetsIntoThisMonth, DayKeptAcrossMissedCycles

-----------------------------------------------------------------------------
(* The remote configuration                                                  *)

RemoteConfigSpec == RemoteConfigInit /\ [][RemoteConfigNext]_configVars

Stores == [Slugs -> Docs \cup {NoDoc}]

Phones ==
    [build : {"old", "new", "unreadable"}, app : {"default", "other"}, lang : {"en", "es"},
     decodes : BOOLEAN, slug : Names \cup {"none"},
     held : [version : Nat, tier : Nat, extra : Nat], filled : [Sources -> Docs \cup {NoDoc}],
     seen : Nat]
Sheets == [0 .. TopVersion -> StallRows \cup {NoDoc}]

ConfigType ==
    /\ bundle \in Stores /\ disk \in Stores /\ served \in Stores
    /\ device \in Phones /\ fetch \in Fetches \cup {NoDoc}
    /\ stall \in [Keys -> Sheets] /\ taken \in [Keys -> Nat] /\ takenSince \in [Keys -> Nat]
    /\ hour \in Nat /\ lowered \in Nat

(* A document never gives way to none, to a lower number or, under the same        *)
(* number, to other content.                                                       *)
NotOlder(new, old) ==
    old # NoDoc => /\ new # NoDoc /\ old.version <= new.version
                   /\ old.version = new.version => Content(new) = Content(old)

(* Whoever holds a document since the last time a number was lowered holds one      *)
(* that is not newer than what is served, and that is not newer than what is on      *)
(* disk.                                                                            *)
Succession ==
    /\ \A s \in Slugs : NotOlder(disk[s], served[s])
    /\ fetch # NoDoc => /\ fetch.seen <= lowered
                        /\ fetch.seen = lowered => \A s \in Slugs : NotOlder(served[s], fetch.configs[s])
    /\ device.seen <= lowered
    /\ device.slug # "none" /\ device.seen = lowered => NotOlder(served[device.slug], device.held)
    /\ device.slug # "none" /\ device.seen = lowered /\ device.slug \in {"tiers", "tiers.es"}
       => \A s \in Sources : NotOlder(served[s], device.filled[s])

(* A device that cannot read presents number 0.  Its row 0, of n payloads taken     *)
(* since the hour h, counts none it was not given, and all unless a write failed.    *)
Bounded(row, n, h, moment) ==
    /\ n = 0 => row = NoDoc
    /\ row # NoDoc => row.times <= n /\ row.first >= h
    /\ n <= MinOccurrences /\ h <= moment
Exact(row, n, h) == n > 0 => row # NoDoc /\ row.times = n /\ row.first = h

StallsAre ==
    /\ device.held.version = 0
    /\ \A k \in Keys : Bounded(stall[k][0], taken[k], takenSince[k], hour)
    /\ \A k \in Keys : k \notin unwritten => Exact(stall[k][0], taken[k], takenSince[k])

RemoteConfigInv ==
    ConfigType /\ Succession /\ (~device.decodes => StallsAre)

(* What is not older than a document is not older than what that one replaced.       *)
LEMMA OldestStays ==
    ASSUME NEW a \in Docs \cup {NoDoc}, NEW b \in Docs \cup {NoDoc},
           NEW c \in [version : Nat, tier : Nat, extra : Nat] \cup {NoDoc},
           NotOlder(a, b), NotOlder(b, c)
    PROVE  NotOlder(a, c)
  <1>1. \A d \in Docs : d.version \in Nat
    BY DEF Docs
  <1>2. c # NoDoc => c.version \in Nat
    OBVIOUS
  <1> QED BY <1>1, <1>2 DEF NotOlder

(* A document by its fields.                                                         *)
LEMMA DocsAreRecords ==
    ASSUME NEW d \in Docs
    PROVE  /\ d.version \in Nat \ {0} /\ d.tier \in Nat /\ d.extra \in Nat
           /\ d = Doc(d.version, d.tier, d.extra) /\ d # NoDoc
  BY NoDocIsNone DEF Docs, Doc

(* A document is made of a number and its fields.                                    *)
LEMMA DocsMade ==
    ASSUME NEW v \in Nat \ {0}, NEW t \in Nat, NEW x \in Nat
    PROVE  /\ Doc(v, t, x) \in Docs /\ Doc(v, t, x) # NoDoc
           /\ Doc(v, t, x).version = v /\ Doc(v, t, x).tier = t /\ Doc(v, t, x).extra = x
  BY NoDocIsNone DEF Docs, Doc

(* What is written moves the number, or nothing changes.                             *)
LEMMA SavedIsNewer ==
    ASSUME NEW d \in Docs, NEW t \in Nat, NEW x \in Nat
    PROVE  saved(d, t, x) \in Docs /\ NotOlder(saved(d, t, x), d)
  <1>1. CASE Content(d) = <<t, x>>
    <2>1. saved(d, t, x) = d
      BY <1>1 DEF saved
    <2> QED BY <2>1, DocsAreRecords DEF NotOlder
  <1>2. CASE Content(d) # <<t, x>>
    <2>1. saved(d, t, x) = Doc(d.version + 1, t, x)
      BY <1>2 DEF saved
    <2>2. d.version + 1 \in Nat \ {0} /\ d.version < d.version + 1 /\ d.version # d.version + 1
      BY DocsAreRecords
    <2> QED BY <2>1, <2>2, DocsAreRecords, DocsMade DEF NotOlder
  <1> QED BY <1>1, <1>2

LEMMA TunedIsNewer ==
    ASSUME NEW d \in Docs, NEW t \in Nat
    PROVE  /\ tuned(d, t) \in Docs /\ NotOlder(tuned(d, t), d)
           /\ noted(d, t) \in Docs /\ NotOlder(noted(d, t), d)
  BY SavedIsNewer, DocsAreRecords DEF tuned, noted

(* A field written where there was no document makes one.                             *)
LEMMA NotedFromNothing ==
    ASSUME NEW x \in Nat \ {0}
    PROVE  noted(Doc(0, 0, 0), x) \in Docs
  <1>1. Doc(0, 0, 0).version + 1 = 1 /\ Doc(0, 0, 0).tier = 0 /\ Content(Doc(0, 0, 0)) = <<0, 0>>
    BY DEF Doc, Content
  <1>2. <<0, 0>> # <<0, x>>
    OBVIOUS
  <1>3. noted(Doc(0, 0, 0), x) = Doc(1, 0, x)
    BY <1>1, <1>2 DEF noted, saved
  <1> QED BY <1>3, DocsMade

(* The least value of a field is a number.                                           *)
LEMMA LeastIsNat == Least \in Nat
  <1>1. \E f \in FieldValues : \A g \in FieldValues : f <= g
    BY RemoteConfigAssumption, SmallestOf
  <1> QED BY <1>1, RemoteConfigAssumption DEF Least

(* What a deploy makes of a document.                                                *)
LEMMA DeployedIsNewer ==
    ASSUME NEW over \in Docs \cup {NoDoc}, NEW image \in Docs \cup {NoDoc}
    PROVE  /\ hydrated(seeded(over, image), image) \in Docs \cup {NoDoc}
           /\ NotOlder(hydrated(seeded(over, image), image), over)
  <1> DEFINE o == seeded(over, image)
             t == IF o.tier = 0 THEN image.tier ELSE o.tier
             x == IF o.extra = 0 THEN image.extra ELSE o.extra
  <1>1. o \in Docs \cup {NoDoc} /\ (over # NoDoc => o = over)
    BY DEF seeded
  <1>2. CASE o = NoDoc \/ image = NoDoc
    <2>1. hydrated(o, image) = o
      <3> HIDE DEF o
      <3>1. HydratedSilently(o, image) = o
        BY <1>2 DEF HydratedSilently
      <3> QED BY <3>1 DEF hydrated
    <2>2. over # NoDoc => over.version <= over.version
      BY DocsAreRecords
    <2>3. over # NoDoc => o = over
      BY <1>1
    <2> QED BY <1>1, <2>1, <2>2, <2>3 DEF NotOlder
  <1>3. CASE o # NoDoc /\ image # NoDoc
    <2>1. o \in Docs /\ image \in Docs
      BY <1>1, <1>3
    <2>2. t \in Nat /\ x \in Nat
      BY <2>1, DocsAreRecords
    <2>3. HydratedSilently(o, image) = Doc(o.version, t, x)
      <3> HIDE DEF o
      <3>1. HydratedSilently(o, image) = [o EXCEPT !.tier = t, !.extra = x]
        BY <1>3 DEF HydratedSilently
      <3> HIDE DEF t, x
      <3>2. o = [version |-> o.version, tier |-> o.tier, extra |-> o.extra]
        BY <2>1, DocsAreRecords DEF Doc
      <3> QED BY <3>1, <3>2 DEF Doc
    <2> HIDE DEF o, t, x
    <2>4. hydrated(o, image) = o \/ hydrated(o, image) = Doc(o.version + 1, t, x)
      <3>1. [Doc(o.version, t, x) EXCEPT !.version = @ + 1] = Doc(o.version + 1, t, x)
        BY DEF Doc
      <3> QED BY <2>3, <3>1 DEF hydrated
    <2>5. o.version + 1 \in Nat \ {0} /\ o.version < o.version + 1 /\ o.version # o.version + 1
          /\ o.version <= o.version
      BY <2>1, DocsAreRecords
    <2>6. hydrated(o, image) \in Docs /\ NotOlder(hydrated(o, image), o)
      BY <2>1, <2>2, <2>4, <2>5, DocsMade, DocsAreRecords DEF NotOlder
    <2>7. over # NoDoc => o = over
      BY <1>1
    <2>8. NotOlder(hydrated(o, image), over)
      BY <2>6, <2>7 DEF NotOlder
    <2> QED BY <2>6, <2>8 DEF o
  <1> QED BY <1>1, <1>2, <1>3

(* An edit takes what is served on, keeps it, or lowers a number and says so.         *)
Moves ==
    /\ bundle' \in Stores /\ disk' \in Stores
    /\ served' \in {served, disk'}
    /\ \/ lowered' = lowered /\ \A s \in Slugs : NotOlder(disk'[s], served[s])
       \/ lowered' = lowered + 1 /\ served' = disk'

(* One document is replaced by one that is not older than what was on disk.            *)
LEMMA OneReplaced ==
    ASSUME ConfigType, Succession, NEW T \in SUBSET Slugs, NEW store \in Stores,
           \A s \in T : NotOlder(store[s], disk[s]) \/ NotOlder(store[s], served[s]),
           \A s \in Slugs \ T : store[s] = disk[s]
    PROVE  \A s \in Slugs : NotOlder(store[s], served[s])
  <1> SUFFICES ASSUME NEW s \in Slugs PROVE NotOlder(store[s], served[s])
    OBVIOUS
  <1>1. /\ store[s] \in Docs \cup {NoDoc} /\ disk[s] \in Docs \cup {NoDoc}
        /\ served[s] \in [version : Nat, tier : Nat, extra : Nat] \cup {NoDoc}
    BY DEF ConfigType, Stores, Docs
  <1>2. NotOlder(disk[s], served[s])
    BY DEF Succession
  <1>3. CASE s \in T
    BY <1>1, <1>2, <1>3, OldestStays
  <1>4. CASE s \notin T
    BY <1>2, <1>4
  <1> QED BY <1>3, <1>4

(* A deploy moves every document it touches forward.                                   *)
LEMMA DeployMoves ==
    ASSUME ConfigType, Succession, Deploy PROVE Moves /\ fetch' = NoDoc
  <1>1. PICK s \in Slugs, t \in FieldValues, x \in {Least, 0} :
          bundle[s] # NoDoc /\ bundle' = [bundle EXCEPT ![s] = Doc(@.version + 1, t, x)]
    BY DEF Deploy
  <1>2. bundle' \in Stores
    <2>1. bundle[s] \in Docs /\ t \in Nat /\ x \in Nat
      BY <1>1, RemoteConfigAssumption, LeastIsNat DEF ConfigType, Stores
    <2>2. bundle[s].version + 1 \in Nat \ {0}
      BY <2>1, DocsAreRecords
    <2>3. Doc(bundle[s].version + 1, t, x) \in Docs
      BY <2>1, <2>2, DocsMade
    <2> QED BY <1>1, <2>3 DEF ConfigType, Stores
  <1>3. /\ disk' = [u \in Slugs |-> hydrated(seeded(disk[u], bundle'[u]), bundle'[u])]
        /\ served' = disk' /\ fetch' = NoDoc /\ lowered' = lowered
    BY DEF Deploy, load_remote_configs
  <1>4. \A u \in Slugs : disk[u] \in Docs \cup {NoDoc} /\ bundle'[u] \in Docs \cup {NoDoc}
    BY <1>2 DEF ConfigType, Stores
  <1>5. disk' \in Stores /\ \A u \in Slugs : NotOlder(disk'[u], disk[u])
    BY <1>3, <1>4, DeployedIsNewer DEF Stores
  <1>6. \A u \in Slugs : NotOlder(disk'[u], served[u])
    BY <1>5, OneReplaced
  <1> QED BY <1>2, <1>3, <1>5, <1>6 DEF Moves

(* An edit's number is ahead of what is served, even where the disk was ahead of it.    *)
LEMMA UpdateMoves == ASSUME ConfigType, Succession, update_config PROVE Moves
  <1>1. PICK s \in Slugs, number \in {0, TopVersion}, t \in FieldValues, x \in {Least, 0} :
          LET old == IF served[s] = NoDoc THEN 0 ELSE served[s].version
          IN  disk' = [disk EXCEPT ![s] = Doc(bumped(number, old), t, x)]
    BY DEF update_config
  <1>2. served' = disk' /\ bundle' = bundle /\ lowered' = lowered
    BY DEF update_config, load_remote_configs
  <1>3. PICK old \in Nat : old = IF served[s] = NoDoc THEN 0 ELSE served[s].version
    <2>1. served[s] \in Docs \cup {NoDoc}
      BY DEF ConfigType, Stores
    <2> QED BY <2>1, DocsAreRecords
  <1>4. PICK v \in Nat \ {0} : v = bumped(number, old) /\ old < v
    <2>1. number \in Nat
      BY RemoteConfigAssumption
    <2> QED BY <2>1 DEF bumped
  <1>5. disk' = [disk EXCEPT ![s] = Doc(v, t, x)]
    BY <1>1, <1>3, <1>4
  <1>6. Doc(v, t, x) \in Docs /\ Doc(v, t, x).version = v /\ Doc(v, t, x) # NoDoc
    BY RemoteConfigAssumption, LeastIsNat, DocsMade
  <1>7. disk' \in Stores /\ disk'[s] = Doc(v, t, x) /\ \A u \in Slugs \ {s} : disk'[u] = disk[u]
    BY <1>5, <1>6 DEF ConfigType, Stores
  <1>8. NotOlder(disk'[s], served[s])
    <2>1. served[s] # NoDoc => served[s].version < v /\ served[s].version \in Nat
      BY <1>3, <1>4
    <2> QED BY <1>6, <1>7, <2>1 DEF NotOlder
  <1>9. \A u \in Slugs : NotOlder(disk'[u], served[u])
    <2>1. {s} \in SUBSET Slugs /\ \A u \in {s} : NotOlder(disk'[u], served[u])
      BY <1>8
    <2> QED BY <1>7, <2>1, OneReplaced
  <1> QED BY <1>2, <1>7, <1>9 DEF Moves, ConfigType

(* A sync moves the number forward, or lowers it because it was asked to.               *)
LEMMA SyncMoves == ASSUME ConfigType, Succession, sync_config_from_bundle PROVE Moves
  <1>1. PICK s \in Slugs, keys \in SUBSET {"tier", "extra"}, asked \in BOOLEAN :
          /\ bundle[s] # NoDoc
          /\ \A k \in keys : bundle[s][k] # 0
          /\ LET over == IF disk[s] = NoDoc THEN Doc(0, 0, 0) ELSE disk[s]
                 new == synced(over, bundle[s], keys)
                 number == sync_version(over.version, bundle[s].version, asked)
             IN  /\ new # over \/ (asked /\ bundle[s].version # over.version)
                 /\ number <= TopVersion
                 /\ disk' = [disk EXCEPT ![s] = Doc(number, new.tier, new.extra)]
                 /\ lowered' = IF asked /\ number <= over.version THEN lowered + 1 ELSE lowered
    BY DEF sync_config_from_bundle
  <1>2. served' = disk' /\ bundle' = bundle
    BY DEF sync_config_from_bundle, load_remote_configs
  <1> DEFINE over == IF disk[s] = NoDoc THEN Doc(0, 0, 0) ELSE disk[s]
             t == IF "tier" \in keys THEN bundle[s].tier ELSE over.tier
             x == IF "extra" \in keys THEN bundle[s].extra ELSE over.extra
             number == sync_version(over.version, bundle[s].version, asked)
  <1>3. bundle[s] \in Docs /\ disk[s] \in Docs \cup {NoDoc}
    BY <1>1 DEF ConfigType, Stores
  <1>4. /\ over = [version |-> over.version, tier |-> over.tier, extra |-> over.extra]
        /\ over.version \in Nat /\ over.tier \in Nat /\ over.extra \in Nat
        /\ disk[s] # NoDoc => over = disk[s]
    <2>1. CASE disk[s] = NoDoc
      BY <2>1 DEF Doc
    <2>2. CASE disk[s] # NoDoc
      BY <1>3, <2>2, DocsAreRecords DEF Doc
    <2> QED BY <2>1, <2>2
  <1>5. disk' = [disk EXCEPT ![s] = Doc(number, t, x)]
    <2>1. synced(over, bundle[s], keys).tier = t /\ synced(over, bundle[s], keys).extra = x
      BY DEF synced, Doc
    <2> QED BY <1>1, <2>1
  <1>6. lowered' = IF asked /\ number <= over.version THEN lowered + 1 ELSE lowered
    BY <1>1
  <1> HIDE DEF over
  <1>7. /\ number \in Nat \ {0}
        /\ ~(asked /\ number <= over.version) => over.version < number
    BY <1>3, <1>4, DocsAreRecords DEF sync_version
  <1>8. t \in Nat /\ x \in Nat
    BY <1>3, <1>4, DocsAreRecords
  <1> HIDE DEF t, x, number
  <1>9. Doc(number, t, x) \in Docs /\ Doc(number, t, x).version = number /\ Doc(number, t, x) # NoDoc
    BY <1>7, <1>8, DocsMade
  <1>10. disk' \in Stores /\ disk'[s] = Doc(number, t, x) /\ \A u \in Slugs \ {s} : disk'[u] = disk[u]
    BY <1>5, <1>9 DEF ConfigType, Stores
  <1>11. CASE asked /\ number <= over.version
    BY <1>2, <1>6, <1>10, <1>11 DEF Moves, ConfigType
  <1>12. CASE ~(asked /\ number <= over.version)
    <2>1. NotOlder(disk'[s], disk[s])
      <3>1. disk[s] # NoDoc => disk[s].version < number /\ disk[s].version \in Nat
        BY <1>4, <1>7, <1>12
      <3> QED BY <1>7, <1>9, <1>10, <3>1 DEF NotOlder
    <2>2. \A u \in Slugs : NotOlder(disk'[u], served[u])
      <3>1. {s} \in SUBSET Slugs /\ \A u \in {s} : NotOlder(disk'[u], disk[u])
        BY <2>1
      <3> QED BY <1>10, <3>1, OneReplaced
    <2> QED BY <1>2, <1>6, <1>10, <1>12, <2>2 DEF Moves, ConfigType
  <1> QED BY <1>11, <1>12

(* The files of a tier move forward, the reload or the broken-off request after it.      *)
LEMMA TunableMoves == ASSUME ConfigType, Succession, update_tier_tunable_field PROVE Moves
  <1>1. PICK t \in FieldValues :
          /\ disk["tiers"] # NoDoc
          /\ LET first == tuned(disk["tiers"], t)
                 other == disk["tiers.es"]
             IN  /\ disk["tiers"].tier # 0
                 /\ first.version <= TopVersion
                 /\ IF other # NoDoc /\ other.tier = 0
                    THEN disk' = [disk EXCEPT !["tiers"] = first] /\ UNCHANGED served
                    ELSE /\ other # NoDoc => tuned(other, t).version <= TopVersion
                         /\ disk' = [disk EXCEPT !["tiers"] = first,
                                                 !["tiers.es"] = IF @ = NoDoc THEN @ ELSE tuned(@, t)]
                         /\ load_remote_configs
          /\ disk' # disk
    BY DEF update_tier_tunable_field
  <1>2. bundle' = bundle /\ lowered' = lowered /\ served' \in {served, disk'}
    BY <1>1 DEF update_tier_tunable_field, load_remote_configs
  <1> DEFINE first == tuned(disk["tiers"], t)
             other == IF disk["tiers.es"] = NoDoc THEN NoDoc ELSE tuned(disk["tiers.es"], t)
  <1>3. t \in Nat /\ disk["tiers"] \in Docs /\ disk["tiers.es"] \in Docs \cup {NoDoc}
    BY <1>1, RemoteConfigAssumption DEF ConfigType, Stores, Slugs, Names
  <1>4. /\ first \in Docs /\ NotOlder(first, disk["tiers"])
        /\ other \in Docs \cup {NoDoc} /\ NotOlder(other, disk["tiers.es"])
    <2>1. NotOlder(NoDoc, NoDoc)
      BY DEF NotOlder
    <2> QED BY <1>3, <2>1, TunedIsNewer
  <1>5. \/ disk' = [disk EXCEPT !["tiers"] = first]
        \/ disk' = [disk EXCEPT !["tiers"] = first, !["tiers.es"] = other]
    BY <1>1
  <1> HIDE DEF first, other
  <1>6. /\ disk' \in Stores
        /\ disk'["tiers"] = first /\ disk'["tiers.es"] \in {other, disk["tiers.es"]}
        /\ \A s \in Slugs \ {"tiers", "tiers.es"} : disk'[s] = disk[s]
    BY <1>4, <1>5 DEF ConfigType, Stores, Slugs, Names
  <1>7. \A s \in {"tiers", "tiers.es"} : NotOlder(disk'[s], disk[s]) \/ NotOlder(disk'[s], served[s])
    <2>1. NotOlder(disk["tiers.es"], served["tiers.es"])
      BY DEF Succession, Slugs, Names
    <2> QED BY <1>4, <1>6, <2>1
  <1>8. {"tiers", "tiers.es"} \in SUBSET Slugs
    BY DEF Slugs, Names
  <1>9. \A s \in Slugs : NotOlder(disk'[s], served[s])
    BY <1>6, <1>7, <1>8, OneReplaced
  <1> QED BY <1>2, <1>6, <1>9 DEF Moves, ConfigType

(* The files the matrix writes move forward.                                           *)
LEMMA DocumentsMove == ASSUME ConfigType, Succession, update_documents PROVE Moves
  <1>1. PICK x \in FieldValues, some \in SUBSET {"tiers", "tiers.es"} :
          /\ \A s \in some : disk[s] # NoDoc
          /\ disk' = [s \in Slugs |-> IF s \in some THEN noted(disk[s], x) ELSE disk[s]]
    BY DEF update_documents
  <1>2. bundle' = bundle /\ lowered' = lowered /\ served' = disk'
    BY DEF update_documents, load_remote_configs
  <1>3. x \in Nat /\ some \in SUBSET Slugs
    BY RemoteConfigAssumption DEF Slugs, Names
  <1>4. \A s \in some : disk[s] \in Docs
    BY <1>1, <1>3 DEF ConfigType, Stores
  <1>5. \A s \in some : disk'[s] \in Docs /\ NotOlder(disk'[s], disk[s])
    BY <1>1, <1>3, <1>4, TunedIsNewer
  <1>6. disk' \in Stores /\ \A s \in Slugs \ some : disk'[s] = disk[s]
    <2>1. \A s \in Slugs : (IF s \in some THEN noted(disk[s], x) ELSE disk[s]) \in Docs \cup {NoDoc}
      BY <1>3, <1>4, TunedIsNewer DEF ConfigType, Stores
    <2> QED BY <1>1, <2>1 DEF Stores
  <1>7. \A s \in Slugs : NotOlder(disk'[s], served[s])
    BY <1>3, <1>5, <1>6, OneReplaced
  <1> QED BY <1>2, <1>6, <1>7 DEF Moves, ConfigType

(* The matrix moves forward.                                                           *)
LEMMA MatrixMoves == ASSUME ConfigType, Succession, update_entitlements_matrix_cell PROVE Moves
  <1>1. PICK t \in FieldValues :
          /\ disk["entitlements"] # NoDoc
          /\ disk' = [disk EXCEPT !["entitlements"] = tuned(@, t)]
    BY DEF update_entitlements_matrix_cell
  <1>2. bundle' = bundle /\ lowered' = lowered /\ served' = disk'
    BY DEF update_entitlements_matrix_cell, load_remote_configs
  <1>3. t \in Nat /\ "entitlements" \in Slugs /\ disk["entitlements"] \in Docs
    BY <1>1, RemoteConfigAssumption DEF ConfigType, Stores, Slugs, Sources
  <1>4. PICK new \in Docs : new = tuned(disk["entitlements"], t) /\ NotOlder(new, disk["entitlements"])
    BY <1>3, TunedIsNewer
  <1>5. disk' = [disk EXCEPT !["entitlements"] = new]
    BY <1>1, <1>4
  <1>6. /\ disk' \in Stores /\ disk'["entitlements"] = new
        /\ \A u \in Slugs \ {"entitlements"} : disk'[u] = disk[u]
    BY <1>3, <1>5 DEF ConfigType, Stores
  <1>7. /\ {"entitlements"} \in SUBSET Slugs
        /\ \A u \in {"entitlements"} : NotOlder(disk'[u], disk[u])
    BY <1>3, <1>4, <1>6
  <1>8. \A u \in Slugs : NotOlder(disk'[u], served[u])
    BY <1>6, <1>7, OneReplaced
  <1> QED BY <1>2, <1>6, <1>8 DEF Moves, ConfigType

(* The file the cap is written to moves forward, or is made.                           *)
LEMMA CapMoves == ASSUME ConfigType, Succession, update_project_chat_cap PROVE Moves
  <1>1. PICK x \in FieldValues, s \in {"tiers", "tiers.es"} :
          LET over == IF disk[s] = NoDoc THEN Doc(0, 0, 0) ELSE disk[s]
          IN  /\ over.extra # x /\ noted(over, x).version <= TopVersion
              /\ disk' = [disk EXCEPT ![s] = noted(over, x)]
    BY DEF update_project_chat_cap
  <1>2. bundle' = bundle /\ lowered' = lowered /\ served' = disk'
    BY DEF update_project_chat_cap, load_remote_configs
  <1> DEFINE new == noted(IF disk[s] = NoDoc THEN Doc(0, 0, 0) ELSE disk[s], x)
  <1>3. x \in Nat \ {0} /\ s \in Slugs /\ disk[s] \in Docs \cup {NoDoc}
    BY RemoteConfigAssumption DEF ConfigType, Stores, Slugs, Names
  <1>4. new \in Docs /\ NotOlder(new, disk[s])
    <2>1. CASE disk[s] = NoDoc
      <3>1. new = noted(Doc(0, 0, 0), x)
        BY <2>1
      <3>2. NotOlder(new, NoDoc)
        BY DEF NotOlder
      <3> QED BY <1>3, <2>1, <3>1, <3>2, NotedFromNothing
    <2>2. CASE disk[s] # NoDoc
      BY <1>3, <2>2, TunedIsNewer
    <2> QED BY <2>1, <2>2
  <1>5. disk' = [disk EXCEPT ![s] = new]
    BY <1>1
  <1> HIDE DEF new
  <1>6. disk' \in Stores /\ disk'[s] = new /\ \A u \in Slugs \ {s} : disk'[u] = disk[u]
    BY <1>3, <1>4, <1>5 DEF ConfigType, Stores
  <1>7. {s} \in SUBSET Slugs /\ \A u \in {s} : NotOlder(disk'[u], disk[u])
    BY <1>3, <1>4, <1>6
  <1>8. \A u \in Slugs : NotOlder(disk'[u], served[u])
    BY <1>6, <1>7, OneReplaced
  <1> QED BY <1>2, <1>6, <1>8 DEF Moves, ConfigType

(* After an edit whatever was held is still not newer than what is served.              *)
LEMMA EditsKeepOrder ==
    ASSUME ConfigType, Succession, Moves, fetch' = fetch \/ fetch' = NoDoc,
           device'.slug = device.slug, device'.held = device.held, device'.filled = device.filled,
           device'.seen = device.seen
    PROVE  Succession'
  <1>1. /\ \A s \in Slugs : /\ disk'[s] \in Docs \cup {NoDoc} /\ disk[s] \in Docs \cup {NoDoc}
                            /\ served[s] \in Docs \cup {NoDoc} /\ served'[s] \in Docs \cup {NoDoc}
    BY DEF Moves, ConfigType, Stores
  <1>2. /\ device.seen \in Nat /\ device.slug \in Slugs \cup {"none"}
        /\ device.held \in [version : Nat, tier : Nat, extra : Nat] /\ lowered \in Nat
        /\ \A s \in Sources : s \in Slugs /\ device.filled[s] \in Docs \cup {NoDoc}
    BY DEF ConfigType, Phones, Slugs
  <1>3. fetch # NoDoc => fetch.seen \in Nat /\ \A s \in Slugs : fetch.configs[s] \in Docs \cup {NoDoc}
    BY DEF ConfigType, Fetches
  <1>4. \A d \in Docs \cup {NoDoc} : d \in [version : Nat, tier : Nat, extra : Nat] \cup {NoDoc}
    BY DEF Docs
  <1>5. \A s \in Slugs : NotOlder(disk'[s], served'[s])
    <2> SUFFICES ASSUME NEW s \in Slugs PROVE NotOlder(disk'[s], served'[s])
      OBVIOUS
    <2>1. NotOlder(disk'[s], disk'[s])
      BY <1>1, DocsAreRecords DEF NotOlder
    <2>2. CASE served' = disk'
      BY <2>1, <2>2
    <2>3. CASE served' = served /\ lowered' = lowered
      <3>1. lowered' # lowered + 1
        BY <1>2, <2>3
      <3> QED BY <2>3, <3>1 DEF Moves
    <2> QED BY <2>2, <2>3 DEF Moves
  <1>6. CASE lowered' = lowered + 1
    BY <1>2, <1>3, <1>5, <1>6 DEF Succession
  <1>7. CASE lowered' = lowered
    <2>0. lowered # lowered + 1
      BY <1>2
    <2>1. \A s \in Slugs : NotOlder(served'[s], served[s])
      <3> SUFFICES ASSUME NEW s \in Slugs PROVE NotOlder(served'[s], served[s])
        OBVIOUS
      <3>1. NotOlder(served[s], served[s])
        BY <1>1, DocsAreRecords DEF NotOlder
      <3>2. NotOlder(disk'[s], served[s])
        BY <1>7, <2>0 DEF Moves
      <3> QED BY <3>1, <3>2 DEF Moves
    <2>2. fetch # NoDoc /\ fetch.seen = lowered => \A s \in Slugs : NotOlder(served'[s], fetch.configs[s])
      BY <1>1, <1>3, <1>4, <2>1, OldestStays DEF Succession
    <2>3. device.slug # "none" /\ device.seen = lowered => NotOlder(served'[device.slug], device.held)
      BY <1>1, <1>2, <2>1, OldestStays DEF Succession
    <2>4. device.slug # "none" /\ device.seen = lowered /\ device.slug \in {"tiers", "tiers.es"}
          => \A s \in Sources : NotOlder(served'[s], device.filled[s])
      BY <1>1, <1>2, <1>4, <2>1, OldestStays DEF Succession
    <2> QED BY <1>5, <1>7, <2>2, <2>3, <2>4 DEF Succession
  <1> QED BY <1>6, <1>7 DEF Moves

(* The document a fetch is answered with is one of those it started with.                *)
LEMMA ResolvedIsThere ==
    ASSUME NEW configs \in Stores, NEW is_tester,
           resolve_slug(configs, is_tester) # "none"
    PROVE  /\ resolve_slug(configs, is_tester) \in Names
           /\ configs[resolve_slug(configs, is_tester)] \in Docs
  <1> DEFINE order == candidate_slugs(is_tester)
             there == {i \in DOMAIN order : configs[order[i]] # NoDoc}
             first == CHOOSE i \in there : \A j \in there : i <= j
  <1>1. order \in Seq(Names)
    <2> DEFINE a == IF is_tester THEN <<"tester">> ELSE <<>>
               b == IF resolve_build_pin THEN <<"pin">> ELSE <<>>
               c == IF device.app = "other" THEN <<"app">> ELSE <<>>
               d == IF device.lang = "es" THEN <<"tiers.es">> ELSE <<>>
    <2>1. "tester" \in Names /\ "pin" \in Names /\ "app" \in Names /\ "tiers.es" \in Names /\ "tiers" \in Names
      BY DEF Names
    <2>2. a \in Seq(Names) /\ b \in Seq(Names) /\ c \in Seq(Names) /\ d \in Seq(Names)
          /\ <<"tiers">> \in Seq(Names)
      BY <2>1
    <2>3. order = a \o b \o c \o d \o <<"tiers">>
      BY DEF candidate_slugs
    <2> HIDE DEF a, b, c, d, order
    <2> QED BY <2>2, <2>3
  <1> HIDE DEF order
  <1>2. there # {} /\ resolve_slug(configs, is_tester) = order[first]
    BY DEF resolve_slug, order
  <1>3. there \in SUBSET Nat
    BY <1>1
  <1>4. \E i \in there : \A j \in there : i <= j
    BY <1>2, <1>3, SmallestOf
  <1>5. first \in there
    BY <1>4
  <1> HIDE DEF first
  <1>6. order[first] \in Names /\ configs[order[first]] # NoDoc
    BY <1>1, <1>5
  <1> QED BY <1>2, <1>6 DEF Stores, Slugs


(* A row is a row when it takenSince, when it is counted and when it is told.                 *)
LEMMA RowBegins ==
    ASSUME NEW n \in Nat, hour \in Nat
    PROVE  begun(n) \in StallRows /\ begun(n) # NoDoc /\ begun(n).times = 1 /\ begun(n).first = hour
  <1>1. PICK no \in BOOLEAN : no = FALSE
    OBVIOUS
  <1>2. begun(n) = [times |-> 1, first |-> hour, number |-> n, alerted |-> no]
    BY <1>1 DEF begun
  <1>3. begun(n) \in StallRows
    BY <1>2 DEF StallRows
  <1> QED BY <1>2, <1>3, NoDocIsNone

LEMMA RowCounts ==
    ASSUME NEW r \in StallRows, NEW n \in Nat
    PROVE  /\ r.times \in Nat /\ r.first \in Nat /\ r # NoDoc
           /\ counted(r, n) \in StallRows /\ counted(r, n) # NoDoc
           /\ counted(r, n).times = IF r.times = MinOccurrences THEN r.times ELSE r.times + 1
           /\ counted(r, n).first = r.first
  <1>1. r.times \in Nat /\ r.first \in Nat
    BY DEF StallRows
  <1>2. PICK m \in Nat : m = IF r.times = MinOccurrences THEN r.times ELSE r.times + 1
    BY <1>1, RemoteConfigAssumption
  <1>3. counted(r, n) = [r EXCEPT !.times = m, !.number = n]
    BY <1>2 DEF counted
  <1>4. counted(r, n) \in StallRows /\ counted(r, n).times = m /\ counted(r, n).first = r.first
    BY <1>3 DEF StallRows
  <1> QED BY <1>1, <1>2, <1>4, NoDocIsNone

LEMMA RowTold ==
    ASSUME NEW r \in StallRows
    PROVE  /\ told(r) \in StallRows /\ told(r) # NoDoc
           /\ told(r).times = r.times /\ told(r).first = r.first
  <1>1. PICK yes \in BOOLEAN : yes = TRUE
    OBVIOUS
  <1>2. told(r) = [r EXCEPT !.alerted = yes]
    BY <1>1 DEF told
  <1>3. told(r) \in StallRows /\ told(r).times = r.times /\ told(r).first = r.first
    BY <1>2 DEF StallRows
  <1> QED BY <1>3, NoDocIsNone

(* Answers keep the rows rows.                                                              *)
LEMMA RowsKept ==
    ASSUME hour \in Nat, NEW rows \in Sheets, NEW v \in Nat, NEW n \in Nat
    PROVE  clear(rows, v) \in Sheets /\ record_full_payload(rows, v, n) \in Sheets
  <1>1. clear(rows, v) \in Sheets
    BY DEF clear, Sheets
  <1>2. begun(n) \in StallRows /\ \A r \in StallRows : counted(r, n) \in StallRows
    BY RowBegins, RowCounts
  <1>3. record_full_payload(rows, v, n) \in Sheets
    BY <1>2 DEF record_full_payload, Sheets
  <1> QED BY <1>1, <1>3

(* Row 0 after a payload to a device that presents 0.                                       *)
LEMMA RowZero ==
    ASSUME NEW rows \in Sheets, NEW n \in Nat
    PROVE  record_full_payload(rows, 0, n)[0] = IF rows[0] = NoDoc THEN begun(n) ELSE counted(rows[0], n)
  <1>1. 0 \in 0 .. TopVersion /\ ~(0 < 0) /\ ~(0 > 0)
    BY RemoteConfigAssumption
  <1> QED BY <1>1 DEF record_full_payload, Sheets

(* One payload more: a row that is written stays within what was taken, and exact if it      *)
(* was; one whose write failed stays within it.                                              *)
LEMMA PayloadCounted ==
    ASSUME hour \in Nat, NEW row \in StallRows \cup {NoDoc}, NEW n \in Nat, NEW h \in Nat,
           NEW number \in Nat, Bounded(row, n, h, hour),
           NEW m, m = IF n = MinOccurrences THEN n ELSE n + 1,
           NEW g, g = IF n = 0 THEN hour ELSE h,
           NEW new, new = IF row = NoDoc THEN begun(number) ELSE counted(row, number)
    PROVE  /\ m \in Nat /\ g \in Nat
           /\ Bounded(new, m, g, hour) /\ Bounded(row, m, g, hour)
           /\ Exact(row, n, h) => Exact(new, m, g)
  <1>1. MinOccurrences \in Nat \ {0} /\ n <= MinOccurrences /\ h <= hour
    BY RemoteConfigAssumption DEF Bounded
  <1>2. m \in Nat /\ m > 0 /\ m >= n /\ m <= MinOccurrences /\ g \in Nat /\ g <= hour
    BY <1>1
  <1>3. CASE row = NoDoc
    <2>1. new # NoDoc /\ new.times = 1 /\ new.first = hour
      BY <1>3, RowBegins
    <2>2. Bounded(new, m, g, hour)
      BY <1>2, <2>1 DEF Bounded
    <2>3. Bounded(row, m, g, hour)
      BY <1>2, <1>3 DEF Bounded
    <2>4. Exact(row, n, h) => Exact(new, m, g)
      <3> SUFFICES ASSUME Exact(row, n, h) PROVE Exact(new, m, g)
        OBVIOUS
      <3>1. n = 0
        BY <1>3 DEF Exact
      <3>2. m = 1 /\ g = hour
        BY <1>1, <3>1
      <3> QED BY <2>1, <3>2 DEF Exact
    <2> QED BY <1>2, <2>2, <2>3, <2>4
  <1>4. CASE row # NoDoc
    <2>1. row \in StallRows /\ n # 0 /\ row.times <= n /\ row.first >= h /\ g = h
      BY <1>4 DEF Bounded
    <2>2. /\ row.times \in Nat /\ row.first \in Nat /\ new # NoDoc /\ new.first = row.first
          /\ new.times = IF row.times = MinOccurrences THEN row.times ELSE row.times + 1
      <3>1. PICK r \in StallRows : r = row
        BY <2>1
      <3>2. new = counted(r, number)
        BY <1>4, <3>1
      <3>3. /\ r.times \in Nat /\ r.first \in Nat /\ counted(r, number) # NoDoc
            /\ counted(r, number).times = IF r.times = MinOccurrences THEN r.times ELSE r.times + 1
            /\ counted(r, number).first = r.first
        BY RowCounts
      <3> QED BY <3>1, <3>2, <3>3
    <2>3. new.times <= m
      BY <1>1, <2>1, <2>2
    <2>4. Bounded(new, m, g, hour)
      BY <1>2, <2>1, <2>2, <2>3 DEF Bounded
    <2>5. row.times <= m
      BY <1>2, <2>1, <2>2
    <2>6. Bounded(row, m, g, hour)
      BY <1>2, <1>4, <2>1, <2>5 DEF Bounded
    <2>7. Exact(row, n, h) => Exact(new, m, g)
      BY <1>1, <2>1, <2>2 DEF Exact
    <2> QED BY <1>2, <2>4, <2>6, <2>7
  <1> QED BY <1>3, <1>4

(* A device that cannot read takes a payload: the row of its app and document counts it,      *)
(* or is one of those whose write failed.                                                     *)
LEMMA TakenIsCounted ==
    ASSUME ConfigType, StallsAre, device.decodes = FALSE, NEW key \in Keys, NEW n \in Nat,
           NEW wrote \in BOOLEAN, takes(key, wrote), device' = device, hour' = hour,
           stall' = IF wrote THEN [stall EXCEPT ![key] = record_full_payload(@, 0, n)] ELSE stall
    PROVE  StallsAre' /\ taken' \in [Keys -> Nat] /\ takenSince' \in [Keys -> Nat] /\ stall' \in [Keys -> Sheets]
  <1>1. /\ taken \in [Keys -> Nat] /\ takenSince \in [Keys -> Nat] /\ stall \in [Keys -> Sheets] /\ hour \in Nat
        /\ Bounded(stall[key][0], taken[key], takenSince[key], hour)
        /\ key \notin unwritten => Exact(stall[key][0], taken[key], takenSince[key])
    BY DEF ConfigType, StallsAre
  <1>2. PICK m, g, new :
          /\ m = IF taken[key] = MinOccurrences THEN taken[key] ELSE taken[key] + 1
          /\ g = IF taken[key] = 0 THEN hour ELSE takenSince[key]
          /\ new = IF stall[key][0] = NoDoc THEN begun(n) ELSE counted(stall[key][0], n)
    OBVIOUS
  <1>3. stall[key] \in Sheets /\ stall[key][0] \in StallRows \cup {NoDoc}
    BY <1>1, RemoteConfigAssumption DEF Sheets
  <1>4. /\ m \in Nat /\ g \in Nat
        /\ Bounded(new, m, g, hour) /\ Bounded(stall[key][0], m, g, hour)
        /\ key \notin unwritten => Exact(new, m, g)
    BY <1>1, <1>2, <1>3, PayloadCounted
  <1>5. /\ taken' = [taken EXCEPT ![key] = m] /\ takenSince' = [takenSince EXCEPT ![key] = g]
        /\ unwritten' = IF wrote THEN unwritten ELSE unwritten \cup {key}
    BY <1>2 DEF takes
  <1>6. /\ taken' \in [Keys -> Nat] /\ takenSince' \in [Keys -> Nat]
        /\ taken'[key] = m /\ takenSince'[key] = g
        /\ \A k \in Keys \ {key} : taken'[k] = taken[k] /\ takenSince'[k] = takenSince[k]
    BY <1>1, <1>4, <1>5
  <1>7. /\ stall' \in [Keys -> Sheets]
        /\ \A k \in Keys \ {key} : stall'[k] = stall[k]
        /\ stall'[key][0] = IF wrote THEN new ELSE stall[key][0]
    <2>1. PICK rows \in Sheets : rows = record_full_payload(stall[key], 0, n)
      BY <1>1, <1>3, RowsKept
    <2>2. rows[0] = new
      BY <1>2, <1>3, <2>1, RowZero
    <2>3. CASE wrote
      BY <1>1, <2>1, <2>2, <2>3
    <2>4. CASE ~wrote
      BY <1>1, <2>4
    <2> QED BY <2>3, <2>4
  <1>8. \A k \in Keys : Bounded(stall'[k][0], taken'[k], takenSince'[k], hour)
    <2>1. Bounded(stall'[key][0], taken'[key], takenSince'[key], hour)
      BY <1>4, <1>6, <1>7
    <2>2. \A k \in Keys \ {key} : Bounded(stall'[k][0], taken'[k], takenSince'[k], hour)
      BY <1>6, <1>7 DEF StallsAre
    <2> QED BY <2>1, <2>2
  <1>9. \A k \in Keys : k \notin unwritten' => Exact(stall'[k][0], taken'[k], takenSince'[k])
    <2>1. key \notin unwritten' => Exact(stall'[key][0], taken'[key], takenSince'[key])
      BY <1>4, <1>5, <1>6, <1>7
    <2>2. \A k \in Keys \ {key} : k \notin unwritten' => Exact(stall'[k][0], taken'[k], takenSince'[k])
      BY <1>5, <1>6, <1>7 DEF StallsAre
    <2> QED BY <2>1, <2>2
  <1> QED BY <1>6, <1>7, <1>8, <1>9 DEF StallsAre

(* An edit leaves the device and its rows alone.                                            *)
LEMMA EditKept ==
    ASSUME RemoteConfigInv, Moves, fetch' = fetch \/ fetch' = NoDoc,
           device' = device, stall' = stall, taken' = taken, takenSince' = takenSince, unwritten' = unwritten,
           hour' = hour
    PROVE  RemoteConfigInv'
  <1>1. ConfigType'
    <2>1. served' \in Stores /\ disk' \in Stores /\ bundle' \in Stores /\ lowered' \in Nat
      BY DEF Moves, RemoteConfigInv, ConfigType
    <2> QED BY <2>1 DEF RemoteConfigInv, ConfigType
  <1>2. Succession'
    BY EditsKeepOrder DEF RemoteConfigInv
  <1> QED BY <1>1, <1>2 DEF RemoteConfigInv, StallsAre

(* What a copy is filled from is as new as what the fetch began with.                        *)
LEMMA FilledIsFetched ==
    ASSUME NEW configs \in Stores, NEW slug \in Names
    PROVE  /\ filled_from(configs, slug) \in [Sources -> Docs \cup {NoDoc}]
           /\ slug \in {"tiers", "tiers.es"} => \A s \in Sources : filled_from(configs, slug)[s] = configs[s]
  BY DEF filled_from, Stores, Slugs

(* What the fetch is answered with.                                                          *)
LEMMA AnswerKept ==
    ASSUME RemoteConfigInv, answer_config PROVE RemoteConfigInv'
  <1> USE DEF RemoteConfigInv
  <1>0. PICK wrote \in BOOLEAN, read \in IF tester THEN BOOLEAN ELSE {TRUE} :
          LET slug == resolve_slug(fetch.configs, tester /\ read)
              d == fetch.configs[slug]
              mine == device.held.version
              key == [app |-> device.app, slug |-> slug]
          IN  /\ slug # "none"
              /\ answer' = [kind |-> IF mine >= d.version THEN "unchanged" ELSE "full",
                            slug |-> slug, read |-> read]
              /\ IF mine >= d.version
                 THEN /\ stall' = IF wrote THEN [stall EXCEPT ![key] = clear(@, mine)] ELSE stall
                      /\ UNCHANGED <<device, taken, takenSince, unwritten>>
                 ELSE /\ stall' = IF wrote
                                  THEN [stall EXCEPT ![key] = record_full_payload(@, mine, d.version)]
                                  ELSE stall
                      /\ device' = keeps(d, slug, fetch.configs, fetch.seen)
                      /\ takes(key, wrote)
    BY Zenon DEF answer_config
  <1>1. PICK slug, d, mine, key :
          /\ slug = resolve_slug(fetch.configs, tester /\ read) /\ d = fetch.configs[slug]
          /\ mine = device.held.version /\ key = [app |-> device.app, slug |-> slug]
          /\ slug # "none"
          /\ \/ /\ mine >= d.version
                /\ stall' = IF wrote THEN [stall EXCEPT ![key] = clear(@, mine)] ELSE stall
                /\ device' = device /\ taken' = taken /\ takenSince' = takenSince /\ unwritten' = unwritten
             \/ /\ ~(mine >= d.version)
                /\ stall' = IF wrote THEN [stall EXCEPT ![key] = record_full_payload(@, mine, d.version)]
                            ELSE stall
                /\ device' = keeps(d, slug, fetch.configs, fetch.seen)
                /\ takes(key, wrote)
    BY <1>0
  <1>2. /\ fetch # NoDoc /\ fetch' = NoDoc /\ bundle' = bundle /\ disk' = disk /\ served' = served
        /\ hour' = hour /\ lowered' = lowered
    BY DEF answer_config
  <1>3. fetch.configs \in Stores /\ fetch.seen \in Nat
    BY <1>2 DEF ConfigType, Fetches, Stores
  <1>4. slug \in Names /\ d \in Docs
    BY <1>1, <1>3, ResolvedIsThere
  <1>5. /\ mine \in Nat /\ d.version \in Nat \ {0} /\ device \in Phones /\ device.app \in {"default", "other"}
        /\ d \in [version : Nat, tier : Nat, extra : Nat] /\ key \in Keys
    BY <1>1, <1>4 DEF ConfigType, Phones, Docs, Keys
  <1>6. /\ stall \in [Keys -> Sheets] /\ stall[key] \in Sheets /\ hour \in Nat
        /\ taken \in [Keys -> Nat] /\ takenSince \in [Keys -> Nat]
    BY <1>5 DEF ConfigType
  <1>7. clear(stall[key], mine) \in Sheets /\ record_full_payload(stall[key], mine, d.version) \in Sheets
    BY <1>5, <1>6, RowsKept
  <1>8. stall' \in [Keys -> Sheets]
    BY <1>1, <1>6, <1>7
  <1>9. CASE mine >= d.version
    <2>1. device' = device /\ taken' = taken /\ takenSince' = takenSince
      BY <1>1, <1>9
    <2>2. ~device.decodes => FALSE
      <3>1. ~device.decodes => mine = 0
        BY <1>1 DEF StallsAre
      <3> QED BY <1>5, <1>9, <3>1
    <2>3. ConfigType'
      BY <1>2, <1>8, <2>1 DEF ConfigType
    <2>4. Succession'
      BY <1>2, <2>1 DEF Succession
    <2> QED BY <2>1, <2>2, <2>3, <2>4
  <1>10. CASE ~(mine >= d.version)
    <2>1. /\ stall' = IF wrote THEN [stall EXCEPT ![key] = record_full_payload(@, mine, d.version)] ELSE stall
          /\ device' = keeps(d, slug, fetch.configs, fetch.seen) /\ takes(key, wrote)
      BY <1>1, <1>10
    <2>2. CASE device.decodes
      <3>1. PICK f \in [Sources -> Docs \cup {NoDoc}] :
              /\ f = filled_from(fetch.configs, slug)
              /\ slug \in {"tiers", "tiers.es"} => \A s \in Sources : f[s] = fetch.configs[s]
        BY <1>3, <1>4, FilledIsFetched
      <3>2. device' = [device EXCEPT !.slug = slug, !.held = d, !.filled = f, !.seen = fetch.seen]
        BY <2>1, <2>2, <3>1 DEF keeps
      <3>3. /\ device' \in Phones /\ device'.decodes = device.decodes
            /\ device'.slug = slug /\ device'.held = d /\ device'.filled = f /\ device'.seen = fetch.seen
        BY <1>3, <1>4, <1>5, <3>2 DEF Phones
      <3>4. taken' = taken /\ takenSince' = takenSince
        BY <2>1, <2>2 DEF takes
      <3>5. ConfigType'
        BY <1>2, <1>8, <3>3, <3>4 DEF ConfigType
      <3>6. fetch.seen = lowered => \A s \in Slugs : NotOlder(served[s], fetch.configs[s])
        BY <1>2 DEF Succession
      <3>7. fetch.seen = lowered =>
              /\ NotOlder(served[slug], d)
              /\ slug \in {"tiers", "tiers.es"} => \A s \in Sources : NotOlder(served[s], f[s])
        BY <1>1, <1>4, <3>1, <3>6 DEF Slugs
      <3>8. Succession'
        BY <1>2, <3>3, <3>7 DEF Succession
      <3>9. device'.decodes
        BY <2>2, <3>3, Zenon
      <3> QED BY <3>5, <3>8, <3>9
    <2>3. CASE ~device.decodes
      <3>1. mine = 0 /\ StallsAre
        BY <1>1, <2>3 DEF StallsAre
      <3>2. device.decodes = FALSE
        <4>1. PICK b \in BOOLEAN : b = device.decodes
          BY <1>5 DEF Phones
        <4> QED BY <2>3, <4>1
      <3>3. stall' = IF wrote THEN [stall EXCEPT ![key] = record_full_payload(@, 0, d.version)] ELSE stall
        BY <2>1, <3>1
      <3>4. device' = device
        BY <2>1, <3>2 DEF keeps
      <3>5. StallsAre' /\ taken' \in [Keys -> Nat] /\ takenSince' \in [Keys -> Nat]
        <4>1. PICK n \in Nat : n = d.version
          BY <1>5
        <4>2. stall' = IF wrote THEN [stall EXCEPT ![key] = record_full_payload(@, 0, n)] ELSE stall
          BY <3>3, <4>1
        <4>3. key \in Keys /\ takes(key, wrote) /\ hour' = hour /\ ConfigType
          BY <1>2, <1>5, <2>1
        <4> QED BY <3>1, <3>2, <3>4, <4>2, <4>3, TakenIsCounted, Zenon
      <3>6. ConfigType'
        BY <1>2, <1>8, <3>4, <3>5 DEF ConfigType
      <3>7. Succession'
        BY <1>2, <3>4 DEF Succession
      <3> QED BY <3>5, <3>6, <3>7
    <2> QED BY <2>2, <2>3
  <1> QED BY <1>9, <1>10

(* The invariant is inductive.                                                               *)
LEMMA RemoteConfigStep == RemoteConfigInv /\ [RemoteConfigNext]_configVars => RemoteConfigInv'
  <1> SUFFICES ASSUME RemoteConfigInv, [RemoteConfigNext]_configVars PROVE RemoteConfigInv'
    OBVIOUS
  <1> USE DEF RemoteConfigInv
  <1>1. CASE Deploy
    BY <1>1, DeployMoves, EditKept DEF Deploy, stallVars
  <1>2. CASE update_config
    BY <1>2, UpdateMoves, EditKept DEF update_config, editVars, stallVars
  <1>3. CASE sync_config_from_bundle
    BY <1>3, SyncMoves, EditKept DEF sync_config_from_bundle, editVars, stallVars
  <1>4. CASE update_tier_tunable_field
    BY <1>4, TunableMoves, EditKept DEF update_tier_tunable_field, editVars, stallVars
  <1>5. CASE update_documents
    BY <1>5, DocumentsMove, EditKept DEF update_documents, editVars, stallVars
  <1>6. CASE update_project_chat_cap
    BY <1>6, CapMoves, EditKept DEF update_project_chat_cap, editVars, stallVars
  <1>15. CASE update_entitlements_matrix_cell
    BY <1>15, MatrixMoves, EditKept DEF update_entitlements_matrix_cell, editVars, stallVars
  <1>7. CASE upsert_tester
    BY <1>7 DEF upsert_tester, ConfigType, Succession, StallsAre, stallVars
  <1>8. CASE device_changes
    <2>1. PICK b \in {"old", "new", "unreadable"}, l \in {"en", "es"}, a \in {"default", "other"} :
            device' = [device EXCEPT !.build = b, !.lang = l, !.app = a]
      BY <1>8 DEF device_changes
    <2>2. device \in Phones
      BY DEF ConfigType
    <2>3. /\ device' \in Phones /\ device'.decodes = device.decodes /\ device'.slug = device.slug
          /\ device'.held = device.held /\ device'.filled = device.filled /\ device'.seen = device.seen
      BY <2>1, <2>2 DEF Phones
    <2>4. ConfigType'
      BY <1>8, <2>3 DEF device_changes, ConfigType, stallVars
    <2>5. Succession'
      BY <1>8, <2>3 DEF device_changes, Succession
    <2>6. ~device'.decodes => ~device.decodes
      BY <2>3, Zenon
    <2>7. ~device'.decodes => StallsAre'
      BY <1>8, <2>3, <2>6 DEF device_changes, StallsAre, stallVars
    <2> QED BY <2>4, <2>5, <2>7
  <1>9. CASE reload_configs
    <2>1. /\ bundle' = bundle /\ disk' = disk /\ served' = disk /\ lowered' = lowered
          /\ fetch' = fetch /\ device' = device /\ stall' = stall /\ hour' = hour
          /\ taken' = taken /\ takenSince' = takenSince /\ unwritten' = unwritten
      BY <1>9 DEF reload_configs, editVars, stallVars
    <2>2. Moves
      BY <2>1 DEF Moves, ConfigType, Succession
    <2> QED BY <2>1, <2>2, EditKept
  <1>10. CASE get_config
    <2>1. /\ fetch' = [configs |-> served, seen |-> lowered] /\ bundle' = bundle /\ disk' = disk
          /\ served' = served /\ lowered' = lowered /\ device' = device /\ stall' = stall /\ hour' = hour
          /\ taken' = taken /\ takenSince' = takenSince /\ unwritten' = unwritten
      BY <1>10 DEF get_config, stallVars
    <2>2. fetch' \in Fetches /\ fetch'.configs = served /\ fetch'.seen = lowered
      BY <2>1 DEF ConfigType, Fetches, Stores
    <2>3. ConfigType'
      BY <2>1, <2>2 DEF ConfigType
    <2>4. \A s \in Slugs : NotOlder(served[s], served[s])
      BY DocsAreRecords DEF NotOlder, ConfigType, Stores
    <2>5. lowered <= lowered
      BY DEF ConfigType
    <2>6. Succession'
      BY <2>1, <2>2, <2>4, <2>5 DEF Succession
    <2> QED BY <2>1, <2>3, <2>6 DEF StallsAre
  <1>11. CASE answer_config
    BY <1>11, AnswerKept
  <1>12. CASE alert_stalled_clients
    <2>1. PICK k \in Keys, v \in 0 .. TopVersion :
            due(stall[k][v]) /\ stall' = [stall EXCEPT ![k][v] = told(@)]
      BY <1>12 DEF alert_stalled_clients
    <2>2. /\ bundle' = bundle /\ disk' = disk /\ served' = served /\ lowered' = lowered
          /\ fetch' = fetch /\ device' = device /\ hour' = hour
          /\ taken' = taken /\ takenSince' = takenSince /\ unwritten' = unwritten
      BY <1>12 DEF alert_stalled_clients
    <2>3. stall \in [Keys -> Sheets] /\ stall[k] \in [0 .. TopVersion -> StallRows \cup {NoDoc}]
          /\ 0 \in 0 .. TopVersion
      BY RemoteConfigAssumption DEF ConfigType, Sheets
    <2>4. stall[k][v] \in StallRows
      BY <2>1, <2>3 DEF due
    <2>5. PICK new \in StallRows : /\ new = told(stall[k][v]) /\ new # NoDoc
                                   /\ new.times = stall[k][v].times /\ new.first = stall[k][v].first
      BY <2>4, RowTold
    <2>6. PICK rows \in Sheets : rows = [stall[k] EXCEPT ![v] = new]
      BY <2>3 DEF Sheets
    <2>7. stall' = [stall EXCEPT ![k] = rows]
      BY <2>1, <2>5, <2>6
    <2>8. stall' \in [Keys -> Sheets] /\ stall'[k] = rows /\ \A j \in Keys \ {k} : stall'[j] = stall[j]
      BY <2>3, <2>7
    <2>9. ConfigType' /\ Succession'
      BY <2>2, <2>8 DEF ConfigType, Succession
    <2>10. \A j \in Keys : \/ stall'[j][0] = stall[j][0]
                           \/ /\ stall[j][0] # NoDoc /\ stall'[j][0] # NoDoc
                              /\ stall'[j][0].times = stall[j][0].times
                              /\ stall'[j][0].first = stall[j][0].first
      <3>1. v = 0 => rows[0] = new /\ stall[k][0] # NoDoc
        BY <2>3, <2>4, <2>6, NoDocIsNone
      <3>2. v # 0 => rows[0] = stall[k][0]
        BY <2>3, <2>6
      <3> QED BY <2>5, <2>8, <3>1, <3>2
    <2>11. StallsAre => StallsAre'
      <3> SUFFICES ASSUME StallsAre PROVE StallsAre'
        OBVIOUS
      <3>1. \A j \in Keys : Bounded(stall'[j][0], taken[j], takenSince[j], hour)
        BY <2>10 DEF StallsAre, Bounded
      <3>2. \A j \in Keys : j \notin unwritten => Exact(stall'[j][0], taken[j], takenSince[j])
        BY <2>10 DEF StallsAre, Exact
      <3> QED BY <2>2, <3>1, <3>2 DEF StallsAre
    <2> QED BY <2>2, <2>9, <2>11
  <1>13. CASE HourPasses
    <2>1. /\ hour' = hour + 1 /\ bundle' = bundle /\ disk' = disk /\ served' = served /\ lowered' = lowered
          /\ fetch' = fetch /\ device' = device /\ stall' = stall
          /\ taken' = taken /\ takenSince' = takenSince /\ unwritten' = unwritten
      BY <1>13 DEF HourPasses, stallVars
    <2>2. ConfigType' /\ Succession'
      BY <2>1 DEF ConfigType, Succession
    <2>3. \A k \in Keys : Bounded(stall[k][0], taken[k], takenSince[k], hour)
                           => Bounded(stall[k][0], taken[k], takenSince[k], hour + 1)
      <3>1. hour \in Nat /\ \A k \in Keys : takenSince[k] \in Nat
        BY DEF ConfigType
      <3>2. \A k \in Keys : takenSince[k] <= hour => takenSince[k] <= hour + 1
        BY <3>1
      <3> QED BY <3>2 DEF Bounded
    <2>4. StallsAre => StallsAre'
      BY <2>1, <2>3 DEF StallsAre
    <2> QED BY <2>1, <2>2, <2>4
  <1>14. CASE UNCHANGED configVars
    BY <1>14 DEF configVars, ConfigType, Succession, StallsAre
  <1> QED BY <1>1, <1>2, <1>3, <1>4, <1>5, <1>6, <1>7, <1>8, <1>9, <1>10, <1>11, <1>12, <1>13, <1>14, <1>15
          DEF RemoteConfigNext

(* It holds of a fresh image and of an overlay a release ahead of it.                          *)
LEMMA RemoteConfigStarts == RemoteConfigInit => RemoteConfigInv
  <1> SUFFICES ASSUME RemoteConfigInit PROVE RemoteConfigInv
    OBVIOUS
  <1>1. Least \in Nat
    BY LeastIsNat
  <1>2. Doc(1, Least, 0) \in Docs /\ Doc(1, 0, 0) \in Docs /\ Doc(2, 0, 0) \in Docs
    BY <1>1, DocsMade
  <1>3. PICK es \in {Doc(1, 0, 0), NoDoc} :
          bundle = [s \in Slugs |-> CASE s \in {"tiers", "pin", "entitlements"} -> Doc(1, Least, 0)
                                      [] s = "tiers.es" -> es
                                      [] OTHER -> NoDoc]
    BY DEF RemoteConfigInit
  <1>4. \A s \in Slugs : bundle[s] \in Docs \cup {NoDoc}
    BY <1>2, <1>3
  <1>5. bundle \in Stores
    BY <1>3, <1>4 DEF Stores
  <1>6. disk = [bundle EXCEPT !["tester"] = Doc(2, 0, 0)] /\ served = disk
    BY DEF RemoteConfigInit
  <1>7. disk \in Stores
    BY <1>2, <1>5, <1>6 DEF Stores
  <1>8. /\ device \in Phones /\ device.slug = "none" /\ device.seen = 0 /\ device.held.version = 0
    <2>1. [s \in Sources |-> NoDoc] \in [Sources -> Docs \cup {NoDoc}]
      OBVIOUS
    <2> QED BY <2>1 DEF RemoteConfigInit, Phones, Doc
  <1>9. /\ fetch = NoDoc /\ hour = 0 /\ lowered = 0
        /\ stall = [k \in Keys |-> [v \in 0 .. TopVersion |-> NoDoc]]
        /\ taken = [k \in Keys |-> 0] /\ takenSince = [k \in Keys |-> 0]
    BY DEF RemoteConfigInit
  <1>10. stall \in [Keys -> Sheets] /\ \A k \in Keys : stall[k][0] = NoDoc
    BY <1>9, RemoteConfigAssumption DEF Sheets
  <1>11. \A s \in Slugs : NotOlder(disk[s], served[s])
    BY <1>6, <1>7, DocsAreRecords DEF NotOlder, Stores
  <1>12. ConfigType
    BY <1>5, <1>6, <1>7, <1>8, <1>9, <1>10 DEF ConfigType
  <1>13. Succession
    BY <1>8, <1>9, <1>11 DEF Succession
  <1>14. StallsAre
    BY <1>8, <1>9, <1>10, RemoteConfigAssumption DEF StallsAre, Bounded, Exact
  <1> QED BY <1>12, <1>13, <1>14 DEF RemoteConfigInv

(* What "unchanged" stands for follows from the succession of documents.                        *)
LEMMA ServedIsFaithful == RemoteConfigInv => ServedFaithfully
  <1> SUFFICES ASSUME RemoteConfigInv PROVE ServedFaithfully
    OBVIOUS
  <1> USE DEF RemoteConfigInv
  <1>1. UnchangedIsCurrent
    <2> SUFFICES ASSUME device.slug # "none", device.seen = lowered, served[device.slug] # NoDoc,
                        device.held.version >= served[device.slug].version
                 PROVE  /\ Content(device.held) = Content(served[device.slug])
                        /\ (/\ device.slug \in {"tiers", "tiers.es"}
                            /\ \A s \in Sources : SameNumber(served[s], device.filled[s]))
                           => window(device.filled) = window(served)
      BY DEF UnchangedIsCurrent
    <2>1. NotOlder(served[device.slug], device.held)
      BY DEF Succession
    <2>2. /\ device.slug \in Slugs /\ device.held \in [version : Nat, tier : Nat, extra : Nat]
          /\ \A s \in Sources : device.filled[s] \in Docs \cup {NoDoc} /\ served[s] \in Docs \cup {NoDoc}
      BY DEF ConfigType, Phones, Slugs, Stores
    <2>3. served[device.slug].version \in Nat /\ device.held.version \in Nat /\ device.held # NoDoc
      <3>1. served[device.slug] \in Docs
        BY <2>2 DEF ConfigType, Stores
      <3>2. device.held # NoDoc
        BY <2>2, NoDocIsNone
      <3> QED BY <2>2, <3>1, <3>2, DocsAreRecords
    <2>4. Content(device.held) = Content(served[device.slug])
      BY <2>1, <2>3 DEF NotOlder
    <2>5. ASSUME device.slug \in {"tiers", "tiers.es"}, \A s \in Sources : SameNumber(served[s], device.filled[s])
          PROVE  window(device.filled) = window(served)
      <3>1. \A s \in Sources : NotOlder(served[s], device.filled[s])
        BY <2>5 DEF Succession
      <3>2. \A s \in Sources : /\ served[s] = NoDoc <=> device.filled[s] = NoDoc
                               /\ served[s] # NoDoc => Content(served[s]) = Content(device.filled[s])
        BY <2>5, <3>1 DEF SameNumber, NotOlder
      <3>3. \A s \in Sources : served[s] # NoDoc => served[s].tier = device.filled[s].tier
        BY <3>2 DEF Content
      <3> QED BY <3>2, <3>3 DEF window
    <2> QED BY <2>4, <2>5
  <1>2. StallCounted
    BY DEF StallCounted, Counted, StallsAre, Bounded, Exact
  <1> QED BY <1>1, <1>2 DEF ServedFaithfully

(* ServedFaithfully, for any field values, versions and number of edits: a device that would     *)
(* be told "unchanged" holds the content that is stored, filled in as now unless a document it   *)
(* was filled from has moved on; and the row of an app and a document counts what a device that  *)
(* cannot read was given, short of the writes that failed.                                       *)
THEOREM ServingIsFaithful == RemoteConfigSpec => []ServedFaithfully
  BY RemoteConfigStarts, RemoteConfigStep, ServedIsFaithful, PTL DEF RemoteConfigSpec

-----------------------------------------------------------------------------
(* Bringing the database up                                                  *)

Transcripts == [meeting : MeetingIds, id : Nat]
Usages == [app : Apps, counted : BOOLEAN]
Records == [schema : SUBSET Objects, migrations : Nat]
Statements ==
    {"add chat", "drop chat", "backfill apps", "backfill pings", "unique transcripts", "add counts", "fill counts"}

Files ==
    [schema : SUBSET Objects, record : Records \cup {NoRecord}, members : SUBSET Apps, usage : SUBSET Usages,
     pinged : SUBSET Apps,
     transcripts : SUBSET Transcripts, missed : SUBSET Statements, excused : SUBSET Statements,
     deleted : SUBSET Apps, late : SUBSET Apps, newest : [MeetingIds -> Nat]]

(* What a statement asks for of a database.                                     *)
Effect(s, db) ==
    /\ s = "drop chat" => "chat" \notin db.schema
    /\ s = "backfill apps" => apps_of(db.usage) \subseteq db.members \cup db.late
    /\ s = "backfill pings" => db.pinged \subseteq db.members \cup db.late
    /\ s = "unique transcripts" => "unique" \in db.schema
    /\ s = "add counts" => "counts" \in db.schema
    /\ s = "fill counts" => "counts" \in db.schema /\ \A u \in db.usage : u.counted = TRUE

(* What it asked for when a sweep left the schema S on record, and what has to    *)
(* hold still, should that be the schema again.                                 *)
Recorded(s, S, db) ==
    /\ s = "drop chat" => "chat" \notin S
    /\ s = "backfill apps" => apps_of(db.usage) \subseteq db.members \cup db.late
    /\ s = "backfill pings" => db.pinged \subseteq db.members \cup db.late
    /\ s = "unique transcripts" => "unique" \in S
    /\ s = "add counts" => "counts" \in S
    /\ s = "fill counts" => "counts" \in S /\ ("counts" \in db.schema => \A u \in db.usage : u.counted = TRUE)

(* Between two sweeps a file gains at most the column that comes and goes.       *)
RecordKnows(db) ==
    \A n \in Cuts, S \in SUBSET Objects :
        db.record = [schema |-> S, migrations |-> n] =>
            /\ db.schema \ {"chat"} \subseteq S
            /\ \A i \in 1 .. n : MIGRATIONS[i] \in db.excused \/ Recorded(MIGRATIONS[i], S, db)

(* The newest upload is there and none is newer; who was deleted is gone, but for *)
(* the late.                                                                     *)
RowsRight(db, last) ==
    /\ \A m \in MeetingIds :
         /\ db.newest[m] <= last
         /\ db.newest[m] # 0 => [meeting |-> m, id |-> db.newest[m]] \in db.transcripts
    /\ \A t \in db.transcripts : t.id <= db.newest[t.meeting]
    /\ "unique" \in db.schema => \A t, o \in db.transcripts : t.meeting = o.meeting => t = o
    /\ apps_of(db.usage) \cap db.deleted \subseteq db.late
    /\ db.pinged \cap db.deleted \subseteq db.late
    /\ db.members \cap db.deleted \subseteq db.late

Swept(db, n) == \A i \in 1 .. n : MIGRATIONS[i] \in db.missed \/ Effect(MIGRATIONS[i], db)

StartupInv ==
    /\ file \in Files /\ work \in Files /\ snapshot \in Files \cup {NoRecord}
    /\ opened \in BOOLEAN /\ pc \in {"down", "compare", "sweep", "purge", "serving"}
    /\ length \in Cuts /\ step \in Nat /\ uploads \in Nat /\ calls \subseteq Apps
    /\ RowsRight(file, uploads) /\ RowsRight(work, uploads)
    /\ RecordKnows(file)
    /\ snapshot # NoRecord => RowsRight(snapshot, uploads) /\ RecordKnows(snapshot)
    /\ ~opened /\ pc # "purge" => work = file
    /\ pc \in {"down", "compare", "serving"} => ~opened /\ step = 1
    /\ pc = "sweep" => step \in 1 .. length + 1 /\ (step > 3 => opened) /\ Swept(work, step - 1)
    /\ pc \in {"purge", "serving"} => work.record = fingerprints(work) /\ RecordKnows(work)
    /\ pc # "serving" => calls = {}

LEMMA TheStatements ==
    /\ Len(MIGRATIONS) = 7 /\ Cuts \subseteq 0 .. 7
    /\ MIGRATIONS[1] = "add chat" /\ MIGRATIONS[2] = "drop chat" /\ MIGRATIONS[3] = "backfill apps"
    /\ MIGRATIONS[4] = "backfill pings" /\ MIGRATIONS[5] = "unique transcripts" /\ MIGRATIONS[6] = "add counts"
    /\ MIGRATIONS[7] = "fill counts"
    /\ \A i \in 1 .. 7 : MIGRATIONS[i] \in Statements
    /\ \A i, j \in 1 .. 7 : MIGRATIONS[i] = MIGRATIONS[j] => i = j
  <1>1. /\ Len(MIGRATIONS) = 7
        /\ MIGRATIONS[1] = "add chat" /\ MIGRATIONS[2] = "drop chat" /\ MIGRATIONS[3] = "backfill apps"
        /\ MIGRATIONS[4] = "backfill pings" /\ MIGRATIONS[5] = "unique transcripts" /\ MIGRATIONS[6] = "add counts"
        /\ MIGRATIONS[7] = "fill counts"
    BY DEF MIGRATIONS
  <1>2. \A i \in 1 .. 7 : i = 1 \/ i = 2 \/ i = 3 \/ i = 4 \/ i = 5 \/ i = 6 \/ i = 7
    OBVIOUS
  <1>3. \A i \in 1 .. 7 : MIGRATIONS[i] \in Statements
    BY <1>1, <1>2 DEF Statements
  <1>4. \A i, j \in 1 .. 7 : MIGRATIONS[i] = MIGRATIONS[j] => i = j
    BY <1>1, <1>2
  <1> QED BY <1>1, <1>3, <1>4, StartupAssumption

LEMMA AppsOf ==
    ASSUME NEW U \in SUBSET Usages
    PROVE  /\ apps_of(U) \in SUBSET Apps
           /\ \A b \in BOOLEAN : /\ [app : apps_of(U), counted : {b}] \in SUBSET Usages
                                 /\ apps_of([app : apps_of(U), counted : {b}]) = apps_of(U)
                                 /\ \A u \in [app : apps_of(U), counted : {b}] : u.counted = b
  <1>1. apps_of(U) \in SUBSET Apps
    BY DEF apps_of, Usages
  <1>2. ASSUME NEW b \in BOOLEAN
        PROVE  /\ [app : apps_of(U), counted : {b}] \in SUBSET Usages
               /\ apps_of([app : apps_of(U), counted : {b}]) = apps_of(U)
               /\ \A u \in [app : apps_of(U), counted : {b}] : u.counted = b
    <2> DEFINE A == apps_of(U)
    <2>1. A \in SUBSET Apps
      BY <1>1
    <2> HIDE DEF A
    <2>2. [app : A, counted : {b}] \in SUBSET Usages /\ \A u \in [app : A, counted : {b}] : u.counted = b
      BY <2>1 DEF Usages
    <2>3. ASSUME NEW a \in A PROVE a \in apps_of([app : A, counted : {b}])
      <3>1. [app |-> a, counted |-> b] \in [app : A, counted : {b}] /\ [app |-> a, counted |-> b].app = a
        OBVIOUS
      <3> QED BY <3>1 DEF apps_of
    <2>4. apps_of([app : A, counted : {b}]) \subseteq A
      BY DEF apps_of
    <2>5. apps_of([app : A, counted : {b}]) = A
      BY <2>3, <2>4
    <2> QED BY <2>2, <2>5 DEF A
  <1> QED BY <1>1, <1>2

LEMMA OneUploadLeft ==
    ASSUME NEW db \in Files, NEW last, RowsRight(db, last)
    PROVE  LET rows == without_losers(db.transcripts)
           IN  /\ rows \subseteq db.transcripts
               /\ \A m \in MeetingIds : db.newest[m] # 0 => [meeting |-> m, id |-> db.newest[m]] \in rows
               /\ \A t, o \in rows : t.meeting = o.meeting => t = o
  <1> DEFINE rows == without_losers(db.transcripts)
  <1>1. db.transcripts \in SUBSET Transcripts /\ db.newest \in [MeetingIds -> Nat] /\ rows \subseteq db.transcripts
    BY DEF Files, without_losers
  <1>2. ASSUME NEW m \in MeetingIds, db.newest[m] # 0 PROVE [meeting |-> m, id |-> db.newest[m]] \in rows
    <2>1. PICK t \in db.transcripts : t = [meeting |-> m, id |-> db.newest[m]] /\ t.meeting = m /\ t.id = db.newest[m]
      BY <1>2 DEF RowsRight
    <2>2. ASSUME NEW o \in db.transcripts, o.meeting = m PROVE ~(o.id > t.id)
      <3>1. o.id <= db.newest[m] /\ o.id \in Nat /\ db.newest[m] \in Nat
        BY <1>1, <2>2 DEF RowsRight, Transcripts
      <3> QED BY <2>1, <3>1
    <2> QED BY <2>1, <2>2 DEF without_losers
  <1>3. ASSUME NEW t \in rows, NEW o \in rows, t.meeting = o.meeting PROVE t = o
    <2>1. t \in Transcripts /\ o \in Transcripts /\ ~(o.id > t.id) /\ ~(t.id > o.id)
      BY <1>1, <1>3 DEF without_losers
    <2>2. t.id = o.id
      BY <2>1 DEF Transcripts
    <2> QED BY <1>3, <2>1, <2>2 DEF Transcripts
  <1> QED BY <1>1, <1>2, <1>3

(* A statement does what it is for, undoes no other but for the column that comes  *)
(* and goes, and keeps the rows right.                                           *)
LEMMA StatementsWork ==
    ASSUME NEW db \in Files, NEW last \in Nat, RowsRight(db, last), NEW s \in Statements
    PROVE  LET after == applied(s, db)
           IN  /\ after \in Files /\ RowsRight(after, last)
               /\ after.missed = db.missed /\ after.record = db.record /\ after.excused = db.excused
               /\ ~impossible(s, db) => Effect(s, after)
               /\ \A o : s # "add chat" /\ Effect(o, db) => Effect(o, after)
               /\ s \notin Writes /\ s # "add counts" =>
                     after = [db EXCEPT !.schema = after.schema] /\ after.schema \ {"chat"} = db.schema \ {"chat"}
  <1>1. /\ db.schema \in SUBSET Objects /\ db.usage \in SUBSET Usages /\ db.members \in SUBSET Apps
        /\ db.pinged \in SUBSET Apps
        /\ db.transcripts \in SUBSET Transcripts
    BY DEF Files
  <1>2. CASE s = "add chat"
    <2>0. PICK S \in SUBSET Objects : S = db.schema \cup {"chat"}
      BY <1>1 DEF Objects
    <2>1. applied(s, db) = [db EXCEPT !.schema = S]
      BY <1>2, <2>0 DEF applied
    <2>2. /\ [db EXCEPT !.schema = S] \in Files /\ [db EXCEPT !.schema = S].schema = S
          /\ ("unique" \in S => "unique" \in db.schema) /\ S \ {"chat"} = db.schema \ {"chat"}
      BY <2>0 DEF Files
    <2>3. RowsRight([db EXCEPT !.schema = S], last)
      BY <2>2 DEF Files, RowsRight
    <2> QED BY <1>1, <1>2, <2>0, <2>1, <2>2, <2>3 DEF Files, Effect
  <1>3. CASE s = "drop chat"
    <2>1. applied(s, db) = [db EXCEPT !.schema = db.schema \ {"chat"}]
      BY <1>3 DEF applied
    <2> QED BY <1>1, <1>3, <2>1 DEF Files, RowsRight, Effect
  <1>4. CASE s = "backfill apps"
    <2>1. PICK M \in SUBSET Apps : M = db.members \cup apps_of(db.usage)
      BY <1>1, AppsOf
    <2>2. PICK new : new = [db EXCEPT !.members = M]
      OBVIOUS
    <2>3. applied(s, db) = new /\ s \in Writes
      BY <1>4, <2>1, <2>2 DEF applied, Writes
    <2>4. /\ new \in Files /\ new.members = M /\ new.transcripts = db.transcripts /\ new.schema = db.schema
          /\ new.newest = db.newest /\ new.usage = db.usage /\ new.pinged = db.pinged /\ new.deleted = db.deleted
          /\ new.late = db.late /\ new.missed = db.missed /\ new.record = db.record /\ new.excused = db.excused
      BY <2>2 DEF Files
    <2>5. RowsRight(new, last)
      <3>1. M \cap db.deleted \subseteq db.late
        BY <2>1 DEF RowsRight
      <3> QED BY <2>4, <3>1 DEF RowsRight
    <2>6. Effect(s, new) /\ \A o : Effect(o, db) => Effect(o, new)
      BY <1>4, <2>1, <2>4 DEF Effect
    <2> QED BY <2>3, <2>4, <2>5, <2>6
  <1>8. CASE s = "backfill pings"
    <2>1. PICK M \in SUBSET Apps : M = db.members \cup db.pinged
      BY <1>1, AppsOf
    <2>2. PICK new : new = [db EXCEPT !.members = M]
      OBVIOUS
    <2>3. applied(s, db) = new /\ s \in Writes
      BY <1>8, <2>1, <2>2 DEF applied, Writes
    <2>4. /\ new \in Files /\ new.members = M /\ new.transcripts = db.transcripts /\ new.schema = db.schema
          /\ new.newest = db.newest /\ new.usage = db.usage /\ new.pinged = db.pinged /\ new.deleted = db.deleted
          /\ new.late = db.late /\ new.missed = db.missed /\ new.record = db.record /\ new.excused = db.excused
      BY <2>2 DEF Files
    <2>5. RowsRight(new, last)
      <3>1. M \cap db.deleted \subseteq db.late
        BY <2>1 DEF RowsRight
      <3> QED BY <2>4, <3>1 DEF RowsRight
    <2>6. Effect(s, new) /\ \A o : Effect(o, db) => Effect(o, new)
      BY <1>8, <2>1, <2>4 DEF Effect
    <2> QED BY <2>3, <2>4, <2>5, <2>6
  <1>5. CASE s = "unique transcripts"
    <2> DEFINE rows == without_losers(db.transcripts)
    <2>1. applied(s, db) = [db EXCEPT !.transcripts = rows, !.schema = db.schema \cup {"unique"}] /\ s \in Writes
      BY <1>5 DEF applied, Writes
    <2>2. /\ rows \subseteq db.transcripts
          /\ \A m \in MeetingIds : db.newest[m] # 0 => [meeting |-> m, id |-> db.newest[m]] \in rows
          /\ \A t, o \in rows : t.meeting = o.meeting => t = o
      BY OneUploadLeft
    <2> HIDE DEF rows
    <2>3. PICK S \in SUBSET Objects : S = db.schema \cup {"unique"}
      BY <1>1 DEF Objects
    <2>4. PICK new : new = [db EXCEPT !.transcripts = rows, !.schema = S]
      OBVIOUS
    <2>5. /\ new \in Files /\ new.transcripts = rows /\ new.schema = S /\ new.newest = db.newest
          /\ new.usage = db.usage /\ new.pinged = db.pinged /\ new.members = db.members /\ new.deleted = db.deleted /\ new.late = db.late
          /\ new.missed = db.missed /\ new.record = db.record /\ new.excused = db.excused
      BY <1>1, <2>2, <2>4 DEF Files
    <2>6. RowsRight(new, last)
      BY <2>2, <2>5 DEF RowsRight
    <2>7. applied(s, db) = new /\ s \in Writes
      BY <2>1, <2>3, <2>4
    <2>8. Effect(s, new) /\ \A o : Effect(o, db) => Effect(o, new)
      <3>1. "unique" \in S /\ \A x : x # "unique" => (x \in S <=> x \in db.schema)
        BY <2>3
      <3>2. "chat" # "unique" /\ "counts" # "unique"
        OBVIOUS
      <3> QED BY <1>5, <2>5, <3>1, <3>2 DEF Effect
    <2> QED BY <2>5, <2>6, <2>7, <2>8
  <1>6. CASE s = "add counts"
    <2>0. PICK S \in SUBSET Objects : S = db.schema \cup {"counts"}
      BY <1>1 DEF Objects
    <2>1. applied(s, db) = [db EXCEPT !.schema = S]
      BY <1>6, <2>0 DEF applied
    <2>2. /\ [db EXCEPT !.schema = S] \in Files /\ [db EXCEPT !.schema = S].schema = S
          /\ ("unique" \in S => "unique" \in db.schema) /\ S \ {"counts"} = db.schema \ {"counts"}
      BY <2>0 DEF Files
    <2>3. RowsRight([db EXCEPT !.schema = S], last)
      BY <2>2 DEF Files, RowsRight
    <2> QED BY <1>1, <1>6, <2>0, <2>1, <2>2, <2>3 DEF Files, Effect
  <1>7. CASE s = "fill counts"
    <2>0. PICK yes \in BOOLEAN : yes = TRUE
      OBVIOUS
    <2>1. PICK U : U = [app : apps_of(db.usage), counted : {yes}]
      OBVIOUS
    <2>2. U \in SUBSET Usages /\ apps_of(U) = apps_of(db.usage) /\ \A u \in U : u.counted = TRUE
      BY <1>1, <2>0, <2>1, AppsOf
    <2>3. applied(s, db) = [db EXCEPT !.usage = U] /\ s \in Writes
      BY <1>7, <2>0, <2>1 DEF applied, Writes
    <2>4. ~impossible(s, db) => "counts" \in db.schema
      BY <1>7 DEF impossible
    <2> QED BY <1>1, <1>7, <2>2, <2>3, <2>4 DEF Files, RowsRight, Effect
  <1> QED BY <1>2, <1>3, <1>4, <1>5, <1>6, <1>7, <1>8 DEF Statements

LEMMA SameSnapshot ==
    ASSUME StartupInv, UNCHANGED <<snapshot, uploads>>
    PROVE  (snapshot # NoRecord => RowsRight(snapshot, uploads) /\ RecordKnows(snapshot))'
  <1>1. snapshot # NoRecord => RowsRight(snapshot, uploads) /\ RecordKnows(snapshot)
    BY DEF StartupInv
  <1>2. RowsRight(snapshot, uploads) => RowsRight(snapshot, uploads)'
    BY DEF RowsRight
  <1>3. RecordKnows(snapshot) => RecordKnows(snapshot)'
    BY DEF RecordKnows, Recorded
  <1> QED BY <1>1, <1>2, <1>3

LEMMA SameFile ==
    ASSUME StartupInv, UNCHANGED <<file, uploads>>
    PROVE  RowsRight(file, uploads)' /\ RecordKnows(file)'
  <1>1. RowsRight(file, uploads) /\ RecordKnows(file)
    BY DEF StartupInv
  <1>2. RowsRight(file, uploads)'
    BY <1>1 DEF RowsRight
  <1>3. RecordKnows(file)'
    BY <1>1 DEF RecordKnows, Recorded
  <1> QED BY <1>2, <1>3

(* A transaction that a crash undoes leaves the file as it was.                  *)
LEMMA Undone ==
    ASSUME StartupInv, pc' = "down", work' = file, opened' = FALSE, step' = 1, calls' = {},
           UNCHANGED <<file, length, snapshot, uploads>>
    PROVE  StartupInv'
  <1>1. opened' \in BOOLEAN /\ calls' \subseteq Apps
    BY Zenon
  <1> QED BY <1>1 DEF StartupInv

LEMMA CutsBounded == \A n \in Cuts : n \in 0 .. 7
  BY TheStatements

LEMMA OneStatement ==
    ASSUME StartupInv, pc = "sweep", pc' = "sweep", step <= length, step' = step + 1, NEW db \in Files,
           executed(MIGRATIONS[step], db), RowsRight(db, uploads), Swept(db, step),
           step \in 1 .. 2 /\ RecordKnows(work) => RecordKnows(db),
           UNCHANGED <<length, snapshot, calls, uploads>>
    PROVE  StartupInv'
  <1>0. step \in 1 .. 7 /\ step \in 1 .. length
    <2>1. step \in 1 .. length + 1 /\ length \in Cuts
      BY DEF StartupInv
    <2>2. length \in 0 .. 7
      BY <2>1, CutsBounded
    <2> QED BY <2>1, <2>2
  <1>1. opened \in BOOLEAN /\ (step > 3 => opened) /\ (~opened => work = file /\ RecordKnows(work))
    BY DEF StartupInv
  <1>2. PICK on \in BOOLEAN : on = (opened \/ MIGRATIONS[step] \in Writes)
    BY Zenon
  <1>3. work' = db /\ opened' = on /\ (file' = IF on THEN file ELSE db)
    BY <1>2 DEF executed
  <1>4. ~on => step \in 1 .. 2 /\ ~opened
    <2>1. ~on => ~opened /\ MIGRATIONS[step] \notin Writes
      BY <1>2, Zenon
    <2>2. MIGRATIONS[3] \in Writes
      BY TheStatements DEF Writes
    <2>3. ~on => ~(step > 3) /\ step # 3
      BY <1>1, <2>1, <2>2
    <2>4. ~(step > 3) /\ step # 3 => step \in 1 .. 2
      BY <1>0
    <2> QED BY <2>1, <2>3, <2>4
  <1>5. file' \in Files /\ RowsRight(file', uploads) /\ RecordKnows(file')
    BY <1>1, <1>3, <1>4 DEF StartupInv
  <1>6. step' \in 1 .. length + 1 /\ step' - 1 = step /\ step' \in Nat
    <2>1. length \in Nat
      BY CutsBounded DEF StartupInv
    <2> QED BY <1>0, <2>1
  <1>7. step' > 3 => on
    <2>1. step' > 3 => ~(step \in 1 .. 2)
      BY <1>0
    <2> QED BY <1>4, <2>1
  <1>8. RowsRight(file, uploads)' /\ RowsRight(work, uploads)' /\ RecordKnows(file)'
    BY <1>3, <1>5 DEF RowsRight, RecordKnows, Recorded
  <1>9. Swept(work, step - 1)'
    BY <1>3, <1>6 DEF Swept, Effect
  <1>10. ~opened' /\ pc' # "purge" => work' = file'
    BY <1>3
  <1>11. pc' \notin {"down", "compare", "serving", "purge"} /\ calls' = {} /\ calls' \subseteq Apps
    BY DEF StartupInv
  <1>12. (snapshot # NoRecord => RowsRight(snapshot, uploads) /\ RecordKnows(snapshot))'
    BY SameSnapshot
  <1> QED BY <1>3, <1>5, <1>6, <1>7, <1>8, <1>9, <1>10, <1>11, <1>12 DEF StartupInv

(* A database the record still speaks for.                                       *)
LEMMA RecordStays ==
    ASSUME NEW a, NEW b, RecordKnows(a), b.record = a.record, b.excused = a.excused,
           b.schema \ {"chat"} \subseteq a.schema \ {"chat"},
           apps_of(a.usage) \subseteq a.members \cup a.late => apps_of(b.usage) \subseteq b.members \cup b.late,
           a.pinged \subseteq a.members \cup a.late => b.pinged \subseteq b.members \cup b.late,
           "counts" \in b.schema /\ (\A u \in a.usage : u.counted = TRUE) => \A u \in b.usage : u.counted = TRUE
    PROVE  RecordKnows(b)
  <1>1. SUFFICES ASSUME NEW n \in Cuts, NEW S \in SUBSET Objects, b.record = [schema |-> S, migrations |-> n]
                 PROVE  /\ b.schema \ {"chat"} \subseteq S
                        /\ \A i \in 1 .. n : MIGRATIONS[i] \in b.excused \/ Recorded(MIGRATIONS[i], S, b)
    BY DEF RecordKnows
  <1>2. /\ a.schema \ {"chat"} \subseteq S
        /\ \A i \in 1 .. n : MIGRATIONS[i] \in a.excused \/ Recorded(MIGRATIONS[i], S, a)
    BY <1>1 DEF RecordKnows
  <1>3. "counts" \in b.schema => "counts" \in a.schema
    OBVIOUS
  <1>4. \A s : Recorded(s, S, a) => Recorded(s, S, b)
    BY <1>3 DEF Recorded
  <1> QED BY <1>2, <1>4

LEMMA RunMigrationKept == ASSUME StartupInv, run_migration PROVE StartupInv'
  <1>1. /\ pc = "sweep" /\ step <= length
        /\ UNCHANGED <<length, snapshot, calls, boots, uploads>>
    BY DEF run_migration
  <1>2. step \in 1 .. 7
    <2>1. step \in 1 .. length + 1 /\ length \in Cuts
      BY <1>1 DEF StartupInv
    <2>2. length \in 0 .. 7
      BY <2>1, CutsBounded
    <2> QED BY <1>1, <2>1, <2>2
  <1>3. PICK s \in Statements : s = MIGRATIONS[step]
    BY <1>2, TheStatements
  <1>4. work \in Files /\ uploads \in Nat /\ RowsRight(work, uploads)
    BY DEF StartupInv
  <1>5. \A i \in 1 .. step - 1 : /\ MIGRATIONS[i] # s
                                 /\ MIGRATIONS[i] \in work.missed \/ Effect(MIGRATIONS[i], work)
    <2>1. ASSUME NEW i \in 1 .. step - 1 PROVE MIGRATIONS[i] # s
      <3>1. i \in 1 .. 7 /\ i # step
        BY <1>2
      <3> QED BY <1>2, <1>3, <3>1, TheStatements
    <2> QED BY <1>1, <2>1 DEF StartupInv, Swept
  <1>6. \A i \in 1 .. step : i = step \/ i \in 1 .. step - 1
    BY <1>2
  <1>7. step \in 1 .. 2 => s \notin Writes /\ s # "add counts"
    <2>1. step \in 1 .. 2 => step = 1 \/ step = 2
      OBVIOUS
    <2> QED BY <1>3, <2>1, TheStatements DEF Writes
  <1>8. step = 1 \/ s # "add chat"
    <2>1. step # 1 => MIGRATIONS[step] # MIGRATIONS[1]
      <3>1. 1 \in 1 .. 7
        OBVIOUS
      <3> QED BY <1>2, <3>1, TheStatements
    <2> QED BY <1>3, <2>1, TheStatements
  <1>9. step = 1 => 1 .. step - 1 = {}
    OBVIOUS
  <1>10. ASSUME ~impossible(s, work), executed(s, [applied(s, work) EXCEPT !.missed = @ \ {s}]),
                step' = step + 1, UNCHANGED pc
         PROVE  StartupInv'
    <2> DEFINE after == applied(s, work)
               db == [after EXCEPT !.missed = @ \ {s}]
    <2>1. /\ after \in Files /\ RowsRight(after, uploads)
          /\ after.missed = work.missed /\ after.record = work.record /\ after.excused = work.excused
          /\ ~impossible(s, work) => Effect(s, after)
          /\ \A o : s # "add chat" /\ Effect(o, work) => Effect(o, after)
          /\ s \notin Writes /\ s # "add counts" =>
                after = [work EXCEPT !.schema = after.schema] /\ after.schema \ {"chat"} = work.schema \ {"chat"}
      BY <1>4, StatementsWork
    <2> HIDE DEF after
    <2>2. /\ db \in Files /\ db.schema = after.schema /\ db.usage = after.usage /\ db.pinged = after.pinged /\ db.members = after.members
          /\ db.transcripts = after.transcripts /\ db.newest = after.newest /\ db.deleted = after.deleted
          /\ db.late = after.late /\ db.record = after.record /\ db.excused = after.excused
          /\ db.missed = after.missed \ {s}
      BY <2>1 DEF Files
    <2> HIDE DEF db
    <2>3. RowsRight(db, uploads)
      BY <2>1, <2>2 DEF RowsRight
    <2>4. Swept(db, step)
      <3>1. Effect(s, db)
        BY <1>10, <2>1, <2>2 DEF Effect
      <3>2. ASSUME NEW i \in 1 .. step - 1 PROVE MIGRATIONS[i] \in db.missed \/ Effect(MIGRATIONS[i], db)
        <4>1. s # "add chat"
          BY <1>8, <1>9
        <4>2. MIGRATIONS[i] # s /\ (MIGRATIONS[i] \in work.missed \/ Effect(MIGRATIONS[i], after))
          BY <1>5, <2>1, <4>1
        <4>3. Effect(MIGRATIONS[i], after) => Effect(MIGRATIONS[i], db)
          BY <2>2 DEF Effect
        <4> QED BY <2>1, <2>2, <4>2, <4>3
      <3> QED BY <1>3, <1>6, <3>1, <3>2 DEF Swept
    <2>5. step \in 1 .. 2 /\ RecordKnows(work) => RecordKnows(db)
      <3>1. ASSUME step \in 1 .. 2
            PROVE  /\ db.schema \ {"chat"} = work.schema \ {"chat"} /\ db.usage = work.usage
                   /\ db.pinged = work.pinged /\ db.members = work.members /\ db.late = work.late
        <4>1. after = [work EXCEPT !.schema = after.schema] /\ after.schema \ {"chat"} = work.schema \ {"chat"}
          BY <1>7, <2>1, <3>1
        <4>2. after.usage = work.usage /\ after.pinged = work.pinged /\ after.members = work.members /\ after.late = work.late
          BY <1>4, <4>1 DEF Files
        <4> QED BY <2>2, <4>1, <4>2
      <3> QED BY <2>1, <2>2, <3>1, RecordStays
    <2>6. executed(MIGRATIONS[step], db)
      BY <1>3, <1>10 DEF db, after
    <2> QED BY <1>1, <1>10, <2>2, <2>3, <2>4, <2>5, <2>6, OneStatement
  <1>11. ASSUME executed(s, [work EXCEPT !.missed = @ \cup {s}]), step' = step + 1, UNCHANGED pc
         PROVE  StartupInv'
    <2> DEFINE db == [work EXCEPT !.missed = @ \cup {s}]
    <2>2. /\ db \in Files /\ db.schema = work.schema /\ db.usage = work.usage /\ db.pinged = work.pinged /\ db.members = work.members
          /\ db.transcripts = work.transcripts /\ db.newest = work.newest /\ db.deleted = work.deleted
          /\ db.late = work.late /\ db.record = work.record /\ db.excused = work.excused
          /\ db.missed = work.missed \cup {s}
      BY <1>4 DEF Files
    <2> HIDE DEF db
    <2>3. RowsRight(db, uploads)
      BY <1>4, <2>2 DEF RowsRight
    <2>4. Swept(db, step)
      <3>1. ASSUME NEW i \in 1 .. step - 1 PROVE MIGRATIONS[i] \in db.missed \/ Effect(MIGRATIONS[i], db)
        BY <1>5, <2>2 DEF Effect
      <3> QED BY <1>3, <1>6, <2>2, <3>1 DEF Swept
    <2>5. RecordKnows(work) => RecordKnows(db)
      BY <2>2 DEF RecordKnows, Recorded
    <2>6. executed(MIGRATIONS[step], db)
      BY <1>3, <1>11 DEF db
    <2> QED BY <1>1, <1>11, <2>2, <2>3, <2>4, <2>5, <2>6, OneStatement
  <1>12. ASSUME pc' = "down", work' = file, opened' = FALSE, step' = 1, UNCHANGED file
         PROVE  StartupInv'
    <2>1. calls' = {}
      BY <1>1 DEF StartupInv
    <2> QED BY <1>1, <1>12, <2>1, Undone
  <1> QED BY <1>3, <1>10, <1>11, <1>12 DEF run_migration

LEMMA RecordSweepKept == ASSUME StartupInv, record_sweep PROVE StartupInv'
  <1>1. /\ pc = "sweep" /\ step > length /\ pc' = "purge" /\ opened' = TRUE
        /\ work' = [work EXCEPT !.record = fingerprints(work), !.excused = work.missed]
        /\ UNCHANGED <<file, step, length, snapshot, calls, boots, uploads, upsets>>
    BY DEF record_sweep
  <1>2. work \in Files /\ length \in Cuts /\ work.schema \in SUBSET Objects /\ work.missed \in SUBSET Statements
    BY DEF StartupInv, Files
  <1>3. Swept(work, length)
    <2>1. step \in 1 .. length + 1 /\ Swept(work, step - 1)
      BY <1>1 DEF StartupInv
    <2>2. length \in Nat
      BY <1>2, CutsBounded
    <2>3. step - 1 = length
      BY <1>1, <2>1, <2>2
    <2> QED BY <2>1, <2>3
  <1>4. PICK rec \in Records : rec = fingerprints(work) /\ rec = [schema |-> work.schema, migrations |-> length]
    <2>1. length \in Nat
      BY <1>2, CutsBounded
    <2> QED BY <1>2, <2>1 DEF fingerprints, Records
  <1>5. /\ work' \in Files /\ work'.record = rec /\ work'.excused = work.missed /\ work'.schema = work.schema
        /\ work'.usage = work.usage /\ work'.pinged = work.pinged /\ work'.members = work.members /\ work'.late = work.late
        /\ work'.transcripts = work.transcripts /\ work'.newest = work.newest /\ work'.deleted = work.deleted
    BY <1>1, <1>2, <1>4 DEF Files
  <1>6. RecordKnows(work')
    <2>1. ASSUME NEW n \in Cuts, NEW S \in SUBSET Objects, work'.record = [schema |-> S, migrations |-> n]
          PROVE  S = work.schema /\ n = length
      BY <1>4, <1>5, <2>1
    <2>2. \A i \in 1 .. length : MIGRATIONS[i] \in work.missed \/ Recorded(MIGRATIONS[i], work.schema, work')
      BY <1>3, <1>5 DEF Swept, Effect, Recorded
    <2> QED BY <1>5, <2>1, <2>2 DEF RecordKnows
  <1>7. RowsRight(work, uploads)'
    BY <1>1, <1>5 DEF StartupInv, RowsRight
  <1>8. fingerprints(work)' = rec
    BY <1>1, <1>4, <1>5 DEF fingerprints
  <1>9. RowsRight(file, uploads)' /\ RecordKnows(file)' /\ RecordKnows(work)'
    <2>1. RecordKnows(work)'
      BY <1>1, <1>6 DEF RecordKnows, Recorded
    <2> QED BY <1>1, <2>1, SameFile
  <1>10. (snapshot # NoRecord => RowsRight(snapshot, uploads) /\ RecordKnows(snapshot))'
    BY <1>1, SameSnapshot
  <1>11. opened' \in BOOLEAN
    BY <1>1, Zenon
  <1> QED BY <1>1, <1>5, <1>7, <1>8, <1>9, <1>10, <1>11 DEF StartupInv

LEMMA RowsStay ==
    ASSUME NEW db \in Files, NEW last \in Nat, NEW more \in Nat, last <= more, RowsRight(db, last)
    PROVE  RowsRight(db, more)
  <1>1. ASSUME NEW m \in MeetingIds PROVE db.newest[m] <= more
    <2>1. db.newest[m] \in Nat /\ db.newest[m] <= last
      BY DEF Files, RowsRight
    <2> QED BY <2>1
  <1> QED BY <1>1 DEF RowsRight

LEMMA PurgeExpiredKept == ASSUME StartupInv, purge_expired PROVE StartupInv'
  <1>1. /\ pc = "purge" /\ file' = work' /\ opened' = FALSE /\ pc' = "serving" /\ step' = 1
        /\ UNCHANGED <<length, snapshot, calls, boots, uploads, upsets>>
    BY DEF purge_expired
  <1>2. PICK cut \in {0, uploads}, recent \in SUBSET work.pinged :
           work' = [work EXCEPT !.pinged = recent,
                                !.transcripts = {t \in @ : t.id >= cut},
                                !.newest = [m \in MeetingIds |-> IF @[m] < cut THEN 0 ELSE @[m]]]
    BY DEF purge_expired
  <1>3. /\ work \in Files /\ cut \in Nat /\ RowsRight(work, uploads) /\ uploads \in Nat
        /\ work.pinged \in SUBSET Apps /\ work.newest \in [MeetingIds -> Nat] /\ work.transcripts \in SUBSET Transcripts
    BY DEF StartupInv, Files
  <1>4. PICK rows \in SUBSET Transcripts : rows = {t \in work.transcripts : t.id >= cut}
    BY <1>3
  <1>5. PICK last \in [MeetingIds -> Nat] : last = [m \in MeetingIds |-> IF work.newest[m] < cut THEN 0 ELSE work.newest[m]]
    BY <1>3
  <1>6. /\ work' \in Files /\ work'.transcripts = rows /\ work'.newest = last /\ work'.record = work.record
        /\ work'.excused = work.excused /\ work'.schema = work.schema /\ work'.usage = work.usage
        /\ work'.pinged = recent /\ recent \subseteq work.pinged /\ work'.members = work.members /\ work'.late = work.late /\ work'.deleted = work.deleted
    BY <1>2, <1>3, <1>4, <1>5 DEF Files
  <1>7. RowsRight(work, uploads)'
    <2>1. ASSUME NEW m \in MeetingIds
          PROVE  last[m] <= uploads /\ (last[m] # 0 => [meeting |-> m, id |-> last[m]] \in rows)
      <3>1. /\ work.newest[m] \in Nat /\ work.newest[m] <= uploads
            /\ work.newest[m] # 0 => [meeting |-> m, id |-> work.newest[m]] \in work.transcripts
        BY <1>3 DEF RowsRight
      <3>2. CASE work.newest[m] < cut
        <4>1. last[m] = 0
          BY <1>5, <3>2
        <4> QED BY <1>3, <4>1
      <3>3. CASE ~(work.newest[m] < cut)
        <4>1. last[m] = work.newest[m] /\ [meeting |-> m, id |-> last[m]].id >= cut
          BY <1>3, <1>5, <3>1, <3>3
        <4> QED BY <1>4, <3>1, <4>1
      <3> QED BY <3>2, <3>3
    <2>2. ASSUME NEW t \in rows PROVE t.id <= last[t.meeting]
      <3>1. /\ t \in work.transcripts /\ t.id >= cut /\ t.id \in Nat /\ t.meeting \in MeetingIds
            /\ t.id <= work.newest[t.meeting] /\ work.newest[t.meeting] \in Nat
        BY <1>3, <1>4 DEF RowsRight, Transcripts
      <3>2. last[t.meeting] = work.newest[t.meeting]
        BY <1>3, <1>5, <3>1
      <3> QED BY <3>1, <3>2
    <2> QED BY <1>1, <1>3, <1>4, <1>6, <2>1, <2>2 DEF RowsRight
  <1>8. RecordKnows(work)' /\ fingerprints(work)' = fingerprints(work)
    <2>1. RecordKnows(work)
      BY <1>1 DEF StartupInv
    <2>2. RecordKnows(work')
      BY <1>6, <2>1, RecordStays
    <2> QED BY <1>1, <1>6, <2>2 DEF RecordKnows, Recorded, fingerprints
  <1>9. RowsRight(file, uploads)' /\ RecordKnows(file)'
    BY <1>1, <1>7, <1>8 DEF RowsRight, RecordKnows, Recorded
  <1>10. (snapshot # NoRecord => RowsRight(snapshot, uploads) /\ RecordKnows(snapshot))'
    BY <1>1, SameSnapshot
  <1>11. opened' \in BOOLEAN /\ calls = {} /\ calls' \subseteq Apps
    BY <1>1, Zenon DEF StartupInv
  <1> QED BY <1>1, <1>6, <1>7, <1>8, <1>9, <1>10, <1>11 DEF StartupInv

(* A request is served: what it leaves is right and the record speaks for it.    *)
LEMMA ServedKept ==
    ASSUME StartupInv, pc = "serving", NEW db \in Files, Served(db), uploads' \in Nat, uploads <= uploads',
           RowsRight(db, uploads'), RecordKnows(db), db.record = fingerprints(db),
           calls' \subseteq Apps
    PROVE  StartupInv'
  <1>1. /\ file' = db /\ work' = db /\ pc' = "serving"
        /\ UNCHANGED <<opened, step, length, snapshot, boots, upsets>>
    BY DEF Served
  <1>2. RowsRight(file, uploads)' /\ RowsRight(work, uploads)' /\ RecordKnows(file)' /\ RecordKnows(work)'
    BY <1>1 DEF RowsRight, RecordKnows, Recorded
  <1>3. (snapshot # NoRecord => RowsRight(snapshot, uploads) /\ RecordKnows(snapshot))'
    <2>1. snapshot # NoRecord =>
             snapshot \in Files /\ uploads \in Nat /\ RowsRight(snapshot, uploads) /\ RecordKnows(snapshot)
      BY DEF StartupInv
    <2>2. snapshot # NoRecord => RowsRight(snapshot, uploads')
      BY <2>1, RowsStay
    <2> QED BY <1>1, <2>1, <2>2 DEF RowsRight, RecordKnows, Recorded
  <1>4. fingerprints(work)' = fingerprints(db)
    BY <1>1 DEF fingerprints
  <1> QED BY <1>1, <1>2, <1>3, <1>4 DEF StartupInv

LEMMA WhileServing ==
    ASSUME StartupInv, pc = "serving"
    PROVE  /\ file \in Files /\ uploads \in Nat /\ RowsRight(file, uploads) /\ RecordKnows(file)
           /\ file.record = fingerprints(file) /\ calls \subseteq Apps
           /\ length \in 0 .. 7
  BY CutsBounded DEF StartupInv

LEMMA UploadKept == ASSUME StartupInv, NEW m \in MeetingIds, UploadTranscript(m) PROVE StartupInv'
  <1> DEFINE others == {t \in file.transcripts : "unique" \in file.schema => t.meeting # m}
             one == [meeting |-> m, id |-> uploads + 1]
             db == [file EXCEPT !.transcripts = {t \in @ : "unique" \in file.schema => t.meeting # m} \cup {one},
                                !.newest[m] = uploads + 1]
  <1>1. pc = "serving" /\ uploads' = uploads + 1 /\ Served(db) /\ UNCHANGED calls
    BY DEF UploadTranscript
  <1>2. /\ file \in Files /\ uploads \in Nat /\ RowsRight(file, uploads) /\ RecordKnows(file)
        /\ file.record = fingerprints(file) /\ calls \subseteq Apps
    BY <1>1, WhileServing
  <1>3. PICK next \in Nat : next = uploads + 1 /\ uploads <= next
    BY <1>2
  <1>4. /\ file.transcripts \in SUBSET Transcripts /\ file.newest \in [MeetingIds -> Nat]
        /\ others \in SUBSET Transcripts /\ others \subseteq file.transcripts
    BY <1>2 DEF Files
  <1>5. one \in Transcripts /\ one.meeting = m /\ one.id = next
    BY <1>3 DEF Transcripts
  <1>6. PICK last \in [MeetingIds -> Nat] : last = [file.newest EXCEPT ![m] = next]
    BY <1>4
  <1>7. db = [file EXCEPT !.transcripts = others \cup {one}, !.newest = last]
    BY <1>2, <1>3, <1>6 DEF Files
  <1> HIDE DEF others, one, db
  <1>8. /\ db \in Files /\ db.transcripts = others \cup {one} /\ db.newest = last /\ db.record = file.record
        /\ db.excused = file.excused /\ db.schema = file.schema /\ db.usage = file.usage
        /\ db.pinged = file.pinged /\ db.members = file.members /\ db.late = file.late /\ db.deleted = file.deleted
    BY <1>2, <1>4, <1>5, <1>6, <1>7 DEF Files
  <1>9. RowsRight(db, next)
    <2>1. \A x \in MeetingIds : last[x] = IF x = m THEN next ELSE file.newest[x]
      BY <1>4, <1>6
    <2>2. ASSUME NEW x \in MeetingIds
          PROVE  last[x] <= next /\ (last[x] # 0 => [meeting |-> x, id |-> last[x]] \in others \cup {one})
      <3>1. CASE x = m
        BY <1>3, <2>1, <3>1 DEF one
      <3>2. CASE x # m
        <4>1. file.newest[x] \in Nat /\ file.newest[x] <= uploads /\ last[x] = file.newest[x]
          BY <1>2, <1>4, <2>1, <3>2 DEF RowsRight
        <4>2. file.newest[x] # 0 => [meeting |-> x, id |-> file.newest[x]] \in others
          <5>1. file.newest[x] # 0 => [meeting |-> x, id |-> file.newest[x]] \in file.transcripts
            BY <1>2 DEF RowsRight
          <5> QED BY <3>2, <5>1 DEF others
        <4> QED BY <1>2, <1>3, <4>1, <4>2
      <3> QED BY <3>1, <3>2
    <2>3. ASSUME NEW t \in others PROVE t.id <= last[t.meeting]
      <3>1. /\ t.id \in Nat /\ t.meeting \in MeetingIds /\ file.newest[t.meeting] \in Nat
            /\ t.id <= file.newest[t.meeting] /\ file.newest[t.meeting] <= uploads
        BY <1>2, <1>4 DEF RowsRight, Transcripts
      <3> QED BY <1>2, <1>3, <2>1, <3>1
    <2>4. ASSUME "unique" \in file.schema, NEW t \in others \cup {one}, NEW o \in others \cup {one}, t.meeting = o.meeting
          PROVE  t = o
      <3>1. \A x \in others : x.meeting # m
        BY <2>4 DEF others
      <3>2. \A x, y \in others : x.meeting = y.meeting => x = y
        BY <1>2, <1>4, <2>4 DEF RowsRight
      <3> QED BY <1>5, <2>4, <3>1, <3>2
    <2>5. last[one.meeting] = next
      BY <1>5, <2>1
    <2>6. \A t \in others \cup {one} : t.id <= last[t.meeting]
      BY <1>5, <2>3, <2>5
    <2> QED BY <1>2, <1>8, <2>2, <2>4, <2>6 DEF RowsRight
  <1>10. RecordKnows(db)
    BY <1>2, <1>8, RecordStays
  <1>11. db.record = fingerprints(db)
    BY <1>2, <1>8 DEF fingerprints
  <1> QED BY <1>1, <1>2, <1>3, <1>8, <1>9, <1>10, <1>11, ServedKept

LEMMA SignInKept == ASSUME StartupInv, NEW a \in Apps, SignIn(a) PROVE StartupInv'
  <1> DEFINE db == [file EXCEPT !.members = @ \cup {a}, !.deleted = @ \ {a}, !.late = @ \ {a}]
  <1>1. pc = "serving" /\ Served(db) /\ UNCHANGED <<calls, uploads>>
    BY DEF SignIn
  <1>2. /\ file \in Files /\ uploads \in Nat /\ RowsRight(file, uploads) /\ RecordKnows(file)
        /\ file.record = fingerprints(file) /\ calls \subseteq Apps
    BY <1>1, WhileServing
  <1>3. /\ db \in Files /\ db.transcripts = file.transcripts /\ db.newest = file.newest /\ db.record = file.record
        /\ db.excused = file.excused /\ db.schema = file.schema /\ db.usage = file.usage
        /\ db.pinged = file.pinged /\ db.members = file.members \cup {a} /\ db.late = file.late \ {a} /\ db.deleted = file.deleted \ {a}
    BY <1>2 DEF Files
  <1> HIDE DEF db
  <1>4. RowsRight(db, uploads)
    BY <1>2, <1>3 DEF RowsRight
  <1>5. RecordKnows(db)
    BY <1>2, <1>3, RecordStays
  <1>6. db.record = fingerprints(db)
    BY <1>2, <1>3 DEF fingerprints
  <1> QED BY <1>1, <1>2, <1>3, <1>4, <1>5, <1>6, ServedKept

LEMMA CallBeginsKept == ASSUME StartupInv, NEW a \in Apps, CallBegins(a) PROVE StartupInv'
  <1>1. pc = "serving" /\ Served(file) /\ UNCHANGED uploads /\ calls' = calls \cup {a}
    BY DEF CallBegins
  <1>2. /\ file \in Files /\ uploads \in Nat /\ RowsRight(file, uploads) /\ RecordKnows(file)
        /\ file.record = fingerprints(file) /\ calls \subseteq Apps
    BY <1>1, WhileServing
  <1> QED BY <1>1, <1>2, ServedKept

LEMMA LogUsageOfKept == ASSUME StartupInv, NEW a \in Apps, log_usage(a) PROVE StartupInv'
  <1>1. /\ pc = "serving" /\ a \in calls /\ calls' = calls \ {a} /\ UNCHANGED uploads
        /\ Served(IF carries("add counts") /\ "counts" \notin file.schema THEN file
                  ELSE [file EXCEPT !.usage = @ \cup {[app |-> a, counted |-> carries("add counts")]},
                                    !.late = IF a \in file.members THEN @ ELSE @ \cup {a}])
    BY DEF log_usage
  <1>2. /\ file \in Files /\ uploads \in Nat /\ RowsRight(file, uploads) /\ RecordKnows(file)
        /\ file.record = fingerprints(file) /\ calls \subseteq Apps
        /\ length \in 0 .. 7
    BY <1>1, WhileServing
  <1>9. calls' \subseteq Apps /\ uploads' \in Nat /\ uploads <= uploads'
    <2>1. calls' \subseteq calls /\ uploads' = uploads
      BY <1>1
    <2> QED BY <1>2, <2>1
  <1>3. CASE carries("add counts") /\ "counts" \notin file.schema
    <2>1. Served(file)
      BY <1>1, <1>3
    <2> QED BY <1>1, <1>2, <1>9, <2>1, ServedKept
  <1>4. CASE ~(carries("add counts") /\ "counts" \notin file.schema)
    <2>1. PICK has \in BOOLEAN : has = carries("add counts")
      BY DEF carries
    <2>2. PICK row : row = [app |-> a, counted |-> has]
      OBVIOUS
    <2>3. row \in Usages /\ row.app = a /\ row.counted = has
      BY <2>2 DEF Usages
    <2>4. PICK late \in SUBSET Apps : late = IF a \in file.members THEN file.late ELSE file.late \cup {a}
      BY <1>2 DEF Files
    <2> DEFINE db == [file EXCEPT !.usage = @ \cup {row}, !.late = late]
    <2>5. Served(db)
      BY <1>1, <1>2, <1>4, <2>1, <2>2, <2>4 DEF Files
    <2>6. /\ db \in Files /\ db.transcripts = file.transcripts /\ db.newest = file.newest /\ db.record = file.record
          /\ db.excused = file.excused /\ db.schema = file.schema /\ db.usage = file.usage \cup {row}
          /\ db.pinged = file.pinged /\ db.members = file.members /\ db.late = late /\ db.deleted = file.deleted
      BY <1>2, <2>3 DEF Files
    <2> HIDE DEF db
    <2>7. apps_of(db.usage) = apps_of(file.usage) \cup {a}
      BY <2>3, <2>6 DEF apps_of
    <2>8. RowsRight(db, uploads)
      BY <1>2, <2>4, <2>6, <2>7 DEF RowsRight
    <2>9. RecordKnows(db)
      <3>1. SUFFICES ASSUME NEW n \in Cuts, NEW S \in SUBSET Objects, db.record = [schema |-> S, migrations |-> n]
                     PROVE  /\ db.schema \ {"chat"} \subseteq S
                            /\ \A i \in 1 .. n : MIGRATIONS[i] \in db.excused \/ Recorded(MIGRATIONS[i], S, db)
        BY DEF RecordKnows
      <3>2. /\ S = file.schema /\ n = length /\ file.schema \ {"chat"} \subseteq S
            /\ \A i \in 1 .. n : MIGRATIONS[i] \in file.excused \/ Recorded(MIGRATIONS[i], S, file)
        BY <1>2, <2>6, <3>1 DEF RecordKnows, fingerprints
      <3>3. ASSUME NEW i \in 1 .. n, Recorded(MIGRATIONS[i], S, file) PROVE Recorded(MIGRATIONS[i], S, db)
        <4>1. a \in file.members \cup late
          BY <1>1, <1>2, <2>4
        <4>2. MIGRATIONS[i] = "fill counts" => has = TRUE
          <5>1. i \in 1 .. 7 /\ 7 \in 1 .. 7
            BY <1>2, <3>2
          <5>2. MIGRATIONS[i] = "fill counts" => i = 7
            BY <5>1, TheStatements
          <5>3. i = 7 => 6 \in 1 .. length
            BY <1>2, <3>2
          <5>4. i = 7 => carries("add counts")
            BY <5>3, TheStatements DEF carries
          <5> QED BY <2>1, <5>2, <5>4
        <4> QED BY <2>3, <2>4, <2>6, <2>7, <3>3, <4>1, <4>2 DEF Recorded
      <3> QED BY <2>6, <3>2, <3>3
    <2>10. db.record = fingerprints(db)
      BY <1>2, <2>6 DEF fingerprints
    <2> QED BY <1>1, <1>9, <2>5, <2>6, <2>8, <2>9, <2>10, ServedKept
  <1> QED BY <1>3, <1>4

LEMMA PingEventKept == ASSUME StartupInv, NEW a \in Apps, ping_event(a) PROVE StartupInv'
  <1>1. /\ pc = "serving" /\ UNCHANGED <<calls, uploads>>
        /\ Served([file EXCEPT !.pinged = @ \cup {a}, !.late = IF a \in file.members THEN @ ELSE @ \cup {a}])
    BY DEF ping_event
  <1>2. /\ file \in Files /\ uploads \in Nat /\ RowsRight(file, uploads) /\ RecordKnows(file)
        /\ file.record = fingerprints(file) /\ calls \subseteq Apps
    BY <1>1, WhileServing
  <1>3. PICK late \in SUBSET Apps : late = IF a \in file.members THEN file.late ELSE file.late \cup {a}
    BY <1>2 DEF Files
  <1> DEFINE db == [file EXCEPT !.pinged = @ \cup {a}, !.late = late]
  <1>4. Served(db)
    BY <1>1, <1>2, <1>3 DEF Files
  <1>5. /\ db \in Files /\ db.transcripts = file.transcripts /\ db.newest = file.newest /\ db.record = file.record
        /\ db.excused = file.excused /\ db.schema = file.schema /\ db.usage = file.usage
        /\ db.pinged = file.pinged \cup {a} /\ db.members = file.members /\ db.late = late /\ db.deleted = file.deleted
    BY <1>2, <1>3 DEF Files
  <1> HIDE DEF db
  <1>6. RowsRight(db, uploads)
    <2>1. a \in file.deleted => a \in late
      BY <1>2, <1>3 DEF RowsRight
    <2> QED BY <1>2, <1>3, <1>5, <2>1 DEF RowsRight
  <1>7. RecordKnows(db)
    BY <1>2, <1>3, <1>5, RecordStays
  <1>8. db.record = fingerprints(db)
    BY <1>2, <1>5 DEF fingerprints
  <1> QED BY <1>1, <1>2, <1>4, <1>5, <1>6, <1>7, <1>8, ServedKept

LEMMA DeleteAppKept == ASSUME StartupInv, NEW a \in Apps, DeleteApp(a) PROVE StartupInv'
  <1>1. /\ pc = "serving" /\ a \in file.members /\ UNCHANGED <<calls, uploads>>
        /\ Served([file EXCEPT !.usage = scoped_purge(a, @), !.pinged = @ \ {a}, !.members = @ \ {a},
                               !.deleted = @ \cup {a}, !.late = @ \ {a},
                               !.transcripts = IF a = Owner THEN {} ELSE @,
                               !.newest = IF a = Owner THEN [m \in MeetingIds |-> 0] ELSE @])
    BY DEF DeleteApp
  <1>2. /\ file \in Files /\ uploads \in Nat /\ RowsRight(file, uploads) /\ RecordKnows(file)
        /\ file.record = fingerprints(file) /\ calls \subseteq Apps
    BY <1>1, WhileServing
  <1>3. PICK U \in SUBSET Usages : U = scoped_purge(a, file.usage) /\ U \subseteq file.usage /\ \A u \in U : u.app # a
    <2>1. file.usage \in SUBSET Usages
      BY <1>2 DEF Files
    <2> DEFINE V == scoped_purge(a, file.usage)
    <2>2. V \subseteq file.usage /\ \A u \in V : u.app # a
      BY DEF scoped_purge
    <2> HIDE DEF V
    <2>3. V \in SUBSET Usages
      BY <2>1, <2>2
    <2>4. V = scoped_purge(a, file.usage)
      BY DEF V
    <2> QED BY <2>2, <2>3, <2>4
  <1>4. PICK rows \in SUBSET Transcripts, last \in [MeetingIds -> Nat] :
          /\ rows = IF a = Owner THEN {} ELSE file.transcripts
          /\ last = IF a = Owner THEN [m \in MeetingIds |-> 0] ELSE file.newest
    BY <1>2 DEF Files
  <1> DEFINE db == [file EXCEPT !.usage = U, !.pinged = @ \ {a}, !.members = @ \ {a}, !.deleted = @ \cup {a},
                                !.late = @ \ {a}, !.transcripts = rows, !.newest = last]
  <1>5. Served(db)
    BY <1>1, <1>2, <1>3, <1>4 DEF Files
  <1>6. /\ db \in Files /\ db.transcripts = rows /\ db.newest = last /\ db.record = file.record
        /\ db.excused = file.excused /\ db.schema = file.schema /\ db.usage = U /\ db.pinged = file.pinged \ {a}
        /\ db.members = file.members \ {a} /\ db.late = file.late \ {a} /\ db.deleted = file.deleted \cup {a}
    BY <1>2, <1>3, <1>4 DEF Files
  <1> HIDE DEF db
  <1>7. apps_of(U) \subseteq apps_of(file.usage) /\ a \notin apps_of(U)
    BY <1>3 DEF apps_of
  <1>8. RowsRight(db, uploads)
    <2>1. CASE a = Owner
      <3>1. rows = {} /\ \A m \in MeetingIds : last[m] = 0
        BY <1>4, <2>1
      <3> QED BY <1>2, <1>6, <1>7, <3>1 DEF RowsRight
    <2>2. CASE a # Owner
      <3>1. rows = file.transcripts /\ last = file.newest
        BY <1>4, <2>2
      <3> QED BY <1>2, <1>6, <1>7, <3>1 DEF RowsRight
    <2> QED BY <2>1, <2>2
  <1>9. RecordKnows(db)
    BY <1>2, <1>3, <1>6, <1>7, RecordStays
  <1>10. db.record = fingerprints(db)
    BY <1>2, <1>6 DEF fingerprints
  <1> QED BY <1>1, <1>2, <1>5, <1>6, <1>8, <1>9, <1>10, ServedKept

(* The same files are as good after a step as before it.                         *)
LEMMA SameFiles ==
    ASSUME StartupInv, UNCHANGED <<file, work, snapshot, uploads>>
    PROVE  /\ (file \in Files /\ work \in Files /\ snapshot \in Files \cup {NoRecord} /\ uploads \in Nat)'
           /\ RowsRight(file, uploads)' /\ RowsRight(work, uploads)' /\ RecordKnows(file)'
           /\ (snapshot # NoRecord => RowsRight(snapshot, uploads) /\ RecordKnows(snapshot))'
           /\ (RecordKnows(work) => RecordKnows(work)')
  <1>1. /\ file \in Files /\ work \in Files /\ snapshot \in Files \cup {NoRecord} /\ uploads \in Nat
        /\ RowsRight(file, uploads) /\ RowsRight(work, uploads) /\ RecordKnows(file)
        /\ snapshot # NoRecord => RowsRight(snapshot, uploads) /\ RecordKnows(snapshot)
    BY DEF StartupInv
  <1>2. RowsRight(file, uploads)' /\ RowsRight(work, uploads)'
    BY <1>1 DEF RowsRight
  <1>3. RecordKnows(file)' /\ (RecordKnows(work) => RecordKnows(work)')
    BY <1>1 DEF RecordKnows, Recorded
  <1>4. (snapshot # NoRecord => RowsRight(snapshot, uploads) /\ RecordKnows(snapshot))'
    BY SameSnapshot
  <1> QED BY <1>1, <1>2, <1>3, <1>4

LEMMA BootKept == ASSUME StartupInv, Boot PROVE StartupInv'
  <1>1. /\ pc = "down" /\ pc' = "compare"
        /\ UNCHANGED <<file, work, opened, step, length, snapshot, calls, uploads>>
    BY DEF Boot
  <1>2. /\ opened \in BOOLEAN /\ ~opened /\ work = file /\ step = 1 /\ step \in Nat /\ length \in Cuts /\ calls = {}
        /\ calls \subseteq Apps
    BY <1>1 DEF StartupInv
  <1> QED BY <1>1, <1>2, SameFiles DEF StartupInv

LEMMA CompareKept == ASSUME StartupInv, compare_fingerprints PROVE StartupInv'
  <1>1. /\ pc = "compare" /\ pc' = (IF converged(work) THEN "purge" ELSE "sweep")
        /\ UNCHANGED <<file, work, opened, step, length, snapshot, calls, boots, uploads, upsets>>
    BY DEF compare_fingerprints
  <1>2. work = file /\ ~opened /\ step = 1 /\ RecordKnows(work) /\ length \in Nat
    BY <1>1, CutsBounded DEF StartupInv
  <1>3. pc' = "purge" => work.record = fingerprints(work)
    BY <1>1 DEF converged
  <1>4. step \in 1 .. length + 1 /\ step - 1 = 0 /\ 1 .. 0 = {} /\ ~(step > 3)
    BY <1>2
  <1>5. Swept(work, step - 1)'
    BY <1>1, <1>4 DEF Swept
  <1>6. /\ RowsRight(file, uploads)' /\ RowsRight(work, uploads)' /\ RecordKnows(file)' /\ RecordKnows(work)'
        /\ (snapshot # NoRecord => RowsRight(snapshot, uploads) /\ RecordKnows(snapshot))'
    BY <1>1, <1>2, SameFiles
  <1>7. fingerprints(work)' = fingerprints(work)
    BY <1>1 DEF fingerprints
  <1>8. pc' # "serving" /\ pc' # "down" /\ calls' = {} /\ calls' \subseteq Apps
    BY <1>1 DEF StartupInv
  <1>9. /\ (file \in Files /\ work \in Files /\ snapshot \in Files \cup {NoRecord})'
        /\ uploads' \in Nat /\ opened' \in BOOLEAN /\ length' \in Cuts /\ step' \in Nat
    BY <1>1 DEF StartupInv
  <1>10. pc' = "sweep" => (step \in 1 .. length + 1 /\ (step > 3 => opened) /\ Swept(work, step - 1))'
    BY <1>1, <1>4, <1>5
  <1> QED BY <1>1, <1>2, <1>3, <1>6, <1>7, <1>8, <1>9, <1>10 DEF StartupInv

LEMMA CrashKept == ASSUME StartupInv, Crash PROVE StartupInv'
  <1>1. /\ pc' = "down" /\ work' = file /\ opened' = FALSE /\ step' = 1 /\ pc # "serving"
        /\ UNCHANGED <<file, length, snapshot, calls, boots, uploads>>
    BY DEF Crash
  <1>2. calls' = {}
    BY <1>1 DEF StartupInv
  <1> QED BY <1>1, <1>2, Undone

LEMMA RedeployKept == ASSUME StartupInv, Redeploy PROVE StartupInv'
  <1>1. /\ pc = "serving" /\ length' \in Cuts /\ pc' = "down" /\ calls' = {}
        /\ UNCHANGED <<file, work, opened, step, snapshot, boots, uploads, upsets>>
    BY DEF Redeploy
  <1>2. calls' \subseteq Apps
    BY <1>1
  <1>3. opened \in BOOLEAN /\ ~opened /\ work = file /\ step = 1 /\ step \in Nat
    BY <1>1 DEF StartupInv
  <1> QED BY <1>1, <1>2, <1>3, SameFiles DEF StartupInv

(* The schema, the release and what is being served are as before.               *)
LEMMA ReplicateKept == ASSUME StartupInv, Replicate PROVE StartupInv'
  <1>1. /\ snapshot' = file
        /\ UNCHANGED <<file, work, opened, pc, step, length, calls, boots, uploads, upsets>>
    BY DEF Replicate
  <1>4. /\ file \in Files /\ work \in Files /\ uploads \in Nat
        /\ RowsRight(file, uploads) /\ RowsRight(work, uploads) /\ RecordKnows(file)
    BY DEF StartupInv
  <1>2. /\ RowsRight(file, uploads)' /\ RowsRight(work, uploads)' /\ RecordKnows(file)'
        /\ RowsRight(snapshot, uploads)' /\ RecordKnows(snapshot)' /\ (RecordKnows(work) => RecordKnows(work)')
    BY <1>1, <1>4 DEF RowsRight, RecordKnows, Recorded
  <1>3. fingerprints(work)' = fingerprints(work) /\ (Swept(work, step - 1) => Swept(work, step - 1)')
    BY <1>1 DEF fingerprints, Swept, Effect
  <1> QED BY <1>1, <1>2, <1>3, <1>4 DEF StartupInv

LEMMA RestoreKept == ASSUME StartupInv, Restore PROVE StartupInv'
  <1>1. /\ pc = "down" /\ snapshot # NoRecord /\ file' = snapshot /\ work' = snapshot /\ snapshot' = NoRecord
        /\ UNCHANGED <<opened, pc, step, length, calls, boots, uploads>>
    BY DEF Restore
  <1>2. snapshot \in Files /\ RowsRight(snapshot, uploads) /\ RecordKnows(snapshot)
    BY <1>1 DEF StartupInv
  <1>3. RowsRight(file, uploads)' /\ RowsRight(work, uploads)' /\ RecordKnows(file)'
    BY <1>1, <1>2 DEF RowsRight, RecordKnows, Recorded
  <1> QED BY <1>1, <1>2, <1>3 DEF StartupInv

LEMMA OperatorDropsKept == ASSUME StartupInv, OperatorDrops PROVE StartupInv'
  <1>1. PICK o \in file.schema :
           file' = [file EXCEPT !.schema = @ \ {o},
                                !.usage = IF o = "counts" THEN [app : apps_of(file.usage), counted : {FALSE}] ELSE @]
    BY DEF OperatorDrops
  <1>2. /\ pc = "down" /\ work' = file'
        /\ UNCHANGED <<opened, pc, step, length, snapshot, calls, boots, uploads>>
    BY DEF OperatorDrops
  <1>3. /\ file \in Files /\ RowsRight(file, uploads) /\ RecordKnows(file) /\ file.usage \in SUBSET Usages
        /\ file.schema \in SUBSET Objects
    BY DEF StartupInv, Files
  <1>4. PICK no \in BOOLEAN : no = FALSE
    OBVIOUS
  <1>5. PICK U : U = IF o = "counts" THEN [app : apps_of(file.usage), counted : {no}] ELSE file.usage
    OBVIOUS
  <1>6. U \in SUBSET Usages /\ apps_of(U) = apps_of(file.usage) /\ (o # "counts" => U = file.usage)
    BY <1>3, <1>5, AppsOf
  <1>7. file' = [file EXCEPT !.schema = file.schema \ {o}, !.usage = U]
    BY <1>1, <1>3, <1>4, <1>5 DEF Files
  <1>8. /\ file' \in Files /\ file'.transcripts = file.transcripts /\ file'.newest = file.newest
        /\ file'.record = file.record /\ file'.excused = file.excused /\ file'.schema = file.schema \ {o}
        /\ file'.usage = U /\ file'.pinged = file.pinged /\ file'.members = file.members /\ file'.late = file.late /\ file'.deleted = file.deleted
    BY <1>3, <1>6, <1>7 DEF Files
  <1>9. RowsRight(file', uploads)
    BY <1>3, <1>6, <1>8 DEF RowsRight
  <1>10. RecordKnows(file')
    BY <1>3, <1>6, <1>8, RecordStays
  <1>11. RowsRight(file, uploads)' /\ RowsRight(work, uploads)' /\ RecordKnows(file)'
    BY <1>2, <1>9, <1>10 DEF RowsRight, RecordKnows, Recorded
  <1>12. (snapshot # NoRecord => RowsRight(snapshot, uploads) /\ RecordKnows(snapshot))'
    BY <1>2, SameSnapshot
  <1>13. /\ opened' \in BOOLEAN /\ ~opened' /\ step' = 1 /\ step' \in Nat /\ length' \in Cuts /\ calls' = {}
         /\ calls' \subseteq Apps /\ uploads' \in Nat /\ snapshot' \in Files \cup {NoRecord}
    BY <1>2 DEF StartupInv
  <1> QED BY <1>2, <1>8, <1>11, <1>12, <1>13 DEF StartupInv

LEMMA StartupBegins == ASSUME StartupInit PROVE StartupInv
  <1> DEFINE m == CHOOSE x \in MeetingIds : TRUE
  <1>1. m \in MeetingIds
    BY StartupAssumption
  <1> HIDE DEF m
  <1>2. PICK no \in BOOLEAN, yes \in BOOLEAN : no = FALSE /\ yes = TRUE
    OBVIOUS
  <1>3. PICK rows \in SUBSET Transcripts :
          /\ rows = [meeting : {m}, id : {1, 2}]
          /\ [meeting |-> m, id |-> 2] \in rows /\ \A t \in rows : t.meeting = m /\ t.id \in {1, 2}
    <2> DEFINE R == [meeting : {m}, id : {1, 2}]
    <2>1. R \in SUBSET Transcripts
      BY <1>1 DEF Transcripts
    <2>2. [meeting |-> m, id |-> 2] \in R
      OBVIOUS
    <2>3. \A t \in R : t.meeting = m /\ t.id \in {1, 2}
      OBVIOUS
    <2> HIDE DEF R
    <2>4. R = [meeting : {m}, id : {1, 2}]
      BY DEF R
    <2> QED BY <2>1, <2>2, <2>3, <2>4
  <1>4. PICK last \in [MeetingIds -> Nat] : last = [x \in MeetingIds |-> IF x = m THEN 2 ELSE 0]
    OBVIOUS
  <1>5. PICK U \in SUBSET Usages, V \in SUBSET Usages :
          /\ U = [app : {Owner}, counted : {no}] /\ V = [app : {Owner}, counted : {yes}]
          /\ (\A u \in U : u.app = Owner) /\ \A u \in V : u.app = Owner /\ u.counted = yes
    <2>1. Owner \in Apps
      BY StartupAssumption
    <2>2. ASSUME NEW b \in BOOLEAN
          PROVE  [app : {Owner}, counted : {b}] \in SUBSET Usages /\ \A u \in [app : {Owner}, counted : {b}] : u.app = Owner /\ u.counted = b
      BY <2>1 DEF Usages
    <2>3. PICK U \in SUBSET Usages : U = [app : {Owner}, counted : {no}] /\ \A u \in U : u.app = Owner
      BY <2>2
    <2>4. PICK V \in SUBSET Usages : V = [app : {Owner}, counted : {yes}] /\ \A u \in V : u.app = Owner /\ u.counted = yes
      BY <2>2
    <2> QED BY <2>3, <2>4
  <1>6. Legacy =
        [schema |-> {"chat"}, record |-> NoRecord, members |-> {}, usage |-> U, transcripts |-> rows,
         pinged |-> {Owner},
         missed |-> {}, excused |-> {}, deleted |-> {}, late |-> {}, newest |-> last]
    BY <1>2, <1>3, <1>4, <1>5 DEF Legacy, m
  <1>7. Legacy \in Files
    <2>1. {"chat"} \in SUBSET Objects
      BY DEF Objects
    <2>2. {Owner} \in SUBSET Apps
      BY StartupAssumption
    <2> QED BY <1>6, <2>1, <2>2 DEF Files
  <1>8. \A x \in MeetingIds : last[x] = IF x = m THEN 2 ELSE 0
    BY <1>4
  <1>9. RowsRight(Legacy, 2)
    <2>1. apps_of(U) \cap {} \subseteq {}
      OBVIOUS
    <2>2. \A x \in MeetingIds : last[x] <= 2 /\ (last[x] # 0 => [meeting |-> x, id |-> last[x]] \in rows)
      BY <1>3, <1>8
    <2>3. \A t \in rows : t.id <= last[t.meeting]
      BY <1>1, <1>3, <1>8
    <2> QED BY <1>6, <2>1, <2>2, <2>3 DEF RowsRight
  <1>10. RecordKnows(Legacy)
    <2>1. ASSUME NEW n \in Cuts, NEW S \in SUBSET Objects PROVE Legacy.record # [schema |-> S, migrations |-> n]
      <3>1. n \in Nat
        BY CutsBounded
      <3>2. [schema |-> S, migrations |-> n] \in [schema : SUBSET Objects, migrations : Nat]
        BY <3>1
      <3> QED BY <1>6, <3>2, StartupAssumption
    <2> QED BY <2>1 DEF RecordKnows
  <1>11. PICK left \in SUBSET Transcripts : left = {t \in rows : t.id = 2}
    OBVIOUS
  <1>12. PICK S \in SUBSET Objects : S = {"unique", "counts"}
    BY DEF Objects
  <1>13. PICK rec \in Records : rec = [schema |-> S, migrations |-> Len(MIGRATIONS)]
    <2>1. Len(MIGRATIONS) \in Nat
      <3>1. Len(MIGRATIONS) = 7
        BY TheStatements
      <3> QED BY <3>1
    <2> QED BY <2>1 DEF Records
  <1>14. Upgraded = [Legacy EXCEPT !.schema = S, !.members = {Owner}, !.usage = V, !.transcripts = left, !.record = rec]
    BY <1>2, <1>5, <1>6, <1>11, <1>12, <1>13 DEF Upgraded
  <1>15. /\ Upgraded \in Files /\ Upgraded.schema = S /\ Upgraded.members = {Owner} /\ Upgraded.usage = V
         /\ Upgraded.pinged = {Owner}
         /\ Upgraded.transcripts = left /\ Upgraded.record = rec /\ Upgraded.newest = last
         /\ Upgraded.deleted = {} /\ Upgraded.late = {} /\ Upgraded.excused = {}
    BY <1>6, <1>7, <1>14, StartupAssumption DEF Files
  <1>16. RowsRight(Upgraded, 2)
    <2>1. \A x \in MeetingIds : last[x] <= 2 /\ (last[x] # 0 => [meeting |-> x, id |-> last[x]] \in left)
      BY <1>3, <1>8, <1>11
    <2>2. \A t \in left : t.meeting = m /\ t.id = 2
      BY <1>3, <1>11
    <2>3. \A t, o \in left : t = o
      BY <2>2 DEF Transcripts
    <2>4. \A t \in left : t.id <= last[t.meeting]
      BY <1>1, <1>8, <2>2
    <2>5. apps_of(V) \cap {} \subseteq {} /\ {Owner} \cap {} \subseteq {}
      OBVIOUS
    <2> QED BY <1>15, <2>1, <2>3, <2>4, <2>5 DEF RowsRight
  <1>17. RecordKnows(Upgraded)
    <2>1. apps_of(V) \subseteq {Owner}
      BY <1>5 DEF apps_of
    <2>2. \A s : Recorded(s, S, Upgraded)
      BY <1>2, <1>5, <1>12, <1>15, <2>1 DEF Recorded
    <2>3. ASSUME NEW n \in Cuts, NEW T \in SUBSET Objects, Upgraded.record = [schema |-> T, migrations |-> n]
          PROVE  T = S
      BY <1>13, <1>15, <2>3
    <2>4. Upgraded.schema \ {"chat"} \subseteq S
      BY <1>15
    <2>5. ASSUME NEW n \in Cuts, NEW T \in SUBSET Objects, Upgraded.record = [schema |-> T, migrations |-> n]
          PROVE  /\ Upgraded.schema \ {"chat"} \subseteq T
                 /\ \A i \in 1 .. n : MIGRATIONS[i] \in Upgraded.excused \/ Recorded(MIGRATIONS[i], T, Upgraded)
      <3>1. T = S
        BY <2>3, <2>5
      <3> QED BY <2>2, <2>4, <3>1
    <2> QED BY <2>5 DEF RecordKnows
  <1>18. /\ file \in {Legacy, Upgraded} /\ work = file /\ snapshot = NoRecord /\ opened = FALSE
         /\ pc = "down" /\ step = 1 /\ calls = {} /\ length \in Cuts /\ uploads = 2
    BY DEF StartupInit
  <1>19. opened \in BOOLEAN /\ calls \subseteq Apps
    BY <1>18, Zenon
  <1> QED BY <1>7, <1>9, <1>10, <1>15, <1>16, <1>17, <1>18, <1>19 DEF StartupInv

LEMMA StartupStep == StartupInv /\ [StartupNext]_bootVars => StartupInv'
  <1>1. ASSUME StartupInv, UNCHANGED bootVars PROVE StartupInv'
    <2>1. UNCHANGED <<file, work, opened, pc, step, length, snapshot, calls, uploads>>
      BY <1>1 DEF bootVars
    <2>2. fingerprints(work)' = fingerprints(work) /\ (Swept(work, step - 1) => Swept(work, step - 1)')
      BY <2>1 DEF fingerprints, Swept, Effect
    <2> QED BY <1>1, <2>1, <2>2, SameFiles DEF StartupInv
  <1> QED BY <1>1, BootKept, CompareKept, RunMigrationKept, RecordSweepKept, PurgeExpiredKept, UploadKept, SignInKept,
             CallBeginsKept, LogUsageOfKept, PingEventKept, DeleteAppKept, CrashKept, RedeployKept, ReplicateKept, RestoreKept,
             OperatorDropsKept DEF StartupNext

LEMMA HealedBoot == StartupInv => BootHeals
  <1> SUFFICES ASSUME StartupInv PROVE BootHeals
    OBVIOUS
  <1>1. SkipCostsNothing
    <2>1. ASSUME pc = "serving", NEW s \in {MIGRATIONS[i] : i \in 1 .. length} \ file.excused
          PROVE  /\ s = "drop chat" => "chat" \notin file.schema
                 /\ s = "unique transcripts" => "unique" \in file.schema
                 /\ s = "add counts" => "counts" \in file.schema
                 /\ s = "fill counts" => \A u \in file.usage : u.counted = TRUE
                 /\ s = "backfill apps" => apps_of(file.usage) \subseteq file.members \cup file.late
                 /\ s = "backfill pings" => file.pinged \subseteq file.members \cup file.late
      <3>1. /\ file \in Files /\ RecordKnows(file) /\ length \in Cuts
            /\ file.record = [schema |-> file.schema, migrations |-> length]
        BY <2>1 DEF StartupInv, fingerprints
      <3>2. file.schema \in SUBSET Objects
        BY <3>1 DEF Files
      <3>3. PICK i \in 1 .. length : s = MIGRATIONS[i]
        BY <2>1
      <3>4. Recorded(s, file.schema, file)
        BY <2>1, <3>1, <3>2, <3>3 DEF RecordKnows
      <3> QED BY <3>4 DEF Recorded
    <2> QED BY <2>1 DEF SkipCostsNothing
  <1>2. NewestUploadKept
    BY DEF StartupInv, RowsRight, NewestUploadKept
  <1>3. DeletedAppStaysDeleted
    BY DEF StartupInv, RowsRight, DeletedAppStaysDeleted
  <1> QED BY <1>1, <1>2, <1>3 DEF BootHeals

-----------------------------------------------------------------------------
(* Lifecycle pings                                                           *)

Ids == Recordings \cup {NoMeeting}
PingRows == [type : {"app_start", "meeting_start", "meeting_stop"}, meeting : Ids, device : {"phone", "old"},
         from : Ids \cup {"again"}, day : Nat]
Pings == [event : PingRows, stage : {"received", "fresh", "repeat"}]

starts_of(rows) == {e \in rows : e.type = "meeting_start"}
stops_of(rows) == {e \in rows : e.type = "meeting_stop"}
stops_at(m, rows) == {e \in stops_of(rows) : e.meeting = m}

(* The phone: a meeting is over when it is neither recording, nor the one the      *)
(* phone died in, nor waiting for an answer.                                      *)
PhoneRight ==
    /\ phone \in [at : Ids, died : Ids, used : SUBSET Recordings]
    /\ {phone.at, phone.died} \subseteq phone.used \cup {NoMeeting} /\ outbox \subseteq phone.used
    /\ phone.at # NoMeeting => phone.died = NoMeeting
    /\ \A m \in phone.used : m \in {phone.at, phone.died} \cup outbox \/ stops_at(m, everything) # {}

(* What was stored: rows of the phone's own meetings and the old device's one row, *)
(* no start after its stop, no stop twice on a day, and what is young is kept.     *)
StoredRight ==
    /\ everything \subseteq PingRows /\ raw \subseteq everything /\ IsFiniteSet(everything)
    /\ OldDevicesPing \in everything
    /\ \A e \in everything :
         /\ e.day <= now /\ (e.day >= now - RawDays => e \in raw)
         /\ IF e.type = "app_start" THEN e = OldDevicesPing ELSE e.device = "phone" /\ e.meeting \in phone.used
    /\ \A s \in starts_of(everything), x \in stops_of(everything) : s.meeting = x.meeting => s.day <= x.day
    /\ \A e, x \in stops_of(everything) : e.meeting = x.meeting /\ e.day = x.day => e = x
    /\ ~returned => \A e, x \in stops_of(everything) : e.meeting = x.meeting => e = x

(* The handlers: what each was told of an earlier stop stays true while it holds   *)
(* the lock, and a start still handled was sent today.                            *)
HandledRight ==
    /\ handling \in [Copies -> Pings \cup {NoMeeting}]
    /\ \A c \in Copies : handling[c] # NoMeeting =>
         LET e == handling[c].event
         IN /\ e.type # "app_start" /\ e.device = "phone" /\ e.meeting \in phone.used
            /\ e.type = "meeting_start" => \A x \in stops_at(e.meeting, everything) : x.day = now
            /\ handling[c].stage # "received" => writer = c
            /\ handling[c].stage = "fresh" /\ e.type = "meeting_stop" => stops_at(e.meeting, raw) = {}
            /\ handling[c].stage = "repeat" => e.type = "meeting_stop" /\ stops_at(e.meeting, raw) # {}

(* The table of first sightings.                                                  *)
DevicesRight ==
    /\ devices \in [{"phone", "old"} -> Nat]
    /\ devices["old"] \in {0, 1} /\ (devices["old"] = 0 => OldDevicesPing \in raw)
    /\ devices["phone"] = 0 => \A e \in everything : e.device = "old"
    /\ devices["phone"] # 0 => /\ \E e \in everything : e.device = "phone" /\ e.day = devices["phone"]
                               /\ \A e \in everything : e.device = "phone" => devices["phone"] <= e.day

(* The figures of the complete days the last boot still had all rows of.          *)
FiguresRight ==
    /\ \A d \in 1 .. LastDay : d < booted /\ d >= booted - RawDays => rollup[d] \in Nat
    /\ RollupExact

TelemetryInv ==
    /\ now \in Nat /\ now > 0 /\ booted \in Nat /\ booted <= now /\ returned \in BOOLEAN
    /\ PhoneRight /\ StoredRight /\ HandledRight /\ DevicesRight /\ FiguresRight

LEMMA MeetingsFinite ==
    ASSUME NEW S, IsFiniteSet(S)
    PROVE  IsFiniteSet({e.meeting : e \in S})
  <1> DEFINE T == {e.meeting : e \in S}
             f == [e \in S |-> e.meeting]
  <1>1. f \in [S -> T] /\ \A t \in T : \E e \in S : f[e] = t
    OBVIOUS
  <1>2. f \in Surjection(S, T)
    BY <1>1 DEF Surjection
  <1> HIDE DEF f, T
  <1>3. IsFiniteSet(T)
    BY <1>2, FS_Surjection
  <1> QED BY <1>3 DEF T

LEMMA SmallerSet ==
    ASSUME NEW S, IsFiniteSet(S), NEW T, T \subseteq S
    PROVE  IsFiniteSet(T) /\ Cardinality(T) \in Nat /\ Cardinality(S) \in Nat /\ Cardinality(T) <= Cardinality(S)
  <1>1. T \in SUBSET S
    OBVIOUS
  <1>2. IsFiniteSet(T) /\ Cardinality(T) <= Cardinality(S)
    BY <1>1, FS_Subset
  <1> QED BY <1>2, FS_CardinalityType

(* A row stored on the day of the last boot or later leaves the figures exact.    *)
LEMMA FiguresStay ==
    ASSUME TelemetryInv, UNCHANGED <<rollup, booted>>, NEW e, everything' = everything \cup {e},
           e \in everything \/ (e.day \in Nat /\ e.day >= booted)
    PROVE  FiguresRight'
  <1>0. /\ booted \in Nat /\ IsFiniteSet(everything) /\ everything \subseteq PingRows /\ FiguresRight
    BY DEF TelemetryInv, StoredRight
  <1>1. \A d \in 1 .. LastDay : (d < booted /\ d >= booted - RawDays => rollup[d] \in Nat)'
    BY <1>0 DEF FiguresRight
  <1>2. ASSUME NEW d \in 1 .. LastDay, d < booted, d >= booted - RawDays
        PROVE  LET stopped == {x.meeting : x \in {y \in everything' : y.type = "meeting_stop" /\ y.day = d}}
                   halves == {x.from : x \in {y \in everything' : y.type = "meeting_start" /\ y.day < booted
                                                                    /\ y.day >= booted - RawDays}}
               IN /\ rollup[d] <= Cardinality(stopped \ halves)
                  /\ rollup[d] >= Cardinality(stopped \ {x.from : x \in {y \in everything' : y.type = "meeting_start"}})
    <2> DEFINE ends(rows) == {y \in rows : y.type = "meeting_stop" /\ y.day = d}
               young(rows) == {y \in rows : y.type = "meeting_start" /\ y.day < booted /\ y.day >= booted - RawDays}
               begins(rows) == {y \in rows : y.type = "meeting_start"}
               A == {x.meeting : x \in ends(everything)}
               H == {x.from : x \in young(everything)}
               F == {x.from : x \in begins(everything)}
               G == {x.from : x \in begins(everything')}
    <2>1. e \in everything \/ (e.day # d /\ ~(e.day < booted))
      BY <1>0, <1>2
    <2>2. ends(everything') = ends(everything) /\ young(everything') = young(everything)
      BY <2>1
    <2>3. F \subseteq G
      OBVIOUS
    <2>4. rollup[d] <= Cardinality(A \ H) /\ rollup[d] >= Cardinality(A \ F) /\ rollup[d] \in Nat
      BY <1>0, <1>2 DEF FiguresRight, RollupExact
    <2>5. IsFiniteSet(A)
      <3>1. ends(everything) \subseteq everything
        OBVIOUS
      <3>2. IsFiniteSet(ends(everything))
        BY <1>0, <3>1, SmallerSet
      <3> HIDE DEF ends
      <3> QED BY <3>2, MeetingsFinite
    <2>6. {x.meeting : x \in ends(everything')} = A /\ {x.from : x \in young(everything')} = H
      BY <2>2
    <2> HIDE DEF A, H, F, G
    <2>7. IsFiniteSet(A \ F) /\ Cardinality(A \ F) \in Nat
      <3>1. A \ F \subseteq A
        OBVIOUS
      <3> QED BY <2>5, <3>1, SmallerSet
    <2>8. Cardinality(A \ G) \in Nat /\ Cardinality(A \ G) <= Cardinality(A \ F)
      <3>1. A \ G \subseteq A \ F
        BY <2>3
      <3> QED BY <2>7, <3>1, SmallerSet
    <2>9. rollup[d] >= Cardinality(A \ G)
      BY <2>4, <2>7, <2>8
    <2> QED BY <2>4, <2>6, <2>9 DEF G
  <1>3. RollupExact'
    BY <1>2 DEF RollupExact
  <1> QED BY <1>1, <1>3 DEF FiguresRight

(* At a boot the figures of the days whose rows are all kept are counted from them. *)
LEMMA FiguresComputed ==
    ASSUME TelemetryInv, rollup' = compute_rollups(kept(raw)), booted' = now, UNCHANGED everything
    PROVE  FiguresRight'
  <1>0. /\ now \in Nat /\ StoredRight /\ IsFiniteSet(everything) /\ everything \subseteq PingRows /\ raw \subseteq everything
    BY DEF TelemetryInv, StoredRight
  <1>2. ASSUME NEW d \in 1 .. LastDay, d < now, d >= now - RawDays
        PROVE  /\ rollup'[d] \in Nat
               /\ LET stopped == {x.meeting : x \in {y \in everything : y.type = "meeting_stop" /\ y.day = d}}
                      halves == {x.from : x \in {y \in everything : y.type = "meeting_start" /\ y.day < now
                                                                    /\ y.day >= now - RawDays}}
                  IN /\ rollup'[d] <= Cardinality(stopped \ halves)
                     /\ rollup'[d] >= Cardinality(stopped \ {x.from : x \in {y \in everything : y.type = "meeting_start"}})
    <2> DEFINE rows == kept(raw)
               W == whole_meetings(rows, d)
               ends == {y \in everything : y.type = "meeting_stop" /\ y.day = d}
               young == {y \in everything : y.type = "meeting_start" /\ y.day < now /\ y.day >= now - RawDays}
               begins == {y \in everything : y.type = "meeting_start"}
               A == {x.meeting : x \in ends}
               H == {x.from : x \in young}
               F == {x.from : x \in begins}
    <2>1. rollup'[d] = Cardinality(W)
      <3>1. d > now - Lookback /\ d <= now
        BY <1>0, <1>2, TelemetryAssumption
      <3> HIDE DEF W
      <3>2. compute_rollups(rows)[d] = IF d > now - Lookback /\ d <= now THEN Cardinality(whole_meetings(rows, d)) ELSE rollup[d]
        BY DEF compute_rollups
      <3> QED BY <3>1, <3>2 DEF W
    <2>2. \A x \in everything : x.day >= now - RawDays => x \in rows
      BY <1>0 DEF StoredRight, kept
    <2>3. rows \subseteq everything
      BY <1>0 DEF kept
    <2>4. /\ W \subseteq ends
          /\ \A x \in W, r \in rows : r.type # "meeting_stop" => r.from # x.meeting
      BY <2>3 DEF whole_meetings
    <2>5. \A x \in ends : (\A r \in rows : r.type # "meeting_stop" => r.from # x.meeting) => x \in W
      BY <1>2, <2>2 DEF whole_meetings
    <2> HIDE DEF rows, W
    <2>6. ends \subseteq everything /\ IsFiniteSet(ends)
      <3>1. ends \subseteq everything
        OBVIOUS
      <3> HIDE DEF ends
      <3> QED BY <1>0, <3>1, SmallerSet
    <2>7. IsFiniteSet(W) /\ Cardinality(W) \in Nat
      <3> HIDE DEF ends
      <3> QED BY <2>4, <2>6, SmallerSet
    <2>8. IsFiniteSet(A \ H)
      <3>1. IsFiniteSet(A)
        <4> HIDE DEF ends
        <4> QED BY <2>6, MeetingsFinite
      <3>2. A \ H \subseteq A
        OBVIOUS
      <3> HIDE DEF A, H
      <3> QED BY <3>1, <3>2, SmallerSet
    <2>9. Cardinality(W) <= Cardinality(A \ H)
      <3> DEFINE f == [x \in W |-> x.meeting]
      <3>1. ASSUME NEW x \in W PROVE x.meeting \in A \ H
        <4>1. x.meeting \in A
          BY <2>4
        <4>2. \A r \in young : r.from # x.meeting
          BY <2>2, <2>4
        <4> QED BY <4>1, <4>2
      <3>2. ASSUME NEW x \in W, NEW y \in W, x.meeting = y.meeting PROVE x = y
        <4>1. x \in stops_of(everything) /\ y \in stops_of(everything) /\ x.day = y.day
          BY <2>4 DEF stops_of
        <4> QED BY <1>0, <3>2, <4>1 DEF StoredRight
      <3> HIDE DEF A, H
      <3>3. f \in [W -> A \ H] /\ \A x, y \in W : f[x] = f[y] => x = y
        BY <3>1, <3>2
      <3> HIDE DEF f
      <3>4. f \in Injection(W, A \ H)
        BY <3>3 DEF Injection, IsInjective
      <3> QED BY <2>8, <3>4, FS_Injection
    <2>10. Cardinality(A \ F) <= Cardinality(W)
      <3> DEFINE g == [m \in A \ F |-> CHOOSE x \in W : x.meeting = m]
      <3>1. ASSUME NEW m \in A \ F PROVE \E x \in W : x.meeting = m
        <4>1. PICK x \in ends : x.meeting = m
          OBVIOUS
        <4>2. ASSUME NEW r \in rows, r.type # "meeting_stop", r.from = m PROVE FALSE
          <5>1. r \in everything /\ r.type \in {"app_start", "meeting_start", "meeting_stop"}
            BY <1>0, <2>3 DEF PingRows
          <5>2. CASE r.type = "meeting_start"
            BY <4>2, <5>1, <5>2
          <5>3. CASE r.type = "app_start"
            <6>1. r.from = NoMeeting
              BY <1>0, <5>1, <5>3 DEF StoredRight, OldDevicesPing
            <6>2. x.meeting \in phone.used /\ phone.used \subseteq Recordings
              BY <1>0, <4>1 DEF StoredRight, TelemetryInv, PhoneRight
            <6> QED BY <4>1, <4>2, <6>1, <6>2, TelemetryAssumption
          <5> QED BY <4>2, <5>1, <5>2, <5>3
        <4> QED BY <2>5, <4>1, <4>2
      <3> HIDE DEF A, F
      <3>2. \A m \in A \ F : g[m] \in W /\ g[m].meeting = m
        BY <3>1
      <3>3. g \in [A \ F -> W]
        BY <3>1
      <3> HIDE DEF g
      <3>4. g \in Injection(A \ F, W)
        BY <3>2, <3>3 DEF Injection, IsInjective
      <3> QED BY <2>7, <3>4, FS_Injection
    <2>11. A = {x.meeting : x \in ends} /\ H = {x.from : x \in young} /\ F = {x.from : x \in begins}
      OBVIOUS
    <2> HIDE DEF A, H, F
    <2>12. Cardinality(A \ H) \in Nat
      BY <2>8, SmallerSet
    <2> QED BY <2>1, <2>7, <2>9, <2>10, <2>11
  <1>3. RollupExact'
    BY <1>2 DEF RollupExact
  <1> QED BY <1>2, <1>3 DEF FiguresRight

LEMMA StoredSame ==
    ASSUME TelemetryInv, UNCHANGED <<now, raw, everything, returned>>, phone.used \subseteq phone'.used
    PROVE  StoredRight'
  BY DEF TelemetryInv, StoredRight, starts_of, stops_of

LEMMA DevicesSame ==
    ASSUME TelemetryInv, UNCHANGED <<devices, raw, everything>>
    PROVE  DevicesRight'
  BY DEF TelemetryInv, DevicesRight

LEMMA FiguresSame ==
    ASSUME TelemetryInv, UNCHANGED <<rollup, booted, everything>>
    PROVE  FiguresRight'
  <1>1. OldDevicesPing \in everything /\ everything' = everything \cup {OldDevicesPing}
    BY DEF TelemetryInv, StoredRight
  <1> QED BY <1>1, FiguresStay

LEMMA HandledSame ==
    ASSUME TelemetryInv, UNCHANGED <<now, handling, writer, raw, everything>>, phone.used \subseteq phone'.used
    PROVE  HandledRight'
  BY DEF TelemetryInv, HandledRight, stops_at, stops_of

(* A ping arrives at a handler.                                                   *)
LEMMA Received ==
    ASSUME TelemetryInv, NEW c \in Copies, NEW e \in PingRows, e.type # "app_start", e.device = "phone",
           e.meeting \in phone'.used, phone.used \subseteq phone'.used,
           e.type = "meeting_start" => stops_at(e.meeting, everything) = {},
           handling' = [handling EXCEPT ![c] = [event |-> e, stage |-> "received"]],
           UNCHANGED <<now, writer, raw, everything>>
    PROVE  HandledRight'
  <1>1. HandledRight
    BY DEF TelemetryInv
  <1>2. PICK p \in Pings : p = [event |-> e, stage |-> "received"] /\ p.event = e /\ p.stage = "received"
    <2>1. [event |-> e, stage |-> "received"] \in Pings
      BY DEF Pings
    <2> QED BY <2>1
  <1>3. handling' \in [Copies -> Pings \cup {NoMeeting}] /\ handling' = [handling EXCEPT ![c] = p]
    BY <1>1, <1>2 DEF HandledRight
  <1>4. \A k \in Copies : handling'[k] = IF k = c THEN p ELSE handling[k]
    BY <1>1, <1>3 DEF HandledRight
  <1>5. ASSUME NEW k \in Copies, handling'[k] # NoMeeting
        PROVE  LET f == handling'[k].event
               IN /\ f.type # "app_start" /\ f.device = "phone" /\ f.meeting \in phone'.used
                  /\ f.type = "meeting_start" => \A x \in stops_at(f.meeting, everything) : x.day = now
                  /\ handling'[k].stage # "received" => writer = k
                  /\ handling'[k].stage = "fresh" /\ f.type = "meeting_stop" => stops_at(f.meeting, raw) = {}
                  /\ handling'[k].stage = "repeat" => f.type = "meeting_stop" /\ stops_at(f.meeting, raw) # {}
    <2>1. CASE k = c
      BY <1>2, <1>4, <2>1
    <2>2. CASE k # c
      <3>1. handling'[k] = handling[k] /\ handling[k] # NoMeeting
        BY <1>4, <1>5, <2>2
      <3> QED BY <1>1, <3>1 DEF HandledRight
    <2> QED BY <2>1, <2>2
  <1>6. \A m : stops_at(m, everything)' = stops_at(m, everything) /\ stops_at(m, raw)' = stops_at(m, raw)
    BY DEF stops_at, stops_of
  <1> QED BY <1>3, <1>5, <1>6 DEF HandledRight, stops_at, stops_of

LEMMA StartRecordingKept == ASSUME TelemetryInv, NEW m \in Recordings, StartRecording(m) PROVE TelemetryInv'
  <1> DEFINE e == Event("meeting_start", m, "phone", phone.died)
  <1>1. /\ phone.at = NoMeeting /\ m \notin phone.used
        /\ phone' = [at |-> m, died |-> NoMeeting, used |-> phone.used \cup {m}]
        /\ Sent(e)
        /\ outbox' = IF phone.died = NoMeeting THEN outbox ELSE outbox \cup {phone.died}
        /\ UNCHANGED <<now, writer, raw, devices, rollup, starts, everything, booted, returned>>
    BY DEF StartRecording
  <1>2. PhoneRight /\ StoredRight /\ now \in Nat
    BY DEF TelemetryInv
  <1>3. phone.used \in SUBSET Recordings /\ phone.died \in Ids /\ {phone.at, phone.died} \subseteq phone.used \cup {NoMeeting}
    BY <1>2 DEF PhoneRight
  <1>4. /\ phone'.at = m /\ phone'.died = NoMeeting /\ phone'.used = phone.used \cup {m}
        /\ phone' \in [at : Ids, died : Ids, used : SUBSET Recordings]
    BY <1>1, <1>3 DEF Ids
  <1>5. \A x \in everything : x.type # "app_start" => x.meeting # m
    BY <1>1, <1>2 DEF StoredRight
  <1>6. stops_at(m, everything) = {}
    BY <1>5 DEF stops_at, stops_of
  <1>7. PhoneRight'
    <2>1. \A x \in phone.used : x \in {phone'.at, phone'.died} \cup outbox' \/ stops_at(x, everything) # {}
      BY <1>1, <1>2 DEF PhoneRight
    <2>2. outbox' \subseteq phone'.used
      BY <1>1, <1>2, <1>3, <1>4 DEF PhoneRight
    <2> QED BY <1>1, <1>4, <2>1, <2>2 DEF PhoneRight, stops_at, stops_of
  <1>8. e \in PingRows /\ e.type = "meeting_start" /\ e.device = "phone" /\ e.meeting = m
    BY <1>2, <1>3 DEF Event, PingRows, Ids
  <1> HIDE DEF e
  <1>9. HandledRight'
    <2>1. CASE \E c \in Free : handling' = [handling EXCEPT ![c] = [event |-> e, stage |-> "received"]]
      BY <1>1, <1>4, <1>6, <1>8, <2>1, Received DEF Free
    <2>2. CASE UNCHANGED handling
      BY <1>1, <1>4, <2>2, HandledSame
    <2> QED BY <1>1, <2>1, <2>2 DEF Sent
  <1>10. StoredRight' /\ DevicesRight' /\ FiguresRight'
    BY <1>1, <1>4, StoredSame, DevicesSame, FiguresSame
  <1> QED BY <1>1, <1>7, <1>9, <1>10 DEF TelemetryInv

LEMMA StopRecordingKept == ASSUME TelemetryInv, StopRecording PROVE TelemetryInv'
  <1>1. /\ phone.at # NoMeeting /\ outbox' = outbox \cup {phone.at} /\ phone' = [phone EXCEPT !.at = NoMeeting]
        /\ UNCHANGED <<now, handling, writer, raw, devices, rollup, starts, losses, everything, booted, returned>>
    BY DEF StopRecording
  <1>2. PhoneRight
    BY DEF TelemetryInv
  <1>3. /\ phone'.at = NoMeeting /\ phone'.died = phone.died /\ phone'.used = phone.used
        /\ phone' \in [at : Ids, died : Ids, used : SUBSET Recordings]
    BY <1>1, <1>2 DEF PhoneRight, Ids
  <1>4. PhoneRight'
    BY <1>1, <1>2, <1>3 DEF PhoneRight, stops_at, stops_of
  <1>5. StoredRight' /\ DevicesRight' /\ FiguresRight' /\ HandledRight'
    BY <1>1, <1>3, StoredSame, DevicesSame, FiguresSame, HandledSame
  <1> QED BY <1>1, <1>4, <1>5 DEF TelemetryInv

LEMMA PhoneDiesKept == ASSUME TelemetryInv, PhoneDies PROVE TelemetryInv'
  <1>1. /\ phone.at # NoMeeting /\ phone' = [phone EXCEPT !.at = NoMeeting, !.died = phone.at]
        /\ UNCHANGED <<now, outbox, handling, writer, raw, devices, rollup, starts, everything, booted, returned>>
    BY DEF PhoneDies
  <1>2. PhoneRight
    BY DEF TelemetryInv
  <1>3. /\ phone'.at = NoMeeting /\ phone'.died = phone.at /\ phone'.used = phone.used /\ phone.died = NoMeeting
        /\ phone' \in [at : Ids, died : Ids, used : SUBSET Recordings]
    BY <1>1, <1>2 DEF PhoneRight, Ids
  <1>4. PhoneRight'
    <2>1. ASSUME NEW m \in phone.used PROVE m \in {phone'.at, phone'.died} \cup outbox \/ stops_at(m, everything) # {}
      <3>1. m # NoMeeting
        BY <1>2, TelemetryAssumption DEF PhoneRight
      <3> QED BY <1>2, <1>3, <3>1 DEF PhoneRight
    <2> QED BY <1>1, <1>2, <1>3, <2>1 DEF PhoneRight, stops_at, stops_of
  <1>5. StoredRight' /\ DevicesRight' /\ FiguresRight' /\ HandledRight'
    BY <1>1, <1>3, StoredSame, DevicesSame, FiguresSame, HandledSame
  <1> QED BY <1>1, <1>4, <1>5 DEF TelemetryInv

LEMMA PhoneSame ==
    ASSUME TelemetryInv, UNCHANGED <<phone, outbox, everything>>
    PROVE  PhoneRight'
  BY DEF TelemetryInv, PhoneRight, stops_at, stops_of

LEMMA RetryStopKept == ASSUME TelemetryInv, NEW m \in Recordings, RetryStop(m) PROVE TelemetryInv'
  <1> DEFINE e == Event("meeting_stop", m, "phone", NoMeeting)
  <1>1. /\ m \in outbox /\ \E c \in Free : handling' = [handling EXCEPT ![c] = [event |-> e, stage |-> "received"]]
        /\ UNCHANGED <<now, phone, outbox, writer, raw, devices, rollup, starts, losses, everything, booted, returned>>
    BY DEF RetryStop
  <1>2. m \in phone.used /\ now \in Nat
    BY <1>1 DEF TelemetryInv, PhoneRight
  <1>3. e \in PingRows /\ e.type = "meeting_stop" /\ e.device = "phone" /\ e.meeting = m
    BY <1>2 DEF Event, PingRows, Ids
  <1> HIDE DEF e
  <1>4. HandledRight'
    BY <1>1, <1>2, <1>3, Received DEF Free
  <1>5. StoredRight' /\ DevicesRight' /\ FiguresRight' /\ PhoneRight'
    BY <1>1, StoredSame, DevicesSame, FiguresSame, PhoneSame
  <1> QED BY <1>1, <1>4, <1>5 DEF TelemetryInv

LEMMA PinDeviceKept == ASSUME TelemetryInv, NEW c \in Copies, pin_device(c) PROVE TelemetryInv'
  <1>1. /\ handling[c] # NoMeeting /\ handling[c].stage = "received" /\ writer = NoMeeting /\ writer' = c
        /\ UNCHANGED <<now, phone, outbox, raw, devices, rollup, starts, losses, everything, booted, returned>>
    BY DEF pin_device, taken_by
  <1>2. HandledRight
    BY DEF TelemetryInv
  <1>3. PICK s \in {"fresh", "repeat"} :
          /\ s = (IF repeated(handling[c].event) THEN "repeat" ELSE "fresh")
          /\ handling' = [handling EXCEPT ![c].stage = s]
    BY DEF pin_device
  <1>4. handling[c] \in Pings
    BY <1>1, <1>2 DEF HandledRight
  <1>5. PICK p \in Pings : p = [handling[c] EXCEPT !.stage = s] /\ p.event = handling[c].event /\ p.stage = s
    <2> DEFINE q == [handling[c] EXCEPT !.stage = s]
    <2>1. q \in Pings
      BY <1>4 DEF Pings
    <2>2. q.event = handling[c].event /\ q.stage = s
      BY <1>4 DEF Pings
    <2> QED BY <2>1, <2>2
  <1>6. handling' = [handling EXCEPT ![c] = p]
    BY <1>3, <1>5
  <1>7. /\ handling' \in [Copies -> Pings \cup {NoMeeting}]
        /\ \A k \in Copies : handling'[k] = IF k = c THEN p ELSE handling[k]
    BY <1>2, <1>6 DEF HandledRight
  <1>8. ASSUME NEW k \in Copies, handling'[k] # NoMeeting
        PROVE  LET f == handling'[k].event
               IN /\ f.type # "app_start" /\ f.device = "phone" /\ f.meeting \in phone.used
                  /\ f.type = "meeting_start" => \A x \in stops_at(f.meeting, everything) : x.day = now
                  /\ handling'[k].stage # "received" => writer' = k
                  /\ handling'[k].stage = "fresh" /\ f.type = "meeting_stop" => stops_at(f.meeting, raw) = {}
                  /\ handling'[k].stage = "repeat" => f.type = "meeting_stop" /\ stops_at(f.meeting, raw) # {}
    <2>1. CASE k = c
      <3>1. /\ p.event.type # "app_start" /\ p.event.device = "phone" /\ p.event.meeting \in phone.used
            /\ p.event.type = "meeting_start" => \A x \in stops_at(p.event.meeting, everything) : x.day = now
        BY <1>1, <1>2, <1>5 DEF HandledRight
      <3>2. repeated(p.event) <=> p.event.type = "meeting_stop" /\ stops_at(p.event.meeting, raw) # {}
        BY DEF repeated, stops_at, stops_of
      <3> QED BY <1>1, <1>3, <1>5, <1>7, <2>1, <3>1, <3>2
    <2>2. CASE k # c
      <3>1. handling'[k] = handling[k] /\ handling[k] # NoMeeting
        BY <1>7, <1>8, <2>2
      <3>2. handling[k].stage = "received"
        BY <1>1, <1>2, <3>1, TelemetryAssumption DEF HandledRight
      <3> QED BY <1>2, <3>1, <3>2 DEF HandledRight
    <2> QED BY <2>1, <2>2
  <1>9. HandledRight'
    BY <1>1, <1>7, <1>8 DEF HandledRight, stops_at, stops_of
  <1>10. StoredRight' /\ DevicesRight' /\ FiguresRight' /\ PhoneRight'
    BY <1>1, StoredSame, DevicesSame, FiguresSame, PhoneSame
  <1> QED BY <1>1, <1>9, <1>10 DEF TelemetryInv

LEMMA MidnightKept == ASSUME TelemetryInv, Midnight PROVE TelemetryInv'
  <1>1. /\ Free = Copies /\ now' = now + 1
        /\ UNCHANGED <<phone, outbox, handling, writer, raw, devices, rollup, starts, losses, everything, booted, returned>>
    BY DEF Midnight
  <1>2. now \in Nat /\ booted \in Nat /\ booted <= now /\ StoredRight /\ everything \subseteq PingRows
    BY DEF TelemetryInv, StoredRight
  <1>3. now' \in Nat /\ now' > 0 /\ booted' <= now'
    BY <1>1, <1>2
  <1>4. \A e \in everything : e.day <= now' /\ (e.day >= now' - RawDays => e.day >= now - RawDays)
    <2>1. \A e \in everything : e.day <= now /\ e.day \in Nat
      BY <1>2 DEF StoredRight, PingRows
    <2> QED BY <1>1, <1>2, <2>1, TelemetryAssumption
  <1>5. StoredRight'
    BY <1>1, <1>2, <1>4 DEF StoredRight, starts_of, stops_of
  <1>6. \A c \in Copies : handling[c] = NoMeeting
    BY <1>1 DEF Free
  <1>7. HandledRight'
    BY <1>1, <1>6 DEF TelemetryInv, HandledRight
  <1>8. DevicesRight' /\ FiguresRight' /\ PhoneRight'
    BY <1>1, DevicesSame, FiguresSame, PhoneSame
  <1> QED BY <1>1, <1>2, <1>3, <1>5, <1>7, <1>8 DEF TelemetryInv

(* A row of the phone's, stored today, that no kept row already is.               *)
LEMMA RowStored ==
    ASSUME TelemetryInv, NEW row \in PingRows, row.day = now, row.device = "phone", row.type # "app_start",
           row.meeting \in phone.used,
           row.type = "meeting_start" => \A x \in stops_at(row.meeting, everything) : x.day = now,
           row.type = "meeting_stop" => stops_at(row.meeting, raw) = {},
           raw' = raw \cup {row}, everything' = everything \cup {row}, UNCHANGED <<now, phone>>,
           ~returned' => ~returned /\ \A x \in everything : x.type = row.type /\ x.meeting = row.meeting => x \in raw
    PROVE  StoredRight'
  <1>1. StoredRight /\ now \in Nat
    BY DEF TelemetryInv
  <1>2. everything' \subseteq PingRows /\ raw' \subseteq everything' /\ IsFiniteSet(everything') /\ OldDevicesPing \in everything'
    BY <1>1, FS_AddElement DEF StoredRight
  <1>3. ASSUME NEW e \in everything'
        PROVE  /\ e.day <= now /\ (e.day >= now - RawDays => e \in raw')
               /\ IF e.type = "app_start" THEN e = OldDevicesPing ELSE e.device = "phone" /\ e.meeting \in phone.used
    BY <1>1 DEF StoredRight
  <1>4. ASSUME NEW s \in everything', NEW x \in everything', s.type = "meeting_start", x.type = "meeting_stop",
               s.meeting = x.meeting
        PROVE  s.day <= x.day
    <2>1. s.day <= now /\ s.day \in Nat /\ x.day \in Nat
      BY <1>2, <1>3 DEF PingRows
    <2>2. CASE x = row
      BY <2>1, <2>2
    <2>3. CASE x # row /\ s = row
      <3>1. x \in stops_at(row.meeting, everything) /\ row.type = "meeting_start"
        BY <1>4, <2>3 DEF stops_at, stops_of
      <3> QED BY <1>1, <2>3, <3>1
    <2>4. CASE x # row /\ s # row
      BY <1>1, <1>4, <2>4 DEF StoredRight, starts_of, stops_of
    <2> QED BY <2>2, <2>3, <2>4
  <1>5. ASSUME NEW x \in everything, x.type = "meeting_stop", row.type = "meeting_stop", x.meeting = row.meeting
        PROVE  x \notin raw /\ x.day # row.day
    <2>1. x \notin raw
      BY <1>5 DEF stops_at, stops_of
    <2>2. x.day \in Nat /\ ~(x.day >= now - RawDays)
      BY <1>1, <2>1 DEF StoredRight, PingRows
    <2> QED BY <1>1, <2>1, <2>2, TelemetryAssumption
  <1>6. \A e, x \in stops_of(everything') : e.meeting = x.meeting /\ e.day = x.day => e = x
    BY <1>1, <1>5 DEF StoredRight, stops_of
  <1>7. ~returned' => \A e, x \in stops_of(everything') : e.meeting = x.meeting => e = x
    BY <1>1, <1>5 DEF StoredRight, stops_of
  <1>8. \A s \in starts_of(everything'), x \in stops_of(everything') : s.meeting = x.meeting => s.day <= x.day
    BY <1>4 DEF starts_of, stops_of
  <1> QED BY <1>2, <1>3, <1>6, <1>7, <1>8 DEF StoredRight, starts_of, stops_of

LEMMA PingKept == ASSUME TelemetryInv, NEW c \in Copies, ping(c) PROVE TelemetryInv'
  <1> DEFINE e == handling[c].event
             earlier == {x \in everything : x.type = e.type /\ x.meeting = e.meeting}
             written == [e EXCEPT !.day = now, !.from = IF earlier # {} THEN "again" ELSE @]
  <1>1. /\ handling[c] # NoMeeting /\ handling[c].stage # "received"
        /\ writer' = NoMeeting
        /\ devices' = [devices EXCEPT !["phone"] = IF @ = 0 THEN now ELSE @]
        /\ IF handling[c].stage = "repeat" THEN UNCHANGED <<raw, everything, returned>>
           ELSE /\ raw' = raw \cup {written} /\ everything' = everything \cup {written}
                /\ returned' = (returned \/ earlier \ raw # {})
        /\ \/ outbox' = IF e.type = "meeting_stop" THEN outbox \ {e.meeting} ELSE outbox
           \/ UNCHANGED outbox
        /\ handling' = [handling EXCEPT ![c] = NoMeeting]
        /\ UNCHANGED <<now, phone, rollup, starts, booted>>
    BY DEF ping
  <1>2. /\ now \in Nat /\ now > 0 /\ booted \in Nat /\ booted <= now /\ returned \in BOOLEAN
        /\ PhoneRight /\ StoredRight /\ HandledRight /\ DevicesRight
    BY DEF TelemetryInv
  <1>3. /\ handling[c] \in Pings /\ writer = c /\ handling[c].stage \in {"fresh", "repeat"}
        /\ e \in PingRows /\ e.type # "app_start" /\ e.device = "phone" /\ e.meeting \in phone.used
        /\ e.type = "meeting_start" => \A x \in stops_at(e.meeting, everything) : x.day = now
        /\ handling[c].stage = "fresh" /\ e.type = "meeting_stop" => stops_at(e.meeting, raw) = {}
        /\ handling[c].stage = "repeat" => e.type = "meeting_stop" /\ stops_at(e.meeting, raw) # {}
    <2>1. handling[c] \in Pings
      BY <1>1, <1>2 DEF HandledRight
    <2>2. e \in PingRows /\ handling[c].stage \in {"fresh", "repeat"}
      BY <1>1, <2>1 DEF Pings
    <2> QED BY <1>1, <1>2, <2>1, <2>2 DEF HandledRight
  <1>4. PICK row \in PingRows : row = written /\ row.type = e.type /\ row.meeting = e.meeting /\ row.device = e.device
                            /\ row.day = now
    <2>0. PICK again \in Ids \cup {"again"} : again = IF earlier # {} THEN "again" ELSE e.from
      BY <1>3 DEF PingRows
    <2>1. written = [e EXCEPT !.day = now, !.from = again]
      BY <1>3, <2>0 DEF PingRows
    <2>2. [e EXCEPT !.day = now, !.from = again] \in PingRows
      BY <1>2, <1>3 DEF PingRows
    <2>3. LET r == [e EXCEPT !.day = now, !.from = again]
          IN  r.type = e.type /\ r.meeting = e.meeting /\ r.device = e.device /\ r.day = now
      BY <1>2, <1>3 DEF PingRows
    <2> HIDE DEF written
    <2> QED BY <2>1, <2>2, <2>3
  <1>5. handling[c].stage = "fresh" =>
            /\ raw' = raw \cup {row} /\ everything' = everything \cup {row}
            /\ returned' = (returned \/ earlier \ raw # {})
    BY <1>1, <1>4
  <1> HIDE DEF written
  <1>6. \A m : stops_at(m, everything)' = {x \in stops_of(everything') : x.meeting = m}
    BY DEF stops_at, stops_of
  <1>7. StoredRight' /\ returned' \in BOOLEAN
    <2>1. CASE handling[c].stage = "repeat"
      <3>1. UNCHANGED <<raw, everything, returned>>
        BY <1>1, <2>1
      <3> QED BY <1>1, <1>2, <3>1, StoredSame
    <2>2. CASE handling[c].stage = "fresh"
      <3>1. ~returned' => ~returned /\ earlier \ raw = {}
        BY <1>5, <2>2
      <3>2. ~returned' => \A x \in everything : x.type = row.type /\ x.meeting = row.meeting => x \in raw
        BY <1>4, <3>1
      <3>3. StoredRight'
        BY <1>1, <1>3, <1>4, <1>5, <2>2, <3>1, <3>2, RowStored
      <3>4. returned' \in BOOLEAN
        BY <1>5, <2>2, Zenon
      <3> QED BY <3>3, <3>4
    <2> QED BY <1>3, <2>1, <2>2
  <1>8. everything \subseteq everything' /\ everything' \subseteq everything \cup {row} /\ raw \subseteq raw'
    BY <1>1, <1>3, <1>5
  <1>9. PhoneRight'
    <2>1. stops_at(e.meeting, everything') # {} \/ e.type # "meeting_stop"
      <3>1. CASE handling[c].stage = "repeat"
        BY <1>2, <1>3, <1>8, <3>1 DEF StoredRight, stops_at, stops_of
      <3>2. CASE handling[c].stage = "fresh"
        BY <1>4, <1>5, <3>2 DEF stops_at, stops_of
      <3> QED BY <1>3, <3>1, <3>2
    <2>2. outbox' \subseteq outbox /\ \A m \in outbox \ outbox' : m = e.meeting /\ e.type = "meeting_stop"
      BY <1>1
    <2>3. \A m : stops_at(m, everything) \subseteq stops_at(m, everything')
      BY <1>8 DEF stops_at, stops_of
    <2>4. \A m \in phone.used : m \in {phone.at, phone.died} \cup outbox' \/ stops_at(m, everything') # {}
      <3>1. \A m \in phone.used : m \in {phone.at, phone.died} \cup outbox \/ stops_at(m, everything) # {}
        BY <1>2 DEF PhoneRight
      <3> HIDE DEF e
      <3> QED BY <2>1, <2>2, <2>3, <3>1
    <2>5. \A m \in phone.used : (m \in {phone.at, phone.died} \cup outbox \/ stops_at(m, everything) # {})'
      BY <1>1, <2>4 DEF stops_at, stops_of
    <2> QED BY <1>1, <1>2, <2>2, <2>5 DEF PhoneRight
  <1>10. HandledRight'
    <2>1. /\ handling' \in [Copies -> Pings \cup {NoMeeting}]
          /\ \A k \in Copies : handling'[k] = IF k = c THEN NoMeeting ELSE handling[k]
      BY <1>1, <1>2 DEF HandledRight
    <2>2. ASSUME NEW k \in Copies, handling'[k] # NoMeeting
          PROVE  LET f == handling'[k].event
                 IN /\ f.type # "app_start" /\ f.device = "phone" /\ f.meeting \in phone.used
                    /\ f.type = "meeting_start" => \A x \in stops_at(f.meeting, everything') : x.day = now
                    /\ handling'[k].stage = "received"
      <3>1. k # c /\ handling'[k] = handling[k] /\ handling[k] # NoMeeting
        BY <2>1, <2>2
      <3>2. handling[k].stage = "received"
        BY <1>2, <1>3, <3>1 DEF HandledRight
      <3>3. /\ handling[k].event.type # "app_start" /\ handling[k].event.device = "phone"
            /\ handling[k].event.meeting \in phone.used
            /\ handling[k].event.type = "meeting_start" =>
                  \A x \in stops_at(handling[k].event.meeting, everything) : x.day = now
        BY <1>2, <3>1 DEF HandledRight
      <3>4. \A x \in stops_at(handling[k].event.meeting, everything') :
                x \in stops_at(handling[k].event.meeting, everything) \/ x = row
        BY <1>8 DEF stops_at, stops_of
      <3> QED BY <1>4, <3>1, <3>2, <3>3, <3>4
    <2> QED BY <1>1, <2>1, <2>2 DEF HandledRight, stops_at, stops_of
  <1>11. DevicesRight'
    <2>1. devices \in [{"phone", "old"} -> Nat]
      BY <1>2 DEF DevicesRight
    <2>2. /\ devices' \in [{"phone", "old"} -> Nat] /\ devices'["old"] = devices["old"]
          /\ devices'["phone"] = IF devices["phone"] = 0 THEN now ELSE devices["phone"]
      BY <1>1, <1>2, <2>1
    <2>3. devices'["phone"] # 0
      BY <1>2, <2>2
    <2>4. OldDevicesPing \in raw => OldDevicesPing \in raw'
      BY <1>8
    <2>5. \A x \in everything : x.day \in Nat /\ x.day <= now
      BY <1>2 DEF StoredRight, PingRows
    <2>6. CASE devices["phone"] = 0
      <3>1. \A x \in everything : x.device = "old"
        BY <1>2, <2>6 DEF DevicesRight
      <3>2. handling[c].stage # "repeat"
        <4>1. \A x \in stops_at(e.meeting, raw) : x \in everything /\ x.type # "app_start"
          BY <1>2 DEF StoredRight, stops_at, stops_of
        <4>2. \A x \in stops_at(e.meeting, raw) : x.device = "phone"
          BY <1>2, <4>1 DEF StoredRight
        <4> QED BY <1>3, <3>1, <4>1, <4>2
      <3>3. everything' = everything \cup {row} /\ row.device = "phone" /\ row.day = now
        BY <1>3, <1>4, <1>5, <3>2
      <3>4. \E x \in everything' : x.device = "phone" /\ x.day = devices'["phone"]
        BY <2>2, <2>6, <3>3
      <3>5. \A x \in everything' : x.device = "phone" => devices'["phone"] <= x.day
        BY <1>2, <2>2, <2>6, <3>1, <3>3
      <3> QED BY <1>2, <2>2, <2>3, <2>4, <3>4, <3>5 DEF DevicesRight
    <2>7. CASE devices["phone"] # 0
      <3>1. \E x \in everything' : x.device = "phone" /\ x.day = devices'["phone"]
        BY <1>2, <1>8, <2>2, <2>7 DEF DevicesRight
      <3>2. PICK x \in everything : x.device = "phone" /\ x.day = devices["phone"]
        BY <1>2, <2>7 DEF DevicesRight
      <3>3. devices["phone"] <= now
        BY <2>5, <3>2
      <3>4. \A y \in everything' : y.device = "phone" => devices'["phone"] <= y.day
        BY <1>2, <1>4, <1>8, <2>2, <2>7, <3>3 DEF DevicesRight
      <3> QED BY <1>2, <2>2, <2>3, <2>4, <3>1, <3>4 DEF DevicesRight
    <2> QED BY <2>6, <2>7
  <1>12. FiguresRight'
    <2>1. CASE handling[c].stage = "repeat"
      <3>1. UNCHANGED <<rollup, booted, everything>>
        BY <1>1, <2>1
      <3> QED BY <3>1, FiguresSame
    <2>2. CASE handling[c].stage = "fresh"
      BY <1>1, <1>2, <1>4, <1>5, <2>2, FiguresStay
    <2> QED BY <1>3, <2>1, <2>2
  <1> QED BY <1>1, <1>2, <1>7, <1>9, <1>10, <1>11, <1>12 DEF TelemetryInv

(* The purge keeps the first day of a device before it lets go of its row.        *)
LEMMA Absorbed ==
    ASSUME TelemetryInv, devices' = absorbed(raw), raw' \subseteq raw, UNCHANGED everything
    PROVE  DevicesRight'
  <1>1. DevicesRight /\ StoredRight
    BY DEF TelemetryInv
  <1>2. DOMAIN devices = {"phone", "old"} /\ devices["phone"] \in Nat /\ devices["old"] \in Nat
    BY <1>1 DEF DevicesRight
  <1>3. ASSUME NEW d \in {"phone", "old"}
        PROVE  devices'[d] = LET days == {e.day : e \in {r \in raw : r.device = d}}
                             IN IF devices[d] # 0 \/ days = {} THEN devices[d]
                                ELSE CHOOSE x \in days : \A y \in days : x <= y
    BY <1>2 DEF absorbed
  <1>4. devices'["phone"] = devices["phone"]
    <2>1. CASE devices["phone"] # 0
      BY <1>3, <2>1
    <2>2. CASE devices["phone"] = 0
      <3>1. {r \in raw : r.device = "phone"} = {}
        BY <1>1, <2>2 DEF DevicesRight, StoredRight
      <3> QED BY <1>3, <3>1
    <2> QED BY <2>1, <2>2
  <1>5. devices'["old"] = 1
    <2>1. CASE devices["old"] # 0
      BY <1>1, <1>3, <2>1 DEF DevicesRight
    <2>2. CASE devices["old"] = 0
      <3>1. OldDevicesPing \in raw /\ \A r \in raw : r.device = "old" => r = OldDevicesPing
        BY <1>1, <2>2 DEF DevicesRight, StoredRight
      <3>2. {r \in raw : r.device = "old"} = {OldDevicesPing}
        BY <3>1 DEF OldDevicesPing
      <3>3. {e.day : e \in {OldDevicesPing}} = {1}
        BY DEF OldDevicesPing
      <3>4. devices'["old"] = CHOOSE x \in {1} : \A y \in {1} : x <= y
        BY <1>3, <2>2, <3>2, <3>3
      <3> QED BY <3>4
    <2> QED BY <2>1, <2>2
  <1>6. devices' = [d \in {"phone", "old"} |-> devices'[d]]
    BY <1>2 DEF absorbed
  <1>7. devices' \in [{"phone", "old"} -> Nat]
    BY <1>2, <1>4, <1>5, <1>6
  <1> QED BY <1>1, <1>4, <1>5, <1>7 DEF DevicesRight

LEMMA Purged ==
    ASSUME TelemetryInv, raw' = kept(raw), UNCHANGED <<now, phone, everything, returned>>
    PROVE  StoredRight'
  <1>1. StoredRight
    BY DEF TelemetryInv
  <1>2. raw' \subseteq everything /\ \A e \in everything : e.day >= now - RawDays => e \in raw'
    BY <1>1 DEF StoredRight, kept
  <1> QED BY <1>1, <1>2 DEF StoredRight, starts_of, stops_of

LEMMA RetentionSweepKept == ASSUME TelemetryInv, RetentionSweep PROVE TelemetryInv'
  <1>1. /\ writer = NoMeeting /\ devices' = absorbed(raw) /\ raw' = kept(raw) /\ raw' \subseteq raw
        /\ UNCHANGED <<now, phone, outbox, handling, writer, rollup, starts, losses, everything, booted, returned>>
    BY DEF RetentionSweep, kept
  <1>2. HandledRight
    BY DEF TelemetryInv
  <1>3. \A c \in Copies : handling[c] # NoMeeting => handling[c].stage = "received"
    BY <1>1, <1>2, TelemetryAssumption DEF HandledRight
  <1>4. HandledRight'
    BY <1>1, <1>2, <1>3 DEF HandledRight, stops_at, stops_of
  <1>5. StoredRight' /\ DevicesRight' /\ FiguresRight' /\ PhoneRight'
    BY <1>1, Purged, Absorbed, FiguresSame, PhoneSame
  <1> QED BY <1>1, <1>4, <1>5 DEF TelemetryInv

LEMMA BootServerKept == ASSUME TelemetryInv, BootServer PROVE TelemetryInv'
  <1>1. /\ handling' = [c \in Copies |-> NoMeeting] /\ writer' = NoMeeting
        /\ devices' = absorbed(raw) /\ raw' = kept(raw) /\ raw' \subseteq raw
        /\ rollup' = compute_rollups(kept(raw)) /\ booted' = now
        /\ UNCHANGED <<now, phone, outbox, losses, everything, returned>>
    BY DEF BootServer, kept
  <1>2. HandledRight'
    BY <1>1 DEF HandledRight
  <1>3. StoredRight' /\ DevicesRight' /\ FiguresRight' /\ PhoneRight'
    BY <1>1, Purged, Absorbed, FiguresComputed, PhoneSame
  <1>4. booted' \in Nat /\ booted' <= now'
    BY <1>1 DEF TelemetryInv
  <1> QED BY <1>1, <1>2, <1>3, <1>4 DEF TelemetryInv

LEMMA TelemetryBegins == ASSUME TelemetryInit PROVE TelemetryInv
  <1>1. /\ now = 1 /\ booted = 0 /\ returned = FALSE
        /\ phone = [at |-> NoMeeting, died |-> NoMeeting, used |-> {}]
        /\ outbox = {} /\ handling = [c \in Copies |-> NoMeeting] /\ writer = NoMeeting
        /\ raw = {OldDevicesPing} /\ everything = {OldDevicesPing}
        /\ devices = [d \in {"phone", "old"} |-> 0]
    BY DEF TelemetryInit
  <1>2. OldDevicesPing \in PingRows /\ OldDevicesPing.type = "app_start" /\ OldDevicesPing.device = "old" /\ OldDevicesPing.day = 1
    BY DEF OldDevicesPing, PingRows, Ids
  <1>3. PhoneRight
    BY <1>1 DEF PhoneRight, Ids
  <1>4. starts_of(everything) = {} /\ stops_of(everything) = {}
    BY <1>1, <1>2 DEF starts_of, stops_of
  <1>5. StoredRight
    <2>1. IsFiniteSet(everything)
      BY <1>1, FS_Singleton
    <2>2. everything \subseteq PingRows /\ raw \subseteq everything /\ OldDevicesPing \in everything
      BY <1>1, <1>2
    <2>3. ASSUME NEW e \in everything
          PROVE  /\ e.day <= now /\ e \in raw
                 /\ IF e.type = "app_start" THEN e = OldDevicesPing ELSE e.device = "phone" /\ e.meeting \in phone.used
      <3>1. e = OldDevicesPing /\ e \in raw
        BY <1>1
      <3> QED BY <1>1, <1>2, <3>1
    <2> QED BY <1>4, <2>1, <2>2, <2>3 DEF StoredRight
  <1>6. HandledRight
    BY <1>1 DEF HandledRight
  <1>7. DevicesRight
    BY <1>1, <1>2 DEF DevicesRight
  <1>8. FiguresRight
    <2>1. \A d \in 1 .. LastDay : ~(d < booted)
      BY <1>1
    <2> QED BY <2>1 DEF FiguresRight, RollupExact
  <1>9. returned \in BOOLEAN
    BY <1>1, Zenon
  <1> QED BY <1>1, <1>3, <1>5, <1>6, <1>7, <1>8, <1>9 DEF TelemetryInv

LEMMA TelemetryStep == TelemetryInv /\ [TelemetryNext]_telemetryVars => TelemetryInv'
  <1>1. ASSUME TelemetryInv, UNCHANGED telemetryVars PROVE TelemetryInv'
    <2>1. UNCHANGED <<now, phone, outbox, handling, writer, raw, devices, rollup, everything, booted, returned>>
      BY <1>1 DEF telemetryVars
    <2> QED BY <1>1, <2>1, StoredSame, DevicesSame, FiguresSame, HandledSame, PhoneSame DEF TelemetryInv
  <1> QED BY <1>1, StartRecordingKept, RetryStopKept, StopRecordingKept, PhoneDiesKept, PinDeviceKept, PingKept,
             RetentionSweepKept, BootServerKept, MidnightKept DEF TelemetryNext

LEMMA PingsKept == TelemetryInv => TelemetryKept
  <1> SUFFICES ASSUME TelemetryInv PROVE TelemetryKept
    OBVIOUS
  <1>1. now \in Nat /\ PhoneRight /\ StoredRight /\ DevicesRight /\ FiguresRight
    BY DEF TelemetryInv
  <1>2. StopCountedOnce
    BY <1>1 DEF StopCountedOnce, StoredRight, stops_of
  <1>3. FirstSeenKept
    <2>0. DOMAIN devices = {"phone", "old"} /\ \A e \in everything : e.device \in {"phone", "old"} /\ e.day \in Nat
      BY <1>1 DEF DevicesRight, StoredRight, PingRows
    <2>1. ASSUME NEW d \in {"phone", "old"}
          PROVE  /\ devices[d] # 0 => /\ \E r \in everything : r.device = d /\ r.day = devices[d]
                                      /\ \A r \in everything : r.device = d => devices[d] <= r.day
                 /\ (\E r \in everything : r.device = d) /\ devices[d] = 0 =>
                        \E e \in raw : e.device = d /\ \A r \in everything : r.device = d => e.day <= r.day
      <3>1. CASE d = "phone"
        BY <1>1, <3>1 DEF DevicesRight
      <3>2. CASE d = "old"
        <4>1. \A r \in everything : r.device = "old" => r = OldDevicesPing
          BY <1>1 DEF StoredRight
        <4>2. OldDevicesPing \in everything /\ OldDevicesPing.device = "old" /\ OldDevicesPing.day = 1
          BY <1>1 DEF StoredRight, OldDevicesPing
        <4>3. devices["old"] \in {0, 1} /\ (devices["old"] = 0 => OldDevicesPing \in raw)
          BY <1>1 DEF DevicesRight
        <4>4. ASSUME NEW r \in everything, r.device = "old" PROVE r.day = 1
          BY <4>1, <4>2, <4>4
        <4> QED BY <3>2, <4>2, <4>3, <4>4
      <3> QED BY <3>1, <3>2
    <2> QED BY <2>0, <2>1 DEF FirstSeenKept
  <1>4. ShownIsGoingOn
    <2>1. ASSUME NEW e \in in_progress, e.meeting \notin {phone.at, phone.died} \cup outbox PROVE FALSE
      <3>1. /\ e \in raw /\ e \in everything /\ e.type = "meeting_start" /\ e.day >= now - 1
            /\ ~\E x \in raw : x.type = "meeting_stop" /\ x.meeting = e.meeting
        BY <1>1, <2>1 DEF in_progress, StoredRight
      <3>2. e.meeting \in phone.used
        BY <1>1, <3>1 DEF StoredRight
      <3>3. PICK x \in everything : x.type = "meeting_stop" /\ x.meeting = e.meeting
        BY <1>1, <2>1, <3>2 DEF PhoneRight, stops_at, stops_of
      <3>4. e.day <= x.day /\ e.day \in Nat /\ x.day \in Nat
        BY <1>1, <3>1, <3>3 DEF StoredRight, starts_of, stops_of, PingRows
      <3>5. x.day >= now - RawDays
        BY <1>1, <3>1, <3>4, TelemetryAssumption
      <3> QED BY <1>1, <3>1, <3>3, <3>5 DEF StoredRight
    <2> QED BY <2>1 DEF ShownIsGoingOn
  <1>5. RollupExact
    BY <1>1 DEF FiguresRight
  <1> QED BY <1>2, <1>3, <1>4, <1>5 DEF TelemetryKept

(* StoreKept, for any apps, meetings and releases, any number of boots, failing statements,        *)
(* crashes, restores and hands on the schema, and for any recordings, handlers and numbers of      *)
(* lost pings: a sweep that is skipped would have changed nothing, the newest upload stays and a   *)
(* deleted app stays deleted; a stop is counted once however often it is sent, the first day of a  *)
(* device outlives its rows, the figures of the days before a boot are those of everything stored, *)
(* and what is shown in progress is going on.                                                      *)
THEOREM TheStoreIsKept == StoreSpec => []StoreKept
  <1>1. StartupInit /\ TelemetryInit => StartupInv /\ TelemetryInv
    BY StartupBegins, TelemetryBegins
  <1>2. StartupInv /\ [StartupNext]_bootVars => StartupInv'
    BY StartupStep
  <1>3. TelemetryInv /\ [TelemetryNext]_telemetryVars => TelemetryInv'
    BY TelemetryStep
  <1>4. StartupInv /\ TelemetryInv => StoreKept
    BY HealedBoot, PingsKept DEF StoreKept
  <1> QED BY <1>1, <1>2, <1>3, <1>4, PTL DEF StoreSpec
=============================================================================

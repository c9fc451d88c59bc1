---------------------------- MODULE RemoteConfig ----------------------------
(***************************************************************************)
(* The remote configuration.  A document lives in the image (bundle), on    *)
(* disk (the overlay, which the dashboard edits) and in memory (what        *)
(* clients are served).  A device keeps one copy per config name and asks   *)
(* with the copy's version number; a number at or past the server's is      *)
(* answered "unchanged".  Which document a name stands for depends on the   *)
(* account's audience, the build, the app and the language.  The copy of    *)
(* `tiers`, in any language, is filled in when it is served, from the dial  *)
(* in the English `tiers` and from the matrix in `entitlements`.            *)
(*                                                                          *)
(* Two fields stand for a document: `tier`, the dial or the matrix cell     *)
(* that the tunable endpoints set, and `extra`, the rest, which a newer     *)
(* image may add; 0 is a field that is not there.  Handlers are one step:   *)
(* they do not await between reading and writing, except the fetch, which   *)
(* reads the tester table in between.                                       *)
(***************************************************************************)
EXTENDS Integers, Sequences, FiniteSets

CONSTANTS
    FieldValues,   \* values of a field
    TopVersion,    \* bound: versions
    MaxEdits,      \* bound: dashboard edits, deploys and switches
    MaxHours,      \* bound: hours
    MaxMoves,      \* bound: edits, fetches and hours together
    MinOccurrences,\* ALERT_MIN_OCCURRENCES
    MinSpan,       \* ALERT_MIN_SPAN_HOURS
    NoDoc

ASSUME RemoteConfigAssumption ==
    /\ FieldValues \subseteq Nat \ {0} /\ FieldValues # {} /\ TopVersion \in Nat \ {0}
    /\ MaxEdits \in Nat /\ MaxMoves \in Nat /\ MaxHours \in Nat
    /\ MinOccurrences \in Nat \ {0} /\ MinSpan \in Nat

Names == {"tester", "pin", "app", "tiers.es", "tiers"}   \* what a device may be served
Sources == {"tiers", "entitlements"}                     \* what a copy of `tiers` is filled from
Slugs == Names \cup Sources
Keys == [app : {"default", "other"}, slug : Names]

Docs == [version : Nat \ {0}, tier : Nat, extra : Nat]
Fetches == [configs : [Slugs -> Docs \cup {NoDoc}], seen : Nat]
StallRows == [times : Nat, first : Nat, number : Nat, alerted : BOOLEAN]

(* What stands where there is no document, no fetch and no row is none of them.    *)
ASSUME NoDocIsNone ==
    NoDoc \notin [version : Nat, tier : Nat, extra : Nat] \cup Fetches \cup StallRows

VARIABLES
    bundle,    \* _BUNDLED_DIR
    disk,      \* CONFIG_DIR
    served,    \* app.state.remote_configs
    drifted,   \* app.state.config_drift
    tester,    \* the account is an active row of config_testers
    device,    \* what the device is, the copy it holds and what that was filled from
    fetch,     \* the fetch in hand: the documents it started with, or NoDoc
    answer,    \* the last answer: its kind, its document, whether the tester table was read
    stall,     \* config_stalls of the account, by app and document, then by presented version
    taken,     \* history: payloads a device that cannot read took, by app and document
    takenSince, \* history: the hour of the first of them
    unwritten, \* history: apps and documents one of whose payloads was not recorded
    hour,      \* now
    edits,     \* edits so far
    fetches,   \* fetches so far
    lowered    \* history: how often a document's number was set downwards

stallVars == <<stall, taken, takenSince, unwritten>>
configVars == <<bundle, disk, served, drifted, tester, device, fetch, answer, stall, taken, takenSince,
                unwritten, hour, edits, fetches, lowered>>
editVars == <<tester, device, fetch, fetches, answer, stallVars, hour>>

Doc(v, t, x) == [version |-> v, tier |-> t, extra |-> x]
Least == CHOOSE f \in FieldValues : \A g \in FieldValues : f <= g
Content(d) == <<d.tier, d.extra>>

RemoteConfigInit ==
    /\ \E es \in {Doc(1, 0, 0), NoDoc} :
          bundle = [s \in Slugs |-> CASE s \in {"tiers", "pin", "entitlements"} -> Doc(1, Least, 0)
                                      [] s = "tiers.es" -> es
                                      [] OTHER -> NoDoc]
    /\ disk = [bundle EXCEPT !["tester"] = Doc(2, 0, 0)]
    /\ served = disk
    /\ drifted = {} /\ tester \in BOOLEAN
    /\ device \in [build : {"new"}, app : {"default"}, lang : {"en"}, decodes : BOOLEAN,
                   slug : {"none"}, held : {Doc(0, 0, 0)}, filled : {[s \in Sources |-> NoDoc]},
                   seen : {0}]
    /\ fetch = NoDoc /\ answer = [kind |-> "none", slug |-> "none", read |-> TRUE]
    /\ stall = [k \in Keys |-> [v \in 0 .. TopVersion |-> NoDoc]]
    /\ taken = [k \in Keys |-> 0] /\ takenSince = [k \in Keys |-> 0] /\ unwritten = {}
    /\ hour = 0 /\ edits = 0 /\ fetches = 0 /\ lowered = 0
----------------------------------------------------------------------------
(* What the image and the overlay hold                                        *)

load_remote_configs == served' = disk'

(* Faulty variant: a field is added under the old number.                      *)
HydratedSilently(over, image) ==
    IF over = NoDoc \/ image = NoDoc THEN over
    ELSE [over EXCEPT !.tier = IF @ = 0 THEN image.tier ELSE @, !.extra = IF @ = 0 THEN image.extra ELSE @]

(* hydrate_overlay_additions: fields the overlay has not got, and only those.   *)
hydrated(over, image) ==
    LET full == HydratedSilently(over, image)
    IN  IF full = over THEN over ELSE [full EXCEPT !.version = @ + 1]

(* seed_remote_configs: only what is not on disk.                               *)
seeded(over, image) == IF over = NoDoc THEN image ELSE over

(* detect_overlay_drift: fields both have, with different values.               *)
drift_of(over, image) ==
    IF over = NoDoc \/ image = NoDoc THEN {}
    ELSE {k \in {"tier", "extra"} : over[k] # 0 /\ image[k] # 0 /\ over[k] # image[k]}

(* A deploy: the new image's documents, seeded, hydrated, checked and loaded.   *)
Deploy ==
    /\ \E s \in Slugs, t \in FieldValues, x \in {Least, 0} :
          /\ bundle[s] # NoDoc /\ bundle[s].version < TopVersion
          /\ bundle' = [bundle EXCEPT ![s] = Doc(@.version + 1, t, x)]
    /\ disk' = [s \in Slugs |-> hydrated(seeded(disk[s], bundle'[s]), bundle'[s])]
    /\ \A s \in Slugs : disk'[s] # NoDoc => disk'[s].version <= TopVersion
    /\ drifted' = {s \in Slugs : drift_of(disk'[s], bundle'[s]) # {}}
    /\ load_remote_configs
    /\ fetch' = NoDoc
    /\ UNCHANGED <<tester, device, answer, stallVars, hour, fetches, lowered>>
----------------------------------------------------------------------------
(* The dashboard                                                              *)

bumped(number, old) == IF number <= old THEN old + 1 ELSE number

(* update_config: a new slug must be a language of a served one; the number is   *)
(* the editor's when it is ahead.                                                *)
update_config ==
    /\ \E s \in Slugs, number \in {0, TopVersion}, t \in FieldValues, x \in {Least, 0} :
          /\ disk[s] # NoDoc \/ served[s] # NoDoc \/ (s = "tiers.es" /\ served["tiers"] # NoDoc)
          /\ LET old == IF served[s] = NoDoc THEN 0 ELSE served[s].version
             IN  /\ bumped(number, old) <= TopVersion
                 /\ disk' = [disk EXCEPT ![s] = Doc(bumped(number, old), t, x)]
    /\ load_remote_configs
    /\ UNCHANGED <<bundle, drifted, lowered, editVars>>

sync_version(before, image, asked) ==
    IF asked THEN image ELSE IF before + 1 > image THEN before + 1 ELSE image

(* The named fields, as the image has them.                                        *)
synced(over, image, keys) ==
    Doc(over.version, IF "tier" \in keys THEN image.tier ELSE over.tier,
                      IF "extra" \in keys THEN image.extra ELSE over.extra)

(* sync_config_from_bundle: the named fields; the number too when it is named,   *)
(* downwards if need be.                                                         *)
sync_config_from_bundle ==
    /\ \E s \in Slugs, keys \in SUBSET {"tier", "extra"}, asked \in BOOLEAN :
          /\ bundle[s] # NoDoc
          /\ \A k \in keys : bundle[s][k] # 0
          /\ LET over == IF disk[s] = NoDoc THEN Doc(0, 0, 0) ELSE disk[s]
                 new == synced(over, bundle[s], keys)
                 number == sync_version(over.version, bundle[s].version, asked)
             IN  /\ new # over \/ (asked /\ bundle[s].version # over.version)
                 /\ number <= TopVersion
                 /\ disk' = [disk EXCEPT ![s] = Doc(number, new.tier, new.extra)]
                 /\ lowered' = IF asked /\ number <= over.version THEN lowered + 1 ELSE lowered
    /\ load_remote_configs
    /\ UNCHANGED <<bundle, drifted, editVars>>

(* The write of the tunable endpoints: unchanged files are left alone.            *)
saved(d, t, x) == IF Content(d) = <<t, x>> THEN d ELSE Doc(d.version + 1, t, x)
tuned(d, t) == saved(d, t, d.extra)
noted(d, x) == saved(d, d.tier, x)

(* update_tier_tunable_field: the files of every language in turn; one that has    *)
(* no such tier ends the request with the files before it written and nothing      *)
(* reloaded.                                                                       *)
update_tier_tunable_field ==
    /\ \E t \in FieldValues :
          /\ disk["tiers"] # NoDoc
          /\ LET first == tuned(disk["tiers"], t)
                 other == disk["tiers.es"]
             IN  /\ disk["tiers"].tier # 0
                 /\ first.version <= TopVersion
                 /\ IF other # NoDoc /\ other.tier = 0
                    THEN disk' = [disk EXCEPT !["tiers"] = first] /\ UNCHANGED served
                    ELSE /\ other # NoDoc => tuned(other, t).version <= TopVersion
                         /\ disk' = [disk EXCEPT !["tiers"] = first,
                                                 !["tiers.es"] = IF @ = NoDoc THEN @ ELSE tuned(@, t)]
                         /\ load_remote_configs
          /\ disk' # disk
    /\ UNCHANGED <<bundle, drifted, lowered, editVars>>

update_entitlements_matrix_cell ==
    /\ \E t \in FieldValues :
          /\ disk["entitlements"] # NoDoc /\ disk["entitlements"].tier # t
          /\ tuned(disk["entitlements"], t).version <= TopVersion
          /\ disk' = [disk EXCEPT !["entitlements"] = tuned(@, t)]
    /\ load_remote_configs
    /\ UNCHANGED <<bundle, drifted, lowered, editVars>>

(* update_entitlements_documents: the languages that are there get the field, and its *)
(* block with it.                                                                    *)
update_documents ==
    /\ \E x \in FieldValues, some \in SUBSET {"tiers", "tiers.es"} :
          /\ some # {} /\ \A s \in some : disk[s] # NoDoc /\ noted(disk[s], x).version <= TopVersion
          /\ disk' = [s \in Slugs |-> IF s \in some THEN noted(disk[s], x) ELSE disk[s]]
          /\ disk' # disk
    /\ load_remote_configs
    /\ UNCHANGED <<bundle, drifted, lowered, editVars>>

(* update_project_chat_cap: one language's file, made when it is not there.           *)
update_project_chat_cap ==
    /\ \E x \in FieldValues, s \in {"tiers", "tiers.es"} :
          LET over == IF disk[s] = NoDoc THEN Doc(0, 0, 0) ELSE disk[s]
          IN  /\ over.extra # x /\ noted(over, x).version <= TopVersion
              /\ disk' = [disk EXCEPT ![s] = noted(over, x)]
    /\ load_remote_configs
    /\ UNCHANGED <<bundle, drifted, lowered, editVars>>

(* get_config_detail, get_tiers, get_entitlements read the overlay again.            *)
reload_configs ==
    /\ served # disk /\ served' = disk
    /\ UNCHANGED <<bundle, disk, drifted, lowered, editVars>>

upsert_tester ==
    /\ tester' = ~tester
    /\ UNCHANGED <<bundle, disk, served, drifted, lowered, device, fetch, fetches, answer, stallVars,
                   hour>>
----------------------------------------------------------------------------
(* The fetch                                                                  *)

(* resolve_build_pin: an unreadable build gets the tightest pin.                *)
resolve_build_pin == device.build \in {"old", "unreadable"}

(* resolve_app_dir and candidate_slugs: tester, pin, the app's own file, then    *)
(* the flat one, each in the device's language first.                            *)
candidate_slugs(is_tester) ==
    (IF is_tester THEN <<"tester">> ELSE <<>>) \o (IF resolve_build_pin THEN <<"pin">> ELSE <<>>)
      \o (IF device.app = "other" THEN <<"app">> ELSE <<>>)
      \o (IF device.lang = "es" THEN <<"tiers.es">> ELSE <<>>) \o <<"tiers">>

resolve_slug(configs, is_tester) ==
    LET chain == candidate_slugs(is_tester)
        there == {i \in DOMAIN chain : configs[chain[i]] # NoDoc}
    IN  IF there = {} THEN "none" ELSE chain[CHOOSE i \in there : \A j \in there : i <= j]

get_config ==
    /\ edits + fetches + hour < MaxMoves /\ fetches' = fetches + 1
    /\ fetch = NoDoc /\ fetch' = [configs |-> served, seen |-> lowered]
    /\ UNCHANGED <<bundle, disk, served, drifted, tester, device, answer, stallVars, hour, edits,
                   lowered>>

(* render_recall_window_copy: a copy of `tiers` names the window the English dial      *)
(* gives, for the tier the matrix picks; the other documents are served as they are.   *)
filled_from(configs, slug) ==
    [s \in Sources |-> IF slug \in {"tiers", "tiers.es"} THEN configs[s] ELSE NoDoc]
window(from) == [s \in Sources |-> IF from[s] = NoDoc THEN 0 ELSE from[s].tier]

(* clear: the presented number, and every lower one, has been left behind.        *)
clear(rows, v) == [w \in DOMAIN rows |-> IF w <= v THEN NoDoc ELSE rows[w]]

begun(number) == [times |-> 1, first |-> hour, number |-> number, alerted |-> FALSE]
counted(row, number) == [row EXCEPT !.times = IF @ = MinOccurrences THEN @ ELSE @ + 1, !.number = number]

(* Faulty variant: a new server version starts the count again.                    *)
CountsPerRelease(rows, v, number) ==
    [w \in DOMAIN rows |->
        IF w < v THEN NoDoc ELSE IF w > v THEN rows[w]
        ELSE IF rows[w] = NoDoc \/ rows[w].number # number THEN begun(number) ELSE counted(rows[w], number)]

record_full_payload(rows, v, number) ==
    [w \in DOMAIN rows |->
        IF w < v THEN NoDoc ELSE IF w > v THEN rows[w]
        ELSE IF rows[w] = NoDoc THEN begun(number) ELSE counted(rows[w], number)]

(* A full payload: a build that cannot read it throws its copy away and goes       *)
(* back to the one in the app.                                                     *)
keeps(d, slug, configs, seen) ==
    IF device.decodes
    THEN [device EXCEPT !.slug = slug, !.held = d, !.filled = filled_from(configs, slug), !.seen = seen]
    ELSE device

(* One more payload for a device that cannot read it, under the key k.              *)
takes(k, wrote) ==
    IF device.decodes THEN UNCHANGED <<taken, takenSince, unwritten>>
    ELSE /\ taken' = [taken EXCEPT ![k] = IF @ = MinOccurrences THEN @ ELSE @ + 1]
         /\ takenSince' = [takenSince EXCEPT ![k] = IF taken[k] = 0 THEN hour ELSE @]
         /\ unwritten' = IF wrote THEN unwritten ELSE unwritten \cup {k}

(* The tester table may be out of reach, which makes the caller one of production;  *)
(* the stall's write may fail, which is only logged.  A token that does not verify   *)
(* is both.                                                                         *)
answer_config ==
    /\ fetch # NoDoc /\ fetch' = NoDoc
    /\ \E wrote \in BOOLEAN, read \in IF tester THEN BOOLEAN ELSE {TRUE} :
          LET slug == resolve_slug(fetch.configs, tester /\ read)
              d == fetch.configs[slug]
              mine == device.held.version
              key == [app |-> device.app, slug |-> slug]
          IN  /\ slug # "none"
              /\ answer' = [kind |-> IF mine >= d.version THEN "unchanged" ELSE "full",
                            slug |-> slug, read |-> read]
              /\ IF mine >= d.version
                 THEN /\ stall' = IF wrote THEN [stall EXCEPT ![key] = clear(@, mine)] ELSE stall
                      /\ UNCHANGED <<device, taken, takenSince, unwritten>>
                 ELSE /\ stall' = IF wrote
                                  THEN [stall EXCEPT ![key] = record_full_payload(@, mine, d.version)]
                                  ELSE stall
                      /\ device' = keeps(d, slug, fetch.configs, fetch.seen)
                      /\ takes(key, wrote)
    /\ UNCHANGED <<bundle, disk, served, drifted, tester, hour, edits, fetches, lowered>>

(* The owner updates the app or changes its language.                               *)
device_changes ==
    /\ \E b \in {"old", "new", "unreadable"}, l \in {"en", "es"}, a \in {"default", "other"} :
          /\ <<b, l, a>> # <<device.build, device.lang, device.app>>
          /\ device' = [device EXCEPT !.build = b, !.lang = l, !.app = a]
    /\ UNCHANGED <<bundle, disk, served, drifted, lowered, tester, fetch, fetches, answer,
                   stallVars, hour>>

(* alert_stalled_clients: one incident for a row; a row whose report or mark fails    *)
(* stays due.                                                                        *)
due(row) == row # NoDoc /\ ~row.alerted /\ row.times >= MinOccurrences /\ hour - row.first >= MinSpan
told(row) == [row EXCEPT !.alerted = TRUE]

alert_stalled_clients ==
    /\ \E k \in Keys, v \in 0 .. TopVersion :
          due(stall[k][v]) /\ stall' = [stall EXCEPT ![k][v] = told(@)]
    /\ UNCHANGED <<bundle, disk, served, drifted, tester, device, fetch, answer, taken, takenSince,
                   unwritten, hour, edits, fetches, lowered>>

(* Not while a fetch is in hand: it reads the clock only at its end.                 *)
HourPasses ==
    /\ fetch = NoDoc
    /\ hour < MaxHours /\ edits + fetches + hour < MaxMoves /\ hour' = hour + 1
    /\ UNCHANGED <<bundle, disk, served, drifted, tester, device, fetch, answer, stallVars, edits,
                   fetches, lowered>>

RemoteConfigNext ==
    \/ /\ edits < MaxEdits /\ edits + fetches + hour < MaxMoves /\ edits' = edits + 1
       /\ \/ Deploy \/ update_config \/ sync_config_from_bundle \/ update_tier_tunable_field
          \/ update_documents \/ update_entitlements_matrix_cell \/ update_project_chat_cap \/ upsert_tester \/ device_changes
    \/ reload_configs /\ UNCHANGED edits
    \/ get_config \/ answer_config \/ alert_stalled_clients \/ HourPasses
----------------------------------------------------------------------------
(* A device that would be told "unchanged" about the very document it holds      *)
(* holds what that document says now: every edit that changes what is stored      *)
(* (dashboard, sync from the image, fields added at start-up) moves the number.    *)
(* Setting the number downwards on request is the exception.  The window a copy     *)
(* of `tiers` was filled with is the one it would be filled with now unless one of  *)
(* the documents it was filled from has moved on, which does not move the copy's    *)
(* own number: a language's copy keeps an old window after the English dial moves.  *)
SameNumber(new, old) == /\ new = NoDoc <=> old = NoDoc
                        /\ new # NoDoc => new.version = old.version

UnchangedIsCurrent ==
    (/\ device.slug # "none" /\ device.seen = lowered /\ served[device.slug] # NoDoc
     /\ device.held.version >= served[device.slug].version)
    => /\ Content(device.held) = Content(served[device.slug])
       /\ (/\ device.slug \in {"tiers", "tiers.es"}
           /\ \A s \in Sources : SameNumber(served[s], device.filled[s]))
          => window(device.filled) = window(served)

(* A lone device that cannot read what it is served is counted, for the app and the *)
(* document it is served, once for each payload since the first, over every release  *)
(* in between (config_stall keys the row on the presented number), so the alert      *)
(* comes due when it should.  A write that failed is not made up for: the row then   *)
(* counts late or short, but never payloads the device was not given.               *)
Counted(k) ==
    /\ k \notin unwritten => /\ stall[k][0] # NoDoc
                             /\ stall[k][0].times = taken[k] /\ stall[k][0].first = takenSince[k]
    /\ stall[k][0] # NoDoc => stall[k][0].times <= taken[k] /\ stall[k][0].first >= takenSince[k]

StallCounted == ~device.decodes => \A k \in Keys : taken[k] > 0 => Counted(k)

ServedFaithfully == UnchangedIsCurrent /\ StallCounted

(* A device whose account was looked up and that is told "unchanged" holds what the  *)
(* resolved document says, so that a retired tester is back on production ("a stale   *)
(* tester file cannot silently freeze one account in the past",                      *)
(* tests/test_config_audience.py).                                                   *)
RetiredTesterReturns ==
    (answer.read /\ answer.kind = "unchanged" /\ device.slug = "tester") => answer.slug = "tester"
=============================================================================

------------------------------- MODULE Startup -------------------------------
(***************************************************************************)
(* Bringing the database up.  Every boot compares the schema the file has    *)
(* and the set of migrations it carries with the pair the last sweep         *)
(* recorded, and skips the sweep when both are the same.  A sweep runs every *)
(* statement and survives the ones that fail.  A schema statement is kept at *)
(* once until the first write of the sweep opens a transaction, which then   *)
(* holds everything until the retention purge commits it.  Deploys,          *)
(* rollbacks, crashes, a restored snapshot and an operator's hand on the     *)
(* schema come in between.  One person's rows stand for everybody's.         *)
(***************************************************************************)
EXTENDS Integers, Sequences, FiniteSets

CONSTANTS
    Apps,       \* X-App-IDs; the transcripts belong to Owner
    Owner,      \* "shouldersurf"
    MeetingIds,
    Cuts,       \* lengths of MIGRATIONS in the releases there are
    MaxBoots,   \* bound: boots
    MaxUploads, \* bound: transcripts uploaded
    MaxUpsets,  \* bound: statements that fail, crashes, operator's drops and restores, together
    NoRecord

(* The statements of MIGRATIONS whose order and kind matter, in its order: a    *)
(* column added and, later, dropped again; the two membership backfills, from   *)
(* the usage log and from the lifecycle pings; one transcript per meeting; a    *)
(* column, and the filling of it.                                               *)
MIGRATIONS == <<"add chat", "drop chat", "backfill apps", "backfill pings", "unique transcripts", "add counts",
                "fill counts">>

Objects == {"chat", "unique", "counts"}

ASSUME StartupAssumption ==
    /\ Owner \in Apps /\ MeetingIds # {} /\ Cuts \subseteq 0 .. Len(MIGRATIONS)
    /\ {MaxBoots, MaxUploads, MaxUpsets} \subseteq Nat
    /\ NoRecord \notin [schema : SUBSET Objects, migrations : Nat]

VARIABLES
    file,     \* what the database file holds
    work,     \* what the boot's connection sees
    opened,   \* a transaction is open on it
    pc,       \* "down", "compare", "sweep", "record", "purge" or "serving"
    step,     \* the migration the sweep is at
    length,   \* the length of MIGRATIONS in the release that is deployed
    snapshot, \* the replica's copy of the file, or NoRecord
    calls,    \* apps with a model call in flight
    boots, uploads, upsets

bootVars == <<file, work, opened, pc, step, length, snapshot, calls, boots, uploads, upsets>>

Writes == {"backfill apps", "backfill pings", "unique transcripts", "fill counts"}

(* The file: the schema it has, its rows (pinged: the apps with rows of          *)
(* telemetry_events that name the person), the record of the last sweep; and, as *)
(* history, the statements whose last try failed, those of the sweep on record,  *)
(* the apps deleted, the apps a call or a ping was logged for while they were     *)
(* none of the person's, and the newest upload of each meeting.                  *)
Legacy ==
    LET m == CHOOSE x \in MeetingIds : TRUE
    IN [schema |-> {"chat"}, record |-> NoRecord, members |-> {}, usage |-> [app : {Owner}, counted : {FALSE}],
        pinged |-> {Owner},
        transcripts |-> [meeting : {m}, id : {1, 2}], missed |-> {}, excused |-> {}, deleted |-> {}, late |-> {},
        newest |-> [x \in MeetingIds |-> IF x = m THEN 2 ELSE 0]]

(* The same file as the whole of MIGRATIONS leaves it.                          *)
Upgraded ==
    [Legacy EXCEPT !.schema = {"unique", "counts"}, !.members = {Owner}, !.usage = [app : {Owner}, counted : {TRUE}],
                   !.transcripts = {t \in @ : t.id = 2},
                   !.record = [schema |-> {"unique", "counts"}, migrations |-> Len(MIGRATIONS)]]

(* A file from before the record, or one that was up with the newest release.   *)
StartupInit ==
    /\ file \in {Legacy, Upgraded}
    /\ work = file /\ snapshot = NoRecord /\ opened = FALSE
    /\ pc = "down" /\ step = 1 /\ calls = {}
    /\ length \in Cuts
    /\ boots = 0 /\ uploads = 2 /\ upsets = 0
----------------------------------------------------------------------------
carries(s) == \E i \in 1..length : MIGRATIONS[i] = s

(* migrations_fingerprint and schema_fingerprint.                               *)
fingerprints(db) == [schema |-> db.schema, migrations |-> length]

(* Faulty variant: the record is believed without a look at the schema.         *)
TrustsRecord(db) == db.record # NoRecord /\ db.record.migrations = length

converged(db) == db.record # NoRecord /\ db.record = fingerprints(db)

(* Faulty variant: the first upload of a meeting is the one that stays.         *)
FirstUploadStays(rows) == {t \in rows : ~\E o \in rows : o.meeting = t.meeting /\ o.id < t.id}

(* _TRANSCRIPT_DELETE_LOSERS_SQL: a row with a later sibling goes.              *)
without_losers(rows) == {t \in rows : ~\E o \in rows : o.meeting = t.meeting /\ o.id > t.id}

apps_of(usage) == {u.app : u \in usage}

(* What a statement makes of the database.                                      *)
applied(s, db) ==
    CASE s = "add chat" -> [db EXCEPT !.schema = @ \cup {"chat"}]
      [] s = "drop chat" -> [db EXCEPT !.schema = @ \ {"chat"}]
      [] s = "backfill apps" -> [db EXCEPT !.members = @ \cup apps_of(db.usage)]
      [] s = "backfill pings" -> [db EXCEPT !.members = @ \cup db.pinged]
      [] s = "unique transcripts" -> [db EXCEPT !.transcripts = without_losers(@), !.schema = @ \cup {"unique"}]
      [] s = "add counts" -> [db EXCEPT !.schema = @ \cup {"counts"}]
      [] s = "fill counts" -> [db EXCEPT !.usage = [app : apps_of(db.usage), counted : {TRUE}]]

(* "no such column", which is not _is_already_applied.                          *)
impossible(s, db) == s = "fill counts" /\ "counts" \notin db.schema

(* Faulty variant: every statement is committed by itself.                      *)
CommitsEach(s, db) == /\ work' = db /\ file' = db /\ opened' = FALSE

(* A statement of the sweep, inside the transaction once a write has opened it. *)
executed(s, db) ==
    /\ work' = db
    /\ opened' = (opened \/ s \in Writes)
    /\ file' = IF opened' THEN file ELSE db

(* init_db: the process starts with the release that is deployed.               *)
Boot ==
    /\ pc = "down" /\ boots < MaxBoots
    /\ boots' = boots + 1
    /\ pc' = "compare"
    /\ UNCHANGED <<file, work, opened, step, length, snapshot, calls, uploads, upsets>>

compare_fingerprints ==
    /\ pc = "compare"
    /\ pc' = IF converged(work) THEN "purge" ELSE "sweep"
    /\ UNCHANGED <<file, work, opened, step, length, snapshot, calls, boots, uploads, upsets>>

(* One turn of the loop.  A plain statement that fails is counted and passed    *)
(* over; the one written in Python takes the boot with it, because the warning  *)
(* about it cannot be written.                                                  *)
run_migration ==
    /\ pc = "sweep" /\ step <= length
    /\ LET s == MIGRATIONS[step]
       IN \/ /\ ~impossible(s, work)
             /\ executed(s, [applied(s, work) EXCEPT !.missed = @ \ {s}])
             /\ step' = step + 1 /\ UNCHANGED <<pc, upsets>>
          \/ /\ impossible(s, work)
             /\ executed(s, [work EXCEPT !.missed = @ \cup {s}])
             /\ step' = step + 1 /\ UNCHANGED <<pc, upsets>>
          \/ /\ upsets < MaxUpsets /\ s # "unique transcripts"
             /\ executed(s, [work EXCEPT !.missed = @ \cup {s}])
             /\ step' = step + 1 /\ upsets' = upsets + 1 /\ UNCHANGED pc
          \/ /\ upsets < MaxUpsets /\ s = "unique transcripts"
             /\ pc' = "down" /\ work' = file /\ opened' = FALSE
             /\ step' = 1 /\ upsets' = upsets + 1 /\ UNCHANGED file
    /\ UNCHANGED <<length, snapshot, calls, boots, uploads>>

(* The record, from the schema the sweep produced.                              *)
record_sweep ==
    /\ pc = "sweep" /\ step > length
    /\ work' = [work EXCEPT !.record = fingerprints(work), !.excused = work.missed]
    /\ opened' = TRUE /\ pc' = "purge"
    /\ UNCHANGED <<file, step, length, snapshot, calls, boots, uploads, upsets>>

(* purge_expired and the commits in it: what was uploaded, or pinged, before a   *)
(* moment goes.                                                                 *)
purge_expired ==
    /\ pc = "purge"
    /\ \E cut \in {0, uploads}, recent \in SUBSET work.pinged :
           work' = [work EXCEPT !.pinged = recent,
                                !.transcripts = {t \in @ : t.id >= cut},
                                !.newest = [m \in MeetingIds |-> IF @[m] < cut THEN 0 ELSE @[m]]]
    /\ file' = work' /\ opened' = FALSE /\ pc' = "serving" /\ step' = 1
    /\ UNCHANGED <<length, snapshot, calls, boots, uploads, upsets>>
----------------------------------------------------------------------------
Served(db) == /\ file' = db /\ work' = db
              /\ UNCHANGED <<opened, pc, step, length, snapshot, boots, upsets>>

(* capture_transcript: INSERT OR REPLACE under a fresh id.                      *)
UploadTranscript(m) ==
    /\ pc = "serving" /\ uploads < MaxUploads /\ Owner \in file.members
    /\ uploads' = uploads + 1
    /\ Served([file EXCEPT !.transcripts = {t \in @ : "unique" \in file.schema => t.meeting # m}
                                               \cup {[meeting |-> m, id |-> uploads + 1]},
                           !.newest[m] = uploads + 1])
    /\ UNCHANGED calls

(* _issue_tokens: the membership is upserted.                                   *)
SignIn(a) ==
    /\ pc = "serving" /\ a \notin file.members
    /\ Served([file EXCEPT !.members = @ \cup {a}, !.deleted = @ \ {a}, !.late = @ \ {a}])
    /\ UNCHANGED <<calls, uploads>>

(* A token of an app outlives the deletion of the app by a while.                *)
CallBegins(a) ==
    /\ pc = "serving" /\ a \notin calls
    /\ calls' = calls \cup {a}
    /\ Served(file) /\ UNCHANGED uploads

(* log_usage: the counts are columns of the insert in the release that has      *)
(* them, and the row is lost when the table has not.                            *)
log_usage(a) ==
    /\ pc = "serving" /\ a \in calls
    /\ calls' = calls \ {a}
    /\ Served(IF carries("add counts") /\ "counts" \notin file.schema THEN file
              ELSE [file EXCEPT !.usage = @ \cup {[app |-> a, counted |-> carries("add counts")]},
                                !.late = IF a \in file.members THEN @ ELSE @ \cup {a}])
    /\ UNCHANGED uploads

(* A lifecycle ping, which needs no token and which a phone queues until it is    *)
(* answered.                                                                     *)
ping_event(a) ==
    /\ pc = "serving"
    /\ Served([file EXCEPT !.pinged = @ \cup {a}, !.late = IF a \in file.members THEN @ ELSE @ \cup {a}])
    /\ UNCHANGED <<calls, uploads>>

(* Faulty variant: the usage of the app is kept.                                *)
KeepsUsage(a, usage) == usage

scoped_purge(a, usage) == {u \in usage : u.app # a}

(* delete_user_data for one app; the transcripts go with the app that owns them. *)
DeleteApp(a) ==
    /\ pc = "serving" /\ a \in file.members
    /\ Served([file EXCEPT !.usage = scoped_purge(a, @), !.pinged = @ \ {a}, !.members = @ \ {a},
                           !.deleted = @ \cup {a}, !.late = @ \ {a},
                           !.transcripts = IF a = Owner THEN {} ELSE @,
                           !.newest = IF a = Owner THEN [m \in MeetingIds |-> 0] ELSE @])
    /\ UNCHANGED <<calls, uploads>>
----------------------------------------------------------------------------
(* The process dies on its way up; what no commit has kept is gone.             *)
Crash ==
    /\ pc \notin {"down", "serving"} /\ upsets < MaxUpsets
    /\ pc' = "down" /\ work' = file /\ opened' = FALSE /\ step' = 1
    /\ upsets' = upsets + 1
    /\ UNCHANGED <<file, length, snapshot, calls, boots, uploads>>

(* A release goes out, is rolled back, or the server just restarts: it stops,   *)
(* and the calls in flight are gone.                                            *)
Redeploy ==
    /\ pc = "serving" /\ boots < MaxBoots
    /\ length' \in Cuts
    /\ pc' = "down" /\ calls' = {}
    /\ UNCHANGED <<file, work, opened, step, snapshot, boots, uploads, upsets>>

(* The replica keeps a copy of what is committed, taken at any moment.          *)
Replicate ==
    /\ snapshot = NoRecord /\ upsets < MaxUpsets /\ snapshot' = file
    /\ UNCHANGED <<file, work, opened, pc, step, length, calls, boots, uploads, upsets>>

Restore ==
    /\ pc = "down" /\ upsets < MaxUpsets /\ snapshot # NoRecord
    /\ file' = snapshot /\ work' = snapshot /\ snapshot' = NoRecord /\ upsets' = upsets + 1
    /\ UNCHANGED <<opened, pc, step, length, calls, boots, uploads>>

(* A hand on the schema while the server is down: an index or a column goes.    *)
OperatorDrops ==
    /\ pc = "down" /\ upsets < MaxUpsets
    /\ \E o \in file.schema :
           file' = [file EXCEPT !.schema = @ \ {o},
                                !.usage = IF o = "counts" THEN [app : apps_of(file.usage), counted : {FALSE}] ELSE @]
    /\ work' = file' /\ upsets' = upsets + 1
    /\ UNCHANGED <<opened, pc, step, length, snapshot, calls, boots, uploads>>

StartupNext ==
    \/ Boot \/ compare_fingerprints \/ run_migration \/ record_sweep \/ purge_expired
    \/ \E m \in MeetingIds : UploadTranscript(m)
    \/ \E a \in Apps : SignIn(a) \/ CallBegins(a) \/ log_usage(a) \/ ping_event(a) \/ DeleteApp(a)
    \/ Crash \/ Redeploy \/ Replicate \/ Restore \/ OperatorDrops
----------------------------------------------------------------------------
(* Whatever the file has been through, a server that takes requests has what    *)
(* every statement of its release asks for, except the statements that failed    *)
(* in the sweep on record: the skipped sweep would have changed nothing.        *)
(* (database.py, the note above _SCHEMA_STATE_TABLE)                            *)
SkipCostsNothing ==
    pc = "serving" =>
        \A s \in {MIGRATIONS[i] : i \in 1..length} \ file.excused :
            /\ s = "drop chat" => "chat" \notin file.schema
            /\ s = "unique transcripts" => "unique" \in file.schema
            /\ s = "add counts" => "counts" \in file.schema
            /\ s = "fill counts" => \A u \in file.usage : u.counted
            /\ s = "backfill apps" => apps_of(file.usage) \subseteq file.members \cup file.late
            /\ s = "backfill pings" => file.pinged \subseteq file.members \cup file.late

(* The newest upload of a meeting is never the one the dedupe or a replay       *)
(* drops, and once the index is there it is the only one.                       *)
NewestUploadKept ==
    /\ \A m \in MeetingIds : file.newest[m] # 0 => [meeting |-> m, id |-> file.newest[m]] \in file.transcripts
    /\ "unique" \in file.schema => \A t, o \in file.transcripts : t.meeting = o.meeting => t = o

(* An app the person has deleted does not come back by a sweep's backfills,     *)
(* unless a call or a ping that outlived the deletion has been logged since.    *)
(* ("never resurrects an app the user has since deleted")                       *)
DeletedAppStaysDeleted == file.members \cap file.deleted \subseteq file.late

(* The three together: the file comes up as the release needs it, and nothing   *)
(* the person did is undone by bringing it up.                                  *)
BootHeals == SkipCostsNothing /\ NewestUploadKept /\ DeletedAppStaysDeleted
=============================================================================

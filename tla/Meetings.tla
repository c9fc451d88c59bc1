------------------------------ MODULE Meetings ------------------------------
(***************************************************************************)
(* One meeting's transcript and report.  A report is built inside a request *)
(* or by a job that outlives it; the job is known to the process (_RUNNING) *)
(* and to a row (report_jobs), and a poll reads first one, then the other.  *)
(* Cleaning, charging, storing and telling happen at different awaits.      *)
(***************************************************************************)
EXTENDS Integers

CONSTANTS
    Posts,         \* report requests that may overlap
    Job,           \* the background task
    MeterLimit,    \* effective_limit, in model calls
    MaxCaptures,   \* bound: uploads of the transcript
    MaxBuilds,     \* bound: report requests
    MaxBroken,     \* bound: restarts and lost writes
    NoBuild

ASSUME MeetingsAssumption ==
    /\ MeterLimit \in Nat /\ MaxCaptures \in Nat /\ MaxBuilds \in Nat /\ MaxBroken \in Nat /\ Job \notin Posts
    /\ NoBuild \notin [at : {"inserting", "start", "saving", "gate", "model", "failed", "built", "canned", "stored",
                            "popping"}, raw : Nat, ok : BOOLEAN]

VARIABLES
    transcript, \* meeting_transcripts: which upload the raw and the cleaned text come from; 0: none
    captures,   \* uploads so far
    report,     \* meeting_reports: "none", "built" or "canned"
    job_row,    \* report_jobs.status, or "none"
    running,    \* the key is in _RUNNING
    build,      \* what each request and the job are at
    builds,     \* report requests so far
    meter,      \* monthly_used_usd
    poll,       \* the poll in hand, or NoBuild
    told,       \* the last poll's answer and what was true when it read
    ownStored,  \* history: the job in flight has stored its report
    newStored,  \* history: since the job in flight began a report was stored, or a request that had
                \*          stored one just before ended and erased the job's row
    broken,     \* history: restarts and lost writes
    lost,       \* history: the row's job died without being told
    stuck,      \* history: a job's row could not be inserted in this process's life
    mismatched  \* history: a cleaning was saved beside another upload

meetingVars == <<transcript, captures, report, job_row, running, build, builds, meter, poll, told,
                 ownStored, newStored, broken, lost, stuck, mismatched>>
jobStateVars == <<job_row, running, ownStored, newStored, broken, lost, stuck>>

Builders == Posts \cup {Job}

MeetingsInit ==
    /\ transcript = [raw |-> 0, cleaned |-> 0] /\ captures = 0
    /\ report = "none" /\ job_row = "none" /\ running = FALSE
    /\ build = [b \in Builders |-> NoBuild] /\ builds = 0 /\ meter = 0
    /\ poll = NoBuild /\ told = [said |-> "nothing", true |-> TRUE]
    /\ ownStored = FALSE /\ newStored = FALSE /\ broken = 0
    /\ lost = FALSE /\ stuck = FALSE /\ mismatched = FALSE
----------------------------------------------------------------------------
At(b, at) == build[b] # NoBuild /\ build[b].at = at
Go(b, at) == build' = [build EXCEPT ![b].at = at]
Leave(b) == build' = [build EXCEPT ![b] = NoBuild]

(* Faulty variant: the row is updated, and its cleaned text stays.              *)
KeepsCleaned(n) == [transcript EXCEPT !.raw = n]

(* INSERT OR REPLACE: a new upload's row has no cleaned text.                   *)
captured(n) == [raw |-> n, cleaned |-> 0]

capture_transcript ==
    /\ captures < MaxCaptures /\ captures' = captures + 1
    /\ transcript' = captured(captures + 1)
    /\ UNCHANGED <<report, build, builds, meter, poll, told, mismatched, jobStateVars>>

purge_expired_transcripts ==
    /\ transcript.raw # 0 /\ transcript' = [raw |-> 0, cleaned |-> 0]
    /\ UNCHANGED <<captures, report, build, builds, meter, poll, told, mismatched, jobStateVars>>

(* The hourly sweep commits table by table.  A report's created_at is the date  *)
(* of its meeting, so one of an old meeting goes with the next sweep, however   *)
(* new it is.                                                                   *)
purge_expired_reports ==
    /\ report # "none" /\ report' = "none"
    /\ UNCHANGED <<transcript, captures, build, builds, meter, poll, told, mismatched, jobStateVars>>

(* What a build works from; the summary and the questions of the usage log ride *)
(* along and are not told apart.                                                *)
gather_meeting_data == transcript.raw

StartAt(at, data) == [at |-> at, raw |-> data, ok |-> TRUE]

(* The cheap refusals (build floor, too short, rate limit, quota) change        *)
(* nothing; without a transcript there is no report.                            *)
generate_report(p) ==
    /\ build[p] = NoBuild /\ builds < MaxBuilds /\ transcript.raw # 0
    /\ builds' = builds + 1
    /\ build' = [build EXCEPT ![p] = StartAt("start", gather_meeting_data)]
    /\ UNCHANGED <<transcript, captures, report, meter, poll, told, mismatched, jobStateVars>>

(* "async": true.  A second one joins the job that runs; the key is taken       *)
(* before the row is written.                                                   *)
_start_async(p) ==
    /\ build[p] = NoBuild /\ builds < MaxBuilds /\ transcript.raw # 0
    /\ builds' = builds + 1
    /\ IF running THEN UNCHANGED <<build, running, ownStored, newStored>>
       ELSE /\ running' = TRUE /\ ownStored' = FALSE /\ newStored' = FALSE
            /\ build' = [build EXCEPT ![p] = StartAt("inserting", gather_meeting_data)]
    /\ UNCHANGED <<transcript, captures, report, meter, poll, told, mismatched, job_row, broken, lost, stuck>>

insert_job(p) ==
    /\ At(p, "inserting")
    /\ job_row' = "running" /\ lost' = FALSE
    /\ build' = [build EXCEPT ![p] = NoBuild, ![Job] = StartAt("start", build[p].raw)]
    /\ UNCHANGED <<transcript, captures, report, builds, meter, poll, told, mismatched,
                   running, ownStored, newStored, broken, stuck>>

(* The insert raises: the key stays taken and nothing will give it back.        *)
insert_job_fails(p) ==
    /\ At(p, "inserting") /\ broken < MaxBroken /\ broken' = broken + 1
    /\ stuck' = TRUE /\ Leave(p)
    /\ UNCHANGED <<transcript, captures, report, builds, meter, poll, told, mismatched,
                   job_row, running, ownStored, newStored, lost>>
----------------------------------------------------------------------------
(* Cleaning is metered on its own, before the gate, and an error of the meter   *)
(* is swallowed; it may be off, or both models fail.                            *)
clean_transcript(b) ==
    /\ At(b, "start") /\ meter' \in {meter, meter + 1} /\ Go(b, "saving")
    /\ UNCHANGED <<transcript, captures, report, builds, poll, told, mismatched, jobStateVars>>

not_cleaned(b) ==
    /\ At(b, "start") /\ Go(b, "gate")
    /\ UNCHANGED <<transcript, captures, report, builds, meter, poll, told, mismatched, jobStateVars>>

(* The text cleaned is the one read at the start, the row is today's.           *)
save_cleaned(b) ==
    /\ At(b, "saving") /\ Go(b, "gate")
    /\ transcript' = IF transcript.raw = 0 THEN transcript ELSE [transcript EXCEPT !.cleaned = build[b].raw]
    /\ mismatched' = (mismatched \/ (transcript.raw \notin {0, build[b].raw}))
    /\ UNCHANGED <<captures, report, builds, meter, poll, told, jobStateVars>>

(* Over the limit the canned page is stored as the report, with no model call;  *)
(* a rehearsal app's own budget refuses instead.                                *)
budget_gate(b) ==
    /\ At(b, "gate")
    /\ \E next \in IF meter >= MeterLimit THEN {"canned", "failed"} ELSE {"model"} : Go(b, next)
    /\ UNCHANGED <<transcript, captures, report, builds, meter, poll, told, mismatched, jobStateVars>>

(* The call is charged before its text is parsed.                               *)
model_answers(b, parses) ==
    /\ At(b, "model") /\ meter' = meter + 1
    /\ Go(b, IF parses THEN "built" ELSE "failed")
    /\ UNCHANGED <<transcript, captures, report, builds, poll, told, mismatched, jobStateVars>>

model_fails(b) ==
    /\ At(b, "model") /\ Go(b, "failed")
    /\ UNCHANGED <<transcript, captures, report, builds, meter, poll, told, mismatched, jobStateVars>>

(* INSERT OR REPLACE INTO meeting_reports.                                       *)
StoreReport(b, kind) ==
    /\ At(b, kind) /\ report' = kind /\ Go(b, "stored")
    /\ ownStored' = (ownStored \/ b = Job) /\ newStored' = (newStored \/ running)
    /\ UNCHANGED <<transcript, captures, builds, meter, poll, told, mismatched, job_row, running, broken, lost, stuck>>

_build_report_response(b) == StoreReport(b, "built")

_build_canned_report_response(b) == StoreReport(b, "canned")

(* A synchronous success clears whatever job row there is, a running job's too. *)
sync_ends(p) ==
    /\ At(p, "stored") \/ At(p, "failed")
    /\ Leave(p)
    /\ job_row' = IF build[p].at = "stored" THEN "none" ELSE job_row
    /\ lost' = (lost /\ build[p].at # "stored")
    /\ newStored' = (newStored \/ (running /\ build[p].at = "stored" /\ job_row # "none"))
    /\ UNCHANGED <<transcript, captures, report, builds, meter, poll, told, mismatched,
                   running, ownStored, broken, stuck>>
----------------------------------------------------------------------------
Pop == running' = FALSE /\ ownStored' = FALSE /\ newStored' = FALSE

(* The row is cleared, or marked if it is still there.                          *)
TellRow(ok) == job_row' = IF ok \/ job_row = "none" THEN "none" ELSE "failed"

(* Faulty variant: the key is given back first.                                 *)
PopsFirst(step, ok) ==
    IF step = 2 THEN TellRow(ok) /\ UNCHANGED <<running, ownStored, newStored>> ELSE Pop /\ UNCHANGED job_row

(* The row first, the key (in the finally) second.                              *)
job_ends(step, ok) ==
    IF step = 1 THEN TellRow(ok) /\ UNCHANGED <<running, ownStored, newStored>> ELSE Pop /\ UNCHANGED job_row

_run_job_tells ==
    /\ At(Job, "stored") \/ At(Job, "failed")
    /\ job_ends(1, build[Job].at = "stored")
    /\ build' = [build EXCEPT ![Job].at = "popping", ![Job].ok = build[Job].at = "stored"]
    /\ UNCHANGED <<transcript, captures, report, builds, meter, poll, told, mismatched, broken, lost, stuck>>

_run_job_cannot_tell ==
    /\ At(Job, "stored") \/ At(Job, "failed")
    /\ broken < MaxBroken /\ broken' = broken + 1
    /\ lost' = (job_row = "running") /\ Leave(Job) /\ Pop
    /\ UNCHANGED <<transcript, captures, report, builds, meter, poll, told, mismatched, job_row, stuck>>

_run_job_pops ==
    /\ At(Job, "popping") /\ Leave(Job) /\ job_ends(2, build[Job].ok)
    /\ UNCHANGED <<transcript, captures, report, builds, meter, poll, told, mismatched, broken, lost, stuck>>

(* A restart: requests, the job, the poll and _RUNNING are gone.                *)
MeetingsRestart ==
    /\ broken < MaxBroken /\ broken' = broken + 1
    /\ build' = [b \in Builders |-> NoBuild] /\ poll' = NoBuild
    /\ lost' = (lost \/ (job_row = "running")) /\ stuck' = FALSE /\ Pop
    /\ UNCHANGED <<transcript, captures, report, builds, meter, told, mismatched, job_row>>
----------------------------------------------------------------------------
(* Faulty variant: a row that says running is believed.                         *)
RowBelieved(inMemory, row) ==
    IF inMemory \/ row = "running" THEN "generating" ELSE IF row = "failed" THEN "failed" ELSE "none"

_job_state(inMemory, row) ==
    IF inMemory THEN "generating" ELSE IF row = "none" THEN "none" ELSE IF row = "running" THEN "lost" ELSE "failed"

(* get_cached_report: the process is asked first ...                            *)
poll_memory ==
    /\ poll = NoBuild
    /\ poll' = [at |-> IF running THEN "answer" ELSE "row", said |-> "generating",
                true |-> stuck \/ \E b \in Builders : At(b, "inserting") \/ (b = Job /\ build[b] # NoBuild)]
    /\ UNCHANGED <<transcript, captures, report, build, builds, meter, told, mismatched, jobStateVars>>

(* ... then the row; a job that began in between makes it look lost.            *)
poll_row ==
    /\ poll # NoBuild /\ poll.at = "row"
    /\ LET said == _job_state(FALSE, job_row) IN
       poll' = [at |-> "answer", said |-> said,
                true |-> CASE said = "lost" -> lost \/ running
                           [] said = "generating" -> running
                           [] OTHER -> TRUE]
    /\ UNCHANGED <<transcript, captures, report, build, builds, meter, told, mismatched, jobStateVars>>

poll_answers ==
    /\ poll # NoBuild /\ poll.at = "answer" /\ poll' = NoBuild
    /\ told' = [said |-> IF poll.said # "none" THEN poll.said ELSE IF report = "none" THEN "404" ELSE "report",
                true |-> poll.true]
    /\ UNCHANGED <<transcript, captures, report, build, builds, meter, mismatched, jobStateVars>>

MeetingsNext ==
    \/ capture_transcript \/ purge_expired_transcripts \/ purge_expired_reports
    \/ \E p \in Posts : \/ generate_report(p) \/ _start_async(p) \/ insert_job(p) \/ insert_job_fails(p)
                        \/ sync_ends(p)
    \/ \E b \in Builders : \/ clean_transcript(b) \/ not_cleaned(b) \/ save_cleaned(b) \/ budget_gate(b)
                           \/ model_fails(b) \/ _build_report_response(b) \/ _build_canned_report_response(b)
                           \/ \E parses \in BOOLEAN : model_answers(b, parses)
    \/ _run_job_tells \/ _run_job_cannot_tell \/ _run_job_pops \/ MeetingsRestart
    \/ poll_memory \/ poll_row \/ poll_answers
----------------------------------------------------------------------------
(* What a poll that read everything at once would be shown.                     *)
Shown ==
    LET state == _job_state(running, job_row) IN
    CASE state = "generating" -> "generating"
      [] state \in {"lost", "failed"} -> "failed"
      [] OTHER -> IF report = "none" THEN "nothing" ELSE "report"

Promise == INSTANCE ReportJob WITH shown <- Shown, kept <- report # "none", own <- ownStored, fresh <- newStored, interruptions <- broken

(* The two records of a job, written and dropped in the order the code does it, *)
(* keep the route's promise: an old report is not shown while a job runs, a job *)
(* is told as failed only if it stored nothing, a finished job shows what is on  *)
(* record, and a poll falls back to "nothing" only because the sweep took the   *)
(* report, to either otherwise only after a restart or a lost write.            *)
ReportPromise == Promise!JobSpec

(* A poll says "generating" only while something will end it (or the insert of  *)
(* the row failed), and "lost to a restart" only if the job did die unseen or a *)
(* new one began between the poll's two reads.                                  *)
PollHonest == told.true

(* The cleaned text beside a transcript was made from that upload, unless a new *)
(* upload came in while the old one was being cleaned.                          *)
CleanedFromRaw == ~mismatched => transcript.cleaned \in {0, transcript.raw}

MeetingsHonest == PollHonest /\ CleanedFromRaw
=============================================================================

--------------------------- MODULE MeetingsProofs ---------------------------
(***************************************************************************)
(* Proofs about a meeting's report, for any number of overlapping requests, *)
(* builds, restarts and lost writes: the two records of its job keep the    *)
(* route's promise (ReportJob), and what a poll says is true.  About the    *)
(* two caches in front of a paid call: Translations, and the day cache of   *)
(* Digest.  And about what a meeting leaves behind: one person's memory in  *)
(* ContextQuilt (Memory), and the meetings shared by link (Shares).         *)
(***************************************************************************)
EXTENDS Meetings, Translations, Digest, Memory, Shares, FiniteSetTheorems, SequenceTheorems,
        TLAPS

-----------------------------------------------------------------------------
(* The report and its job.                                                    *)

MeetingsSpec == MeetingsInit /\ [][MeetingsNext]_meetingVars

InBuild == [at : {"inserting", "start", "saving", "gate", "model", "failed", "built", "canned", "stored", "popping"},
            raw : Nat, ok : BOOLEAN]

MeetingsType ==
    /\ transcript \in [raw : Nat, cleaned : Nat] /\ captures \in Nat /\ meter \in Nat /\ builds \in Nat
    /\ report \in {"none", "built", "canned"} /\ job_row \in {"none", "running", "failed"}
    /\ build \in [Builders -> InBuild \cup {NoBuild}]
    /\ running \in BOOLEAN /\ ownStored \in BOOLEAN /\ newStored \in BOOLEAN
    /\ lost \in BOOLEAN /\ stuck \in BOOLEAN /\ broken \in Nat

Active == build[Job] # NoBuild

(* The key is taken before there is a job and given back after it: whoever      *)
(* inserts a row is alone, and a key that is taken has an owner, unless the      *)
(* insert failed.                                                              *)
OneJob ==
    /\ \A p \in Posts : At(p, "inserting") =>
          running /\ ~Active /\ \A q \in Posts : At(q, "inserting") => q = p
    /\ Active => running
    /\ ~At(Job, "inserting")
    /\ running => stuck \/ Active \/ \E p \in Posts : At(p, "inserting")

(* What is known of the reports stored: of the job's own, until it pops its key, *)
(* and of anybody's.                                                           *)
StoredKnown ==
    /\ newStored => running
    /\ ownStored => newStored
    /\ ownStored => At(Job, "stored") \/ (At(Job, "popping") /\ build[Job].ok)
    /\ At(Job, "stored") => ownStored

(* A job that has told, or whose row a synchronous request erased, leaves no row *)
(* that says running; and a row is erased only after a report was stored.        *)
RowKnown ==
    /\ At(Job, "popping") => job_row # "running" /\ (build[Job].ok => job_row = "none")
    /\ Active /\ job_row = "none" => newStored
    /\ job_row = "running" => lost \/ running

PollKnown ==
    /\ poll # NoBuild /\ poll.at = "answer" => poll.true
    /\ told.true

MeetingsInv == MeetingsType /\ OneJob /\ StoredKnown /\ RowKnown /\ PollKnown /\ CleanedFromRaw

(* The order of the two records at the start: nothing is taken, nothing stored.  *)
LEMMA MeetingsStart == MeetingsInit => MeetingsInv
  <1> SUFFICES ASSUME MeetingsInit PROVE MeetingsInv
    OBVIOUS
  <1>1. \A b \in Builders : \A at : ~At(b, at)
    BY DEF MeetingsInit, At
  <1>2. MeetingsType
    BY DEF MeetingsInit, MeetingsType
  <1>3. ~Active /\ ~running /\ ~newStored /\ ~ownStored /\ job_row = "none"
    BY DEF MeetingsInit, Active, Builders
  <1>4. Job \in Builders /\ Posts \subseteq Builders
    BY DEF Builders
  <1> QED BY <1>1, <1>2, <1>3, <1>4
      DEF MeetingsInit, MeetingsInv, OneJob, StoredKnown, RowKnown, PollKnown, CleanedFromRaw

(* A step that moves one build among the stages before a report is stored leaves  *)
(* everything that is known of the job as it was.                              *)
LEMMA BuildMoves ==
    ASSUME MeetingsInv, NEW b \in Builders, NEW at \in {"start", "saving", "gate", "model", "failed", "built", "canned"},
           build[b] # NoBuild, build[b].at \in {"start", "saving", "gate", "model", "failed", "built", "canned"},
           Go(b, at), UNCHANGED <<report, jobStateVars>>
    PROVE  /\ build' \in [Builders -> InBuild \cup {NoBuild}]
           /\ OneJob' /\ StoredKnown' /\ RowKnown'
  <1> USE MeetingsAssumption DEF MeetingsInv, MeetingsType, Go, jobStateVars
  <1>1. build[b] \in InBuild /\ [build[b] EXCEPT !.at = at] \in InBuild
    BY DEF InBuild
  <1>2. build' = [build EXCEPT ![b] = [build[b] EXCEPT !.at = at]]
    OBVIOUS
  <1>3. build' \in [Builders -> InBuild \cup {NoBuild}]
    BY <1>1, <1>2
  <1>4. /\ build'[b] # NoBuild /\ build'[b].at = at
        /\ \A c \in Builders : c # b => build'[c] = build[c]
    BY <1>1, <1>2, MeetingsAssumption DEF InBuild
  <1>5. /\ \A c \in Builders : At(c, "inserting")' <=> At(c, "inserting")
        /\ \A c \in Builders : At(c, "stored")' <=> At(c, "stored")
        /\ \A c \in Builders : At(c, "popping")' <=> At(c, "popping")
        /\ At(Job, "popping") => build'[Job].ok = build[Job].ok
        /\ Active' <=> Active
    BY <1>4 DEF At, Active, Builders
  <1>6. Job \in Builders /\ Posts \subseteq Builders
    BY DEF Builders
  <1> HIDE DEF Go
  <1>7. OneJob'
    BY <1>5, <1>6 DEF OneJob
  <1>8. StoredKnown'
    BY <1>5, <1>6 DEF StoredKnown
  <1>9. RowKnown'
    BY <1>5, <1>6 DEF RowKnown
  <1> QED BY <1>3, <1>7, <1>8, <1>9

(* Every step of a request, of the job, of a poll and of the process.            *)
LEMMA MeetingsStep == MeetingsInv /\ [MeetingsNext]_meetingVars => MeetingsInv'
  <1> SUFFICES ASSUME MeetingsInv, [MeetingsNext]_meetingVars PROVE MeetingsInv'
    OBVIOUS
  <1> USE MeetingsAssumption
  <1>0. MeetingsType /\ OneJob /\ StoredKnown /\ RowKnown /\ PollKnown /\ CleanedFromRaw
    BY DEF MeetingsInv
  <1>a. Job \in Builders /\ Posts \subseteq Builders
    BY DEF Builders
  <1>p. ASSUME UNCHANGED <<poll, told>> PROVE PollKnown'
    BY <1>0, <1>p DEF PollKnown
  <1>t. ASSUME UNCHANGED <<transcript, mismatched>> PROVE CleanedFromRaw'
    BY <1>0, <1>t DEF CleanedFromRaw
  <1>j. ASSUME UNCHANGED <<build, jobStateVars>> PROVE OneJob' /\ StoredKnown' /\ RowKnown'
    BY <1>0, <1>j DEF jobStateVars, OneJob, StoredKnown, RowKnown, At, Active
  <1>1. CASE capture_transcript
    <2>1. MeetingsType' /\ CleanedFromRaw'
      BY <1>0, <1>1 DEF capture_transcript, captured, MeetingsType, CleanedFromRaw, jobStateVars
    <2> QED BY <1>1, <1>j, <1>p, <2>1 DEF capture_transcript, MeetingsInv
  <1>2. CASE purge_expired_transcripts
    <2>1. MeetingsType' /\ CleanedFromRaw'
      BY <1>0, <1>2 DEF purge_expired_transcripts, MeetingsType, CleanedFromRaw, jobStateVars
    <2> QED BY <1>2, <1>j, <1>p, <2>1 DEF purge_expired_transcripts, MeetingsInv
  <1>22. CASE purge_expired_reports
    <2>1. UNCHANGED <<transcript, build, poll, told, mismatched, jobStateVars>>
      BY <1>22 DEF purge_expired_reports
    <2>2. MeetingsType'
      BY <1>0, <1>22 DEF purge_expired_reports, MeetingsType, jobStateVars
    <2> QED BY <1>j, <1>p, <1>t, <2>1, <2>2 DEF MeetingsInv
  <1>3. ASSUME NEW p \in Posts, generate_report(p) PROVE MeetingsInv'
    <2>1. /\ StartAt("start", transcript.raw) \in InBuild /\ build[p] = NoBuild /\ p # Job
          /\ build' = [build EXCEPT ![p] = StartAt("start", transcript.raw)]
          /\ UNCHANGED <<report, jobStateVars>>
      BY <1>0, <1>3 DEF generate_report, gather_meeting_data, StartAt, InBuild, MeetingsType
    <2>2. /\ build' \in [Builders -> InBuild \cup {NoBuild}] /\ build'[Job] = build[Job]
          /\ build'[p].at = "start" /\ \A c \in Builders : c # p => build'[c] = build[c]
      BY <1>0, <1>a, <2>1 DEF MeetingsType, StartAt
    <2>3. /\ Active' <=> Active
          /\ \A c \in Builders : /\ At(c, "inserting")' <=> At(c, "inserting")
                                 /\ At(c, "stored")' <=> At(c, "stored")
                                 /\ At(c, "popping")' <=> At(c, "popping")
      BY <1>a, <2>1, <2>2 DEF Active, At
    <2>4. MeetingsType'
      BY <1>0, <1>3, <2>2 DEF generate_report, MeetingsType, jobStateVars
    <2>5. OneJob' /\ StoredKnown' /\ RowKnown'
      BY <1>0, <1>a, <2>1, <2>2, <2>3 DEF OneJob, StoredKnown, RowKnown, jobStateVars
    <2> QED BY <1>3, <1>p, <1>t, <2>4, <2>5 DEF generate_report, MeetingsInv
  <1>4. ASSUME NEW p \in Posts, _start_async(p) PROVE MeetingsInv'
    <2>1. CASE running
      <3>1. UNCHANGED <<build, report, jobStateVars>>
        BY <1>4, <2>1 DEF _start_async, jobStateVars
      <3>2. MeetingsType'
        BY <1>0, <1>4, <3>1 DEF _start_async, MeetingsType, jobStateVars
      <3> QED BY <1>4, <1>j, <1>p, <1>t, <3>1, <3>2 DEF _start_async, MeetingsInv
    <2>2. CASE ~running
      <3> DEFINE mine == StartAt("inserting", transcript.raw)
      <3>1. /\ mine \in InBuild /\ mine.at = "inserting" /\ build[p] = NoBuild /\ p # Job
            /\ build' = [build EXCEPT ![p] = mine] /\ running' = TRUE /\ ownStored' = FALSE /\ newStored' = FALSE
            /\ UNCHANGED <<report, job_row, broken, lost, stuck>>
        BY <1>0, <1>4, <2>2 DEF _start_async, gather_meeting_data, StartAt, InBuild, MeetingsType
      <3> HIDE DEF mine
      <3>2. /\ build' \in [Builders -> InBuild \cup {NoBuild}] /\ build'[Job] = build[Job]
            /\ build'[p] = mine /\ \A c \in Builders : c # p => build'[c] = build[c]
        BY <1>0, <1>a, <3>1 DEF MeetingsType
      <3>3. ~Active /\ \A q \in Posts : ~At(q, "inserting")
        BY <1>0, <2>2 DEF OneJob
      <3>4. MeetingsType'
        <4>1. running' \in BOOLEAN /\ ownStored' \in BOOLEAN /\ newStored' \in BOOLEAN
          BY <3>1, Zenon
        <4> QED BY <1>0, <1>4, <2>2, <3>1, <3>2, <4>1 DEF _start_async, MeetingsType
      <3>5. OneJob'
        BY <1>0, <1>a, <3>1, <3>2, <3>3 DEF OneJob, Active, At, InBuild
      <3>6. StoredKnown' /\ RowKnown'
        BY <1>0, <1>a, <3>1, <3>2, <3>3 DEF StoredKnown, RowKnown, Active, At
      <3> QED BY <1>4, <1>p, <1>t, <3>4, <3>5, <3>6 DEF _start_async, MeetingsInv
    <2> QED BY <2>1, <2>2
  <1>5. ASSUME NEW p \in Posts, insert_job(p) PROVE MeetingsInv'
    <2> DEFINE mine == StartAt("start", build[p].raw)
    <2>1. /\ At(p, "inserting") /\ build[p] \in InBuild /\ mine \in InBuild /\ mine.at = "start" /\ p # Job
          /\ build' = [build EXCEPT ![p] = NoBuild, ![Job] = mine] /\ job_row' = "running" /\ lost' = FALSE
          /\ UNCHANGED <<report, running, ownStored, newStored, broken, stuck>>
      BY <1>0, <1>5, <1>a DEF insert_job, StartAt, InBuild, MeetingsType, At
    <2> HIDE DEF mine
    <2>2. /\ build' \in [Builders -> InBuild \cup {NoBuild}] /\ build'[Job] = mine /\ build'[p] = NoBuild
          /\ \A c \in Builders : c \notin {p, Job} => build'[c] = build[c]
      BY <1>0, <1>a, <2>1 DEF MeetingsType
    <2>3. /\ running /\ ~Active /\ ~ownStored /\ \A q \in Posts : At(q, "inserting") => q = p
      BY <1>0, <2>1 DEF OneJob, StoredKnown, Active, At
    <2>4. MeetingsType'
      BY <1>0, <1>5, <2>1, <2>2 DEF insert_job, MeetingsType
    <2>5. mine # NoBuild
      BY <2>1 DEF InBuild
    <2>6. OneJob'
      BY <1>0, <1>a, <2>1, <2>2, <2>3, <2>5 DEF OneJob, Active, At
    <2>7. StoredKnown' /\ RowKnown'
      BY <1>0, <1>a, <2>1, <2>2, <2>3 DEF StoredKnown, RowKnown, Active, At
    <2> QED BY <1>5, <1>p, <1>t, <2>4, <2>6, <2>7 DEF insert_job, MeetingsInv
  <1>6. ASSUME NEW p \in Posts, insert_job_fails(p) PROVE MeetingsInv'
    <2>1. /\ At(p, "inserting") /\ p # Job /\ build' = [build EXCEPT ![p] = NoBuild] /\ stuck' = TRUE
          /\ UNCHANGED <<report, job_row, running, ownStored, newStored, lost>>
      BY <1>6 DEF insert_job_fails, Leave
    <2>2. /\ build' \in [Builders -> InBuild \cup {NoBuild}] /\ build'[Job] = build[Job] /\ build'[p] = NoBuild
          /\ \A c \in Builders : c # p => build'[c] = build[c]
      BY <1>0, <1>a, <2>1 DEF MeetingsType
    <2>3. MeetingsType'
      BY <1>0, <1>6, <2>2 DEF insert_job_fails, MeetingsType
    <2>4. OneJob' /\ StoredKnown' /\ RowKnown'
      BY <1>0, <1>a, <2>1, <2>2 DEF OneJob, StoredKnown, RowKnown, Active, At
    <2> QED BY <1>6, <1>p, <1>t, <2>3, <2>4 DEF insert_job_fails, MeetingsInv
  <1>7. ASSUME NEW p \in Posts, sync_ends(p) PROVE MeetingsInv'
    <2>1. /\ build[p] # NoBuild /\ build[p].at \in {"stored", "failed"} /\ p # Job
          /\ build' = [build EXCEPT ![p] = NoBuild]
          /\ UNCHANGED <<report, running, ownStored, broken, stuck>>
      BY <1>7 DEF sync_ends, Leave, At
    <2>2. /\ build' \in [Builders -> InBuild \cup {NoBuild}] /\ build'[Job] = build[Job] /\ build'[p] = NoBuild
          /\ \A c \in Builders : c # p => build'[c] = build[c]
      BY <1>0, <1>a, <2>1 DEF MeetingsType
    <2>3. MeetingsType'
      BY <1>0, <1>7, <2>2 DEF sync_ends, MeetingsType
    <2>4. /\ \A c \in Builders : c # p => \A at : At(c, at)' <=> At(c, at)
          /\ \A at : ~At(p, at)'
          /\ Active' <=> Active
          /\ ~At(p, "inserting")
      BY <1>a, <2>1, <2>2 DEF At, Active
    <2>5. OneJob'
      BY <1>0, <1>a, <2>1, <2>4 DEF OneJob
    <2>6. CASE build[p].at = "stored"
      <3>1. At(p, "stored") /\ job_row' = "none" /\ ~lost'
            /\ newStored' = (newStored \/ (running /\ job_row # "none"))
        BY <1>0, <1>7, <1>a, <2>1, <2>6 DEF sync_ends, At, StoredKnown
      <3>2. StoredKnown'
        BY <1>0, <1>a, <2>1, <2>2, <2>4, <3>1 DEF StoredKnown
      <3>3. RowKnown'
        BY <1>0, <1>a, <2>1, <2>2, <2>4, <3>1 DEF RowKnown, OneJob
      <3> QED BY <1>7, <1>p, <1>t, <2>3, <2>5, <3>2, <3>3 DEF sync_ends, MeetingsInv
    <2>7. CASE build[p].at # "stored"
      <3>1. job_row' = job_row /\ lost' = lost /\ newStored' = newStored
        BY <1>0, <1>7, <2>7 DEF sync_ends, MeetingsType
      <3>2. StoredKnown' /\ RowKnown'
        BY <1>0, <1>a, <2>1, <2>2, <2>4, <3>1 DEF StoredKnown, RowKnown
      <3> QED BY <1>7, <1>p, <1>t, <2>3, <2>5, <3>2 DEF sync_ends, MeetingsInv
    <2> QED BY <2>6, <2>7
  <1>8. ASSUME NEW b \in Builders, clean_transcript(b) PROVE MeetingsInv'
    <2>1. At(b, "start") /\ Go(b, "saving") /\ UNCHANGED <<report, jobStateVars>>
      BY <1>8 DEF clean_transcript
    <2>2. build' \in [Builders -> InBuild \cup {NoBuild}] /\ OneJob' /\ StoredKnown' /\ RowKnown'
      BY <2>1, BuildMoves DEF At
    <2>3. MeetingsType'
      BY <1>0, <1>8, <2>2 DEF clean_transcript, MeetingsType, jobStateVars
    <2> QED BY <1>8, <1>p, <1>t, <2>2, <2>3 DEF clean_transcript, MeetingsInv
  <1>9. ASSUME NEW b \in Builders, not_cleaned(b) PROVE MeetingsInv'
    <2>1. At(b, "start") /\ Go(b, "gate") /\ UNCHANGED <<report, jobStateVars>>
      BY <1>9 DEF not_cleaned
    <2>2. build' \in [Builders -> InBuild \cup {NoBuild}] /\ OneJob' /\ StoredKnown' /\ RowKnown'
      BY <2>1, BuildMoves DEF At
    <2>3. MeetingsType'
      BY <1>0, <1>9, <2>2 DEF not_cleaned, MeetingsType, jobStateVars
    <2> QED BY <1>9, <1>p, <1>t, <2>2, <2>3 DEF not_cleaned, MeetingsInv
  <1>10. ASSUME NEW b \in Builders, save_cleaned(b) PROVE MeetingsInv'
    <2>1. At(b, "saving") /\ Go(b, "gate") /\ UNCHANGED <<report, jobStateVars>>
      BY <1>10 DEF save_cleaned
    <2>2. build' \in [Builders -> InBuild \cup {NoBuild}] /\ OneJob' /\ StoredKnown' /\ RowKnown'
      BY <2>1, BuildMoves DEF At
    <2>3. build[b].raw \in Nat
      BY <1>0, <2>1 DEF At, MeetingsType, InBuild
    <2>4. MeetingsType' /\ CleanedFromRaw'
      BY <1>0, <1>10, <2>2, <2>3 DEF save_cleaned, MeetingsType, CleanedFromRaw, jobStateVars
    <2> QED BY <1>10, <1>p, <2>2, <2>4 DEF save_cleaned, MeetingsInv
  <1>11. ASSUME NEW b \in Builders, budget_gate(b) PROVE MeetingsInv'
    <2>1. PICK next \in {"canned", "failed", "model"} : Go(b, next)
      BY <1>11 DEF budget_gate
    <2>2. At(b, "gate") /\ UNCHANGED <<report, jobStateVars>>
      BY <1>11 DEF budget_gate
    <2>3. build' \in [Builders -> InBuild \cup {NoBuild}] /\ OneJob' /\ StoredKnown' /\ RowKnown'
      BY <2>1, <2>2, BuildMoves DEF At
    <2>4. MeetingsType'
      BY <1>0, <1>11, <2>3 DEF budget_gate, MeetingsType, jobStateVars
    <2> QED BY <1>11, <1>p, <1>t, <2>3, <2>4 DEF budget_gate, MeetingsInv
  <1>12. ASSUME NEW b \in Builders, NEW parses \in BOOLEAN, model_answers(b, parses) PROVE MeetingsInv'
    <2>1. At(b, "model") /\ UNCHANGED <<report, jobStateVars>> /\ (Go(b, "built") \/ Go(b, "failed"))
      BY <1>12 DEF model_answers
    <2>2. build' \in [Builders -> InBuild \cup {NoBuild}] /\ OneJob' /\ StoredKnown' /\ RowKnown'
      BY <2>1, BuildMoves DEF At
    <2>3. MeetingsType'
      BY <1>0, <1>12, <2>2 DEF model_answers, MeetingsType, jobStateVars
    <2> QED BY <1>12, <1>p, <1>t, <2>2, <2>3 DEF model_answers, MeetingsInv
  <1>13. ASSUME NEW b \in Builders, model_fails(b) PROVE MeetingsInv'
    <2>1. At(b, "model") /\ Go(b, "failed") /\ UNCHANGED <<report, jobStateVars>>
      BY <1>13 DEF model_fails
    <2>2. build' \in [Builders -> InBuild \cup {NoBuild}] /\ OneJob' /\ StoredKnown' /\ RowKnown'
      BY <2>1, BuildMoves DEF At
    <2>3. MeetingsType'
      BY <1>0, <1>13, <2>2 DEF model_fails, MeetingsType, jobStateVars
    <2> QED BY <1>13, <1>p, <1>t, <2>2, <2>3 DEF model_fails, MeetingsInv
  <1>14. ASSUME NEW b \in Builders, NEW kind \in {"built", "canned"}, StoreReport(b, kind) PROVE MeetingsInv'
    <2>1. /\ build[b] # NoBuild /\ build[b].at = kind /\ report' = kind
          /\ build' = [build EXCEPT ![b] = [build[b] EXCEPT !.at = "stored"]]
          /\ ownStored' = (ownStored \/ b = Job) /\ newStored' = (newStored \/ running)
          /\ UNCHANGED <<job_row, running, broken, lost, stuck>>
      BY <1>14 DEF StoreReport, At, Go
    <2>2. build[b] \in InBuild /\ [build[b] EXCEPT !.at = "stored"] \in InBuild
      BY <1>0, <2>1 DEF InBuild, MeetingsType
    <2>3. /\ build' \in [Builders -> InBuild \cup {NoBuild}] /\ build'[b] # NoBuild /\ build'[b].at = "stored"
          /\ \A c \in Builders : c # b => build'[c] = build[c]
      BY <1>0, <1>a, <2>1, <2>2 DEF MeetingsType, InBuild
    <2>4. /\ \A c \in Builders : c # b => \A at : At(c, at)' <=> At(c, at)
          /\ ~At(b, "inserting")' /\ ~At(b, "inserting") /\ ~At(b, "stored") /\ ~At(b, "popping")
          /\ At(b, "stored")' /\ ~At(b, "popping")'
          /\ Active' <=> Active
          /\ b = Job => Active
      BY <1>a, <2>1, <2>3 DEF At, Active
    <2>5. MeetingsType'
      BY <1>0, <1>14, <2>1, <2>3 DEF StoreReport, MeetingsType
    <2>6. OneJob'
      BY <1>0, <1>a, <2>1, <2>4 DEF OneJob
    <2>7. StoredKnown'
      BY <1>0, <1>a, <2>1, <2>3, <2>4 DEF StoredKnown, OneJob
    <2>8. RowKnown'
      BY <1>0, <1>a, <2>1, <2>3, <2>4 DEF RowKnown, OneJob
    <2> QED BY <1>14, <1>p, <1>t, <2>5, <2>6, <2>7, <2>8 DEF StoreReport, MeetingsInv
  <1>15. CASE _run_job_tells
    <2>1. /\ build[Job] # NoBuild /\ build[Job].at \in {"stored", "failed"}
          /\ build' = [build EXCEPT ![Job] = [build[Job] EXCEPT !.at = "popping", !.ok = (build[Job].at = "stored")]]
          /\ job_row' = IF build[Job].at = "stored" \/ job_row = "none" THEN "none" ELSE "failed"
          /\ UNCHANGED <<report, running, ownStored, newStored, broken, lost, stuck>>
      BY <1>15 DEF _run_job_tells, At, job_ends, TellRow
    <2>2. build[Job] \in InBuild
          /\ [build[Job] EXCEPT !.at = "popping", !.ok = (build[Job].at = "stored")] \in InBuild
      BY <1>0, <1>a, <2>1 DEF InBuild, MeetingsType
    <2>3. /\ build' \in [Builders -> InBuild \cup {NoBuild}] /\ build'[Job] # NoBuild /\ build'[Job].at = "popping"
          /\ build'[Job].ok = (build[Job].at = "stored")
          /\ \A c \in Builders : c # Job => build'[c] = build[c]
      BY <1>0, <1>a, <2>1, <2>2 DEF MeetingsType, InBuild
    <2>4. /\ \A c \in Builders : c # Job => \A at : At(c, at)' <=> At(c, at)
          /\ Active /\ Active' /\ ~At(Job, "popping") /\ At(Job, "popping")' /\ ~At(Job, "stored")'
          /\ ~At(Job, "inserting")'
          /\ At(Job, "stored") <=> build[Job].at = "stored"
      BY <1>a, <2>1, <2>3 DEF At, Active
    <2>5. MeetingsType'
      BY <1>0, <1>15, <2>1, <2>3 DEF _run_job_tells, MeetingsType
    <2>6. OneJob'
      BY <1>0, <1>a, <2>1, <2>4 DEF OneJob
    <2>7. StoredKnown'
      BY <1>0, <1>a, <2>1, <2>3, <2>4 DEF StoredKnown
    <2>8. RowKnown'
      BY <1>0, <1>a, <2>1, <2>3, <2>4 DEF RowKnown, OneJob, StoredKnown
    <2> QED BY <1>15, <1>p, <1>t, <2>5, <2>6, <2>7, <2>8 DEF _run_job_tells, MeetingsInv
  <1>16. CASE _run_job_cannot_tell \/ _run_job_pops
    <2>1. /\ build' = [build EXCEPT ![Job] = NoBuild] /\ Active
          /\ running' = FALSE /\ ownStored' = FALSE /\ newStored' = FALSE
          /\ UNCHANGED <<report, job_row, stuck>>
          /\ broken' \in {broken, broken + 1} /\ lost' \in BOOLEAN
          /\ job_row = "running" => lost'
      <3>1. CASE _run_job_cannot_tell
        BY <1>0, <3>1 DEF _run_job_cannot_tell, Leave, Pop, At, Active
      <3>2. CASE _run_job_pops
        <4>1. job_ends(2, build[Job].ok) /\ At(Job, "popping") /\ Leave(Job) /\ UNCHANGED <<report, broken, lost, stuck>>
          BY <3>2 DEF _run_job_pops
        <4>2. Pop /\ UNCHANGED job_row
          BY <4>1 DEF job_ends
        <4> QED BY <1>0, <4>1, <4>2 DEF Leave, Pop, At, Active, RowKnown, MeetingsType
      <3> QED BY <1>16, <3>1, <3>2
    <2>2. /\ build' \in [Builders -> InBuild \cup {NoBuild}] /\ build'[Job] = NoBuild
          /\ \A c \in Builders : c # Job => build'[c] = build[c]
      BY <1>0, <1>a, <2>1 DEF MeetingsType
    <2>3. \A p \in Posts : ~At(p, "inserting") /\ ~At(p, "inserting")'
      BY <1>0, <1>a, <2>1, <2>2 DEF OneJob, At
    <2>4. MeetingsType'
      <3>1. UNCHANGED <<transcript, captures, report, builds, meter>>
        BY <1>16 DEF _run_job_cannot_tell, _run_job_pops
      <3>2. running' \in BOOLEAN /\ ownStored' \in BOOLEAN /\ newStored' \in BOOLEAN
        BY <2>1, Zenon
      <3> QED BY <1>0, <2>1, <2>2, <3>1, <3>2 DEF MeetingsType
    <2>5. OneJob'
      BY <1>0, <1>a, <2>1, <2>2, <2>3 DEF OneJob, Active, At
    <2>6. StoredKnown' /\ RowKnown'
      BY <1>0, <1>a, <2>1, <2>2 DEF StoredKnown, RowKnown, Active, At
    <2> QED BY <1>16, <1>p, <1>t, <2>4, <2>5, <2>6 DEF _run_job_cannot_tell, _run_job_pops, MeetingsInv
  <1>17. CASE MeetingsRestart
    <2>1. /\ build' = [b \in Builders |-> NoBuild] /\ poll' = NoBuild /\ told' = told
          /\ running' = FALSE /\ ownStored' = FALSE /\ newStored' = FALSE /\ stuck' = FALSE
          /\ lost' = (lost \/ (job_row = "running")) /\ UNCHANGED <<report, job_row>>
      BY <1>17 DEF MeetingsRestart, Pop
    <2>2. ~Active' /\ \A b \in Builders : \A at : ~At(b, at)'
      BY <1>a, <2>1 DEF Active, At
    <2>3. MeetingsType'
      <3>1. UNCHANGED <<transcript, captures, report, builds, meter>> /\ broken' = broken + 1 /\ lost' \in BOOLEAN
        BY <1>17 DEF MeetingsRestart
      <3>2. build' \in [Builders -> InBuild \cup {NoBuild}]
        BY <2>1
      <3>3. running' \in BOOLEAN /\ ownStored' \in BOOLEAN /\ newStored' \in BOOLEAN /\ stuck' \in BOOLEAN
        BY <2>1, Zenon
      <3> QED BY <1>0, <2>1, <3>1, <3>2, <3>3 DEF MeetingsType
    <2>4. OneJob' /\ StoredKnown' /\ RowKnown'
      BY <1>0, <1>a, <2>1, <2>2 DEF OneJob, StoredKnown, RowKnown
    <2>5. PollKnown'
      BY <1>0, <2>1 DEF PollKnown
    <2> QED BY <1>17, <1>t, <2>3, <2>4, <2>5 DEF MeetingsRestart, MeetingsInv
  <1>18. CASE poll_memory
    <2>1. PollKnown'
      <3>1. running => stuck \/ \E b \in Builders : At(b, "inserting") \/ (b = Job /\ build[b] # NoBuild)
        BY <1>0, <1>a DEF OneJob, Active
      <3> QED BY <1>0, <1>18, <3>1 DEF poll_memory, PollKnown
    <2>2. MeetingsType'
      BY <1>0, <1>18 DEF poll_memory, MeetingsType, jobStateVars
    <2> QED BY <1>18, <1>j, <1>t, <2>1, <2>2 DEF poll_memory, MeetingsInv
  <1>19. CASE poll_row
    <2>1. PollKnown'
      BY <1>0, <1>19 DEF poll_row, _job_state, PollKnown, RowKnown, MeetingsType
    <2>2. MeetingsType'
      BY <1>0, <1>19 DEF poll_row, MeetingsType, jobStateVars
    <2> QED BY <1>19, <1>j, <1>t, <2>1, <2>2 DEF poll_row, MeetingsInv
  <1>20. CASE poll_answers
    <2>1. PollKnown'
      BY <1>0, <1>20 DEF poll_answers, PollKnown
    <2>2. MeetingsType'
      BY <1>0, <1>20 DEF poll_answers, MeetingsType, jobStateVars
    <2> QED BY <1>20, <1>j, <1>t, <2>1, <2>2 DEF poll_answers, MeetingsInv
  <1>21. CASE UNCHANGED meetingVars
    <2>1. UNCHANGED <<transcript, captures, report, build, builds, meter, poll, told, mismatched, jobStateVars>>
      BY <1>21 DEF meetingVars, jobStateVars
    <2>2. MeetingsType'
      BY <1>0, <2>1 DEF MeetingsType, jobStateVars
    <2> QED BY <1>j, <1>p, <1>t, <2>1, <2>2 DEF MeetingsInv
  <1> QED BY <1>1, <1>2, <1>3, <1>4, <1>5, <1>6, <1>7, <1>8, <1>9, <1>10, <1>11, <1>12, <1>13, <1>14, <1>15, <1>16,
             <1>17, <1>18, <1>19, <1>20, <1>21, <1>22
          DEF MeetingsNext, _build_report_response, _build_canned_report_response

(* Whatever requests, jobs, polls, restarts and lost writes interleave: a poll is *)
(* told what is true of the job it asks about, and the cleaned text beside a       *)
(* transcript is that upload's, unless another came in while it was cleaned.       *)
THEOREM MeetingsAreHonest == MeetingsSpec => []MeetingsHonest
  <1>1. MeetingsInv => MeetingsHonest
    BY DEF MeetingsInv, PollKnown, MeetingsHonest, PollHonest
  <1> QED BY <1>1, MeetingsStart, MeetingsStep, PTL DEF MeetingsSpec
-----------------------------------------------------------------------------
(* The route's promise.                                                      *)

(* The answer the two records give together.                                  *)
ShownBy(inMemory, row, stored) ==
    IF inMemory THEN "generating"
    ELSE IF row # "none" THEN "failed" ELSE IF stored = "none" THEN "nothing" ELSE "report"

(* A poll shows what the two records say, before a step and after it.             *)
LEMMA ShownByRecords ==
    /\ MeetingsType => Shown = ShownBy(running, job_row, report)
    /\ MeetingsType' => Shown' = ShownBy(running', job_row', report')
  BY DEF MeetingsType, Shown, ShownBy, _job_state

(* A step that leaves the promise's four variables alone.                      *)
LEMMA PromiseStutters ==
    ASSUME MeetingsType, MeetingsType', UNCHANGED <<running, job_row, report, ownStored, newStored, broken>>
    PROVE  [Promise!JobNext]_Promise!jobVars
  BY ShownByRecords DEF ShownBy, Promise!jobVars

(* Every step of the meeting is a step of the promise, or none of it.           *)
LEMMA PromiseStep ==
    MeetingsInv /\ MeetingsInv' /\ [MeetingsNext]_meetingVars => [Promise!JobNext]_Promise!jobVars
  <1> SUFFICES ASSUME MeetingsInv, MeetingsInv', [MeetingsNext]_meetingVars
               PROVE  [Promise!JobNext]_Promise!jobVars
    OBVIOUS
  <1> USE MeetingsAssumption
  <1>0. MeetingsType /\ OneJob /\ StoredKnown /\ RowKnown /\ MeetingsType'
    BY DEF MeetingsInv
  <1>s. Shown = ShownBy(running, job_row, report) /\ Shown' = ShownBy(running', job_row', report')
    BY <1>0, ShownByRecords
  <1>a. Job \in Builders /\ Posts \subseteq Builders
    BY DEF Builders
  <1>u. ASSUME UNCHANGED <<running, job_row, report, ownStored, newStored, broken>>
        PROVE  [Promise!JobNext]_Promise!jobVars
    BY <1>0, <1>u, PromiseStutters
  <1>1. CASE capture_transcript \/ purge_expired_transcripts \/ poll_memory \/ poll_row \/ poll_answers
    BY <1>1, <1>u DEF capture_transcript, purge_expired_transcripts, poll_memory, poll_row, poll_answers, jobStateVars
  <1>2. ASSUME NEW p \in Posts, generate_report(p) PROVE [Promise!JobNext]_Promise!jobVars
    BY <1>2, <1>u DEF generate_report, jobStateVars
  <1>3. ASSUME NEW p \in Posts, _start_async(p) PROVE [Promise!JobNext]_Promise!jobVars
    <2>1. CASE running
      BY <1>3, <1>u, <2>1 DEF _start_async, jobStateVars
    <2>2. CASE ~running
      <3>1. running' /\ ~ownStored' /\ ~newStored' /\ UNCHANGED <<report, broken>>
        BY <1>3, <2>2 DEF _start_async
      <3>2. Promise!Start
        BY <1>s, <2>2, <3>1 DEF Promise!Start, ShownBy
      <3> QED BY <3>2 DEF Promise!JobNext
    <2> QED BY <2>1, <2>2
  (* The row of a job whose key is taken changes nothing that is shown.          *)
  <1>4. ASSUME NEW p \in Posts, insert_job(p) PROVE [Promise!JobNext]_Promise!jobVars
    <2>1. running /\ UNCHANGED <<running, report, ownStored, newStored, broken>>
      BY <1>0, <1>4 DEF insert_job, OneJob
    <2>2. Shown' = Shown
      BY <1>s, <2>1 DEF ShownBy
    <2> QED BY <2>1, <2>2 DEF Promise!jobVars
  <1>5. ASSUME NEW p \in Posts, insert_job_fails(p) PROVE [Promise!JobNext]_Promise!jobVars
    <2>1. running /\ UNCHANGED <<running, report, ownStored, newStored>> /\ broken' = broken + 1
      BY <1>0, <1>5 DEF insert_job_fails, OneJob
    <2>2. Shown' = Shown
      BY <1>s, <2>1 DEF ShownBy
    <2>3. Promise!Interrupt
      BY <2>1, <2>2 DEF Promise!Interrupt
    <2> QED BY <2>3 DEF Promise!JobNext
  (* A synchronous request that ends erases whatever row there is: beside a job    *)
  (* it counts as that job's report, without one it is shown at once.             *)
  <1>6. ASSUME NEW p \in Posts, sync_ends(p) PROVE [Promise!JobNext]_Promise!jobVars
    <2>1. UNCHANGED <<report, running, ownStored, broken>>
      BY <1>6 DEF sync_ends
    <2>2. CASE build[p].at # "stored"
      <3>1. job_row' = job_row /\ newStored' = newStored
        BY <1>0, <1>6, <2>2 DEF sync_ends, MeetingsType
      <3> QED BY <1>u, <2>1, <3>1
    <2>3. CASE build[p].at = "stored"
      <3>1. At(p, "stored") /\ job_row' = "none" /\ newStored' = (newStored \/ (running /\ job_row # "none"))
        BY <1>6, <2>3 DEF sync_ends, At
      <3>3. CASE running /\ newStored' # newStored
        <4>1. Promise!Store
          BY <1>0, <1>s, <2>1, <3>1, <3>3 DEF Promise!Store, ShownBy, MeetingsType
        <4> QED BY <4>1 DEF Promise!JobNext
      <3>4. CASE running /\ newStored' = newStored
        <4>1. Shown' = Shown
          BY <1>s, <2>1, <3>4 DEF ShownBy
        <4> QED BY <2>1, <3>4, <4>1 DEF Promise!jobVars
      <3>5. CASE ~running
        <4>1. newStored' = newStored
          BY <1>0, <3>1, <3>5 DEF MeetingsType
        <4>2. CASE job_row = "none"
          BY <1>u, <2>1, <3>1, <4>1, <4>2
        <4>3. CASE job_row # "none"
          <5>1. Promise!TakeBack
            BY <1>0, <1>s, <2>1, <3>1, <3>5, <4>1, <4>3
            DEF Promise!TakeBack, Promise!OnRecord, ShownBy, MeetingsType
          <5> QED BY <5>1 DEF Promise!JobNext
        <4> QED BY <4>2, <4>3
      <3> QED BY <3>3, <3>4, <3>5
    <2> QED BY <2>2, <2>3
  <1>7. ASSUME NEW b \in Builders,
               \/ clean_transcript(b) \/ not_cleaned(b) \/ save_cleaned(b) \/ budget_gate(b) \/ model_fails(b)
               \/ \E parses \in BOOLEAN : model_answers(b, parses)
        PROVE  [Promise!JobNext]_Promise!jobVars
    BY <1>7, <1>u
    DEF clean_transcript, not_cleaned, save_cleaned, budget_gate, model_fails, model_answers, jobStateVars
  (* A report that is stored while a key is taken is that job's or one beside it.  *)
  <1>8. ASSUME NEW b \in Builders, NEW kind \in {"built", "canned"}, StoreReport(b, kind)
        PROVE  [Promise!JobNext]_Promise!jobVars
    <2>1. /\ At(b, kind) /\ report' = kind /\ UNCHANGED <<job_row, running, broken>>
          /\ ownStored' = (ownStored \/ b = Job) /\ newStored' = (newStored \/ running)
      BY <1>8 DEF StoreReport
    <2>2. CASE running
      <3>1. Promise!Store
        BY <1>s, <2>1, <2>2 DEF Promise!Store, ShownBy
      <3> QED BY <3>1 DEF Promise!JobNext
    <2>3. CASE ~running
      <3>1. b # Job
        BY <1>0, <2>1, <2>3 DEF OneJob, At, Active
      <3>2. ownStored' = ownStored /\ newStored' = newStored
        BY <1>0, <2>1, <2>3, <3>1 DEF MeetingsType
      <3>3. Promise!Direct
        BY <1>0, <1>s, <2>1, <2>3, <3>2 DEF Promise!Direct, ShownBy, MeetingsType
      <3> QED BY <3>3 DEF Promise!JobNext
    <2> QED BY <2>2, <2>3
  <1>9. CASE _run_job_tells
    <2>1. running /\ UNCHANGED <<running, report, ownStored, newStored, broken>>
      BY <1>0, <1>9 DEF _run_job_tells, job_ends, OneJob, At, Active
    <2>2. Shown' = Shown
      BY <1>s, <2>1 DEF ShownBy
    <2> QED BY <2>1, <2>2 DEF Promise!jobVars
  <1>10. CASE _run_job_cannot_tell \/ MeetingsRestart
    <2>1. ~running' /\ ownStored' = FALSE /\ newStored' = FALSE /\ broken' = broken + 1
      BY <1>10 DEF _run_job_cannot_tell, MeetingsRestart, Pop
    <2>2. UNCHANGED report /\ Shown' \in {"failed", Promise!OnRecord}
      BY <1>0, <1>10, <1>s, <2>1
      DEF ShownBy, Promise!OnRecord, _run_job_cannot_tell, MeetingsRestart, MeetingsType
    <2>3. Promise!Interrupt
      BY <2>1, <2>2 DEF Promise!Interrupt
    <2> QED BY <2>3 DEF Promise!JobNext
  (* The key is given back: what the row says by then is what is shown from here.  *)
  <1>11. CASE _run_job_pops
    <2>1. At(Job, "popping") /\ job_ends(2, build[Job].ok) /\ UNCHANGED <<report, broken>>
      BY <1>11 DEF _run_job_pops
    <2>2. /\ running' = FALSE /\ ownStored' = FALSE /\ newStored' = FALSE /\ UNCHANGED <<report, job_row, broken>>
      BY <2>1 DEF job_ends, Pop
    <2>3. running /\ Active
      BY <1>0, <2>1 DEF OneJob, At, Active
    <2>4. CASE job_row = "none"
      <3>1. newStored
        BY <1>0, <2>3, <2>4 DEF RowKnown
      <3>2. Promise!Finish
        BY <1>0, <1>s, <2>2, <2>3, <2>4, <3>1 DEF Promise!Finish, Promise!OnRecord, ShownBy, MeetingsType
      <3> QED BY <3>2 DEF Promise!JobNext
    <2>5. CASE job_row # "none"
      <3>1. ~build[Job].ok /\ ~At(Job, "stored")
        BY <1>0, <2>1, <2>5 DEF RowKnown, At
      <3>2. ~ownStored
        BY <1>0, <3>1 DEF StoredKnown
      <3>3. Promise!Fail
        BY <1>s, <2>2, <2>3, <2>5, <3>2 DEF Promise!Fail, ShownBy
      <3> QED BY <3>3 DEF Promise!JobNext
    <2> QED BY <2>4, <2>5
  <1>13. CASE purge_expired_reports
    <2>1. /\ report # "none" /\ report' = "none" /\ UNCHANGED <<running, job_row, ownStored, newStored, broken>>
      BY <1>13 DEF purge_expired_reports, jobStateVars
    <2>2. Promise!Expire
      BY <1>0, <1>s, <2>1 DEF Promise!Expire, ShownBy, MeetingsType
    <2> QED BY <2>2 DEF Promise!JobNext
  <1>12. CASE UNCHANGED meetingVars
    BY <1>12, <1>u DEF meetingVars
  <1> QED BY <1>1, <1>2, <1>3, <1>4, <1>5, <1>6, <1>7, <1>8, <1>9, <1>10, <1>11, <1>12, <1>13
          DEF MeetingsNext, _build_report_response, _build_canned_report_response

(* The code's two records of a job, written and dropped in its order, implement   *)
(* the route's promise: an old report is never shown while a job runs, a job is    *)
(* told as failed only if it stored nothing, a report once shown is taken back     *)
(* only by the retention sweep, and anything else is broken only by a restart or   *)
(* a lost write.                                                                   *)
THEOREM RecordsKeepThePromise == MeetingsSpec => ReportPromise
  <1>1. MeetingsInit => Promise!JobInit
    BY DEF MeetingsInit, Promise!JobInit, Shown, _job_state
  <1>2. MeetingsSpec => []MeetingsInv
    BY MeetingsStart, MeetingsStep, PTL DEF MeetingsSpec
  <1> QED BY <1>1, <1>2, PromiseStep, PTL DEF MeetingsSpec, ReportPromise, Promise!JobSpec

-----------------------------------------------------------------------------
(* Translations.                                                            *)

TranslationsSpec == TranslationsInit /\ [][TranslationsNext]_translationVars

InHand == [group : TranslationGroups, at : {"lookup", "gate", "model", "charge", "store"},
           attempt : {1, 2}, shaped : BOOLEAN, own : BOOLEAN]

TranslationsType ==
    /\ tcache \in [TranslationGroups -> {"absent", "kept"}]
    /\ tlimit \in Nat \cup {Unlimited}
    /\ tmeter \in Nat /\ answered \in Nat /\ given_up \in Nat /\ translations \in Nat
    /\ spared \in Nat /\ dropped \in Nat
    /\ trequest \in [Translators -> InHand \cup {NoTranslation}]

(* The requests whose response is not paid for yet, and the ones the gate has *)
(* let through, each of which may still add one call to the meter.            *)
Charging == {r \in Translators : TranslatorAt(r, "charge")}
Admitted == {r \in Translators : TranslatorAt(r, "model") \/ TranslatorAt(r, "charge")}

(* TranslationsPaid alone is not inductive: at a limit a request past the   *)
(* gate must still have room, so what may yet be charged is counted with what *)
(* has been.                                                                  *)
TranslationsInv ==
    /\ TranslationsType
    /\ answered = tmeter + given_up + spared + dropped + Cardinality(Charging)
    /\ tlimit # Unlimited => tmeter + Cardinality(Admitted) <= tlimit + Cardinality(Translators) - 1
    /\ tlimit = Unlimited => tmeter = 0

(* Sets of requests are finite, and the bound leaves room for one.            *)
LEMMA RequestsCounted ==
    ASSUME NEW S \in SUBSET Translators
    PROVE  /\ IsFiniteSet(S) /\ Cardinality(S) \in Nat /\ Cardinality(S) <= Cardinality(Translators)
           /\ Cardinality(Translators) \in Nat /\ Cardinality(Translators) >= 1
  <1>1. IsFiniteSet(Translators) /\ Translators # {}
    BY TranslationsAssumption
  <1>2. Cardinality(Translators) \in Nat /\ Cardinality(Translators) # 0
    BY <1>1, FS_CardinalityType, FS_EmptySet
  <1>3. IsFiniteSet(S) /\ Cardinality(S) <= Cardinality(Translators)
    BY <1>1, FS_Subset
  <1>4. Cardinality(S) \in Nat
    BY <1>3, FS_CardinalityType
  <1> QED BY <1>2, <1>3, <1>4

(* Nothing is in hand at first, so nothing is owed and nothing admitted.       *)
LEMMA TranslationsStart == TranslationsInit => TranslationsInv
  <1> SUFFICES ASSUME TranslationsInit PROVE TranslationsInv
    OBVIOUS
  <1>1. Charging = {} /\ Admitted = {}
    BY DEF TranslationsInit, Charging, Admitted, TranslatorAt
  <1>2. Cardinality(Charging) = 0 /\ Cardinality(Admitted) = 0
    BY <1>1, FS_EmptySet
  <1>3. Cardinality(Translators) \in Nat /\ Cardinality(Translators) >= 1
    BY RequestsCounted
  <1> QED BY <1>2, <1>3, TranslationsAssumption DEF TranslationsInit, TranslationsInv, TranslationsType, Unlimited

(* A request that stays out of both sets, or is taken out of Admitted before   *)
(* it was charged, leaves the counts where they were or lower.                 *)
LEMMA CountsKept ==
    ASSUME TranslationsInv, TranslationsType',
           tlimit' = tlimit, tmeter' = tmeter, UNCHANGED historyVars,
           Charging' = Charging, Admitted' \subseteq Admitted
    PROVE  TranslationsInv'
  <1>1. Admitted \in SUBSET Translators /\ Charging \in SUBSET Translators
    BY DEF Admitted, Charging
  <1>2. IsFiniteSet(Admitted) /\ Cardinality(Admitted) \in Nat /\ Cardinality(Charging) \in Nat
        /\ Cardinality(Translators) \in Nat
    BY <1>1, RequestsCounted
  <1>3. Cardinality(Admitted') <= Cardinality(Admitted) /\ Cardinality(Admitted') \in Nat
    BY <1>2, FS_Subset, FS_CardinalityType
  <1> QED BY <1>2, <1>3, TranslationsAssumption DEF TranslationsInv, TranslationsType, historyVars, Unlimited

(* Every step of every request keeps the count.                                *)
LEMMA TranslationsStep == TranslationsInv /\ [TranslationsNext]_translationVars => TranslationsInv'
  <1> SUFFICES ASSUME TranslationsInv, [TranslationsNext]_translationVars PROVE TranslationsInv'
    OBVIOUS
  <1> USE TranslationsAssumption DEF TranslationsType, InHand, Unlimited, historyVars
  <1>0. TranslationsType
    BY DEF TranslationsInv
  <1>a. Admitted \in SUBSET Translators /\ Charging \in SUBSET Translators /\ Charging \subseteq Admitted
    BY DEF Admitted, Charging
  <1>b. /\ IsFiniteSet(Admitted) /\ Cardinality(Admitted) \in Nat
        /\ IsFiniteSet(Charging) /\ Cardinality(Charging) \in Nat
        /\ Cardinality(Translators) \in Nat /\ Cardinality(Admitted) <= Cardinality(Translators)
    BY <1>a, RequestsCounted
  <1>1. ASSUME NEW r \in Translators, NEW g \in TranslationGroups, NEW own \in BOOLEAN, translate(r, g, own)
        PROVE  TranslationsInv'
    <2>1. TranslationsType'
      BY <1>0, <1>1 DEF translate
    <2>2. Charging' = Charging /\ Admitted' \subseteq Admitted
      BY <1>0, <1>1 DEF translate, Charging, Admitted, TranslatorAt
    <2> QED BY <1>1, <2>1, <2>2, CountsKept DEF translate
  <1>2. ASSUME NEW r \in Translators, cache_get(r) PROVE TranslationsInv'
    <2>1. TranslationsType'
      BY <1>0, <1>2 DEF cache_get, TranslatorAt, TranslatorEnds
    <2>2. Charging' = Charging /\ Admitted' \subseteq Admitted
      BY <1>0, <1>2 DEF cache_get, Charging, Admitted, TranslatorAt, TranslatorEnds
    <2> QED BY <1>2, <2>1, <2>2, CountsKept DEF cache_get
  <1>3. ASSUME NEW r \in Translators, translation_gate(r) PROVE TranslationsInv'
    <2>1. TranslationsType'
      BY <1>0, <1>3 DEF translation_gate, TranslatorAt, TranslatorEnds
    <2>2. Charging' = Charging
      BY <1>0, <1>3 DEF translation_gate, Charging, TranslatorAt, TranslatorEnds
    <2>3. CASE tlimit # Unlimited /\ tmeter >= tlimit
      <3>1. Admitted' \subseteq Admitted
        BY <1>0, <1>3, <2>3 DEF translation_gate, Admitted, TranslatorAt, TranslatorEnds
      <3> QED BY <1>3, <2>1, <2>2, <3>1, CountsKept DEF translation_gate
    <2>4. CASE ~(tlimit # Unlimited /\ tmeter >= tlimit)
      <3>1. Admitted' \in SUBSET Translators
        BY DEF Admitted
      <3>2. Cardinality(Admitted') <= Cardinality(Translators) /\ Cardinality(Admitted') \in Nat
        BY <3>1, RequestsCounted
      <3>3. tlimit # Unlimited => tmeter' + Cardinality(Admitted') <= tlimit + Cardinality(Translators) - 1
        BY <1>0, <1>3, <1>b, <2>4, <3>2 DEF translation_gate
      <3> QED BY <1>3, <2>1, <2>2, <3>3 DEF TranslationsInv, translation_gate
    <2> QED BY <2>3, <2>4
  <1>4. ASSUME NEW r \in Translators, provider_error(r) PROVE TranslationsInv'
    <2>1. TranslationsType'
      BY <1>0, <1>4 DEF provider_error, TranslatorAt, TranslatorEnds
    <2>2. Charging' = Charging /\ Admitted' \subseteq Admitted
      BY <1>0, <1>4 DEF provider_error, Charging, Admitted, TranslatorAt, TranslatorEnds
    <2> QED BY <1>4, <2>1, <2>2, CountsKept DEF provider_error
  <1>5. ASSUME NEW r \in Translators, NEW shaped \in BOOLEAN, translation_attempt(r, shaped)
        PROVE  TranslationsInv'
    <2>1. TranslationsType'
      BY <1>0, <1>5 DEF translation_attempt, TranslatorAt
    <2>2. Admitted' = Admitted
      BY <1>0, <1>5 DEF translation_attempt, Admitted, TranslatorAt
    <2>3. CASE shaped \/ trequest[r].attempt = 2
      <3>1. r \notin Charging /\ Charging' = Charging \cup {r}
        BY <1>0, <1>5, <2>3 DEF translation_attempt, Charging, TranslatorAt
      <3>2. Cardinality(Charging') = Cardinality(Charging) + 1
        BY <3>1, <1>b, FS_AddElement
      <3>3. /\ answered' = answered + 1 /\ given_up' = given_up /\ tmeter' = tmeter
            /\ spared' = spared /\ dropped' = dropped /\ tlimit' = tlimit
        BY <1>0, <1>5, <2>3 DEF translation_attempt
      <3> QED BY <1>b, <2>1, <2>2, <3>2, <3>3 DEF TranslationsInv
    <2>4. CASE ~(shaped \/ trequest[r].attempt = 2)
      <3>1. Charging' = Charging
        BY <1>0, <1>5, <2>4 DEF translation_attempt, Charging, TranslatorAt
      <3>2. trequest[r].attempt = 1
        BY <1>0, <1>5, <2>4 DEF translation_attempt, TranslatorAt
      <3>3. /\ answered' = answered + 1 /\ given_up' = given_up + 1 /\ tmeter' = tmeter
            /\ spared' = spared /\ dropped' = dropped /\ tlimit' = tlimit
        BY <1>5, <2>4, <3>2 DEF translation_attempt
      <3> QED BY <1>b, <2>1, <2>2, <3>1, <3>3 DEF TranslationsInv
    <2> QED BY <2>3, <2>4
  <1>6. ASSUME NEW r \in Translators, NEW fate \in Fates, translation_charge(r, fate) PROVE TranslationsInv'
    <2>1. /\ r \in Charging /\ Charging' = Charging \ {r}
          /\ r \in Admitted /\ Admitted' = Admitted \ {r}
      BY <1>0, <1>6 DEF translation_charge, Charging, Admitted, TranslatorAt, TranslatorEnds
    <2>2. /\ Cardinality(Charging') = Cardinality(Charging) - 1
          /\ Cardinality(Admitted') = Cardinality(Admitted) - 1
      BY <2>1, <1>b, FS_RemoveElement
    <2>3. answered' = answered /\ given_up' = given_up /\ tlimit' = tlimit
      BY <1>6 DEF translation_charge
    <2>4. \/ tmeter' = tmeter + 1 /\ spared' = spared /\ dropped' = dropped /\ tlimit # Unlimited
          \/ tmeter' = tmeter /\ spared' = spared + 1 /\ dropped' = dropped
          \/ tmeter' = tmeter /\ spared' = spared /\ dropped' = dropped + 1
      <3>1. CASE trequest[r].own \/ tlimit = Unlimited
        <4>1. record_cost(trequest[r].own, trequest[r].shaped, fate) = 0
          BY <3>1, Zenon DEF record_cost
        <4>2. /\ spared' = spared + 1 /\ dropped' = dropped
              /\ tmeter' = tmeter + record_cost(trequest[r].own, trequest[r].shaped, fate)
          BY <1>6, <3>1, Zenon DEF translation_charge
        <4> QED BY <1>0, <4>1, <4>2
      <3>2. CASE ~(trequest[r].own \/ tlimit = Unlimited) /\ fate = "lands"
        BY <1>0, <1>6, <3>2 DEF translation_charge, record_cost
      <3>3. CASE ~(trequest[r].own \/ tlimit = Unlimited) /\ fate # "lands"
        BY <1>0, <1>6, <3>3 DEF translation_charge, record_cost
      <3> QED BY <3>1, <3>2, <3>3
    <2>5. TranslationsType'
      <3>1. trequest[r] \in InHand /\ trequest[r].at = "charge"
        BY <1>0, <1>6 DEF translation_charge, TranslatorAt
      <3>2. trequest' = [trequest EXCEPT ![r].at = "store"] \/ trequest' = [trequest EXCEPT ![r] = NoTranslation]
        BY <1>6, Zenon DEF translation_charge, TranslatorEnds
      <3>3. trequest' \in [Translators -> InHand \cup {NoTranslation}]
        BY <1>0, <3>1, <3>2
      <3>4. tcache' = tcache /\ translations' = translations
        BY <1>6 DEF translation_charge
      <3> QED BY <1>0, <2>3, <2>4, <3>3, <3>4
    <2>6. answered = tmeter + given_up + spared + dropped + Cardinality(Charging)
      BY DEF TranslationsInv
    <2>7. tlimit' # Unlimited => tmeter' + Cardinality(Admitted') <= tlimit' + Cardinality(Translators) - 1
      BY <1>0, <1>b, <2>2, <2>3, <2>4 DEF TranslationsInv
    <2>8. tlimit' = Unlimited => tmeter' = 0
      BY <2>3, <2>4 DEF TranslationsInv
    <2>9. answered' = tmeter' + given_up' + spared' + dropped' + Cardinality(Charging')
      <3>1. CASE tmeter' = tmeter + 1 /\ spared' = spared /\ dropped' = dropped
        BY <1>0, <1>b, <2>2, <2>3, <2>6, <3>1
      <3>2. CASE tmeter' = tmeter /\ spared' = spared + 1 /\ dropped' = dropped
        BY <1>0, <1>b, <2>2, <2>3, <2>6, <3>2
      <3>3. CASE tmeter' = tmeter /\ spared' = spared /\ dropped' = dropped + 1
        BY <1>0, <1>b, <2>2, <2>3, <2>6, <3>3
      <3> QED BY <2>4, <3>1, <3>2, <3>3
    <2> QED BY <2>5, <2>7, <2>8, <2>9 DEF TranslationsInv
  <1>7. ASSUME NEW r \in Translators, cache_put(r) PROVE TranslationsInv'
    <2>1. TranslationsType'
      BY <1>0, <1>7 DEF cache_put, TranslatorAt, TranslatorEnds
    <2>2. Charging' = Charging /\ Admitted' \subseteq Admitted
      BY <1>0, <1>7 DEF cache_put, Charging, Admitted, TranslatorAt, TranslatorEnds
    <2> QED BY <1>7, <2>1, <2>2, CountsKept DEF cache_put
  <1>8. ASSUME NEW g \in TranslationGroups, purge_transcript_translations(g) PROVE TranslationsInv'
    <2>1. TranslationsType'
      BY <1>0, <1>8 DEF purge_transcript_translations
    <2>2. Charging' = Charging /\ Admitted' \subseteq Admitted
      BY <1>8 DEF purge_transcript_translations, Charging, Admitted, TranslatorAt
    <2> QED BY <1>8, <2>1, <2>2, CountsKept DEF purge_transcript_translations
  <1>10. ASSUME NEW r \in Translators, request_dies(r) PROVE TranslationsInv'
    <2>1. TranslationsType'
      BY <1>0, <1>10 DEF request_dies, TranslatorAt, TranslatorEnds
    <2>2. CASE TranslatorAt(r, "charge")
      <3>1. /\ r \in Charging /\ Charging' = Charging \ {r}
            /\ r \in Admitted /\ Admitted' = Admitted \ {r}
        BY <1>0, <1>10, <2>2 DEF request_dies, Charging, Admitted, TranslatorAt, TranslatorEnds
      <3>2. /\ Cardinality(Charging') = Cardinality(Charging) - 1
            /\ Cardinality(Admitted') = Cardinality(Admitted) - 1
        BY <3>1, <1>b, FS_RemoveElement
      <3>3. /\ dropped' = dropped + 1 /\ answered' = answered /\ given_up' = given_up
            /\ spared' = spared /\ tmeter' = tmeter /\ tlimit' = tlimit
        BY <1>10, <2>2 DEF request_dies
      <3> QED BY <1>0, <1>b, <2>1, <3>2, <3>3 DEF TranslationsInv
    <2>3. CASE ~TranslatorAt(r, "charge")
      <3>1. Charging' = Charging /\ Admitted' \subseteq Admitted
        BY <1>0, <1>10, <2>3 DEF request_dies, Charging, Admitted, TranslatorAt, TranslatorEnds
      <3> QED BY <1>10, <2>1, <2>3, <3>1, CountsKept DEF request_dies
    <2> QED BY <2>2, <2>3
  <1>9. CASE UNCHANGED translationVars
    <2>1. TranslationsType'
      BY <1>0, <1>9 DEF translationVars
    <2>2. Charging' = Charging /\ Admitted' \subseteq Admitted
      BY <1>9 DEF translationVars, Charging, Admitted, TranslatorAt
    <2> QED BY <1>9, <2>1, <2>2, CountsKept DEF translationVars
  <1> QED BY <1>1, <1>2, <1>3, <1>4, <1>5, <1>6, <1>7, <1>8, <1>9, <1>10
        DEF TranslationsNext

(* The promise follows from the count.                                         *)
LEMMA TranslationsCounted == TranslationsInv => TranslationsPaid
  <1> SUFFICES ASSUME TranslationsInv PROVE TranslationsPaid
    OBVIOUS
  <1>1. Admitted \in SUBSET Translators
    BY DEF Admitted
  <1>2. Cardinality(Admitted) \in Nat /\ Cardinality(Translators) \in Nat
    BY <1>1, RequestsCounted
  <1> QED BY <1>2, TranslationsAssumption DEF TranslationsInv, TranslationsPaid, TranslationsType, Charging

(* Whatever requests overlap, however often a malformed answer is tried again  *)
(* and whatever the cache holds: a response of the model is on the meter, about*)
(* to be, the first of a pair, not this meter's, or lost to it by a missing     *)
(* price, a locked database or a request that died; and the meter overshoots a  *)
(* limit by less than the number of requests that can be past the gate at once. *)
THEOREM EveryTranslationIsPaid == TranslationsSpec => []TranslationsPaid
  BY TranslationsStart, TranslationsStep, TranslationsCounted, PTL DEF TranslationsSpec
-----------------------------------------------------------------------------
(* The day cache of memory digests.                                          *)

DigestSpec == DigestInit /\ [][DigestNext]_digestVars

DigestEntry == [app : DigestApps, body : Outcomes, day : Nat]
DigestFetch == [key : DigestKeys, app : DigestApps]

(* What stands in a sequence, and that nothing stands in it twice.            *)
Listed(s) == {s[i] : i \in 1 .. Len(s)}
Distinct(s) == \A i, j \in 1 .. Len(s) : s[i] = s[j] => i = j

(* t is s without its i-th element.                                            *)
Shortened(s, i, t) ==
    /\ Len(t) = Len(s) - 1
    /\ \A j \in 1 .. Len(s) - 1 : t[j] = IF j < i THEN s[j] ELSE s[j + 1]

DigestType ==
    /\ woven \in [DigestKeys -> DigestEntry \cup {NoEntry}]
    /\ reading \in [Readers -> DigestFetch \cup {NoEntry}]
    /\ refreshes \subseteq DigestFetch
    /\ digest_day \in Nat /\ asked_for \in Nat

(* The keys by age are the keys of the cache: without it a full cache might    *)
(* give up a key that it does not hold, and grow.                             *)
OrderIsCache == order \in Seq(DigestKeys) /\ Distinct(order) /\ Listed(order) = Cached

CacheIsGood ==
    /\ IsFiniteSet(Cached) /\ Cardinality(Cached) <= MaxEntries
    /\ \A k \in Cached : woven[k].body = "good" /\ woven[k].day <= digest_day

HandedIsRecent == handed # NoEntry => handed.age <= MaxStaleDays

OneRefresh ==
    /\ holders = {f.key : f \in refreshes}
    /\ \A f, g \in refreshes : f.key = g.key => f = g

DigestInv == DigestType /\ OrderIsCache /\ CacheIsGood /\ HandedIsRecent /\ OneRefresh

(* Taking the element at one place out of a sequence.                          *)
LEMMA PlaceRemoved ==
    ASSUME NEW K, NEW s \in Seq(K), NEW i \in 1 .. Len(s)
    PROVE  /\ SubSeq(s, 1, i - 1) \o SubSeq(s, i + 1, Len(s)) \in Seq(K)
           /\ Shortened(s, i, SubSeq(s, 1, i - 1) \o SubSeq(s, i + 1, Len(s)))
  <1> DEFINE a == SubSeq(s, 1, i - 1)
             b == SubSeq(s, i + 1, Len(s))
  <1>0. Len(s) \in Nat /\ \A j \in 1 .. Len(s) : s[j] \in K
    BY LenProperties, ElementOfSeq
  <1>1. a \in Seq(K) /\ Len(a) = i - 1 /\ \A j \in 1 .. i - 1 : a[j] = s[j]
    <2>1. 1 \in Int /\ i - 1 \in Int /\ \A j \in 1 .. i - 1 : s[j] \in K
      BY <1>0
    <2>2. /\ a \in Seq(K) /\ Len(a) = IF 1 <= i - 1 THEN i - 1 - 1 + 1 ELSE 0
          /\ \A j \in 1 .. i - 1 - 1 + 1 : a[j] = s[1 + j - 1]
      BY <2>1, SubSeqProperties
    <2> QED BY <2>2, <1>0
  <1>2. b \in Seq(K) /\ Len(b) = Len(s) - i /\ \A j \in 1 .. Len(s) - i : b[j] = s[i + j]
    <2>1. i + 1 \in Int /\ Len(s) \in Int /\ \A j \in i + 1 .. Len(s) : s[j] \in K
      BY <1>0
    <2>2. /\ b \in Seq(K) /\ Len(b) = IF i + 1 <= Len(s) THEN Len(s) - (i + 1) + 1 ELSE 0
          /\ \A j \in 1 .. Len(s) - (i + 1) + 1 : b[j] = s[i + 1 + j - 1]
      BY <2>1, SubSeqProperties
    <2> QED BY <2>2, <1>0
  <1> HIDE DEF a, b
  <1>3. /\ a \o b \in Seq(K) /\ Len(a \o b) = Len(a) + Len(b)
        /\ \A j \in 1 .. Len(a) + Len(b) : (a \o b)[j] = IF j <= Len(a) THEN a[j] ELSE b[j - Len(a)]
    BY <1>1, <1>2, ConcatProperties
  <1>4. Len(a \o b) = Len(s) - 1
    BY <1>0, <1>1, <1>2, <1>3
  <1>5. ASSUME NEW j \in 1 .. Len(s) - 1 PROVE (a \o b)[j] = IF j < i THEN s[j] ELSE s[j + 1]
    <2>1. (a \o b)[j] = IF j <= i - 1 THEN a[j] ELSE b[j - (i - 1)]
      BY <1>0, <1>1, <1>2, <1>3
    <2>2. CASE j < i
      BY <2>1, <2>2, <1>0, <1>1
    <2>3. CASE ~(j < i)
      <3>1. j - (i - 1) \in 1 .. Len(s) - i
        BY <1>0, <2>3
      <3>2. b[j - (i - 1)] = s[i + (j - (i - 1))]
        BY <3>1, <1>2
      <3> QED BY <2>1, <2>3, <3>2, <1>0
    <2> QED BY <2>2, <2>3
  <1> QED BY <1>3, <1>4, <1>5 DEF a, b, Shortened

(* So one place out of a sequence without repetitions takes one element out.   *)
LEMMA PlaceRemovedListed ==
    ASSUME NEW K, NEW s \in Seq(K), Distinct(s), NEW i \in 1 .. Len(s),
           NEW t \in Seq(K), Shortened(s, i, t)
    PROVE  Distinct(t) /\ Listed(t) = Listed(s) \ {s[i]}
  <1> USE DEF Shortened
  <1>0. Len(s) \in Nat
    BY LenProperties
  <1>1. Distinct(t)
    BY <1>0 DEF Distinct
  <1>2. ASSUME NEW x \in Listed(t) PROVE x \in Listed(s) \ {s[i]}
    <2>1. PICK j \in 1 .. Len(t) : x = t[j]
      BY <1>2 DEF Listed
    <2>2. CASE j < i
      BY <1>0, <2>1, <2>2 DEF Listed, Distinct
    <2>3. CASE ~(j < i)
      <3>1. x = s[j + 1] /\ j + 1 \in 1 .. Len(s) /\ j + 1 # i
        BY <1>0, <2>1, <2>3
      <3> QED BY <3>1 DEF Listed, Distinct
    <2> QED BY <2>2, <2>3
  <1>3. ASSUME NEW x \in Listed(s) \ {s[i]} PROVE x \in Listed(t)
    <2>1. PICK j \in 1 .. Len(s) : x = s[j]
      BY <1>3 DEF Listed
    <2>2. CASE j < i
      BY <1>0, <2>1, <2>2 DEF Listed
    <2>3. CASE j > i
      <3>1. j - 1 \in 1 .. Len(t) /\ t[j - 1] = s[j]
        BY <1>0, <2>1, <2>3
      <3> QED BY <2>1, <3>1 DEF Listed
    <2> QED BY <1>0, <1>3, <2>1, <2>2, <2>3
  <1> QED BY <1>1, <1>2, <1>3

(* What is put at the end of a sequence that does not hold it.                 *)
LEMMA AppendListed ==
    ASSUME NEW K, NEW s \in Seq(K), Distinct(s), NEW x \in K, x \notin Listed(s)
    PROVE  /\ Append(s, x) \in Seq(K) /\ Distinct(Append(s, x))
           /\ Listed(Append(s, x)) = Listed(s) \cup {x}
  <1> DEFINE t == Append(s, x)
  <1>1. /\ Len(s) \in Nat /\ t \in Seq(K) /\ Len(t) = Len(s) + 1
        /\ \A j \in 1 .. Len(s) : t[j] = s[j]
        /\ t[Len(s) + 1] = x
    BY LenProperties, AppendProperties
  <1> HIDE DEF t
  <1>2. \A j \in 1 .. Len(s) : s[j] \in Listed(s)
    BY DEF Listed
  <1>3. Distinct(t)
    BY <1>1, <1>2 DEF Distinct
  <1>4. ASSUME NEW y PROVE y \in Listed(t) <=> y \in Listed(s) \cup {x}
    BY <1>1 DEF Listed
  <1>5. Listed(t) = Listed(s) \cup {x}
    BY <1>4
  <1> QED BY <1>1, <1>3, <1>5 DEF t

(* A key that is dropped or stored again leaves its old place.                 *)
LEMMA WithoutKey ==
    ASSUME OrderIsCache, NEW k \in DigestKeys
    PROVE  /\ Without(k) \in Seq(DigestKeys) /\ Distinct(Without(k))
           /\ Listed(Without(k)) = Cached \ {k}
  <1>1. CASE k \notin Cached
    BY <1>1 DEF Without, OrderIsCache
  <1>2. CASE k \in Cached
    <2>1. \E i \in 1 .. Len(order) : order[i] = k
      BY <1>2 DEF OrderIsCache, Listed
    <2>2. Place(k) \in 1 .. Len(order) /\ order[Place(k)] = k
      BY <2>1 DEF Place
    <2>3. Without(k) = SubSeq(order, 1, Place(k) - 1) \o SubSeq(order, Place(k) + 1, Len(order))
      BY <1>2 DEF Without
    <2>4. Without(k) \in Seq(DigestKeys) /\ Shortened(order, Place(k), Without(k))
      BY <2>2, <2>3, PlaceRemoved DEF OrderIsCache
    <2>5. Distinct(Without(k)) /\ Listed(Without(k)) = Listed(order) \ {order[Place(k)]}
      BY <2>2, <2>4, PlaceRemovedListed DEF OrderIsCache
    <2> QED BY <2>2, <2>4, <2>5 DEF OrderIsCache
  <1> QED BY <1>1, <1>2

(* The oldest key is a key of the cache, and the others stay.                  *)
LEMMA OldestKey ==
    ASSUME OrderIsCache, Cached # {}
    PROVE  /\ Head(order) \in Cached
           /\ Tail(order) \in Seq(DigestKeys) /\ Distinct(Tail(order))
           /\ Listed(Tail(order)) = Cached \ {Head(order)}
  <1>1. order \in Seq(DigestKeys) /\ Len(order) \in Nat /\ order # <<>>
    BY LenProperties, EmptySeq DEF OrderIsCache, Listed
  <1>2. Len(order) >= 1 /\ Head(order) = order[1]
    BY <1>1, EmptySeq
  <1>3. /\ Tail(order) \in Seq(DigestKeys) /\ Len(Tail(order)) = Len(order) - 1
        /\ \A j \in 1 .. Len(Tail(order)) : Tail(order)[j] = order[j + 1]
    BY <1>1, HeadTailProperties
  <1>4. Shortened(order, 1, Tail(order))
    BY <1>1, <1>3 DEF Shortened
  <1>5. 1 \in 1 .. Len(order)
    BY <1>1, <1>2
  <1>6. Distinct(Tail(order)) /\ Listed(Tail(order)) = Listed(order) \ {order[1]}
    <2>1. Distinct(order)
      BY DEF OrderIsCache
    <2>2. PICK t : t = Tail(order)
      OBVIOUS
    <2>3. t \in Seq(DigestKeys) /\ Shortened(order, 1, t)
      BY <1>3, <1>4, <2>2
    <2>4. Distinct(t) /\ Listed(t) = Listed(order) \ {order[1]}
      BY <1>1, <1>5, <2>1, <2>3, PlaceRemovedListed
    <2> QED BY <2>2, <2>4
  <1>7. order[1] \in Listed(order)
    BY <1>5 DEF Listed
  <1> QED BY <1>2, <1>3, <1>6, <1>7 DEF OrderIsCache

(* A full cache gives up one key for the new one; any other takes it in.        *)
LEMMA StoreKeeps ==
    ASSUME DigestInv, NEW f \in DigestFetch, store(f, "good"), digest_day' = digest_day
    PROVE  /\ woven' \in [DigestKeys -> DigestEntry \cup {NoEntry}]
           /\ OrderIsCache' /\ CacheIsGood'
  <1> USE DEF DigestType
  <1>0. DigestType /\ OrderIsCache /\ CacheIsGood /\ f.key \in DigestKeys /\ f.app \in DigestApps
        /\ MaxEntries \in Nat \ {0}
    BY DigestAssumption DEF DigestInv, DigestFetch
  <1> DEFINE entry == [app |-> f.app, body |-> "good", day |-> digest_day]
             rest == IF Cardinality(Cached) >= MaxEntries /\ f.key \notin Cached
                     THEN Cached \ {Head(order)} ELSE Cached \ {f.key}
             listed == IF Cardinality(Cached) >= MaxEntries /\ f.key \notin Cached
                       THEN Tail(order) ELSE Without(f.key)
  <1>1. entry \in DigestEntry /\ entry # NoEntry /\ entry.body = "good" /\ entry.day = digest_day
    BY <1>0, DigestAssumption DEF DigestEntry, Outcomes
  <1>2. Cardinality(Cached) \in Nat /\ (Cardinality(Cached) >= MaxEntries => Cached # {})
    BY <1>0, FS_CardinalityType, FS_EmptySet DEF CacheIsGood
  <1>3. /\ \A k \in DigestKeys : woven'[k] = IF k = f.key THEN entry ELSE IF k \in rest THEN woven[k] ELSE NoEntry
        /\ order' = Append(listed, f.key)
        /\ DOMAIN woven' = DigestKeys
    <2>1. CASE Cardinality(Cached) >= MaxEntries /\ f.key \notin Cached
      BY <1>0, <2>1 DEF store, Cached
    <2>2. CASE ~(Cardinality(Cached) >= MaxEntries /\ f.key \notin Cached)
      BY <1>0, <2>2 DEF store, Cached
    <2> QED BY <2>1, <2>2
  <1>4. woven' \in [DigestKeys -> DigestEntry \cup {NoEntry}]
    <2>1. woven' = [k \in DigestKeys |-> woven'[k]]
      BY DEF store
    <2>2. \A k \in DigestKeys : woven'[k] \in DigestEntry \cup {NoEntry}
      BY <1>0, <1>1, <1>3
    <2> QED BY <2>1, <2>2
  <1>5. /\ listed \in Seq(DigestKeys) /\ Distinct(listed)
        /\ Listed(listed) = rest /\ f.key \notin rest
    BY <1>0, <1>2, OldestKey, WithoutKey
  <1>6. rest \subseteq Cached
    OBVIOUS
  <1>7. Cached' = rest \cup {f.key}
    BY <1>0, <1>1, <1>3, <1>6 DEF Cached
  <1>8. OrderIsCache'
    <2>1. /\ Append(listed, f.key) \in Seq(DigestKeys) /\ Distinct(Append(listed, f.key))
          /\ Listed(Append(listed, f.key)) = Listed(listed) \cup {f.key}
      <3> HIDE DEF listed, rest, entry
      <3>1. f.key \in DigestKeys /\ f.key \notin Listed(listed)
        BY <1>0, <1>5
      <3> QED BY <1>5, <3>1, AppendListed
    <2> QED BY <1>3, <1>5, <1>7, <2>1 DEF OrderIsCache
  <1>9. IsFiniteSet(Cached') /\ Cardinality(Cached') <= MaxEntries
    <2>1. IsFiniteSet(Cached)
      BY <1>0 DEF CacheIsGood
    <2>2. CASE Cardinality(Cached) >= MaxEntries /\ f.key \notin Cached
      <3>1. Head(order) \in Cached
        BY <1>0, <1>2, <2>2, OldestKey
      <3>2. IsFiniteSet(rest) /\ Cardinality(rest) = Cardinality(Cached) - 1
        BY <2>1, <2>2, <3>1, FS_RemoveElement
      <3>3. IsFiniteSet(rest \cup {f.key}) /\ Cardinality(rest \cup {f.key}) = Cardinality(rest) + 1
        BY <3>2, <1>5, FS_AddElement
      <3> QED BY <1>0, <1>2, <1>7, <3>2, <3>3 DEF CacheIsGood
    <2>3. CASE f.key \in Cached
      <3>1. Cached' = Cached
        BY <1>7, <2>3
      <3> QED BY <1>0, <3>1 DEF CacheIsGood
    <2>4. CASE Cardinality(Cached) < MaxEntries /\ f.key \notin Cached
      <3>1. Cached' = Cached \cup {f.key}
        BY <1>0, <1>2, <1>7, <2>4
      <3>2. IsFiniteSet(Cached') /\ Cardinality(Cached') = Cardinality(Cached) + 1
        BY <2>1, <2>4, <3>1, FS_AddElement
      <3> QED BY <1>0, <1>2, <2>4, <3>2
    <2> QED BY <1>0, <1>2, <2>2, <2>3, <2>4
  <1>10. \A k \in Cached' : woven'[k].body = "good" /\ woven'[k].day <= digest_day'
    BY <1>0, <1>1, <1>3, <1>6, <1>7 DEF CacheIsGood, Cached
  <1> QED BY <1>4, <1>8, <1>9, <1>10 DEF CacheIsGood

(* An empty cache with nothing in flight.                                      *)
LEMMA DigestStart == DigestInit => DigestInv
  <1> SUFFICES ASSUME DigestInit PROVE DigestInv
    OBVIOUS
  <1>1. Cached = {} /\ order = <<>> /\ order \in Seq(DigestKeys) /\ Len(order) = 0
    BY EmptySeq DEF DigestInit, Cached
  <1>2. OrderIsCache
    BY <1>1 DEF OrderIsCache, Distinct, Listed
  <1>3. CacheIsGood
    BY <1>1, FS_EmptySet, DigestAssumption DEF CacheIsGood
  <1> QED BY <1>2, <1>3 DEF DigestInit, DigestInv, DigestType, HandedIsRecent, OneRefresh

(* Every step of a read, of a refresh, of the day and of the process.           *)
LEMMA DigestStep == DigestInv /\ [DigestNext]_digestVars => DigestInv'
  <1> SUFFICES ASSUME DigestInv, [DigestNext]_digestVars PROVE DigestInv'
    OBVIOUS
  <1> USE DigestAssumption
  <1>0. DigestType /\ OrderIsCache /\ CacheIsGood /\ HandedIsRecent /\ OneRefresh
    BY DEF DigestInv
  <1>1. ASSUME NEW r \in Readers, NEW k \in DigestKeys, NEW app \in DigestApps, get_or_refresh(r, k, app)
        PROVE  DigestInv'
    <2> DEFINE entry == peek(k)
               fetch == [key |-> k, app |-> app]
    <2>1. /\ entry \in {woven[k], NoEntry}
          /\ entry # NoEntry => k \in Cached /\ entry = woven[k] /\ digest_day - entry.day <= MaxStaleDays
      BY <1>0 DEF peek, Cached, DigestType, DigestEntry
    <2>2. /\ woven' = [woven EXCEPT ![k] = entry] /\ digest_day' = digest_day
          /\ order' = IF entry = NoEntry THEN Without(k) ELSE order
          /\ asked_for' = asked_for + 1
      BY <1>1 DEF get_or_refresh
    <2>3. Cached' = IF entry = NoEntry THEN Cached \ {k} ELSE Cached
      BY <1>0, <2>1, <2>2 DEF Cached, DigestType
    <2>4. OrderIsCache'
      BY <1>0, <2>2, <2>3, WithoutKey DEF OrderIsCache
    <2>5. CacheIsGood'
      <3>1. Cached' \subseteq Cached /\ \A j \in Cached' : woven'[j] = woven[j]
        BY <1>0, <2>1, <2>2, <2>3 DEF DigestType, Cached
      <3>2. IsFiniteSet(Cached') /\ Cardinality(Cached') <= Cardinality(Cached) /\ Cardinality(Cached) \in Nat
            /\ Cardinality(Cached') \in Nat
        BY <1>0, <3>1, FS_Subset, FS_CardinalityType DEF CacheIsGood
      <3> QED BY <1>0, <2>2, <3>1, <3>2 DEF CacheIsGood
    <2>6. DigestType'
      <3>1. woven' \in [DigestKeys -> DigestEntry \cup {NoEntry}]
        BY <1>0, <2>1, <2>2 DEF DigestType
      <3>2. reading' \in [Readers -> DigestFetch \cup {NoEntry}] /\ refreshes' \subseteq DigestFetch
        BY <1>0, <1>1 DEF DigestType, get_or_refresh, DigestFetch
      <3> QED BY <1>0, <2>2, <3>1, <3>2 DEF DigestType
    <2>7. HandedIsRecent'
      <3>1. handed' = handed \/ (entry # NoEntry /\ handed' = Given(entry, app))
        BY <1>1 DEF get_or_refresh
      <3> QED BY <1>0, <2>1, <3>1 DEF HandedIsRecent, Given
    <2>8. OneRefresh'
      <3>1. CASE holders' = holders /\ refreshes' = refreshes
        BY <1>0, <3>1 DEF OneRefresh
      <3>2. CASE k \notin holders /\ holders' = holders \cup {k} /\ refreshes' = refreshes \cup {fetch}
        <4>1. fetch.key = k /\ \A f \in refreshes : f.key # k
          BY <1>0, <3>2 DEF OneRefresh
        <4>2. holders' = {f.key : f \in refreshes'}
          BY <1>0, <3>2, <4>1 DEF OneRefresh
        <4>3. \A f, g \in refreshes' : f.key = g.key => f = g
          BY <1>0, <3>2, <4>1 DEF OneRefresh
        <4> QED BY <4>2, <4>3 DEF OneRefresh
      <3> QED BY <1>1, <3>1, <3>2 DEF get_or_refresh
    <2> QED BY <2>4, <2>5, <2>6, <2>7, <2>8 DEF DigestInv
  <1>2. ASSUME NEW r \in Readers, NEW outcome \in Outcomes, fetch_ends(r, outcome) PROVE DigestInv'
    <2>1. /\ reading[r] \in DigestFetch /\ reading' \in [Readers -> DigestFetch \cup {NoEntry}]
          /\ digest_day' = digest_day /\ UNCHANGED <<holders, refreshes, asked_for>>
      BY <1>0, <1>2 DEF fetch_ends, DigestType
    <2>2. OneRefresh'
      BY <1>0, <2>1 DEF OneRefresh
    <2>3. CASE outcome = "good"
      <3>1. store(reading[r], "good") /\ handed' = [age |-> 0, cross |-> FALSE]
        BY <1>2, <2>3 DEF fetch_ends, _json_of
      <3>2. woven' \in [DigestKeys -> DigestEntry \cup {NoEntry}] /\ OrderIsCache' /\ CacheIsGood'
        BY <2>1, <3>1, StoreKeeps
      <3>3. HandedIsRecent'
        BY <3>1 DEF HandedIsRecent
      <3> QED BY <1>0, <2>1, <2>2, <3>2, <3>3 DEF DigestInv, DigestType
    <2>4. CASE outcome # "good"
      <3>1. UNCHANGED <<woven, order, handed>>
        BY <1>2, <2>4 DEF fetch_ends, _json_of
      <3>2. OrderIsCache' /\ CacheIsGood' /\ HandedIsRecent'
        BY <1>0, <2>1, <3>1 DEF OrderIsCache, CacheIsGood, HandedIsRecent, Cached, Listed, Distinct
      <3> QED BY <1>0, <2>1, <2>2, <3>1, <3>2 DEF DigestInv, DigestType
    <2> QED BY <2>3, <2>4
  <1>3. ASSUME NEW f \in refreshes, NEW outcome \in Outcomes, _refresh(f, outcome) PROVE DigestInv'
    <2>1. /\ f \in DigestFetch /\ refreshes' = refreshes \ {f} /\ holders' = holders \ {f.key}
          /\ digest_day' = digest_day /\ UNCHANGED <<reading, asked_for, handed>>
      BY <1>0, <1>3 DEF _refresh, released, DigestType
    <2>2. OneRefresh'
      <3>1. \A g, h \in refreshes' : g.key = h.key => g = h
        BY <1>0, <2>1 DEF OneRefresh
      <3>2. holders' = {g.key : g \in refreshes'}
        BY <1>0, <1>3, <2>1 DEF OneRefresh
      <3> QED BY <3>1, <3>2 DEF OneRefresh
    <2>3. HandedIsRecent'
      BY <1>0, <2>1 DEF HandedIsRecent
    <2>4. CASE outcome = "good"
      <3>1. store(f, "good")
        BY <1>3, <2>4 DEF _refresh, _json_of
      <3>2. woven' \in [DigestKeys -> DigestEntry \cup {NoEntry}] /\ OrderIsCache' /\ CacheIsGood'
        BY <2>1, <3>1, StoreKeeps
      <3> QED BY <1>0, <2>1, <2>2, <2>3, <3>2 DEF DigestInv, DigestType
    <2>5. CASE outcome # "good"
      <3>1. UNCHANGED <<woven, order>>
        BY <1>3, <2>5 DEF _refresh, _json_of
      <3>2. OrderIsCache' /\ CacheIsGood'
        BY <1>0, <2>1, <3>1 DEF OrderIsCache, CacheIsGood, Cached, Listed, Distinct
      <3> QED BY <1>0, <2>1, <2>2, <2>3, <3>1, <3>2 DEF DigestInv, DigestType
    <2> QED BY <2>4, <2>5
  <1>4. CASE Midnight
    <2>1. UNCHANGED <<woven, order, holders, reading, refreshes, asked_for, handed>> /\ digest_day' = digest_day + 1
      BY <1>4 DEF Midnight
    <2>2. OrderIsCache' /\ HandedIsRecent' /\ OneRefresh'
      BY <1>0, <2>1 DEF OrderIsCache, HandedIsRecent, OneRefresh, Cached, Listed, Distinct
    <2>3. CacheIsGood'
      BY <1>0, <2>1 DEF CacheIsGood, Cached, DigestType, DigestEntry
    <2> QED BY <1>0, <2>1, <2>2, <2>3 DEF DigestInv, DigestType
  <1>5. CASE DigestRestart
    <2>1. /\ woven' = [k \in DigestKeys |-> NoEntry] /\ order' = <<>> /\ holders' = {} /\ refreshes' = {}
          /\ reading' = [r \in Readers |-> NoEntry] /\ UNCHANGED <<digest_day, asked_for, handed>>
      BY <1>5 DEF DigestRestart
    <2>2. Cached' = {} /\ order' \in Seq(DigestKeys) /\ Len(order') = 0
      BY <2>1, EmptySeq DEF Cached
    <2>3. OrderIsCache'
      BY <2>2 DEF OrderIsCache, Distinct, Listed
    <2>4. CacheIsGood'
      BY <2>2, FS_EmptySet DEF CacheIsGood
    <2>5. HandedIsRecent' /\ OneRefresh'
      BY <1>0, <2>1 DEF HandedIsRecent, OneRefresh
    <2> QED BY <1>0, <2>1, <2>3, <2>4, <2>5 DEF DigestInv, DigestType
  <1>6. CASE UNCHANGED digestVars
    <2>1. OrderIsCache' /\ CacheIsGood' /\ HandedIsRecent' /\ OneRefresh'
      BY <1>0, <1>6 DEF digestVars, OrderIsCache, CacheIsGood, HandedIsRecent, OneRefresh, Cached, Listed, Distinct
    <2> QED BY <1>0, <1>6, <2>1 DEF DigestInv, DigestType, digestVars
  <1> QED BY <1>1, <1>2, <1>3, <1>4, <1>5, <1>6 DEF DigestNext

(* However reads, refreshes, midnights and restarts interleave: the cache holds *)
(* good digests only and never more than its cap, nothing older than            *)
(* _MAX_STALE_DAYS is handed over, and a key is locked exactly while its one     *)
(* refresh is in flight.                                                         *)
THEOREM DigestIsKept == DigestSpec => []DigestKept
  <1>1. DigestInv => DigestKept
    BY DEF DigestInv, DigestKept, CacheIsGood, HandedIsRecent, OneRefresh
  <1> QED BY <1>1, DigestStart, DigestStep, PTL DEF DigestSpec

-----------------------------------------------------------------------------
(* Memory.                                                                   *)

MemorySpec == MemoryInit /\ [][MemoryNext]_memoryVars

InCall == [app : Apps, op : {"read", "write", "dossier"}, at : {"send", "minting"}, counts : BOOLEAN]
Subjects == {"user", "techrehearsal:user"}

(* The free captures on their way that are not counted yet.                    *)
Counting == {c \in Callers : calls_in[c] # NoCall /\ calls_in[c].counts}

MemoryType ==
    /\ calls_in \in [Callers -> InCall \cup {NoCall}]
    /\ cooldown \in [Apps -> {"none", "limited", "rejected"}] /\ token \in [Apps -> BOOLEAN]
    /\ strikes \in [Apps -> Nat] /\ rejections \in [Apps -> Nat]
    /\ quilt \in [Subjects -> SUBSET Apps]
    /\ quota \in [used : Nat, period : Nat] /\ period \in Nat /\ taken \in Nat /\ missed \in Nat /\ exempt \in BOOLEAN

(* A subject holds only what its own app wrote: MemoryApart needs to know whose   *)
(* memory an answer is taken from.                                             *)
SubjectsOwned == \A a \in Apps : quilt[subject_for(a)] \subseteq {a}

(* Every strike is a rejection since the last token.                            *)
StrikesEarned == CooldownEarned /\ \A a \in Apps : strikes[a] <= rejections[a]

UsedNow == IF quota.period = period THEN quota.used ELSE 0

QuotaCounted ==
    /\ quota.period <= period
    /\ UsedNow + Cardinality(Counting) + missed = taken
    /\ ~exempt => taken <= FreeQuota + missed + Cardinality(Callers) - 1

MemoryInv == MemoryType /\ SubjectsOwned /\ MemoryApart /\ StrikesEarned /\ QuotaCounted

(* Captures on their way are finitely many, and there is room for a caller.     *)
LEMMA CallersCounted ==
    /\ IsFiniteSet(Counting) /\ Cardinality(Counting) \in Nat /\ Cardinality(Counting) <= Cardinality(Callers)
    /\ IsFiniteSet(Counting') /\ Cardinality(Counting') \in Nat /\ Cardinality(Counting') <= Cardinality(Callers)
    /\ Cardinality(Callers) \in Nat /\ Cardinality(Callers) >= 1
  <1>1. IsFiniteSet(Callers) /\ Callers # {}
    BY MemoryAssumption
  <1>2. Cardinality(Callers) \in Nat /\ Cardinality(Callers) # 0
    BY <1>1, FS_CardinalityType, FS_EmptySet
  <1>3. Counting \in SUBSET Callers /\ Counting' \in SUBSET Callers
    BY DEF Counting
  <1>4. /\ IsFiniteSet(Counting) /\ Cardinality(Counting) <= Cardinality(Callers)
        /\ IsFiniteSet(Counting') /\ Cardinality(Counting') <= Cardinality(Callers)
    BY <1>1, <1>3, FS_Subset
  <1> QED BY <1>2, <1>4, FS_CardinalityType

(* A call that neither begins to count nor is counted leaves the quota alone.    *)
LEMMA CountStays ==
    ASSUME QuotaCounted, Counting' = Counting, UNCHANGED quotaVars
    PROVE  QuotaCounted'
  BY DEF QuotaCounted, UsedNow, quotaVars

(* A call that begins without counting, and what it leaves alone.                *)
CallIs(app, op) == [app |-> app, op |-> op, at |-> _get_auth_headers(app), counts |-> FALSE]

BeginsUncounted(c, app, op) ==
    /\ calls_in[c] = NoCall /\ calls_in' = [calls_in EXCEPT ![c] = CallIs(app, op)]
    /\ UNCHANGED <<plan, quilt, reads, quotaVars, authVars>>

(* It is a call in hand, and not one of those to be counted.                     *)
LEMMA BegunIsUncounted ==
    ASSUME MemoryType, NEW c \in Callers, NEW app \in Apps, NEW op \in {"read", "write", "dossier"},
           BeginsUncounted(c, app, op)
    PROVE  calls_in' \in [Callers -> InCall \cup {NoCall}] /\ Counting' = Counting
  <1> DEFINE call == CallIs(app, op)
  <1>1. call \in InCall /\ call.counts = FALSE
    BY DEF InCall, _get_auth_headers, CallIs
  <1>2. calls_in[c] = NoCall /\ calls_in' = [calls_in EXCEPT ![c] = call]
    BY DEF BeginsUncounted
  <1> HIDE DEF call
  <1>3. /\ calls_in'[c] = call /\ \A d \in Callers : d # c => calls_in'[d] = calls_in[d]
        /\ calls_in' \in [Callers -> InCall \cup {NoCall}]
    BY <1>1, <1>2 DEF MemoryType
  <1>4. \A d \in Callers : (calls_in'[d] # NoCall /\ calls_in'[d].counts) <=> (calls_in[d] # NoCall /\ calls_in[d].counts)
    BY <1>1, <1>2, <1>3
  <1> QED BY <1>3, <1>4 DEF Counting

(* A call that goes on, or ends, without being counted.                          *)
LEMMA GoesUncounted ==
    ASSUME MemoryType, NEW c \in Callers, calls_in[c] # NoCall, NEW call \in InCall \cup {NoCall},
           call = NoCall => ~calls_in[c].counts,
           call # NoCall => (call.counts <=> calls_in[c].counts),
           calls_in' = [calls_in EXCEPT ![c] = call]
    PROVE  calls_in' \in [Callers -> InCall \cup {NoCall}] /\ Counting' = Counting
  <1>1. /\ calls_in'[c] = call /\ \A d \in Callers : d # c => calls_in'[d] = calls_in[d]
        /\ calls_in' \in [Callers -> InCall \cup {NoCall}]
    BY DEF MemoryType
  <1>2. \A d \in Callers : (calls_in'[d] # NoCall /\ calls_in'[d].counts) <=> (calls_in[d] # NoCall /\ calls_in[d].counts)
    BY <1>1
  <1> QED BY <1>1, <1>2 DEF Counting

(* A mint sends the call on, whatever became of it.                              *)
LEMMA MintGoesOn ==
    ASSUME MemoryType, NEW c \in Callers, CallAt(c, "minting"), CallGoes(c, "send")
    PROVE  /\ calls_in' \in [Callers -> InCall \cup {NoCall}] /\ Counting' = Counting
           /\ calls_in[c].app \in Apps
  <1>1. calls_in[c] \in InCall /\ calls_in[c] # NoCall
    BY DEF MemoryType, CallAt
  <1>2. PICK call : call = [calls_in[c] EXCEPT !.at = "send"]
    OBVIOUS
  <1>3. call \in InCall /\ call.counts = calls_in[c].counts
    BY <1>1, <1>2 DEF InCall
  <1>4. calls_in' = [calls_in EXCEPT ![c] = call]
    BY <1>2 DEF CallGoes
  <1>5. call # NoCall
    BY <1>3, MemoryAssumption DEF InCall, Apps
  <1>6. calls_in' \in [Callers -> InCall \cup {NoCall}] /\ Counting' = Counting
    BY <1>1, <1>3, <1>4, <1>5, GoesUncounted
  <1> QED BY <1>1, <1>6 DEF InCall

(* Nobody's memory, no strikes and a full quota.                                *)
LEMMA MemoryStart == MemoryInit => MemoryInv
  <1> SUFFICES ASSUME MemoryInit PROVE MemoryInv
    OBVIOUS
  <1> USE MemoryAssumption
  <1>1. Counting = {}
    BY DEF MemoryInit, Counting
  <1>2. Cardinality(Counting) = 0 /\ Cardinality(Callers) \in Nat /\ Cardinality(Callers) >= 1
    BY <1>1, FS_EmptySet, CallersCounted
  <1>3. MemoryType
    BY DEF MemoryInit, MemoryType, Subjects
  <1>4. QuotaCounted
    BY <1>2 DEF MemoryInit, QuotaCounted, UsedNow
  <1>5. SubjectsOwned /\ MemoryApart /\ StrikesEarned
    BY DEF MemoryInit, SubjectsOwned, MemoryApart, StrikesEarned, CooldownEarned, subject_for, Apps
  <1> QED BY <1>3, <1>4, <1>5 DEF MemoryInv

(* Every step of a call, of a credential, of the plan and of the month.          *)
LEMMA MemoryStep == MemoryInv /\ [MemoryNext]_memoryVars => MemoryInv'
  <1> SUFFICES ASSUME MemoryInv, [MemoryNext]_memoryVars PROVE MemoryInv'
    OBVIOUS
  <1> USE MemoryAssumption
  <1>0. MemoryType /\ SubjectsOwned /\ MemoryApart /\ StrikesEarned /\ QuotaCounted
    BY DEF MemoryInv
  <1>k. /\ Cardinality(Counting) \in Nat /\ IsFiniteSet(Counting) /\ Cardinality(Counting) <= Cardinality(Callers)
        /\ Cardinality(Counting') \in Nat /\ Cardinality(Counting') <= Cardinality(Callers)
        /\ Cardinality(Callers) \in Nat /\ Cardinality(Callers) >= 1
    BY CallersCounted
  <1>u. Uncounted = Cardinality(Counting)
    BY DEF Uncounted, Counting
  <1>q. ASSUME UNCHANGED <<quilt, reads>> PROVE SubjectsOwned' /\ MemoryApart'
    BY <1>0, <1>q DEF SubjectsOwned, MemoryApart
  <1>s. ASSUME UNCHANGED authVars PROVE StrikesEarned'
    BY <1>0, <1>s DEF authVars, StrikesEarned, CooldownEarned
  (* A call that begins without counting: the plan, the memory, the quota and the *)
  (* credential are as they were.                                                *)
  <1>b. ASSUME NEW c \in Callers, NEW app \in Apps, NEW op \in {"read", "write", "dossier"},
               BeginsUncounted(c, app, op)
        PROVE  MemoryInv'
    <2>1. calls_in' \in [Callers -> InCall \cup {NoCall}] /\ Counting' = Counting
      BY <1>0, <1>b, BegunIsUncounted
    <2>2. UNCHANGED <<plan, quilt, reads, quotaVars, authVars>>
      BY <1>b DEF BeginsUncounted
    <2>3. QuotaCounted'
      BY <1>0, <2>1, <2>2, CountStays
    <2>4. MemoryType'
      BY <1>0, <2>1, <2>2 DEF MemoryType, quotaVars, authVars
    <2> QED BY <1>q, <1>s, <2>2, <2>3, <2>4 DEF MemoryInv
  <1>1. ASSUME NEW c \in Callers, NEW app \in Apps, NEW rundown \in BOOLEAN, before_llm(c, app, rundown)
        PROVE  MemoryInv'
    <2>1. PICK op \in {"read", "write", "dossier"} : BeginsUncounted(c, app, op)
      <3>1. BeginsUncounted(c, app, IF rundown /\ "memory" \in plan THEN "dossier" ELSE "read")
        BY <1>1 DEF before_llm, CallBegins, BeginsUncounted, CallIs
      <3> QED BY <3>1
    <2> QED BY <1>b, <2>1
  <1>2. ASSUME NEW c \in Callers, NEW app \in Apps, after_llm(c, app) PROVE MemoryInv'
    <2>1. BeginsUncounted(c, app, "write")
      BY <1>2 DEF after_llm, CallBegins, BeginsUncounted, CallIs
    <2> QED BY <1>b, <2>1
  <1>3. ASSUME NEW c \in Callers, NEW app \in Apps, NEW kind \in {"read", "write"}, _cq_proxy(c, app, kind)
        PROVE  MemoryInv'
    <2>1. BeginsUncounted(c, app, kind) /\ kind \in {"read", "write", "dossier"}
      BY <1>3 DEF _cq_proxy, CallBegins, BeginsUncounted, CallIs
    <2> QED BY <1>b, <2>1
  <1>4. ASSUME NEW c \in Callers, NEW app \in Apps, capture_transcript_to_cq(c, app) PROVE MemoryInv'
    <2> DEFINE counts == resolve_memory_capture_verdict = "capture_with_cta" /\ charged_app(app)
    <2>1. /\ CallBegins(c, app, "write", counts)
          /\ taken' = IF counts THEN taken + 1 ELSE taken
          /\ exempt' = (exempt \/ (counts /\ ~has_quota))
          /\ UNCHANGED <<plan, quilt, reads, quota, period, missed, authVars>>
      BY <1>4 DEF capture_transcript_to_cq
    <2>2. CASE ~counts
      <3>1. taken' = taken /\ exempt' = exempt
        BY <1>0, <2>1, <2>2 DEF MemoryType
      <3>2. calls_in[c] = NoCall /\ calls_in' = [calls_in EXCEPT ![c] = CallIs(app, "write")]
        <4>1. counts = FALSE
          BY <2>2, Zenon
        <4> QED BY <2>1, <4>1 DEF CallBegins, CallIs
      <3>3. BeginsUncounted(c, app, "write")
        BY <2>1, <3>1, <3>2 DEF BeginsUncounted, quotaVars
      <3> QED BY <1>b, <3>3
    <2>3. CASE counts
      <3> DEFINE call == [app |-> app, op |-> "write", at |-> _get_auth_headers(app), counts |-> TRUE]
      <3>1. call \in InCall /\ call.counts = TRUE
        BY DEF InCall, _get_auth_headers
      <3>2. calls_in[c] = NoCall /\ calls_in' = [calls_in EXCEPT ![c] = call]
        BY <2>1, <2>3 DEF CallBegins
      <3>3. call # NoCall
        BY <3>1 DEF InCall, Apps
      <3> HIDE DEF call
      <3>4. /\ calls_in'[c] = call /\ \A d \in Callers : d # c => calls_in'[d] = calls_in[d]
            /\ calls_in' \in [Callers -> InCall \cup {NoCall}]
        BY <1>0, <3>1, <3>2 DEF MemoryType
      <3>5. c \notin Counting /\ Counting' = Counting \cup {c}
        BY <3>1, <3>2, <3>3, <3>4 DEF Counting
      <3>6. Cardinality(Counting') = Cardinality(Counting) + 1
        BY <1>k, <3>5, FS_AddElement
      <3>7. taken' = taken + 1 /\ (~exempt' => ~exempt /\ has_quota) /\ exempt' \in BOOLEAN
        BY <1>0, <2>1, <2>3 DEF MemoryType
      <3>8. MemoryType'
        BY <1>0, <2>1, <3>4, <3>7 DEF MemoryType, authVars
      <3>9. QuotaCounted'
        BY <1>0, <1>k, <2>1, <3>6, <3>7 DEF MemoryType, QuotaCounted, UsedNow, has_quota
      <3> QED BY <1>q, <1>s, <2>1, <3>8, <3>9 DEF MemoryInv
    <2> QED BY <2>2, <2>3
  <1>5. ASSUME NEW c \in Callers, decrement_memory_quota(c) \/ decrement_fails(c) PROVE MemoryInv'
    <2>1. /\ calls_in[c] # NoCall /\ calls_in[c].counts
          /\ \/ quota' = decremented /\ missed' = missed
             \/ quota' = quota /\ missed' = missed + 1
          /\ calls_in' = [calls_in EXCEPT ![c] = [calls_in[c] EXCEPT !.counts = FALSE]]
          /\ UNCHANGED <<plan, made, quilt, reads, period, taken, exempt, authVars>>
      BY <1>5 DEF decrement_memory_quota, decrement_fails
    <2>2. PICK call : call = [calls_in[c] EXCEPT !.counts = FALSE]
      OBVIOUS
    <2>a. calls_in[c] \in InCall
      BY <1>0, <2>1 DEF MemoryType
    <2>3. call \in InCall /\ call.counts = FALSE
      <3>1. PICK v \in BOOLEAN : v = FALSE
        OBVIOUS
      <3>2. call = [calls_in[c] EXCEPT !.counts = v]
        BY <2>2, <3>1
      <3>3. call \in InCall /\ call.counts = v
        BY <2>a, <3>2 DEF InCall
      <3> QED BY <3>1, <3>3
    <2>4. /\ calls_in'[c] = call /\ \A d \in Callers : d # c => calls_in'[d] = calls_in[d]
          /\ calls_in' \in [Callers -> InCall \cup {NoCall}]
      BY <1>0, <2>1, <2>2, <2>3 DEF MemoryType
    <2>5. c \in Counting /\ Counting' = Counting \ {c}
      BY <2>1, <2>3, <2>4 DEF Counting
    <2>6. Cardinality(Counting') = Cardinality(Counting) - 1
      BY <1>k, <2>5, FS_RemoveElement
    <2>7. /\ quota' \in [used : Nat, period : Nat] /\ missed' \in Nat /\ quota'.period <= period
          /\ UsedNow' + missed' = UsedNow + missed + 1
      <3>1. CASE quota' = decremented /\ missed' = missed
        BY <1>0, <2>1, <3>1 DEF decremented, UsedNow, MemoryType
      <3>2. CASE quota' = quota /\ missed' = missed + 1
        BY <1>0, <2>1, <3>2 DEF UsedNow, MemoryType, QuotaCounted
      <3> QED BY <2>1, <3>1, <3>2
    <2>8. MemoryType'
      BY <1>0, <2>1, <2>4, <2>7 DEF MemoryType, authVars
    <2>9. QuotaCounted'
      BY <1>0, <1>k, <2>1, <2>6, <2>7 DEF MemoryType, QuotaCounted, UsedNow
    <2> QED BY <1>q, <1>s, <2>1, <2>8, <2>9 DEF MemoryInv
  <1>6. ASSUME NEW c \in Callers, mint_succeeds(c) PROVE MemoryInv'
    <2>1. /\ calls_in' \in [Callers -> InCall \cup {NoCall}] /\ Counting' = Counting /\ calls_in[c].app \in Apps
          /\ UNCHANGED <<plan, made, quilt, reads, quotaVars>>
      BY <1>0, <1>6, MintGoesOn DEF mint_succeeds
    <2> DEFINE a == calls_in[c].app
    <2>2. /\ token' = [token EXCEPT ![a] = TRUE] /\ cooldown' = [cooldown EXCEPT ![a] = "none"]
          /\ strikes' = [strikes EXCEPT ![a] = 0] /\ rejections' = [rejections EXCEPT ![a] = 0]
      BY <1>6 DEF mint_succeeds, _reset_auth_failure
    <2> HIDE DEF a
    <2>3. MemoryType' /\ StrikesEarned'
      BY <1>0, <2>1, <2>2 DEF MemoryType, StrikesEarned, CooldownEarned, quotaVars, a
    <2> QED BY <1>0, <1>q, <2>1, <2>3, CountStays DEF MemoryInv
  <1>7. ASSUME NEW c \in Callers, mint_rejected(c) PROVE MemoryInv'
    <2>1. /\ calls_in' \in [Callers -> InCall \cup {NoCall}] /\ Counting' = Counting /\ calls_in[c].app \in Apps
          /\ UNCHANGED <<plan, token, made, quilt, reads, quotaVars>>
      BY <1>0, <1>7, MintGoesOn DEF mint_rejected
    <2> DEFINE a == calls_in[c].app
    <2>2. /\ strikes' = [strikes EXCEPT ![a] = strikes[a] + 1] /\ rejections' = [rejections EXCEPT ![a] = rejections[a] + 1]
          /\ cooldown' = IF strikes[a] + 1 >= 2 THEN [cooldown EXCEPT ![a] = "rejected"] ELSE cooldown
      BY <1>7 DEF mint_rejected
    <2>a. a \in Apps
      BY <2>1
    <2> HIDE DEF a
    <2>3. MemoryType'
      BY <1>0, <2>1, <2>2, <2>a DEF MemoryType, quotaVars
    <2>4. StrikesEarned'
      BY <1>0, <2>2, <2>a DEF MemoryType, StrikesEarned, CooldownEarned
    <2> QED BY <1>0, <1>q, <2>1, <2>3, <2>4, CountStays DEF MemoryInv
  <1>8. ASSUME NEW c \in Callers, mint_limited(c) PROVE MemoryInv'
    <2>1. /\ calls_in' \in [Callers -> InCall \cup {NoCall}] /\ Counting' = Counting /\ calls_in[c].app \in Apps
          /\ UNCHANGED <<plan, token, strikes, rejections, made, quilt, reads, quotaVars>>
          /\ cooldown' = [cooldown EXCEPT ![calls_in[c].app] = "limited"]
      BY <1>0, <1>8, MintGoesOn DEF mint_limited
    <2>2. MemoryType' /\ StrikesEarned'
      BY <1>0, <2>1 DEF MemoryType, StrikesEarned, CooldownEarned, quotaVars
    <2> QED BY <1>0, <1>q, <2>1, <2>2, CountStays DEF MemoryInv
  <1>9. ASSUME NEW c \in Callers, mint_error(c) PROVE MemoryInv'
    <2>1. /\ calls_in' \in [Callers -> InCall \cup {NoCall}] /\ Counting' = Counting
          /\ UNCHANGED <<plan, made, quilt, reads, quotaVars, authVars>>
      BY <1>0, <1>9, MintGoesOn DEF mint_error
    <2>2. MemoryType'
      BY <1>0, <2>1 DEF MemoryType, quotaVars, authVars
    <2> QED BY <1>0, <1>q, <1>s, <2>1, <2>2, CountStays DEF MemoryInv
  <1>10. ASSUME NEW c \in Callers, quilt_answers(c) PROVE MemoryInv'
    <2> DEFINE call == calls_in[c]
               subject == subject_of(call.app, call.op)
    <2>1. /\ call # NoCall /\ call \in InCall /\ ~call.counts
          /\ quilt' = IF call.op = "write" THEN [quilt EXCEPT ![subject] = @ \cup {call.app}] ELSE quilt
          /\ reads' = IF call.op = "write" THEN reads
                      ELSE reads \cup {[by |-> call.app, of |-> w, via |-> call.op] : w \in quilt[subject] \ {call.app}}
          /\ calls_in' = [calls_in EXCEPT ![c] = after_call(c, TRUE)]
          /\ UNCHANGED <<plan, made, quotaVars, authVars>>
      BY <1>0, <1>10 DEF quilt_answers, CallAt, MemoryType
    <2>2. after_call(c, TRUE) \in InCall \cup {NoCall} /\ (after_call(c, TRUE) # NoCall => ~after_call(c, TRUE).counts)
      BY <2>1 DEF after_call, InCall, _get_auth_headers
    <2>3. calls_in' \in [Callers -> InCall \cup {NoCall}] /\ Counting' = Counting
      BY <1>0, <2>1, <2>2, GoesUncounted
    <2>4. call.app \in Apps /\ (call.op # "dossier" => subject = subject_for(call.app)) /\ subject \in Subjects
      BY <2>1 DEF InCall, subject_of, subject_for, Subjects
    <2> HIDE DEF call, subject
    <2>5. SubjectsOwned' /\ quilt' \in [Subjects -> SUBSET Apps]
      <3>1. CASE call.op = "write"
        BY <1>0, <2>1, <2>4, <3>1 DEF SubjectsOwned, MemoryType, subject_for, Subjects, Apps
      <3>2. CASE call.op # "write"
        BY <1>0, <2>1, <3>2 DEF SubjectsOwned, MemoryType
      <3> QED BY <3>1, <3>2
    <2>6. MemoryApart'
      <3>1. CASE call.op = "dossier"
        BY <1>0, <2>1, <3>1 DEF MemoryApart
      <3>2. CASE call.op # "dossier"
        <4>1. quilt[subject] \ {call.app} = {}
          BY <1>0, <2>4, <3>2 DEF SubjectsOwned
        <4>2. reads' = reads
          BY <2>1, <4>1
        <4> QED BY <1>0, <4>2 DEF MemoryApart
      <3> QED BY <3>1, <3>2
    <2>7. MemoryType'
      BY <1>0, <2>1, <2>3, <2>5 DEF MemoryType, quotaVars, authVars
    <2> QED BY <1>0, <1>s, <2>1, <2>3, <2>5, <2>6, <2>7, CountStays DEF MemoryInv
  <1>11. ASSUME NEW c \in Callers, quilt_fails(c) PROVE MemoryInv'
    <2>1. /\ calls_in[c] # NoCall /\ calls_in[c] \in InCall /\ ~calls_in[c].counts
          /\ calls_in' = [calls_in EXCEPT ![c] = after_call(c, FALSE)]
          /\ UNCHANGED <<plan, made, quilt, reads, quotaVars, authVars>>
      BY <1>0, <1>11 DEF quilt_fails, CallAt, MemoryType
    <2>2. after_call(c, FALSE) \in InCall \cup {NoCall} /\ (after_call(c, FALSE) # NoCall => ~after_call(c, FALSE).counts)
      BY <2>1 DEF after_call, InCall, _get_auth_headers
    <2>3. calls_in' \in [Callers -> InCall \cup {NoCall}] /\ Counting' = Counting
      BY <1>0, <2>1, <2>2, GoesUncounted
    <2>4. MemoryType'
      BY <1>0, <2>1, <2>3 DEF MemoryType, quotaVars, authVars
    <2> QED BY <1>0, <1>q, <1>s, <2>1, <2>3, <2>4, CountStays DEF MemoryInv
  <1>12. ASSUME NEW a \in Apps, token_expires(a) \/ cooldown_ends(a) PROVE MemoryInv'
    <2>1. UNCHANGED <<plan, calls_in, made, quilt, reads, quotaVars>>
      BY <1>12 DEF token_expires, cooldown_ends
    <2>2. MemoryType' /\ StrikesEarned'
      <3>1. CASE token_expires(a)
        BY <1>0, <2>1, <3>1 DEF token_expires, MemoryType, StrikesEarned, CooldownEarned, quotaVars
      <3>2. CASE cooldown_ends(a)
        BY <1>0, <2>1, <3>2 DEF cooldown_ends, MemoryType, StrikesEarned, CooldownEarned, quotaVars
      <3> QED BY <1>12, <3>1, <3>2
    <2>3. Counting' = Counting
      BY <2>1 DEF Counting
    <2> QED BY <1>0, <1>q, <2>1, <2>2, <2>3, CountStays DEF MemoryInv
  <1>13. ASSUME NEW p \in Plans, zero_memory_quota_on_tier_change(p) PROVE MemoryInv'
    <2>1. /\ quota' = [used |-> 0, period |-> period] /\ taken' = Cardinality(Counting) /\ missed' = 0
          /\ exempt' = (exempt /\ Cardinality(Counting) # 0)
          /\ UNCHANGED <<calls_in, made, quilt, reads, period, authVars>>
      BY <1>13, <1>u DEF zero_memory_quota_on_tier_change
    <2>2. Counting' = Counting
      BY <2>1 DEF Counting
    <2>3. exempt' \in BOOLEAN /\ (~exempt' => ~exempt \/ Cardinality(Counting) = 0)
      BY <2>1
    <2>4. MemoryType'
      BY <1>0, <1>k, <2>1, <2>3 DEF MemoryType, authVars
    <2>5. QuotaCounted'
      BY <1>0, <1>k, <2>1, <2>2, <2>3 DEF MemoryType, QuotaCounted, UsedNow
    <2> QED BY <1>q, <1>s, <2>1, <2>4, <2>5 DEF MemoryInv
  <1>14. ASSUME NEW p \in Plans, PlanMoves(p) PROVE MemoryInv'
    <2>1. UNCHANGED <<calls_in, made, quilt, reads, quotaVars, authVars>>
      BY <1>14 DEF PlanMoves
    <2>2. Counting' = Counting /\ MemoryType'
      BY <1>0, <2>1 DEF Counting, MemoryType, quotaVars, authVars
    <2> QED BY <1>0, <1>q, <1>s, <2>1, <2>2, CountStays DEF MemoryInv
  <1>15. CASE NewPeriod
    <2>1. /\ period' = period + 1 /\ taken' = Cardinality(Counting) /\ missed' = 0
          /\ exempt' = (exempt /\ Cardinality(Counting) # 0)
          /\ UNCHANGED <<plan, calls_in, made, quilt, reads, quota, authVars>>
      BY <1>15, <1>u DEF NewPeriod
    <2>2. Counting' = Counting
      BY <2>1 DEF Counting
    <2>3. exempt' \in BOOLEAN /\ (~exempt' => ~exempt \/ Cardinality(Counting) = 0)
      BY <2>1
    <2>4. MemoryType'
      BY <1>0, <1>k, <2>1, <2>3 DEF MemoryType, authVars
    <2>5. QuotaCounted'
      BY <1>0, <1>k, <2>1, <2>2, <2>3 DEF MemoryType, QuotaCounted, UsedNow
    <2> QED BY <1>q, <1>s, <2>1, <2>4, <2>5 DEF MemoryInv
  <1>16. CASE UNCHANGED memoryVars
    <2>1. UNCHANGED <<calls_in, made, quilt, reads, quotaVars, authVars>>
      BY <1>16 DEF memoryVars, quotaVars, authVars
    <2>2. Counting' = Counting /\ MemoryType'
      BY <1>0, <2>1 DEF Counting, MemoryType, quotaVars, authVars
    <2> QED BY <1>0, <1>q, <1>s, <2>1, <2>2, CountStays DEF MemoryInv
  <1> QED BY <1>1, <1>2, <1>3, <1>4, <1>5, <1>6, <1>7, <1>8, <1>9, <1>10, <1>11, <1>12, <1>13, <1>14, <1>15, <1>16
          DEF MemoryNext

(* However calls of two apps, credentials, plans and months interleave: an app is *)
(* given another's memory through the dossier only, it stops asking only after two *)
(* rejections in a row, and every free capture of a month is counted in it once or  *)
(* its count failed, so that only such and those that began together pass the quota.*)
THEOREM MemoryIsKept == MemorySpec => []MemoryKept
  <1>1. MemoryInv => MemoryKept
    BY DEF MemoryInv, MemoryKept, StrikesEarned, QuotaCounted, QuotaKept, UsedNow, Uncounted, Counting
  <1> QED BY <1>1, MemoryStart, MemoryStep, PTL DEF MemorySpec

-----------------------------------------------------------------------------
(* Shares.                                                                   *)

SharesSpec == SharesInit /\ [][SharesNext]_shareVars

Parts == {"archive", "audio", "card"}
HandSet == [op : {"idle", "create", "revoke", "purge", "audio", "card"},
            at : {"idle", "uploading", "inserting", "marking", "unlinking", "deleting", "reading", "translating"},
            id : ShareIds \cup {NoShare}, sweep : SUBSET [id : ShareIds, path : BOOLEAN]]

SharesType ==
    /\ shares \in [ShareIds -> [state : {"new", "held", "gone"}, created : Nat, revoked : BOOLEAN, path : BOOLEAN]]
    /\ volume \subseteq ShareIds \X Parts /\ leaked \subseteq ShareIds \X Parts
    /\ hands \in [Handlers -> HandSet]
    /\ sday \in Nat /\ \A i \in ShareIds : shares[i].created <= sday

(* A share that will never have a file again that is not left behind; S, V and L *)
(* are the rows, the volume and what was left behind.                            *)
Barren(i, S, V, L) ==
    /\ S[i].state # "new"
    /\ \A p \in Parts : <<i, p>> \in V => <<i, p>> \in L

(* Its archive is gone or was left behind.                                       *)
Settled(i, V, L) == <<i, "archive">> \in V => <<i, "archive">> \in L

(* What a handler may rely on between two of its awaits, whatever the others did. *)
Relies(x, S, V, L) ==
    /\ x \in HandSet /\ (x.op = "create" <=> x.at \in {"uploading", "inserting"})
    /\ x.at \in {"inserting", "marking", "reading", "translating"} => x.id \in ShareIds
    /\ x.at = "inserting" => S[x.id].state = "new" /\ <<x.id, "archive">> \in V /\ <<x.id, "archive">> \notin L
    /\ x.at = "marking" => S[x.id].state # "new" /\ Settled(x.id, V, L)
    /\ x.at \in {"reading", "translating"} => S[x.id].state # "new"
    /\ \A r \in x.sweep : S[r.id].state # "new" /\ (x.at = "deleting" \/ ~r.path => Barren(r.id, S, V, L))

HandsRely == \A h \in Handlers : Relies(hands[h], shares, volume, leaked)

Inserting(h, i) == hands[h].at = "inserting" /\ hands[h].id = i
OneInserts == \A g, h \in Handlers : \A i \in ShareIds : Inserting(g, i) /\ Inserting(h, i) => g = h

(* Of a share without a row there is an archive at most, and an archive left    *)
(* behind is still there.                                                      *)
NewIsPlain ==
    /\ \A i \in ShareIds : shares[i].state = "new" => <<i, "audio">> \notin volume /\ <<i, "card">> \notin volume
    /\ \A i \in ShareIds : <<i, "archive">> \in leaked => <<i, "archive">> \in volume

Accounted ==
    \A i \in ShareIds, p \in Parts :
        <<i, p>> \in volume /\ <<i, p>> \notin leaked =>
            (shares[i].state = "held" /\ shares[i].path) \/ \E h \in Handlers : Inserting(h, i)

FilesInv == SharesType /\ HandsRely /\ OneInserts /\ NewIsPlain /\ Accounted

Today == {i \in ShareIds : shares[i].state = "held" /\ shares[i].created = sday}

(* Room for the upload in hand, which is the only one, is kept.                 *)
DayInv ==
    ~overlap => /\ \A g, h \in Uploads : g = h
                /\ Cardinality(Today) <= DayCap
                /\ Uploads # {} => Cardinality(Today) < DayCap

(* A share whose row has lost its path is barren, and so is one that is gone.    *)
LEMMA PathlessIsBarren ==
    ASSUME FilesInv, NEW i \in ShareIds, shares[i].state # "new", ~(shares[i].state = "held" /\ shares[i].path)
    PROVE  Barren(i, shares, volume, leaked)
  <1>1. \A h \in Handlers : ~Inserting(h, i)
    BY DEF FilesInv, HandsRely, Relies, Inserting
  <1>2. \A p \in Parts : <<i, p>> \in volume => <<i, p>> \in leaked
    BY <1>1 DEF FilesInv, Accounted
  <1> QED BY <1>2 DEF Barren

(* No file, no row and no handler.                                              *)
LEMMA SharesStart == SharesInit => FilesInv /\ DayInv
  <1> SUFFICES ASSUME SharesInit PROVE FilesInv /\ DayInv
    OBVIOUS
  <1> USE SharesAssumption
  <1>1. /\ \A i \in ShareIds : shares[i] = [state |-> "new", created |-> 0, revoked |-> FALSE, path |-> FALSE]
        /\ volume = {} /\ leaked = {} /\ sday = 0
    BY DEF SharesInit, Row
  <1>2. \A h \in Handlers : hands[h].op = "idle" /\ hands[h].at = "idle" /\ hands[h].sweep = {} /\ hands[h] \in HandSet
    BY DEF SharesInit, Idle, HandSet
  <1>3. SharesType
    BY <1>1, <1>2 DEF SharesInit, Row, SharesType
  <1>4. HandsRely
    BY <1>2 DEF HandsRely, Relies
  <1>5. OneInserts /\ NewIsPlain /\ Accounted
    BY <1>1, <1>2 DEF OneInserts, NewIsPlain, Accounted, Inserting
  <1>6. Today = {} /\ Uploads = {}
    BY <1>1, <1>2 DEF Today, Uploads
  <1>7. DayInv
    BY <1>6, FS_EmptySet DEF DayInv
  <1> QED BY <1>3, <1>4, <1>5, <1>7 DEF FilesInv
(* What a handler relies on is out of reach of a step that keeps rows, leaves     *)
(* barren shares barren, brings no archive back, and does not touch the archive of *)
(* the upload it has in hand.                                                   *)
LEMMA ReliesStill ==
    ASSUME NEW x, NEW S, NEW V, NEW L, NEW T, NEW W, NEW M, Relies(x, S, V, L),
           \A i \in ShareIds : S[i].state # "new" =>
               /\ T[i].state # "new" /\ (Settled(i, V, L) => Settled(i, W, M))
               /\ Barren(i, S, V, L) => Barren(i, T, W, M),
           x.at = "inserting" => /\ T[x.id].state = "new" /\ <<x.id, "archive">> \in W
                                 /\ <<x.id, "archive">> \notin M
    PROVE  Relies(x, T, W, M)
  <1>1. x \in HandSet /\ \A r \in x.sweep : r.id \in ShareIds
    BY DEF Relies, HandSet
  <1>2. \A r \in x.sweep : T[r.id].state # "new" /\ (x.at = "deleting" \/ ~r.path => Barren(r.id, T, W, M))
    BY <1>1 DEF Relies
  <1>3. /\ x.at = "marking" => T[x.id].state # "new" /\ Settled(x.id, W, M)
        /\ x.at \in {"reading", "translating"} => T[x.id].state # "new"
    BY DEF Relies
  <1> QED BY <1>2, <1>3 DEF Relies

(* Steps that write neither a row nor a file: a handler that is not inserting, nor *)
(* about to, goes on or ends.                                                   *)
LEMMA HandGoesOn ==
    ASSUME FilesInv, NEW h \in Handlers, NEW x, Relies(x, shares, volume, leaked), x.at # "inserting",
           hands[h].at # "inserting", hands' = [hands EXCEPT ![h] = x], UNCHANGED <<shares, volume, sday, leaked>>
    PROVE  FilesInv'
  <1>1. /\ hands'[h] = x /\ \A g \in Handlers : g # h => hands'[g] = hands[g]
        /\ hands' \in [Handlers -> HandSet]
    BY DEF FilesInv, SharesType, Relies
  <1>2. HandsRely'
    BY <1>1 DEF FilesInv, HandsRely
  <1>3. \A g \in Handlers, i \in ShareIds : Inserting(g, i)' <=> Inserting(g, i)
    BY <1>1 DEF Inserting
  <1>4. OneInserts'
    BY <1>3 DEF OneInserts, FilesInv
  <1>5. Accounted'
    BY <1>3 DEF Accounted, FilesInv
  <1> QED BY <1>1, <1>2, <1>4, <1>5 DEF FilesInv, SharesType, NewIsPlain

(* A handler that is done relies on nothing.                                     *)
LEMMA IdleRelies ==
    \A S, V, L : Relies(Idle, S, V, L)
  BY DEF Relies, Idle, HandSet

(* Steps that write: every handler either relies on what it now finds or is as it *)
(* was, and then what it relies on is out of the step's reach.                   *)
Unharmed(i) ==
    shares[i].state # "new" =>
        /\ shares'[i].state # "new" /\ (Settled(i, volume, leaked) => Settled(i, volume', leaked'))
        /\ Barren(i, shares, volume, leaked) => Barren(i, shares', volume', leaked')

(* The row and the archive of an upload about to insert are not touched.         *)
Pending(i) == shares'[i].state = "new" /\ <<i, "archive">> \in volume' /\ <<i, "archive">> \notin leaked'

(* What a handler relies on holds after a step that harms no share, whether the     *)
(* handler moved or not.                                                         *)
LEMMA HandsRelyStill ==
    ASSUME FilesInv, \A i \in ShareIds : Unharmed(i),
           \A g \in Handlers : \/ Relies(hands'[g], shares', volume', leaked')
                               \/ hands'[g] = hands[g] /\ (hands[g].at = "inserting" => Pending(hands[g].id))
    PROVE  HandsRely'
  <1> SUFFICES ASSUME NEW g \in Handlers, hands'[g] = hands[g], hands[g].at = "inserting" => Pending(hands[g].id)
               PROVE  Relies(hands'[g], shares', volume', leaked')
    BY DEF HandsRely
  <1>1. Relies(hands[g], shares, volume, leaked)
    BY DEF FilesInv, HandsRely
  <1> QED BY <1>1, ReliesStill DEF Unharmed, Pending

(* Every step of a handler, of the account, of the day and of the process.        *)
LEMMA FilesStep == FilesInv /\ [SharesNext]_shareVars => FilesInv'
  <1> SUFFICES ASSUME FilesInv, [SharesNext]_shareVars PROVE FilesInv'
    OBVIOUS
  <1>0. SharesType /\ HandsRely /\ OneInserts /\ NewIsPlain /\ Accounted
    BY DEF FilesInv
  <1>h. \A h \in Handlers : Relies(hands[h], shares, volume, leaked) /\ hands[h] \in HandSet
    BY <1>0 DEF HandsRely, Relies
  <1>f. \A x, h : hands' = [hands EXCEPT ![h] = x] /\ h \in Handlers =>
            hands'[h] = x /\ \A g \in Handlers : g # h => hands'[g] = hands[g]
    BY <1>0 DEF SharesType
  <1>1. ASSUME NEW h \in Handlers, create_share(h) PROVE FilesInv'
    <2> DEFINE x == [op |-> "create", at |-> "uploading", id |-> NoShare, sweep |-> {}]
    <2>1. /\ hands[h].at # "inserting" /\ hands' = [hands EXCEPT ![h] = x]
          /\ UNCHANGED <<shares, volume, sday, leaked>>
      BY <1>1 DEF create_share, Idle, Hand
    <2>2. Relies(x, shares, volume, leaked) /\ x.at # "inserting"
      BY DEF Relies, HandSet
    <2> HIDE DEF x
    <2> QED BY <2>1, <2>2, HandGoesOn
  <1>2. ASSUME NEW h \in Handlers, _read_archive_refuses(h) PROVE FilesInv'
    <2>1. /\ hands[h].at # "inserting" /\ hands' = [hands EXCEPT ![h] = Idle]
          /\ UNCHANGED <<shares, volume, sday, leaked>>
      BY <1>2 DEF _read_archive_refuses, Done
    <2>2. Relies(Idle, shares, volume, leaked) /\ Idle.at # "inserting"
      BY IdleRelies DEF Idle
    <2> QED BY <2>1, <2>2, HandGoesOn
  <1>3. ASSUME NEW h \in Handlers, write_archive(h) PROVE FilesInv'
    <2>1. PICK i \in ShareIds :
            /\ shares[i].state = "new" /\ \A p \in Parts : <<i, p>> \notin volume
            /\ \A g \in Handlers : ~Inserting(g, i)
            /\ hands[h].at = "uploading" /\ volume' = volume \cup {<<i, "archive">>}
            /\ hands' = [hands EXCEPT ![h] = [op |-> "create", at |-> "inserting", id |-> i, sweep |-> {}]]
      <3>1. PICK i : i = CHOOSE y \in FreshIds : TRUE
        OBVIOUS
      <3>2. /\ FreshIds # {} /\ hands[h].at = "uploading" /\ volume' = volume \cup {<<i, "archive">>}
            /\ hands' = [hands EXCEPT ![h] = [op |-> "create", at |-> "inserting", id |-> i, sweep |-> {}]]
        BY <1>3, <3>1 DEF write_archive, Hand
      <3>3. i \in FreshIds
        BY <3>1, <3>2
      <3>4. /\ i \in ShareIds /\ shares[i].state = "new" /\ \A p \in Parts : <<i, p>> \notin volume
            /\ \A g \in Handlers : hands[g].op = "create" => hands[g].id # i
        BY <3>3 DEF FreshIds
      <3>5. \A g \in Handlers : ~Inserting(g, i)
        BY <1>h, <3>4 DEF Inserting, Relies
      <3> QED BY <3>2, <3>4, <3>5
    <2> DEFINE x == [op |-> "create", at |-> "inserting", id |-> i, sweep |-> {}]
    <2>2. UNCHANGED <<shares, leaked, sday>>
      BY <1>3 DEF write_archive
    <2>3. /\ x.at = "inserting" /\ x.id = i /\ x \in HandSet /\ x.op = "create" /\ x.sweep = {}
      BY DEF HandSet
    <2> HIDE DEF x
    <2>x. hands' = [hands EXCEPT ![h] = x]
      BY <2>1 DEF x
    <2>4. hands'[h] = x /\ \A g \in Handlers : g # h => hands'[g] = hands[g]
      BY <1>f, <2>x
    <2>5. <<i, "archive">> \notin leaked
      BY <1>0, <2>1 DEF NewIsPlain, Parts
    <2>6. Relies(x, shares', volume', leaked')
      BY <2>1, <2>2, <2>3, <2>5 DEF Relies
    <2>7. \A j \in ShareIds : Unharmed(j)
      BY <2>1, <2>2 DEF Unharmed, Barren, Settled
    <2>8. \A g \in Handlers : hands[g].at = "inserting" => Pending(hands[g].id)
      BY <1>h, <2>1, <2>2 DEF Pending, Relies
    <2>9. HandsRely'
      BY <2>4, <2>6, <2>7, <2>8, HandsRelyStill
    <2>v. volume' \subseteq ShareIds \X Parts
      BY <1>0, <2>1 DEF SharesType, Parts
    <2>10. SharesType'
      BY <1>0, <2>2, <2>3, <2>x, <2>v DEF SharesType
    <2>11. OneInserts'
      BY <1>0, <2>1, <2>3, <2>4 DEF OneInserts, Inserting
    <2>12. NewIsPlain'
      BY <1>0, <2>1, <2>2 DEF NewIsPlain
    <2>13. \A j \in ShareIds : (\E g \in Handlers : Inserting(g, j)) \/ j = i => \E g \in Handlers : Inserting(g, j)'
      BY <2>1, <2>3, <2>4 DEF Inserting
    <2>14. Accounted'
      BY <1>0, <2>1, <2>2, <2>13 DEF Accounted
    <2> QED BY <2>9, <2>10, <2>11, <2>12, <2>14 DEF FilesInv
  <1>4. ASSUME NEW h \in Handlers, insert_share(h) \/ insert_fails(h) PROVE FilesInv'
    <2> DEFINE i == hands[h].id
    <2>1. /\ hands[h].at = "inserting" /\ hands' = [hands EXCEPT ![h] = Idle] /\ UNCHANGED <<volume, sday>>
          /\ hands'[h] = Idle /\ \A g \in Handlers : g # h => hands'[g] = hands[g]
      BY <1>4, <1>f DEF insert_share, insert_fails, Done
    <2>2. /\ i \in ShareIds /\ shares[i].state = "new" /\ <<i, "archive">> \in volume
          /\ <<i, "archive">> \notin leaked /\ \A g \in Handlers : g # h => ~Inserting(g, i)
      BY <1>0, <1>h, <2>1 DEF Relies, OneInserts, Inserting
    <2>4. \/ UNCHANGED leaked /\ shares' = [shares EXCEPT ![i] = Row("held", TRUE)]
          \/ UNCHANGED shares /\ leaked' = leaked \cup {<<i, "archive">>}
      BY <1>4 DEF insert_share, insert_fails
    <2> HIDE DEF i
    <2>r. shares' = [shares EXCEPT ![i] = Row("held", TRUE)] =>
              shares'[i] = Row("held", TRUE) /\ \A j \in ShareIds : j # i => shares'[j] = shares[j]
      BY <1>0, <2>2 DEF SharesType
    <2>l. \A j \in ShareIds : j # i => \A p \in Parts : <<j, p>> \in leaked' <=> <<j, p>> \in leaked
      <3> SUFFICES ASSUME NEW j \in ShareIds, j # i, NEW p \in Parts PROVE <<j, p>> \in leaked' <=> <<j, p>> \in leaked
        OBVIOUS
      <3>1. CASE UNCHANGED leaked
        BY <3>1
      <3>2. CASE leaked' = leaked \cup {<<i, "archive">>}
        BY <3>2
      <3> QED BY <2>4, <3>1, <3>2
    <2>s. \A j \in ShareIds : j # i => shares'[j] = shares[j]
      BY <2>4, <2>r
    <2>3. \A j \in ShareIds : j # i => shares'[j] = shares[j] /\ \A p \in Parts : <<j, p>> \in leaked' <=> <<j, p>> \in leaked
      BY <2>l, <2>s
    <2>i. hands[h].id = i
      BY DEF i
    <2>5. \A j \in ShareIds : Unharmed(j)
      <3> SUFFICES ASSUME NEW j \in ShareIds, shares[j].state # "new" PROVE Unharmed(j)
        BY DEF Unharmed
      <3>1. j # i /\ "archive" \in Parts
        BY <2>2 DEF Parts
      <3> QED BY <2>1, <2>3, <3>1 DEF Unharmed, Barren, Settled
    <2>6. \A g \in Handlers : g # h /\ hands[g].at = "inserting" => Pending(hands[g].id)
      BY <1>h, <2>1, <2>2, <2>3 DEF Pending, Relies, Inserting, Parts
    <2>7. HandsRely'
      BY <2>1, <2>5, <2>6, IdleRelies, HandsRelyStill
    <2>8. SharesType'
      <3>1. Idle \in HandSet
        BY DEF Idle, HandSet
      <3>2. CASE UNCHANGED leaked /\ shares' = [shares EXCEPT ![i] = Row("held", TRUE)]
        BY <1>0, <2>1, <2>2, <3>1, <3>2 DEF SharesType, Row
      <3>3. CASE UNCHANGED shares /\ leaked' = leaked \cup {<<i, "archive">>}
        BY <1>0, <2>1, <2>2, <3>1, <3>3 DEF SharesType, Parts
      <3> QED BY <2>4, <3>2, <3>3
    <2>9. \A g \in Handlers, j \in ShareIds : Inserting(g, j)' <=> g # h /\ Inserting(g, j)
      BY <2>1 DEF Inserting, Idle
    <2>10. OneInserts'
      BY <1>0, <2>9 DEF OneInserts
    <2>11. NewIsPlain'
      BY <1>0, <2>1, <2>2, <2>3, <2>4, <2>r DEF NewIsPlain, Parts, Row
    <2>12. Accounted'
      <3> SUFFICES ASSUME NEW j \in ShareIds, NEW p \in Parts, <<j, p>> \in volume', <<j, p>> \notin leaked'
                   PROVE  (shares'[j].state = "held" /\ shares'[j].path) \/ \E g \in Handlers : Inserting(g, j)'
        BY DEF Accounted
      <3>1. CASE j # i
        <4>1. (shares[j].state = "held" /\ shares[j].path) \/ \E g \in Handlers : Inserting(g, j)
          BY <1>0, <2>1, <2>3, <3>1 DEF Accounted
        <4>2. ~Inserting(h, j)
          BY <2>i, <3>1 DEF Inserting
        <4> QED BY <2>3, <2>9, <3>1, <4>1, <4>2
      <3>2. CASE j = i
        <4>1. p = "archive"
          BY <1>0, <2>1, <2>2, <3>2 DEF NewIsPlain, Parts
        <4> QED BY <2>4, <2>r, <3>2, <4>1 DEF Row
      <3> QED BY <3>1, <3>2
    <2> QED BY <2>7, <2>8, <2>10, <2>11, <2>12 DEF FilesInv
  <1>5. ASSUME NEW h \in Handlers, NEW i \in ShareIds, NEW refused \in SUBSET Files(i, {"archive"}),
               revoke_unlinks(h, i, refused)
        PROVE  FilesInv'
    <2> DEFINE x == [op |-> "revoke", at |-> "marking", id |-> i, sweep |-> {}]
    <2>1. /\ hands[h] = Idle /\ shares[i].state = "held" /\ hands' = [hands EXCEPT ![h] = x] /\ UNCHANGED <<shares, sday>>
      BY <1>5 DEF revoke_unlinks, Hand
    <2>2. x \in HandSet /\ x.at = "marking" /\ x.id = i /\ x.op = "revoke" /\ x.sweep = {}
      BY DEF HandSet
    <2> HIDE DEF x
    <2>a. PICK archive \in SUBSET ({i} \X {"archive"}) :
            /\ archive = (IF shares[i].path THEN volume \cap ({i} \X {"archive"}) ELSE {})
            /\ refused \subseteq archive /\ volume' = volume \ (archive \ refused)
            /\ leaked' = (leaked \ archive) \cup refused
      BY <1>5 DEF revoke_unlinks, Files
    <2>b. /\ \A j \in ShareIds, p \in Parts : j # i \/ p # "archive" =>
                /\ <<j, p>> \in volume' <=> <<j, p>> \in volume
                /\ <<j, p>> \in leaked' <=> <<j, p>> \in leaked
          /\ <<i, "archive">> \in volume' => <<i, "archive">> \in volume
          /\ <<i, "archive">> \in leaked' => <<i, "archive">> \in volume' \/ <<i, "archive">> \in leaked
          /\ "archive" \in Parts /\ "audio" \in Parts /\ "card" \in Parts
      BY <2>a DEF Parts
    <2>c. Settled(i, volume', leaked')
      <3>1. CASE shares[i].path
        BY <2>a, <3>1 DEF Settled
      <3>2. CASE ~shares[i].path
        <4>1. Barren(i, shares, volume, leaked)
          BY <2>1, <3>2, PathlessIsBarren
        <4> QED BY <2>a, <2>b, <3>2, <4>1 DEF Settled, Barren
      <3> QED BY <3>1, <3>2
    <2>d. <<i, "archive">> \in leaked' => <<i, "archive">> \in volume'
      BY <1>0, <2>a DEF NewIsPlain
    <2>e. volume' \subseteq volume /\ leaked' \subseteq ShareIds \X Parts
      BY <1>0, <2>a, <2>b DEF SharesType
    <2>3. hands'[h] = x /\ \A g \in Handlers : g # h => hands'[g] = hands[g]
      BY <1>f, <2>1
    <2>4. Relies(x, shares', volume', leaked')
      BY <2>1, <2>2, <2>c DEF Relies
    <2>5. \A j \in ShareIds : Unharmed(j)
      BY <2>1, <2>b, <2>c DEF Unharmed, Barren, Settled
    <2>6. \A g \in Handlers : hands[g].at = "inserting" => Pending(hands[g].id)
      BY <1>h, <2>1, <2>b DEF Pending, Relies
    <2>7. HandsRely'
      BY <2>3, <2>4, <2>5, <2>6, HandsRelyStill
    <2>8. SharesType'
      BY <1>0, <2>1, <2>2, <2>e DEF SharesType
    <2>9. \A g \in Handlers, j \in ShareIds : Inserting(g, j)' <=> Inserting(g, j)
      BY <2>1, <2>2, <2>3 DEF Inserting, Idle
    <2>10. OneInserts' /\ Accounted' /\ NewIsPlain'
      BY <1>0, <2>1, <2>9, <2>b, <2>c, <2>d DEF OneInserts, Accounted, NewIsPlain, Settled
    <2> QED BY <2>7, <2>8, <2>10 DEF FilesInv
  <1>6. ASSUME NEW h \in Handlers, revoke_marks(h) PROVE FilesInv'
    <2> DEFINE i == hands[h].id
    <2>1. /\ hands[h].at = "marking" /\ hands' = [hands EXCEPT ![h] = Idle] /\ UNCHANGED <<volume, sday>>
          /\ hands'[h] = Idle /\ \A g \in Handlers : g # h => hands'[g] = hands[g]
      <3>1. /\ hands[h].at = "marking" /\ hands' = [hands EXCEPT ![h] = Idle] /\ UNCHANGED <<volume, sday>>
        BY <1>6, Zenon DEF revoke_marks, Done
      <3> QED BY <1>f, <3>1, Zenon
    <2>2. i \in ShareIds /\ shares[i].state # "new" /\ Settled(i, volume, leaked)
      BY <1>h, <2>1 DEF Relies
    <2>3. leaked' = leaked \cup (volume \cap ({i} \X {"audio", "card"}))
      BY <1>6 DEF revoke_marks, Files, Sidecars
    <2>4. /\ shares' \in [ShareIds -> [state : {"new", "held", "gone"}, created : Nat, revoked : BOOLEAN, path : BOOLEAN]]
          /\ \A j \in ShareIds : j # i => shares'[j] = shares[j]
          /\ shares'[i].state = shares[i].state /\ shares'[i].created = shares[i].created
      <3>1. PICK row : row = [[shares[i] EXCEPT !.revoked = TRUE] EXCEPT !.path = FALSE]
        OBVIOUS
      <3>2. CASE shares[i].state = "held"
        <4>1. shares' = [shares EXCEPT ![i] = row]
          BY <1>0, <1>6, <2>2, <3>1, <3>2 DEF revoke_marks, SharesType
        <4>2. /\ row \in [state : {"new", "held", "gone"}, created : Nat, revoked : BOOLEAN, path : BOOLEAN]
              /\ row.state = shares[i].state /\ row.created = shares[i].created
          BY <1>0, <2>2, <3>1 DEF SharesType
        <4> QED BY <1>0, <2>2, <4>1, <4>2 DEF SharesType
      <3>3. CASE shares[i].state # "held"
        <4>1. UNCHANGED shares
          BY <1>6, <3>3 DEF revoke_marks
        <4> QED BY <1>0, <4>1 DEF SharesType
      <3> QED BY <3>2, <3>3
    <2> HIDE DEF i
    <2>5. /\ \A j \in ShareIds : j # i => \A p \in Parts : <<j, p>> \in leaked' <=> <<j, p>> \in leaked
          /\ \A p \in Parts : <<i, p>> \in volume => <<i, p>> \in leaked'
          /\ \A j \in ShareIds : <<j, "archive">> \in leaked' <=> <<j, "archive">> \in leaked
          /\ leaked \subseteq leaked' /\ leaked' \subseteq ShareIds \X Parts
      BY <1>0, <2>2, <2>3 DEF Parts, SharesType, Settled
    <2>6. \A j \in ShareIds : Unharmed(j)
      BY <2>1, <2>4, <2>5 DEF Unharmed, Barren, Settled
    <2>7. \A g \in Handlers : hands[g].at = "inserting" => Pending(hands[g].id)
      BY <1>h, <2>1, <2>4, <2>5 DEF Pending, Relies
    <2>8. HandsRely'
      BY <2>1, <2>6, <2>7, IdleRelies, HandsRelyStill
    <2>9. SharesType'
      <3>1. Idle \in HandSet
        BY DEF Idle, HandSet
      <3> QED BY <1>0, <2>1, <2>4, <2>5, <3>1 DEF SharesType
    <2>10. \A g \in Handlers, j \in ShareIds : Inserting(g, j)' <=> Inserting(g, j)
      BY <2>1 DEF Inserting, Idle
    <2>11. NewIsPlain'
      BY <1>0, <2>1, <2>4, <2>5 DEF NewIsPlain
    <2>12. OneInserts' /\ Accounted'
      BY <1>0, <2>1, <2>4, <2>5, <2>10 DEF OneInserts, Accounted
    <2> QED BY <2>8, <2>9, <2>11, <2>12 DEF FilesInv
  <1>7. ASSUME NEW h \in Handlers, purge_reads(h) PROVE FilesInv'
    <2> DEFINE rows == {i \in ShareIds : shares[i].state = "held" /\ (Expired(shares[i]) \/ shares[i].revoked)}
               sweep == {[id |-> i, path |-> shares[i].path] : i \in rows}
               x == [op |-> "purge", at |-> "unlinking", id |-> NoShare, sweep |-> sweep]
    <2>1. /\ hands[h].at # "inserting" /\ hands' = [hands EXCEPT ![h] = x]
          /\ UNCHANGED <<shares, volume, sday, leaked>>
      BY <1>7 DEF purge_reads, Idle
    <2>2. \A r \in sweep : /\ r \in [id : ShareIds, path : BOOLEAN] /\ shares[r.id].state # "new"
                           /\ ~r.path => Barren(r.id, shares, volume, leaked)
      <3> SUFFICES ASSUME NEW i \in ShareIds, shares[i].state = "held"
                   PROVE  shares[i].path \in BOOLEAN /\ (~shares[i].path => Barren(i, shares, volume, leaked))
        OBVIOUS
      <3> QED BY <1>0, PathlessIsBarren DEF SharesType
    <2> HIDE DEF sweep
    <2>3. Relies(x, shares, volume, leaked) /\ x.at # "inserting"
      BY <2>2 DEF Relies, HandSet
    <2> HIDE DEF x
    <2> QED BY <2>1, <2>3, HandGoesOn
  <1>8. ASSUME NEW h \in Handlers, NEW kept \in SUBSET volume, purge_unlinks(h, kept) PROVE FilesInv'
    <2> DEFINE gone == UNION {purged_files(r) : r \in hands[h].sweep}
    <2>1. /\ hands[h].at = "unlinking" /\ kept \subseteq gone
          /\ volume' = volume \ (gone \ kept) /\ leaked' = (leaked \ gone) \cup kept
          /\ hands' = [hands EXCEPT ![h] = [hands[h] EXCEPT !.at = "deleting"]] /\ UNCHANGED <<shares, sday>>
      BY <1>8 DEF purge_unlinks
    <2>2. \A j \in ShareIds, p \in Parts : <<j, p>> \in gone <=> \E r \in hands[h].sweep : r.path /\ r.id = j
      <3> SUFFICES ASSUME NEW j \in ShareIds, NEW p \in Parts
                   PROVE  <<j, p>> \in gone <=> \E r \in hands[h].sweep : r.path /\ r.id = j
        OBVIOUS
      <3>1. \A r : <<j, p>> \in purged_files(r) <=> r.path /\ r.id = j
        BY DEF purged_files, Files, Sidecars, Parts
      <3>2. <<j, p>> \in gone <=> \E r \in hands[h].sweep : <<j, p>> \in purged_files(r)
        OBVIOUS
      <3> QED BY <3>1, <3>2
    <2>3. \A r \in hands[h].sweep : /\ r.id \in ShareIds /\ shares[r.id].state # "new"
                                    /\ ~r.path => Barren(r.id, shares, volume, leaked)
      BY <1>h DEF Relies, HandSet
    <2>4. \A j \in ShareIds, p \in Parts : <<j, p>> \in gone => shares[j].state # "new"
      BY <2>2, <2>3
    <2>a. "archive" \in Parts /\ "audio" \in Parts /\ "card" \in Parts
      BY DEF Parts
    <2>g. volume' \subseteq volume /\ leaked' \subseteq leaked \cup volume
      BY <2>1
    <2>m. \A j \in ShareIds, p \in Parts :
              /\ <<j, p>> \notin gone => /\ <<j, p>> \in volume' <=> <<j, p>> \in volume
                                        /\ <<j, p>> \in leaked' <=> <<j, p>> \in leaked
              /\ <<j, p>> \in gone => (<<j, p>> \in volume' <=> <<j, p>> \in leaked')
      BY <2>1
    <2> HIDE DEF gone
    <2>5. \A j \in ShareIds : Barren(j, shares, volume, leaked) => Barren(j, shares', volume', leaked')
      BY <2>1, <2>m, <2>a DEF Barren
    <2>6. \A r \in hands[h].sweep : Barren(r.id, shares', volume', leaked')
      <3> SUFFICES ASSUME NEW r \in hands[h].sweep PROVE Barren(r.id, shares', volume', leaked')
        OBVIOUS
      <3>1. CASE r.path
        BY <2>1, <2>2, <2>3, <2>m, <2>a, <3>1 DEF Barren
      <3>2. CASE ~r.path
        BY <2>3, <2>5, <3>2
      <3> QED BY <3>1, <3>2
    <2>7. PICK x : x = [hands[h] EXCEPT !.at = "deleting"]
      OBVIOUS
    <2>8. x \in HandSet /\ x.at = "deleting" /\ x.sweep = hands[h].sweep /\ x.op = hands[h].op
      BY <1>h, <2>7 DEF HandSet
    <2>9. Relies(x, shares', volume', leaked')
      BY <1>h, <2>1, <2>3, <2>6, <2>8 DEF Relies
    <2>x. hands' = [hands EXCEPT ![h] = x]
      BY <2>1, <2>7
    <2>10. hands'[h] = x /\ \A g \in Handlers : g # h => hands'[g] = hands[g]
      BY <1>f, <2>x
    <2>11. \A j \in ShareIds : Unharmed(j)
      BY <2>1, <2>5, <2>m, <2>a DEF Unharmed, Settled
    <2>12. \A g \in Handlers : hands[g].at = "inserting" => Pending(hands[g].id)
      BY <1>h, <2>1, <2>4, <2>m, <2>a DEF Pending, Relies
    <2>13. HandsRely'
      BY <2>9, <2>10, <2>11, <2>12, HandsRelyStill
    <2>14. SharesType'
      BY <1>0, <2>1, <2>8, <2>x, <2>g DEF SharesType
    <2>15. \A g \in Handlers, j \in ShareIds : Inserting(g, j)' <=> Inserting(g, j)
      BY <2>1, <2>8, <2>10 DEF Inserting
    <2>16. NewIsPlain'
      BY <1>0, <2>1, <2>4, <2>m, <2>a DEF NewIsPlain
    <2>17. OneInserts' /\ Accounted'
      BY <1>0, <2>1, <2>15, <2>m DEF OneInserts, Accounted
    <2> QED BY <2>13, <2>14, <2>16, <2>17 DEF FilesInv
  <1>9. ASSUME NEW h \in Handlers, purge_deletes(h) PROVE FilesInv'
    <2> DEFINE ids == {r.id : r \in hands[h].sweep}
    <2>1. /\ hands[h].at = "deleting" /\ hands' = [hands EXCEPT ![h] = Idle] /\ UNCHANGED <<volume, sday, leaked>>
          /\ shares' = [i \in ShareIds |-> IF i \in ids THEN Gone ELSE shares[i]]
          /\ hands'[h] = Idle /\ \A g \in Handlers : g # h => hands'[g] = hands[g]
      BY <1>9, <1>f DEF purge_deletes, Done
    <2>2. \A j \in ids : shares[j].state # "new" /\ Barren(j, shares, volume, leaked)
      BY <1>h, <2>1 DEF Relies
    <2> HIDE DEF ids
    <2>3. \A j \in ShareIds : j \in ids => shares'[j] = Gone
      BY <2>1
    <2>4. \A j \in ShareIds : j \notin ids => shares'[j] = shares[j]
      BY <2>1
    <2>5. Gone.state = "gone" /\ Gone.created = 0 /\ Gone.path = FALSE
      BY DEF Gone, Row
    <2>6. \A j \in ShareIds : Unharmed(j)
      BY <2>1, <2>3, <2>4, <2>5 DEF Unharmed, Barren, Settled
    <2>7. \A g \in Handlers : hands[g].at = "inserting" => Pending(hands[g].id)
      BY <1>h, <2>1, <2>2, <2>4 DEF Pending, Relies
    <2>8. HandsRely'
      BY <2>1, <2>6, <2>7, IdleRelies, HandsRelyStill
    <2>9. SharesType'
      <3>1. Idle \in HandSet
        BY DEF Idle, HandSet
      <3>2. Gone \in [state : {"new", "held", "gone"}, created : Nat, revoked : BOOLEAN, path : BOOLEAN]
        BY DEF Gone, Row
      <3> QED BY <1>0, <2>1, <2>3, <2>4, <2>5, <3>1, <3>2 DEF SharesType
    <2>10. \A g \in Handlers, j \in ShareIds : Inserting(g, j)' <=> Inserting(g, j)
      BY <2>1 DEF Inserting, Idle
    <2>11. NewIsPlain'
      BY <1>0, <2>1, <2>2, <2>3, <2>4, <2>5 DEF NewIsPlain, Barren
    <2>12. OneInserts' /\ Accounted'
      BY <1>0, <2>1, <2>2, <2>4, <2>10 DEF OneInserts, Accounted, Barren
    <2> QED BY <2>8, <2>9, <2>11, <2>12 DEF FilesInv
  <1>10. ASSUME NEW kept \in SUBSET volume, _unlink_staged_files(kept) PROVE FilesInv'
    <2> DEFINE own == {i \in ShareIds : shares[i].state = "held"}
               archives == {<<i, "archive">> : i \in {x \in own : shares[x].path}}
    <2>1. /\ kept \subseteq archives /\ volume' = volume \ (archives \ kept)
          /\ leaked' = (leaked \ archives) \cup kept \cup (volume \cap (own \X {"audio", "card"}))
          /\ shares' = [i \in ShareIds |-> IF i \in own THEN Gone ELSE shares[i]] /\ UNCHANGED <<hands, sday>>
      BY <1>10 DEF _unlink_staged_files, Sidecars
    <2>b. /\ \A j \in ShareIds, p \in Parts : <<j, p>> \in archives <=> j \in own /\ shares[j].path /\ p = "archive"
          /\ archives \subseteq ShareIds \X Parts
      BY DEF Parts
    <2>2. /\ \A j \in ShareIds : j \in own => shares'[j] = Gone
          /\ \A j \in ShareIds : j \notin own => shares'[j] = shares[j]
      BY <2>1
    <2> HIDE DEF archives
    <2>3. /\ \A j \in ShareIds, p \in Parts : j \notin own => (<<j, p>> \in volume' <=> <<j, p>> \in volume)
          /\ \A j \in ShareIds, p \in Parts : j \notin own => (<<j, p>> \in leaked' <=> <<j, p>> \in leaked)
      <3> SUFFICES ASSUME NEW j \in ShareIds, NEW p \in Parts, j \notin own
                   PROVE  (<<j, p>> \in volume' <=> <<j, p>> \in volume) /\ (<<j, p>> \in leaked' <=> <<j, p>> \in leaked)
        OBVIOUS
      <3>1. <<j, p>> \notin archives /\ <<j, p>> \notin own \X {"audio", "card"}
        BY <2>b
      <3> QED BY <2>1, <3>1
    <2>c. \A j \in own, p \in Parts :
              /\ p # "archive" /\ <<j, p>> \in volume => <<j, p>> \in leaked'
              /\ p = "archive" /\ shares[j].path => (<<j, p>> \in volume' <=> <<j, p>> \in leaked')
              /\ p = "archive" /\ ~shares[j].path =>
                    (<<j, p>> \in volume' <=> <<j, p>> \in volume) /\ (<<j, p>> \in leaked' <=> <<j, p>> \in leaked)
      BY <2>1, <2>b DEF Parts
    <2>4. \A j \in own : shares[j].state = "held" /\ j \in ShareIds
      OBVIOUS
    <2>5. leaked' \subseteq ShareIds \X Parts /\ volume' \subseteq volume
      BY <1>0, <2>1, <2>b DEF SharesType
    <2>e. \A j \in ShareIds : shares[j].state = "held" => j \in own
      OBVIOUS
    <2> HIDE DEF own
    <2>6. /\ Gone.state = "gone" /\ Gone.created = 0
          /\ Gone \in [state : {"new", "held", "gone"}, created : Nat, revoked : BOOLEAN, path : BOOLEAN]
      BY DEF Gone, Row
    <2>a. "archive" \in Parts /\ "audio" \in Parts /\ "card" \in Parts
      BY DEF Parts
    <2>7. \A j \in own : Barren(j, shares', volume', leaked')
      <3> SUFFICES ASSUME NEW j \in own PROVE Barren(j, shares', volume', leaked')
        OBVIOUS
      <3>1. shares'[j].state # "new"
        BY <2>2, <2>4, <2>6
      <3>2. CASE shares[j].path
        BY <2>5, <2>c, <2>4, <3>1, <3>2 DEF Barren
      <3>3. CASE ~shares[j].path
        <4>1. Barren(j, shares, volume, leaked)
          BY <2>4, <3>3, PathlessIsBarren
        <4> QED BY <2>5, <2>c, <2>4, <3>1, <3>3, <4>1 DEF Barren
      <3> QED BY <3>2, <3>3
    <2>8. \A j \in ShareIds : Unharmed(j)
      <3> SUFFICES ASSUME NEW j \in ShareIds PROVE Unharmed(j)
        OBVIOUS
      <3>1. CASE j \in own
        BY <2>7, <2>a, <3>1 DEF Unharmed, Barren, Settled
      <3>2. CASE j \notin own
        BY <2>2, <2>3, <2>a, <3>2 DEF Unharmed, Barren, Settled
      <3> QED BY <3>1, <3>2
    <2>r. \A h \in Handlers : hands'[h] = hands[h] /\ (hands[h].at = "inserting" => Pending(hands[h].id))
      <3> SUFFICES ASSUME NEW h \in Handlers, hands[h].at = "inserting" PROVE Pending(hands[h].id)
        BY <2>1
      <3> DEFINE i == hands[h].id
      <3>1. i \in ShareIds /\ shares[i].state = "new" /\ <<i, "archive">> \in volume /\ <<i, "archive">> \notin leaked
        BY <1>h DEF Relies
      <3> HIDE DEF i
      <3>2. i \notin own
        BY <2>4, <3>1
      <3>3. shares'[i] = shares[i]
        BY <2>2, <3>1, <3>2
      <3>4. (<<i, "archive">> \in volume' <=> <<i, "archive">> \in volume)
            /\ (<<i, "archive">> \in leaked' <=> <<i, "archive">> \in leaked)
        BY <2>3, <2>a, <3>1, <3>2
      <3> QED BY <3>1, <3>3, <3>4 DEF Pending, i
    <2>9. HandsRely'
      BY <2>8, <2>r, HandsRelyStill
    <2>10. SharesType'
      BY <1>0, <2>1, <2>2, <2>5, <2>6 DEF SharesType
    <2>11. NewIsPlain'
      <3> SUFFICES ASSUME NEW j \in ShareIds
                   PROVE  /\ shares'[j].state = "new" => <<j, "audio">> \notin volume' /\ <<j, "card">> \notin volume'
                          /\ <<j, "archive">> \in leaked' => <<j, "archive">> \in volume'
        BY DEF NewIsPlain
      <3>0. <<j, "archive">> \in leaked => <<j, "archive">> \in volume
        BY <1>0 DEF NewIsPlain
      <3>1. CASE j \in own
        BY <2>2, <2>4, <2>6, <2>c, <2>a, <3>0, <3>1
      <3>2. CASE j \notin own
        <4>1. shares'[j] = shares[j]
          BY <2>2, <3>2
        <4>2. \A p \in Parts : /\ <<j, p>> \in volume' => <<j, p>> \in volume
                               /\ <<j, p>> \in volume => <<j, p>> \in volume'
                               /\ <<j, p>> \in leaked' => <<j, p>> \in leaked
          BY <2>3, <3>2
        <4> QED BY <1>0, <2>a, <3>0, <4>1, <4>2 DEF NewIsPlain
      <3> QED BY <3>1, <3>2
    <2>12. OneInserts'
      BY <1>0, <2>1 DEF OneInserts, Inserting
    <2>13. Accounted'
      <3> SUFFICES ASSUME NEW j \in ShareIds, NEW p \in Parts, <<j, p>> \in volume', <<j, p>> \notin leaked'
                   PROVE  (shares'[j].state = "held" /\ shares'[j].path) \/ \E h \in Handlers : Inserting(h, j)'
        BY DEF Accounted
      <3>1. j \notin own
        BY <2>7 DEF Barren
      <3>2. (shares[j].state = "held" /\ shares[j].path) \/ \E h \in Handlers : Inserting(h, j)
        BY <1>0, <2>3, <3>1 DEF Accounted
      <3> QED BY <2>1, <2>2, <3>1, <3>2 DEF Inserting
    <2> QED BY <2>9, <2>10, <2>11, <2>12, <2>13 DEF FilesInv
  <1>11. ASSUME NEW h \in Handlers, NEW op \in {"audio", "card"}, NEW i \in ShareIds, reader_begins(h, op, i) PROVE FilesInv'
    <2> DEFINE x == [op |-> op, at |-> "reading", id |-> i, sweep |-> {}]
    <2>1. /\ hands[h].at # "inserting" /\ hands' = [hands EXCEPT ![h] = x] /\ shares[i].state = "held"
          /\ UNCHANGED <<shares, volume, sday, leaked>>
      BY <1>11 DEF reader_begins, Idle, Hand, is_live
    <2>2. Relies(x, shares, volume, leaked) /\ x.at # "inserting"
      BY <2>1 DEF Relies, HandSet
    <2> HIDE DEF x
    <2> QED BY <2>1, <2>2, HandGoesOn
  <1>12. ASSUME NEW h \in Handlers, share_card(h) PROVE FilesInv'
    <2> DEFINE x == [op |-> "card", at |-> "translating", id |-> hands[h].id, sweep |-> {}]
    <2>1. /\ hands[h].at = "reading" /\ (hands' = [hands EXCEPT ![h] = x] \/ hands' = [hands EXCEPT ![h] = Idle])
          /\ UNCHANGED <<shares, volume, sday, leaked>>
      BY <1>12 DEF share_card, Hand, Done
    <2>2. Relies(x, shares, volume, leaked) /\ x.at # "inserting"
      BY <1>h, <2>1 DEF Relies, HandSet
    <2>3. Relies(Idle, shares, volume, leaked) /\ Idle.at # "inserting"
      BY IdleRelies DEF Idle
    <2> HIDE DEF x
    <2>4. CASE hands' = [hands EXCEPT ![h] = x]
      BY <2>1, <2>2, <2>4, HandGoesOn
    <2>5. CASE hands' = [hands EXCEPT ![h] = Idle]
      BY <2>1, <2>3, <2>5, HandGoesOn
    <2> QED BY <2>1, <2>4, <2>5
  <1>13. ASSUME NEW h \in Handlers, share_audio(h) \/ write_card(h) PROVE FilesInv'
    <2> DEFINE i == hands[h].id
    <2>1. /\ hands[h].at \in {"reading", "translating"} /\ hands' = [hands EXCEPT ![h] = Idle] /\ UNCHANGED <<shares, sday>>
          /\ hands'[h] = Idle /\ \A g \in Handlers : g # h => hands'[g] = hands[g]
      BY <1>13, <1>f DEF share_audio, write_card, Done
    <2>2. i \in ShareIds /\ shares[i].state # "new"
      BY <1>h, <2>1 DEF Relies
    <2>3. PICK p \in {"audio", "card"} :
            \/ UNCHANGED <<volume, leaked>>
            \/ /\ <<i, "archive">> \in volume /\ <<i, "archive">> \notin leaked
               /\ volume' = volume \cup {<<i, p>>} /\ leaked' = leaked
            \/ volume' = volume \cup {<<i, p>>} /\ leaked' = leaked \cup {<<i, p>>}
      BY <1>13 DEF share_audio, write_card
    <2> HIDE DEF i
    <2>4. /\ \A j \in ShareIds, q \in Parts : /\ <<j, q>> \in volume => <<j, q>> \in volume'
                                              /\ <<j, q>> \in volume' => <<j, q>> \in volume \/ (j = i /\ q = p)
                                              /\ <<j, q>> \in leaked => <<j, q>> \in leaked'
                                              /\ <<j, q>> \in leaked' => <<j, q>> \in leaked \/ (j = i /\ q = p)
          /\ p # "archive" /\ p \in Parts /\ "archive" \in Parts /\ "audio" \in Parts /\ "card" \in Parts
      BY <2>3 DEF Parts
    <2>5. <<i, "archive">> \in volume /\ <<i, "archive">> \notin leaked => shares[i].state = "held" /\ shares[i].path
      BY <1>0, <1>h, <2>2, <2>4 DEF NewIsPlain, Accounted, Inserting, Relies
    <2>6. <<i, p>> \in volume' /\ <<i, p>> \notin leaked' =>
              \/ <<i, p>> \in volume /\ <<i, p>> \notin leaked
              \/ <<i, "archive">> \in volume /\ <<i, "archive">> \notin leaked
      BY <2>3
    <2>7. \A j \in ShareIds : Unharmed(j)
      BY <2>1, <2>2, <2>4, <2>6 DEF Unharmed, Barren, Settled
    <2>8. \A g \in Handlers : hands[g].at = "inserting" => Pending(hands[g].id)
      BY <1>h, <2>1, <2>4 DEF Pending, Relies
    <2>9. HandsRely'
      BY <2>1, <2>7, <2>8, IdleRelies, HandsRelyStill
    <2>10. SharesType'
      <3>1. Idle \in HandSet
        BY DEF Idle, HandSet
      <3>2. volume' \subseteq ShareIds \X Parts /\ leaked' \subseteq ShareIds \X Parts
        BY <1>0, <2>2, <2>3, <2>4 DEF SharesType
      <3> QED BY <1>0, <2>1, <3>1, <3>2 DEF SharesType
    <2>11. \A g \in Handlers, j \in ShareIds : Inserting(g, j)' <=> Inserting(g, j)
      BY <2>1 DEF Inserting, Idle
    <2>12. NewIsPlain'
      BY <1>0, <2>1, <2>2, <2>4 DEF NewIsPlain
    <2>13. OneInserts'
      BY <1>0, <2>11 DEF OneInserts
    <2>14. Accounted'
      BY <1>0, <2>1, <2>2, <2>4, <2>5, <2>6, <2>11 DEF Accounted
    <2> QED BY <2>9, <2>10, <2>12, <2>13, <2>14 DEF FilesInv
  <1>14. CASE ShareDay
    <2>1. UNCHANGED <<shares, volume, hands, leaked>> /\ sday' = sday + 1
      BY <1>14 DEF ShareDay
    <2>2. SharesType'
      <3>1. \A i \in ShareIds : shares[i].created \in Nat
        BY <1>0 DEF SharesType
      <3> QED BY <1>0, <2>1, <3>1 DEF SharesType
    <2> QED BY <1>0, <2>1, <2>2 DEF FilesInv, HandsRely, OneInserts, NewIsPlain, Accounted, Inserting
  <1>15. CASE ShareRestart
    <2>1. /\ \A h \in Handlers : hands'[h] = Idle /\ Idle.at = "idle" /\ Idle \in HandSet
          /\ hands' \in [Handlers -> HandSet] /\ UNCHANGED <<shares, volume, sday>>
      BY <1>15 DEF ShareRestart, Idle, HandSet
    <2>2. leaked' = leaked \cup {<<hands[h].id, "archive">> : h \in {g \in Handlers : hands[g].at = "inserting"}}
      BY <1>15 DEF ShareRestart
    <2>3. \A i \in ShareIds, p \in Parts :
              <<i, p>> \in leaked' <=> <<i, p>> \in leaked \/ (p = "archive" /\ \E h \in Handlers : Inserting(h, i))
      BY <2>2 DEF Inserting
    <2>4. /\ \A h \in Handlers, i \in ShareIds : Inserting(h, i) => shares[i].state = "new" /\ <<i, "archive">> \in volume
          /\ "archive" \in Parts /\ "audio" \in Parts /\ "card" \in Parts
      BY <1>h DEF Inserting, Relies, Parts
    <2>5. leaked' \subseteq ShareIds \X Parts
      BY <1>0, <1>h, <2>2, <2>4 DEF SharesType, Relies
    <2>6. SharesType'
      BY <1>0, <2>1, <2>5 DEF SharesType
    <2>7. \A i \in ShareIds : Unharmed(i)
      BY <2>1, <2>3, <2>4 DEF Unharmed, Barren, Settled
    <2>8. HandsRely'
      BY <2>1, <2>7, IdleRelies, HandsRelyStill
    <2>9. NewIsPlain'
      BY <1>0, <2>1, <2>3, <2>4 DEF NewIsPlain
    <2>10. OneInserts'
      BY <2>1 DEF OneInserts, Inserting
    <2>11. Accounted'
      <3>1. \A i \in ShareIds, p \in Parts : p # "archive" /\ <<i, p>> \in volume => shares[i].state # "new"
        BY <1>0 DEF NewIsPlain, Parts
      <3> QED BY <1>0, <2>1, <2>3, <2>4, <3>1 DEF Accounted
    <2> QED BY <2>6, <2>8, <2>9, <2>10, <2>11 DEF FilesInv
  <1>16. CASE UNCHANGED shareVars
    BY <1>0, <1>16 DEF shareVars, FilesInv, SharesType, HandsRely, OneInserts, NewIsPlain, Accounted, Inserting
  <1> QED BY <1>1, <1>2, <1>3, <1>4, <1>5, <1>6, <1>7, <1>8, <1>9, <1>10, <1>11, <1>12, <1>13, <1>14, <1>15, <1>16
          DEF SharesNext

(* Fewer shares of today, or as many, is as good a day.                          *)
LEMMA FewerToday ==
    ASSUME Today' \subseteq Today
    PROVE  Cardinality(Today') <= Cardinality(Today) /\ Cardinality(Today') \in Nat /\ Cardinality(Today) \in Nat
  <1>1. IsFiniteSet(Today)
    BY SharesAssumption, FS_Subset DEF Today
  <1> QED BY <1>1, FS_Subset, FS_CardinalityType

(* A step that adds no share of today and begins no upload.                      *)
LEMMA DayStays ==
    ASSUME DayInv, Today' \subseteq Today, Uploads' \subseteq Uploads, ~overlap' => ~overlap
    PROVE  DayInv'
  <1>1. Cardinality(Today') <= Cardinality(Today) /\ Cardinality(Today') \in Nat /\ Cardinality(Today) \in Nat
    BY FewerToday
  <1> QED BY <1>1, SharesAssumption DEF DayInv

(* Of the steps only one that begins an upload, one that writes its row and a new  *)
(* day move the count and the room that is kept for it.                           *)
LEMMA DayStep == FilesInv /\ DayInv /\ [SharesNext]_shareVars => DayInv'
  <1> SUFFICES ASSUME FilesInv, DayInv, [SharesNext]_shareVars PROVE DayInv'
    OBVIOUS
  <1> USE SharesAssumption
  <1>0. SharesType /\ HandsRely
    BY DEF FilesInv
  <1>h. \A h \in Handlers : Relies(hands[h], shares, volume, leaked) /\ hands[h] \in HandSet
    BY <1>0 DEF HandsRely, Relies
  <1>f. \A x, h : hands' = [hands EXCEPT ![h] = x] /\ h \in Handlers =>
            hands'[h] = x /\ \A g \in Handlers : g # h => hands'[g] = hands[g]
    BY <1>0 DEF SharesType
  <1>k. IsFiniteSet(Today) /\ Cardinality(Today) \in Nat
    BY FS_Subset, FS_CardinalityType DEF Today
  <1>i. Idle.op = "idle"
    BY DEF Idle
  (* A handler that is not uploading goes on, and the rows stay or are taken out.  *)
  <1>n. ASSUME NEW h \in Handlers, NEW x, hands' = [hands EXCEPT ![h] = x], x.op = "create" => hands[h].op = "create",
               \A i \in ShareIds : shares'[i].state = "held" => shares[i].state = "held" /\ shares'[i].created = shares[i].created,
               sday' = sday, overlap' = overlap
        PROVE  DayInv'
    <2>1. hands'[h] = x /\ \A g \in Handlers : g # h => hands'[g] = hands[g]
      BY <1>f, <1>n
    <2>2. Uploads' \subseteq Uploads
      BY <1>n, <2>1 DEF Uploads
    <2>3. Today' \subseteq Today
      BY <1>n DEF Today
    <2> QED BY <1>n, <2>2, <2>3, DayStays
  <1>1. ASSUME NEW h \in Handlers, create_share(h) PROVE DayInv'
    <2>1. /\ hands' = [hands EXCEPT ![h] = [op |-> "create", at |-> "uploading", id |-> NoShare, sweep |-> {}]]
          /\ overlap' = (overlap \/ Uploads # {}) /\ UNCHANGED <<shares, sday>> /\ Cardinality(Today) < DayCap
      BY <1>1 DEF create_share, Hand, creations_today, Today
    <2>2. \A g \in Handlers : g # h => hands'[g] = hands[g]
      BY <1>f, <2>1
    <2>3. Today' = Today /\ (Uploads = {} => Uploads' \subseteq {h})
      BY <2>1, <2>2 DEF Today, Uploads
    <2> QED BY <1>k, <2>1, <2>3 DEF DayInv
  <1>2. ASSUME NEW h \in Handlers, insert_share(h) PROVE DayInv'
    <2> DEFINE i == hands[h].id
    <2>1. /\ hands[h].at = "inserting" /\ hands' = [hands EXCEPT ![h] = Idle]
          /\ shares' = [shares EXCEPT ![i] = Row("held", TRUE)] /\ UNCHANGED <<sday, overlap>>
      BY <1>2 DEF insert_share, Done
    <2>2. hands[h].op = "create" /\ i \in ShareIds /\ shares[i].state = "new"
      BY <1>h, <2>1 DEF Relies
    <2>3. hands'[h] = Idle /\ \A g \in Handlers : g # h => hands'[g] = hands[g]
      BY <1>f, <2>1
    <2> HIDE DEF i
    <2>4. h \in Uploads /\ Uploads' \subseteq Uploads \ {h}
      BY <1>i, <2>2, <2>3 DEF Uploads
    <2>5. i \notin Today /\ Today' \subseteq Today \cup {i}
      BY <1>0, <2>1, <2>2 DEF Today, SharesType
    <2>6. IsFiniteSet(Today \cup {i}) /\ Cardinality(Today \cup {i}) = Cardinality(Today) + 1
      BY <1>k, <2>5, FS_AddElement
    <2>7. Cardinality(Today') <= Cardinality(Today) + 1 /\ Cardinality(Today') \in Nat
      BY <2>5, <2>6, FS_Subset, FS_CardinalityType
    <2>8. ASSUME ~overlap PROVE Cardinality(Today) < DayCap /\ Uploads' = {}
      BY <2>4, <2>8 DEF DayInv
    <2> QED BY <1>k, <2>1, <2>7, <2>8 DEF DayInv
  <1>3. ASSUME NEW h \in Handlers,
               \/ _read_archive_refuses(h) \/ insert_fails(h) \/ share_audio(h) \/ write_card(h)
        PROVE  DayInv'
    <2>1. hands' = [hands EXCEPT ![h] = Idle] /\ UNCHANGED <<shares, sday, overlap>>
      BY <1>3 DEF _read_archive_refuses, insert_fails, share_audio, write_card, Done
    <2> QED BY <1>i, <1>n, <2>1
  <1>4. ASSUME NEW h \in Handlers, write_archive(h) PROVE DayInv'
    <2>1. PICK i : hands' = [hands EXCEPT ![h] = [op |-> "create", at |-> "inserting", id |-> i, sweep |-> {}]]
      BY <1>4 DEF write_archive, Hand
    <2>2. hands[h].op = "create" /\ UNCHANGED <<shares, sday, overlap>>
      BY <1>4, <1>h DEF write_archive, Relies
    <2>3. PICK x : x = [op |-> "create", at |-> "inserting", id |-> i, sweep |-> {}]
      OBVIOUS
    <2>4. hands' = [hands EXCEPT ![h] = x]
      BY <2>1, <2>3
    <2> QED BY <1>n, <2>2, <2>4
  <1>5. ASSUME NEW h \in Handlers, NEW i \in ShareIds, NEW refused, revoke_unlinks(h, i, refused) PROVE DayInv'
    <2>1. PICK x : x.op = "revoke" /\ hands' = [hands EXCEPT ![h] = x]
      BY <1>5 DEF revoke_unlinks, Hand
    <2>2. UNCHANGED <<shares, sday, overlap>>
      BY <1>5 DEF revoke_unlinks
    <2> QED BY <1>n, <2>1, <2>2
  <1>6. ASSUME NEW h \in Handlers, revoke_marks(h) PROVE DayInv'
    <2>1. hands' = [hands EXCEPT ![h] = Idle] /\ UNCHANGED <<sday, overlap>>
      BY <1>6 DEF revoke_marks, Done
    <2>2. \A i \in ShareIds : shares'[i].state = "held" => shares[i].state = "held" /\ shares'[i].created = shares[i].created
      BY <1>0, <1>6 DEF revoke_marks, SharesType
    <2> QED BY <1>i, <1>n, <2>1, <2>2
  <1>7. ASSUME NEW h \in Handlers, purge_reads(h) PROVE DayInv'
    <2>1. PICK x : x.op = "purge" /\ hands' = [hands EXCEPT ![h] = x]
      BY <1>7 DEF purge_reads
    <2>2. UNCHANGED <<shares, sday, overlap>>
      BY <1>7 DEF purge_reads
    <2> QED BY <1>n, <2>1, <2>2
  <1>8. ASSUME NEW h \in Handlers, NEW kept, purge_unlinks(h, kept) PROVE DayInv'
    <2>1. PICK x : x = [hands[h] EXCEPT !.at = "deleting"]
      OBVIOUS
    <2>2. hands' = [hands EXCEPT ![h] = x] /\ UNCHANGED <<shares, sday, overlap>>
      BY <1>8, <2>1 DEF purge_unlinks
    <2>3. x.op = hands[h].op
      BY <1>h, <2>1 DEF HandSet
    <2> QED BY <1>n, <2>2, <2>3
  <1>9. ASSUME NEW h \in Handlers, purge_deletes(h) PROVE DayInv'
    <2>1. hands' = [hands EXCEPT ![h] = Idle] /\ UNCHANGED <<sday, overlap>>
      BY <1>9 DEF purge_deletes, Done
    <2>2. \A i \in ShareIds : shares'[i] = Gone \/ shares'[i] = shares[i]
      BY <1>9 DEF purge_deletes
    <2>3. Gone.state = "gone"
      BY DEF Gone, Row
    <2>4. Idle.op = "create" => hands[h].op = "create"
      BY <1>i
    <2>5. \A i \in ShareIds : shares'[i].state = "held" => shares[i].state = "held" /\ shares'[i].created = shares[i].created
      BY <2>2, <2>3
    <2> QED BY <1>n, <2>1, <2>4, <2>5
  <1>10. ASSUME NEW h \in Handlers, share_card(h) PROVE DayInv'
    <2>1. PICK x : x.op # "create" /\ hands' = [hands EXCEPT ![h] = x]
      BY <1>10, <1>i DEF share_card, Hand, Done
    <2>2. UNCHANGED <<shares, sday, overlap>>
      BY <1>10 DEF share_card
    <2> QED BY <1>n, <2>1, <2>2
  <1>11. ASSUME NEW h \in Handlers, NEW op \in {"audio", "card"}, NEW i \in ShareIds, reader_begins(h, op, i) PROVE DayInv'
    <2>1. PICK x : x.op # "create" /\ hands' = [hands EXCEPT ![h] = x]
      BY <1>11 DEF reader_begins, Hand
    <2>2. UNCHANGED <<shares, sday, overlap>>
      BY <1>11 DEF reader_begins
    <2> QED BY <1>n, <2>1, <2>2
  <1>12. ASSUME NEW kept, _unlink_staged_files(kept) PROVE DayInv'
    <2>1. /\ UNCHANGED <<hands, sday, overlap>> /\ \A i \in ShareIds : shares'[i] = Gone \/ shares'[i] = shares[i]
      BY <1>12 DEF _unlink_staged_files
    <2>2. Today' \subseteq Today /\ Uploads' = Uploads
      BY <2>1 DEF Today, Uploads, Gone, Row
    <2> QED BY <2>1, <2>2, DayStays
  <1>13. CASE ShareDay
    <2>1. UNCHANGED <<shares, hands>> /\ sday' = sday + 1 /\ overlap' = (overlap /\ Uploads # {})
      BY <1>13 DEF ShareDay
    <2>2. Today' = {} /\ Uploads' = Uploads
      BY <1>0, <2>1 DEF Today, Uploads, SharesType
    <2>3. Cardinality(Today') = 0
      BY <2>2, FS_EmptySet
    <2>4. ~overlap' => ~overlap \/ Uploads = {}
      BY <2>1, Zenon
    <2>5. ~overlap' => \A g, h \in Uploads' : g = h
      BY <2>2, <2>4 DEF DayInv
    <2> QED BY <2>3, <2>5 DEF DayInv
  <1>14. CASE ShareRestart
    <2>1. \A h \in Handlers : hands'[h].op = "idle"
      BY <1>14, <1>i DEF ShareRestart
    <2>2. UNCHANGED <<shares, sday, overlap>>
      BY <1>14 DEF ShareRestart
    <2>3. Today' = Today /\ Uploads' = {}
      BY <2>1, <2>2 DEF Today, Uploads
    <2> QED BY <2>2, <2>3, DayStays
  <1>15. CASE UNCHANGED shareVars
    <2>1. Today' = Today /\ Uploads' = Uploads /\ overlap' = overlap
      BY <1>15 DEF shareVars, Today, Uploads
    <2> QED BY <2>1, DayStays
  <1> QED BY <1>1, <1>2, <1>3, <1>4, <1>5, <1>6, <1>7, <1>8, <1>9, <1>10, <1>11, <1>12, <1>13, <1>14, <1>15 DEF SharesNext

(* However uploads, revocations, sweeps, readers, deleted accounts and restarts    *)
(* interleave: no file is on the volume that the sweep would not find, but for the  *)
(* ones the named gaps leave behind, and uploads that never overlap keep to    *)
(* the day's cap, whatever is revoked in between.                                 *)
THEOREM SharesAreKept == SharesSpec => []SharesKept
  <1>1. FilesInv => FilesAccounted
    <2> SUFFICES ASSUME FilesInv, NEW f \in volume, f \notin leaked
                 PROVE  \/ shares[f[1]].state = "held" /\ shares[f[1]].path
                        \/ \E h \in Handlers : hands[h].at = "inserting" /\ hands[h].id = f[1]
      BY DEF FilesAccounted
    <2>1. PICK i \in ShareIds, p \in Parts : f = <<i, p>>
      BY DEF FilesInv, SharesType
    <2> QED BY <2>1 DEF FilesInv, Accounted, Inserting
  <1>2. DayInv => DayCapKept
    BY DEF DayInv, DayCapKept, Today
  <1> QED BY <1>1, <1>2, SharesStart, FilesStep, DayStep, PTL DEF SharesSpec, SharesKept
=============================================================================

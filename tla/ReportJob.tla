----------------------------- MODULE ReportJob ------------------------------
(***************************************************************************)
(* What the report route promises about one meeting: the answer a poll gets *)
(* at any moment, apart from interruptions (a restart, a lost write).  The  *)
(* report on record may be taken by the retention sweep whenever its date,  *)
(* which is the meeting's, is old enough: right after it was stored, even.  *)
(***************************************************************************)
EXTENDS Naturals

VARIABLES
    shown,        \* "nothing", "generating", "failed" or "report"
    kept,         \* a report is on record
    own,          \* the job in flight has stored its report
    fresh,        \* a report was stored since, or as, the job in flight began
    interruptions

jobVars == <<shown, kept, own, fresh, interruptions>>

JobInit == shown = "nothing" /\ ~kept /\ ~own /\ ~fresh /\ interruptions = 0

OnRecord == IF kept THEN "report" ELSE "nothing"

(* From here on an older report is not shown as if it were new.              *)
Start ==
    /\ shown # "generating" /\ shown' = "generating"
    /\ ~own' /\ ~fresh' /\ UNCHANGED <<kept, interruptions>>

(* The job, or a synchronous request beside it, stores a report; or such a    *)
(* request ends, after which the job need not say anything of its own.        *)
Store ==
    /\ shown = "generating" /\ fresh' /\ kept' \in {kept, TRUE}
    /\ UNCHANGED <<shown, interruptions>>

Finish ==
    /\ shown = "generating" /\ fresh
    /\ shown' = OnRecord /\ ~own' /\ ~fresh' /\ UNCHANGED <<kept, interruptions>>

(* Only a job that has stored nothing is told as failed.                     *)
Fail ==
    /\ shown = "generating" /\ ~own
    /\ shown' = "failed" /\ ~own' /\ ~fresh' /\ UNCHANGED <<kept, interruptions>>

(* A synchronous request with no job in flight: it stores, and on ending it   *)
(* takes back that an earlier job failed.                                     *)
Direct ==
    /\ shown # "generating" /\ kept'
    /\ shown' = IF shown = "failed" THEN "failed" ELSE "report"
    /\ UNCHANGED <<own, fresh, interruptions>>

TakeBack == shown = "failed" /\ shown' = OnRecord /\ UNCHANGED <<kept, own, fresh, interruptions>>

Expire ==
    /\ kept /\ ~kept'
    /\ shown' = IF shown = "report" THEN "nothing" ELSE shown
    /\ UNCHANGED <<own, fresh, interruptions>>

(* A restart or a lost write: the job may be forgotten, nothing else promised. *)
Interrupt ==
    /\ interruptions' = interruptions + 1 /\ UNCHANGED kept
    /\ own' \in {own, FALSE} /\ fresh' \in {fresh, FALSE}
    /\ shown' \in {shown, "failed", OnRecord}

JobNext == Start \/ Store \/ Finish \/ Fail \/ Direct \/ TakeBack \/ Expire \/ Interrupt

JobSpec == JobInit /\ [][JobNext]_jobVars
=============================================================================

-------------------------- MODULE EntitlementProofs --------------------------
(***************************************************************************)
(* Theorems about Entitlement, for any number of accounts, subscriptions,    *)
(* receipts and requests.                                                   *)
(***************************************************************************)
EXTENDS Entitlement, FiniteSetTheorems, TLAPS

-----------------------------------------------------------------------------
(* Types.                                                                   *)

StatusRow == [user : Users, state : {None, 1, 2, 3, 5}]
GrantRow == [user : Users, type : {"subscribed", "upgraded", "renewed"}, tier : PaidTiers,
             otid : Otids \cup {None}, source : {"verify", "assn"}, at : 0 .. MaxClock]
Notice == [type : NoticeTypes, otid : Otids]
Holder == [user : Users, tier : Tiers, used : 0 .. Full]

VerifyJob == [pc : {"v_holders", "v_detach", "v_plan", "v_move", "v_records"}, user : Users,
              receipt : Receipts, tier : Tiers, trial : BOOLEAN, held : SUBSET Holder]
SyncJob == [pc : {"s_apply"}, user : Users, receipt : Receipts \cup {None},
            tier : Tiers, trial : BOOLEAN]
NotifyJob == [pc : {"n_apply"}, notice : Notice, user : Users, byToken : BOOLEAN,
              tier : Tiers, trial : BOOLEAN]
AskJob == [pc : {"r_ask"}, user : Users, otid : Otids, tier : Tiers,
           answer : {None}, expires : 0 .. MaxClock]
AnswerJob == [pc : {"r_apply"}, user : Users, otid : Otids, tier : Tiers,
              answer : Tiers, expires : 0 .. MaxClock]
MergeJob == [pc : {"m_apply"}, anon : UserRow, apple : UserRow]
Job == {Idle} \cup VerifyJob \cup SyncJob \cup NotifyJob \cup AskJob \cup AnswerJob
              \cup MergeJob

TypeInv ==
    /\ users \in [Users -> UserRow]
    /\ status \in [Otids -> StatusRow \cup {None}]
    /\ grants \subseteq GrantRow
    /\ conflicts \subseteq Users \X (Otids \cup {None})
    /\ live \subseteq Otids
    /\ lapsed \in [Otids -> 0 .. MaxClock]
    /\ sent \subseteq Notice
    /\ clock \in 0 .. MaxClock
    /\ calls \in 0 .. MaxCalls
    /\ work \in [Workers -> Job]

(* What the step of a handler says of the job it has.                       *)
LEMMA JobOf ==
    ASSUME NEW job \in Job
    PROVE  /\ job.pc \in {"v_holders", "v_detach", "v_plan", "v_move", "v_records"}
                => job \in VerifyJob
           /\ job.pc = "s_apply" => job \in SyncJob
           /\ job.pc = "n_apply" => job \in NotifyJob
           /\ job.pc = "r_ask" => job \in AskJob
           /\ job.pc = "r_apply" => job \in AnswerJob
           /\ job.pc = "m_apply" => job \in MergeJob
  BY DEF Job, Idle, VerifyJob, SyncJob, NotifyJob, AskJob, AnswerJob, MergeJob

(* The row updates give rows.                                               *)
LEMMA RowWith ==
    ASSUME NEW row \in UserRow, NEW t \in Tiers, NEW b \in BOOLEAN, NEW n \in 0 .. Full,
           NEW s \in Otids \cup {None, Unnamed, Unlogged}, NEW c \in Nat
    PROVE  /\ [row EXCEPT !.tier = t, !.trial = b, !.used = n, !.src = s, !.at = c] \in UserRow
           /\ [row EXCEPT !.tier = t, !.trial = b, !.used = n, !.src = s] \in UserRow
           /\ [row EXCEPT !.tier = t, !.trial = b, !.src = s, !.at = c] \in UserRow
           /\ [row EXCEPT !.tier = t, !.trial = b, !.src = s] \in UserRow
           /\ [row EXCEPT !.tier = t, !.used = n, !.src = s] \in UserRow
           /\ [row EXCEPT !.tier = t, !.src = s, !.at = c] \in UserRow
           /\ [row EXCEPT !.used = n, !.src = s, !.at = c] \in UserRow
           /\ [row EXCEPT !.trial = b, !.src = s] \in UserRow
           /\ [row EXCEPT !.used = n] \in UserRow
  BY DEF UserRow

LEMMA FreshRow ==
    ASSUME NEW row \in UserRow, NEW t \in Tiers, NEW b \in BOOLEAN,
           NEW s \in Otids \cup {None, Unnamed, Unlogged}, clock \in Nat
    PROVE  FreshPlan(row, t, b, s) \in UserRow
  <1>1. PICK n \in 0 .. Full : n = 0
    BY DEF Full
  <1>2. [row EXCEPT !.tier = t, !.trial = b, !.used = n, !.src = s, !.at = clock] \in UserRow
    BY RowWith
  <1> QED BY <1>1, <1>2 DEF FreshPlan

LEMMA FreeRow ==
    ASSUME NEW row \in UserRow
    PROVE  /\ DowngradeToFree(row) \in UserRow
           /\ [row EXCEPT !.tier = "free", !.trial = FALSE, !.src = None] \in UserRow
  <1>1. PICK n \in 0 .. Full : n = Full
    BY DEF Full
  <1>2. PICK f \in BOOLEAN : f = FALSE
    OBVIOUS
  <1>3. PICK t \in Tiers : t = "free"
    BY DEF Tiers
  <1>4. [row EXCEPT !.tier = t, !.trial = f, !.used = n, !.src = None] \in UserRow
    BY RowWith
  <1>5. [row EXCEPT !.tier = t, !.trial = f, !.src = None] \in UserRow
    BY RowWith
  <1> QED BY <1>1, <1>2, <1>3, <1>4, <1>5, Zenon DEF DowngradeToFree

LEMMA BoundRow ==
    ASSUME NEW row \in UserRow, NEW o \in Otids \cup {None}
    PROVE  BindOtid(row, o) \in UserRow
  BY DEF BindOtid, UserRow

LEMMA GrantsOf ==
    ASSUME NEW u \in Users, NEW old \in Tiers, NEW t \in PaidTiers, NEW c \in BOOLEAN,
           NEW o \in Otids \cup {None}, clock \in 0 .. MaxClock
    PROVE  GrantEvents(u, old, t, c, o, "verify") \subseteq GrantRow
  BY DEF GrantEvents, Grant, GrantRow

LEMMA GotoTypes ==
    ASSUME TypeInv, NEW w \in Workers, NEW j \in Job, Goto(w, j) \/ \E r : Start(w, r, j)
    PROVE  work' \in [Workers -> Job] /\ calls' \in 0 .. MaxCalls
  BY EntitlementAssumption DEF Goto, Start, TypeInv

LEMMA IdleIsJob == Idle \in Job
  BY DEF Job

(* The steps of POST /v1/verify-receipt keep the types.                     *)
LEMMA VerifyAuthTypes ==
    ASSUME TypeInv, NEW w \in Workers, NEW u \in Users, NEW rc \in Receipts,
           VerifyAuth(w, u, rc)
    PROVE  TypeInv'
  <1> DEFINE j == [pc |-> "v_holders", user |-> u, receipt |-> rc,
                   tier |-> users[u].tier, trial |-> users[u].trial, held |-> {}]
  <1>1. users[u] \in UserRow
    BY DEF TypeInv
  <1>2. users[u].tier \in Tiers /\ users[u].trial \in BOOLEAN
    BY <1>1 DEF UserRow
  <1>3. j \in VerifyJob
    BY <1>2 DEF VerifyJob
  <1>4. j \in Job
    BY <1>3 DEF Job
  <1>5. Start(w, "verify", j) /\ UNCHANGED <<tables, apple>>
    BY DEF VerifyAuth
  <1>6. work' \in [Workers -> Job] /\ calls' \in 0 .. MaxCalls
    <2> HIDE DEF j
    <2> QED BY <1>4, <1>5, GotoTypes
  <1> QED BY <1>5, <1>6 DEF TypeInv, tables, apple

LEMMA VerifyHoldersTypes ==
    ASSUME TypeInv, NEW w \in Workers, VerifyHolders(w)
    PROVE  TypeInv'
  <1> DEFINE job == work[w]
             o == job.receipt.otid
             held == {[user |-> u, tier |-> users[u].tier, used |-> users[u].used] :
                        u \in {x \in Users \ {job.user} : o # None /\ users[x].otid = o}}
             j == [job EXCEPT !.pc = "v_detach", !.held = held]
  <1>1. job \in VerifyJob
    BY JobOf DEF VerifyHolders, TypeInv
  <1>2. ASSUME NEW u \in Users
        PROVE  [user |-> u, tier |-> users[u].tier, used |-> users[u].used] \in Holder
    BY DEF TypeInv, UserRow, Holder
  <1>3. held \in SUBSET Holder
    BY <1>2
  <1> HIDE DEF held
  <1>4. j \in VerifyJob
    BY <1>1, <1>3 DEF VerifyJob
  <1>5. (Goto(w, j) \/ Goto(w, Idle)) /\ UNCHANGED <<tables, apple>>
    BY DEF VerifyHolders, Done, held
  <1>6. work' \in [Workers -> Job] /\ calls' \in 0 .. MaxCalls
    <2>1. j \in Job
      BY <1>4 DEF Job
    <2> HIDE DEF j
    <2> QED BY <1>5, <2>1, IdleIsJob, GotoTypes
  <1> QED BY <1>5, <1>6 DEF TypeInv, tables, apple

LEMMA VerifyDetachTypes ==
    ASSUME TypeInv, NEW w \in Workers, VerifyDetach(w)
    PROVE  TypeInv'
  <1> DEFINE job == work[w]
             j == [job EXCEPT !.pc = "v_plan"]
  <1>1. job \in VerifyJob
    BY JobOf DEF VerifyDetach, TypeInv
  <1>2. j \in Job
    BY <1>1 DEF VerifyJob, Job
  <1>3. ASSUME NEW x \in Users
        PROVE  users[x] \in UserRow /\ [users[x] EXCEPT !.otid = None] \in UserRow
    <2>1. users[x] \in UserRow
      BY DEF TypeInv
    <2> QED BY <2>1 DEF UserRow
  <1>4. users' \in [Users -> UserRow]
    BY <1>3 DEF VerifyDetach, Detach
  <1>5. Goto(w, j) /\ UNCHANGED <<status, grants, conflicts, apple>>
    BY DEF VerifyDetach
  <1>6. work' \in [Workers -> Job] /\ calls' \in 0 .. MaxCalls
    BY <1>2, <1>5, GotoTypes
  <1> QED BY <1>4, <1>5, <1>6 DEF TypeInv, apple

LEMMA VerifyPlanTypes ==
    ASSUME TypeInv, NEW w \in Workers, VerifyPlan(w)
    PROVE  TypeInv'
  <1> DEFINE job == work[w]
             rc == job.receipt
             row == users[job.user]
             plan == IF job.tier # rc.tier \/ (job.trial /\ ~rc.trial)
                       THEN FreshPlan(row, rc.tier, rc.trial, SourceOf(rc.otid, VerifyEvents(job)))
                       ELSE [row EXCEPT !.trial = rc.trial,
                                        !.src = IF Paid(row) /\ rc.otid # None THEN rc.otid ELSE @]
             j == [job EXCEPT !.pc = "v_move"]
  <1>1. job \in VerifyJob /\ j \in VerifyJob
    BY JobOf DEF VerifyPlan, TypeInv, VerifyJob
  <1>2. /\ job.user \in Users /\ job.tier \in Tiers /\ job.trial \in BOOLEAN /\ rc \in Receipt
        /\ row \in UserRow /\ clock \in Nat
    BY <1>1, EntitlementAssumption DEF VerifyJob, TypeInv
  <1>3. /\ rc.otid \in Otids \cup {None} /\ rc.tier \in PaidTiers /\ rc.tier \in Tiers
        /\ rc.trial \in BOOLEAN
    BY <1>2 DEF Receipt, Tiers
  <1>4. SourceOf(rc.otid, VerifyEvents(job)) \in Otids \cup {None, Unnamed, Unlogged}
    BY <1>3 DEF SourceOf
  <1>5. PICK s \in Otids \cup {None, Unnamed, Unlogged} :
          s = IF Paid(row) /\ rc.otid # None THEN rc.otid ELSE row.src
    BY <1>2, <1>3 DEF UserRow
  <1>6. [row EXCEPT !.trial = rc.trial, !.src = s] \in UserRow
    BY <1>2, <1>3 DEF UserRow
  <1>7. [row EXCEPT !.trial = rc.trial,
                    !.src = IF Paid(row) /\ rc.otid # None THEN rc.otid ELSE @] \in UserRow
    BY <1>5, <1>6
  <1>8. FreshPlan(row, rc.tier, rc.trial, SourceOf(rc.otid, VerifyEvents(job))) \in UserRow
    BY <1>2, <1>3, <1>4, FreshRow
  <1>9. plan \in UserRow
    BY <1>7, <1>8
  <1>10. users' = [users EXCEPT ![job.user] = BindOtid(plan, rc.otid)]
    BY DEF VerifyPlan
  <1> HIDE DEF plan
  <1>11. users' \in [Users -> UserRow]
    BY <1>3, <1>9, <1>10, BoundRow DEF TypeInv
  <1>12. grants' \subseteq GrantRow
    <2>1. PICK c \in BOOLEAN : c = ((job.trial /\ ~rc.trial) \/ rc.trial)
      OBVIOUS
    <2>2. GrantEvents(job.user, job.tier, rc.tier, c, rc.otid, "verify") \subseteq GrantRow
      BY <1>2, <1>3, GrantsOf DEF TypeInv
    <2>3. grants' = grants \/ grants' = grants \cup
                      GrantEvents(job.user, job.tier, rc.tier, c, rc.otid, "verify")
      BY <2>1, Zenon DEF VerifyPlan, VerifyEvents
    <2> QED BY <2>2, <2>3 DEF TypeInv
  <1>13. Goto(w, j) /\ UNCHANGED <<status, conflicts, apple>>
    BY DEF VerifyPlan
  <1>14. work' \in [Workers -> Job] /\ calls' \in 0 .. MaxCalls
    <2>1. j \in Job
      BY <1>1 DEF Job
    <2> HIDE DEF j
    <2> QED BY <1>13, <2>1, GotoTypes
  <1> QED BY <1>11, <1>12, <1>13, <1>14 DEF TypeInv, apple

(* Of what several accounts used, the most.                                 *)
LEMMA MostUsed ==
    ASSUME NEW S \in SUBSET (0 .. Full), S # {}
    PROVE  Max(S) \in S /\ \A n \in S : n <= Max(S)
  <1>1. \E m \in S : \A n \in S : m >= n
    <2>1. \A n \in S : n \in {0, 1}
      BY DEF Full
    <2>2. CASE 1 \in S
      BY <2>1, <2>2
    <2>3. CASE 1 \notin S
      <3>1. PICK k \in S : TRUE
        OBVIOUS
      <3>2. \A n \in S : k >= n
        BY <2>1, <2>3
      <3> QED BY <3>2
    <2> QED BY <2>2, <2>3
  <1> QED BY <1>1 DEF Max

LEMMA VerifyMoveTypes ==
    ASSUME TypeInv, NEW w \in Workers, VerifyMove(w)
    PROVE  TypeInv'
  <1> DEFINE job == work[w]
             paid == PaidHolders(job)
             j == [job EXCEPT !.pc = "v_records"]
  <1>1. job \in VerifyJob /\ j \in VerifyJob
    BY JobOf DEF VerifyMove, TypeInv, VerifyJob
  <1>2. paid \subseteq Holder
    BY <1>1 DEF PaidHolders, VerifyJob
  <1>3. ASSUME paid # {}
        PROVE  MovePlan(job.user, paid) \in [Users -> UserRow]
    <2> DEFINE most == Max({h.used : h \in paid})
    <2>1. {h.used : h \in paid} \subseteq 0 .. Full /\ {h.used : h \in paid} # {}
      BY <1>2, <1>3 DEF Holder
    <2>2. most \in 0 .. Full
      BY <2>1, MostUsed
    <2> HIDE DEF most
    <2>3. ASSUME NEW x \in Users
          PROVE  /\ users[x] \in UserRow /\ DowngradeToFree(users[x]) \in UserRow
                 /\ [users[x] EXCEPT !.used = most] \in UserRow
      <3>1. users[x] \in UserRow
        BY DEF TypeInv
      <3> QED BY <3>1, <2>2, FreeRow DEF UserRow
    <2> QED BY <2>3 DEF MovePlan, most
  <1>4. users' \in [Users -> UserRow]
    BY <1>3 DEF VerifyMove, TypeInv
  <1>5. (Goto(w, j) \/ Goto(w, Idle)) /\ UNCHANGED <<status, grants, conflicts, apple>>
    BY DEF VerifyMove, Done
  <1>6. work' \in [Workers -> Job] /\ calls' \in 0 .. MaxCalls
    <2>1. j \in Job
      BY <1>1 DEF Job
    <2> HIDE DEF j
    <2> QED BY <1>5, <2>1, IdleIsJob, GotoTypes
  <1> QED BY <1>4, <1>5, <1>6 DEF TypeInv, apple

LEMMA VerifyRecordsTypes ==
    ASSUME TypeInv, NEW w \in Workers, VerifyRecords(w)
    PROVE  TypeInv'
  <1> DEFINE job == work[w]
             o == job.receipt.otid
             from == {h.user : h \in job.held}
             theirs == {g \in grants : g.otid = o /\ g.user \in from}
             moved == (grants \ theirs) \cup {[g EXCEPT !.user = job.user] : g \in theirs}
  <1>1. job \in VerifyJob
    BY JobOf DEF VerifyRecords, TypeInv
  <1>2. job.user \in Users
    BY <1>1 DEF VerifyJob
  <1>3. moved \subseteq GrantRow
    <2>1. ASSUME NEW g \in GrantRow PROVE [g EXCEPT !.user = job.user] \in GrantRow
      BY <1>2 DEF GrantRow
    <2> QED BY <2>1 DEF TypeInv
  <1>4. grants' \subseteq moved
    BY DEF VerifyRecords
  <1>5. status' \in [Otids -> StatusRow \cup {None}]
    <2>1. status' = [status EXCEPT ![o] = IF status[o] = None THEN None
                                           ELSE [status[o] EXCEPT !.user = job.user]]
      BY DEF VerifyRecords
    <2>2. ASSUME NEW p \in Otids, status[p] # None
          PROVE  [status[p] EXCEPT !.user = job.user] \in StatusRow
      <3>1. status[p] \in StatusRow
        BY <2>2 DEF TypeInv
      <3> QED BY <1>2, <3>1 DEF StatusRow
    <2> QED BY <2>1, <2>2 DEF TypeInv
  <1>6. Goto(w, Idle) /\ UNCHANGED <<users, conflicts, apple>>
    BY DEF VerifyRecords, Done
  <1>7. work' \in [Workers -> Job] /\ calls' \in 0 .. MaxCalls
    BY <1>6, IdleIsJob, GotoTypes
  <1> HIDE DEF moved
  <1> QED BY <1>3, <1>4, <1>5, <1>6, <1>7 DEF TypeInv, apple

-----------------------------------------------------------------------------
(* The other writers keep the types.                                        *)

LEMMA SyncAuthTypes ==
    ASSUME TypeInv, NEW w \in Workers, NEW u \in Users, NEW rc \in Receipts \cup {None},
           SyncAuth(w, u, rc)
    PROVE  TypeInv'
  <1> DEFINE j == [pc |-> "s_apply", user |-> u, receipt |-> rc,
                   tier |-> users[u].tier, trial |-> users[u].trial]
  <1>1. users[u] \in UserRow
    BY DEF TypeInv
  <1>2. users[u].tier \in Tiers /\ users[u].trial \in BOOLEAN
    BY <1>1 DEF UserRow
  <1>3. j \in SyncJob
    BY <1>2 DEF SyncJob
  <1>4. j \in Job
    BY <1>3 DEF Job
  <1>5. Start(w, "sync", j) /\ UNCHANGED <<tables, apple>>
    BY DEF SyncAuth
  <1>6. work' \in [Workers -> Job] /\ calls' \in 0 .. MaxCalls
    <2> HIDE DEF j
    <2> QED BY <1>4, <1>5, GotoTypes
  <1> QED BY <1>5, <1>6 DEF TypeInv, tables, apple

LEMMA SyncApplyTypes ==
    ASSUME TypeInv, NEW w \in Workers, SyncApply(w)
    PROVE  TypeInv'
  <1> DEFINE job == work[w]
             rc == job.receipt
             row == users[job.user]
             plan == IF rc = None
                       THEN IF job.tier = "free" THEN row ELSE DowngradeToFree(row)
                     ELSE IF job.tier = rc.tier /\ job.trial = rc.trial THEN row
                     ELSE IF job.trial /\ ~rc.trial
                       THEN FreshPlan(row, rc.tier, FALSE, SourceOf(rc.otid, {}))
                     ELSE [row EXCEPT !.tier = rc.tier, !.trial = rc.trial,
                                      !.src = SourceOf(rc.otid, {}), !.at = clock]
  <1>1. job \in SyncJob
    BY JobOf DEF SyncApply, TypeInv
  <1>2. /\ job.user \in Users /\ rc \in Receipts \cup {None}
        /\ row \in UserRow /\ clock \in Nat
    BY <1>1, EntitlementAssumption DEF SyncJob, TypeInv
  <1>3. DowngradeToFree(row) \in UserRow
    BY <1>2, FreeRow
  <1>4. ASSUME rc # None
        PROVE  /\ FreshPlan(row, rc.tier, FALSE, SourceOf(rc.otid, {})) \in UserRow
               /\ [row EXCEPT !.tier = rc.tier, !.trial = rc.trial,
                              !.src = SourceOf(rc.otid, {}), !.at = clock] \in UserRow
    <2>1. rc \in Receipt
      BY <1>2, <1>4, EntitlementAssumption
    <2>2. rc.otid \in Otids \cup {None} /\ rc.tier \in Tiers /\ rc.trial \in BOOLEAN
      BY <2>1 DEF Receipt, Tiers
    <2>3. SourceOf(rc.otid, {}) \in Otids \cup {None, Unnamed, Unlogged}
      BY <2>2 DEF SourceOf
    <2>4. PICK f \in BOOLEAN : f = FALSE
      OBVIOUS
    <2>5. FreshPlan(row, rc.tier, f, SourceOf(rc.otid, {})) \in UserRow
      BY <1>2, <2>2, <2>3, FreshRow
    <2>6. [row EXCEPT !.tier = rc.tier, !.trial = rc.trial,
                      !.src = SourceOf(rc.otid, {}), !.at = clock] \in UserRow
      BY <1>2, <2>2, <2>3 DEF UserRow
    <2> QED BY <2>4, <2>5, <2>6, Zenon
  <1>5. plan \in UserRow
    BY <1>2, <1>3, <1>4, Zenon
  <1>6. users' = [users EXCEPT ![job.user] = plan]
    BY DEF SyncApply
  <1> HIDE DEF plan
  <1>7. users' \in [Users -> UserRow]
    BY <1>5, <1>6 DEF TypeInv
  <1>8. Goto(w, Idle) /\ UNCHANGED <<status, grants, conflicts, apple>>
    BY DEF SyncApply, Done
  <1>9. work' \in [Workers -> Job] /\ calls' \in 0 .. MaxCalls
    BY <1>8, IdleIsJob, GotoTypes
  <1> QED BY <1>7, <1>8, <1>9 DEF TypeInv, apple

LEMMA NotifyLookupTypes ==
    ASSUME TypeInv, NEW w \in Workers, NEW n \in sent, NotifyLookup(w, n)
    PROVE  TypeInv'
  <1>1. PICK u \in Users, b \in BOOLEAN :
          Start(w, "assn", [pc |-> "n_apply", notice |-> n, user |-> u, byToken |-> b,
                            tier |-> users[u].tier, trial |-> users[u].trial])
    <2>1. CASE \E u \in Holders(n.otid) :
                 Start(w, "assn", [pc |-> "n_apply", notice |-> n, user |-> u, byToken |-> FALSE,
                                   tier |-> users[u].tier, trial |-> users[u].trial])
      <3>1. PICK f \in BOOLEAN : f = FALSE
        OBVIOUS
      <3> QED BY <2>1, <3>1, Zenon DEF Holders
    <2>2. CASE ~ \E u \in Holders(n.otid) :
                 Start(w, "assn", [pc |-> "n_apply", notice |-> n, user |-> u, byToken |-> FALSE,
                                   tier |-> users[u].tier, trial |-> users[u].trial])
      <3>1. PICK t \in BOOLEAN : t = TRUE
        OBVIOUS
      <3>2. Token[n.otid] \in Users
        BY <2>2, EntitlementAssumption DEF NotifyLookup, TypeInv, Notice
      <3> QED BY <2>2, <3>1, <3>2, Zenon DEF NotifyLookup
    <2> QED BY <2>1, <2>2
  <1> DEFINE j == [pc |-> "n_apply", notice |-> n, user |-> u, byToken |-> b,
                   tier |-> users[u].tier, trial |-> users[u].trial]
  <1>2. users[u] \in UserRow /\ n \in Notice
    BY DEF TypeInv
  <1>3. users[u].tier \in Tiers /\ users[u].trial \in BOOLEAN
    BY <1>2 DEF UserRow
  <1>4. j \in NotifyJob
    BY <1>2, <1>3 DEF NotifyJob
  <1>5. j \in Job
    BY <1>4 DEF Job
  <1>6. work' \in [Workers -> Job] /\ calls' \in 0 .. MaxCalls
    <2> HIDE DEF j
    <2> QED BY <1>1, <1>5, GotoTypes DEF j
  <1>7. UNCHANGED <<tables, apple>>
    BY DEF NotifyLookup
  <1> QED BY <1>6, <1>7 DEF TypeInv, tables, apple

LEMMA UpsertTypes ==
    ASSUME TypeInv, NEW o \in Otids, NEW u \in Users, NEW type
    PROVE  UpsertStatus(o, u, type) \in [Otids -> StatusRow \cup {None}]
  <1> DEFINE s == IF StatusOf(type) # None \/ status[o] = None THEN StatusOf(type)
                                                               ELSE status[o].state
             r == [user |-> u, state |-> s]
  <1>1. StatusOf(type) \in {None, 1, 2, 3, 5}
    BY DEF StatusOf
  <1>2. s \in {None, 1, 2, 3, 5}
    BY <1>1 DEF TypeInv, StatusRow
  <1> HIDE DEF s
  <1>3. r \in StatusRow
    BY <1>2 DEF StatusRow
  <1>4. UpsertStatus(o, u, type) = [status EXCEPT ![o] = r]
    BY DEF UpsertStatus, s
  <1> HIDE DEF r
  <1> QED BY <1>3, <1>4 DEF TypeInv

(* What a notification of an active subscription leaves in the account.     *)
LEMMA UpgradedRow ==
    ASSUME TypeInv, NEW w \in Workers, work[w].pc = "n_apply", NotifyUpgrade(work[w])
    PROVE  \E row \in UserRow :
             /\ users' = [users EXCEPT ![work[w].user] = row]
             /\ row.src = work[w].notice.otid
             /\ row.otid = IF work[w].byToken THEN work[w].notice.otid
                                              ELSE users[work[w].user].otid
             /\ row.active = users[work[w].user].active
  <1> DEFINE job == work[w]
             o == job.notice.otid
             t == Plan[o]
             old == users[job.user]
             adopted == IF job.byToken THEN [old EXCEPT !.otid = o] ELSE old
             same == job.tier = t /\ ~job.trial
             new == IF same THEN [adopted EXCEPT !.used = 0, !.src = o, !.at = clock]
                            ELSE FreshPlan(adopted, t, FALSE, o)
  <1>1. job \in NotifyJob
    BY JobOf DEF TypeInv
  <1>2. job.user \in Users /\ job.notice \in Notice /\ old \in UserRow /\ clock \in Nat
    BY <1>1, EntitlementAssumption DEF NotifyJob, TypeInv
  <1>3. o \in Otids /\ t \in Tiers
    BY <1>2, EntitlementAssumption DEF Notice, Tiers
  <1>4. /\ adopted \in UserRow
        /\ adopted.otid = IF job.byToken THEN o ELSE old.otid
        /\ adopted.active = old.active
    BY <1>2, <1>3 DEF UserRow
  <1> HIDE DEF adopted
  <1>5. PICK z \in 0 .. Full : z = 0
    BY DEF Full
  <1>6. PICK f \in BOOLEAN : f = FALSE
    OBVIOUS
  <1>7. PICK c \in Nat : c = clock
    BY <1>2
  <1>8. LET r == [adopted EXCEPT !.used = z, !.src = o, !.at = c] IN
        /\ r \in UserRow /\ r.src = o
        /\ r.otid = adopted.otid /\ r.active = adopted.active
    BY <1>3, <1>4 DEF UserRow
  <1>9. LET r == [adopted EXCEPT !.tier = t, !.trial = f, !.used = z, !.src = o, !.at = c] IN
        /\ r \in UserRow /\ r.src = o
        /\ r.otid = adopted.otid /\ r.active = adopted.active
    BY <1>3, <1>4 DEF UserRow
  <1>10. /\ new \in UserRow /\ new.src = o
         /\ new.otid = adopted.otid /\ new.active = adopted.active
    <2>1. CASE same
      <3>1. new = [adopted EXCEPT !.used = z, !.src = o, !.at = c]
        BY <2>1, <1>5, <1>7, Zenon
      <3> QED BY <3>1, <1>8, Zenon
    <2>2. CASE ~same
      <3>1. new = [adopted EXCEPT !.tier = t, !.trial = f, !.used = z, !.src = o, !.at = c]
        BY <2>2, <1>5, <1>6, <1>7, Zenon DEF FreshPlan
      <3> QED BY <3>1, <1>9, Zenon
    <2> QED BY <2>1, <2>2
  <1>11. users' = [users EXCEPT ![job.user] = new]
    BY DEF NotifyUpgrade, adopted
  <1> HIDE DEF new
  <1> QED BY <1>4, <1>10, <1>11

LEMMA NotifyApplyTypes ==
    ASSUME TypeInv, NEW w \in Workers, NotifyApply(w)
    PROVE  TypeInv'
  <1> DEFINE job == work[w]
             o == job.notice.otid
  <1>1. job \in NotifyJob
    BY JobOf DEF NotifyApply, TypeInv
  <1>2. /\ job.user \in Users /\ job.notice \in Notice /\ job.tier \in Tiers
        /\ users[job.user] \in UserRow
    BY <1>1 DEF NotifyJob, TypeInv
  <1>3. o \in Otids
    BY <1>2 DEF Notice
  <1>4. UpsertStatus(o, job.user, job.notice.type) \in [Otids -> StatusRow \cup {None}]
    BY <1>2, <1>3, UpsertTypes
  <1>5. Goto(w, Idle) /\ UNCHANGED <<conflicts, apple>>
    BY DEF NotifyApply, Done
  <1>6. work' \in [Workers -> Job] /\ calls' \in 0 .. MaxCalls
    BY <1>5, IdleIsJob, GotoTypes
  <1>7. /\ users' \in [Users -> UserRow]
        /\ status' \in [Otids -> StatusRow \cup {None}]
        /\ grants' \subseteq GrantRow
    <2>1. CASE NotifyUpgrade(job)
      <3>1. users' \in [Users -> UserRow]
        <4>1. job.pc = "n_apply"
          BY DEF NotifyApply
        <4>2. PICK row \in UserRow : users' = [users EXCEPT ![job.user] = row]
          BY <2>1, <4>1, UpgradedRow
        <4> QED BY <4>2 DEF TypeInv
      <3>2. status' \in [Otids -> StatusRow \cup {None}]
        BY <2>1, <1>4 DEF NotifyUpgrade
      <3>3. PICK type \in {"subscribed", "upgraded", "renewed"} :
              grants' = grants \cup {Grant(job.user, type, Plan[o], o, "assn")}
        BY <2>1 DEF NotifyUpgrade
      <3>4. Grant(job.user, type, Plan[o], o, "assn") \in GrantRow
        BY <1>2, <1>3, EntitlementAssumption DEF Grant, GrantRow, TypeInv
      <3> QED BY <3>1, <3>2, <3>3, <3>4 DEF TypeInv
    <2>2. CASE NotifyDowngrade(job)
      <3>1. DowngradeToFree(users[job.user]) \in UserRow
        BY <1>2, FreeRow
      <3> QED BY <2>2, <3>1, <1>4 DEF NotifyDowngrade, TypeInv
    <2>3. CASE NotifyRecord(job)
      BY <2>3, <1>4 DEF NotifyRecord, TypeInv
    <2>4. CASE NotifyOther(job)
      BY <2>4 DEF NotifyOther, TypeInv
    <2> QED BY <2>1, <2>2, <2>3, <2>4 DEF NotifyApply
  <1> QED BY <1>5, <1>6, <1>7 DEF TypeInv, apple

LEMMA SweepTypes ==
    ASSUME TypeInv, NEW w \in Workers, SweepStep(w)
    PROVE  TypeInv'
  <1>1. ASSUME NEW u \in Users, SweepRead(w, u) PROVE TypeInv'
    <2> DEFINE j == [pc |-> "r_ask", user |-> u, otid |-> users[u].otid,
                     tier |-> users[u].tier, answer |-> None, expires |-> 0]
    <2>1. users[u] \in UserRow
      BY DEF TypeInv
    <2>2. users[u].otid \in Otids /\ users[u].tier \in Tiers
      BY <2>1, <1>1 DEF UserRow, SweepRead
    <2>3. j \in AskJob
      BY <2>2, EntitlementAssumption DEF AskJob
    <2>4. j \in Job
      BY <2>3 DEF Job
    <2>5. Goto(w, j) /\ UNCHANGED <<tables, apple>>
      BY <1>1 DEF SweepRead
    <2>6. work' \in [Workers -> Job] /\ calls' \in 0 .. MaxCalls
      <3> HIDE DEF j
      <3> QED BY <2>4, <2>5, GotoTypes
    <2> QED BY <2>5, <2>6 DEF TypeInv, tables, apple
  <1>2. CASE SweepUnanswered(w)
    <2>1. Goto(w, Idle) /\ UNCHANGED <<tables, apple>>
      BY <1>2 DEF SweepUnanswered, Done
    <2>2. work' \in [Workers -> Job] /\ calls' \in 0 .. MaxCalls
      BY <2>1, IdleIsJob, GotoTypes
    <2> QED BY <2>1, <2>2 DEF TypeInv, tables, apple
  <1>3. CASE SweepAsk(w)
    <2> DEFINE job == work[w]
               j == [job EXCEPT !.pc = "r_apply", !.answer = AppleTier(job.otid),
                                !.expires = lapsed[job.otid]]
    <2>1. job \in AskJob
      BY <1>3, JobOf DEF SweepAsk, TypeInv
    <2>2. job.otid \in Otids
      BY <2>1 DEF AskJob
    <2>3. AppleTier(job.otid) \in Tiers /\ lapsed[job.otid] \in 0 .. MaxClock
      BY <2>2, EntitlementAssumption DEF AppleTier, Tiers, TypeInv
    <2>4. j \in AnswerJob
      BY <2>1, <2>3 DEF AskJob, AnswerJob
    <2>5. j \in Job
      BY <2>4 DEF Job
    <2>6. Goto(w, j) /\ UNCHANGED <<tables, apple>>
      BY <1>3 DEF SweepAsk
    <2>7. work' \in [Workers -> Job] /\ calls' \in 0 .. MaxCalls
      <3> HIDE DEF j
      <3> QED BY <2>5, <2>6, GotoTypes
    <2> QED BY <2>6, <2>7 DEF TypeInv, tables, apple
  <1>4. CASE SweepApply(w)
    <2> DEFINE job == work[w]
               row == ApplyTier(users[job.user], job.answer, job.otid)
    <2>1. job \in AnswerJob
      BY <1>4, JobOf DEF SweepApply, TypeInv
    <2>2. /\ job.user \in Users /\ job.otid \in Otids /\ job.tier \in Tiers
          /\ job.answer \in Tiers /\ users[job.user] \in UserRow
          /\ clock \in Nat
      BY <2>1, EntitlementAssumption DEF AnswerJob, TypeInv
    <2>3. row \in UserRow
      <3>1. CASE job.answer = "free"
        BY <3>1, <2>2, FreeRow DEF ApplyTier
      <3>2. CASE job.answer # "free"
        BY <3>2, <2>2 DEF ApplyTier, UserRow
      <3> QED BY <3>1, <3>2
    <2>4. users' = users \/ users' = [users EXCEPT ![job.user] = row]
      BY <1>4 DEF SweepApply
    <2> HIDE DEF row
    <2>5. users' \in [Users -> UserRow]
      BY <2>3, <2>4 DEF TypeInv
    <2>6. Goto(w, Idle) /\ UNCHANGED <<status, grants, conflicts, apple>>
      BY <1>4 DEF SweepApply, Done
    <2>7. work' \in [Workers -> Job] /\ calls' \in 0 .. MaxCalls
      BY <2>6, IdleIsJob, GotoTypes
    <2> QED BY <2>5, <2>6, <2>7 DEF TypeInv, apple
  <1> QED BY <1>1, <1>2, <1>3, <1>4 DEF SweepStep

LEMMA MergeTypes ==
    ASSUME TypeInv, NEW w \in Workers, MergeStep(w)
    PROVE  TypeInv'
  <1>a. Anonymous \in Users /\ AppleUser \in Users
    BY EntitlementAssumption
  <1>b. users[Anonymous] \in UserRow /\ users[AppleUser] \in UserRow
    BY <1>a DEF TypeInv
  <1>1. CASE MergeAuth(w)
    <2> DEFINE j == [pc |-> "m_apply", anon |-> users[Anonymous], apple |-> users[AppleUser]]
    <2>1. j \in MergeJob
      BY <1>b DEF MergeJob
    <2>2. j \in Job
      BY <2>1 DEF Job
    <2>3. Start(w, "merge", j) /\ UNCHANGED <<tables, apple>>
      BY <1>1 DEF MergeAuth
    <2>4. work' \in [Workers -> Job] /\ calls' \in 0 .. MaxCalls
      <3> HIDE DEF j
      <3> QED BY <2>2, <2>3, GotoTypes
    <2> QED BY <2>3, <2>4 DEF TypeInv, tables, apple
  <1>2. CASE MergeApply(w)
    <2> DEFINE anon == work[w].anon
               closed == [users[Anonymous] EXCEPT !.active = FALSE]
               moved == [anon EXCEPT !.active = users[AppleUser].active]
               emptied == [closed EXCEPT !.tier = "free", !.otid = None, !.src = None]
    <2>1. work[w] \in MergeJob
      BY <1>2, JobOf DEF MergeApply, TypeInv
    <2>2. anon \in UserRow
      BY <2>1 DEF MergeJob
    <2>3. PICK f \in BOOLEAN : f = FALSE
      OBVIOUS
    <2>4. [users[Anonymous] EXCEPT !.active = f] \in UserRow
      BY <1>b DEF UserRow
    <2>5. closed \in UserRow
      BY <2>3, <2>4, Zenon
    <2> HIDE DEF closed
    <2>6. emptied \in UserRow /\ moved \in UserRow
      BY <1>b, <2>2, <2>5 DEF UserRow, Tiers
    <2> HIDE DEF emptied, moved
    <2>7. \/ users' = [users EXCEPT ![AppleUser] = moved, ![Anonymous] = emptied]
          \/ users' = [users EXCEPT ![Anonymous] = closed]
      BY <1>2, Zenon DEF MergeApply, moved, emptied, closed
    <2>8. users' \in [Users -> UserRow]
      BY <1>a, <2>5, <2>6, <2>7 DEF TypeInv
    <2>9. status' \in [Otids -> StatusRow \cup {None}]
      <3>1. ASSUME NEW o \in Otids, status[o] # None
            PROVE  [status[o] EXCEPT !.user = AppleUser] \in StatusRow
        <4>1. status[o] \in StatusRow
          BY <3>1 DEF TypeInv
        <4> QED BY <1>a, <4>1 DEF StatusRow
      <3>2. \/ status' = status
            \/ status' = [o \in Otids |-> IF status[o] # None /\ status[o].user = Anonymous
                            THEN [status[o] EXCEPT !.user = AppleUser] ELSE status[o]]
        BY <1>2 DEF MergeApply
      <3> QED BY <3>1, <3>2 DEF TypeInv
    <2>10. grants' \subseteq GrantRow
      <3>1. ASSUME NEW g \in GrantRow PROVE [g EXCEPT !.user = AppleUser] \in GrantRow
        BY <1>a DEF GrantRow
      <3>2. \/ grants' = grants
            \/ grants' = {IF g.user = Anonymous THEN [g EXCEPT !.user = AppleUser] ELSE g :
                            g \in grants}
        BY <1>2 DEF MergeApply
      <3> QED BY <3>1, <3>2 DEF TypeInv
    <2>11. conflicts' \subseteq Users \X (Otids \cup {None})
      <3>1. anon.otid \in Otids \cup {None}
        BY <2>2 DEF UserRow
      <3>2. conflicts' = conflicts \/ conflicts' = conflicts \cup {<<AppleUser, anon.otid>>}
        BY <1>2 DEF MergeApply
      <3> QED BY <1>a, <3>1, <3>2 DEF TypeInv
    <2>12. Goto(w, Idle) /\ UNCHANGED apple
      BY <1>2 DEF MergeApply, Done
    <2>13. work' \in [Workers -> Job] /\ calls' \in 0 .. MaxCalls
      BY <2>12, IdleIsJob, GotoTypes
    <2> QED BY <2>8, <2>9, <2>10, <2>11, <2>12, <2>13 DEF TypeInv, apple
  <1> QED BY <1>1, <1>2 DEF MergeStep

LEMMA TypeInit == Init => TypeInv
  <1> SUFFICES ASSUME Init PROVE TypeInv
    OBVIOUS
  <1>1. PICK f \in BOOLEAN, t \in BOOLEAN : f = FALSE /\ t = TRUE
    OBVIOUS
  <1>2. [tier |-> "free", trial |-> f, used |-> 0, otid |-> None, active |-> t,
         src |-> None, at |-> 0] \in UserRow
    BY DEF UserRow, Tiers, Full
  <1>3. NewUser \in UserRow
    BY <1>1, <1>2, Zenon DEF NewUser
  <1> QED BY <1>3, IdleIsJob, EntitlementAssumption DEF Init, TypeInv

LEMMA TypeStep == TypeInv /\ [Next]_vars => TypeInv'
  <1> SUFFICES ASSUME TypeInv, [Next]_vars PROVE TypeInv'
    OBVIOUS
  <1>1. ASSUME NEW w \in Workers, VerifyStep(w) PROVE TypeInv'
    BY <1>1, VerifyAuthTypes, VerifyHoldersTypes, VerifyDetachTypes, VerifyPlanTypes,
       VerifyMoveTypes, VerifyRecordsTypes DEF VerifyStep
  <1>2. ASSUME NEW w \in Workers, SyncStep(w) PROVE TypeInv'
    BY <1>2, SyncAuthTypes, SyncApplyTypes DEF SyncStep
  <1>3. ASSUME NEW w \in Workers, NotifyStep(w) PROVE TypeInv'
    BY <1>3, NotifyLookupTypes, NotifyApplyTypes DEF NotifyStep
  <1>4. ASSUME NEW w \in Workers, Abort(w) PROVE TypeInv'
    <2>1. Goto(w, Idle) /\ UNCHANGED <<tables, apple>>
      BY <1>4 DEF Abort, Done
    <2>2. work' \in [Workers -> Job] /\ calls' \in 0 .. MaxCalls
      BY <2>1, IdleIsJob, GotoTypes
    <2> QED BY <2>1, <2>2 DEF TypeInv, tables, apple
  <1>5. ASSUME NEW w \in Workers, NEW u \in Users, NEW t \in Tiers, SetTier(w, u, t)
        PROVE  TypeInv'
    <2>1. [users[u] EXCEPT !.tier = t, !.used = 0, !.src = None] \in UserRow
      <3>1. users[u] \in UserRow
        BY DEF TypeInv
      <3>2. PICK z \in 0 .. Full : z = 0
        BY DEF Full
      <3>3. [users[u] EXCEPT !.tier = t, !.used = z, !.src = None] \in UserRow
        BY <3>1 DEF UserRow
      <3> QED BY <3>2, <3>3
    <2>2. users' = [users EXCEPT ![u] = [users[u] EXCEPT !.tier = t, !.used = 0, !.src = None]]
      BY <1>5 DEF SetTier, TypeInv
    <2>3. Start(w, "admin", Idle) /\ UNCHANGED <<status, grants, conflicts, apple>>
      BY <1>5 DEF SetTier
    <2>4. work' \in [Workers -> Job] /\ calls' \in 0 .. MaxCalls
      BY <2>3, IdleIsJob, GotoTypes
    <2> QED BY <2>1, <2>2, <2>3, <2>4 DEF TypeInv, apple
  <1>6. ASSUME NEW w \in Workers, NEW u \in Users, Spend(w, u) PROVE TypeInv'
    <2>1. [users[u] EXCEPT !.used = Full] \in UserRow
      <3>1. users[u] \in UserRow
        BY DEF TypeInv
      <3> QED BY <3>1 DEF UserRow, Full
    <2> QED BY <1>6, <2>1 DEF Spend, TypeInv, apple
  <1>7. ASSUME NEW o \in Otids, NEW types, Send(o, types) PROVE sent' \subseteq Notice
    BY <1>7 DEF Send, Notice, TypeInv
  <1>8. ASSUME NEW o \in Otids, Subscribe(o) \/ Lapse(o) PROVE TypeInv'
    <2>1. sent' \subseteq Notice
      BY <1>7, <1>8 DEF Subscribe, Lapse
    <2> QED BY <1>8, <2>1, EntitlementAssumption DEF Subscribe, Lapse, TypeInv, tables
  <1>9. CASE UNCHANGED vars
    BY <1>9 DEF vars, TypeInv
  <1> QED BY <1>1, <1>2, <1>3, <1>4, <1>5, <1>6, <1>8, <1>9, SweepTypes, MergeTypes DEF Next

(* Every table keeps its type, whatever overlaps.                           *)
THEOREM EntitlementTyped == Spec => []TypeOK
  <1>1. TypeInv => TypeOK
    BY DEF TypeInv, TypeOK, StatusRow, GrantRow
  <1> QED BY TypeInit, TypeStep, <1>1, PTL DEF Spec

-----------------------------------------------------------------------------
(* One request at a time.                                                   *)

(* Handlers do not overlap and run to their end, no client states its        *)
(* entitlement without a receipt, and a receipt's id is one Apple signed.    *)
OneAtATime ==
    /\ \A v, w \in Workers : v = w
    /\ ~Faults
    /\ "sync" \notin Routes
    /\ \A rc \in Receipts : rc.otid # None => rc.signed

HeldByOne ==
    \A x, y \in Users : users[x].otid = users[y].otid /\ users[x].otid # None => x = y

(* The plan of u is being moved off it: its id is gone, it is not yet free.  *)
Moving(u, o) ==
    \E w \in Workers :
        /\ work[w].pc \in {"v_plan", "v_move"}
        /\ work[w].receipt.otid = o
        /\ \E h \in work[w].held : h.user = u /\ h.tier # "free"

(* The purchase behind a plan is the one whose id the account holds.        *)
SourceIsHeld ==
    \A u \in Users :
        Paid(users[u]) /\ users[u].src \in Otids
        => users[u].otid = users[u].src \/ Moving(u, users[u].src)

(* What verify-receipt read still holds.                                    *)
VerifyRelies(job) ==
    /\ job.pc \in {"v_holders", "v_detach", "v_plan"} => job.tier = users[job.user].tier
    /\ job.pc \in {"v_detach", "v_plan"} => ~KeptByConflict(job.user, job.receipt.otid)
    /\ job.pc = "v_detach" =>
         \A x \in Users \ {job.user} :
             users[x].otid = job.receipt.otid /\ users[x].otid # None
             => \E h \in job.held : h.user = x
    /\ job.pc \in {"v_detach", "v_plan", "v_move"} =>
         \A h \in job.held : /\ h.user # job.user /\ job.receipt.otid # None
                             /\ h.tier = users[h.user].tier /\ h.used = users[h.user].used
    /\ job.pc = "v_plan" =>
         \A x \in Users : users[x].otid = job.receipt.otid /\ users[x].otid # None
                          => x = job.user
    /\ job.pc = "v_records" => job.receipt.otid # None

(* And what the others read.                                                *)
OthersRely(job) ==
    /\ job.pc # "s_apply"
    /\ job.pc = "n_apply" /\ job.byToken =>
         \A x \in Users : users[x].otid # job.notice.otid
    /\ job.pc = "n_apply" /\ ~job.byToken => users[job.user].otid = job.notice.otid
    /\ job.pc \in {"r_ask", "r_apply"} =>
         users[job.user].otid = job.otid /\ users[job.user].tier = job.tier
    /\ job.pc = "m_apply" =>
         job.anon = users[Anonymous] /\ job.apple = users[AppleUser] /\ job.anon.active

PlanInv ==
    /\ HeldByOne
    /\ SourceIsHeld
    /\ \A w \in Workers : VerifyRelies(work[w]) /\ OthersRely(work[w])

(* An idle handler relies on nothing.                                       *)
LEMMA IdleRelies == VerifyRelies(Idle) /\ OthersRely(Idle)
  BY DEF VerifyRelies, OthersRely, Idle

LEMMA IdleReliesNext == VerifyRelies(Idle)' /\ OthersRely(Idle)'
  BY DEF VerifyRelies, OthersRely, Idle

(* A step that changes no account, of a handler that moves no plan.         *)
LEMMA ReadsOnly ==
    ASSUME OneAtATime, PlanInv, NEW w \in Workers, users' = users,
           work[w].pc \notin {"v_plan", "v_move"}
    PROVE  HeldByOne' /\ SourceIsHeld'
  <1>1. \A v \in Workers : v = w
    BY DEF OneAtATime
  <1>2. \A u \in Users : Paid(users[u]) /\ users[u].src \in Otids => users[u].otid = users[u].src
    BY <1>1 DEF PlanInv, SourceIsHeld, Moving
  <1> QED BY <1>2 DEF PlanInv, HeldByOne, SourceIsHeld, Paid

LEMMA PlanStart == Init => PlanInv
  BY EntitlementAssumption, IdleRelies
  DEF Init, PlanInv, HeldByOne, SourceIsHeld, NewUser, Paid

(* The handler's next job decides what is relied on after its step.         *)
LEMMA JobNext ==
    ASSUME OneAtATime, TypeInv, NEW w \in Workers, NEW j,
           work' = [work EXCEPT ![w] = j]
    PROVE  \A v \in Workers : v = w /\ work'[v] = j
  BY DEF OneAtATime, TypeInv

LEMMA VerifyAuthPlan ==
    ASSUME OneAtATime, TypeInv, PlanInv, NEW w \in Workers, NEW u \in Users,
           NEW rc \in Receipts, VerifyAuth(w, u, rc)
    PROVE  PlanInv'
  <1>0. PICK j : j = [pc |-> "v_holders", user |-> u, receipt |-> rc,
                      tier |-> users[u].tier, trial |-> users[u].trial, held |-> {}]
    OBVIOUS
  <1>1. users' = users /\ work[w] = Idle /\ work' = [work EXCEPT ![w] = j]
    BY <1>0 DEF VerifyAuth, Start, tables
  <1>2. HeldByOne' /\ SourceIsHeld'
    BY <1>1, ReadsOnly DEF Idle
  <1>3. \A v \in Workers : work'[v] = j
    BY <1>1, JobNext
  <1>4. \A v \in Workers : VerifyRelies(work[v])' /\ OthersRely(work[v])'
    BY <1>0, <1>1, <1>3 DEF VerifyRelies, OthersRely
  <1> QED BY <1>2, <1>4 DEF PlanInv

LEMMA VerifyHoldersPlan ==
    ASSUME OneAtATime, TypeInv, PlanInv, NEW w \in Workers, VerifyHolders(w)
    PROVE  PlanInv'
  <1> DEFINE job == work[w]
             o == job.receipt.otid
             held == {[user |-> u, tier |-> users[u].tier, used |-> users[u].used] :
                        u \in {x \in Users \ {job.user} : o # None /\ users[x].otid = o}}
  <1>a. PICK s : s = held
    OBVIOUS
  <1>b. PICK j : j = [job EXCEPT !.pc = "v_detach", !.held = s]
    OBVIOUS
  <1>c. PICK me, rc : me = job.user /\ rc = job.receipt
    OBVIOUS
  <1>1. job \in VerifyJob /\ job.pc = "v_holders"
    BY JobOf DEF VerifyHolders, TypeInv
  <1>2. users' = users /\ conflicts' = conflicts
    BY DEF VerifyHolders, tables
  <1>3. HeldByOne' /\ SourceIsHeld'
    BY <1>1, <1>2, ReadsOnly
  <1>4. CASE work' = [work EXCEPT ![w] = Idle]
    BY <1>3, <1>4, JobNext, IdleReliesNext DEF PlanInv
  <1>5. CASE work' = [work EXCEPT ![w] = j] /\ ~KeptByConflict(job.user, o)
    <2>1. \A v \in Workers : work'[v] = j
      BY <1>5, JobNext
    <2>2. /\ j.pc = "v_detach" /\ j.user = me /\ j.receipt = rc
          /\ j.tier = job.tier /\ j.held = s
      BY <1>1, <1>b, <1>c DEF VerifyJob
    <2>3. VerifyRelies(j)'
      <3>1. j.tier = users'[j.user].tier
        BY <1>1, <1>2, <1>c, <2>2 DEF PlanInv, VerifyRelies
      <3>2. ~KeptByConflict(j.user, j.receipt.otid)'
        BY <1>2, <1>5, <1>c, <2>2 DEF KeptByConflict
      <3>3. \A h \in s : /\ h.user # me /\ rc.otid # None
                         /\ h.tier = users[h.user].tier /\ h.used = users[h.user].used
        BY <1>a, <1>c
      <3>4. \A x \in Users \ {me} :
              users[x].otid = rc.otid /\ users[x].otid # None => \E h \in s : h.user = x
        <4>1. ASSUME NEW x \in Users \ {me}, users[x].otid = rc.otid, users[x].otid # None
              PROVE  \E h \in s : h.user = x
          <5>1. [user |-> x, tier |-> users[x].tier, used |-> users[x].used] \in s
            BY <1>a, <1>c, <4>1
          <5> QED BY <5>1
        <4> QED BY <4>1
      <3> QED BY <1>2, <2>2, <3>1, <3>2, <3>3, <3>4 DEF VerifyRelies
    <2>4. OthersRely(j)'
      BY <2>2 DEF OthersRely
    <2> QED BY <1>3, <2>1, <2>3, <2>4 DEF PlanInv
  <1> QED BY <1>4, <1>5, <1>a, <1>b DEF VerifyHolders, Done, Goto

LEMMA VerifyDetachPlan ==
    ASSUME OneAtATime, TypeInv, PlanInv, NEW w \in Workers, VerifyDetach(w)
    PROVE  PlanInv'
  <1>a. PICK job : job = work[w]
    OBVIOUS
  <1>b. PICK j : j = [job EXCEPT !.pc = "v_plan"]
    OBVIOUS
  <1> DEFINE o == job.receipt.otid
  <1>1. job \in VerifyJob /\ job.pc = "v_detach"
    BY <1>a, JobOf DEF VerifyDetach, TypeInv
  <1>2. /\ job.user \in Users /\ VerifyRelies(job)
        /\ \A x \in Users : users[x] \in UserRow
    BY <1>a, <1>1 DEF VerifyJob, PlanInv, TypeInv
  <1>3. \A v \in Workers : v = w
    BY DEF OneAtATime
  <1>4. work' = [work EXCEPT ![w] = j] /\ conflicts' = conflicts
    BY <1>a, <1>b DEF VerifyDetach, Goto
  <1>5. \A v \in Workers : work'[v] = j
    BY <1>4, JobNext
  <1>6. /\ j.pc = "v_plan" /\ j.user = job.user /\ j.receipt = job.receipt
        /\ j.tier = job.tier /\ j.held = job.held
    BY <1>1, <1>b DEF VerifyJob
  <1>7. ASSUME NEW x \in Users
        PROVE  /\ users'[x].tier = users[x].tier /\ users'[x].used = users[x].used
               /\ users'[x].src = users[x].src
               /\ users'[x].otid = IF x # job.user /\ o # None /\ users[x].otid = o
                                     THEN None ELSE users[x].otid
    <2>1. users'[x] = IF x # job.user /\ o # None /\ users[x].otid = o
                        THEN [users[x] EXCEPT !.otid = None] ELSE users[x]
      BY <1>a DEF VerifyDetach, Detach
    <2> QED BY <1>2, <2>1 DEF UserRow
  <1>8. HeldByOne'
    BY <1>7 DEF PlanInv, HeldByOne
  <1>9. \A u \in Users : Paid(users[u]) /\ users[u].src \in Otids => users[u].otid = users[u].src
    BY <1>a, <1>1, <1>3 DEF PlanInv, SourceIsHeld, Moving
  <1>10. ASSUME NEW u \in Users, NEW p \in Otids, Paid(users'[u]), users'[u].src = p
         PROVE  users'[u].otid = p \/ Moving(u, p)'
    <2>1. Paid(users[u]) /\ users[u].src = p /\ users[u].otid = p
      BY <1>7, <1>9, <1>10 DEF Paid
    <2>2. CASE users'[u].otid # users[u].otid
      <3>1. u # job.user /\ o # None /\ users[u].otid = o
        BY <1>7, <2>2
      <3>2. PICK h \in job.held : h.user = u
        BY <1>1, <1>2, <3>1 DEF VerifyRelies
      <3>3. h.tier # "free"
        BY <1>1, <1>2, <2>1, <3>2 DEF VerifyRelies, Paid
      <3> QED BY <1>5, <1>6, <2>1, <3>1, <3>2, <3>3 DEF Moving
    <2> QED BY <2>1, <2>2
  <1>11. SourceIsHeld'
    BY <1>10 DEF SourceIsHeld, Paid
  <1>12. VerifyRelies(j)'
    <2>1. j.tier = users'[j.user].tier
      BY <1>1, <1>2, <1>6, <1>7 DEF VerifyRelies
    <2>2. ~KeptByConflict(j.user, j.receipt.otid)'
      BY <1>1, <1>2, <1>4, <1>6 DEF VerifyRelies, KeptByConflict
    <2>3. ASSUME NEW h \in job.held
          PROVE  /\ h.user # job.user /\ o # None
                 /\ h.tier = users'[h.user].tier /\ h.used = users'[h.user].used
      <3>1. h.user \in Users
        BY <1>1 DEF VerifyJob, Holder
      <3> QED BY <1>1, <1>2, <1>7, <3>1 DEF VerifyRelies
    <2>4. \A x \in Users : users'[x].otid = o /\ users'[x].otid # None => x = job.user
      BY <1>7
    <2> QED BY <1>6, <2>1, <2>2, <2>3, <2>4 DEF VerifyRelies
  <1>13. OthersRely(j)'
    BY <1>6 DEF OthersRely
  <1> QED BY <1>5, <1>8, <1>11, <1>12, <1>13 DEF PlanInv

LEMMA VerifyPlanPlan ==
    ASSUME OneAtATime, TypeInv, PlanInv, NEW w \in Workers, VerifyPlan(w)
    PROVE  PlanInv'
  <1>a. PICK job : job = work[w]
    OBVIOUS
  <1>b. PICK j : j = [job EXCEPT !.pc = "v_move"]
    OBVIOUS
  <1>c. PICK rc, row, s : rc = job.receipt /\ row = users[job.user] /\ s = SourceOf(rc.otid, VerifyEvents(job))
    OBVIOUS
  <1> DEFINE change == job.tier # rc.tier \/ (job.trial /\ ~rc.trial)
             kept == [row EXCEPT !.trial = rc.trial,
                                 !.src = IF Paid(row) /\ rc.otid # None THEN rc.otid ELSE @]
             plan == IF change THEN FreshPlan(row, rc.tier, rc.trial, s) ELSE kept
  <1>1. job \in VerifyJob /\ job.pc = "v_plan"
    BY <1>a, JobOf DEF VerifyPlan, TypeInv
  <1>2. /\ job.user \in Users /\ VerifyRelies(job) /\ row \in UserRow /\ rc \in Receipt
        /\ \A x \in Users : users[x] \in UserRow
    BY <1>a, <1>c, <1>1, EntitlementAssumption DEF VerifyJob, PlanInv, TypeInv
  <1>3. rc.otid \in Otids \cup {None} /\ rc.tier \in PaidTiers
    BY <1>2 DEF Receipt
  <1>4. work' = [work EXCEPT ![w] = j]
    BY <1>a, <1>b DEF VerifyPlan, Goto
  <1>5. \A v \in Workers : v = w /\ work'[v] = j
    BY <1>4, JobNext
  <1>6. /\ j.pc = "v_move" /\ j.user = job.user /\ j.receipt = rc /\ j.held = job.held
    BY <1>1, <1>b, <1>c DEF VerifyJob
  <1>7. users' = [users EXCEPT ![job.user] = BindOtid(plan, rc.otid)]
    BY <1>a, <1>c DEF VerifyPlan
  <1>8. /\ plan.otid = row.otid
        /\ Paid(plan) /\ plan.src \in Otids => plan.src = rc.otid \/ (Paid(row) /\ plan.src = row.src
                                                                       /\ rc.otid = None)
    <2>1. CASE change
      <3>1. plan = [row EXCEPT !.tier = rc.tier, !.trial = rc.trial, !.used = 0,
                               !.src = s, !.at = clock]
        BY <2>1, Zenon DEF FreshPlan
      <3> HIDE DEF plan
      <3>2. plan.otid = row.otid /\ plan.src = s
        BY <1>2, <3>1 DEF UserRow
      <3> QED BY <3>2, <1>3, <1>c, EntitlementAssumption DEF SourceOf
    <2>2. CASE ~change
      <3>1. plan = kept
        BY <2>2
      <3> HIDE DEF plan
      <3>2. /\ plan.otid = row.otid /\ plan.tier = row.tier
            /\ plan.src = IF Paid(row) /\ rc.otid # None THEN rc.otid ELSE row.src
        BY <1>2, <3>1 DEF UserRow
      <3> QED BY <3>2 DEF Paid
    <2> QED BY <2>1, <2>2
  <1>9. plan \in UserRow
    <2>1. s \in Otids \cup {None, Unnamed, Unlogged} /\ rc.trial \in BOOLEAN /\ rc.tier \in Tiers
          /\ clock \in Nat
      BY <1>2, <1>3, <1>c, EntitlementAssumption DEF SourceOf, Receipt, Tiers, TypeInv
    <2>2. FreshPlan(row, rc.tier, rc.trial, s) \in UserRow
      BY <1>2, <2>1, FreshRow
    <2>3. kept \in UserRow
      BY <1>2, <1>3, <2>1 DEF UserRow
    <2> QED BY <2>2, <2>3
  <1> HIDE DEF plan
  <1>10. PICK new : new = BindOtid(plan, rc.otid)
    OBVIOUS
  <1>11. /\ new.otid = IF rc.otid = None THEN row.otid ELSE rc.otid
         /\ new.src = plan.src /\ new.tier = plan.tier
    BY <1>8, <1>9, <1>10 DEF BindOtid, UserRow
  <1>12. users' = [users EXCEPT ![job.user] = new]
    BY <1>7, <1>10
  <1>13. \A x \in Users : users'[x] = IF x = job.user THEN new ELSE users[x]
    BY <1>2, <1>12 DEF TypeInv
  <1>14. HeldByOne'
    <2>1. \A x \in Users : users[x].otid = rc.otid /\ users[x].otid # None => x = job.user
      BY <1>1, <1>2, <1>c DEF VerifyRelies
    <2> QED BY <1>11, <1>13, <1>c, <2>1 DEF PlanInv, HeldByOne
  <1>15. ASSUME NEW u \in Users, NEW p \in Otids, Paid(users'[u]), users'[u].src = p
         PROVE  users'[u].otid = p \/ Moving(u, p)'
    <2>0. \A h \in job.held : h.user # job.user
      BY <1>1, <1>2 DEF VerifyRelies
    <2>1. CASE u = job.user
      <3>1. Paid(plan) /\ plan.src = p
        BY <1>11, <1>13, <1>15, <2>1 DEF Paid
      <3>2. CASE p = rc.otid
        BY <1>11, <1>13, <2>1, <3>2, EntitlementAssumption
      <3>3. CASE Paid(row) /\ p = row.src /\ rc.otid = None
        <4>1. row.otid = p \/ Moving(u, p)
          BY <1>15, <1>c, <2>1, <3>3 DEF PlanInv, SourceIsHeld
        <4>2. ~Moving(u, p)
          BY <1>5, <1>a, <2>0, <2>1 DEF Moving
        <4> QED BY <1>11, <1>13, <2>1, <3>3, <4>1, <4>2
      <3> QED BY <1>8, <3>1, <3>2, <3>3
    <2>2. CASE u # job.user
      <3>1. users'[u] = users[u]
        BY <1>13, <2>2
      <3>2. users[u].otid = p \/ Moving(u, p)
        BY <1>15, <3>1 DEF PlanInv, SourceIsHeld
      <3>3. CASE Moving(u, p)
        <4>1. rc.otid = p /\ \E h \in job.held : h.user = u /\ h.tier # "free"
          BY <3>3, <1>5, <1>a, <1>c DEF Moving
        <4> QED BY <4>1, <1>5, <1>6 DEF Moving
      <3> QED BY <3>1, <3>2, <3>3
    <2> QED BY <2>1, <2>2
  <1>16. SourceIsHeld'
    BY <1>15 DEF SourceIsHeld, Paid
  <1>17. VerifyRelies(j)'
    <2>1. ASSUME NEW h \in job.held
          PROVE  /\ h.user # job.user /\ rc.otid # None
                 /\ h.tier = users'[h.user].tier /\ h.used = users'[h.user].used
      <3>1. h.user \in Users
        BY <1>1 DEF VerifyJob, Holder
      <3> QED BY <1>1, <1>2, <1>c, <1>13, <3>1 DEF VerifyRelies
    <2> QED BY <1>6, <2>1 DEF VerifyRelies
  <1>18. OthersRely(j)'
    BY <1>6 DEF OthersRely
  <1> QED BY <1>5, <1>14, <1>16, <1>17, <1>18 DEF PlanInv

(* What a move does to each account.                                        *)
LEMMA MovedRows ==
    ASSUME TypeInv, NEW u \in Users, NEW paid \in SUBSET Holder, paid # {},
           users' = MovePlan(u, paid), \A h \in paid : h.user # u
    PROVE  /\ \A x \in Users : users'[x].otid = users[x].otid
           /\ \A x \in Users : (\E h \in paid : h.user = x) =>
                  users'[x].tier = "free" /\ users'[x].src = None
           /\ \A x \in Users : (~ \E h \in paid : h.user = x) =>
                  users'[x].tier = users[x].tier /\ users'[x].src = users[x].src
                  /\ users'[x].at = users[x].at
           /\ \A x \in Users : users'[x].active = users[x].active
           /\ \A h \in paid : users'[u].used >= h.used
  <1> DEFINE most == Max({h.used : h \in paid})
  <1>1. {h.used : h \in paid} \subseteq 0 .. Full /\ {h.used : h \in paid} # {}
    BY DEF Holder
  <1>2. most \in 0 .. Full /\ \A h \in paid : h.used <= most
    <2>1. most \in {h.used : h \in paid} /\ \A n \in {h.used : h \in paid} : n <= most
      BY <1>1, MostUsed
    <2> HIDE DEF most
    <2> QED BY <1>1, <2>1
  <1>3. ASSUME NEW x \in Users
        PROVE  users'[x] = IF x = u THEN [users[x] EXCEPT !.used = most]
                           ELSE IF \E h \in paid : h.user = x THEN DowngradeToFree(users[x])
                           ELSE users[x]
    BY DEF MovePlan
  <1> HIDE DEF most
  <1>4. ASSUME NEW x \in Users
        PROVE  /\ users[x] \in UserRow
               /\ LET r == [users[x] EXCEPT !.used = most] IN
                    /\ r.otid = users[x].otid /\ r.tier = users[x].tier /\ r.src = users[x].src
                    /\ r.at = users[x].at /\ r.active = users[x].active /\ r.used = most
               /\ LET r == DowngradeToFree(users[x]) IN
                    r.otid = users[x].otid /\ r.tier = "free" /\ r.src = None
                    /\ r.active = users[x].active
    <2>1. users[x] \in UserRow
      BY DEF TypeInv
    <2> QED BY <2>1 DEF UserRow, DowngradeToFree
  <1>5. \A h \in paid : h.user \in Users /\ h.used \in 0 .. Full
    BY DEF Holder
  <1>6. ASSUME NEW x \in Users
        PROVE  /\ users'[x].otid = users[x].otid
               /\ (\E h \in paid : h.user = x) =>
                  users'[x].tier = "free" /\ users'[x].src = None
               /\ (~ \E h \in paid : h.user = x) =>
                    users'[x].tier = users[x].tier /\ users'[x].src = users[x].src
                    /\ users'[x].at = users[x].at
               /\ users'[x].active = users[x].active
    <2>1. CASE x = u
      <3>1. users'[x] = [users[x] EXCEPT !.used = most] /\ ~ \E h \in paid : h.user = x
        BY <1>3, <2>1
      <3> QED BY <1>4, <3>1
    <2>2. CASE x # u /\ \E h \in paid : h.user = x
      <3>1. users'[x] = DowngradeToFree(users[x])
        BY <1>3, <2>2
      <3> QED BY <1>4, <2>2, <3>1
    <2>3. CASE x # u /\ ~ \E h \in paid : h.user = x
      <3>1. users'[x] = users[x]
        BY <1>3, <2>3
      <3> QED BY <2>3, <3>1
    <2> QED BY <2>1, <2>2, <2>3
  <1>7. users'[u].used = most
    BY <1>3, <1>4
  <1>8. \A h \in paid : users'[u].used >= h.used
    BY <1>2, <1>5, <1>7 DEF Full
  <1> QED BY <1>6, <1>8

LEMMA VerifyMovePlan ==
    ASSUME OneAtATime, TypeInv, PlanInv, NEW w \in Workers, VerifyMove(w)
    PROVE  PlanInv'
  <1>a. PICK job : job = work[w]
    OBVIOUS
  <1>b. PICK j : j = [job EXCEPT !.pc = "v_records"]
    OBVIOUS
  <1>c. PICK paid : paid = PaidHolders(job)
    OBVIOUS
  <1>1. job \in VerifyJob /\ job.pc = "v_move"
    BY <1>a, JobOf DEF VerifyMove, TypeInv
  <1>2. /\ job.user \in Users /\ VerifyRelies(job) /\ job.receipt \in Receipts
        /\ paid \in SUBSET Holder /\ paid = {h \in job.held : h.tier # "free"}
    BY <1>a, <1>c, <1>1 DEF VerifyJob, PlanInv, PaidHolders
  <1>3. \A h \in job.held : h.user # job.user /\ job.receipt.otid # None
    BY <1>1, <1>2 DEF VerifyRelies
  <1>4. \A u \in Users, p \in Otids : Moving(u, p) => \E h \in paid : h.user = u
    BY <1>a, <1>2 DEF Moving, OneAtATime
  <1>5. CASE paid = {}
    <2>1. users' = users /\ work' = [work EXCEPT ![w] = Idle]
      BY <1>5, <1>a, <1>c DEF VerifyMove, Done, Goto
    <2>2. \A v \in Workers : work'[v] = Idle
      BY <2>1, JobNext
    <2>3. HeldByOne'
      BY <2>1 DEF PlanInv, HeldByOne
    <2>4. SourceIsHeld'
      BY <2>1, <1>4, <1>5 DEF PlanInv, SourceIsHeld, Paid
    <2> QED BY <2>2, <2>3, <2>4, IdleReliesNext DEF PlanInv
  <1>6. CASE paid # {}
    <2>1. job.receipt.otid # None
      BY <1>2, <1>3, <1>6
    <2>2. job.receipt.signed
      BY <1>2, <2>1, Zenon DEF OneAtATime
    <2>3. users' = MovePlan(job.user, paid) /\ work' = [work EXCEPT ![w] = j]
      BY <1>6, <1>a, <1>b, <1>c, <2>2 DEF VerifyMove, Goto
    <2>4. \A v \in Workers : work'[v] = j
      BY <2>3, JobNext
    <2>5. j.pc = "v_records" /\ j.receipt = job.receipt
      BY <1>1, <1>b DEF VerifyJob
    <2>6. \A h \in paid : h.user # job.user
      BY <1>2, <1>3
    <2>7. /\ \A x \in Users : users'[x].otid = users[x].otid
          /\ \A x \in Users : (\E h \in paid : h.user = x) => users'[x].tier = "free"
          /\ \A x \in Users : (~ \E h \in paid : h.user = x) =>
                 users'[x].tier = users[x].tier /\ users'[x].src = users[x].src
      BY <1>2, <1>6, <2>3, <2>6, MovedRows
    <2>8. HeldByOne'
      BY <2>7 DEF PlanInv, HeldByOne
    <2>9. SourceIsHeld'
      BY <2>7, <1>4 DEF PlanInv, SourceIsHeld, Paid
    <2>10. VerifyRelies(j)' /\ OthersRely(j)'
      BY <2>1, <2>5 DEF VerifyRelies, OthersRely
    <2> QED BY <2>4, <2>8, <2>9, <2>10 DEF PlanInv
  <1> QED BY <1>5, <1>6

LEMMA VerifyRecordsPlan ==
    ASSUME OneAtATime, TypeInv, PlanInv, NEW w \in Workers, VerifyRecords(w)
    PROVE  PlanInv'
  <1>1. users' = users /\ work' = [work EXCEPT ![w] = Idle] /\ work[w].pc = "v_records"
    BY DEF VerifyRecords, Done, Goto
  <1>2. \A v \in Workers : work'[v] = Idle
    BY <1>1, JobNext
  <1> QED BY <1>1, <1>2, ReadsOnly, IdleReliesNext DEF PlanInv

LEMMA NotifyLookupPlan ==
    ASSUME OneAtATime, TypeInv, PlanInv, NEW w \in Workers, NEW n \in sent, NotifyLookup(w, n)
    PROVE  PlanInv'
  <1>1. PICK u, b, t, tr :
          /\ Start(w, "assn", [pc |-> "n_apply", notice |-> n, user |-> u, byToken |-> b,
                               tier |-> t, trial |-> tr])
          /\ \/ b = FALSE /\ users[u].otid = n.otid
             \/ b = TRUE /\ Holders(n.otid) = {}
    BY Zenon DEF NotifyLookup, Holders
  <1>2. PICK j : j = [pc |-> "n_apply", notice |-> n, user |-> u, byToken |-> b,
                      tier |-> t, trial |-> tr]
    OBVIOUS
  <1>3. users' = users /\ work[w] = Idle /\ work' = [work EXCEPT ![w] = j]
    BY <1>1, <1>2 DEF NotifyLookup, Start, tables
  <1>4. HeldByOne' /\ SourceIsHeld'
    BY <1>3, ReadsOnly DEF Idle
  <1>5. \A v \in Workers : work'[v] = j
    BY <1>3, JobNext
  <1>6. VerifyRelies(j)'
    BY <1>2 DEF VerifyRelies
  <1>7. OthersRely(j)'
    <2>1. CASE b = FALSE /\ users[u].otid = n.otid
      <3>1. ~j.byToken /\ j.pc = "n_apply" /\ users[j.user].otid = j.notice.otid
        BY <2>1, <1>2
      <3> QED BY <3>1, <1>3 DEF OthersRely
    <2>2. CASE b = TRUE /\ Holders(n.otid) = {}
      <3>1. /\ j.byToken /\ j.pc = "n_apply"
            /\ \A x \in Users : users[x].otid # j.notice.otid
        BY <2>2, <1>2 DEF Holders
      <3> QED BY <3>1, <1>3 DEF OthersRely
    <2> QED BY <1>1, <2>1, <2>2
  <1> QED BY <1>4, <1>5, <1>6, <1>7 DEF PlanInv

LEMMA NotifyApplyPlan ==
    ASSUME OneAtATime, TypeInv, PlanInv, NEW w \in Workers, NotifyApply(w)
    PROVE  PlanInv'
  <1>a. PICK job : job = work[w]
    OBVIOUS
  <1> DEFINE o == job.notice.otid
  <1>1. job \in NotifyJob /\ job.pc = "n_apply"
    BY <1>a, JobOf DEF NotifyApply, TypeInv
  <1>2. /\ job.user \in Users /\ job.notice \in Notice /\ OthersRely(job)
        /\ users[job.user] \in UserRow
    BY <1>a, <1>1 DEF NotifyJob, PlanInv, TypeInv
  <1>3. work' = [work EXCEPT ![w] = Idle]
    BY DEF NotifyApply, Done, Goto
  <1>4. \A v \in Workers : v = w /\ work'[v] = Idle
    BY <1>3, JobNext
  <1>5. \A u \in Users : Paid(users[u]) /\ users[u].src \in Otids => users[u].otid = users[u].src
    BY <1>a, <1>1, <1>4 DEF PlanInv, SourceIsHeld, Moving
  <1>6. o \in Otids
    BY <1>2 DEF Notice
  <1>7. HeldByOne' /\ SourceIsHeld'
    <2>1. CASE NotifyUpgrade(job)
      <3>1. PICK row \in UserRow :
              /\ users' = [users EXCEPT ![job.user] = row]
              /\ row.src = o
              /\ row.otid = IF job.byToken THEN o ELSE users[job.user].otid
        BY <2>1, <1>a, <1>1, UpgradedRow
      <3>2. row.otid = o /\ \A x \in Users : x # job.user => users[x].otid # o
        <4>1. CASE job.byToken
          BY <4>1, <3>1, <1>1, <1>2 DEF OthersRely
        <4>2. CASE ~job.byToken
          BY <4>2, <3>1, <1>1, <1>2, <1>6, EntitlementAssumption
          DEF OthersRely, PlanInv, HeldByOne
        <4> QED BY <4>1, <4>2
      <3>3. \A x \in Users : users'[x] = IF x = job.user THEN row ELSE users[x]
        BY <1>2, <3>1 DEF TypeInv
      <3> QED BY <1>5, <3>1, <3>2, <3>3 DEF PlanInv, HeldByOne, SourceIsHeld, Paid
    <2>2. CASE NotifyDowngrade(job)
      <3>1. \/ users' = users
            \/ users' = [users EXCEPT ![job.user] = DowngradeToFree(users[job.user])]
        BY <2>2 DEF NotifyDowngrade
      <3>2. LET r == DowngradeToFree(users[job.user]) IN
              r.otid = users[job.user].otid /\ r.tier = "free"
        BY <1>2 DEF DowngradeToFree, UserRow
      <3>3. \A x \in Users : /\ users'[x].otid = users[x].otid
                             /\ users'[x] = users[x] \/ users'[x].tier = "free"
        BY <1>2, <3>1, <3>2 DEF TypeInv
      <3> QED BY <1>5, <3>3 DEF PlanInv, HeldByOne, SourceIsHeld, Paid
    <2>3. CASE NotifyRecord(job) \/ NotifyOther(job)
      <3>1. users' = users
        BY <2>3 DEF NotifyRecord, NotifyOther
      <3> QED BY <1>a, <1>1, <3>1, ReadsOnly
    <2> QED BY <1>a, <2>1, <2>2, <2>3 DEF NotifyApply
  <1> QED BY <1>4, <1>7, IdleReliesNext DEF PlanInv

LEMMA SweepPlan ==
    ASSUME OneAtATime, TypeInv, PlanInv, NEW w \in Workers, SweepStep(w)
    PROVE  PlanInv'
  <1>a. PICK job : job = work[w]
    OBVIOUS
  <1>b. \A v \in Workers : v = w
    BY DEF OneAtATime
  <1>1. ASSUME NEW u \in Users, SweepRead(w, u) PROVE PlanInv'
    <2>1. PICK j : j = [pc |-> "r_ask", user |-> u, otid |-> users[u].otid,
                        tier |-> users[u].tier, answer |-> None, expires |-> 0]
      OBVIOUS
    <2>2. users' = users /\ work[w] = Idle /\ work' = [work EXCEPT ![w] = j]
      BY <1>1, <2>1 DEF SweepRead, Goto, tables
    <2>3. HeldByOne' /\ SourceIsHeld'
      BY <2>2, ReadsOnly DEF Idle
    <2>4. \A v \in Workers : work'[v] = j
      BY <2>2, JobNext
    <2>5. VerifyRelies(j)' /\ OthersRely(j)'
      BY <2>1, <2>2 DEF VerifyRelies, OthersRely
    <2> QED BY <2>3, <2>4, <2>5 DEF PlanInv
  <1>2. CASE SweepUnanswered(w)
    <2>1. users' = users /\ work' = [work EXCEPT ![w] = Idle] /\ work[w].pc = "r_ask"
      BY <1>2 DEF SweepUnanswered, Done, Goto, tables
    <2>2. \A v \in Workers : work'[v] = Idle
      BY <2>1, JobNext
    <2> QED BY <2>1, <2>2, ReadsOnly, IdleReliesNext DEF PlanInv
  <1>3. CASE SweepAsk(w)
    <2>1. PICK j : j = [job EXCEPT !.pc = "r_apply", !.answer = AppleTier(job.otid),
                                   !.expires = lapsed[job.otid]]
      OBVIOUS
    <2>2. users' = users /\ job.pc = "r_ask" /\ work' = [work EXCEPT ![w] = j]
      BY <1>3, <1>a, <2>1 DEF SweepAsk, Goto, tables
    <2>3. job \in AskJob
      BY <1>a, <2>2, JobOf DEF TypeInv
    <2>4. HeldByOne' /\ SourceIsHeld'
      BY <1>a, <2>2, ReadsOnly
    <2>5. \A v \in Workers : work'[v] = j
      BY <2>2, JobNext
    <2>6. j.pc = "r_apply" /\ j.user = job.user /\ j.otid = job.otid /\ j.tier = job.tier
      BY <2>1, <2>3 DEF AskJob
    <2>7. VerifyRelies(j)'
      BY <2>6 DEF VerifyRelies
    <2>8. OthersRely(j)'
      BY <1>a, <2>2, <2>6 DEF PlanInv, OthersRely
    <2> QED BY <2>4, <2>5, <2>7, <2>8 DEF PlanInv
  <1>4. CASE SweepApply(w)
    <2>1. job \in AnswerJob /\ job.pc = "r_apply"
      BY <1>4, <1>a, JobOf DEF SweepApply, TypeInv
    <2>2. /\ job.user \in Users /\ OthersRely(job) /\ users[job.user] \in UserRow
      BY <1>a, <2>1 DEF AnswerJob, PlanInv, TypeInv
    <2>3. users[job.user].otid = job.otid
      BY <2>1, <2>2 DEF OthersRely
    <2>4. work' = [work EXCEPT ![w] = Idle]
      BY <1>4 DEF SweepApply, Done, Goto
    <2>5. \A v \in Workers : work'[v] = Idle
      BY <2>4, JobNext
    <2>6. \A u \in Users : Paid(users[u]) /\ users[u].src \in Otids
                           => users[u].otid = users[u].src
      BY <1>a, <2>1, <1>b DEF PlanInv, SourceIsHeld, Moving
    <2>7. PICK row : row = ApplyTier(users[job.user], job.answer, job.otid)
      OBVIOUS
    <2>8. row.otid = job.otid /\ (row.tier = "free" \/ row.src = job.otid)
      BY <2>2, <2>3, <2>7 DEF ApplyTier, UserRow
    <2>9. users' = users \/ users' = [users EXCEPT ![job.user] = row]
      BY <1>4, <1>a, <2>7 DEF SweepApply
    <2>10. \A x \in Users :
             /\ users'[x].otid = users[x].otid
             /\ users'[x] = users[x] \/ users'[x].tier = "free" \/ users'[x].src = users'[x].otid
      BY <2>2, <2>3, <2>8, <2>9 DEF TypeInv
    <2>11. HeldByOne' /\ SourceIsHeld'
      BY <2>6, <2>10 DEF PlanInv, HeldByOne, SourceIsHeld, Paid
    <2> QED BY <2>5, <2>11, IdleReliesNext DEF PlanInv
  <1> QED BY <1>1, <1>2, <1>3, <1>4 DEF SweepStep

(* What a merge does to the two accounts.                                   *)
LEMMA MergedRows ==
    ASSUME OneAtATime, TypeInv, PlanInv, NEW w \in Workers, MergeApply(w)
    PROVE  LET anon == users[Anonymous]
               into == users[AppleUser]
               moves == Paid(anon) /\ ~Paid(into) IN
           /\ anon.active
           /\ ~users'[Anonymous].active
           /\ \A x \in Users \ {Anonymous, AppleUser} : users'[x] = users[x]
           /\ moves =>
                /\ users'[AppleUser].otid = anon.otid /\ users'[AppleUser].src = anon.src
                /\ users'[AppleUser].tier = anon.tier /\ users'[AppleUser].at = anon.at
                /\ users'[Anonymous].otid = None /\ users'[Anonymous].tier = "free"
                /\ users'[Anonymous].src = None
           /\ ~moves =>
                /\ users'[AppleUser] = into
                /\ users'[Anonymous].otid = anon.otid /\ users'[Anonymous].src = anon.src
                /\ users'[Anonymous].tier = anon.tier /\ users'[Anonymous].at = anon.at
  <1>a. Anonymous \in Users /\ AppleUser \in Users /\ Anonymous # AppleUser
    BY EntitlementAssumption
  <1>b. users[Anonymous] \in UserRow /\ users[AppleUser] \in UserRow
    BY <1>a DEF TypeInv
  <1>1. /\ work[w].anon = users[Anonymous] /\ work[w].apple = users[AppleUser]
        /\ work[w].anon.active
    BY DEF MergeApply, PlanInv, OthersRely
  <1>2. PICK anon, into : anon = users[Anonymous] /\ into = users[AppleUser]
    OBVIOUS
  <1>3. PICK f \in BOOLEAN : f = FALSE
    OBVIOUS
  <1>4. PICK closed : closed = [anon EXCEPT !.active = f]
    OBVIOUS
  <1>5. PICK moved : moved = [anon EXCEPT !.active = into.active]
    OBVIOUS
  <1>6. PICK emptied : emptied = [closed EXCEPT !.tier = "free", !.otid = None, !.src = None]
    OBVIOUS
  <1>7. /\ closed.active = f /\ closed.otid = anon.otid /\ closed.src = anon.src
        /\ closed.tier = anon.tier /\ closed.at = anon.at
        /\ moved.otid = anon.otid /\ moved.src = anon.src /\ moved.tier = anon.tier
        /\ moved.at = anon.at
        /\ emptied.active = f /\ emptied.otid = None /\ emptied.tier = "free" /\ emptied.src = None
    BY <1>b, <1>2, <1>4, <1>5, <1>6 DEF UserRow
  <1>8. users' = IF Paid(anon) /\ ~Paid(into)
                   THEN [users EXCEPT ![AppleUser] = moved, ![Anonymous] = emptied]
                   ELSE [users EXCEPT ![Anonymous] = closed]
    BY <1>1, <1>2, <1>3, <1>4, <1>5, <1>6, Zenon DEF MergeApply
  <1>9. CASE Paid(anon) /\ ~Paid(into)
    <2>1. /\ users'[AppleUser] = moved /\ users'[Anonymous] = emptied
          /\ \A x \in Users \ {Anonymous, AppleUser} : users'[x] = users[x]
      BY <1>8, <1>9, <1>a DEF TypeInv
    <2>2. ~users'[Anonymous].active
      BY <2>1, <1>7, <1>3, Zenon
    <2> QED BY <1>1, <1>2, <1>7, <1>9, <2>1, <2>2
  <1>10. CASE ~(Paid(anon) /\ ~Paid(into))
    <2>1. /\ users'[AppleUser] = into /\ users'[Anonymous] = closed
          /\ \A x \in Users \ {Anonymous, AppleUser} : users'[x] = users[x]
      BY <1>8, <1>10, <1>2, <1>a DEF TypeInv
    <2>2. ~users'[Anonymous].active
      BY <2>1, <1>7, <1>3, Zenon
    <2> QED BY <1>1, <1>2, <1>7, <1>10, <2>1, <2>2
  <1> QED BY <1>9, <1>10

LEMMA MergePlan ==
    ASSUME OneAtATime, TypeInv, PlanInv, NEW w \in Workers, MergeStep(w)
    PROVE  PlanInv'
  <1>1. CASE MergeAuth(w)
    <2>1. PICK j : j = [pc |-> "m_apply", anon |-> users[Anonymous], apple |-> users[AppleUser]]
      OBVIOUS
    <2>2. users' = users /\ work[w] = Idle /\ work' = [work EXCEPT ![w] = j]
      BY <1>1, <2>1 DEF MergeAuth, Start, tables
    <2>3. HeldByOne' /\ SourceIsHeld'
      BY <2>2, ReadsOnly DEF Idle
    <2>4. \A v \in Workers : work'[v] = j
      BY <2>2, JobNext
    <2>5. j.pc = "m_apply" /\ j.anon = users[Anonymous] /\ j.apple = users[AppleUser]
      BY <2>1
    <2>6. j.anon.active
      BY <1>1, <2>5, Zenon DEF MergeAuth
    <2>7. VerifyRelies(j)'
      BY <2>5 DEF VerifyRelies
    <2>8. OthersRely(j)'
      BY <2>2, <2>5, <2>6 DEF OthersRely
    <2> QED BY <2>3, <2>4, <2>7, <2>8 DEF PlanInv
  <1>2. CASE MergeApply(w)
    <2>1. work' = [work EXCEPT ![w] = Idle] /\ work[w].pc = "m_apply"
      BY <1>2 DEF MergeApply, Done, Goto
    <2>2. \A v \in Workers : v = w /\ work'[v] = Idle
      BY <2>1, JobNext
    <2>3. \A u \in Users : Paid(users[u]) /\ users[u].src \in Otids
                           => users[u].otid = users[u].src
      BY <2>1, <2>2 DEF PlanInv, SourceIsHeld, Moving
    <2>4. Anonymous \in Users /\ AppleUser \in Users
      BY EntitlementAssumption
    <2>5. CASE Paid(users[Anonymous]) /\ ~Paid(users[AppleUser])
      <3>1. /\ \A x \in Users \ {Anonymous, AppleUser} : users'[x] = users[x]
            /\ users'[AppleUser].otid = users[Anonymous].otid
            /\ users'[AppleUser].src = users[Anonymous].src
            /\ users'[AppleUser].tier = users[Anonymous].tier
            /\ users'[Anonymous].otid = None /\ users'[Anonymous].tier = "free"
        BY <1>2, <2>5, MergedRows
      <3>2. HeldByOne'
        BY <2>4, <3>1 DEF PlanInv, HeldByOne
      <3>3. SourceIsHeld'
        BY <2>3, <2>4, <3>1 DEF SourceIsHeld, Paid
      <3> QED BY <2>2, <3>2, <3>3, IdleReliesNext DEF PlanInv
    <2>6. CASE ~(Paid(users[Anonymous]) /\ ~Paid(users[AppleUser]))
      <3>1. /\ \A x \in Users \ {Anonymous} : users'[x] = users[x]
            /\ users'[Anonymous].otid = users[Anonymous].otid
            /\ users'[Anonymous].src = users[Anonymous].src
            /\ users'[Anonymous].tier = users[Anonymous].tier
        BY <1>2, <2>6, MergedRows
      <3>2. HeldByOne'
        BY <2>4, <3>1 DEF PlanInv, HeldByOne
      <3>3. SourceIsHeld'
        BY <2>3, <2>4, <3>1 DEF SourceIsHeld, Paid
      <3> QED BY <2>2, <3>2, <3>3, IdleReliesNext DEF PlanInv
    <2> QED BY <2>5, <2>6
  <1> QED BY <1>1, <1>2 DEF MergeStep

LEMMA PlanStep ==
    OneAtATime /\ TypeInv /\ PlanInv /\ [Next]_vars => PlanInv'
  <1> SUFFICES ASSUME OneAtATime, TypeInv, PlanInv, [Next]_vars PROVE PlanInv'
    OBVIOUS
  <1>0. \A v, w \in Workers : v = w
    BY DEF OneAtATime
  <1>1. ASSUME NEW w \in Workers, VerifyStep(w) PROVE PlanInv'
    BY <1>1, VerifyAuthPlan, VerifyHoldersPlan, VerifyDetachPlan, VerifyPlanPlan,
       VerifyMovePlan, VerifyRecordsPlan DEF VerifyStep
  <1>2. ASSUME NEW w \in Workers, SyncStep(w) PROVE PlanInv'
    BY <1>2 DEF SyncStep, SyncAuth, Start, SyncApply, OneAtATime, PlanInv, OthersRely
  <1>3. ASSUME NEW w \in Workers, NotifyStep(w) PROVE PlanInv'
    BY <1>3, NotifyLookupPlan, NotifyApplyPlan DEF NotifyStep
  <1>4. ASSUME NEW w \in Workers, Abort(w) PROVE PlanInv'
    BY <1>4, Zenon DEF Abort, OneAtATime
  <1>5. ASSUME NEW w \in Workers, NEW u \in Users, work[w] = Idle, work' = work,
               \A x \in Users : /\ users'[x].otid = users[x].otid
                                /\ users'[x].tier # "free" /\ users'[x].src \in Otids =>
                                     /\ users'[x].tier = users[x].tier
                                     /\ users'[x].src = users[x].src
        PROVE  PlanInv'
    <2>1. \A v \in Workers : work[v] = Idle /\ work'[v] = Idle
      BY <1>0, <1>5
    <2>2. \A x \in Users : Paid(users[x]) /\ users[x].src \in Otids
                           => users[x].otid = users[x].src
      BY <2>1 DEF PlanInv, SourceIsHeld, Moving, Idle
    <2>3. HeldByOne' /\ SourceIsHeld'
      BY <1>5, <2>2 DEF PlanInv, HeldByOne, SourceIsHeld, Paid
    <2> QED BY <2>1, <2>3, IdleReliesNext DEF PlanInv
  <1>6. ASSUME NEW w \in Workers, NEW u \in Users, NEW t \in Tiers, SetTier(w, u, t)
        PROVE  PlanInv'
    <2>1. PICK row : row = [users[u] EXCEPT !.tier = t, !.used = 0, !.src = None]
      OBVIOUS
    <2>2. users' = [users EXCEPT ![u] = row]
      BY <1>6, <2>1 DEF SetTier, TypeInv
    <2>3. users[u] \in UserRow
      BY DEF TypeInv
    <2>4. row.otid = users[u].otid /\ row.src = None
      BY <2>1, <2>3 DEF UserRow
    <2>5. \A x \in Users : /\ users'[x].otid = users[x].otid
                           /\ users'[x].src \in Otids => users'[x] = users[x]
      BY <2>2, <2>4, EntitlementAssumption DEF TypeInv
    <2>6. work[w] = Idle /\ work' = [work EXCEPT ![w] = Idle]
      BY <1>6 DEF SetTier, Start
    <2>7. work' = work
      BY <2>6 DEF TypeInv
    <2> QED BY <1>5, <2>5, <2>6, <2>7
  <1>7. ASSUME NEW w \in Workers, NEW u \in Users, Spend(w, u) PROVE PlanInv'
    <2>1. users[u] \in UserRow
      BY DEF TypeInv
    <2>2. PICK row : row = [users[u] EXCEPT !.used = Full]
      OBVIOUS
    <2>3. row.otid = users[u].otid /\ row.tier = users[u].tier /\ row.src = users[u].src
      BY <2>1, <2>2 DEF UserRow
    <2>4. users' = [users EXCEPT ![u] = row] /\ work[w] = Idle /\ work' = work
      BY <1>7, <2>2 DEF Spend
    <2> QED BY <1>5, <2>3, <2>4 DEF TypeInv
  <1>8. ASSUME users' = users, work' = work, conflicts' = conflicts PROVE PlanInv'
    BY <1>8 DEF PlanInv, HeldByOne, SourceIsHeld, Moving, Paid, VerifyRelies, OthersRely,
       KeptByConflict
  <1>9. ASSUME NEW o \in Otids, Subscribe(o) \/ Lapse(o) PROVE PlanInv'
    BY <1>8, <1>9 DEF Subscribe, Lapse, tables
  <1>10. CASE UNCHANGED vars
    BY <1>8, <1>10 DEF vars
  <1> QED BY <1>1, <1>2, <1>3, <1>4, <1>6, <1>7, <1>9, <1>10, SweepPlan, MergePlan DEF Next

LEMMA AtMostOne ==
    ASSUME NEW S, \A x, y \in S : x = y
    PROVE  Cardinality(S) <= 1
  <1>1. CASE S = {}
    BY <1>1, FS_EmptySet
  <1>2. CASE S # {}
    <2>1. PICK x \in S : S = {x}
      BY <1>2
    <2> QED BY <2>1, FS_Singleton
  <1> QED BY <1>1, <1>2

(* "The plan moves: the other holder is downgraded": a subscription's id is  *)
(* stored on one account and pays for one, for any number of accounts.      *)
THEOREM OneSubscriptionPaysOnce == OneAtATime => (Spec => []PaidOnce)
  <1> SUFFICES ASSUME OneAtATime PROVE Spec => []PaidOnce
    OBVIOUS
  <1>1. TypeInv => TypeOK
    BY DEF TypeInv, TypeOK, StatusRow, GrantRow
  <1>2. PlanInv => HeldOnce
    <2> SUFFICES ASSUME PlanInv, NEW o \in Otids PROVE Cardinality(Holders(o)) <= 1
      BY DEF HeldOnce
    <2>1. \A x, y \in Holders(o) : x = y
      BY EntitlementAssumption DEF PlanInv, HeldByOne, Holders
    <2> QED BY <2>1, AtMostOne
  <1>3. PlanInv => OnePaidAccount
    <2> SUFFICES ASSUME PlanInv, NEW o \in Otids,
                        \A w \in Workers : work[w].pc \notin {"v_detach", "v_plan", "v_move"}
                 PROVE  Cardinality({u \in Users : Paid(users[u]) /\ users[u].src = o}) <= 1
      BY DEF OnePaidAccount
    <2>1. \A u \in Users : Paid(users[u]) /\ users[u].src = o => users[u].otid = o
      BY DEF PlanInv, SourceIsHeld, Moving
    <2>2. \A x, y \in {u \in Users : Paid(users[u]) /\ users[u].src = o} : x = y
      BY <2>1, EntitlementAssumption DEF PlanInv, HeldByOne
    <2> QED BY <2>2, AtMostOne
  <1>4. TypeInv /\ PlanInv => PaidOnce
    BY <1>1, <1>2, <1>3 DEF PaidOnce
  <1> QED BY TypeInit, TypeStep, PlanStart, PlanStep, <1>4, PTL DEF Spec

(* While one handler is at work, only its own steps are taken.              *)
LEMMA OnlyItsStep ==
    ASSUME OneAtATime, TypeInv, PlanInv, NEW w \in Workers, work[w].pc # "idle",
           [Next]_vars, work' # work
    PROVE  \/ VerifyHolders(w) \/ VerifyDetach(w) \/ VerifyPlan(w) \/ VerifyMove(w)
           \/ VerifyRecords(w) \/ NotifyApply(w) \/ SweepUnanswered(w) \/ SweepAsk(w)
           \/ SweepApply(w) \/ MergeApply(w)
  <1>1. \A v \in Workers : v = w /\ work[v] # Idle
    BY DEF OneAtATime, Idle
  <1>2. ASSUME NEW v \in Workers, VerifyStep(v)
        PROVE  VerifyHolders(w) \/ VerifyDetach(w) \/ VerifyPlan(w) \/ VerifyMove(w)
               \/ VerifyRecords(w)
    BY <1>1, <1>2 DEF VerifyStep, VerifyAuth, Start
  <1>3. ASSUME NEW v \in Workers PROVE ~SyncStep(v)
    BY <1>1 DEF SyncStep, SyncAuth, Start, SyncApply, PlanInv, OthersRely
  <1>4. ASSUME NEW v \in Workers, NotifyStep(v) PROVE NotifyApply(w)
    BY <1>1, <1>4 DEF NotifyStep, NotifyLookup, Start
  <1>5. ASSUME NEW v \in Workers, SweepStep(v)
        PROVE  SweepUnanswered(w) \/ SweepAsk(w) \/ SweepApply(w)
    BY <1>1, <1>5 DEF SweepStep, SweepRead
  <1>6. ASSUME NEW v \in Workers, MergeStep(v) PROVE MergeApply(w)
    BY <1>1, <1>6 DEF MergeStep, MergeAuth, Start
  <1>7. ASSUME NEW v \in Workers PROVE ~Abort(v)
    BY Zenon DEF Abort, OneAtATime
  <1>8. ASSUME NEW v \in Workers, NEW u \in Users, NEW t \in Tiers
        PROVE  ~SetTier(v, u, t) /\ ~Spend(v, u)
    BY <1>1 DEF SetTier, Start, Spend
  <1>9. ASSUME NEW o \in Otids PROVE ~Subscribe(o) /\ ~Lapse(o)
    BY DEF Subscribe, Lapse
  <1>10. Next
    BY DEF vars
  <1>11. PICK v \in Workers :
           VerifyStep(v) \/ NotifyStep(v) \/ SweepStep(v) \/ MergeStep(v)
    <2>1. ~ \E v \in Workers, u \in Users, t \in Tiers : SetTier(v, u, t)
      BY <1>8
    <2>2. ~ \E v \in Workers, u \in Users : Spend(v, u)
      BY <1>8, EntitlementAssumption DEF Tiers
    <2>3. ~ \E o \in Otids : Subscribe(o) \/ Lapse(o)
      BY <1>9
    <2>4. \E v \in Workers : VerifyStep(v) \/ SyncStep(v) \/ NotifyStep(v)
                             \/ SweepStep(v) \/ MergeStep(v) \/ Abort(v)
      BY <1>10, <2>1, <2>2, <2>3 DEF Next
    <2> QED BY <1>3, <1>7, <2>4
  <1> QED BY <1>2, <1>4, <1>5, <1>6, <1>11

(* "The requester inherits its usage for the period instead of the fresh    *)
(* allowance": a restored purchase brings what was used of it along.        *)
THEOREM RestoresBringTheirUsage == OneAtATime => (Spec => UsageTravels)
  <1> SUFFICES ASSUME OneAtATime PROVE Spec => UsageTravels
    OBVIOUS
  <1> DEFINE Travels(w, u) ==
        /\ work[w].pc = "v_move" /\ work'[w].pc # "v_move"
        /\ u # work[w].user /\ Paid(users[u]) /\ ~Paid(users'[u])
        => users'[work[w].user].used >= users[u].used
  <1>1. ASSUME TypeInv, PlanInv, [Next]_vars PROVE [\A w \in Workers : \A u \in Users : Travels(w, u)]_vars
    <2> SUFFICES ASSUME NEW w \in Workers, NEW u \in Users,
                        work[w].pc = "v_move", work'[w].pc # "v_move",
                        u # work[w].user, Paid(users[u]), ~Paid(users'[u])
                 PROVE  users'[work[w].user].used >= users[u].used
      OBVIOUS
    <2>1. VerifyMove(w)
      <3>1. work' # work
        OBVIOUS
      <3> QED BY <1>1, <3>1, OnlyItsStep
              DEF VerifyHolders, VerifyDetach, VerifyPlan, VerifyRecords, NotifyApply,
                  SweepUnanswered, SweepAsk, SweepApply, MergeApply
    <2>2. PICK job : job = work[w]
      OBVIOUS
    <2>3. PICK paid : paid = PaidHolders(job)
      OBVIOUS
    <2>4. job \in VerifyJob
      BY <1>1, <2>2, JobOf DEF TypeInv
    <2>5. /\ job.user \in Users /\ paid \in SUBSET Holder
          /\ paid = {h \in job.held : h.tier # "free"}
      BY <2>3, <2>4 DEF VerifyJob, PaidHolders
    <2>6. \A h \in job.held : h.user # job.user /\ h.used = users[h.user].used
      BY <1>1, <2>2 DEF PlanInv, VerifyRelies
    <2>7. paid # {} /\ users' = MovePlan(job.user, paid)
      BY <2>1, <2>2, <2>3 DEF VerifyMove, Paid
    <2>8. \A h \in paid : h.user # job.user
      BY <2>5, <2>6
    <2>9. /\ (~ \E h \in paid : h.user = u) => users'[u].tier = users[u].tier
          /\ \A h \in paid : users'[job.user].used >= h.used
      BY <1>1, <2>5, <2>7, <2>8, MovedRows
    <2>10. PICK h \in paid : h.user = u
      BY <2>9 DEF Paid
    <2>11. h.used = users[u].used
      BY <2>5, <2>6, <2>10
    <2> QED BY <2>2, <2>9, <2>10, <2>11
  <1>2. TypeInv /\ PlanInv /\ [Next]_vars
        => [\A w \in Workers : \A u \in Users : Travels(w, u)]_vars
    BY <1>1
  <1>3. Spec => [](TypeInv /\ PlanInv)
    BY TypeInit, TypeStep, PlanStart, PlanStep, PTL DEF Spec
  <1>4. Spec => [][\A w \in Workers : \A u \in Users : Travels(w, u)]_vars
    <2> HIDE DEF Travels
    <2> QED BY <1>2, <1>3, PTL DEF Spec
  <1> QED BY <1>4 DEF UsageTravels

-----------------------------------------------------------------------------
(* Plans are kept.                                                          *)

(* A plan bought without a usable id has its grant on record, unless it is   *)
(* one that left none.                                                      *)
GrantBehind(row, u) ==
    Paid(row) /\ row.src = Unnamed
    => \E g \in grants : g.user = u /\ g.tier = row.tier /\ g.otid = None /\ g.at = row.at

KeepInv ==
    /\ \A u \in Users : GrantBehind(users[u], u)
    /\ conflicts # {} => ~users[Anonymous].active

(* A step that buys nothing under no id and closes no account.              *)
LEMMA KeepSame ==
    ASSUME KeepInv, conflicts' = conflicts,
           users'[Anonymous].active = users[Anonymous].active,
           \A g \in grants : g.otid = None => g \in grants',
           \A x \in Users : users'[x].tier # "free" /\ users'[x].src = Unnamed =>
             /\ users'[x].tier = users[x].tier /\ users'[x].src = users[x].src
             /\ users'[x].at = users[x].at
    PROVE  KeepInv'
  <1>1. conflicts' # {} => ~users'[Anonymous].active
    BY Zenon DEF KeepInv
  <1>2. ASSUME NEW u \in Users, NEW r, r = users'[u], Paid(r), r.src = Unnamed
        PROVE  \E g \in grants' : g.user = u /\ g.tier = r.tier /\ g.otid = None /\ g.at = r.at
    <2>1. /\ Paid(users[u]) /\ users[u].src = Unnamed
          /\ users[u].tier = r.tier /\ users[u].at = r.at
      BY <1>2 DEF Paid
    <2>2. PICK g \in grants : g.user = u /\ g.tier = r.tier /\ g.otid = None /\ g.at = r.at
      BY <1>2, <2>1 DEF KeepInv, GrantBehind
    <2> QED BY <2>2
  <1>3. \A u \in Users : GrantBehind(users[u], u)'
    BY <1>2 DEF GrantBehind, Paid
  <1> QED BY <1>1, <1>3 DEF KeepInv

LEMMA KeepStart == Init => KeepInv
  BY DEF Init, KeepInv, GrantBehind, NewUser, Paid

(* A first, better or converted purchase is logged when it is applied.      *)
LEMMA VerifyPlanKeeps ==
    ASSUME OneAtATime, TypeInv, PlanInv, KeepInv, NEW w \in Workers,
           VerifyPlan(w)
    PROVE  KeepInv'
  <1>a. PICK job : job = work[w]
    OBVIOUS
  <1>c. PICK rc, row, s : rc = job.receipt /\ row = users[job.user] /\ s = SourceOf(rc.otid, VerifyEvents(job))
    OBVIOUS
  <1>d. PICK converted \in BOOLEAN : converted = (job.trial /\ ~rc.trial)
    OBVIOUS
  <1>e. PICK events : events = VerifyEvents(job)
    OBVIOUS
  <1> DEFINE change == job.tier # rc.tier \/ converted
             kept == [row EXCEPT !.trial = rc.trial,
                                 !.src = IF Paid(row) /\ rc.otid # None THEN rc.otid ELSE @]
             plan == IF change THEN FreshPlan(row, rc.tier, rc.trial, s) ELSE kept
  <1>1. job \in VerifyJob /\ job.pc = "v_plan"
    BY <1>a, JobOf DEF VerifyPlan, TypeInv
  <1>2. /\ job.user \in Users /\ job.tier = row.tier /\ row \in UserRow /\ rc \in Receipts
        /\ rc \in Receipt
    BY <1>a, <1>c, <1>1, EntitlementAssumption DEF VerifyJob, PlanInv, VerifyRelies, TypeInv
  <1>3. rc.otid \in Otids \cup {None} /\ rc.tier \in PaidTiers /\ clock \in Nat
    BY <1>2, EntitlementAssumption DEF Receipt, TypeInv
  <1>4. PICK new : new = BindOtid(plan, rc.otid)
    OBVIOUS
  <1>5. users' = [users EXCEPT ![job.user] = new]
    BY <1>a, <1>c, <1>d, <1>4 DEF VerifyPlan
  <1>6. grants' = IF change THEN grants \cup events ELSE grants
    BY <1>a, <1>c, <1>d, <1>e, Zenon DEF VerifyPlan
  <1>7. conflicts' = conflicts
    BY DEF VerifyPlan
  <1>8. \A x \in Users : users'[x] = IF x = job.user THEN new ELSE users[x]
    BY <1>2, <1>5 DEF TypeInv
  <1>9. plan \in UserRow /\ plan.active = row.active
    <2>1. s \in Otids \cup {None, Unnamed, Unlogged} /\ rc.trial \in BOOLEAN /\ rc.tier \in Tiers
      BY <1>2, <1>3, <1>c DEF SourceOf, Receipt, Tiers
    <2>2. LET r == FreshPlan(row, rc.tier, rc.trial, s) IN r \in UserRow /\ r.active = row.active
      BY <1>2, <1>3, <2>1, FreshRow DEF FreshPlan, UserRow
    <2>3. kept \in UserRow /\ kept.active = row.active
      BY <1>2, <1>3, <2>1 DEF UserRow
    <2> QED BY <2>2, <2>3
  <1>10. CASE change
    <2>1. plan = [row EXCEPT !.tier = rc.tier, !.trial = rc.trial, !.used = 0,
                             !.src = s, !.at = clock]
      BY <1>10, Zenon DEF FreshPlan
    <2> HIDE DEF plan
    <2>2. plan.tier = rc.tier /\ plan.src = s /\ plan.at = clock
      BY <1>2, <2>1 DEF UserRow
    <2>3. /\ new.tier = rc.tier /\ new.src = s /\ new.at = clock /\ new.active = row.active
      BY <1>4, <1>9, <2>2 DEF BindOtid, UserRow
    <2>4. ASSUME s = Unnamed
          PROVE  \E g \in grants' : g.user = job.user /\ g.tier = new.tier /\ g.otid = None
                                    /\ g.at = new.at
      <3>1. rc.otid = None /\ events # {}
        BY <1>3, <1>c, <1>e, <2>4, EntitlementAssumption DEF SourceOf, Unnamed, Unlogged
      <3>2. PICK c \in BOOLEAN : c = (converted \/ rc.trial)
        OBVIOUS
      <3>3. grants' = grants \cup events /\ events = GrantEvents(job.user, job.tier, rc.tier, c, rc.otid, "verify")
        BY <1>6, <1>10, <1>c, <1>d, <1>e, <3>2, Zenon DEF VerifyEvents
      <3>4. \E type : Grant(job.user, type, rc.tier, rc.otid, "verify") \in events
        BY <3>1, <3>3 DEF GrantEvents
      <3>5. PICK type : Grant(job.user, type, rc.tier, rc.otid, "verify") \in grants'
        BY <3>3, <3>4
      <3>6. PICK g \in grants' : g = Grant(job.user, type, rc.tier, rc.otid, "verify")
        BY <3>5
      <3>7. g.user = job.user /\ g.tier = rc.tier /\ g.otid = rc.otid /\ g.at = clock
        BY <3>6 DEF Grant
      <3> QED BY <2>3, <3>1, <3>7
    <2>5. grants \subseteq grants'
      BY <1>6
    <2>6. ASSUME NEW u \in Users, NEW r, r = users'[u], Paid(r), r.src = Unnamed
          PROVE  \E g \in grants' : g.user = u /\ g.tier = r.tier /\ g.otid = None /\ g.at = r.at
      <3>1. CASE u = job.user
        BY <1>8, <2>3, <2>4, <2>6, <3>1
      <3>2. CASE u # job.user
        <4>1. r = users[u]
          BY <1>8, <2>6, <3>2
        <4> QED BY <2>5, <2>6, <4>1 DEF KeepInv, GrantBehind
      <3> QED BY <3>1, <3>2
    <2>7. \A u \in Users : GrantBehind(users[u], u)'
      BY <2>6 DEF GrantBehind, Paid
    <2>8. conflicts' # {} => ~users'[Anonymous].active
      <3>1. users'[Anonymous].active = users[Anonymous].active
        BY <1>8, <1>c, <2>3, EntitlementAssumption
      <3> QED BY <1>7, <3>1, Zenon DEF KeepInv
    <2> QED BY <2>7, <2>8 DEF KeepInv
  <1>11. CASE ~change
    <2>1. plan = kept
      BY <1>11
    <2> HIDE DEF plan
    <2>2. /\ plan.tier = row.tier /\ plan.at = row.at
          /\ plan.src = IF Paid(row) /\ rc.otid # None THEN rc.otid ELSE row.src
      BY <1>2, <2>1 DEF UserRow
    <2>3. /\ new.tier = plan.tier /\ new.src = plan.src /\ new.at = plan.at
          /\ new.active = row.active
      BY <1>4, <1>9 DEF BindOtid, UserRow
    <2>4. grants' = grants
      BY <1>6, <1>11
    <2>5. \A x \in Users : users'[x].tier # "free" /\ users'[x].src = Unnamed =>
            /\ users'[x].tier = users[x].tier /\ users'[x].src = users[x].src
            /\ users'[x].at = users[x].at
      BY <1>3, <1>8, <1>c, <2>2, <2>3, EntitlementAssumption
    <2>6. users'[Anonymous].active = users[Anonymous].active
      BY <1>8, <1>c, <2>3, EntitlementAssumption
    <2> QED BY <1>7, <2>4, <2>5, <2>6, KeepSame
  <1> QED BY <1>10, <1>11

(* A step that changes no account and no grant.                             *)
LEMMA KeepQuiet ==
    ASSUME KeepInv, users' = users, grants' = grants, conflicts' = conflicts
    PROVE  KeepInv'
  BY KeepSame

LEMMA VerifyKeeps ==
    ASSUME OneAtATime, TypeInv, PlanInv, KeepInv, NEW w \in Workers,
           VerifyStep(w)
    PROVE  KeepInv'
  <1>1. CASE \/ \E u \in Users : \E rc \in Receipts : Presentable(rc) /\ VerifyAuth(w, u, rc)
             \/ VerifyHolders(w)
    BY <1>1, KeepQuiet DEF VerifyAuth, VerifyHolders, tables
  <1>2. CASE VerifyDetach(w)
    <2>1. PICK job : job = work[w]
      OBVIOUS
    <2>2. ASSUME NEW x \in Users
          PROVE  /\ users'[x].tier = users[x].tier /\ users'[x].src = users[x].src
                 /\ users'[x].at = users[x].at /\ users'[x].active = users[x].active
      <3>1. users'[x] = [users[x] EXCEPT !.otid = None] \/ users'[x] = users[x]
        BY <1>2 DEF VerifyDetach, Detach
      <3>2. users[x] \in UserRow
        BY DEF TypeInv
      <3> QED BY <3>1, <3>2 DEF UserRow
    <2>3. grants' = grants /\ conflicts' = conflicts
      BY <1>2 DEF VerifyDetach
    <2>4. users'[Anonymous].active = users[Anonymous].active
      BY <2>2, EntitlementAssumption
    <2> QED BY <2>2, <2>3, <2>4, KeepSame
  <1>3. CASE VerifyPlan(w)
    BY <1>3, VerifyPlanKeeps
  <1>4. CASE VerifyMove(w)
    <2>1. PICK job, paid : job = work[w] /\ paid = PaidHolders(job)
      OBVIOUS
    <2>2. job \in VerifyJob
      BY <1>4, <2>1, JobOf DEF VerifyMove, TypeInv
    <2>3. job.user \in Users /\ paid \in SUBSET Holder /\ paid \subseteq job.held
      BY <2>1, <2>2 DEF VerifyJob, PaidHolders
    <2>4. \A h \in paid : h.user # job.user
      BY <1>4, <2>1, <2>3 DEF VerifyMove, PlanInv, VerifyRelies
    <2>5. grants' = grants /\ conflicts' = conflicts
      BY <1>4 DEF VerifyMove
    <2>6. CASE users' = users
      BY <2>5, <2>6, KeepQuiet
    <2>7. CASE paid # {} /\ users' = MovePlan(job.user, paid)
      <3>1. /\ \A x \in Users : (\E h \in paid : h.user = x) => users'[x].tier = "free"
            /\ \A x \in Users : (~ \E h \in paid : h.user = x) =>
                   users'[x].tier = users[x].tier /\ users'[x].src = users[x].src
                   /\ users'[x].at = users[x].at
            /\ \A x \in Users : users'[x].active = users[x].active
        BY <2>3, <2>4, <2>7, MovedRows
      <3>2. users'[Anonymous].active = users[Anonymous].active
        BY <3>1, EntitlementAssumption
      <3> QED BY <2>5, <3>1, <3>2, KeepSame
    <2> QED BY <1>4, <2>1, <2>6, <2>7 DEF VerifyMove
  <1>5. CASE VerifyRecords(w)
    <2> DEFINE o == work[w].receipt.otid
    <2>1. users' = users /\ conflicts' = conflicts /\ o # None
      BY <1>5 DEF VerifyRecords, PlanInv, VerifyRelies
    <2>2. ASSUME NEW g \in grants, g.otid = None PROVE g \in grants'
      <3> DEFINE from == {h.user : h \in work[w].held}
                 theirs == {q \in grants : q.otid = o /\ q.user \in from}
                 moved == (grants \ theirs) \cup {[q EXCEPT !.user = work[w].user] : q \in theirs}
                 mine == {q \in moved : /\ q.user = work[w].user /\ q.otid = o
                                        /\ q.source = "verify" /\ q.type = "subscribed"}
                 newest == {q \in mine : \A h \in mine : h.at <= q.at}
      <3>1. grants' = moved \/ grants' = moved \ newest
        BY <1>5, Zenon DEF VerifyRecords
      <3>2. g \notin theirs /\ g \notin mine
        BY <2>1, <2>2
      <3>3. g \in moved
        BY <3>2
      <3>4. g \notin newest
        BY <3>2
      <3> QED BY <3>1, <3>3, <3>4
    <2> QED BY <2>1, <2>2, KeepSame
  <1> QED BY <1>1, <1>2, <1>3, <1>4, <1>5 DEF VerifyStep

LEMMA NotifyKeeps ==
    ASSUME TypeInv, KeepInv, NEW w \in Workers, NotifyStep(w)
    PROVE  KeepInv'
  <1>1. CASE \E n \in sent : NotifyLookup(w, n)
    BY <1>1, KeepQuiet DEF NotifyLookup, tables
  <1>2. CASE NotifyApply(w)
    <2>1. PICK job : job = work[w]
      OBVIOUS
    <2>2. job \in NotifyJob /\ job.pc = "n_apply"
      BY <1>2, <2>1, JobOf DEF NotifyApply, TypeInv
    <2>3. /\ job.user \in Users /\ job.notice.otid \in Otids /\ users[job.user] \in UserRow
      BY <2>2 DEF NotifyJob, Notice, TypeInv
    <2>4. conflicts' = conflicts
      BY <1>2 DEF NotifyApply
    <2>5. \E row : /\ users' = [users EXCEPT ![job.user] = row] \/ users' = users
                   /\ row.src # Unnamed \/ row.tier = "free"
                   /\ row.active = users[job.user].active
      <3>1. CASE NotifyUpgrade(job)
        <4>1. PICK row \in UserRow :
                /\ users' = [users EXCEPT ![job.user] = row]
                /\ row.src = job.notice.otid
                /\ row.active = users[job.user].active
          BY <3>1, <2>1, <2>2, UpgradedRow
        <4>2. row.src # Unnamed
          BY <2>3, <4>1, EntitlementAssumption
        <4> QED BY <4>1, <4>2
      <3>2. CASE ~NotifyUpgrade(job)
        <4>1. PICK row : row = DowngradeToFree(users[job.user])
          OBVIOUS
        <4>2. row.tier = "free" /\ row.active = users[job.user].active
          BY <2>3, <4>1 DEF DowngradeToFree, UserRow
        <4>3. users' = [users EXCEPT ![job.user] = row] \/ users' = users
          BY <1>2, <2>1, <3>2, <4>1 DEF NotifyApply, NotifyDowngrade, NotifyRecord, NotifyOther
        <4> QED BY <4>2, <4>3
      <3> QED BY <3>1, <3>2
    <2>6. grants \subseteq grants'
      BY <1>2 DEF NotifyApply, NotifyUpgrade, NotifyDowngrade, NotifyRecord, NotifyOther
    <2>7. /\ users'[Anonymous].active = users[Anonymous].active
          /\ \A x \in Users : users'[x].tier # "free" /\ users'[x].src = Unnamed =>
               users'[x] = users[x]
      BY <2>3, <2>5, EntitlementAssumption DEF TypeInv
    <2> QED BY <2>4, <2>6, <2>7, KeepSame
  <1> QED BY <1>1, <1>2 DEF NotifyStep

LEMMA SweepKeeps ==
    ASSUME TypeInv, KeepInv, NEW w \in Workers, SweepStep(w)
    PROVE  KeepInv'
  <1>1. CASE (\E u \in Users : SweepRead(w, u)) \/ SweepUnanswered(w) \/ SweepAsk(w)
    BY <1>1, KeepQuiet DEF SweepRead, SweepUnanswered, SweepAsk, tables
  <1>2. CASE SweepApply(w)
    <2>1. PICK job : job = work[w]
      OBVIOUS
    <2>2. job \in AnswerJob
      BY <1>2, <2>1, JobOf DEF SweepApply, TypeInv
    <2>3. /\ job.user \in Users /\ job.otid \in Otids /\ users[job.user] \in UserRow
      BY <2>2 DEF AnswerJob, TypeInv
    <2>4. PICK row : row = ApplyTier(users[job.user], job.answer, job.otid)
      OBVIOUS
    <2>5. /\ row.tier = "free" \/ row.src = job.otid
          /\ row.active = users[job.user].active
      BY <2>3, <2>4 DEF ApplyTier, UserRow
    <2>6. users' = users \/ users' = [users EXCEPT ![job.user] = row]
      BY <1>2, <2>1, <2>4 DEF SweepApply
    <2>7. /\ users'[Anonymous].active = users[Anonymous].active
          /\ \A x \in Users : users'[x].tier # "free" /\ users'[x].src = Unnamed =>
               users'[x] = users[x]
      BY <2>3, <2>5, <2>6, EntitlementAssumption DEF TypeInv
    <2>8. grants' = grants /\ conflicts' = conflicts
      BY <1>2 DEF SweepApply
    <2> QED BY <2>7, <2>8, KeepSame
  <1> QED BY <1>1, <1>2 DEF SweepStep

(* The grants move with the plan.                                           *)
LEMMA MergeKeeps ==
    ASSUME OneAtATime, TypeInv, PlanInv, KeepInv, NEW w \in Workers, MergeStep(w)
    PROVE  KeepInv'
  <1>1. CASE MergeAuth(w)
    BY <1>1, KeepQuiet DEF MergeAuth, tables
  <1>2. CASE MergeApply(w)
    <2>a. Anonymous \in Users /\ AppleUser \in Users /\ Anonymous # AppleUser
      BY EntitlementAssumption
    <2>1. ~users'[Anonymous].active
      BY <1>2, MergedRows
    <2>b. work[w].anon = users[Anonymous] /\ work[w].apple = users[AppleUser]
      BY <1>2 DEF MergeApply, PlanInv, OthersRely
    <2>2. CASE Paid(users[Anonymous]) /\ ~Paid(users[AppleUser])
      <3>1. /\ \A x \in Users \ {Anonymous, AppleUser} : users'[x] = users[x]
            /\ users'[AppleUser].src = users[Anonymous].src
            /\ users'[AppleUser].tier = users[Anonymous].tier
            /\ users'[AppleUser].at = users[Anonymous].at
            /\ users'[Anonymous].tier = "free"
        BY <1>2, <2>2, MergedRows
      <3>2. grants' = {IF g.user = Anonymous THEN [g EXCEPT !.user = AppleUser] ELSE g :
                         g \in grants}
        BY <1>2, <2>2, <2>b DEF MergeApply
      <3>3. ASSUME NEW g \in grants
            PROVE  \E q \in grants' :
                     /\ q.user = IF g.user = Anonymous THEN AppleUser ELSE g.user
                     /\ q.tier = g.tier /\ q.otid = g.otid /\ q.at = g.at
        <4>1. PICK q : q = IF g.user = Anonymous THEN [g EXCEPT !.user = AppleUser] ELSE g
          OBVIOUS
        <4>2. q \in grants'
          BY <3>2, <4>1
        <4>3. g \in GrantRow
          BY DEF TypeInv
        <4>4. /\ q.user = IF g.user = Anonymous THEN AppleUser ELSE g.user
              /\ q.tier = g.tier /\ q.otid = g.otid /\ q.at = g.at
          BY <4>1, <4>3 DEF GrantRow
        <4> QED BY <4>2, <4>4
      <3>4. ASSUME NEW u \in Users, NEW r, r = users'[u], Paid(r), r.src = Unnamed
            PROVE  \E g \in grants' : g.user = u /\ g.tier = r.tier /\ g.otid = None /\ g.at = r.at
        <4>1. PICK v \in Users : /\ v = IF u = AppleUser THEN Anonymous ELSE u
          BY <2>a
        <4>2. u # Anonymous
          BY <3>1, <3>4 DEF Paid
        <4>3. Paid(users[v]) /\ users[v].src = Unnamed
              /\ users[v].tier = r.tier /\ users[v].at = r.at
          BY <3>1, <3>4, <4>1, <4>2 DEF Paid
        <4>4. PICK g \in grants : g.user = v /\ g.tier = r.tier /\ g.otid = None /\ g.at = r.at
          BY <3>4, <4>3 DEF KeepInv, GrantBehind
        <4> QED BY <2>a, <3>3, <4>1, <4>2, <4>4
      <3>5. \A u \in Users : GrantBehind(users[u], u)'
        BY <3>4 DEF GrantBehind, Paid
      <3> QED BY <2>1, <3>5, Zenon DEF KeepInv
    <2>3. CASE ~(Paid(users[Anonymous]) /\ ~Paid(users[AppleUser]))
      <3>1. /\ \A x \in Users \ {Anonymous, AppleUser} : users'[x] = users[x]
            /\ users'[AppleUser] = users[AppleUser]
            /\ users'[Anonymous].src = users[Anonymous].src
            /\ users'[Anonymous].tier = users[Anonymous].tier
            /\ users'[Anonymous].at = users[Anonymous].at
        BY <1>2, <2>3, MergedRows
      <3>2. grants' = grants
        BY <1>2, <2>3, <2>b DEF MergeApply
      <3>3. ASSUME NEW u \in Users, NEW r, r = users'[u], Paid(r), r.src = Unnamed
            PROVE  \E g \in grants' : g.user = u /\ g.tier = r.tier /\ g.otid = None /\ g.at = r.at
        <4>1. Paid(users[u]) /\ users[u].src = Unnamed
              /\ users[u].tier = r.tier /\ users[u].at = r.at
          BY <3>1, <3>3 DEF Paid
        <4> QED BY <3>2, <3>3, <4>1 DEF KeepInv, GrantBehind
      <3>4. \A u \in Users : GrantBehind(users[u], u)'
        BY <3>3 DEF GrantBehind, Paid
      <3> QED BY <2>1, <3>4, Zenon DEF KeepInv
    <2> QED BY <2>2, <2>3
  <1> QED BY <1>1, <1>2 DEF MergeStep

LEMMA KeepStep ==
    OneAtATime /\ TypeInv /\ PlanInv /\ KeepInv /\ [Next]_vars => KeepInv'
  <1> SUFFICES ASSUME OneAtATime, TypeInv, PlanInv, KeepInv, [Next]_vars
               PROVE  KeepInv'
    OBVIOUS
  <1>1. ASSUME NEW w \in Workers, SyncStep(w) PROVE KeepInv'
    BY <1>1 DEF SyncStep, SyncAuth, Start, SyncApply, OneAtATime, PlanInv, OthersRely
  <1>2. ASSUME NEW w \in Workers, Abort(w) PROVE KeepInv'
    BY <1>2, Zenon DEF Abort, OneAtATime
  <1>3. ASSUME NEW w \in Workers, NEW u \in Users, NEW t \in Tiers,
               SetTier(w, u, t) \/ Spend(w, u)
        PROVE  KeepInv'
    <2>1. users[u] \in UserRow
      BY DEF TypeInv
    <2>2. PICK set, spent : /\ set = [users[u] EXCEPT !.tier = t, !.used = 0, !.src = None]
                            /\ spent = [users[u] EXCEPT !.used = Full]
      OBVIOUS
    <2>3. /\ set.src = None /\ set.active = users[u].active
          /\ spent.tier = users[u].tier /\ spent.src = users[u].src /\ spent.at = users[u].at
          /\ spent.active = users[u].active
      BY <2>1, <2>2 DEF UserRow
    <2>4. users' = [users EXCEPT ![u] = set] \/ users' = [users EXCEPT ![u] = spent]
      BY <1>3, <2>2 DEF SetTier, Spend, TypeInv
    <2>5. grants' = grants /\ conflicts' = conflicts
      BY <1>3 DEF SetTier, Spend
    <2>6. /\ users'[Anonymous].active = users[Anonymous].active
          /\ \A x \in Users : users'[x].tier # "free" /\ users'[x].src = Unnamed =>
               /\ users'[x].tier = users[x].tier /\ users'[x].src = users[x].src
               /\ users'[x].at = users[x].at
      BY <2>3, <2>4, EntitlementAssumption DEF TypeInv
    <2> QED BY <2>5, <2>6, KeepSame
  <1>4. ASSUME NEW o \in Otids, Subscribe(o) \/ Lapse(o) PROVE KeepInv'
    BY <1>4, KeepQuiet DEF Subscribe, Lapse, tables
  <1>5. CASE UNCHANGED vars
    BY <1>5, KeepQuiet DEF vars
  <1>6. ASSUME NEW w \in Workers, NEW u \in Users, Spend(w, u) PROVE KeepInv'
    BY <1>3, <1>6 DEF Tiers
  <1> QED BY <1>1, <1>2, <1>3, <1>4, <1>5, <1>6, VerifyKeeps, NotifyKeeps, SweepKeeps,
             MergeKeeps DEF Next

(* Only a notification matched by token gives an account a purchase that a   *)
(* merge left behind.                                                       *)
LEMMA ConflictStep ==
    ASSUME OneAtATime, TypeInv, PlanInv, KeepInv, [Next]_vars,
           NEW u \in Users, NEW o \in Otids, <<u, o>> \in conflicts, users'[u].src = o
    PROVE  users[u].src = o \/ users[u].otid = o \/ MatchedByToken(o)
  <1>a. o # None /\ o # Unnamed /\ o # Unlogged
    BY EntitlementAssumption
  <1>1. CASE users'[u] = users[u]
    BY <1>1
  <1>2. ASSUME NEW w \in Workers, VerifyStep(w), users'[u] # users[u] PROVE users[u].src = o
    <2>1. PICK job : job = work[w]
      OBVIOUS
    <2>2. CASE VerifyDetach(w)
      <3>1. users'[u] = [users[u] EXCEPT !.otid = None]
        BY <1>2, <2>2 DEF VerifyDetach, Detach
      <3>2. users[u] \in UserRow
        BY DEF TypeInv
      <3> QED BY <3>1, <3>2 DEF UserRow
    <2>3. CASE VerifyPlan(w)
      <3>1. job \in VerifyJob /\ job.pc = "v_plan"
        BY <2>1, <2>3, JobOf DEF VerifyPlan, TypeInv
      <3>2. /\ job.user \in Users /\ job.receipt \in Receipt /\ users[job.user] \in UserRow
            /\ ~KeptByConflict(job.user, job.receipt.otid)
        BY <2>1, <3>1, EntitlementAssumption DEF VerifyJob, TypeInv, PlanInv, VerifyRelies
      <3>3. PICK rc, row, s : rc = job.receipt /\ row = users[job.user] /\ s = SourceOf(rc.otid, VerifyEvents(job))
        OBVIOUS
      <3>4. PICK fresh, kept :
              /\ fresh = FreshPlan(row, rc.tier, rc.trial, s)
              /\ kept = [row EXCEPT !.trial = rc.trial,
                            !.src = IF Paid(row) /\ rc.otid # None THEN rc.otid ELSE @]
        OBVIOUS
      <3>5. \/ users' = [users EXCEPT ![job.user] = BindOtid(fresh, rc.otid)]
            \/ users' = [users EXCEPT ![job.user] = BindOtid(kept, rc.otid)]
        BY <2>1, <2>3, <3>3, <3>4, Zenon DEF VerifyPlan
      <3>6. u = job.user
        BY <1>2, <3>2, <3>5 DEF TypeInv
      <3>7. rc.otid # o
        BY <1>a, <3>2, <3>3, <3>6 DEF KeptByConflict
      <3>8. /\ rc.otid \in Otids \cup {None} /\ rc.trial \in BOOLEAN /\ rc.tier \in Tiers
            /\ clock \in Nat
        BY <3>2, <3>3, EntitlementAssumption DEF Receipt, Tiers, TypeInv
      <3>9. s # o /\ s \in Otids \cup {None, Unnamed, Unlogged}
        BY <1>a, <3>3, <3>7, <3>8 DEF SourceOf
      <3>10. fresh \in UserRow /\ fresh.src = s
        BY <3>2, <3>3, <3>4, <3>8, <3>9, FreshRow DEF FreshPlan, UserRow
      <3>11. kept \in UserRow /\ (kept.src = row.src \/ kept.src = rc.otid)
        BY <3>2, <3>3, <3>4, <3>8 DEF UserRow
      <3>12. \A r \in UserRow : BindOtid(r, rc.otid).src = r.src
        BY DEF BindOtid, UserRow
      <3>13. users'[u].src = fresh.src \/ users'[u].src = kept.src
        <4>1. users'[u] = BindOtid(fresh, rc.otid) \/ users'[u] = BindOtid(kept, rc.otid)
          BY <3>2, <3>5, <3>6 DEF TypeInv
        <4> QED BY <3>10, <3>11, <3>12, <4>1
      <3> QED BY <3>3, <3>6, <3>7, <3>9, <3>10, <3>11, <3>13
    <2>4. CASE VerifyMove(w)
      <3>1. PICK paid : paid = PaidHolders(job)
        OBVIOUS
      <3>2. job \in VerifyJob
        BY <2>1, <2>4, JobOf DEF VerifyMove, TypeInv
      <3>3. job.user \in Users /\ paid \in SUBSET Holder /\ paid \subseteq job.held
        BY <3>1, <3>2 DEF VerifyJob, PaidHolders
      <3>4. \A h \in paid : h.user # job.user
        BY <2>1, <2>4, <3>3 DEF VerifyMove, PlanInv, VerifyRelies
      <3>5. paid # {} /\ users' = MovePlan(job.user, paid)
        BY <1>2, <2>1, <2>4, <3>1 DEF VerifyMove
      <3>6. /\ (\E h \in paid : h.user = u) => users'[u].src = None
            /\ (~ \E h \in paid : h.user = u) => users'[u].src = users[u].src
        BY <3>3, <3>4, <3>5, MovedRows
      <3> QED BY <1>a, <3>6
    <2> QED BY <1>2, <2>2, <2>3, <2>4
            DEF VerifyStep, VerifyAuth, VerifyHolders, VerifyRecords, tables
  <1>3. ASSUME NEW w \in Workers, NotifyStep(w), users'[u] # users[u]
        PROVE  users[u].otid = o \/ MatchedByToken(o)
    <2>1. PICK job : job = work[w]
      OBVIOUS
    <2>2. NotifyApply(w)
      BY <1>3 DEF NotifyStep, NotifyLookup, tables
    <2>3. job \in NotifyJob /\ job.pc = "n_apply"
      BY <2>1, <2>2, JobOf DEF NotifyApply, TypeInv
    <2>4. job.user \in Users /\ users[job.user] \in UserRow
      BY <2>3 DEF NotifyJob, TypeInv
    <2>5. CASE NotifyUpgrade(job)
      <3>1. PICK row \in UserRow :
              users' = [users EXCEPT ![job.user] = row] /\ row.src = job.notice.otid
        BY <2>1, <2>3, <2>5, UpgradedRow
      <3>2. u = job.user /\ job.notice.otid = o
        BY <1>3, <2>4, <3>1 DEF TypeInv
      <3>3. CASE job.byToken
        BY <2>1, <2>3, <3>2, <3>3 DEF MatchedByToken
      <3>4. CASE ~job.byToken
        BY <2>1, <2>3, <3>2, <3>4 DEF PlanInv, OthersRely
      <3> QED BY <3>3, <3>4
    <2>6. CASE NotifyDowngrade(job)
      <3>1. users' = [users EXCEPT ![job.user] = DowngradeToFree(users[job.user])]
        BY <1>3, <2>6 DEF NotifyDowngrade
      <3>2. u = job.user
        BY <1>3, <3>1 DEF TypeInv
      <3>3. users'[u].src = None
        BY <2>4, <3>1, <3>2 DEF TypeInv, DowngradeToFree, UserRow
      <3> QED BY <1>a, <3>3
    <2> QED BY <1>3, <2>1, <2>2, <2>5, <2>6 DEF NotifyApply, NotifyRecord, NotifyOther
  <1>4. ASSUME NEW w \in Workers, SweepStep(w), users'[u] # users[u] PROVE users[u].otid = o
    <2>1. PICK job : job = work[w]
      OBVIOUS
    <2>2. SweepApply(w)
      BY <1>4 DEF SweepStep, SweepRead, SweepUnanswered, SweepAsk, tables
    <2>3. job \in AnswerJob /\ job.pc = "r_apply"
      BY <2>1, <2>2, JobOf DEF SweepApply, TypeInv
    <2>4. /\ job.user \in Users /\ users[job.user] \in UserRow
          /\ users[job.user].otid = job.otid
      BY <2>1, <2>3 DEF AnswerJob, TypeInv, PlanInv, OthersRely
    <2>5. PICK row : row = ApplyTier(users[job.user], job.answer, job.otid)
      OBVIOUS
    <2>6. row.src = None \/ row.src = job.otid
      BY <2>4, <2>5 DEF ApplyTier, UserRow
    <2>7. users' = [users EXCEPT ![job.user] = row]
      BY <1>4, <2>1, <2>2, <2>5 DEF SweepApply
    <2>8. u = job.user /\ users'[u] = row
      BY <1>4, <2>4, <2>7 DEF TypeInv
    <2> QED BY <1>a, <2>4, <2>6, <2>8
  <1>5. ASSUME NEW w \in Workers, MergeStep(w) PROVE users'[u] = users[u]
    <2>1. CASE MergeAuth(w)
      BY <2>1 DEF MergeAuth, tables
    <2>2. CASE MergeApply(w)
      <3>1. users[Anonymous].active
        BY <2>2, MergedRows
      <3>2. ~users[Anonymous].active
        BY Zenon DEF KeepInv
      <3> QED BY <3>1, <3>2
    <2> QED BY <1>5, <2>1, <2>2 DEF MergeStep
  <1>6. ASSUME NEW w \in Workers, NEW x \in Users, NEW t \in Tiers,
               SetTier(w, x, t) \/ Spend(w, x)
        PROVE  users[u].src = o
    <2>1. users[x] \in UserRow
      BY DEF TypeInv
    <2>2. PICK set, spent : /\ set = [users[x] EXCEPT !.tier = t, !.used = 0, !.src = None]
                            /\ spent = [users[x] EXCEPT !.used = Full]
      OBVIOUS
    <2>3. set.src = None /\ spent.src = users[x].src
      BY <2>1, <2>2 DEF UserRow
    <2>4. users' = [users EXCEPT ![x] = set] \/ users' = [users EXCEPT ![x] = spent]
      BY <1>6, <2>2 DEF SetTier, Spend, TypeInv
    <2> QED BY <1>a, <2>3, <2>4 DEF TypeInv
  <1>7. ASSUME NEW w \in Workers, NEW x \in Users, Spend(w, x) PROVE users[u].src = o
    BY <1>6, <1>7 DEF Tiers
  <1>8. ASSUME NEW w \in Workers, SyncStep(w) PROVE FALSE
    BY <1>8 DEF SyncStep, SyncAuth, Start, SyncApply, OneAtATime, PlanInv, OthersRely
  <1>9. ASSUME NEW w \in Workers, Abort(w) PROVE FALSE
    BY <1>9, Zenon DEF Abort, OneAtATime
  <1>10. ASSUME NEW p \in Otids, Subscribe(p) \/ Lapse(p) PROVE users'[u] = users[u]
    BY <1>10 DEF Subscribe, Lapse, tables
  <1>11. CASE UNCHANGED vars
    BY <1>1, <1>11 DEF vars
  <1> QED BY <1>1, <1>2, <1>3, <1>4, <1>5, <1>6, <1>7, <1>8, <1>9, <1>10, <1>11 DEF Next

(* The sweep takes a plan only on the word of the subscription that gave it, *)
(* or of one that lapsed after the plan was given.                          *)
LEMMA SweepTakes ==
    ASSUME OneAtATime, TypeInv, PlanInv, KeepInv, [Next]_vars,
           NEW w \in Workers, work[w].pc = "r_apply", work'[w].pc = "idle",
           Paid(users[work[w].user]), ~Paid(users'[work[w].user])
    PROVE  \/ users[work[w].user].src \in {work[w].otid, None, Unlogged}
           \/ users[work[w].user].at < work[w].expires
  <1>1. SweepApply(w)
    <2>1. work'[w] # work[w]
      BY Zenon
    <2>2. work' # work
      BY <2>1
    <2> QED BY <2>2, OnlyItsStep
            DEF VerifyHolders, VerifyDetach, VerifyPlan, VerifyMove, VerifyRecords,
                NotifyApply, SweepUnanswered, SweepAsk, MergeApply
  <1>2. PICK job : job = work[w]
    OBVIOUS
  <1>3. PICK row : row = users[job.user]
    OBVIOUS
  <1>4. job \in AnswerJob
    BY <1>2, JobOf DEF TypeInv
  <1>5. /\ job.user \in Users /\ job.otid \in Otids /\ job.answer \in Tiers
        /\ job.expires \in 0 .. MaxClock /\ row \in UserRow
    BY <1>3, <1>4 DEF AnswerJob, TypeInv
  <1>6. row.otid = job.otid /\ row.tier = job.tier
    BY <1>2, <1>3 DEF PlanInv, OthersRely
  <1>7. job.answer = "free" /\ ~NewerGrant(job.user, job.otid, job.tier, job.expires)
    <2>1. users' # users
      BY <1>2
    <2>2. job.answer # "free" => ApplyTier(row, job.answer, job.otid).tier = job.answer
      BY <1>5 DEF ApplyTier, UserRow
    <2>3. users' = [users EXCEPT ![job.user] = ApplyTier(row, job.answer, job.otid)]
      BY <1>1, <1>2, <1>3, <2>1 DEF SweepApply
    <2>4. users'[job.user] = ApplyTier(row, job.answer, job.otid)
      BY <1>5, <2>3 DEF TypeInv
    <2>5. job.answer = "free"
      BY <1>2, <2>2, <2>4 DEF Paid
    <2> QED BY <1>1, <1>2, <2>1, <2>5 DEF SweepApply
  <1>8. CASE row.src \in Otids
    <2>1. \A v \in Workers : v = w
      BY DEF OneAtATime
    <2>2. row.otid = row.src
      BY <1>2, <1>3, <1>5, <1>8, <2>1 DEF PlanInv, SourceIsHeld, Moving
    <2> QED BY <1>2, <1>3, <1>6, <2>2
  <1>9. CASE row.src = Unnamed
    <2>1. PICK g \in grants : g.user = job.user /\ g.tier = row.tier /\ g.otid = None
                              /\ g.at = row.at
      BY <1>2, <1>3, <1>5, <1>9 DEF KeepInv, GrantBehind
    <2>2. job.otid # None
      BY <1>5, EntitlementAssumption
    <2>3. ~(row.at >= job.expires)
      BY <1>6, <1>7, <2>1, <2>2 DEF NewerGrant
    <2>4. row.at \in Nat /\ job.expires \in Int
      BY <1>5 DEF UserRow
    <2> QED BY <1>2, <1>3, <2>3, <2>4
  <1>10. row.src \in Otids \cup {None, Unnamed, Unlogged}
    BY <1>5 DEF UserRow
  <1> QED BY <1>2, <1>3, <1>8, <1>9, <1>10

LEMMA KeepHolds == OneAtATime => (Spec => [](TypeInv /\ PlanInv /\ KeepInv))
  <1> SUFFICES ASSUME OneAtATime PROVE Spec => [](TypeInv /\ PlanInv /\ KeepInv)
    OBVIOUS
  <1>1. TypeInv /\ PlanInv /\ KeepInv /\ [Next]_vars => KeepInv'
    BY KeepStep
  <1> QED BY TypeInit, TypeStep, PlanStart, PlanStep, KeepStart, <1>1, PTL DEF Spec

(* A purchase that a merge left behind comes back to the account that refused *)
(* it only by Apple's own token: no replay by a client, no sweep and no later  *)
(* merge brings it.                                                          *)
THEOREM ConflictsStayBehind == OneAtATime => (Spec => ConflictKeepsPlan)
  <1> SUFFICES ASSUME OneAtATime PROVE Spec => ConflictKeepsPlan
    OBVIOUS
  <1> DEFINE Kept ==
        \A u \in Users, o \in Otids :
          <<u, o>> \in conflicts /\ users'[u].src = o
          => users[u].src = o \/ users[u].otid = o \/ MatchedByToken(o)
  <1>1. TypeInv /\ PlanInv /\ KeepInv /\ [Next]_vars => [Kept]_vars
    BY ConflictStep
  <1>2. Spec => [](TypeInv /\ PlanInv /\ KeepInv)
    BY KeepHolds
  <1>3. Spec => [][Kept]_vars
    <2> HIDE DEF Kept
    <2> QED BY <1>1, <1>2, PTL DEF Spec
  <1> QED BY <1>3 DEF ConflictKeepsPlan

(* Neither a client's replay of a transaction that a merge left behind nor  *)
(* the lapse of an older subscription takes or replaces an account's plan,  *)
(* unless verify-receipt logged no grant of it.                             *)
THEOREM PlansAreKept == OneAtATime => (Spec => PlansKept)
  <1> SUFFICES ASSUME OneAtATime PROVE Spec => PlansKept
    OBVIOUS
  <1> DEFINE Taken ==
        \A w \in Workers :
          LET job == work[w] IN
          /\ job.pc = "r_apply" /\ work'[w].pc = "idle"
          /\ Paid(users[job.user]) /\ ~Paid(users'[job.user])
          => \/ users[job.user].src \in {job.otid, None, Unlogged}
             \/ users[job.user].at < job.expires
  <1>1. TypeInv /\ PlanInv /\ KeepInv /\ [Next]_vars => [Taken]_vars
    BY SweepTakes
  <1>2. Spec => [](TypeInv /\ PlanInv /\ KeepInv)
    BY KeepHolds
  <1>3. Spec => [][Taken]_vars
    <2> HIDE DEF Taken
    <2> QED BY <1>1, <1>2, PTL DEF Spec
  <1> QED BY <1>3, ConflictsStayBehind DEF PlansKept, SweepKeepsNewerPurchase
=============================================================================

------------------------------- MODULE Memory -------------------------------
(***************************************************************************)
(* One person's memory in ContextQuilt, reached by two apps.  Each app has  *)
(* its own credential (a token that is minted, cached and refused) and its  *)
(* own subject; chat turns recall and capture, transcripts are captured     *)
(* under a free monthly quota, and the proxied verbs read and write.        *)
(* ContextQuilt itself is external: it keeps what is written to a subject.  *)
(***************************************************************************)
EXTENDS Integers, FiniteSets

CONSTANTS
    Callers,      \* requests that may overlap
    Plans,        \* sets of features (of memory, people, alignment) a plan grants
    FreeQuota,    \* free_quota_per_month
    MaxCalls,     \* bound: calls to ContextQuilt
    MaxPeriods,   \* bound: calendar months
    NoCall

ASSUME MemoryAssumption ==
    /\ FreeQuota \in Nat /\ MaxCalls \in Nat /\ MaxPeriods \in Nat /\ IsFiniteSet(Callers) /\ Callers # {}
    /\ NoCall \notin [app : {"shouldersurf", "techrehearsal"}, op : {"read", "write", "dossier"},
                     at : {"send", "minting"}, counts : BOOLEAN]
    /\ Plans \subseteq SUBSET {"memory", "people", "alignment"}

Apps == {"shouldersurf", "techrehearsal"}

VARIABLES
    plan,       \* the features granted
    token,      \* _tokens: a token is cached and not expired
    cooldown,   \* _auth_failures: "none", or why the app stopped asking: "limited", "rejected"
    strikes,    \* _auth_strikes
    rejections, \* history: rejections since the last token
    calls_in,   \* the calls in hand: a recall or reading verb "read", a capture or writing verb "write", a "dossier"
    made,       \* calls so far
    quilt,      \* per subject, the apps that wrote to it
    reads,      \* history: who was given another app's memory, and by which call
    quota,      \* memory_used_this_period and memory_period
    period,     \* the calendar month
    taken,      \* history: free captures this period or since a trial began, uncounted ones included
    missed,     \* history: those of them that were taken and never counted
    exempt      \* history: one of them may have been taken beyond the quota because of people

memoryVars == <<plan, token, cooldown, strikes, rejections, calls_in, made, quilt, reads, quota, period, taken,
                missed, exempt>>
authVars == <<token, cooldown, strikes, rejections>>
quotaVars == <<quota, period, taken, missed, exempt>>

(* Faulty variant: the user id alone.                                           *)
BareSubject(app) == "user"

(* The first app keeps the bare id it always had, every other app is prefixed.  *)
subject_for(app) == IF app = "shouldersurf" THEN "user" ELSE "techrehearsal:user"

(* The dossier's path, and a tier change's, name the user id itself.            *)
subject_of(app, op) == IF op = "dossier" THEN "user" ELSE subject_for(app)

MemoryInit ==
    /\ plan \in Plans
    /\ token = [a \in Apps |-> FALSE] /\ cooldown = [a \in Apps |-> "none"]
    /\ strikes = [a \in Apps |-> 0] /\ rejections = [a \in Apps |-> 0]
    /\ calls_in = [c \in Callers |-> NoCall] /\ made = 0
    /\ quilt = [s \in {"user", "techrehearsal:user"} |-> {}] /\ reads = {}
    /\ quota = [used |-> 0, period |-> 1] /\ period = 1
    /\ taken = 0 /\ missed = 0 /\ exempt = FALSE
----------------------------------------------------------------------------
CallAt(c, at) == calls_in[c] # NoCall /\ calls_in[c].at = at
CallGoes(c, at) == calls_in' = [calls_in EXCEPT ![c].at = at]

(* A cached token, a cooldown, or a new token; nothing stops two from minting.  *)
_get_auth_headers(app) == IF token[app] \/ cooldown[app] # "none" THEN "send" ELSE "minting"

CallBegins(c, app, op, counts) ==
    /\ calls_in[c] = NoCall /\ made < MaxCalls /\ made' = made + 1
    /\ calls_in' = [calls_in EXCEPT ![c] = [app |-> app, op |-> op, at |-> _get_auth_headers(app), counts |-> counts]]

(* An unpaid plan recalls people only; a rundown question on a project asks for *)
(* the whole dossier first.                                                     *)
before_llm(c, app, rundown) ==
    /\ CallBegins(c, app, IF rundown /\ "memory" \in plan THEN "dossier" ELSE "read", FALSE)
    /\ UNCHANGED <<plan, quilt, reads, quotaVars, authVars>>

(* A turn on a plan with memory is captured when it is over, and so is what the *)
(* user corrected or completed in it.                                           *)
after_llm(c, app) ==
    /\ "memory" \in plan /\ CallBegins(c, app, "write", FALSE)
    /\ UNCHANGED <<plan, quilt, reads, quotaVars, authVars>>

QuiltVerbs == [get_quilt |-> "read", get_quilt_insights |-> "read", create_quilt_patch |-> "write",
               update_quilt_patch |-> "write", delete_quilt_patch |-> "write", complete_quilt_patch |-> "write"]
ProjectVerbs == [resolve_project |-> "read", project_affected_people |-> "read", update_project |-> "write",
                 unscope_project |-> "write"]
OriginVerbs == [unassign_origin_project |-> "write", replace_origin_term |-> "write"]
PatchVerbs == [uncomplete_quilt_patch |-> "write", vouch_quilt_patch |-> "write", shelve_quilt_patch |-> "write",
               unshelve_quilt_patch |-> "write", create_connection |-> "write", delete_connection |-> "write"]
AssignVerbs == [assign_origin_project |-> "write", assign_meeting_project |-> "write"]
SpeakerVerbs == [rename_speaker |-> "write", reassign_speaker |-> "write", speaker_map |-> "write",
                 prewarm_quilt |-> "read"]
GraphVerbs == [get_quilt_graph |-> "read"]
PeopleVerbs == [list_people |-> "read", merge_people |-> "write", keep_people_separate |-> "write",
                confirm_person |-> "write", rename_person |-> "write", mark_not_a_person |-> "write",
                unmark_not_a_person |-> "write"]
PersonVerbs == [dismiss_person_description |-> "write", undismiss_person_description |-> "write",
                create_person |-> "write"]
PersonReads == [get_people_network |-> "read", get_person |-> "read"]
AlignmentVerbs == [alignment_meeting_card |-> "read", alignment_project_record |-> "read",
                   alignment_confirm_event |-> "write", alignment_correct_event |-> "write"]

Kinds(verbs) == {verbs[v] : v \in DOMAIN verbs}

(* The verbs a caller may use on their own memory, by what they do to it; people*)
(* and alignment are gated on the plan.                                         *)
allowed_verbs ==
    UNION {Kinds(QuiltVerbs), Kinds(ProjectVerbs), Kinds(OriginVerbs), Kinds(PatchVerbs), Kinds(AssignVerbs),
           Kinds(SpeakerVerbs), Kinds(GraphVerbs)}
    \cup (IF "people" \in plan THEN Kinds(PeopleVerbs) \cup Kinds(PersonVerbs) \cup Kinds(PersonReads) ELSE {})
    \cup (IF "alignment" \in plan THEN Kinds(AlignmentVerbs) ELSE {})

_cq_proxy(c, app, kind) ==
    /\ kind \in allowed_verbs /\ CallBegins(c, app, kind, FALSE)
    /\ UNCHANGED <<plan, quilt, reads, quotaVars, authVars>>
----------------------------------------------------------------------------
(* read_memory_quota_state: a count of another month is no count.               *)
has_quota == (IF quota.period = period THEN quota.used ELSE 0) < FreeQuota

resolve_memory_capture_verdict ==
    IF "memory" \in plan THEN "capture"
    ELSE IF "people" \in plan \/ has_quota THEN "capture_with_cta" ELSE "skip_with_cta"

(* may_charge_shared_counter: only the app the counter belongs to.              *)
charged_app(app) == app = "shouldersurf"

(* The row is the one read when the request began; the capture is on its way    *)
(* before it is counted.                                                        *)
capture_transcript_to_cq(c, app) ==
    /\ resolve_memory_capture_verdict # "skip_with_cta"
    /\ LET counts == resolve_memory_capture_verdict = "capture_with_cta" /\ charged_app(app) IN
       /\ CallBegins(c, app, "write", counts)
       /\ taken' = IF counts THEN taken + 1 ELSE taken
       /\ exempt' = (exempt \/ (counts /\ ~has_quota))
    /\ UNCHANGED <<plan, quilt, reads, quota, period, missed, authVars>>

(* Faulty variant: a count that is not this month's goes on.                    *)
CountsOn == [used |-> quota.used + 1, period |-> period]

decremented == [used |-> IF quota.period = period THEN quota.used + 1 ELSE 1, period |-> period]

decrement_memory_quota(c) ==
    /\ calls_in[c] # NoCall /\ calls_in[c].counts /\ quota' = decremented
    /\ calls_in' = [calls_in EXCEPT ![c].counts = FALSE]
    /\ UNCHANGED <<plan, made, quilt, reads, period, taken, missed, exempt, authVars>>

(* The database refuses the count, or the request dies before it: the capture   *)
(* goes on, or is lost, by itself.                                              *)
decrement_fails(c) ==
    /\ calls_in[c] # NoCall /\ calls_in[c].counts /\ missed' = missed + 1
    /\ calls_in' = [calls_in EXCEPT ![c].counts = FALSE]
    /\ UNCHANGED <<plan, made, quilt, reads, quota, period, taken, exempt, authVars>>

Uncounted == Cardinality({c \in Callers : calls_in[c] # NoCall /\ calls_in[c].counts})

(* A free account's trial begins; any other change of plan leaves the count.    *)
zero_memory_quota_on_tier_change(p) ==
    /\ "memory" \notin plan /\ "memory" \in p /\ plan' = p
    /\ quota' = [used |-> 0, period |-> period]
    /\ taken' = Uncounted /\ missed' = 0 /\ exempt' = (exempt /\ Uncounted # 0)
    /\ UNCHANGED <<calls_in, made, quilt, reads, period, authVars>>

PlanMoves(p) ==
    /\ p # plan /\ plan' = p
    /\ UNCHANGED <<calls_in, made, quilt, reads, quotaVars, authVars>>

NewPeriod ==
    /\ period < MaxPeriods /\ period' = period + 1
    /\ taken' = Uncounted /\ missed' = 0 /\ exempt' = (exempt /\ Uncounted # 0)
    /\ UNCHANGED <<plan, calls_in, made, quilt, reads, quota, authVars>>
----------------------------------------------------------------------------
(* Faulty variant: the cooldown ends and the strikes stay.                      *)
StrikesStay(a) == cooldown' = [cooldown EXCEPT ![a] = "none"] /\ UNCHANGED strikes

_reset_auth_failure(a) ==
    cooldown' = [cooldown EXCEPT ![a] = "none"] /\ strikes' = [strikes EXCEPT ![a] = 0]

mint_succeeds(c) ==
    /\ CallAt(c, "minting") /\ CallGoes(c, "send")
    /\ LET a == calls_in[c].app IN
       /\ token' = [token EXCEPT ![a] = TRUE] /\ _reset_auth_failure(a)
       /\ rejections' = [rejections EXCEPT ![a] = 0]
    /\ UNCHANGED <<plan, made, quilt, reads, quotaVars>>

(* 400, 401 or 403: the second in a row starts the cooldown.                    *)
mint_rejected(c) ==
    /\ CallAt(c, "minting") /\ CallGoes(c, "send")
    /\ LET a == calls_in[c].app IN
       /\ strikes' = [strikes EXCEPT ![a] = @ + 1] /\ rejections' = [rejections EXCEPT ![a] = @ + 1]
       /\ cooldown' = IF strikes[a] + 1 >= 2 THEN [cooldown EXCEPT ![a] = "rejected"] ELSE cooldown
    /\ UNCHANGED <<plan, token, made, quilt, reads, quotaVars>>

(* 429: no strike, and no question before Retry-After.                          *)
mint_limited(c) ==
    /\ CallAt(c, "minting") /\ CallGoes(c, "send")
    /\ cooldown' = [cooldown EXCEPT ![calls_in[c].app] = "limited"]
    /\ UNCHANGED <<plan, token, strikes, rejections, made, quilt, reads, quotaVars>>

mint_error(c) ==
    /\ CallAt(c, "minting") /\ CallGoes(c, "send")
    /\ UNCHANGED <<plan, made, quilt, reads, quotaVars, authVars>>

token_expires(a) ==
    /\ token[a] /\ token' = [token EXCEPT ![a] = FALSE]
    /\ UNCHANGED <<plan, cooldown, strikes, rejections, calls_in, made, quilt, reads, quotaVars>>

cooldown_ends(a) ==
    /\ cooldown[a] # "none" /\ cooldown' = [cooldown EXCEPT ![a] = "none"]
    /\ UNCHANGED <<plan, token, strikes, rejections, calls_in, made, quilt, reads, quotaVars>>
----------------------------------------------------------------------------
(* A dossier with nothing in it, or none, is followed by a recall.              *)
after_call(c, ok) ==
    LET call == calls_in[c] IN
    IF call.op = "dossier" /\ (~ok \/ quilt["user"] = {})
    THEN [call EXCEPT !.op = "read", !.at = _get_auth_headers(call.app)]
    ELSE NoCall

quilt_answers(c) ==
    /\ CallAt(c, "send") /\ ~calls_in[c].counts
    /\ LET call == calls_in[c]
           subject == subject_of(call.app, call.op)
       IN /\ quilt' = IF call.op = "write" THEN [quilt EXCEPT ![subject] = @ \cup {call.app}] ELSE quilt
          /\ reads' = IF call.op = "write" THEN reads
                      ELSE reads \cup {[by |-> call.app, of |-> w, via |-> call.op] : w \in quilt[subject] \ {call.app}}
    /\ calls_in' = [calls_in EXCEPT ![c] = after_call(c, TRUE)]
    /\ UNCHANGED <<plan, made, quotaVars, authVars>>

(* A timeout or an error: a recall is empty, a capture is lost, a verb says so. *)
quilt_fails(c) ==
    /\ CallAt(c, "send") /\ ~calls_in[c].counts
    /\ calls_in' = [calls_in EXCEPT ![c] = after_call(c, FALSE)]
    /\ UNCHANGED <<plan, made, quilt, reads, quotaVars, authVars>>

MemoryNext ==
    \/ \E c \in Callers :
           \/ \E app \in Apps : \/ after_llm(c, app) \/ capture_transcript_to_cq(c, app)
                                \/ \E rundown \in BOOLEAN : before_llm(c, app, rundown)
                                \/ \E kind \in {"read", "write"} : _cq_proxy(c, app, kind)
           \/ decrement_memory_quota(c) \/ decrement_fails(c)
           \/ mint_succeeds(c) \/ mint_rejected(c) \/ mint_limited(c) \/ mint_error(c)
           \/ quilt_answers(c) \/ quilt_fails(c)
    \/ \E a \in Apps : token_expires(a) \/ cooldown_ends(a)
    \/ \E p \in Plans : zero_memory_quota_on_tier_change(p) \/ PlanMoves(p)
    \/ NewPeriod
----------------------------------------------------------------------------
(* An app is given only what that app wrote; the one hole is the dossier.       *)
MemoryApart == \A r \in reads : r.via = "dossier"

(* An app stops asking for a rejected credential only after two rejections with *)
(* no token in between.                                                         *)
CooldownEarned == \A a \in Apps : cooldown[a] = "rejected" => rejections[a] >= 2

(* Every free capture of a month is counted in it once, or its count failed, so *)
(* that, those and the people exemption aside, only captures that began together*)
(* can pass the quota.                                                          *)
QuotaKept ==
    /\ (IF quota.period = period THEN quota.used ELSE 0) + Uncounted + missed = taken
    /\ ~exempt => taken <= FreeQuota + missed + Cardinality(Callers) - 1

MemoryKept == MemoryApart /\ CooldownEarned /\ QuotaKept
=============================================================================

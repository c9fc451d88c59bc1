----------------------------- MODULE Interview ------------------------------
(***************************************************************************)
(* One turn of the N-400 interviewer: the model's reply, the envelope retry, *)
(* the four refusals that ask the model once more, the guard that repairs     *)
(* what is left, the judge that restores a fact, and the sentences spoken     *)
(* to the applicant while all of this is still to come.                       *)
(*                                                                         *)
(* A reply is what the guards read of it.  A field stands for the agenda node *)
(* that asks for it: "id" an identifier, "date" a dated row, "opt" a choice.  *)
(* A fact is named by what is wrong with it; what the applicant said, and     *)
(* what is on file, is folded into that name.                                 *)
(***************************************************************************)
EXTENDS Integers, Sequences, FiniteSets, SequencesExt

CONSTANTS
    Agendas,   \* the open nodes a request may carry
    FirstWrong,\* bound: how many things may be wrong with the first reply
    RetryWrong,\* bound: the same, for the reply to a reminder
    NoField

Fields == {"id", "date", "opt"}

(* Why the rest of a reply is not released, and the reminders a retry answers.  *)
Reasons == {"oath_node_on_agenda", "malformed", "reply_before_keys", "checkpoint_refused", "oath_modification"}
Reminders == {"envelope", "checkpoint", "oath", "closing", "inversion"}

ASSUME InterviewAssumption ==
    /\ FirstWrong \in Nat /\ RetryWrong \in Nat
    /\ Agendas \subseteq SUBSET Fields
    /\ NoField \notin Fields \cup Reasons \cup Reminders

VARIABLES
    ask,      \* the request
    draft,    \* the reply in hand
    stage,    \* where the turn is
    heard,    \* sentences sent to the applicant
    pending,  \* the sentence held back
    buffered, \* why the rest is not released, or NoField
    spoken,   \* sentences of the first reply the splitter has seen
    calls,    \* model calls answered
    logged,   \* usage_log rows of the turn
    lateFor,  \* history: the refusal whose retry is in hand
    env       \* the envelope sent, or NoField

interviewVars == <<ask, draft, stage, heard, pending, buffered, spoken, calls, logged, lateFor, env>>
----------------------------------------------------------------------------
(* A reply.                                                                  *)

FactKinds(f) ==
    {"none", "ok", "unsaid"} \cup
    (CASE f = "id"   -> {"digits", "misheard"}
       [] f = "date" -> {"day", "partial", "inverted"}
       [] f = "opt"  -> {"carried", "pushback", "idle", "outside", "battery", "closes"})

Clean == [json |-> TRUE, fact |-> [f \in Fields |-> "none"], defer |-> [f \in Fields |-> "none"],
          asking |-> NoField, cp |-> FALSE, confirms |-> FALSE, over |-> FALSE, closing |-> FALSE,
          oath |-> 0, wrong |-> FALSE, shape |-> "map", early |-> FALSE, size |-> 2, answers |-> TRUE,
          marks |-> {}]

(* One thing changed about a reply.                                           *)
Deviate(d) ==
    (UNION {{[d EXCEPT !.fact = [d.fact EXCEPT ![f] = k]] : k \in FactKinds(f) \ {d.fact[f]}} : f \in Fields})
    \cup {[d EXCEPT !.defer = [d.defer EXCEPT ![f] = k]] : f \in Fields, k \in {"applicant", "gap"}}
    \cup {[d EXCEPT !.defer = [d.defer EXCEPT !["opt"] = k]] : k \in {"unknown", "resaid"}}
    \cup {[d EXCEPT !.asking = f] : f \in Fields}
    \cup {[d EXCEPT !.cp = TRUE], [d EXCEPT !.cp = TRUE, !.confirms = TRUE], [d EXCEPT !.over = TRUE],
          [d EXCEPT !.closing = TRUE], [d EXCEPT !.oath = 1], [d EXCEPT !.oath = 2], [d EXCEPT !.wrong = TRUE],
          [d EXCEPT !.json = FALSE], [d EXCEPT !.early = TRUE], [d EXCEPT !.size = 1], [d EXCEPT !.answers = FALSE],
          [d EXCEPT !.json = FALSE, !.size = 0],
          [d EXCEPT !.shape = "string"], [d EXCEPT !.shape = "unreadable"]}

ModelReplies(n) ==
    LET More[k \in 0 .. n] == IF k = 0 THEN {Clean} ELSE More[k - 1] \cup UNION {Deviate(d) : d \in More[k - 1]}
    IN  {d \in More[n] : d.oath <= d.size}

(* The sentences of a reply made by call c: the last one asks the question,    *)
(* the one before reads back.                                                 *)
Sentence(c, i, d) == [call |-> c, at |-> i, oath |-> (d.oath = i), wrong |-> d.wrong]
Text(c, d) == [i \in 1 .. d.size |-> Sentence(c, i, d)]
----------------------------------------------------------------------------
(* What the guards detect.  None of them sees anything in prose.              *)

agenda_field_ids == ask.agenda
first_line(nodes) ==
    CASE "id" \in nodes -> "id"
      [] "id" \notin nodes /\ "date" \in nodes -> "date"
      [] nodes \cap {"id", "date"} = {} /\ "opt" \in nodes -> "opt"
      [] OTHER -> NoField
settledFacts(d) == {f \in Fields : d.fact[f] # "none"}
deferral_stands(d, f) == d.defer[f] \in {"applicant", "unknown", "resaid"}
settled(d) == settledFacts(d) \cup {f \in Fields : deferral_stands(d, f)}

(* A choice that closes its gate makes the dated rows behind it moot.           *)
moot_nodes(d) == IF d.fact["opt"] = "closes" THEN {"date"} ELSE {}
open_nodes(d) == ask.agenda \ (settled(d) \cup moot_nodes(d))

checkpoint_contradicts_agenda(d) == d.cp /\ open_nodes(d) # {}
checkpoint_reads_back_nothing(d) == d.cp /\ ask.filed # {} /\ ~ask.recorded /\ settled(d) = {}
checkpoint_is_refused(d) == d.json /\ (checkpoint_contradicts_agenda(d) \/ checkpoint_reads_back_nothing(d))
offers_impossible_oath_modification(d) == d.json /\ d.oath > 0
closes_in_words_while_agenda_open(d) == d.json /\ d.closing /\ ask.agenda # {}
date_inversions(d) == d.json /\ d.fact["date"] = "inverted"

(* A refusal is noted on the reply it leaves with; prose takes no note.        *)
mark_refused(g, d) == IF d.json THEN [d EXCEPT !.marks = d.marks \cup {g}] ELSE d

drop_contradicted_checkpoint(d) == IF checkpoint_contradicts_agenda(d) THEN [d EXCEPT !.cp = FALSE] ELSE d
drop_inverted_dates(d) == [d EXCEPT !.fact = [d.fact EXCEPT !["date"] = "none"]]
----------------------------------------------------------------------------
(* guard_response_text: each repair takes the turn w and returns it repaired.  *)
(* w adds to the reply its text, what was recorded as dropped, what that       *)
(* record lost, the facts waiting for the judge, the question a fact settled   *)
(* and the identifier asked for again.                                         *)

Work(d, c) == [r |-> d, text |-> Text(c, d), dropped |-> {}, lost |-> {}, pend |-> {}, answered |-> NoField,
               reask |-> NoField]

(* w with the facts, the deferrals or the marks of its reply replaced.          *)
WithFacts(w, facts) == [w EXCEPT !.r = [w.r EXCEPT !.fact = facts]]
WithDefers(w, defers) == [w EXCEPT !.r = [w.r EXCEPT !.defer = defers]]
File(w, f, k) == WithFacts(w, [w.r.fact EXCEPT ![f] = k])

Drop(w, gone) == [WithFacts(w, [f \in Fields |-> IF f \in gone THEN "none" ELSE w.r.fact[f]])
                    EXCEPT !.dropped = w.dropped \cup gone]
With(w, kinds) == {f \in Fields : w.r.fact[f] \in kinds}

(* A misread identifier is corrected to the one filed in the same reply.       *)
corrected(s, d) == IF d.fact["id"] # "none" THEN [s EXCEPT !.wrong = FALSE] ELSE s
correct_identifier_readbacks(w) == [w EXCEPT !.text = [i \in DOMAIN w.text |-> corrected(w.text[i], w.r)]]

drop_stale_asking(w) ==
    LET q == w.r.asking
    IN  IF q = NoField \/ (q \in ask.agenda /\ w.r.fact[q] = "none") THEN w
        ELSE [w EXCEPT !.r = [w.r EXCEPT !.asking = NoField],
                       !.answered = IF q \in ask.agenda THEN q ELSE NoField]

drop_identifiers_with_wrong_digit_count(w) == Drop(w, With(w, {"digits"}))
drop_identifiers_not_as_said(w) == Drop(w, With(w, {"misheard"}))

(* The reply becomes the request to say the number again.                      *)
Spoken(word) == [call |-> 0, at |-> word, oath |-> FALSE, wrong |-> FALSE]
reask_dropped_identifier(w) ==
    IF "id" \notin w.dropped THEN w
    ELSE [w EXCEPT !.text = <<Spoken("reask")>>, !.reask = "id",
                   !.r = [w.r EXCEPT !.cp = FALSE, !.over = FALSE, !.shape = "map",
                                     !.asking = IF "id" \in ask.agenda THEN "id" ELSE w.r.asking]]

fix_occupations(w) == Drop(w, With(w, {"idle"}))

(* What her words settle by themselves is filed.                               *)
file_probation_never_had(w) ==
    IF ask.implied /\ first_line(ask.agenda) = "opt" /\ w.r.fact["opt"] = "none"
    THEN File(w, "opt", "ok") ELSE w
close_trips_on_stated_count(w) ==
    IF ask.implied /\ w.r.fact["date"] # "none" /\ w.r.fact["opt"] = "none"
    THEN File(w, "opt", "ok") ELSE w

(* Facts whose words she never said, and those she said turns ago.             *)
never_said(w) == With(w, {"unsaid"})
free_text_carried(w) == With(w, {"carried"})

(* The list of this guard replaces the list kept so far.                       *)
drop_facts_without_current_evidence(w) ==
    LET gone == never_said(w) \cup free_text_carried(w)
    IN  IF gone = {} THEN w
        ELSE [Drop(w, gone) EXCEPT !.dropped = gone, !.lost = w.dropped \ gone, !.pend = free_text_carried(w)]

drop_no_that_pushed_back(w) == Drop(w, With(w, {"pushback"}))

(* A question whose answer is in this reply gives way to the next open line.    *)
replace_settled_question(w) ==
    LET next == first_line({f \in ask.agenda : f # w.answered /\ w.r.fact[f] = "none"})
    IN  IF w.answered = NoField \/ next = NoField THEN w
        ELSE IF w.r.fact[w.answered] = "none" THEN w
        ELSE [w EXCEPT !.text = [w.text EXCEPT ![Len(w.text)] = Spoken("next")],
                       !.r = [w.r EXCEPT !.asking = next]]

drop_deferrals_of_filed_values(w) ==
    WithDefers(w, [f \in Fields |->
        IF f \in ask.filed /\ w.r.defer[f] # "resaid" /\ first_line(ask.agenda) # f
        THEN "none" ELSE w.r.defer[f]])

(* Faulty variant: the fact wins over what the applicant put off.               *)
FactWins(w) ==
    WithDefers(w, [f \in Fields |->
        IF w.r.defer[f] = "gap" /\ w.r.fact[f] # "none" THEN "none" ELSE w.r.defer[f]])

(* What the applicant put off stands; a gap the fact fills is closed.           *)
drop_facts_that_are_also_deferred(w) ==
    LET both == {f \in settledFacts(w.r) : deferral_stands(w.r, f)}
        v == Drop(w, both)
    IN  WithDefers(v, [f \in Fields |->
            IF v.r.defer[f] = "gap" /\ v.r.fact[f] # "none" THEN "none" ELSE v.r.defer[f]])

(* A date with a day nobody spoke, or off what is on file, is put off instead.  *)
PutOff(w, gone) ==
    WithDefers(Drop(w, gone), [f \in Fields |->
        IF f \in gone /\ w.r.defer[f] = "none" THEN "applicant" ELSE w.r.defer[f]])
day_unspoken(w) == With(w, {"day"})
off_known_partial(w) == With(w, {"partial"})
defer_dates_with_unspoken_day(w) == PutOff(w, day_unspoken(w))
defer_dates_off_their_known_partial(w) == PutOff(w, off_known_partial(w))

(* What is only noted: the fact leaves with the reply.                          *)
Note(w, on, mark) == IF on THEN [w EXCEPT !.r = [w.r EXCEPT !.marks = w.r.marks \cup {mark}]] ELSE w
mark_unknown_deferral_origins(w) == Note(w, \E f \in Fields : w.r.defer[f] = "unknown", "deferred_origin_unknown")
mark_facts_minted_on_a_non_answer(w) == Note(w, ~w.r.answers /\ settledFacts(w.r) # {}, "non_answer")
mark_values_outside_declared_options(w) == Note(w, w.r.fact["opt"] = "outside", "outside_options")
mark_battery_shortfall(w) == Note(w, w.r.fact["opt"] = "battery", "battery_unspoken")

normalize_reply_shape(w) ==
    IF w.r.shape = "string" THEN [w EXCEPT !.r = [w.r EXCEPT !.shape = "map"]] ELSE w
clear_interview_over_while_agenda_open(w) ==
    IF ask.agenda # {} THEN [w EXCEPT !.r = [w.r EXCEPT !.over = FALSE]] ELSE w

(* A checkpoint beside a question is dropped, unless the reply asks to confirm. *)
drop_checkpoint_when_asking_set(w) ==
    IF w.r.asking # NoField /\ ~(w.r.confirms /\ \A i \in DOMAIN w.text : w.text[i].call > 0)
    THEN [w EXCEPT !.r = [w.r EXCEPT !.cp = FALSE]] ELSE w

drop_unusable_reply(w) == IF w.r.shape = "unreadable" THEN [w EXCEPT !.text = <<>>] ELSE w

repair_identifiers(w) ==
    reask_dropped_identifier(drop_identifiers_not_as_said(drop_identifiers_with_wrong_digit_count(
        drop_stale_asking(correct_identifier_readbacks(w)))))
repair_evidence(w) ==
    drop_no_that_pushed_back(drop_facts_without_current_evidence(close_trips_on_stated_count(
        file_probation_never_had(fix_occupations(w)))))
repair_deferrals(w) ==
    defer_dates_off_their_known_partial(defer_dates_with_unspoken_day(mark_facts_minted_on_a_non_answer(
        drop_facts_that_are_also_deferred(mark_unknown_deferral_origins(drop_deferrals_of_filed_values(
            replace_settled_question(w)))))))
repair_reply(w) ==
    drop_unusable_reply(drop_checkpoint_when_asking_set(mark_battery_shortfall(mark_values_outside_declared_options(
        clear_interview_over_while_agenda_open(normalize_reply_shape(w))))))

guard_response_text(w) ==
    IF w.r.json THEN repair_reply(repair_deferrals(repair_evidence(repair_identifiers(w)))) ELSE w

(* The judge notes a choice the words do not bear, and gives back a fact that  *)
(* her earlier words support, unless it is put off.                            *)
mark_unsupported_enum_facts(w, backed) ==
    Note(w, w.r.json /\ w.r.fact["opt"] # "none" /\ "opt" \notin backed, "unsupported")
restore_supported_carried_facts(w, backed) ==
    LET back == {f \in w.pend \cap backed : w.r.defer[f] = "none"}
    IN  [WithFacts(w, [f \in Fields |-> IF f \in back THEN "restored" ELSE w.r.fact[f]])
           EXCEPT !.dropped = w.dropped \ back, !.pend = {}]
----------------------------------------------------------------------------
(* The turn.                                                                  *)

InterviewInit ==
    /\ ask \in [agenda : Agendas, filed : {{}, {"opt"}}, recorded : BOOLEAN, implied : BOOLEAN, streamed : BOOLEAN,
               oath : BOOLEAN]
    /\ ask.recorded => ask.filed # {}
    /\ ask.oath => ask.agenda = {"opt"} /\ ask.streamed
    /\ draft = Clean /\ stage = "model" /\ heard = <<>> /\ pending = <<>> /\ buffered = NoField
    /\ spoken = 0 /\ calls = 0 /\ logged = 0 /\ lateFor = NoField /\ env = NoField

(* The model answers.  A streamed turn is spoken as it is written.              *)
Model ==
    /\ stage = "model"
    /\ draft' \in ModelReplies(FirstWrong)
    /\ calls' = 1
    /\ stage' = IF ask.streamed THEN "stream" ELSE "envelope"
    /\ UNCHANGED <<ask, heard, pending, buffered, spoken, logged, lateFor, env>>

(* ReleaseController at the start of the reply: nothing is released where an    *)
(* oath is asked for; the reply must come after the keys the checkpoint refusal  *)
(* reads, be an object, and carry no refused checkpoint.                        *)
buffer_reason(d) ==
    CASE ask.oath -> "oath_node_on_agenda"
      [] ~ask.oath /\ (~d.json \/ d.shape # "map") -> "malformed"
      [] ~ask.oath /\ d.json /\ d.shape = "map" /\ d.early -> "reply_before_keys"
      [] OTHER -> IF checkpoint_is_refused(d) THEN "checkpoint_refused" ELSE NoField

ReplyStart ==
    /\ stage = "stream" /\ spoken = 0 /\ buffered = NoField
    /\ IF buffer_reason(draft) # NoField
       THEN buffered' = buffer_reason(draft) /\ stage' = "envelope" /\ UNCHANGED spoken
       ELSE spoken' = 1 /\ UNCHANGED <<buffered, stage>>
    /\ UNCHANGED <<ask, draft, heard, pending, calls, logged, lateFor, env>>

(* A complete sentence waits until the next one begins.                        *)
hold(s) == heard' = heard \o pending /\ pending' = <<s>>

(* Faulty variant: the sentence is spoken as the model wrote it.               *)
AsWritten(s) == s

corrected_before_release(s) == corrected(s, draft)

(* A sentence that offers what the oath does not allow ends the release.        *)
SentenceDone ==
    LET s == Sentence(1, spoken, draft)
    IN  /\ stage = "stream" /\ spoken \in 1 .. draft.size
        /\ IF s.oath
           THEN /\ buffered' = "oath_modification" /\ pending' = <<>> /\ stage' = "envelope"
                /\ heard' = heard \o pending
                /\ UNCHANGED spoken
           ELSE /\ hold(corrected_before_release(s))
                /\ spoken' = spoken + 1
                /\ stage' = IF spoken = draft.size THEN "envelope" ELSE stage
                /\ UNCHANGED buffered
        /\ UNCHANGED <<ask, draft, calls, logged, lateFor, env>>

(* 6.55: prose is asked for again, once; the retry is taken only if it is an    *)
(* envelope.                                                                   *)
Envelope ==
    /\ stage = "envelope"
    /\ IF draft.json
       THEN UNCHANGED <<draft, calls, logged, lateFor>>
       ELSE \E d \in ModelReplies(RetryWrong) :
              /\ calls' = calls + 1
              /\ logged' = logged + 1
              /\ draft' = IF d.json THEN d ELSE draft
              /\ lateFor' = IF d.json THEN "envelope" ELSE lateFor
    /\ stage' = "log"
    /\ UNCHANGED <<ask, heard, pending, buffered, spoken, env>>

(* 8 and 9: the reply in hand is charged and logged, ahead of the refusals.     *)
LogReply ==
    /\ stage = "log"
    /\ logged' = logged + 1
    /\ stage' = "checkpoint"
    /\ UNCHANGED <<ask, draft, heard, pending, buffered, spoken, calls, lateFor, env>>

Refusals == {"checkpoint", "oath", "closing", "inversion"}
After(g) == CASE g = "checkpoint" -> "oath"
              [] g = "oath" -> "closing"
              [] g = "closing" -> "inversion"
              [] g = "inversion" -> "guard"

refused(g, d) == CASE g = "checkpoint" -> checkpoint_is_refused(d)
                   [] g = "oath" -> offers_impossible_oath_modification(d)
                   [] g = "closing" -> closes_in_words_while_agenda_open(d)
                   [] g = "inversion" -> date_inversions(d)

kept(g, d) == CASE g = "checkpoint" -> drop_contradicted_checkpoint(d)
                [] g = "inversion" -> drop_inverted_dates(d)
                [] OTHER -> d

(* Faulty variant: the retry is taken as it comes.                             *)
RetryTaken(g, d) == TRUE

(* The retry is taken when its own refusal finds nothing in it.                *)
resolves(g, d) == d.size > 0 /\ ~refused(g, d)

(* One reminder per refusal; a retry that is refused too leaves the first reply *)
(* with what can be taken out of it taken out.                                  *)
Refusal(g) ==
    /\ stage = g
    /\ IF ~refused(g, draft)
       THEN UNCHANGED <<draft, calls, logged, lateFor>>
       ELSE \E d \in ModelReplies(RetryWrong) :
              /\ calls' = calls + 1
              /\ logged' = logged + 1
              /\ draft' = mark_refused(g, IF resolves(g, d) THEN d ELSE kept(g, draft))
              /\ lateFor' = IF resolves(g, d) THEN g ELSE lateFor
    /\ stage' = After(g)
    /\ UNCHANGED <<ask, heard, pending, buffered, spoken, env>>

(* A retry the provider fails takes the turn with it, what was charged and      *)
(* logged included.                                                            *)
RetryFails ==
    /\ \E g \in Refusals : stage = g /\ refused(g, draft)
    /\ stage' = "failed"
    /\ UNCHANGED <<ask, draft, heard, pending, buffered, spoken, calls, logged, lateFor, env>>

(* A text that does not go on from what was heard is stale.                     *)
spoken_prefix_stale(text) == heard # <<>> /\ ~IsPrefix(heard, text)

(* The guard, the judge and the envelope.                                      *)
Guard ==
    /\ stage = "guard"
    /\ \E backed \in {{}, Fields} :
         LET c == IF lateFor = NoField THEN 1 ELSE calls
             g == guard_response_text(Work(draft, c))
             w == restore_supported_carried_facts(mark_unsupported_enum_facts(g, backed), backed)
             stale == spoken_prefix_stale(w.text)
         IN  env' = [w |-> w, minted |-> draft.fact, stale |-> stale,
                     held |-> IF stale \/ buffered # NoField THEN <<>> ELSE pending]
    /\ stage' = "sent"
    /\ UNCHANGED <<ask, draft, heard, pending, buffered, spoken, calls, logged, lateFor>>

InterviewNext ==
    \/ Model \/ ReplyStart \/ SentenceDone \/ Envelope \/ LogReply \/ RetryFails \/ Guard
    \/ \E g \in Refusals : Refusal(g)

InterviewSpec == InterviewInit /\ [][InterviewNext]_interviewVars
----------------------------------------------------------------------------
Sent == stage = "sent"
Out == env.w.r

(* What is filed was said: a fact that leaves has nothing wrong with it or was  *)
(* given back by the judge, no field is filed and put off at once, and every    *)
(* fact that does not leave is on the list of dropped facts, unless that list    *)
(* was replaced after it was dropped; what is doubted and kept leaves with a     *)
(* note.  Prose twice over is the exception.                                    *)
FiledAsSaid ==
    Sent /\ Out.json =>
        /\ \A f \in Fields : Out.fact[f] \in {"none", "ok", "restored", "outside", "battery", "closes"}
        /\ Out.fact["opt"] \in {"outside", "battery"} => Out.marks \cap {"outside_options", "battery_unspoken"} # {}
        /\ ~Out.answers /\ (\E f \in Fields : Out.fact[f] \notin {"none", "restored"}) => "non_answer" \in Out.marks
        /\ \A f \in Fields : Out.fact[f] # "none" => Out.defer[f] = "none"
        /\ \A f \in Fields : env.minted[f] # "none" /\ Out.fact[f] = "none" => f \in env.w.dropped \cup env.w.lost

(* The interview is not over while a node is open, and a section is not declared *)
(* read back with a node open that the reply had not settled: a node may only     *)
(* have come open since, by a repair of the reply that settled it or because its   *)
(* dates were refused as inverted.  A later refusal's retry is the exception, no   *)
(* one looks at its checkpoint.                                                  *)
refused_dates == IF "inversion" \in draft.marks THEN {"date"} ELSE {}
CheckpointHonest ==
    Sent /\ Out.json =>
        /\ Out.over => ask.agenda = {}
        /\ Out.cp /\ lateFor \notin {"oath", "closing", "inversion"} =>
             open_nodes(Out) \subseteq settled(draft) \cup moot_nodes(draft) \cup refused_dates

(* What is filed was said, and what is called finished is.                       *)
InterviewHonest == FiledAsSaid /\ CheckpointHonest

(* She never hears the sentence the guards take back: nothing heard offers what  *)
(* the oath does not allow, misreads the identifier filed with it or comes from   *)
(* a reply whose checkpoint is refused; what was heard opens the text that        *)
(* leaves or is declared stale; and with the sentence held it is the whole text,  *)
(* unless the guard put another question in its place.                           *)
SpokenStands ==
    /\ \A i \in DOMAIN heard : ~heard[i].oath
    /\ Sent /\ ask.streamed =>
         /\ env.stale \/ IsPrefix(heard, env.w.text) \/ heard = <<>>
         /\ env.held # <<>> /\ lateFor = NoField /\ env.w.text # <<>> =>
              heard \o env.held = env.w.text \/ \E i \in DOMAIN env.w.text : env.w.text[i].call = 0
         /\ buffered \in {"malformed", "reply_before_keys", "checkpoint_refused", "oath_node_on_agenda"} => heard = <<>>
         /\ lateFor = NoField /\ env.w.reask = NoField /\ heard # <<>> /\ draft.shape = "map" => ~env.stale

(* The sentence held back is the last one of the text it is spoken after.        *)
HeldIsSuffix == Sent /\ ask.streamed /\ env.held # <<>> => IsSuffix(env.held, env.w.text)
=============================================================================

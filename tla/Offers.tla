------------------------------- MODULE Offers -------------------------------
(***************************************************************************)
(* File builds in a chat turn: the web-search gate, the monthly cap on      *)
(* builds, the offers of generation_offers (process memory, ten minutes,     *)
(* one reply each), the judging of a reply, the fast path, the teaser, the   *)
(* three build lanes and the counters charged once the answer is there.      *)
(*                                                                         *)
(* One account; Requests are its sends in flight.  A request moves from one  *)
(* await to the next in one step.  The model's and the user's words are a    *)
(* member of Asks with the readings the code takes of it; what a classifier  *)
(* says is a nondeterministic choice.                                       *)
(***************************************************************************)
EXTENDS Integers, FiniteSets

CONSTANTS
    Requests,   \* sends of the account that may overlap
    Asks,       \* [words, explicit, tmpl, ambiguous, marker]: readings of a text
    Replies,    \* the texts, of those, that are sent as the reply to an offer
    SearchCap,  \* searches_per_month of a paid tier
    GenCap,     \* generations_per_month of a paid tier
    MaxUses,    \* searches one call may run
    MaxOffers,  \* bound: offers minted in a behaviour
    MaxSends,   \* bound: sends in a behaviour
    Nil

Templates == {"detailed", Nil} \cup {a.tmpl : a \in Asks}

(* What an offer remembers; its ids count from 1.                             *)
OfferRecords ==
    [ask : Asks, images : BOOLEAN, dropped : BOOLEAN, tmpl : Templates, lane : {Nil, "asked", "pending"},
     artifact : BOOLEAN, research : BOOLEAN, answer : BOOLEAN]

(* Nil is no offer, no id, and no state of the version question.              *)
ASSUME OffersAssumption ==
    /\ SearchCap \in Nat \ {0} /\ GenCap \in Nat \ {0}
    /\ MaxUses \in Nat /\ MaxOffers \in Nat /\ MaxSends \in Nat
    /\ IsFiniteSet(Requests)
    /\ Nil \notin OfferRecords /\ Nil \notin Nat /\ Nil \notin {"asked", "pending"}

VARIABLES
    paid,      \* the tier has search and passes generation_gate
    offers,    \* _OFFERS: id -> what the offer remembers, or Nil
    minted,    \* offers minted so far; the next id
    sends,     \* sends so far
    searches,  \* users.searches_used
    files,     \* users.generations_used
    req,       \* [Requests -> locals of the handler]
    taken,     \* history: offers given to a reply, how often
    referenced, \* history: searches of an interview reference that no gate ruled on
    dark       \* history: files built by a turn that nobody had decided on

offerStoreVars == <<paid, offers, minted, sends, searches, files, req, taken, referenced, dark>>

Ids == 1 .. MaxOffers

Idle == [pc |-> "idle", send |-> Nil, search |-> FALSE, offer |-> Nil, about |-> Nil, photo |-> "none",
         armed |-> FALSE, tmpl |-> Nil, contract |-> FALSE, lane |-> Nil, why |-> Nil, teaser |-> Nil,
         version |-> FALSE, declined |-> FALSE, stripped |-> FALSE]

OffersInit ==
    /\ paid \in BOOLEAN
    /\ offers = [i \in Ids |-> Nil]
    /\ minted = 0 /\ sends = 0 /\ searches = 0 /\ files = 0 /\ referenced = 0 /\ dark = 0
    /\ req = [r \in Requests |-> Idle]
    /\ taken = [i \in Ids |-> 0]
----------------------------------------------------------------------------
(* generation_offers                                                        *)

(* An offer keeps the ask, its images unless they are too large, the         *)
(* template or contract, whether a version question is open or was put, and   *)
(* whether the ask wanted research.                                          *)
offer(ask, images, tmpl, lane, artifact, research) ==
    [ask |-> ask, images |-> (images = "ok"), dropped |-> (images = "big"), tmpl |-> tmpl, lane |-> lane,
     artifact |-> artifact, research |-> research, answer |-> FALSE]

(* create: the id is new.                                                     *)
create(o) ==
    /\ minted < MaxOffers
    /\ minted' = minted + 1
    /\ offers' = [offers EXCEPT ![minted + 1] = o]

LiveOffer(i) == IF i = Nil THEN Nil ELSE offers[i]

peek(i) == LiveOffer(i)

(* take: popped, so the next reply finds nothing.                             *)
take(r, i) ==
    /\ offers' = IF i = Nil THEN offers ELSE [offers EXCEPT ![i] = Nil]
    /\ taken' = IF LiveOffer(i) = Nil THEN taken ELSE [taken EXCEPT ![i] = @ + 1]

(* attach_answer: onto the offer if it is still in the store.                 *)
attach_answer(i) ==
    offers' = IF i = Nil \/ offers[i] = Nil THEN offers ELSE [offers EXCEPT ![i].answer = TRUE]

(* Ten minutes pass: nothing finds the offer any more, whenever create and     *)
(* take get round to removing it.                                             *)
Expire(i) ==
    /\ offers[i] # Nil
    /\ offers' = [offers EXCEPT ![i] = Nil]
    /\ UNCHANGED <<paid, minted, sends, searches, files, req, taken, referenced, dark>>

(* A deploy: the store and the handlers go with the process.                  *)
OffersRestart ==
    /\ \E i \in Ids : offers[i] # Nil
    /\ offers' = [i \in Ids |-> Nil]
    /\ req' = [r \in Requests |-> Idle]
    /\ UNCHANGED <<paid, minted, sends, searches, files, taken, referenced, dark>>
----------------------------------------------------------------------------
(* What the client sends: its words, with or without an image, the search     *)
(* toggle, the id of the offer it answers, and whether it tapped the pill; or  *)
(* Tech Rehearsal's call for an interview reference, whose client has no offers*)
(* and sends a job description and a resume as text.                          *)

Send(r) ==
    /\ req[r].pc = "idle" /\ sends < MaxSends
    /\ sends' = sends + 1
    /\ \E ask \in Asks, images \in {"none", "ok", "big"}, on, tap \in BOOLEAN, echo \in (1 .. minted) \cup {Nil},
          call_type \in {"chat", "tr_interview_reference"} :
         /\ echo = Nil => ~tap
         /\ tap => ~ask.words
         /\ echo # Nil => ask \in Replies /\ images = "none"
         /\ images # "none" => ask.marker
         /\ call_type = "tr_interview_reference" => echo = Nil /\ images = "none"
         /\ req' = [req EXCEPT ![r] = [Idle EXCEPT !.pc = "search", !.about = ask, !.photo = images,
                                                  !.send = [on |-> on, tap |-> tap, echo |-> echo, call_type |-> call_type]]]
    /\ UNCHANGED <<paid, offers, minted, searches, files, taken, referenced, dark>>

End(r) == req' = [req EXCEPT ![r] = Idle]

inherited(s) == ~s.on /\ peek(s.echo) # Nil /\ peek(s.echo).research

(* Faulty variant: the cap warns and strips nothing.                          *)
SearchNotStripped(s) == s.on \/ inherited(s)

(* A confirming send inherits the research flag of the ask it confirms, ahead *)
(* of the gate, so the cap rules on it like on a flag of its own.              *)
search_kept(s) == (s.on \/ inherited(s)) /\ searches < SearchCap

(* 5.7: a tier without search is answered with a paywall and no call; past    *)
(* the hard cap the flag is stripped and the turn goes on.                    *)
SearchGate(r) ==
    LET s == req[r].send
        wanted == s.on \/ inherited(s)
    IN  /\ req[r].pc = "search"
        /\ IF wanted /\ ~paid THEN End(r)
           ELSE req' = [req EXCEPT ![r].pc = "offer", ![r].search = search_kept(s),
                                   ![r].stripped = wanted /\ ~search_kept(s)]
        /\ UNCHANGED <<paid, offers, minted, sends, searches, files, taken, referenced, dark>>
----------------------------------------------------------------------------
(* 5.7c: an interview reference searches whatever the gate did with its flag,  *)
(* even if it had none; l.search is the flag as the gate left it.              *)
search_enabled(l) == l.search \/ l.send.call_type = "tr_interview_reference"

(* 5.97: arming.  Images of the originating ask are inherited; an ask about   *)
(* a photo nobody has any more must not build.                                *)

photo_of(l, o) == IF o.images /\ l.photo = "none" THEN "ok" ELSE l.photo
image_guard(l, o) == photo_of(l, o) = "none" /\ (o.dropped \/ o.ask.marker)

(* The version question keeps the ask alive in an offer of its own.           *)
lane_question(o) == offer(o.ask, IF o.images THEN "ok" ELSE "none", "detailed", "asked", FALSE, o.research)

(* At the monthly cap confirmation is switched off and the confirmed flag     *)
(* cleared; with confirmation off the gate alone arms.                        *)
ArmAtCap(r) ==
    /\ req[r].pc = "offer" /\ paid /\ files >= GenCap
    /\ req' = [req EXCEPT ![r].pc = "lane", ![r].armed = TRUE, ![r].why = "dark"]
    /\ UNCHANGED <<paid, offers, minted, sends, searches, files, taken, referenced, dark>>

(* A tap: the echoed offer is spent; an open version question is put now, and  *)
(* an offer that is gone leaves a build of the send's own words.              *)
ArmByTap(r) ==
    LET l == req[r]
        o == LiveOffer(l.send.echo)
    IN  /\ l.pc = "offer" /\ paid /\ files < GenCap /\ l.send.tap
        /\ take(r, l.send.echo)
        /\ o # Nil => o.lane # "pending"
        /\ req' = [req EXCEPT ![r] =
              IF o = Nil THEN [l EXCEPT !.pc = "lane", !.armed = TRUE, !.why = "lost"]
              ELSE [l EXCEPT !.pc = "lane", !.armed = TRUE, !.offer = o, !.about = o.ask,
                             !.photo = photo_of(l, o), !.version = (o.lane = "asked"),
                             !.why = IF image_guard(l, o) THEN "dark" ELSE "tap",
                             !.tmpl = IF image_guard(l, o) THEN Nil ELSE o.tmpl]]
        /\ UNCHANGED <<paid, minted, sends, searches, files, referenced, dark>>

QuestionForTap(r) ==
    LET l == req[r]
        i == l.send.echo
        o == LiveOffer(i)
    IN  /\ l.pc = "offer" /\ paid /\ files < GenCap /\ l.send.tap
        /\ o # Nil /\ o.lane = "pending" /\ minted < MaxOffers
        /\ minted' = minted + 1
        /\ offers' = [offers EXCEPT ![i] = Nil, ![minted + 1] = lane_question(o)]
        /\ taken' = [taken EXCEPT ![i] = @ + 1]
        /\ End(r)
        /\ UNCHANGED <<paid, sends, searches, files, referenced, dark>>

(* A typed send spends the offer it echoes; without one its words are judged. *)
TakeForReply(r) ==
    LET l == req[r]
        o == LiveOffer(l.send.echo)
    IN  /\ l.pc = "offer" /\ paid /\ files < GenCap /\ ~l.send.tap
        /\ take(r, l.send.echo)
        /\ req' = [req EXCEPT ![r].pc = IF o = Nil THEN "intent" ELSE "reply", ![r].offer = o]
        /\ UNCHANGED <<paid, minted, sends, searches, files, referenced, dark>>

(* Faulty variant: a no is read like any other message.                       *)
JudgedAfresh == "intent"

(* A decline ends the matter for this turn.                                   *)
after_decline == "lane"

(* interpret_offer_reply; a failure of the judge is a no.                     *)
Decline(r) ==
    /\ req[r].pc = "reply"
    /\ req' = [req EXCEPT ![r].pc = after_decline, ![r].declined = TRUE]
    /\ UNCHANGED <<paid, offers, minted, sends, searches, files, taken, referenced, dark>>

QuestionForReply(r) ==
    LET o == req[r].offer
    IN  /\ req[r].pc = "reply" /\ o.lane = "pending"
        /\ create(lane_question(o))
        /\ End(r)
        /\ UNCHANGED <<paid, sends, searches, files, taken, referenced, dark>>

Confirm(r) ==
    LET l == req[r]
        o == l.offer
        guarded == image_guard(l, o)
    IN  /\ l.pc = "reply"
        /\ \E version \in {Nil, "workbook", "custom"}, xlsx \in BOOLEAN :
             /\ o.lane = "pending" => version # Nil
             /\ version # Nil => o.lane # Nil
             /\ ~xlsx => o.lane = "asked"
             /\ LET tmpl == IF o.lane = Nil THEN o.tmpl
                            ELSE IF version = "custom" \/ ~xlsx THEN Nil ELSE "detailed"
                IN  req' = [req EXCEPT ![r] = [l EXCEPT
                       !.pc = "lane", !.about = o.ask, !.photo = photo_of(l, o),
                       !.armed = ~guarded, !.tmpl = IF guarded THEN Nil ELSE tmpl,
                       !.contract = ~guarded /\ o.tmpl = Nil /\ o.artifact,
                       !.why = "reply", !.version = (o.lane # Nil)]]
        /\ UNCHANGED <<paid, offers, minted, sends, searches, files, taken, referenced, dark>>
----------------------------------------------------------------------------
(* A send that answers nothing: the deterministic reading, else the           *)
(* classifier's (asked only when there is file vocabulary; it may fail).      *)

Readings(ask) == IF ask.explicit THEN {"file"} ELSE IF ask.words THEN {"file", "no"} ELSE {"no"}

(* Faulty variant: plan words no longer keep the question.                    *)
FastPathUnasked(l) == (l.about.explicit \/ search_enabled(l)) /\ l.about.tmpl = Nil

(* An explicit command, or a file request with research on, is its own        *)
(* confirmation, unless a template or a version has to be chosen or the       *)
(* photo it speaks of is not there.                                           *)
fast_path(l) ==
    /\ l.about.explicit \/ search_enabled(l)
    /\ l.about.tmpl = Nil /\ ~l.about.ambiguous
    /\ l.photo # "none" \/ ~l.about.marker

FastPath(r) ==
    /\ req[r].pc = "intent" /\ "file" \in Readings(req[r].about) /\ fast_path(req[r])
    /\ \E contract \in BOOLEAN :
         req' = [req EXCEPT ![r].pc = "lane", ![r].armed = TRUE, ![r].contract = contract, ![r].why = "asked"]
    /\ UNCHANGED <<paid, offers, minted, sends, searches, files, taken, referenced, dark>>

(* The offer envelope, or the version question, instead of an answer.          *)
Offer(r) ==
    LET l == req[r]
        a == l.about
    IN  /\ l.pc = "intent" /\ "file" \in Readings(a) /\ ~fast_path(l)
        /\ \E artifact \in BOOLEAN :
             /\ artifact => a.tmpl = Nil /\ ~a.ambiguous
             /\ create(offer(a, l.photo, IF a.ambiguous THEN "detailed" ELSE a.tmpl,
                             IF a.ambiguous THEN "asked" ELSE Nil, artifact, search_enabled(l)))
        /\ End(r)
        /\ UNCHANGED <<paid, sends, searches, files, taken, referenced, dark>>

(* No request was judged: with file vocabulary the answer carries a teaser,    *)
(* and the teaser is an offer too.                                            *)
Teaser(r) ==
    LET l == req[r]
        a == l.about
    IN  /\ l.pc = "intent" /\ "no" \in Readings(a) /\ a.words
        /\ create(offer(a, l.photo, a.tmpl, IF a.ambiguous THEN "pending" ELSE Nil, FALSE, search_enabled(l)))
        /\ req' = [req EXCEPT ![r].pc = "lane", ![r].teaser = minted + 1]
        /\ UNCHANGED <<paid, sends, searches, files, taken, referenced, dark>>

PlainAnswer(r) ==
    /\ \/ req[r].pc = "intent" /\ ~req[r].about.words
       \/ req[r].pc = "offer" /\ ~paid        \* below the tier: an upsell line at most
    /\ req' = [req EXCEPT ![r].pc = "lane"]
    /\ UNCHANGED <<paid, offers, minted, sends, searches, files, taken, referenced, dark>>
----------------------------------------------------------------------------
(* The lanes, in the order they are tried: a contract, a template, the        *)
(* sandbox.  (Which of two templates a Gantt chart gets follows the reply's    *)
(* word, else project_prefs; the lane is the same.)                            *)
lane(l) ==
    IF ~l.armed THEN "none" ELSE IF l.contract THEN "contract" ELSE IF l.tmpl # Nil THEN "template" ELSE "sandbox"

Lane(r) ==
    /\ req[r].pc = "lane"
    /\ req' = [req EXCEPT ![r].pc = "run", ![r].lane = lane(req[r])]
    /\ UNCHANGED <<paid, offers, minted, sends, searches, files, taken, referenced, dark>>

(* What the lane may leave behind: a lane that fails still answers.            *)
staged_by(l) == IF l.lane = "none" THEN {FALSE} ELSE BOOLEAN

(* The answer: a file if one was staged, the searches it ran, and the answer   *)
(* attached to the teaser it was given with.                                  *)
Finish(r) ==
    LET l == req[r]
    IN  /\ l.pc = "run"
        /\ \E staged \in staged_by(l), n \in 0 .. MaxUses :
             /\ n > 0 => search_enabled(l)
             /\ files' = files + (IF staged THEN 1 ELSE 0)
             /\ dark' = dark + (IF staged /\ l.why = "dark" THEN 1 ELSE 0)
             /\ searches' = searches + n
             /\ referenced' = referenced + (IF l.search THEN 0 ELSE n)
        /\ attach_answer(l.teaser)
        /\ End(r)
        /\ UNCHANGED <<paid, minted, sends, taken>>

(* The provider fails: nothing is charged.                                    *)
FailSend(r) ==
    /\ req[r].pc = "run"
    /\ End(r)
    /\ UNCHANGED <<paid, offers, minted, sends, searches, files, taken, referenced, dark>>

OffersNext ==
    \/ OffersRestart
    \/ \E i \in Ids : Expire(i)
    \/ \E r \in Requests :
         \/ Send(r) \/ SearchGate(r) \/ ArmAtCap(r) \/ ArmByTap(r) \/ QuestionForTap(r) \/ TakeForReply(r)
         \/ Decline(r) \/ QuestionForReply(r) \/ Confirm(r)
         \/ FastPath(r) \/ Offer(r) \/ Teaser(r) \/ PlainAnswer(r)
         \/ Lane(r) \/ Finish(r) \/ FailSend(r)

OffersSpec == OffersInit /\ [][OffersNext]_offerStoreVars
----------------------------------------------------------------------------
Building(r) == req[r].pc \in {"lane", "run"} /\ req[r].armed

(* Arming is confirmed-only: a build is under way only on an explicit ask, a   *)
(* tap or a yes.  It fails at the monthly cap and for a tap whose photo is     *)
(* gone, where clearing the flag leaves the gate's own arming in force.        *)
ConfirmedOnly == \A r \in Requests : Building(r) => req[r].why \in {"asked", "tap", "reply", "lost"}

(* An offer gets one reply; a no to it is neither turned into another offer    *)
(* nor into a build on that turn; and what is built was confirmed by the       *)
(* send itself, the two holes of ConfirmedOnly aside.                          *)
DecisionRespected ==
    /\ \A i \in Ids : taken[i] <= 1
    /\ \A r \in Requests :
         /\ req[r].declined => ~req[r].armed /\ req[r].teaser = Nil /\ req[r].pc # "intent"
         /\ Building(r) /\ req[r].why # "dark" =>
              req[r].send.tap \/ req[r].offer # Nil \/ req[r].about.explicit
                \/ (req[r].about.words /\ search_enabled(req[r]))

(* What the ask was reaches the build, across the offer, the version question  *)
(* and the reply: research wanted is on unless the gate stripped it, an        *)
(* ambiguous plan was put to the user, and an ask that speaks of a photo has    *)
(* one.  A tap whose offer is gone builds from its own words instead.          *)
AskCarried ==
    \A r \in Requests : Building(r) /\ req[r].why \in {"asked", "tap", "reply"} =>
        /\ req[r].offer # Nil /\ req[r].offer.research => req[r].search \/ req[r].stripped
        /\ req[r].about.ambiguous => req[r].version
        /\ req[r].about.marker => req[r].photo # "none"

(* The monthly counters overshoot by what is in flight and no more: every      *)
(* decided build was ruled on by its gate, and so was every search, but for    *)
(* those of an interview reference the gate had not let through, which are     *)
(* counted on the account's month all the same.                                *)
CountersBounded ==
    /\ searches - referenced + MaxUses * Cardinality({r \in Requests : req[r].search})
         <= SearchCap - 1 + Cardinality(Requests) * MaxUses
    /\ files - dark + Cardinality({r \in Requests : Building(r) /\ req[r].why # "dark"})
         <= GenCap - 1 + Cardinality(Requests)

(* What the user decided and what the user asked are what is built.            *)
OffersHonoured == DecisionRespected /\ AskCarried
=============================================================================

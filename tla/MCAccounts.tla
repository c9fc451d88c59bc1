----------------------------- MODULE MCAccounts -----------------------------
(* Sessions and Outreach side by side.  The first state picks the topic of    *)
(* the behaviour; the rest of the system stands still, so the topics' state   *)
(* spaces add up instead of multiplying.                                      *)
EXTENDS Sessions, Outreach, TLC

VARIABLE topic

MCSymmetry == Permutations(Workers)

MCMails == { [id |-> 1, to |-> "ann", kind |-> "complaint"],
             [id |-> 2, to |-> "bob", kind |-> "soft"] }

Entry(placement, feature, priority) == [placement |-> placement, feature |-> feature, priority |-> priority]

MCCampaigns ==
    { [id |-> 1, priority |-> 2, placements |-> {}, cap |-> 2, again |-> TRUE, needs |-> {"signedIn", "geo"}],
      [id |-> 2, priority |-> 1, placements |-> {Entry("feature_locked", "chat", 3), Entry("launch", Null, Null)},
       cap |-> Null, again |-> FALSE, needs |-> {}] }

SessionTopic ==
    \/ topic = "claims" /\ \E w \in Workers : SignIn(w) \/ Refresh(w) \/ Call(w) \/ Deletion(w)
    \/ topic = "merge" /\ \E w \in Workers : SignIn(w) \/ Anonymous(w) \/ Call(w)
    \/ topic = "merge" /\ \E t \in tokens : Buy(t)
    \/ topic = "spend" /\ \E w \in Workers : Anonymous(w) \/ Call(w) \/ Deletion(w) \/ Retention(w)

Next ==
    /\ UNCHANGED topic
    /\ \/ SessionTopic /\ UNCHANGED outreachVars
       \/ /\ UNCHANGED sessionVars
          /\ \/ topic = "letter" /\ (LetterNext \/ \E p \in People : DeletePerson(p))
                               /\ UNCHANGED <<pushVars, offerVars, promoVars, adVars>>
             \/ topic = "bounce" /\ (LetterNext \/ HookNext) /\ UNCHANGED <<pushVars, offerVars, promoVars, adVars>>
             \/ topic = "push" /\ PushNext /\ UNCHANGED <<mailVars, offerVars, promoVars, adVars>>
             \/ topic = "offers" /\ OfferNext /\ UNCHANGED <<mailVars, pushVars, promoVars, adVars>>
             \/ topic = "promo" /\ PromoNext /\ UNCHANGED <<mailVars, pushVars, offerVars, adVars>>
             \/ topic = "ads" /\ AdNext /\ UNCHANGED <<mailVars, pushVars, offerVars, promoVars>>

Init ==
    /\ SessionsInit /\ OutreachInit
    /\ topic \in {"claims", "merge", "spend", "letter", "bounce", "push", "offers", "promo", "ads"}
    /\ topic \notin {"claims", "merge", "spend"} => tokens = {}

Spec == Init /\ [][Next]_<<sessionVars, outreachVars, topic>>
=============================================================================

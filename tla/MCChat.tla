------------------------------- MODULE MCChat -------------------------------
(* What a chat request goes through, one topic at a time: the file offers, the  *)
(* gates, the interviewer's guarded turn, the road to the provider, the judge's *)
(* breaker.  The topic is chosen first and only its actions are taken.          *)
EXTENDS Offers, Gates, Interview, Upstream, TLC

CONSTANT Topics

VARIABLE topic

ChatAsk(words, explicit, tmpl, ambiguous, marker) ==
    [words |-> words, explicit |-> explicit, tmpl |-> tmpl, ambiguous |-> ambiguous, marker |-> marker]

MCReplies == {ChatAsk(FALSE, FALSE, Nil, FALSE, FALSE), ChatAsk(TRUE, TRUE, Nil, FALSE, FALSE)}
MCAsks == MCReplies \cup {ChatAsk(TRUE, FALSE, "gantt", FALSE, FALSE), ChatAsk(TRUE, FALSE, Nil, TRUE, FALSE),
                          ChatAsk(TRUE, FALSE, Nil, FALSE, TRUE)}
MCTrCap == [free |-> 1, paid |-> 3]
MCAgendas == {{}, {"opt"}, {"id", "opt"}, {"date", "opt"}}
MCSymmetry == Permutations(Requests)

(* A topic that is not the one chosen has one initial state.                    *)
Idles ==
    /\ topic # "gates" => kind = "free" /\ reachable
    /\ topic # "offers" => paid
    /\ topic # "interview" =>
           ask = [agenda |-> {}, filed |-> {}, recorded |-> FALSE, implied |-> FALSE, streamed |-> FALSE,
                  oath |-> FALSE]
    /\ topic # "route" => keys = {}

Init ==
    /\ topic \in Topics
    /\ OffersInit /\ GatesInit /\ InterviewInit /\ UpstreamInit /\ JudgeInit
    /\ Idles

Next ==
    /\ UNCHANGED topic
    /\ \/ topic = "offers" /\ OffersNext /\ UNCHANGED <<gateVars, interviewVars, routeVars, judgeVars>>
       \/ topic = "gates" /\ GatesNext /\ UNCHANGED <<offerStoreVars, interviewVars, routeVars, judgeVars>>
       \/ topic = "interview" /\ InterviewNext /\ UNCHANGED <<offerStoreVars, gateVars, routeVars, judgeVars>>
       \/ topic = "route" /\ RouteNext /\ UNCHANGED <<offerStoreVars, gateVars, interviewVars, judgeVars>>
       \/ topic = "judge" /\ JudgeNext /\ UNCHANGED <<offerStoreVars, gateVars, interviewVars, routeVars>>

Spec == Init /\ [][Next]_<<offerStoreVars, gateVars, interviewVars, routeVars, judgeVars, topic>>
=============================================================================

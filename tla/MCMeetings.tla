----------------------------- MODULE MCMeetings -----------------------------
(* What a meeting leaves behind: its shares, its report, its translations, what  *)
(* the memory service keeps of it and the digests read back, one topic at a      *)
(* time.  The topic is chosen first and only its actions are taken.              *)
EXTENDS Shares, Meetings, Translations, Memory, Digest, TLC

CONSTANT Topics

VARIABLE topic

MCPlans == {{}, {"people"}, {"memory", "people", "alignment"}}
MCLimits == {-1, 2}
MCSymmetry == Permutations(Callers) \cup Permutations(Handlers)

(* A topic that is not the one chosen has one initial state.                    *)
Idles ==
    /\ topic # "memory" => plan = {}
    /\ topic # "translations" => tlimit = 2

MCInit ==
    /\ topic \in Topics
    /\ SharesInit /\ MeetingsInit /\ TranslationsInit /\ MemoryInit /\ DigestInit
    /\ Idles

MCNext ==
    /\ UNCHANGED topic
    /\ \/ topic = "shares" /\ SharesNext /\ UNCHANGED <<meetingVars, translationVars, memoryVars, digestVars>>
       \/ topic = "meetings" /\ MeetingsNext /\ UNCHANGED <<shareVars, translationVars, memoryVars, digestVars>>
       \/ topic = "translations" /\ TranslationsNext /\ UNCHANGED <<shareVars, meetingVars, memoryVars, digestVars>>
       \/ topic = "memory" /\ MemoryNext /\ UNCHANGED <<shareVars, meetingVars, translationVars, digestVars>>
       \/ topic = "digest" /\ DigestNext /\ UNCHANGED <<shareVars, meetingVars, translationVars, memoryVars>>

MCSpec == MCInit /\ [][MCNext]_<<shareVars, meetingVars, translationVars, memoryVars, digestVars, topic>>
=============================================================================

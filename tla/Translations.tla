---------------------------- MODULE Translations ----------------------------
(***************************************************************************)
(* POST /translations: a group of segments is served from the cache, or     *)
(* gated on the account meter, sent to the model at most twice, charged and *)
(* cached.  Only the last response is in hand when the charge is made.      *)
(***************************************************************************)
EXTENDS Integers, FiniteSets

CONSTANTS
    Translators,        \* requests that may overlap
    TranslationGroups,  \* artifact, segments and languages: what cache_key hashes
    TranslationLimits,  \* limits a tier may set, in model calls; Unlimited is one of the code's values
    MaxTranslations,    \* bound: requests
    NoTranslation

Unlimited == -1

ASSUME TranslationsAssumption ==
    /\ TranslationLimits \subseteq Nat \cup {Unlimited} /\ MaxTranslations \in Nat /\ IsFiniteSet(Translators) /\ Translators # {}
    /\ NoTranslation \notin [group : TranslationGroups, at : {"lookup", "gate", "model", "charge", "store"},
                            attempt : {1, 2}, shaped : BOOLEAN, own : BOOLEAN]

VARIABLES
    tlimit,      \* the account's effective limit
    tcache,      \* translations_cache: per group, "absent" or "kept"
    tmeter,      \* monthly_used_usd, as far as translations move it
    trequest,    \* the requests in hand
    translations,\* requests so far
    answered,    \* history: responses the provider gave
    given_up,    \* history: requests that came back with a first response nobody paid for
    spared,      \* history: responses this meter is not for: no limit, or an app with its own cap
    dropped      \* history: responses that had no price yet, or whose charge failed

historyVars == <<answered, given_up, spared, dropped>>
translationVars == <<tlimit, tcache, tmeter, trequest, translations, historyVars>>

TranslationsInit ==
    /\ tlimit \in TranslationLimits
    /\ tcache = [g \in TranslationGroups |-> "absent"] /\ tmeter = 0 /\ translations = 0
    /\ trequest = [r \in Translators |-> NoTranslation]
    /\ answered = 0 /\ given_up = 0 /\ spared = 0 /\ dropped = 0
----------------------------------------------------------------------------
(* A shape problem in the request is refused before anything is read.  The app   *)
(* it comes from may carry a cap of its own.                                    *)
translate(r, g, own) ==
    /\ trequest[r] = NoTranslation /\ translations < MaxTranslations
    /\ translations' = translations + 1
    /\ trequest' = [trequest EXCEPT ![r] = [group |-> g, at |-> "lookup", attempt |-> 1,
                                             shaped |-> FALSE, own |-> own]]
    /\ UNCHANGED <<tlimit, tcache, tmeter, historyVars>>

TranslatorAt(r, at) == trequest[r] # NoTranslation /\ trequest[r].at = at
TranslatorEnds(r) == trequest' = [trequest EXCEPT ![r] = NoTranslation]

cache_get(r) ==
    /\ TranslatorAt(r, "lookup")
    /\ IF tcache[trequest[r].group] # "absent" THEN TranslatorEnds(r)
       ELSE trequest' = [trequest EXCEPT ![r].at = "gate"]
    /\ UNCHANGED <<tlimit, tcache, tmeter, translations, historyVars>>

(* The route's own limit, with no estimate and no overage grace.                *)
translation_gate(r) ==
    /\ TranslatorAt(r, "gate")
    /\ IF tlimit # Unlimited /\ tmeter >= tlimit THEN TranslatorEnds(r)
       ELSE trequest' = [trequest EXCEPT ![r].at = "model"]
    /\ UNCHANGED <<tlimit, tcache, tmeter, translations, historyVars>>

(* parse_model_output: a wrong shape is tried once more.                        *)
translation_attempt(r, shaped) ==
    /\ TranslatorAt(r, "model") /\ answered' = answered + 1
    /\ trequest' = [trequest EXCEPT
           ![r].shaped = shaped, ![r].attempt = IF shaped THEN @ ELSE 2,
           ![r].at = IF shaped \/ trequest[r].attempt = 2 THEN "charge" ELSE "model"]
    /\ given_up' = IF ~shaped /\ trequest[r].attempt = 1 THEN given_up + 1 ELSE given_up
    /\ UNCHANGED <<tlimit, tcache, tmeter, translations, spared, dropped>>

(* A provider error ends the request; an earlier response stays unpaid.         *)
provider_error(r) ==
    /\ TranslatorAt(r, "model") /\ TranslatorEnds(r)
    /\ UNCHANGED <<tlimit, tcache, tmeter, translations, historyVars>>

(* Faulty variant: only an answer that is handed over is charged.               *)
PaidIfShaped(own, shaped, fate) ==
    IF shaped /\ fate = "lands" /\ ~own /\ tlimit # Unlimited THEN 1 ELSE 0

(* record_cost for the response in hand, well shaped or not.  Nothing is added  *)
(* for an account without a limit or an app that meters on its own, while no    *)
(* price is known, or when the database stays locked through the last retry.    *)
Fates == {"lands", "unpriced", "locked"}

record_cost(own, shaped, fate) == IF fate = "lands" /\ ~own /\ tlimit # Unlimited THEN 1 ELSE 0

translation_charge(r, fate) ==
    LET own == trequest[r].own  free == own \/ tlimit = Unlimited IN
    /\ TranslatorAt(r, "charge")
    /\ tmeter' = tmeter + record_cost(own, trequest[r].shaped, fate)
    /\ spared' = IF free THEN spared + 1 ELSE spared
    /\ dropped' = IF ~free /\ fate # "lands" THEN dropped + 1 ELSE dropped
    /\ IF trequest[r].shaped THEN trequest' = [trequest EXCEPT ![r].at = "store"] ELSE TranslatorEnds(r)
    /\ UNCHANGED <<tlimit, tcache, translations, answered, given_up>>

(* An error no branch expects, or a restart, ends the request where it stands:  *)
(* a response in hand is charged to nobody, one just charged is not cached.     *)
request_dies(r) ==
    /\ TranslatorAt(r, "charge") \/ TranslatorAt(r, "store")
    /\ TranslatorEnds(r)
    /\ dropped' = IF TranslatorAt(r, "charge") THEN dropped + 1 ELSE dropped
    /\ UNCHANGED <<tlimit, tcache, tmeter, translations, answered, given_up, spared>>

cache_put(r) ==
    /\ TranslatorAt(r, "store") /\ tcache' = [tcache EXCEPT ![trequest[r].group] = "kept"]
    /\ TranslatorEnds(r)
    /\ UNCHANGED <<tlimit, tmeter, translations, historyVars>>

(* Transcript translations are dropped after thirty days.                       *)
purge_transcript_translations(g) ==
    /\ tcache[g] # "absent" /\ tcache' = [tcache EXCEPT ![g] = "absent"]
    /\ UNCHANGED <<tlimit, tmeter, trequest, translations, historyVars>>

TranslationsNext ==
    \/ \E r \in Translators :
          \/ cache_get(r) \/ translation_gate(r) \/ provider_error(r) \/ cache_put(r) \/ request_dies(r)
          \/ \E fate \in Fates : translation_charge(r, fate)
          \/ \E shaped \in BOOLEAN : translation_attempt(r, shaped)
          \/ \E g \in TranslationGroups, own \in BOOLEAN : translate(r, g, own)
    \/ \E g \in TranslationGroups : purge_transcript_translations(g)
----------------------------------------------------------------------------
(* Where the responses the provider gave are: on the account's meter; awaiting  *)
(* their charge; first responses whose request went on to a second; not this    *)
(* meter's (an account without a limit, an app with its own cap); or lost to    *)
(* it by a missing price table, a database that stays locked, or a request that *)
(* died first.  And requests that passed the gate together overshoot a limit by *)
(* no more than one call each.                                                  *)
TranslationsPaid ==
    /\ answered = tmeter + given_up + spared + dropped
                    + Cardinality({r \in Translators : TranslatorAt(r, "charge")})
    /\ tlimit # Unlimited => tmeter <= tlimit + Cardinality(Translators) - 1
    /\ tlimit = Unlimited => tmeter = 0
=============================================================================

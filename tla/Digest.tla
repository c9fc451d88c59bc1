------------------------------- MODULE Digest -------------------------------
(***************************************************************************)
(* The day cache in front of ContextQuilt's memory digest: a digest of today*)
(* is served from memory, an older one is served while one task fetches a   *)
(* new one, and a first fetch is waited for.  Entries are keyed on the user *)
(* and what was asked, and stamped with the day they were stored.           *)
(***************************************************************************)
EXTENDS Integers, Sequences, FiniteSets

CONSTANTS
    Readers,        \* requests that may overlap
    DigestApps,     \* the apps one person uses
    DigestKeys,     \* what is asked: a project's digest or a meeting's
    ProjectKeys,    \* the keys that name a project, whose digest may come back degraded
    MaxStaleDays,   \* _MAX_STALE_DAYS
    MaxEntries,     \* _MAX_ENTRIES
    MaxDigestDays,  \* bound: days that pass
    MaxReads,       \* bound: digests asked for
    NoEntry

ASSUME DigestAssumption ==
    /\ MaxStaleDays \in Nat /\ MaxEntries \in Nat \ {0} /\ MaxDigestDays \in Nat /\ MaxReads \in Nat
    /\ ProjectKeys \subseteq DigestKeys
    /\ NoEntry \notin [app : DigestApps, body : {"good", "error", "degraded"}, day : Nat]

VARIABLES
    woven,      \* _CACHE: per key, an entry or NoEntry
    order,      \* the keys of _CACHE, by stored_at
    holders,    \* _LOCK_HOLDERS
    reading,    \* requests that wait for a first fetch
    refreshes,  \* background refreshes in flight, by key
    digest_day,      \* the UTC day
    asked_for,  \* digests asked for so far
    handed      \* history: the last digest a request was given, and how old it was

digestVars == <<woven, order, holders, reading, refreshes, digest_day, asked_for, handed>>

Outcomes == {"good", "error", "degraded"}

DigestInit ==
    /\ woven = [k \in DigestKeys |-> NoEntry] /\ order = <<>> /\ holders = {}
    /\ reading = [r \in Readers |-> NoEntry] /\ refreshes = {}
    /\ digest_day = 0 /\ asked_for = 0 /\ handed = NoEntry
----------------------------------------------------------------------------
(* peek drops an entry that is too old.                                         *)
peek(k) == IF woven[k] # NoEntry /\ digest_day - woven[k].day > MaxStaleDays THEN NoEntry ELSE woven[k]

is_fresh(entry) == entry.day = digest_day

(* Faulty variant: an error's body is a body.                                   *)
AnyBody(outcome) == TRUE

(* _json_of raises on an error, woven_home's fetch on a project not looked up.  *)
_json_of(outcome) == outcome = "good"

Cached == {k \in DigestKeys : woven[k] # NoEntry}

(* The keys by age once k is gone: each stands at one place at most.            *)
Place(k) == CHOOSE i \in 1 .. Len(order) : order[i] = k
Without(k) == IF k \notin Cached THEN order
              ELSE SubSeq(order, 1, Place(k) - 1) \o SubSeq(order, Place(k) + 1, Len(order))

(* store: a full cache gives up its oldest entry.                               *)
store(f, body) ==
    LET evicted == IF Cardinality(Cached) >= MaxEntries /\ f.key \notin Cached THEN {Head(order)} ELSE {}
        entry == [app |-> f.app, body |-> body, day |-> digest_day]
    IN /\ woven' = [k \in DigestKeys |-> IF k = f.key THEN entry ELSE IF k \in evicted THEN NoEntry ELSE woven[k]]
       /\ order' = Append(IF evicted # {} THEN Tail(order) ELSE Without(f.key), f.key)

(* A digest's app is the asker's; the key has no app in it.                     *)
Given(entry, app) == [age |-> digest_day - entry.day, cross |-> entry.app # app]

(* get_or_refresh: today's entry at once; an older one at once, and a refresh   *)
(* unless one is under way; otherwise the fetch is waited for.                  *)
get_or_refresh(r, k, app) ==
    /\ reading[r] = NoEntry /\ asked_for < MaxReads /\ asked_for' = asked_for + 1
    /\ LET entry == peek(k)
           fetch == [key |-> k, app |-> app]
       IN /\ woven' = [woven EXCEPT ![k] = entry]
          /\ order' = IF entry = NoEntry THEN Without(k) ELSE order
          /\ IF entry = NoEntry
             THEN /\ reading' = [reading EXCEPT ![r] = fetch]
                  /\ UNCHANGED <<handed, holders, refreshes>>
             ELSE /\ handed' = Given(entry, app) /\ UNCHANGED reading
                  /\ IF is_fresh(entry) \/ k \in holders THEN UNCHANGED <<holders, refreshes>>
                     ELSE holders' = holders \cup {k} /\ refreshes' = refreshes \cup {fetch}
    /\ UNCHANGED digest_day

(* The first fetch: what is good is kept, what is degraded is handed over and   *)
(* not kept, an error is raised.                                                *)
fetch_ends(r, outcome) ==
    /\ reading[r] # NoEntry /\ (outcome = "degraded" => reading[r].key \in ProjectKeys)
    /\ LET f == reading[r] IN
       /\ IF _json_of(outcome)
          THEN /\ store(f, outcome)
               /\ handed' = [age |-> 0, cross |-> FALSE]
          ELSE UNCHANGED <<woven, order, handed>>
    /\ reading' = [reading EXCEPT ![r] = NoEntry]
    /\ UNCHANGED <<holders, refreshes, digest_day, asked_for>>

(* Faulty variant: the lock is given back only by a refresh that worked.        *)
ReleasedOnSuccess(k, outcome) == IF outcome = "good" THEN holders \ {k} ELSE holders

released(k, outcome) == holders \ {k}

_refresh(f, outcome) ==
    /\ f \in refreshes /\ refreshes' = refreshes \ {f}
    /\ outcome = "degraded" => f.key \in ProjectKeys
    /\ IF _json_of(outcome) THEN store(f, outcome)
       ELSE UNCHANGED <<woven, order>>
    /\ holders' = released(f.key, outcome)
    /\ UNCHANGED <<reading, digest_day, asked_for, handed>>

Midnight ==
    /\ digest_day < MaxDigestDays /\ digest_day' = digest_day + 1
    /\ UNCHANGED <<woven, order, holders, reading, refreshes, asked_for, handed>>

(* A restart: the cache and everything in flight are gone.                      *)
DigestRestart ==
    /\ woven' = [k \in DigestKeys |-> NoEntry] /\ order' = <<>>
    /\ holders' = {} /\ refreshes' = {} /\ reading' = [r \in Readers |-> NoEntry]
    /\ UNCHANGED <<digest_day, asked_for, handed>>

DigestNext ==
    \/ \E r \in Readers : \/ \E k \in DigestKeys, app \in DigestApps : get_or_refresh(r, k, app)
                          \/ \E outcome \in Outcomes : fetch_ends(r, outcome)
    \/ \E f \in refreshes, outcome \in Outcomes : _refresh(f, outcome)
    \/ Midnight \/ DigestRestart
----------------------------------------------------------------------------
(* A digest that is kept is a good one, and one that is handed over from the    *)
(* cache is at most MaxStaleDays old by its stamp; the cache stays within its   *)
(* size; and a key is locked exactly while its one refresh is in flight, so     *)
(* that a refresh that fails does not leave the old digest to run out of days.  *)
DigestKept ==
    /\ Cardinality(Cached) <= MaxEntries /\ \A k \in Cached : woven[k].body = "good"
    /\ handed # NoEntry => handed.age <= MaxStaleDays
    /\ holders = {f.key : f \in refreshes}
    /\ \A f, g \in refreshes : f.key = g.key => f = g

(* What cq_subject.py says of every read: one app is not given another's.       *)
DigestApart == handed # NoEntry => ~handed.cross
=============================================================================

------------------------------ MODULE Sessions ------------------------------
(***************************************************************************)
(* Accounts and the sessions on them: Sign in with Apple (with the merge or *)
(* conversion of an anonymous account), anonymous purchase accounts, token  *)
(* refresh, the app claim of an access token, account deletion scoped to    *)
(* one app, and the lifetime spend that a deletion or a retention sweep must *)
(* carry over for an anonymous install.                                     *)
(*                                                                         *)
(* Every handler reads the database, awaits, and writes later on what it    *)
(* read; a read and the write that follows are separate steps here, so two  *)
(* handlers interleave between them.  An access token stays usable until it *)
(* expires: a client may present any token it was given, or none.           *)
(***************************************************************************)
EXTENDS Integers, Sequences, FiniteSets

CONSTANTS
    Apps,        \* X-App-ID values
    Strict,      \* STRICT_APP_CLAIM_APPS; the same apps carry spend (CARRY_APPS)
    AppleIds,    \* Apple subjects
    Installs,    \* install ids of signed-out phones
    MaxIds,      \* bound: accounts ever created
    MaxSessions, \* bound: refresh tokens ever minted
    MaxCalls,    \* bound: metered calls
    Workers,     \* handlers that may overlap
    None

ASSUME SessionsAssumption ==
    /\ Strict \subseteq Apps
    /\ MaxIds \in Nat \ {0} /\ MaxSessions \in Nat \ {0} /\ MaxCalls \in Nat
    /\ AppleIds # {} /\ "unscoped" \notin Apps
    /\ None \notin Apps \cup AppleIds \cup Installs \cup {"unscoped"} \cup Nat

VARIABLES
    users,      \* the users table: id -> row, or None
    nextId,     \* ids are never used again
    sessions,   \* refresh_tokens, in order of creation
    members,    \* user_apps: <<id, app>>
    tokens,     \* access tokens handed out: [id, claim]
    usage,      \* usage_log of the carried apps: recent and expiring spend
    carry,      \* anonymous_spend_carry.lifetime_usd per install and app
    calls,      \* metered calls so far
    work,       \* what each handler has read
    entered,    \* history: <<id, app>> signed in or minted with that app's header
    lane,       \* history: <<id, app>> served on a claimed token
    spent,      \* history: what each anonymous install has really spent
    converted,  \* history: what of that left with an account that was converted
    charged,    \* history: calls charged against the one bought plan
    slip        \* history: the races that really happened

sessionVars == <<users, nextId, sessions, members, tokens, usage, carry, calls, work,
                 entered, lane, spent, converted, charged, slip>>

Ids   == 1 .. MaxIds
AppleSub(x)   == <<"apple", x>>
AnonSub(i, a) == <<"anon", i, a>>
AnonSubs == {AnonSub(i, a) : i \in Installs, a \in Apps}
Subs  == {AppleSub(x) : x \in AppleIds} \cup AnonSubs
Claims == Apps \cup {"unscoped", None}
Row   == [sub : Subs, active : BOOLEAN, paid : BOOLEAN, used : Nat]
Idle  == [pc |-> "idle", id |-> None, header |-> None, claim |-> None, session |-> None,
          anon |-> None, anonRow |-> None, row |-> None, sub |-> None, sum |-> None]

ASSUME RowsAreNotNone == None \notin Row \cup Subs

IdOf(sub) == LET S == {u \in Ids : users[u] # None /\ users[u].sub = sub}
             IN  IF S = {} THEN None ELSE CHOOSE u \in S : TRUE
IsAnonymous(row) == row.sub \in AnonSubs
Spend(u, a) == usage[u][a].recent + usage[u][a].old
----------------------------------------------------------------------------
(* app/services/app_claim.py                                                *)

mint_claim(app) == IF app = None THEN "unscoped" ELSE app

refuse_reason(claim, app) ==
    /\ app # None /\ claim # None /\ claim # app
    /\ claim \in Strict \/ app \in Strict

(* Faulty variant: the account's membership is not asked for.               *)
RefreshAnyMember(stored, header, member) ==
    IF stored # None /\ header # None /\ stored # header
            /\ (stored \in Strict \/ header \in Strict)
    THEN [session |-> stored, claim |-> stored]
    ELSE LET s == IF header # None THEN header ELSE stored
         IN  [session |-> s, claim |-> mint_claim(s)]

(* The app of the rotated session and of its token: the stored session wins  *)
(* where a strict app is involved.                                           *)
refresh_scope(stored, header, member) ==
    CASE stored # None /\ header # None /\ stored # header
             /\ (stored \in Strict \/ header \in Strict)
           -> [session |-> stored, claim |-> stored]
      [] stored = None /\ header \in Strict /\ ~member
           -> [session |-> None, claim |-> "unscoped"]
      [] OTHER -> LET s == IF header # None THEN header ELSE stored
                  IN  [session |-> s, claim |-> mint_claim(s)]

(* dependencies.get_current_user: who may call which app.                    *)
get_current_user(t, app) ==
    /\ users[t.id] # None
    /\ users[t.id].active
    /\ ~refuse_reason(t.claim, app)

(* auth._anonymous_from_token: the account a sign-in brings along.           *)
anonymous_from_token(t) ==
    IF t # None /\ users[t.id] # None /\ IsAnonymous(users[t.id]) /\ users[t.id].active
    THEN t.id ELSE None
----------------------------------------------------------------------------
(* A handler starts only while there is room for the session it may mint.    *)
Room == Len(sessions) + Cardinality({w \in Workers : work[w].pc # "idle"}) < MaxSessions

Begin(w, r) == work[w].pc = "idle" /\ work' = [work EXCEPT ![w] = r]
Start(w, r) == Room /\ Begin(w, r)
Finish(w)   == work' = [work EXCEPT ![w] = Idle]
ToMint(w, id) == work' = [work EXCEPT ![w] = [Idle EXCEPT !.pc = "mint", !.id = id,
                             !.header = work[w].header, !.claim = work[w].claim]]

(* auth._build_auth_response: the tail of every handler that signs in.       *)
build_auth_response(w) ==
    LET r == work[w]
        family == IF r.session = None THEN Len(sessions) + 1 ELSE sessions[r.session].family
    IN  /\ r.pc = "mint"
        /\ sessions' = Append(sessions, [user |-> r.id, app |-> r.header, live |-> TRUE,
                                         gone |-> FALSE, family |-> family])
        /\ tokens' = tokens \cup {[id |-> r.id, claim |-> r.claim]}
        /\ members' = IF r.header = None THEN members ELSE members \cup {<<r.id, r.header>>}
        /\ entered' = IF r.session = None /\ r.header # None
                      THEN entered \cup {<<r.id, r.header>>} ELSE entered
        /\ Finish(w)
        /\ UNCHANGED <<users, nextId, usage, carry, calls, lane, spent, converted, charged, slip>>

(* auth.apple_auth, up to its reads: the anonymous account of the token, if  *)
(* one came along, then the row of this Apple subject.                       *)
apple_auth(w, x, h, t) ==
    LET anon == anonymous_from_token(t)
        id   == IdOf(AppleSub(x))
    IN  /\ Start(w, [Idle EXCEPT !.pc = "signin", !.sub = AppleSub(x), !.header = h,
                !.claim = mint_claim(h), !.id = id, !.row = IF id = None THEN None ELSE users[id],
                !.anon = anon, !.anonRow = IF anon = None THEN None ELSE users[anon]])
        /\ UNCHANGED <<users, nextId, sessions, members, tokens, usage, carry, calls,
                       entered, lane, spent, converted, charged, slip>>

SignInKnown(w) ==
    /\ work[w].pc = "signin" /\ work[w].id # None /\ work[w].anon = None
    /\ ToMint(w, work[w].id)
    /\ UNCHANGED <<users, nextId, sessions, members, tokens, usage, carry, calls,
                   entered, lane, spent, converted, charged, slip>>

(* A new person.  A sign-in of the same subject that got there first leaves  *)
(* the insert with an IntegrityError nobody catches.                         *)
SignInNew(w) ==
    /\ work[w].pc = "signin" /\ work[w].id = None /\ work[w].anon = None
    /\ IF IdOf(work[w].sub) = None
       THEN /\ nextId <= MaxIds
            /\ users' = [users EXCEPT ![nextId] = [sub |-> work[w].sub, active |-> TRUE,
                                                   paid |-> FALSE, used |-> 0]]
            /\ nextId' = nextId + 1
            /\ ToMint(w, nextId)
       ELSE Finish(w) /\ UNCHANGED <<users, nextId>>
    /\ UNCHANGED <<sessions, members, tokens, usage, carry, calls, entered, lane, spent,
                   converted, charged, slip>>

Stale(w) == \/ users[work[w].anon] # work[w].anonRow
            \/ work[w].id # None /\ users[work[w].id] # work[w].row

(* The anonymous account becomes the Apple account, in place.                *)
SignInConvert(w) ==
    LET u == work[w].anon
    IN  /\ work[w].pc = "signin" /\ work[w].id = None /\ u # None
        /\ slip' = [slip EXCEPT !.rival = @ \/ Stale(w)]
        /\ IF IdOf(work[w].sub) \in {None, u}
           THEN /\ IF users[u] = None THEN UNCHANGED <<users, converted>>
                   ELSE /\ users' = [users EXCEPT ![u].sub = work[w].sub]
                        /\ converted' = [s \in AnonSubs |->
                             IF s = users[u].sub /\ s[3] \in Strict
                             THEN converted[s] + Spend(u, s[3]) ELSE converted[s]]
                /\ ToMint(w, u)
           ELSE Finish(w) /\ UNCHANGED <<users, converted>>
        /\ UNCHANGED <<nextId, sessions, members, tokens, usage, carry, calls, entered, lane,
                       spent, charged>>

(* Faulty variant: the plan moves and its meter does not.                    *)
MergedWithoutMeter(w, moved) ==
    LET u == work[w].anon
        v == work[w].id
        closed == IF users[u] = None THEN None
                  ELSE [users[u] EXCEPT !.active = FALSE, !.paid = IF moved THEN FALSE ELSE @]
        taken == IF users[v] # None /\ moved THEN [users[v] EXCEPT !.paid = TRUE] ELSE users[v]
    IN  [users EXCEPT ![u] = closed, ![v] = taken]

(* The users rows after merge_into: the plan columns of the row READ EARLIER  *)
(* go over the Apple account's, and the anonymous account closes.            *)
merged_users(w, moved) ==
    LET u == work[w].anon
        v == work[w].id
        closed == IF users[u] = None THEN None
                  ELSE [users[u] EXCEPT !.active = FALSE, !.paid = IF moved THEN FALSE ELSE @]
        taken == IF users[v] # None /\ moved
                 THEN [users[v] EXCEPT !.paid = TRUE, !.used = work[w].anonRow.used]
                 ELSE users[v]
    IN  [users EXCEPT ![u] = closed, ![v] = taken]

(* anonymous_merge.merge_into: one transaction on two rows read earlier.     *)
(* When the Apple account is gone by now the answer is an error after the    *)
(* merge has committed.                                                      *)
merge_into(w) ==
    LET u == work[w].anon
        moved == work[w].anonRow.paid /\ ~work[w].row.paid
    IN  /\ work[w].pc = "signin" /\ work[w].id # None /\ u # None
        /\ slip' = [slip EXCEPT !.rival = @ \/ Stale(w)]
        /\ users' = merged_users(w, moved)
        /\ sessions' = [s \in DOMAIN sessions |->
             IF sessions[s].user = u THEN [sessions[s] EXCEPT !.live = FALSE] ELSE sessions[s]]
        /\ IF users[work[w].id] = None THEN Finish(w) ELSE ToMint(w, work[w].id)
        /\ UNCHANGED <<nextId, members, tokens, usage, carry, calls, entered, lane, spent,
                       converted, charged>>
----------------------------------------------------------------------------
(* auth.anonymous_auth: look the install's account up.                       *)
anonymous_auth(w, i, a) ==
    LET id == IdOf(AnonSub(i, a))
    IN  /\ id # None => users[id].active          \* a closed one answers 410
        /\ Start(w, [Idle EXCEPT !.pc = IF id = None THEN "insert" ELSE "mint", !.id = id,
                            !.sub = AnonSub(i, a), !.header = a, !.claim = a])
        /\ UNCHANGED <<users, nextId, sessions, members, tokens, usage, carry, calls,
                       entered, lane, spent, converted, charged, slip>>

(* The insert, or the row of the concurrent first call that won it.          *)
AnonymousInsert(w) ==
    LET id == IdOf(work[w].sub)
    IN  /\ work[w].pc = "insert"
        /\ IF id = None
           THEN /\ nextId <= MaxIds
                /\ users' = [users EXCEPT ![nextId] = [sub |-> work[w].sub, active |-> TRUE,
                                                       paid |-> FALSE, used |-> 0]]
                /\ nextId' = nextId + 1
                /\ ToMint(w, nextId)
           ELSE /\ IF users[id].active THEN ToMint(w, id) ELSE Finish(w)
                /\ UNCHANGED <<users, nextId>>
        /\ UNCHANGED <<sessions, members, tokens, usage, carry, calls, entered, lane, spent,
                       converted, charged, slip>>

(* auth.refresh_token: the session and its account, joined.                  *)
refresh_token(w, s, h) ==
    /\ sessions[s].live /\ ~sessions[s].gone
    /\ users[sessions[s].user] # None /\ users[sessions[s].user].active
    /\ Start(w, [Idle EXCEPT !.pc = "revoke", !.session = s, !.id = sessions[s].user,
                             !.header = h])
    /\ UNCHANGED <<users, nextId, sessions, members, tokens, usage, carry, calls,
                   entered, lane, spent, converted, charged, slip>>

(* Faulty variant: the old refresh token stays good.                         *)
RefreshKeep(w) ==
    LET r == work[w]
        scope == refresh_scope(sessions[r.session].app, r.header, <<r.id, r.header>> \in members)
    IN  /\ r.pc = "revoke"
        /\ work' = [work EXCEPT ![w].pc = "mint", ![w].header = scope.session,
                                ![w].claim = scope.claim]
        /\ UNCHANGED <<users, nextId, sessions, members, tokens, usage, carry, calls, entered,
                       lane, spent, converted, charged, slip>>

(* Revoke the presented token, whoever revoked it first, then read the       *)
(* membership that decides the scope.                                        *)
RefreshRevoke(w) ==
    LET r == work[w]
        scope == refresh_scope(sessions[r.session].app, r.header, <<r.id, r.header>> \in members)
    IN  /\ r.pc = "revoke"
        /\ sessions' = [sessions EXCEPT ![r.session].live = FALSE]
        /\ slip' = [slip EXCEPT !.raced = IF sessions[r.session].live THEN @
                                          ELSE @ \cup {sessions[r.session].family}]
        /\ work' = [work EXCEPT ![w].pc = "mint", ![w].header = scope.session,
                                ![w].claim = scope.claim]
        /\ UNCHANGED <<users, nextId, members, tokens, usage, carry, calls, entered, lane,
                       spent, converted, charged>>
----------------------------------------------------------------------------
(* A metered call: admitted on what the token says now, logged when the      *)
(* provider has answered, whatever happened to the account meanwhile.        *)
CallStart(w, t, h) ==
    /\ get_current_user(t, h)
    /\ calls + Cardinality({v \in Workers : work[v].pc = "call"}) < MaxCalls
    /\ Begin(w, [Idle EXCEPT !.pc = "call", !.id = t.id, !.header = h, !.claim = t.claim,
                             !.row = users[t.id]])
    /\ UNCHANGED <<users, nextId, sessions, members, tokens, usage, carry, calls,
                   entered, lane, spent, converted, charged, slip>>

CallEnd(w) ==
    LET r == work[w]
        counted == r.header \in Strict
        sub == r.row.sub
        ours == counted /\ IsAnonymous(r.row) /\ sub[3] = r.header
    IN  /\ r.pc = "call"
        /\ calls' = calls + 1
        /\ users' = IF users[r.id] = None THEN users ELSE [users EXCEPT ![r.id].used = @ + 1]
        /\ usage' = IF counted THEN [usage EXCEPT ![r.id][r.header].recent = @ + 1] ELSE usage
        /\ spent' = IF ours THEN [spent EXCEPT ![sub] = @ + 1] ELSE spent
        /\ charged' = IF r.row.paid THEN charged + 1 ELSE charged
        /\ lane' = IF r.claim = None \/ r.header = None THEN lane
                   ELSE lane \cup {<<r.id, r.header>>}
        /\ slip' = [slip EXCEPT
             !.leak  = @ \/ (ours /\ (users[r.id] = None \/ users[r.id].sub # sub)),
             !.rival = @ \/ users[r.id] = None \/ users[r.id].paid # r.row.paid]
        /\ Finish(w)
        /\ UNCHANGED <<nextId, sessions, members, tokens, carry, converted, entered>>

(* A verified purchase binds the one plan of the model to an account.        *)
Buy(t) ==
    /\ get_current_user(t, None)
    /\ ~slip.bought
    /\ users' = [users EXCEPT ![t.id].paid = TRUE, ![t.id].used = 0]
    /\ charged' = 0
    /\ slip' = [slip EXCEPT !.bought = TRUE,
          !.rival = @ \/ \E w \in Workers : work[w].pc = "call" /\ work[w].id = t.id]
    /\ UNCHANGED <<nextId, sessions, members, tokens, usage, carry, calls, work,
                   entered, lane, spent, converted>>
----------------------------------------------------------------------------
(* anonymous_budget.carry_spend_before_delete: what it sums before the first  *)
(* write opens the transaction.                                              *)
carry_spend_before_delete(u, h) ==
    [a \in Strict |-> IF IsAnonymous(users[u]) /\ h \in {None, a} THEN Spend(u, a) ELSE 0]

(* account.delete_account on a valid token whose account still exists.       *)
delete_account(w, t, h) ==
    /\ users[t.id] # None
    /\ Begin(w, [Idle EXCEPT !.pc = "purge", !.id = t.id, !.header = h, !.sub = users[t.id].sub,
                             !.sum = carry_spend_before_delete(t.id, h)])
    /\ UNCHANGED <<users, nextId, sessions, members, tokens, usage, carry, calls,
                   entered, lane, spent, converted, charged, slip>>

Adds(sub, sum) == [s \in AnonSubs |-> [a \in Strict |->
                     carry[s][a] + IF s = sub THEN sum[a] ELSE 0]]

(* Faulty variant: a second deletion overwrites what the first one carried.  *)
AddsLast(sub, sum) == [s \in AnonSubs |-> [a \in Strict |->
                        IF s = sub /\ sum[a] > 0 THEN sum[a] ELSE carry[s][a]]]

(* ON CONFLICT DO UPDATE SET lifetime_usd = lifetime_usd + excluded          *)
carry_upsert(sub, sum) == Adds(sub, sum)

(* account_deletion.delete_user_data: one transaction.  A scoped delete      *)
(* leaves unattributed sessions alone, and the account itself goes with its   *)
(* last app.                                                                 *)
delete_user_data(w) ==
    LET r == work[w]
        u == r.id
        left == IF r.header = None THEN {} ELSE {m \in members : m[1] = u /\ m[2] # r.header}
        removed == r.header = None \/ left = {}
        cleared == {a \in Strict : r.header \in {None, a}}
    IN  /\ r.pc = "purge"
        /\ carry' = carry_upsert(r.sub, r.sum)
        /\ usage' = [usage EXCEPT ![u] = [a \in Strict |->
                       IF a \in cleared THEN [recent |-> 0, old |-> 0] ELSE usage[u][a]]]
        /\ sessions' = [s \in DOMAIN sessions |->
             IF sessions[s].user = u /\ (r.header = None \/ sessions[s].app = r.header)
             THEN [sessions[s] EXCEPT !.gone = TRUE] ELSE sessions[s]]
        /\ members' = {m \in members : m[1] # u} \cup left
        /\ users' = IF removed THEN [users EXCEPT ![u] = None] ELSE users
        /\ slip' = [slip EXCEPT !.leak = @ \/ (r.sub \in AnonSubs /\
              \/ users[u] = None
              \/ users[u] # None /\ users[u].sub # r.sub
              \/ \E a \in cleared : Spend(u, a) # r.sum[a]
              \/ removed /\ \E a \in Strict \ cleared : Spend(u, a) # 0)]
        /\ Finish(w)
        /\ UNCHANGED <<nextId, tokens, calls, entered, lane, spent, converted, charged>>

(* Time: this account's rows pass the 90 day window.                         *)
Age(u, a) ==
    /\ usage[u][a].recent > 0
    /\ usage' = [usage EXCEPT ![u][a] = [recent |-> 0, old |-> @.recent + @.old]]
    /\ UNCHANGED <<users, nextId, sessions, members, tokens, carry, calls, work,
                   entered, lane, spent, converted, charged, slip>>

(* The subject of the account a pair belongs to, if there still is one.        *)
owner(u) == IF users[u] = None THEN None ELSE users[u].sub

(* retention.expire_old_usage_rows, one (user, app) pair: the sum and the    *)
(* owner are read, then the carry and the delete commit together.            *)
SweepRead(w, u, a) ==
    /\ \A v \in Workers : work[v].pc # "sweep"
    /\ usage[u][a].old > 0
    /\ Begin(w, [Idle EXCEPT !.pc = "sweep", !.id = u, !.header = a,
         !.sub = owner(u),
         !.sum = [b \in Strict |-> IF b = a THEN usage[u][a].old ELSE 0]])
    /\ UNCHANGED <<users, nextId, sessions, members, tokens, usage, carry, calls,
                   entered, lane, spent, converted, charged, slip>>

expire_old_usage_rows(w) ==
    LET r == work[w]
        u == r.id
        a == r.header
    IN  /\ r.pc = "sweep"
        /\ carry' = IF r.sub \in AnonSubs THEN carry_upsert(r.sub, r.sum) ELSE carry
        /\ usage' = [usage EXCEPT ![u][a].old = 0]
        /\ slip' = [slip EXCEPT !.leak = @ \/ usage[u][a].old # r.sum[a] \/ owner(u) # r.sub]
        /\ Finish(w)
        /\ UNCHANGED <<users, nextId, sessions, members, tokens, calls, entered, lane, spent,
                       converted, charged>>
----------------------------------------------------------------------------
(* A first deployment, or one that finds a session from before sessions and  *)
(* tokens named their app.                                                   *)
Legacy == [sub |-> AppleSub(CHOOSE x \in AppleIds : TRUE), active |-> TRUE, paid |-> FALSE,
           used |-> 0]
NoUsage == [u \in Ids |-> [a \in Strict |-> [recent |-> 0, old |-> 0]]]

SessionsInit ==
    /\ \E legacy \in BOOLEAN :
         IF legacy
         THEN /\ users = [u \in Ids |-> IF u = 1 THEN Legacy ELSE None]
              /\ nextId = 2
              /\ sessions = <<[user |-> 1, app |-> None, live |-> TRUE, gone |-> FALSE,
                               family |-> 1]>>
              /\ tokens = {[id |-> 1, claim |-> None]}
         ELSE users = [u \in Ids |-> None] /\ nextId = 1 /\ sessions = << >> /\ tokens = {}
    /\ members = {} /\ usage = NoUsage /\ calls = 0
    /\ carry = [s \in AnonSubs |-> [a \in Strict |-> 0]]
    /\ work = [w \in Workers |-> Idle]
    /\ entered = {} /\ lane = {} /\ charged = 0
    /\ spent = [s \in AnonSubs |-> 0] /\ converted = [s \in AnonSubs |-> 0]
    /\ slip = [raced |-> {}, rival |-> FALSE, leak |-> FALSE, bought |-> FALSE]

SignIn(w) ==
    \/ \E x \in AppleIds, h \in Apps \cup {None}, t \in tokens \cup {None} :
          apple_auth(w, x, h, t)
    \/ SignInKnown(w)
    \/ SignInNew(w)
    \/ SignInConvert(w)
    \/ merge_into(w)
    \/ build_auth_response(w)

Anonymous(w) ==
    \/ \E i \in Installs, a \in Apps : anonymous_auth(w, i, a)
    \/ AnonymousInsert(w)
    \/ build_auth_response(w)

Refresh(w) ==
    \/ \E s \in DOMAIN sessions, h \in Apps \cup {None} : refresh_token(w, s, h)
    \/ RefreshRevoke(w)
    \/ build_auth_response(w)

Call(w) ==
    \/ \E t \in tokens, h \in Apps \cup {None} : CallStart(w, t, h)
    \/ CallEnd(w)

Deletion(w) ==
    \/ \E t \in tokens, h \in Apps \cup {None} : delete_account(w, t, h)
    \/ delete_user_data(w)

Retention(w) ==
    \/ \E u \in Ids, a \in Strict : Age(u, a)
    \/ \E u \in Ids, a \in Strict : SweepRead(w, u, a)
    \/ expire_old_usage_rows(w)

SessionsNext ==
    \/ \E w \in Workers : SignIn(w) \/ Anonymous(w) \/ Refresh(w) \/ Call(w)
                          \/ Deletion(w) \/ Retention(w)
    \/ \E t \in tokens : Buy(t)

SessionsSpec == SessionsInit /\ [][SessionsNext]_sessionVars
----------------------------------------------------------------------------
SessionsTypeOK ==
    /\ users \in [Ids -> Row \cup {None}]
    /\ nextId \in 1 .. MaxIds + 1
    /\ \A s \in DOMAIN sessions : sessions[s].user \in Ids /\ sessions[s].family \in 1 .. s
    /\ members \subseteq Ids \X Apps
    /\ tokens \subseteq [id : Ids, claim : Claims]
    /\ carry \in [AnonSubs -> [Strict -> Nat]]
    /\ calls \in Nat

(* An account is served on a strict app's lane, on a token that carries a    *)
(* claim, only if it once signed in or was minted under that app: no chain   *)
(* of refreshes, headers, deletions and merges turns another app's session   *)
(* into an N-400 one (app_claim: "so the next refresh cannot launder it").   *)
StrictLaneEntered == \A m \in lane : m[2] \in Strict => m \in entered

(* Refresh tokens rotate: of all the sessions that descend from one sign-in  *)
(* at most one is live, unless the same refresh token was presented twice at *)
(* once.  refresh_token reads the row before it revokes it.                  *)
OneLivePerSignIn ==
    \A f \in DOMAIN sessions :
       Cardinality({s \in DOMAIN sessions : sessions[s].family = f /\ sessions[s].live}) > 1
          => f \in slip.raced

(* The plan an anonymous buyer paid for is on at most one open account, with *)
(* everything it was charged still on its meter, unless a call or another    *)
(* sign-in moved under the rows merge_into had already read.                 *)
PlanMovesWithMeter ==
    ~slip.rival =>
       LET holders == {u \in Ids : users[u] # None /\ users[u].paid}
       IN  /\ Cardinality(holders) <= 1
           /\ \A u \in holders : users[u].active /\ users[u].used = charged

(* What an install spent in an app with an anonymous allowance stays counted *)
(* against it through deletions, new accounts and the retention sweep, once  *)
(* and once only, unless a call was logged or rows were purged between the   *)
(* sum and the transaction that carries it.  One thing does take spend off   *)
(* the install: a conversion, which carries nothing over (auth.apple_auth);  *)
(* what it takes is exactly what the account that left had live.             *)
SpendSurvivesDelete ==
    ~slip.leak => \A s \in AnonSubs : s[3] \in Strict =>
       LET u == IdOf(s)
       IN  carry[s][s[3]] + (IF u = None THEN 0 ELSE Spend(u, s[3])) + converted[s] = spent[s]

(* The promise of anonymous_budget, "what ONE install may ever spend in this *)
(* app. Lifetime": what the gate reads is all the install ever spent.  A     *)
(* conversion breaks it, so no run checks it.                                *)
LifetimeSpendKept ==
    ~slip.leak => \A s \in AnonSubs : s[3] \in Strict =>
       LET u == IdOf(s)
       IN  carry[s][s[3]] + (IF u = None THEN 0 ELSE Spend(u, s[3])) = spent[s]

(* A session speaks for the lane it was opened on, and there is one of it.    *)
SignInHolds == SessionsTypeOK /\ StrictLaneEntered /\ OneLivePerSignIn

(* Money follows its owner through merges, deletions and retention.          *)
MoneyMoves == PlanMovesWithMeter /\ SpendSurvivesDelete
=============================================================================

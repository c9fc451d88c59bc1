--------------------------- MODULE AccountsProofs ---------------------------
(***************************************************************************)
(* Proofs about Sessions: for any number of overlapping handlers, accounts, *)
(* apps and refreshes, nobody reaches a strict app's lane without having    *)
(* signed in there, a sign-in has one live refresh token, and plans, meters *)
(* and carried spend follow their owner.                                    *)
(*                                                                         *)
(* And about Outreach: for any number of people, phones, codes, mails,      *)
(* campaigns and overlapping resolves, letters, codes and campaigns reach   *)
(* whom they are owed to, a push goes to the phone's owner, and what Apple  *)
(* answered is kept.                                                        *)
(***************************************************************************)
EXTENDS Sessions, Outreach, FiniteSetTheorems, TLAPS

(* What a handler has read.                                                  *)
Reads ==
    [pc : {"idle", "signin", "insert", "mint", "revoke", "call", "purge", "sweep"},
     id : Ids \cup {None}, header : Apps \cup {None}, claim : Claims, session : Nat \cup {None},
     anon : Ids \cup {None}, anonRow : Row \cup {None}, row : Row \cup {None},
     sub : Subs \cup {None}, sum : [Strict -> Nat] \cup {None}]

Tokens == [user : Ids, app : Apps \cup {None}, live : BOOLEAN, gone : BOOLEAN, family : Nat]

(* What is at hand at each stage.                                            *)
ReadHolds(r, table) ==
    /\ r \in Reads
    /\ r.pc \in {"mint", "revoke", "call", "purge", "sweep"} => r.id \in Ids
    /\ (r.pc = "signin" /\ r.id # None) => r.row \in Row
    /\ (r.pc = "signin" /\ r.anon # None) => r.anonRow \in Row
    /\ r.pc \in {"signin", "insert"} => r.sub \in Subs
    /\ r.pc = "revoke" => r.session \in DOMAIN table
    /\ (r.pc = "mint" /\ r.session # None) => r.session \in DOMAIN table
    /\ r.pc = "call" => r.row \in Row
    /\ r.pc \in {"purge", "sweep"} => r.sum \in [Strict -> Nat]
    /\ r.pc = "sweep" => r.header \in Strict

TablesFit ==
    /\ users \in [Ids -> Row \cup {None}] /\ nextId \in 1 .. MaxIds + 1
    /\ sessions \in Seq(Tokens) /\ \A s \in DOMAIN sessions : sessions[s].family \in 1 .. s
    /\ members \subseteq Ids \X Apps /\ tokens \subseteq [id : Ids, claim : Claims]
    /\ usage \in [Ids -> [Strict -> [recent : Nat, old : Nat]]]
    /\ carry \in [AnonSubs -> [Strict -> Nat]] /\ calls \in Nat
    /\ DOMAIN slip = {"raced", "rival", "leak", "bought"}

HandsFit == work \in [Workers -> Reads] /\ \A w \in Workers : ReadHolds(work[w], sessions)

(* An account is looked up by its subject.                                    *)
LEMMA IdOfFound ==
    ASSUME TablesFit, NEW sub
    PROVE  IdOf(sub) = None \/ (IdOf(sub) \in Ids /\ users[IdOf(sub)] \in Row)
  <1> DEFINE S == {u \in Ids : users[u] # None /\ users[u].sub = sub}
  <1>1. CASE S = {}
    BY <1>1 DEF IdOf
  <1>2. CASE S # {}
    <2>1. IdOf(sub) \in S
      BY <1>2 DEF IdOf
    <2> QED BY <2>1 DEF TablesFit
  <1> QED BY <1>1, <1>2

(* One handler moves and the refresh tokens stay, or are cut off.              *)
LEMMA OneHandMoves ==
    ASSUME HandsFit, NEW w \in Workers, NEW r, ReadHolds(r, sessions), work' = [work EXCEPT ![w] = r],
           DOMAIN sessions' = DOMAIN sessions
    PROVE  HandsFit'
  <1>1. \A v \in Workers : work'[v] = IF v = w THEN r ELSE work[v]
    BY DEF HandsFit
  <1>2. work' \in [Workers -> Reads]
    BY DEF HandsFit, ReadHolds
  <1>3. \A v \in Workers : ReadHolds(work'[v], sessions')
    BY <1>1 DEF HandsFit, ReadHolds
  <1> QED BY <1>2, <1>3 DEF HandsFit

(* A handler at rest has nothing at hand.                                      *)
LEMMA IdleHolds == ASSUME NEW table PROVE ReadHolds(Idle, table)
  BY SessionsAssumption DEF ReadHolds, Idle, Reads, Claims

(* A handler about to mint has the account, the header and the claim at hand.  *)
LEMMA ToMintHolds ==
    ASSUME NEW table, HandsFit, NEW w \in Workers, NEW id \in Ids
    PROVE  ReadHolds([Idle EXCEPT !.pc = "mint", !.id = id, !.header = work[w].header, !.claim = work[w].claim], table)
  <1>1. work[w] \in Reads
    BY DEF HandsFit
  <1>2. work[w].header \in Apps \cup {None} /\ work[w].claim \in Claims
    BY <1>1 DEF Reads
  <1> QED BY <1>2, SessionsAssumption DEF ReadHolds, Idle, Reads

(* The sign-in with Apple: what it reads, and what it writes.                  *)
LEMMA AppleReads ==
    ASSUME TablesFit, HandsFit, NEW w \in Workers, NEW x \in AppleIds, NEW h \in Apps \cup {None},
           NEW t \in tokens \cup {None}, apple_auth(w, x, h, t)
    PROVE  \E r : ReadHolds(r, sessions) /\ work' = [work EXCEPT ![w] = r]
                  /\ r.pc = "signin" /\ r.claim = mint_claim(r.header)
  <1>1. IdOf(AppleSub(x)) = None \/ (IdOf(AppleSub(x)) \in Ids /\ users[IdOf(AppleSub(x))] \in Row)
    BY IdOfFound
  <1>2. anonymous_from_token(t) = None \/ (anonymous_from_token(t) \in Ids /\ users[anonymous_from_token(t)] \in Row)
    BY DEF TablesFit, anonymous_from_token
  <1>3. PICK id : id = IdOf(AppleSub(x))
    OBVIOUS
  <1>4. PICK anon : anon = anonymous_from_token(t)
    OBVIOUS
  <1>5. PICK row : row = IF id = None THEN None ELSE users[id]
    OBVIOUS
  <1>6. PICK anonRow : anonRow = IF anon = None THEN None ELSE users[anon]
    OBVIOUS
  <1>7. id \in Ids \cup {None} /\ row \in Row \cup {None} /\ (id # None => row \in Row)
    BY <1>1, <1>3, <1>5
  <1>8. anon \in Ids \cup {None} /\ anonRow \in Row \cup {None} /\ (anon # None => anonRow \in Row)
    BY <1>2, <1>4, <1>6
  <1>9. AppleSub(x) \in Subs /\ mint_claim(h) \in Claims
    BY DEF Subs, mint_claim, Claims
  <1>10. PICK sub : sub = AppleSub(x)
    OBVIOUS
  <1>11. PICK claim : claim = mint_claim(h)
    OBVIOUS
  <1> DEFINE r == [Idle EXCEPT !.pc = "signin", !.sub = sub, !.header = h, !.claim = claim, !.id = id, !.row = row,
                               !.anon = anon, !.anonRow = anonRow]
  <1>12. work' = [work EXCEPT ![w] = r]
    BY <1>3, <1>4, <1>5, <1>6, <1>10, <1>11 DEF apple_auth, Start, Begin
  <1>13. ReadHolds(r, sessions) /\ r.pc = "signin" /\ r.claim = claim /\ r.header = h
    BY <1>7, <1>8, <1>9, <1>10, <1>11 DEF ReadHolds, Idle, Reads
  <1> QED BY <1>11, <1>12, <1>13

(* Nothing the handlers write takes a column out of its type.                  *)
LEMMA AccountsStep ==
    ASSUME TablesFit, HandsFit, NEW w \in Workers,
           SignInKnown(w) \/ SignInNew(w) \/ SignInConvert(w) \/ AnonymousInsert(w)
    PROVE  /\ TablesFit' /\ UNCHANGED <<sessions, members, tokens, entered, lane>> /\ slip.raced' = slip.raced
           /\ \E r : ReadHolds(r, sessions) /\ work' = [work EXCEPT ![w] = r]
                     /\ (r.pc = "idle" \/ (r.pc = "mint" /\ r.session = None
                                          /\ r.claim = work[w].claim /\ r.header = work[w].header))
                     /\ work[w].pc \in {"signin", "insert"}
  <1>0. work[w] \in Reads /\ ReadHolds(work[w], sessions)
    BY DEF HandsFit
  <1>i. ReadHolds(Idle, sessions) /\ Idle.pc = "idle"
    BY IdleHolds DEF Idle
  <1> DEFINE m(id) == [Idle EXCEPT !.pc = "mint", !.id = id, !.header = work[w].header, !.claim = work[w].claim]
  <1>m. ASSUME NEW id \in Ids
        PROVE  /\ ReadHolds(m(id), sessions) /\ m(id).pc = "mint" /\ m(id).session = None
               /\ m(id).claim = work[w].claim /\ m(id).header = work[w].header
    <2>1. ReadHolds(m(id), sessions)
      BY ToMintHolds
    <2> QED BY <2>1 DEF Idle
  <1>n. ASSUME NEW sub \in Subs PROVE [sub |-> sub, active |-> TRUE, paid |-> FALSE, used |-> 0] \in Row
    <2>1. PICK t \in BOOLEAN : t = TRUE
      OBVIOUS
    <2>2. PICK f \in BOOLEAN : f = FALSE
      OBVIOUS
    <2>3. [sub |-> sub, active |-> t, paid |-> f, used |-> 0] \in Row
      BY DEF Row
    <2> QED BY <2>1, <2>2, <2>3
  <1>1. CASE SignInKnown(w)
    <2>1. work[w].id \in Ids
      BY <1>0, <1>1 DEF SignInKnown, Reads
    <2>2. work' = [work EXCEPT ![w] = m(work[w].id)]
      BY <1>1 DEF SignInKnown, ToMint
    <2> QED BY <1>1, <1>m, <2>1, <2>2 DEF SignInKnown, TablesFit
  <1>2. CASE SignInNew(w) \/ AnonymousInsert(w)
    <2>0. work[w].sub \in Subs /\ work[w].pc \in {"signin", "insert"}
      BY <1>0, <1>2 DEF SignInNew, AnonymousInsert, ReadHolds
    <2>1. CASE users' = users /\ nextId' = nextId
      <3>1. work' = [work EXCEPT ![w] = Idle] \/ \E id \in Ids : work' = [work EXCEPT ![w] = m(id)]
        <4>1. nextId + 1 # nextId
          BY DEF TablesFit
        <4>2. CASE SignInNew(w)
          BY <2>1, <4>1, <4>2 DEF SignInNew, Finish
        <4>3. CASE AnonymousInsert(w)
          <5>1. IdOf(work[w].sub) # None /\ IdOf(work[w].sub) \in Ids
            BY <2>1, <4>1, <4>3, IdOfFound DEF AnonymousInsert
          <5> QED BY <2>1, <4>3, <5>1 DEF AnonymousInsert, Finish, ToMint
        <4> QED BY <1>2, <4>2, <4>3
      <3>2. TablesFit' /\ UNCHANGED <<sessions, members, tokens, entered, lane>> /\ slip.raced' = slip.raced
        BY <1>2, <2>1 DEF SignInNew, AnonymousInsert, TablesFit
      <3> QED BY <1>i, <1>m, <2>0, <3>1, <3>2
    <2>2. CASE ~(users' = users /\ nextId' = nextId)
      <3>1. /\ nextId \in Ids /\ nextId' = nextId + 1
            /\ users' = [users EXCEPT ![nextId] = [sub |-> work[w].sub, active |-> TRUE, paid |-> FALSE, used |-> 0]]
            /\ work' = [work EXCEPT ![w] = m(nextId)]
        BY <1>2, <2>2, SessionsAssumption DEF SignInNew, AnonymousInsert, ToMint, TablesFit, Ids
      <3>2. users' \in [Ids -> Row \cup {None}] /\ nextId' \in 1 .. MaxIds + 1
        BY <1>n, <2>0, <3>1, SessionsAssumption DEF TablesFit, Ids
      <3>3. TablesFit' /\ UNCHANGED <<sessions, members, tokens, entered, lane>> /\ slip.raced' = slip.raced
        BY <1>2, <3>2 DEF SignInNew, AnonymousInsert, TablesFit
      <3> QED BY <1>m, <2>0, <3>1, <3>3
    <2> QED BY <2>1, <2>2
  <1>3. CASE SignInConvert(w)
    <2>1. work[w].anon \in Ids /\ work[w].sub \in Subs /\ work[w].pc = "signin"
      BY <1>0, <1>3 DEF SignInConvert, ReadHolds, Reads
    <2>2. users' = users \/ (users[work[w].anon] # None /\ users' = [users EXCEPT ![work[w].anon].sub = work[w].sub])
      BY <1>3 DEF SignInConvert
    <2>3. users' \in [Ids -> Row \cup {None}]
      <3>1. CASE users' = users
        BY <3>1 DEF TablesFit
      <3>2. CASE users[work[w].anon] # None /\ users' = [users EXCEPT ![work[w].anon].sub = work[w].sub]
        <4>1. users[work[w].anon] \in Row
          BY <2>1, <3>2 DEF TablesFit
        <4>2. PICK x : x = [users[work[w].anon] EXCEPT !.sub = work[w].sub]
          OBVIOUS
        <4>3. x \in Row
          BY <2>1, <4>1, <4>2 DEF Row
        <4>4. users' = [users EXCEPT ![work[w].anon] = x]
          BY <3>2, <4>2
        <4> QED BY <2>1, <4>3, <4>4 DEF TablesFit
      <3> QED BY <2>2, <3>1, <3>2
    <2>4. work' = [work EXCEPT ![w] = Idle] \/ \E id \in Ids : work' = [work EXCEPT ![w] = m(id)]
      BY <1>3, <2>1 DEF SignInConvert, ToMint, Finish
    <2>5. DOMAIN slip' = DOMAIN slip /\ slip.raced' = slip.raced
      BY <1>3 DEF SignInConvert, TablesFit
    <2>6. TablesFit' /\ UNCHANGED <<sessions, members, tokens, entered, lane>>
      BY <1>3, <2>3, <2>5 DEF SignInConvert, TablesFit
    <2> QED BY <1>i, <1>m, <2>1, <2>4, <2>5, <2>6
  <1> QED BY <1>1, <1>2, <1>3

(* A refresh token that is cut off or deleted stays what it was.                *)
SameTokens(S, U) ==
    /\ DOMAIN U = DOMAIN S
    /\ \A s \in DOMAIN S : /\ U[s].user = S[s].user /\ U[s].app = S[s].app /\ U[s].family = S[s].family
                           /\ U[s].live => S[s].live

(* A table of refresh tokens of which some are rewritten.                       *)
LEMMA TokensRewritten ==
    ASSUME NEW S \in Seq(Tokens), NEW U, DOMAIN U = DOMAIN S, U = [s \in DOMAIN S |-> U[s]],
           \A s \in DOMAIN S : U[s] \in Tokens
    PROVE  U \in Seq(Tokens)
  <1>1. DOMAIN S = 1 .. Len(S)
    OBVIOUS
  <1>2. U \in [1 .. Len(S) -> Tokens]
    BY <1>1
  <1> QED BY <1>2

(* The merge closes one account and moves the plan to another.                  *)
LEMMA MergeFits ==
    ASSUME TablesFit, HandsFit, NEW w \in Workers, merge_into(w)
    PROVE  /\ TablesFit' /\ SameTokens(sessions, sessions') /\ UNCHANGED <<members, tokens, entered, lane>>
           /\ slip.raced' = slip.raced /\ work[w].pc = "signin"
           /\ \E r : ReadHolds(r, sessions) /\ work' = [work EXCEPT ![w] = r]
                     /\ (r.pc = "idle" \/ (r.pc = "mint" /\ r.session = None
                                          /\ r.claim = work[w].claim /\ r.header = work[w].header))
  <1>0. work[w] \in Reads /\ ReadHolds(work[w], sessions) /\ work[w].pc = "signin" /\ work[w].id # None /\ work[w].anon # None
    BY DEF HandsFit, merge_into
  <1>1. PICK u \in Ids, v \in Ids : u = work[w].anon /\ v = work[w].id
    BY <1>0 DEF Reads
  <1>2. work[w].row \in Row /\ work[w].anonRow \in Row
    BY <1>0 DEF ReadHolds
  <1>3. PICK moved \in BOOLEAN : moved = (work[w].anonRow.paid /\ ~work[w].row.paid)
    BY <1>2, Zenon
  <1>4. users' = merged_users(w, moved)
    BY <1>3 DEF merge_into
  <1>5. users' \in [Ids -> Row \cup {None}]
    <2>1. PICK closed : closed = IF users[u] = None THEN None
                                 ELSE [users[u] EXCEPT !.active = FALSE, !.paid = IF moved THEN FALSE ELSE users[u].paid]
      OBVIOUS
    <2>2. closed \in Row \cup {None}
      <3>1. CASE users[u] = None
        BY <2>1, <3>1
      <3>2. CASE users[u] # None
        <4>1. users[u] \in Row
          BY <1>1, <3>2 DEF TablesFit
        <4>2. PICK f \in BOOLEAN : f = FALSE
          OBVIOUS
        <4>3. PICK p \in BOOLEAN : p = IF moved THEN FALSE ELSE users[u].paid
          BY <4>1 DEF Row
        <4>4. closed = [users[u] EXCEPT !.active = f, !.paid = p]
          BY <2>1, <3>2, <4>2, <4>3
        <4> QED BY <4>1, <4>4 DEF Row
      <3> QED BY <3>1, <3>2
    <2>3. PICK taken : taken = IF users[v] # None /\ moved
                               THEN [users[v] EXCEPT !.paid = TRUE, !.used = work[w].anonRow.used] ELSE users[v]
      OBVIOUS
    <2>4. taken \in Row \cup {None}
      <3>1. CASE ~(users[v] # None /\ moved)
        BY <1>1, <2>3, <3>1 DEF TablesFit
      <3>2. CASE users[v] # None /\ moved
        <4>1. users[v] \in Row /\ work[w].anonRow.used \in Nat
          BY <1>1, <1>2, <3>2 DEF TablesFit, Row
        <4>2. PICK t \in BOOLEAN : t = TRUE
          OBVIOUS
        <4>3. taken = [users[v] EXCEPT !.paid = t, !.used = work[w].anonRow.used]
          BY <2>3, <3>2, <4>2
        <4> QED BY <4>1, <4>3 DEF Row
      <3> QED BY <3>1, <3>2
    <2>5. users' = [users EXCEPT ![u] = closed, ![v] = taken]
      BY <1>1, <1>4, <2>1, <2>3 DEF merged_users
    <2> QED BY <1>1, <2>2, <2>4, <2>5 DEF TablesFit
  <1>6. sessions' \in Seq(Tokens) /\ SameTokens(sessions, sessions')
    <2>1. PICK f \in BOOLEAN : f = FALSE
      OBVIOUS
    <2>2. sessions' = [s \in DOMAIN sessions |->
             IF sessions[s].user = u THEN [sessions[s] EXCEPT !.live = f] ELSE sessions[s]]
      BY <1>1, <2>1 DEF merge_into
    <2>3. ASSUME NEW s \in DOMAIN sessions
          PROVE  /\ sessions'[s] \in Tokens /\ sessions'[s].user = sessions[s].user
                 /\ sessions'[s].app = sessions[s].app /\ sessions'[s].family = sessions[s].family
                 /\ sessions'[s].live => sessions[s].live
      <3>1. sessions[s] \in Tokens
        BY DEF TablesFit
      <3>2. CASE sessions[s].user = u
        <4>1. sessions'[s] = [sessions[s] EXCEPT !.live = f]
          BY <2>2, <3>2
        <4> QED BY <2>1, <3>1, <4>1 DEF Tokens
      <3>3. CASE sessions[s].user # u
        BY <2>2, <3>1, <3>3
      <3> QED BY <3>2, <3>3
    <2>4. DOMAIN sessions' = DOMAIN sessions /\ sessions' = [s \in DOMAIN sessions |-> sessions'[s]]
      BY <2>2
    <2> QED BY <2>3, <2>4, TokensRewritten DEF SameTokens, TablesFit
  <1>7. DOMAIN slip' = DOMAIN slip /\ slip.raced' = slip.raced
    BY DEF merge_into, TablesFit
  <1>8. \E r : ReadHolds(r, sessions) /\ work' = [work EXCEPT ![w] = r]
              /\ (r.pc = "idle" \/ (r.pc = "mint" /\ r.session = None
                                   /\ r.claim = work[w].claim /\ r.header = work[w].header))
    <2>1. CASE work' = [work EXCEPT ![w] = Idle]
      <3>1. ReadHolds(Idle, sessions) /\ Idle.pc = "idle"
        BY IdleHolds DEF Idle
      <3> QED BY <2>1, <3>1
    <2>2. CASE ToMint(w, v)
      <3> DEFINE r == [Idle EXCEPT !.pc = "mint", !.id = v, !.header = work[w].header, !.claim = work[w].claim]
      <3>1. ReadHolds(r, sessions) /\ work' = [work EXCEPT ![w] = r]
        BY <2>2, ToMintHolds DEF ToMint
      <3>2. r.pc = "mint" /\ r.session = None /\ r.claim = work[w].claim /\ r.header = work[w].header
        BY DEF Idle
      <3> QED BY <3>1, <3>2
    <2> QED BY <1>1, <2>1, <2>2 DEF merge_into, Finish
  <1>9. TablesFit'
    BY <1>5, <1>6, <1>7 DEF merge_into, TablesFit, SameTokens
  <1> QED BY <1>0, <1>6, <1>7, <1>8, <1>9 DEF merge_into

(* What the other handlers read before they act.                                *)
LEMMA OthersRead ==
    ASSUME TablesFit, HandsFit, NEW w \in Workers
    PROVE  /\ \A i \in Installs, a \in Apps : anonymous_auth(w, i, a) =>
                 \E r : ReadHolds(r, sessions) /\ work' = [work EXCEPT ![w] = r] /\ r.claim = mint_claim(r.header)
                       /\ (r.pc = "insert" \/ (r.pc = "mint" /\ r.session = None))
           /\ \A s \in DOMAIN sessions, h \in Apps \cup {None} : refresh_token(w, s, h) =>
                 \E r : ReadHolds(r, sessions) /\ work' = [work EXCEPT ![w] = r] /\ r.pc = "revoke"
                       /\ r.id = sessions[r.session].user
           /\ \A t \in tokens, h \in Apps \cup {None} : CallStart(w, t, h) =>
                 \E r : ReadHolds(r, sessions) /\ work' = [work EXCEPT ![w] = r] /\ r.pc = "call"
                       /\ r.id = t.id /\ r.claim = t.claim /\ ~refuse_reason(r.claim, r.header)
           /\ \A t \in tokens, h \in Apps \cup {None} : delete_account(w, t, h) =>
                 \E r : ReadHolds(r, sessions) /\ work' = [work EXCEPT ![w] = r] /\ r.pc = "purge"
           /\ \A u \in Ids, a \in Strict : SweepRead(w, u, a) =>
                 \E r : ReadHolds(r, sessions) /\ work' = [work EXCEPT ![w] = r] /\ r.pc = "sweep"
  <1>1. ASSUME NEW i \in Installs, NEW a \in Apps, anonymous_auth(w, i, a)
        PROVE  \E r : ReadHolds(r, sessions) /\ work' = [work EXCEPT ![w] = r] /\ r.claim = mint_claim(r.header)
                     /\ (r.pc = "insert" \/ (r.pc = "mint" /\ r.session = None))
    <2>1. PICK id \in Ids \cup {None} : id = IdOf(AnonSub(i, a))
      BY IdOfFound
    <2>2. PICK sub \in Subs : sub = AnonSub(i, a)
      BY DEF Subs, AnonSubs
    <2>3. PICK pc \in {"insert", "mint"} : pc = IF id = None THEN "insert" ELSE "mint"
      OBVIOUS
    <2> DEFINE r == [Idle EXCEPT !.pc = pc, !.id = id, !.sub = sub, !.header = a, !.claim = a]
    <2>4. work' = [work EXCEPT ![w] = r]
      BY <1>1, <2>1, <2>2, <2>3 DEF anonymous_auth, Start, Begin
    <2>5. ReadHolds(r, sessions) /\ r.pc = pc /\ r.session = None /\ r.claim = a /\ r.header = a
      BY <2>3, SessionsAssumption DEF ReadHolds, Idle, Reads, Claims
    <2>6. mint_claim(a) = a
      BY SessionsAssumption DEF mint_claim
    <2> QED BY <2>4, <2>5, <2>6
  <1>2. ASSUME NEW s \in DOMAIN sessions, NEW h \in Apps \cup {None}, refresh_token(w, s, h)
        PROVE  \E r : ReadHolds(r, sessions) /\ work' = [work EXCEPT ![w] = r] /\ r.pc = "revoke"
                     /\ r.id = sessions[r.session].user
    <2>1. sessions[s] \in Tokens /\ s \in Nat
      BY DEF TablesFit
    <2>2. PICK u \in Ids : u = sessions[s].user
      BY <2>1 DEF Tokens
    <2> DEFINE r == [Idle EXCEPT !.pc = "revoke", !.session = s, !.id = u, !.header = h]
    <2>3. work' = [work EXCEPT ![w] = r]
      BY <1>2, <2>2 DEF refresh_token, Start, Begin
    <2>4. ReadHolds(r, sessions) /\ r.pc = "revoke" /\ r.session = s /\ r.id = u
      BY <2>1, SessionsAssumption DEF ReadHolds, Idle, Reads, Claims
    <2> QED BY <2>2, <2>3, <2>4
  <1>3. ASSUME NEW t \in tokens, NEW h \in Apps \cup {None}, CallStart(w, t, h)
        PROVE  \E r : ReadHolds(r, sessions) /\ work' = [work EXCEPT ![w] = r] /\ r.pc = "call"
                     /\ r.id = t.id /\ r.claim = t.claim /\ ~refuse_reason(r.claim, r.header)
    <2>1. t.id \in Ids /\ t.claim \in Claims
      BY DEF TablesFit
    <2>2. PICK row \in Row : row = users[t.id]
      BY <1>3, <2>1 DEF CallStart, get_current_user, TablesFit
    <2> DEFINE r == [Idle EXCEPT !.pc = "call", !.id = t.id, !.header = h, !.claim = t.claim, !.row = row]
    <2>3. work' = [work EXCEPT ![w] = r]
      BY <1>3, <2>2 DEF CallStart, Begin
    <2>4. ReadHolds(r, sessions) /\ r.pc = "call" /\ r.id = t.id /\ r.claim = t.claim /\ r.header = h
      BY <2>1 DEF ReadHolds, Idle, Reads
    <2>5. ~refuse_reason(t.claim, h)
      BY <1>3 DEF CallStart, get_current_user
    <2> QED BY <2>3, <2>4, <2>5
  <1>4. ASSUME NEW t \in tokens, NEW h \in Apps \cup {None}, delete_account(w, t, h)
        PROVE  \E r : ReadHolds(r, sessions) /\ work' = [work EXCEPT ![w] = r] /\ r.pc = "purge"
    <2>1. t.id \in Ids
      BY DEF TablesFit
    <2>2. PICK sub \in Subs : sub = users[t.id].sub
      BY <1>4, <2>1 DEF delete_account, TablesFit, Row
    <2>3. PICK sum \in [Strict -> Nat] : sum = carry_spend_before_delete(t.id, h)
      <3>1. \A a \in Strict : Spend(t.id, a) \in Nat
        <4>1. ASSUME NEW a \in Strict PROVE Spend(t.id, a) \in Nat
          <5>1. usage[t.id][a] \in [recent : Nat, old : Nat]
            BY <2>1 DEF TablesFit
          <5> QED BY <5>1 DEF Spend
        <4> QED BY <4>1
      <3> QED BY <3>1 DEF carry_spend_before_delete
    <2> DEFINE r == [Idle EXCEPT !.pc = "purge", !.id = t.id, !.header = h, !.sub = sub, !.sum = sum]
    <2>4. work' = [work EXCEPT ![w] = r]
      BY <1>4, <2>2, <2>3 DEF delete_account, Begin
    <2>5. ReadHolds(r, sessions) /\ r.pc = "purge"
      BY <2>1, SessionsAssumption DEF ReadHolds, Idle, Reads, Claims
    <2> QED BY <2>4, <2>5
  <1>5. ASSUME NEW u \in Ids, NEW a \in Strict, SweepRead(w, u, a)
        PROVE  \E r : ReadHolds(r, sessions) /\ work' = [work EXCEPT ![w] = r] /\ r.pc = "sweep"
    <2>1. PICK sub \in Subs \cup {None} : sub = owner(u)
      BY DEF TablesFit, Row, owner
    <2>2. PICK sum \in [Strict -> Nat] : sum = [b \in Strict |-> IF b = a THEN usage[u][a].old ELSE 0]
      BY DEF TablesFit
    <2> DEFINE r == [Idle EXCEPT !.pc = "sweep", !.id = u, !.header = a, !.sub = sub, !.sum = sum]
    <2>3. work' = [work EXCEPT ![w] = r]
      BY <1>5, <2>1, <2>2 DEF SweepRead, Begin
    <2>4. ReadHolds(r, sessions) /\ r.pc = "sweep"
      BY SessionsAssumption DEF ReadHolds, Idle, Reads, Claims
    <2> QED BY <2>3, <2>4
  <1> QED BY <1>1, <1>2, <1>3, <1>4, <1>5

(* What is carried over is added to what was carried before.                     *)
LEMMA CarryFits ==
    ASSUME carry \in [AnonSubs -> [Strict -> Nat]], NEW sub, NEW sum \in [Strict -> Nat]
    PROVE  carry_upsert(sub, sum) \in [AnonSubs -> [Strict -> Nat]]
  <1>1. ASSUME NEW s \in AnonSubs, NEW a \in Strict PROVE carry[s][a] + (IF s = sub THEN sum[a] ELSE 0) \in Nat
    <2>1. carry[s][a] \in Nat /\ sum[a] \in Nat
      OBVIOUS
    <2> QED BY <2>1
  <1>2. ASSUME NEW s \in AnonSubs
        PROVE  [a \in Strict |-> carry[s][a] + IF s = sub THEN sum[a] ELSE 0] \in [Strict -> Nat]
    BY <1>1
  <1> QED BY <1>2 DEF carry_upsert, Adds

(* Deleting an account, or one app of it.                                        *)
LEMMA DeletionFits ==
    ASSUME TablesFit, HandsFit, NEW w \in Workers, delete_user_data(w)
    PROVE  /\ TablesFit' /\ SameTokens(sessions, sessions') /\ members' \subseteq members
           /\ UNCHANGED <<tokens, entered, lane>> /\ slip.raced' = slip.raced
           /\ work' = [work EXCEPT ![w] = Idle]
  <1>0. ReadHolds(work[w], sessions) /\ work[w].pc = "purge"
    BY DEF HandsFit, delete_user_data
  <1>1. PICK u \in Ids : u = work[w].id
    BY <1>0 DEF ReadHolds
  <1>2. carry' \in [AnonSubs -> [Strict -> Nat]]
    BY <1>0, CarryFits DEF delete_user_data, ReadHolds, TablesFit
  <1>3. users' \in [Ids -> Row \cup {None}]
    BY <1>1 DEF delete_user_data, TablesFit
  <1>4. usage' \in [Ids -> [Strict -> [recent : Nat, old : Nat]]]
    <2>1. PICK cleared : usage' = [usage EXCEPT ![u] = [a \in Strict |->
                            IF a \in cleared THEN [recent |-> 0, old |-> 0] ELSE usage[u][a]]]
      BY <1>1 DEF delete_user_data
    <2>2. ASSUME NEW a \in Strict
          PROVE  (IF a \in cleared THEN [recent |-> 0, old |-> 0] ELSE usage[u][a]) \in [recent : Nat, old : Nat]
      BY DEF TablesFit
    <2> QED BY <2>1, <2>2 DEF TablesFit
  <1>5. members' \subseteq members
    BY DEF delete_user_data
  <1>6. sessions' \in Seq(Tokens) /\ SameTokens(sessions, sessions')
    <2>1. PICK t \in BOOLEAN : t = TRUE
      OBVIOUS
    <2>2. sessions' = [s \in DOMAIN sessions |->
             IF sessions[s].user = u /\ (work[w].header = None \/ sessions[s].app = work[w].header)
             THEN [sessions[s] EXCEPT !.gone = t] ELSE sessions[s]]
      BY <1>1, <2>1 DEF delete_user_data
    <2>3. ASSUME NEW s \in DOMAIN sessions
          PROVE  /\ sessions'[s] \in Tokens /\ sessions'[s].user = sessions[s].user
                 /\ sessions'[s].app = sessions[s].app /\ sessions'[s].family = sessions[s].family
                 /\ sessions'[s].live => sessions[s].live
      <3>1. sessions[s] \in Tokens
        BY DEF TablesFit
      <3>2. sessions'[s] = sessions[s] \/ sessions'[s] = [sessions[s] EXCEPT !.gone = t]
        BY <2>2
      <3> QED BY <3>1, <3>2 DEF Tokens
    <2>4. DOMAIN sessions' = DOMAIN sessions /\ sessions' = [s \in DOMAIN sessions |-> sessions'[s]]
      BY <2>2
    <2> QED BY <2>3, <2>4, TokensRewritten DEF SameTokens, TablesFit
  <1>7. DOMAIN slip' = DOMAIN slip /\ slip.raced' = slip.raced
    BY DEF delete_user_data, TablesFit
  <1>8. TablesFit'
    BY <1>2, <1>3, <1>4, <1>5, <1>6, <1>7 DEF delete_user_data, TablesFit, SameTokens
  <1> QED BY <1>5, <1>6, <1>7, <1>8 DEF delete_user_data, Finish

(* Rows grow old, and old ones are carried over and cleared away.                 *)
LEMMA RetentionFits ==
    ASSUME TablesFit, HandsFit, NEW w \in Workers
    PROVE  /\ \A u \in Ids, a \in Strict : Age(u, a) =>
                 TablesFit' /\ UNCHANGED <<sessions, members, tokens, entered, lane, slip, work>>
           /\ expire_old_usage_rows(w) =>
                 /\ TablesFit' /\ UNCHANGED <<sessions, members, tokens, entered, lane>> /\ slip.raced' = slip.raced
                 /\ work' = [work EXCEPT ![w] = Idle]
  <1>1. ASSUME NEW u \in Ids, NEW a \in Strict, Age(u, a)
        PROVE  TablesFit' /\ UNCHANGED <<sessions, members, tokens, entered, lane, slip, work>>
    <2>1. usage[u][a] \in [recent : Nat, old : Nat]
      BY DEF TablesFit
    <2>2. PICK x \in [recent : Nat, old : Nat] : x = [recent |-> 0, old |-> usage[u][a].recent + usage[u][a].old]
      <3>1. usage[u][a].recent + usage[u][a].old \in Nat
        BY <2>1
      <3> QED BY <3>1
    <2>3. usage' = [usage EXCEPT ![u][a] = x]
      BY <1>1, <2>2 DEF Age
    <2>4. usage' \in [Ids -> [Strict -> [recent : Nat, old : Nat]]]
      BY <2>3 DEF TablesFit
    <2> QED BY <1>1, <2>4 DEF Age, TablesFit
  <1>2. ASSUME expire_old_usage_rows(w)
        PROVE  /\ TablesFit' /\ UNCHANGED <<sessions, members, tokens, entered, lane>> /\ slip.raced' = slip.raced
               /\ work' = [work EXCEPT ![w] = Idle]
    <2>0. ReadHolds(work[w], sessions) /\ work[w].pc = "sweep"
      BY <1>2 DEF HandsFit, expire_old_usage_rows
    <2>1. PICK u \in Ids, a \in Strict : u = work[w].id /\ a = work[w].header
      BY <2>0 DEF ReadHolds
    <2>2. carry' \in [AnonSubs -> [Strict -> Nat]]
      BY <1>2, <2>0, CarryFits DEF expire_old_usage_rows, ReadHolds, TablesFit
    <2>3. usage[u][a] \in [recent : Nat, old : Nat]
      BY DEF TablesFit
    <2>4. PICK x \in [recent : Nat, old : Nat] : x = [usage[u][a] EXCEPT !.old = 0]
      BY <2>3
    <2>5. usage' = [usage EXCEPT ![u][a] = x]
      BY <1>2, <2>1, <2>4 DEF expire_old_usage_rows
    <2>6. usage' \in [Ids -> [Strict -> [recent : Nat, old : Nat]]]
      BY <2>5 DEF TablesFit
    <2>7. DOMAIN slip' = DOMAIN slip /\ slip.raced' = slip.raced
      BY <1>2 DEF expire_old_usage_rows, TablesFit
    <2> QED BY <1>2, <2>2, <2>6, <2>7 DEF expire_old_usage_rows, Finish, TablesFit
  <1> QED BY <1>1, <1>2

(* The end of a metered call.                                                     *)
LEMMA CallFits ==
    ASSUME TablesFit, HandsFit, NEW w \in Workers, CallEnd(w)
    PROVE  /\ TablesFit' /\ UNCHANGED <<sessions, members, tokens, entered>> /\ slip.raced' = slip.raced
           /\ work' = [work EXCEPT ![w] = Idle] /\ work[w].pc = "call"
  <1>0. ReadHolds(work[w], sessions) /\ work[w].pc = "call"
    BY DEF HandsFit, CallEnd
  <1>1. PICK u \in Ids : u = work[w].id
    BY <1>0 DEF ReadHolds
  <1>2. users' \in [Ids -> Row \cup {None}]
    <2>1. CASE users[u] = None
      BY <1>1, <2>1 DEF CallEnd, TablesFit
    <2>2. CASE users[u] # None
      <3>1. users[u] \in Row
        BY <2>2 DEF TablesFit
      <3>a. users[u].used + 1 \in Nat
        BY <3>1 DEF Row
      <3>b. PICK x : x = [users[u] EXCEPT !.used = users[u].used + 1]
        OBVIOUS
      <3>2. x \in Row /\ x = [users[u] EXCEPT !.used = users[u].used + 1]
        BY <3>1, <3>a, <3>b DEF Row
      <3>3. users' = [users EXCEPT ![u] = x]
        BY <1>1, <2>2, <3>2 DEF CallEnd
      <3> QED BY <3>2, <3>3 DEF TablesFit
    <2> QED BY <2>1, <2>2
  <1>3. usage' \in [Ids -> [Strict -> [recent : Nat, old : Nat]]]
    <2>1. CASE work[w].header \in Strict
      <3>1. PICK a \in Strict : a = work[w].header
        BY <2>1
      <3>2. usage[u][a] \in [recent : Nat, old : Nat]
        BY DEF TablesFit
      <3>a. usage[u][a].recent + 1 \in Nat
        BY <3>2
      <3>3. PICK x \in [recent : Nat, old : Nat] : x = [usage[u][a] EXCEPT !.recent = usage[u][a].recent + 1]
        BY <3>2, <3>a
      <3>4. usage' = [usage EXCEPT ![u][a] = x]
        BY <1>1, <2>1, <3>1, <3>3 DEF CallEnd
      <3> QED BY <3>4 DEF TablesFit
    <2>2. CASE work[w].header \notin Strict
      BY <2>2 DEF CallEnd, TablesFit
    <2> QED BY <2>1, <2>2
  <1>4. DOMAIN slip' = DOMAIN slip /\ slip.raced' = slip.raced
    BY DEF CallEnd, TablesFit
  <1>5. /\ UNCHANGED <<nextId, sessions, members, tokens, carry, entered>> /\ calls' = calls + 1
        /\ work' = [work EXCEPT ![w] = Idle]
    BY DEF CallEnd, Finish
  <1>6. TablesFit'
    BY <1>2, <1>3, <1>4, <1>5 DEF TablesFit
  <1> QED BY <1>0, <1>4, <1>5, <1>6

(* The presented refresh token is cut off; when it was so already, the sign-in is  *)
(* noted as raced.                                                                *)
LEMMA RevokeFits ==
    ASSUME TablesFit, HandsFit, NEW w \in Workers, RefreshRevoke(w)
    PROVE  /\ TablesFit' /\ SameTokens(sessions, sessions') /\ UNCHANGED <<members, tokens, entered, lane>>
           /\ work[w].pc = "revoke" /\ work[w].session \in DOMAIN sessions /\ ~sessions'[work[w].session].live
           /\ slip'.raced = IF sessions[work[w].session].live THEN slip.raced
                            ELSE slip.raced \cup {sessions[work[w].session].family}
           /\ \E r : /\ ReadHolds(r, sessions) /\ work' = [work EXCEPT ![w] = r]
                     /\ r.pc = "mint" /\ r.session = work[w].session /\ r.id = work[w].id
                     /\ LET scope == refresh_scope(sessions[work[w].session].app, work[w].header,
                                                   <<work[w].id, work[w].header>> \in members)
                        IN  r.header = scope.session /\ r.claim = scope.claim
  <1>0. work[w] \in Reads /\ ReadHolds(work[w], sessions) /\ work[w].pc = "revoke"
    BY DEF HandsFit, RefreshRevoke
  <1>1. PICK s \in DOMAIN sessions : s = work[w].session
    BY <1>0 DEF ReadHolds
  <1>2. sessions[s] \in Tokens /\ s \in Nat
    BY DEF TablesFit
  <1>3. PICK f \in BOOLEAN : f = FALSE
    OBVIOUS
  <1>4. PICK x \in Tokens : x = [sessions[s] EXCEPT !.live = f]
    BY <1>2 DEF Tokens
  <1>5. sessions' = [sessions EXCEPT ![s] = x]
    BY <1>1, <1>3, <1>4 DEF RefreshRevoke
  <1>6. x.user = sessions[s].user /\ x.app = sessions[s].app /\ x.family = sessions[s].family /\ ~x.live
    BY <1>2, <1>3, <1>4 DEF Tokens
  <1>7. /\ sessions' \in Seq(Tokens) /\ SameTokens(sessions, sessions') /\ ~sessions'[s].live
    BY <1>5, <1>6 DEF SameTokens, TablesFit
  <1>8. /\ DOMAIN slip' = DOMAIN slip
        /\ slip'.raced = IF sessions[s].live THEN slip.raced ELSE slip.raced \cup {sessions[s].family}
    BY <1>1 DEF RefreshRevoke, TablesFit
  <1> DEFINE scope == refresh_scope(sessions[s].app, work[w].header, <<work[w].id, work[w].header>> \in members)
  <1>9. PICK h \in Apps \cup {None}, c \in Claims : h = scope.session /\ c = scope.claim
    <2>1. sessions[s].app \in Apps \cup {None} /\ work[w].header \in Apps \cup {None}
      BY <1>0, <1>2 DEF Tokens, Reads
    <2>2. scope.session \in Apps \cup {None} /\ scope.claim \in Claims
      BY <2>1 DEF refresh_scope, mint_claim, Claims
    <2> QED BY <2>2
  <1> DEFINE r == [work[w] EXCEPT !.pc = "mint", !.header = h, !.claim = c]
  <1>10. work' = [work EXCEPT ![w] = r]
    BY <1>1, <1>9 DEF RefreshRevoke, HandsFit
  <1>11. ReadHolds(r, sessions) /\ r.pc = "mint" /\ r.session = s /\ r.id = work[w].id /\ r.header = h /\ r.claim = c
    BY <1>0, <1>1 DEF ReadHolds, Reads
  <1>12. TablesFit'
    BY <1>7, <1>8 DEF RefreshRevoke, TablesFit, SameTokens
  <1>13. UNCHANGED <<members, tokens, entered, lane>>
    BY DEF RefreshRevoke
  <1> QED BY <1>0, <1>1, <1>7, <1>8, <1>9, <1>10, <1>11, <1>12, <1>13

(* The sign-in a new refresh token descends from.                                  *)
Family(r, table) == IF r.session = None THEN Len(table) + 1 ELSE table[r.session].family

(* The tail of every sign-in and refresh: a refresh token, an access token and the  *)
(* membership.                                                                     *)
LEMMA MintFits ==
    ASSUME TablesFit, HandsFit, NEW w \in Workers, build_auth_response(w)
    PROVE  /\ TablesFit' /\ HandsFit'
           /\ work[w].pc = "mint" /\ work[w].id \in Ids /\ work' = [work EXCEPT ![w] = Idle]
           /\ UNCHANGED <<lane, slip>>
           /\ tokens' = tokens \cup {[id |-> work[w].id, claim |-> work[w].claim]}
           /\ members' = IF work[w].header = None THEN members ELSE members \cup {<<work[w].id, work[w].header>>}
           /\ entered' = IF work[w].session = None /\ work[w].header # None
                         THEN entered \cup {<<work[w].id, work[w].header>>} ELSE entered
           /\ \E x \in Tokens : /\ sessions' = Append(sessions, x) /\ x.user = work[w].id /\ x.app = work[w].header
                                /\ x.family = Family(work[w], sessions)
  <1>0. work[w] \in Reads /\ ReadHolds(work[w], sessions) /\ work[w].pc = "mint"
    BY DEF HandsFit, build_auth_response
  <1>1. PICK u \in Ids, h \in Apps \cup {None}, c \in Claims :
           u = work[w].id /\ h = work[w].header /\ c = work[w].claim
    BY <1>0 DEF Reads, ReadHolds
  <1>2. PICK f \in Nat : f = Family(work[w], sessions) /\ f \in 1 .. Len(sessions) + 1
    <2>1. CASE work[w].session = None
      BY <2>1 DEF Family, TablesFit
    <2>2. CASE work[w].session # None
      <3>1. PICK s \in DOMAIN sessions : s = work[w].session
        BY <1>0, <2>2 DEF ReadHolds
      <3>2. sessions[s].family \in 1 .. s /\ s \in 1 .. Len(sessions)
        BY DEF TablesFit
      <3> QED BY <2>2, <3>1, <3>2 DEF Family, TablesFit
    <2> QED BY <2>1, <2>2
  <1>3. PICK t \in BOOLEAN : t = TRUE
    OBVIOUS
  <1>4. PICK g \in BOOLEAN : g = FALSE
    OBVIOUS
  <1>5. PICK x \in Tokens : x = [user |-> u, app |-> h, live |-> t, gone |-> g, family |-> f]
    BY DEF Tokens
  <1>6. sessions' = Append(sessions, x)
    BY <1>1, <1>2, <1>3, <1>4, <1>5 DEF build_auth_response, Family
  <1>7. x.user = u /\ x.app = h /\ x.family = f
    BY <1>5
  <1>8. sessions' \in Seq(Tokens) /\ Len(sessions') = Len(sessions) + 1
        /\ sessions'[Len(sessions) + 1] = x /\ \A s \in DOMAIN sessions : sessions'[s] = sessions[s]
    BY <1>6 DEF TablesFit
  <1>9. \A s \in DOMAIN sessions' : sessions'[s].family \in 1 .. s
    <2>1. ASSUME NEW s \in DOMAIN sessions' PROVE sessions'[s].family \in 1 .. s
      <3>1. CASE s \in DOMAIN sessions
        BY <1>8, <3>1 DEF TablesFit
      <3>2. CASE s \notin DOMAIN sessions
        <4>1. s = Len(sessions) + 1
          BY <1>8, <3>2 DEF TablesFit
        <4> QED BY <1>2, <1>7, <1>8, <4>1 DEF TablesFit
      <3> QED BY <3>1, <3>2
    <2> QED BY <2>1
  <1>10. /\ tokens' = tokens \cup {[id |-> u, claim |-> c]}
         /\ members' = IF h = None THEN members ELSE members \cup {<<u, h>>}
    BY <1>1 DEF build_auth_response
  <1>11. tokens' \subseteq [id : Ids, claim : Claims] /\ members' \subseteq Ids \X Apps
    BY <1>10 DEF TablesFit
  <1>12. UNCHANGED <<users, nextId, usage, carry, calls, lane, slip>> /\ work' = [work EXCEPT ![w] = Idle]
    BY DEF build_auth_response, Finish
  <1>13. TablesFit'
    BY <1>8, <1>9, <1>11, <1>12 DEF TablesFit
  <1>14. HandsFit'
    <2>1. DOMAIN sessions \subseteq DOMAIN sessions'
      BY <1>8 DEF TablesFit
    <2>2. work' \in [Workers -> Reads]
      BY <1>12, IdleHolds DEF HandsFit, ReadHolds
    <2>3. ASSUME NEW v \in Workers PROVE ReadHolds(work'[v], sessions')
      <3>1. CASE v = w
        BY <1>12, <3>1, IdleHolds DEF HandsFit
      <3>2. CASE v # w
        <4>1. work'[v] = work[v]
          BY <1>12, <3>2 DEF HandsFit
        <4> QED BY <2>1, <4>1 DEF HandsFit, ReadHolds
      <3> QED BY <3>1, <3>2
    <2> QED BY <2>2, <2>3 DEF HandsFit
  <1>15. entered' = IF work[w].session = None /\ h # None THEN entered \cup {<<u, h>>} ELSE entered
    BY <1>1 DEF build_auth_response
  <1> QED BY <1>0, <1>1, <1>2, <1>6, <1>7, <1>10, <1>12, <1>13, <1>14, <1>15

-----------------------------------------------------------------------------
(* Strict lanes.                                                                   *)

Entered(u, a, E) == a \in Strict => <<u, a>> \in E

(* What a handler brings about the lanes: the claim of a sign-in is that of its     *)
(* header, a refresh goes only where its session or its account has been, and a call *)
(* is on the lane its token names.                                                  *)
OnLane(r, table, E) ==
    /\ r.pc \in {"signin", "insert"} => r.claim = mint_claim(r.header)
    /\ (r.pc = "mint" /\ r.session = None) => r.claim = mint_claim(r.header)
    /\ (r.pc = "mint" /\ r.session # None) => Entered(r.id, r.claim, E) /\ Entered(r.id, r.header, E)
    /\ r.pc = "revoke" => r.id = table[r.session].user
    /\ r.pc = "call" => Entered(r.id, r.claim, E) /\ ~refuse_reason(r.claim, r.header)

LanesKept ==
    /\ \A t \in tokens : Entered(t.id, t.claim, entered)
    /\ \A s \in DOMAIN sessions : Entered(sessions[s].user, sessions[s].app, entered)
    /\ \A m \in members : Entered(m[1], m[2], entered)
    /\ \A w \in Workers : OnLane(work[w], sessions, entered)
    /\ StrictLaneEntered

(* One refresh token of a sign-in at most is live or about to be minted, unless one  *)
(* was presented twice at once.                                                     *)
Mints(r, table, f) == r.pc = "mint" /\ r.session # None /\ table[r.session].family = f

OneToken ==
    \A f \in Nat \ slip.raced :
       /\ \A s, t \in DOMAIN sessions :
             (sessions[s].live /\ sessions[t].live /\ sessions[s].family = f /\ sessions[t].family = f) => s = t
       /\ \A w \in Workers : Mints(work[w], sessions, f) =>
             /\ \A s \in DOMAIN sessions : sessions[s].family = f => ~sessions[s].live
             /\ \A v \in Workers : Mints(work[v], sessions, f) => v = w

(* A handler that mints nothing and cuts refresh tokens off, if anything.             *)
LEMMA QuietStep ==
    ASSUME TablesFit, HandsFit, LanesKept, OneToken, NEW w \in Workers, NEW r, ReadHolds(r, sessions),
           work' = [work EXCEPT ![w] = r], OnLane(r, sessions, entered), r.pc = "mint" => r.session = None,
           SameTokens(sessions, sessions'), members' \subseteq members, UNCHANGED <<tokens, entered, lane>>,
           slip.raced' = slip.raced
    PROVE  LanesKept' /\ OneToken'
  <1>1. \A v \in Workers : work'[v] = IF v = w THEN r ELSE work[v]
    BY DEF HandsFit
  <1>2. \A v \in Workers : OnLane(work'[v], sessions', entered')
    <2>1. ASSUME NEW v \in Workers PROVE OnLane(work'[v], sessions', entered')
      <3>1. CASE v = w
        BY <1>1, <3>1 DEF OnLane, SameTokens, ReadHolds
      <3>2. CASE v # w
        BY <1>1, <3>2 DEF OnLane, SameTokens, ReadHolds, HandsFit, LanesKept
      <3> QED BY <3>1, <3>2
    <2> QED BY <2>1
  <1>3. LanesKept'
    BY <1>2 DEF LanesKept, SameTokens, StrictLaneEntered
  <1>4. ASSUME NEW v \in Workers, NEW f, Mints(work'[v], sessions', f) PROVE v # w /\ Mints(work[v], sessions, f)
    BY <1>1, <1>4 DEF Mints, SameTokens, HandsFit, ReadHolds
  <1>5. OneToken'
    <2> SUFFICES ASSUME NEW f \in Nat, f \notin slip'.raced
                 PROVE  /\ \A s, t \in DOMAIN sessions' :
                             (sessions'[s].live /\ sessions'[t].live /\ sessions'[s].family = f
                                /\ sessions'[t].family = f) => s = t
                        /\ \A v \in Workers : Mints(work'[v], sessions', f) =>
                             /\ \A s \in DOMAIN sessions' : sessions'[s].family = f => ~sessions'[s].live
                             /\ \A y \in Workers : Mints(work'[y], sessions', f) => y = v
      BY DEF OneToken
    <2>0. f \in Nat \ slip.raced
      OBVIOUS
    <2>1. \A s, t \in DOMAIN sessions :
             (sessions[s].live /\ sessions[t].live /\ sessions[s].family = f /\ sessions[t].family = f) => s = t
      BY <2>0 DEF OneToken
    <2>2. \A v \in Workers : Mints(work[v], sessions, f) =>
             /\ \A s \in DOMAIN sessions : sessions[s].family = f => ~sessions[s].live
             /\ \A y \in Workers : Mints(work[y], sessions, f) => y = v
      BY <2>0 DEF OneToken
    <2>3. \A s, t \in DOMAIN sessions' :
             (sessions'[s].live /\ sessions'[t].live /\ sessions'[s].family = f /\ sessions'[t].family = f) => s = t
      BY <2>1 DEF SameTokens
    <2>4. ASSUME NEW v \in Workers, Mints(work'[v], sessions', f)
          PROVE  /\ \A s \in DOMAIN sessions' : sessions'[s].family = f => ~sessions'[s].live
                 /\ \A y \in Workers : Mints(work'[y], sessions', f) => y = v
      BY <1>4, <2>2, <2>4 DEF SameTokens
    <2> QED BY <2>3, <2>4
  <1> QED BY <1>3, <1>5

(* A refresh goes to the lane of its session, or to one its account belongs to, and     *)
(* cuts off the token it was given before it mints another.                             *)
LEMMA RevokeKeeps ==
    ASSUME TablesFit, HandsFit, LanesKept, OneToken, NEW w \in Workers, RefreshRevoke(w)
    PROVE  HandsFit' /\ LanesKept' /\ OneToken'
  <1>1. /\ SameTokens(sessions, sessions') /\ UNCHANGED <<members, tokens, entered, lane>>
        /\ work[w].pc = "revoke" /\ work[w].session \in DOMAIN sessions /\ ~sessions'[work[w].session].live
        /\ slip'.raced = IF sessions[work[w].session].live THEN slip.raced
                         ELSE slip.raced \cup {sessions[work[w].session].family}
    BY RevokeFits
  <1> DEFINE s == work[w].session
             scope == refresh_scope(sessions[s].app, work[w].header, <<work[w].id, work[w].header>> \in members)
  <1>2. PICK r : /\ ReadHolds(r, sessions) /\ work' = [work EXCEPT ![w] = r]
                 /\ r.pc = "mint" /\ r.session = s /\ r.id = work[w].id
                 /\ r.header = scope.session /\ r.claim = scope.claim
    BY RevokeFits
  <1>3. HandsFit'
    BY <1>1, <1>2, OneHandMoves DEF SameTokens
  <1>4. \A v \in Workers : work'[v] = IF v = w THEN r ELSE work[v]
    BY <1>2 DEF HandsFit
  <1>5. r.session # None
    BY <1>1, <1>2, SessionsAssumption DEF TablesFit
  <1>6. OnLane(r, sessions, entered)
    <2>1. work[w].id = sessions[s].user
      BY <1>1 DEF LanesKept, OnLane
    <2>2. Entered(work[w].id, sessions[s].app, entered)
      BY <1>1, <2>1 DEF LanesKept
    <2>3. <<work[w].id, work[w].header>> \in members => Entered(work[w].id, work[w].header, entered)
      BY DEF LanesKept
    <2>4. None \notin Strict /\ "unscoped" \notin Strict
      BY SessionsAssumption
    <2>5. Entered(work[w].id, scope.claim, entered) /\ Entered(work[w].id, scope.session, entered)
      <3>1. CASE sessions[s].app # None /\ work[w].header # None /\ sessions[s].app # work[w].header
                   /\ (sessions[s].app \in Strict \/ work[w].header \in Strict)
        BY <2>2, <3>1 DEF refresh_scope
      <3>2. CASE sessions[s].app = None /\ work[w].header \in Strict /\ <<work[w].id, work[w].header>> \notin members
        BY <2>4, <3>2 DEF refresh_scope, Entered
      <3>3. CASE /\ ~(sessions[s].app # None /\ work[w].header # None /\ sessions[s].app # work[w].header
                         /\ (sessions[s].app \in Strict \/ work[w].header \in Strict))
                 /\ ~(sessions[s].app = None /\ work[w].header \in Strict
                         /\ <<work[w].id, work[w].header>> \notin members)
        <4>1. PICK a : a = IF work[w].header # None THEN work[w].header ELSE sessions[s].app
          OBVIOUS
        <4>2. scope.session = a /\ scope.claim = mint_claim(a)
          BY <3>3, <4>1 DEF refresh_scope
        <4>3. Entered(work[w].id, a, entered)
          BY <2>2, <2>3, <3>3, <4>1 DEF Entered
        <4> QED BY <2>4, <4>2, <4>3 DEF mint_claim, Entered
      <3> QED BY <3>1, <3>2, <3>3
    <2> QED BY <1>2, <1>5, <2>5 DEF OnLane
  <1>7. LanesKept'
    <2>1. ASSUME NEW v \in Workers PROVE OnLane(work'[v], sessions', entered')
      <3>1. CASE v = w
        BY <1>1, <1>2, <1>4, <1>6, <3>1 DEF OnLane
      <3>2. CASE v # w
        BY <1>1, <1>4, <3>2 DEF OnLane, SameTokens, ReadHolds, HandsFit, LanesKept
      <3> QED BY <3>1, <3>2
    <2> QED BY <1>1, <2>1 DEF LanesKept, SameTokens, StrictLaneEntered
  <1>8. OneToken'
    <2> SUFFICES ASSUME NEW f \in Nat, f \notin slip'.raced
                 PROVE  /\ \A x, t \in DOMAIN sessions' :
                             (sessions'[x].live /\ sessions'[t].live /\ sessions'[x].family = f
                                /\ sessions'[t].family = f) => x = t
                        /\ \A v \in Workers : Mints(work'[v], sessions', f) =>
                             /\ \A x \in DOMAIN sessions' : sessions'[x].family = f => ~sessions'[x].live
                             /\ \A y \in Workers : Mints(work'[y], sessions', f) => y = v
      BY DEF OneToken
    <2>0. f \in Nat \ slip.raced
      BY <1>1
    <2>1. \A x, t \in DOMAIN sessions :
             (sessions[x].live /\ sessions[t].live /\ sessions[x].family = f /\ sessions[t].family = f) => x = t
      BY <2>0 DEF OneToken
    <2>2. \A v \in Workers : Mints(work[v], sessions, f) =>
             /\ \A x \in DOMAIN sessions : sessions[x].family = f => ~sessions[x].live
             /\ \A y \in Workers : Mints(work[y], sessions, f) => y = v
      BY <2>0 DEF OneToken
    <2>3. \A x, t \in DOMAIN sessions' :
             (sessions'[x].live /\ sessions'[t].live /\ sessions'[x].family = f /\ sessions'[t].family = f) => x = t
      BY <1>1, <2>1 DEF SameTokens
    <2>4. \A v \in Workers : v # w => (Mints(work'[v], sessions', f) <=> Mints(work[v], sessions, f))
      BY <1>1, <1>4 DEF Mints, SameTokens, HandsFit, ReadHolds
    <2>5. Mints(work'[w], sessions', f) <=> sessions[s].family = f
      BY <1>1, <1>2, <1>4, <1>5 DEF Mints, SameTokens
    <2>6. sessions[s].family = f => sessions[s].live
      BY <1>1
    <2>7. sessions[s].family = f => \A x \in DOMAIN sessions' : sessions'[x].family = f => ~sessions'[x].live
      BY <1>1, <2>1, <2>6 DEF SameTokens
    <2>8. sessions[s].family = f => \A v \in Workers : ~Mints(work[v], sessions, f)
      BY <1>1, <2>2, <2>6
    <2>9. ASSUME NEW v \in Workers, Mints(work'[v], sessions', f)
          PROVE  /\ \A x \in DOMAIN sessions' : sessions'[x].family = f => ~sessions'[x].live
                 /\ \A y \in Workers : Mints(work'[y], sessions', f) => y = v
      <3>1. CASE v = w
        BY <2>4, <2>5, <2>7, <2>8, <2>9, <3>1
      <3>2. CASE v # w
        BY <1>1, <2>2, <2>4, <2>5, <2>8, <2>9, <3>2 DEF SameTokens
      <3> QED BY <3>1, <3>2
    <2> QED BY <2>3, <2>9
  <1> QED BY <1>3, <1>7, <1>8

(* What is minted is a lane its account has been signed in to, and the only live token  *)
(* of its sign-in.                                                                      *)
LEMMA MintKeeps ==
    ASSUME TablesFit, HandsFit, LanesKept, OneToken, NEW w \in Workers, build_auth_response(w)
    PROVE  LanesKept' /\ OneToken'
  <1>0. ReadHolds(work[w], sessions) /\ OnLane(work[w], sessions, entered)
    BY DEF HandsFit, LanesKept
  <1>1. /\ work[w].pc = "mint" /\ work[w].id \in Ids /\ work' = [work EXCEPT ![w] = Idle] /\ UNCHANGED <<lane, slip>>
        /\ tokens' = tokens \cup {[id |-> work[w].id, claim |-> work[w].claim]}
        /\ members' = IF work[w].header = None THEN members ELSE members \cup {<<work[w].id, work[w].header>>}
        /\ entered' = IF work[w].session = None /\ work[w].header # None
                      THEN entered \cup {<<work[w].id, work[w].header>>} ELSE entered
    BY MintFits
  <1>2. PICK x \in Tokens : /\ sessions' = Append(sessions, x) /\ x.user = work[w].id /\ x.app = work[w].header
                            /\ x.family = Family(work[w], sessions)
    BY MintFits
  <1> DEFINE n == Len(sessions) + 1
  <1>3. /\ DOMAIN sessions' = DOMAIN sessions \cup {n} /\ n \notin DOMAIN sessions /\ n \in Nat
        /\ sessions'[n] = x /\ \A s \in DOMAIN sessions : sessions'[s] = sessions[s]
    BY <1>2 DEF TablesFit
  <1> HIDE DEF n
  <1>4. \A v \in Workers : work'[v] = IF v = w THEN Idle ELSE work[v]
    BY <1>1 DEF HandsFit
  <1>5. entered \subseteq entered'
    BY <1>1
  <1>6. None \notin Strict /\ "unscoped" \notin Strict
    BY SessionsAssumption
  <1>7. Entered(work[w].id, work[w].claim, entered') /\ Entered(work[w].id, work[w].header, entered')
    <2>1. CASE work[w].session = None
      BY <1>0, <1>1, <1>6, <2>1 DEF OnLane, Entered, mint_claim
    <2>2. CASE work[w].session # None
      BY <1>0, <1>1, <1>5, <2>2 DEF OnLane, Entered
    <2> QED BY <2>1, <2>2
  <1>8. LanesKept'
    <2>1. ASSUME NEW t \in tokens' PROVE Entered(t.id, t.claim, entered')
      <3>1. CASE t \in tokens
        BY <1>5, <3>1 DEF LanesKept, Entered
      <3>2. CASE t = [id |-> work[w].id, claim |-> work[w].claim]
        BY <1>7, <3>2
      <3> QED BY <1>1, <3>1, <3>2
    <2>2. ASSUME NEW s \in DOMAIN sessions' PROVE Entered(sessions'[s].user, sessions'[s].app, entered')
      <3>1. CASE s \in DOMAIN sessions
        BY <1>3, <1>5, <3>1 DEF LanesKept, Entered
      <3>2. CASE s = n
        BY <1>2, <1>3, <1>7, <3>2
      <3> QED BY <1>3, <3>1, <3>2
    <2>3. ASSUME NEW m \in members' PROVE Entered(m[1], m[2], entered')
      <3>1. CASE m \in members
        BY <1>5, <3>1 DEF LanesKept, Entered
      <3>2. CASE m = <<work[w].id, work[w].header>>
        BY <1>7, <3>2
      <3> QED BY <1>1, <3>1, <3>2
    <2>4. ASSUME NEW v \in Workers PROVE OnLane(work'[v], sessions', entered')
      <3>1. CASE v = w
        BY <1>4, <3>1 DEF OnLane, Idle
      <3>2. CASE v # w
        <4>1. ReadHolds(work[v], sessions) /\ OnLane(work[v], sessions, entered)
          BY DEF HandsFit, LanesKept
        <4> QED BY <1>3, <1>4, <1>5, <3>2, <4>1 DEF OnLane, Entered, ReadHolds
      <3> QED BY <3>1, <3>2
    <2>5. StrictLaneEntered'
      BY <1>1, <1>5 DEF LanesKept, StrictLaneEntered
    <2> QED BY <2>1, <2>2, <2>3, <2>4, <2>5 DEF LanesKept
  <1>9. OneToken'
    <2> SUFFICES ASSUME NEW f \in Nat, f \notin slip'.raced
                 PROVE  /\ \A s, t \in DOMAIN sessions' :
                             (sessions'[s].live /\ sessions'[t].live /\ sessions'[s].family = f
                                /\ sessions'[t].family = f) => s = t
                        /\ \A v \in Workers : Mints(work'[v], sessions', f) =>
                             /\ \A s \in DOMAIN sessions' : sessions'[s].family = f => ~sessions'[s].live
                             /\ \A y \in Workers : Mints(work'[y], sessions', f) => y = v
      BY DEF OneToken
    <2>0. f \in Nat \ slip.raced
      BY <1>1
    <2>1. \A s, t \in DOMAIN sessions :
             (sessions[s].live /\ sessions[t].live /\ sessions[s].family = f /\ sessions[t].family = f) => s = t
      BY <2>0 DEF OneToken
    <2>2. \A v \in Workers : Mints(work[v], sessions, f) =>
             /\ \A s \in DOMAIN sessions : sessions[s].family = f => ~sessions[s].live
             /\ \A y \in Workers : Mints(work[y], sessions, f) => y = v
      BY <2>0 DEF OneToken
    <2>3. x.family = f => /\ \A s \in DOMAIN sessions : sessions[s].family = f => ~sessions[s].live
                          /\ \A v \in Workers : v # w => ~Mints(work[v], sessions, f)
      <3>1. CASE work[w].session = None
        <4>1. x.family = Len(sessions) + 1
          BY <1>2, <3>1 DEF Family
        <4>2. \A s \in DOMAIN sessions : sessions[s].family # Len(sessions) + 1
          <5>1. ASSUME NEW s \in DOMAIN sessions PROVE sessions[s].family # Len(sessions) + 1
            <6>1. sessions[s].family \in 1 .. s /\ s \in 1 .. Len(sessions) /\ Len(sessions) \in Nat
              BY DEF TablesFit
            <6> QED BY <6>1
          <5> QED BY <5>1
        <4> QED BY <4>1, <4>2 DEF Mints, HandsFit, ReadHolds
      <3>2. CASE work[w].session # None
        <4>1. x.family = sessions[work[w].session].family
          BY <1>2, <3>2 DEF Family
        <4>2. x.family = f => Mints(work[w], sessions, f)
          BY <1>1, <3>2, <4>1 DEF Mints
        <4> QED BY <2>2, <4>2
      <3> QED BY <3>1, <3>2
    <2>4. ASSUME NEW v \in Workers, Mints(work'[v], sessions', f)
          PROVE  v # w /\ Mints(work[v], sessions, f) /\ x.family # f
      <3>1. v # w
        BY <1>4, <2>4 DEF Mints, Idle
      <3>2. Mints(work[v], sessions, f)
        BY <1>3, <1>4, <2>4, <3>1 DEF Mints, HandsFit, ReadHolds
      <3> QED BY <2>3, <3>1, <3>2
    <2>5. \A s, t \in DOMAIN sessions' :
             (sessions'[s].live /\ sessions'[t].live /\ sessions'[s].family = f /\ sessions'[t].family = f) => s = t
      BY <1>3, <2>1, <2>3
    <2>6. ASSUME NEW v \in Workers, Mints(work'[v], sessions', f)
          PROVE  /\ \A s \in DOMAIN sessions' : sessions'[s].family = f => ~sessions'[s].live
                 /\ \A y \in Workers : Mints(work'[y], sessions', f) => y = v
      BY <1>3, <2>2, <2>4, <2>6
    <2> QED BY <2>5, <2>6
  <1> QED BY <1>8, <1>9

SessionsInv == TablesFit /\ HandsFit /\ LanesKept /\ OneToken

(* A worker's step that mints nothing.                                                  *)
LEMMA QuietMoves ==
    ASSUME SessionsInv, NEW w \in Workers, NEW r, ReadHolds(r, sessions), work' = [work EXCEPT ![w] = r],
           OnLane(r, sessions, entered), r.pc = "mint" => r.session = None, TablesFit',
           SameTokens(sessions, sessions'), members' \subseteq members, UNCHANGED <<tokens, entered, lane>>,
           slip.raced' = slip.raced
    PROVE  SessionsInv'
  <1>1. HandsFit'
    BY OneHandMoves DEF SessionsInv, SameTokens
  <1> QED BY <1>1, QuietStep DEF SessionsInv

(* Every handler of sign-in, refresh, calls, deletion and retention.                     *)
LEMMA SessionsStep == SessionsInv /\ [SessionsNext]_sessionVars => SessionsInv'
  <1> SUFFICES ASSUME SessionsInv, [SessionsNext]_sessionVars PROVE SessionsInv'
    OBVIOUS
  <1>0. TablesFit /\ HandsFit /\ LanesKept /\ OneToken /\ SameTokens(sessions, sessions)
    BY DEF SessionsInv, SameTokens
  <1>i. ReadHolds(Idle, sessions) /\ OnLane(Idle, sessions, entered) /\ Idle.pc = "idle"
    BY IdleHolds DEF Idle, OnLane
  <1>1. ASSUME NEW w \in Workers, NEW x \in AppleIds, NEW h \in Apps \cup {None}, NEW t \in tokens \cup {None},
               apple_auth(w, x, h, t)
        PROVE  SessionsInv'
    <2>1. PICK r : /\ ReadHolds(r, sessions) /\ work' = [work EXCEPT ![w] = r]
                   /\ r.pc = "signin" /\ r.claim = mint_claim(r.header)
      BY <1>0, <1>1, AppleReads
    <2>2. /\ UNCHANGED <<users, nextId, sessions, members, tokens, usage, carry, calls, entered, lane, spent, converted, charged, slip>>
          /\ OnLane(r, sessions, entered)
      BY <1>1, <2>1 DEF apple_auth, OnLane
    <2>3. TablesFit'
      BY <1>0, <2>2 DEF TablesFit
    <2> QED BY <1>0, <2>1, <2>2, <2>3, QuietMoves
  <1>2. ASSUME NEW w \in Workers, SignInKnown(w) \/ SignInNew(w) \/ SignInConvert(w) \/ AnonymousInsert(w)
        PROVE  SessionsInv'
    <2>1. /\ TablesFit' /\ UNCHANGED <<sessions, members, tokens, entered, lane>> /\ slip.raced' = slip.raced
          /\ work[w].pc \in {"signin", "insert"}
      BY <1>0, <1>2, AccountsStep
    <2>2. PICK r : /\ ReadHolds(r, sessions) /\ work' = [work EXCEPT ![w] = r]
                   /\ (r.pc = "idle" \/ (r.pc = "mint" /\ r.session = None
                                        /\ r.claim = work[w].claim /\ r.header = work[w].header))
      BY <1>0, <1>2, AccountsStep
    <2>3. OnLane(r, sessions, entered)
      BY <1>0, <2>1, <2>2 DEF OnLane, LanesKept
    <2> QED BY <1>0, <2>1, <2>2, <2>3, QuietMoves
  <1>3. ASSUME NEW w \in Workers, merge_into(w) PROVE SessionsInv'
    <2>1. /\ TablesFit' /\ SameTokens(sessions, sessions') /\ UNCHANGED <<members, tokens, entered, lane>>
          /\ slip.raced' = slip.raced /\ work[w].pc = "signin"
      BY <1>0, <1>3, MergeFits
    <2>2. PICK r : /\ ReadHolds(r, sessions) /\ work' = [work EXCEPT ![w] = r]
                   /\ (r.pc = "idle" \/ (r.pc = "mint" /\ r.session = None
                                        /\ r.claim = work[w].claim /\ r.header = work[w].header))
      BY <1>0, <1>3, MergeFits
    <2>3. OnLane(r, sessions, entered)
      BY <1>0, <2>1, <2>2 DEF OnLane, LanesKept
    <2> QED BY <2>1, <2>2, <2>3, QuietMoves
  <1>4. ASSUME NEW w \in Workers, build_auth_response(w) PROVE SessionsInv'
    BY <1>0, <1>4, MintFits, MintKeeps DEF SessionsInv
  <1>5. ASSUME NEW w \in Workers, NEW i \in Installs, NEW a \in Apps, anonymous_auth(w, i, a) PROVE SessionsInv'
    <2>1. PICK r : /\ ReadHolds(r, sessions) /\ work' = [work EXCEPT ![w] = r] /\ r.claim = mint_claim(r.header)
                   /\ (r.pc = "insert" \/ (r.pc = "mint" /\ r.session = None))
      BY <1>0, <1>5, OthersRead
    <2>2. /\ UNCHANGED <<users, nextId, sessions, members, tokens, usage, carry, calls, entered, lane, spent, converted, charged, slip>>
          /\ OnLane(r, sessions, entered)
      BY <1>5, <2>1 DEF anonymous_auth, OnLane
    <2>3. TablesFit'
      BY <1>0, <2>2 DEF TablesFit
    <2> QED BY <1>0, <2>1, <2>2, <2>3, QuietMoves
  <1>6. ASSUME NEW w \in Workers, NEW s \in DOMAIN sessions, NEW h \in Apps \cup {None}, refresh_token(w, s, h)
        PROVE  SessionsInv'
    <2>1. PICK r : /\ ReadHolds(r, sessions) /\ work' = [work EXCEPT ![w] = r] /\ r.pc = "revoke"
                   /\ r.id = sessions[r.session].user
      BY <1>0, <1>6, OthersRead
    <2>2. /\ UNCHANGED <<users, nextId, sessions, members, tokens, usage, carry, calls, entered, lane, spent, converted, charged, slip>>
          /\ OnLane(r, sessions, entered)
      BY <1>6, <2>1 DEF refresh_token, OnLane
    <2>3. TablesFit'
      BY <1>0, <2>2 DEF TablesFit
    <2> QED BY <1>0, <2>1, <2>2, <2>3, QuietMoves
  <1>7. ASSUME NEW w \in Workers, RefreshRevoke(w) PROVE SessionsInv'
    BY <1>0, <1>7, RevokeFits, RevokeKeeps DEF SessionsInv
  <1>8. ASSUME NEW w \in Workers, NEW t \in tokens, NEW h \in Apps \cup {None}, CallStart(w, t, h) PROVE SessionsInv'
    <2>1. PICK r : /\ ReadHolds(r, sessions) /\ work' = [work EXCEPT ![w] = r] /\ r.pc = "call"
                   /\ r.id = t.id /\ r.claim = t.claim /\ ~refuse_reason(r.claim, r.header)
      BY <1>0, <1>8, OthersRead
    <2>2. Entered(r.id, r.claim, entered)
      BY <1>0, <2>1 DEF LanesKept
    <2>3. /\ UNCHANGED <<users, nextId, sessions, members, tokens, usage, carry, calls, entered, lane, spent, converted, charged, slip>>
          /\ OnLane(r, sessions, entered)
      BY <1>8, <2>1, <2>2 DEF CallStart, OnLane
    <2>4. TablesFit'
      BY <1>0, <2>3 DEF TablesFit
    <2> QED BY <1>0, <2>1, <2>3, <2>4, QuietMoves
  <1>9. ASSUME NEW w \in Workers, CallEnd(w) PROVE SessionsInv'
    <2>1. /\ TablesFit' /\ UNCHANGED <<sessions, members, tokens, entered>> /\ slip.raced' = slip.raced
          /\ work' = [work EXCEPT ![w] = Idle] /\ work[w].pc = "call"
      BY <1>0, <1>9, CallFits
    <2>2. OnLane(work[w], sessions, entered)
      BY <1>0 DEF LanesKept
    <2>3. lane' = IF work[w].claim = None \/ work[w].header = None THEN lane
                  ELSE lane \cup {<<work[w].id, work[w].header>>}
      BY <1>9 DEF CallEnd
    <2>4. StrictLaneEntered'
      <3>1. (work[w].claim # None /\ work[w].header \in Strict) => <<work[w].id, work[w].header>> \in entered
        BY <2>1, <2>2, SessionsAssumption DEF OnLane, Entered, refuse_reason
      <3> QED BY <1>0, <2>1, <2>3, <3>1 DEF LanesKept, StrictLaneEntered
    <2>5. HandsFit'
      BY <1>0, <1>i, <2>1, OneHandMoves
    <2>6. \A v \in Workers : work'[v] = IF v = w THEN Idle ELSE work[v]
      BY <1>0, <2>1 DEF HandsFit
    <2>7. LanesKept'
      BY <1>0, <1>i, <2>1, <2>4, <2>6 DEF LanesKept
    <2>8. \A v \in Workers : \A f : Mints(work'[v], sessions', f) => Mints(work[v], sessions, f)
      BY <1>i, <2>1, <2>6 DEF Mints
    <2>9. OneToken'
      BY <1>0, <2>1, <2>8 DEF OneToken
    <2> QED BY <2>1, <2>5, <2>7, <2>9 DEF SessionsInv
  <1>10. ASSUME NEW w \in Workers, NEW t \in tokens, NEW h \in Apps \cup {None}, delete_account(w, t, h)
         PROVE  SessionsInv'
    <2>1. PICK r : ReadHolds(r, sessions) /\ work' = [work EXCEPT ![w] = r] /\ r.pc = "purge"
      BY <1>0, <1>10, OthersRead
    <2>2. /\ UNCHANGED <<users, nextId, sessions, members, tokens, usage, carry, calls, entered, lane, spent, converted, charged, slip>>
          /\ OnLane(r, sessions, entered)
      BY <1>10, <2>1 DEF delete_account, OnLane
    <2>3. TablesFit'
      BY <1>0, <2>2 DEF TablesFit
    <2> QED BY <1>0, <2>1, <2>2, <2>3, QuietMoves
  <1>11. ASSUME NEW w \in Workers, delete_user_data(w) PROVE SessionsInv'
    <2>1. /\ TablesFit' /\ SameTokens(sessions, sessions') /\ members' \subseteq members
          /\ UNCHANGED <<tokens, entered, lane>> /\ slip.raced' = slip.raced
          /\ work' = [work EXCEPT ![w] = Idle]
      BY <1>0, <1>11, DeletionFits
    <2> QED BY <1>i, <2>1, QuietMoves
  <1>12. ASSUME NEW u \in Ids, NEW a \in Strict, NEW w \in Workers, Age(u, a) PROVE SessionsInv'
    <2>1. TablesFit' /\ UNCHANGED <<sessions, members, tokens, entered, lane, slip, work>>
      BY <1>0, <1>12, RetentionFits
    <2> QED BY <1>0, <2>1 DEF SessionsInv, HandsFit, LanesKept, StrictLaneEntered, OneToken
  <1>13. ASSUME NEW w \in Workers, NEW u \in Ids, NEW a \in Strict, SweepRead(w, u, a) PROVE SessionsInv'
    <2>1. PICK r : ReadHolds(r, sessions) /\ work' = [work EXCEPT ![w] = r] /\ r.pc = "sweep"
      BY <1>0, <1>13, OthersRead
    <2>2. /\ UNCHANGED <<users, nextId, sessions, members, tokens, usage, carry, calls, entered, lane, spent, converted, charged, slip>>
          /\ OnLane(r, sessions, entered)
      BY <1>13, <2>1 DEF SweepRead, OnLane
    <2>3. TablesFit'
      BY <1>0, <2>2 DEF TablesFit
    <2> QED BY <1>0, <2>1, <2>2, <2>3, QuietMoves
  <1>14. ASSUME NEW w \in Workers, expire_old_usage_rows(w) PROVE SessionsInv'
    <2>1. /\ TablesFit' /\ UNCHANGED <<sessions, members, tokens, entered, lane>> /\ slip.raced' = slip.raced
          /\ work' = [work EXCEPT ![w] = Idle]
      BY <1>0, <1>14, RetentionFits
    <2> QED BY <1>0, <1>i, <2>1, QuietMoves
  <1>15. ASSUME NEW t \in tokens, Buy(t) PROVE SessionsInv'
    <2>1. t.id \in Ids /\ users[t.id] \in Row
      BY <1>0, <1>15 DEF Buy, get_current_user, TablesFit
    <2>2. PICK y \in BOOLEAN : y = TRUE
      OBVIOUS
    <2>3. PICK x : x = [users[t.id] EXCEPT !.paid = y, !.used = 0]
      OBVIOUS
    <2>4. x \in Row
      BY <2>1, <2>3 DEF Row
    <2>5. users' = [users EXCEPT ![t.id] = x]
      BY <1>15, <2>2, <2>3 DEF Buy
    <2>6. /\ UNCHANGED <<nextId, sessions, members, tokens, usage, carry, calls, work, entered, lane>>
          /\ DOMAIN slip' = DOMAIN slip /\ slip.raced' = slip.raced
      BY <1>0, <1>15 DEF Buy, TablesFit
    <2>7. TablesFit'
      BY <1>0, <2>4, <2>5, <2>6 DEF TablesFit
    <2> QED BY <1>0, <2>6, <2>7 DEF SessionsInv, HandsFit, LanesKept, StrictLaneEntered, OneToken
  <1>16. CASE UNCHANGED sessionVars
    BY <1>0, <1>16 DEF sessionVars, SessionsInv, TablesFit, HandsFit, LanesKept, StrictLaneEntered, OneToken
  <1> QED BY <1>1, <1>2, <1>3, <1>4, <1>5, <1>6, <1>7, <1>8, <1>9, <1>10, <1>11, <1>12, <1>13, <1>14, <1>15, <1>16
          DEF SessionsNext, SignIn, Anonymous, Refresh, Call, Deletion, Retention

(* The first deployment, with or without a session from before tokens named their app.   *)
LEMMA SessionsStart == SessionsInit => SessionsInv
  <1> SUFFICES ASSUME SessionsInit PROVE SessionsInv
    OBVIOUS
  <1> USE SessionsAssumption
  <1>1. /\ users \in [Ids -> Row \cup {None}] /\ nextId \in 1 .. MaxIds + 1
        /\ sessions \in Seq(Tokens) /\ Len(sessions) <= 1
        /\ \A s \in DOMAIN sessions : s = 1 /\ sessions[s].family = 1 /\ sessions[s].app = None
        /\ tokens \subseteq [id : Ids, claim : {None}]
    <2>1. PICK legacy \in BOOLEAN :
             IF legacy
             THEN /\ users = [u \in Ids |-> IF u = 1 THEN Legacy ELSE None]
                  /\ nextId = 2
                  /\ sessions = <<[user |-> 1, app |-> None, live |-> TRUE, gone |-> FALSE, family |-> 1]>>
                  /\ tokens = {[id |-> 1, claim |-> None]}
             ELSE users = [u \in Ids |-> None] /\ nextId = 1 /\ sessions = << >> /\ tokens = {}
      BY DEF SessionsInit
    <2>2. CASE ~legacy
      BY <2>1, <2>2
    <2>3. CASE legacy
      <3>1. PICK t \in BOOLEAN : t = TRUE
        OBVIOUS
      <3>2. PICK f \in BOOLEAN : f = FALSE
        OBVIOUS
      <3>3. PICK x \in AppleIds : x = CHOOSE y \in AppleIds : TRUE
        OBVIOUS
      <3>4. Legacy = [sub |-> AppleSub(x), active |-> t, paid |-> f, used |-> 0]
        BY <3>1, <3>2, <3>3 DEF Legacy
      <3>5. AppleSub(x) \in Subs
        BY DEF Subs
      <3>6. Legacy \in Row
        BY <3>4, <3>5 DEF Row
      <3>7. 1 \in Ids /\ 2 \in 1 .. MaxIds + 1
        BY DEF Ids
      <3>8. PICK r \in Tokens : r = [user |-> 1, app |-> None, live |-> t, gone |-> f, family |-> 1]
        BY <3>7 DEF Tokens
      <3>9. sessions = <<r>> /\ r.family = 1 /\ r.app = None
        BY <2>1, <2>3, <3>1, <3>2, <3>8
      <3>10. sessions \in Seq(Tokens) /\ Len(sessions) = 1 /\ \A s \in DOMAIN sessions : s = 1 /\ sessions[s] = r
        BY <3>9
      <3>11. users \in [Ids -> Row \cup {None}] /\ nextId \in 1 .. MaxIds + 1
        BY <2>1, <2>3, <3>6, <3>7
      <3>12. tokens \subseteq [id : Ids, claim : {None}]
        BY <2>1, <2>3, <3>7
      <3> QED BY <3>9, <3>10, <3>11, <3>12
    <2> QED BY <2>2, <2>3
  <1>2. usage \in [Ids -> [Strict -> [recent : Nat, old : Nat]]]
    BY DEF SessionsInit, NoUsage
  <1>3. DOMAIN slip = {"raced", "rival", "leak", "bought"} /\ slip.raced = {}
    BY DEF SessionsInit
  <1>4. TablesFit
    BY <1>1, <1>2, <1>3 DEF SessionsInit, TablesFit, Claims
  <1>5. \A w \in Workers : work[w] = Idle
    BY DEF SessionsInit
  <1>6. HandsFit
    BY <1>5, IdleHolds DEF SessionsInit, HandsFit, ReadHolds
  <1>7. LanesKept
    <2>1. \A t \in tokens : t.claim = None
      BY <1>1
    <2>2. \A w \in Workers : OnLane(work[w], sessions, entered)
      BY <1>5 DEF OnLane, Idle
    <2>3. None \notin Strict
      OBVIOUS
    <2> QED BY <1>1, <2>1, <2>2, <2>3 DEF LanesKept, Entered, StrictLaneEntered, SessionsInit
  <1>8. OneToken
    <2>1. \A w \in Workers, f \in Nat : ~Mints(work[w], sessions, f)
      BY <1>5 DEF Mints, Idle
    <2> QED BY <1>1, <2>1 DEF OneToken
  <1> QED BY <1>4, <1>6, <1>7, <1>8 DEF SessionsInv

(* Two refresh tokens are two members of the set of live ones, and more than one of      *)
(* them means two that differ.                                                           *)
LEMMA MoreThanOne ==
    ASSUME NEW S, \A s, t \in S : s = t, Cardinality(S) > 1
    PROVE  FALSE
  <1>1. CASE S = {}
    BY <1>1, FS_EmptySet
  <1>2. CASE S # {}
    <2>1. PICK s \in S : S = {s}
      BY <1>2
    <2>2. Cardinality({s}) = 1
      BY FS_Singleton
    <2> QED BY <2>1, <2>2
  <1> QED BY <1>1, <1>2

(* An account is served on a strict app's lane, on a token with a claim, only if it       *)
(* signed in or was minted under that app; and of the refresh tokens that descend from    *)
(* one sign-in one at most is live, unless one was presented twice at once (apple_auth,    *)
(* anonymous_auth, refresh_token, refresh_scope, get_current_user).                       *)
THEOREM SignInsHold == SessionsSpec => []SignInHolds
  <1>1. SessionsInv => SignInHolds
    <2> SUFFICES ASSUME SessionsInv PROVE SignInHolds
      OBVIOUS
    <2>1. SessionsTypeOK
      <3>1. ASSUME NEW s \in DOMAIN sessions PROVE sessions[s].user \in Ids /\ sessions[s].family \in 1 .. s
        <4>1. sessions[s] \in Tokens
          BY DEF SessionsInv, TablesFit
        <4> QED BY <4>1 DEF Tokens, SessionsInv, TablesFit
      <3> QED BY <3>1 DEF SessionsInv, TablesFit, SessionsTypeOK
    <2>2. StrictLaneEntered
      BY DEF SessionsInv, LanesKept
    <2>3. OneLivePerSignIn
      <3> SUFFICES ASSUME NEW f \in DOMAIN sessions, f \notin slip.raced,
                          Cardinality({s \in DOMAIN sessions : sessions[s].family = f /\ sessions[s].live}) > 1
                   PROVE  FALSE
        BY DEF OneLivePerSignIn
      <3>1. f \in Nat
        BY DEF SessionsInv, TablesFit
      <3> DEFINE S == {s \in DOMAIN sessions : sessions[s].family = f /\ sessions[s].live}
      <3>2. \A s, t \in S : s = t
        BY <3>1 DEF SessionsInv, OneToken
      <3> HIDE DEF S
      <3>3. Cardinality(S) > 1
        BY DEF S
      <3> QED BY <3>2, <3>3, MoreThanOne
    <2> QED BY <2>1, <2>2, <2>3 DEF SignInHolds
  <1> QED BY <1>1, SessionsStart, SessionsStep, PTL DEF SessionsSpec

-----------------------------------------------------------------------------
(* Money: the plan with its meter, and what a signed-out phone has spent.                 *)

AppleSubs == {AppleSub(x) : x \in AppleIds}

(* An account that is still a phone's is the phone it was.                                *)
SubKept(u, sub, U) == (U[u] # None /\ U[u].sub \in AnonSubs) => U[u].sub = sub

(* What a handler that has read an account still knows of it when it writes.               *)
Knows(r, U, n) ==
    /\ r.pc \in {"mint", "revoke", "call", "purge", "sweep"} => r.id < n
    /\ r.pc = "signin" => r.sub \in AppleSubs
    /\ (r.pc = "signin" /\ r.id # None) => r.id < n /\ r.row.sub = r.sub
    /\ (r.pc = "signin" /\ r.anon # None) => r.anon < n /\ r.anonRow.sub \in AnonSubs /\ r.anonRow.active
    /\ r.pc = "insert" => r.sub \in AnonSubs
    /\ r.pc = "call" => SubKept(r.id, r.row.sub, U)
    /\ r.pc = "purge" => SubKept(r.id, r.sub, U) /\ \A a \in Strict : r.header \notin {None, a} => r.sum[a] = 0
    /\ r.pc = "sweep" => \A a \in Strict : a # r.header => r.sum[a] = 0

(* The phone's account a sign-in brings along has no plan.                                  *)
BringsNoPlan(r) == (r.pc = "signin" /\ r.anon # None) => ~r.anonRow.paid

(* Ids and subjects belong to one account each, and nobody has spent on an id to come.     *)
OwnersKept ==
    /\ spent \in [AnonSubs -> Int] /\ converted \in [AnonSubs -> Int] /\ charged \in Nat
    /\ \A u \in Ids : u >= nextId => users[u] = None /\ \A a \in Strict : Spend(u, a) = 0
    /\ \A u, v \in Ids : (users[u] # None /\ users[v] # None /\ users[u].sub = users[v].sub) => u = v
    /\ \A t \in tokens : t.id < nextId
    /\ \A s \in DOMAIN sessions : sessions[s].user < nextId
    /\ \A w \in Workers : Knows(work[w], users, nextId)

(* Before anything is bought nobody holds a plan; afterwards, short of a race, one open     *)
(* account does, and a closed account is a phone's.                                        *)
PlanHeld ==
    /\ ~slip.bought => /\ \A u \in Ids : users[u] # None => ~users[u].paid
                       /\ \A w \in Workers : BringsNoPlan(work[w])
    /\ ~slip.rival =>
          /\ \A u, v \in Ids : (users[u] # None /\ users[v] # None /\ users[u].paid /\ users[v].paid) => u = v
          /\ \A u \in Ids : (users[u] # None /\ users[u].paid) => users[u].active /\ users[u].used = charged
          /\ \A u \in Ids : (users[u] # None /\ ~users[u].active) => users[u].sub \in AnonSubs

(* What the gate should still hold against a phone: all it spent, less what left with the    *)
(* accounts that were converted.                                                            *)
Owed(s) == spent[s] - converted[s]

(* Short of a race, that is what was carried and what its account shows.                     *)
SpendHeld ==
    ~slip.leak => \A s \in AnonSubs : s[3] \in Strict =>
        /\ \A u \in Ids : (users[u] # None /\ users[u].sub = s) => carry[s][s[3]] + Spend(u, s[3]) = Owed(s)
        /\ (\A u \in Ids : users[u] = None \/ users[u].sub # s) => carry[s][s[3]] = Owed(s)

MoneyInv == SessionsInv /\ OwnersKept /\ PlanHeld /\ SpendHeld

(* No Apple subject is a phone's.                                                          *)
LEMMA SubsDiffer == AppleSubs \cap AnonSubs = {} /\ AppleSubs \subseteq Subs /\ AnonSubs \subseteq Subs
  <1>1. ASSUME NEW x \in AppleIds, NEW i \in Installs, NEW a \in Apps PROVE AppleSub(x) # AnonSub(i, a)
    <2>1. AppleSub(x)[1] = "apple" /\ AnonSub(i, a)[1] = "anon"
      BY DEF AppleSub, AnonSub
    <2> QED BY <2>1
  <1> QED BY <1>1 DEF AppleSubs, AnonSubs, Subs

(* The account with this subject, when there is one.                                       *)
LEMMA IdOfOwns ==
    ASSUME TablesFit, NEW sub
    PROVE  /\ IdOf(sub) # None => IdOf(sub) \in Ids /\ users[IdOf(sub)] # None /\ users[IdOf(sub)].sub = sub
           /\ IdOf(sub) = None => \A u \in Ids : users[u] = None \/ users[u].sub # sub
  <1> DEFINE S == {u \in Ids : users[u] # None /\ users[u].sub = sub}
  <1>1. CASE S = {}
    BY <1>1 DEF IdOf
  <1>2. CASE S # {}
    <2>1. IdOf(sub) \in S
      BY <1>2 DEF IdOf
    <2>2. None \notin Ids
      BY SessionsAssumption DEF Ids
    <2> QED BY <2>1, <2>2
  <1> QED BY <1>1, <1>2

(* Accounts that were there stay the phone's or the person's they were, or are gone.         *)
Steady(U, V, n) ==
    \A u \in Ids : (u < n /\ V[u] # None /\ V[u].sub \in AnonSubs) => U[u] # None /\ U[u].sub = V[u].sub

(* What a handler knows stays true while accounts are steady.                               *)
LEMMA KnowsStill ==
    ASSUME NEW r, NEW U, NEW V, NEW n \in Nat, NEW k \in Nat, NEW table, ReadHolds(r, table), Knows(r, U, n),
           Steady(U, V, n), n <= k
    PROVE  Knows(r, V, k)
  <1>1. r.pc \in {"mint", "revoke", "call", "purge", "sweep"} => r.id \in Nat /\ r.id \in Ids
    BY DEF ReadHolds, Ids
  <1>2. (r.pc = "signin" /\ r.id # None) => r.id \in Nat
    BY DEF ReadHolds, Reads, Ids
  <1>3. (r.pc = "signin" /\ r.anon # None) => r.anon \in Nat
    BY DEF ReadHolds, Reads, Ids
  <1> QED BY <1>1, <1>2, <1>3 DEF Knows, Steady, SubKept

(* A handler at rest has read nothing.                                                      *)
LEMMA IdleKnows == ASSUME NEW U, NEW n PROVE Knows(Idle, U, n)
  BY DEF Knows, Idle

(* One handler moves, and what the others know is still true.                               *)
LEMMA HandsKnow ==
    ASSUME SessionsInv, OwnersKept, NEW w \in Workers, NEW r, work' = [work EXCEPT ![w] = r],
           Knows(r, users', nextId'), Steady(users, users', nextId), nextId' \in Nat, nextId <= nextId'
    PROVE  \A v \in Workers : Knows(work'[v], users', nextId')
  <1>1. ASSUME NEW v \in Workers PROVE Knows(work'[v], users', nextId')
    <2>1. CASE v = w
      BY <2>1 DEF SessionsInv, HandsFit
    <2>2. CASE v # w
      <3>1. work'[v] = work[v] /\ ReadHolds(work[v], sessions) /\ Knows(work[v], users, nextId) /\ nextId \in Nat
        BY <2>2 DEF SessionsInv, HandsFit, OwnersKept, TablesFit
      <3> QED BY <3>1, KnowsStill
    <2> QED BY <2>1, <2>2
  <1> QED BY <1>1

(* A handler about to mint knows which account for.                                         *)
LEMMA ToMintKnows ==
    ASSUME NEW w, NEW id, NEW U, NEW n, ToMint(w, id), id < n
    PROVE  \E r : work' = [work EXCEPT ![w] = r] /\ r.pc = "mint" /\ Knows(r, U, n)
  <1> DEFINE r == [Idle EXCEPT !.pc = "mint", !.id = id, !.header = work[w].header, !.claim = work[w].claim]
  <1>1. work' = [work EXCEPT ![w] = r]
    BY DEF ToMint
  <1>2. r.pc = "mint" /\ r.id = id
    BY DEF Idle
  <1> HIDE DEF r
  <1>3. Knows(r, U, n)
    BY <1>2 DEF Knows
  <1> QED BY <1>1, <1>2, <1>3

(* No handler brings a plan along when the one that moves does not.                         *)
LEMMA NobodyBringsAPlan ==
    ASSUME HandsFit, NEW w \in Workers, NEW r, work' = [work EXCEPT ![w] = r], BringsNoPlan(r),
           \A v \in Workers : BringsNoPlan(work[v])
    PROVE  \A v \in Workers : BringsNoPlan(work'[v])
  <1>1. \A v \in Workers : work'[v] = IF v = w THEN r ELSE work[v]
    BY DEF HandsFit
  <1> QED BY <1>1

(* A handler that reads, mints or revokes moves no money.                                   *)
LEMMA MoneyStays ==
    ASSUME MoneyInv, SessionsInv', NEW w \in Workers, NEW r, work' = [work EXCEPT ![w] = r],
           Knows(r, users, nextId), ~slip.bought => BringsNoPlan(r),
           UNCHANGED <<users, nextId, usage, carry, spent, converted, charged>>,
           slip'.rival = slip.rival, slip'.leak = slip.leak, slip'.bought = slip.bought,
           \A t \in tokens' : t.id < nextId, \A s \in DOMAIN sessions' : sessions'[s].user < nextId
    PROVE  MoneyInv'
  <1>1. Steady(users, users', nextId) /\ nextId' \in Nat /\ nextId <= nextId' /\ Knows(r, users', nextId')
    BY DEF Steady, MoneyInv, SessionsInv, TablesFit
  <1>2. \A v \in Workers : Knows(work'[v], users', nextId')
    BY <1>1, HandsKnow DEF MoneyInv
  <1>3. OwnersKept'
    BY <1>2 DEF OwnersKept, MoneyInv, Spend
  <1>4. ~slip.bought => \A v \in Workers : BringsNoPlan(work'[v])
    BY NobodyBringsAPlan DEF MoneyInv, SessionsInv, PlanHeld
  <1>5. PlanHeld'
    BY <1>4 DEF PlanHeld, MoneyInv
  <1>6. SpendHeld'
    BY DEF SpendHeld, MoneyInv, Spend, Owed
  <1> QED BY <1>3, <1>5, <1>6 DEF MoneyInv

(* The money that a handler moves.                                                          *)
moneyVars == <<users, nextId, usage, carry, spent, converted, charged, slip, tokens, sessions>>

(* What the handlers know when they have read.                                              *)
LEMMA ReadsMoveNoMoney ==
    ASSUME MoneyInv, SessionsInv', NEW w \in Workers,
           \/ \E x \in AppleIds, h \in Apps \cup {None}, t \in tokens \cup {None} : apple_auth(w, x, h, t)
           \/ \E i \in Installs, a \in Apps : anonymous_auth(w, i, a)
           \/ \E s \in DOMAIN sessions, h \in Apps \cup {None} : refresh_token(w, s, h)
           \/ \E t \in tokens, h \in Apps \cup {None} : CallStart(w, t, h) \/ delete_account(w, t, h)
           \/ \E u \in Ids, a \in Strict : SweepRead(w, u, a)
    PROVE  MoneyInv'
  <1>0. TablesFit /\ HandsFit /\ OwnersKept /\ nextId \in Nat /\ None \notin Ids
    <2>1. TablesFit /\ HandsFit /\ OwnersKept
      BY DEF MoneyInv, SessionsInv
    <2>2. nextId \in Nat
      BY <2>1 DEF TablesFit
    <2>3. None \notin Ids
      BY SessionsAssumption DEF Ids
    <2> QED BY <2>1, <2>2, <2>3
  <1>1. UNCHANGED moneyVars
    BY DEF moneyVars, apple_auth, anonymous_auth, refresh_token, CallStart, delete_account, SweepRead
  <1>2. SUFFICES \E r : work' = [work EXCEPT ![w] = r] /\ Knows(r, users, nextId) /\ (~slip.bought => BringsNoPlan(r))
    <2>1. /\ UNCHANGED <<users, nextId, usage, carry, spent, converted, charged>>
          /\ slip'.rival = slip.rival /\ slip'.leak = slip.leak /\ slip'.bought = slip.bought
          /\ (\A t \in tokens' : t.id < nextId) /\ (\A s \in DOMAIN sessions' : sessions'[s].user < nextId)
      BY <1>0, <1>1 DEF moneyVars, OwnersKept
    <2> QED BY <2>1, MoneyStays
  <1>3. \A u \in Ids : users[u] # None => u < nextId
    BY <1>0 DEF OwnersKept, Ids
  <1>4. ASSUME NEW x \in AppleIds, NEW h \in Apps \cup {None}, NEW t \in tokens \cup {None}, apple_auth(w, x, h, t)
        PROVE  \E r : work' = [work EXCEPT ![w] = r] /\ Knows(r, users, nextId) /\ (~slip.bought => BringsNoPlan(r))
    <2>1. PICK sub \in AppleSubs : sub = AppleSub(x)
      BY DEF AppleSubs
    <2>2. PICK id : id = IdOf(sub)
      OBVIOUS
    <2>3. PICK anon : anon = anonymous_from_token(t)
      OBVIOUS
    <2>4. PICK row : row = IF id = None THEN None ELSE users[id]
      OBVIOUS
    <2>5. PICK anonRow : anonRow = IF anon = None THEN None ELSE users[anon]
      OBVIOUS
    <2>6. id # None => id < nextId /\ row.sub = sub
      BY <1>0, <1>3, <2>2, <2>4, IdOfOwns
    <2>7. anon # None => anon \in Ids /\ users[anon] # None /\ anonRow = users[anon] /\ anonRow.sub \in AnonSubs /\ anonRow.active
      <3>1. t # None => t.id \in Ids
        BY <1>0 DEF TablesFit
      <3> QED BY <2>3, <2>5, <3>1 DEF anonymous_from_token, IsAnonymous
    <2>8. (~slip.bought /\ anon # None) => ~anonRow.paid
      BY <2>7 DEF MoneyInv, PlanHeld
    <2> DEFINE r == [Idle EXCEPT !.pc = "signin", !.sub = sub, !.header = h, !.claim = mint_claim(h), !.id = id,
                                 !.row = row, !.anon = anon, !.anonRow = anonRow]
    <2>9. work' = [work EXCEPT ![w] = r]
      BY <1>4, <2>1, <2>2, <2>3, <2>4, <2>5 DEF apple_auth, Start, Begin
    <2>10. r.pc = "signin" /\ r.sub = sub /\ r.id = id /\ r.row = row /\ r.anon = anon /\ r.anonRow = anonRow
      BY DEF Idle
    <2> HIDE DEF r
    <2>11. Knows(r, users, nextId) /\ (~slip.bought => BringsNoPlan(r))
      BY <1>3, <2>1, <2>6, <2>7, <2>8, <2>10 DEF Knows, BringsNoPlan
    <2> QED BY <2>9, <2>11
  <1>5. ASSUME NEW i \in Installs, NEW a \in Apps, anonymous_auth(w, i, a)
        PROVE  \E r : work' = [work EXCEPT ![w] = r] /\ Knows(r, users, nextId) /\ (~slip.bought => BringsNoPlan(r))
    <2>1. PICK sub \in AnonSubs : sub = AnonSub(i, a)
      BY DEF AnonSubs
    <2>2. PICK id : id = IdOf(sub)
      OBVIOUS
    <2>3. PICK pc \in {"insert", "mint"} : pc = IF id = None THEN "insert" ELSE "mint"
      OBVIOUS
    <2>4. id # None => id < nextId
      BY <1>0, <1>3, <2>2, IdOfOwns
    <2> DEFINE r == [Idle EXCEPT !.pc = pc, !.id = id, !.sub = sub, !.header = a, !.claim = a]
    <2>5. work' = [work EXCEPT ![w] = r]
      BY <1>5, <2>1, <2>2, <2>3 DEF anonymous_auth, Start, Begin
    <2>6. r.pc = pc /\ r.id = id /\ r.sub = sub
      BY DEF Idle
    <2> HIDE DEF r
    <2>7. Knows(r, users, nextId) /\ BringsNoPlan(r)
      BY <2>3, <2>4, <2>6 DEF Knows, BringsNoPlan
    <2> QED BY <2>5, <2>7
  <1>6. ASSUME NEW s \in DOMAIN sessions, NEW h \in Apps \cup {None}, refresh_token(w, s, h)
        PROVE  \E r : work' = [work EXCEPT ![w] = r] /\ Knows(r, users, nextId) /\ (~slip.bought => BringsNoPlan(r))
    <2>1. PICK u : u = sessions[s].user /\ u < nextId
      BY <1>0 DEF OwnersKept
    <2> DEFINE r == [Idle EXCEPT !.pc = "revoke", !.session = s, !.id = u, !.header = h]
    <2>2. work' = [work EXCEPT ![w] = r]
      BY <1>6, <2>1 DEF refresh_token, Start, Begin
    <2>3. r.pc = "revoke" /\ r.id = u
      BY DEF Idle
    <2> HIDE DEF r
    <2>4. Knows(r, users, nextId) /\ BringsNoPlan(r)
      BY <2>1, <2>3 DEF Knows, BringsNoPlan
    <2> QED BY <2>2, <2>4
  <1>7. ASSUME NEW t \in tokens, NEW h \in Apps \cup {None}, CallStart(w, t, h)
        PROVE  \E r : work' = [work EXCEPT ![w] = r] /\ Knows(r, users, nextId) /\ (~slip.bought => BringsNoPlan(r))
    <2>1. PICK u : u = t.id /\ u < nextId
      BY <1>0 DEF OwnersKept
    <2>2. PICK row : row = users[u]
      OBVIOUS
    <2> DEFINE r == [Idle EXCEPT !.pc = "call", !.id = u, !.header = h, !.claim = t.claim, !.row = row]
    <2>3. work' = [work EXCEPT ![w] = r]
      BY <1>7, <2>1, <2>2 DEF CallStart, Begin
    <2>4. r.pc = "call" /\ r.id = u /\ r.row = row
      BY DEF Idle
    <2> HIDE DEF r
    <2>5. Knows(r, users, nextId) /\ BringsNoPlan(r)
      BY <2>1, <2>2, <2>4 DEF Knows, BringsNoPlan, SubKept
    <2> QED BY <2>3, <2>5
  <1>8. ASSUME NEW t \in tokens, NEW h \in Apps \cup {None}, delete_account(w, t, h)
        PROVE  \E r : work' = [work EXCEPT ![w] = r] /\ Knows(r, users, nextId) /\ (~slip.bought => BringsNoPlan(r))
    <2>1. PICK u : u = t.id /\ u < nextId
      BY <1>0 DEF OwnersKept
    <2>2. PICK sub : sub = users[u].sub
      OBVIOUS
    <2>3. PICK sum : sum = carry_spend_before_delete(u, h)
      OBVIOUS
    <2>4. \A a \in Strict : h \notin {None, a} => sum[a] = 0
      BY <2>3 DEF carry_spend_before_delete
    <2> DEFINE r == [Idle EXCEPT !.pc = "purge", !.id = u, !.header = h, !.sub = sub, !.sum = sum]
    <2>5. work' = [work EXCEPT ![w] = r]
      BY <1>8, <2>1, <2>2, <2>3 DEF delete_account, Begin
    <2>6. r.pc = "purge" /\ r.id = u /\ r.sub = sub /\ r.sum = sum /\ r.header = h
      BY DEF Idle
    <2> HIDE DEF r
    <2>7. Knows(r, users, nextId) /\ BringsNoPlan(r)
      BY <2>1, <2>2, <2>4, <2>6 DEF Knows, BringsNoPlan, SubKept
    <2> QED BY <2>5, <2>7
  <1>9. ASSUME NEW u \in Ids, NEW a \in Strict, SweepRead(w, u, a)
        PROVE  \E r : work' = [work EXCEPT ![w] = r] /\ Knows(r, users, nextId) /\ (~slip.bought => BringsNoPlan(r))
    <2>1. u < nextId
      <3>1. usage[u][a] \in [recent : Nat, old : Nat]
        BY <1>0 DEF TablesFit
      <3>2. usage[u][a].old > 0
        BY <1>9 DEF SweepRead
      <3>3. Spend(u, a) # 0
        BY <3>1, <3>2 DEF Spend
      <3> QED BY <1>0, <3>3 DEF OwnersKept, Ids
    <2>2. PICK sub : sub = owner(u)
      OBVIOUS
    <2>3. PICK sum : sum = [b \in Strict |-> IF b = a THEN usage[u][a].old ELSE 0]
      OBVIOUS
    <2> DEFINE r == [Idle EXCEPT !.pc = "sweep", !.id = u, !.header = a, !.sub = sub, !.sum = sum]
    <2>4. work' = [work EXCEPT ![w] = r]
      BY <1>9, <2>2, <2>3 DEF SweepRead, Begin
    <2>5. r.pc = "sweep" /\ r.id = u /\ r.sum = sum /\ r.header = a
      BY DEF Idle
    <2> HIDE DEF r
    <2>6. Knows(r, users, nextId) /\ BringsNoPlan(r)
      BY <2>1, <2>3, <2>5 DEF Knows, BringsNoPlan
    <2> QED BY <2>4, <2>6
  <1> QED BY <1>4, <1>5, <1>6, <1>7, <1>8, <1>9

(* A token is minted, revoked, or about to be minted for a person the table knows.          *)
LEMMA MintsMoveNoMoney ==
    ASSUME MoneyInv, SessionsInv', NEW w \in Workers, SignInKnown(w) \/ build_auth_response(w) \/ RefreshRevoke(w)
    PROVE  MoneyInv'
  <1>0. TablesFit /\ HandsFit /\ OwnersKept /\ Knows(work[w], users, nextId)
    BY DEF MoneyInv, SessionsInv, OwnersKept
  <1>1. CASE SignInKnown(w)
    <2>1. work[w].id < nextId
      BY <1>0, <1>1 DEF SignInKnown, Knows
    <2>2. PICK r : work' = [work EXCEPT ![w] = r] /\ r.pc = "mint" /\ Knows(r, users, nextId)
      BY <1>1, <2>1, ToMintKnows DEF SignInKnown
    <2>3. BringsNoPlan(r)
      BY <2>2 DEF BringsNoPlan
    <2>4. UNCHANGED moneyVars
      BY <1>1 DEF moneyVars, SignInKnown
    <2>5. /\ UNCHANGED <<users, nextId, usage, carry, spent, converted, charged>>
          /\ slip'.rival = slip.rival /\ slip'.leak = slip.leak /\ slip'.bought = slip.bought
          /\ (\A t \in tokens' : t.id < nextId) /\ (\A s \in DOMAIN sessions' : sessions'[s].user < nextId)
      BY <1>0, <2>4 DEF moneyVars, OwnersKept
    <2> QED BY <2>2, <2>3, <2>5, MoneyStays
  <1>2. CASE build_auth_response(w)
    <2>1. work[w].id < nextId
      BY <1>0, <1>2 DEF build_auth_response, Knows
    <2>2. /\ work' = [work EXCEPT ![w] = Idle] /\ UNCHANGED slip
          /\ tokens' = tokens \cup {[id |-> work[w].id, claim |-> work[w].claim]}
      BY <1>0, <1>2, MintFits
    <2>3. PICK x \in Tokens : sessions' = Append(sessions, x) /\ x.user = work[w].id
      BY <1>0, <1>2, MintFits
    <2>4. \A t \in tokens' : t.id < nextId
      BY <1>0, <2>1, <2>2 DEF OwnersKept
    <2>5. \A s \in DOMAIN sessions' : sessions'[s].user < nextId
      <3>1. sessions \in Seq(Tokens)
        BY <1>0 DEF TablesFit
      <3>2. \A s \in DOMAIN sessions' : (s \in DOMAIN sessions /\ sessions'[s] = sessions[s]) \/ sessions'[s] = x
        BY <2>3, <3>1
      <3> QED BY <1>0, <2>1, <2>3, <3>2 DEF OwnersKept
    <2>6. Knows(Idle, users, nextId) /\ BringsNoPlan(Idle)
      BY IdleKnows DEF BringsNoPlan, Idle
    <2>7. UNCHANGED <<users, nextId, usage, carry, spent, converted, charged>>
      BY <1>2 DEF build_auth_response
    <2> QED BY <2>2, <2>4, <2>5, <2>6, <2>7, MoneyStays
  <1>3. CASE RefreshRevoke(w)
    <2>1. SameTokens(sessions, sessions') /\ UNCHANGED tokens
      BY <1>0, <1>3, RevokeFits
    <2>2. PICK r : work' = [work EXCEPT ![w] = r] /\ r.pc = "mint" /\ r.id = work[w].id
      BY <1>0, <1>3, RevokeFits
    <2>3. Knows(r, users, nextId) /\ BringsNoPlan(r)
      BY <1>0, <1>3, <2>2 DEF RefreshRevoke, Knows, BringsNoPlan
    <2>4. (\A t \in tokens' : t.id < nextId) /\ (\A s \in DOMAIN sessions' : sessions'[s].user < nextId)
      BY <1>0, <2>1 DEF SameTokens, OwnersKept
    <2>5. /\ UNCHANGED <<users, nextId, usage, carry, spent, converted, charged>>
          /\ slip'.rival = slip.rival /\ slip'.leak = slip.leak /\ slip'.bought = slip.bought
      BY <1>3 DEF RefreshRevoke
    <2> QED BY <2>2, <2>3, <2>4, <2>5, MoneyStays
  <1> QED BY <1>1, <1>2, <1>3

(* A new account has no plan and has spent nothing.                                         *)
LEMMA NewcomersOweNothing ==
    ASSUME MoneyInv, SessionsInv', NEW w \in Workers, SignInNew(w) \/ AnonymousInsert(w)
    PROVE  MoneyInv'
  <1>0. TablesFit /\ HandsFit /\ OwnersKept /\ Knows(work[w], users, nextId) /\ ReadHolds(work[w], sessions) /\ nextId \in Nat
    <2>1. TablesFit /\ HandsFit /\ OwnersKept /\ Knows(work[w], users, nextId) /\ ReadHolds(work[w], sessions)
      BY DEF MoneyInv, SessionsInv, OwnersKept, HandsFit
    <2> QED BY <2>1 DEF TablesFit
  <1>1. UNCHANGED <<sessions, tokens, usage, carry, spent, converted, charged, slip>>
    BY DEF SignInNew, AnonymousInsert
  <1>2. PICK sub \in Subs : sub = work[w].sub
    BY <1>0 DEF SignInNew, AnonymousInsert, ReadHolds
  <1>3. \/ /\ UNCHANGED <<users, nextId>>
           /\ \/ work' = [work EXCEPT ![w] = Idle]
              \/ \E id \in Ids : id < nextId /\ ToMint(w, id)
        \/ /\ nextId \in Ids /\ nextId' = nextId + 1 /\ ToMint(w, nextId) /\ IdOf(sub) = None
           /\ users' = [users EXCEPT ![nextId] = [sub |-> sub, active |-> TRUE, paid |-> FALSE, used |-> 0]]
    <2>1. nextId <= MaxIds => nextId \in Ids
      BY <1>0, SessionsAssumption DEF TablesFit, Ids
    <2>2. CASE SignInNew(w)
      BY <1>2, <2>1, <2>2 DEF SignInNew, Finish
    <2>3. CASE AnonymousInsert(w)
      <3>1. IdOf(sub) # None => IdOf(sub) \in Ids /\ IdOf(sub) < nextId
        <4>1. IdOf(sub) # None => IdOf(sub) \in Ids /\ users[IdOf(sub)] # None
          BY <1>0, IdOfOwns
        <4> QED BY <1>0, <4>1 DEF OwnersKept, Ids
      <3> QED BY <1>2, <2>1, <2>3, <3>1 DEF AnonymousInsert, Finish
    <2> QED BY <2>2, <2>3
  <1>4. CASE UNCHANGED <<users, nextId>>
    <2>1. nextId + 1 # nextId
      BY <1>0
    <2>2. PICK r : work' = [work EXCEPT ![w] = r] /\ r.pc \in {"idle", "mint"} /\ Knows(r, users, nextId)
      <3>1. CASE work' = [work EXCEPT ![w] = Idle]
        BY <3>1, IdleKnows DEF Idle
      <3>2. CASE \E id \in Ids : id < nextId /\ ToMint(w, id)
        BY <3>2, ToMintKnows
      <3> QED BY <1>3, <1>4, <2>1, <3>1, <3>2
    <2>3. BringsNoPlan(r)
      BY <2>2 DEF BringsNoPlan
    <2>4. (\A t \in tokens' : t.id < nextId) /\ (\A s \in DOMAIN sessions' : sessions'[s].user < nextId)
      BY <1>0, <1>1 DEF OwnersKept
    <2> QED BY <1>1, <1>4, <2>2, <2>3, <2>4, MoneyStays
  <1>5. CASE ~UNCHANGED <<users, nextId>>
    <2> DEFINE n == nextId
    <2>0. PICK row \in Row \cup {[sub |-> sub, active |-> TRUE, paid |-> FALSE, used |-> 0]} :
             row = [sub |-> sub, active |-> TRUE, paid |-> FALSE, used |-> 0]
      OBVIOUS
    <2>1. /\ n \in Ids /\ nextId' = n + 1 /\ ToMint(w, n) /\ IdOf(sub) = None
          /\ users' = [users EXCEPT ![n] = row]
          /\ row.sub = sub /\ row.active /\ ~row.paid
      BY <1>3, <1>5, <2>0
    <2>2. /\ users[n] = None /\ \A a \in Strict : Spend(n, a) = 0
          /\ \A u \in Ids : users[u] = None \/ users[u].sub # sub
      BY <1>0, <2>1, IdOfOwns DEF OwnersKept
    <2>3. \A u \in Ids : users'[u] = IF u = n THEN row ELSE users[u]
      BY <1>0, <2>1 DEF TablesFit
    <2>4. PICK r : work' = [work EXCEPT ![w] = r] /\ r.pc = "mint" /\ Knows(r, users', nextId')
      <3>1. n < nextId'
        BY <1>0, <2>1
      <3> QED BY <2>1, <3>1, ToMintKnows
    <2>5. Steady(users, users', nextId) /\ nextId' \in Nat /\ nextId <= nextId'
      BY <1>0, <2>1, <2>3 DEF Steady, Ids
    <2>6. \A v \in Workers : Knows(work'[v], users', nextId')
      BY <2>4, <2>5, HandsKnow DEF MoneyInv
    <2>7. OwnersKept'
      <3>1. \A u \in Ids : u >= nextId' => users'[u] = None /\ \A a \in Strict : Spend(u, a)' = 0
        BY <1>0, <1>1, <2>1, <2>3 DEF OwnersKept, Spend, Ids
      <3>2. \A u, v \in Ids : (users'[u] # None /\ users'[v] # None /\ users'[u].sub = users'[v].sub) => u = v
        BY <1>0, <2>1, <2>2, <2>3 DEF OwnersKept
      <3>3. (\A t \in tokens' : t.id < nextId') /\ (\A s \in DOMAIN sessions' : sessions'[s].user < nextId')
        <4>1. ASSUME NEW t \in tokens PROVE t.id \in Nat /\ t.id < nextId
          BY <1>0 DEF OwnersKept, TablesFit, Ids
        <4>2. ASSUME NEW s \in DOMAIN sessions PROVE sessions[s].user \in Nat /\ sessions[s].user < nextId
          <5>1. sessions[s] \in Tokens
            BY <1>0 DEF TablesFit
          <5> QED BY <1>0, <5>1 DEF OwnersKept, Tokens, Ids
        <4> QED BY <1>0, <1>1, <2>1, <4>1, <4>2
      <3> QED BY <1>0, <1>1, <2>6, <3>1, <3>2, <3>3 DEF OwnersKept
    <2>8. PlanHeld'
      <3>1. BringsNoPlan(r)
        BY <2>4 DEF BringsNoPlan
      <3>2. ~slip.bought => \A v \in Workers : BringsNoPlan(work'[v])
        BY <1>0, <2>4, <3>1, NobodyBringsAPlan DEF MoneyInv, PlanHeld
      <3> QED BY <1>1, <2>1, <2>3, <3>2 DEF MoneyInv, PlanHeld
    <2>9. SpendHeld'
      <3> SUFFICES ASSUME ~slip.leak, NEW s \in AnonSubs, s[3] \in Strict
                   PROVE  /\ \A u \in Ids : (users'[u] # None /\ users'[u].sub = s) => carry[s][s[3]] + Spend(u, s[3]) = Owed(s)
                          /\ (\A u \in Ids : users'[u] = None \/ users'[u].sub # s) => carry[s][s[3]] = Owed(s)
        BY <1>1 DEF SpendHeld, Spend, Owed
      <3>1. /\ \A u \in Ids : (users[u] # None /\ users[u].sub = s) => carry[s][s[3]] + Spend(u, s[3]) = Owed(s)
            /\ (\A u \in Ids : users[u] = None \/ users[u].sub # s) => carry[s][s[3]] = Owed(s)
        BY DEF MoneyInv, SpendHeld
      <3>2. carry[s][s[3]] \in Nat
        BY <1>0 DEF TablesFit
      <3>3. CASE s = sub
        <4>1. carry[s][s[3]] = Owed(s) /\ Spend(n, s[3]) = 0
          BY <2>2, <3>1, <3>3
        <4>2. carry[s][s[3]] + Spend(n, s[3]) = Owed(s)
          BY <3>2, <4>1
        <4> QED BY <2>2, <2>3, <3>3, <4>1, <4>2
      <3>4. CASE s # sub
        BY <2>1, <2>2, <2>3, <3>1, <3>4
      <3> QED BY <3>3, <3>4
    <2> QED BY <2>7, <2>8, <2>9 DEF MoneyInv
  <1> QED BY <1>4, <1>5

(* A handler that has written rests or mints; the others know what they knew.               *)
LEMMA AfterAWrite ==
    ASSUME MoneyInv, NEW w \in Workers, Steady(users, users', nextId), nextId' \in Nat, nextId <= nextId',
           work' = [work EXCEPT ![w] = Idle] \/ \E id \in Ids : id < nextId' /\ ToMint(w, id)
    PROVE  /\ \A v \in Workers : Knows(work'[v], users', nextId')
           /\ (\A v \in Workers : BringsNoPlan(work[v])) => \A v \in Workers : BringsNoPlan(work'[v])
  <1>1. PICK r : work' = [work EXCEPT ![w] = r] /\ r.pc \in {"idle", "mint"} /\ Knows(r, users', nextId')
    <2>1. CASE work' = [work EXCEPT ![w] = Idle]
      <3>1. Knows(Idle, users', nextId') /\ Idle.pc = "idle"
        BY IdleKnows DEF Idle
      <3> QED BY <2>1, <3>1
    <2>2. CASE \E id \in Ids : id < nextId' /\ ToMint(w, id)
      BY <2>2, ToMintKnows
    <2> QED BY <2>1, <2>2
  <1>2. \A v \in Workers : Knows(work'[v], users', nextId')
    BY <1>1, HandsKnow DEF MoneyInv
  <1>3. BringsNoPlan(r) /\ HandsFit
    BY <1>1 DEF BringsNoPlan, MoneyInv, SessionsInv
  <1>4. (\A v \in Workers : BringsNoPlan(work[v])) => \A v \in Workers : BringsNoPlan(work'[v])
    BY <1>1, <1>3, NobodyBringsAPlan
  <1> QED BY <1>2, <1>4

(* When a phone's account becomes a person's its spend is no longer the phone's.             *)
LEMMA ConversionsAreFair ==
    ASSUME MoneyInv, SessionsInv', NEW w \in Workers, SignInConvert(w)
    PROVE  MoneyInv'
  <1>0. /\ TablesFit /\ TablesFit' /\ HandsFit /\ OwnersKept /\ PlanHeld
        /\ Knows(work[w], users, nextId) /\ ReadHolds(work[w], sessions) /\ work[w] \in Reads
    BY DEF MoneyInv, SessionsInv, OwnersKept, HandsFit
  <1>1. PICK u \in Ids : u = work[w].anon /\ u < nextId
    BY <1>0 DEF SignInConvert, Reads, Knows
  <1>2. PICK sub \in AppleSubs : sub = work[w].sub
    BY <1>0 DEF SignInConvert, Knows
  <1>3. /\ UNCHANGED <<nextId, sessions, tokens, usage, carry, spent, charged>>
        /\ slip' = [slip EXCEPT !.rival = slip.rival \/ Stale(w)]
    BY DEF SignInConvert
  <1>4. slip'.leak = slip.leak /\ slip'.bought = slip.bought /\ (slip'.rival <=> (slip.rival \/ Stale(w)))
    BY <1>0, <1>3 DEF TablesFit
  <1>5. work' = [work EXCEPT ![w] = Idle] \/ \E id \in Ids : id < nextId' /\ ToMint(w, id)
    BY <1>1, <1>3 DEF SignInConvert, Finish
  <1>6. \/ UNCHANGED <<users, converted>>
        \/ /\ users[u] # None /\ IdOf(sub) \in {None, u}
           /\ users' = [users EXCEPT ![u].sub = sub]
           /\ converted' = [s \in AnonSubs |-> IF s = users[u].sub /\ s[3] \in Strict
                                               THEN converted[s] + Spend(u, s[3]) ELSE converted[s]]
    BY <1>1, <1>2 DEF SignInConvert
  <1>7. PICK row : row = [users[u] EXCEPT !.sub = sub]
    OBVIOUS
  <1>8. users[u] # None => users[u] \in Row
    BY <1>0 DEF TablesFit
  <1>9. users[u] # None => /\ row.sub = sub /\ row.active = users[u].active /\ row.paid = users[u].paid
                           /\ row.used = users[u].used /\ row # None
    <2>1. users[u] # None => row \in Row
      BY <1>2, <1>7, <1>8, SubsDiffer DEF Row
    <2> QED BY <1>7, <1>8, <2>1, RowsAreNotNone DEF Row
  <1>10. users' = users \/ (users[u] # None /\ \A v \in Ids : users'[v] = IF v = u THEN row ELSE users[v])
    BY <1>0, <1>6, <1>7 DEF TablesFit
  <1>11. sub \notin AnonSubs
    BY SubsDiffer
  <1>12. Steady(users, users', nextId) /\ nextId' \in Nat /\ nextId <= nextId'
    <2>1. Steady(users, users', nextId)
      BY <1>9, <1>10, <1>11 DEF Steady
    <2> QED BY <1>0, <1>3, <2>1 DEF TablesFit
  <1>13. /\ \A v \in Workers : Knows(work'[v], users', nextId')
         /\ (\A v \in Workers : BringsNoPlan(work[v])) => \A v \in Workers : BringsNoPlan(work'[v])
    BY <1>5, <1>12, AfterAWrite
  <1>14. \A v \in Ids : (users[u] # None /\ users' # users /\ users[v] # None /\ users[v].sub = sub) => v = u
    BY <1>0, <1>6, IdOfOwns DEF OwnersKept
  <1>15. \A v \in Ids, a \in Strict : Spend(v, a)' = Spend(v, a) /\ Spend(v, a) \in Nat
    <2>1. ASSUME NEW v \in Ids, NEW a \in Strict PROVE usage[v][a] \in [recent : Nat, old : Nat]
      BY <1>0 DEF TablesFit
    <2> QED BY <1>3, <2>1 DEF Spend
  <1>16. OwnersKept'
    <2>1. converted' \in [AnonSubs -> Int]
      <3>1. CASE UNCHANGED converted
        BY <1>0, <3>1 DEF OwnersKept
      <3>2. CASE converted' = [s \in AnonSubs |-> IF s = users[u].sub /\ s[3] \in Strict
                                                 THEN converted[s] + Spend(u, s[3]) ELSE converted[s]]
        <4>1. ASSUME NEW s \in AnonSubs
              PROVE  (IF s = users[u].sub /\ s[3] \in Strict THEN converted[s] + Spend(u, s[3]) ELSE converted[s]) \in Int
          <5>1. converted[s] \in Int /\ (s[3] \in Strict => Spend(u, s[3]) \in Int)
            BY <1>0, <1>15 DEF OwnersKept
          <5> QED BY <5>1
        <4> QED BY <3>2, <4>1
      <3> QED BY <1>6, <3>1, <3>2
    <2>2. \A v \in Ids : v >= nextId' => users'[v] = None /\ \A a \in Strict : Spend(v, a)' = 0
      BY <1>0, <1>1, <1>3, <1>10, <1>15 DEF OwnersKept
    <2>3. \A v, y \in Ids : (users'[v] # None /\ users'[y] # None /\ users'[v].sub = users'[y].sub) => v = y
      BY <1>0, <1>9, <1>10, <1>14 DEF OwnersKept
    <2> QED BY <1>0, <1>3, <1>13, <2>1, <2>2, <2>3 DEF OwnersKept
  <1>17. PlanHeld'
    <2>1. ~Stale(w) => (users[u] = None \/ users[u].active)
      BY <1>0, <1>1 DEF SignInConvert, Knows, Stale
    <2>2. ~slip.bought => /\ \A v \in Ids : users'[v] # None => ~users'[v].paid
                          /\ \A v \in Workers : BringsNoPlan(work'[v])
      BY <1>0, <1>9, <1>10, <1>13 DEF PlanHeld
    <2>3. ASSUME ~slip.rival, ~Stale(w)
          PROVE  /\ \A v, y \in Ids : (users'[v] # None /\ users'[y] # None /\ users'[v].paid /\ users'[y].paid) => v = y
                 /\ \A v \in Ids : (users'[v] # None /\ users'[v].paid) => users'[v].active /\ users'[v].used = charged
                 /\ \A v \in Ids : (users'[v] # None /\ ~users'[v].active) => users'[v].sub \in AnonSubs
      <3>1. CASE users' = users
        BY <1>0, <2>3, <3>1 DEF PlanHeld
      <3>2. CASE users[u] # None /\ \A v \in Ids : users'[v] = IF v = u THEN row ELSE users[v]
        BY <1>0, <1>9, <2>1, <2>3, <3>2 DEF PlanHeld
      <3> QED BY <1>10, <3>1, <3>2
    <2> QED BY <1>3, <1>4, <2>2, <2>3 DEF PlanHeld
  <1>18. SpendHeld'
    <2> SUFFICES ASSUME ~slip.leak, NEW s \in AnonSubs, s[3] \in Strict
                 PROVE  /\ \A v \in Ids : (users'[v] # None /\ users'[v].sub = s) => carry[s][s[3]] + Spend(v, s[3]) = Owed(s)'
                        /\ (\A v \in Ids : users'[v] = None \/ users'[v].sub # s) => carry[s][s[3]] = Owed(s)'
      BY <1>3, <1>4, <1>15 DEF SpendHeld
    <2>1. /\ \A v \in Ids : (users[v] # None /\ users[v].sub = s) => carry[s][s[3]] + Spend(v, s[3]) = Owed(s)
          /\ (\A v \in Ids : users[v] = None \/ users[v].sub # s) => carry[s][s[3]] = Owed(s)
      BY DEF MoneyInv, SpendHeld
    <2>2. carry[s][s[3]] \in Nat /\ Spend(u, s[3]) \in Nat /\ Owed(s) \in Int
      <3>1. carry[s][s[3]] \in Nat /\ Spend(u, s[3]) \in Nat
        BY <1>0, <1>15 DEF TablesFit
      <3>2. spent[s] \in Int /\ converted[s] \in Int
        BY <1>0 DEF OwnersKept
      <3> QED BY <3>1, <3>2 DEF Owed
    <2>3. CASE UNCHANGED <<users, converted>>
      BY <1>3, <2>1, <2>3 DEF Owed
    <2>4. CASE ~UNCHANGED <<users, converted>>
      <3>1. /\ users[u] # None /\ \A v \in Ids : users'[v] = IF v = u THEN row ELSE users[v]
            /\ Owed(s)' = IF s = users[u].sub THEN Owed(s) - Spend(u, s[3]) ELSE Owed(s)
        <4>1. /\ users[u] # None /\ \A v \in Ids : users'[v] = IF v = u THEN row ELSE users[v]
              /\ converted'[s] = IF s = users[u].sub THEN converted[s] + Spend(u, s[3]) ELSE converted[s]
          BY <1>0, <1>6, <1>7, <2>4 DEF TablesFit
        <4>2. spent[s] \in Int /\ converted[s] \in Int /\ spent'[s] = spent[s]
          BY <1>0, <1>3 DEF OwnersKept
        <4> QED BY <2>2, <4>1, <4>2 DEF Owed
      <3>2. CASE s = users[u].sub
        <4>1. Owed(s)' = carry[s][s[3]]
          BY <2>1, <2>2, <3>1, <3>2
        <4>2. \A v \in Ids : users'[v] = None \/ users'[v].sub # s
          BY <1>0, <1>9, <1>11, <3>1, <3>2 DEF OwnersKept
        <4> QED BY <4>1, <4>2
      <3>3. CASE s # users[u].sub
        BY <1>9, <1>11, <2>1, <3>1, <3>3
      <3> QED BY <3>2, <3>3
    <2> QED BY <2>3, <2>4
  <1> QED BY <1>16, <1>17, <1>18 DEF MoneyInv

(* Rows whose subjects stay where they were.                                                *)
SameSubs(U, V) == \A u \in Ids : /\ (V[u] = None) <=> (U[u] = None)
                                 /\ U[u] # None => V[u].sub = U[u].sub

(* A phone's spend is where it was while subjects and rows are.                              *)
LEMMA SpendStays ==
    ASSUME MoneyInv, SameSubs(users, users'), UNCHANGED <<usage, carry, spent, converted>>, slip'.leak = slip.leak
    PROVE  SpendHeld'
  BY DEF SameSubs, MoneyInv, SpendHeld, Spend, Owed

(* The merge takes the plan from one account to the other with its meter, and closes the     *)
(* first.                                                                                   *)
LEMMA MergesKeepThePlan ==
    ASSUME MoneyInv, SessionsInv', NEW w \in Workers, merge_into(w)
    PROVE  MoneyInv'
  <1>0. /\ TablesFit /\ HandsFit /\ OwnersKept /\ PlanHeld
        /\ Knows(work[w], users, nextId) /\ ReadHolds(work[w], sessions) /\ work[w] \in Reads
        /\ work[w].pc = "signin" /\ work[w].id # None /\ work[w].anon # None
    BY DEF MoneyInv, SessionsInv, OwnersKept, HandsFit, merge_into
  <1>1. PICK u \in Ids, v \in Ids : u = work[w].anon /\ v = work[w].id /\ u < nextId /\ v < nextId
    BY <1>0 DEF Reads, Knows
  <1>2. PICK from \in Row, onto \in Row : from = work[w].anonRow /\ onto = work[w].row
    BY <1>0 DEF ReadHolds
  <1>3. from.sub \in AnonSubs /\ from.active /\ onto.sub \in AppleSubs
    BY <1>0, <1>2 DEF Knows
  <1>4. /\ UNCHANGED <<nextId, tokens, usage, carry, spent, converted, charged>>
        /\ slip' = [slip EXCEPT !.rival = slip.rival \/ Stale(w)]
        /\ SameTokens(sessions, sessions')
    BY <1>0, MergeFits DEF merge_into
  <1>5. slip'.leak = slip.leak /\ slip'.bought = slip.bought /\ (slip'.rival <=> (slip.rival \/ Stale(w)))
    BY <1>0, <1>4 DEF TablesFit
  <1>6. work' = [work EXCEPT ![w] = Idle] \/ \E id \in Ids : id < nextId' /\ ToMint(w, id)
    BY <1>1, <1>4 DEF merge_into, Finish
  <1>7. PICK moved \in BOOLEAN : moved <=> (from.paid /\ ~onto.paid)
    <2>1. CASE from.paid /\ ~onto.paid
      BY <2>1
    <2>2. CASE ~(from.paid /\ ~onto.paid)
      BY <2>2
    <2> QED BY <2>1, <2>2
  <1>8. PICK closed : closed = IF users[u] = None THEN None
                               ELSE [users[u] EXCEPT !.active = FALSE, !.paid = IF moved THEN FALSE ELSE users[u].paid]
    OBVIOUS
  <1>9. PICK taken : taken = IF users[v] # None /\ moved
                             THEN [users[v] EXCEPT !.paid = TRUE, !.used = from.used] ELSE users[v]
    OBVIOUS
  <1>10. users' = [users EXCEPT ![u] = closed, ![v] = taken]
    <2>1. moved = (work[w].anonRow.paid /\ ~work[w].row.paid)
      BY <1>2, <1>7, Zenon
    <2> QED BY <1>1, <1>2, <1>8, <1>9, <2>1 DEF merge_into, merged_users
  <1>11. \A x \in Ids : users'[x] = IF x = v THEN taken ELSE IF x = u THEN closed ELSE users[x]
    BY <1>0, <1>10 DEF TablesFit
  <1>12. \A x \in Ids : users[x] # None => users[x] \in Row /\ users[x].used \in Nat
    BY <1>0 DEF TablesFit, Row
  <1>13. users[u] # None => /\ closed.sub = users[u].sub /\ ~closed.active /\ closed.used = users[u].used
                            /\ moved => ~closed.paid
                            /\ ~moved => closed.paid = users[u].paid
    BY <1>8, <1>12 DEF Row
  <1>14. (users[v] # None /\ moved) => /\ taken.sub = users[v].sub /\ taken.active = users[v].active
                                       /\ taken.used = from.used /\ taken.paid
    BY <1>9, <1>12 DEF Row
  <1>15. ~(users[v] # None /\ moved) => taken = users[v]
    BY <1>9
  <1>16. \A x \in Ids : (users'[x] = None) <=> (users[x] = None)
    <2>1. users' \in [Ids -> Row \cup {None}]
      BY DEF SessionsInv, TablesFit
    <2>2. users[u] # None => closed # None
      <3>1. PICK f \in BOOLEAN : f = FALSE
        OBVIOUS
      <3>2. PICK p : p = IF moved THEN f ELSE users[u].paid
        OBVIOUS
      <3>3. users[u] # None => closed = [users[u] EXCEPT !.active = f, !.paid = p]
        BY <1>8, <3>1, <3>2
      <3>4. users[u] # None => p \in BOOLEAN
        BY <1>12, <3>2 DEF Row
      <3>5. users[u] # None => closed \in Row
        BY <1>12, <3>3, <3>4 DEF Row
      <3> QED BY <3>5, RowsAreNotNone
    <2>3. users[v] # None => taken # None
      <3>1. PICK t \in BOOLEAN : t = TRUE
        OBVIOUS
      <3>2. (users[v] # None /\ moved) => taken = [users[v] EXCEPT !.paid = t, !.used = from.used]
        BY <1>9, <3>1
      <3>3. from.used \in Nat
        BY DEF Row
      <3>4. (users[v] # None /\ moved) => taken \in Row
        BY <1>12, <3>2, <3>3 DEF Row
      <3> QED BY <1>15, <3>4, RowsAreNotNone
    <2>4. users[u] = None => closed = None
      BY <1>8
    <2> QED BY <1>11, <1>15, <2>2, <2>3, <2>4
  <1>17. SameSubs(users, users')
    BY <1>11, <1>13, <1>14, <1>15, <1>16 DEF SameSubs
  <1>18. Steady(users, users', nextId) /\ nextId' \in Nat /\ nextId <= nextId'
    <2>1. Steady(users, users', nextId)
      BY <1>17 DEF Steady, SameSubs
    <2> QED BY <1>0, <1>4, <2>1 DEF TablesFit
  <1>19. /\ \A x \in Workers : Knows(work'[x], users', nextId')
         /\ (\A x \in Workers : BringsNoPlan(work[x])) => \A x \in Workers : BringsNoPlan(work'[x])
    BY <1>6, <1>18, AfterAWrite
  <1>20. OwnersKept'
    <2>1. \A x, y \in Ids : (users'[x] # None /\ users'[y] # None /\ users'[x].sub = users'[y].sub) => x = y
      BY <1>0, <1>16, <1>17 DEF OwnersKept, SameSubs
    <2>2. \A s \in DOMAIN sessions' : sessions'[s].user < nextId'
      BY <1>0, <1>4 DEF OwnersKept, SameTokens
    <2> QED BY <1>0, <1>4, <1>16, <1>19, <2>1, <2>2 DEF OwnersKept, Spend
  <1>21. PlanHeld'
    <2>1. ~slip.bought => /\ \A x \in Ids : users'[x] # None => ~users'[x].paid
                          /\ \A x \in Workers : BringsNoPlan(work'[x])
      <3> SUFFICES ASSUME ~slip.bought PROVE /\ \A x \in Ids : users'[x] # None => ~users'[x].paid
                                             /\ \A x \in Workers : BringsNoPlan(work'[x])
        OBVIOUS
      <3>1. ~from.paid /\ \A x \in Ids : users[x] # None => ~users[x].paid
        BY <1>0, <1>2 DEF PlanHeld, BringsNoPlan
      <3>2. ~moved
        BY <1>7, <3>1
      <3>3. \A x \in Ids : users'[x] # None => ~users'[x].paid
        BY <1>11, <1>13, <1>15, <1>16, <3>1, <3>2
      <3> QED BY <1>0, <1>19, <3>3 DEF PlanHeld
    <2>2. ASSUME ~slip.rival, ~Stale(w)
          PROVE  /\ \A x, y \in Ids : (users'[x] # None /\ users'[y] # None /\ users'[x].paid /\ users'[y].paid) => x = y
                 /\ \A x \in Ids : (users'[x] # None /\ users'[x].paid) => users'[x].active /\ users'[x].used = charged
                 /\ \A x \in Ids : (users'[x] # None /\ ~users'[x].active) => users'[x].sub \in AnonSubs
      <3>1. users[u] = from /\ users[v] = onto /\ users[u] # None /\ users[v] # None
        BY <1>0, <1>1, <1>2, <2>2, RowsAreNotNone DEF Stale
      <3>2. u # v
        BY <1>3, <3>1, SubsDiffer
      <3>3. /\ \A x, y \in Ids : (users[x] # None /\ users[y] # None /\ users[x].paid /\ users[y].paid) => x = y
            /\ \A x \in Ids : (users[x] # None /\ users[x].paid) => users[x].active /\ users[x].used = charged
            /\ \A x \in Ids : (users[x] # None /\ ~users[x].active) => users[x].sub \in AnonSubs
        BY <1>0, <2>2 DEF PlanHeld
      <3>4. users[v].active
        BY <1>3, <3>1, <3>3, SubsDiffer
      <3>5. CASE moved
        <4>1. from.paid /\ from.used = charged /\ \A x \in Ids : (users[x] # None /\ users[x].paid) => x = u
          BY <1>7, <3>1, <3>3, <3>5
        <4> QED BY <1>3, <1>11, <1>13, <1>14, <1>16, <3>1, <3>2, <3>3, <3>4, <3>5, <4>1
      <3>6. CASE ~moved
        <4>1. ~users[u].paid
          BY <1>7, <3>1, <3>2, <3>3, <3>6
        <4>2. taken = users[v] /\ ~closed.paid /\ ~closed.active /\ closed.sub \in AnonSubs
          BY <1>3, <1>13, <1>15, <3>1, <3>6, <4>1
        <4> QED BY <1>11, <1>16, <3>1, <3>2, <3>3, <4>2
      <3> QED BY <3>5, <3>6
    <2> QED BY <1>4, <1>5, <2>1, <2>2 DEF PlanHeld
  <1>22. SpendHeld'
    BY <1>4, <1>5, <1>17, SpendStays
  <1> QED BY <1>20, <1>21, <1>22 DEF MoneyInv

(* A call that ends charges the plan it was admitted on, and counts against the phone it     *)
(* was admitted for.                                                                        *)
LEMMA CallsAreCharged ==
    ASSUME MoneyInv, SessionsInv', NEW w \in Workers, CallEnd(w)
    PROVE  MoneyInv'
  <1>0. /\ TablesFit /\ HandsFit /\ OwnersKept /\ PlanHeld /\ work[w].pc = "call"
        /\ Knows(work[w], users, nextId) /\ ReadHolds(work[w], sessions) /\ work[w] \in Reads
    BY DEF MoneyInv, SessionsInv, OwnersKept, HandsFit, CallEnd
  <1>1. PICK u \in Ids : u = work[w].id /\ u < nextId
    BY <1>0 DEF ReadHolds, Knows
  <1>2. PICK then \in Row : then = work[w].row
    BY <1>0 DEF ReadHolds
  <1>3. PICK h : h = work[w].header
    OBVIOUS
  <1>4. SubKept(u, then.sub, users)
    BY <1>0, <1>1, <1>2 DEF Knows
  <1> DEFINE ours == h \in Strict /\ then.sub \in AnonSubs /\ then.sub[3] = h
  <1>5. /\ UNCHANGED <<nextId, tokens, sessions, carry, converted>>
        /\ users' = IF users[u] = None THEN users ELSE [users EXCEPT ![u].used = users[u].used + 1]
        /\ usage' = IF h \in Strict THEN [usage EXCEPT ![u][h].recent = usage[u][h].recent + 1] ELSE usage
        /\ spent' = IF ours THEN [spent EXCEPT ![then.sub] = spent[then.sub] + 1] ELSE spent
        /\ charged' = IF then.paid THEN charged + 1 ELSE charged
        /\ work' = [work EXCEPT ![w] = Idle]
    BY <1>1, <1>2, <1>3 DEF CallEnd, Finish, IsAnonymous
  <1>6. /\ slip'.bought = slip.bought
        /\ slip'.leak <=> (slip.leak \/ (ours /\ (users[u] = None \/ users[u].sub # then.sub)))
        /\ slip'.rival <=> (slip.rival \/ users[u] = None \/ users[u].paid # then.paid)
    BY <1>0, <1>1, <1>2, <1>3 DEF CallEnd, IsAnonymous, TablesFit
  <1>7. users[u] # None => users[u] \in Row /\ users[u].used \in Nat
    BY <1>0 DEF TablesFit, Row
  <1>8. PICK row : row = [users[u] EXCEPT !.used = users[u].used + 1]
    OBVIOUS
  <1>9. users[u] # None => /\ row \in Row /\ row # None /\ row.sub = users[u].sub /\ row.active = users[u].active
                           /\ row.paid = users[u].paid /\ row.used = users[u].used + 1
    <2>1. users[u] # None => users[u].used + 1 \in Nat
      BY <1>7
    <2>2. users[u] # None => /\ row \in Row /\ row.sub = users[u].sub /\ row.active = users[u].active
                             /\ row.paid = users[u].paid /\ row.used = users[u].used + 1
      BY <1>7, <1>8, <2>1 DEF Row
    <2> QED BY <2>2, RowsAreNotNone
  <1>10. \A v \in Ids : users'[v] = IF v = u /\ users[u] # None THEN row ELSE users[v]
    BY <1>0, <1>5, <1>8 DEF TablesFit
  <1>11. SameSubs(users, users')
    BY <1>9, <1>10 DEF SameSubs
  <1>12. Steady(users, users', nextId) /\ nextId' \in Nat /\ nextId <= nextId'
    <2>1. Steady(users, users', nextId)
      BY <1>11 DEF Steady, SameSubs
    <2> QED BY <1>0, <1>5, <2>1 DEF TablesFit
  <1>13. /\ \A v \in Workers : Knows(work'[v], users', nextId')
         /\ (\A v \in Workers : BringsNoPlan(work[v])) => \A v \in Workers : BringsNoPlan(work'[v])
    BY <1>5, <1>12, AfterAWrite
  <1>14. \A v \in Ids, a \in Strict : /\ Spend(v, a) \in Nat
                                     /\ Spend(v, a)' = IF v = u /\ a = h THEN Spend(v, a) + 1 ELSE Spend(v, a)
    <2> SUFFICES ASSUME NEW v \in Ids, NEW a \in Strict
                 PROVE  /\ Spend(v, a) \in Nat
                        /\ Spend(v, a)' = IF v = u /\ a = h THEN Spend(v, a) + 1 ELSE Spend(v, a)
      OBVIOUS
    <2>1. usage[v][a] \in [recent : Nat, old : Nat] /\ usage[u] \in [Strict -> [recent : Nat, old : Nat]]
      BY <1>0 DEF TablesFit
    <2>2. CASE ~(v = u /\ a = h)
      <3>1. usage'[v][a] = usage[v][a]
        BY <1>0, <1>5, <2>1, <2>2 DEF TablesFit
      <3> QED BY <2>1, <2>2, <3>1 DEF Spend
    <2>3. CASE v = u /\ a = h
      <3>1. PICK x : x = [usage[u][h] EXCEPT !.recent = usage[u][h].recent + 1]
        OBVIOUS
      <3>2. x.recent = usage[u][h].recent + 1 /\ x.old = usage[u][h].old
        BY <2>1, <2>3, <3>1
      <3>3. usage' = [usage EXCEPT ![u][h] = x]
        BY <1>5, <2>3, <3>1
      <3>4. usage'[u][h] = x
        BY <1>0, <2>1, <2>3, <3>3 DEF TablesFit
      <3> QED BY <2>1, <2>3, <3>2, <3>4 DEF Spend
    <2> QED BY <2>2, <2>3
  <1>15. OwnersKept'
    <2>1. spent' \in [AnonSubs -> Int] /\ charged' \in Nat
      <3>1. ours => spent[then.sub] + 1 \in Int
        BY <1>0 DEF OwnersKept
      <3> QED BY <1>0, <1>5, <3>1 DEF OwnersKept
    <2>2. \A v \in Ids : v >= nextId' => users'[v] = None /\ \A a \in Strict : Spend(v, a)' = 0
      <3>1. \A v \in Ids : v >= nextId => v # u
        BY <1>0, <1>1 DEF TablesFit, Ids
      <3> QED BY <1>0, <1>5, <1>10, <1>14, <3>1 DEF OwnersKept
    <2>3. \A x, y \in Ids : (users'[x] # None /\ users'[y] # None /\ users'[x].sub = users'[y].sub) => x = y
      BY <1>0, <1>11 DEF OwnersKept, SameSubs
    <2> QED BY <1>0, <1>5, <1>13, <2>1, <2>2, <2>3 DEF OwnersKept
  <1>16. PlanHeld'
    <2>1. ~slip.bought => /\ \A v \in Ids : users'[v] # None => ~users'[v].paid
                          /\ \A v \in Workers : BringsNoPlan(work'[v])
      BY <1>0, <1>9, <1>10, <1>13 DEF PlanHeld
    <2>2. ASSUME ~slip.rival, users[u] # None, users[u].paid = then.paid
          PROVE  /\ \A x, y \in Ids : (users'[x] # None /\ users'[y] # None /\ users'[x].paid /\ users'[y].paid) => x = y
                 /\ \A x \in Ids : (users'[x] # None /\ users'[x].paid) => users'[x].active /\ users'[x].used = charged'
                 /\ \A x \in Ids : (users'[x] # None /\ ~users'[x].active) => users'[x].sub \in AnonSubs
      <3>1. /\ \A x, y \in Ids : (users[x] # None /\ users[y] # None /\ users[x].paid /\ users[y].paid) => x = y
            /\ \A x \in Ids : (users[x] # None /\ users[x].paid) => users[x].active /\ users[x].used = charged
            /\ \A x \in Ids : (users[x] # None /\ ~users[x].active) => users[x].sub \in AnonSubs
        BY <1>0, <2>2 DEF PlanHeld
      <3>2. \A x \in Ids : (users'[x] # None /\ users'[x].paid) => users'[x].active /\ users'[x].used = charged'
        <4>1. CASE then.paid
          <5>1. users[u].paid
            BY <2>2, <4>1, Zenon
          <5>2. \A x \in Ids : (users[x] # None /\ users[x].paid) => x = u
            BY <2>2, <3>1, <5>1
          <5>3. users[u].active /\ users[u].used = charged /\ charged' = charged + 1
            BY <1>5, <2>2, <3>1, <4>1, <5>1
          <5>4. row.active /\ row.used = charged'
            BY <1>9, <2>2, <5>3
          <5> QED BY <1>10, <2>2, <5>2, <5>4
        <4>2. CASE ~then.paid
          BY <1>5, <1>9, <1>10, <2>2, <3>1, <4>2
        <4> QED BY <4>1, <4>2
      <3> QED BY <1>9, <1>10, <2>2, <3>1, <3>2
    <2> QED BY <1>6, <2>1, <2>2 DEF PlanHeld
  <1>17. SpendHeld'
    <2> SUFFICES ASSUME ~slip'.leak, NEW s \in AnonSubs, s[3] \in Strict
                 PROVE  /\ \A v \in Ids : (users'[v] # None /\ users'[v].sub = s) => carry[s][s[3]] + Spend(v, s[3])' = Owed(s)'
                        /\ (\A v \in Ids : users'[v] = None \/ users'[v].sub # s) => carry[s][s[3]] = Owed(s)'
      BY <1>5 DEF SpendHeld
    <2>1. ~slip.leak /\ (ours => users[u] # None /\ users[u].sub = then.sub)
      BY <1>6
    <2>2. /\ \A v \in Ids : (users[v] # None /\ users[v].sub = s) => carry[s][s[3]] + Spend(v, s[3]) = Owed(s)
          /\ (\A v \in Ids : users[v] = None \/ users[v].sub # s) => carry[s][s[3]] = Owed(s)
      BY <2>1 DEF MoneyInv, SpendHeld
    <2>3. carry[s][s[3]] \in Nat /\ Owed(s) \in Int /\ spent[s] \in Int /\ converted[s] \in Int
      BY <1>0 DEF TablesFit, OwnersKept, Owed
    <2>4. \A v \in Ids : ((users'[v] # None) <=> (users[v] # None)) /\ (users[v] # None => users'[v].sub = users[v].sub)
      BY <1>11 DEF SameSubs
    <2>5. CASE ours /\ s = then.sub
      <3>1. Owed(s)' = Owed(s) + 1
        <4>1. spent'[s] = spent[s] + 1 /\ converted'[s] = converted[s]
          BY <1>0, <1>5, <2>5 DEF OwnersKept
        <4> QED BY <2>3, <4>1 DEF Owed
      <3>2. \A v \in Ids : (users[v] # None /\ users[v].sub = s) => v = u
        BY <1>0, <2>1, <2>5 DEF OwnersKept
      <3>3. Spend(u, s[3])' = Spend(u, s[3]) + 1 /\ Spend(u, s[3]) \in Nat
        BY <1>14, <2>5
      <3>4. carry[s][s[3]] + Spend(u, s[3]) = Owed(s)
        BY <2>1, <2>2, <2>5
      <3>5. carry[s][s[3]] + Spend(u, s[3])' = Owed(s)'
        BY <2>3, <3>1, <3>3, <3>4
      <3> QED BY <2>1, <2>4, <2>5, <3>2, <3>5
    <2>6. CASE ~(ours /\ s = then.sub)
      <3>1. Owed(s)' = Owed(s)
        <4>1. spent'[s] = spent[s]
          BY <1>5, <2>6
        <4> QED BY <1>5, <4>1 DEF Owed
      <3>2. \A v \in Ids : (users[v] # None /\ users[v].sub = s) => Spend(v, s[3])' = Spend(v, s[3])
        BY <1>4, <1>14, <2>6 DEF SubKept
      <3> QED BY <2>2, <2>4, <3>1, <3>2
    <2> QED BY <2>5, <2>6
  <1> QED BY <1>15, <1>16, <1>17 DEF MoneyInv

(* The one plan of the model is bought for an open account.                                  *)
LEMMA PurchasesBindOnce ==
    ASSUME MoneyInv, SessionsInv', NEW t \in tokens, Buy(t)
    PROVE  MoneyInv'
  <1>0. TablesFit /\ OwnersKept /\ PlanHeld
    BY DEF MoneyInv, SessionsInv
  <1>1. PICK u \in Ids : u = t.id
    BY <1>0 DEF TablesFit
  <1>2. users[u] # None /\ users[u].active /\ users[u] \in Row
    BY <1>0, <1>1 DEF Buy, get_current_user, TablesFit
  <1>3. PICK yes \in BOOLEAN : yes = TRUE
    OBVIOUS
  <1>4. PICK row : row = [users[u] EXCEPT !.paid = yes, !.used = 0]
    OBVIOUS
  <1>5. row \in Row /\ row.sub = users[u].sub /\ row.active = users[u].active /\ row.paid = yes /\ row.used = 0
    BY <1>2, <1>4 DEF Row
  <1>6. /\ UNCHANGED <<nextId, sessions, tokens, usage, carry, work, spent, converted>> /\ ~slip.bought /\ charged' = 0
        /\ users' = [users EXCEPT ![u] = row]
    BY <1>1, <1>3, <1>4 DEF Buy
  <1>7. slip'.bought /\ slip'.leak = slip.leak /\ (slip.rival => slip'.rival)
    BY <1>0 DEF Buy, TablesFit
  <1>8. \A v \in Ids : users'[v] = IF v = u THEN row ELSE users[v]
    BY <1>0, <1>6 DEF TablesFit
  <1>9. SameSubs(users, users')
    BY <1>2, <1>5, <1>8, RowsAreNotNone DEF SameSubs
  <1>10. \A v \in Workers : Knows(work'[v], users', nextId')
    <2>1. Steady(users, users', nextId) /\ nextId \in Nat
      BY <1>0, <1>9 DEF Steady, SameSubs, TablesFit
    <2>2. \A v \in Workers : ReadHolds(work[v], sessions)
      BY DEF MoneyInv, SessionsInv, HandsFit
    <2> QED BY <1>0, <1>6, <2>1, <2>2, KnowsStill DEF OwnersKept
  <1>11. OwnersKept'
    <2>1. \A x, y \in Ids : (users'[x] # None /\ users'[y] # None /\ users'[x].sub = users'[y].sub) => x = y
      BY <1>0, <1>9 DEF OwnersKept, SameSubs
    <2> QED BY <1>0, <1>6, <1>9, <1>10, <2>1 DEF OwnersKept, Spend, SameSubs
  <1>12. PlanHeld'
    <2>1. \A v \in Ids : users[v] # None => ~users[v].paid
      BY <1>0, <1>6 DEF PlanHeld
    <2>2. row.active /\ row.used = charged'
      BY <1>2, <1>5, <1>6
    <2>3. \A x \in Ids : (users'[x] # None /\ users'[x].paid) => x = u
      BY <1>8, <2>1
    <2>4. ~slip.rival => \A x \in Ids : (users[x] # None /\ ~users[x].active) => users[x].sub \in AnonSubs
      BY <1>0 DEF PlanHeld
    <2>5. ~slip.rival => \A x \in Ids : (users'[x] # None /\ ~users'[x].active) => users'[x].sub \in AnonSubs
      BY <1>8, <2>2, <2>4
    <2>6. \A x \in Ids : (users'[x] # None /\ users'[x].paid) => users'[x].active /\ users'[x].used = charged'
      BY <1>8, <2>2, <2>3
    <2> QED BY <1>7, <2>3, <2>5, <2>6 DEF PlanHeld
  <1>13. SpendHeld'
    BY <1>6, <1>7, <1>9, SpendStays
  <1> QED BY <1>11, <1>12, <1>13 DEF MoneyInv

(* What is carried goes to the subject it was summed for.                                    *)
LEMMA CarriesTo ==
    ASSUME carry \in [AnonSubs -> [Strict -> Nat]], NEW sub, NEW sum \in [Strict -> Nat],
           NEW s \in AnonSubs, NEW a \in Strict
    PROVE  carry_upsert(sub, sum)[s][a] = IF s = sub THEN carry[s][a] + sum[a] ELSE carry[s][a]
  <1>1. carry[s][a] \in Nat /\ sum[a] \in Nat
    OBVIOUS
  <1>2. carry_upsert(sub, sum)[s][a] = carry[s][a] + (IF s = sub THEN sum[a] ELSE 0)
    BY DEF carry_upsert, Adds
  <1> QED BY <1>1, <1>2

(* A deletion carries the phone's spend, all of it, with the rows it clears.                 *)
LEMMA DeletionsCarry ==
    ASSUME MoneyInv, SessionsInv', NEW w \in Workers, delete_user_data(w)
    PROVE  MoneyInv'
  <1>0. /\ TablesFit /\ HandsFit /\ OwnersKept /\ PlanHeld /\ work[w].pc = "purge"
        /\ Knows(work[w], users, nextId) /\ ReadHolds(work[w], sessions) /\ work[w] \in Reads
    BY DEF MoneyInv, SessionsInv, OwnersKept, HandsFit, delete_user_data
  <1>1. PICK u \in Ids : u = work[w].id /\ u < nextId
    BY <1>0 DEF ReadHolds, Knows
  <1>2. PICK sub, h : sub = work[w].sub /\ h = work[w].header
    OBVIOUS
  <1>3. PICK sum \in [Strict -> Nat] : sum = work[w].sum
    BY <1>0 DEF ReadHolds
  <1>4. SubKept(u, sub, users) /\ \A a \in Strict : h \notin {None, a} => sum[a] = 0
    BY <1>0, <1>1, <1>2, <1>3 DEF Knows
  <1> DEFINE cleared == {a \in Strict : h \in {None, a}}
  <1>5. PICK removed : removed <=> (h = None \/ {m \in members : m[1] = u /\ m[2] # h} = {})
    OBVIOUS
  <1>6. /\ UNCHANGED <<nextId, tokens, spent, converted, charged>> /\ SameTokens(sessions, sessions')
        /\ work' = [work EXCEPT ![w] = Idle]
        /\ carry' = carry_upsert(sub, sum)
        /\ usage' = [usage EXCEPT ![u] = [a \in Strict |->
                       IF a \in cleared THEN [recent |-> 0, old |-> 0] ELSE usage[u][a]]]
    BY <1>0, <1>1, <1>2, <1>3, DeletionFits DEF delete_user_data
  <1>7. users' = IF removed THEN [users EXCEPT ![u] = None] ELSE users
    BY <1>1, <1>2, <1>5 DEF delete_user_data
  <1>8. /\ slip'.bought = slip.bought /\ slip'.rival = slip.rival
        /\ slip'.leak <=> (slip.leak \/ (sub \in AnonSubs /\
              (\/ users[u] = None
               \/ users[u] # None /\ users[u].sub # sub
               \/ \E a \in cleared : Spend(u, a) # sum[a]
               \/ removed /\ \E a \in Strict \ cleared : Spend(u, a) # 0)))
    <2> DEFINE leaks == (sub \in AnonSubs /\
              (\/ users[u] = None
               \/ users[u] # None /\ users[u].sub # sub
               \/ \E a \in cleared : Spend(u, a) # sum[a]
               \/ removed /\ \E a \in Strict \ cleared : Spend(u, a) # 0))
    <2>1. slip' = [slip EXCEPT !.leak = slip.leak \/ leaks]
      BY <1>1, <1>2, <1>3, <1>5 DEF delete_user_data
    <2> HIDE DEF leaks
    <2>2. /\ slip'.bought = slip.bought /\ slip'.rival = slip.rival
          /\ slip'.leak <=> (slip.leak \/ leaks)
      BY <1>0, <2>1 DEF TablesFit
    <2> QED BY <2>2 DEF leaks
  <1>9. \A v \in Ids : users'[v] = IF v = u /\ removed THEN None ELSE users[v]
    BY <1>0, <1>7 DEF TablesFit
  <1>10. \A v \in Ids, a \in Strict : /\ Spend(v, a) \in Nat
                                     /\ Spend(v, a)' = IF v = u /\ a \in cleared THEN 0 ELSE Spend(v, a)
    <2> SUFFICES ASSUME NEW v \in Ids, NEW a \in Strict
                 PROVE  /\ Spend(v, a) \in Nat
                        /\ Spend(v, a)' = IF v = u /\ a \in cleared THEN 0 ELSE Spend(v, a)
      OBVIOUS
    <2>1. usage[v][a] \in [recent : Nat, old : Nat]
      BY <1>0 DEF TablesFit
    <2>2. usage'[v][a] = IF v = u /\ a \in cleared THEN [recent |-> 0, old |-> 0] ELSE usage[v][a]
      BY <1>0, <1>6 DEF TablesFit
    <2> QED BY <2>1, <2>2 DEF Spend
  <1>11. Steady(users, users', nextId) /\ nextId' \in Nat /\ nextId <= nextId'
    <2>1. Steady(users, users', nextId)
      BY <1>9 DEF Steady
    <2> QED BY <1>0, <1>6, <2>1 DEF TablesFit
  <1>12. /\ \A v \in Workers : Knows(work'[v], users', nextId')
         /\ (\A v \in Workers : BringsNoPlan(work[v])) => \A v \in Workers : BringsNoPlan(work'[v])
    BY <1>6, <1>11, AfterAWrite
  <1>13. OwnersKept'
    <2>1. \A x, y \in Ids : (users'[x] # None /\ users'[y] # None /\ users'[x].sub = users'[y].sub) => x = y
      BY <1>0, <1>9 DEF OwnersKept
    <2>2. \A v \in Ids : v >= nextId' => users'[v] = None /\ \A a \in Strict : Spend(v, a)' = 0
      BY <1>0, <1>6, <1>9, <1>10 DEF OwnersKept
    <2>3. \A s \in DOMAIN sessions' : sessions'[s].user < nextId'
      BY <1>0, <1>6 DEF OwnersKept, SameTokens
    <2> QED BY <1>0, <1>6, <1>12, <2>1, <2>2, <2>3 DEF OwnersKept
  <1>14. PlanHeld'
    BY <1>0, <1>6, <1>8, <1>9, <1>12 DEF PlanHeld
  <1>15. SpendHeld'
    <2> SUFFICES ASSUME ~slip'.leak, NEW s \in AnonSubs, s[3] \in Strict
                 PROVE  /\ \A v \in Ids : (users'[v] # None /\ users'[v].sub = s) => carry'[s][s[3]] + Spend(v, s[3])' = Owed(s)
                        /\ (\A v \in Ids : users'[v] = None \/ users'[v].sub # s) => carry'[s][s[3]] = Owed(s)
      BY <1>6 DEF SpendHeld, Owed
    <2>1. /\ ~slip.leak
          /\ sub \in AnonSubs => /\ users[u] # None /\ users[u].sub = sub
                                 /\ \A a \in cleared : Spend(u, a) = sum[a]
                                 /\ removed => \A a \in Strict \ cleared : Spend(u, a) = 0
      BY <1>8
    <2>2. /\ \A v \in Ids : (users[v] # None /\ users[v].sub = s) => carry[s][s[3]] + Spend(v, s[3]) = Owed(s)
          /\ (\A v \in Ids : users[v] = None \/ users[v].sub # s) => carry[s][s[3]] = Owed(s)
      BY <2>1 DEF MoneyInv, SpendHeld
    <2>3. carry[s][s[3]] \in Nat /\ sum[s[3]] \in Nat /\ Spend(u, s[3]) \in Nat
      BY <1>0, <1>10 DEF TablesFit
    <2>4. carry'[s][s[3]] = IF s = sub THEN carry[s][s[3]] + sum[s[3]] ELSE carry[s][s[3]]
      <3>1. carry \in [AnonSubs -> [Strict -> Nat]]
        BY <1>0 DEF TablesFit
      <3>2. PICK b \in Strict : b = s[3]
        OBVIOUS
      <3>3. carry_upsert(sub, sum)[s][b] = IF s = sub THEN carry[s][b] + sum[b] ELSE carry[s][b]
        BY <3>1, CarriesTo
      <3> QED BY <1>6, <3>2, <3>3
    <2>5. CASE s = sub
      <3>1. /\ users[u] # None /\ users[u].sub = s /\ carry[s][s[3]] + Spend(u, s[3]) = Owed(s)
            /\ \A v \in Ids : (users[v] # None /\ users[v].sub = s) => v = u
        BY <1>0, <2>1, <2>2, <2>5 DEF OwnersKept
      <3>2. CASE s[3] \in cleared
        <4>1. carry'[s][s[3]] = Owed(s) /\ Spend(u, s[3])' = 0
          BY <1>10, <2>1, <2>4, <2>5, <3>1, <3>2
        <4>2. carry'[s][s[3]] + Spend(u, s[3])' = Owed(s)
          BY <2>3, <2>4, <2>5, <4>1
        <4> QED BY <1>9, <3>1, <4>1, <4>2
      <3>3. CASE s[3] \notin cleared
        <4>1. sum[s[3]] = 0 /\ Spend(u, s[3])' = Spend(u, s[3]) /\ (removed => Spend(u, s[3]) = 0)
          BY <1>4, <1>10, <2>1, <2>5, <3>3
        <4>2. carry'[s][s[3]] = carry[s][s[3]]
          BY <2>3, <2>4, <4>1
        <4>3. carry'[s][s[3]] + Spend(u, s[3])' = Owed(s) /\ (removed => carry'[s][s[3]] = Owed(s))
          BY <2>3, <3>1, <4>1, <4>2
        <4> QED BY <1>9, <3>1, <4>3
      <3> QED BY <3>2, <3>3
    <2>6. CASE s # sub
      <3>1. users[u] = None \/ users[u].sub # s
        BY <1>4, <2>6 DEF SubKept
      <3>2. \A v \in Ids : (users[v] # None /\ users[v].sub = s) => v # u /\ Spend(v, s[3])' = Spend(v, s[3])
        BY <1>10, <3>1
      <3> QED BY <1>9, <2>2, <2>4, <2>6, <3>1, <3>2
    <2> QED BY <2>5, <2>6
  <1> QED BY <1>13, <1>14, <1>15 DEF MoneyInv

(* Rows that grow old are still the account's.                                               *)
LEMMA AgeingKeepsSpend ==
    ASSUME MoneyInv, SessionsInv', NEW u \in Ids, NEW a \in Strict, Age(u, a)
    PROVE  MoneyInv'
  <1>0. TablesFit /\ OwnersKept
    BY DEF MoneyInv, SessionsInv
  <1>1. UNCHANGED <<users, nextId, sessions, tokens, carry, work, spent, converted, charged, slip>>
    BY DEF Age
  <1>2. \A v \in Ids, b \in Strict : Spend(v, b)' = Spend(v, b)
    <2> SUFFICES ASSUME NEW v \in Ids, NEW b \in Strict PROVE Spend(v, b)' = Spend(v, b)
      OBVIOUS
    <2>1. usage[v][b] \in [recent : Nat, old : Nat] /\ usage[u] \in [Strict -> [recent : Nat, old : Nat]]
      BY <1>0 DEF TablesFit
    <2>2. CASE ~(v = u /\ b = a)
      <3>1. usage'[v][b] = usage[v][b]
        BY <1>0, <2>1, <2>2 DEF Age, TablesFit
      <3> QED BY <3>1 DEF Spend
    <2>3. CASE v = u /\ b = a
      <3>1. PICK x : x = [recent |-> 0, old |-> usage[u][a].recent + usage[u][a].old]
        OBVIOUS
      <3>2. usage' = [usage EXCEPT ![u][a] = x]
        BY <3>1 DEF Age
      <3>3. usage'[u][a] = x
        BY <1>0, <2>1, <3>2 DEF TablesFit
      <3> QED BY <2>1, <2>3, <3>1, <3>3 DEF Spend
    <2> QED BY <2>2, <2>3
  <1>3. OwnersKept'
    BY <1>0, <1>1, <1>2 DEF OwnersKept
  <1>4. PlanHeld'
    BY <1>1 DEF MoneyInv, PlanHeld
  <1>5. SpendHeld'
    BY <1>1, <1>2 DEF MoneyInv, SpendHeld, Owed
  <1> QED BY <1>3, <1>4, <1>5 DEF MoneyInv

(* The retention sweep carries what it clears.                                               *)
LEMMA SweepsCarry ==
    ASSUME MoneyInv, SessionsInv', NEW w \in Workers, expire_old_usage_rows(w)
    PROVE  MoneyInv'
  <1>0. /\ TablesFit /\ HandsFit /\ OwnersKept /\ PlanHeld /\ work[w].pc = "sweep"
        /\ Knows(work[w], users, nextId) /\ ReadHolds(work[w], sessions)
    BY DEF MoneyInv, SessionsInv, OwnersKept, HandsFit, expire_old_usage_rows
  <1>1. PICK u \in Ids, a \in Strict : u = work[w].id /\ a = work[w].header
    BY <1>0 DEF ReadHolds
  <1>2. PICK sub : sub = work[w].sub
    OBVIOUS
  <1>3. PICK sum \in [Strict -> Nat] : sum = work[w].sum
    BY <1>0 DEF ReadHolds
  <1>4. \A b \in Strict : b # a => sum[b] = 0
    BY <1>0, <1>1, <1>3 DEF Knows
  <1>5. /\ UNCHANGED <<users, nextId, sessions, tokens, spent, converted, charged>>
        /\ work' = [work EXCEPT ![w] = Idle]
        /\ carry' = IF sub \in AnonSubs THEN carry_upsert(sub, sum) ELSE carry
        /\ usage' = [usage EXCEPT ![u][a].old = 0]
    BY <1>1, <1>2, <1>3 DEF expire_old_usage_rows, Finish
  <1>6. /\ slip'.bought = slip.bought /\ slip'.rival = slip.rival
        /\ slip'.leak <=> (slip.leak \/ usage[u][a].old # sum[a] \/ owner(u) # sub)
    BY <1>0, <1>1, <1>2, <1>3 DEF expire_old_usage_rows, TablesFit
  <1>7. \A v \in Ids, b \in Strict : /\ Spend(v, b) \in Nat /\ usage[u][a].old \in Nat
                                    /\ Spend(v, b)' = IF v = u /\ b = a THEN Spend(v, b) - usage[u][a].old ELSE Spend(v, b)
    <2> SUFFICES ASSUME NEW v \in Ids, NEW b \in Strict
                 PROVE  /\ Spend(v, b) \in Nat /\ usage[u][a].old \in Nat
                        /\ Spend(v, b)' = IF v = u /\ b = a THEN Spend(v, b) - usage[u][a].old ELSE Spend(v, b)
      OBVIOUS
    <2>1. /\ usage[v][b] \in [recent : Nat, old : Nat] /\ usage[u][a] \in [recent : Nat, old : Nat]
          /\ usage[u] \in [Strict -> [recent : Nat, old : Nat]]
      BY <1>0 DEF TablesFit
    <2>2. CASE ~(v = u /\ b = a)
      <3>1. usage'[v][b] = usage[v][b]
        BY <1>0, <1>5, <2>1, <2>2 DEF TablesFit
      <3> QED BY <2>1, <2>2, <3>1 DEF Spend
    <2>3. CASE v = u /\ b = a
      <3>1. PICK x : x = [usage[u][a] EXCEPT !.old = 0]
        OBVIOUS
      <3>2. x.old = 0 /\ x.recent = usage[u][a].recent
        BY <2>1, <3>1
      <3>3. usage' = [usage EXCEPT ![u][a] = x]
        BY <1>5, <3>1
      <3>4. usage'[u][a] = x
        BY <1>0, <2>1, <3>3 DEF TablesFit
      <3> QED BY <2>1, <2>3, <3>2, <3>4 DEF Spend
    <2> QED BY <2>2, <2>3
  <1>8. /\ \A v \in Workers : Knows(work'[v], users', nextId')
        /\ (\A v \in Workers : BringsNoPlan(work[v])) => \A v \in Workers : BringsNoPlan(work'[v])
    <2>1. Steady(users, users', nextId) /\ nextId' \in Nat /\ nextId <= nextId'
      BY <1>0, <1>5 DEF Steady, TablesFit
    <2> QED BY <1>5, <2>1, AfterAWrite
  <1>9. OwnersKept'
    <2>1. u < nextId
      BY <1>0, <1>1 DEF Knows
    <2>2. \A v \in Ids : v >= nextId => users[v] = None /\ \A b \in Strict : Spend(v, b)' = 0
      <3>1. \A v \in Ids : v >= nextId => v # u
        BY <1>0, <2>1 DEF TablesFit, Ids
      <3> QED BY <1>0, <1>7, <3>1 DEF OwnersKept
    <2> QED BY <1>0, <1>5, <1>8, <2>2 DEF OwnersKept
  <1>10. PlanHeld'
    BY <1>0, <1>5, <1>6, <1>8 DEF PlanHeld
  <1>11. SpendHeld'
    <2> SUFFICES ASSUME ~slip'.leak, NEW s \in AnonSubs, s[3] \in Strict
                 PROVE  /\ \A v \in Ids : (users[v] # None /\ users[v].sub = s) => carry'[s][s[3]] + Spend(v, s[3])' = Owed(s)
                        /\ (\A v \in Ids : users[v] = None \/ users[v].sub # s) => carry'[s][s[3]] = Owed(s)
      BY <1>5 DEF SpendHeld, Owed
    <2>1. ~slip.leak /\ usage[u][a].old = sum[a] /\ owner(u) = sub
      BY <1>6
    <2>2. /\ \A v \in Ids : (users[v] # None /\ users[v].sub = s) => carry[s][s[3]] + Spend(v, s[3]) = Owed(s)
          /\ (\A v \in Ids : users[v] = None \/ users[v].sub # s) => carry[s][s[3]] = Owed(s)
      BY <2>1 DEF MoneyInv, SpendHeld
    <2>3. carry[s][s[3]] \in Nat /\ sum[s[3]] \in Nat
      BY <1>0 DEF TablesFit
    <2>4. carry'[s][s[3]] = IF s = sub THEN carry[s][s[3]] + sum[s[3]] ELSE carry[s][s[3]]
      <3>1. carry \in [AnonSubs -> [Strict -> Nat]]
        BY <1>0 DEF TablesFit
      <3>2. PICK b \in Strict : b = s[3]
        OBVIOUS
      <3>3. carry_upsert(sub, sum)[s][b] = IF s = sub THEN carry[s][b] + sum[b] ELSE carry[s][b]
        BY <3>1, CarriesTo
      <3> QED BY <1>5, <3>2, <3>3
    <2>5. CASE s = sub
      <3>1. s # None
        BY RowsAreNotNone, SubsDiffer
      <3>2. /\ users[u] # None /\ users[u].sub = s
            /\ \A v \in Ids : (users[v] # None /\ users[v].sub = s) => v = u
        BY <1>0, <2>1, <2>5, <3>1 DEF OwnersKept, owner
      <3>3. carry'[s][s[3]] + Spend(u, s[3])' = carry[s][s[3]] + Spend(u, s[3])
        <4>1. CASE s[3] = a
          BY <1>7, <2>1, <2>3, <2>4, <2>5, <4>1
        <4>2. CASE s[3] # a
          BY <1>4, <1>7, <2>3, <2>4, <2>5, <4>2
        <4> QED BY <4>1, <4>2
      <3> QED BY <2>2, <3>2, <3>3
    <2>6. CASE s # sub
      <3>1. users[u] = None \/ users[u].sub # s
        BY <2>1, <2>6 DEF owner
      <3>2. \A v \in Ids : (users[v] # None /\ users[v].sub = s) => Spend(v, s[3])' = Spend(v, s[3])
        BY <1>7, <3>1
      <3> QED BY <2>2, <2>4, <2>6, <3>2
    <2> QED BY <2>5, <2>6
  <1> QED BY <1>9, <1>10, <1>11 DEF MoneyInv

(* Nobody has spent or bought anything at first, and one person at most is known.            *)
LEMMA MoneyStart == SessionsInit => MoneyInv
  <1> SUFFICES ASSUME SessionsInit PROVE MoneyInv
    OBVIOUS
  <1>1. SessionsInv
    BY SessionsStart
  <1>2. /\ \A u \in Ids : users[u] = None \/ (users[u] = Legacy /\ u = 1 /\ nextId = 2)
        /\ \A t \in tokens : t.id < nextId
        /\ \A s \in DOMAIN sessions : sessions[s].user < nextId
    <2>1. PICK legacy \in BOOLEAN :
             IF legacy
             THEN /\ users = [u \in Ids |-> IF u = 1 THEN Legacy ELSE None]
                  /\ nextId = 2
                  /\ sessions = <<[user |-> 1, app |-> None, live |-> TRUE, gone |-> FALSE, family |-> 1]>>
                  /\ tokens = {[id |-> 1, claim |-> None]}
             ELSE users = [u \in Ids |-> None] /\ nextId = 1 /\ sessions = << >> /\ tokens = {}
      BY DEF SessionsInit
    <2>2. CASE legacy
      <3>1. \A s \in DOMAIN sessions : sessions[s].user = 1
        BY <2>1, <2>2
      <3> QED BY <2>1, <2>2, <3>1
    <2>3. CASE ~legacy
      BY <2>1, <2>3
    <2> QED BY <2>2, <2>3
  <1>3. Legacy.sub \in AppleSubs /\ Legacy.active /\ ~Legacy.paid
    BY SessionsAssumption DEF Legacy, AppleSubs
  <1>4. \A w \in Workers : work[w] = Idle
    BY DEF SessionsInit
  <1>5. \A u \in Ids, a \in Strict : Spend(u, a) = 0
    BY DEF SessionsInit, NoUsage, Spend
  <1>6. OwnersKept
    <2>1. \A w \in Workers : Knows(work[w], users, nextId)
      BY <1>4, IdleKnows
    <2>2. spent \in [AnonSubs -> Int] /\ converted \in [AnonSubs -> Int] /\ charged \in Nat
      BY DEF SessionsInit
    <2>3. \A u \in Ids : u >= nextId => users[u] = None
      BY <1>2
    <2> QED BY <1>2, <1>5, <2>1, <2>2, <2>3 DEF OwnersKept
  <1>7. PlanHeld
    <2>1. \A w \in Workers : BringsNoPlan(work[w])
      BY <1>4 DEF BringsNoPlan, Idle
    <2> QED BY <1>2, <1>3, <2>1 DEF PlanHeld
  <1>8. SpendHeld
    <2>1. \A s \in AnonSubs : s[3] \in Strict => carry[s][s[3]] = 0 /\ Owed(s) = 0
      BY DEF SessionsInit, Owed
    <2> QED BY <1>5, <2>1 DEF SpendHeld
  <1> QED BY <1>1, <1>6, <1>7, <1>8 DEF MoneyInv

(* Every step of a handler, of a purchase or of time.                                        *)
LEMMA MoneyStep == MoneyInv /\ [SessionsNext]_sessionVars => MoneyInv'
  <1> SUFFICES ASSUME MoneyInv, [SessionsNext]_sessionVars PROVE MoneyInv'
    OBVIOUS
  <1>0. SessionsInv'
    BY SessionsStep DEF MoneyInv
  <1>1. ASSUME NEW w \in Workers, SignIn(w) PROVE MoneyInv'
    <2>1. \/ \E x \in AppleIds, h \in Apps \cup {None}, t \in tokens \cup {None} : apple_auth(w, x, h, t)
          \/ SignInKnown(w) \/ SignInNew(w) \/ SignInConvert(w) \/ merge_into(w) \/ build_auth_response(w)
      BY <1>1 DEF SignIn
    <2> QED BY <1>0, <2>1, ReadsMoveNoMoney, MintsMoveNoMoney, NewcomersOweNothing, ConversionsAreFair, MergesKeepThePlan
  <1>2. ASSUME NEW w \in Workers, Anonymous(w) PROVE MoneyInv'
    BY <1>0, <1>2, ReadsMoveNoMoney, MintsMoveNoMoney, NewcomersOweNothing DEF Anonymous
  <1>3. ASSUME NEW w \in Workers, Refresh(w) PROVE MoneyInv'
    BY <1>0, <1>3, ReadsMoveNoMoney, MintsMoveNoMoney DEF Refresh
  <1>4. ASSUME NEW w \in Workers, Call(w) PROVE MoneyInv'
    BY <1>0, <1>4, ReadsMoveNoMoney, CallsAreCharged DEF Call
  <1>5. ASSUME NEW w \in Workers, Deletion(w) PROVE MoneyInv'
    BY <1>0, <1>5, ReadsMoveNoMoney, DeletionsCarry DEF Deletion
  <1>6. ASSUME NEW w \in Workers, Retention(w) PROVE MoneyInv'
    BY <1>0, <1>6, ReadsMoveNoMoney, AgeingKeepsSpend, SweepsCarry DEF Retention
  <1>7. ASSUME NEW t \in tokens, Buy(t) PROVE MoneyInv'
    BY <1>0, <1>7, PurchasesBindOnce
  <1>8. CASE UNCHANGED sessionVars
    BY <1>0, <1>8 DEF sessionVars, MoneyInv, OwnersKept, PlanHeld, SpendHeld, Spend, Owed
  <1> QED BY <1>1, <1>2, <1>3, <1>4, <1>5, <1>6, <1>7, <1>8 DEF SessionsNext

(* The plan a buyer paid for is on one open account at most, with all it was charged on its  *)
(* meter (merge_into), and what a signed-out phone spent stays counted against it, once,     *)
(* through deletions and the sweep (carry_spend_before_delete, expire_old_usage_rows), but   *)
(* for what its converted accounts had live (apple_auth), unless one of the named races      *)
(* happened.                                                                                *)
THEOREM MoneyFollowsItsOwner == SessionsSpec => []MoneyMoves
  <1>1. MoneyInv => MoneyMoves
    <2> SUFFICES ASSUME MoneyInv PROVE MoneyMoves
      OBVIOUS
    <2>1. PlanMovesWithMeter
      <3> SUFFICES ASSUME ~slip.rival
                   PROVE  /\ Cardinality({u \in Ids : users[u] # None /\ users[u].paid}) <= 1
                          /\ \A u \in {v \in Ids : users[v] # None /\ users[v].paid} :
                                users[u].active /\ users[u].used = charged
        BY DEF PlanMovesWithMeter
      <3> DEFINE holders == {u \in Ids : users[u] # None /\ users[u].paid}
      <3>1. \A u, v \in holders : u = v
        BY DEF MoneyInv, PlanHeld
      <3>2. Cardinality(holders) <= 1
        <4> HIDE DEF holders
        <4>1. CASE holders = {}
          <5>1. Cardinality(holders) = 0
            BY <4>1, FS_EmptySet
          <5> QED BY <5>1
        <4>2. CASE holders # {}
          <5>1. PICK u \in holders : holders = {u}
            BY <3>1, <4>2
          <5>2. Cardinality({u}) = 1
            BY FS_Singleton
          <5> QED BY <5>1, <5>2
        <4> QED BY <4>1, <4>2
      <3> QED BY <3>2 DEF MoneyInv, PlanHeld
    <2>2. SpendSurvivesDelete
      <3> SUFFICES ASSUME ~slip.leak, NEW s \in AnonSubs, s[3] \in Strict
                   PROVE  carry[s][s[3]] + (IF IdOf(s) = None THEN 0 ELSE Spend(IdOf(s), s[3])) + converted[s] = spent[s]
        BY DEF SpendSurvivesDelete
      <3>1. /\ \A u \in Ids : (users[u] # None /\ users[u].sub = s) => carry[s][s[3]] + Spend(u, s[3]) = Owed(s)
            /\ (\A u \in Ids : users[u] = None \/ users[u].sub # s) => carry[s][s[3]] = Owed(s)
        BY DEF MoneyInv, SpendHeld
      <3>2. carry[s][s[3]] \in Nat /\ TablesFit
        BY DEF MoneyInv, SessionsInv, TablesFit
      <3>3. carry[s][s[3]] + (IF IdOf(s) = None THEN 0 ELSE Spend(IdOf(s), s[3])) = Owed(s)
        BY <3>1, <3>2, IdOfOwns
      <3>4. spent[s] \in Int /\ converted[s] \in Int
        BY DEF MoneyInv, OwnersKept
      <3>5. IdOf(s) # None => Spend(IdOf(s), s[3]) \in Nat
        <4>1. IdOf(s) # None => IdOf(s) \in Ids
          BY <3>2, IdOfOwns
        <4>2. ASSUME NEW u \in Ids PROVE usage[u][s[3]] \in [recent : Nat, old : Nat]
          BY <3>2 DEF TablesFit
        <4> QED BY <4>1, <4>2 DEF Spend
      <3> QED BY <3>2, <3>3, <3>4, <3>5 DEF Owed
    <2> QED BY <2>1, <2>2 DEF MoneyMoves
  <1> QED BY <1>1, MoneyStart, MoneyStep, PTL DEF SessionsSpec

-----------------------------------------------------------------------------
(* Outreach.  Its parts share no variable: each has its invariant, and the   *)
(* whole is their conjunction.                                              *)

(* Every part takes its own steps, whatever the others do.                   *)
OutreachSpec ==
    /\ OutreachInit
    /\ [][MailNext]_mailVars /\ [][PushNext]_pushVars /\ [][OfferNext]_offerVars
    /\ [][PromoNext]_promoVars /\ [][AdNext]_adVars

-----------------------------------------------------------------------------
(* Letters and the provider's webhook                                        *)

DueRows == People \X BOOLEAN \X (0 .. MaxAttempts - 1)

Sweeps ==
    [pc : {"idle", "next", "record"}, due : SUBSET DueRows, who : DueRows \cup {Null},
     sent : BOOLEAN, ok : BOOLEAN]

Hooks == [pc : {"idle", "suppress", "optout"}, mail : Mails \cup {Null}]

MailIds == {m.id : m \in Mails}

MailType ==
    /\ account \in [People -> BOOLEAN] /\ intent \in SUBSET People
    /\ queue \in [People -> 0 .. MaxAttempts - 1 \cup {Null}]
    /\ sentAt \in [People -> BOOLEAN] /\ suppressed \in SUBSET People
    /\ acked \in SUBSET Mails /\ events \in SUBSET MailIds
    /\ sweep \in Sweeps /\ hook \in Hooks /\ letters \in [People -> Nat]
    /\ mailSlip \in [resent : SUBSET People, dropped : SUBSET MailIds, underSweep : SUBSET People,
                     late : SUBSET People]

(* The letter of row r is being recorded.                                    *)
Recording(r) == sweep.pc = "record" /\ sweep.who = r

(* What the loop relies on while it is between two steps: a person has one    *)
(* row in hand; a row that says unsent is of someone who has had no letter,   *)
(* or whose letter a restart kept from being recorded; and its account was    *)
(* deleted, if at all, after the row was read.                                *)
SweepRelies ==
    /\ \A r, s \in sweep.due : r[1] = s[1] => r = s
    /\ sweep.pc = "record" => sweep.who \in sweep.due
    /\ sweep.sent => sweep.ok
    /\ \A r \in sweep.due : account[r[1]] \/ r[1] \in mailSlip.underSweep
    /\ \A r \in sweep.due : r[2] \/ Recording(r) \/ letters[r[1]] = 0 \/ r[1] \in mailSlip.resent

(* A letter that left is on record, is about to be, or was of an account that *)
(* is gone; a restart may lose it.                                            *)
LettersRecorded ==
    \A p \in People :
       \/ letters[p] = 0 \/ p \in mailSlip.resent \/ ~account[p] \/ sentAt[p]
       \/ sweep.pc = "record" /\ sweep.sent /\ sweep.who[1] = p

(* A message that bars its address and was recorded has barred it, is about    *)
(* to, or was dropped by a restart.                                           *)
Heeded ==
    /\ hook.pc # "idle" => hook.mail \in Mails /\ hook.mail.id \in events
    /\ hook.pc = "optout" => hook.mail.to \in suppressed
    /\ \A m \in acked : m.id \in events
    /\ \A m \in Mails : m.id \in events /\ m.kind \in {"hard", "complaint"} =>
          \/ m.to \in suppressed \/ m.id \in mailSlip.dropped
          \/ hook.pc = "suppress" /\ hook.mail = m

MailInv == MailType /\ SweepRelies /\ LettersRecorded /\ Heeded /\ LetterAsOwed /\ ComplaintSticks

LEMMA MailsAre ==
    /\ \A m \in Mails : m.to \in People /\ m.id \in MailIds
    /\ \A m, n \in Mails : m.id = n.id => m = n
    /\ Null \notin Mails /\ Null \notin People /\ MaxAttempts \in Nat \ {0}
  BY OutreachAssumption DEF MailIds

LEMMA NoSweepFits ==
    /\ NoSweep \in Sweeps /\ NoSweep.due = {} /\ NoSweep.pc = "idle" /\ NoSweep.sent = FALSE
    /\ NoHook \in Hooks /\ NoHook.pc = "idle"
  <1>1. PICK no \in BOOLEAN : no = FALSE
    OBVIOUS
  <1>2. NoSweep = [pc |-> "idle", due |-> {}, who |-> Null, sent |-> no, ok |-> no]
    BY <1>1 DEF NoSweep
  <1>3. NoSweep \in Sweeps /\ NoSweep.due = {} /\ NoSweep.pc = "idle" /\ NoSweep.sent = no
    BY <1>2 DEF Sweeps
  <1> QED BY <1>1, <1>3 DEF NoHook, Hooks

(* What the loop has in hand after a row is done with.                        *)
LEMMA RestFits ==
    ASSUME MailType, NEW r \in sweep.due
    PROVE  /\ Rest(r) \in Sweeps /\ Rest(r).due = sweep.due \ {r} /\ Rest(r).pc # "record"
           /\ Rest(r).sent = FALSE
  <1>1. CASE sweep.due \ {r} = {}
    BY <1>1, NoSweepFits DEF Rest
  <1>2. CASE sweep.due \ {r} # {}
    <2>1. Rest(r) = [NoSweep EXCEPT !.pc = "next", !.due = sweep.due \ {r}]
      BY <1>2 DEF Rest
    <2>2. sweep.due \in SUBSET DueRows
      BY DEF MailType, Sweeps
    <2>3. Rest(r) \in Sweeps /\ Rest(r).due = sweep.due \ {r} /\ Rest(r).pc = "next"
          /\ Rest(r).sent = NoSweep.sent
      BY <2>1, <2>2, NoSweepFits DEF Sweeps
    <2> QED BY <2>3, NoSweepFits
  <1> QED BY <1>1, <1>2

(* Steps that leave the loop, its history and the webhook alone keep the promises.       *)
LEMMA MailQuiet ==
    ASSUME MailInv, MailType',
           /\ sweep' = sweep /\ letters' = letters /\ mailSlip' = mailSlip /\ hook' = hook
           /\ events' = events /\ acked' = acked /\ suppressed' = suppressed
           /\ account' = account /\ sentAt' = sentAt
    PROVE  MailInv'
  BY DEF MailInv, SweepRelies, LettersRecorded, Heeded, LetterAsOwed, ComplaintSticks, Recording

LEMMA SelectKept == ASSUME MailInv, SweepSelect PROVE MailInv'
  <1> USE DEF MailInv
  <1>1. PICK D \in SUBSET due_rows :
          sweep' = [NoSweep EXCEPT !.pc = "next", !.due = {<<p, sentAt[p], queue[p]>> : p \in D}]
    BY DEF SweepSelect
  <1> DEFINE rows == {<<p, sentAt[p], queue[p]>> : p \in D}
  <1>2. /\ account' = account /\ intent' = intent /\ queue' = queue /\ sentAt' = sentAt
        /\ suppressed' = suppressed /\ events' = events /\ hook' = hook /\ acked' = acked
        /\ letters' = letters /\ mailSlip' = mailSlip
    BY DEF SweepSelect
  <1>3. \A p \in D : p \in People /\ account[p] /\ queue[p] \in 0 .. MaxAttempts - 1
    BY DEF due_rows, MailType
  <1>4. rows \in SUBSET DueRows
    BY <1>3 DEF DueRows, MailType
  <1>5. \A r \in rows : r[1] \in D /\ r[2] = sentAt[r[1]]
    OBVIOUS
  <1>6. \A r, s \in rows : r[1] = s[1] => r = s
    OBVIOUS
  <1> HIDE DEF rows
  <1>7. /\ sweep' \in Sweeps /\ sweep'.due = rows /\ sweep'.pc = "next" /\ sweep'.sent = NoSweep.sent
    BY <1>1, <1>4, NoSweepFits DEF Sweeps, rows
  <1>8. MailType'
    BY <1>2, <1>7 DEF MailType
  <1>9. SweepRelies'
    <2>1. \A r \in rows : account[r[1]]
      BY <1>3, <1>5
    <2>2. \A r \in rows : r[2] \/ letters[r[1]] = 0 \/ r[1] \in mailSlip.resent
      <3> TAKE r \in rows
      <3>1. r[1] \in People /\ account[r[1]] /\ r[2] = sentAt[r[1]]
        BY <1>3, <1>5
      <3>2. sweep.pc # "record"
        BY DEF SweepSelect
      <3>3. letters[r[1]] = 0 \/ r[1] \in mailSlip.resent \/ sentAt[r[1]]
        BY <3>1, <3>2 DEF LettersRecorded
      <3> QED BY <3>1, <3>3, Zenon
    <2>3. sweep'.sent => FALSE
      BY <1>7, NoSweepFits
    <2> QED BY <1>2, <1>6, <1>7, <2>1, <2>2, <2>3 DEF SweepRelies, Recording
  <1>10. LettersRecorded'
    <2>1. sweep.pc # "record"
      BY DEF SweepSelect
    <2> QED BY <1>2, <2>1 DEF LettersRecorded
  <1>11. Heeded' /\ LetterAsOwed' /\ ComplaintSticks'
    BY <1>2 DEF Heeded, LetterAsOwed, ComplaintSticks
  <1> QED BY <1>8, <1>9, <1>10, <1>11

LEMMA DropKept == ASSUME MailInv, SweepDrop PROVE MailInv'
  <1> USE DEF MailInv
  <1>1. PICK r \in sweep.due : r[2] /\ queue' = [queue EXCEPT ![r[1]] = Null] /\ sweep' = Rest(r)
    BY DEF SweepDrop
  <1>2. /\ account' = account /\ intent' = intent /\ sentAt' = sentAt
        /\ suppressed' = suppressed /\ events' = events /\ hook' = hook /\ acked' = acked
        /\ letters' = letters /\ mailSlip' = mailSlip /\ sweep.pc = "next"
    BY DEF SweepDrop
  <1>3. sweep' \in Sweeps /\ sweep'.due = sweep.due \ {r} /\ sweep'.pc # "record" /\ sweep'.sent = FALSE
    BY <1>1, RestFits
  <1>4. MailType'
    BY <1>1, <1>2, <1>3 DEF MailType
  <1>5. SweepRelies' /\ LettersRecorded'
    BY <1>2, <1>3 DEF SweepRelies, LettersRecorded, Recording
  <1>6. Heeded' /\ LetterAsOwed' /\ ComplaintSticks'
    BY <1>2 DEF Heeded, LetterAsOwed, ComplaintSticks
  <1> QED BY <1>4, <1>5, <1>6

LEMMA SendKept == ASSUME MailInv, SweepSend PROVE MailInv'
  <1> USE DEF MailInv
  <1>1. PICK r \in sweep.due, outcome \in {"sent", "failed"} :
          LET p == r[1]
              result == send_email(p, outcome)
          IN  /\ ~r[2]
              /\ letters' = [letters EXCEPT ![p] = IF result = "sent" THEN @ + 1 ELSE @]
              /\ sweep' = [sweep EXCEPT !.pc = "record", !.who = r,
                                        !.sent = (result = "sent"),
                                        !.ok = (result \in {"sent", "suppressed"})]
              /\ mailSlip' = [mailSlip EXCEPT
                    !.late = IF result = "sent" /\ ~account[p] THEN @ \cup {p} ELSE @]
    BY DEF SweepSend
  <1>2. /\ account' = account /\ intent' = intent /\ queue' = queue /\ sentAt' = sentAt
        /\ suppressed' = suppressed /\ events' = events /\ hook' = hook /\ acked' = acked
        /\ sweep.pc = "next"
    BY DEF SweepSend
  <1>3. PICK sent \in BOOLEAN : sent = (send_email(r[1], outcome) = "sent")
    OBVIOUS
  <1>4. PICK ok \in BOOLEAN : ok = (send_email(r[1], outcome) \in {"sent", "suppressed"})
    <2> DEFINE done == send_email(r[1], outcome) \in {"sent", "suppressed"}
    <2>1. CASE done
      BY <2>1, TRUE \in BOOLEAN, TRUE = done, Zenon
    <2>2. CASE ~done
      BY <2>2, FALSE \in BOOLEAN, FALSE = done, Zenon
    <2> QED BY <2>1, <2>2
  <1>5. sent => ok
    BY <1>3, <1>4
  <1>6. sweep' = [sweep EXCEPT !.pc = "record", !.who = r, !.sent = sent, !.ok = ok]
    BY <1>1, <1>3, <1>4
  <1>7. letters' = [letters EXCEPT ![r[1]] = IF sent THEN letters[r[1]] + 1 ELSE letters[r[1]]]
    BY <1>1, <1>3
  <1>8. mailSlip' = [mailSlip EXCEPT !.late = IF sent /\ ~account[r[1]] THEN mailSlip.late \cup {r[1]}
                                              ELSE mailSlip.late]
    BY <1>1, <1>3
  <1>9. r \in DueRows /\ r[1] \in People /\ r[2] \in BOOLEAN /\ sweep \in Sweeps
    BY DEF MailType, Sweeps, DueRows
  <1>10. /\ sweep' \in Sweeps /\ sweep'.due = sweep.due /\ sweep'.pc = "record" /\ sweep'.who = r
         /\ sweep'.sent = sent /\ sweep'.ok = ok
    BY <1>6, <1>9 DEF Sweeps
  <1>11. /\ mailSlip' \in [resent : SUBSET People, dropped : SUBSET MailIds, underSweep : SUBSET People,
                           late : SUBSET People]
         /\ mailSlip'.resent = mailSlip.resent /\ mailSlip'.dropped = mailSlip.dropped
         /\ mailSlip'.underSweep = mailSlip.underSweep
         /\ mailSlip'.late \in {mailSlip.late, mailSlip.late \cup {r[1]}}
         /\ mailSlip'.late # mailSlip.late => ~account[r[1]]
    BY <1>8, <1>9 DEF MailType
  <1>12. letters' \in [People -> Nat] /\ \A p \in People : p # r[1] => letters'[p] = letters[p]
    BY <1>7, <1>9 DEF MailType
  <1>13. letters'[r[1]] = IF sent THEN letters[r[1]] + 1 ELSE letters[r[1]]
    BY <1>7, <1>9 DEF MailType
  <1>14. letters[r[1]] = 0 \/ r[1] \in mailSlip.resent
    <2>1. ~r[2] /\ ~Recording(r)
      BY <1>1, <1>2 DEF Recording
    <2> QED BY <2>1 DEF SweepRelies
  <1>15. MailType'
    BY <1>2, <1>10, <1>11, <1>12 DEF MailType
  <1>16. SweepRelies'
    <2>1. \A q \in sweep.due : q[1] = r[1] => q = r
      BY DEF SweepRelies
    <2>2. \A q \in sweep.due : q[1] \in People
      BY <1>9 DEF Sweeps, DueRows
    <2>3. \A q \in sweep.due : q # r => q[2] \/ letters[q[1]] = 0 \/ q[1] \in mailSlip.resent
      BY <1>2 DEF SweepRelies, Recording
    <2>4. \A q \in sweep.due : q[2] \/ Recording(q)' \/ letters'[q[1]] = 0 \/ q[1] \in mailSlip'.resent
      BY <1>10, <1>11, <1>12, <2>1, <2>2, <2>3 DEF Recording
    <2>5. sweep'.sent => sweep'.ok
      BY <1>5, <1>10
    <2>6. \A q, u \in sweep.due : q[1] = u[1] => q = u
      BY DEF SweepRelies
    <2>7. \A q \in sweep.due : account[q[1]] \/ q[1] \in mailSlip.underSweep
      BY DEF SweepRelies
    <2> QED BY <1>2, <1>10, <1>11, <2>4, <2>5, <2>6, <2>7 DEF SweepRelies
  <1>17. LettersRecorded'
    <2> SUFFICES ASSUME NEW p \in People
                 PROVE  \/ letters'[p] = 0 \/ p \in mailSlip'.resent \/ ~account'[p] \/ sentAt'[p]
                        \/ sweep'.pc = "record" /\ sweep'.sent /\ sweep'.who[1] = p
      BY DEF LettersRecorded
    <2>1. letters[p] = 0 \/ p \in mailSlip.resent \/ ~account[p] \/ sentAt[p]
      BY <1>2 DEF LettersRecorded
    <2>2. CASE p # r[1]
      BY <1>2, <1>11, <1>12, <2>1, <2>2
    <2>3. CASE p = r[1] /\ sent
      BY <1>10, <2>3
    <2>4. CASE p = r[1] /\ ~sent
      BY <1>2, <1>11, <1>13, <2>1, <2>4
    <2> QED BY <2>2, <2>3, <2>4
  <1>18. LetterAsOwed'
    <2>1. \A p \in People : letters'[p] > 1 => p \in mailSlip'.resent
      <3> SUFFICES ASSUME NEW p \in People, letters'[p] > 1 PROVE p \in mailSlip.resent
        BY <1>11
      <3>1. CASE p # r[1]
        BY <1>12, <3>1 DEF LetterAsOwed
      <3>2. CASE p = r[1]
        BY <1>13, <1>14, <3>2
      <3> QED BY <3>1, <3>2
    <2>2. mailSlip'.late \in SUBSET mailSlip'.underSweep
      <3>1. ~account[r[1]] => r[1] \in mailSlip.underSweep
        BY DEF SweepRelies
      <3>2. mailSlip.late \in SUBSET mailSlip.underSweep
        BY DEF LetterAsOwed
      <3> QED BY <1>11, <3>1, <3>2
    <2> QED BY <2>1, <2>2 DEF LetterAsOwed
  <1>19. Heeded' /\ ComplaintSticks'
    BY <1>2, <1>11 DEF Heeded, ComplaintSticks
  <1> QED BY <1>15, <1>16, <1>17, <1>18, <1>19

LEMMA RecordKept == ASSUME MailInv, SweepRecord PROVE MailInv'
  <1> USE DEF MailInv
  <1> DEFINE r == sweep.who
             p == r[1]
  <1>1. /\ sweep.pc = "record" /\ sweep' = Rest(r)
        /\ \/ /\ sweep.ok
              /\ sentAt' = [sentAt EXCEPT ![p] = account[p] \/ @]
              /\ queue' = [queue EXCEPT ![p] = Null]
           \/ /\ ~sweep.ok
              /\ queue' = [queue EXCEPT ![p] = IF spent_up(r[3]) \/ @ = Null THEN Null ELSE r[3] + 1]
              /\ sentAt' = sentAt
        /\ account' = account /\ intent' = intent
        /\ suppressed' = suppressed /\ events' = events /\ hook' = hook /\ acked' = acked
        /\ letters' = letters /\ mailSlip' = mailSlip
    BY DEF SweepRecord
  <1>2. r \in sweep.due /\ r \in DueRows
    BY <1>1 DEF SweepRelies, MailType, Sweeps
  <1>3. p \in People /\ r[3] \in 0 .. MaxAttempts - 1
    BY <1>2 DEF DueRows
  <1>4. sweep' \in Sweeps /\ sweep'.due = sweep.due \ {r} /\ sweep'.pc # "record" /\ sweep'.sent = FALSE
    BY <1>1, <1>2, RestFits
  <1> HIDE DEF r, p
  <1>5. PICK b \in BOOLEAN : b = (account[p] \/ sentAt[p])
    OBVIOUS
  <1>6. queue' \in [People -> 0 .. MaxAttempts - 1 \cup {Null}]
    <2>1. PICK n \in 0 .. MaxAttempts - 1 \cup {Null} :
            n = IF spent_up(r[3]) \/ queue[p] = Null THEN Null ELSE r[3] + 1
      <3>1. ~spent_up(r[3]) => r[3] + 1 \in 0 .. MaxAttempts - 1
        BY <1>3, MailsAre DEF spent_up
      <3> QED BY <3>1
    <2>2. queue' = [queue EXCEPT ![p] = Null] \/ queue' = [queue EXCEPT ![p] = n]
      BY <1>1, <2>1
    <2> QED BY <1>3, <2>2 DEF MailType
  <1>7. /\ sentAt' \in [People -> BOOLEAN] /\ \A q \in People : sentAt[q] => sentAt'[q]
        /\ sweep.ok => sentAt'[p] \/ ~account[p]
    <2>1. CASE ~sweep.ok
      BY <1>1, <2>1 DEF MailType
    <2>2. CASE sweep.ok
      <3>1. sentAt' = [sentAt EXCEPT ![p] = b]
        BY <1>1, <1>5, <2>2
      <3>2. sentAt \in [People -> BOOLEAN]
        BY DEF MailType
      <3>3. sentAt'[p] = b /\ \A q \in People : q # p => sentAt'[q] = sentAt[q]
        BY <1>3, <3>1, <3>2
      <3>4. sentAt' \in [People -> BOOLEAN]
        BY <3>1, <3>2
      <3> QED BY <1>5, <3>3, <3>4
    <2> QED BY <2>1, <2>2
  <1>8. MailType'
    BY <1>1, <1>4, <1>6, <1>7 DEF MailType
  <1>9. SweepRelies'
    <2>1. \A q \in sweep.due : q # r => q[2] \/ letters[q[1]] = 0 \/ q[1] \in mailSlip.resent
      BY <1>1 DEF SweepRelies, Recording, r
    <2> QED BY <1>1, <1>4, <2>1 DEF SweepRelies, Recording
  <1>10. LettersRecorded'
    <2> SUFFICES ASSUME NEW q \in People
                 PROVE  letters'[q] = 0 \/ q \in mailSlip'.resent \/ ~account'[q] \/ sentAt'[q]
      BY DEF LettersRecorded
    <2>1. CASE letters[q] = 0 \/ q \in mailSlip.resent \/ ~account[q] \/ sentAt[q]
      BY <1>1, <1>7, <2>1
    <2>2. CASE sweep.sent /\ sweep.who[1] = q
      <3>1. sweep.ok
        BY <2>2 DEF SweepRelies
      <3>2. q = p
        BY <2>2 DEF p, r
      <3> QED BY <1>1, <1>7, <3>1, <3>2
    <2> QED BY <2>1, <2>2 DEF LettersRecorded
  <1>11. Heeded' /\ LetterAsOwed' /\ ComplaintSticks'
    BY <1>1 DEF Heeded, LetterAsOwed, ComplaintSticks
  <1> QED BY <1>8, <1>9, <1>10, <1>11

LEMMA DeletionKept == ASSUME MailInv, NEW p \in People, DeletePerson(p) PROVE MailInv'
  <1> USE DEF MailInv
  <1>1. /\ account' = [account EXCEPT ![p] = FALSE]
        /\ queue' = [queue EXCEPT ![p] = Null]
        /\ sentAt' = [sentAt EXCEPT ![p] = FALSE]
        /\ mailSlip' = [mailSlip EXCEPT !.underSweep =
              IF \E r \in sweep.due : r[1] = p THEN mailSlip.underSweep \cup {p} ELSE mailSlip.underSweep]
        /\ intent' = intent /\ suppressed' = suppressed /\ events' = events /\ hook' = hook
        /\ acked' = acked /\ letters' = letters /\ sweep' = sweep
    BY DEF DeletePerson
  <1>2. PICK no \in BOOLEAN : no = FALSE
    OBVIOUS
  <1>3. /\ account' \in [People -> BOOLEAN] /\ account'[p] = FALSE
        /\ \A q \in People : q # p => account'[q] = account[q] /\ sentAt'[q] = sentAt[q]
        /\ sentAt' \in [People -> BOOLEAN]
    <2>1. account' = [account EXCEPT ![p] = no] /\ sentAt' = [sentAt EXCEPT ![p] = no]
      BY <1>1, <1>2
    <2>2. account \in [People -> BOOLEAN] /\ sentAt \in [People -> BOOLEAN]
      BY DEF MailType
    <2>3. account'[p] = no
      BY <2>1, <2>2
    <2>4. account' \in [People -> BOOLEAN] /\ sentAt' \in [People -> BOOLEAN]
      BY <2>1, <2>2
    <2>5. \A q \in People : q # p => account'[q] = account[q] /\ sentAt'[q] = sentAt[q]
      BY <2>1, <2>2
    <2> QED BY <1>2, <2>3, <2>4, <2>5
  <1>4. /\ mailSlip' \in [resent : SUBSET People, dropped : SUBSET MailIds, underSweep : SUBSET People,
                          late : SUBSET People]
        /\ mailSlip'.resent = mailSlip.resent /\ mailSlip'.dropped = mailSlip.dropped
        /\ mailSlip'.late = mailSlip.late
        /\ mailSlip'.underSweep = IF \E r \in sweep.due : r[1] = p THEN mailSlip.underSweep \cup {p}
                                  ELSE mailSlip.underSweep
    BY <1>1 DEF MailType
  <1>5. queue' \in [People -> 0 .. MaxAttempts - 1 \cup {Null}]
    BY <1>1 DEF MailType
  <1>6. MailType'
    BY <1>1, <1>3, <1>4, <1>5 DEF MailType
  <1>7. SweepRelies'
    <2>1. \A r \in sweep.due : r[1] \in People
      BY DEF MailType, Sweeps, DueRows
    <2>2. \A r \in sweep.due : account'[r[1]] \/ r[1] \in mailSlip'.underSweep
      <3> TAKE r \in sweep.due
      <3>1. CASE r[1] = p
        BY <1>4, <3>1
      <3>2. CASE r[1] # p
        BY <1>3, <1>4, <2>1, <3>2 DEF SweepRelies
      <3> QED BY <3>1, <3>2
    <2> QED BY <1>1, <1>4, <2>2 DEF SweepRelies, Recording
  <1>8. LettersRecorded'
    BY <1>1, <1>3, <1>4 DEF LettersRecorded
  <1>9. LetterAsOwed'
    <2>1. mailSlip.late \in SUBSET mailSlip'.underSweep
      BY <1>4 DEF LetterAsOwed
    <2> QED BY <1>1, <1>4, <2>1 DEF LetterAsOwed
  <1>10. Heeded' /\ ComplaintSticks'
    BY <1>1, <1>4 DEF Heeded, ComplaintSticks
  <1> QED BY <1>6, <1>7, <1>8, <1>9, <1>10

LEMMA QueueingKept ==
    ASSUME MailInv, NEW p \in People, enqueue(p) \/ EnqueueInsert(p) \/ \E v \in BOOLEAN : set_marketing_opt_in(p, v)
    PROVE  MailInv'
  <1>1. CASE enqueue(p)
    <2>1. MailType'
      BY <1>1 DEF enqueue, MailInv, MailType
    <2> QED BY <1>1, <2>1, MailQuiet DEF enqueue
  <1>2. CASE EnqueueInsert(p)
    <2>1. PICK n \in 0 .. MaxAttempts - 1 \cup {Null} : n = IF queue[p] = Null THEN 0 ELSE queue[p]
      BY MailsAre DEF MailInv, MailType
    <2>2. queue' = [queue EXCEPT ![p] = n]
      BY <1>2, <2>1 DEF EnqueueInsert
    <2>3. MailType'
      BY <1>2, <2>2 DEF EnqueueInsert, MailInv, MailType
    <2> QED BY <1>2, <2>3, MailQuiet DEF EnqueueInsert
  <1>3. ASSUME NEW v \in BOOLEAN, set_marketing_opt_in(p, v) PROVE MailInv'
    <2>1. MailType'
      BY <1>3 DEF set_marketing_opt_in, MailInv, MailType
    <2> QED BY <1>3, <2>1, MailQuiet DEF set_marketing_opt_in
  <1> QED BY <1>1, <1>2, <1>3

(* Steps of the webhook leave the loop alone.                                    *)
LEMMA HookQuiet ==
    ASSUME MailInv, MailType', Heeded', ComplaintSticks',
           sweep' = sweep, letters' = letters, account' = account, sentAt' = sentAt, mailSlip' = mailSlip
    PROVE  MailInv'
  BY DEF MailInv, SweepRelies, LettersRecorded, LetterAsOwed, Recording

LEMMA ReceiveKept == ASSUME MailInv, NEW m \in Mails, receive_resend_webhook(m) PROVE MailInv'
  <1> USE DEF MailInv
  <1>1. /\ account' = account /\ intent' = intent /\ queue' = queue /\ sentAt' = sentAt
        /\ suppressed' = suppressed /\ sweep' = sweep /\ letters' = letters /\ mailSlip' = mailSlip
        /\ hook.pc = "idle"
    BY DEF receive_resend_webhook
  <1>2. CASE m.id \in events
    <2>1. acked' = acked \cup {m} /\ events' = events /\ hook' = hook
      BY <1>2 DEF receive_resend_webhook
    <2>2. MailType'
      BY <1>1, <2>1 DEF MailType
    <2>3. Heeded'
      BY <1>1, <1>2, <2>1 DEF Heeded
    <2>4. ComplaintSticks'
      BY <1>1, <1>2, <2>1 DEF Heeded, ComplaintSticks
    <2> QED BY <1>1, <2>2, <2>3, <2>4, HookQuiet
  <1>3. CASE m.id \notin events
    <2>1. events' = events \cup {m.id} /\ acked' = acked
      BY <1>3 DEF receive_resend_webhook
    <2>2. hook' = [pc |-> "suppress", mail |-> m]
      BY <1>3 DEF receive_resend_webhook
    <2>3. hook' \in Hooks /\ hook'.pc = "suppress" /\ hook'.mail = m
      BY <2>2 DEF Hooks
    <2>4. MailType'
      BY <1>1, <2>1, <2>3, MailsAre DEF MailType
    <2>5. Heeded'
      <3>1. \A n \in Mails : n.id \in events' /\ n.kind \in {"hard", "complaint"} =>
               n.to \in suppressed \/ n.id \in mailSlip.dropped \/ n = m
        BY <1>1, <2>1, MailsAre DEF Heeded
      <3>2. \A n \in acked : n.id \in events'
        BY <2>1 DEF Heeded
      <3> QED BY <1>1, <2>1, <2>3, <3>1, <3>2 DEF Heeded
    <2>6. ComplaintSticks'
      BY <1>1, <2>1 DEF ComplaintSticks
    <2> QED BY <1>1, <2>4, <2>5, <2>6, HookQuiet
  <1> QED BY <1>2, <1>3

LEMMA SuppressKept == ASSUME MailInv, HookSuppress PROVE MailInv'
  <1> USE DEF MailInv
  <1> DEFINE m == hook.mail
  <1>1. /\ account' = account /\ intent' = intent /\ queue' = queue /\ sentAt' = sentAt
        /\ sweep' = sweep /\ letters' = letters /\ mailSlip' = mailSlip /\ events' = events
        /\ optedIn' = optedIn
        /\ hook.pc = "suppress" /\ suppressed' = IF bars(m) THEN suppressed \cup {m.to} ELSE suppressed
        /\ \/ m.kind = "complaint" /\ hook' = [hook EXCEPT !.pc = "optout"] /\ acked' = acked
           \/ m.kind # "complaint" /\ hook' = NoHook /\ acked' = acked \cup {m}
    BY DEF HookSuppress
  <1>2. m \in Mails /\ m.id \in events /\ hook \in Hooks /\ m.to \in People
    BY <1>1, MailsAre DEF Heeded, MailType
  <1>3. /\ hook' \in Hooks
        /\ \/ m.kind = "complaint" /\ hook'.pc = "optout" /\ hook'.mail = m /\ acked' = acked
           \/ m.kind # "complaint" /\ hook'.pc = "idle" /\ acked' = acked \cup {m}
    <2>1. CASE hook' = [hook EXCEPT !.pc = "optout"]
      BY <1>1, <1>2, <2>1, NoSweepFits DEF Hooks
    <2> QED BY <1>1, <2>1, NoSweepFits
  <1> HIDE DEF m
  <1>4. /\ suppressed' \in SUBSET People /\ suppressed \subseteq suppressed'
        /\ m.kind \in {"hard", "complaint"} => m.to \in suppressed'
    BY <1>1, <1>2 DEF bars, MailType
  <1>5. MailType'
    BY <1>1, <1>2, <1>3, <1>4 DEF MailType
  <1>6. m.kind = "complaint" \/ m.kind = "hard" \/ suppressed' = suppressed
    BY <1>1 DEF bars
  <1>7. Heeded'
    <2>1. \A n \in Mails : n.id \in events /\ n.kind \in {"hard", "complaint"} =>
             n.to \in suppressed' \/ n.id \in mailSlip.dropped
      BY <1>4 DEF Heeded, m
    <2>2. \A n \in acked' : n.id \in events
      BY <1>2, <1>3 DEF Heeded
    <2>3. hook'.pc # "idle" => hook'.mail = m /\ m.to \in suppressed'
      BY <1>3, <1>4
    <2> QED BY <1>1, <1>2, <2>1, <2>2, <2>3 DEF Heeded
  <1>8. ComplaintSticks'
    <2>1. \A n \in acked' : n.kind \in {"hard", "complaint"} /\ n.id \notin mailSlip.dropped => n.to \in suppressed'
      BY <1>3, <1>4 DEF ComplaintSticks
    <2>2. \A q \in suppressed' : \E n \in Mails : n.to = q /\ n.kind # "soft" /\ n.id \in events
      <3>1. CASE suppressed' = suppressed
        BY <3>1 DEF ComplaintSticks
      <3>2. CASE m.kind \in {"hard", "complaint"}
        <4>1. suppressed' \subseteq suppressed \cup {m.to}
          BY <1>1
        <4>2. m.kind # "soft"
          BY <3>2
        <4> QED BY <1>2, <4>1, <4>2 DEF ComplaintSticks
      <3> QED BY <1>6, <3>1, <3>2
    <2> QED BY <1>1, <2>1, <2>2 DEF ComplaintSticks
  <1> QED BY <1>1, <1>5, <1>7, <1>8, HookQuiet

LEMMA OptOutKept == ASSUME MailInv, HookOptOut PROVE MailInv'
  <1> USE DEF MailInv
  <1>1. /\ account' = account /\ intent' = intent /\ queue' = queue /\ sentAt' = sentAt
        /\ sweep' = sweep /\ letters' = letters /\ mailSlip' = mailSlip /\ events' = events
        /\ suppressed' = suppressed
        /\ hook.pc = "optout" /\ hook' = NoHook /\ acked' = acked \cup {hook.mail}
    BY DEF HookOptOut
  <1>2. hook.mail \in Mails /\ hook.mail.id \in events /\ hook.mail.to \in suppressed
    BY <1>1 DEF Heeded
  <1>3. MailType'
    BY <1>1, <1>2, NoSweepFits DEF MailType
  <1>4. Heeded'
    BY <1>1, <1>2, NoSweepFits DEF Heeded
  <1>5. ComplaintSticks'
    BY <1>1, <1>2 DEF ComplaintSticks
  <1> QED BY <1>1, <1>3, <1>4, <1>5, HookQuiet

LEMMA MailRestartKept == ASSUME MailInv, RestartMail PROVE MailInv'
  <1> USE DEF MailInv
  <1>1. /\ account' = account /\ intent' = intent /\ queue' = queue /\ sentAt' = sentAt
        /\ sweep' = NoSweep /\ hook' = NoHook /\ letters' = letters /\ events' = events
        /\ acked' = acked /\ suppressed' = suppressed
    BY DEF RestartMail
  <1> DEFINE lost == sweep.pc = "record" /\ sweep.sent
  <1>2. mailSlip' = [mailSlip EXCEPT
         !.resent = IF lost THEN mailSlip.resent \cup {sweep.who[1]} ELSE mailSlip.resent,
         !.dropped = IF hook.pc # "idle" THEN mailSlip.dropped \cup {hook.mail.id} ELSE mailSlip.dropped]
    BY DEF RestartMail
  <1>3. lost => sweep.who[1] \in People
    BY DEF SweepRelies, MailType, Sweeps, DueRows
  <1>4. hook.pc # "idle" => hook.mail.id \in MailIds
    BY MailsAre DEF Heeded
  <1>5. /\ mailSlip' \in [resent : SUBSET People, dropped : SUBSET MailIds, underSweep : SUBSET People,
                          late : SUBSET People]
        /\ mailSlip.resent \subseteq mailSlip'.resent /\ mailSlip.dropped \subseteq mailSlip'.dropped
        /\ lost => sweep.who[1] \in mailSlip'.resent
        /\ hook.pc # "idle" => hook.mail.id \in mailSlip'.dropped
        /\ mailSlip'.underSweep = mailSlip.underSweep /\ mailSlip'.late = mailSlip.late
    BY <1>2, <1>3, <1>4 DEF MailType
  <1>6. MailType'
    BY <1>1, <1>5, NoSweepFits DEF MailType
  <1>7. SweepRelies'
    BY <1>1, NoSweepFits DEF SweepRelies
  <1>8. LettersRecorded'
    BY <1>1, <1>5 DEF LettersRecorded
  <1>9. Heeded' /\ LetterAsOwed' /\ ComplaintSticks'
    <2>1. Heeded'
      BY <1>1, <1>5, NoSweepFits DEF Heeded
    <2> QED BY <1>1, <1>5, <2>1 DEF LetterAsOwed, ComplaintSticks
  <1> QED BY <1>6, <1>7, <1>8, <1>9

LEMMA MailStarts == ASSUME MailInit PROVE MailInv
  <1> USE MailsAre, NoSweepFits DEF MailInit
  <1>1. MailType
    BY DEF MailType
  <1>2. SweepRelies /\ LettersRecorded
    BY DEF SweepRelies, LettersRecorded
  <1>3. Heeded /\ LetterAsOwed /\ ComplaintSticks
    BY DEF Heeded, LetterAsOwed, ComplaintSticks
  <1> QED BY <1>1, <1>2, <1>3 DEF MailInv

LEMMA MailStep == ASSUME MailInv, [MailNext]_mailVars PROVE MailInv'
  <1>1. CASE UNCHANGED mailVars
    BY <1>1, MailQuiet DEF mailVars, MailInv, MailType
  <1>2. CASE MailNext
    BY <1>2, QueueingKept, SelectKept, DropKept, SendKept, RecordKept, DeletionKept, ReceiveKept, SuppressKept,
       OptOutKept, MailRestartKept
       DEF MailNext, LetterNext, HookNext, Sweeping
  <1> QED BY <1>1, <1>2

-----------------------------------------------------------------------------
(* Pushes                                                                    *)

PhoneRows == [who : People, env : Envs, seen : 0 .. MaxTokens - 1]

PushType ==
    /\ phones \in [Devices -> PhoneRows \cup {Null}] /\ hands \in [Devices -> People \cup {Null}]
    /\ push \in [who : People \cup {Null}, rows : SUBSET (Devices \X Envs)]

(* A phone's row is of the person who signed in on it last; so are the rows a   *)
(* push has read, unless the phone changed hands since.                       *)
PushInv ==
    /\ PushType
    /\ \A d \in Devices : phones[d] # Null => phones[d].who = hands[d]
    /\ \A r \in push.rows : hands[r[1]] = push.who \/ r[1] \in pushSlip

LEMMA PhonesAre ==
    /\ Null \notin Devices /\ Null \notin People /\ MaxTokens \in Nat \ {0}
    /\ \A S \in SUBSET Devices : Cardinality(S) \in Nat
    /\ \A p \in People, e \in Envs : registered(p, Null, e) \in PhoneRows /\ registered(p, Null, e).who = p
  <1>1. \A S \in SUBSET Devices : Cardinality(S) \in Nat
    BY OutreachAssumption, FS_Subset, FS_CardinalityType
  <1>2. MaxTokens \in Nat \ {0}
    BY OutreachAssumption
  <1>3. 0 \in 0 .. MaxTokens - 1
    BY <1>2
  <1>4. \A p \in People, e \in Envs : registered(p, Null, e) \in PhoneRows /\ registered(p, Null, e).who = p
    BY <1>3 DEF registered, PhoneRows
  <1> QED BY <1>1, <1>2, <1>4, OutreachAssumption

(* A phone changes hands; the rows in hand are told apart by it.               *)
LEMMA HandsMove ==
    ASSUME PushInv, NEW d \in Devices, NEW who \in People \cup {Null}, Holds(d, who), push' = push
    PROVE  /\ hands' \in [Devices -> People \cup {Null}]
           /\ hands'[d] = who /\ \A e \in Devices : e # d => hands'[e] = hands[e]
           /\ \A r \in push'.rows : hands'[r[1]] = push'.who \/ r[1] \in pushSlip'
  <1>1. /\ hands' = [hands EXCEPT ![d] = who]
        /\ pushSlip' = IF who # push.who THEN pushSlip \cup {d} ELSE pushSlip
    BY DEF Holds
  <1>2. hands' \in [Devices -> People \cup {Null}] /\ hands'[d] = who /\ \A e \in Devices : e # d => hands'[e] = hands[e]
    BY <1>1 DEF PushInv, PushType
  <1>3. \A r \in push.rows : r[1] \in Devices
    BY DEF PushInv, PushType
  <1>4. \A r \in push.rows : hands'[r[1]] = push.who \/ r[1] \in pushSlip'
    <2> TAKE r \in push.rows
    <2>1. hands[r[1]] = push.who \/ r[1] \in pushSlip
      BY DEF PushInv
    <2> QED BY <1>1, <1>2, <1>3, <2>1
  <1> QED BY <1>2, <1>4

LEMMA RegisterKept ==
    ASSUME PushInv, NEW p \in People, NEW d \in Devices, NEW env \in Envs, register(p, d, env)
    PROVE  PushInv'
  <1> DEFINE row == registered(p, d, env)
             rows == [phones EXCEPT ![d] = row]
             mine == {e \in Devices \ {d} : rows[e] # Null /\ rows[e].who = p}
             rank(e) == Cardinality({f \in mine : rows[f].seen <= rows[e].seen})
  <1>1. /\ phones' = [e \in Devices |->
             IF e \notin mine THEN rows[e]
             ELSE IF rank(e) >= MaxTokens THEN Null
             ELSE [rows[e] EXCEPT !.seen = rank(e)]]
        /\ Holds(d, p) /\ push' = push
    BY DEF register
  <1>2. row \in PhoneRows /\ row.who = p
    BY PhonesAre DEF registered
  <1>3. \A e \in Devices : rank(e) \in Nat
    <2> TAKE e \in Devices
    <2>1. {f \in mine : rows[f].seen <= rows[e].seen} \in SUBSET Devices
      OBVIOUS
    <2> QED BY <2>1, PhonesAre
  <1>4. /\ rows \in [Devices -> PhoneRows \cup {Null}] /\ rows[d] = row
        /\ \A e \in Devices : e # d => rows[e] = phones[e]
    BY <1>2 DEF PushInv, PushType
  <1>5. d \notin mine /\ \A e \in mine : e \in Devices /\ rows[e] \in PhoneRows
    BY <1>4
  <1> HIDE DEF row, rows, mine, rank
  <1>6. \A e \in Devices : \/ phones'[e] = rows[e]
                           \/ phones'[e] = Null
                           \/ e \in mine /\ rank(e) < MaxTokens /\ phones'[e] = [rows[e] EXCEPT !.seen = rank(e)]
    BY <1>1, <1>3, PhonesAre
  <1>7. \A e \in Devices : phones'[e] \in PhoneRows \cup {Null}
                           /\ (phones'[e] # Null => rows[e] # Null /\ phones'[e].who = rows[e].who)
    <2> TAKE e \in Devices
    <2>1. CASE e \in mine /\ rank(e) < MaxTokens /\ phones'[e] = [rows[e] EXCEPT !.seen = rank(e)]
      <3>1. rank(e) \in 0 .. MaxTokens - 1
        BY <1>3, <2>1, PhonesAre
      <3>2. phones'[e] \in PhoneRows /\ phones'[e].who = rows[e].who
        BY <1>5, <2>1, <3>1 DEF PhoneRows
      <3>3. rows[e] # Null
        BY <2>1 DEF mine
      <3> QED BY <3>2, <3>3
    <2>2. CASE phones'[e] = rows[e]
      BY <1>4, <2>2
    <2>3. CASE phones'[e] = Null
      BY <2>3
    <2> QED BY <1>6, <2>1, <2>2, <2>3
  <1>8. phones' \in [Devices -> PhoneRows \cup {Null}]
    BY <1>1, <1>7
  <1>9. /\ hands' \in [Devices -> People \cup {Null}]
        /\ hands'[d] = p /\ \A e \in Devices : e # d => hands'[e] = hands[e]
        /\ \A r \in push'.rows : hands'[r[1]] = push'.who \/ r[1] \in pushSlip'
    BY <1>1, HandsMove
  <1>10. \A e \in Devices : phones'[e] # Null => phones'[e].who = hands'[e]
    BY <1>2, <1>4, <1>7, <1>9 DEF PushInv
  <1> QED BY <1>1, <1>8, <1>9, <1>10 DEF PushInv, PushType

LEMMA UnregisterKept ==
    ASSUME PushInv, NEW p \in People, NEW d \in Devices, unregister(p, d)
    PROVE  PushInv'
  <1>1. phones' = [phones EXCEPT ![d] = Null] /\ Holds(d, Null) /\ push' = push
    BY DEF unregister
  <1>2. /\ hands' \in [Devices -> People \cup {Null}]
        /\ \A e \in Devices : e # d => hands'[e] = hands[e]
        /\ \A r \in push'.rows : hands'[r[1]] = push'.who \/ r[1] \in pushSlip'
    BY <1>1, HandsMove
  <1>3. /\ phones' \in [Devices -> PhoneRows \cup {Null}] /\ phones'[d] = Null
        /\ \A e \in Devices : e # d => phones'[e] = phones[e]
    BY <1>1 DEF PushInv, PushType
  <1> QED BY <1>1, <1>2, <1>3 DEF PushInv, PushType

LEMMA NotifyKept ==
    ASSUME PushInv, NEW p \in People, notify_generation_done(p)
    PROVE  PushInv'
  <1> DEFINE rows == {<<d, phones[d].env>> : d \in Owned(p)}
  <1>1. push' = [who |-> p, rows |-> rows] /\ phones' = phones /\ hands' = hands
    BY DEF notify_generation_done
  <1>2. \A d \in Owned(p) : d \in Devices /\ phones[d] \in PhoneRows /\ phones[d].who = p /\ hands[d] = p
    BY DEF Owned, PushInv, PushType
  <1>3. rows \in SUBSET (Devices \X Envs) /\ \A r \in rows : r[1] \in Owned(p)
    BY <1>2 DEF PhoneRows
  <1> HIDE DEF rows
  <1>4. push' \in [who : People \cup {Null}, rows : SUBSET (Devices \X Envs)] /\ push'.who = p /\ push'.rows = rows
    BY <1>1, <1>3
  <1> QED BY <1>1, <1>2, <1>3, <1>4 DEF PushInv, PushType

LEMMA SendTokenKept ==
    ASSUME PushInv, NEW r \in push.rows, send_to_token(r)
    PROVE  PushInv'
  <1> DEFINE d == r[1]
  <1>1. r \in Devices \X Envs /\ d \in Devices
    BY DEF PushInv, PushType
  <1>2. push' = Pushed(r) /\ hands' = hands /\ pushSlip' = pushSlip
    BY DEF send_to_token
  <1>3. push' \in [who : People \cup {Null}, rows : SUBSET (Devices \X Envs)]
        /\ push'.rows \subseteq push.rows /\ (push'.rows # {} => push'.who = push.who)
    BY <1>2 DEF Pushed, NoPush, PushInv, PushType
  <1>4. \/ phones' = phones
        \/ phones' = [phones EXCEPT ![d] = IF phones[d] = Null THEN Null
                                           ELSE [phones[d] EXCEPT !.env = Other(r[2])]]
        \/ phones' = [phones EXCEPT ![d] = Null]
    BY DEF send_to_token
  <1>5. PICK row \in PhoneRows \cup {Null} :
          /\ row = IF phones[d] = Null THEN Null ELSE [phones[d] EXCEPT !.env = Other(r[2])]
          /\ row # Null => phones[d] # Null /\ row.who = phones[d].who
    <2>1. Other(r[2]) \in Envs
      BY DEF Other, Envs
    <2>2. CASE phones[d] = Null
      BY <2>2
    <2>3. CASE phones[d] # Null
      <3>1. phones[d] \in PhoneRows
        BY <1>1, <2>3 DEF PushInv, PushType
      <3>2. [phones[d] EXCEPT !.env = Other(r[2])] \in PhoneRows
            /\ [phones[d] EXCEPT !.env = Other(r[2])].who = phones[d].who
        BY <2>1, <3>1 DEF PhoneRows
      <3> QED BY <2>3, <3>2
    <2> QED BY <2>2, <2>3
  <1>6. phones' = phones \/ phones' = [phones EXCEPT ![d] = row] \/ phones' = [phones EXCEPT ![d] = Null]
    BY <1>4, <1>5
  <1>7. phones' \in [Devices -> PhoneRows \cup {Null}]
        /\ \A e \in Devices : phones'[e] # Null => phones[e] # Null /\ phones'[e].who = phones[e].who
    <2>1. phones \in [Devices -> PhoneRows \cup {Null}]
      BY DEF PushInv, PushType
    <2> HIDE DEF d
    <2> QED BY <1>1, <1>5, <1>6, <2>1
  <1>8. \A q \in push'.rows : hands'[q[1]] = push'.who \/ q[1] \in pushSlip'
    BY <1>2, <1>3 DEF PushInv
  <1> QED BY <1>2, <1>3, <1>7, <1>8 DEF PushInv, PushType

LEMMA PushStep ==
    ASSUME PushInv, [PushNext]_pushVars
    PROVE  /\ PushInv'
           /\ \A z \in pushed' \ pushed : hands[z[2]] = z[1] \/ z[2] \in pushSlip
  <1>1. PushInv'
    <2>1. ASSUME UNCHANGED <<phones, push, hands, pushSlip>> PROVE PushInv'
      BY <2>1 DEF PushInv, PushType
    <2> QED BY <2>1, RegisterKept, UnregisterKept, NotifyKept, SendTokenKept
              DEF PushNext, pushVars, BuildDone, Acknowledge
  <1>2. \A z \in pushed' \ pushed : hands[z[2]] = z[1] \/ z[2] \in pushSlip
    <2>1. pushed' = pushed \/ pushed' = {} \/ \E r \in push.rows : pushed' = pushed \cup {<<push.who, r[1]>>}
      BY DEF PushNext, pushVars, BuildDone, Acknowledge, register, unregister, notify_generation_done, send_to_token
    <2>2. \A r \in push.rows : hands[r[1]] = push.who \/ r[1] \in pushSlip
      BY DEF PushInv
    <2> QED BY <2>1, <2>2
  <1> QED BY <1>1, <1>2

LEMMA PushStarts == ASSUME PushInit PROVE PushInv
  BY PhonesAre DEF PushInit, PushInv, PushType, NoPush

-----------------------------------------------------------------------------
(* Offer codes                                                               *)

Resolves == [pc : {"idle", "pick", "take"}, who : People \cup {Null}, code : Codes \cup {Null}]

OfferType ==
    /\ pool \in [Codes -> People \cup {Null}] /\ resolver \in [Resolvers -> Resolves]
    /\ given \in SUBSET (Codes \X People) /\ overlapped \in SUBSET People

(* A code handed out is its owner's in the pool.  As long as resolves of one    *)
(* person do not overlap, that person has one at most, and none while a        *)
(* resolve looks for it.                                                       *)
OfferInv ==
    /\ OfferType
    /\ \A q \in Resolvers : /\ resolver[q].pc = "idle" => resolver[q].who = Null
                            /\ resolver[q].pc # "idle" => resolver[q].who # Null
                            /\ resolver[q].pc = "take" => resolver[q].code # Null
    /\ \A g \in given : pool[g[1]] = g[2]
    /\ \A p \in People \ overlapped :
         /\ \A q, r \in Resolvers : resolver[q].who = p /\ resolver[r].who = p => q = r
         /\ \A q \in Resolvers, c \in Codes : resolver[q].who = p => pool[c] # p
         /\ \A b, c \in Codes : pool[b] = p /\ pool[c] = p => b = c

LEMMA NoResolveFits == NoResolve \in Resolves /\ NoResolve.pc = "idle" /\ NoResolve.who = Null
  BY DEF NoResolve, Resolves

LEMMA OfferStarts == ASSUME OfferInit PROVE OfferInv
  <1>1. Null \notin People
    BY OutreachAssumption
  <1> QED BY <1>1, NoResolveFits DEF OfferInit, OfferInv, OfferType

LEMMA DispenseKept ==
    ASSUME OfferInv, NEW q \in Resolvers, NEW p \in People, dispense(q, p)
    PROVE  OfferInv'
  <1> DEFINE now == [pc |-> "pick", who |-> p, code |-> Null]
  <1>1. /\ resolver' = [resolver EXCEPT ![q] = now] /\ resolver[q].pc = "idle"
        /\ overlapped' = IF Resolving(p) THEN overlapped \cup {p} ELSE overlapped
        /\ pool' = pool /\ given' = given /\ \A c \in Codes : pool[c] # p
    BY DEF dispense, Mine
  <1>2. now \in Resolves /\ now.pc = "pick" /\ now.who = p
    BY DEF Resolves
  <1>3. Null \notin People
    BY OutreachAssumption
  <1> HIDE DEF now
  <1>4. /\ resolver' \in [Resolvers -> Resolves] /\ resolver'[q] = now
        /\ \A r \in Resolvers : r # q => resolver'[r] = resolver[r]
    BY <1>1, <1>2 DEF OfferInv, OfferType
  <1>5. p \notin overlapped' => \A r \in Resolvers : resolver[r].who # p
    BY <1>1 DEF Resolving
  <1>6. OfferType'
    BY <1>1, <1>4 DEF OfferInv, OfferType
  <1>7. \A o \in People \ overlapped' :
         /\ \A r, s \in Resolvers : resolver'[r].who = o /\ resolver'[s].who = o => r = s
         /\ \A r \in Resolvers, c \in Codes : resolver'[r].who = o => pool[c] # o
         /\ \A b, c \in Codes : pool[b] = o /\ pool[c] = o => b = c
    BY <1>1, <1>2, <1>4, <1>5 DEF OfferInv
  <1> QED BY <1>1, <1>2, <1>3, <1>4, <1>6, <1>7 DEF OfferInv

LEMMA PickKept == ASSUME OfferInv, NEW q \in Resolvers, DispensePick(q) PROVE OfferInv'
  <1>1. /\ pool' = pool /\ given' = given /\ overlapped' = overlapped /\ resolver[q].pc = "pick"
        /\ \/ \E c \in Codes : resolver' = [resolver EXCEPT ![q].pc = "take", ![q].code = c]
           \/ resolver' = [resolver EXCEPT ![q] = NoResolve]
    BY DEF DispensePick
  <1>2. Null \notin Codes /\ Null \notin People
    BY OutreachAssumption
  <1>3. PICK now \in Resolves :
          /\ resolver' = [resolver EXCEPT ![q] = now]
          /\ \/ now.pc = "take" /\ now.code # Null /\ now.who = resolver[q].who
             \/ now.pc = "idle" /\ now.who = Null
    <2>1. ASSUME NEW c \in Codes, resolver' = [resolver EXCEPT ![q].pc = "take", ![q].code = c]
          PROVE  \E now \in Resolves : /\ resolver' = [resolver EXCEPT ![q] = now]
                                       /\ now.pc = "take" /\ now.code # Null /\ now.who = resolver[q].who
      <3> DEFINE now == [resolver[q] EXCEPT !.pc = "take", !.code = c]
      <3>1. resolver[q] \in Resolves
        BY DEF OfferInv, OfferType
      <3>2. now \in Resolves /\ now.pc = "take" /\ now.code = c /\ now.who = resolver[q].who
        BY <3>1 DEF Resolves
      <3>3. resolver' = [resolver EXCEPT ![q] = now]
        BY <2>1
      <3> HIDE DEF now
      <3> QED BY <1>2, <3>2, <3>3
    <2> QED BY <1>1, <2>1, NoResolveFits
  <1>4. /\ resolver' \in [Resolvers -> Resolves] /\ resolver'[q] = now
        /\ \A r \in Resolvers : r # q => resolver'[r] = resolver[r]
    BY <1>3 DEF OfferInv, OfferType
  <1>5. \A r \in Resolvers : resolver'[r].who # Null => resolver'[r].who = resolver[r].who
    BY <1>3, <1>4
  <1>6. OfferType'
    BY <1>1, <1>4 DEF OfferInv, OfferType
  <1>7. \A o \in People \ overlapped :
         /\ \A r, s \in Resolvers : resolver'[r].who = o /\ resolver'[s].who = o => r = s
         /\ \A r \in Resolvers, c \in Codes : resolver'[r].who = o => pool[c] # o
         /\ \A b, c \in Codes : pool[b] = o /\ pool[c] = o => b = c
    BY <1>2, <1>5 DEF OfferInv
  <1>8. \A r \in Resolvers : /\ resolver'[r].pc = "idle" => resolver'[r].who = Null
                             /\ resolver'[r].pc # "idle" => resolver'[r].who # Null
                             /\ resolver'[r].pc = "take" => resolver'[r].code # Null
    <2>1. resolver[q].who # Null
      BY <1>1 DEF OfferInv
    <2> TAKE r \in Resolvers
    <2>2. CASE r = q
      BY <1>3, <1>4, <2>1, <2>2
    <2>3. CASE r # q
      BY <1>4, <2>3 DEF OfferInv
    <2> QED BY <2>2, <2>3
  <1>9. \A g \in given' : pool'[g[1]] = g[2]
    BY <1>1 DEF OfferInv
  <1> QED BY <1>1, <1>6, <1>7, <1>8, <1>9 DEF OfferInv

LEMMA TakeKept == ASSUME OfferInv, NEW q \in Resolvers, DispenseTake(q) PROVE OfferInv'
  <1> DEFINE c == resolver[q].code
             p == resolver[q].who
  <1>1. /\ resolver[q].pc = "take" /\ overlapped' = overlapped
        /\ \/ /\ pool[c] = Null
              /\ pool' = [pool EXCEPT ![c] = p] /\ given' = given \cup {<<c, p>>}
              /\ resolver' = [resolver EXCEPT ![q] = NoResolve]
           \/ resolver' = [resolver EXCEPT ![q].pc = "pick"] /\ pool' = pool /\ given' = given
    BY DEF DispenseTake, takes
  <1>2. resolver[q] \in Resolves /\ c \in Codes /\ p \in People
    BY <1>1 DEF OfferInv, OfferType, Resolves
  <1>3. Null \notin Codes /\ Null \notin People
    BY OutreachAssumption
  <1> HIDE DEF c, p
  <1>4. CASE resolver' = [resolver EXCEPT ![q].pc = "pick"] /\ pool' = pool /\ given' = given
    <2> DEFINE now == [resolver[q] EXCEPT !.pc = "pick"]
    <2>1. now \in Resolves /\ now.pc = "pick" /\ now.who = p
      BY <1>2 DEF Resolves, p
    <2>2. resolver' = [resolver EXCEPT ![q] = now]
      BY <1>4
    <2> HIDE DEF now
    <2>3. /\ resolver' \in [Resolvers -> Resolves] /\ resolver'[q] = now
          /\ \A r \in Resolvers : r # q => resolver'[r] = resolver[r]
      BY <2>1, <2>2 DEF OfferInv, OfferType
    <2>4. \A r \in Resolvers : resolver'[r].who = resolver[r].who
      BY <2>1, <2>3 DEF p
    <2>5. OfferType'
      BY <1>1, <1>4, <2>3 DEF OfferInv, OfferType
    <2> QED BY <1>1, <1>2, <1>3, <1>4, <2>1, <2>3, <2>4, <2>5 DEF OfferInv
  <1>5. CASE /\ pool[c] = Null
             /\ pool' = [pool EXCEPT ![c] = p] /\ given' = given \cup {<<c, p>>}
             /\ resolver' = [resolver EXCEPT ![q] = NoResolve]
    <2>1. /\ resolver' \in [Resolvers -> Resolves] /\ resolver'[q] = NoResolve
          /\ \A r \in Resolvers : r # q => resolver'[r] = resolver[r]
      BY <1>5, NoResolveFits DEF OfferInv, OfferType
    <2>2. /\ pool' \in [Codes -> People \cup {Null}] /\ pool'[c] = p
          /\ \A b \in Codes : b # c => pool'[b] = pool[b]
      BY <1>2, <1>5 DEF OfferInv, OfferType
    <2>3. OfferType'
      BY <1>1, <1>2, <1>5, <2>1, <2>2 DEF OfferInv, OfferType
    <2>4. \A g \in given' : pool'[g[1]] = g[2]
      <3> TAKE g \in given'
      <3>1. CASE g = <<c, p>>
        BY <2>2, <3>1
      <3>2. CASE g \in given
        <4>1. g \in Codes \X People /\ pool[g[1]] = g[2]
          BY <3>2 DEF OfferInv, OfferType
        <4>2. g[1] # c
          BY <1>3, <1>5, <4>1
        <4> QED BY <2>2, <4>1, <4>2
      <3> QED BY <1>5, <3>1, <3>2
    <2>5. ASSUME NEW o \in People \ overlapped
          PROVE  /\ \A r, s \in Resolvers : resolver'[r].who = o /\ resolver'[s].who = o => r = s
                 /\ \A r \in Resolvers, b \in Codes : resolver'[r].who = o => pool'[b] # o
                 /\ \A a, b \in Codes : pool'[a] = o /\ pool'[b] = o => a = b
      <3>1. /\ \A r, s \in Resolvers : resolver[r].who = o /\ resolver[s].who = o => r = s
            /\ \A r \in Resolvers, b \in Codes : resolver[r].who = o => pool[b] # o
            /\ \A a, b \in Codes : pool[a] = o /\ pool[b] = o => a = b
        BY DEF OfferInv
      <3>2. \A r \in Resolvers : resolver'[r].who = o => r # q /\ resolver[r].who = o
        BY <1>3, <2>1, NoResolveFits
      <3>3. CASE o # p
        BY <2>2, <3>1, <3>2, <3>3
      <3>4. CASE o = p
        <4>1. resolver[q].who = o
          BY <3>4 DEF p
        <4>2. \A r \in Resolvers : resolver'[r].who # o
          BY <3>1, <3>2, <4>1
        <4>3. \A b \in Codes : pool[b] # o
          BY <3>1, <4>1
        <4> QED BY <2>2, <4>2, <4>3
      <3> QED BY <3>3, <3>4
    <2> QED BY <1>1, <2>1, <2>3, <2>4, <2>5, NoResolveFits DEF OfferInv
  <1> QED BY <1>1, <1>4, <1>5

LEMMA OfferStep == ASSUME OfferInv, [OfferNext]_offerVars PROVE OfferInv'
  <1>1. CASE UNCHANGED offerVars
    BY <1>1 DEF offerVars, OfferInv, OfferType
  <1>2. ASSUME NEW q \in Resolvers, NEW p \in People, DispenseAgain(q, p) PROVE OfferInv'
    <2>1. PICK c \in Mine(p) : given' = given \cup {<<c, p>>}
      BY <1>2 DEF DispenseAgain
    <2>2. c \in Codes /\ pool[c] = p
      BY DEF Mine
    <2>3. pool' = pool /\ resolver' = resolver /\ overlapped' = overlapped
      BY <1>2 DEF DispenseAgain
    <2>4. OfferType'
      BY <2>1, <2>2, <2>3 DEF OfferInv, OfferType
    <2>5. \A g \in given' : pool[g[1]] = g[2]
      BY <2>1, <2>2 DEF OfferInv
    <2> QED BY <2>3, <2>4, <2>5 DEF OfferInv
  <1> QED BY <1>1, <1>2, DispenseKept, PickKept, TakeKept DEF OfferNext

LEMMA OffersOnce == OfferInv => CodeOnce
  <1> SUFFICES ASSUME OfferInv, NEW g \in given, NEW h \in given
               PROVE  /\ g[1] = h[1] => g[2] = h[2]
                      /\ g[2] = h[2] /\ g[2] \notin overlapped => g[1] = h[1]
    BY DEF CodeOnce
  <1>1. /\ g[1] \in Codes /\ h[1] \in Codes /\ g[2] \in People
        /\ pool[g[1]] = g[2] /\ pool[h[1]] = h[2]
    BY DEF OfferInv, OfferType
  <1> QED BY <1>1 DEF OfferInv

-----------------------------------------------------------------------------
(* Promo campaigns                                                           *)

CampaignIds == {c.id : c \in Campaigns}

(* A convert is kept in the row it was counted in, unless there was none.       *)
PromoInv ==
    /\ shown \in [CampaignIds -> Presented \cup {Null}] /\ converts \in SUBSET CampaignIds
    /\ \A i \in converts \ early : shown[i] # Null /\ shown[i].converted
    /\ ConvertedStaysAway

LEMMA ResolveKept == ASSUME PromoInv, NEW q \in Questions, resolve_promo(q) PROVE PromoInv'
  <1>1. shown' = shown /\ converts' = converts /\ early' = early
    BY DEF resolve_promo
  <1>2. CASE served' = NoAnswer
    BY <1>1, <1>2 DEF PromoInv, ConvertedStaysAway, NoAnswer
  <1>3. CASE \E c \in Campaigns : /\ wants(c, q) /\ may_present(c)
                                  /\ served' = [asked |-> q, got |-> c, after |-> converts \ early]
    <2>1. PICK c \in Campaigns : /\ wants(c, q) /\ may_present(c)
                                 /\ served' = [asked |-> q, got |-> c, after |-> converts \ early]
      BY <1>3
    <2>2. served'.got = c /\ served'.after = converts \ early /\ served'.asked = q
      BY <2>1
    <2>3. c.id \in converts \ early => c.again
      BY <2>1 DEF PromoInv, may_present
    <2>4. c.placements # {} =>
            \E e \in c.placements :
               /\ e.placement = IF q.placement = Null THEN "launch" ELSE q.placement
               /\ q.placement # Null /\ e.feature # Null => e.feature = q.feature
      BY <2>1 DEF wants, placement_entries
    <2>5. ConvertedStaysAway'
      BY <2>2, <2>3, <2>4 DEF ConvertedStaysAway
    <2> QED BY <1>1, <2>5 DEF PromoInv
  <1> QED BY <1>2, <1>3 DEF resolve_promo

LEMMA IngestKept ==
    ASSUME PromoInv, NEW c \in Campaigns, NEW kind, ingest_promo_event(c, kind)
    PROVE  PromoInv'
  <1> DEFINE i == c.id
  <1>1. i \in CampaignIds
    BY DEF CampaignIds
  <1>2. PICK row : row = (IF kind = "impression" THEN impression(shown[i])
                          ELSE IF kind = "convert" /\ shown[i] # Null THEN [shown[i] EXCEPT !.converted = TRUE]
                          ELSE shown[i])
    OBVIOUS
  <1>3. /\ shown' = [shown EXCEPT ![i] = row]
        /\ converts' = IF kind = "convert" THEN converts \cup {i} ELSE converts
        /\ early' = IF kind = "convert" THEN (IF shown[i] = Null THEN early \cup {i} ELSE early \ {i})
                    ELSE early
        /\ served' = NoAnswer
    BY <1>2 DEF ingest_promo_event
  <1>4. shown[i] = Null \/ shown[i] \in Presented
    BY <1>1 DEF PromoInv
  <1>5. row \in Presented \cup {Null} /\ (shown[i] # Null => row # Null)
        /\ (shown[i] # Null /\ (kind = "convert" \/ shown[i].converted) => row.converted)
    <2>1. PICK no \in BOOLEAN, yes \in BOOLEAN : no = FALSE /\ yes = TRUE
      OBVIOUS
    <2>2. Null \notin Presented
      BY OutreachAssumption
    <2>3. CASE shown[i] = Null /\ kind = "impression"
      <3>1. row = [count |-> 1, converted |-> no]
        BY <1>2, <2>1, <2>3 DEF impression
      <3> QED BY <2>3, <3>1 DEF Presented
    <2>4. CASE shown[i] \in Presented /\ kind = "impression"
      <3>1. row = [shown[i] EXCEPT !.count = shown[i].count + 1]
        BY <1>2, <2>2, <2>4 DEF impression
      <3>2. row \in Presented /\ row.converted = shown[i].converted
        BY <2>4, <3>1 DEF Presented
      <3> QED BY <2>2, <2>4, <3>2
    <2>5. CASE shown[i] \in Presented /\ kind = "convert"
      <3>1. row = [shown[i] EXCEPT !.converted = yes]
        BY <1>2, <2>1, <2>2, <2>5
      <3>2. row \in Presented /\ row.converted = yes
        BY <2>5, <3>1 DEF Presented
      <3> QED BY <2>1, <2>2, <2>5, <3>2
    <2>6. CASE row = shown[i] /\ (kind = "convert" => shown[i] = Null)
      BY <1>4, <2>6
    <2> QED BY <1>2, <1>4, <2>2, <2>3, <2>4, <2>5, <2>6
  <1> HIDE DEF i
  <1>6. /\ shown' \in [CampaignIds -> Presented \cup {Null}] /\ shown'[i] = row
        /\ \A j \in CampaignIds : j # i => shown'[j] = shown[j]
    BY <1>1, <1>3, <1>5 DEF PromoInv
  <1>7. converts' \in SUBSET CampaignIds
    BY <1>1, <1>3 DEF PromoInv
  <1>8. \A j \in converts' \ early' : shown'[j] # Null /\ shown'[j].converted
    <2> TAKE j \in converts' \ early'
    <2>1. CASE j # i
      <3>1. j \in converts \ early /\ j \in CampaignIds
        BY <1>3, <1>7, <2>1
      <3> QED BY <1>6, <2>1, <3>1 DEF PromoInv
    <2>2. CASE j = i
      <3>1. shown[i] # Null /\ (kind = "convert" \/ shown[i].converted)
        BY <1>3, <2>2 DEF PromoInv
      <3> QED BY <1>5, <1>6, <2>2, <3>1
    <2> QED BY <2>1, <2>2
  <1>9. ConvertedStaysAway'
    BY <1>3 DEF ConvertedStaysAway, NoAnswer
  <1> QED BY <1>6, <1>7, <1>8, <1>9 DEF PromoInv

LEMMA PromoStep == ASSUME PromoInv, [PromoNext]_promoVars PROVE PromoInv'
  <1>1. CASE UNCHANGED promoVars
    BY <1>1 DEF promoVars, PromoInv, ConvertedStaysAway
  <1> QED BY <1>1, ResolveKept, IngestKept DEF PromoNext

LEMMA PromoStarts == ASSUME PromoInit PROVE PromoInv
  BY DEF PromoInit, PromoInv, CampaignIds, ConvertedStaysAway, NoAnswer

-----------------------------------------------------------------------------
(* Attribution                                                               *)

(* A token waits exactly while its row does.                                  *)
TokenWaits(row) == row.token # 0 <=> row.status = "pending"

AdType ==
    /\ ad \in [AdDevices -> AdRow \cup {Null}] /\ answered \in [AdDevices -> Nat \cup {Null}]
    /\ \A d \in AdDevices : ad[d] # Null => TokenWaits(ad[d])
    /\ clock \in 0 .. Horizon /\ rearmed \in SUBSET AdDevices
    /\ exchange \in [pc : {"idle", "select", "next", "wait"}, rows : SUBSET AdDevices, row : AdDevices \cup {Null}]
    /\ report \in [pc : {"idle", "write"}, device : AdDevices \cup {Null}, token : {0, 1},
                   status : Statuses \cup {Null}]

(* A row that waits under its own age was stamped when Apple last answered.     *)
Stamped(d, row, odd, last) ==
    row # Null /\ row.status = "pending" /\ d \notin odd =>
        last = Null \/ (row.attempt # Null /\ last <= row.attempt)

(* What is in hand between two steps: the sweep's rows still wait, and a row      *)
(* the report found is still there.                                             *)
AdInv ==
    /\ AdType
    /\ \A d \in AdDevices : ad[d] = Null => answered[d] = Null
    /\ \A d \in AdDevices : Stamped(d, ad[d], rearmed, answered[d])
    /\ \A d \in exchange.rows : ad[d] # Null /\ ad[d].status = "pending"
    /\ exchange.pc = "wait" => exchange.row \in exchange.rows
    /\ report.pc = "write" => report.device \in AdDevices /\ (report.status # Null => ad[report.device] # Null)
    /\ StallIsReal

LEMMA AdRowsAre ==
    /\ Null \notin AdDevices /\ Null \notin Nat /\ Null \notin AdRow /\ Null \notin Statuses
    /\ StalePending \in Nat /\ Ttl \in Nat /\ Horizon \in Nat
  BY OutreachAssumption

LEMMA NothingInHand ==
    /\ NoExchange \in [pc : {"idle", "select", "next", "wait"}, rows : SUBSET AdDevices, row : AdDevices \cup {Null}]
    /\ NoExchange.rows = {} /\ NoExchange.pc = "idle"
    /\ NoReport \in [pc : {"idle", "write"}, device : AdDevices \cup {Null}, token : {0, 1},
                     status : Statuses \cup {Null}]
    /\ NoReport.pc = "idle"
  BY DEF NoExchange, NoReport

LEMMA AdStarts == ASSUME AdInit PROVE AdInv
  BY AdRowsAre, NothingInHand DEF AdInit, AdInv, AdType, Stamped, StallIsReal

LEMMA ReportKept == ASSUME AdInv, NEW d \in AdDevices, NEW t \in {0, 1}, report_attribution(d, t) PROVE AdInv'
  <1>1. /\ clock' = clock /\ ad' = ad /\ exchange' = exchange /\ answered' = answered /\ alarm' = alarm
        /\ rearmed' = rearmed
        /\ report' = [pc |-> "write", device |-> d, token |-> t,
                      status |-> IF ad[d] = Null THEN Null ELSE ad[d].status]
    BY DEF report_attribution
  <1>2. ad[d] = Null \/ ad[d].status \in Statuses
    BY DEF AdInv, AdType, AdRow
  <1>3. /\ report' \in [pc : {"idle", "write"}, device : AdDevices \cup {Null}, token : {0, 1},
                        status : Statuses \cup {Null}]
        /\ report'.device = d /\ report'.pc = "write"
        /\ report'.status # Null => ad[d] # Null
    BY <1>1, <1>2
  <1>4. AdType'
    BY <1>1, <1>3 DEF AdInv, AdType
  <1> QED BY <1>1, <1>3, <1>4 DEF AdInv, StallIsReal

(* What the write of a report makes of the row it meets.                         *)
LEMMA RowWritten ==
    ASSUME AdInv, ReportWrite
    PROVE  \E row \in AdRow \cup {Null} :
             /\ ad' = [ad EXCEPT ![report.device] = row]
             /\ row # Null /\ TokenWaits(row)
             /\ \/ ad[report.device] = Null /\ row.attempt = Null
                \/ ad[report.device] # Null /\ row = ad[report.device]
                \/ /\ ad[report.device] # Null /\ report.status \notin {Null, "attributed", "organic"}
                   /\ row.status = "pending" /\ row.attempt = ad[report.device].attempt
  <1> DEFINE d == report.device
             t == report.token
             fresh == [status |-> IF t = 0 THEN "no_token" ELSE "pending", token |-> t,
                       created |-> clock, attempt |-> Null]
             row == IF report.status = Null THEN (IF ad[d] = Null THEN fresh ELSE ad[d])
                    ELSE IF t # 0 /\ rearms(report.status)
                    THEN [ad[d] EXCEPT !.token = t, !.status = "pending"] ELSE ad[d]
  <1>1. ad' = [ad EXCEPT ![d] = row]
    BY DEF ReportWrite
  <1>2. d \in AdDevices /\ t \in {0, 1} /\ clock \in Nat /\ (report.status # Null => ad[d] # Null)
    BY DEF ReportWrite, AdInv, AdType
  <1>3. ad[d] = Null \/ (ad[d] \in AdRow /\ TokenWaits(ad[d]))
    BY <1>2 DEF AdInv, AdType
  <1>4. fresh \in AdRow /\ TokenWaits(fresh) /\ fresh.attempt = Null /\ fresh # Null
    <2>1. fresh \in AdRow
      BY <1>2 DEF AdRow, Statuses
    <2>2. TokenWaits(fresh)
      BY <1>2 DEF TokenWaits
    <2> HIDE DEF fresh
    <2>3. fresh # Null
      BY <2>1, AdRowsAre
    <2> QED BY <2>1, <2>2, <2>3 DEF fresh
  <1>5. CASE report.status = Null /\ ad[d] = Null
    <2>1. row = fresh
      BY <1>5
    <2> HIDE DEF row, fresh, d
    <2> QED BY <1>1, <1>4, <1>5, <2>1 DEF d
  <1>6. CASE report.status # Null /\ t # 0 /\ rearms(report.status)
    <2>1. row = [ad[d] EXCEPT !.token = t, !.status = "pending"]
      BY <1>6
    <2>2. ad[d] \in AdRow /\ ad[d] # Null
      BY <1>2, <1>3, <1>6
    <2>3. row \in AdRow /\ row.status = "pending" /\ row.token = t /\ row.attempt = ad[d].attempt
      BY <1>2, <2>1, <2>2 DEF AdRow, Statuses
    <2>4. TokenWaits(row)
      BY <1>6, <2>3 DEF TokenWaits
    <2>5. report.status \notin {Null, "attributed", "organic"}
      BY <1>6 DEF rearms
    <2> HIDE DEF row, fresh, t, d
    <2> QED BY <1>1, <2>2, <2>3, <2>4, <2>5, AdRowsAre DEF d
  <1>7. CASE row = ad[d] /\ ad[d] # Null
    <2> HIDE DEF row, fresh, t, d
    <2> QED BY <1>1, <1>3, <1>7 DEF d
  <1> QED BY <1>2, <1>5, <1>6, <1>7

LEMMA WriteKept == ASSUME AdInv, ReportWrite PROVE AdInv'
  <1> DEFINE d == report.device
  <1>1. PICK row \in AdRow \cup {Null} :
             /\ ad' = [ad EXCEPT ![d] = row]
             /\ row # Null /\ TokenWaits(row)
             /\ \/ ad[d] = Null /\ row.attempt = Null
                \/ ad[d] # Null /\ row = ad[d]
                \/ /\ ad[d] # Null /\ report.status \notin {Null, "attributed", "organic"}
                   /\ row.status = "pending" /\ row.attempt = ad[d].attempt
    BY RowWritten
  <1>2. d \in AdDevices
    BY DEF ReportWrite, AdInv
  <1>3. /\ ad' \in [AdDevices -> AdRow \cup {Null}] /\ ad'[d] = row
        /\ \A e \in AdDevices : e # d => ad'[e] = ad[e]
    BY <1>1, <1>2 DEF AdInv, AdType
  <1>4. /\ clock' = clock /\ exchange' = exchange /\ answered' = answered /\ report' = NoReport
        /\ rearmed' = IF ad[d] # Null /\ ad[d].status # "pending" /\ ad'[d].status = "pending"
                      THEN rearmed \cup {d} ELSE rearmed
    BY DEF ReportWrite
  <1>5. \/ alarm' = alarm
        \/ \E s \in unattended_pending(ad') :
              alarm' = [device |-> s, at |-> clock, last |-> answered[s], odd |-> s \in rearmed']
    BY DEF ReportWrite
  <1> HIDE DEF d
  <1>6. AdType'
    <2>1. rearmed' \in SUBSET AdDevices
      BY <1>2, <1>4 DEF AdInv, AdType
    <2>2. \A e \in AdDevices : ad'[e] # Null => TokenWaits(ad'[e])
      BY <1>1, <1>3 DEF AdInv, AdType
    <2> QED BY <1>3, <1>4, <2>1, <2>2, NothingInHand DEF AdInv, AdType
  <1>7. \A e \in AdDevices : ad'[e] = Null => answered'[e] = Null
    BY <1>1, <1>3, <1>4 DEF AdInv
  <1>8. \A e \in AdDevices : Stamped(e, ad'[e], rearmed', answered'[e])
    <2> TAKE e \in AdDevices
    <2>1. rearmed \subseteq rearmed'
      BY <1>4
    <2>2. Stamped(e, ad[e], rearmed, answered[e]) /\ (ad[e] = Null => answered[e] = Null)
      BY DEF AdInv
    <2>3. CASE e # d
      BY <1>3, <1>4, <2>1, <2>2, <2>3 DEF Stamped
    <2>4. CASE e = d
      <3>1. CASE ad[d] = Null
        BY <1>4, <2>2, <2>4, <3>1 DEF Stamped
      <3>2. CASE ad[d] # Null /\ row = ad[d]
        BY <1>3, <1>4, <2>1, <2>2, <2>4, <3>2 DEF Stamped
      <3>3. CASE ad[d] # Null /\ row.status = "pending" /\ row.attempt = ad[d].attempt
        BY <1>3, <1>4, <2>1, <2>2, <2>4, <3>3 DEF Stamped
      <3> QED BY <1>1, <3>1, <3>2, <3>3
    <2> QED BY <2>3, <2>4
  <1>9. \A e \in exchange'.rows : ad'[e] # Null /\ ad'[e].status = "pending"
    <2> SUFFICES ASSUME NEW e \in exchange.rows PROVE ad'[e] # Null /\ ad'[e].status = "pending"
      BY <1>4
    <2>1. e \in AdDevices /\ ad[e] # Null /\ ad[e].status = "pending"
      BY DEF AdInv, AdType
    <2> QED BY <1>1, <1>3, <2>1
  <1>10. StallIsReal'
    <2>1. CASE alarm' = alarm
      BY <2>1 DEF AdInv, StallIsReal
    <2>2. ASSUME NEW s \in unattended_pending(ad'),
                 alarm' = [device |-> s, at |-> clock, last |-> answered[s], odd |-> s \in rearmed']
          PROVE  StallIsReal'
      <3>1. /\ s \in AdDevices /\ ad'[s] # Null /\ ad'[s].status = "pending"
            /\ ad'[s].attempt # Null => ad'[s].attempt < clock - StalePending
        BY DEF unattended_pending, Old
      <3>2. alarm'.at = clock /\ alarm'.last = answered[s] /\ (s \in rearmed' => alarm'.odd)
        <4>1. PICK o \in BOOLEAN : o = (s \in rearmed')
          <5> DEFINE odd == s \in rearmed'
          <5>1. CASE odd
            BY <5>1, TRUE \in BOOLEAN, TRUE = odd, Zenon
          <5>2. CASE ~odd
            BY <5>2, FALSE \in BOOLEAN, FALSE = odd, Zenon
          <5> QED BY <5>1, <5>2
        <4>2. alarm' = [device |-> s, at |-> clock, last |-> answered[s], odd |-> o]
          BY <2>2, <4>1
        <4>3. alarm'.at = clock /\ alarm'.last = answered[s] /\ alarm'.odd = o
          BY <4>2
        <4> QED BY <4>1, <4>3
      <3>3. s \in rearmed' \/ answered[s] = Null \/ (ad'[s].attempt # Null /\ answered[s] <= ad'[s].attempt)
        BY <1>4, <1>8, <3>1 DEF Stamped
      <3>4. CASE s \in rearmed'
        BY <3>2, <3>4 DEF StallIsReal
      <3>5. CASE answered[s] = Null
        BY <3>2, <3>5 DEF StallIsReal
      <3>6. CASE answered[s] # Null /\ ad'[s].attempt # Null /\ answered[s] <= ad'[s].attempt
        <4>1. ad'[s] \in AdRow
          BY <1>3, <3>1
        <4>2. ad'[s].attempt \in Nat
          BY <3>6, <4>1 DEF AdRow
        <4>3. answered[s] \in Nat /\ clock \in Nat /\ StalePending \in Nat
          BY <3>1, <3>6, AdRowsAre DEF AdInv, AdType
        <4>4. clock - answered[s] > StalePending
          BY <3>1, <3>6, <4>2, <4>3
        <4> QED BY <3>2, <4>4 DEF StallIsReal
      <3> QED BY <3>3, <3>4, <3>5, <3>6
    <2> QED BY <1>5, <2>1, <2>2
  <1>11. (exchange.pc = "wait" => exchange.row \in exchange.rows) /\ report'.pc = "idle"
    BY <1>4, NothingInHand DEF AdInv
  <1> QED BY <1>4, <1>6, <1>7, <1>8, <1>9, <1>10, <1>11 DEF AdInv

LEMMA ExpireKept == ASSUME AdInv, SweepExpire PROVE AdInv'
  <1>1. /\ ad' = [d \in AdDevices |->
                   IF ad[d] # Null /\ ad[d].status = "pending" /\ ad[d].created < clock - Ttl
                   THEN [ad[d] EXCEPT !.status = "expired", !.token = 0] ELSE ad[d]]
        /\ exchange' = [NoExchange EXCEPT !.pc = "select"]
        /\ clock' = clock /\ report' = report /\ answered' = answered /\ alarm' = alarm /\ rearmed' = rearmed
    BY DEF SweepExpire
  <1>2. \A d \in AdDevices :
          \/ ad'[d] = ad[d]
          \/ /\ ad[d] # Null /\ ad'[d] \in AdRow /\ ad'[d] # Null
             /\ TokenWaits(ad'[d]) /\ ad'[d].status # "pending"
    <2> TAKE d \in AdDevices
    <2>1. CASE ad'[d] = [ad[d] EXCEPT !.status = "expired", !.token = 0] /\ ad[d] # Null
      <3>1. ad[d] \in AdRow
        BY <2>1 DEF AdInv, AdType
      <3>2. ad'[d] \in AdRow /\ ad'[d].status = "expired" /\ ad'[d].token = 0
        BY <2>1, <3>1 DEF AdRow, Statuses
      <3>3. TokenWaits(ad'[d])
        BY <3>2 DEF TokenWaits
      <3> QED BY <2>1, <3>2, <3>3, AdRowsAre
    <2> QED BY <1>1, <2>1
  <1>3. ad' \in [AdDevices -> AdRow \cup {Null}]
    BY <1>1, <1>2 DEF AdInv, AdType
  <1>4. /\ exchange' \in [pc : {"idle", "select", "next", "wait"}, rows : SUBSET AdDevices, row : AdDevices \cup {Null}]
        /\ exchange'.rows = {} /\ exchange'.pc = "select"
    BY <1>1, NothingInHand
  <1>5. AdType'
    BY <1>1, <1>2, <1>3, <1>4 DEF AdInv, AdType
  <1>6. \A d \in AdDevices : Stamped(d, ad'[d], rearmed', answered'[d])
    BY <1>1, <1>2 DEF AdInv, Stamped
  <1>7. \A d \in AdDevices : ad'[d] = Null <=> ad[d] = Null
    BY <1>2
  <1>8. StallIsReal'
    BY <1>1 DEF AdInv, StallIsReal
  <1> QED BY <1>1, <1>4, <1>5, <1>6, <1>7, <1>8 DEF AdInv

(* The sweep moves on and nothing is written.                                    *)
LEMMA SweepMoves ==
    ASSUME AdInv, clock' = clock, ad' = ad, report' = report, answered' = answered, alarm' = alarm, rearmed' = rearmed,
           exchange' \in [pc : {"idle", "select", "next", "wait"}, rows : SUBSET AdDevices, row : AdDevices \cup {Null}],
           \A d \in exchange'.rows : ad[d] # Null /\ ad[d].status = "pending",
           exchange'.pc = "wait" => exchange'.row \in exchange'.rows
    PROVE  AdInv'
  <1>1. AdType'
    BY DEF AdInv, AdType
  <1> QED BY <1>1 DEF AdInv, StallIsReal

LEMMA SelectAndAskKept == ASSUME AdInv, sweep_pending \/ AskApple PROVE AdInv'
  <1>1. CASE sweep_pending
    <2> DEFINE due == {d \in AdDevices : ad[d] # Null /\ ad[d].status = "pending" /\ ad[d].token # 0}
    <2>1. /\ clock' = clock /\ ad' = ad /\ report' = report /\ answered' = answered /\ alarm' = alarm
          /\ rearmed' = rearmed
          /\ exchange' = NoExchange \/ exchange' = [pc |-> "next", rows |-> due, row |-> Null]
      BY <1>1 DEF sweep_pending
    <2>2. CASE exchange' = NoExchange
      BY <2>1, <2>2, NothingInHand, SweepMoves
    <2>3. CASE exchange' = [pc |-> "next", rows |-> due, row |-> Null]
      BY <2>1, <2>3, SweepMoves
    <2> QED BY <2>1, <2>2, <2>3
  <1>2. CASE AskApple
    <2>1. PICK d \in exchange.rows : exchange' = [exchange EXCEPT !.pc = "wait", !.row = d]
      BY <1>2 DEF AskApple
    <2>2. /\ clock' = clock /\ ad' = ad /\ report' = report /\ answered' = answered /\ alarm' = alarm
          /\ rearmed' = rearmed
      BY <1>2 DEF AskApple
    <2>3. /\ exchange' \in [pc : {"idle", "select", "next", "wait"}, rows : SUBSET AdDevices, row : AdDevices \cup {Null}]
          /\ exchange'.rows = exchange.rows /\ exchange'.row = d
      BY <2>1 DEF AdInv, AdType
    <2>4. \A e \in exchange'.rows : ad[e] # Null /\ ad[e].status = "pending"
      BY <2>3 DEF AdInv
    <2> QED BY <2>2, <2>3, <2>4, SweepMoves
  <1> QED BY <1>1, <1>2

(* What the outcome of an exchange makes of the row.                             *)
LEMMA RowExchanged ==
    ASSUME AdInv, NEW o \in {"unreachable", "pending", "error", "organic", "attributed"}, exchange_row(o)
    PROVE  /\ exchange.row \in exchange.rows /\ exchange.row \in AdDevices
           /\ \E row \in AdRow :
                /\ ad' = [ad EXCEPT ![exchange.row] = row] /\ TokenWaits(row)
                /\ \/ row = ad[exchange.row] /\ answered' = answered
                   \/ /\ answered' = [answered EXCEPT ![exchange.row] = clock]
                      /\ row.status # "pending" \/ row.attempt = clock
  <1> DEFINE d == exchange.row
             row == IF o = "unreachable" THEN ad[d]
                    ELSE IF o = "pending" THEN _stamp_attempt(ad[d])
                    ELSE [ad[d] EXCEPT !.status = o, !.token = 0]
  <1>1. d \in exchange.rows /\ d \in AdDevices
    BY DEF exchange_row, AdInv, AdType
  <1>2. ad[d] \in AdRow /\ ad[d].status = "pending" /\ TokenWaits(ad[d])
    BY <1>1 DEF AdInv, AdType
  <1>3. ad' = [ad EXCEPT ![d] = row]
    BY DEF exchange_row
  <1>4. answered' = IF o = "unreachable" THEN answered ELSE [answered EXCEPT ![d] = clock]
    BY DEF exchange_row
  <1>5. clock \in Nat
    BY DEF AdInv, AdType
  <1>6. CASE o = "unreachable"
    <2>1. row = ad[d]
      BY <1>6
    <2> HIDE DEF row, d
    <2> QED BY <1>1, <1>2, <1>3, <1>4, <1>6, <2>1 DEF d
  <1>7. CASE o = "pending"
    <2>1. row = [ad[d] EXCEPT !.attempt = clock]
      BY <1>7 DEF _stamp_attempt
    <2>2. row \in AdRow /\ row.attempt = clock /\ row.status = ad[d].status /\ row.token = ad[d].token
      BY <1>2, <1>5, <2>1 DEF AdRow
    <2>3. TokenWaits(row)
      BY <1>2, <2>2 DEF TokenWaits
    <2> HIDE DEF row, d
    <2> QED BY <1>1, <1>3, <1>4, <1>7, <2>2, <2>3 DEF d
  <1>8. CASE o \in {"error", "organic", "attributed"}
    <2>1. row = [ad[d] EXCEPT !.status = o, !.token = 0]
      BY <1>8
    <2>2. row \in AdRow /\ row.status = o /\ row.token = 0
      BY <1>2, <1>8, <2>1 DEF AdRow, Statuses
    <2>3. TokenWaits(row) /\ row.status # "pending"
      BY <1>8, <2>2 DEF TokenWaits
    <2> HIDE DEF row, d
    <2> QED BY <1>1, <1>3, <1>4, <1>8, <2>2, <2>3 DEF d
  <1> QED BY <1>6, <1>7, <1>8

LEMMA ExchangeRowKept ==
    ASSUME AdInv, NEW o \in {"unreachable", "pending", "error", "organic", "attributed"}, exchange_row(o)
    PROVE  AdInv'
  <1> DEFINE d == exchange.row
             rest == exchange.rows \ {d}
  <1>1. d \in exchange.rows /\ d \in AdDevices
    BY RowExchanged
  <1>2. PICK row \in AdRow :
                /\ ad' = [ad EXCEPT ![d] = row] /\ TokenWaits(row)
                /\ \/ row = ad[d] /\ answered' = answered
                   \/ /\ answered' = [answered EXCEPT ![d] = clock]
                      /\ row.status # "pending" \/ row.attempt = clock
    BY RowExchanged
  <1>3. /\ clock' = clock /\ report' = report /\ alarm' = alarm /\ rearmed' = rearmed
        /\ exchange' = NoExchange \/ exchange' = [pc |-> "next", rows |-> rest, row |-> Null]
    BY DEF exchange_row
  <1>4. rest \in SUBSET AdDevices
    BY DEF AdInv, AdType
  <1>5. /\ exchange' \in [pc : {"idle", "select", "next", "wait"}, rows : SUBSET AdDevices, row : AdDevices \cup {Null}]
        /\ exchange'.rows \subseteq rest /\ exchange'.pc # "wait"
    <2>1. CASE exchange' = NoExchange
      BY <2>1, NothingInHand
    <2>2. CASE exchange' = [pc |-> "next", rows |-> rest, row |-> Null]
      BY <1>4, <2>2
    <2> QED BY <1>3, <2>1, <2>2
  <1> HIDE DEF d
  <1>6. clock \in Nat /\ ad[d] # Null
    BY <1>1 DEF AdInv, AdType, d
  <1>7. /\ ad' \in [AdDevices -> AdRow \cup {Null}] /\ ad'[d] = row /\ row # Null
        /\ \A e \in AdDevices : e # d => ad'[e] = ad[e]
    BY <1>1, <1>2, AdRowsAre DEF AdInv, AdType
  <1>8. /\ answered' \in [AdDevices -> Nat \cup {Null}]
        /\ \A e \in AdDevices : e # d => answered'[e] = answered[e]
        /\ answered'[d] = answered[d] \/ answered'[d] = clock
    BY <1>1, <1>2, <1>6 DEF AdInv, AdType
  <1>9. AdType'
    BY <1>2, <1>3, <1>5, <1>7, <1>8 DEF AdInv, AdType
  <1>10. \A e \in AdDevices : Stamped(e, ad'[e], rearmed', answered'[e])
    <2> TAKE e \in AdDevices
    <2>1. CASE e # d
      BY <1>3, <1>7, <1>8, <2>1 DEF AdInv
    <2>2. CASE e = d
      <3>1. CASE row = ad[d] /\ answered' = answered
        BY <1>1, <1>3, <1>7, <2>2, <3>1 DEF AdInv
      <3>2. CASE answered' = [answered EXCEPT ![d] = clock] /\ (row.status # "pending" \/ row.attempt = clock)
        <4>1. answered'[d] = clock
          BY <1>1, <3>2 DEF AdInv, AdType
        <4>2. clock <= clock /\ clock # Null
          BY <1>6, AdRowsAre
        <4> QED BY <1>7, <2>2, <3>2, <4>1, <4>2 DEF Stamped
      <3> QED BY <1>2, <3>1, <3>2
    <2> QED BY <2>1, <2>2
  <1>11. \A e \in AdDevices : ad'[e] = Null => answered'[e] = Null
    BY <1>7, <1>8 DEF AdInv
  <1>12. \A e \in exchange'.rows : ad'[e] # Null /\ ad'[e].status = "pending"
    <2> TAKE e \in exchange'.rows
    <2>1. e \in exchange.rows /\ e # d /\ e \in AdDevices
      BY <1>4, <1>5
    <2> QED BY <1>7, <2>1 DEF AdInv
  <1>13. report.pc = "write" => report.device \in AdDevices /\ (report.status # Null => ad'[report.device] # Null)
    BY <1>7 DEF AdInv
  <1>14. StallIsReal'
    BY <1>3 DEF AdInv, StallIsReal
  <1> QED BY <1>3, <1>5, <1>9, <1>10, <1>11, <1>12, <1>13, <1>14 DEF AdInv

LEMMA TickKept == ASSUME AdInv, AdTick PROVE AdInv'
  <1>1. /\ clock < Horizon /\ clock' = clock + 1 /\ alarm' = Null /\ ad' = ad /\ exchange' = exchange
        /\ report' = report /\ answered' = answered /\ rearmed' = rearmed
    BY DEF AdTick
  <1>2. AdType'
    BY <1>1, AdRowsAre DEF AdInv, AdType
  <1>3. StallIsReal'
    BY <1>1 DEF StallIsReal
  <1> QED BY <1>1, <1>2, <1>3 DEF AdInv

LEMMA AdStep ==
    ASSUME AdInv, [AdNext]_adVars
    PROVE  /\ AdInv'
           /\ \A d \in AdDevices : Settled(ad[d]) /\ ad'[d] # ad[d] =>
                 report.device = d /\ ~Settled([status |-> report.status])
  <1>1. AdInv'
    <2>1. CASE UNCHANGED adVars
      BY <2>1 DEF adVars, AdInv, AdType, StallIsReal
    <2> QED BY <2>1, ReportKept, WriteKept, ExpireKept, SelectAndAskKept, ExchangeRowKept, TickKept DEF AdNext
  <1>2. ASSUME NEW d \in AdDevices, Settled(ad[d]), ad'[d] # ad[d]
        PROVE  report.device = d /\ ~Settled([status |-> report.status])
    <2>1. ad[d] # Null /\ ad[d].status \in {"attributed", "organic"}
      BY <1>2 DEF Settled
    <2>2. ReportWrite \/ SweepExpire \/ \E o \in {"unreachable", "pending", "error", "organic", "attributed"} : exchange_row(o)
      BY <1>2 DEF AdNext, adVars, report_attribution, sweep_pending, AskApple, AdTick
    <2>3. ~SweepExpire
      BY <1>2, <2>1 DEF SweepExpire
    <2>4. ASSUME NEW o \in {"unreachable", "pending", "error", "organic", "attributed"}, exchange_row(o)
          PROVE  FALSE
      <3>1. exchange.row # d
        BY <2>1, <2>4, RowExchanged DEF AdInv
      <3>2. \E row \in AdRow : ad' = [ad EXCEPT ![exchange.row] = row]
        BY <2>4, RowExchanged
      <3> QED BY <1>2, <3>1, <3>2 DEF AdInv, AdType
    <2>5. CASE ReportWrite
      <3>1. PICK row \in AdRow \cup {Null} :
             /\ ad' = [ad EXCEPT ![report.device] = row]
             /\ \/ ad[report.device] = Null
                \/ row = ad[report.device]
                \/ report.status \notin {Null, "attributed", "organic"}
        BY <2>5, RowWritten
      <3>2. ad'[d] = IF d = report.device THEN row ELSE ad[d]
        BY <3>1 DEF AdInv, AdType
      <3>3. d = report.device /\ report.status \notin {Null, "attributed", "organic"}
        BY <1>2, <2>1, <3>1, <3>2
      <3> QED BY <3>3 DEF Settled
    <2> QED BY <2>2, <2>3, <2>4, <2>5
  <1> QED BY <1>1, <1>2

-----------------------------------------------------------------------------
(* Together                                                                  *)

(* What is sent is owed: one welcome letter per person (welcome_email), a        *)
(* complaint bars its address (resend_webhooks), a code is one person's          *)
(* (offer_dispense), a converted campaign stays away (promo), and the stall      *)
(* alarm is real (apple_ads_attribution).                                        *)
THEOREM WhatIsSentIsOwed == OutreachSpec => []OutreachKept
  <1>1. OutreachInit => MailInv /\ PushInv /\ OfferInv /\ PromoInv /\ AdInv
    BY MailStarts, PushStarts, OfferStarts, PromoStarts, AdStarts DEF OutreachInit
  <1>2. MailInv /\ [MailNext]_mailVars => MailInv'
    BY MailStep
  <1>3. PushInv /\ [PushNext]_pushVars => PushInv'
    BY PushStep
  <1>4. OfferInv /\ [OfferNext]_offerVars => OfferInv'
    BY OfferStep
  <1>5. PromoInv /\ [PromoNext]_promoVars => PromoInv'
    BY PromoStep
  <1>6. AdInv /\ [AdNext]_adVars => AdInv'
    BY AdStep
  <1>7. MailInv /\ PushInv /\ OfferInv /\ PromoInv /\ AdInv => OutreachKept
    <2> SUFFICES ASSUME MailInv, PushInv, OfferInv, PromoInv, AdInv PROVE OutreachKept
      OBVIOUS
    <2>1. /\ account \in [People -> BOOLEAN] /\ intent \subseteq People
          /\ queue \in [People -> 0 .. MaxAttempts - 1 \cup {Null}]
          /\ sentAt \in [People -> BOOLEAN] /\ suppressed \subseteq People
          /\ acked \subseteq Mails /\ events \subseteq {m.id : m \in Mails}
      BY DEF MailInv, MailType, MailIds
    <2>2. \A d \in Devices : phones[d] # Null => phones[d] \in PhoneRows
      BY DEF PushInv, PushType
    <2>3. pool \in [Codes -> People \cup {Null}]
      BY DEF OfferInv, OfferType
    <2>4. /\ clock \in 0 .. Horizon
          /\ \A d \in AdDevices : ad[d] # Null => ad[d].status \in Statuses /\ TokenWaits(ad[d])
      BY DEF AdInv, AdType, AdRow
    <2>5. OutreachTypeOK
      BY <2>1, <2>2, <2>3, <2>4 DEF OutreachTypeOK, PhoneRows, TokenWaits
    <2> QED BY <2>5, OffersOnce DEF OutreachKept, MailInv, PromoInv, AdInv
  <1> QED BY <1>1, <1>2, <1>3, <1>4, <1>5, <1>6, <1>7, PTL DEF OutreachSpec

(* No push reaches a phone whose owner changed before its row was read (apns),   *)
(* and no later token overwrites a completed exchange (acquisition), unless      *)
(* the report had read the row before.                                           *)
THEOREM StepsReachTheirOwner == OutreachSpec => OutreachSteps
  <1>1. OutreachInit => PushInv /\ AdInv
    BY PushStarts, AdStarts DEF OutreachInit
  <1>2. OutreachSpec => PushToOwner
    <2>1. PushInv /\ [PushNext]_pushVars => PushInv'
      BY PushStep
    <2>2. PushInv /\ [PushNext]_pushVars =>
            [\A x \in pushed' \ pushed : hands[x[2]] = x[1] \/ x[2] \in pushSlip]_pushVars
      BY PushStep
    <2> QED BY <1>1, <2>1, <2>2, PTL DEF OutreachSpec, PushToOwner
  <1>3. OutreachSpec => ExchangeKept
    <2>1. AdInv /\ [AdNext]_adVars => AdInv'
      BY AdStep
    <2>2. AdInv /\ [AdNext]_adVars =>
            [\A d \in AdDevices :
               Settled(ad[d]) /\ ad'[d] # ad[d] =>
                  report.device = d /\ ~Settled([status |-> report.status])]_adVars
      BY AdStep
    <2> QED BY <1>1, <2>1, <2>2, PTL DEF OutreachSpec, ExchangeKept
  <1> QED BY <1>2, <1>3 DEF OutreachSteps
=============================================================================

---------------------------- MODULE UnlocksProofs ----------------------------
(***************************************************************************)
(* Proofs about Unlocks, for any accounts, transactions, products of the    *)
(* catalogue and overlapping handlers: as long as requests do not overlap,  *)
(* every upgrade is settled by the arrival of its pack and none is granted  *)
(* unearned; whatever overlaps, a recorded purchase is kept.                *)
(***************************************************************************)
EXTENDS Unlocks, WellFoundedInduction, TLAPS

(* A set of numbers that is not empty has a least.                           *)
LEMMA LeastOf ==
    ASSUME NEW S \in SUBSET Nat, S # {}
    PROVE  \E n \in S : \A k \in S : n <= k
  <1>1. \E n \in S : \A k \in S : ~(<<k, n>> \in OpToRel(<, Nat))
    BY NatLessThanWellFounded, WFMin
  <1>2. PICK n \in S : \A k \in S : ~(<<k, n>> \in OpToRel(<, Nat))
    BY <1>1
  <1>3. ASSUME NEW k \in S, k < n PROVE FALSE
    <2>1. <<k, n>> \in Nat \X Nat /\ <<k, n>>[1] = k /\ <<k, n>>[2] = n
      OBVIOUS
    <2>2. <<k, n>> \in {ss \in Nat \X Nat : ss[1] < ss[2]}
      BY <1>3, <2>1
    <2> QED BY <1>2, <2>2 DEF OpToRel
  <1> QED BY <1>3

-----------------------------------------------------------------------------
(* Deciding                                                                 *)

(* An upgrade grants one feature and requires the other: an account that has *)
(* neither what it grants nor what it requires has nothing.                  *)
LEMMA UpgradeShape ==
    ASSUME NEW t \in Txns
    PROVE  /\ Product[t].grants \in SUBSET Features
           /\ Product[t].requires # None =>
                /\ Product[t].grants # {}
                /\ \A have \in SUBSET Features :
                     \/ Product[t].grants \subseteq have
                     \/ Product[t].requires \in have
                     \/ have = {}
  <1>0. PICK p : p = Product[t]
    OBVIOUS
  <1>1. p \in Products
    BY <1>0, UnlocksAssumption
  <1>2. CASE p.requires = None
    BY <1>0, <1>1, <1>2
    DEF Products, Features, AppleCloudPack, ByokPack, Bundle, AppleCloudUpgrade, ByokUpgrade
  <1>3. CASE p.requires # None
    <2>1. p = AppleCloudUpgrade \/ p = ByokUpgrade
      BY <1>1, <1>3 DEF Products, AppleCloudPack, ByokPack, Bundle
    <2>2. CASE p = AppleCloudUpgrade
      <3>1. p.grants = {"unlock_apple_cloud"} /\ p.requires = "unlock_byok"
        BY <2>2 DEF AppleCloudUpgrade
      <3>2. p.grants \in SUBSET Features /\ p.grants # {}
        BY <3>1 DEF Features
      <3>3. ASSUME NEW have \in SUBSET Features, ~(p.grants \subseteq have), p.requires \notin have
            PROVE  have = {}
        <4>1. "unlock_apple_cloud" \notin have /\ "unlock_byok" \notin have
          BY <3>1, <3>3
        <4> QED BY <4>1 DEF Features
      <3> QED BY <1>0, <3>2, <3>3
    <2>3. CASE p = ByokUpgrade
      <3>1. p.grants = {"unlock_byok"} /\ p.requires = "unlock_apple_cloud"
        BY <2>3 DEF ByokUpgrade
      <3>2. p.grants \in SUBSET Features /\ p.grants # {}
        BY <3>1 DEF Features
      <3>3. ASSUME NEW have \in SUBSET Features, ~(p.grants \subseteq have), p.requires \notin have
            PROVE  have = {}
        <4>1. "unlock_byok" \notin have /\ "unlock_apple_cloud" \notin have
          BY <3>1, <3>3
        <4> QED BY <4>1 DEF Features
      <3> QED BY <1>0, <3>2, <3>3
    <2> QED BY <2>1, <2>2, <2>3
  <1> QED BY <1>2, <1>3

(* A table of decided rows: typed, a grant grants what was bought and only a *)
(* grant does, only an upgrade waits.                                        *)
Table(ps) ==
    /\ ps \in [Txns -> Row \cup {None}]
    /\ \A t \in Txns : ps[t] # None =>
         /\ ps[t].grants = GrantsOf(Product[t], ps[t].status)
         /\ ps[t].status = "pending" => Product[t].requires # None

(* What an account owns are features.                                        *)
LEMMA OwnedAreFeatures ==
    ASSUME NEW ps, Table(ps), NEW u
    PROVE  Owned(ps, u) \in SUBSET Features
  BY DEF Table, Owned, Held, Row

(* A status Decide gives to an upgrade is a right one: it waits only for an  *)
(* account that owns nothing.                                                *)
LEMMA DecideRight ==
    ASSUME NEW t \in Txns, NEW have \in SUBSET Features
    PROVE  /\ Decide(Product[t], have) \in Statuses
           /\ Decide(Product[t], have) = "pending" =>
                Product[t].requires # None /\ have = {}
           /\ Product[t].requires # None =>
                /\ Decide(Product[t], have) = "granted" => Product[t].requires \in have
                /\ Decide(Product[t], have) = "refund_flagged" =>
                     Product[t].grants \subseteq have /\ have # {}
  <1> DEFINE grants == Product[t].grants
             requires == Product[t].requires
             status == Decide(Product[t], have)
  <1>1. CASE requires = None
    BY <1>1 DEF Decide, Statuses
  <1>2. CASE requires # None
    <2>1. /\ grants # {}
          /\ (grants \subseteq have) \/ (requires \in have) \/ (have = {})
      BY <1>2, UpgradeShape
    <2>2. CASE grants \subseteq have
      <3>1. status = "refund_flagged"
        BY <1>2, <2>2 DEF Decide
      <3> QED BY <2>1, <2>2, <3>1 DEF Statuses
    <2>3. CASE ~(grants \subseteq have) /\ requires \notin have
      <3>1. status = "pending"
        BY <1>2, <2>3 DEF Decide
      <3> QED BY <1>2, <2>1, <2>3, <3>1 DEF Statuses
    <2>4. CASE ~(grants \subseteq have) /\ requires \in have
      <3>1. status = "granted"
        BY <1>2, <2>4 DEF Decide
      <3> QED BY <2>4, <3>1 DEF Statuses
    <2> QED BY <2>2, <2>3, <2>4
  <1> QED BY <1>1, <1>2

(* What a pending row decided again has become of a table.                   *)
Advanced(ps, qs, u) ==
    /\ Table(qs)
    /\ Owned(ps, u) \subseteq Owned(qs, u)
    /\ \A x \in Txns :
         /\ x \notin Held(ps, u) => qs[x] = ps[x]
         /\ ps[x] # None =>
              /\ qs[x] # None
              /\ qs[x].user = ps[x].user
              /\ qs[x].revoked = ps[x].revoked
              /\ ps[x].status # "pending" => qs[x] = ps[x]
              /\ qs[x].status # ps[x].status /\ Product[x].requires # None =>
                   /\ qs[x].status = "granted" => Product[x].requires \in Owned(qs, u)
                   /\ qs[x].status = "refund_flagged" =>
                        Product[x].grants \subseteq Owned(qs, u)

(* One row.  Nothing changes for an account that owns nothing.               *)
LEMMA RedecideRow ==
    ASSUME NEW ps, Table(ps), NEW u \in Users, NEW t \in Txns
    PROVE  /\ Advanced(ps, Redecide(ps, u, t), u)
           /\ Owned(ps, u) = {} => Redecide(ps, u, t) = ps
           /\ \A x \in Txns \ {t} : Redecide(ps, u, t)[x] = ps[x]
           /\ LET qs == Redecide(ps, u, t) IN
              t \in Held(qs, u) /\ qs[t].status = "pending" => Owned(qs, u) = {}
  <1> DEFINE qs == Redecide(ps, u, t)
             have == Owned(ps, u)
             status == Decide(Product[t], have)
  <1>1. have \in SUBSET Features
    BY OwnedAreFeatures
  <1>2. CASE ~(t \in Held(ps, u) /\ ps[t].status = "pending")
    <2>1. qs = ps
      BY <1>2 DEF Redecide
    <2> QED BY <1>2, <2>1 DEF Advanced
  <1>3. CASE t \in Held(ps, u) /\ ps[t].status = "pending"
    <2>1. /\ ps[t] \in Row /\ ps[t].user = u /\ ps[t].revoked = FALSE
          /\ ps[t] # None /\ ps[t].grants = {} /\ Product[t].requires # None
      BY <1>3 DEF Held, Table, Row, GrantsOf
    <2>2. /\ status \in Statuses
          /\ status = "pending" => have = {}
          /\ status = "granted" => Product[t].requires \in have
          /\ status = "refund_flagged" => Product[t].grants \subseteq have /\ have # {}
      BY <1>1, <2>1, DecideRight
    <2>3. PICK r : r = [user |-> u, status |-> status,
                        grants |-> GrantsOf(Product[t], status), revoked |-> FALSE]
      OBVIOUS
    <2>4. /\ r \in Row /\ r.user = u /\ r.status = status /\ r.revoked = FALSE
          /\ r.grants = GrantsOf(Product[t], status)
      BY <2>2, <2>3, UpgradeShape DEF Row, GrantsOf
    <2>5. qs = [ps EXCEPT ![t] = r]
      <3>1. qs = [ps EXCEPT ![t] = [ps[t] EXCEPT !.status = status,
                                                 !.grants = GrantsOf(Product[t], status)]]
        BY <1>3 DEF Redecide, Table
      <3>2. PICK row, grants : row = ps[t] /\ grants = GrantsOf(Product[t], status)
        OBVIOUS
      <3>3. [row EXCEPT !.status = status, !.grants = grants] = r
        <4>1. /\ row \in Row /\ status \in Statuses /\ grants \in SUBSET Features
              /\ row.user = u /\ row.revoked = FALSE
          BY <2>1, <2>2, <3>2, UpgradeShape DEF GrantsOf
        <4>2. /\ r \in Row /\ r.user = u /\ r.status = status /\ r.revoked = FALSE
              /\ r.grants = grants
          BY <2>4, <3>2
        <4> HIDE DEF status, have
        <4>3. PICK e : e = [row EXCEPT !.status = status, !.grants = grants]
          OBVIOUS
        <4>4. /\ e \in Row
              /\ e.user = row.user /\ e.status = status /\ e.revoked = row.revoked
              /\ e.grants = grants
          BY <4>1, <4>3 DEF Row
        <4>5. e = r
          BY <4>1, <4>2, <4>4 DEF Row
        <4> QED BY <4>3, <4>5
      <3>4. qs = [ps EXCEPT ![t] = r]
        BY <3>1, <3>2, <3>3
      <3> QED BY <3>4
    <2>6. qs \in [Txns -> Row \cup {None}] /\ qs[t] = r /\ \A x \in Txns \ {t} : qs[x] = ps[x]
      BY <2>4, <2>5 DEF Table
    <2>7. r # None
      BY <2>4, NoRow
    <2>8. Table(qs)
      BY <2>1, <2>4, <2>6 DEF Table
    <2>9. \A x \in Txns \ {t} : x \in Held(qs, u) <=> x \in Held(ps, u)
      BY <2>6 DEF Held
    <2>10. have \subseteq Owned(qs, u)
      <3>1. ASSUME NEW x \in Held(ps, u), ps[x].status = "granted"
            PROVE  x \in Held(qs, u) /\ qs[x] = ps[x]
        BY <1>3, <2>6, <2>9, <3>1 DEF Held
      <3> QED BY <3>1 DEF Owned
    <2>11. have = {} => status = "pending"
      BY <2>2 DEF Statuses
    <2>12. status = "pending" => qs = ps
      <3>1. HAVE status = "pending"
      <3>2. r = ps[t]
        BY <2>1, <2>3, <2>4, <3>1, <1>3 DEF Row, GrantsOf
      <3> QED BY <2>5, <3>2 DEF Table
    <2>13. Advanced(ps, qs, u)
      BY <1>3, <2>1, <2>2, <2>4, <2>6, <2>7, <2>8, <2>10 DEF Advanced
    <2> QED BY <2>2, <2>4, <2>6, <2>11, <2>12, <2>13
  <1> QED BY <1>2, <1>3

-----------------------------------------------------------------------------
(* Deciding a whole table again                                             *)

(* The rows S of an account have been decided again: those of them that still*)
(* wait belong to an account that owns nothing.                              *)
Passed(ps, qs, u, S) ==
    /\ Advanced(ps, qs, u)
    /\ \A x \in S : x \in Held(qs, u) /\ qs[x].status = "pending" => Owned(qs, u) = {}

(* One row more.                                                             *)
LEMMA OneMore ==
    ASSUME NEW ps, NEW qs, Table(ps), NEW u \in Users, NEW S \in SUBSET Txns, NEW t \in Txns,
           Passed(ps, qs, u, S)
    PROVE  Passed(ps, Redecide(qs, u, t), u, S \cup {t})
  <1>1. PICK rs : rs = Redecide(qs, u, t)
    OBVIOUS
  <1>2. /\ Table(qs) /\ Advanced(qs, rs, u)
        /\ Owned(qs, u) = {} => rs = qs
        /\ \A x \in Txns \ {t} : rs[x] = qs[x]
        /\ t \in Held(rs, u) /\ rs[t].status = "pending" => Owned(rs, u) = {}
    BY <1>1, RedecideRow DEF Passed, Advanced
  <1>3. Owned(ps, u) \subseteq Owned(qs, u) /\ Owned(qs, u) \subseteq Owned(rs, u)
    BY <1>2 DEF Passed, Advanced
  <1>4. ASSUME NEW x \in Txns, x \notin Held(ps, u)
        PROVE  rs[x] = ps[x]
    <2>1. qs[x] = ps[x]
      BY <1>4 DEF Passed, Advanced
    <2>2. x \notin Held(qs, u)
      BY <1>4, <2>1 DEF Held
    <2> QED BY <1>2, <2>1, <2>2 DEF Advanced
  <1>5. ASSUME NEW x \in Txns, ps[x] # None
        PROVE  /\ rs[x] # None
               /\ rs[x].user = ps[x].user
               /\ rs[x].revoked = ps[x].revoked
               /\ ps[x].status # "pending" => rs[x] = ps[x]
               /\ rs[x].status # ps[x].status /\ Product[x].requires # None =>
                    /\ rs[x].status = "granted" => Product[x].requires \in Owned(rs, u)
                    /\ rs[x].status = "refund_flagged" => Product[x].grants \subseteq Owned(rs, u)
    <2>1. /\ qs[x] # None
          /\ qs[x].user = ps[x].user
          /\ qs[x].revoked = ps[x].revoked
          /\ ps[x].status # "pending" => qs[x] = ps[x]
          /\ qs[x].status # ps[x].status /\ Product[x].requires # None =>
               /\ qs[x].status = "granted" => Product[x].requires \in Owned(qs, u)
               /\ qs[x].status = "refund_flagged" => Product[x].grants \subseteq Owned(qs, u)
      BY <1>5 DEF Passed, Advanced
    <2>2. /\ rs[x] # None
          /\ rs[x].user = qs[x].user
          /\ rs[x].revoked = qs[x].revoked
          /\ qs[x].status # "pending" => rs[x] = qs[x]
          /\ rs[x].status # qs[x].status /\ Product[x].requires # None =>
               /\ rs[x].status = "granted" => Product[x].requires \in Owned(rs, u)
               /\ rs[x].status = "refund_flagged" => Product[x].grants \subseteq Owned(rs, u)
      BY <1>2, <2>1 DEF Advanced
    <2> QED BY <1>3, <2>1, <2>2
  <1>6. ASSUME NEW x \in S \cup {t}, x \in Held(rs, u), rs[x].status = "pending"
        PROVE  Owned(rs, u) = {}
    <2>1. CASE x = t
      BY <1>2, <1>6, <2>1
    <2>2. CASE x # t
      <3>1. x \in S /\ x \in Txns /\ rs[x] = qs[x]
        BY <1>2, <2>2
      <3>2. x \in Held(qs, u) /\ qs[x].status = "pending"
        BY <1>6, <3>1 DEF Held
      <3>3. Owned(qs, u) = {}
        BY <3>1, <3>2 DEF Passed
      <3> QED BY <1>2, <3>3
    <2> QED BY <2>1, <2>2
  <1>7. Table(rs) /\ Owned(ps, u) \subseteq Owned(rs, u)
    BY <1>2, <1>3 DEF Advanced
  <1>8. Advanced(ps, rs, u)
    BY <1>4, <1>5, <1>7 DEF Advanced
  <1> QED BY <1>1, <1>6, <1>8 DEF Passed

(* The tables _resolve_pending goes through exist.                           *)
Steps(ps, u, order, n, f) ==
    f = [k \in 0..n |-> IF k = 0 THEN ps ELSE Redecide(f[k - 1], u, order[k])]

LEMMA StepsExist ==
    ASSUME NEW ps, NEW u, NEW order, NEW n \in Nat
    PROVE  \E f : Steps(ps, u, order, n, f)
  <1> DEFINE Missing == {m \in Nat : ~\E f : Steps(ps, u, order, m, f)}
  <1>1. SUFFICES ASSUME Missing # {} PROVE FALSE
    OBVIOUS
  <1>2. PICK m \in Missing : \A k \in Missing : m <= k
    <2>1. Missing \in SUBSET Nat
      OBVIOUS
    <2> HIDE DEF Missing
    <2> QED BY <1>1, <2>1, LeastOf
  <1>3. m # 0
    <2>1. Steps(ps, u, order, 0, [k \in 0..0 |-> ps])
      BY DEF Steps
    <2> QED BY <1>2, <2>1
  <1>4. m - 1 \in Nat /\ m - 1 \notin Missing
    BY <1>2, <1>3
  <1>5. PICK f : Steps(ps, u, order, m - 1, f)
    BY <1>4
  <1> DEFINE last == Redecide(f[m - 1], u, order[m])
             g == [k \in 0..m |-> IF k = m THEN last ELSE f[k]]
  <1>6. \A k \in 0..m : g[k] = IF k = 0 THEN ps ELSE Redecide(g[k - 1], u, order[k])
    <2>1. \A k \in 0 .. m - 1 : f[k] = IF k = 0 THEN ps ELSE Redecide(f[k - 1], u, order[k])
      BY <1>5 DEF Steps
    <2>2. ASSUME NEW k \in 0..m, k # m
          PROVE  g[k] = IF k = 0 THEN ps ELSE Redecide(g[k - 1], u, order[k])
      <3>1. k \in 0 .. m - 1 /\ (k # 0 => k - 1 \in 0..m /\ k - 1 # m)
        BY <1>4, <2>2
      <3>2. g[k] = f[k] /\ (k # 0 => g[k - 1] = f[k - 1])
        BY <2>2, <3>1
      <3> QED BY <2>1, <3>1, <3>2
    <2>3. g[m] = Redecide(g[m - 1], u, order[m])
      <3>1. m \in 0..m /\ m - 1 \in 0..m /\ m - 1 # m
        BY <1>4
      <3>2. g[m] = last /\ g[m - 1] = f[m - 1]
        BY <3>1
      <3> QED BY <3>2
    <2> QED BY <1>3, <2>2, <2>3
  <1>7. Steps(ps, u, order, m, g)
    <2>1. g = [k \in 0..m |-> g[k]]
      OBVIOUS
    <2> HIDE DEF g
    <2> QED BY <1>6, <2>1 DEF Steps
  <1> QED BY <1>2, <1>7

(* _resolve_pending, whatever the number of rows and their order.            *)
LEMMA Resolved ==
    ASSUME NEW ps, Table(ps), NEW u \in Users, NEW order \in Seq(Txns)
    PROVE  Passed(ps, ResolvePending(ps, u, order), u, Range(order))
  <1> DEFINE N == Len(order)
             f == CHOOSE g : Steps(ps, u, order, N, g)
             Some(n) == {order[i] : i \in 1..n}
             Bad == {n \in 0..N : ~Passed(ps, f[n], u, Some(n))}
  <1>1. N \in Nat /\ DOMAIN order = 1..N /\ \A i \in 1..N : order[i] \in Txns
    OBVIOUS
  <1>2. Steps(ps, u, order, N, f)
    <2>1. \E g : Steps(ps, u, order, N, g)
      BY <1>1, StepsExist
    <2> QED BY <2>1
  <1>3. ResolvePending(ps, u, order) = f[N]
    BY DEF ResolvePending, Steps
  <1>4. f[0] = ps /\ \A k \in 1..N : f[k] = Redecide(f[k - 1], u, order[k])
    <2> HIDE DEF f
    <2>1. \A k \in 0..N : f[k] = IF k = 0 THEN ps ELSE Redecide(f[k - 1], u, order[k])
      BY <1>2 DEF Steps
    <2> QED BY <1>1, <2>1
  <1> HIDE DEF f
  <1>5. Bad = {}
    <2>1. SUFFICES ASSUME Bad # {} PROVE FALSE
      OBVIOUS
    <2>2. PICK m \in Bad : \A k \in Bad : m <= k
      <3>1. Bad \in SUBSET Nat
        BY <1>1
      <3> HIDE DEF Bad
      <3> QED BY <2>1, <3>1, LeastOf
    <2>3. m # 0
      <3>1. Passed(ps, ps, u, Some(0))
        BY DEF Passed, Advanced
      <3> QED BY <1>4, <2>2, <3>1
    <2>4. m \in 1..N /\ m - 1 \in 0..N /\ m - 1 \notin Bad
      <3>1. m \in 0..N
        BY <2>2
      <3>2. m \in 1..N /\ m - 1 \in 0..N
        BY <1>1, <2>3, <3>1
      <3> HIDE DEF Bad
      <3>3. m - 1 \in Bad => m <= m - 1
        BY <2>2
      <3> QED BY <3>1, <3>2, <3>3
    <2>5. Passed(ps, f[m - 1], u, Some(m - 1))
      BY <2>4
    <2>6. order[m] \in Txns /\ Some(m - 1) \in SUBSET Txns
      BY <1>1, <2>4
    <2>7. Some(m) = Some(m - 1) \cup {order[m]}
      BY <1>1, <2>4
    <2>8. Passed(ps, Redecide(f[m - 1], u, order[m]), u, Some(m - 1) \cup {order[m]})
      <3> HIDE DEF Some
      <3> QED BY <2>5, <2>6, OneMore
    <2> QED BY <1>4, <2>2, <2>4, <2>7, <2>8
  <1>6. Passed(ps, f[N], u, Some(N))
    <2>1. N \in 0..N
      <3> HIDE DEF N, Bad
      <3> QED BY <1>1
    <2>2. N \notin Bad
      <3> HIDE DEF Bad
      <3> QED BY <1>5
    <2> QED BY <2>1, <2>2
  <1>7. Some(N) = Range(order)
    BY <1>1 DEF Range
  <1> QED BY <1>3, <1>6, <1>7

-----------------------------------------------------------------------------
(* The invariant                                                            *)

Locals == [pc : {"idle", "select", "decide", "insert", "move"}, user : Users \cup {None},
           txn : Txns \cup {None}, source : {None, "verify_receipt", "assn"},
           status : Statuses \cup {None}, prev : Users \cup {None}]

(* What a handler carries, whatever overlaps.                                *)
Carries(job, ps) ==
    /\ job \in Locals
    /\ job.pc # "idle" => /\ job.user \in Users /\ job.txn \in Txns
                          /\ job.source \in {"verify_receipt", "assn"}
    /\ job.pc = "insert" => /\ job.status \in Statuses
                            /\ job.status = "pending" => Product[job.txn].requires # None
    /\ job.pc = "move" => ps[job.txn] # None /\ job.prev \in Users

(* What a handler read is still so: a status to insert is what would be      *)
(* decided now, and Apple's notification never takes a purchase away.        *)
Fresh(job, ps) ==
    /\ job.pc = "insert" => job.status = Decide(Product[job.txn], Owned(ps, job.user))
    /\ job.pc # "idle" /\ job.source = "assn" =>
         /\ job.pc # "move"
         /\ job.pc = "select" /\ ps[job.txn] # None => ps[job.txn].user = job.user

(* Whoever waits for a pack owns nothing.                                    *)
WaitersOwnNothing(ps) ==
    \A t \in Txns :
        ps[t] # None /\ ps[t].status = "pending" /\ ~ps[t].revoked =>
            Owned(ps, ps[t].user) = {}

OneAtATime ==
    \A v, w \in Workers : work[v].pc # "idle" /\ work[w].pc # "idle" => v = w

Serial ==
    /\ OneAtATime
    /\ \A w \in Workers : Fresh(work[w], purchases)
    /\ WaitersOwnNothing(purchases)

Shape ==
    /\ Table(purchases)
    /\ recorded \in Seq(Txns)
    /\ Range(recorded) = {t \in Txns : purchases[t] # None}
    /\ IsInjective(recorded)
    /\ active \in [Users -> BOOLEAN]
    /\ links \subseteq Users \X Users
    /\ work \in [Workers -> Locals]
    /\ \A w \in Workers : Carries(work[w], purchases)

UnlocksInv ==
    /\ Shape
    /\ overlapped \in BOOLEAN
    /\ ~overlapped => Serial

LEMMA UnlocksStart == Init => UnlocksInv
  <1> SUFFICES ASSUME Init PROVE UnlocksInv
    OBVIOUS
  <1>1. Table(purchases) /\ WaitersOwnNothing(purchases)
    BY DEF Init, Table, WaitersOwnNothing
  <1>2. recorded \in Seq(Txns) /\ DOMAIN recorded = {}
    BY DEF Init
  <1>3. Range(recorded) = {t \in Txns : purchases[t] # None} /\ IsInjective(recorded)
    BY <1>2 DEF Init, Range, IsInjective
  <1>4. Idle \in Locals /\ Idle.pc = "idle"
    BY DEF Idle, Locals
  <1>5. work \in [Workers -> Locals] /\ \A w \in Workers : work[w] = Idle
    BY <1>4 DEF Init
  <1>6. \A w \in Workers : Carries(work[w], purchases) /\ Fresh(work[w], purchases)
    BY <1>4, <1>5 DEF Carries, Fresh
  <1>7. OneAtATime
    BY <1>4, <1>5 DEF OneAtATime
  <1>8. active \in [Users -> BOOLEAN] /\ links \subseteq Users \X Users /\ overlapped \in BOOLEAN
    BY DEF Init
  <1> QED BY <1>1, <1>2, <1>3, <1>5, <1>6, <1>7, <1>8 DEF UnlocksInv, Shape, Serial

(* What holds of the types and of rows nobody disturbs.                      *)
LEMMA UnlocksImplies == UnlocksInv => UnlocksSettled
  <1> SUFFICES ASSUME UnlocksInv PROVE UnlocksSettled
    OBVIOUS
  <1>1. TypeOK
    BY DEF UnlocksInv, Shape, Table, Carries, Locals, TypeOK
  <1>2. SettledInAnyOrder
    <2>1. ASSUME ~overlapped PROVE NoStrandedUpgrade
      BY <2>1 DEF UnlocksInv, Serial, WaitersOwnNothing, NoStrandedUpgrade
    <2> QED BY <2>1 DEF SettledInAnyOrder
  <1> QED BY <1>1, <1>2 DEF UnlocksSettled

-----------------------------------------------------------------------------
(* Steps                                                                    *)

(* Whoever enters while nothing has overlapped enters alone.                 *)
LEMMA Entered ==
    ASSUME UnlocksInv, NEW w \in Workers, Enter(w)
    PROVE  /\ overlapped' \in BOOLEAN
           /\ ~overlapped' => ~overlapped /\ \A v \in Workers : work[v].pc = "idle"
  BY Zenon DEF UnlocksInv, Enter

(* A handler in flight while nothing has overlapped is alone.                *)
LEMMA Alone ==
    ASSUME UnlocksInv, NEW w \in Workers, work[w].pc # "idle", overlapped' = overlapped
    PROVE  /\ overlapped' \in BOOLEAN
           /\ ~overlapped' => ~overlapped /\ \A v \in Workers \ {w} : work[v].pc = "idle"
  <1>1. overlapped' \in BOOLEAN /\ (~overlapped' => ~overlapped)
    BY Zenon DEF UnlocksInv
  <1>2. ~overlapped => \A v \in Workers \ {w} : work[v].pc = "idle"
    BY DEF UnlocksInv, Serial, OneAtATime
  <1> QED BY <1>1, <1>2

(* One handler moves; the table keeps its rows.                              *)
LEMMA StepKeeps ==
    ASSUME UnlocksInv, NEW w \in Workers, NEW j, work' = [work EXCEPT ![w] = j],
           Carries(j, purchases'), Table(purchases'),
           \A t \in Txns : purchases[t] # None => purchases'[t] # None,
           recorded' \in Seq(Txns),
           Range(recorded') = {t \in Txns : purchases'[t] # None},
           IsInjective(recorded'),
           active' \in [Users -> BOOLEAN], links' \subseteq Users \X Users,
           overlapped' \in BOOLEAN,
           ~overlapped' => /\ \A v \in Workers \ {w} : work[v].pc = "idle"
                           /\ Fresh(j, purchases')
                           /\ WaitersOwnNothing(purchases')
    PROVE  UnlocksInv'
  <1>1. work \in [Workers -> Locals] /\ j \in Locals
    BY DEF UnlocksInv, Shape, Carries
  <1>2. /\ work' \in [Workers -> Locals]
        /\ work'[w] = j /\ \A v \in Workers \ {w} : work'[v] = work[v]
    BY <1>1
  <1>3. ASSUME NEW v \in Workers PROVE Carries(work'[v], purchases')
    <2>1. CASE v = w
      BY <1>2, <2>1
    <2>2. CASE v # w
      <3>1. Carries(work[v], purchases) /\ work'[v] = work[v]
        BY <1>2, <2>2 DEF UnlocksInv, Shape
      <3> QED BY <3>1 DEF Carries
    <2> QED BY <2>1, <2>2
  <1>4. Shape'
    BY <1>2, <1>3 DEF Shape
  <1>5. ASSUME ~overlapped' PROVE Serial'
    <2>1. /\ \A v \in Workers \ {w} : work'[v].pc = "idle"
          /\ Fresh(j, purchases') /\ WaitersOwnNothing(purchases')
      BY <1>2, <1>5
    <2>2. \A v \in Workers : Fresh(work'[v], purchases')
      BY <1>2, <2>1 DEF Fresh
    <2>3. OneAtATime'
      BY <2>1 DEF OneAtATime
    <2> QED BY <2>1, <2>2, <2>3 DEF Serial
  <1> QED BY <1>4, <1>5, Zenon DEF UnlocksInv

-----------------------------------------------------------------------------
(* What a step does to the rows                                             *)

(* RowsOnlyAdvance, of one step.                                             *)
RowsAdvance ==
    \A t \in Txns : purchases[t] # None =>
        /\ purchases'[t] # None
        /\ purchases[t].status # "pending" =>
             /\ purchases'[t].status = purchases[t].status
             /\ purchases'[t].grants = purchases[t].grants
        /\ purchases[t].revoked => purchases'[t].revoked

(* UpgradeEarned, of one step.                                               *)
Earned ==
    \A t \in Txns :
        /\ purchases'[t] # None
        /\ Product[t].requires # None
        /\ purchases[t] = None \/ purchases[t].status # purchases'[t].status
        => LET have == Owned(purchases', purchases'[t].user) IN
           /\ purchases'[t].status = "granted" => Product[t].requires \in have
           /\ purchases'[t].status = "refund_flagged" => Product[t].grants \subseteq have

(* OnlyVerifierMoves, of one step.                                           *)
MovesAreAsked ==
    \A t \in Txns :
        purchases[t] # None /\ purchases'[t].user # purchases[t].user
          => \/ active'[Anonymous] # active[Anonymous]
             \/ \E w \in Workers : /\ work[w].txn = t
                                   /\ work[w].source = "verify_receipt"
                                   /\ work[w].user = purchases'[t].user

Good ==
    /\ UnlocksInv'
    /\ RowsAdvance
    /\ ~overlapped' => Earned /\ MovesAreAsked

(* A step that leaves the table alone is a good one if its handler is.       *)
LEMMA OnlyWork ==
    ASSUME UnlocksInv, NEW w \in Workers, NEW j, work' = [work EXCEPT ![w] = j],
           UNCHANGED <<purchases, recorded>>,
           active' \in [Users -> BOOLEAN], links' \subseteq Users \X Users,
           Carries(j, purchases), overlapped' \in BOOLEAN,
           ~overlapped' => /\ ~overlapped
                           /\ \A v \in Workers \ {w} : work[v].pc = "idle"
                           /\ Fresh(j, purchases)
    PROVE  Good
  <1>1. /\ Table(purchases) /\ recorded \in Seq(Txns)
        /\ Range(recorded) = {t \in Txns : purchases[t] # None}
        /\ IsInjective(recorded)
    BY DEF UnlocksInv, Shape
  <1>2. purchases' = purchases /\ recorded' = recorded
    OBVIOUS
  <1>3. Table(purchases') /\ Carries(j, purchases')
    BY <1>1, <1>2
  <1>4. ASSUME ~overlapped' PROVE Fresh(j, purchases') /\ WaitersOwnNothing(purchases')
    <2>1. Fresh(j, purchases) /\ WaitersOwnNothing(purchases)
      BY <1>4, Zenon DEF UnlocksInv, Serial
    <2> QED BY <1>2, <2>1
  <1>5. UnlocksInv'
    BY <1>1, <1>2, <1>3, <1>4, StepKeeps
  <1>6. RowsAdvance /\ Earned /\ MovesAreAsked
    BY <1>2 DEF RowsAdvance, Earned, MovesAreAsked
  <1> QED BY <1>5, <1>6 DEF Good

(* A request that starts.                                                    *)
LEMMA VerifyReceiptStep ==
    ASSUME UnlocksInv, NEW w \in Workers, NEW u \in Users, NEW t \in Txns, VerifyReceipt(w, u, t)
    PROVE  Good
  <1>1. PICK j : j = [Idle EXCEPT !.pc = "select", !.user = u, !.txn = t,
                                  !.source = "verify_receipt"]
    OBVIOUS
  <1>2. /\ j \in Locals /\ j.pc = "select" /\ j.user = u /\ j.txn = t
        /\ j.source = "verify_receipt"
    BY <1>1 DEF Idle, Locals
  <1>3. Carries(j, purchases) /\ Fresh(j, purchases)
    BY <1>2 DEF Carries, Fresh
  <1>4. /\ work' = [work EXCEPT ![w] = j] /\ UNCHANGED <<purchases, recorded>>
        /\ active' = active /\ links' = links /\ Enter(w)
    BY <1>1 DEF VerifyReceipt
  <1>5. active' \in [Users -> BOOLEAN] /\ links' \subseteq Users \X Users
    BY <1>4 DEF UnlocksInv, Shape
  <1> QED BY <1>3, <1>4, <1>5, Entered, OnlyWork

LEMMA OneTimeChargeStep ==
    ASSUME UnlocksInv, NEW w \in Workers, NEW t \in Txns, OneTimeCharge(w, t)
    PROVE  Good
  <1>1. PICK j : j = [Idle EXCEPT !.pc = "select", !.user = FindUser(t), !.txn = t,
                                  !.source = "assn"]
    OBVIOUS
  <1>2. FindUser(t) \in Users /\ (purchases[t] # None => FindUser(t) = purchases[t].user)
    BY UnlocksAssumption DEF OneTimeCharge, FindUser, UnlocksInv, Shape, Table, Row
  <1>3. /\ j \in Locals /\ j.pc = "select" /\ j.user = FindUser(t) /\ j.txn = t
        /\ j.source = "assn"
    BY <1>1, <1>2 DEF Idle, Locals
  <1>4. Carries(j, purchases) /\ Fresh(j, purchases)
    BY <1>2, <1>3 DEF Carries, Fresh
  <1>5. /\ work' = [work EXCEPT ![w] = j] /\ UNCHANGED <<purchases, recorded>>
        /\ active' = active /\ links' = links /\ Enter(w)
    BY <1>1 DEF OneTimeCharge
  <1>6. active' \in [Users -> BOOLEAN] /\ links' \subseteq Users \X Users
    BY <1>5 DEF UnlocksInv, Shape
  <1> QED BY <1>4, <1>5, <1>6, Entered, OnlyWork

(* The table is read.                                                        *)
LEMMA RecordSelectStep ==
    ASSUME UnlocksInv, NEW w \in Workers, RecordSelect(w)
    PROVE  Good
  <1>1. PICK job, j :
          /\ job = work[w]
          /\ j = IF purchases[job.txn] = None THEN [job EXCEPT !.pc = "decide"]
                 ELSE IF purchases[job.txn].user # job.user
                 THEN [job EXCEPT !.pc = "move", !.prev = purchases[job.txn].user]
                 ELSE Idle
    OBVIOUS
  <1>2. /\ job \in Locals /\ job.pc = "select" /\ job.user \in Users /\ job.txn \in Txns
        /\ job.source \in {"verify_receipt", "assn"} /\ Carries(job, purchases)
    BY <1>1 DEF RecordSelect, UnlocksInv, Shape, Carries
  <1>3. /\ work' = [work EXCEPT ![w] = j] /\ UNCHANGED <<purchases, recorded>>
        /\ active' = active /\ links' = links /\ overlapped' = overlapped
    BY <1>1 DEF RecordSelect
  <1>4. active' \in [Users -> BOOLEAN] /\ links' \subseteq Users \X Users
    BY <1>3 DEF UnlocksInv, Shape
  <1>5. /\ overlapped' \in BOOLEAN
        /\ ~overlapped' => ~overlapped /\ \A v \in Workers \ {w} : work[v].pc = "idle"
    BY <1>1, <1>2, <1>3, Alone
  <1>6. CASE purchases[job.txn] = None
    <2>1. /\ j \in Locals /\ j.pc = "decide" /\ j.user = job.user /\ j.txn = job.txn
          /\ j.source = job.source
      BY <1>1, <1>2, <1>6 DEF Locals
    <2>2. Carries(j, purchases) /\ Fresh(j, purchases)
      BY <1>2, <2>1 DEF Carries, Fresh
    <2> QED BY <1>3, <1>4, <1>5, <2>2, OnlyWork
  <1>7. CASE purchases[job.txn] # None /\ purchases[job.txn].user = job.user
    <2>1. j = Idle
      BY <1>1, <1>7
    <2>2. Carries(j, purchases) /\ Fresh(j, purchases)
      BY <2>1 DEF Idle, Locals, Carries, Fresh
    <2> QED BY <1>3, <1>4, <1>5, <2>2, OnlyWork
  <1>8. CASE purchases[job.txn] # None /\ purchases[job.txn].user # job.user
    <2>1. purchases[job.txn].user \in Users
      BY <1>2, <1>8 DEF UnlocksInv, Shape, Table, Row
    <2>2. /\ j \in Locals /\ j.pc = "move" /\ j.user = job.user /\ j.txn = job.txn
          /\ j.source = job.source /\ j.prev = purchases[job.txn].user
      BY <1>1, <1>2, <1>8, <2>1 DEF Locals
    <2>3. Carries(j, purchases)
      BY <1>2, <1>8, <2>1, <2>2 DEF Carries
    <2>4. ASSUME ~overlapped' PROVE Fresh(j, purchases)
      <3>1. Fresh(job, purchases)
        BY <1>1, <1>5, <2>4 DEF UnlocksInv, Serial
      <3>2. job.source # "assn"
        BY <1>2, <1>8, <3>1 DEF Fresh
      <3> QED BY <2>2, <3>2 DEF Fresh
    <2> QED BY <1>3, <1>4, <1>5, <2>3, <2>4, OnlyWork
  <1> QED BY <1>6, <1>7, <1>8

LEMMA RecordDecideStep ==
    ASSUME UnlocksInv, NEW w \in Workers, RecordDecide(w)
    PROVE  Good
  <1>1. PICK job, s, j :
          /\ job = work[w]
          /\ s = Decide(Product[job.txn], Owned(purchases, job.user))
          /\ j = [job EXCEPT !.pc = "insert", !.status = s]
    OBVIOUS
  <1>2. /\ job \in Locals /\ job.pc = "decide" /\ job.user \in Users /\ job.txn \in Txns
        /\ job.source \in {"verify_receipt", "assn"}
    BY <1>1 DEF RecordDecide, UnlocksInv, Shape, Carries
  <1>3. Owned(purchases, job.user) \in SUBSET Features
    BY OwnedAreFeatures DEF UnlocksInv, Shape
  <1>4. s \in Statuses /\ (s = "pending" => Product[job.txn].requires # None)
    BY <1>1, <1>2, <1>3, DecideRight
  <1>5. /\ j \in Locals /\ j.pc = "insert" /\ j.user = job.user /\ j.txn = job.txn
        /\ j.source = job.source /\ j.status = s
    BY <1>1, <1>2, <1>4 DEF Locals
  <1>6. Carries(j, purchases) /\ Fresh(j, purchases)
    BY <1>1, <1>2, <1>4, <1>5 DEF Carries, Fresh
  <1>7. /\ work' = [work EXCEPT ![w] = j] /\ UNCHANGED <<purchases, recorded>>
        /\ active' = active /\ links' = links /\ overlapped' = overlapped
    BY <1>1 DEF RecordDecide
  <1>8. active' \in [Users -> BOOLEAN] /\ links' \subseteq Users \X Users
    BY <1>7 DEF UnlocksInv, Shape
  <1>9. /\ overlapped' \in BOOLEAN
        /\ ~overlapped' => ~overlapped /\ \A v \in Workers \ {w} : work[v].pc = "idle"
    BY <1>1, <1>2, <1>7, Alone
  <1> QED BY <1>6, <1>7, <1>8, <1>9, OnlyWork

(* An account owns no more than it did if each of its granted rows was one.  *)
LEMMA OwnsNoMore ==
    ASSUME NEW ps, NEW qs, NEW v,
           \A x \in Txns : x \in Held(qs, v) /\ qs[x].status = "granted" =>
                /\ x \in Held(ps, v) /\ ps[x].status = "granted" /\ ps[x].grants = qs[x].grants
    PROVE  Owned(qs, v) \subseteq Owned(ps, v)
  <1>1. ASSUME NEW x \in Held(qs, v), qs[x].status = "granted"
        PROVE  x \in {y \in Held(ps, v) : ps[y].status = "granted"} /\ ps[x].grants = qs[x].grants
    BY <1>1 DEF Held
  <1> QED BY <1>1 DEF Owned

(* Whoever else waits for a pack owns nothing.                               *)
OthersOwnNothing(ps, u) ==
    \A t \in Txns :
        ps[t] # None /\ ps[t].status = "pending" /\ ~ps[t].revoked /\ ps[t].user # u =>
            Owned(ps, ps[t].user) = {}

(* A purchase is settled for its account and disturbs no other.              *)
LEMMA ResolveSettles ==
    ASSUME NEW ps, Table(ps), NEW u \in Users, NEW order \in Seq(Txns),
           {t \in Txns : ps[t] # None} \subseteq Range(order)
    PROVE  LET qs == ResolvePending(ps, u, order) IN
           /\ Advanced(ps, qs, u)
           /\ \A t \in Txns : qs[t] # None <=> ps[t] # None
           /\ OthersOwnNothing(ps, u) => WaitersOwnNothing(qs)
  <1>1. PICK qs : qs = ResolvePending(ps, u, order)
    OBVIOUS
  <1>2. Passed(ps, qs, u, Range(order))
    BY <1>1, Resolved
  <1>3. Advanced(ps, qs, u)
    BY <1>2 DEF Passed
  <1>4. \A t \in Txns : /\ qs[t] # None <=> ps[t] # None
                        /\ ps[t] # None => /\ qs[t].user = ps[t].user
                                           /\ qs[t].revoked = ps[t].revoked
                        /\ t \notin Held(ps, u) => qs[t] = ps[t]
    BY <1>3 DEF Advanced, Held
  <1>5. ASSUME OthersOwnNothing(ps, u),
               NEW t \in Txns, qs[t] # None, qs[t].status = "pending", ~qs[t].revoked
        PROVE  Owned(qs, qs[t].user) = {}
    <2>1. CASE qs[t].user = u
      <3>1. t \in Held(qs, u) /\ t \in Range(order)
        BY <1>4, <1>5, <2>1 DEF Held
      <3> QED BY <1>2, <1>5, <2>1, <3>1 DEF Passed
    <2>2. CASE qs[t].user # u
      <3>1. qs[t] = ps[t]
        BY <1>4, <1>5, <2>2 DEF Held
      <3>2. PICK v : v = ps[t].user
        OBVIOUS
      <3>3. Owned(ps, v) = {} /\ v # u /\ qs[t].user = v
        BY <1>4, <1>5, <2>2, <3>1, <3>2 DEF OthersOwnNothing
      <3>4. \A x \in Txns : x \in Held(qs, v) => x \in Held(ps, v) /\ ps[x] = qs[x]
        BY <1>4, <3>3 DEF Held
      <3>5. Owned(qs, v) \subseteq Owned(ps, v)
        BY <3>4, OwnsNoMore
      <3> QED BY <3>3, <3>5
    <2> QED BY <2>1, <2>2
  <1>6. OthersOwnNothing(ps, u) => WaitersOwnNothing(qs)
    BY <1>5 DEF WaitersOwnNothing
  <1> QED BY <1>1, <1>3, <1>4, <1>6

(* Rows that move to an account, and what it waits for is decided again.     *)
LEMMA RowsMove ==
    ASSUME UnlocksInv, NEW ps, NEW u \in Users, Table(ps),
           \A x \in Txns :
             /\ ps[x] = None <=> purchases[x] = None
             /\ purchases[x] # None =>
                  /\ ps[x].status = purchases[x].status
                  /\ ps[x].grants = purchases[x].grants
                  /\ ps[x].revoked = purchases[x].revoked
                  /\ ps[x].user = purchases[x].user \/ ps[x].user = u,
           purchases' = ResolvePending(ps, u, recorded)
    PROVE  /\ Table(purchases') /\ RowsAdvance /\ Earned
           /\ \A x \in Txns : /\ purchases'[x] # None <=> purchases[x] # None
                              /\ purchases[x] # None => purchases'[x].user = ps[x].user
           /\ ~overlapped => WaitersOwnNothing(purchases')
  <1>1. PICK qs : qs = ResolvePending(ps, u, recorded) /\ purchases' = qs
    OBVIOUS
  <1>2. recorded \in Seq(Txns) /\ {t \in Txns : ps[t] # None} \subseteq Range(recorded)
    BY DEF UnlocksInv, Shape
  <1>3. /\ Advanced(ps, qs, u)
        /\ \A t \in Txns : qs[t] # None <=> ps[t] # None
        /\ OthersOwnNothing(ps, u) => WaitersOwnNothing(qs)
    BY <1>1, <1>2, ResolveSettles
  <1>4. Table(qs)
    BY <1>3 DEF Advanced
  <1>5. ASSUME NEW x \in Txns
        PROVE  /\ qs[x] # None <=> purchases[x] # None
               /\ purchases[x] # None => qs[x].user = ps[x].user
    BY <1>3 DEF Advanced
  <1>6. RowsAdvance
    <2>1. ASSUME NEW x \in Txns, purchases[x] # None
          PROVE  /\ qs[x] # None
                 /\ purchases[x].status # "pending" =>
                      /\ qs[x].status = purchases[x].status
                      /\ qs[x].grants = purchases[x].grants
                 /\ purchases[x].revoked => qs[x].revoked
      BY <1>3, <2>1 DEF Advanced
    <2> QED BY <1>1, <2>1 DEF RowsAdvance
  <1>7. Earned
    <2>1. ASSUME NEW x \in Txns, qs[x] # None, Product[x].requires # None,
                 purchases[x] = None \/ purchases[x].status # qs[x].status
          PROVE  /\ qs[x].status = "granted" => Product[x].requires \in Owned(qs, qs[x].user)
                 /\ qs[x].status = "refund_flagged" =>
                      Product[x].grants \subseteq Owned(qs, qs[x].user)
      <3>1. ps[x] # None /\ qs[x].status # ps[x].status
        BY <1>5, <2>1
      <3>2. x \in Held(ps, u) /\ qs[x].user = u
        BY <1>3, <3>1 DEF Advanced, Held
      <3> QED BY <1>3, <2>1, <3>1, <3>2 DEF Advanced
    <2> QED BY <1>1, <2>1 DEF Earned
  <1>8. ASSUME ~overlapped PROVE WaitersOwnNothing(qs)
    <2>1. ASSUME NEW t \in Txns, ps[t] # None, ps[t].status = "pending", ~ps[t].revoked,
                 ps[t].user # u
          PROVE  Owned(ps, ps[t].user) = {}
      <3>1. PICK v : v = ps[t].user
        OBVIOUS
      <3>2. /\ purchases[t] # None /\ purchases[t].status = "pending" /\ ~purchases[t].revoked
            /\ purchases[t].user = v /\ v # u
        BY <2>1, <3>1
      <3>3. Owned(purchases, v) = {}
        BY <1>8, <3>2 DEF UnlocksInv, Serial, WaitersOwnNothing
      <3>4. Owned(ps, v) \subseteq Owned(purchases, v)
        <4>1. \A x \in Txns : x \in Held(ps, v) => x \in Held(purchases, v)
          BY <3>2 DEF Held
        <4>2. \A x \in Txns : x \in Held(ps, v) =>
                 ps[x].status = purchases[x].status /\ ps[x].grants = purchases[x].grants
          BY DEF Held
        <4> QED BY <4>1, <4>2, OwnsNoMore
      <3> QED BY <3>1, <3>3, <3>4
    <2> QED BY <1>3, <2>1 DEF OthersOwnNothing
  <1> QED BY <1>1, <1>4, <1>5, <1>6, <1>7, <1>8

(* The row is written, and what it settles.                                  *)
LEMMA RecordInsertStep ==
    ASSUME UnlocksInv, NEW w \in Workers, RecordInsert(w)
    PROVE  Good
  <1>1. PICK job, t, u : job = work[w] /\ t = job.txn /\ u = job.user
    OBVIOUS
  <1>2. /\ job \in Locals /\ job.pc = "insert" /\ u \in Users /\ t \in Txns
        /\ job.status \in Statuses
        /\ job.status = "pending" => Product[t].requires # None
    BY <1>1 DEF RecordInsert, UnlocksInv, Shape, Carries
  <1>3. /\ work' = [work EXCEPT ![w] = Idle]
        /\ active' = active /\ links' = links /\ overlapped' = overlapped
    BY DEF RecordInsert
  <1>4. /\ active' \in [Users -> BOOLEAN] /\ links' \subseteq Users \X Users
        /\ Table(purchases) /\ recorded \in Seq(Txns)
        /\ Range(recorded) = {x \in Txns : purchases[x] # None} /\ IsInjective(recorded)
    BY <1>3 DEF UnlocksInv, Shape
  <1>5. /\ overlapped' \in BOOLEAN
        /\ ~overlapped' => ~overlapped /\ \A v \in Workers \ {w} : work[v].pc = "idle"
    BY <1>1, <1>2, <1>3, Alone
  <1>6. \A ps : Carries(Idle, ps) /\ Fresh(Idle, ps)
    BY DEF Idle, Locals, Carries, Fresh
  <1>7. CASE purchases[t] # None
    <2>1. UNCHANGED <<purchases, recorded>>
      BY <1>1, <1>7 DEF RecordInsert
    <2> QED BY <1>3, <1>4, <1>5, <1>6, <2>1, OnlyWork
  <1>8. CASE purchases[t] = None
    <2>1. PICK r, ins, order :
            /\ r = [user |-> u, status |-> job.status,
                    grants |-> GrantsOf(Product[t], job.status), revoked |-> FALSE]
            /\ ins = [purchases EXCEPT ![t] = r]
            /\ order = Append(recorded, t)
      OBVIOUS
    <2>2. /\ recorded' = order
          /\ purchases' = IF job.status = "granted" THEN ResolvePending(ins, u, order) ELSE ins
      BY <1>1, <1>8, <2>1 DEF RecordInsert
    <2>3. /\ r \in Row /\ r.user = u /\ r.status = job.status /\ r.revoked = FALSE
          /\ r.grants = GrantsOf(Product[t], job.status)
      BY <1>2, <2>1, UpgradeShape DEF Row, GrantsOf
    <2>4. r # None
      BY <2>3, NoRow
    <2>5. ins \in [Txns -> Row \cup {None}] /\ ins[t] = r /\ \A x \in Txns \ {t} : ins[x] = purchases[x]
      BY <1>2, <1>4, <2>1, <2>3 DEF Table
    <2>6. Table(ins)
      BY <1>2, <1>4, <2>3, <2>5 DEF Table
    <2>7. order \in Seq(Txns) /\ Len(order) = Len(recorded) + 1 /\ order[Len(recorded) + 1] = t
          /\ \A i \in 1 .. Len(recorded) : order[i] = recorded[i]
      BY <1>2, <1>4, <2>1
    <2>8. Range(order) = {x \in Txns : ins[x] # None}
      <3>1. /\ DOMAIN order = 1 .. Len(order) /\ DOMAIN recorded = 1 .. Len(recorded)
            /\ Len(recorded) \in Nat
        BY <1>4, <2>7
      <3>2. ASSUME NEW i \in DOMAIN order PROVE order[i] \in Range(recorded) \cup {t}
        <4>1. i = Len(recorded) + 1 \/ i \in 1 .. Len(recorded)
          BY <2>7, <3>1
        <4> QED BY <2>7, <3>1, <4>1 DEF Range
      <3>3. ASSUME NEW i \in DOMAIN recorded PROVE recorded[i] \in Range(order)
        <4>1. i \in DOMAIN order /\ order[i] = recorded[i]
          BY <2>7, <3>1
        <4> QED BY <4>1 DEF Range
      <3>4. t \in Range(order)
        <4>1. Len(recorded) + 1 \in DOMAIN order
          BY <2>7, <3>1
        <4> QED BY <2>7, <4>1 DEF Range
      <3>5. Range(order) = Range(recorded) \cup {t}
        BY <3>2, <3>3, <3>4 DEF Range
      <3> QED BY <1>2, <1>4, <2>4, <2>5, <3>5
    <2>9. IsInjective(order)
      <3>1. \A i \in 1 .. Len(recorded) : recorded[i] # t
        BY <1>4, <1>8 DEF Range
      <3> QED BY <1>4, <2>7, <3>1 DEF IsInjective
    <2>10. \A v : Owned(purchases, v) \subseteq Owned(ins, v)
      <3>1. ASSUME NEW v, NEW x \in Txns, x \in Held(purchases, v)
            PROVE  x \in Held(ins, v) /\ ins[x] = purchases[x]
        <4>1. x # t
          BY <1>8, <3>1 DEF Held
        <4> QED BY <2>5, <3>1, <4>1 DEF Held
      <3>2. ASSUME NEW v PROVE Owned(purchases, v) \subseteq Owned(ins, v)
        BY <3>1, OwnsNoMore DEF Held
      <3> QED BY <3>2
    <2>11. ASSUME NEW v, v # u \/ job.status # "granted"
           PROVE  Owned(ins, v) \subseteq Owned(purchases, v)
      <3>1. ASSUME NEW x \in Txns, x \in Held(ins, v), ins[x].status = "granted"
            PROVE  x \in Held(purchases, v) /\ purchases[x] = ins[x]
        <4>1. x # t
          BY <2>3, <2>5, <2>11, <3>1 DEF Held
        <4> QED BY <2>5, <3>1, <4>1 DEF Held
      <3> QED BY <3>1, OwnsNoMore
    <2>12. OthersOwnNothing(ins, u) \/ overlapped'
      <3>1. ASSUME ~overlapped', NEW x \in Txns, ins[x] # None, ins[x].status = "pending",
                   ~ins[x].revoked, ins[x].user # u
            PROVE  Owned(ins, ins[x].user) = {}
        <4>1. x # t /\ ins[x] = purchases[x]
          BY <2>3, <2>5, <3>1
        <4>2. Owned(purchases, ins[x].user) = {}
          BY <1>5, <3>1, <4>1 DEF UnlocksInv, Serial, WaitersOwnNothing
        <4> QED BY <2>11, <3>1, <4>2
      <3> QED BY <3>1 DEF OthersOwnNothing
    <2>13. ASSUME ~overlapped'
           PROVE  job.status = Decide(Product[t], Owned(purchases, u))
      BY <1>1, <1>2, <1>5, <2>13 DEF UnlocksInv, Serial, Fresh
    <2>14. Owned(purchases, u) \in SUBSET Features
      BY <1>4, OwnedAreFeatures
    <2>15. ASSUME NEW qs, purchases' = qs, Advanced(ins, qs, u),
                  \A x \in Txns : qs[x] # None <=> ins[x] # None,
                  ~overlapped' => WaitersOwnNothing(qs)
           PROVE  Good
      <3>1. Table(qs) /\ Owned(ins, u) \subseteq Owned(qs, u)
        BY <2>15 DEF Advanced
      <3>2. \A x \in Txns : purchases[x] # None => ins[x] = purchases[x]
        BY <1>8, <2>5
      <3>3. RowsAdvance
        <4>1. ASSUME NEW x \in Txns, purchases[x] # None
              PROVE  /\ qs[x] # None
                     /\ purchases[x].status # "pending" =>
                          /\ qs[x].status = purchases[x].status
                          /\ qs[x].grants = purchases[x].grants
                     /\ purchases[x].revoked => qs[x].revoked
          <5>1. ins[x] = purchases[x]
            BY <3>2, <4>1
          <5> QED BY <2>15, <4>1, <5>1 DEF Advanced
        <4> QED BY <2>15, <4>1 DEF RowsAdvance
      <3>4. MovesAreAsked
        <4>1. \A x \in Txns : purchases[x] # None => qs[x].user = purchases[x].user
          BY <2>15, <3>2 DEF Advanced
        <4> QED BY <2>15, <4>1 DEF MovesAreAsked
      <3>5. ASSUME ~overlapped' PROVE Earned
        <4>1. ASSUME NEW x \in Txns, qs[x] # None, Product[x].requires # None,
                     purchases[x] = None \/ purchases[x].status # qs[x].status
              PROVE  /\ qs[x].status = "granted" => Product[x].requires \in Owned(qs, qs[x].user)
                     /\ qs[x].status = "refund_flagged" =>
                          Product[x].grants \subseteq Owned(qs, qs[x].user)
          <5>1. ins[x] # None
            BY <2>15, <4>1
          <5>2. CASE qs[x].status # ins[x].status
            <6>1. x \in Held(ins, u) /\ qs[x].user = u
              BY <2>15, <5>1, <5>2 DEF Advanced, Held
            <6> QED BY <2>15, <4>1, <5>1, <5>2, <6>1 DEF Advanced
          <5>3. CASE qs[x].status = ins[x].status
            <6>1. x = t
              BY <2>5, <4>1, <5>1, <5>3
            <6>2. qs[x].user = u /\ qs[x].status = job.status
              BY <2>3, <2>5, <2>15, <5>1, <5>3, <6>1 DEF Advanced
            <6>3. /\ job.status = "granted" => Product[t].requires \in Owned(purchases, u)
                  /\ job.status = "refund_flagged" => Product[t].grants \subseteq Owned(purchases, u)
              BY <1>2, <2>13, <2>14, <3>5, <4>1, <6>1, DecideRight
            <6>4. Owned(purchases, u) \subseteq Owned(qs, u)
              BY <2>10, <3>1
            <6> QED BY <6>1, <6>2, <6>3, <6>4
          <5> QED BY <5>2, <5>3
        <4> QED BY <2>15, <4>1 DEF Earned
      <3>6. recorded' \in Seq(Txns) /\ Range(recorded') = {x \in Txns : purchases'[x] # None}
            /\ IsInjective(recorded')
        BY <2>2, <2>7, <2>8, <2>9, <2>15
      <3>7. /\ Table(purchases') /\ \A x \in Txns : purchases[x] # None => purchases'[x] # None
            /\ Carries(Idle, purchases') /\ Fresh(Idle, purchases')
        BY <1>6, <2>15, <3>1, <3>2
      <3>8. UnlocksInv'
        <4>1. ~overlapped' => /\ \A v \in Workers \ {w} : work[v].pc = "idle"
                              /\ Fresh(Idle, purchases')
                              /\ WaitersOwnNothing(purchases')
          BY <1>5, <2>15, <3>7
        <4> QED BY <1>3, <1>4, <1>5, <3>6, <3>7, <4>1, StepKeeps
      <3> QED BY <3>3, <3>4, <3>5, <3>8 DEF Good
    <2>16. CASE job.status = "granted"
      <3>1. PICK qs : qs = ResolvePending(ins, u, order)
        OBVIOUS
      <3>2. /\ Advanced(ins, qs, u)
            /\ \A x \in Txns : qs[x] # None <=> ins[x] # None
            /\ OthersOwnNothing(ins, u) => WaitersOwnNothing(qs)
        BY <1>2, <2>6, <2>7, <2>8, <3>1, ResolveSettles
      <3>3. purchases' = qs
        BY <2>2, <2>16, <3>1
      <3>4. ~overlapped' => WaitersOwnNothing(qs)
        BY <2>12, <3>2
      <3> QED BY <2>15, <3>2, <3>3, <3>4
    <2>17. CASE job.status # "granted"
      <3>1. purchases' = ins
        BY <2>2, <2>17
      <3>2. Advanced(ins, ins, u)
        BY <2>6 DEF Advanced
      <3>3. ASSUME ~overlapped', NEW x \in Txns, ins[x] # None, ins[x].status = "pending",
                   ~ins[x].revoked
            PROVE  Owned(ins, ins[x].user) = {}
        <4>1. CASE ins[x].user # u
          BY <2>12, <3>3, <4>1 DEF OthersOwnNothing
        <4>2. CASE ins[x].user = u /\ x = t
          <5>1. Owned(purchases, u) = {}
            BY <1>2, <2>3, <2>5, <2>13, <2>14, <3>3, <4>2, DecideRight
          <5> QED BY <2>11, <2>17, <4>2, <5>1
        <4>3. CASE ins[x].user = u /\ x # t
          <5>1. Owned(purchases, u) = {}
            BY <1>5, <2>5, <3>3, <4>3 DEF UnlocksInv, Serial, WaitersOwnNothing
          <5> QED BY <2>11, <2>17, <4>3, <5>1
        <4> QED BY <4>1, <4>2, <4>3
      <3>4. ~overlapped' => WaitersOwnNothing(ins)
        BY <3>3 DEF WaitersOwnNothing
      <3> QED BY <2>15, <3>1, <3>2, <3>4
    <2> QED BY <2>16, <2>17
  <1> QED BY <1>7, <1>8

(* A purchase moves to the account that verified it.                         *)
LEMMA RecordMoveStep ==
    ASSUME UnlocksInv, NEW w \in Workers, RecordMove(w)
    PROVE  Good
  <1>1. PICK job, t, u : job = work[w] /\ t = job.txn /\ u = job.user
    OBVIOUS
  <1>2. /\ job \in Locals /\ job.pc = "move" /\ u \in Users /\ t \in Txns
        /\ purchases[t] # None /\ job.prev \in Users
        /\ job.source \in {"verify_receipt", "assn"}
    BY <1>1 DEF RecordMove, UnlocksInv, Shape, Carries
  <1>3. /\ work' = [work EXCEPT ![w] = Idle] /\ recorded' = recorded
        /\ active' = active /\ overlapped' = overlapped
    BY DEF RecordMove
  <1>4. /\ active' \in [Users -> BOOLEAN] /\ links \subseteq Users \X Users
        /\ Table(purchases) /\ recorded \in Seq(Txns)
        /\ Range(recorded) = {x \in Txns : purchases[x] # None} /\ IsInjective(recorded)
    BY <1>3 DEF UnlocksInv, Shape
  <1>5. /\ overlapped' \in BOOLEAN
        /\ ~overlapped' => ~overlapped /\ \A v \in Workers \ {w} : work[v].pc = "idle"
    BY <1>1, <1>2, <1>3, Alone
  <1>6. \A ps : Carries(Idle, ps) /\ Fresh(Idle, ps)
    BY DEF Idle, Locals, Carries, Fresh
  <1>7. CASE <<job.prev, job.user>> \in links
    <2>1. UNCHANGED <<purchases, recorded>> /\ links' = links
      BY <1>1, <1>3, <1>7 DEF RecordMove
    <2> QED BY <1>3, <1>4, <1>5, <1>6, <2>1, OnlyWork
  <1>8. CASE <<job.prev, job.user>> \notin links
    <2>1. PICK r, ps : /\ r = [purchases[t] EXCEPT !.user = u]
                       /\ ps = [purchases EXCEPT ![t] = r]
      OBVIOUS
    <2>2. /\ purchases[t] \in Row /\ r \in Row /\ r.user = u
          /\ r.status = purchases[t].status /\ r.grants = purchases[t].grants
          /\ r.revoked = purchases[t].revoked
      BY <1>2, <1>4, <2>1 DEF Table, Row
    <2>3. r # None
      BY <2>2, NoRow
    <2>4. ps \in [Txns -> Row \cup {None}] /\ ps[t] = r /\ \A x \in Txns \ {t} : ps[x] = purchases[x]
      BY <1>2, <1>4, <2>1, <2>2 DEF Table
    <2>5. Table(ps)
      BY <1>2, <1>4, <2>2, <2>4 DEF Table
    <2>6. /\ purchases' = ResolvePending(ps, u, recorded)
          /\ links' = links \cup {<<job.prev, u>>}
      BY <1>1, <1>8, <2>1 DEF RecordMove
    <2>7. \A x \in Txns :
            /\ ps[x] = None <=> purchases[x] = None
            /\ purchases[x] # None =>
                 /\ ps[x].status = purchases[x].status
                 /\ ps[x].grants = purchases[x].grants
                 /\ ps[x].revoked = purchases[x].revoked
                 /\ ps[x].user = purchases[x].user \/ ps[x].user = u
      BY <1>2, <2>2, <2>3, <2>4
    <2>8. /\ Table(purchases') /\ RowsAdvance /\ Earned
          /\ \A x \in Txns : (purchases'[x] # None <=> purchases[x] # None)
          /\ \A x \in Txns : purchases[x] # None => purchases'[x].user = ps[x].user
          /\ ~overlapped => WaitersOwnNothing(purchases')
      BY <1>2, <2>5, <2>6, <2>7, RowsMove
    <2>9. UnlocksInv'
      <3>1. links' \subseteq Users \X Users
        BY <1>2, <1>4, <2>6
      <3>2. recorded' \in Seq(Txns) /\ Range(recorded') = {x \in Txns : purchases'[x] # None}
            /\ IsInjective(recorded')
        BY <1>3, <1>4, <2>8
      <3>3. Carries(Idle, purchases') /\ Fresh(Idle, purchases')
        BY <1>6
      <3>4. ~overlapped' => /\ \A v \in Workers \ {w} : work[v].pc = "idle"
                            /\ Fresh(Idle, purchases')
                            /\ WaitersOwnNothing(purchases')
        BY <1>5, <2>8, <3>3
      <3>5. \A x \in Txns : purchases[x] # None => purchases'[x] # None
        BY <2>8
      <3> QED BY <1>3, <1>4, <1>5, <2>8, <3>1, <3>2, <3>3, <3>4, <3>5, StepKeeps
    <2>10. ASSUME ~overlapped' PROVE MovesAreAsked
      <3>1. Fresh(job, purchases)
        BY <1>1, <1>5, <2>10 DEF UnlocksInv, Serial
      <3>2. job.source = "verify_receipt"
        BY <1>2, <3>1 DEF Fresh
      <3>3. \A x \in Txns : purchases[x] # None /\ purchases'[x].user # purchases[x].user =>
              x = t /\ purchases'[x].user = u
        BY <2>2, <2>4, <2>8
      <3> QED BY <1>1, <3>2, <3>3 DEF MovesAreAsked
    <2> QED BY <2>8, <2>9, <2>10 DEF Good
  <1> QED BY <1>7, <1>8

(* Apple takes a purchase back.                                              *)
LEMMA RevokeStep ==
    ASSUME UnlocksInv, NEW w \in Workers, NEW t \in Txns, Revoke(w, t)
    PROVE  Good
  <1>1. PICK j : j = work[w]
    OBVIOUS
  <1>2. /\ work \in [Workers -> Locals] /\ work' = work /\ recorded' = recorded
        /\ active' = active /\ links' = links /\ Enter(w)
        /\ purchases' = IF purchases[t] = None THEN purchases
                        ELSE [purchases EXCEPT ![t].revoked = TRUE]
    BY DEF Revoke, UnlocksInv, Shape
  <1>3. /\ work' = [work EXCEPT ![w] = j] /\ j.pc = "idle"
        /\ active' \in [Users -> BOOLEAN] /\ links' \subseteq Users \X Users
        /\ Table(purchases) /\ recorded \in Seq(Txns)
        /\ Range(recorded) = {x \in Txns : purchases[x] # None} /\ IsInjective(recorded)
        /\ j \in Locals
    BY <1>1, <1>2 DEF UnlocksInv, Shape, Enter
  <1>4. /\ overlapped' \in BOOLEAN
        /\ ~overlapped' => ~overlapped /\ \A v \in Workers : work[v].pc = "idle"
    BY <1>2, Entered
  <1>5. \A ps : Carries(j, ps) /\ Fresh(j, ps)
    BY <1>3 DEF Carries, Fresh
  <1>6. CASE purchases[t] = None
    <2>1. UNCHANGED <<purchases, recorded>>
      BY <1>2, <1>6
    <2> QED BY <1>3, <1>4, <1>5, <2>1, OnlyWork
  <1>7. CASE purchases[t] # None
    <2>1. PICK r, ps : /\ r = [purchases[t] EXCEPT !.revoked = TRUE]
                       /\ ps = [purchases EXCEPT ![t] = r]
      OBVIOUS
    <2>2. /\ purchases[t] \in Row /\ r \in Row /\ r.user = purchases[t].user
          /\ r.status = purchases[t].status /\ r.grants = purchases[t].grants
          /\ r.revoked = TRUE
      BY <1>3, <1>7, <2>1 DEF Table, Row
    <2>3. r # None
      BY <2>2, NoRow
    <2>4. ps \in [Txns -> Row \cup {None}] /\ ps[t] = r /\ \A x \in Txns \ {t} : ps[x] = purchases[x]
      BY <1>3, <2>1, <2>2 DEF Table
    <2>5. Table(ps) /\ purchases' = ps
      BY <1>2, <1>3, <1>7, <2>1, <2>2, <2>4 DEF Table
    <2>6. \A x \in Txns :
            /\ ps[x] = None <=> purchases[x] = None
            /\ purchases[x] # None => /\ ps[x].user = purchases[x].user
                                      /\ ps[x].status = purchases[x].status
                                      /\ ps[x].grants = purchases[x].grants
                                      /\ purchases[x].revoked => ps[x].revoked
      <3>1. ASSUME NEW x \in Txns, x = t
            PROVE  ps[x] # None /\ purchases[x] # None /\ ps[x].user = purchases[x].user
                   /\ ps[x].status = purchases[x].status /\ ps[x].grants = purchases[x].grants
                   /\ ps[x].revoked
        BY <1>7, <2>2, <2>3, <2>4, <3>1
      <3> QED BY <2>4, <3>1, Zenon
    <2>7. \A v : Owned(ps, v) \subseteq Owned(purchases, v)
      <3>1. ASSUME NEW v, NEW x \in Txns, x \in Held(ps, v)
            PROVE  x \in Held(purchases, v) /\ ps[x] = purchases[x]
        <4>1. x # t
          BY <2>2, <2>4, <3>1 DEF Held
        <4> QED BY <2>4, <3>1, <4>1 DEF Held
      <3>2. ASSUME NEW v PROVE Owned(ps, v) \subseteq Owned(purchases, v)
        BY <3>1, OwnsNoMore
      <3> QED BY <3>2
    <2>8. ASSUME ~overlapped' PROVE WaitersOwnNothing(ps)
      <3>1. ASSUME NEW x \in Txns, ps[x] # None, ps[x].status = "pending", ~ps[x].revoked
            PROVE  Owned(ps, ps[x].user) = {}
        <4>1. x # t /\ ps[x] = purchases[x]
          BY <2>2, <2>4, <3>1
        <4>2. Owned(purchases, ps[x].user) = {}
          BY <1>4, <2>8, <3>1, <4>1 DEF UnlocksInv, Serial, WaitersOwnNothing
        <4> QED BY <2>7, <4>2
      <3> QED BY <3>1 DEF WaitersOwnNothing
    <2>9. RowsAdvance /\ Earned /\ MovesAreAsked
      <3>1. RowsAdvance
        BY <2>5, <2>6 DEF RowsAdvance
      <3>2. Earned /\ MovesAreAsked
        BY <2>5, <2>6 DEF Earned, MovesAreAsked
      <3> QED BY <3>1, <3>2
    <2>10. UnlocksInv'
      <3>1. /\ recorded' \in Seq(Txns) /\ IsInjective(recorded') /\ Table(purchases')
            /\ \A x \in Txns : (purchases'[x] # None <=> purchases[x] # None)
        BY <1>2, <1>3, <2>5, <2>6
      <3>0. Range(recorded') = {x \in Txns : purchases'[x] # None}
        BY <1>2, <1>3, <3>1
      <3>2. Carries(j, purchases') /\ Fresh(j, purchases')
        BY <1>5
      <3>3. ~overlapped' => /\ \A v \in Workers \ {w} : work[v].pc = "idle"
                            /\ Fresh(j, purchases')
                            /\ WaitersOwnNothing(purchases')
        BY <1>4, <2>5, <2>8, <3>2
      <3> QED BY <1>3, <1>4, <3>0, <3>1, <3>2, <3>3, StepKeeps
    <2> QED BY <2>9, <2>10 DEF Good
  <1> QED BY <1>6, <1>7

(* The anonymous account is merged and closed.                               *)
LEMMA MergeIntoStep ==
    ASSUME UnlocksInv, NEW w \in Workers, MergeInto(w)
    PROVE  Good
  <1>1. PICK j, moves, ps :
          /\ j = work[w]
          /\ moves = {t \in Txns : purchases[t] # None /\ purchases[t].user = Anonymous}
          /\ ps = [t \in Txns |-> IF t \in moves THEN [purchases[t] EXCEPT !.user = Apple]
                                                 ELSE purchases[t]]
    OBVIOUS
  <1>2. /\ work \in [Workers -> Locals] /\ work' = work /\ recorded' = recorded
        /\ links' = links \cup {<<Anonymous, Apple>>} /\ Enter(w)
        /\ active' = [active EXCEPT ![Anonymous] = FALSE] /\ active[Anonymous]
        /\ purchases' = IF moves = {} THEN purchases ELSE ResolvePending(ps, Apple, recorded)
    BY <1>1 DEF MergeInto, UnlocksInv, Shape
  <1>3. /\ work' = [work EXCEPT ![w] = j] /\ j.pc = "idle" /\ j \in Locals
        /\ Table(purchases) /\ recorded \in Seq(Txns)
        /\ Range(recorded) = {x \in Txns : purchases[x] # None} /\ IsInjective(recorded)
    BY <1>1, <1>2 DEF UnlocksInv, Shape, Enter
  <1>4. /\ overlapped' \in BOOLEAN
        /\ ~overlapped' => ~overlapped /\ \A v \in Workers : work[v].pc = "idle"
    BY <1>2, Entered
  <1>5. \A qs : Carries(j, qs) /\ Fresh(j, qs)
    BY <1>3 DEF Carries, Fresh
  <1>6. links' \subseteq Users \X Users
    BY <1>2, UnlocksAssumption DEF UnlocksInv, Shape
  <1>7. active \in [Users -> BOOLEAN] /\ Anonymous \in Users /\ Apple \in Users
    BY UnlocksAssumption DEF UnlocksInv, Shape
  <1>8. active' \in [Users -> BOOLEAN]
    BY <1>2, <1>7
  <1>9. active'[Anonymous] # active[Anonymous]
    BY <1>2, <1>7
  <1>10. CASE moves = {}
    <2>1. UNCHANGED <<purchases, recorded>>
      BY <1>2, <1>10
    <2> QED BY <1>3, <1>4, <1>5, <1>6, <1>8, <2>1, OnlyWork
  <1>11. CASE moves # {}
    <2>1. ASSUME NEW x \in Txns
          PROVE  /\ ps[x] \in Row \cup {None}
                 /\ ps[x] = None <=> purchases[x] = None
                 /\ purchases[x] # None =>
                      /\ ps[x].status = purchases[x].status
                      /\ ps[x].grants = purchases[x].grants
                      /\ ps[x].revoked = purchases[x].revoked
                      /\ ps[x].user = purchases[x].user \/ ps[x].user = Apple
      <3>1. CASE x \notin moves
        <4>1. ps[x] = purchases[x] /\ purchases[x] \in Row \cup {None}
          BY <1>1, <1>3, <3>1 DEF Table
        <4> QED BY <4>1
      <3>2. CASE x \in moves
        <4>1. PICK row, r : row = purchases[x] /\ r = [row EXCEPT !.user = Apple]
          OBVIOUS
        <4>2. row \in Row /\ row # None /\ ps[x] = r
          BY <1>1, <1>3, <3>2, <4>1 DEF Table
        <4>3. /\ r \in Row /\ r.user = Apple /\ r.status = row.status /\ r.grants = row.grants
              /\ r.revoked = row.revoked
          BY <1>7, <4>1, <4>2 DEF Row
        <4>4. r # None
          BY <4>3, NoRow
        <4> QED BY <4>1, <4>2, <4>3, <4>4
      <3> QED BY <3>1, <3>2
    <2>2. ps \in [Txns -> Row \cup {None}]
      <3>1. ps = [x \in Txns |-> ps[x]]
        BY <1>1
      <3> QED BY <2>1, <3>1
    <2>3. Table(ps)
      <3>1. ASSUME NEW x \in Txns, ps[x] # None
            PROVE  /\ ps[x].grants = GrantsOf(Product[x], ps[x].status)
                   /\ ps[x].status = "pending" => Product[x].requires # None
        <4>1. purchases[x] # None /\ ps[x].status = purchases[x].status
              /\ ps[x].grants = purchases[x].grants
          BY <2>1, <3>1
        <4> QED BY <1>3, <4>1 DEF Table
      <3> QED BY <2>2, <3>1 DEF Table
    <2>4. purchases' = ResolvePending(ps, Apple, recorded)
      BY <1>2, <1>11
    <2>5. /\ Table(purchases') /\ RowsAdvance /\ Earned
          /\ \A x \in Txns : (purchases'[x] # None <=> purchases[x] # None)
          /\ ~overlapped => WaitersOwnNothing(purchases')
      BY <1>7, <2>1, <2>3, <2>4, RowsMove
    <2>6. MovesAreAsked
      BY <1>9 DEF MovesAreAsked
    <2>7. UnlocksInv'
      <3>1. recorded' \in Seq(Txns) /\ Range(recorded') = {x \in Txns : purchases'[x] # None}
            /\ IsInjective(recorded')
            /\ \A x \in Txns : purchases[x] # None => purchases'[x] # None
        BY <1>2, <1>3, <2>5
      <3>2. Carries(j, purchases') /\ Fresh(j, purchases')
        BY <1>5
      <3>3. ~overlapped' => /\ \A v \in Workers \ {w} : work[v].pc = "idle"
                            /\ Fresh(j, purchases')
                            /\ WaitersOwnNothing(purchases')
        BY <1>4, <2>5, <3>2
      <3> QED BY <1>3, <1>4, <1>6, <1>8, <2>5, <3>1, <3>2, <3>3, StepKeeps
    <2> QED BY <2>5, <2>6, <2>7 DEF Good
  <1> QED BY <1>10, <1>11

LEMMA PlanRestoredStep ==
    ASSUME UnlocksInv, NEW w \in Workers, NEW from \in Users, NEW to \in Users,
           PlanRestored(w, from, to)
    PROVE  Good
  <1>1. PICK j : j = work[w]
    OBVIOUS
  <1>2. /\ work \in [Workers -> Locals] /\ work' = work /\ UNCHANGED <<purchases, recorded>>
        /\ active' = active /\ links' = links \cup {<<from, to>>} /\ Enter(w)
    BY DEF PlanRestored, UnlocksInv, Shape
  <1>3. /\ work' = [work EXCEPT ![w] = j] /\ j.pc = "idle" /\ j \in Locals
        /\ active' \in [Users -> BOOLEAN] /\ links' \subseteq Users \X Users
    BY <1>1, <1>2 DEF UnlocksInv, Shape, Enter
  <1>4. Carries(j, purchases) /\ Fresh(j, purchases)
    BY <1>3 DEF Carries, Fresh
  <1> QED BY <1>2, <1>3, <1>4, Entered, OnlyWork

LEMMA UnlocksStep ==
    ASSUME UnlocksInv, [Next]_vars
    PROVE  UnlocksInv' /\ (Good \/ UNCHANGED vars)
  <1>1. CASE Next
    <2>1. CASE \E w \in Workers, u \in Users, t \in Txns : VerifyReceipt(w, u, t)
      BY <2>1, VerifyReceiptStep DEF Good
    <2>2. CASE \E w \in Workers, t \in Txns : OneTimeCharge(w, t)
      BY <2>2, OneTimeChargeStep DEF Good
    <2>3. CASE \E w \in Workers : Step(w)
      BY <2>3, RecordSelectStep, RecordDecideStep, RecordInsertStep, RecordMoveStep
      DEF Good, Step
    <2>4. CASE \E w \in Workers, t \in Txns : Revoke(w, t)
      BY <2>4, RevokeStep DEF Good
    <2>5. CASE \E w \in Workers : MergeInto(w)
      BY <2>5, MergeIntoStep DEF Good
    <2>6. CASE \E w \in Workers, from, to \in Users : PlanRestored(w, from, to)
      BY <2>6, PlanRestoredStep DEF Good
    <2> QED BY <1>1, <2>1, <2>2, <2>3, <2>4, <2>5, <2>6 DEF Next
  <1>2. CASE UNCHANGED vars
    <2>1. UnlocksInv'
      BY <1>2 DEF vars, UnlocksInv, Shape, Serial, OneAtATime
    <2> QED BY <1>2, <2>1
  <1> QED BY <1>1, <1>2

-----------------------------------------------------------------------------
(* Theorems                                                                 *)

LEMMA UnlocksInvariant == Spec => []UnlocksInv
  BY UnlocksStart, UnlocksStep, PTL DEF Spec

(* The purchases table is typed, its order of recording names each row once, *)
(* and as long as requests do not overlap every upgrade that waits lacks its *)
(* pack: whatever the order of purchases, moves, refunds and the merge       *)
(* (services/unlocks.py, _decide and _resolve_pending).                      *)
THEOREM UpgradesAreSettled == Spec => []UnlocksSettled
  BY UnlocksInvariant, UnlocksImplies, PTL

(* While requests do not overlap, an upgrade is granted only to an account   *)
(* that owns its required pack, and flagged for a refund only for one that   *)
(* owns what it grants (_decide).                                            *)
THEOREM UpgradesAreEarned == Spec => UpgradeEarned
  <1>1. ASSUME UnlocksInv, [Next]_vars
        PROVE  [~overlapped' => Earned]_vars
    BY <1>1, UnlocksStep, Zenon DEF Good
  <1>2. UpgradeEarned <=> [][~overlapped' => Earned]_vars
    BY PTL DEF UpgradeEarned, Earned
  <1> QED BY <1>1, <1>2, UnlocksInvariant, PTL DEF Spec

(* Whatever overlaps, no purchase is lost, no decision taken back, no refund *)
(* undone; while requests do not overlap, only a client's own verification   *)
(* or the merge changes who owns a purchase (record, merge_into).            *)
THEOREM PurchasesAreKept == Spec => RowsKept
  <1>1. ASSUME UnlocksInv, [Next]_vars
        PROVE  [RowsAdvance]_vars /\ [~overlapped' => MovesAreAsked]_vars
    BY <1>1, UnlocksStep, Zenon DEF Good
  <1>2. RowsOnlyAdvance <=> [][RowsAdvance]_vars
    BY PTL DEF RowsOnlyAdvance, RowsAdvance
  <1>3. OnlyVerifierMoves <=> [][~overlapped' => MovesAreAsked]_vars
    BY PTL DEF OnlyVerifierMoves, MovesAreAsked
  <1> QED BY <1>1, <1>2, <1>3, UnlocksInvariant, PTL DEF Spec, RowsKept
=============================================================================

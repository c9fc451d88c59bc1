------------------------------- MODULE Unlocks -------------------------------
(***************************************************************************)
(* One-time unlock purchases: the `purchases` table, the client route that  *)
(* records a transaction, Apple's webhook that records or revokes one, and  *)
(* the merge that closes an anonymous account.                              *)
(*                                                                         *)
(* A pack is bought outright; an upgrade grants one pack to an account that *)
(* owns the other.  App Store cannot enforce that, so the server decides    *)
(* when the transaction arrives.  record() is three database visits (look   *)
(* the transaction up, read what the account owns, write) with awaits       *)
(* between them; each visit is one step here.  A handler occupies a worker   *)
(* for as long as it runs, so one worker means one request at a time.        *)
(***************************************************************************)
EXTENDS Integers, Sequences, FiniteSets, Functions

CONSTANTS
    Users,      \* accounts
    Anonymous,  \* the one of them that is an anonymous purchase account
    Apple,      \* the account it merges into
    Txns,       \* Apple transaction ids
    Product,    \* [Txns -> product spec]: what each transaction bought
    Token,      \* [Txns -> Users \cup {None}]: its appAccountToken
    Workers,    \* handler invocations that may overlap
    None

Features == {"unlock_apple_cloud", "unlock_byok"}

(* config/unlocks.yml *)
AppleCloudPack    == [grants |-> {"unlock_apple_cloud"}, requires |-> None]
ByokPack          == [grants |-> {"unlock_byok"}, requires |-> None]
Bundle            == [grants |-> Features, requires |-> None]
AppleCloudUpgrade == [grants |-> {"unlock_apple_cloud"}, requires |-> "unlock_byok"]
ByokUpgrade       == [grants |-> {"unlock_byok"}, requires |-> "unlock_apple_cloud"]
Products == {AppleCloudPack, ByokPack, Bundle, AppleCloudUpgrade, ByokUpgrade}

ASSUME UnlocksAssumption ==
    /\ Anonymous \in Users
    /\ Apple \in Users \ {Anonymous}
    /\ IsFiniteSet(Txns)
    /\ Product \in [Txns -> Products]
    /\ Token \in [Txns -> Users \cup {None}]
    /\ None \notin Users \cup Features \cup Txns

VARIABLES
    purchases,  \* [Txns -> a purchases row, or None]
    recorded,   \* transactions in recorded_at order
    active,     \* users.is_active
    links,      \* account_links: <<from, to>>, its primary key
    overlapped, \* history: two handlers have been in flight at once
    work        \* [Workers -> the handler's locals]

vars == <<purchases, recorded, active, links, overlapped, work>>

Statuses == {"granted", "pending", "refund_flagged"}

Row == [user : Users, status : Statuses, grants : SUBSET Features, revoked : BOOLEAN]

(* The absence of a row is no row.                                           *)
ASSUME NoRow == None \notin Row

Idle == [pc |-> "idle", user |-> None, txn |-> None, source |-> None,
         status |-> None, prev |-> None]

Init ==
    /\ purchases = [t \in Txns |-> None]
    /\ recorded = <<>>
    /\ active = [u \in Users |-> TRUE]
    /\ links = {}
    /\ overlapped = FALSE
    /\ work = [w \in Workers |-> Idle]

-----------------------------------------------------------------------------
(* Decisions, over a purchases table ps.                                    *)

Held(ps, u) == {t \in Txns : /\ ps[t] # None
                             /\ ps[t].user = u
                             /\ ~ps[t].revoked}

(* owned: the features of the granted, unrevoked rows.                       *)
Owned(ps, u) == UNION {ps[t].grants : t \in {x \in Held(ps, u) : ps[x].status = "granted"}}

(* Faulty variant: a status the table does not have.                        *)
DecideRefunded(spec, have) ==
    IF spec.grants \subseteq have THEN "refunded" ELSE "granted"

(* Faulty variant: the required pack is never asked for.                    *)
DecideUnchecked(spec, have) ==
    IF spec.grants \subseteq have THEN "refund_flagged" ELSE "granted"

(* _decide: the status of a product for an account that owns `have`.         *)
Decide(spec, have) ==
    IF spec.requires = None THEN "granted"
    ELSE IF spec.grants \subseteq have THEN "refund_flagged"
    ELSE IF spec.requires \notin have THEN "pending" ELSE "granted"

GrantsOf(spec, status) == IF status = "granted" THEN spec.grants ELSE {}

(* Faulty variant: settled rows are decided again too.                      *)
RedecideAll(ps, u, t) ==
    IF t \in Held(ps, u)
      THEN LET status == Decide(Product[t], Owned(ps, u)) IN
           [ps EXCEPT ![t].status = status,
                      ![t].grants = GrantsOf(Product[t], status)]
      ELSE ps

(* _resolve_pending, one row: a pending row of the account is decided again. *)
Redecide(ps, u, t) ==
    IF t \in Held(ps, u) /\ ps[t].status = "pending"
      THEN LET status == Decide(Product[t], Owned(ps, u)) IN
           [ps EXCEPT ![t].status = status,
                      ![t].grants = GrantsOf(Product[t], status)]
      ELSE ps

(* Faulty variant: a purchase settles nothing.                              *)
ResolveNothing(ps, u, order) == ps

(* _resolve_pending: re-decide the account's pending rows, oldest first,     *)
(* each against what it owns after the ones before it.                       *)
ResolvePending(ps, u, order) ==
    LET after[n \in 0..Len(order)] ==
          IF n = 0 THEN ps ELSE Redecide(after[n - 1], u, order[n])
    IN  after[Len(order)]

-----------------------------------------------------------------------------
(* The routes.                                                              *)

(* A handler begins on worker w.                                            *)
Enter(w) ==
    /\ work[w].pc = "idle"
    /\ overlapped' = (overlapped \/ \E v \in Workers : work[v].pc # "idle")

(* POST /verify-receipt with an unlock product: the caller's account was     *)
(* active when its token was checked.                                        *)
VerifyReceipt(w, u, t) ==
    /\ Enter(w)
    /\ active[u]
    /\ work' = [work EXCEPT ![w] = [Idle EXCEPT !.pc = "select", !.user = u, !.txn = t,
                                                !.source = "verify_receipt"]]
    /\ UNCHANGED <<purchases, recorded, active, links>>

(* Faulty variant: the token is asked before the purchases table.            *)
TokenFirst(t) == IF Token[t] # None \/ purchases[t] = None THEN Token[t] ELSE purchases[t].user

(* find_user: the row's owner, else the account the token names (closed or   *)
(* not), else nobody and the notification is skipped.                        *)
FindUser(t) == IF purchases[t] # None THEN purchases[t].user ELSE Token[t]

(* ONE_TIME_CHARGE, delivered any number of times.                           *)
OneTimeCharge(w, t) ==
    /\ Enter(w)
    /\ FindUser(t) # None
    /\ work' = [work EXCEPT ![w] = [Idle EXCEPT !.pc = "select", !.user = FindUser(t),
                                                !.txn = t, !.source = "assn"]]
    /\ UNCHANGED <<purchases, recorded, active, links>>

(* record: is the transaction known already, and whose is it?                *)
RecordSelect(w) ==
    LET job == work[w]
        row == purchases[job.txn] IN
    /\ job.pc = "select"
    /\ work' = [work EXCEPT ![w] =
         IF row = None            THEN [job EXCEPT !.pc = "decide"]
         ELSE IF row.user # job.user THEN [job EXCEPT !.pc = "move", !.prev = row.user]
         ELSE Idle]
    /\ UNCHANGED <<purchases, recorded, active, links, overlapped>>

(* record: what does the account own, and what does that make of it?         *)
RecordDecide(w) ==
    LET job == work[w] IN
    /\ job.pc = "decide"
    /\ work' = [work EXCEPT ![w] = [job EXCEPT
         !.pc = "insert", !.status = Decide(Product[job.txn], Owned(purchases, job.user))]]
    /\ UNCHANGED <<purchases, recorded, active, links, overlapped>>

(* record: the INSERT and, for a grant, the pending upgrades it settles, in  *)
(* one transaction.  The primary key refuses a transaction inserted since.   *)
RecordInsert(w) ==
    LET job == work[w]
        order == Append(recorded, job.txn)
        inserted == [purchases EXCEPT ![job.txn] =
                       [user |-> job.user, status |-> job.status,
                        grants |-> GrantsOf(Product[job.txn], job.status),
                        revoked |-> FALSE]] IN
    /\ job.pc = "insert"
    /\ IF purchases[job.txn] = None
         THEN /\ recorded' = order
              /\ purchases' = IF job.status = "granted"
                                THEN ResolvePending(inserted, job.user, order)
                                ELSE inserted
         ELSE UNCHANGED <<purchases, recorded>>
    /\ work' = [work EXCEPT ![w] = Idle]
    /\ UNCHANGED <<active, links, overlapped>>

(* record: a transaction verified by a different account moves to it.  The   *)
(* link row is a plain INSERT: a pair of accounts already linked fails the   *)
(* request and rolls the move back.                                          *)
RecordMove(w) ==
    LET job == work[w]
        link == <<job.prev, job.user>> IN
    /\ job.pc = "move"
    /\ IF link \in links
         THEN UNCHANGED <<purchases, links>>
         ELSE /\ purchases' = ResolvePending([purchases EXCEPT ![job.txn].user = job.user],
                                             job.user, recorded)
              /\ links' = links \cup {link}
    /\ work' = [work EXCEPT ![w] = Idle]
    /\ UNCHANGED <<recorded, active, overlapped>>

(* REFUND / REVOKE.  A transaction nobody recorded matches no row.           *)
Revoke(w, t) ==
    /\ Enter(w)
    /\ purchases' = IF purchases[t] = None THEN purchases
                    ELSE [purchases EXCEPT ![t].revoked = TRUE]
    /\ UNCHANGED <<recorded, active, links, work>>

(* merge_into: every purchase of the anonymous account moves, the pending    *)
(* ones are re-decided if any moved, and the account closes.                 *)
MergeInto(w) ==
    LET moves == {t \in Txns : purchases[t] # None /\ purchases[t].user = Anonymous}
        moved == [t \in Txns |-> IF t \in moves THEN [purchases[t] EXCEPT !.user = Apple]
                                                ELSE purchases[t]] IN
    /\ Enter(w)
    /\ active[Anonymous]
    /\ purchases' = IF moves = {} THEN purchases
                                  ELSE ResolvePending(moved, Apple, recorded)
    /\ active' = [active EXCEPT ![Anonymous] = FALSE]
    /\ links' = links \cup {<<Anonymous, Apple>>}
    /\ UNCHANGED <<recorded, work>>

(* move_plan: a subscription restored on another account links the two.      *)
PlanRestored(w, from, to) ==
    /\ Enter(w)
    /\ from # to
    /\ links' = links \cup {<<from, to>>}
    /\ UNCHANGED <<purchases, recorded, active, work>>

Step(w) ==
    \/ RecordSelect(w)
    \/ RecordDecide(w)
    \/ RecordInsert(w)
    \/ RecordMove(w)

Next ==
    \/ \E w \in Workers, u \in Users, t \in Txns : VerifyReceipt(w, u, t)
    \/ \E w \in Workers, t \in Txns : OneTimeCharge(w, t)
    \/ \E w \in Workers : Step(w)
    \/ \E w \in Workers, t \in Txns : Revoke(w, t)
    \/ \E w \in Workers : MergeInto(w)
    \/ \E w \in Workers, from, to \in Users : PlanRestored(w, from, to)

Spec == Init /\ [][Next]_vars

-----------------------------------------------------------------------------
(* Properties.                                                              *)

(* Rows, locals and the order of recording keep their types, and exactly the *)
(* rows that exist have been recorded, once each.                            *)
TypeOK ==
    /\ purchases \in [Txns -> Row \cup {None}]
    /\ recorded \in Seq(Txns)
    /\ Range(recorded) = {t \in Txns : purchases[t] # None}
    /\ IsInjective(recorded)
    /\ active \in [Users -> BOOLEAN]
    /\ links \subseteq Users \X Users
    /\ overlapped \in BOOLEAN
    /\ \A w \in Workers :
         /\ work[w].pc \in {"idle", "select", "decide", "insert", "move"}
         /\ work[w].pc # "idle" => work[w].user \in Users /\ work[w].txn \in Txns
         /\ work[w].pc = "insert" => work[w].status \in Statuses

(* "does not own the required pack -> pending; granted when it arrives": an  *)
(* upgrade stays pending only while the account lacks the pack it requires.  *)
NoStrandedUpgrade ==
    \A t \in Txns :
        purchases[t] # None /\ purchases[t].status = "pending" /\ ~purchases[t].revoked
            => Product[t].requires \notin Owned(purchases, purchases[t].user)

(* As long as requests do not overlap, whatever their order, every pending   *)
(* upgrade is settled by the arrival of its pack: by purchase, move or merge.*)
SettledInAnyOrder == ~overlapped => NoStrandedUpgrade

(* While requests do not overlap, an upgrade becomes granted only for an     *)
(* account that owns the required pack at that moment, and is flagged for a  *)
(* refund only for one that owns the granted pack.                           *)
UpgradeEarned ==
    [][~overlapped' => \A t \in Txns :
         /\ purchases'[t] # None
         /\ Product[t].requires # None
         /\ purchases[t] = None \/ purchases[t].status # purchases'[t].status
         => LET have == Owned(purchases', purchases'[t].user) IN
            /\ purchases'[t].status = "granted" => Product[t].requires \in have
            /\ purchases'[t].status = "refund_flagged" => Product[t].grants \subseteq have]_vars

(* Whatever overlaps, a recorded purchase is never lost, a decision is never *)
(* taken back and a refund is never undone.                                  *)
RowsOnlyAdvance ==
    [][\A t \in Txns : purchases[t] # None =>
         /\ purchases'[t] # None
         /\ purchases[t].status # "pending" =>
              /\ purchases'[t].status = purchases[t].status
              /\ purchases'[t].grants = purchases[t].grants
         /\ purchases[t].revoked => purchases'[t].revoked]_vars

(* "a re-post (Restore, launch reconciliation, the webhook after the client) *)
(* changes nothing, except that a transaction verified by a DIFFERENT        *)
(* account moves to it": while requests do not overlap, only a client's      *)
(* verification or the merge ever changes the owner of a purchase.           *)
OnlyVerifierMoves ==
    [][~overlapped' => \A t \in Txns :
         purchases[t] # None /\ purchases'[t].user # purchases[t].user
           => \/ active'[Anonymous] # active[Anonymous]
              \/ \E w \in Workers : /\ work[w].txn = t
                                    /\ work[w].source = "verify_receipt"
                                    /\ work[w].user = purchases'[t].user]_vars

(* The purchases table as the runs ask about it: typed and settled.          *)
UnlocksSettled == TypeOK /\ SettledInAnyOrder

(* A purchase is neither lost nor undone, and changes hands only when its    *)
(* buyer says so.                                                            *)
RowsKept == RowsOnlyAdvance /\ OnlyVerifierMoves
=============================================================================

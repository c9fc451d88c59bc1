---- MODULE MCEntitlement ----
(* Model-checking instances of Entitlement: what was bought, by which       *)
(* account, and which receipts the clients hold.                            *)
EXTENDS Entitlement, TLC

CONSTANTS o1, o2

PlusAndPro == (o1 :> "plus") @@ (o2 :> "pro")
BoughtByAnonymous == (o1 :> Anonymous) @@ (o2 :> AppleUser)

Signed(o) == [otid |-> o, tier |-> Plan[o], trial |-> FALSE, signed |-> TRUE]
Trial(o)  == [otid |-> o, tier |-> Plan[o], trial |-> TRUE, signed |-> TRUE]

Rejected(t) == [otid |-> None, tier |-> t, trial |-> FALSE, signed |-> FALSE]

SignedReceipts == {Signed(o) : o \in Otids}
SignedAndRejected == SignedReceipts \cup {Rejected("plus")}
SignedAndTrials == SignedReceipts \cup {Trial(o1)}

OnePerBranch == {"SUBSCRIBED", "EXPIRED", "REFUND", "DID_FAIL_TO_RENEW", "TEST"}
MainTypes == {"SUBSCRIBED", "EXPIRED"}
====

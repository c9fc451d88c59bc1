SPECIFICATION Spec
CONSTANTS
    Users = {anon, apple}
    Anonymous = anon
    Apple = apple
    Txns = {t1, t2, t3}
    Workers = {w1, w2}
    t1 = t1
    t2 = t2
    t3 = t3
    None = None
    Product <- BundleAndUpgrades
    Token <- TokensAnonymous
SYMMETRY Symmetry
INVARIANT UnlocksSettled
PROPERTY UpgradeEarned
PROPERTY RowsKept

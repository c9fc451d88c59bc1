--------------------------- MODULE MeteringProofs ---------------------------
(***************************************************************************)
(* Proofs about Metering, for any number of overlapping requests and any    *)
(* limits, costs and period.                                                *)
(***************************************************************************)
EXTENDS Metering, FiniteSetTheorems, TLAPS

-----------------------------------------------------------------------------
(* Arithmetic the provers need to be handed.                                *)

(* A larger count of possible charges is worth at least as much.             *)
LEMMA ProductMonotone ==
    ASSUME NEW a \in Nat, NEW b \in Nat, NEW c \in Nat, a <= b
    PROVE  c * a <= c * b
  BY SMT

(* roll_forward_past on a due date: a whole, positive number of months on.   *)
LEMMA RollForwardIsMonths ==
    ASSUME NEW date \in Nat, NEW t \in Nat, date <= t, Period \in Nat \ {0}
    PROVE  \E k \in Nat \ {0} : RollForwardPast(date, t) = date + k * Period
  <1> DEFINE k == (t - date) \div Period + 1
  <1>1. (t - date) \div Period \in Nat
    BY SMT
  <1>2. k \in Nat \ {0}
    BY <1>1
  <1> QED BY <1>2 DEF RollForwardPast

(* Whole months are a positive step and leave no remainder.                  *)
LEMMA MonthsAdvance ==
    ASSUME NEW date \in Nat, NEW k \in Nat \ {0}, NEW P \in Nat \ {0}
    PROVE  /\ date + k * P \in Nat
           /\ date + k * P > date
           /\ ((date + k * P) - date) % P = 0
  <1>1. k * P \in Nat /\ k * P > 0
    BY SMT
  <1>2. (date + k * P) - date = k * P
    BY <1>1
  <1>3. (k * P) % P = 0
    BY SMT
  <1> QED BY <1>1, <1>2, <1>3

-----------------------------------------------------------------------------
(* Type correctness.                                                        *)

(* A pending lazy reset holds a date that was due at its own `now`.          *)
PendingResetIsDue ==
    \A p \in Procs : pc[p] = "reset" => snap[p] \in Nat /\ snap[p] <= now[p]

TypeInv == TypeOK /\ PendingResetIsDue

(* A fresh process with an idle row is well typed.                           *)
LEMMA TypeInit == Init => TypeInv
  BY MeteringAssumption
  DEF Init, TypeInv, TypeOK, PendingResetIsDue, Procs, States, AllKinds

(* What record_cost can do to the row.                                       *)
LEMMA RecordCostEffect ==
    ASSUME NEW c \in 0 .. MaxCost, RecordCost(c), used \in Nat
    PROVE  /\ used' \in Nat
           /\ used <= used' /\ used' <= used + MaxCost
           /\ resetsAt' = resetsAt /\ lastReset' = lastReset
  BY MeteringAssumption DEF RecordCost

(* Every action of a request, the sweep or the world keeps the types, and a   *)
(* reset that is about to be written still holds a date that was due.         *)
LEMMA TypeStep == TypeInv /\ [Next]_vars => TypeInv'
  <1> SUFFICES ASSUME TypeInv, [Next]_vars PROVE TypeInv'
    OBVIOUS
  <1> USE MeteringAssumption DEF TypeInv, TypeOK, PendingResetIsDue, row, world
  <1>1. ASSUME NEW p \in Procs, ResetRead(p) PROVE TypeInv'
    BY <1>1 DEF ResetRead, AfterReset, Due, Procs, States
  <1>2. ASSUME NEW p \in Procs, ResetWrite(p) PROVE TypeInv'
    <2>1. resetsAt' \in Nat \cup {None} /\ used' \in Nat /\ lastReset' \in Nat
      <3>1. CASE resetsAt = snap[p]
        <4>1. snap[p] \in Nat /\ now[p] \in Nat /\ snap[p] <= now[p]
          BY <1>2 DEF ResetWrite
        <4>2. PICK k \in Nat \ {0} :
                RollForwardPast(snap[p], now[p]) = snap[p] + k * Period
          BY <4>1, RollForwardIsMonths
        <4>3. RollForwardPast(snap[p], now[p]) \in Nat
          BY <4>1, <4>2, MonthsAdvance
        <4> QED BY <1>2, <3>1, <4>3 DEF ResetWrite
      <3>2. CASE resetsAt # snap[p]
        BY <1>2, <3>2 DEF ResetWrite
      <3> QED BY <3>1, <3>2
    <2> QED BY <1>2, <2>1 DEF ResetWrite, AfterReset, Procs, States
  <1>3. CASE SweepSelect
    BY <1>3 DEF SweepSelect, Procs, States
  <1>4. ASSUME NEW r \in Requests, RequestStep(r) PROVE TypeInv'
    <2>1. ASSUME NEW k \in Kinds, Begin(r, k) PROVE TypeInv'
      BY <2>1 DEF Begin, Procs, States
    <2>2. CASE ResetRead(r)
      BY <1>1, <2>2 DEF Procs
    <2>3. CASE ResetWrite(r)
      BY <1>2, <2>3 DEF Procs
    <2>4. CASE ReadUsed(r)
      BY <2>4 DEF ReadUsed, Procs, States
    <2>5. CASE Refuse(r)
      BY <2>5 DEF Refuse, Return, Procs, States
    <2>6. CASE Cleanup(r)
      <3>1. used' \in Nat /\ resetsAt' = resetsAt /\ lastReset' = lastReset
        BY <2>6, RecordCostEffect DEF Cleanup
      <3> QED BY <2>6, <3>1 DEF Cleanup, Procs, States
    <2>7. ASSUME NEW e \in Estimates \cup {None}, Gate(r, e) PROVE TypeInv'
      <3>1. GateReads(r) \in Nat
        BY DEF GateReads
      <3> QED BY <2>7, <3>1 DEF Gate, Return, Procs, States
    <2>8. ASSUME NEW c \in 0 .. MaxCost, Subcall(r, c) PROVE TypeInv'
      <3>1. used' \in Nat /\ resetsAt' = resetsAt /\ lastReset' = lastReset
        BY <2>8, RecordCostEffect DEF Subcall
      <3> QED BY <2>8, <3>1 DEF Subcall, Procs, States
    <2>9. ASSUME NEW c \in 0 .. MaxCost, Answer(r, c) PROVE TypeInv'
      <3>1. used' \in Nat /\ resetsAt' = resetsAt /\ lastReset' = lastReset
        BY <2>9, RecordCostEffect DEF Answer
      <3> QED BY <2>9, <3>1 DEF Answer, Procs, States
    <2>10. CASE Finish(r)
      BY <2>10 DEF Finish, Return, Procs, States
    <2> QED BY <1>4, <2>1, <2>2, <2>3, <2>4, <2>5, <2>6, <2>7, <2>8, <2>9,
               <2>10 DEF RequestStep
  <1>5. ASSUME NEW expires \in 1 .. clock + Period, RenewSameTier(expires)
        PROVE TypeInv'
    BY <1>5 DEF RenewSameTier
  <1>6. CASE LoadPricing
    BY <1>6 DEF LoadPricing
  <1>7. CASE Tick
    BY <1>7 DEF Tick
  <1>8. CASE UNCHANGED vars
    BY <1>8 DEF vars
  <1>9. Sweeper \in Procs
    BY DEF Procs
  <1> QED BY <1>1, <1>2, <1>3, <1>4, <1>5, <1>6, <1>7, <1>8, <1>9
          DEF Next, SweepStep

(* The columns and every handler's locals keep their types under any         *)
(* interleaving; in particular a reset never writes a malformed date.        *)
THEOREM TypeCorrect == Spec => []TypeOK
  <1>1. TypeInv => TypeOK
    BY DEF TypeInv
  <1> QED BY TypeInit, TypeStep, <1>1, PTL DEF Spec

-----------------------------------------------------------------------------
(* The overspend bound.                                                     *)

(* The charges an admitted turn can still make.  Index i < MaxSubcalls is    *)
(* the i-th sub-call, index MaxSubcalls the main call.  A chat that read a   *)
(* meter below the limit counts already, before its gate.                    *)
Pending ==
    {t \in Requests \X (0 .. MaxSubcalls) :
        LET r == t[1]
            i == t[2] IN
        \/ /\ pc[r] \in {"cleanup", "gate"}
           /\ kind[r] = "chat"
           /\ seen[r] < TierLimit
        \/ pc[r] = "call" /\ charged[r] <= i
        \/ pc[r] = "tail" /\ charged[r] <= i /\ i < MaxSubcalls}

AllCharges == Cardinality(Requests) * (MaxSubcalls + 1)

(* Once the limit is reached no charge can become pending, so what has been  *)
(* spent plus what is still pending never grows.                             *)
SpendInv ==
    EveryCallGated /\ used >= TierLimit
        => used + MaxCost * Cardinality(Pending) <= TierLimit + MaxCost * AllCharges

(* All the charges the overlapping requests could make are finitely many.     *)
LEMMA ChargesFinite ==
    /\ IsFiniteSet(Requests \X (0 .. MaxSubcalls))
    /\ Cardinality(Requests \X (0 .. MaxSubcalls)) = AllCharges
    /\ AllCharges \in Nat
  <1>1. IsFiniteSet(0 .. MaxSubcalls) /\ Cardinality(0 .. MaxSubcalls) = MaxSubcalls + 1
    BY FS_Interval, MeteringAssumption
  <1>2. /\ IsFiniteSet(Requests \X (0 .. MaxSubcalls))
        /\ Cardinality(Requests \X (0 .. MaxSubcalls)) = AllCharges
    BY <1>1, FS_Product, MeteringAssumption DEF AllCharges
  <1> QED BY <1>2, FS_CardinalityType

(* So are the ones still open.                                               *)
LEMMA PendingFinite ==
    /\ IsFiniteSet(Pending)
    /\ Cardinality(Pending) \in Nat
    /\ Cardinality(Pending) <= AllCharges
    /\ AllCharges \in Nat
  <1>1. Pending \subseteq Requests \X (0 .. MaxSubcalls)
    BY DEF Pending
  <1> QED BY <1>1, ChargesFinite, FS_Subset, FS_CardinalityType

(* A step that leaves the meter alone and admits nothing keeps the invariant.*)
LEMMA SpendKept ==
    ASSUME SpendInv, used \in Nat, used' = used, Pending' \subseteq Pending
    PROVE  SpendInv'
  <1>1. Cardinality(Pending') <= Cardinality(Pending) /\ Cardinality(Pending') \in Nat
    BY PendingFinite, FS_Subset, FS_CardinalityType
  <1>2. MaxCost * Cardinality(Pending') <= MaxCost * Cardinality(Pending)
    BY <1>1, PendingFinite, ProductMonotone, MeteringAssumption
  <1>3. Cardinality(Pending)' = Cardinality(Pending')
    OBVIOUS
  <1>4. /\ MaxCost * Cardinality(Pending') \in Nat
        /\ MaxCost * Cardinality(Pending) \in Nat
        /\ MaxCost * AllCharges \in Nat
    BY <1>1, PendingFinite, MeteringAssumption
  <1> QED BY <1>2, <1>3, <1>4, MeteringAssumption
          DEF SpendInv, AllCharges, EveryCallGated, Unlimited

(* A charge uses up one pending index, so the sum keeps its bound.           *)
LEMMA SpendCharged ==
    ASSUME SpendInv, used \in Nat, used' \in Nat, used' <= used + MaxCost,
           NEW t \in Pending, Pending' \subseteq Pending \ {t}
    PROVE  SpendInv'
  <1> DEFINE n == Cardinality(Pending)
             m == Cardinality(Pending')
  <1>1. IsFiniteSet(Pending \ {t}) /\ Cardinality(Pending \ {t}) = n - 1
    BY PendingFinite, FS_RemoveElement
  <1>2. m \in Nat /\ m <= n - 1
    BY <1>1, FS_Subset, FS_CardinalityType
  <1>3. n \in Nat /\ n <= AllCharges /\ AllCharges \in Nat
    BY PendingFinite
  <1>4. m + 1 \in Nat /\ m + 1 <= n /\ m + 1 <= AllCharges
    BY <1>2, <1>3
  <1>5. /\ MaxCost * (m + 1) <= MaxCost * n
        /\ MaxCost * (m + 1) <= MaxCost * AllCharges
    BY <1>3, <1>4, ProductMonotone, MeteringAssumption
  <1>6. MaxCost * (m + 1) = MaxCost * m + MaxCost
    BY <1>2, MeteringAssumption
  <1>7. MaxCost * m \in Nat /\ MaxCost * n \in Nat /\ MaxCost * AllCharges \in Nat
    BY <1>2, <1>3, MeteringAssumption
  <1>8. ASSUME EveryCallGated, used' >= TierLimit
        PROVE  used' + MaxCost * m <= TierLimit + MaxCost * AllCharges
    <2>1. TierLimit \in Nat
      BY <1>8, MeteringAssumption DEF EveryCallGated
    <2>2. CASE used >= TierLimit
      <3>1. used + MaxCost * n <= TierLimit + MaxCost * AllCharges
        BY <1>8, <2>2 DEF SpendInv
      <3> HIDE DEF n, m
      <3> QED BY <1>5, <1>6, <1>7, <2>1, <3>1, MeteringAssumption
    <2>3. CASE used < TierLimit
      <3> HIDE DEF n, m
      <3> QED BY <1>5, <1>6, <1>7, <2>1, <2>3, MeteringAssumption
    <2> QED BY <2>1, <2>2, <2>3
  <1> QED BY <1>8 DEF SpendInv, AllCharges, EveryCallGated

(* At or below the limit the bound holds whatever is pending.                *)
LEMMA SpendLow ==
    ASSUME used' \in Nat, TierLimit \in Nat, used' <= TierLimit
    PROVE  SpendInv'
  <1>1. Pending' \subseteq Requests \X (0 .. MaxSubcalls)
    BY DEF Pending
  <1>4. Cardinality(Pending') <= AllCharges /\ Cardinality(Pending') \in Nat
    BY <1>1, ChargesFinite, FS_Subset, FS_CardinalityType
  <1>5. MaxCost * Cardinality(Pending') <= MaxCost * AllCharges
    BY <1>4, PendingFinite, ProductMonotone, MeteringAssumption
  <1>6. MaxCost * Cardinality(Pending') \in Nat /\ MaxCost * AllCharges \in Nat
    BY <1>4, PendingFinite, MeteringAssumption
  <1>7. used' + MaxCost * Cardinality(Pending') <= TierLimit + MaxCost * AllCharges
    BY <1>5, <1>6
  <1> QED BY <1>7 DEF SpendInv, AllCharges, EveryCallGated

(* An unused meter satisfies the spending invariant.                          *)
LEMMA SpendInit == Init => SpendInv
  <1> SUFFICES ASSUME Init, EveryCallGated, used >= TierLimit
               PROVE  used + MaxCost * Cardinality(Pending)
                        <= TierLimit + MaxCost * AllCharges
    BY DEF SpendInv
  <1>1. Pending = {}
    BY DEF Init, Pending, Procs
  <1>2. Cardinality(Pending) = 0
    BY <1>1, FS_EmptySet
  <1>3. MaxCost * AllCharges \in Nat
    BY PendingFinite, MeteringAssumption
  <1> QED BY <1>2, <1>3, MeteringAssumption DEF Init, EveryCallGated

(* Every action keeps it: an admission happens below the limit, a charge uses *)
(* up a pending index, a reset or a renewal brings the meter to zero.         *)
LEMMA SpendStep == TypeInv /\ SpendInv /\ [Next]_vars => SpendInv'
  <1> SUFFICES ASSUME TypeInv, SpendInv, [Next]_vars, EveryCallGated
               PROVE  SpendInv'
    BY DEF SpendInv, EveryCallGated
  <1> USE DEF TypeInv, TypeOK
  <1>a. TierLimit \in Nat /\ TierLimit # Unlimited
    BY MeteringAssumption DEF EveryCallGated
  <1>b. /\ \A r \in Requests : r \in Procs
        /\ Sweeper \in Procs /\ Sweeper \notin Requests
    BY MeteringAssumption DEF Procs
  <1>1. ASSUME NEW p \in Procs, ResetRead(p) PROVE SpendInv'
    <2>1. Pending' \subseteq Pending
      BY <1>1, <1>a, <1>b DEF ResetRead, AfterReset, Pending
    <2> QED BY <1>1, <2>1, SpendKept DEF ResetRead, row
  <1>2. ASSUME NEW p \in Procs, ResetWrite(p) PROVE SpendInv'
    <2>1. Pending' \subseteq Pending
      BY <1>2, <1>b DEF ResetWrite, AfterReset, Pending
    <2>2. used' = used \/ used' = 0
      BY <1>2 DEF ResetWrite, row
    <2> QED BY <1>a, <2>1, <2>2, SpendKept, SpendLow
  <1>3. CASE SweepSelect
    <2>1. Pending' \subseteq Pending
      BY <1>3, <1>b DEF SweepSelect, Pending
    <2> QED BY <1>3, <2>1, SpendKept DEF SweepSelect, row
  <1>4. ASSUME NEW r \in Requests, RequestStep(r) PROVE SpendInv'
    <2>1. ASSUME NEW k \in Kinds, Begin(r, k) PROVE SpendInv'
      <3>1. CASE k = "translation" \/ k # "translation"
        <4>1. Pending' \subseteq Pending
          BY <2>1, <1>b DEF Begin, Pending
        <4> QED BY <2>1, <4>1, SpendKept DEF Begin, row
      <3> QED BY <3>1
    <2>2. CASE ResetRead(r)
      BY <1>1, <1>b, <2>2
    <2>3. CASE ResetWrite(r)
      BY <1>2, <1>b, <2>3
    <2>4. CASE ReadUsed(r)
      <3>1. used' = used
        BY <2>4 DEF ReadUsed, row
      <3>2. CASE used >= TierLimit
        <4>1. Pending' \subseteq Pending
          BY <2>4, <1>a, <1>b, <3>2 DEF ReadUsed, Pending
        <4> QED BY <3>1, <4>1, SpendKept
      <3> QED BY <1>a, <3>1, <3>2, SpendLow
    <2>5. CASE Refuse(r)
      <3>1. Pending' \subseteq Pending
        BY <2>5, <1>b DEF Refuse, Return, Pending
      <3> QED BY <2>5, <3>1, SpendKept DEF Refuse, row
    <2>6. CASE Cleanup(r)
      <3>1. used' = used
        BY <2>6 DEF Cleanup, row, EveryCallGated
      <3>2. Pending' \subseteq Pending
        BY <2>6, <1>b DEF Cleanup, Pending
      <3> QED BY <3>1, <3>2, SpendKept
    <2>7. ASSUME NEW e \in Estimates \cup {None}, Gate(r, e) PROVE SpendInv'
      <3>1. used' = used
        BY <2>7 DEF Gate, row
      <3>2. CASE pc'[r] = "idle"
        <4>1. Pending' \subseteq Pending
          BY <2>7, <1>b, <3>2 DEF Gate, Return, Pending
        <4> QED BY <3>1, <4>1, SpendKept
      <3>3. CASE pc'[r] = "call" /\ used >= TierLimit
        <4>1. LimitFor(kind[r]) \in {0, TierLimit} /\ LimitFor(kind[r]) # Unlimited
          BY <1>a DEF LimitFor, EffectiveMonthlyLimit, EveryCallGated, AllKinds,
                      Unlimited
        <4>2. ~AlreadyExhausted(GateReads(r), LimitFor(kind[r]))
          BY <2>7, <1>b, <3>3 DEF Gate, Return
        <4>3. GateReads(r) < TierLimit
          BY <1>a, <4>1, <4>2 DEF AlreadyExhausted, GateReads
        <4>4. kind[r] = "chat" /\ seen[r] < TierLimit
          BY <1>a, <3>3, <4>1, <4>3 DEF GateReads
        <4>5. Pending' \subseteq Pending
          BY <2>7, <1>b, <3>3, <4>4 DEF Gate, Return, Pending
        <4> QED BY <3>1, <4>5, SpendKept
      <3>4. pc'[r] \in {"idle", "call"}
        BY <2>7, <1>b DEF Gate, Return
      <3> QED BY <1>a, <3>1, <3>2, <3>3, <3>4, SpendLow
    <2>8. ASSUME NEW c \in 0 .. MaxCost, Subcall(r, c) PROVE SpendInv'
      <3> DEFINE t == <<r, charged[r]>>
      <3>1. used' \in Nat /\ used' <= used + MaxCost
        BY <2>8, RecordCostEffect DEF Subcall
      <3>2. t \in Pending
        BY <2>8, MeteringAssumption DEF Subcall, Pending
      <3>3. Pending' \subseteq Pending \ {t}
        BY <2>8, <1>b, MeteringAssumption DEF Subcall, Pending
      <3> QED BY <3>1, <3>2, <3>3, SpendCharged
    <2>9. ASSUME NEW c \in 0 .. MaxCost, Answer(r, c) PROVE SpendInv'
      <3> DEFINE t == <<r, MaxSubcalls>>
      <3>1. used' \in Nat /\ used' <= used + MaxCost
        BY <2>9, RecordCostEffect DEF Answer
      <3>2. t \in Pending
        BY <2>9, MeteringAssumption DEF Answer, Pending
      <3>3. Pending' \subseteq Pending \ {t}
        BY <2>9, <1>b, MeteringAssumption DEF Answer, Pending
      <3> QED BY <3>1, <3>2, <3>3, SpendCharged
    <2>10. CASE Finish(r)
      <3>1. Pending' \subseteq Pending
        BY <2>10, <1>b DEF Finish, Return, Pending
      <3> QED BY <2>10, <3>1, SpendKept DEF Finish, row
    <2> QED BY <1>4, <2>1, <2>2, <2>3, <2>4, <2>5, <2>6, <2>7, <2>8, <2>9,
               <2>10 DEF RequestStep
  <1>5. ASSUME NEW expires \in 1 .. clock + Period, RenewSameTier(expires)
        PROVE SpendInv'
    BY <1>a, <1>5, SpendLow DEF RenewSameTier
  <1>6. CASE LoadPricing
    <2>1. Pending' \subseteq Pending
      BY <1>6 DEF LoadPricing, Pending
    <2> QED BY <1>6, <2>1, SpendKept DEF LoadPricing, row
  <1>7. CASE Tick
    <2>1. Pending' \subseteq Pending
      BY <1>7 DEF Tick, Pending
    <2> QED BY <1>7, <2>1, SpendKept DEF Tick, row
  <1>8. CASE UNCHANGED vars
    <2>1. Pending' \subseteq Pending
      BY <1>8 DEF vars, Pending
    <2> QED BY <1>8, <2>1, SpendKept DEF vars
  <1> QED BY <1>b, <1>1, <1>2, <1>3, <1>4, <1>5, <1>6, <1>7, <1>8
          DEF Next, SweepStep

(* However many requests of one account overlap, its meter never passes the  *)
(* limit by more than one full turn per request.                             *)
THEOREM OverspendIsBounded == Spec => []OverspendBounded
  <1>1. TypeInv /\ SpendInv => OverspendBounded
    <2> SUFFICES ASSUME TypeInv, SpendInv, EveryCallGated
                 PROVE  used <= TierLimit
                          + Cardinality(Requests) * (MaxSubcalls + 1) * MaxCost
      BY DEF OverspendBounded
    <2>1. TierLimit \in Nat /\ used \in Nat
      BY MeteringAssumption DEF EveryCallGated, TypeInv, TypeOK
    <2>2. MaxCost * Cardinality(Pending) \in Nat /\ MaxCost * AllCharges \in Nat
      BY PendingFinite, MeteringAssumption
    <2>3. used <= TierLimit + MaxCost * AllCharges
      BY <2>1, <2>2 DEF SpendInv
    <2>4. MaxCost * AllCharges = AllCharges * MaxCost
      BY PendingFinite, MeteringAssumption
    <2> QED BY <2>3, <2>4 DEF AllCharges
  <1> QED BY TypeInit, TypeStep, SpendInit, SpendStep, <1>1, PTL DEF Spec

-----------------------------------------------------------------------------
(* Resets.                                                                  *)

(* Only a renewal or the one request (or sweep) whose guarded UPDATE still   *)
(* matches can lower the meter, and the latter moves the date on by whole    *)
(* months: no interleaving grants one period twice.                          *)
THEOREM ResetsOncePerPeriod == Spec => ResetOncePerPeriod
  <1>1. ASSUME TypeInv, [Next]_vars, used' < used, renewals' = renewals
        PROVE  /\ resetsAt' > resetsAt
               /\ (resetsAt' - resetsAt) % Period = 0
    <2> USE <1>1 DEF TypeInv, TypeOK, row, world
    <2>1. ASSUME NEW c \in 0 .. MaxCost, RecordCost(c) PROVE FALSE
      BY <2>1, RecordCostEffect
    <2>2. \E p \in Procs : ResetWrite(p) /\ resetsAt = snap[p]
      BY <2>1 DEF Next, SweepStep, RequestStep, SweepSelect, ResetRead, ResetWrite,
         Begin, ReadUsed, Refuse, Cleanup, Gate, Return, Subcall, Answer, Finish,
         RenewSameTier, LoadPricing, Tick, vars, Procs
    <2>3. PICK p \in Procs : ResetWrite(p) /\ resetsAt = snap[p]
      BY <2>2
    <2>4. snap[p] \in Nat /\ now[p] \in Nat /\ snap[p] <= now[p]
      BY <2>3 DEF ResetWrite, PendingResetIsDue
    <2>5. PICK k \in Nat \ {0} :
            RollForwardPast(snap[p], now[p]) = snap[p] + k * Period
      BY <2>4, RollForwardIsMonths, MeteringAssumption
    <2>6. resetsAt' = resetsAt + k * Period
      BY <2>3, <2>5 DEF ResetWrite
    <2> QED BY <2>3, <2>4, <2>6, MonthsAdvance, MeteringAssumption
  <1>2. TypeInv /\ [Next]_vars
          => [used' < used /\ renewals' = renewals
                => /\ resetsAt' > resetsAt
                   /\ (resetsAt' - resetsAt) % Period = 0]_vars
    BY <1>1
  <1> QED BY TypeInit, TypeStep, <1>2, PTL DEF Spec, ResetOncePerPeriod

-----------------------------------------------------------------------------
(* One call at a time.                                                      *)

(* The account's calls never overlap, and the estimates its gates judge are  *)
(* upper bounds: prices are loaded, no translation, no sub-call.             *)
OneCallAtATime ==
    /\ \A r, s \in Requests : r = s
    /\ EveryCallGated
    /\ "translation" \notin Kinds
    /\ BootPricing \subseteq {TRUE}
    /\ Slack = 0
    /\ MaxSubcalls = 0

(* Nothing is spent between what a gate judged and the end of its call.      *)
BandInv ==
    /\ priced
    /\ used <= TierLimit + Tolerance
    /\ \A r \in Requests :
         /\ kind[r] # "translation"
         /\ pc[r] = "cleanup" => kind[r] = "report"
         /\ pc[r] = "gate" /\ kind[r] = "chat" => used <= seen[r]
         /\ pc[r] = "call" => est[r] # None /\ used + est[r] <= TierLimit + Tolerance

LEMMA BandStart == OneCallAtATime /\ Init => BandInv
  <1> SUFFICES ASSUME OneCallAtATime, Init PROVE BandInv
    OBVIOUS
  <1>1. priced
    BY Zenon DEF Init, OneCallAtATime
  <1>2. TierLimit \in Nat /\ Tolerance \in Nat
    BY MeteringAssumption DEF OneCallAtATime, EveryCallGated
  <1> QED BY <1>1, <1>2 DEF Init, BandInv, Procs

(* A gate that lets a call through judged at least what is used now.         *)
LEMMA GateKeepsBand ==
    ASSUME OneCallAtATime, TypeInv, BandInv, NEW r \in Requests,
           NEW e \in Estimates \cup {None}, Gate(r, e)
    PROVE  BandInv'
  <1> DEFINE limit == LimitFor(kind[r])
             u == GateReads(r)
  <1>1. TierLimit \in Nat /\ Tolerance \in Nat /\ Estimates \subseteq Nat /\ None \notin Int
    BY MeteringAssumption DEF OneCallAtATime, EveryCallGated
  <1>2. /\ used \in Nat /\ seen \in [Requests -> Nat] /\ kind \in [Requests -> AllKinds]
        /\ pc \in [Procs -> States] /\ est \in [Requests -> Nat \cup {None}]
    BY DEF TypeInv, TypeOK
  <1>3. r \in Procs /\ kind[r] \in {"chat", "report"}
    BY <1>2 DEF Procs, BandInv, AllKinds
  <1>4. used' = used /\ kind' = kind /\ pc[r] = "gate"
    BY DEF Gate, row, Return
  <1>5. priced' /\ priced
    BY Zenon DEF Gate, world, BandInv
  <1>6. limit \in 0 .. TierLimit /\ limit # Unlimited
    BY <1>1, <1>3 DEF LimitFor, EffectiveMonthlyLimit, OneCallAtATime, EveryCallGated, Unlimited
  <1>7. u \in Nat /\ used <= u
    BY <1>2, <1>3, <1>4, <1>6 DEF GateReads, BandInv
  <1>8. e \in Nat
    <2>1. e \in GateEstimates(r)
      BY DEF Gate
    <2>2. GateEstimates(r) = Estimates
      BY <1>3, <1>5 DEF GateEstimates
    <2> QED BY <1>1, <2>1, <2>2
  <1>9. CASE pc' = [pc EXCEPT ![r] = "idle"]
    <2>1. est' = [est EXCEPT ![r] = None] /\ \A s \in Requests : s = r
      BY <1>1, <1>2, <1>3, <1>9, <1>4 DEF Gate, Return, OneCallAtATime
    <2>2. \A s \in Requests : pc'[s] = "idle"
      BY <1>2, <1>3, <1>9, <2>1
    <2> QED BY <1>4, <1>5, <2>2 DEF BandInv
  <1>10. CASE pc' # [pc EXCEPT ![r] = "idle"]
    <2>1. /\ ~AlreadyExhausted(u, limit) /\ ~WouldExceedBudget(u, e, limit)
          /\ pc' = [pc EXCEPT ![r] = "call"] /\ est' = [est EXCEPT ![r] = e]
      BY <1>10 DEF Gate, Return
    <2>2. u + e <= limit + Tolerance
      BY <1>1, <1>6, <1>7, <1>8, <2>1 DEF WouldExceedBudget
    <2> HIDE DEF u, limit
    <2>3. used + e <= TierLimit + Tolerance
      BY <1>1, <1>2, <1>6, <1>7, <1>8, <2>2
    <2>4. \A s \in Requests : s = r
      BY DEF OneCallAtATime
    <2>5. \A s \in Requests : pc'[s] = "call" /\ est'[s] = e
      BY <1>2, <1>3, <2>1, <2>4
    <2> QED BY <1>1, <1>4, <1>5, <1>8, <2>3, <2>5 DEF BandInv
  <1> QED BY <1>9, <1>10

(* A step that spends nothing and admits nobody keeps the band.              *)
LEMMA BandKept ==
    ASSUME BandInv, TypeInv, OneCallAtATime, used' \in Nat, used' <= used, priced',
           \A r \in Requests :
             /\ kind'[r] # "translation"
             /\ pc'[r] = "gate" /\ kind'[r] = "chat" =>
                  used' <= seen'[r] \/ (pc[r] = "gate" /\ kind[r] = "chat" /\ seen'[r] = seen[r])
             /\ pc'[r] = "call" => pc[r] = "call" /\ est'[r] = est[r]
             /\ pc'[r] = "cleanup" => \/ kind'[r] = "report"
                                      \/ pc[r] = "cleanup" /\ kind'[r] = kind[r]
    PROVE  BandInv'
  <1>1. /\ TierLimit \in Nat /\ Tolerance \in Nat /\ used \in Nat
        /\ seen \in [Requests -> Nat] /\ est \in [Requests -> Nat \cup {None}]
    BY MeteringAssumption DEF OneCallAtATime, EveryCallGated, TypeInv, TypeOK
  <1>2. used' <= TierLimit + Tolerance
    BY <1>1 DEF BandInv
  <1>3. ASSUME NEW r \in Requests
        PROVE  /\ kind'[r] # "translation"
               /\ pc'[r] = "cleanup" => kind'[r] = "report"
               /\ pc'[r] = "gate" /\ kind'[r] = "chat" => used' <= seen'[r]
               /\ pc'[r] = "call" => est'[r] # None /\ used' + est'[r] <= TierLimit + Tolerance
    <2>1. pc'[r] = "gate" /\ kind'[r] = "chat" => used' <= seen'[r]
      BY <1>1 DEF BandInv
    <2>2. pc'[r] = "call" => est'[r] # None /\ used' + est'[r] <= TierLimit + Tolerance
      BY <1>1 DEF BandInv
    <2>3. pc'[r] = "cleanup" => kind'[r] = "report"
      BY DEF BandInv
    <2> QED BY <2>1, <2>2, <2>3
  <1> QED BY <1>2, <1>3 DEF BandInv

LEMMA BandStep ==
    OneCallAtATime /\ TypeInv /\ BandInv /\ [Next]_vars => BandInv'
  <1> SUFFICES ASSUME OneCallAtATime, TypeInv, BandInv, [Next]_vars PROVE BandInv'
    OBVIOUS
  <1>a. /\ TierLimit \in Nat /\ TierLimit # Unlimited /\ Tolerance \in Nat
        /\ Slack = 0 /\ MaxSubcalls = 0 /\ MaxCost \in Nat /\ ~CaptionsCleanup
        /\ \A r, s \in Requests : r = s
        /\ "translation" \notin Kinds
    BY MeteringAssumption DEF OneCallAtATime, EveryCallGated
  <1>b. /\ \A r \in Requests : r \in Procs
        /\ Sweeper \in Procs /\ Sweeper \notin Requests
    BY MeteringAssumption DEF Procs
  <1>c. /\ used \in Nat /\ seen \in [Requests -> Nat] /\ kind \in [Requests -> AllKinds]
        /\ pc \in [Procs -> States] /\ est \in [Requests -> Nat \cup {None}]
        /\ charged \in [Requests -> 0 .. MaxSubcalls]
    BY DEF TypeInv, TypeOK
  <1>d. \A r \in Requests : kind[r] # "translation"
    BY DEF BandInv
  <1>e. priced' = priced => priced'
    BY Zenon DEF BandInv
  <1>1. ASSUME NEW p \in Procs, ResetRead(p) PROVE BandInv'
    <2>1. priced' /\ used' = used /\ kind' = kind /\ est' = est
      BY <1>1, <1>e DEF ResetRead, world, row
    <2>2. /\ pc' \in {[pc EXCEPT ![p] = "reset"], [pc EXCEPT ![p] = AfterReset(p)]}
          /\ seen' = seen
      BY <1>1, <1>a, <1>b DEF ResetRead
    <2>3. AfterReset(p) \in {"idle", "read"}
      BY DEF AfterReset
    <2>4. \A r \in Requests : pc'[r] = pc[r] \/ pc'[r] \notin {"gate", "call", "cleanup"}
      BY <1>b, <1>c, <2>2, <2>3
    <2> QED BY <1>c, <1>d, <2>1, <2>2, <2>4, BandKept
  <1>2. ASSUME NEW p \in Procs, ResetWrite(p) PROVE BandInv'
    <2>1. priced' /\ used' \in Nat /\ used' <= used /\ kind' = kind /\ est' = est /\ seen' = seen
      BY <1>2, <1>c, <1>e DEF ResetWrite, world, row
    <2>2. pc' = [pc EXCEPT ![p] = AfterReset(p)]
      BY <1>2 DEF ResetWrite
    <2>3. AfterReset(p) \in {"idle", "read"}
      BY DEF AfterReset
    <2>4. \A r \in Requests : pc'[r] = pc[r] \/ pc'[r] \notin {"gate", "call", "cleanup"}
      BY <1>b, <1>c, <2>2, <2>3
    <2> QED BY <1>d, <2>1, <2>4, BandKept
  <1>3. CASE SweepSelect
    <2>1. priced' /\ used' = used /\ kind' = kind /\ est' = est /\ seen' = seen
      BY <1>3, <1>e DEF SweepSelect, world, row
    <2>2. \A r \in Requests : pc'[r] = pc[r]
      BY <1>3, <1>b, <1>c DEF SweepSelect
    <2> QED BY <1>c, <1>d, <2>1, <2>2, BandKept
  <1>4. ASSUME NEW r \in Requests, RequestStep(r) PROVE BandInv'
    <2>a. \A s \in Requests : s = r
      BY <1>a
    <2>1. ASSUME NEW k \in Kinds, Begin(r, k) PROVE BandInv'
      <3>1. priced' /\ used' = used
        BY <2>1, <1>e DEF Begin, world, row
      <3>2. k \in {"chat", "report"} /\ kind'[r] = k /\ pc'[r] = "quota"
        BY <2>1, <1>a, <1>b, <1>c, MeteringAssumption DEF Begin, AllKinds
      <3> QED BY <1>c, <2>a, <3>1, <3>2, BandKept
    <2>2. CASE ResetRead(r)
      BY <1>1, <1>b, <2>2
    <2>3. CASE ResetWrite(r)
      BY <1>2, <1>b, <2>3
    <2>4. CASE ReadUsed(r)
      <3>1. priced' /\ used' = used /\ kind' = kind /\ seen'[r] = used /\ pc'[r] # "call"
        BY <2>4, <1>b, <1>c, <1>e DEF ReadUsed, world, row
      <3>2. pc'[r] = "cleanup" => kind'[r] = "report"
        BY <2>4, <3>1, <1>b, <1>c DEF ReadUsed
      <3> QED BY <1>c, <1>d, <2>a, <3>1, <3>2, BandKept
    <2>5. CASE Refuse(r)
      <3>1. priced' /\ used' = used /\ kind' = kind /\ pc'[r] = "idle"
        BY <2>5, <1>b, <1>c, <1>e DEF Refuse, Return, world, row
      <3> QED BY <1>c, <1>d, <2>a, <3>1, BandKept
    <2>6. CASE Cleanup(r)
      <3>1. priced' /\ used' = used /\ kind' = kind /\ seen' = seen
        BY <2>6, <1>a, <1>e DEF Cleanup, world, row
      <3>2. pc'[r] = "gate" /\ pc[r] = "cleanup"
        BY <2>6, <1>b, <1>c DEF Cleanup
      <3>3. kind[r] = "report"
        BY <1>c, <1>d, <3>2 DEF BandInv, AllKinds
      <3> QED BY <1>c, <1>d, <2>a, <3>1, <3>2, <3>3, BandKept
    <2>7. ASSUME NEW e \in Estimates \cup {None}, Gate(r, e) PROVE BandInv'
      BY <2>7, GateKeepsBand
    <2>8. ASSUME NEW c \in 0 .. MaxCost, Subcall(r, c) PROVE BandInv'
      BY <2>8, <1>a, <1>c DEF Subcall
    <2>9. ASSUME NEW c \in 0 .. MaxCost, Answer(r, c) PROVE BandInv'
      <3>1. priced' /\ kind' = kind
        BY <2>9, <1>e DEF Answer, world
      <3>2. pc[r] = "call" /\ pc'[r] = "tail"
        BY <2>9, <1>b, <1>c DEF Answer
      <3>3. est[r] \in Nat /\ used + est[r] <= TierLimit + Tolerance /\ c <= est[r]
        BY <2>9, <3>2, <1>a, <1>c DEF BandInv, Answer
      <3>4. used' \in Nat /\ used' <= used + c
        <4>1. used' = used \/ used' = used + c
          BY <2>9 DEF Answer, RecordCost
        <4> QED BY <1>a, <1>c, <4>1
      <3>5. used' <= TierLimit + Tolerance
        BY <1>a, <1>c, <3>3, <3>4
      <3> QED BY <1>d, <2>a, <3>1, <3>2, <3>5 DEF BandInv
    <2>10. CASE Finish(r)
      <3>1. priced' /\ used' = used /\ kind' = kind /\ pc'[r] = "idle"
        BY <2>10, <1>b, <1>c, <1>e DEF Finish, Return, world, row
      <3> QED BY <1>c, <1>d, <2>a, <3>1, BandKept
    <2> QED BY <1>4, <2>1, <2>2, <2>3, <2>4, <2>5, <2>6, <2>7, <2>8, <2>9,
               <2>10 DEF RequestStep
  <1>5. ASSUME NEW expires \in 1 .. clock + Period, RenewSameTier(expires)
        PROVE BandInv'
    <2>1. /\ priced' /\ used' = 0 /\ kind' = kind /\ est' = est /\ seen' = seen /\ pc' = pc
      BY <1>5, <1>e DEF RenewSameTier
    <2> QED BY <1>c, <1>d, <2>1, BandKept
  <1>6. CASE LoadPricing
    <2>1. ~priced
      BY <1>6 DEF LoadPricing
    <2> QED BY <2>1, Zenon DEF BandInv
  <1>7. CASE Tick
    <2>1. /\ priced' /\ used' = used /\ kind' = kind /\ est' = est /\ seen' = seen /\ pc' = pc
      BY <1>7, <1>e DEF Tick, row
    <2> QED BY <1>c, <1>d, <2>1, BandKept
  <1>8. CASE UNCHANGED vars
    <2>1. /\ priced' /\ used' = used /\ kind' = kind /\ est' = est /\ seen' = seen /\ pc' = pc
      BY <1>8, <1>e DEF vars
    <2> QED BY <1>c, <1>d, <2>1, BandKept
  <1> QED BY <1>b, <1>1, <1>2, <1>3, <1>4, <1>5, <1>6, <1>7, <1>8
          DEF Next, SweepStep

(* "A user can land mid-call into this band; the next call will be blocked": *)
(* as long as the account's calls do not overlap and cost no more than their *)
(* estimates, the meter stays within the tolerance of the limit.             *)
THEOREM OneCallStaysInBand == OneCallAtATime => (Spec => []WithinOverageBand)
  <1> SUFFICES ASSUME OneCallAtATime PROVE Spec => []WithinOverageBand
    OBVIOUS
  <1>1. Init => BandInv
    BY BandStart
  <1>2. TypeInv /\ BandInv /\ [Next]_vars => BandInv'
    BY BandStep
  <1>3. BandInv => WithinOverageBand
    BY DEF BandInv, WithinOverageBand
  <1> QED BY TypeInit, TypeStep, <1>1, <1>2, <1>3, PTL DEF Spec
=============================================================================

---------------------------- MODULE Quota_proofs ----------------------------
(***************************************************************************)
(* The bound on the overshoot of a count-then-insert limit, for any limit, *)
(* any number of overlapping requests and any number of rows.              *)
(***************************************************************************)
EXTENDS Quota, FiniteSetTheorems, TLAPS

\* The rows and the requests in flight have a cardinality.
LEMMA Cardinalities ==
  ASSUME QuotaAssumption, TypeOK
  PROVE  /\ Cardinality(rows) \in Nat
         /\ Cardinality(pending) \in Nat
         /\ Cardinality(Requests) \in Nat
         /\ IsFiniteSet(pending)
         /\ Cardinality(pending) <= Cardinality(Requests)
  BY FS_CardinalityType, FS_Subset DEF QuotaAssumption, TypeOK

\* Rows stay a finite set of row identifiers and requests a set of requests,
\* whatever order checks, inserts, failures and deletions come in.
THEOREM QuotaTypes ==
  ASSUME QuotaAssumption
  PROVE  Spec => []TypeOK
<1>1. Init => TypeOK
  BY FS_EmptySet DEF Init, TypeOK
<1>2. TypeOK /\ [Next]_vars => TypeOK'
  <2> SUFFICES ASSUME TypeOK, [Next]_vars PROVE TypeOK'
    OBVIOUS
  <2>1. CASE \E r \in Requests : Check(r) \/ BlindCheck(r)
    BY <2>1 DEF TypeOK, Check, BlindCheck
  <2>2. ASSUME NEW r \in Requests, NEW x \in Rows, Insert(r, x) PROVE TypeOK'
    BY <2>2, FS_AddElement DEF TypeOK, Insert
  <2>3. CASE \E R \in SUBSET Requests : Abandon(R)
    BY <2>3 DEF TypeOK, Abandon
  <2>4. ASSUME NEW X \in SUBSET Rows, Remove(X) PROVE TypeOK'
    BY <2>4, FS_Difference DEF TypeOK, Remove
  <2>5. CASE UNCHANGED vars
    BY <2>5 DEF TypeOK, vars
  <2> QED
    BY <2>1, <2>2, <2>3, <2>4, <2>5 DEF Next
<1> QED
  BY <1>1, <1>2, PTL DEF Spec

\* The limit is never overshot by more than the other requests in flight and
\* the requests whose count failed.
THEOREM QuotaBound ==
  ASSUME QuotaAssumption
  PROVE  Spec => []OvershootBounded
<1>1. Init => OvershootBounded
  BY FS_EmptySet, FS_CardinalityType DEF QuotaAssumption, Init, OvershootBounded
<1>2. TypeOK /\ TypeOK' /\ OvershootBounded /\ [Next]_vars => OvershootBounded'
  <2> SUFFICES ASSUME TypeOK, TypeOK', OvershootBounded, [Next]_vars
               PROVE  OvershootBounded'
    OBVIOUS
  <2>1. blind \in Nat /\ Limit \in Nat
    BY DEF QuotaAssumption, TypeOK
  <2>2. ASSUME NEW r \in Requests, Check(r) PROVE OvershootBounded'
    <3>1. pending' \in SUBSET Requests /\ Cardinality(pending') <= Cardinality(Requests)
      BY FS_Subset DEF QuotaAssumption, TypeOK
    <3>2. Cardinality(pending') \in Nat
      BY <3>1, FS_Subset, FS_CardinalityType DEF QuotaAssumption
    <3> QED
      BY <2>1, <2>2, <3>1, <3>2, Cardinalities DEF Check, HasRoom, OvershootBounded
  <2>3. ASSUME NEW r \in Requests, BlindCheck(r) PROVE OvershootBounded'
    <3>1. Cardinality(pending') = Cardinality(pending) + 1
      BY <2>3, Cardinalities, FS_AddElement DEF BlindCheck
    <3> QED
      BY <2>1, <2>3, <3>1, Cardinalities DEF BlindCheck, OvershootBounded
  <2>4. ASSUME NEW r \in Requests, NEW x \in Rows, Insert(r, x) PROVE OvershootBounded'
    <3>1. Cardinality(rows') = Cardinality(rows) + 1
      BY <2>4, FS_AddElement DEF Insert, TypeOK
    <3>2. Cardinality(pending') = Cardinality(pending) - 1
      BY <2>4, Cardinalities, FS_RemoveElement DEF Insert
    <3> QED
      BY <2>1, <2>4, <3>1, <3>2, Cardinalities DEF Insert, OvershootBounded
  <2>5. ASSUME NEW R \in SUBSET Requests, Abandon(R) PROVE OvershootBounded'
    <3>1. Cardinality(pending') <= Cardinality(pending) /\ Cardinality(pending') \in Nat
      BY <2>5, Cardinalities, FS_Subset, FS_CardinalityType DEF Abandon
    <3> QED
      BY <2>1, <2>5, <3>1, Cardinalities DEF Abandon, OvershootBounded
  <2>6. ASSUME NEW X \in SUBSET Rows, Remove(X) PROVE OvershootBounded'
    <3>1. Cardinality(rows') <= Cardinality(rows) /\ Cardinality(rows') \in Nat
      BY <2>6, FS_Subset, FS_CardinalityType DEF Remove, TypeOK
    <3> QED
      BY <2>1, <2>6, <3>1, Cardinalities DEF Remove, OvershootBounded
  <2>7. CASE UNCHANGED vars
    BY <2>7 DEF OvershootBounded, vars
  <2> QED
    BY <2>2, <2>3, <2>4, <2>5, <2>6, <2>7 DEF Next
<1> QED
  BY <1>1, <1>2, QuotaTypes, PTL DEF Spec
=============================================================================

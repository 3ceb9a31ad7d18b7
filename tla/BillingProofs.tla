---------------------------- MODULE BillingProofs ----------------------------
(***************************************************************************)
(* Proofs about Billing.tla: its type invariant, the bounds on the         *)
(* rounding errors of the stored balance and totals, that nothing posted   *)
(* is rewritten, and that whole cents are counted exactly, for any         *)
(* amounts, any number of folios and any size of the columns.  The lemmas  *)
(* about sums come first.                                                  *)
(***************************************************************************)
EXTENDS Billing, FiniteSetTheorems, WellFoundedInduction, TLAPS

-----------------------------------------------------------------------------
(* Sums *)

\* Induction over the subsets of a finite set.
LEMMA SubsetInduction ==
    ASSUME NEW D, IsFiniteSet(D), NEW Q,
           \A T \in SUBSET D : (\A U \in SUBSET T : U # T => U \in Q) => T \in Q
    PROVE  \A T \in SUBSET D : T \in Q
<1> DEFINE Bad == {T \in SUBSET D : T \notin Q}
<1>1. Bad \subseteq FiniteSubsetsOf(D)
  BY FS_Subset DEF FiniteSubsetsOf
<1>2. SUFFICES ASSUME Bad # {} PROVE FALSE
  OBVIOUS
<1>3. \E T \in Bad : \A U \in Bad : ~ (<<U, T>> \in StrictSubsetOrdering(D))
  <2> HIDE DEF Bad
  <2>1. IsWellFoundedOn(StrictSubsetOrdering(D), FiniteSubsetsOf(D))
    BY FS_StrictSubsetOrderingWellFounded
  <2> QED
    BY <1>1, <1>2, <2>1, WFMin
<1>4. PICK T \in Bad : \A U \in Bad : ~ (<<U, T>> \in StrictSubsetOrdering(D))
  BY <1>3
<1>5. \A U \in SUBSET T : U # T => U \in Q
  BY <1>4 DEF StrictSubsetOrdering
<1> QED
  BY <1>4, <1>5

\* The element that the fold takes first.
First(s) == CHOOSE x \in s : TRUE

\* The function that the fold computes on the subsets of D.
IsSum(g, fun, D) ==
    g = [s \in SUBSET D |-> IF s = {} THEN 0 ELSE fun[First(s)] + g[s \ {First(s)}]]

LEMMA SumIs ==
    ASSUME NEW fun, NEW D
    PROVE  SumFunctionOnSet(fun, D) = (CHOOSE g : IsSum(g, fun, D))[D]
  BY DEF SumFunctionOnSet, FoldFunctionOnSet, MapThenFoldSet, IsSum, First

LEMMA FirstIn == ASSUME NEW s, s # {} PROVE First(s) \in s
  BY DEF First

\* Two such functions agree where both are defined, when what they add does.
LEMMA SumUnique ==
    ASSUME NEW D, IsFiniteSet(D), NEW E, NEW F, D \subseteq E, D \subseteq F,
           NEW g, NEW h, NEW f1, NEW f2, IsSum(g, f1, E), IsSum(h, f2, F),
           \A x \in D : f1[x] = f2[x]
    PROVE  \A T \in SUBSET D : g[T] = h[T]
<1> DEFINE Q == {T \in SUBSET D : g[T] = h[T]}
<1>1. ASSUME NEW T \in SUBSET D, \A U \in SUBSET T : U # T => U \in Q
      PROVE  T \in Q
  <2>1. CASE T = {}
    BY <2>1 DEF IsSum
  <2>2. CASE T # {}
    <3>1. First(T) \in T
      BY <2>2, FirstIn
    <3>2. T \ {First(T)} \in Q
      BY <1>1, <3>1
    <3>3. /\ g[T] = f1[First(T)] + g[T \ {First(T)}]
          /\ h[T] = f2[First(T)] + h[T \ {First(T)}]
      BY <2>2, <3>1 DEF IsSum
    <3> QED
      BY <3>1, <3>2, <3>3
  <2> QED
    BY <2>1, <2>2
<1> HIDE DEF Q
<1>2. \A T \in SUBSET D : T \in Q
  BY <1>1, SubsetInduction
<1> QED
  BY <1>2 DEF Q

LEMMA SumExists ==
    ASSUME NEW D, IsFiniteSet(D), NEW fun
    PROVE  \E g : IsSum(g, fun, D)
<1> DEFINE Q == {T \in SUBSET D : \E g : IsSum(g, fun, T)}
           H(T) == CHOOSE g : IsSum(g, fun, T)
<1>1. ASSUME NEW T \in SUBSET D, \A U \in SUBSET T : U # T => U \in Q
      PROVE  T \in Q
  <2> DEFINE g == [s \in SUBSET T |-> IF s = {} THEN 0
                     ELSE fun[First(s)] + H(s \ {First(s)})[s \ {First(s)}]]
  <2>1. ASSUME NEW U \in SUBSET T, U # T
        PROVE  IsSum(H(U), fun, U)
    BY <1>1, <2>1
  <2>2. ASSUME NEW U \in SUBSET T, U # T
        PROVE  g[U] = H(U)[U]
    <3>1. CASE U = {}
      <4>1. IsSum(H(U), fun, U)
        BY <2>1, <2>2
      <4> HIDE DEF H
      <4>2. H(U)[U] = 0
        BY <3>1, <4>1 DEF IsSum
      <4> QED
        BY <3>1, <4>2
    <3>2. CASE U # {}
      <4> DEFINE V == U \ {First(U)}
      <4>1. V \in SUBSET T /\ V # T /\ V \subseteq U /\ IsFiniteSet(V)
        BY <2>2, FS_Subset
      <4>2. IsSum(H(U), fun, U) /\ IsSum(H(V), fun, V)
        BY <2>1, <2>2, <4>1
      <4> HIDE DEF H
      <4>3. H(U)[V] = H(V)[V]
        BY <4>1, <4>2, SumUnique
      <4>4. H(U)[U] = fun[First(U)] + H(U)[V]
        BY <3>2, <4>2 DEF IsSum
      <4>5. g[U] = fun[First(U)] + H(V)[V]
        BY <3>2
      <4> QED
        BY <4>3, <4>4, <4>5
    <3> QED
      BY <3>1, <3>2
  <2>3. IsSum(g, fun, T)
    <3>1. ASSUME NEW s \in SUBSET T, s # {}
          PROVE  H(s \ {First(s)})[s \ {First(s)}] = g[s \ {First(s)}]
      <4>1. s \ {First(s)} \in SUBSET T /\ s \ {First(s)} # T
        BY <3>1, FirstIn
      <4> QED
        BY <2>2, <4>1
    <3> HIDE DEF H
    <3>2. g = [s \in SUBSET T |-> IF s = {} THEN 0 ELSE fun[First(s)] + g[s \ {First(s)}]]
      BY <3>1
    <3> QED
      BY <3>2 DEF IsSum
  <2> QED
    BY <2>3
<1> HIDE DEF Q
<1>2. D \in Q
  BY <1>1, SubsetInduction
<1> QED
  BY <1>2 DEF Q

\* The sum over D, by its first element.
LEMMA SumByFirst ==
    ASSUME NEW D, IsFiniteSet(D), NEW fun
    PROVE  /\ SumFunctionOnSet(fun, {}) = 0
           /\ D # {} => SumFunctionOnSet(fun, D) =
                          fun[First(D)] + SumFunctionOnSet(fun, D \ {First(D)})
<1> DEFINE H(T) == CHOOSE g : IsSum(g, fun, T)
<1>1. ASSUME NEW T \in SUBSET D
      PROVE  /\ IsSum(H(T), fun, T)
             /\ SumFunctionOnSet(fun, T) = H(T)[T]
             /\ IsFiniteSet(T)
  <2>1. IsFiniteSet(T)
    BY FS_Subset
  <2> QED
    BY <2>1, SumExists, SumIs
<1> HIDE DEF H
<1>2. SumFunctionOnSet(fun, {}) = 0
  <2>1. {} \in SUBSET D
    OBVIOUS
  <2> QED
    BY <1>1, <2>1 DEF IsSum
<1>3. ASSUME D # {}
      PROVE  SumFunctionOnSet(fun, D) =
               fun[First(D)] + SumFunctionOnSet(fun, D \ {First(D)})
  <2> DEFINE V == D \ {First(D)}
  <2>1. V \in SUBSET D /\ D \in SUBSET D
    OBVIOUS
  <2>2. H(D)[D] = fun[First(D)] + H(D)[V]
    BY <1>1, <1>3, <2>1 DEF IsSum
  <2>3. H(D)[V] = H(V)[V]
    <3> HIDE DEF V
    <3>1. IsSum(H(D), fun, D) /\ IsSum(H(V), fun, V) /\ IsFiniteSet(V)
      BY <1>1, <2>1
    <3>2. V \subseteq D /\ V \subseteq V
      BY <2>1
    <3>3. \A T \in SUBSET V : H(D)[T] = H(V)[T]
      BY <3>1, <3>2, SumUnique
    <3> QED
      BY <3>3
  <2> QED
    BY <1>1, <2>1, <2>2, <2>3
<1> QED
  BY <1>2, <1>3

LEMMA SumType ==
    ASSUME NEW D, IsFiniteSet(D), NEW fun, \A x \in D : fun[x] \in Int
    PROVE  SumFunctionOnSet(fun, D) \in Int
<1> DEFINE Q == {T \in SUBSET D : SumFunctionOnSet(fun, T) \in Int}
<1>1. ASSUME NEW T \in SUBSET D, \A U \in SUBSET T : U # T => U \in Q
      PROVE  T \in Q
  <2>1. IsFiniteSet(T)
    BY FS_Subset
  <2>2. CASE T # {}
    <3>1. First(T) \in T
      BY <2>2, FirstIn
    <3>2. SumFunctionOnSet(fun, T \ {First(T)}) \in Int /\ fun[First(T)] \in Int
      BY <1>1, <3>1
    <3>3. SumFunctionOnSet(fun, T) = fun[First(T)] + SumFunctionOnSet(fun, T \ {First(T)})
      BY <2>1, <2>2, SumByFirst
    <3> QED
      BY <3>2, <3>3
  <2> QED
    BY <2>1, <2>2, SumByFirst
<1> HIDE DEF Q
<1>2. D \in Q
  BY <1>1, SubsetInduction
<1> QED
  BY <1>2 DEF Q

\* The order does not matter: any element may be taken first.
LEMMA SumByAny ==
    ASSUME NEW D, IsFiniteSet(D), NEW fun, \A x \in D : fun[x] \in Int, NEW d \in D
    PROVE  SumFunctionOnSet(fun, D) = fun[d] + SumFunctionOnSet(fun, D \ {d})
<1> DEFINE Sum(T) == SumFunctionOnSet(fun, T)
           Q == {T \in SUBSET D : \A t \in T : Sum(T) = fun[t] + Sum(T \ {t})}
<1> HIDE DEF Sum
<1>0. ASSUME NEW T \in SUBSET D
      PROVE  /\ IsFiniteSet(T) /\ Sum(T) \in Int
             /\ T # {} => Sum(T) = fun[First(T)] + Sum(T \ {First(T)})
  <2>1. IsFiniteSet(T)
    BY FS_Subset
  <2> QED
    BY <2>1, SumType, SumByFirst DEF Sum
<1>1. ASSUME NEW T \in SUBSET D, \A U \in SUBSET T : U # T => U \in Q
      PROVE  T \in Q
  <2> SUFFICES ASSUME NEW t \in T PROVE Sum(T) = fun[t] + Sum(T \ {t})
    OBVIOUS
  <2> DEFINE c == First(T)
  <2>1. c \in T /\ Sum(T) = fun[c] + Sum(T \ {c})
    BY <1>0, FirstIn
  <2> HIDE DEF c
  <2>2. CASE t = c
    BY <2>1, <2>2
  <2>3. CASE t # c
    <3>1. T \ {c} \in Q /\ T \ {t} \in Q
      BY <1>1, <2>1
    <3>2. Sum(T \ {c}) = fun[t] + Sum((T \ {c}) \ {t})
      BY <2>3, <3>1
    <3>3. Sum(T \ {t}) = fun[c] + Sum((T \ {t}) \ {c})
      BY <2>1, <2>3, <3>1
    <3>4. (T \ {c}) \ {t} = (T \ {t}) \ {c}
      OBVIOUS
    <3>5. fun[c] \in Int /\ fun[t] \in Int /\ Sum((T \ {t}) \ {c}) \in Int
      BY <1>0, <2>1
    <3> DEFINE rest == Sum((T \ {t}) \ {c})
    <3>6. Sum(T) = fun[c] + (fun[t] + rest) /\ Sum(T \ {t}) = fun[c] + rest
      BY <2>1, <3>2, <3>3, <3>4
    <3>7. fun[c] \in Int /\ fun[t] \in Int /\ rest \in Int
      BY <3>5
    <3> HIDE DEF rest
    <3> QED
      BY <3>6, <3>7
  <2> QED
    BY <2>2, <2>3
<1> HIDE DEF Q
<1>2. D \in Q
  BY <1>1, SubsetInduction
<1> QED
  BY <1>2 DEF Q, Sum

\* Only the values on D matter.
LEMMA SumSame ==
    ASSUME NEW D, IsFiniteSet(D), NEW f1, NEW f2, \A x \in D : f1[x] = f2[x]
    PROVE  SumFunctionOnSet(f1, D) = SumFunctionOnSet(f2, D)
<1> DEFINE g == CHOOSE k : IsSum(k, f1, D)
           h == CHOOSE k : IsSum(k, f2, D)
<1>1. IsSum(g, f1, D) /\ IsSum(h, f2, D)
  BY SumExists
<1>2. SumFunctionOnSet(f1, D) = g[D] /\ SumFunctionOnSet(f2, D) = h[D]
  BY SumIs
<1> HIDE DEF g, h
<1>3. \A T \in SUBSET D : g[T] = h[T]
  BY <1>1, SumUnique
<1> QED
  BY <1>2, <1>3

\* What the model uses: an entry more.
LEMMA SumAppend ==
    ASSUME NEW n \in Nat, NEW f, NEW g, DOMAIN f = 1..n, DOMAIN g = 1..(n + 1),
           \A i \in 1..n : g[i] = f[i], \A i \in 1..(n + 1) : g[i] \in Int
    PROVE  /\ SumFunction(g) = SumFunction(f) + g[n + 1]
           /\ SumFunction(f) \in Int
<1>1. IsFiniteSet(1..n) /\ IsFiniteSet(1..(n + 1))
  BY FS_Interval
<1>2. (1..(n + 1)) \ {n + 1} = 1..n /\ n + 1 \in 1..(n + 1)
  OBVIOUS
<1>3. SumFunctionOnSet(g, 1..(n + 1)) = g[n + 1] + SumFunctionOnSet(g, 1..n)
  BY <1>1, <1>2, SumByAny
<1>4. SumFunctionOnSet(g, 1..n) = SumFunctionOnSet(f, 1..n)
  BY <1>1, SumSame
<1>5. SumFunctionOnSet(f, 1..n) \in Int
  BY <1>1, SumType
<1>6. SumFunction(g) = SumFunctionOnSet(g, 1..(n + 1))
      /\ SumFunction(f) = SumFunctionOnSet(f, 1..n)
  BY DEF SumFunction
<1> QED
  BY <1>2, <1>3, <1>4, <1>5, <1>6

USE DEF Ticks, TicksPerCent

-----------------------------------------------------------------------------
(* Rounding *)

\* A rounded amount is a number of cents, at most half a cent from the amount.
LEMMA RoundCentsNearest ==
    ASSUME NEW t \in Int
    PROVE  /\ RoundCents(t) \in Int
           /\ 100 * RoundCents(t) - t <= 50
           /\ t - 100 * RoundCents(t) <= 50
  BY DEF RoundCents

\* Whole cents are stored as they are.
LEMMA RoundCentsExact ==
    ASSUME NEW c \in Int
    PROVE  RoundCents(Ticks(c)) = c
  BY DEF RoundCents

\* Taking whole cents away before rounding or after it makes a difference of
\* at most a cent: the half cent may go the other way when the sign changes.
LEMMA RoundCentsShift ==
    ASSUME NEW t \in Int, NEW c \in Int
    PROVE  Abs(RoundCents(t - Ticks(c)) - (RoundCents(t) - c)) <= 1
<1> DEFINE u == t - Ticks(c)
           a == RoundCents(u)
           b == RoundCents(t)
<1>1. u \in Int
  OBVIOUS
<1>2. a \in Int /\ 100 * a - u <= 50 /\ u - 100 * a <= 50
  BY <1>1, RoundCentsNearest
<1>3. b \in Int /\ 100 * b - t <= 50 /\ t - 100 * b <= 50
  BY RoundCentsNearest
<1>4. u = t - 100 * c
  OBVIOUS
<1> HIDE DEF u, a, b
<1>5. a - (b - c) \in -1..1
  BY <1>1, <1>2, <1>3, <1>4
<1>6. Abs(a - (b - c)) <= 1
  BY <1>2, <1>3, <1>5 DEF Abs
<1> QED
  BY <1>6 DEF u, a, b

\* The same when the amount is taken away from whole cents.
LEMMA RoundCentsShiftFrom ==
    ASSUME NEW t \in Int, NEW c \in Int
    PROVE  Abs(RoundCents(Ticks(c) - t) - (c - RoundCents(t))) <= 1
<1> DEFINE u == Ticks(c) - t
           a == RoundCents(u)
           b == RoundCents(t)
<1>1. u \in Int
  OBVIOUS
<1>2. a \in Int /\ 100 * a - u <= 50 /\ u - 100 * a <= 50
  BY <1>1, RoundCentsNearest
<1>3. b \in Int /\ 100 * b - t <= 50 /\ t - 100 * b <= 50
  BY RoundCentsNearest
<1>4. u = 100 * c - t
  OBVIOUS
<1> HIDE DEF u, a, b
<1>5. a - (c - b) \in -1..1
  BY <1>1, <1>2, <1>3, <1>4
<1>6. Abs(a - (c - b)) <= 1
  BY <1>2, <1>3, <1>5 DEF Abs
<1> QED
  BY <1>6 DEF u, a, b

\* Whole cents that are not negative may be taken out of the rounding, unless
\* they hide that what is added rounds below zero.
LEMMA RoundCentsOnto ==
    ASSUME NEW t \in Int, NEW c \in Nat, RoundCents(t) >= 0
    PROVE  RoundCents(Ticks(c) + t) = c + RoundCents(t)
<1>1. CASE t >= 0
  BY <1>1 DEF RoundCents
<1>2. CASE t < 0
  <2>1. t >= -49 /\ RoundCents(t) = 0
    BY <1>2 DEF RoundCents
  <2>2. CASE c = 0
    BY <2>1, <2>2 DEF RoundCents
  <2>3. CASE c >= 1
    <3>1. 100 * c + t >= 0
      BY <1>2, <2>1, <2>3
    <3>2. RoundCents(Ticks(c) + t) = (100 * c + t + 50) \div 100
      BY <3>1 DEF RoundCents
    <3> QED
      BY <1>2, <2>1, <3>2
  <2> QED
    BY <2>2, <2>3
<1> QED
  BY <1>1, <1>2

-----------------------------------------------------------------------------
(* The rows the operations write *)

\* Within a cent, for one row.
InSync(row) == Abs(row.balance - (row.total_charges - row.total_payments)) <= 1

LEMMA ChargedRow ==
    ASSUME NEW row \in FolioRow, NEW ticks \in Int, Fits(Charged(row, ticks))
    PROVE  Charged(row, ticks) \in FolioRow /\ InSync(Charged(row, ticks))
<1> DEFINE t == Ticks(row.total_charges) + ticks
<1>1. row.total_charges \in Int /\ row.total_payments \in Int /\ t \in Int
  BY DEF FolioRow, Cents
<1>2. Charged(row, ticks) =
        [row EXCEPT !.total_charges = RoundCents(t),
                    !.balance = RoundCents(t - Ticks(row.total_payments))]
  BY Zenon DEF Charged
<1>3. Abs(RoundCents(t - Ticks(row.total_payments))
          - (RoundCents(t) - row.total_payments)) <= 1
  BY <1>1, RoundCentsShift
<1> HIDE DEF t
<1>4. InSync(Charged(row, ticks))
  BY <1>2, <1>3 DEF InSync, FolioRow
<1>5. Charged(row, ticks) \in FolioRow
  BY <1>2 DEF FolioRow, Fits
<1> QED
  BY <1>4, <1>5

LEMMA PaidRow ==
    ASSUME NEW row \in FolioRow, NEW ticks \in Int, Fits(Paid(row, ticks))
    PROVE  Paid(row, ticks) \in FolioRow /\ InSync(Paid(row, ticks))
<1> DEFINE t == Ticks(row.total_payments) + ticks
<1>1. row.total_charges \in Int /\ row.total_payments \in Int /\ t \in Int
  BY DEF FolioRow, Cents
<1>2. Paid(row, ticks) =
        [row EXCEPT !.total_payments = RoundCents(t),
                    !.balance = RoundCents(Ticks(row.total_charges) - t)]
  BY Zenon DEF Paid
<1>3. Abs(RoundCents(Ticks(row.total_charges) - t)
          - (row.total_charges - RoundCents(t))) <= 1
  BY <1>1, RoundCentsShiftFrom
<1> HIDE DEF t
<1>4. InSync(Paid(row, ticks))
  BY <1>2, <1>3 DEF InSync, FolioRow
<1>5. Paid(row, ticks) \in FolioRow
  BY <1>2 DEF FolioRow, Fits
<1> QED
  BY <1>4, <1>5

-----------------------------------------------------------------------------
(* The invariant *)

\* BalanceWithinACent is inductive with the types: a row whose balance was
\* never written is in sync, and every other step writes the balance from the
\* two totals it leaves in the row.
BillingInv == BillingTypeOK /\ BalanceWithinACent

LEMMA InitInvariant == BillingInit => BillingInv
<1> SUFFICES ASSUME BillingInit PROVE BillingInv
  OBVIOUS
<1>1. NoFolio \in FolioRow /\ InSync(NoFolio)
  BY MoneyAssumption DEF NoFolio, FolioRow, Cents, InSync, Abs
<1>2. BillingTypeOK
  BY <1>1 DEF BillingInit, BillingTypeOK
<1>3. BalanceWithinACent
  BY <1>1 DEF BillingInit, BalanceWithinACent, InSync
<1> QED
  BY <1>2, <1>3 DEF BillingInv

\* Posting a line, whoever does it.
LEMMA PostLineInvariant ==
    ASSUME BillingInv, NEW f \in Folios, NEW type \in LineItemType, NEW void \in BOOLEAN,
           NEW ticks \in Int, PostLine(f, type, void, ticks)
    PROVE  BillingInv'
<1> DEFINE item == [item_type |-> type, void |-> void, total |-> RoundCents(ticks)]
<1>1. folio[f] \in FolioRow
  BY DEF BillingInv, BillingTypeOK
<1>2. Charged(folio[f], ticks) \in FolioRow /\ InSync(Charged(folio[f], ticks))
  BY <1>1, ChargedRow DEF PostLine
<1>3. item \in LineRow
  BY DEF PostLine, LineRow
<1>4. folio' = [folio EXCEPT ![f] = Charged(folio[f], ticks)]
  BY DEF PostLine
<1>5. lineItems' = [lineItems EXCEPT ![f] = Append(lineItems[f], item)]
  BY DEF PostLine
<1>6. UNCHANGED payments
  BY DEF PostLine
<1> HIDE DEF item
<1>7. folio' \in [Folios -> FolioRow]
  BY <1>2, <1>4 DEF BillingInv, BillingTypeOK
<1>8. lineItems' \in [Folios -> Seq(LineRow)]
  BY <1>3, <1>5 DEF BillingInv, BillingTypeOK
<1>9. BillingTypeOK'
  BY <1>6, <1>7, <1>8 DEF BillingInv, BillingTypeOK
<1>10. BalanceWithinACent'
  BY <1>2, <1>4 DEF BillingInv, BillingTypeOK, BalanceWithinACent, InSync
<1> QED
  BY <1>9, <1>10 DEF BillingInv

\* Opening or closing a folio leaves its money alone.
LEMMA StatusInvariant ==
    ASSUME BillingInv, NEW f \in Folios, NEW status \in FolioStatus,
           folio' = [folio EXCEPT ![f].status = status],
           UNCHANGED <<lineItems, payments>>
    PROVE  BillingInv'
<1>1. folio[f] \in FolioRow
  BY DEF BillingInv, BillingTypeOK
<1>2. [folio[f] EXCEPT !.status = status] \in FolioRow
  BY <1>1 DEF FolioRow
<1>3. BillingTypeOK'
  BY <1>2 DEF BillingInv, BillingTypeOK
<1>4. BalanceWithinACent'
  BY <1>1 DEF BillingInv, BillingTypeOK, BalanceWithinACent, FolioRow
<1> QED
  BY <1>3, <1>4 DEF BillingInv

LEMMA PostPaymentInvariant ==
    ASSUME BillingInv, NEW f \in Folios, NEW ticks \in Int, PostPayment(f, ticks)
    PROVE  BillingInv'
<1>1. folio[f] \in FolioRow
  BY DEF BillingInv, BillingTypeOK
<1>2. Paid(folio[f], ticks) \in FolioRow /\ InSync(Paid(folio[f], ticks))
  BY <1>1, PaidRow DEF PostPayment
<1>3. /\ folio' = [folio EXCEPT ![f] = Paid(folio[f], ticks)]
      /\ RoundCents(ticks) \in Cents
      /\ payments' = [payments EXCEPT ![f] = Append(payments[f], RoundCents(ticks))]
      /\ UNCHANGED lineItems
  BY DEF PostPayment
<1>4. folio' \in [Folios -> FolioRow]
  BY <1>2, <1>3 DEF BillingInv, BillingTypeOK
<1>5. payments' \in [Folios -> Seq(Cents)]
  BY <1>3 DEF BillingInv, BillingTypeOK
<1>6. BillingTypeOK'
  BY <1>3, <1>4, <1>5 DEF BillingInv, BillingTypeOK
<1>7. BalanceWithinACent'
  BY <1>2, <1>3 DEF BillingInv, BillingTypeOK, BalanceWithinACent, InSync
<1> QED
  BY <1>6, <1>7 DEF BillingInv

\* Whole cents, when all the amounts of the requests are.
Whole(ticks) == WholeCents => ticks % TicksPerCent = 0

LEMMA WholeTicks ==
    ASSUME NEW cents \in Int
    PROVE  Ticks(cents) \in Int /\ Whole(Ticks(cents)) /\ Whole(-Ticks(cents))
  BY DEF Whole

\* What a step comes down to: a line, on an open folio or a room charge on any
\* folio there is; a payment on an open folio; a folio opened or closed.
LEMMA Steps ==
    ASSUME BillingInv, BillingNext
    PROVE  \E f \in Folios :
             \/ \E type \in LineItemType, void \in BOOLEAN, ticks \in Int :
                   /\ PostLine(f, type, void, ticks)
                   /\ Whole(ticks)
                   /\ folio[f].status = "open" \/ type = "room_charge"
             \/ \E ticks \in Int : PostPayment(f, ticks) /\ Whole(ticks)
             \/ CloseFolio(f)
             \/ CreateFolio(f)
<1> DEFINE Line(f, type, void, ticks) ==
             /\ PostLine(f, type, void, ticks)
             /\ Whole(ticks)
             /\ folio[f].status = "open" \/ type = "room_charge"
           Goal == \E f \in Folios :
             \/ \E type \in LineItemType, void \in BOOLEAN, ticks \in Int :
                   Line(f, type, void, ticks)
             \/ \E ticks \in Int : PostPayment(f, ticks) /\ Whole(ticks)
             \/ CloseFolio(f)
             \/ CreateFolio(f)
<1>0. ASSUME NEW f \in Folios, NEW type \in LineItemType, NEW void \in BOOLEAN,
             NEW ticks \in Int, Line(f, type, void, ticks)
      PROVE  Goal
  BY <1>0
<1>1. ASSUME NEW f \in Folios, NEW type \in LineItemType, NEW ticks \in LineAmounts,
             AddLineItem(f, type, ticks)
      PROVE  Goal
  <2>1. ticks \in Int /\ FALSE \in BOOLEAN /\ Line(f, type, FALSE, ticks)
    BY <1>1, MoneyAssumption DEF AddLineItem, Whole, WholeCents
  <2> HIDE DEF Line, Goal
  <2> QED
    BY <1>0, <2>1
<1>2. ASSUME NEW f \in Folios, NEW i \in 1..MaxEntries, VoidLineItem(f, i)
      PROVE  Goal
  <2> DEFINE item == lineItems[f][i]
  <2>1. item \in LineRow
    BY <1>2 DEF VoidLineItem, BillingInv, BillingTypeOK
  <2>2. /\ item.item_type \in LineItemType /\ TRUE \in BOOLEAN
        /\ item.total \in Int /\ -Ticks(item.total) \in Int
    BY <2>1 DEF LineRow, Cents
  <2>3. Line(f, item.item_type, TRUE, -Ticks(item.total))
    BY <1>2, <2>2, WholeTicks DEF VoidLineItem
  <2> HIDE DEF Line, Goal, item
  <2> QED
    BY <1>0, <2>2, <2>3
<1>3. ASSUME NEW f \in Folios, NEW ticks \in PaymentAmounts, PostPayment(f, ticks)
      PROVE  Goal
  BY <1>3, MoneyAssumption DEF Whole, WholeCents
<1>4. ASSUME NEW f \in Folios, NEW rate \in Rates, NEW nights \in 1..MaxNights,
             ApplyRoomCharges(f, rate, nights)
      PROVE  Goal
  <2>1. rate * nights \in Int
    BY MoneyAssumption
  <2>2. Ticks(rate * nights) \in Int /\ "room_charge" \in LineItemType /\ FALSE \in BOOLEAN
    BY <2>1 DEF LineItemType
  <2>3. Line(f, "room_charge", FALSE, Ticks(rate * nights))
    BY <1>4, <2>1, WholeTicks DEF ApplyRoomCharges
  <2> HIDE DEF Line, Goal
  <2> QED
    BY <1>0, <2>2, <2>3
<1> QED
  BY <1>1, <1>2, <1>3, <1>4 DEF BillingNext, BillingEndpoint, BookingCall

LEMMA NextInvariant == BillingInv /\ [BillingNext]_billingVars => BillingInv'
<1> SUFFICES ASSUME BillingInv, [BillingNext]_billingVars
             PROVE  BillingInv'
  OBVIOUS
<1>1. ASSUME NEW f \in Folios, CloseFolio(f)
      PROVE  BillingInv'
  BY <1>1, StatusInvariant DEF CloseFolio, FolioStatus
<1>2. ASSUME NEW f \in Folios, CreateFolio(f)
      PROVE  BillingInv'
  BY <1>2, StatusInvariant DEF CreateFolio, FolioStatus
<1>3. CASE UNCHANGED billingVars
  BY <1>3 DEF billingVars, BillingInv, BillingTypeOK, BalanceWithinACent
<1> QED
  BY <1>1, <1>2, <1>3, Steps, PostLineInvariant, PostPaymentInvariant

-----------------------------------------------------------------------------
(* The totals and the entries they stand for *)

\* A stored total and the n amounts in `amounts` that it was accumulated from.
\* That it is not negative when none of them is, is what makes it exact: the
\* rounding of a sum is then the sum of the roundings.
Follows(total, amounts, n) ==
    /\ Abs(total - SumFunction(amounts)) <= n
    /\ (\A i \in 1..n : amounts[i] >= 0) => total = SumFunction(amounts) /\ total >= 0

\* Nothing was posted yet.
LEMMA FollowsNothing ==
    ASSUME NEW amounts, DOMAIN amounts = {}
    PROVE  Follows(0, amounts, 0)
<1>1. SumFunction(amounts) = 0
  BY SumByFirst, FS_EmptySet DEF SumFunction
<1> QED
  BY <1>1 DEF Follows, Abs

\* An amount is added to the total and rounded, and is itself rounded when it
\* is recorded.
LEMMA FollowsOneMore ==
    ASSUME NEW n \in Nat, NEW f, NEW g, DOMAIN f = 1..n, DOMAIN g = 1..(n + 1),
           \A i \in 1..n : g[i] = f[i], \A i \in 1..n : f[i] \in Int,
           NEW total \in Int, NEW t \in Int, g[n + 1] = RoundCents(t),
           Follows(total, f, n)
    PROVE  Follows(RoundCents(Ticks(total) + t), g, n + 1)
<1> DEFINE r == RoundCents(t)
           w == RoundCents(Ticks(total) + t)
           sum == SumFunction(f)
<1>1. r \in Int /\ w \in Int
  BY RoundCentsNearest
<1>2. \A i \in 1..(n + 1) : g[i] \in Int
  BY <1>1
<1>3. SumFunction(g) = sum + r /\ sum \in Int
  BY <1>2, SumAppend
<1>4. Abs(w - (r + total)) <= 1
  <2>1. -total \in Int /\ t - Ticks(-total) = Ticks(total) + t
    OBVIOUS
  <2>2. Abs(RoundCents(t - Ticks(-total)) - (r - (-total))) <= 1
    BY <2>1, RoundCentsShift
  <2>3. r - (-total) = r + total
    BY <1>1
  <2> QED
    BY <2>1, <2>2, <2>3
<1>5. (total >= 0 /\ r >= 0) => w = total + r
  BY RoundCentsOnto
<1>6. \A i \in 1..n : g[i] = f[i]
  OBVIOUS
<1>7. n + 1 \in 1..(n + 1) /\ 1..n \subseteq 1..(n + 1) /\ g[n + 1] = r
  OBVIOUS
<1> HIDE DEF r, w, sum
<1>8. Abs(total - sum) <= n
  BY DEF Follows, sum
<1>9. Abs(w - (sum + r)) <= n + 1
  BY <1>1, <1>3, <1>4, <1>8 DEF Abs
<1>10. ASSUME \A i \in 1..(n + 1) : g[i] >= 0
       PROVE  w = sum + r /\ w >= 0
  <2>1. r >= 0 /\ \A i \in 1..n : f[i] >= 0
    BY <1>6, <1>7, <1>10
  <2>2. total = sum /\ total >= 0
    BY <2>1 DEF Follows, sum
  <2> QED
    BY <1>1, <1>3, <1>5, <2>1, <2>2
<1> QED
  BY <1>3, <1>9, <1>10 DEF Follows, w

\* The amounts of the lines of a folio.
LineAmountsOf(f) == [i \in DOMAIN lineItems[f] |-> lineItems[f][i].total]

\* TotalsFollowEntries with the sign of the totals, which it needs to be
\* inductive.
TotalsInv ==
    \A f \in Folios :
        /\ Follows(folio[f].total_charges, LineAmountsOf(f), Len(lineItems[f]))
        /\ Follows(folio[f].total_payments, payments[f], Len(payments[f]))

LEMMA InitTotals == BillingInit => TotalsInv
<1> SUFFICES ASSUME BillingInit, NEW f \in Folios
             PROVE  /\ Follows(folio[f].total_charges, LineAmountsOf(f), Len(lineItems[f]))
                    /\ Follows(folio[f].total_payments, payments[f], Len(payments[f]))
  BY DEF TotalsInv
<1>1. lineItems[f] = <<>> /\ payments[f] = <<>>
  BY DEF BillingInit
<1>2. folio[f].total_charges = 0 /\ folio[f].total_payments = 0
  BY DEF BillingInit, NoFolio
<1>3. DOMAIN LineAmountsOf(f) = {} /\ DOMAIN payments[f] = {}
  BY <1>1 DEF LineAmountsOf
<1>4. Follows(0, LineAmountsOf(f), 0) /\ Follows(0, payments[f], 0)
  BY <1>3, FollowsNothing
<1> QED
  BY <1>1, <1>2, <1>4

\* A line posted on f, whoever does it.
LEMMA PostLineTotals ==
    ASSUME BillingInv, TotalsInv, NEW f \in Folios, NEW type \in LineItemType,
           NEW void \in BOOLEAN, NEW ticks \in Int, PostLine(f, type, void, ticks)
    PROVE  TotalsInv'
<1> DEFINE item == [item_type |-> type, void |-> void, total |-> RoundCents(ticks)]
           n == Len(lineItems[f])
           old == LineAmountsOf(f)
           new == LineAmountsOf(f)'
<1>1. /\ folio' = [folio EXCEPT ![f] = Charged(folio[f], ticks)]
      /\ lineItems' = [lineItems EXCEPT ![f] = Append(lineItems[f], item)]
      /\ UNCHANGED payments
  BY DEF PostLine
<1>2. /\ folio[f] \in FolioRow /\ folio \in [Folios -> FolioRow]
      /\ lineItems \in [Folios -> Seq(LineRow)] /\ lineItems[f] \in Seq(LineRow)
  BY DEF BillingInv, BillingTypeOK
<1>3. n \in Nat /\ DOMAIN lineItems[f] = 1..n
  BY <1>2
<1>4. /\ Len(lineItems'[f]) = n + 1 /\ DOMAIN lineItems'[f] = 1..(n + 1)
      /\ \A i \in 1..n : lineItems'[f][i] = lineItems[f][i]
      /\ lineItems'[f][n + 1] = item
  BY <1>1, <1>2
<1>5. DOMAIN old = 1..n /\ \A i \in 1..n : old[i] \in Int
  <2>1. \A i \in 1..n : lineItems[f][i] \in LineRow
    BY <1>2
  <2>2. \A row \in LineRow : row.total \in Int
    BY DEF LineRow, Cents
  <2>3. DOMAIN old = 1..n /\ \A i \in 1..n : old[i] = lineItems[f][i].total
    BY <1>3 DEF LineAmountsOf
  <2> QED
    BY <2>1, <2>2, <2>3
<1>6. /\ DOMAIN new = 1..(n + 1) /\ \A i \in 1..n : new[i] = old[i]
      /\ new[n + 1] = RoundCents(ticks)
  BY <1>3, <1>4 DEF LineAmountsOf
<1>7. folio[f].total_charges \in Int /\ Follows(folio[f].total_charges, old, n)
  BY <1>2 DEF TotalsInv, FolioRow, Cents
<1>8. /\ folio'[f].total_charges = RoundCents(Ticks(folio[f].total_charges) + ticks)
      /\ folio'[f].total_payments = folio[f].total_payments
  BY <1>1, <1>2 DEF Charged, FolioRow
<1> HIDE DEF item, n, old, new
<1>9. Follows(RoundCents(Ticks(folio[f].total_charges) + ticks), new, n + 1)
  BY <1>3, <1>5, <1>6, <1>7, FollowsOneMore
<1>10. /\ Follows(folio'[f].total_charges, LineAmountsOf(f)', Len(lineItems'[f]))
       /\ Follows(folio'[f].total_payments, payments'[f], Len(payments'[f]))
  <2>1. Follows(folio'[f].total_charges, LineAmountsOf(f)', Len(lineItems'[f]))
    BY <1>4, <1>8, <1>9 DEF new
  <2>2. Follows(folio'[f].total_payments, payments'[f], Len(payments'[f]))
    BY <1>1, <1>8 DEF TotalsInv
  <2> QED
    BY <2>1, <2>2
<1>11. ASSUME NEW h \in Folios, h # f
       PROVE  /\ Follows(folio'[h].total_charges, LineAmountsOf(h)', Len(lineItems'[h]))
              /\ Follows(folio'[h].total_payments, payments'[h], Len(payments'[h]))
  <2>1. folio'[h] = folio[h] /\ lineItems'[h] = lineItems[h] /\ payments'[h] = payments[h]
    BY <1>1, <1>2, <1>11
  <2>2. LineAmountsOf(h)' = LineAmountsOf(h)
    BY <2>1 DEF LineAmountsOf
  <2> QED
    BY <2>1, <2>2 DEF TotalsInv
<1> QED
  BY <1>10, <1>11 DEF TotalsInv

LEMMA PostPaymentTotals ==
    ASSUME BillingInv, TotalsInv, NEW f \in Folios, NEW ticks \in Int,
           PostPayment(f, ticks)
    PROVE  TotalsInv'
<1> DEFINE n == Len(payments[f])
           old == payments[f]
           new == payments'[f]
<1>1. /\ folio' = [folio EXCEPT ![f] = Paid(folio[f], ticks)]
      /\ payments' = [payments EXCEPT ![f] = Append(payments[f], RoundCents(ticks))]
      /\ UNCHANGED lineItems
  BY DEF PostPayment
<1>2. /\ folio[f] \in FolioRow /\ folio \in [Folios -> FolioRow]
      /\ payments \in [Folios -> Seq(Cents)] /\ payments[f] \in Seq(Cents)
  BY DEF BillingInv, BillingTypeOK
<1>3. n \in Nat /\ DOMAIN old = 1..n /\ \A i \in 1..n : old[i] \in Int
  <2>1. n \in Nat /\ DOMAIN old = 1..n /\ \A i \in 1..n : old[i] \in Cents
    BY <1>2
  <2> QED
    BY <2>1 DEF Cents
<1>4. /\ Len(new) = n + 1 /\ DOMAIN new = 1..(n + 1)
      /\ \A i \in 1..n : new[i] = old[i]
      /\ new[n + 1] = RoundCents(ticks)
  BY <1>1, <1>2
<1>5. folio[f].total_payments \in Int /\ Follows(folio[f].total_payments, old, n)
  BY <1>2 DEF TotalsInv, FolioRow, Cents
<1>6. /\ folio'[f].total_payments = RoundCents(Ticks(folio[f].total_payments) + ticks)
      /\ folio'[f].total_charges = folio[f].total_charges
  BY <1>1, <1>2 DEF Paid, FolioRow
<1> HIDE DEF n, old, new
<1>7. Follows(RoundCents(Ticks(folio[f].total_payments) + ticks), new, n + 1)
  BY <1>3, <1>4, <1>5, FollowsOneMore
<1>8. \A h \in Folios : LineAmountsOf(h)' = LineAmountsOf(h)
  BY <1>1 DEF LineAmountsOf
<1>9. /\ Follows(folio'[f].total_payments, payments'[f], Len(payments'[f]))
      /\ Follows(folio'[f].total_charges, LineAmountsOf(f)', Len(lineItems'[f]))
  <2>1. Follows(folio'[f].total_payments, payments'[f], Len(payments'[f]))
    BY <1>4, <1>6, <1>7 DEF new
  <2>2. Follows(folio'[f].total_charges, LineAmountsOf(f)', Len(lineItems'[f]))
    BY <1>1, <1>6, <1>8 DEF TotalsInv
  <2> QED
    BY <2>1, <2>2
<1>10. ASSUME NEW h \in Folios, h # f
       PROVE  /\ Follows(folio'[h].total_charges, LineAmountsOf(h)', Len(lineItems'[h]))
              /\ Follows(folio'[h].total_payments, payments'[h], Len(payments'[h]))
  <2>1. folio'[h] = folio[h] /\ lineItems'[h] = lineItems[h] /\ payments'[h] = payments[h]
    BY <1>1, <1>2, <1>10
  <2> QED
    BY <1>8, <2>1 DEF TotalsInv
<1> QED
  BY <1>9, <1>10 DEF TotalsInv

\* Opening or closing a folio, or nothing at all.
LEMMA StatusTotals ==
    ASSUME BillingInv, TotalsInv, UNCHANGED <<lineItems, payments>>,
           \A f \in Folios : /\ folio'[f].total_charges = folio[f].total_charges
                             /\ folio'[f].total_payments = folio[f].total_payments
    PROVE  TotalsInv'
<1>1. \A f \in Folios : LineAmountsOf(f)' = LineAmountsOf(f)
  BY DEF LineAmountsOf
<1> QED
  BY <1>1 DEF TotalsInv

LEMMA NextTotals == BillingInv /\ TotalsInv /\ [BillingNext]_billingVars => TotalsInv'
<1> SUFFICES ASSUME BillingInv, TotalsInv, [BillingNext]_billingVars
             PROVE  TotalsInv'
  OBVIOUS
<1>1. ASSUME NEW f \in Folios, CloseFolio(f) \/ CreateFolio(f)
      PROVE  TotalsInv'
  <2>1. \A h \in Folios : folio[h] \in FolioRow
    BY DEF BillingInv, BillingTypeOK
  <2>2. folio \in [Folios -> FolioRow]
    BY DEF BillingInv, BillingTypeOK
  <2>3. PICK s : folio' = [folio EXCEPT ![f].status = s]
    BY <1>1 DEF CloseFolio, CreateFolio
  <2>4. \A h \in Folios : /\ folio'[h].total_charges = folio[h].total_charges
                          /\ folio'[h].total_payments = folio[h].total_payments
    BY <2>1, <2>2, <2>3 DEF FolioRow
  <2>5. UNCHANGED <<lineItems, payments>>
    BY <1>1 DEF CloseFolio, CreateFolio
  <2> QED
    BY <2>4, <2>5, StatusTotals
<1>2. CASE UNCHANGED billingVars
  BY <1>2, StatusTotals DEF billingVars
<1> QED
  BY <1>1, <1>2, Steps, PostLineTotals, PostPaymentTotals

LEMMA TotalsOfInvariant ==
    ASSUME BillingInv, TotalsInv
    PROVE  TotalsFollowEntries
<1> SUFFICES ASSUME NEW f \in Folios
             PROVE  /\ Abs(folio[f].total_charges - LineTotal(f)) <= Len(lineItems[f])
                    /\ Abs(folio[f].total_payments - PaymentTotal(f)) <= Len(payments[f])
                    /\ (\A i \in DOMAIN lineItems[f] : lineItems[f][i].total >= 0)
                          => folio[f].total_charges = LineTotal(f)
                    /\ (\A i \in DOMAIN payments[f] : payments[f][i] >= 0)
                          => folio[f].total_payments = PaymentTotal(f)
  BY Zenon DEF TotalsFollowEntries
<1>1. lineItems[f] \in Seq(LineRow) /\ payments[f] \in Seq(Cents)
  BY DEF BillingInv, BillingTypeOK
<1>2. DOMAIN lineItems[f] = 1..Len(lineItems[f]) /\ DOMAIN payments[f] = 1..Len(payments[f])
  BY <1>1
<1>3. LineTotal(f) = SumFunction(LineAmountsOf(f)) /\ PaymentTotal(f) = SumFunction(payments[f])
  BY Zenon DEF LineTotal, PaymentTotal, LineAmountsOf
<1>4. \A i \in DOMAIN lineItems[f] : LineAmountsOf(f)[i] = lineItems[f][i].total
  BY DEF LineAmountsOf
<1>5. /\ Follows(folio[f].total_charges, LineAmountsOf(f), Len(lineItems[f]))
      /\ Follows(folio[f].total_payments, payments[f], Len(payments[f]))
  BY DEF TotalsInv
<1> QED
  BY <1>2, <1>3, <1>4, <1>5 DEF Follows

-----------------------------------------------------------------------------
(* Whole cents *)

\* ExactBooks for one folio.
Exact(f) ==
    /\ folio[f].total_charges = SumFunction(LineAmountsOf(f))
    /\ folio[f].total_payments = SumFunction(payments[f])
    /\ folio[f].balance = folio[f].total_charges - folio[f].total_payments

ExactInv == WholeCents => \A f \in Folios : Exact(f)

\* Rounding has nothing to do to whole cents.
LEMMA WholeRounded ==
    ASSUME NEW t \in Int, t % TicksPerCent = 0, NEW c \in Int
    PROVE  RoundCents(Ticks(c) + t) = c + RoundCents(t)
<1> DEFINE k == t \div 100
<1>1. k \in Int /\ t = 100 * k
  OBVIOUS
<1> HIDE DEF k
<1>2. RoundCents(Ticks(k)) = k /\ RoundCents(Ticks(c + k)) = c + k
  BY <1>1, RoundCentsExact
<1>3. t = Ticks(k) /\ Ticks(c) + t = Ticks(c + k)
  BY <1>1
<1> QED
  BY <1>2, <1>3

LEMMA InitExact == BillingInit => ExactInv
<1> SUFFICES ASSUME BillingInit, NEW f \in Folios
             PROVE  Exact(f)
  BY DEF ExactInv
<1>1. lineItems[f] = <<>> /\ payments[f] = <<>> /\ folio[f] = NoFolio
  BY DEF BillingInit
<1>2. DOMAIN LineAmountsOf(f) = {} /\ DOMAIN payments[f] = {}
  BY <1>1 DEF LineAmountsOf
<1>3. SumFunction(LineAmountsOf(f)) = 0 /\ SumFunction(payments[f]) = 0
  BY <1>2, SumByFirst, FS_EmptySet DEF SumFunction
<1> QED
  BY <1>1, <1>3 DEF Exact, NoFolio

LEMMA PostLineExact ==
    ASSUME BillingInv, NEW f \in Folios, NEW type \in LineItemType, NEW void \in BOOLEAN,
           NEW ticks \in Int, ticks % TicksPerCent = 0, PostLine(f, type, void, ticks),
           \A h \in Folios : Exact(h)
    PROVE  \A h \in Folios : Exact(h)'
<1> DEFINE item == [item_type |-> type, void |-> void, total |-> RoundCents(ticks)]
           n == Len(lineItems[f])
           old == LineAmountsOf(f)
           new == LineAmountsOf(f)'
           c == folio[f].total_charges
           p == folio[f].total_payments
           r == RoundCents(ticks)
<1>1. /\ folio' = [folio EXCEPT ![f] = Charged(folio[f], ticks)]
      /\ lineItems' = [lineItems EXCEPT ![f] = Append(lineItems[f], item)]
      /\ UNCHANGED payments
      /\ r \in Int
  BY RoundCentsNearest DEF PostLine
<1>2. /\ folio[f] \in FolioRow /\ folio \in [Folios -> FolioRow]
      /\ lineItems \in [Folios -> Seq(LineRow)] /\ lineItems[f] \in Seq(LineRow)
  BY DEF BillingInv, BillingTypeOK
<1>3. n \in Nat /\ DOMAIN lineItems[f] = 1..n /\ c \in Int /\ p \in Int
  BY <1>2 DEF FolioRow, Cents
<1>4. /\ DOMAIN lineItems'[f] = 1..(n + 1)
      /\ \A i \in 1..n : lineItems'[f][i] = lineItems[f][i]
      /\ lineItems'[f][n + 1] = item
  BY <1>1, <1>2
<1>5. \A i \in 1..n : old[i] \in Int
  <2>1. \A i \in 1..n : lineItems[f][i] \in LineRow
    BY <1>2
  <2>2. \A row \in LineRow : row.total \in Int
    BY DEF LineRow, Cents
  <2>3. \A i \in 1..n : old[i] = lineItems[f][i].total
    BY <1>3 DEF LineAmountsOf
  <2> QED
    BY <2>1, <2>2, <2>3
<1>6. /\ DOMAIN old = 1..n /\ DOMAIN new = 1..(n + 1)
      /\ \A i \in 1..n : new[i] = old[i]
      /\ new[n + 1] = r
  <2>1. DOMAIN old = 1..n /\ DOMAIN new = 1..(n + 1)
    BY <1>3, <1>4 DEF LineAmountsOf
  <2>2. \A i \in 1..n : new[i] = old[i]
    BY <1>3, <1>4 DEF LineAmountsOf
  <2>3. new[n + 1] = r
    BY <1>3, <1>4 DEF LineAmountsOf
  <2> QED
    BY <2>1, <2>2, <2>3
<1>7. SumFunction(new) = SumFunction(old) + r /\ SumFunction(old) \in Int
  <2> HIDE DEF item, n, old, new, r
  <2>1. \A i \in 1..(n + 1) : new[i] \in Int
    BY <1>1, <1>3, <1>5, <1>6
  <2> QED
    BY <1>3, <1>6, <2>1, SumAppend
<1>8. /\ RoundCents(Ticks(c) + ticks) = c + r
      /\ RoundCents((Ticks(c) + ticks) - Ticks(p)) = (c - p) + r
  <2>1. RoundCents(Ticks(c) + ticks) = c + r
    BY <1>3, WholeRounded
  <2>2. c - p \in Int /\ (Ticks(c) + ticks) - Ticks(p) = Ticks(c - p) + ticks
    <3> HIDE DEF c, p
    <3> QED
      BY <1>3
  <2>3. RoundCents(Ticks(c - p) + ticks) = (c - p) + r
    BY <2>2, WholeRounded
  <2> QED
    BY <2>1, <2>2, <2>3
<1>9. /\ folio'[f].total_charges = c + r /\ folio'[f].total_payments = p
      /\ folio'[f].balance = (c - p) + r
  BY <1>1, <1>2, <1>8 DEF Charged, FolioRow
<1>10. Exact(f)'
  <2>1. c = SumFunction(old) /\ p = SumFunction(payments[f])
    BY DEF Exact
  <2> HIDE DEF item, n, old, c, p, r
  <2> QED
    BY <1>1, <1>3, <1>7, <1>9, <2>1 DEF Exact
<1>11. ASSUME NEW h \in Folios, h # f
       PROVE  Exact(h)'
  <2>1. folio'[h] = folio[h] /\ lineItems'[h] = lineItems[h] /\ payments'[h] = payments[h]
    BY <1>1, <1>2, <1>11
  <2>2. LineAmountsOf(h)' = LineAmountsOf(h)
    BY <2>1 DEF LineAmountsOf
  <2> QED
    BY <2>1, <2>2 DEF Exact
<1> QED
  BY <1>10, <1>11

LEMMA PostPaymentExact ==
    ASSUME BillingInv, NEW f \in Folios, NEW ticks \in Int, ticks % TicksPerCent = 0,
           PostPayment(f, ticks), \A h \in Folios : Exact(h)
    PROVE  \A h \in Folios : Exact(h)'
<1> DEFINE n == Len(payments[f])
           old == payments[f]
           new == payments'[f]
           c == folio[f].total_charges
           p == folio[f].total_payments
           r == RoundCents(ticks)
<1>1. /\ folio' = [folio EXCEPT ![f] = Paid(folio[f], ticks)]
      /\ payments' = [payments EXCEPT ![f] = Append(payments[f], r)]
      /\ UNCHANGED lineItems
      /\ r \in Int
  BY RoundCentsNearest DEF PostPayment
<1>2. /\ folio[f] \in FolioRow /\ folio \in [Folios -> FolioRow]
      /\ payments \in [Folios -> Seq(Cents)] /\ payments[f] \in Seq(Cents)
  BY DEF BillingInv, BillingTypeOK
<1>3. /\ n \in Nat /\ DOMAIN old = 1..n /\ \A i \in 1..n : old[i] \in Cents
      /\ c \in Int /\ p \in Int
  <2>1. n \in Nat /\ DOMAIN old = 1..n /\ \A i \in 1..n : old[i] \in Cents
    BY <1>2
  <2> QED
    BY <1>2, <2>1 DEF FolioRow, Cents
<1>4. DOMAIN new = 1..(n + 1) /\ (\A i \in 1..n : new[i] = old[i]) /\ new[n + 1] = r
  BY <1>1, <1>2
<1>5. SumFunction(new) = SumFunction(old) + r /\ SumFunction(old) \in Int
  <2> HIDE DEF n, old, new, r
  <2>1. \A i \in 1..(n + 1) : new[i] \in Int
    BY <1>1, <1>3, <1>4 DEF Cents
  <2> QED
    BY <1>3, <1>4, <2>1, SumAppend
<1>6. /\ RoundCents(Ticks(p) + ticks) = p + r
      /\ RoundCents(Ticks(c) - (Ticks(p) + ticks)) = c - (p + r)
  <2>1. RoundCents(Ticks(p) + ticks) = p + r
    BY <1>3, WholeRounded
  <2> DEFINE k == ticks \div 100
  <2>2. k \in Int /\ ticks = Ticks(k)
    OBVIOUS
  <2> HIDE DEF k
  <2>3. r = k
    BY <2>2, RoundCentsExact
  <2>4. c - (p + k) \in Int /\ Ticks(c) - (Ticks(p) + ticks) = Ticks(c - (p + k))
    <3> HIDE DEF c, p
    <3> QED
      BY <1>3, <2>2
  <2>5. RoundCents(Ticks(c - (p + k))) = c - (p + k)
    BY <2>4, RoundCentsExact
  <2> QED
    BY <2>1, <2>3, <2>4, <2>5
<1>7. /\ folio'[f].total_payments = p + r /\ folio'[f].total_charges = c
      /\ folio'[f].balance = c - (p + r)
  BY <1>1, <1>2, <1>6 DEF Paid, FolioRow
<1>8. \A h \in Folios : LineAmountsOf(h)' = LineAmountsOf(h)
  BY <1>1 DEF LineAmountsOf
<1>9. Exact(f)'
  <2>1. c = SumFunction(LineAmountsOf(f)) /\ p = SumFunction(old)
    BY DEF Exact
  <2> HIDE DEF n, old, c, p, r
  <2> QED
    BY <1>3, <1>5, <1>7, <1>8, <2>1 DEF Exact
<1>10. ASSUME NEW h \in Folios, h # f
       PROVE  Exact(h)'
  <2>1. folio'[h] = folio[h] /\ payments'[h] = payments[h]
    BY <1>1, <1>2, <1>10
  <2> QED
    BY <1>8, <2>1 DEF Exact
<1> QED
  BY <1>9, <1>10

LEMMA NextExact == BillingInv /\ ExactInv /\ [BillingNext]_billingVars => ExactInv'
<1> SUFFICES ASSUME BillingInv, WholeCents, [BillingNext]_billingVars,
                    \A f \in Folios : Exact(f)
             PROVE  \A f \in Folios : Exact(f)'
  BY DEF ExactInv, WholeCents
<1>1. ASSUME NEW f \in Folios, CloseFolio(f) \/ CreateFolio(f)
      PROVE  \A h \in Folios : Exact(h)'
  <2>1. /\ folio \in [Folios -> FolioRow] /\ UNCHANGED <<lineItems, payments>>
        /\ \A h \in Folios : folio[h] \in FolioRow
    BY <1>1 DEF BillingInv, BillingTypeOK, CloseFolio, CreateFolio
  <2>2. PICK s : folio' = [folio EXCEPT ![f].status = s]
    BY <1>1 DEF CloseFolio, CreateFolio
  <2>3. \A h \in Folios : /\ folio'[h].total_charges = folio[h].total_charges
                          /\ folio'[h].total_payments = folio[h].total_payments
                          /\ folio'[h].balance = folio[h].balance
    BY <2>1, <2>2 DEF FolioRow
  <2>4. \A h \in Folios : LineAmountsOf(h)' = LineAmountsOf(h)
    BY <2>1 DEF LineAmountsOf
  <2> QED
    BY <2>1, <2>3, <2>4 DEF Exact
<1>2. CASE UNCHANGED billingVars
  <2>1. \A h \in Folios : LineAmountsOf(h)' = LineAmountsOf(h)
    BY <1>2 DEF LineAmountsOf, billingVars
  <2> QED
    BY <1>2, <2>1 DEF Exact, billingVars
<1> QED
  BY <1>1, <1>2, Steps, PostLineExact, PostPaymentExact DEF Whole

LEMMA BooksOfInvariant == ExactInv => ExactBooks
  BY DEF ExactInv, ExactBooks, Exact, LineTotal, PaymentTotal, LineAmountsOf

-----------------------------------------------------------------------------
(* What a step leaves alone *)

LEMMA PrefixSelf ==
    ASSUME NEW S, NEW s \in Seq(S)
    PROVE  IsPrefix(s, s)
  BY DEF IsPrefix

LEMMA PrefixAppend ==
    ASSUME NEW S, NEW s \in Seq(S), NEW e \in S
    PROVE  IsPrefix(s, Append(s, e))
<1>1. Len(s) \in Nat /\ Len(Append(s, e)) = Len(s) + 1
  OBVIOUS
<1>2. SubSeq(s, 1, Len(s)) = SubSeq(Append(s, e), 1, Len(s))
  OBVIOUS
<1> QED
  BY <1>1, <1>2 DEF IsPrefix

\* What AuditTrail says of a step, for one folio.
Audited(f) ==
    /\ IsPrefix(lineItems[f], lineItems'[f])
    /\ IsPrefix(payments[f], payments'[f])
    /\ folio[f].status = "closed" =>
         /\ folio'[f].status = "closed"
         /\ payments'[f] = payments[f]
         /\ \A i \in DOMAIN lineItems'[f] \ DOMAIN lineItems[f] :
               lineItems'[f][i].item_type = "room_charge"

LEMMA AuditedWhenUnchanged ==
    ASSUME BillingTypeOK, NEW f \in Folios,
           lineItems'[f] = lineItems[f], payments'[f] = payments[f],
           folio[f].status = "closed" => folio'[f].status = "closed"
    PROVE  Audited(f)
<1>1. lineItems[f] \in Seq(LineRow) /\ payments[f] \in Seq(Cents)
  BY DEF BillingTypeOK
<1> QED
  BY <1>1, PrefixSelf DEF Audited

LEMMA PostLineAudited ==
    ASSUME BillingTypeOK, NEW f \in Folios, NEW type \in LineItemType,
           NEW void \in BOOLEAN, NEW ticks \in Int, PostLine(f, type, void, ticks),
           folio[f].status = "open" \/ type = "room_charge"
    PROVE  \A h \in Folios : Audited(h)
<1> DEFINE item == [item_type |-> type, void |-> void, total |-> RoundCents(ticks)]
<1>1. /\ folio' = [folio EXCEPT ![f] = Charged(folio[f], ticks)]
      /\ lineItems' = [lineItems EXCEPT ![f] = Append(lineItems[f], item)]
      /\ UNCHANGED payments
      /\ item \in LineRow
  BY DEF PostLine, LineRow
<1>2. /\ folio \in [Folios -> FolioRow] /\ lineItems \in [Folios -> Seq(LineRow)]
      /\ lineItems[f] \in Seq(LineRow) /\ payments[f] \in Seq(Cents)
  BY DEF BillingTypeOK
<1>3. ASSUME NEW h \in Folios, h # f
      PROVE  Audited(h)
  BY <1>1, <1>2, <1>3, AuditedWhenUnchanged
<1>4. Audited(f)
  <2>1. IsPrefix(lineItems[f], lineItems'[f])
    <3> HIDE DEF item
    <3> QED
      BY <1>1, <1>2, PrefixAppend
  <2>2. IsPrefix(payments[f], payments'[f])
    BY <1>1, <1>2, PrefixSelf
  <2>3. folio'[f].status = folio[f].status
    BY <1>1, <1>2 DEF Charged, FolioRow
  <2>4. ASSUME folio[f].status = "closed",
               NEW i \in DOMAIN lineItems'[f] \ DOMAIN lineItems[f]
        PROVE  lineItems'[f][i].item_type = "room_charge"
    <3>1. lineItems'[f][i] = item
      BY <1>1, <1>2
    <3> QED
      BY <2>4, <3>1
  <2> QED
    BY <1>1, <2>1, <2>2, <2>3, <2>4 DEF Audited
<1> QED
  BY <1>3, <1>4

LEMMA PostPaymentAudited ==
    ASSUME BillingTypeOK, NEW f \in Folios, NEW ticks \in Int, PostPayment(f, ticks)
    PROVE  \A h \in Folios : Audited(h)
<1>1. /\ folio' = [folio EXCEPT ![f] = Paid(folio[f], ticks)]
      /\ payments' = [payments EXCEPT ![f] = Append(payments[f], RoundCents(ticks))]
      /\ UNCHANGED lineItems
      /\ RoundCents(ticks) \in Cents
      /\ folio[f].status = "open"
  BY DEF PostPayment
<1>2. /\ folio \in [Folios -> FolioRow] /\ payments \in [Folios -> Seq(Cents)]
      /\ lineItems[f] \in Seq(LineRow) /\ payments[f] \in Seq(Cents)
  BY DEF BillingTypeOK
<1>3. ASSUME NEW h \in Folios, h # f
      PROVE  Audited(h)
  BY <1>1, <1>2, <1>3, AuditedWhenUnchanged
<1>4. IsPrefix(lineItems[f], lineItems'[f])
  BY <1>1, <1>2, PrefixSelf
<1>5. IsPrefix(payments[f], payments'[f])
  BY <1>1, <1>2, PrefixAppend
<1> QED
  BY <1>1, <1>3, <1>4, <1>5 DEF Audited

LEMMA StepAudited ==
    ASSUME BillingInv, [BillingNext]_billingVars
    PROVE  \A h \in Folios : Audited(h)
<1>1. BillingTypeOK
  BY DEF BillingInv
<1>2. ASSUME NEW f \in Folios, CloseFolio(f) \/ CreateFolio(f), NEW h \in Folios
      PROVE  Audited(h)
  <2>1. folio \in [Folios -> FolioRow] /\ UNCHANGED <<lineItems, payments>>
    BY <1>1, <1>2 DEF BillingTypeOK, CloseFolio, CreateFolio
  <2>2. \/ folio' = [folio EXCEPT ![f].status = "closed"]
        \/ folio' = [folio EXCEPT ![f].status = "open"] /\ folio[f].status = "none"
    BY <1>2 DEF CloseFolio, CreateFolio
  <2>3. folio[h].status = "closed" => folio'[h].status = "closed"
    BY <2>1, <2>2 DEF FolioRow
  <2> QED
    BY <1>1, <2>1, <2>3, AuditedWhenUnchanged
<1>3. CASE UNCHANGED billingVars
  BY <1>1, <1>3, AuditedWhenUnchanged DEF billingVars
<1> QED
  BY <1>1, <1>2, <1>3, Steps, PostLineAudited, PostPaymentAudited

-----------------------------------------------------------------------------
(* Theorems *)

\* Every stored amount fits its column and every row is well formed.
THEOREM BillingTypes == BillingSpec => []BillingTypeOK
<1>1. BillingInv => BillingTypeOK
  BY DEF BillingInv
<1> QED
  BY InitInvariant, NextInvariant, <1>1, PTL DEF BillingSpec

\* The stored balance never drifts more than a cent from charges less
\* payments, whatever is posted and however often.
THEOREM BalanceBound == BillingSpec => []BalanceWithinACent
<1>1. BillingInv => BalanceWithinACent
  BY DEF BillingInv
<1> QED
  BY InitInvariant, NextInvariant, <1>1, PTL DEF BillingSpec

\* The totals stored in a folio follow its lines and its payments, within a
\* cent an entry, and exactly while nothing negative was posted: each entry is
\* rounded when it is written and so is the total it is added to.
THEOREM TotalsFollow == BillingSpec => []TotalsFollowEntries
  BY InitInvariant, NextInvariant, InitTotals, NextTotals, TotalsOfInvariant, PTL
     DEF BillingSpec

\* The audit trail: lines and payments are only appended, a closed folio stays
\* closed and takes no payment, and all that is still written on it is the room
\* charge of a check-in or check-out, which does not ask for an open folio.
THEOREM TrailKept == BillingSpec => AuditTrail
<1>1. ASSUME BillingInv, [BillingNext]_billingVars
      PROVE  [\A f \in Folios :
                /\ IsPrefix(lineItems[f], lineItems'[f])
                /\ IsPrefix(payments[f], payments'[f])
                /\ folio[f].status = "closed" =>
                     /\ folio'[f].status = "closed"
                     /\ payments'[f] = payments[f]
                     /\ \A i \in DOMAIN lineItems'[f] \ DOMAIN lineItems[f] :
                           lineItems'[f][i].item_type = "room_charge"]_billingVars
  BY <1>1, StepAudited DEF Audited
<1> QED
  BY InitInvariant, NextInvariant, <1>1, PTL DEF BillingSpec, AuditTrail

\* When only whole cents are posted the three totals of every folio are exactly
\* what models/billing.py:48 says of them, as long as requests come one at a
\* time.
THEOREM BooksExact == BillingSpec => []ExactBooks
  BY InitInvariant, NextInvariant, InitExact, NextExact, BooksOfInvariant, PTL
     DEF BillingSpec
=============================================================================

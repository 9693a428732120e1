--------------------------- MODULE SpeedNumberProofs ---------------------------
(***************************************************************************)
(* The speed of an RMC sentence, from its text to thousandths of km/h, for *)
(* every field, every width of the integers and every number of decimals.  *)
(***************************************************************************)
EXTENDS MinmeaField, SpeedConversion, WellFoundedInduction, FiniteSetTheorems,
        TLAPS

\* While the loop runs the value is -1 or a number that fits, and only the end
\* of the scan gives it a sign.
ScanInv ==
    /\ sign \in {-1, 0, 1}
    /\ field \in Seq(FieldChars) /\ pos \in Nat \ {0}
    /\ st \in {"scan", "end", "ok", "error"}
    /\ value \in -IntMax .. IntMax
    /\ st \in {"scan", "end"} => value >= -1

(* The test of minmea_scan against (INT_LEAST32_MAX-digit) / 10 is exact:  *)
(* a digit it lets pass can be appended without overflow.                  *)
LEMMA AppendFits ==
    ASSUME NEW v \in 0 .. IntMax, NEW d \in 0 .. 9, ~(v > (IntMax - d) \div 10)
    PROVE  10 * v + d \in 0 .. IntMax
BY IntMaxAssumption

(* The scan of case 'f' keeps ScanInv, one step per branch of its loop.    *)
LEMMA ScanStep ==
    ASSUME ScanInv, [Next]_vars
    PROVE  ScanInv'
<1> USE IntMaxAssumption, FieldAssumption
<1>1. ASSUME ScanSign PROVE ScanInv'
  BY <1>1 DEF ScanInv, ScanSign, At, Fail
<1>2. ASSUME ScanDigit PROVE ScanInv'
  <2> DEFINE d == field[pos] - 48
  <2>1. pos \in 1 .. Len(field) /\ st = "scan" /\ isdigit(field[pos])
    BY <1>2 DEF ScanDigit, ScanInv
  <2>2. d \in 0 .. 9
    BY <2>1 DEF isdigit
  <2>3. Digits \in 0 .. IntMax
    BY <2>1 DEF Digits, ScanInv
  <2>4. CASE RanOut(d)
    BY <1>2, <2>1, <2>3, <2>4 DEF ScanDigit, StopAt, Fail, ScanInv
  <2>5. CASE ~RanOut(d)
    <3>1. 10 * Digits + d \in 0 .. IntMax
      BY <2>2, <2>3, <2>5, AppendFits DEF RanOut
    <3>2. value' = 10 * Digits + d /\ pos' = pos + 1
          /\ UNCHANGED <<field, sign, st>>
      BY <1>2, <2>5 DEF ScanDigit, Accept
    <3> QED BY <3>1, <3>2, <2>1 DEF ScanInv
  <2> QED BY <2>4, <2>5
<1>3. ASSUME ScanDot PROVE ScanInv'
  BY <1>3 DEF ScanInv, ScanDot, At, Fail
<1>4. ASSUME ScanSpace PROVE ScanInv'
  BY <1>4 DEF ScanInv, ScanSpace, At, Fail
<1>5. ASSUME ScanOther \/ EndOfField PROVE ScanInv'
  BY <1>5 DEF ScanInv, ScanOther, EndOfField, Fail
<1>6. ASSUME Finish PROVE ScanInv'
  BY <1>6 DEF ScanInv, Finish, Fail
<1>7. ASSUME UNCHANGED vars PROVE ScanInv'
  BY <1>7 DEF ScanInv, vars
<1> QED BY <1>1, <1>2, <1>3, <1>4, <1>5, <1>6, <1>7 DEF Next

(* However long the field and whatever its digits, value stays an          *)
(* int_least32_t: scanning a fractional field cannot overflow it.          *)
THEOREM ValueNeverOverflows == Spec => []ValueFits
<1>1. Init => ScanInv
  BY IntMaxAssumption, FieldAssumption DEF Init, ScanInv
<1>2. ScanInv /\ [Next]_vars => ScanInv'
  BY ScanStep
<1>3. ScanInv => ValueFits
  BY DEF ScanInv, ValueFits
<1> QED BY <1>1, <1>2, <1>3, PTL DEF Spec
-----------------------------------------------------------------------------
(* A number that fits an int_least32_t is not changed.                     *)
LEMMA WrapFits == ASSUME NEW n \in -IntMax .. IntMax PROVE Wrap(n) = n
<1>0. IntMax \in Nat /\ U32 \in Nat /\ U32 = 2 * IntMax + 2 /\ n \in Int
  BY IntMaxAssumption DEF U32
<1>1. CASE n >= 0
  <2>1. n % U32 = n
    BY <1>0, <1>1
  <2>. QED  BY <1>0, <1>1, <2>1 DEF Wrap
<1>2. CASE n < 0
  <2>1. n % U32 = n + U32
    BY <1>0, <1>2
  <2>. QED  BY <1>0, <1>2, <2>1 DEF Wrap
<1>. QED  BY <1>0, <1>1, <1>2

(* A set of numbers has a least one.                                       *)
LEMMA NatMin ==
    ASSUME NEW S, S \subseteq Nat, S # {}
    PROVE  \E x \in S : \A y \in S : x <= y
<1> DEFINE R == OpToRel(<, Nat)
<1>1. IsWellFoundedOn(R, Nat)
  BY NatLessThanWellFounded
<1> HIDE DEF R
<1>2. \E x \in S : \A y \in S : ~(<<y, x>> \in R)
  BY <1>1, WFMin
<1>3. \A x, y \in Nat : x <= y \/ <<y, x>> \in R
  BY DEF R, OpToRel
<1>. QED  BY <1>2, <1>3

(* What holds of 0, and of a number whenever of the one before, holds of   *)
(* all.                                                                    *)
LEMMA SetInduction ==
    ASSUME NEW P, 0 \in P, \A n \in Nat : n \in P => n + 1 \in P
    PROVE  Nat \subseteq P
<1> DEFINE S == {n \in Nat : n \notin P}
<1> SUFFICES ASSUME S # {} PROVE FALSE
  OBVIOUS
<1>1. PICK x \in S : \A y \in S : x <= y
  <2>1. S \subseteq Nat
    OBVIOUS
  <2> HIDE DEF S
  <2>. QED  BY <2>1, NatMin
<1>2. x - 1 \in Nat /\ (x - 1) + 1 = x /\ ~(x <= x - 1)
  OBVIOUS
<1>3. x - 1 \in P
  BY <1>1, <1>2
<1>. QED  BY <1>2, <1>3

(* A recursive definition over the numbers defines something: F[n] is its  *)
(* step from n to n + 1.                                                   *)
Runs(f, N, a, F) ==
    f[0] = a /\ \A k \in Nat : k < N => f[k + 1] = F[k][f[k]]

(* Two functions that follow the steps F agree as far as both do.          *)
LEMMA RunsAgree ==
    ASSUME NEW F, NEW a, NEW f, NEW g, NEW N \in Nat, NEW M \in Nat,
           Runs(f, N, a, F), Runs(g, M, a, F)
    PROVE  \A k \in Nat : k <= N /\ k <= M => f[k] = g[k]
<1> DEFINE P == {k \in Nat : k <= N /\ k <= M => f[k] = g[k]}
<1>1. 0 \in P
  BY DEF Runs
<1>2. ASSUME NEW n \in Nat, n \in P PROVE n + 1 \in P
  <2> SUFFICES ASSUME n + 1 <= N, n + 1 <= M PROVE f[n + 1] = g[n + 1]
    OBVIOUS
  <2>1. n < N /\ n < M /\ f[n] = g[n]
    BY <1>2
  <2>. QED  BY <2>1 DEF Runs
<1>3. Nat \subseteq P
  <2> HIDE DEF P
  <2>. QED  BY <1>1, <1>2, SetInduction
<1>. QED  BY <1>3

(* A function can follow them as far as one likes,                         *)
LEMMA RunsExist ==
    ASSUME NEW S, NEW a \in S, NEW F \in [Nat -> [S -> S]]
    PROVE  \A N \in Nat : \E f \in [Nat -> S] : Runs(f, N, a, F)
<1> DEFINE P == {N \in Nat : \E f \in [Nat -> S] : Runs(f, N, a, F)}
<1>1. 0 \in P
  <2> DEFINE f == [k \in Nat |-> a]
  <2>1. f \in [Nat -> S] /\ Runs(f, 0, a, F)
    BY DEF Runs
  <2>. QED  BY <2>1
<1>2. ASSUME NEW n \in Nat, n \in P PROVE n + 1 \in P
  <2>1. PICK f \in [Nat -> S] : Runs(f, n, a, F)
    BY <1>2
  <2> DEFINE g == [k \in Nat |-> IF k = n + 1 THEN F[n][f[n]] ELSE f[k]]
  <2>2. F[n][f[n]] \in S
    OBVIOUS
  <2>3. g \in [Nat -> S]
    BY <2>2
  <2>4. g[0] = a
    BY <2>1 DEF Runs
  <2>5. ASSUME NEW k \in Nat, k < n + 1 PROVE g[k + 1] = F[k][g[k]]
    <3>1. k # n + 1 /\ g[k] = f[k]
      BY <2>5
    <3>2. CASE k = n
      BY <3>1, <3>2
    <3>3. CASE k # n
      <4>1. k < n /\ k + 1 # n + 1 /\ k + 1 \in Nat
        BY <2>5, <3>3
      <4>2. g[k + 1] = f[k + 1] /\ f[k + 1] = F[k][f[k]]
        BY <2>1, <4>1 DEF Runs
      <4>. QED  BY <3>1, <4>2
    <3>. QED  BY <3>2, <3>3
  <2> HIDE DEF g
  <2>6. Runs(g, n + 1, a, F)
    BY <2>4, <2>5 DEF Runs
  <2>. QED  BY <2>3, <2>6
<1>3. Nat \subseteq P
  <2> HIDE DEF P
  <2>. QED  BY <1>1, <1>2, SetInduction
<1>. QED  BY <1>3

Solves(f, S, a, F) ==
    f \in [Nat -> S] /\ f[0] = a /\ \A k \in Nat : f[k + 1] = F[k][f[k]]

(* and so there is one that always does.                                   *)
LEMMA Recursion ==
    ASSUME NEW S, NEW a \in S, NEW F \in [Nat -> [S -> S]]
    PROVE  \E f : Solves(f, S, a, F)
<1> DEFINE r[N \in Nat] == CHOOSE f \in [Nat -> S] : Runs(f, N, a, F)
           f == [k \in Nat |-> r[k][k]]
<1>1. \A N \in Nat : r[N] \in [Nat -> S] /\ Runs(r[N], N, a, F)
  BY RunsExist
<1> HIDE DEF r
<1>2. f \in [Nat -> S]
  BY <1>1
<1>3. f[0] = a
  BY <1>1 DEF Runs
<1>4. ASSUME NEW k \in Nat PROVE f[k + 1] = F[k][f[k]]
  <2>1. k + 1 \in Nat /\ k <= k /\ k <= k + 1 /\ k < k + 1
    OBVIOUS
  <2>2. r[k + 1][k] = r[k][k]
    BY <1>1, <2>1, RunsAgree
  <2>3. r[k + 1][k + 1] = F[k][r[k + 1][k]]
    BY <1>1, <2>1 DEF Runs
  <2>. QED  BY <2>1, <2>2, <2>3
<1>. QED  BY <1>2, <1>3, <1>4 DEF Solves

-----------------------------------------------------------------------------
(* The powers of ten grow.                                                 *)
LEMMA Power10Is ==
    /\ Power10 \in [Nat -> Nat] /\ Power10[0] = 1
    /\ \A n \in Nat : Power10[n + 1] = 10 * Power10[n]
<1> DEFINE F == [n \in Nat |-> [x \in Nat |-> 10 * x]]
           Def(p) == p = [n \in Nat |-> IF n = 0 THEN 1 ELSE 10 * p[n - 1]]
<1>1. F \in [Nat -> [Nat -> Nat]]
  OBVIOUS
<1>2. \A n, x \in Nat : F[n][x] = 10 * x
  OBVIOUS
<1> HIDE DEF F
<1>3. PICK f \in [Nat -> Nat] : f[0] = 1 /\ \A n \in Nat : f[n + 1] = F[n][f[n]]
  <2>1. 1 \in Nat
    OBVIOUS
  <2>2. \E f : Solves(f, Nat, 1, F)
    BY <1>1, <2>1, Recursion
  <2>. QED  BY <2>2 DEF Solves
<1>4. ASSUME NEW n \in Nat PROVE f[n] = IF n = 0 THEN 1 ELSE 10 * f[n - 1]
  <2>1. CASE n = 0
    BY <1>3, <2>1
  <2>2. CASE n # 0
    <3>1. n - 1 \in Nat /\ (n - 1) + 1 = n
      BY <2>2
    <3>2. f[n] = F[n - 1][f[n - 1]] /\ f[n - 1] \in Nat
      BY <1>3, <3>1
    <3>. QED  BY <1>2, <2>2, <3>1, <3>2
  <2>. QED  BY <2>1, <2>2
<1>5. Def(f)
  BY <1>3, <1>4
<1>6. Def(Power10)
  <2>1. \E p : Def(p)
    BY <1>5
  <2>2. Power10 = CHOOSE p : Def(p)
    BY DEF Power10
  <2> HIDE DEF Def
  <2>. QED  BY <2>1, <2>2
<1>7. /\ Power10[0] = 1
      /\ \A n \in Nat : Power10[n + 1] = 10 * Power10[n]
  <2>1. \A n \in Nat : Power10[n] = IF n = 0 THEN 1 ELSE 10 * Power10[n - 1]
    BY <1>6
  <2>2. ASSUME NEW n \in Nat PROVE n + 1 \in Nat /\ n + 1 # 0 /\ (n + 1) - 1 = n
    OBVIOUS
  <2>. QED  BY <2>1, <2>2
<1>8. DOMAIN Power10 = Nat /\ Power10 = [n \in Nat |-> Power10[n]]
  BY <1>6
<1> DEFINE P == {n \in Nat : Power10[n] \in Nat}
<1>9. Nat \subseteq P
  <2>1. 0 \in P /\ \A n \in Nat : n \in P => n + 1 \in P
    BY <1>7
  <2> HIDE DEF P
  <2>. QED  BY <2>1, SetInduction
<1>. QED  BY <1>7, <1>8, <1>9

(* None of them is 0, and a later one is not smaller.                      *)
LEMMA Power10Grows ==
    \A m, n \in Nat : Power10[n] >= 1 /\ Power10[n] <= Power10[n + m]
<1>1. \A n \in Nat : Power10[n] >= 1
  <2> DEFINE P == {n \in Nat : Power10[n] >= 1}
  <2>1. 0 \in P /\ \A n \in Nat : n \in P => n + 1 \in P
    BY Power10Is
  <2> HIDE DEF P
  <2>2. Nat \subseteq P
    BY <2>1, SetInduction
  <2>. QED  BY <2>2 DEF P
<1>2. ASSUME NEW n \in Nat PROVE \A m \in Nat : Power10[n] <= Power10[n + m]
  <2> DEFINE P == {m \in Nat : Power10[n] <= Power10[n + m]}
  <2>1. 0 \in P
    BY Power10Is
  <2>2. ASSUME NEW m \in Nat, m \in P PROVE m + 1 \in P
    <3>1. /\ n + m \in Nat /\ n + (m + 1) = (n + m) + 1
          /\ Power10[n] \in Nat /\ Power10[n + m] \in Nat
          /\ Power10[(n + m) + 1] = 10 * Power10[n + m]
      BY Power10Is
    <3>2. Power10[n] <= Power10[n + (m + 1)]
      BY <2>2, <3>1
    <3>. QED  BY <3>2
  <2>3. Nat \subseteq P
    <3> HIDE DEF P
    <3>. QED  BY <2>1, <2>2, SetInduction
  <2>. QED  BY <2>3
<1>. QED  BY <1>1, <1>2

(* A character adds its digit to the number before it.                     *)
LEMMA NumberIs ==
    ASSUME NEW t \in Seq(FieldChars)
    PROVE  /\ Number(t, 0) = 0
           /\ \A k \in 0 .. Len(t) : Number(t, k) \in Nat
           /\ \A k \in 1 .. Len(t) : Number(t, k) =
                IF isdigit(t[k]) THEN 10 * Number(t, k - 1) + (t[k] - 48)
                ELSE Number(t, k - 1)
<1> DEFINE L == Len(t)
           Step(k, x) == IF isdigit(t[k]) THEN 10 * x + (t[k] - 48) ELSE x
           F == [k \in Nat |-> [x \in Nat |-> IF k < L THEN Step(k + 1, x) ELSE x]]
           Def(n) == n = [k \in 0 .. L |->
                            IF k = 0 THEN 0
                            ELSE IF isdigit(t[k]) THEN 10 * n[k - 1] + (t[k] - 48)
                            ELSE n[k - 1]]
           num == CHOOSE n : Def(n)
<1>1. L \in Nat
  OBVIOUS
<1>2. \A k, x : k \in 1 .. L /\ x \in Nat => Step(k, x) \in Nat
  BY DEF isdigit
<1>3. F \in [Nat -> [Nat -> Nat]]
  <2> SUFFICES ASSUME NEW k \in Nat, NEW x \in Nat
               PROVE  (IF k < L THEN Step(k + 1, x) ELSE x) \in Nat
    OBVIOUS
  <2>1. k < L => k + 1 \in 1 .. L
    BY <1>1
  <2> HIDE DEF Step
  <2>. QED  BY <1>2, <2>1
<1>4. \A k, x \in Nat : k < L => F[k][x] = Step(k + 1, x)
  OBVIOUS
<1> HIDE DEF F
<1>5. PICK f \in [Nat -> Nat] : f[0] = 0 /\ \A k \in Nat : f[k + 1] = F[k][f[k]]
  <2>1. 0 \in Nat
    OBVIOUS
  <2>2. \E f : Solves(f, Nat, 0, F)
    BY <1>3, <2>1, Recursion
  <2>. QED  BY <2>2 DEF Solves
<1>6. ASSUME NEW k \in 1 .. L PROVE f[k] = Step(k, f[k - 1])
  <2>1. k - 1 \in Nat /\ k - 1 < L /\ (k - 1) + 1 = k
    BY <1>1
  <2>2. f[k] = F[k - 1][f[k - 1]] /\ f[k - 1] \in Nat
    BY <1>5, <2>1
  <2>3. F[k - 1][f[k - 1]] = Step((k - 1) + 1, f[k - 1])
    <3> HIDE DEF Step
    <3>. QED  BY <1>4, <2>1, <2>2
  <2>. QED  BY <2>1, <2>2, <2>3
<1> DEFINE g == [k \in 0 .. L |-> f[k]]
<1>7. Def(g)
  <2>1. ASSUME NEW k \in 0 .. L, k # 0
        PROVE  k \in 1 .. L /\ k - 1 \in 0 .. L
    BY <1>1, <2>1
  <2>2. ASSUME NEW k \in 0 .. L
        PROVE  g[k] = IF k = 0 THEN 0
                      ELSE IF isdigit(t[k]) THEN 10 * g[k - 1] + (t[k] - 48)
                      ELSE g[k - 1]
    BY <1>5, <1>6, <2>1
  <2>3. g = [k \in 0 .. L |-> g[k]]
    OBVIOUS
  <2> HIDE DEF g
  <2>. QED  BY <2>2, <2>3
<1>8. Def(num)
  <2> HIDE DEF Def
  <2>. QED  BY <1>7
<1>9. \A k : Number(t, k) = num[k]
  BY DEF Number
<1> HIDE DEF num
<1>10. Number(t, 0) = 0
  <2>1. 0 \in 0 .. L
    BY <1>1
  <2>2. num[0] = 0
    BY <1>8, <2>1
  <2>. QED  BY <1>9, <2>2
<1>11. \A k \in 1 .. L : Number(t, k) = Step(k, Number(t, k - 1))
  <2>1. ASSUME NEW k \in 1 .. L PROVE k # 0 /\ k \in 0 .. L
    BY <1>1
  <2>. QED  BY <1>8, <1>9, <2>1
<1>12. \A k \in 0 .. L : Number(t, k) \in Nat
  <2> DEFINE P == {k \in Nat : k <= L => Number(t, k) \in Nat}
  <2>1. 0 \in P
    BY <1>10
  <2>2. ASSUME NEW k \in Nat, k \in P PROVE k + 1 \in P
    <3> SUFFICES ASSUME k + 1 <= L PROVE Number(t, k + 1) \in Nat
      OBVIOUS
    <3>1. k + 1 \in 1 .. L /\ (k + 1) - 1 = k /\ Number(t, k) \in Nat
      BY <1>1, <2>2
    <3>2. Number(t, k + 1) = Step(k + 1, Number(t, k))
      BY <1>11, <3>1
    <3> HIDE DEF Step
    <3>. QED  BY <1>2, <3>1, <3>2
  <2>3. Nat \subseteq P
    <3> HIDE DEF P
    <3>. QED  BY <2>1, <2>2, SetInduction
  <2>. QED  BY <1>1, <2>3
<1>. QED  BY <1>10, <1>11, <1>12

-----------------------------------------------------------------------------
(* What the reference says of a text with one more character.              *)
LEMMA HasIs ==
    ASSUME NEW t, NEW S
    PROVE  /\ ~Has(t, 0, S)
           /\ \A k \in Nat \ {0} : Has(t, k, S) <=> Has(t, k - 1, S) \/ t[k] \in S
           /\ \A j, k \in Nat : j <= k /\ Has(t, j, S) => Has(t, k, S)
<1>1. ~Has(t, 0, S)
  BY DEF Has
<1>2. ASSUME NEW k \in Nat \ {0}
      PROVE  Has(t, k, S) <=> Has(t, k - 1, S) \/ t[k] \in S
  <2>1. \A j : j \in 1 .. k <=> j \in 1 .. k - 1 \/ j = k
    OBVIOUS
  <2>. QED  BY <2>1 DEF Has
<1>3. ASSUME NEW j \in Nat, NEW k \in Nat, j <= k, Has(t, j, S)
      PROVE  Has(t, k, S)
  <2>1. \A i : i \in 1 .. j => i \in 1 .. k
    BY <1>3
  <2>. QED  BY <1>3, <2>1 DEF Has
<1>. QED  BY <1>1, <1>2, <1>3

(* A decimal is a digit after the point.                                   *)
LEMMA DecimalsIs ==
    ASSUME NEW t
    PROVE  /\ Decimals(t, 0) = 0
           /\ \A k \in Nat : Decimals(t, k) \in Nat
           /\ \A k \in Nat \ {0} : Decimals(t, k) =
                IF t[k] \in DigitChars /\ Has(t, k, {Dot})
                THEN Decimals(t, k - 1) + 1 ELSE Decimals(t, k - 1)
           /\ \A j, k \in Nat : j <= k => Decimals(t, j) <= Decimals(t, k)
           /\ \A k \in Nat : ~Has(t, k, {Dot}) => Decimals(t, k) = 0
<1> DEFINE D(k) == {j \in 1 .. k : t[j] \in DigitChars /\ Has(t, j, {Dot})}
<1>1. \A k \in Nat : IsFiniteSet(D(k)) /\ Cardinality(D(k)) \in Nat
  <2> TAKE k \in Nat
  <2>1. IsFiniteSet(1 .. k) /\ D(k) \in SUBSET (1 .. k)
    BY FS_Interval
  <2> HIDE DEF D
  <2>2. IsFiniteSet(D(k))
    BY <2>1, FS_Subset
  <2>. QED  BY <2>2, FS_CardinalityType
<1>2. \A k : Decimals(t, k) = Cardinality(D(k))
  BY DEF Decimals
<1>3. D(0) = {}
  OBVIOUS
<1>4. ASSUME NEW k \in Nat \ {0}
      PROVE  /\ k - 1 \in Nat /\ k \notin D(k - 1)
             /\ D(k) = IF t[k] \in DigitChars /\ Has(t, k, {Dot})
                       THEN D(k - 1) \cup {k} ELSE D(k - 1)
  <2>1. \A j : j \in 1 .. k <=> j \in 1 .. k - 1 \/ j = k
    OBVIOUS
  <2>2. k \notin 1 .. k - 1 /\ k - 1 \in Nat
    OBVIOUS
  <2>. QED  BY <2>1, <2>2
<1>5. ASSUME NEW j \in Nat, NEW k \in Nat, j <= k
      PROVE  D(j) \in SUBSET D(k)
  <2>1. \A i : i \in 1 .. j => i \in 1 .. k
    BY <1>5
  <2>. QED  BY <2>1
<1>6. ASSUME NEW k \in Nat, ~Has(t, k, {Dot}) PROVE D(k) = {}
  <2> SUFFICES ASSUME NEW j \in 1 .. k, Has(t, j, {Dot}) PROVE FALSE
    OBVIOUS
  <2>1. j \in Nat /\ j <= k
    OBVIOUS
  <2>. QED  BY <1>6, <2>1, HasIs
<1> HIDE DEF D
<1>7. Decimals(t, 0) = 0
  BY <1>2, <1>3, FS_EmptySet
<1>8. ASSUME NEW k \in Nat \ {0}
      PROVE  Decimals(t, k) = IF t[k] \in DigitChars /\ Has(t, k, {Dot})
                              THEN Decimals(t, k - 1) + 1 ELSE Decimals(t, k - 1)
  <2>1. Cardinality(D(k - 1) \cup {k}) = Cardinality(D(k - 1)) + 1
    BY <1>1, <1>4, FS_AddElement
  <2>. QED  BY <1>2, <1>4, <2>1
<1>9. ASSUME NEW j \in Nat, NEW k \in Nat, j <= k
      PROVE  Decimals(t, j) <= Decimals(t, k)
  <2>1. Cardinality(D(j)) <= Cardinality(D(k))
    BY <1>1, <1>5, <1>9, FS_Subset
  <2>. QED  BY <1>2, <2>1
<1>10. \A k \in Nat : ~Has(t, k, {Dot}) => Decimals(t, k) = 0
  BY <1>2, <1>6, FS_EmptySet
<1>11. \A k \in Nat : Decimals(t, k) \in Nat
  BY <1>1, <1>2
<1>. QED  BY <1>7, <1>8, <1>9, <1>10, <1>11

(* A scale that fits with all decimals does with some of them.             *)
LEMMA RepresentableDown ==
    ASSUME NEW t, NEW j \in Nat, NEW k \in Nat, j <= k, Representable(t, k)
    PROVE  Representable(t, j)
<1>1. /\ Decimals(t, j) \in Nat /\ Decimals(t, k) \in Nat
      /\ Decimals(t, j) <= Decimals(t, k)
  BY DecimalsIs
<1>2. PICK m \in Nat : Decimals(t, k) = Decimals(t, j) + m
  <2>1. Decimals(t, k) - Decimals(t, j) \in Nat
        /\ Decimals(t, k) = Decimals(t, j) + (Decimals(t, k) - Decimals(t, j))
    BY <1>1
  <2>. QED  BY <2>1
<1>3. Power10[Decimals(t, j)] <= Power10[Decimals(t, k)]
  BY <1>1, <1>2, Power10Grows
<1>4. Power10[Decimals(t, j)] \in Nat /\ Power10[Decimals(t, k)] \in Nat
  BY <1>1, Power10Is
<1>. QED  BY <1>3, <1>4, IntMaxAssumption DEF Representable

(* A text fits if the text before its last character does and its number   *)
(* is not too large.                                                       *)
LEMMA FitsIs ==
    ASSUME NEW t \in Seq(FieldChars)
    PROVE  /\ Fits(t, 0)
           /\ \A k \in 1 .. Len(t) :
                Fits(t, k) <=> Fits(t, k - 1) /\ Number(t, k) <= IntMax
           /\ \A j, k \in Nat : j <= k /\ Fits(t, k) => Fits(t, j)
<1>1. Fits(t, 0)
  BY NumberIs, IntMaxAssumption DEF Fits
<1>2. ASSUME NEW k \in 1 .. Len(t)
      PROVE  Fits(t, k) <=> Fits(t, k - 1) /\ Number(t, k) <= IntMax
  <2>1. \A j : j \in 0 .. k <=> j \in 0 .. k - 1 \/ j = k
    OBVIOUS
  <2>. QED  BY <2>1 DEF Fits
<1>3. ASSUME NEW j \in Nat, NEW k \in Nat, j <= k, Fits(t, k)
      PROVE  Fits(t, j)
  <2>1. \A i : i \in 0 .. j => i \in 0 .. k
    BY <1>3
  <2>. QED  BY <1>3, <2>1 DEF Fits
<1>. QED  BY <1>1, <1>2, <1>3

(* What is kept is the longest part that fits.                             *)
LEMMA KeptIs ==
    ASSUME NEW t \in Seq(FieldChars)
    PROVE  /\ Kept(t) \in 0 .. Len(t)
           /\ \A k \in 0 .. Len(t) : Fits(t, k) <=> k <= Kept(t)
<1> DEFINE L == Len(t)
           Last(k) == Fits(t, k) /\ (k = L \/ ~Fits(t, k + 1))
           S == {k \in 0 .. L : k = L \/ ~Fits(t, k + 1)}
<1>1. L \in Nat
  OBVIOUS
<1>2. PICK x \in S : \A y \in S : x <= y
  <2>1. S \subseteq Nat /\ L \in S
    BY <1>1
  <2> HIDE DEF S
  <2>. QED  BY <2>1, NatMin
<1>3. Fits(t, x)
  <2>1. CASE x = 0
    BY <2>1, FitsIs
  <2>2. CASE x # 0
    <3>1. x - 1 \in 0 .. L /\ (x - 1) + 1 = x /\ ~(x <= x - 1) /\ x - 1 # L
      BY <1>1, <1>2, <2>2
    <3>2. x - 1 \notin S
      BY <1>2, <3>1
    <3>. QED  BY <3>1, <3>2
  <2>. QED  BY <2>1, <2>2
<1>4. Kept(t) \in 0 .. L /\ Last(Kept(t))
  <2>1. \E k \in 0 .. L : Last(k)
    BY <1>2, <1>3
  <2>2. Kept(t) = CHOOSE k \in 0 .. L : Last(k)
    BY DEF Kept
  <2> HIDE DEF Last
  <2>. QED  BY <2>1, <2>2
<1>5. ASSUME NEW k \in 0 .. L PROVE Fits(t, k) <=> k <= Kept(t)
  <2>1. k \in Nat /\ Kept(t) \in Nat /\ Kept(t) + 1 \in Nat
    BY <1>1, <1>4
  <2>2. CASE k <= Kept(t)
    BY <1>4, <2>1, <2>2, FitsIs
  <2>3. CASE ~(k <= Kept(t))
    <3>1. Kept(t) # L /\ Kept(t) + 1 <= k
      BY <1>1, <1>4, <2>1, <2>3
    <3>2. ~Fits(t, Kept(t) + 1)
      BY <1>4, <3>1
    <3>. QED  BY <2>1, <2>3, <3>1, <3>2, FitsIs
  <2>. QED  BY <2>2, <2>3
<1>. QED  BY <1>4, <1>5

(* When the next character keeps the order.                                *)
LEMMA InOrderNext ==
    ASSUME NEW t, NEW k \in Nat \ {0}, InOrder(t, k - 1),
           t[k] \in DigitChars \cup Signs \cup {Dot, Space},
           t[k] = Space => ~Has(t, k - 1, DigitChars \cup Signs \cup {Dot}),
           t[k] \in Signs => ~Has(t, k - 1, DigitChars \cup Signs),
           t[k] = Dot => ~Has(t, k - 1, {Dot})
    PROVE  InOrder(t, k)
<1>1. \A j : j \in 1 .. k <=> j \in 1 .. k - 1 \/ j = k
  OBVIOUS
<1>2. \A j \in 1 .. k - 1 : j < k
  OBVIOUS
<1>3. Space \notin Signs \cup DigitChars \cup {Dot} /\ Dot \notin Signs \cup DigitChars
      /\ \A c \in Signs : c \notin DigitChars
  BY DEF Space, Signs, DigitChars, Dot, Plus, Minus
<1>4. \A i \in 1 .. k : t[i] \in DigitChars \cup Signs \cup {Dot, Space}
  BY <1>1 DEF InOrder
<1>5. \A S : ~Has(t, k - 1, S) => \A j \in 1 .. k - 1 : t[j] \notin S
  BY DEF Has
<1>6. ASSUME NEW i \in 1 .. k, NEW j \in 1 .. k
      PROVE  /\ t[i] = Space /\ t[j] # Space => i < j
             /\ t[i] \in Signs /\ t[j] \in DigitChars => i < j
             /\ t[i] \in Signs /\ t[j] \in Signs => i = j
             /\ t[i] = Dot /\ t[j] = Dot => i = j
  <2>1. CASE i \in 1 .. k - 1 /\ j \in 1 .. k - 1
    BY <2>1 DEF InOrder
  <2>2. CASE i \in 1 .. k - 1 /\ j = k
    BY <1>2, <1>3, <1>5, <2>2
  <2>3. CASE i = k /\ j \in 1 .. k - 1
    BY <1>2, <1>3, <1>4, <1>5, <2>3
  <2>4. CASE i = k /\ j = k
    BY <1>3, <2>4
  <2>. QED  BY <1>1, <2>1, <2>2, <2>3, <2>4
<1>. QED  BY <1>4, <1>6 DEF InOrder

-----------------------------------------------------------------------------
(* What the scanner's variables say of the k characters of t it has read.  *)
ReadAs(t, k, s, v, c) ==
    /\ Fits(t, k)
    /\ v = IF Has(t, k, DigitChars) THEN Number(t, k) ELSE -1
    /\ Has(t, k, DigitChars) \/ Number(t, k) = 0
    /\ s = IF Has(t, k, {Minus}) THEN -1 ELSE IF Has(t, k, {Plus}) THEN 1 ELSE 0
    /\ Representable(t, k) =>
         /\ c = IF Has(t, k, {Dot}) THEN Power10[Decimals(t, k)] ELSE 0
         /\ InOrder(t, k)

(* What of it the rest of the scanner looks at.                            *)
LEMMA ReadFacts ==
    ASSUME NEW t \in Seq(FieldChars), NEW k \in 0 .. Len(t), NEW s, NEW v, NEW c,
           ReadAs(t, k, s, v, c)
    PROVE  /\ v = -1 <=> ~Has(t, k, DigitChars)
           /\ (IF v = -1 THEN 0 ELSE v) = Number(t, k)
           /\ s = 0 <=> ~Has(t, k, Signs)
           /\ Representable(t, k) => (c = 0 <=> ~Has(t, k, {Dot}))
<1>1. Number(t, k) \in Nat /\ k \in Nat
  BY NumberIs
<1>2. Has(t, k, Signs) <=> Has(t, k, {Plus}) \/ Has(t, k, {Minus})
  BY DEF Has, Signs
<1>3. Power10[Decimals(t, k)] # 0
  <2>1. Decimals(t, k) \in Nat
    BY <1>1, DecimalsIs
  <2>2. Power10[Decimals(t, k)] >= 1 /\ Power10[Decimals(t, k)] \in Nat
    BY <2>1, Power10Grows, Power10Is
  <2>. QED  BY <2>2
<1>. QED  BY <1>1, <1>2, <1>3 DEF ReadAs

(* A character that is no digit leaves the number as it is.                *)
LEMMA NextOther ==
    ASSUME NEW t \in Seq(FieldChars), NEW k \in 1 .. Len(t), NEW s, NEW v, NEW c,
           ReadAs(t, k - 1, s, v, c), t[k] \notin DigitChars
    PROVE  /\ Fits(t, k) /\ k <= Kept(t)
           /\ Number(t, k) = Number(t, k - 1)
           /\ Decimals(t, k) = Decimals(t, k - 1)
           /\ Has(t, k, DigitChars) <=> Has(t, k - 1, DigitChars)
           /\ Representable(t, k) <=> Representable(t, k - 1)
<1>1. k \in Nat \ {0} /\ k - 1 \in 0 .. Len(t) /\ k \in 0 .. Len(t)
  OBVIOUS
<1>2. ~isdigit(t[k])
  BY DEF isdigit, DigitChars
<1>3. Number(t, k) = Number(t, k - 1)
  BY <1>2, NumberIs
<1>4. Number(t, k - 1) <= IntMax
  BY <1>1 DEF ReadAs, Fits
<1>5. Fits(t, k)
  BY <1>3, <1>4, FitsIs DEF ReadAs
<1>6. k <= Kept(t)
  BY <1>1, <1>5, KeptIs
<1>7. Decimals(t, k) = Decimals(t, k - 1)
  BY <1>1, DecimalsIs
<1>8. Has(t, k, DigitChars) <=> Has(t, k - 1, DigitChars)
  BY <1>1, HasIs
<1>. QED  BY <1>3, <1>5, <1>6, <1>7, <1>8 DEF Representable

(* The first sign is taken, if no digit came before it.                    *)
LEMMA NextSign ==
    ASSUME NEW t \in Seq(FieldChars), NEW k \in 1 .. Len(t), NEW s, NEW v, NEW c,
           ReadAs(t, k - 1, s, v, c), t[k] \in Signs, s = 0, v = -1
    PROVE  ReadAs(t, k, IF t[k] = Plus THEN 1 ELSE -1, v, c)
<1>1. k \in Nat \ {0} /\ k - 1 \in 0 .. Len(t)
  OBVIOUS
<1>2. t[k] \notin DigitChars /\ t[k] # Dot /\ t[k] # Space /\ Plus # Minus
      /\ t[k] \in {Plus, Minus}
  <2>1. \A x \in Signs : /\ x \notin DigitChars /\ x # Dot /\ x # Space
                         /\ x \in {Plus, Minus}
    BY DEF Signs, DigitChars, Dot, Plus, Minus, Space
  <2>2. Plus # Minus
    BY DEF Plus, Minus
  <2>. QED  BY <2>1, <2>2
<1>3. ~Has(t, k - 1, DigitChars) /\ ~Has(t, k - 1, Signs)
  BY <1>1, ReadFacts
<1>4. ~Has(t, k - 1, {Plus}) /\ ~Has(t, k - 1, {Minus})
      /\ ~Has(t, k - 1, DigitChars \cup Signs)
  BY <1>3 DEF Has, Signs
<1>5. /\ Has(t, k, {Dot}) <=> Has(t, k - 1, {Dot})
      /\ Has(t, k, {Plus}) <=> t[k] = Plus
      /\ Has(t, k, {Minus}) <=> t[k] = Minus
  BY <1>1, <1>2, <1>4, HasIs
<1>6. Representable(t, k) => InOrder(t, k)
  BY <1>1, <1>2, <1>4, NextOther, InOrderNext DEF ReadAs
<1>. QED  BY <1>2, <1>5, <1>6, NextOther DEF ReadAs

(* The first point sets the scale to 1.                                    *)
LEMMA NextDot ==
    ASSUME NEW t \in Seq(FieldChars), NEW k \in 1 .. Len(t), NEW s, NEW v, NEW c,
           ReadAs(t, k - 1, s, v, c), t[k] = Dot, c = 0
    PROVE  ReadAs(t, k, s, v, 1)
<1>1. k \in Nat \ {0} /\ k - 1 \in 0 .. Len(t) /\ k - 1 \in Nat
  OBVIOUS
<1>2. t[k] \notin DigitChars /\ t[k] \notin Signs /\ t[k] # Space
      /\ t[k] # Plus /\ t[k] # Minus
  BY DEF Signs, DigitChars, Dot, Plus, Minus, Space
<1>3. /\ Has(t, k, {Dot})
      /\ Has(t, k, {Plus}) <=> Has(t, k - 1, {Plus})
      /\ Has(t, k, {Minus}) <=> Has(t, k - 1, {Minus})
  BY <1>1, <1>2, HasIs
<1>4. ASSUME Representable(t, k)
      PROVE  InOrder(t, k) /\ Power10[Decimals(t, k)] = 1
  <2>1. Representable(t, k - 1) /\ Decimals(t, k) = Decimals(t, k - 1)
    BY <1>2, <1>4, NextOther
  <2>2. ~Has(t, k - 1, {Dot})
    BY <1>1, <2>1, ReadFacts
  <2>3. Decimals(t, k) = 0
    BY <1>1, <2>1, <2>2, DecimalsIs
  <2>4. InOrder(t, k)
    BY <1>1, <1>2, <2>1, <2>2, InOrderNext DEF ReadAs
  <2>. QED  BY <2>3, <2>4, Power10Is
<1>. QED  BY <1>2, <1>3, <1>4, NextOther DEF ReadAs

(* A space in front changes nothing.                                       *)
LEMMA NextSpace ==
    ASSUME NEW t \in Seq(FieldChars), NEW k \in 1 .. Len(t), NEW s, NEW v, NEW c,
           ReadAs(t, k - 1, s, v, c), t[k] = Space, s = 0, v = -1, c = 0
    PROVE  ReadAs(t, k, s, v, c)
<1>1. k \in Nat \ {0} /\ k - 1 \in 0 .. Len(t)
  OBVIOUS
<1>2. t[k] \notin DigitChars /\ t[k] \notin Signs /\ t[k] # Dot
      /\ t[k] # Plus /\ t[k] # Minus
  BY DEF Signs, DigitChars, Dot, Plus, Minus, Space
<1>3. /\ Has(t, k, {Dot}) <=> Has(t, k - 1, {Dot})
      /\ Has(t, k, {Plus}) <=> Has(t, k - 1, {Plus})
      /\ Has(t, k, {Minus}) <=> Has(t, k - 1, {Minus})
  BY <1>1, <1>2, HasIs
<1>4. ASSUME Representable(t, k)
      PROVE  InOrder(t, k)
  <2>1. Representable(t, k - 1)
    BY <1>2, <1>4, NextOther
  <2>2. ~Has(t, k - 1, {Dot}) /\ ~Has(t, k - 1, Signs) /\ ~Has(t, k - 1, DigitChars)
    BY <1>1, <2>1, ReadFacts
  <2>3. ~Has(t, k - 1, DigitChars \cup Signs \cup {Dot})
    BY <2>2 DEF Has
  <2>. QED  BY <1>1, <1>2, <2>1, <2>3, InOrderNext DEF ReadAs
<1>. QED  BY <1>2, <1>3, <1>4, NextOther DEF ReadAs

(* The value and the scale take a digit that fits.                         *)
LEMMA NextDigit ==
    ASSUME NEW t \in Seq(FieldChars), NEW k \in 1 .. Len(t), NEW s, NEW v, NEW c,
           ReadAs(t, k - 1, s, v, c), t[k] \in DigitChars,
           NEW w, w = 10 * Number(t, k - 1) + (t[k] - 48), w <= IntMax
    PROVE  ReadAs(t, k, s, w, IF c # 0 THEN Wrap(10 * c) ELSE 0)
<1>1. k \in Nat \ {0} /\ k - 1 \in 0 .. Len(t) /\ k - 1 \in Nat /\ k \in Nat
      /\ k - 1 <= k
  OBVIOUS
<1>2. isdigit(t[k]) /\ t[k] \notin Signs /\ t[k] # Space /\ t[k] # Dot
      /\ t[k] # Plus /\ t[k] # Minus
  <2>1. isdigit(t[k])
    BY DEF DigitChars, isdigit
  <2>2. \A x \in DigitChars : x # Plus /\ x # Minus /\ x # Dot /\ x # Space
    BY DEF DigitChars, Dot, Plus, Minus, Space
  <2>. QED  BY <2>1, <2>2 DEF Signs
<1>3. Number(t, k) = w
  BY <1>2, NumberIs
<1>4. Fits(t, k)
  BY <1>3, FitsIs DEF ReadAs
<1>5. /\ Has(t, k, DigitChars)
      /\ Has(t, k, {Dot}) <=> Has(t, k - 1, {Dot})
      /\ Has(t, k, {Plus}) <=> Has(t, k - 1, {Plus})
      /\ Has(t, k, {Minus}) <=> Has(t, k - 1, {Minus})
  BY <1>1, <1>2, HasIs
<1>6. ASSUME Representable(t, k)
      PROVE  /\ InOrder(t, k)
             /\ (IF c # 0 THEN Wrap(10 * c) ELSE 0) =
                  IF Has(t, k, {Dot}) THEN Power10[Decimals(t, k)] ELSE 0
  <2>1. Representable(t, k - 1)
    BY <1>1, <1>6, RepresentableDown
  <2>2. InOrder(t, k)
    BY <1>1, <1>2, <2>1, InOrderNext DEF ReadAs
  <2>3. CASE ~Has(t, k, {Dot})
    BY <1>1, <1>5, <2>1, <2>2, <2>3, ReadFacts
  <2>4. CASE Has(t, k, {Dot})
    <3>1. c # 0 /\ c = Power10[Decimals(t, k - 1)]
      BY <1>1, <1>5, <2>1, <2>4, ReadFacts DEF ReadAs
    <3>2. Decimals(t, k) = Decimals(t, k - 1) + 1 /\ Decimals(t, k - 1) \in Nat
      BY <1>1, <2>4, DecimalsIs
    <3>3. Power10[Decimals(t, k)] = 10 * c /\ c \in Nat
      BY <3>1, <3>2, Power10Is
    <3>4. 10 * c \in -IntMax .. IntMax
      BY <1>6, <3>3, IntMaxAssumption DEF Representable
    <3>5. Wrap(10 * c) = 10 * c
      BY <3>4, WrapFits
    <3>. QED  BY <2>2, <2>4, <3>1, <3>3, <3>5
  <2>. QED  BY <2>3, <2>4
<1>. QED  BY <1>3, <1>4, <1>5, <1>6 DEF ReadAs

-----------------------------------------------------------------------------
Valid(t) ==
    /\ WellFormed(t, Kept(t))
    /\ Kept(t) = Len(t) \/ Has(t, Kept(t), {Dot})

(* A character that cannot follow those before it makes a text invalid.    *)
LEMMA BadCharacter ==
    ASSUME NEW t \in Seq(FieldChars), NEW k \in 1 .. Len(t), NEW s, NEW v, NEW c,
           ReadAs(t, k - 1, s, v, c), Representable(t, Kept(t)),
           \/ t[k] \in Signs /\ ~(s = 0 /\ v = -1)
           \/ t[k] = Dot /\ c # 0
           \/ t[k] = Space /\ ~(s = 0 /\ v = -1 /\ c = 0)
           \/ t[k] \notin DigitChars \cup Signs \cup {Dot, Space}
    PROVE  ~InOrder(t, Kept(t))
<1> DEFINE K == Kept(t)
<1>1. t[k] \notin DigitChars
  BY DEF Signs, DigitChars, Dot, Plus, Minus, Space
<1>2. K \in 0 .. Len(t) /\ k <= K
  BY <1>1, NextOther, KeptIs
<1>3. k \in Nat \ {0} /\ k - 1 \in 0 .. Len(t) /\ k - 1 \in Nat /\ K \in Nat
      /\ k - 1 <= K /\ k \in 1 .. K
  BY <1>2
<1>4. \A j \in 1 .. k - 1 : j \in 1 .. K /\ j < k
  BY <1>3
<1>5. /\ v = -1 <=> ~Has(t, k - 1, DigitChars)
      /\ s = 0 <=> ~Has(t, k - 1, Signs)
      /\ c = 0 <=> ~Has(t, k - 1, {Dot})
  <2>1. Representable(t, k - 1)
    BY <1>3, RepresentableDown
  <2>. QED  BY <1>3, <2>1, ReadFacts
<1>6. \A S : Has(t, k - 1, S) => \E j \in 1 .. k - 1 : t[j] \in S
  BY DEF Has
<1>7. Space \notin Signs \cup DigitChars \cup {Dot} /\ Dot \notin Signs \cup DigitChars
      /\ \A x \in Signs : x \notin DigitChars
  BY DEF Space, Signs, DigitChars, Dot, Plus, Minus
<1> SUFFICES ASSUME InOrder(t, K) PROVE FALSE
  OBVIOUS
<1>8. /\ \A i \in 1 .. K : t[i] \in DigitChars \cup Signs \cup {Dot, Space}
      /\ \A i, j \in 1 .. K :
         /\ t[i] = Space /\ t[j] # Space => i < j
         /\ t[i] \in Signs /\ t[j] \in DigitChars => i < j
         /\ t[i] \in Signs /\ t[j] \in Signs => i = j
         /\ t[i] = Dot /\ t[j] = Dot => i = j
  BY DEF InOrder
<1>9. \A j \in 1 .. k - 1 : ~(k < j) /\ k # j
  BY <1>3, <1>4
<1> HIDE DEF K
<1>10. CASE t[k] \in Signs /\ ~(s = 0 /\ v = -1)
  <2>1. PICK j \in 1 .. k - 1 : t[j] \in Signs \/ t[j] \in DigitChars
    BY <1>5, <1>6, <1>10
  <2>. QED  BY <1>3, <1>4, <1>8, <1>9, <1>10, <2>1
<1>11. CASE t[k] = Dot /\ c # 0
  <2>1. PICK j \in 1 .. k - 1 : t[j] = Dot
    BY <1>5, <1>6, <1>11
  <2>. QED  BY <1>3, <1>4, <1>8, <1>9, <1>11, <2>1
<1>12. CASE t[k] = Space /\ ~(s = 0 /\ v = -1 /\ c = 0)
  <2>1. PICK j \in 1 .. k - 1 : t[j] \in Signs \/ t[j] \in DigitChars \/ t[j] = Dot
    BY <1>5, <1>6, <1>12
  <2>2. t[j] # Space
    BY <1>7, <2>1
  <2>. QED  BY <1>3, <1>4, <1>8, <1>9, <1>12, <2>2
<1>13. CASE t[k] \notin DigitChars \cup Signs \cup {Dot, Space}
  BY <1>3, <1>8, <1>13
<1>. QED  BY <1>10, <1>11, <1>12, <1>13

(* The test against (INT_LEAST32_MAX-digit) / 10 tells what fits.          *)
LEMMA RanOutIs ==
    ASSUME NEW n \in Nat, NEW d \in 0 .. 9
    PROVE  n > (IntMax - d) \div 10 <=> 10 * n + d > IntMax
BY IntMaxAssumption

(* The scanner's variables while it reads and what is so when it is done.  *)
FieldInv ==
    /\ field \in Texts /\ pos \in 1 .. Len(field) + 1
    /\ st \in {"scan", "end", "ok", "error"}
    /\ st \in {"scan", "end"} => ReadAs(field, pos - 1, sign, value, scale)
    /\ st = "end" => /\ pos - 1 = Kept(field)
                     /\ pos - 1 = Len(field) \/ scale # 0
    /\ Accepted /\ Decoded

(* Nothing has been read of a field yet.                                   *)
LEMMA FieldInit == ASSUME Init PROVE FieldInv
<1>1. field \in Texts /\ field \in Seq(FieldChars)
  BY FieldAssumption DEF Init
<1>2. pos - 1 = 0 /\ pos \in 1 .. Len(field) + 1
  BY <1>1 DEF Init
<1>3. \A S : ~Has(field, 0, S)
  BY HasIs
<1>4. InOrder(field, 0)
  BY DEF InOrder
<1>5. ReadAs(field, 0, 0, -1, 0)
  BY <1>1, <1>3, <1>4, NumberIs, FitsIs DEF ReadAs
<1>. QED  BY <1>1, <1>2, <1>5 DEF Init, FieldInv, Accepted, Decoded

(* A field is refused for a reason.                                        *)
LEMMA Refused ==
    ASSUME FieldInv, Fail, Representable(field, Kept(field)) => ~Valid(field)
    PROVE  FieldInv'
<1>1. Accepted'
  BY DEF Fail, Accepted, Valid, ScaleRepresentable
<1>. QED  BY <1>1 DEF FieldInv, Fail, Decoded

(* One step of the loop of case 'f', a branch at a time.                   *)
LEMMA ReadOn ==
    ASSUME FieldInv, st = "scan", st' = "scan", field' = field, pos' = pos + 1,
           pos <= Len(field), ReadAs(field, pos, sign', value', scale')
    PROVE  FieldInv'
<1>1. pos' - 1 = pos /\ pos' \in 1 .. Len(field') + 1
  <2>1. field \in Seq(FieldChars)
    BY FieldAssumption DEF FieldInv
  <2>. QED  BY <2>1 DEF FieldInv
<1>. QED  BY <1>1 DEF FieldInv, Accepted, Decoded

(* Here is what a step of the loop starts from.                            *)
LEMMA Reading ==
    ASSUME FieldInv, st = "scan"
    PROVE  /\ field \in Seq(FieldChars) /\ Len(field) \in Nat
           /\ pos \in Nat \ {0}
           /\ ReadAs(field, pos - 1, sign, value, scale)
           /\ pos <= Len(field) => pos \in 1 .. Len(field)
<1>1. field \in Seq(FieldChars)
  BY FieldAssumption DEF FieldInv
<1>. QED  BY <1>1 DEF FieldInv

(* Case "sign": a second one, or one after a digit, is an error.           *)
LEMMA FieldSign == ASSUME FieldInv, ScanSign PROVE FieldInv'
<1>1. st = "scan" /\ pos <= Len(field) /\ field[pos] \in Signs
  BY DEF ScanSign, At, Signs
<1>2. CASE SignAllowed
  BY <1>1, <1>2, Reading, NextSign, ReadOn DEF ScanSign, SignAllowed
<1>3. CASE ~SignAllowed
  <2>1. Fail
    BY <1>3 DEF ScanSign
  <2>2. Representable(field, Kept(field)) => ~InOrder(field, Kept(field))
    BY <1>1, <1>3, Reading, BadCharacter DEF SignAllowed
  <2>. QED  BY <2>1, <2>2, Refused DEF Valid, WellFormed
<1>. QED  BY <1>2, <1>3

(* Case "point": a second one is an error.                                 *)
LEMMA FieldDot == ASSUME FieldInv, ScanDot PROVE FieldInv'
<1>1. st = "scan" /\ pos <= Len(field) /\ field[pos] = Dot
  BY DEF ScanDot, At
<1>2. CASE scale = 0
  BY <1>1, <1>2, Reading, NextDot, ReadOn DEF ScanDot
<1>3. CASE scale # 0
  <2>1. Fail
    BY <1>3 DEF ScanDot
  <2>2. Representable(field, Kept(field)) => ~InOrder(field, Kept(field))
    BY <1>1, <1>3, Reading, BadCharacter
  <2>. QED  BY <2>1, <2>2, Refused DEF Valid, WellFormed
<1>. QED  BY <1>2, <1>3

(* Case "space": it is an error after anything but spaces.                 *)
LEMMA FieldSpace == ASSUME FieldInv, ScanSpace PROVE FieldInv'
<1>1. st = "scan" /\ pos <= Len(field) /\ field[pos] = Space
  BY DEF ScanSpace, At
<1>2. CASE sign = 0 /\ value = -1 /\ scale = 0
  BY <1>1, <1>2, Reading, NextSpace, ReadOn DEF ScanSpace
<1>3. CASE ~(sign = 0 /\ value = -1 /\ scale = 0)
  <2>1. Fail
    BY <1>3 DEF ScanSpace
  <2>2. Representable(field, Kept(field)) => ~InOrder(field, Kept(field))
    BY <1>1, <1>3, Reading, BadCharacter
  <2>. QED  BY <2>1, <2>2, Refused DEF Valid, WellFormed
<1>. QED  BY <1>2, <1>3

(* Any other character is an error.                                        *)
LEMMA FieldOther == ASSUME FieldInv, ScanOther PROVE FieldInv'
<1>1. /\ st = "scan" /\ pos <= Len(field) /\ Fail
      /\ field[pos] \notin DigitChars \cup Signs \cup {Dot, Space}
  BY DEF ScanOther, Signs, DigitChars, isdigit
<1>2. Representable(field, Kept(field)) => ~InOrder(field, Kept(field))
  BY <1>1, Reading, BadCharacter
<1>. QED  BY <1>1, <1>2, Refused DEF Valid, WellFormed

(* Case "digit": the one that does not fit ends the number, if it is a     *)
(* decimal.                                                                *)
LEMMA FieldDigit == ASSUME FieldInv, ScanDigit PROVE FieldInv'
<1> DEFINE d == field[pos] - 48
           n == Number(field, pos - 1)
<1>1. st = "scan" /\ pos <= Len(field) /\ field[pos] \in DigitChars
  BY DEF ScanDigit, isdigit, DigitChars
<1>2. /\ field \in Seq(FieldChars) /\ pos \in 1 .. Len(field)
      /\ ReadAs(field, pos - 1, sign, value, scale)
      /\ pos - 1 \in 0 .. Len(field) /\ pos \in 0 .. Len(field)
  BY <1>1, Reading
<1>3. d \in 0 .. 9 /\ isdigit(field[pos])
  BY <1>1 DEF DigitChars, isdigit
<1>4. Digits = n /\ n \in Nat
  BY <1>2, ReadFacts, NumberIs DEF Digits
<1>5. Number(field, pos) = 10 * n + d
  BY <1>2, <1>3, NumberIs
<1> HIDE DEF d, n
<1>6. RanOut(d) <=> 10 * n + d > IntMax
  BY <1>3, <1>4, RanOutIs DEF RanOut
<1>7. CASE ~RanOut(d)
  <2>1. /\ value' = 10 * n + d /\ scale' = IF scale # 0 THEN Wrap(10 * scale) ELSE 0
        /\ pos' = pos + 1 /\ field' = field /\ sign' = sign /\ st' = st
    BY <1>4, <1>7 DEF ScanDigit, Accept, d
  <2>2. 10 * n + d <= IntMax
    BY <1>3, <1>4, <1>6, <1>7, IntMaxAssumption
  <2>3. ReadAs(field, pos, sign', value', scale')
    BY <1>1, <1>2, <2>1, <2>2, NextDigit DEF n, d
  <2>. QED  BY <1>1, <2>1, <2>3, ReadOn
<1>8. CASE RanOut(d)
  <2>1. ~Fits(field, pos)
    <3>1. ~(Number(field, pos) <= IntMax)
      BY <1>3, <1>4, <1>5, <1>6, <1>8, IntMaxAssumption
    <3>. QED  BY <1>2, <3>1, FitsIs
  <2>2. pos - 1 = Kept(field)
    <3>1. pos - 1 <= Kept(field) /\ ~(pos <= Kept(field)) /\ Kept(field) \in Nat
      BY <1>2, <2>1, KeptIs DEF ReadAs
    <3>. QED  BY <1>2, <3>1
  <2>3. value # -1
    <3>1. n # 0
      BY <1>3, <1>6, <1>8, IntMaxAssumption
    <3>. QED  BY <1>4, <3>1 DEF Digits
  <2>4. StopAt
    BY <1>8 DEF ScanDigit, d
  <2>5. CASE scale # 0
    <3>1. st' = "end" /\ value' = value /\ UNCHANGED <<field, pos, sign, scale>>
      BY <2>3, <2>4, <2>5 DEF StopAt, Digits
    <3>. QED  BY <1>2, <2>2, <2>5, <3>1 DEF FieldInv, Accepted, Decoded
  <2>6. CASE scale = 0
    <3>1. Fail
      BY <2>4, <2>6 DEF StopAt
    <3>2. Representable(field, Kept(field)) => ~Valid(field)
      <4>1. Kept(field) # Len(field)
        BY <1>2, <2>2
      <4>2. Representable(field, Kept(field)) => ~Has(field, Kept(field), {Dot})
        BY <1>2, <2>2, <2>6, ReadFacts
      <4>. QED  BY <4>1, <4>2 DEF Valid
    <3>. QED  BY <3>1, <3>2, Refused
  <2>. QED  BY <2>5, <2>6
<1>. QED  BY <1>7, <1>8

(* The end of the text: all of it has been kept.                           *)
LEMMA FieldEnd == ASSUME FieldInv, EndOfField PROVE FieldInv'
<1>1. /\ st = "scan" /\ st' = "end" /\ pos > Len(field)
      /\ UNCHANGED <<field, pos, sign, value, scale>>
  BY DEF EndOfField
<1>2. /\ field \in Seq(FieldChars) /\ Len(field) \in Nat
      /\ pos - 1 = Len(field) /\ ReadAs(field, pos - 1, sign, value, scale)
  BY <1>1, Reading DEF FieldInv
<1>3. Kept(field) = Len(field)
  <2>1. Fits(field, Len(field)) /\ Len(field) \in 0 .. Len(field)
    BY <1>2 DEF ReadAs
  <2>2. Len(field) <= Kept(field) /\ Kept(field) \in 0 .. Len(field)
    BY <1>2, <2>1, KeptIs
  <2>. QED  BY <1>2, <2>2
<1>. QED  BY <1>1, <1>2, <1>3 DEF FieldInv, Accepted, Decoded

(* What minmea_scan does after the loop.                                   *)
LEMMA FieldFinish == ASSUME FieldInv, Finish PROVE FieldInv'
<1> DEFINE k == Kept(field)
<1>1. st = "end" /\ field \in Seq(FieldChars)
  BY FieldAssumption DEF Finish, FieldInv
<1>2. /\ pos - 1 = k
      /\ k = Len(field) \/ scale # 0
      /\ ReadAs(field, k, sign, value, scale) /\ k \in 0 .. Len(field)
  BY <1>1, KeptIs DEF FieldInv
<1> HIDE DEF k
<1>3. /\ value = -1 <=> ~Has(field, k, DigitChars)
      /\ sign = 0 <=> ~Has(field, k, Signs)
      /\ Representable(field, k) => (scale = 0 <=> ~Has(field, k, {Dot}))
  <2>1. ReadAs(field, k, sign, value, scale) /\ k \in 0 .. Len(field)
    BY <1>2
  <2>. QED  BY <1>1, <2>1, ReadFacts
<1>4. Has(field, k, Signs \cup {Dot}) <=> Has(field, k, Signs) \/ Has(field, k, {Dot})
  BY DEF Has
<1>5. CASE (sign # 0 \/ scale # 0) /\ value = -1
  <2>1. Fail
    BY <1>5 DEF Finish
  <2>2. Representable(field, k) => ~Valid(field)
    BY <1>3, <1>4, <1>5 DEF Valid, WellFormed, k
  <2>. QED  BY <2>1, <2>2, Refused DEF k
<1>6. CASE ~((sign # 0 \/ scale # 0) /\ value = -1)
  <2>1. /\ value' = IF value = -1 THEN 0 ELSE IF sign = 0 THEN value ELSE value * sign
        /\ scale' = IF value = -1 THEN 0 ELSE IF scale = 0 THEN 1 ELSE scale
        /\ st' = "ok" /\ UNCHANGED <<field, pos, sign>>
    BY <1>6 DEF Finish
  <2>2. ASSUME Representable(field, k)
        PROVE  /\ Valid(field)
               /\ value' = (IF Has(field, k, {Minus}) THEN -Number(field, k)
                                                    ELSE Number(field, k))
               /\ scale' = (IF Has(field, k, DigitChars)
                            THEN Power10[Decimals(field, k)] ELSE 0)
    <3>1. Valid(field)
      BY <1>2, <1>3, <1>4, <1>6, <2>2 DEF Valid, WellFormed, ReadAs, k
    <3>2. Number(field, k) \in Nat /\ k \in Nat
      BY <1>1, <1>2, NumberIs
    <3>3. value' = (IF Has(field, k, {Minus}) THEN -Number(field, k)
                                              ELSE Number(field, k))
      <4>1. CASE value = -1
        <5>1. sign = 0 /\ Number(field, k) = 0 /\ value' = 0
          BY <1>2, <1>3, <1>6, <2>1, <4>1 DEF ReadAs
        <5>2. ~Has(field, k, {Minus})
          BY <1>2, <5>1 DEF ReadAs
        <5>. QED  BY <5>1, <5>2
      <4>2. CASE value # -1
        <5>1. value = Number(field, k)
          BY <1>2, <1>3, <4>2 DEF ReadAs
        <5>2. value' = IF sign = 0 THEN value ELSE value * sign
          BY <2>1, <4>2
        <5>3. sign = IF Has(field, k, {Minus}) THEN -1
                     ELSE IF Has(field, k, {Plus}) THEN 1 ELSE 0
          BY <1>2 DEF ReadAs
        <5>. QED  BY <3>2, <5>1, <5>2, <5>3
      <4>. QED  BY <4>1, <4>2
    <3>4. scale' = (IF Has(field, k, DigitChars)
                    THEN Power10[Decimals(field, k)] ELSE 0)
      <4>1. scale = IF Has(field, k, {Dot}) THEN Power10[Decimals(field, k)] ELSE 0
        BY <1>2, <2>2 DEF ReadAs
      <4>2. ~Has(field, k, {Dot}) => Power10[Decimals(field, k)] = 1
        BY <3>2, DecimalsIs, Power10Is
      <4>. QED  BY <1>3, <2>1, <2>2, <4>1, <4>2
    <3>. QED  BY <3>1, <3>3, <3>4
  <2>3. Accepted' /\ Decoded'
    BY <2>1, <2>2 DEF Accepted, Decoded, ScaleRepresentable, Valid, k
  <2>. QED  BY <2>1, <2>3 DEF FieldInv
<1>. QED  BY <1>5, <1>6

(* Every field is scanned as the reference says, whatever its length.      *)
THEOREM FieldInductive == Spec => []FieldInv
<1>1. Init => FieldInv
  BY FieldInit
<1>2. FieldInv /\ [Next]_vars => FieldInv'
  <2> SUFFICES ASSUME FieldInv, [Next]_vars PROVE FieldInv'
    OBVIOUS
  <2>1. CASE UNCHANGED vars
    BY <2>1 DEF FieldInv, vars, Accepted, Decoded, ScaleRepresentable
  <2>. QED  BY <2>1, FieldSign, FieldDigit, FieldDot, FieldSpace, FieldOther,
               FieldEnd, FieldFinish DEF Next
<1>. QED  BY <1>1, <1>2, PTL DEF Spec

(* minmea_scan accepts a fractional field exactly if what fits of it is a  *)
(* decimal number and nothing but decimals is dropped.                     *)
THEOREM AcceptedHolds == Spec => []Accepted
<1>1. FieldInv => Accepted
  BY DEF FieldInv
<1>. QED  BY <1>1, FieldInductive, PTL

(* The value and the scale minmea_scan returns are those of the text.      *)
THEOREM DecodedHolds == Spec => []Decoded
<1>1. FieldInv => Decoded
  BY DEF FieldInv
<1>. QED  BY <1>1, FieldInductive, PTL
-----------------------------------------------------------------------------
(* Adding half of the divisor first makes a division round to the nearest. *)
LEMMA HalfUp ==
    ASSUME NEW a \in Nat, NEW m \in Nat, m > 0
    PROVE  LET q == (a + (m \div 2)) \div m
           IN  /\ q \in Nat
               /\ 2 * (q * m - a) <= m /\ 2 * (a - q * m) <= m
<1> DEFINE h == m \div 2
           q == (a + h) \div m
           r == (a + h) % m
           p == q * m
<1>1. h \in Nat /\ 2 * h <= m /\ m <= 2 * h + 1
  OBVIOUS
<1> HIDE DEF h
<1>2. q \in Nat /\ r \in 0 .. m - 1 /\ a + h = (q * m) + r
  BY <1>1
<1> HIDE DEF q, r
<1>3. p \in Nat /\ a + h = p + r
  BY <1>2
<1> HIDE DEF p
<1>4. 2 * (p - a) <= m /\ 2 * (a - p) <= m
  BY <1>1, <1>2, <1>3
<1>. QED  BY <1>2, <1>4 DEF q, p, h

(* minmea_rescale for more than three decimals.                            *)
LEMMA RescaleDown ==
    ASSUME NEW f, f.value \in Int, Rescalable(f), NEW m \in Nat, m > 1,
           f.scale = 1000 * m
    PROVE  /\ Rescaled(f) \in Int
           /\ f.value >= 0 => Rescaled(f) >= 0
           /\ 2 * Abs(Rescaled(f) * m - f.value) <= m
<1> DEFINE v == f.value
           h == m \div 2
<1>0. v \in Int /\ h \in Nat /\ Abs(v) + h <= IntMax /\ IntMax \in Nat
  <2>1. f.scale > 1000 /\ f.scale \div 2000 = h
    OBVIOUS
  <2>2. Abs(v) + f.scale \div 2000 <= IntMax
    BY <2>1 DEF Rescalable
  <2>. QED  BY <2>1, <2>2, IntMaxAssumption
<1>1. f.scale # 0 /\ f.scale # 1000 /\ f.scale > 1000 /\ f.scale \div 1000 = m
  OBVIOUS
<1>2. Rescaled(f) =
        CDiv(Wrap(v + CDiv(CDiv(Sign(v) * f.scale, 1000), 2)), m)
  BY <1>1 DEF Rescaled, minmea_rescale
<1>3. CASE v > 0
  <2>1. Sign(v) * f.scale = 1000 * m
    BY <1>3 DEF Sign
  <2>2. CDiv(1000 * m, 1000) = m /\ CDiv(m, 2) = h
    BY DEF CDiv
  <2>3. v + h \in -IntMax .. IntMax /\ v + h >= 0 /\ v \in Nat
    BY <1>0, <1>3 DEF Abs
  <2>4. Rescaled(f) = (v + h) \div m
    <3>1. Wrap(v + h) = v + h
      BY <2>3, WrapFits
    <3>2. Rescaled(f) = CDiv(v + h, m)
      BY <1>2, <2>1, <2>2, <3>1
    <3>. QED  BY <2>3, <3>2 DEF CDiv
  <2> DEFINE q == (v + h) \div m
             p == q * m
  <2>5. q \in Nat /\ 2 * (p - v) <= m /\ 2 * (v - p) <= m
    BY <2>3, HalfUp
  <2> HIDE DEF q
  <2>6. p \in Int
    BY <2>5
  <2> HIDE DEF p
  <2>7. 2 * Abs(p - v) <= m
    BY <1>0, <2>5, <2>6 DEF Abs
  <2>. QED  BY <2>4, <2>5, <2>7 DEF q, p
<1>4. CASE v < 0
  <2>1. Sign(v) * f.scale = -(1000 * m)
    BY <1>4 DEF Sign
  <2>2. CDiv(-(1000 * m), 1000) = -m /\ CDiv(-m, 2) = -h
    <3>1. ~(-(1000 * m) >= 0) /\ -(-(1000 * m)) = 1000 * m
          /\ ~(-m >= 0) /\ -(-m) = m
      OBVIOUS
    <3>. QED  BY <3>1 DEF CDiv
  <2>3. v - h \in -IntMax .. IntMax /\ ~(v - h >= 0) /\ -v \in Nat
        /\ v + (-h) = v - h /\ -(v - h) = -v + h
    BY <1>0, <1>4 DEF Abs
  <2>4. Rescaled(f) = -((-v + h) \div m)
    <3>1. Wrap(v - h) = v - h
      BY <2>3, WrapFits
    <3>2. Rescaled(f) = CDiv(v - h, m)
      BY <1>2, <2>1, <2>2, <2>3, <3>1
    <3>. QED  BY <2>3, <3>2 DEF CDiv
  <2> DEFINE q == (-v + h) \div m
             p == q * m
  <2>5. q \in Nat /\ 2 * (p - (-v)) <= m /\ 2 * ((-v) - p) <= m
    BY <2>3, HalfUp
  <2> HIDE DEF q
  <2>6. p \in Int /\ (-q) * m = -p /\ -q \in Int
    BY <2>5
  <2> HIDE DEF p
  <2>7. 2 * Abs(-p - v) <= m
    BY <1>0, <2>5, <2>6 DEF Abs
  <2>8. Rescaled(f) = -q
    BY <2>4 DEF q
  <2>. QED  BY <1>4, <2>6, <2>7, <2>8
<1>5. CASE v = 0
  <2>1. Sign(v) * f.scale = 0 /\ CDiv(0, 1000) = 0 /\ CDiv(0, 2) = 0
        /\ CDiv(0, m) = 0
    BY <1>5 DEF Sign, CDiv
  <2>2. 0 \in -IntMax .. IntMax
    BY <1>0
  <2>3. Rescaled(f) = 0
    BY <1>2, <1>5, <2>1, <2>2, WrapFits
  <2>. QED  BY <1>5, <2>3 DEF Abs
<1>. QED  BY <1>0, <1>3, <1>4, <1>5

(* Up to three decimals it is exact.                                       *)
LEMMA RescaleUp ==
    ASSUME NEW f, f.value \in Int, Rescalable(f), f.scale \in {1, 10, 100, 1000}
    PROVE  /\ Rescaled(f) \in Int
           /\ f.value >= 0 => Rescaled(f) >= 0
           /\ Rescaled(f) * f.scale = f.value * 1000
<1> DEFINE v == f.value
<1>1. ASSUME NEW s \in {1, 10, 100}, NEW j \in {10, 100, 1000}, f.scale = s,
             s * j = 1000, 1000 \div s = j
      PROVE  /\ Rescaled(f) = v * j
             /\ v * j \in Int /\ (v >= 0 => v * j >= 0)
  <2>1. Abs(v) * j <= IntMax
    BY <1>1 DEF Rescalable
  <2>2. v * j \in -IntMax .. IntMax
    BY <1>1, <2>1, IntMaxAssumption DEF Abs
  <2>3. Rescaled(f) = Wrap(v * j)
    BY <1>1 DEF Rescaled, minmea_rescale
  <2>. QED  BY <1>1, <2>2, <2>3, WrapFits
<1>2. CASE f.scale = 1
  BY <1>1, <1>2
<1>3. CASE f.scale = 10
  BY <1>1, <1>3
<1>4. CASE f.scale = 100
  BY <1>1, <1>4
<1>5. CASE f.scale = 1000
  <2>1. Rescaled(f) = v
    BY <1>5 DEF Rescaled, minmea_rescale
  <2>. QED  BY <1>5, <2>1
<1>. QED  BY <1>2, <1>3, <1>4, <1>5

(* Both together: the nearest multiple of 1/1000.                          *)
LEMMA RescaleNearest ==
    ASSUME NEW f, f.value \in Int, f.scale \in Nat, Rescalable(f)
    PROVE  /\ Rescaled(f) \in Int /\ f.scale > 0
           /\ f.value >= 0 => Rescaled(f) >= 0
           /\ 2 * Abs(Rescaled(f) * f.scale - f.value * 1000) <= f.scale
<1>1. CASE f.scale \in {1, 10, 100, 1000}
  <2>1. /\ Rescaled(f) \in Int /\ (f.value >= 0 => Rescaled(f) >= 0)
        /\ Rescaled(f) * f.scale = f.value * 1000
    BY <1>1, RescaleUp
  <2>2. Abs(Rescaled(f) * f.scale - f.value * 1000) = 0
    BY <2>1 DEF Abs
  <2>3. 2 * 0 <= f.scale /\ f.scale > 0
    BY <1>1
  <2>. QED  BY <2>1, <2>2, <2>3
<1>2. CASE f.scale \notin {1, 10, 100, 1000}
  <2>1. f.scale % 1000 = 0 /\ f.scale > 0
    BY <1>2 DEF Rescalable, DecimalScale
  <2>2. PICK m \in Nat : f.scale = 1000 * m
    <3>1. f.scale \div 1000 \in Nat /\ f.scale = 1000 * (f.scale \div 1000)
      BY <2>1
    <3>. QED  BY <3>1
  <2>3. m > 1
    BY <1>2, <2>1, <2>2
  <2> DEFINE R == Rescaled(f)
             v == f.value
             p == R * m
  <2>4. R \in Int /\ (v >= 0 => R >= 0) /\ 2 * Abs(p - v) <= m
    BY <2>2, <2>3, RescaleDown
  <2> HIDE DEF R
  <2>5. p \in Int /\ R * f.scale = 1000 * p
    BY <2>2, <2>4
  <2> HIDE DEF p
  <2>6. 2 * Abs(R * f.scale - v * 1000) <= f.scale
    BY <2>2, <2>4, <2>5 DEF Abs
  <2>. QED  BY <2>1, <2>4, <2>6 DEF R
<1>. QED  BY <1>1, <1>2

(* In range, the unsigned product does not wrap around.                    *)
LEMMA ConvertInRange ==
    ASSUME NEW f, f.value \in Int, f.scale \in Nat, InRange(f)
    PROVE  /\ Rescaled(f) \in Nat
           /\ Convert(f) = (Rescaled(f) * 1852) \div 1000 /\ Convert(f) \in Nat
<1>1. Rescaled(f) \in Nat /\ Rescaled(f) * 1852 < U32
  BY RescaleNearest DEF InRange
<1>2. U32 \in Nat /\ U32 > 0
  BY IntMaxAssumption DEF U32
<1>3. Rescaled(f) % U32 = Rescaled(f)
      /\ (Rescaled(f) * 1852) % U32 = Rescaled(f) * 1852
  BY <1>1, <1>2
<1>4. (Rescaled(f) * 1852) \div 1000 \in Nat
  BY <1>1
<1>. QED  BY <1>1, <1>3, <1>4 DEF Convert

-----------------------------------------------------------------------------
\* ext_speed is the conversion of the last sentence.
ConversionInv ==
    /\ speed.value \in Int /\ speed.scale \in Nat
    /\ ext_speed = Convert(speed)

(* Every sentence keeps it so.                                             *)
THEOREM ConversionInductive == Conversions => []ConversionInv
<1>1. FirstSentence => ConversionInv
  BY SpeedsAssumption DEF FirstSentence, ConversionInv
<1>2. ConversionInv /\ [Sentence]_<<speed, ext_speed>> => ConversionInv'
  <2> SUFFICES ASSUME ConversionInv, [Sentence]_<<speed, ext_speed>>
               PROVE  ConversionInv'
    OBVIOUS
  <2>1. CASE Sentence
    BY <2>1, SpeedsAssumption DEF Sentence, ConversionInv
  <2>2. CASE UNCHANGED <<speed, ext_speed>>
    BY <2>2 DEF ConversionInv
  <2>. QED  BY <2>1, <2>2
<1>. QED  BY <1>1, <1>2, PTL DEF Conversions

(* minmea_rescale gives the nearest multiple of 1/new_scale.               *)
THEOREM NearestHolds == Conversions => []Nearest
<1>1. ConversionInv => Nearest
  BY RescaleNearest DEF ConversionInv, Nearest
<1>. QED  BY <1>1, ConversionInductive, PTL

(* The two roundings and the unsigned arithmetic cost less than two        *)
(* thousandths of a km/h.                                                  *)
LEMMA ConvertAccurate ==
    ASSUME NEW f, f.value \in Int, f.scale \in Nat, InRange(f)
    PROVE  Abs(Convert(f) * f.scale - f.value * 1852) < 2 * f.scale
<1> DEFINE R == Rescaled(f)
           v == f.value
           s == f.scale
           e == Convert(f)
           t == (R * 1852) % 1000
           a == R * s
           b == t * s
           c == e * s
<1>1. v \in Int /\ s \in Nat /\ Rescalable(f)
  BY DEF InRange
<1>2. R \in Nat /\ e \in Nat /\ e = (R * 1852) \div 1000
  BY <1>1, ConvertInRange
<1>3. s > 0 /\ 2 * Abs(a - v * 1000) <= s
  BY <1>1, RescaleNearest
<1> HIDE DEF R, v, s, e
<1>4. t \in 0 .. 999 /\ 1000 * e = R * 1852 - t
  BY <1>2
<1> HIDE DEF t
<1>5. a \in Int /\ b \in Int /\ c \in Int /\ 0 <= b /\ b <= 999 * s
      /\ 1000 * c = 1852 * a - b
  BY <1>1, <1>2, <1>4
<1> HIDE DEF a, b, c
<1>6. Abs(c - v * 1852) < 2 * s
  BY <1>1, <1>3, <1>5 DEF Abs
<1>. QED  BY <1>6 DEF c, v, s, e

(* So ext_speed is the speed of the last sentence.                         *)
THEOREM KmhAccurateHolds == Conversions => []KmhAccurate
<1>1. ConversionInv => KmhAccurate
  BY ConvertAccurate DEF ConversionInv, KmhAccurate
<1>. QED  BY <1>1, ConversionInductive, PTL

(* Of two speeds in range, with whatever decimals, the higher one is       *)
(* converted to no smaller number.                                         *)
LEMMA ConvertMonotone ==
    ASSUME NEW f, f.value \in Int, f.scale \in Nat, InRange(f),
           NEW g, g.value \in Int, g.scale \in Nat, InRange(g), Faster(f, g)
    PROVE  Convert(g) >= Convert(f)
<1> DEFINE F == Rescaled(f)
           G == Rescaled(g)
           v == f.value
           w == g.value
           s == f.scale
           t == g.scale
<1>1. /\ F \in Nat /\ G \in Nat /\ s > 0 /\ t > 0
      /\ Convert(f) = (F * 1852) \div 1000 /\ Convert(g) = (G * 1852) \div 1000
  BY ConvertInRange, RescaleNearest DEF InRange
<1>2. 2 * Abs(F * s - v * 1000) <= s /\ 2 * Abs(G * t - w * 1000) <= t
  BY RescaleNearest DEF InRange
<1>3. v \in Int /\ w \in Int /\ s \in Nat /\ t \in Nat /\ w * s > v * t
  BY DEF Faster
<1> HIDE DEF F, G, v, w, s, t
<1>4. 2 * (F * s) <= 2000 * v + s /\ 2 * (G * t) >= 2000 * w - t
  <2> DEFINE a == F * s
             b == G * t
  <2>1. a \in Int /\ b \in Int
    BY <1>1, <1>3
  <2>2. 2 * Abs(a - v * 1000) <= s /\ 2 * Abs(b - w * 1000) <= t
    BY <1>2
  <2> HIDE DEF a, b
  <2>3. 2 * a <= 2000 * v + s /\ 2 * b >= 2000 * w - t
    BY <1>3, <2>1, <2>2 DEF Abs
  <2>. QED  BY <2>3 DEF a, b
<1>5. F <= G
  <2> SUFFICES ASSUME F >= G + 1 PROVE FALSE
    BY <1>1
  <2> DEFINE x == v * t
             y == w * s
             z == s * t
             a == (F * s) * t
             b == (G * t) * s
  <2>1. /\ x \in Int /\ y \in Int /\ z \in Int /\ a \in Int /\ b \in Int
        /\ z > 0 /\ y > x
    BY <1>1, <1>3
  <2>2. 2 * a <= 2000 * x + z
    BY <1>1, <1>3, <1>4
  <2>3. 2 * b >= 2000 * y - z
    BY <1>1, <1>3, <1>4
  <2>4. a >= b + z
    BY <1>1, <1>3
  <2> HIDE DEF x, y, z, a, b
  <2>. QED  BY <2>1, <2>2, <2>3, <2>4
<1>. QED  BY <1>1, <1>5

(* A sentence with a higher speed never makes ext_speed smaller.           *)
THEOREM MonotoneHolds == Conversions => Monotone
<1>1. ConversionInv /\ ConversionInv' /\ [Sentence]_<<speed, ext_speed>> =>
        [InRange(speed) /\ InRange(speed') /\ Faster(speed, speed')
           => ext_speed' >= ext_speed]_<<speed, ext_speed>>
  BY ConvertMonotone DEF ConversionInv
<1>. QED  BY <1>1, ConversionInductive, PTL DEF Conversions, Monotone

-----------------------------------------------------------------------------
(* From the text to km/h: the scale of an accepted field is one that       *)
(* minmea_rescale can work with, and as long as no result overflows, the   *)
(* number the firmware shows is the one that was written, less than two    *)
(* thousandths of a km/h off.                                              *)
TextAccurate ==
    LET k == Kept(field)
        f == [value |-> value, scale |-> scale]
        unit == Power10[Decimals(field, k)]
    IN  st = "ok" /\ ScaleRepresentable /\ Has(field, k, DigitChars) =>
          /\ DecimalScale(scale)
          /\ InRange(f) =>
               Abs(Convert(f) * unit - Number(field, k) * 1852) < 2 * unit

(* The powers of ten are the scales minmea_rescale expects.                *)
LEMMA Power10Decimal == \A n \in Nat : DecimalScale(Power10[n])
<1> SUFFICES ASSUME NEW n \in Nat PROVE DecimalScale(Power10[n])
  OBVIOUS
<1>1. Power10[0] = 1 /\ Power10[1] = 10 /\ Power10[2] = 100
  <2>1. Power10[0 + 1] = 10 * Power10[0] /\ Power10[1 + 1] = 10 * Power10[1]
        /\ Power10[0] = 1
    BY Power10Is
  <2>. QED  BY <2>1
<1>2. CASE n \in 0 .. 2
  BY <1>1, <1>2 DEF DecimalScale
<1>3. CASE n \notin 0 .. 2
  <2>1. PICK m \in Nat : n = ((m + 1) + 1) + 1
    <3>1. n - 3 \in Nat /\ n = (((n - 3) + 1) + 1) + 1
      BY <1>3
    <3>. QED  BY <3>1
  <2>2. /\ m + 1 \in Nat /\ (m + 1) + 1 \in Nat /\ Power10[m] \in Nat
        /\ Power10[m + 1] = 10 * Power10[m]
    BY Power10Is
  <2>3. Power10[(m + 1) + 1] = 10 * Power10[m + 1]
        /\ Power10[n] = 10 * Power10[(m + 1) + 1]
    BY <2>1, <2>2, Power10Is
  <2>4. Power10[m] >= 1 /\ Power10[n] = 1000 * Power10[m]
    BY <2>2, <2>3, Power10Grows
  <2>5. Power10[n] > 0 /\ Power10[n] % 1000 = 0
    BY <2>2, <2>4
  <2>. QED  BY <2>5 DEF DecimalScale
<1>. QED  BY <1>2, <1>3

(* The speed in the text of a sentence is the speed of the firmware.       *)
THEOREM TextAccurateHolds == Spec => []TextAccurate
<1>1. FieldInv => TextAccurate
  <2> DEFINE k == Kept(field)
             f == [value |-> value, scale |-> scale]
             unit == Power10[Decimals(field, k)]
             n == Number(field, k)
  <2> SUFFICES ASSUME FieldInv, st = "ok", ScaleRepresentable,
                      Has(field, k, DigitChars)
               PROVE  /\ DecimalScale(scale)
                      /\ InRange(f) => Abs(Convert(f) * unit - n * 1852) < 2 * unit
    BY DEF TextAccurate
  <2>1. field \in Seq(FieldChars)
    BY FieldAssumption DEF FieldInv
  <2>2. k \in 0 .. Len(field) /\ k \in Nat
    BY <2>1, KeptIs
  <2>3. n \in Nat
    BY <2>1, <2>2, NumberIs
  <2>4. Decimals(field, k) \in Nat
    BY <2>2, DecimalsIs
  <2>5. unit \in Nat /\ DecimalScale(unit)
    BY <2>4, Power10Is, Power10Decimal
  <2>6. scale = unit /\ value = IF Has(field, k, {Minus}) THEN -n ELSE n
    BY DEF FieldInv, Decoded
  <2> HIDE DEF k, n, unit
  <2>7. value \in Int
    BY <2>3, <2>6
  <2>8. ASSUME InRange(f) PROVE Abs(Convert(f) * unit - n * 1852) < 2 * unit
    <3>1. f.value = value /\ f.scale = scale
      OBVIOUS
    <3>2. value >= 0
      BY <2>8 DEF InRange
    <3>3. value = n
      BY <2>3, <2>6, <3>2
    <3> HIDE DEF f
    <3>4. Abs(Convert(f) * f.scale - f.value * 1852) < 2 * f.scale
      BY <2>5, <2>6, <2>7, <2>8, <3>1, ConvertAccurate
    <3>. QED  BY <2>6, <3>1, <3>3, <3>4
  <2>. QED  BY <2>5, <2>6, <2>8
<1>. QED  BY <1>1, FieldInductive, PTL
=============================================================================

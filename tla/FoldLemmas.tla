----------------------------- MODULE FoldLemmas ----------------------------
(***************************************************************************)
(* Facts about folds from the left and about two's complement, for every   *)
(* length and every width.  The induction principles of the library take   *)
(* an operator; here induction is over a set of naturals, and what is      *)
(* folded is given as a function from a position and the value so far.     *)
(***************************************************************************)
EXTENDS Integers, Sequences, SequencesExt, WellFoundedInduction, TLAPS

\* A set of naturals that holds 0 and every successor of its elements holds all.
LEMMA SetInduction ==
  ASSUME NEW S, 0 \in S, \A n \in Nat : n \in S => n + 1 \in S
  PROVE  Nat \subseteq S
<1>. DEFINE T == Nat \ S
<1>. SUFFICES ASSUME T # {} PROVE FALSE
  OBVIOUS
<1>1. PICK n \in T : \A m \in T : ~ (<<m, n>> \in OpToRel(<, Nat))
  <2>. HIDE DEF T
  <2>1. T \subseteq Nat
    BY DEF T
  <2>. QED  BY <2>1, WFMin, NatLessThanWellFounded
<1>2. \A m \in T : ~ (m < n)
  BY <1>1 DEF OpToRel
<1>3. n # 0 /\ n - 1 \in Nat /\ n - 1 \notin T
  BY <1>2
<1>. QED  BY <1>3

(* A member that no other exceeds is the maximum. *)
LEMMA MaxOf ==
  ASSUME NEW T, T \subseteq Int, NEW x \in T, \A y \in T : y <= x
  PROVE  Max(T) = x
<1>1. \A y \in T : x >= y
  OBVIOUS
<1>2. \A z \in T : (\A y \in T : z >= y) => z = x
  OBVIOUS
<1>3. Max(T) \in T /\ \A y \in T : Max(T) >= y
  BY <1>1 DEF Max
<1>. QED  BY <1>2, <1>3

\* A set of the first n numbers has its maximum among its elements.
LEMMA MaxAmong ==
  ASSUME NEW N \in Nat, NEW T \in SUBSET (1 .. N), T # {}
  PROVE  Max(T) \in T
<1>. DEFINE Has(n) == \A U \in SUBSET (1 .. n) : U # {} => Max(U) \in U
            Good == {n \in Nat : Has(n)}
<1>1. Has(0)
  <2>1. \A U \in SUBSET (1 .. 0) : U = {}
    OBVIOUS
  <2>. QED  BY <2>1
<1>2. ASSUME NEW n \in Nat, Has(n) PROVE Has(n + 1)
  <2>1. ASSUME NEW U \in SUBSET (1 .. n + 1), n + 1 \in U PROVE Max(U) \in U
    <3>1. U \subseteq Int /\ \A y \in U : y <= n + 1
      OBVIOUS
    <3>. QED  BY <2>1, <3>1, MaxOf
  <2>2. ASSUME NEW U \in SUBSET (1 .. n + 1), n + 1 \notin U PROVE U \in SUBSET (1 .. n)
    BY <2>2
  <2>. QED  BY <1>2, <2>1, <2>2
<1>. HIDE DEF Has
<1>3. 0 \in Good /\ \A n \in Nat : n \in Good => n + 1 \in Good
  BY <1>1, <1>2
<1>4. Has(N)
  <2>. HIDE DEF Good
  <2>1. Nat \subseteq Good
    BY <1>3, SetInduction
  <2>. QED  BY <2>1 DEF Good
<1>. QED  BY <1>4 DEF Has

\* f folds the first N steps from the left, as FoldLeft does: f[1 .. n] is what the
\* first n of them make of base.
IsFold(f, N, base, step) ==
  \A T \in SUBSET (1 .. N) :
    f[T] = IF T = {} THEN base ELSE step[<<Max(T), f[T \ {Max(T)}]>>]

\* A fold from the left is well defined.
LEMMA FoldExists ==
  ASSUME NEW N \in Nat, NEW S, NEW base \in S, NEW step \in [(1 .. N) \X S -> S]
  PROVE  \E f \in [SUBSET (1 .. N) -> S] : IsFold(f, N, base, step)
<1>. DEFINE Rec(n, iter) == IsFold(iter, n, base, step)
            Has(n) == \E iter \in [SUBSET (1 .. n) -> S] : Rec(n, iter)
            Good == {n \in Nat : n <= N => Has(n)}
<1>. USE DEF IsFold
<1>1. Has(0)
  <2>. DEFINE iter == [T \in SUBSET (1 .. 0) |-> base]
  <2>1. \A T \in SUBSET (1 .. 0) : T = {}
    OBVIOUS
  <2>2. iter \in [SUBSET (1 .. 0) -> S] /\ Rec(0, iter)
    BY <2>1
  <2>. QED  BY <2>2
<1>2. ASSUME NEW n \in Nat, n + 1 <= N, Has(n) PROVE Has(n + 1)
  <2>1. PICK f \in [SUBSET (1 .. n) -> S] : Rec(n, f)
    BY <1>2
  <2>. DEFINE rest(T) == T \ {n + 1}
              iter == [T \in SUBSET (1 .. n + 1) |->
                         IF n + 1 \in T THEN step[<<n + 1, f[rest(T)]>>] ELSE f[T]]
  <2>2. \A T \in SUBSET (1 .. n + 1) : rest(T) \in SUBSET (1 .. n)
    OBVIOUS
  <2>3. \A T \in SUBSET (1 .. n + 1) : n + 1 \notin T => T \in SUBSET (1 .. n)
    OBVIOUS
  <2>4. n + 1 \in 1 .. N
    BY <1>2
  <2>5. iter \in [SUBSET (1 .. n + 1) -> S]
    <3>1. ASSUME NEW T \in SUBSET (1 .. n + 1)
          PROVE  (IF n + 1 \in T THEN step[<<n + 1, f[rest(T)]>>] ELSE f[T]) \in S
      <4>1. f[rest(T)] \in S
        BY <2>1, <2>2
      <4>2. step[<<n + 1, f[rest(T)]>>] \in S
        BY <2>4, <4>1
      <4>. HIDE DEF rest
      <4>. QED  BY <2>1, <2>3, <4>2
    <3>. QED  BY <3>1
  <2>6. ASSUME NEW T \in SUBSET (1 .. n + 1)
        PROVE  iter[T] = IF T = {} THEN base ELSE step[<<Max(T), iter[T \ {Max(T)}]>>]
    <3>1. CASE n + 1 \in T
      <4>1. Max(T) = n + 1
        <5>1. T \subseteq Int /\ \A y \in T : y <= n + 1
          OBVIOUS
        <5>. QED  BY <3>1, <5>1, MaxOf
      <4>2. rest(T) \in SUBSET (1 .. n + 1) /\ n + 1 \notin rest(T)
        OBVIOUS
      <4>3. iter[rest(T)] = f[rest(T)] /\ iter[T] = step[<<n + 1, f[rest(T)]>>]
        BY <3>1, <4>2
      <4>. HIDE DEF iter
      <4>. QED  BY <3>1, <4>1, <4>3
    <3>2. CASE n + 1 \notin T
      <4>1. T \in SUBSET (1 .. n)
        BY <2>3, <3>2
      <4>2. iter[T] = f[T]
        BY <3>2
      <4>3. ASSUME T # {} PROVE iter[T \ {Max(T)}] = f[T \ {Max(T)}]
        <5>1. T \ {Max(T)} \in SUBSET (1 .. n)
          BY <4>1
        <5>2. \A U \in SUBSET (1 .. n) : iter[U] = f[U]
          OBVIOUS
        <5>. HIDE DEF iter
        <5>. QED  BY <5>1, <5>2
      <4>4. f[T] = IF T = {} THEN base ELSE step[<<Max(T), f[T \ {Max(T)}]>>]
        BY <2>1, <4>1
      <4>. HIDE DEF iter
      <4>. QED  BY <4>2, <4>3, <4>4
    <3>. QED  BY <3>1, <3>2
  <2>. HIDE DEF iter
  <2>. QED  BY <2>5, <2>6
<1>. HIDE DEF Has
<1>3. 0 \in Good /\ \A n \in Nat : n \in Good => n + 1 \in Good
  BY <1>1, <1>2
<1>4. Has(N)
  <2>. HIDE DEF Good
  <2>1. Nat \subseteq Good
    BY <1>3, SetInduction
  <2>. QED  BY <2>1 DEF Good
<1>. QED  BY <1>4 DEF Has

\* The first n numbers and the last of them.
LEMMA MaxInterval ==
  ASSUME NEW n \in Nat \ {0}
  PROVE  Max(1 .. n) = n /\ (1 .. n) \ {n} = 1 .. n - 1 /\ 1 .. n # {}
<1>1. 1 .. n \subseteq Int /\ n \in 1 .. n /\ \A y \in 1 .. n : y <= n
  OBVIOUS
<1>2. Max(1 .. n) = n
  BY <1>1, MaxOf
<1>3. (1 .. n) \ {n} = 1 .. n - 1
  OBVIOUS
<1>. QED  BY <1>1, <1>2, <1>3

\* f folds the steps from the left as long as what they make is in S.
FoldsIn(f, N, S, base, step) ==
  /\ f[{}] = base
  /\ \A T \in SUBSET (1 .. N) :
       T # {} /\ f[T \ {Max(T)}] \in S => f[T] = step[<<Max(T), f[T \ {Max(T)}]>>]

\* A run of a fold to its end: what it has made after each of its steps.
IsRun(run, N, base, step, end) ==
  /\ run[0] = base /\ run[N] = end
  /\ \A i \in 1 .. N : run[i] = step[<<i, run[i - 1]>>]

\* A fold goes through its steps one by one, and never leaves S.
LEMMA FoldRuns ==
  ASSUME NEW N \in Nat, NEW S, NEW base \in S, NEW step \in [(1 .. N) \X S -> S],
         NEW f, FoldsIn(f, N, S, base, step)
  PROVE  \E run \in [0 .. N -> S] : IsRun(run, N, base, step, f[1 .. N])
<1>. DEFINE run == [n \in 0 .. N |-> f[1 .. n]]
            Good == {n \in Nat : n <= N => f[1 .. n] \in S}
<1>1. f[1 .. 0] = base
  <2>1. 1 .. 0 = {}
    OBVIOUS
  <2>. QED  BY <2>1 DEF FoldsIn
<1>2. ASSUME NEW i \in 1 .. N, f[1 .. i - 1] \in S
      PROVE  f[1 .. i] = step[<<i, f[1 .. i - 1]>>] /\ f[1 .. i] \in S
  <2>1. Max(1 .. i) = i /\ (1 .. i) \ {i} = 1 .. i - 1 /\ 1 .. i # {}
    <3>1. i \in Nat \ {0}
      OBVIOUS
    <3>. QED  BY <3>1, MaxInterval
  <2>2. 1 .. i \in SUBSET (1 .. N)
    OBVIOUS
  <2>3. f[1 .. i] = step[<<i, f[1 .. i - 1]>>]
    BY <1>2, <2>1, <2>2 DEF FoldsIn
  <2>. QED  BY <1>2, <2>3
<1>3. 0 \in Good /\ \A n \in Nat : n \in Good => n + 1 \in Good
  <2>1. ASSUME NEW n \in Nat, n + 1 <= N, f[1 .. n] \in S PROVE f[1 .. n + 1] \in S
    <3>1. n + 1 \in 1 .. N /\ (n + 1) - 1 = n
      BY <2>1
    <3>. QED  BY <1>2, <2>1, <3>1
  <2>. QED  BY <1>1, <2>1
<1>4. \A n \in 0 .. N : f[1 .. n] \in S
  <2>. HIDE DEF Good
  <2>1. Nat \subseteq Good
    BY <1>3, SetInduction
  <2>. QED  BY <2>1 DEF Good
<1>5. run \in [0 .. N -> S]
  BY <1>4
<1>6. IsRun(run, N, base, step, f[1 .. N])
  <2>1. ASSUME NEW i \in 1 .. N PROVE f[1 .. i] = step[<<i, f[1 .. i - 1]>>]
    BY <1>2, <1>4
  <2>. QED  BY <1>1, <2>1 DEF IsRun
<1>. QED  BY <1>5, <1>6

-----------------------------------------------------------------------------
(* The remainder is in range, and off by a multiple of the modulus. *)
LEMMA Division ==
  ASSUME NEW m \in Nat \ {0}, NEW n \in Int
  PROVE  n % m \in 0 .. m - 1 /\ \E q \in Int : n = m * q + (n % m)
<1>1. n % m \in 0 .. m - 1 /\ n \div m \in Int
  OBVIOUS
<1>2. n = m * (n \div m) + (n % m)
  OBVIOUS
<1>. QED  BY <1>1, <1>2

(* Adding a multiple of the modulus leaves the remainder. *)
LEMMA Remainder ==
  ASSUME NEW m \in Nat \ {0}, NEW q \in Int, NEW r \in 0 .. m - 1
  PROVE  (m * q + r) % m = r
OBVIOUS

\* What w bits of two's complement leave of n, if B is 2^(w - 1).
Wrap(n, B) == ((n + B) % (2 * B)) - B

\* It is in range, and off by a multiple of 2^w.
LEMMA WrapIs ==
  ASSUME NEW B \in Nat \ {0}, NEW n \in Int
  PROVE  /\ Wrap(n, B) \in -B .. B - 1
         /\ \E q \in Int : Wrap(n, B) = n + (2 * B) * q
<1>. DEFINE m == 2 * B
            r == (n + B) % m
<1>1. m \in Nat \ {0} /\ n + B \in Int
  OBVIOUS
<1>2. r \in 0 .. m - 1 /\ \E q \in Int : n + B = m * q + r
  <2>. HIDE DEF m
  <2>. QED  BY <1>1, Division
<1>3. PICK q \in Int : n + B = m * q + r
  BY <1>2
<1>4. Wrap(n, B) = n + m * (-q)
  <2>1. Wrap(n, B) = r - B
    BY DEF Wrap
  <2>. HIDE DEF r
  <2>2. m * (-q) = -(m * q)
    BY <1>3
  <2>. QED  BY <1>2, <1>3, <2>1, <2>2
<1>5. Wrap(n, B) \in -B .. B - 1
  <2>1. Wrap(n, B) = r - B
    BY DEF Wrap
  <2>. HIDE DEF r
  <2>. QED  BY <1>2, <2>1
<1>6. -q \in Int /\ Wrap(n, B) = n + (2 * B) * (-q)
  BY <1>4
<1>. QED  BY <1>5, <1>6

\* Numbers that differ by a multiple of 2^w wrap to the same.
LEMMA WrapSame ==
  ASSUME NEW B \in Nat \ {0}, NEW a \in Int, NEW q \in Int
  PROVE  Wrap(a + (2 * B) * q, B) = Wrap(a, B)
<1>. DEFINE m == 2 * B
            r == (a + B) % m
<1>1. m \in Nat \ {0} /\ a + B \in Int
  OBVIOUS
<1>. HIDE DEF m
<1>2. r \in 0 .. m - 1 /\ \E p \in Int : a + B = m * p + r
  BY <1>1, Division
<1>3. PICK p \in Int : a + B = m * p + r
  BY <1>2
<1>4. (m * (p + q) + r) % m = r
  <2>1. p + q \in Int
    OBVIOUS
  <2>. HIDE DEF r
  <2>. QED  BY <1>1, <1>2, <2>1, Remainder
<1>5. (a + m * q) + B = m * (p + q) + r
  <2>1. r \in Int
    BY <1>1, <1>2
  <2>. HIDE DEF r
  <2>2. m * (p + q) = m * p + m * q
    BY <1>1
  <2>. QED  BY <1>1, <1>3, <2>1, <2>2
<1>6. ((a + m * q) + B) % m = r
  BY <1>4, <1>5
<1>. QED  BY <1>6 DEF Wrap, m

\* Wrapping on the way to a sum does not change what it wraps to.
LEMMA WrapSum ==
  ASSUME NEW B \in Nat \ {0}, NEW a \in Int, NEW b \in Int
  PROVE  Wrap(Wrap(a, B) + b, B) = Wrap(a + b, B)
<1>1. PICK q \in Int : Wrap(a, B) = a + (2 * B) * q
  BY WrapIs
<1>2. Wrap(a, B) + b = (a + b) + (2 * B) * q /\ a + b \in Int
  <2>1. (2 * B) * q \in Int
    OBVIOUS
  <2>. QED  BY <1>1, <2>1
<1>3. Wrap((a + b) + (2 * B) * q, B) = Wrap(a + b, B)
  BY <1>2, WrapSame
<1>. QED  BY <1>2, <1>3

(* Zero fits in 64 bits. *)
LEMMA WrapZero ==
  ASSUME NEW B \in Nat \ {0}
  PROVE  Wrap(0, B) = 0
<1>1. 0 \in Int /\ B \in 0 .. 2 * B - 1 /\ 2 * B \in Nat \ {0}
  OBVIOUS
<1>2. ((2 * B) * 0 + B) % (2 * B) = B
  BY <1>1, Remainder
<1>. QED  BY <1>2 DEF Wrap

-----------------------------------------------------------------------------
\* The sum of the numbers, and what is left of it when every partial sum of the
\* prices is kept in two's complement.
Sum(numbers) == FoldLeft(LAMBDA total, n : total + n, 0, numbers)

WrappedTotal(parts, B) == FoldLeft(LAMBDA total, part : Wrap(total + part.price, B), 0, parts)

\* The partial sums.
IsSum(sum, N, number) ==
  sum[0] = 0 /\ \A i \in 1 .. N : sum[i] = sum[i - 1] + number[i]

(* The folded sum is the last of the partial sums. *)
LEMMA RunningSum ==
  ASSUME NEW N \in Nat, NEW number \in [1 .. N -> Int]
  PROVE  \E sum \in [0 .. N -> Int] : IsSum(sum, N, number) /\ Sum(number) = sum[N]
<1>. DEFINE Sums(g) == g = [T \in SUBSET (1 .. N) |->
                              IF T = {} THEN 0 ELSE g[T \ {Max(T)}] + number[Max(T)]]
            f == CHOOSE g : Sums(g)
            step == [x \in (1 .. N) \X Int |-> x[2] + number[x[1]]]
<1>1. Sum(number) = f[1 .. N]
  BY DEF Sum, FoldLeft, MapThenFoldSet
<1>2. step \in [(1 .. N) \X Int -> Int] /\ 0 \in Int
  OBVIOUS
<1>3. \A i \in 1 .. N, t \in Int : step[<<i, t>>] = t + number[i]
  <2>1. \A i \in 1 .. N, t \in Int : <<i, t>> \in (1 .. N) \X Int
    OBVIOUS
  <2>. QED  BY <2>1
<1>. HIDE DEF step
<1>4. Sums(f)
  <2>1. PICK g \in [SUBSET (1 .. N) -> Int] : IsFold(g, N, 0, step)
    BY <1>2, FoldExists
  <2>2. Sums(g)
    BY <1>3, <2>1, MaxAmong DEF IsFold
  <2>. HIDE DEF Sums
  <2>. QED  BY <2>2
<1>. HIDE DEF f
<1>5. FoldsIn(f, N, Int, 0, step)
  BY <1>3, <1>4, MaxAmong DEF FoldsIn
<1>. HIDE DEF Sums
<1>6. PICK sum \in [0 .. N -> Int] : IsRun(sum, N, 0, step, f[1 .. N])
  BY <1>2, <1>5, FoldRuns
<1>7. IsSum(sum, N, number)
  <2>1. ASSUME NEW i \in 1 .. N PROVE sum[i] = sum[i - 1] + number[i]
    <3>1. sum[i] = step[<<i, sum[i - 1]>>] /\ sum[i - 1] \in Int
      BY <1>6 DEF IsRun
    <3>. QED  BY <1>3, <3>1
  <2>. QED  BY <1>6, <2>1 DEF IsRun, IsSum
<1>. QED  BY <1>1, <1>6, <1>7 DEF IsRun

\* A total kept in two's complement is the sum, wrapped once.
LEMMA WrappedOnce ==
  ASSUME NEW B \in Nat \ {0}, NEW N \in Nat, NEW parts, DOMAIN parts = 1 .. N,
         NEW number \in [1 .. N -> Int], \A i \in 1 .. N : parts[i].price = number[i]
  PROVE  \E sum \in [0 .. N -> Int] :
           /\ IsSum(sum, N, number) /\ Sum(number) = sum[N]
           /\ WrappedTotal(parts, B) = Wrap(sum[N], B)
<1>. DEFINE Sums(g) == g = [T \in SUBSET (1 .. N) |->
                              IF T = {} THEN 0
                              ELSE Wrap(g[T \ {Max(T)}] + parts[Max(T)].price, B)]
            f == CHOOSE g : Sums(g)
            step == [x \in (1 .. N) \X Int |-> Wrap(x[2] + number[x[1]], B)]
<1>1. WrappedTotal(parts, B) = f[1 .. N]
  BY DEF WrappedTotal, FoldLeft, MapThenFoldSet
<1>2. step \in [(1 .. N) \X Int -> Int] /\ 0 \in Int
  <2>1. \A x \in (1 .. N) \X Int : x[2] + number[x[1]] \in Int
    OBVIOUS
  <2>2. \A n \in Int : Wrap(n, B) \in Int
    BY WrapIs
  <2>3. \A x \in (1 .. N) \X Int : Wrap(x[2] + number[x[1]], B) \in Int
    BY <2>1, <2>2
  <2>. QED  BY <2>3
<1>3. \A i \in 1 .. N, t \in Int : step[<<i, t>>] = Wrap(t + number[i], B)
  <2>1. \A i \in 1 .. N, t \in Int : <<i, t>> \in (1 .. N) \X Int
    OBVIOUS
  <2>. QED  BY <2>1
<1>. HIDE DEF step
<1>4. Sums(f)
  <2>1. PICK g \in [SUBSET (1 .. N) -> Int] : IsFold(g, N, 0, step)
    BY <1>2, FoldExists
  <2>2. Sums(g)
    <3>1. ASSUME NEW T \in SUBSET (1 .. N), T # {}
          PROVE  g[T] = Wrap(g[T \ {Max(T)}] + parts[Max(T)].price, B)
      <4>1. Max(T) \in 1 .. N /\ g[T \ {Max(T)}] \in Int
        BY <3>1, MaxAmong
      <4>2. g[T] = step[<<Max(T), g[T \ {Max(T)}]>>]
        BY <2>1, <3>1 DEF IsFold
      <4>. QED  BY <1>3, <4>1, <4>2
    <3>2. g[{}] = 0
      BY <2>1 DEF IsFold
    <3>. QED  BY <3>1, <3>2
  <2>. HIDE DEF Sums
  <2>. QED  BY <2>2
<1>. HIDE DEF f
<1>5. FoldsIn(f, N, Int, 0, step)
  <2>1. ASSUME NEW T \in SUBSET (1 .. N), T # {}, f[T \ {Max(T)}] \in Int
        PROVE  f[T] = step[<<Max(T), f[T \ {Max(T)}]>>]
    <3>1. Max(T) \in 1 .. N
      BY <2>1, MaxAmong
    <3>2. f[T] = Wrap(f[T \ {Max(T)}] + parts[Max(T)].price, B)
      BY <1>4, <2>1
    <3>. QED  BY <1>3, <2>1, <3>1, <3>2
  <2>2. f[{}] = 0
    BY <1>4
  <2>. QED  BY <2>1, <2>2 DEF FoldsIn
<1>. HIDE DEF Sums
<1>6. PICK run \in [0 .. N -> Int] : IsRun(run, N, 0, step, f[1 .. N])
  BY <1>2, <1>5, FoldRuns
<1>7. PICK sum \in [0 .. N -> Int] : IsSum(sum, N, number) /\ Sum(number) = sum[N]
  BY RunningSum
<1>. DEFINE Good == {n \in Nat : n <= N => run[n] = Wrap(sum[n], B)}
<1>8. 0 \in Good
  BY <1>6, <1>7, WrapZero DEF IsRun, IsSum
<1>9. ASSUME NEW n \in Nat, n \in Good PROVE n + 1 \in Good
  <2>. SUFFICES ASSUME n + 1 <= N PROVE run[n + 1] = Wrap(sum[n + 1], B)
    OBVIOUS
  <2>1. n + 1 \in 1 .. N /\ (n + 1) - 1 = n /\ n \in 0 .. N
    OBVIOUS
  <2>2. run[n] = Wrap(sum[n], B) /\ run[n] \in Int /\ sum[n] \in Int /\ number[n + 1] \in Int
    BY <1>9, <2>1
  <2>3. run[n + 1] = Wrap(run[n] + number[n + 1], B)
    <3>1. run[n + 1] = step[<<n + 1, run[n]>>]
      BY <1>6, <2>1 DEF IsRun
    <3>. QED  BY <1>3, <2>1, <2>2, <3>1
  <2>4. sum[n + 1] = sum[n] + number[n + 1]
    BY <1>7, <2>1 DEF IsSum
  <2>. QED  BY <2>2, <2>3, <2>4, WrapSum
<1>10. run[N] = Wrap(sum[N], B)
  <2>. HIDE DEF Good
  <2>1. Nat \subseteq Good
    BY <1>8, <1>9, SetInduction
  <2>. QED  BY <2>1 DEF Good
<1>. QED  BY <1>1, <1>6, <1>7, <1>10 DEF IsRun
============================================================================

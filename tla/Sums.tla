-------------------------------- MODULE Sums ----------------------------------
(***************************************************************************)
(* What the sums of the models promise (SumFunctionOnSet): salaries, the   *)
(* money and the nights of reports are sums over finite sets of rows, and  *)
(* neither the order of the rows nor how they are grouped matters.  The    *)
(* proofs take a smallest set that would disagree.                         *)
(***************************************************************************)
EXTENDS Integers, Functions, FiniteSetTheorems, TLAPS

(* Every set of naturals that is not empty has a least element.            *)
LEMMA NatMin ==
  ASSUME NEW T \in SUBSET Nat, T # {} PROVE \E x \in T : \A y \in T : x <= y
<1> DEFINE R == {z \in Nat \X Nat : z[1] < z[2]}
<1>1. OpToRel(<, Nat) = R
  BY Zenon DEF OpToRel
<1>2. IsWellFoundedOn(R, Nat)
  BY <1>1, NatLessThanWellFounded, Zenon
<1>3. \A x, y \in Nat : y < x => <<y, x>> \in R
  OBVIOUS
<1> HIDE DEF R
<1>4. PICK x \in T : \A y \in T : ~(<<y, x>> \in R)
  BY <1>2, WFMin, Zenon
<1>5. ASSUME NEW y \in T PROVE x <= y
  <2>1. ~(y < x)
    BY <1>3, <1>4
  <2>2. QED
    BY <2>1
<1>6. QED
  BY <1>5

Picked(s) == CHOOSE x \in s : TRUE

(* f adds up w over every part of S.                                       *)
AddsUp(f, w, S) ==
  f = [s \in SUBSET S |-> IF s = {} THEN 0 ELSE w[Picked(s)] + f[s \ {Picked(s)}]]

LEMMA PickedIn == ASSUME NEW s, s # {} PROVE Picked(s) \in s
BY DEF Picked

(* A set of parts of a finite set that is not empty has a smallest one.    *)
LEMMA SmallestSet ==
  ASSUME NEW S, IsFiniteSet(S), NEW B \in SUBSET (SUBSET S), B # {}
  PROVE  \E s \in B : \A t \in SUBSET s : t # s => t \notin B
<1>1. B \in SUBSET FiniteSubsetsOf(S)
  BY FS_Subset DEF FiniteSubsetsOf
<1>2. IsWellFoundedOn(StrictSubsetOrdering(S), FiniteSubsetsOf(S))
  BY FS_StrictSubsetOrderingWellFounded
<1>3. PICK s \in B : \A t \in B : ~(<<t, s>> \in StrictSubsetOrdering(S))
  BY <1>1, <1>2, WFMin, Zenon
<1>4. ASSUME NEW t \in SUBSET s, t # s, t \in B PROVE FALSE
  <2>1. <<t, s>> \in StrictSubsetOrdering(S)
    BY <1>4 DEF StrictSubsetOrdering
  <2>2. QED
    BY <1>3, <1>4, <2>1
<1>5. QED
  BY <1>4

LEMMA SumIsOf ==
  ASSUME NEW w, NEW S
  PROVE  SumFunctionOnSet(w, S) = (CHOOSE f : AddsUp(f, w, S))[S]
BY DEF SumFunctionOnSet, FoldFunctionOnSet, MapThenFoldSet, AddsUp, Picked

LEMMA Unfold ==
  ASSUME NEW f, NEW w, NEW S, AddsUp(f, w, S), NEW s \in SUBSET S
  PROVE  f[s] = IF s = {} THEN 0 ELSE w[Picked(s)] + f[s \ {Picked(s)}]
BY DEF AddsUp

(* Two sums of the same rows are equal, also within larger sets.           *)
LEMMA SumsAgree ==
  ASSUME NEW f, NEW g, NEW w, NEW v, NEW S, NEW T, AddsUp(f, w, S), AddsUp(g, v, T),
         NEW R \in SUBSET S, R \subseteq T, IsFiniteSet(R), \A x \in R : w[x] = v[x]
  PROVE  f[R] = g[R]
<1> DEFINE B == {s \in SUBSET R : f[s] # g[s]}
<1> SUFFICES ASSUME R \in B PROVE FALSE
  OBVIOUS
<1>1. PICK s \in B : \A t \in SUBSET s : t # s => t \notin B
  <2>1. B \in SUBSET (SUBSET R) /\ B # {}
    OBVIOUS
  <2> HIDE DEF B
  <2>2. QED
    BY <2>1, SmallestSet
<1>2. s \in SUBSET S /\ s \in SUBSET T /\ s \subseteq R /\ f[s] # g[s]
  OBVIOUS
<1>3. /\ f[s] = IF s = {} THEN 0 ELSE w[Picked(s)] + f[s \ {Picked(s)}]
      /\ g[s] = IF s = {} THEN 0 ELSE v[Picked(s)] + g[s \ {Picked(s)}]
  BY <1>2, Unfold
<1>4. s # {}
  BY <1>2, <1>3
<1>5. Picked(s) \in s
  BY <1>4, PickedIn
<1>6. f[s \ {Picked(s)}] = g[s \ {Picked(s)}]
  BY <1>1, <1>2, <1>5
<1>7. QED
  BY <1>2, <1>3, <1>4, <1>5, <1>6

(* There is a sum, a whole number if the rows are.                         *)
LEMMA SumExists ==
  ASSUME NEW w, NEW S, IsFiniteSet(S), \A x \in S : w[x] \in Int
  PROVE  \E f \in [SUBSET S -> Int] : AddsUp(f, w, S)
<1> DEFINE Has(s) == \E f \in [SUBSET s -> Int] : AddsUp(f, w, s)
           B == {s \in SUBSET S : ~Has(s)}
           F(s) == CHOOSE f \in [SUBSET s -> Int] : AddsUp(f, w, s)
<1> SUFFICES ASSUME S \in B PROVE FALSE
  OBVIOUS
<1>1. PICK s \in B : \A t \in SUBSET s : t # s => t \notin B
  <2>1. B \in SUBSET (SUBSET S) /\ B # {}
    OBVIOUS
  <2> HIDE DEF B
  <2>2. QED
    BY <2>1, SmallestSet
<1>2. \A t \in SUBSET s : t # s => Has(t)
  BY <1>1
<1>3. \A t \in SUBSET s : t # s => F(t) \in [SUBSET t -> Int] /\ AddsUp(F(t), w, t)
  BY <1>2
<1> HIDE DEF F
<1> DEFINE g == [t \in SUBSET s |-> IF t = {} THEN 0 ELSE w[Picked(t)] + F(t \ {Picked(t)})[t \ {Picked(t)}]]
<1>4. \A t \in SUBSET s : t # {} => Picked(t) \in t /\ t \ {Picked(t)} # s /\ t \ {Picked(t)} \in SUBSET s
  BY PickedIn
<1>5. g \in [SUBSET s -> Int]
  <2>1. ASSUME NEW t \in SUBSET s, t # {} PROVE w[Picked(t)] + F(t \ {Picked(t)})[t \ {Picked(t)}] \in Int
    <3> DEFINE u == t \ {Picked(t)}
    <3>1. u \in SUBSET u /\ F(u) \in [SUBSET u -> Int]
      BY <1>3, <1>4, <2>1
    <3>2. F(u)[u] \in Int
      BY <3>1
    <3>3. w[Picked(t)] \in Int
      BY <1>4, <2>1
    <3>4. QED
      BY <3>2, <3>3
  <2>2. QED
    BY <2>1
<1>6. ASSUME NEW u \in SUBSET s, u # s PROVE g[u] = F(u)[u]
  <2>1. AddsUp(F(u), w, u)
    BY <1>3, <1>6
  <2>2. F(u)[u] = IF u = {} THEN 0 ELSE w[Picked(u)] + F(u)[u \ {Picked(u)}]
    BY <2>1, Unfold
  <2>3. CASE u = {}
    BY <2>2, <2>3
  <2>4. CASE u # {}
    <3> DEFINE r == u \ {Picked(u)}
    <3>1. AddsUp(F(r), w, r) /\ r \in SUBSET u /\ IsFiniteSet(r)
      BY <1>3, <1>4, <2>4, FS_Subset
    <3>2. F(u)[r] = F(r)[r]
      BY <3>1, <2>1, SumsAgree
    <3>3. QED
      BY <3>2, <2>2, <2>4
  <2>5. QED
    BY <2>3, <2>4
<1>7. AddsUp(g, w, s)
  <2>1. \A t \in SUBSET s : t # {} => F(t \ {Picked(t)})[t \ {Picked(t)}] = g[t \ {Picked(t)}]
    BY <1>4, <1>6
  <2>2. \A t \in SUBSET s : g[t] = IF t = {} THEN 0 ELSE w[Picked(t)] + F(t \ {Picked(t)})[t \ {Picked(t)}]
    OBVIOUS
  <2>3. \A t \in SUBSET s : g[t] = IF t = {} THEN 0 ELSE w[Picked(t)] + g[t \ {Picked(t)}]
    BY <2>1, <2>2
  <2>4. g = [t \in SUBSET s |-> g[t]]
    OBVIOUS
  <2> HIDE DEF g
  <2>5. QED
    BY <2>3, <2>4 DEF AddsUp
<1>8. QED
  BY <1>1, <1>5, <1>7

LEMMA SumOf ==
  ASSUME NEW w, NEW S, IsFiniteSet(S), \A x \in S : w[x] \in Int
  PROVE  \E f \in [SUBSET S -> Int] :
           AddsUp(f, w, S) /\ \A s \in SUBSET S : SumFunctionOnSet(w, s) = f[s]
<1>1. PICK f \in [SUBSET S -> Int] : AddsUp(f, w, S)
  BY SumExists
<1>2. ASSUME NEW s \in SUBSET S PROVE SumFunctionOnSet(w, s) = f[s]
  <2> DEFINE g == CHOOSE h : AddsUp(h, w, s)
  <2>1. IsFiniteSet(s)
    BY FS_Subset
  <2>2. AddsUp(g, w, s)
    <3>1. \E h : AddsUp(h, w, s)
      BY <2>1, SumExists
    <3>2. QED
      BY <3>1
  <2> HIDE DEF g
  <2>3. g[s] = f[s]
    BY <1>1, <2>1, <2>2, SumsAgree
  <2>4. SumFunctionOnSet(w, s) = g[s]
    BY SumIsOf DEF g
  <2>5. QED
    BY <2>3, <2>4
<1>3. QED
  BY <1>1, <1>2

-----------------------------------------------------------------------------
LEMMA SumEmpty == ASSUME NEW w PROVE SumFunctionOnSet(w, {}) = 0
<1>1. PICK f \in [SUBSET {} -> Int] : AddsUp(f, w, {}) /\ \A s \in SUBSET {} : SumFunctionOnSet(w, s) = f[s]
  BY FS_EmptySet, SumOf
<1>2. f[{}] = 0
  BY <1>1, Unfold
<1>3. QED
  BY <1>1, <1>2

LEMMA SumInt ==
  ASSUME NEW w, NEW S, IsFiniteSet(S), \A x \in S : w[x] \in Int
  PROVE  SumFunctionOnSet(w, S) \in Int
<1>1. PICK f \in [SUBSET S -> Int] : AddsUp(f, w, S) /\ \A s \in SUBSET S : SumFunctionOnSet(w, s) = f[s]
  BY SumOf
<1>2. S \in SUBSET S
  OBVIOUS
<1>3. QED
  BY <1>1, <1>2

LEMMA SumSame ==
  ASSUME NEW w, NEW v, NEW S, IsFiniteSet(S), \A x \in S : w[x] \in Int /\ v[x] = w[x]
  PROVE  SumFunctionOnSet(v, S) = SumFunctionOnSet(w, S)
<1>1. PICK f \in [SUBSET S -> Int] : AddsUp(f, w, S) /\ \A s \in SUBSET S : SumFunctionOnSet(w, s) = f[s]
  BY SumOf
<1>2. PICK g \in [SUBSET S -> Int] : AddsUp(g, v, S) /\ \A s \in SUBSET S : SumFunctionOnSet(v, s) = g[s]
  <2>1. \A x \in S : v[x] \in Int
    OBVIOUS
  <2>2. QED
    BY <2>1, SumOf
<1>3. f[S] = g[S]
  BY <1>1, <1>2, SumsAgree
<1>4. S \in SUBSET S
  OBVIOUS
<1>5. QED
  BY <1>1, <1>2, <1>3, <1>4

(* Whichever row is taken first, the sum is that row and the rest.         *)
THEOREM SumTakesAny ==
  ASSUME NEW w, NEW S, IsFiniteSet(S), \A x \in S : w[x] \in Int, NEW x \in S
  PROVE  SumFunctionOnSet(w, S) = w[x] + SumFunctionOnSet(w, S \ {x})
<1>1. PICK f \in [SUBSET S -> Int] : AddsUp(f, w, S) /\ \A s \in SUBSET S : SumFunctionOnSet(w, s) = f[s]
  BY SumOf
<1> DEFINE B == {s \in SUBSET S : \E y \in s : f[s] # w[y] + f[s \ {y}]}
<1>2. B = {}
  <2> SUFFICES ASSUME B # {} PROVE FALSE
    OBVIOUS
  <2>1. PICK s \in B : \A t \in SUBSET s : t # s => t \notin B
    <3>1. B \in SUBSET (SUBSET S) /\ B # {}
      OBVIOUS
    <3> HIDE DEF B
    <3>2. QED
      BY <3>1, SmallestSet
  <2>2. s \in SUBSET S
    OBVIOUS
  <2>3. PICK y \in s : f[s] # w[y] + f[s \ {y}]
    OBVIOUS
  <2> DEFINE p == Picked(s)
             r == s \ {p, y}
  <2>4. p \in s /\ f[s] = w[p] + f[s \ {p}]
    BY <1>1, <2>2, <2>3, Unfold, PickedIn
  <2> HIDE DEF p
  <2>5. p # y
    BY <2>3, <2>4
  <2>6. s \ {p} \notin B /\ s \ {y} \notin B
    BY <2>1, <2>3, <2>4
  <2>7. f[s \ {p}] = w[y] + f[(s \ {p}) \ {y}]
    BY <2>2, <2>3, <2>5, <2>6
  <2>8. f[s \ {y}] = w[p] + f[(s \ {y}) \ {p}]
    BY <2>2, <2>4, <2>5, <2>6
  <2>9. (s \ {p}) \ {y} = r /\ (s \ {y}) \ {p} = r
    OBVIOUS
  <2>10. f[r] \in Int /\ w[y] \in Int /\ w[p] \in Int
    BY <1>1, <2>2, <2>3, <2>4
  <2> HIDE DEF r
  <2>11. f[s] = w[p] + (w[y] + f[r]) /\ f[s \ {y}] = w[p] + f[r]
    BY <2>4, <2>7, <2>8, <2>9
  <2>12. w[p] + (w[y] + f[r]) = w[y] + (w[p] + f[r])
    BY <2>10
  <2>13. QED
    BY <2>3, <2>11, <2>12
<1>3. S \in SUBSET S /\ S \ {x} \in SUBSET S
  OBVIOUS
<1>4. f[S] = w[x] + f[S \ {x}]
  BY <1>2, <1>3
<1>5. QED
  BY <1>1, <1>3, <1>4

LEMMA SumPart ==
  ASSUME NEW w, NEW S, IsFiniteSet(S), \A x \in S : w[x] \in Int, NEW T \in SUBSET S
  PROVE  IsFiniteSet(T) /\ SumFunctionOnSet(w, T) \in Int
<1>1. IsFiniteSet(T)
  BY FS_Subset
<1>2. QED
  BY <1>1, SumInt

LEMMA SumSingle ==
  ASSUME NEW w, NEW x, w[x] \in Int
  PROVE  SumFunctionOnSet(w, {x}) = w[x]
<1>1. SumFunctionOnSet(w, {x}) = w[x] + SumFunctionOnSet(w, {x} \ {x})
  BY FS_Singleton, SumTakesAny
<1>2. {x} \ {x} = {}
  OBVIOUS
<1>3. QED
  BY <1>1, <1>2, SumEmpty

(* Rows in two groups: the sum of both is the sum of the sums.             *)
THEOREM SumSplits ==
  ASSUME NEW w, NEW S, IsFiniteSet(S), \A x \in S : w[x] \in Int, NEW T \in SUBSET S
  PROVE  SumFunctionOnSet(w, S) = SumFunctionOnSet(w, T) + SumFunctionOnSet(w, S \ T)
<1> DEFINE B == {t \in SUBSET S : SumFunctionOnSet(w, S) # SumFunctionOnSet(w, t) + SumFunctionOnSet(w, S \ t)}
<1> SUFFICES ASSUME T \in B PROVE FALSE
  OBVIOUS
<1>1. PICK t \in B : \A u \in SUBSET t : u # t => u \notin B
  <2>1. B \in SUBSET (SUBSET S) /\ B # {}
    OBVIOUS
  <2> HIDE DEF B
  <2>2. QED
    BY <2>1, SmallestSet
<1>2. t \in SUBSET S /\ SumFunctionOnSet(w, S) # SumFunctionOnSet(w, t) + SumFunctionOnSet(w, S \ t)
  OBVIOUS
<1>3. t # {}
  <2>1. SumFunctionOnSet(w, S) = 0 + SumFunctionOnSet(w, S \ {})
    <3>1. S \ {} = S
      OBVIOUS
    <3>2. SumFunctionOnSet(w, S) \in Int
      BY SumInt
    <3>3. QED
      BY <3>1, <3>2
  <2>2. QED
    BY <1>2, <2>1, SumEmpty
<1>4. PICK x \in t : TRUE
  BY <1>3
<1>5. SumFunctionOnSet(w, S) = SumFunctionOnSet(w, t \ {x}) + SumFunctionOnSet(w, S \ (t \ {x}))
  BY <1>1, <1>2, <1>4
<1>6. SumFunctionOnSet(w, t) = w[x] + SumFunctionOnSet(w, t \ {x})
  <2>1. IsFiniteSet(t)
    BY <1>2, FS_Subset
  <2>2. QED
    BY <1>2, <1>4, <2>1, SumTakesAny
<1>7. SumFunctionOnSet(w, S \ (t \ {x})) = w[x] + SumFunctionOnSet(w, S \ t)
  <2>1. IsFiniteSet(S \ (t \ {x})) /\ x \in S \ (t \ {x})
    BY <1>2, <1>4, FS_Subset
  <2>2. (S \ (t \ {x})) \ {x} = S \ t
    BY <1>4
  <2>3. QED
    BY <2>1, <2>2, SumTakesAny
<1>8. /\ SumFunctionOnSet(w, t \ {x}) \in Int /\ SumFunctionOnSet(w, S \ t) \in Int
      /\ w[x] \in Int
  BY <1>2, <1>4, SumPart
<1>9. QED
  BY <1>2, <1>5, <1>6, <1>7, <1>8

(* Of rows of which none is larger than its counterpart no sum is.         *)
LEMMA SumBelow ==
  ASSUME NEW w, NEW v, NEW S, IsFiniteSet(S),
         \A x \in S : w[x] \in Int /\ v[x] \in Int /\ w[x] <= v[x]
  PROVE  SumFunctionOnSet(w, S) <= SumFunctionOnSet(v, S)
<1> DEFINE B == {t \in SUBSET S : ~(SumFunctionOnSet(w, t) <= SumFunctionOnSet(v, t))}
<1> SUFFICES ASSUME S \in B PROVE FALSE
  OBVIOUS
<1>1. PICK t \in B : \A u \in SUBSET t : u # t => u \notin B
  <2>1. B \in SUBSET (SUBSET S) /\ B # {}
    OBVIOUS
  <2> HIDE DEF B
  <2>2. QED
    BY <2>1, SmallestSet
<1>2. t \in SUBSET S /\ ~(SumFunctionOnSet(w, t) <= SumFunctionOnSet(v, t))
  OBVIOUS
<1>3. PICK x \in t : TRUE
  <2>1. SumFunctionOnSet(w, {}) <= SumFunctionOnSet(v, {})
    BY SumEmpty
  <2>2. QED
    BY <1>2, <2>1
<1>4. SumFunctionOnSet(w, t \ {x}) <= SumFunctionOnSet(v, t \ {x})
  BY <1>1, <1>2, <1>3
<1>5. IsFiniteSet(t) /\ x \in S
  BY <1>2, <1>3, FS_Subset
<1>6. /\ SumFunctionOnSet(w, t) = w[x] + SumFunctionOnSet(w, t \ {x})
      /\ SumFunctionOnSet(v, t) = v[x] + SumFunctionOnSet(v, t \ {x})
  BY <1>2, <1>3, <1>5, SumTakesAny
<1>7. SumFunctionOnSet(w, t \ {x}) \in Int /\ SumFunctionOnSet(v, t \ {x}) \in Int
  BY <1>2, SumPart
<1>8. QED
  BY <1>2, <1>4, <1>5, <1>6, <1>7

-----------------------------------------------------------------------------
LEMMA SumTakesEach ==
  ASSUME NEW w, NEW S, IsFiniteSet(S), \A x \in S : w[x] \in Int
  PROVE  \A x \in S : SumFunctionOnSet(w, S) = w[x] + SumFunctionOnSet(w, S \ {x})
BY SumTakesAny

LEMMA SumTakesLast ==
  ASSUME NEW w, NEW n \in Nat, \A k \in 0 .. n : w[k] \in Int
  PROVE  SumFunctionOnSet(w, 0 .. n) = w[n] + SumFunctionOnSet(w, 0 .. n - 1)
<1> DEFINE D == 0 .. n
<1>1. n \in D /\ IsFiniteSet(D) /\ \A x \in D : w[x] \in Int
  BY FS_Interval
<1>2. D \ {n} = 0 .. n - 1
  OBVIOUS
<1> HIDE DEF D
<1>3. \A x \in D : SumFunctionOnSet(w, D) = w[x] + SumFunctionOnSet(w, D \ {x})
  BY <1>1, SumTakesEach, ZenonT(60)
<1>4. QED
  BY <1>1, <1>2, <1>3 DEF D

(* A sum of differences is the difference of the ends.                     *)
THEOREM SumTelescopes ==
  ASSUME NEW N \in Nat, NEW A \in [0 .. N + 1 -> Int], NEW w,
         \A m \in 0 .. N : w[m] = A[m + 1] - A[m]
  PROVE  SumFunctionOnSet(w, 0 .. N) = A[N + 1] - A[0]
<1> DEFINE Bad == {n \in 0 .. N : SumFunctionOnSet(w, 0 .. n) # A[n + 1] - A[0]}
<1> SUFFICES ASSUME N \in Bad PROVE FALSE
  OBVIOUS
<1>1. PICK n \in Bad : \A k \in Bad : n <= k
  <2>1. Bad # {}
    OBVIOUS
  <2>2. 0 .. N \in SUBSET Nat
    OBVIOUS
  <2>3. Bad \in SUBSET Nat
    BY <2>2, Zenon
  <2> HIDE DEF Bad
  <2>4. QED
    BY <2>1, <2>3, NatMin
<1>2. n \in 0 .. N /\ SumFunctionOnSet(w, 0 .. n) # A[n + 1] - A[0]
  OBVIOUS
<1>3. \A k \in 0 .. n - 1 : SumFunctionOnSet(w, 0 .. k) = A[k + 1] - A[0]
  BY <1>1, <1>2
<1> HIDE DEF Bad
<1>4. \A k \in 0 .. n : w[k] \in Int /\ A[k] \in Int /\ A[k + 1] \in Int
  <2> SUFFICES ASSUME NEW k \in 0 .. n PROVE w[k] \in Int /\ A[k] \in Int /\ A[k + 1] \in Int
    OBVIOUS
  <2>1. k \in 0 .. N /\ k \in 0 .. N + 1 /\ k + 1 \in 0 .. N + 1
    BY <1>2
  <2>2. A[k] \in Int /\ A[k + 1] \in Int
    BY <2>1
  <2>3. QED
    BY <2>1, <2>2
<1>5. n \in Nat
  BY <1>2
<1>6. SumFunctionOnSet(w, 0 .. n) = w[n] + SumFunctionOnSet(w, 0 .. n - 1)
  BY <1>4, <1>5, SumTakesLast
<1>8. w[n] = A[n + 1] - A[n]
  BY <1>2
<1>9. CASE n = 0
  <2>1. 0 .. n - 1 = {}
    BY <1>9
  <2>2. SumFunctionOnSet(w, 0 .. n) = w[n] + 0
    BY <1>6, <2>1, SumEmpty
  <2>3. QED
    BY <1>2, <1>4, <1>8, <1>9, <2>2
<1>10. CASE n > 0
  <2>1. n - 1 \in 0 .. n - 1 /\ (n - 1) + 1 = n
    BY <1>2, <1>10
  <2>2. SumFunctionOnSet(w, 0 .. n - 1) = A[n] - A[0]
    BY <1>3, <2>1
  <2>3. A[0] \in Int /\ A[n] \in Int /\ A[n + 1] \in Int
    BY <1>2, <1>4, <1>5
  <2>4. SumFunctionOnSet(w, 0 .. n) = (A[n + 1] - A[n]) + (A[n] - A[0])
    BY <1>6, <1>8, <2>2
  <2>5. QED
    BY <1>2, <2>3, <2>4
<1>11. QED
  BY <1>2, <1>9, <1>10

LEMMA SumZero ==
  ASSUME NEW w, NEW S, IsFiniteSet(S), \A x \in S : w[x] = 0
  PROVE  SumFunctionOnSet(w, S) = 0
<1> DEFINE B == {t \in SUBSET S : SumFunctionOnSet(w, t) # 0}
<1> SUFFICES ASSUME S \in B PROVE FALSE
  OBVIOUS
<1>1. PICK t \in B : \A u \in SUBSET t : u # t => u \notin B
  <2>1. B \in SUBSET (SUBSET S) /\ B # {}
    OBVIOUS
  <2> HIDE DEF B
  <2>2. QED
    BY <2>1, SmallestSet
<1>2. t \in SUBSET S /\ SumFunctionOnSet(w, t) # 0
  OBVIOUS
<1>3. PICK x \in t : TRUE
  BY <1>2, SumEmpty
<1>4. SumFunctionOnSet(w, t \ {x}) = 0 /\ w[x] = 0
  BY <1>1, <1>2, <1>3
<1>5. IsFiniteSet(t) /\ \A y \in t : w[y] \in Int
  BY <1>2, FS_Subset
<1>6. SumFunctionOnSet(w, t) = w[x] + SumFunctionOnSet(w, t \ {x})
  BY <1>3, <1>5, SumTakesAny
<1>7. QED
  BY <1>2, <1>4, <1>6

(* A single row that is not zero is the sum.                               *)
LEMMA SumOnlyOne ==
  ASSUME NEW w, NEW S, IsFiniteSet(S), NEW x \in S, w[x] \in Int, \A y \in S \ {x} : w[y] = 0
  PROVE  SumFunctionOnSet(w, S) = w[x]
<1>1. SumFunctionOnSet(w, S \ {x}) = 0
  BY FS_Subset, SumZero
<1>2. \A y \in S : w[y] \in Int
  OBVIOUS
<1>3. SumFunctionOnSet(w, S) = w[x] + SumFunctionOnSet(w, S \ {x})
  BY <1>2, SumTakesAny
<1>4. QED
  BY <1>1, <1>3

-----------------------------------------------------------------------------
LEMMA SizesJoin ==
  ASSUME NEW S, NEW T, NEW U, IsFiniteSet(S), IsFiniteSet(T), S \cap T = {}, U = S \cup T
  PROVE  IsFiniteSet(U) /\ Cardinality(U) = Cardinality(T) + Cardinality(S)
<1>1. /\ IsFiniteSet(S \cup T)
      /\ Cardinality(S \cup T) = Cardinality(S) + Cardinality(T) - Cardinality(S \cap T)
  BY FS_Union
<1>2. Cardinality(S \cap T) = 0 /\ Cardinality(S) \in Nat /\ Cardinality(T) \in Nat
  BY FS_EmptySet, FS_CardinalityType
<1>3. QED
  BY <1>1, <1>2

(* U falls into the sets A[k], which do not meet and have the sizes w[k].  *)
FallsInto(U, K, A, w) ==
  /\ \A k \in K : IsFiniteSet(A[k]) /\ w[k] = Cardinality(A[k])
  /\ \A j, k \in K : j # k => A[j] \cap A[k] = {}
  /\ \A x : x \in U <=> \E k \in K : x \in A[k]

(* Counting by groups: their sizes add up to the size of the whole.        *)
THEOREM SumOfSizes ==
  ASSUME NEW K, IsFiniteSet(K), NEW A, NEW w, NEW U, FallsInto(U, K, A, w)
  PROVE  IsFiniteSet(U) /\ SumFunctionOnSet(w, K) = Cardinality(U)
<1> USE DEF FallsInto
<1> DEFINE Of(t) == UNION {A[k] : k \in t}
           Good(t) == IsFiniteSet(Of(t)) /\ SumFunctionOnSet(w, t) = Cardinality(Of(t))
           B == {t \in SUBSET K : ~Good(t)}
<1> SUFFICES ASSUME K \in B PROVE FALSE
  <2>1. U = Of(K)
    OBVIOUS
  <2>2. QED
    BY <2>1, Zenon
<1>1. PICK t \in B : \A u \in SUBSET t : u # t => u \notin B
  <2>1. B \in SUBSET (SUBSET K) /\ B # {}
    BY Zenon
  <2> HIDE DEF B
  <2>2. QED
    BY <2>1, SmallestSet
<1>2. t \in SUBSET K /\ ~Good(t)
  BY Zenon
<1>3. Good({})
  <2>1. Of({}) = {}
    OBVIOUS
  <2> HIDE DEF Of
  <2>2. QED
    BY <2>1, SumEmpty, FS_EmptySet
<1>4. PICK x \in t : TRUE
  BY <1>2, <1>3
<1>5. Good(t \ {x})
  BY <1>1, <1>2, <1>4
<1>6. Of(t) = Of(t \ {x}) \cup A[x] /\ Of(t \ {x}) \cap A[x] = {}
  BY <1>2, <1>4
<1> HIDE DEF Of
<1>7. IsFiniteSet(t) /\ \A k \in t : w[k] \in Int
  BY <1>2, FS_Subset, FS_CardinalityType
<1>8. SumFunctionOnSet(w, t) = w[x] + SumFunctionOnSet(w, t \ {x})
  BY <1>4, <1>7, SumTakesAny
<1>9. IsFiniteSet(A[x]) /\ w[x] = Cardinality(A[x])
  BY <1>2, <1>4
<1>10. /\ IsFiniteSet(Of(t))
       /\ Cardinality(Of(t)) = Cardinality(A[x]) + Cardinality(Of(t \ {x}))
  BY <1>5, <1>6, <1>9, SizesJoin
<1>11. QED
  BY <1>2, <1>5, <1>8, <1>9, <1>10

(* c sorts U into the cells K, of sizes w.                                 *)
SortedInto(U, K, c, w) ==
  /\ \A d \in U : c[d] \in K
  /\ \A k \in K : w[k] = Cardinality({d \in U : c[d] = k})

THEOREM SumOfCells ==
  ASSUME NEW U, IsFiniteSet(U), NEW K, IsFiniteSet(K), NEW c, NEW w, SortedInto(U, K, c, w)
  PROVE  SumFunctionOnSet(w, K) = Cardinality(U)
<1> DEFINE A == [k \in K |-> {d \in U : c[d] = k}]
<1>1. FallsInto(U, K, A, w)
  BY FS_Subset DEF FallsInto, SortedInto
<1> HIDE DEF A
<1>2. QED
  BY <1>1, SumOfSizes

-----------------------------------------------------------------------------
(* The sum of two columns.                                                 *)
LEMMA SumPlus ==
  ASSUME NEW f, NEW g, NEW w, NEW S, IsFiniteSet(S),
         \A x \in S : f[x] \in Int /\ g[x] \in Int /\ w[x] = f[x] + g[x]
  PROVE  SumFunctionOnSet(w, S) = SumFunctionOnSet(f, S) + SumFunctionOnSet(g, S)
<1> DEFINE Good(t) == SumFunctionOnSet(w, t) = SumFunctionOnSet(f, t) + SumFunctionOnSet(g, t)
           B == {t \in SUBSET S : ~Good(t)}
<1> SUFFICES ASSUME S \in B PROVE FALSE
  OBVIOUS
<1>1. PICK t \in B : \A u \in SUBSET t : u # t => u \notin B
  <2>1. B \in SUBSET (SUBSET S) /\ B # {}
    OBVIOUS
  <2> HIDE DEF B
  <2>2. QED
    BY <2>1, SmallestSet
<1>2. t \in SUBSET S /\ ~Good(t)
  OBVIOUS
<1>3. PICK x \in t : TRUE
  <2>1. Good({})
    BY SumEmpty
  <2>2. QED
    BY <1>2, <2>1
<1>4. Good(t \ {x})
  BY <1>1, <1>2, <1>3
<1>5. IsFiniteSet(t) /\ x \in S /\ \A y \in t : f[y] \in Int /\ g[y] \in Int /\ w[y] \in Int
  BY <1>2, <1>3, FS_Subset
<1>6. /\ SumFunctionOnSet(w, t) = w[x] + SumFunctionOnSet(w, t \ {x})
      /\ SumFunctionOnSet(f, t) = f[x] + SumFunctionOnSet(f, t \ {x})
      /\ SumFunctionOnSet(g, t) = g[x] + SumFunctionOnSet(g, t \ {x})
  BY <1>3, <1>5, SumTakesAny
<1>7. SumFunctionOnSet(f, t \ {x}) \in Int /\ SumFunctionOnSet(g, t \ {x}) \in Int
  BY <1>5, SumPart
<1>8. QED
  BY <1>2, <1>4, <1>5, <1>6, <1>7

(* A common factor.                                                        *)
LEMMA SumScaled ==
  ASSUME NEW c \in Int, NEW f, NEW w, NEW S, IsFiniteSet(S),
         \A x \in S : f[x] \in Int /\ w[x] = c * f[x]
  PROVE  SumFunctionOnSet(w, S) = c * SumFunctionOnSet(f, S)
<1> DEFINE Good(t) == SumFunctionOnSet(w, t) = c * SumFunctionOnSet(f, t)
           B == {t \in SUBSET S : ~Good(t)}
<1> SUFFICES ASSUME S \in B PROVE FALSE
  OBVIOUS
<1>1. PICK t \in B : \A u \in SUBSET t : u # t => u \notin B
  <2>1. B \in SUBSET (SUBSET S) /\ B # {}
    OBVIOUS
  <2> HIDE DEF B
  <2>2. QED
    BY <2>1, SmallestSet
<1>2. t \in SUBSET S /\ ~Good(t)
  OBVIOUS
<1>3. PICK x \in t : TRUE
  <2>1. Good({})
    BY SumEmpty
  <2>2. QED
    BY <1>2, <2>1
<1>4. Good(t \ {x})
  BY <1>1, <1>2, <1>3
<1>5. IsFiniteSet(t) /\ x \in S /\ \A y \in t : f[y] \in Int /\ w[y] \in Int
  BY <1>2, <1>3, FS_Subset
<1>6. /\ SumFunctionOnSet(w, t) = w[x] + SumFunctionOnSet(w, t \ {x})
      /\ SumFunctionOnSet(f, t) = f[x] + SumFunctionOnSet(f, t \ {x})
  BY <1>3, <1>5, SumTakesAny
<1>7. SumFunctionOnSet(f, t \ {x}) \in Int
  BY <1>5, SumPart
<1>8. \A a, b \in Int : c * (a + b) = c * a + c * b
  OBVIOUS
<1>9. QED
  BY <1>2, <1>4, <1>5, <1>6, <1>7, <1>8

(* c sorts the rows S, of weights w, into the cells K, of weights v.       *)
AddedInto(S, w, K, c, v) ==
  /\ \A x \in S : c[x] \in K
  /\ \A k \in K : v[k] = SumFunctionOnSet(w, {x \in S : c[x] = k})

(* Adding by groups.                                                       *)
THEOREM SumByCell ==
  ASSUME NEW w, NEW S, IsFiniteSet(S), \A x \in S : w[x] \in Int,
         NEW K, IsFiniteSet(K), NEW c, NEW v, AddedInto(S, w, K, c, v)
  PROVE  SumFunctionOnSet(v, K) = SumFunctionOnSet(w, S)
<1> USE DEF AddedInto
<1> DEFINE Of(t) == {x \in S : c[x] \in t}
           Good(t) == SumFunctionOnSet(v, t) = SumFunctionOnSet(w, Of(t))
           B == {t \in SUBSET K : ~Good(t)}
<1>0. Of(K) = S
  OBVIOUS
<1> SUFFICES ASSUME K \in B PROVE FALSE
  BY <1>0
<1>1. PICK t \in B : \A u \in SUBSET t : u # t => u \notin B
  <2>1. B \in SUBSET (SUBSET K) /\ B # {}
    OBVIOUS
  <2> HIDE DEF B
  <2>2. QED
    BY <2>1, SmallestSet
<1>2. t \in SUBSET K /\ ~Good(t)
  OBVIOUS
<1>3. PICK k \in t : TRUE
  <2>1. Of({}) = {}
    OBVIOUS
  <2>2. Good({})
    BY <2>1, SumEmpty
  <2>3. QED
    BY <1>2, <2>2
<1>4. Good(t \ {k})
  BY <1>1, <1>2, <1>3
<1>5. v[k] = SumFunctionOnSet(w, {x \in S : c[x] = k}) /\ IsFiniteSet(t)
  BY <1>2, <1>3, FS_Subset
<1>6. \A j \in K : v[j] \in Int
  <2>1. ASSUME NEW j \in K PROVE v[j] \in Int
    <3>1. {x \in S : c[x] = j} \in SUBSET S
      OBVIOUS
    <3>2. SumFunctionOnSet(w, {x \in S : c[x] = j}) \in Int
      BY <3>1, SumPart
    <3>3. QED
      BY <3>2
  <2>2. QED
    BY <2>1
<1>7. SumFunctionOnSet(v, t) = v[k] + SumFunctionOnSet(v, t \ {k})
  BY <1>2, <1>3, <1>5, <1>6, SumTakesAny
<1>8. SumFunctionOnSet(w, Of(t)) = v[k] + SumFunctionOnSet(w, Of(t \ {k}))
  <2> DEFINE T == {x \in S : c[x] = k}
  <2>1. /\ Of(t) \in SUBSET S /\ T \in SUBSET Of(t) /\ Of(t) \ T = Of(t \ {k})
    BY <1>3
  <2> HIDE DEF Of
  <2>2. IsFiniteSet(Of(t)) /\ \A x \in Of(t) : w[x] \in Int
    BY <2>1, FS_Subset
  <2>3. SumFunctionOnSet(w, Of(t)) = SumFunctionOnSet(w, T) + SumFunctionOnSet(w, Of(t) \ T)
    <3> HIDE DEF T
    <3>1. QED
      BY <2>1, <2>2, SumSplits
  <2>4. QED
    BY <1>5, <2>1, <2>3
<1>9. QED
  BY <1>2, <1>4, <1>7, <1>8

(* c names the rows S, of weights w, one by one, as K, of weights v.       *)
Renames(S, w, K, c, v) ==
  /\ \A k : k \in K <=> \E x \in S : c[x] = k
  /\ \A x, y \in S : c[x] = c[y] => x = y
  /\ \A x \in S : v[c[x]] = w[x]

LEMMA SumRenamed ==
  ASSUME NEW w, NEW S, IsFiniteSet(S), \A x \in S : w[x] \in Int,
         NEW K, NEW c, NEW v, Renames(S, w, K, c, v)
  PROVE  IsFiniteSet(K) /\ SumFunctionOnSet(v, K) = SumFunctionOnSet(w, S)
<1> USE DEF Renames
<1> DEFINE f == [x \in S |-> c[x]]
<1>1. IsFiniteSet(K)
  <2>1. f \in Surjection(S, K)
    BY DEF Surjection
  <2> HIDE DEF f
  <2>2. QED
    BY <2>1, FS_Surjection
<1>2. ASSUME NEW k \in K PROVE v[k] = SumFunctionOnSet(w, {x \in S : c[x] = k})
  <2>1. PICK x \in S : c[x] = k
    OBVIOUS
  <2>2. {y \in S : c[y] = k} = {x}
    BY <2>1
  <2>3. SumFunctionOnSet(w, {x}) = w[x]
    BY SumSingle
  <2>4. QED
    BY <2>1, <2>2, <2>3
<1>3. \A x \in S : c[x] \in K
  OBVIOUS
<1>4. AddedInto(S, w, K, c, v)
  BY <1>2, <1>3 DEF AddedInto
<1>5. QED
  BY <1>1, <1>4, SumByCell

(* A table of rows S and columns K, with the sum of each.                  *)
Table(a, S, K, row, col) ==
  /\ \A s \in S : \A k \in K : a[s][k] \in Int
  /\ \A s \in S : row[s] = SumFunctionOnSet(a[s], K)
  /\ \A k \in K : col[k] = SumFunctionOnSet([s \in S |-> a[s][k]], S)

(* A table added by rows or by columns.                                    *)
THEOREM SumBothWays ==
  ASSUME NEW S, IsFiniteSet(S), NEW K, IsFiniteSet(K), NEW a, NEW row, NEW col,
         Table(a, S, K, row, col)
  PROVE  SumFunctionOnSet(col, K) = SumFunctionOnSet(row, S)
<1> USE DEF Table
<1> DEFINE at(k) == [s \in S |-> a[s][k]]
           part(t) == [k \in K |-> SumFunctionOnSet(at(k), t)]
           Good(t) == SumFunctionOnSet(part(t), K) = SumFunctionOnSet(row, t)
           B == {t \in SUBSET S : ~Good(t)}
<1>1. ASSUME NEW t \in SUBSET S, NEW k \in K
      PROVE  IsFiniteSet(t) /\ part(t)[k] = SumFunctionOnSet(at(k), t) /\ part(t)[k] \in Int
  <2>1. \A s \in S : at(k)[s] \in Int
    OBVIOUS
  <2> HIDE DEF at
  <2>2. QED
    BY <2>1, SumPart
<1>2. \A s \in S : row[s] \in Int
  <2>1. ASSUME NEW s \in S PROVE row[s] \in Int
    <3>1. SumFunctionOnSet(a[s], K) \in Int
      BY SumInt
    <3>2. QED
      BY <3>1
  <2>2. QED
    BY <2>1
<1>3. SumFunctionOnSet(col, K) = SumFunctionOnSet(part(S), K)
  <2>1. \A k \in K : part(S)[k] \in Int /\ col[k] = part(S)[k]
    BY <1>1
  <2> HIDE DEF part
  <2>2. QED
    BY <2>1, SumSame
<1>4. Good({})
  <2>1. \A k \in K : part({})[k] = 0
    BY SumEmpty
  <2>2. SumFunctionOnSet(part({}), K) = 0
    <3> HIDE DEF part
    <3>1. QED
      BY <2>1, SumZero
  <2>3. SumFunctionOnSet(row, {}) = 0
    BY SumEmpty
  <2>4. QED
    BY <2>2, <2>3
<1>5. ASSUME NEW t \in SUBSET S, NEW x \in t, Good(t \ {x}) PROVE Good(t)
  <2>1. \A k \in K : /\ a[x][k] \in Int /\ part(t \ {x})[k] \in Int
                     /\ part(t)[k] = a[x][k] + part(t \ {x})[k]
    <3>1. ASSUME NEW k \in K PROVE part(t)[k] = a[x][k] + part(t \ {x})[k]
      <4>1. IsFiniteSet(t) /\ at(k)[x] = a[x][k] /\ \A s \in t : at(k)[s] \in Int
        BY FS_Subset
      <4> HIDE DEF at
      <4>2. SumFunctionOnSet(at(k), t) = at(k)[x] + SumFunctionOnSet(at(k), t \ {x})
        BY <4>1, SumTakesAny
      <4>3. QED
        BY <4>1, <4>2
    <3>2. t \ {x} \in SUBSET S
      OBVIOUS
    <3>3. QED
      BY <1>1, <3>1, <3>2
  <2>2. SumFunctionOnSet(part(t), K) = SumFunctionOnSet(a[x], K) + SumFunctionOnSet(part(t \ {x}), K)
    <3> DEFINE f == a[x]
               g == part(t \ {x})
               w == part(t)
    <3>1. \A k \in K : f[k] \in Int /\ g[k] \in Int /\ w[k] = f[k] + g[k]
      BY <2>1
    <3> HIDE DEF f, g, w
    <3>2. SumFunctionOnSet(w, K) = SumFunctionOnSet(f, K) + SumFunctionOnSet(g, K)
      BY <3>1, SumPlus
    <3>3. QED
      BY <3>2 DEF f, g, w
  <2>3. SumFunctionOnSet(row, t) = row[x] + SumFunctionOnSet(row, t \ {x})
    BY <1>2, FS_Subset, SumTakesAny
  <2>4. QED
    BY <1>5, <2>2, <2>3
<1>6. Good(S)
  <2> HIDE DEF Good
  <2> SUFFICES ASSUME S \in B PROVE FALSE
    OBVIOUS
  <2>1. PICK t \in B : \A u \in SUBSET t : u # t => u \notin B
    <3>1. B \in SUBSET (SUBSET S) /\ B # {}
      OBVIOUS
    <3> HIDE DEF B
    <3>2. QED
      BY <3>1, SmallestSet
  <2>2. t \in SUBSET S /\ ~Good(t)
    OBVIOUS
  <2>3. PICK x \in t : TRUE
    BY <1>4, <2>2
  <2>4. Good(t \ {x})
    BY <2>1, <2>2, <2>3
  <2>5. QED
    BY <1>5, <2>2, <2>3, <2>4
<1>7. QED
  BY <1>3, <1>6
=============================================================================

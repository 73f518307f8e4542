---------------------- MODULE ControllerPartsProofs ----------------------
(***************************************************************************)
(* Theorems about the parts of the controller that share no state, for     *)
(* every value of their parameters.  An authorization comes first, over    *)
(* its own specification; then the client, the dispatcher, the executor    *)
(* and the admission of the process, each with an inductive invariant of   *)
(* its own; the last section combines these for a behaviour of all parts.  *)
(***************************************************************************)
EXTENDS ControllerParts, RoundRobin, FiniteSetTheorems, WellFoundedInduction,
        NaturalsInduction, TLAPS

-----------------------------------------------------------------------------
(* Numbers.                                                                *)

\* A set of numbers that is not empty has a least one.
LEMMA LeastNumber ==
  ASSUME NEW S \in SUBSET Nat, S # {}
  PROVE  \E s \in S : \A t \in S : s <= t
<1> DEFINE R == OpToRel(<, Nat)
<1>1. \A s, t \in Nat : s < t => <<s, t>> \in R
  BY DEF OpToRel
<1>2. IsWellFoundedOn(R, Nat)
  BY NatLessThanWellFounded
<1> HIDE DEF R
<1>3. PICK x \in S : \A y \in S : ~(<<y, x>> \in R)
  BY <1>2, WFMin
<1>4. \A y \in S : x <= y
  <2> TAKE y \in S
  <2>1. x \in Nat /\ y \in Nat
    OBVIOUS
  <2>2. ~(y < x)
    BY <1>1, <1>3, <2>1
  <2> QED BY <2>1, <2>2
<1> QED BY <1>4

-----------------------------------------------------------------------------
(* Lists and rounds.                                                       *)

Elements(s) == {s[i] : i \in 1 .. Len(s)}
Distinct(s) == \A i, j \in 1 .. Len(s) : s[i] = s[j] => i = j

LEMMA Appended ==
  ASSUME NEW X, NEW s \in Seq(X), NEW x \in X
  PROVE  /\ Append(s, x) \in Seq(X) /\ Len(Append(s, x)) = Len(s) + 1
         /\ Elements(Append(s, x)) = Elements(s) \cup {x}
         /\ Distinct(s) /\ x \notin Elements(s) => Distinct(Append(s, x))
<1> DEFINE r == Append(s, x)
<1>1. /\ r \in Seq(X) /\ Len(r) = Len(s) + 1 /\ Len(s) \in Nat
      /\ \A i \in 1 .. Len(s) : r[i] = s[i]
      /\ r[Len(s) + 1] = x
  OBVIOUS
<1> HIDE DEF r
<1>2. Elements(r) = Elements(s) \cup {x}
  <2>1. ASSUME NEW i \in 1 .. Len(r)
        PROVE  r[i] \in Elements(s) \cup {x}
    <3>1. i \in 1 .. Len(s) \/ i = Len(s) + 1
      BY <1>1
    <3> QED BY <1>1, <3>1 DEF Elements
  <2>2. ASSUME NEW i \in 1 .. Len(s)
        PROVE  s[i] \in Elements(r)
    <3>1. i \in 1 .. Len(r) /\ r[i] = s[i]
      BY <1>1
    <3> QED BY <3>1 DEF Elements
  <2>3. x \in Elements(r)
    <3>1. Len(s) + 1 \in 1 .. Len(r)
      BY <1>1
    <3> QED BY <1>1, <3>1 DEF Elements
  <2> QED BY <2>1, <2>2, <2>3 DEF Elements
<1>3. Distinct(s) /\ x \notin Elements(s) => Distinct(r)
  <2> SUFFICES ASSUME Distinct(s), x \notin Elements(s), NEW i \in 1 .. Len(r), NEW j \in 1 .. Len(r),
                      r[i] = r[j]
               PROVE  i = j
    BY DEF Distinct
  <2>1. (i \in 1 .. Len(s) \/ i = Len(s) + 1) /\ (j \in 1 .. Len(s) \/ j = Len(s) + 1)
    BY <1>1
  <2>2. \A k \in 1 .. Len(s) : s[k] # x
    BY DEF Elements
  <2> QED BY <1>1, <2>1, <2>2 DEF Distinct
<1> QED BY <1>1, <1>2, <1>3 DEF r

LEMMA Shifted ==
  ASSUME NEW X, NEW s \in Seq(X), s # << >>, Distinct(s)
  PROVE  /\ Tail(s) \in Seq(X) /\ Head(s) \in Elements(s) /\ Head(s) \in X
         /\ Elements(Tail(s)) = Elements(s) \ {Head(s)} /\ Distinct(Tail(s))
<1> DEFINE r == Tail(s)
           h == Head(s)
<1>1. /\ r \in Seq(X) /\ Len(s) \in Nat /\ Len(s) > 0 /\ Len(r) = Len(s) - 1 /\ h = s[1] /\ h \in X
      /\ \A i \in 1 .. Len(r) : r[i] = s[i + 1]
  OBVIOUS
<1> HIDE DEF r, h
<1>2. 1 \in 1 .. Len(s) /\ \A i \in 1 .. Len(r) : i + 1 \in 1 .. Len(s)
  BY <1>1
<1>3. h \in Elements(s)
  BY <1>1, <1>2 DEF Elements
<1>4. Elements(r) = Elements(s) \ {h}
  <2>1. ASSUME NEW i \in 1 .. Len(r)
        PROVE  r[i] \in Elements(s) /\ r[i] # h
    <3>1. r[i] = s[i + 1] /\ i + 1 \in 1 .. Len(s) /\ i + 1 # 1
      BY <1>1, <1>2
    <3> QED BY <1>1, <1>2, <3>1 DEF Elements, Distinct
  <2>2. ASSUME NEW i \in 1 .. Len(s), s[i] # h
        PROVE  s[i] \in Elements(r)
    <3>1. i - 1 \in 1 .. Len(r)
      BY <1>1, <2>2
    <3>2. r[i - 1] = s[i]
      BY <1>1, <3>1
    <3> QED BY <3>1, <3>2 DEF Elements
  <2> QED BY <2>1, <2>2 DEF Elements
<1>5. Distinct(r)
  BY <1>1, <1>2 DEF Distinct
<1> QED BY <1>1, <1>3, <1>4, <1>5 DEF r, h

\* One element takes the place of another.
LEMMA PlaceTaken ==
  ASSUME NEW X, NEW s \in Seq(X), Distinct(s), NEW v \in Elements(s), NEW w \in X, w \notin Elements(s),
         NEW r, r = [i \in DOMAIN s |-> IF s[i] = v THEN w ELSE s[i]]
  PROVE  r \in Seq(X) /\ Elements(r) = (Elements(s) \ {v}) \cup {w} /\ Distinct(r)
<1>1. Len(s) \in Nat /\ DOMAIN s = 1 .. Len(s) /\ \A i \in 1 .. Len(s) : s[i] \in X
  OBVIOUS
<1>2. r \in [1 .. Len(s) -> X] /\ \A i \in 1 .. Len(s) : r[i] = IF s[i] = v THEN w ELSE s[i]
  BY <1>1
<1>3. r \in Seq(X) /\ Len(r) = Len(s)
  BY <1>1, <1>2
<1>4. Elements(r) = (Elements(s) \ {v}) \cup {w}
  <2>1. PICK k \in 1 .. Len(s) : s[k] = v
    BY DEF Elements
  <2>2. w \in Elements(r)
    BY <1>2, <1>3, <2>1 DEF Elements
  <2>3. ASSUME NEW i \in 1 .. Len(s)
        PROVE  r[i] \in (Elements(s) \ {v}) \cup {w}
    BY <1>2 DEF Elements
  <2>4. ASSUME NEW i \in 1 .. Len(s), s[i] # v
        PROVE  s[i] \in Elements(r)
    BY <1>2, <1>3, <2>4 DEF Elements
  <2> QED BY <1>3, <2>2, <2>3, <2>4 DEF Elements
<1>5. Distinct(r)
  <2> SUFFICES ASSUME NEW i \in 1 .. Len(s), NEW j \in 1 .. Len(s), r[i] = r[j]
               PROVE  i = j
    BY <1>3 DEF Distinct
  <2>1. s[i] # w /\ s[j] # w
    BY DEF Elements
  <2>2. s[i] = s[j]
    BY <1>2, <2>1
  <2> QED BY <2>2 DEF Distinct
<1> QED BY <1>3, <1>4, <1>5

LEMMA DistinctLength ==
  ASSUME NEW X, NEW s \in Seq(X), Distinct(s)
  PROVE  IsFiniteSet(Elements(s)) /\ Cardinality(Elements(s)) = Len(s)
<1> DEFINE D == 1 .. Len(s)
           E == Elements(s)
<1>1. Len(s) \in Nat /\ s \in [D -> X] /\ DOMAIN s = D
  OBVIOUS
<1>2. IsFiniteSet(D) /\ Cardinality(D) = Len(s)
  BY <1>1, FS_Interval, SMTT(60)
<1>3. s \in Bijection(D, E)
  <2>1. s \in [D -> E]
    BY <1>1 DEF Elements
  <2>2. \A e \in E : \E i \in D : s[i] = e
    BY DEF Elements
  <2>3. \A i, j \in D : s[i] = s[j] => i = j
    BY DEF Distinct
  <2> HIDE DEF D, E
  <2> QED BY <2>1, <2>2, <2>3 DEF Bijection, Injection, Surjection, IsInjective
<1>4. ExistsBijection(D, E)
  BY <1>3 DEF ExistsBijection
<1> HIDE DEF D, E
<1>5. IsFiniteSet(E) /\ Cardinality(E) = Cardinality(D)
  BY <1>2, <1>4, FS_Bijection
<1> QED BY <1>2, <1>5 DEF E

-----------------------------------------------------------------------------
(* A finite set of numbers can be enumerated in its order.                 *)

Increasing(f, n) == \A i, j \in 1 .. n : i < j => f[i] < f[j]

LEMMA Enumerable ==
  ASSUME NEW S \in SUBSET Nat, IsFiniteSet(S)
  PROVE  \E f \in [1 .. Cardinality(S) -> S] : Increasing(f, Cardinality(S))
<1> DEFINE Has(T) == \E f \in [1 .. Cardinality(T) -> T] : Increasing(f, Cardinality(T))
           Bad == {n \in Nat : \E T \in SUBSET Nat : IsFiniteSet(T) /\ Cardinality(T) = n /\ ~Has(T)}
<1>1. SUFFICES Bad = {}
  <2>1. Cardinality(S) \in Nat
    BY FS_CardinalityType
  <2>2. ~(Cardinality(S) \in Bad) => Has(S)
    BY <2>1
  <2> QED BY <1>1, <2>2
<1>2. SUFFICES ASSUME Bad # {}
               PROVE  FALSE
  OBVIOUS
<1>3. PICK n \in Bad : \A k \in Bad : n <= k
  <2>1. Bad \in SUBSET Nat
    OBVIOUS
  <2> HIDE DEF Bad
  <2> QED BY <1>2, <2>1, LeastNumber
<1>4. PICK T \in SUBSET Nat : IsFiniteSet(T) /\ Cardinality(T) = n /\ ~Has(T)
  BY <1>3
<1>5. n \in Nat
  BY <1>3
<1>6. CASE n = 0
  <2>1. 1 .. 0 = {}
    OBVIOUS
  <2> DEFINE f == [i \in 1 .. 0 |-> 0]
  <2>2. f \in [1 .. 0 -> T] /\ Increasing(f, 0)
    BY <2>1 DEF Increasing
  <2> HIDE DEF f
  <2> QED BY <1>4, <1>6, <2>2
<1>7. CASE n > 0
  <2>1. T # {}
    BY <1>4, <1>5, <1>7, FS_EmptySet
  <2>2. PICK m \in T : \A t \in T : m <= t
    BY <2>1, LeastNumber
  <2> DEFINE U == T \ {m}
  <2>3. IsFiniteSet(U) /\ Cardinality(U) = n - 1
    BY <1>4, FS_RemoveElement
  <2>4. U \in SUBSET Nat /\ n - 1 \in Nat /\ n - 1 \notin Bad
    <3>1. n - 1 \in Nat /\ ~(n <= n - 1)
      BY <1>5, <1>7
    <3> HIDE DEF Bad
    <3> QED BY <1>3, <3>1
  <2>5. Has(U)
    <3> HIDE DEF U, Has
    <3> QED BY <2>3, <2>4
  <2>6. PICK g \in [1 .. n - 1 -> U] : Increasing(g, n - 1)
    <3> HIDE DEF U
    <3> QED BY <2>3, <2>5
  <2> DEFINE f == [i \in 1 .. n |-> IF i = 1 THEN m ELSE g[i - 1]]
  <2>7. \A i \in 1 .. n : i # 1 => i - 1 \in 1 .. n - 1
    BY <1>5
  <2>8. f \in [1 .. n -> T]
    BY <2>6, <2>7
  <2>9. Increasing(f, n)
    <3> SUFFICES ASSUME NEW i \in 1 .. n, NEW j \in 1 .. n, i < j
                 PROVE  f[i] < f[j]
      BY DEF Increasing
    <3>1. j # 1 /\ j - 1 \in 1 .. n - 1 /\ f[j] = g[j - 1] /\ g[j - 1] \in U
      BY <1>5, <2>6, <2>7
    <3>2. CASE i = 1
      <4>1. f[i] = m /\ m <= g[j - 1] /\ g[j - 1] # m /\ g[j - 1] \in Nat /\ m \in Nat
        BY <2>2, <3>1, <3>2
      <4> HIDE DEF f
      <4> QED BY <3>1, <4>1
    <3>3. CASE i # 1
      <4>1. f[i] = g[i - 1] /\ i - 1 \in 1 .. n - 1 /\ i - 1 < j - 1
        BY <1>5, <2>7, <3>3
      <4> HIDE DEF f
      <4> QED BY <2>6, <3>1, <4>1 DEF Increasing
    <3> QED BY <3>2, <3>3
  <2> HIDE DEF f
  <2> QED BY <1>4, <2>8, <2>9
<1> QED BY <1>5, <1>6, <1>7

Places(s, T) == {i \in 1 .. Len(s) : s[i] \in T}

\* What the splices leave of a list.
LEMMA KeptIs ==
  ASSUME NEW X, NEW s \in Seq(X), NEW T, NEW r, r = Kept(s, T)
  PROVE  /\ r \in Seq(X) /\ Elements(r) = Elements(s) \cap T /\ Len(r) = Cardinality(Places(s, T))
         /\ Distinct(s) => Distinct(r)
<1> DEFINE P == Places(s, T)
           n == Cardinality(P)
           at == CHOOSE f \in [1 .. n -> P] : Increasing(f, n)
<1>1. P \subseteq 1 .. Len(s) /\ Len(s) \in Nat /\ \A i \in 1 .. Len(s) : s[i] \in X
  BY DEF Places
<1>2. r = [i \in 1 .. n |-> s[at[i]]]
  BY DEF Kept, Places, Increasing
<1>3. \A i \in 1 .. Len(s) : i \in P <=> s[i] \in T
  BY DEF Places
<1> HIDE DEF P
<1>4. IsFiniteSet(1 .. Len(s))
  BY <1>1, FS_Interval, SMTT(60)
<1>5. IsFiniteSet(P) /\ n \in Nat
  BY <1>1, <1>4, FS_Subset, FS_CardinalityType
<1>6. P \in SUBSET Nat
  BY <1>1
<1>7. \E f \in [1 .. n -> P] : Increasing(f, n)
  BY <1>5, <1>6, Enumerable
<1>8. at \in [1 .. n -> P] /\ Increasing(at, n)
  BY <1>7
<1> HIDE DEF at
<1>9. at \in Injection(1 .. n, P)
  <2>1. ASSUME NEW i \in 1 .. n, NEW j \in 1 .. n, at[i] = at[j]
        PROVE  i = j
    <3> HIDE DEF n
    <3>1. i \in Int /\ j \in Int
      BY <1>5
    <3>2. at[i] \in Nat /\ at[j] \in Nat
      BY <1>6, <1>8
    <3>3. ~(at[i] < at[j]) /\ ~(at[j] < at[i])
      BY <2>1, <3>2
    <3> QED BY <1>8, <3>1, <3>3 DEF Increasing
  <2> QED BY <1>8, <2>1 DEF Injection, IsInjective
<1>10. at \in Surjection(1 .. n, P)
  <2>1. Cardinality(1 .. n) = n
    BY <1>5, FS_Interval
  <2> QED BY <1>5, <1>9, <2>1, FS_Injection
<1> HIDE DEF n
<1>11. \A i \in 1 .. n : at[i] \in 1 .. Len(s) /\ r[i] = s[at[i]] /\ r[i] \in X
  BY <1>1, <1>2, <1>8
<1>12. r \in Seq(X) /\ Len(r) = n
  BY <1>2, <1>5, <1>11
<1>13. Elements(r) = Elements(s) \cap T
  <2>1. ASSUME NEW i \in 1 .. n
        PROVE  r[i] \in Elements(s) \cap T
    <3>1. at[i] \in P /\ at[i] \in 1 .. Len(s) /\ r[i] = s[at[i]]
      BY <1>8, <1>11
    <3>2. s[at[i]] \in T
      BY <1>3, <3>1
    <3> QED BY <3>1, <3>2 DEF Elements
  <2>2. ASSUME NEW i \in 1 .. Len(s), s[i] \in T
        PROVE  s[i] \in Elements(r)
    <3>1. i \in P
      BY <1>3, <2>2
    <3>2. PICK k \in 1 .. n : at[k] = i
      BY <1>10, <3>1 DEF Surjection
    <3> QED BY <1>11, <1>12, <3>2 DEF Elements
  <2> QED BY <1>12, <2>1, <2>2 DEF Elements
<1>14. ASSUME Distinct(s)
       PROVE  Distinct(r)
  <2> SUFFICES ASSUME NEW i \in 1 .. n, NEW j \in 1 .. n, r[i] = r[j]
               PROVE  i = j
    BY <1>12 DEF Distinct
  <2>1. at[i] = at[j]
    BY <1>11, <1>14 DEF Distinct
  <2> QED BY <1>9, <2>1 DEF Injection, IsInjective
<1> QED BY <1>12, <1>13, <1>14 DEF n, P

LEMMA KeptIsShorter ==
  ASSUME NEW X, NEW s \in Seq(X), NEW T
  PROVE  /\ Cardinality(Places(s, T)) \in Nat /\ Cardinality(Places(s, T)) <= Len(s)
         /\ (\E x \in Elements(s) : x \notin T) => Cardinality(Places(s, T)) < Len(s)
<1> DEFINE D == 1 .. Len(s)
           P == Places(s, T)
<1>1. Len(s) \in Nat /\ P \subseteq D
  BY DEF Places
<1>2. IsFiniteSet(D) /\ Cardinality(D) = Len(s)
  <2> DEFINE n == Len(s)
  <2>1. n \in Nat
    BY <1>1
  <2> HIDE DEF n
  <2>2. IsFiniteSet(1 .. n) /\ Cardinality(1 .. n) = n
    BY <2>1, FS_Interval
  <2> QED BY <2>2 DEF n
<1>3. (\E x \in Elements(s) : x \notin T) => P # D
  BY DEF Places, Elements
<1> HIDE DEF D, P
<1>4. IsFiniteSet(P) /\ Cardinality(P) <= Cardinality(D) /\ (Cardinality(D) = Cardinality(P) => D = P)
  BY <1>1, <1>2, FS_Subset
<1>5. Cardinality(P) \in Nat
  BY <1>4, FS_CardinalityType
<1>6. Cardinality(P) <= Len(s) /\ ((\E x \in Elements(s) : x \notin T) => Cardinality(P) < Len(s))
  BY <1>1, <1>2, <1>3, <1>4, <1>5
<1> QED BY <1>5, <1>6 DEF P

-----------------------------------------------------------------------------
(* The element that is served.                                             *)

LEMMA ServedIs ==
  ASSUME NEW X, NEW s \in Seq(X), NEW t \in 0 .. Len(s) - 1, NEW T, Elements(s) \cap T # {}
  PROVE  /\ Served(s, t, T) \in Elements(s) /\ Served(s, t, T) \in T
         /\ NextTurn(s, t, T) \in 0 .. Len(s) - 1
<1> DEFINE n == Len(s)
           OK == {d \in 0 .. n - 1 : At(s, t + d) \in T}
           d0 == Distance(s, t, T)
<1>1. n \in Nat /\ n > 0 /\ t \in Nat /\ t < n
  OBVIOUS
<1> HIDE DEF n
<1>2. \A a \in Nat : a % n \in 0 .. n - 1
  BY <1>1
<1>3. PICK k \in 1 .. n : s[k] \in T
  BY DEF Elements, n
<1>4. \E d \in 0 .. n - 1 : At(s, t + d) = s[k]
  <2>1. CASE k - 1 >= t
    <3>1. k - 1 - t \in 0 .. n - 1 /\ t + (k - 1 - t) = k - 1 /\ k - 1 \in Nat /\ k - 1 < n
      BY <1>1, <2>1
    <3>2. (k - 1) % n = k - 1
      BY <1>1, <3>1
    <3>3. At(s, k - 1) = s[k]
      BY <3>2 DEF At, n
    <3> QED BY <3>1, <3>3
  <2>2. CASE k - 1 < t
    <3>1. /\ k - 1 - t + n \in 0 .. n - 1 /\ t + (k - 1 - t + n) = k - 1 + n
          /\ k - 1 + n \in Nat /\ n <= k - 1 + n /\ k - 1 + n < n + n
      BY <1>1, <2>2
    <3>2. (k - 1 + n) % n = k - 1
      BY <1>1, <3>1
    <3>3. At(s, k - 1 + n) = s[k]
      BY <3>2 DEF At, n
    <3> QED BY <3>1, <3>3
  <2> QED BY <1>1, <2>1, <2>2
<1>5. OK \in SUBSET Nat /\ OK # {}
  <2>1. PICK d \in 0 .. n - 1 : At(s, t + d) = s[k]
    BY <1>4
  <2>2. d \in OK
    BY <1>3, <2>1
  <2>3. OK \in SUBSET Nat
    BY <1>1
  <2> QED BY <2>2, <2>3
<1>6. PICK d \in OK : \A e \in OK : d <= e
  <2> HIDE DEF OK
  <2> QED BY <1>5, LeastNumber
<1>7. /\ d \in 0 .. n - 1 /\ At(s, t + d) \in T
      /\ \A e \in 0 .. d - 1 : At(s, t + e) \notin T
  <2>1. ASSUME NEW e \in 0 .. d - 1, At(s, t + e) \in T
        PROVE  FALSE
    <3>1. d \in 0 .. n - 1
      BY <1>6
    <3>2. e \in 0 .. n - 1 /\ ~(d <= e)
      BY <1>1, <3>1
    <3>3. e \in OK
      BY <2>1, <3>2
    <3> QED BY <1>6, <3>2, <3>3
  <2> QED BY <1>6, <2>1
<1>8. d0 \in 0 .. n - 1 /\ At(s, t + d0) \in T
  BY <1>7 DEF Distance, n
<1> HIDE DEF d0
<1>9. t + d0 \in Nat /\ t + d0 + 1 \in Nat
  BY <1>1, <1>8
<1>10. ((t + d0) % n) + 1 \in 1 .. n
  BY <1>1, <1>2, <1>9
<1>11. At(s, t + d0) \in Elements(s)
  BY <1>10 DEF At, Elements, n
<1>12. (t + d0 + 1) % n \in 0 .. n - 1
  BY <1>2, <1>9
<1> QED BY <1>8, <1>11, <1>12 DEF Served, NextTurn, d0, n

\* The cursor stays a place of the list.
Seated(t, s) == t \in Nat /\ (t < Len(s) \/ (s = << >> /\ t = 0))

LEMMA ClampedIs ==
  ASSUME NEW X, NEW s \in Seq(X), NEW t \in Nat
  PROVE  Seated(Clamped(t, Len(s)), s)
BY DEF Seated, Clamped

-----------------------------------------------------------------------------
(* An authorization: its inductive invariant.                             *)

InTransition == {"replacing", "disconnecting"}

Revisions == 0 .. MaxRevision

RecordType ==
  [state : {"none", "connected", "replacing", "disconnecting", "disconnected"},
   generation : Revisions, revision : Revisions, transition : Revisions,
   life : {"active", "degraded", "reauthorize"}, material : Revisions, of : Revisions]

CeremonyType ==
  [at : {"none", "selecting", "authorizing", "consuming", "awaiting", "committing",
         "containing", "settling", "done"},
   kind : {"none", "enroll", "reauthorize", "disconnect"}, target : Revisions,
   expired : BOOLEAN, gone : BOOLEAN, seen : Revisions, through : Revisions,
   told : {"no", "failed", "cancelled", "completed", "containment-failed", "disconnecting"},
   commits : 0 .. 1]

SnapshotType == [generation : Revisions, revision : Revisions, material : Revisions]

RuntimeType ==
  [stage : {"free", "refreshing", "authorizing"}, vm : Revisions, snap : SnapshotType,
   unsafe : BOOLEAN]

\* A generation is written with a revision of its own.  The material in the VM, and
\* the credential that is being refreshed, are of the generation that is connected,
\* or of an earlier one while it is being replaced or disconnected: nothing reads a
\* record in transition.
RecordOk(a, rt) ==
  /\ a.generation <= a.revision
  /\ a.material # 0 => a.of = a.generation
  /\ a.state = "connected" => rt.vm \in {0, a.generation}
  /\ a.state \in {"none", "disconnected"} => rt.vm = 0
  /\ a.state \in InTransition => rt.vm < a.generation
  /\ rt.snap.generation <= a.generation
  /\ rt.stage = "refreshing" /\ a.state \in InTransition => rt.snap.generation < a.generation
  /\ rt.stage = "refreshing" /\ a.state = "connected" /\ a.generation = rt.snap.generation =>
       a.revision = rt.snap.revision

\* What is known of a ceremony c while the record is a and material v is in the VM.
\* The record is at the revision a ceremony wrote only while nothing was written
\* since: its transition is then the record's, and what it has contained stays so.
CeremonyOk(c, a, v) ==
  /\ c.seen <= a.revision
  /\ c.at \notin {"none", "done"} => c.kind # "none"
  /\ c.at \notin {"containing", "settling", "done"} => c.commits = 0
  /\ c.told = "cancelled" => c.commits = 0 /\ (c.at = "done" \/ (c.at = "consuming" /\ c.gone))
  /\ c.at \in {"containing", "settling"} /\ c.seen = a.revision =>
       /\ a.state \in InTransition
       /\ a.generation = c.through + 1
       /\ c.at = "settling" => v = 0

AuthorizationInv ==
  /\ TypeOK
  /\ RecordOk(auth, runtime)
  /\ \A r \in Ceremonies : CeremonyOk(ceremony[r], auth, runtime.vm)

LEMMA TypeFacts ==
  TypeOK <=> /\ auth \in RecordType
             /\ ceremony \in [Ceremonies -> CeremonyType]
             /\ runtime \in RuntimeType
             /\ broker \in {"open", "stopping", "down"}
BY DEF TypeOK, RecordType, CeremonyType, RuntimeType, SnapshotType, Revisions

LEMMA RecordFacts ==
  ASSUME NEW a \in RecordType
  PROVE  /\ a.generation \in Nat /\ a.revision \in Nat
         /\ a.generation <= MaxRevision /\ a.revision <= MaxRevision
         /\ a.generation \in Revisions /\ a.revision \in Revisions
BY RevisionAssumption DEF RecordType, Revisions

-----------------------------------------------------------------------------
(* Edits of a ceremony.                                                    *)

LEMMA EndedIs ==
  ASSUME NEW r \in Ceremonies, NEW told, TypeOK
  PROVE  Ended(r, told) =
           [ceremony EXCEPT ![r] = [ceremony[r] EXCEPT !.at = "done", !.told = told]]
BY TypeFacts DEF Ended

LEMMA NoCeremonyOk ==
  ASSUME NEW a \in RecordType, NEW v
  PROVE  NoCeremony \in CeremonyType /\ CeremonyOk(NoCeremony, a, v)
<1>1. 0 \in Revisions /\ 0 <= a.revision
  BY RecordFacts, RevisionAssumption DEF Revisions
<1>2. /\ NoCeremony.seen = 0 /\ NoCeremony.at = "none" /\ NoCeremony.commits = 0
      /\ NoCeremony.told = "no"
  BY DEF NoCeremony
<1>3. NoCeremony \in CeremonyType
  BY <1>1 DEF NoCeremony, CeremonyType
<1>4. CeremonyOk(NoCeremony, a, v)
  BY <1>1, <1>2 DEF CeremonyOk
<1> QED BY <1>3, <1>4

LEMMA EditedCeremony ==
  ASSUME NEW a \in RecordType, NEW v, NEW c \in CeremonyType, CeremonyOk(c, a, v)
  PROVE  /\ \A k \in {"authorizing", "consuming", "awaiting"} :
              c.at \in {"selecting", "authorizing", "consuming"} /\ c.told # "cancelled" =>
                /\ [c EXCEPT !.at = k] \in CeremonyType
                /\ CeremonyOk([c EXCEPT !.at = k], a, v)
         /\ c.at \in {"selecting", "awaiting"} =>
              /\ [c EXCEPT !.at = "committing", !.seen = a.revision] \in CeremonyType
              /\ CeremonyOk([c EXCEPT !.at = "committing", !.seen = a.revision], a, v)
         /\ \A told \in {"no", "failed", "cancelled", "completed", "containment-failed",
                         "disconnecting"} :
              (told = "cancelled" => c.commits = 0) =>
                /\ [c EXCEPT !.at = "done", !.told = told] \in CeremonyType
                /\ CeremonyOk([c EXCEPT !.at = "done", !.told = told], a, v)
         /\ [c EXCEPT !.expired = TRUE] \in CeremonyType
         /\ CeremonyOk([c EXCEPT !.expired = TRUE], a, v)
<1>1. a.revision \in Revisions /\ a.revision <= a.revision
  BY RecordFacts
<1>2. ASSUME NEW k \in {"authorizing", "consuming", "awaiting"},
             c.at \in {"selecting", "authorizing", "consuming"}, c.told # "cancelled"
      PROVE  /\ [c EXCEPT !.at = k] \in CeremonyType
             /\ CeremonyOk([c EXCEPT !.at = k], a, v)
  <2> DEFINE d == [c EXCEPT !.at = k]
  <2>1. /\ d \in CeremonyType /\ d.at = k /\ d.seen = c.seen /\ d.commits = c.commits
        /\ d.told = c.told /\ d.kind = c.kind
    BY DEF CeremonyType
  <2> HIDE DEF d
  <2>2. CeremonyOk(d, a, v)
    BY <1>2, <2>1 DEF CeremonyOk
  <2> QED BY <2>1, <2>2 DEF d
<1>3. ASSUME c.at \in {"selecting", "awaiting"}
      PROVE  /\ [c EXCEPT !.at = "committing", !.seen = a.revision] \in CeremonyType
             /\ CeremonyOk([c EXCEPT !.at = "committing", !.seen = a.revision], a, v)
  <2> DEFINE d == [c EXCEPT !.at = "committing", !.seen = a.revision]
  <2>1. /\ d \in CeremonyType /\ d.at = "committing" /\ d.seen = a.revision
        /\ d.commits = c.commits /\ d.told = c.told /\ d.kind = c.kind
    BY <1>1 DEF CeremonyType
  <2> HIDE DEF d
  <2>2. CeremonyOk(d, a, v)
    BY <1>1, <1>3, <2>1 DEF CeremonyOk
  <2> QED BY <2>1, <2>2 DEF d
<1>4. ASSUME NEW told \in {"no", "failed", "cancelled", "completed", "containment-failed",
                           "disconnecting"},
             told = "cancelled" => c.commits = 0
      PROVE  /\ [c EXCEPT !.at = "done", !.told = told] \in CeremonyType
             /\ CeremonyOk([c EXCEPT !.at = "done", !.told = told], a, v)
  <2> DEFINE d == [c EXCEPT !.at = "done", !.told = told]
  <2>1. /\ d \in CeremonyType /\ d.at = "done" /\ d.seen = c.seen
        /\ d.commits = c.commits /\ d.told = told
    BY DEF CeremonyType
  <2> HIDE DEF d
  <2>2. CeremonyOk(d, a, v)
    BY <1>4, <2>1 DEF CeremonyOk
  <2> QED BY <2>1, <2>2 DEF d
<1>5. /\ [c EXCEPT !.expired = TRUE] \in CeremonyType
      /\ CeremonyOk([c EXCEPT !.expired = TRUE], a, v)
  <2> DEFINE d == [c EXCEPT !.expired = TRUE]
  <2>1. /\ d \in CeremonyType /\ d.at = c.at /\ d.seen = c.seen /\ d.commits = c.commits
        /\ d.told = c.told /\ d.through = c.through /\ d.gone = c.gone /\ d.kind = c.kind
    BY DEF CeremonyType
  <2> HIDE DEF d
  <2>2. CeremonyOk(d, a, v)
    BY <2>1 DEF CeremonyOk
  <2> QED BY <2>1, <2>2 DEF d
<1> QED BY <1>2, <1>3, <1>4, <1>5

\* Nothing is written since, or it is no longer the revision the ceremony wrote.
LEMMA OtherCeremony ==
  ASSUME NEW a \in RecordType, NEW b \in RecordType, NEW v, NEW w, NEW c \in CeremonyType,
         CeremonyOk(c, a, v),
         \/ b.revision = a.revision + 1
         \/ b = a /\ (w \in {v, 0} \/ a.state \notin InTransition)
  PROVE  CeremonyOk(c, b, w)
<1>1. c.seen \in Nat /\ c.seen <= a.revision /\ a.revision \in Nat
  BY RecordFacts, RevisionAssumption DEF CeremonyOk, CeremonyType, Revisions
<1>2. CASE b.revision = a.revision + 1
  <2>1. c.seen <= b.revision /\ c.seen # b.revision
    BY <1>1, <1>2
  <2> QED BY <2>1 DEF CeremonyOk
<1>3. CASE b = a /\ (w \in {v, 0} \/ a.state \notin InTransition)
  BY <1>3 DEF CeremonyOk
<1> QED BY <1>2, <1>3

-----------------------------------------------------------------------------
(* The steps.                                                              *)

LEMMA InvIs ==
  ASSUME auth' \in RecordType, runtime' \in RuntimeType, broker' \in {"open", "stopping", "down"},
         ceremony' \in [Ceremonies -> CeremonyType], RecordOk(auth', runtime'),
         \A r \in Ceremonies : CeremonyOk(ceremony'[r], auth', runtime'.vm)
  PROVE  AuthorizationInv'
<1>1. TypeOK'
  BY DEF TypeOK, RecordType, CeremonyType, RuntimeType, SnapshotType, Revisions
<1>2. RecordOk(auth, runtime)'
  BY DEF RecordOk
<1>3. \A r \in Ceremonies : CeremonyOk(ceremony[r], auth, runtime.vm)'
  BY DEF CeremonyOk
<1> QED BY <1>1, <1>2, <1>3 DEF AuthorizationInv

\* A step of one ceremony that leaves the record and the runtime alone.
LEMMA OneCeremony ==
  ASSUME AuthorizationInv, UNCHANGED <<auth, runtime, broker>>, NEW r \in Ceremonies,
         NEW c \in CeremonyType, CeremonyOk(c, auth, runtime.vm),
         ceremony' = [ceremony EXCEPT ![r] = c]
  PROVE  AuthorizationInv'
<1>1. /\ auth \in RecordType /\ runtime \in RuntimeType /\ broker \in {"open", "stopping", "down"}
      /\ ceremony \in [Ceremonies -> CeremonyType]
  BY TypeFacts DEF AuthorizationInv
<1>2. ceremony' \in [Ceremonies -> CeremonyType]
  BY <1>1
<1>3. \A q \in Ceremonies : ceremony'[q] = IF q = r THEN c ELSE ceremony[q]
  BY <1>1
<1>4. \A q \in Ceremonies : CeremonyOk(ceremony'[q], auth, runtime.vm)
  BY <1>3 DEF AuthorizationInv
<1> QED BY <1>1, <1>2, <1>4, InvIs DEF AuthorizationInv

LEMMA CeremonyStep ==
  ASSUME AuthorizationInv, NEW r \in Ceremonies,
         \/ \E kind \in {"enroll", "reauthorize", "disconnect"} : Begin(r, kind)
         \/ \E ok \in BOOLEAN : ExchangeEnds(r, ok)
         \/ Submit(r) \/ Callback(r) \/ Cancel(r) \/ Expire(r) \/ Reap(r) \/ Forget(r)
         \/ Confirm(r)
  PROVE  AuthorizationInv'
<1> DEFINE c == ceremony[r]
           tolds == {"no", "failed", "cancelled", "completed", "containment-failed", "disconnecting"}
<1>1. /\ TypeOK /\ auth \in RecordType /\ c \in CeremonyType /\ CeremonyOk(c, auth, runtime.vm)
      /\ UNCHANGED <<auth, runtime, broker>>
  BY TypeFacts DEF AuthorizationInv, Begin, ExchangeEnds, Submit, Callback, Cancel, Expire, Reap,
     Forget, Confirm
\* The ceremony ends, or is gone.
<1>2. ASSUME NEW told \in tolds, told = "cancelled" => c.commits = 0, ceremony' = Ended(r, told)
      PROVE  AuthorizationInv'
  <2> DEFINE d == [c EXCEPT !.at = "done", !.told = told]
  <2>1. d \in CeremonyType /\ CeremonyOk(d, auth, runtime.vm)
    BY <1>1, <1>2, EditedCeremony
  <2>2. ceremony' = [ceremony EXCEPT ![r] = d]
    BY <1>1, <1>2, EndedIs
  <2> HIDE DEF d
  <2> QED BY <1>1, <2>1, <2>2, OneCeremony
<1>3. CASE ceremony' = [ceremony EXCEPT ![r] = NoCeremony]
  BY <1>1, <1>3, NoCeremonyOk, OneCeremony
\* It goes on.
<1>4. ASSUME NEW k \in {"authorizing", "consuming", "awaiting"}, c.told # "cancelled",
             c.at \in {"selecting", "authorizing", "consuming"},
             ceremony' = [ceremony EXCEPT ![r].at = k]
      PROVE  AuthorizationInv'
  <2> DEFINE d == [c EXCEPT !.at = k]
  <2>1. d \in CeremonyType /\ CeremonyOk(d, auth, runtime.vm)
    BY <1>1, <1>4, EditedCeremony
  <2>2. ceremony' = [ceremony EXCEPT ![r] = d]
    BY <1>4
  <2> HIDE DEF d
  <2> QED BY <1>1, <2>1, <2>2, OneCeremony
<1>5. c.at \notin {"consuming", "done"} => c.told # "cancelled"
  BY <1>1 DEF CeremonyOk
<1>6. ASSUME NEW kind \in {"enroll", "reauthorize", "disconnect"}, Begin(r, kind)
      PROVE  AuthorizationInv'
  <2> DEFINE target == IF kind = "enroll" THEN 0 ELSE auth.generation
             d == [NoCeremony EXCEPT !.at = "selecting", !.kind = kind, !.target = target]
  <2>1. ceremony' = [ceremony EXCEPT ![r] = d]
    BY <1>6 DEF Begin
  <2>2. target \in Revisions /\ 0 \in Revisions /\ 0 <= auth.revision
    BY <1>1, RecordFacts, RevisionAssumption DEF Revisions
  <2>3. d.at = "selecting" /\ d.seen = 0 /\ d.commits = 0 /\ d.told = "no" /\ d.kind = kind
    BY DEF NoCeremony
  <2>4. NoCeremony \in CeremonyType
    BY <1>1, NoCeremonyOk
  <2> HIDE DEF target
  <2>5. d \in CeremonyType
    BY <2>2, <2>4 DEF CeremonyType
  <2> HIDE DEF d
  <2>6. CeremonyOk(d, auth, runtime.vm)
    BY <2>2, <2>3 DEF CeremonyOk
  <2> QED BY <1>1, <2>1, <2>5, <2>6, OneCeremony
<1>7. ASSUME NEW ok \in BOOLEAN, ExchangeEnds(r, ok) PROVE AuthorizationInv'
  <2>1. c.at = "consuming"
    BY <1>7 DEF ExchangeEnds
  <2>2. c.commits = 0 /\ c.told \in tolds
    BY <1>1, <2>1 DEF CeremonyOk, CeremonyType
  <2>3. \/ \E told \in tolds : ceremony' = Ended(r, told)
        \/ /\ ~c.gone
           /\ \E k \in {"authorizing", "awaiting"} : ceremony' = [ceremony EXCEPT ![r].at = k]
    BY <1>7, <2>2 DEF ExchangeEnds
  <2>4. ~c.gone => c.told # "cancelled"
    BY <1>1, <2>1 DEF CeremonyOk
  <2> QED BY <1>2, <1>4, <2>1, <2>2, <2>3, <2>4
<1>8. CASE Submit(r)
  <2>1. c.at = "selecting" /\ ceremony' = [ceremony EXCEPT ![r].at = "authorizing"]
    BY <1>8 DEF Submit
  <2> QED BY <1>4, <1>5, <2>1
<1>9. CASE Callback(r)
  <2>1. c.at = "authorizing"
    BY <1>9 DEF Callback
  <2>2. ceremony' = [ceremony EXCEPT ![r].at = "consuming"] \/ ceremony' = Ended(r, "failed")
    BY <1>9 DEF Callback
  <2> QED BY <1>2, <1>4, <1>5, <2>1, <2>2
<1>10. CASE Cancel(r)
  <2>1. c.at \in {"selecting", "authorizing", "awaiting"} /\ ceremony' = Ended(r, "cancelled")
    BY <1>10 DEF Cancel
  <2>2. c.commits = 0
    BY <1>1, <2>1 DEF CeremonyOk
  <2> QED BY <1>2, <2>1, <2>2
<1>11. CASE Expire(r)
  <2> DEFINE d == [c EXCEPT !.expired = TRUE]
  <2>1. d \in CeremonyType /\ CeremonyOk(d, auth, runtime.vm)
    BY <1>1, EditedCeremony
  <2>2. ceremony' = [ceremony EXCEPT ![r] = d]
    BY <1>11 DEF Expire
  <2> HIDE DEF d
  <2> QED BY <1>1, <2>1, <2>2, OneCeremony
<1>12. CASE Confirm(r)
  <2> DEFINE d == [c EXCEPT !.at = "committing", !.seen = auth.revision]
  <2>1. c.at \in {"selecting", "awaiting"}
    BY <1>12 DEF Confirm
  <2>2. \/ ceremony' = [ceremony EXCEPT ![r].at = "committing", ![r].seen = auth.revision]
        \/ ceremony' = Ended(r, "failed")
    BY <1>12 DEF Confirm
  <2>3. d \in CeremonyType /\ CeremonyOk(d, auth, runtime.vm)
    BY <1>1, <2>1, EditedCeremony
  <2>4. [ceremony EXCEPT ![r].at = "committing", ![r].seen = auth.revision]
          = [ceremony EXCEPT ![r] = d]
    BY <1>1, TypeFacts
  <2> HIDE DEF d
  <2>5. CASE ceremony' = [ceremony EXCEPT ![r] = d]
    BY <1>1, <2>3, <2>5, OneCeremony
  <2> QED BY <1>2, <2>2, <2>4, <2>5
<1>13. CASE Reap(r) \/ Forget(r)
  BY <1>3, <1>13 DEF Reap, Forget
<1> QED BY <1>6, <1>7, <1>8, <1>9, <1>10, <1>11, <1>12, <1>13

\* cancelBrowserCeremonies and stopAdmission, of all ceremonies at once.
LEMMA AllCeremoniesStep ==
  ASSUME AuthorizationInv, CancelAll \/ StopAdmission
  PROVE  AuthorizationInv'
<1>1. /\ TypeOK /\ auth \in RecordType /\ runtime \in RuntimeType
      /\ ceremony \in [Ceremonies -> CeremonyType]
      /\ UNCHANGED <<auth, runtime>> /\ broker' \in {"open", "stopping", "down"}
  BY TypeFacts DEF AuthorizationInv, CancelAll, StopAdmission
<1>2. ASSUME NEW r \in Ceremonies, NEW d,
             \/ d = ceremony[r] \/ d = NoCeremony
             \/ /\ ceremony[r].at \in {"selecting", "authorizing", "awaiting"}
                /\ d = [ceremony[r] EXCEPT !.at = "done", !.told = "cancelled"]
             \/ /\ ceremony[r].at = "consuming"
                /\ d = [ceremony[r] EXCEPT !.gone = TRUE, !.told = "cancelled"]
      PROVE  d \in CeremonyType /\ CeremonyOk(d, auth, runtime.vm)
  <2> DEFINE c == ceremony[r]
  <2>1. c \in CeremonyType /\ CeremonyOk(c, auth, runtime.vm)
    BY <1>1 DEF AuthorizationInv
  <2>2. CASE d = NoCeremony
    BY <1>1, <2>2, NoCeremonyOk
  <2>3. CASE /\ c.at \in {"selecting", "authorizing", "awaiting"}
             /\ d = [c EXCEPT !.at = "done", !.told = "cancelled"]
    <3>1. c.commits = 0
      BY <2>1, <2>3 DEF CeremonyOk
    <3> QED BY <1>1, <2>1, <2>3, <3>1, EditedCeremony
  <2>4. CASE c.at = "consuming" /\ d = [c EXCEPT !.gone = TRUE, !.told = "cancelled"]
    <3> HIDE DEF c
    <3>1. /\ d \in CeremonyType /\ d.at = "consuming" /\ d.seen = c.seen /\ d.commits = c.commits
          /\ d.kind = c.kind
      BY <2>1, <2>4 DEF CeremonyType
    <3>2. d.gone = TRUE
      BY <2>1, <2>4 DEF CeremonyType
    <3>3. CeremonyOk(d, auth, runtime.vm)
      BY <2>1, <2>4, <3>1, <3>2 DEF CeremonyOk
    <3> QED BY <3>1, <3>3
  <2> QED BY <1>2, <2>1, <2>2, <2>3, <2>4
<1>3. \A r \in Ceremonies :
        \/ ceremony'[r] = ceremony[r] \/ ceremony'[r] = NoCeremony
        \/ /\ ceremony[r].at \in {"selecting", "authorizing", "awaiting"}
           /\ ceremony'[r] = [ceremony[r] EXCEPT !.at = "done", !.told = "cancelled"]
        \/ /\ ceremony[r].at = "consuming"
           /\ ceremony'[r] = [ceremony[r] EXCEPT !.gone = TRUE, !.told = "cancelled"]
  <2>1. CASE CancelAll
    <3>1. \A r \in Ceremonies :
            Ended(r, "cancelled")[r] = [ceremony[r] EXCEPT !.at = "done", !.told = "cancelled"]
      BY <1>1 DEF Ended
    <3> QED BY <2>1, <3>1 DEF CancelAll
  <2>2. CASE StopAdmission
    BY <2>2 DEF StopAdmission
  <2> QED BY <2>1, <2>2
<1>4. \A r \in Ceremonies : ceremony'[r] \in CeremonyType /\ CeremonyOk(ceremony'[r], auth, runtime.vm)
  BY <1>2, <1>3
<1>5. ceremony' \in [Ceremonies -> CeremonyType]
  BY <1>4 DEF CancelAll, StopAdmission
<1> QED BY <1>1, <1>4, <1>5, InvIs DEF AuthorizationInv

LEMMA RuntimeFacts ==
  ASSUME NEW rt \in RuntimeType
  PROVE  /\ rt.vm \in Nat /\ rt.vm \in Revisions /\ rt.snap \in SnapshotType
         /\ rt.snap.generation \in Nat /\ rt.snap.revision \in Nat
BY RevisionAssumption DEF RuntimeType, SnapshotType, Revisions

LEMMA FreeIs ==
  ASSUME TypeOK
  PROVE  /\ Free \in RuntimeType /\ Free.stage = "free" /\ Free.snap.generation = 0
         /\ Free.vm = runtime.vm
<1>1. 0 \in Revisions
  BY RevisionAssumption DEF Revisions
<1>2. NoSnapshot \in SnapshotType /\ NoSnapshot.generation = 0
  BY <1>1 DEF NoSnapshot, SnapshotType
<1> QED BY <1>2, TypeFacts DEF Free, RuntimeType

\* A step of the runtime that leaves the record alone and takes material away only.
LEMMA LessMaterial ==
  ASSUME NEW a \in RecordType, NEW rt \in RuntimeType, NEW new \in RuntimeType, RecordOk(a, rt),
         new.vm \in {rt.vm, 0},
         \/ new.stage = rt.stage /\ new.snap = rt.snap
         \/ new.stage = "free" /\ new.snap.generation = 0
  PROVE  RecordOk(a, new)
<1>1. a.generation \in Nat /\ rt.vm \in Nat
  BY RecordFacts, RuntimeFacts
<1>2. a.state \in InTransition => new.vm < a.generation
  BY <1>1 DEF RecordOk
<1> QED BY <1>1, <1>2 DEF RecordOk

LEMMA RuntimeStep ==
  ASSUME AuthorizationInv,
         (\E good \in BOOLEAN : Resolve(good) \/ Authorize(good)) \/ Retire
  PROVE  AuthorizationInv'
<1>1. /\ TypeOK /\ auth \in RecordType /\ runtime \in RuntimeType
      /\ ceremony \in [Ceremonies -> CeremonyType] /\ broker \in {"open", "stopping", "down"}
      /\ RecordOk(auth, runtime) /\ \A r \in Ceremonies : CeremonyOk(ceremony[r], auth, runtime.vm)
  BY TypeFacts DEF AuthorizationInv
<1>2. ASSUME UNCHANGED <<auth, ceremony, broker>>, runtime' \in RuntimeType,
             RecordOk(auth, runtime'),
             runtime'.vm \in {runtime.vm, 0} \/ auth.state \notin InTransition
      PROVE  AuthorizationInv'
  <2>1. \A r \in Ceremonies : CeremonyOk(ceremony[r], auth, runtime'.vm)
    BY <1>1, <1>2, OtherCeremony
  <2> QED BY <1>1, <1>2, <2>1, InvIs
<1>3. ASSUME NEW good \in BOOLEAN, Resolve(good) PROVE AuthorizationInv'
  <2> DEFINE stage == IF good THEN "authorizing" ELSE "refreshing"
             vm == IF good THEN auth.generation ELSE runtime.vm
  <2>1. /\ auth.state = "connected"
        /\ runtime' = [runtime EXCEPT !.stage = stage, !.snap = Snapshot, !.vm = vm]
        /\ UNCHANGED <<auth, ceremony, broker>>
    BY <1>3 DEF Resolve, Readable
  <2>2. Snapshot \in SnapshotType /\ Snapshot.generation = auth.generation /\ Snapshot.revision = auth.revision
    BY <1>1 DEF Snapshot, SnapshotType, RecordType
  <2>3. stage \in {"authorizing", "refreshing"} /\ vm \in {auth.generation, runtime.vm} /\ vm \in Revisions
    BY <1>1, RecordFacts, RuntimeFacts
  <2> HIDE DEF stage, vm
  <2>4. /\ runtime' \in RuntimeType /\ runtime'.stage = stage /\ runtime'.snap = Snapshot
        /\ runtime'.vm = vm
    BY <1>1, <2>1, <2>2, <2>3 DEF RuntimeType
  <2>5. RecordOk(auth, runtime')
    BY <1>1, <2>1, <2>2, <2>3, <2>4, RecordFacts DEF RecordOk, InTransition
  <2> QED BY <1>2, <2>1, <2>4, <2>5 DEF InTransition
<1>4. ASSUME NEW ok \in BOOLEAN, Authorize(ok) PROVE AuthorizationInv'
  <2> DEFINE use == StillCurrent(runtime.snap)
             vm == IF use \/ ~ok THEN Free.vm ELSE 0
             unsafe == Free.unsafe \/ (~use /\ ~ok)
  <2>1. runtime' = [Free EXCEPT !.vm = vm, !.unsafe = unsafe] /\ UNCHANGED <<auth, ceremony, broker>>
    BY <1>4 DEF Authorize
  <2>2. vm \in {runtime.vm, 0} /\ vm \in Revisions
    BY <1>1, FreeIs, RuntimeFacts, RevisionAssumption DEF Revisions
  <2>3. unsafe \in BOOLEAN
    OBVIOUS
  <2> HIDE DEF vm, unsafe
  <2>4. /\ runtime' \in RuntimeType /\ runtime'.vm = vm /\ runtime'.stage = "free"
        /\ runtime'.snap.generation = 0
    BY <1>1, <2>1, <2>2, <2>3, FreeIs DEF RuntimeType
  <2>5. RecordOk(auth, runtime')
    BY <1>1, <2>2, <2>4, LessMaterial
  <2> QED BY <1>2, <2>1, <2>2, <2>4, <2>5
<1>5. CASE Retire
  <2>1. runtime' = [runtime EXCEPT !.vm = 0] /\ UNCHANGED <<auth, ceremony, broker>>
    BY <1>5 DEF Retire
  <2>2. 0 \in Revisions
    BY RevisionAssumption DEF Revisions
  <2>3. /\ runtime' \in RuntimeType /\ runtime'.vm = 0 /\ runtime'.stage = runtime.stage
        /\ runtime'.snap = runtime.snap
    BY <1>1, <2>1, <2>2 DEF RuntimeType
  <2>4. RecordOk(auth, runtime')
    BY <1>1, <2>3, LessMaterial
  <2> QED BY <1>2, <2>1, <2>3, <2>4
<1> QED BY <1>3, <1>4, <1>5

\* containAuthorizationMaterial: what was contained is every generation before the
\* one the ceremony wrote, while the record is still at the ceremony's revision.
LEMMA ContainStep ==
  ASSUME AuthorizationInv, NEW r \in Ceremonies, NEW ok \in BOOLEAN, Contain(r, ok)
  PROVE  AuthorizationInv'
<1> DEFINE c == ceremony[r]
           concerned == Contains(runtime.vm, c.through)
           done == ~runtime.unsafe /\ (concerned => ok)
           vm == IF concerned /\ done THEN 0 ELSE runtime.vm
           unsafe == runtime.unsafe \/ ~done
           told == IF IsOpen THEN "containment-failed" ELSE c.told
           settling == [c EXCEPT !.at = "settling"]
           ended == [c EXCEPT !.at = "done", !.told = told]
<1>1. /\ TypeOK /\ auth \in RecordType /\ runtime \in RuntimeType
      /\ ceremony \in [Ceremonies -> CeremonyType] /\ broker \in {"open", "stopping", "down"}
      /\ RecordOk(auth, runtime) /\ \A q \in Ceremonies : CeremonyOk(ceremony[q], auth, runtime.vm)
      /\ c \in CeremonyType /\ CeremonyOk(c, auth, runtime.vm)
  BY TypeFacts DEF AuthorizationInv
<1>2. /\ c.at = "containing" /\ UNCHANGED <<auth, broker>>
      /\ runtime' = [runtime EXCEPT !.vm = vm, !.unsafe = unsafe]
      /\ \/ done /\ ceremony' = [ceremony EXCEPT ![r].at = "settling"]
         \/ ~done /\ ceremony' = Ended(r, told)
  BY DEF Contain
<1>3. ceremony' = [ceremony EXCEPT ![r] = IF done THEN settling ELSE ended]
  <2>1. [ceremony EXCEPT ![r].at = "settling"] = [ceremony EXCEPT ![r] = settling]
    OBVIOUS
  <2>2. Ended(r, told) = [ceremony EXCEPT ![r] = ended]
    BY <1>1, EndedIs
  <2> HIDE DEF settling, ended, told, done
  <2> QED BY <1>2, <2>1, <2>2
<1>4. vm \in {runtime.vm, 0} /\ vm \in Revisions /\ unsafe \in BOOLEAN
  BY <1>1, RuntimeFacts, RevisionAssumption DEF Revisions
<1>5. done /\ c.seen = auth.revision => vm = 0
  <2> SUFFICES ASSUME done, c.seen = auth.revision, ~concerned PROVE runtime.vm = 0
    OBVIOUS
  <2>1. auth.state \in InTransition /\ auth.generation = c.through + 1
    BY <1>1, <1>2 DEF CeremonyOk
  <2>2. runtime.vm < c.through + 1
    BY <1>1, <2>1 DEF RecordOk
  <2>3. runtime.vm \in Nat /\ c.through \in Nat
    BY <1>1, RuntimeFacts, RevisionAssumption DEF CeremonyType, Revisions
  <2> QED BY <2>2, <2>3 DEF Contains
<1>6. told \in {"no", "failed", "cancelled", "completed", "containment-failed", "disconnecting"}
      /\ told # "cancelled"
  BY <1>1, <1>2 DEF CeremonyType, CeremonyOk
<1> HIDE DEF vm, unsafe, told, concerned
<1>7. /\ runtime' \in RuntimeType /\ runtime'.vm = vm /\ runtime'.stage = runtime.stage
      /\ runtime'.snap = runtime.snap
  BY <1>1, <1>2, <1>4 DEF RuntimeType
<1>8. RecordOk(auth, runtime')
  BY <1>1, <1>4, <1>7, LessMaterial
<1>9. CeremonyOk(c, auth, vm)
  BY <1>1, <1>4, OtherCeremony
<1>10. ended \in CeremonyType /\ CeremonyOk(ended, auth, vm)
  BY <1>1, <1>6, <1>9, EditedCeremony
<1>11. done => settling \in CeremonyType /\ CeremonyOk(settling, auth, vm)
  <2>1. /\ settling \in CeremonyType /\ settling.at = "settling" /\ settling.seen = c.seen
        /\ settling.commits = c.commits /\ settling.told = c.told /\ settling.through = c.through
        /\ settling.kind = c.kind
    <3> HIDE DEF c
    <3> QED BY <1>1 DEF CeremonyType
  <2> HIDE DEF settling, done
  <2> QED BY <1>2, <1>5, <1>9, <2>1 DEF CeremonyOk
<1> DEFINE d == IF done THEN settling ELSE ended
<1>12. d \in CeremonyType /\ CeremonyOk(d, auth, vm)
  <2> HIDE DEF settling, ended, done
  <2> QED BY <1>10, <1>11
<1>13. ceremony' = [ceremony EXCEPT ![r] = d]
  BY <1>3
<1> HIDE DEF d
<1>14. /\ ceremony' \in [Ceremonies -> CeremonyType]
       /\ \A q \in Ceremonies : ceremony'[q] = IF q = r THEN d ELSE ceremony[q]
  BY <1>1, <1>12, <1>13
<1>15. \A q \in Ceremonies : CeremonyOk(ceremony[q], auth, vm)
  BY <1>1, <1>4, OtherCeremony
<1>16. \A q \in Ceremonies : CeremonyOk(ceremony'[q], auth, vm)
  BY <1>12, <1>14, <1>15
<1> QED BY <1>1, <1>2, <1>7, <1>8, <1>14, <1>16, InvIs

-----------------------------------------------------------------------------
(* The steps that write the record.                                        *)

\* The record that is written has a revision, and a generation, of its own, and
\* nothing of it has been read yet.
LEMMA WrittenOk ==
  ASSUME NEW a \in RecordType, NEW b \in RecordType, NEW rt \in RuntimeType, RecordOk(a, rt),
         b.revision = a.revision + 1, b.generation = a.generation + 1, b.of = b.generation,
         \/ a.state \in {"none", "disconnected"} /\ b.state = "connected"
         \/ a.state = "connected" /\ b.state = "replacing"
         \/ a.state \in {"connected", "replacing"} /\ b.state = "disconnecting"
  PROVE  RecordOk(b, rt)
<1>1. /\ a.generation \in Nat /\ a.revision \in Nat /\ b.generation \in Nat /\ b.revision \in Nat
      /\ rt.vm \in Nat /\ rt.snap.generation \in Nat
  BY RecordFacts, RuntimeFacts
<1>2. a.state \in {"connected", "replacing"} => rt.vm <= a.generation
  BY <1>1 DEF RecordOk, InTransition
<1>3. rt.snap.generation < b.generation /\ b.generation <= b.revision
  BY <1>1 DEF RecordOk
<1>4. CASE a.state \in {"none", "disconnected"} /\ b.state = "connected"
  BY <1>1, <1>3, <1>4 DEF RecordOk, InTransition
<1>5. CASE a.state \in {"connected", "replacing"} /\ b.state \in InTransition
  BY <1>1, <1>2, <1>3, <1>5 DEF RecordOk, InTransition
<1> QED BY <1>4, <1>5 DEF InTransition

\* settleAuthorizationTransition of a record whose old material is contained.
LEMMA SettledOk ==
  ASSUME TypeOK, NEW rt \in RuntimeType, RecordOk(auth, rt), rt.vm = 0,
         auth.state \in InTransition, CanWrite
  PROVE  /\ Settled \in RecordType /\ Settled.revision = auth.revision + 1
         /\ RecordOk(Settled, rt)
<1>1. auth \in RecordType
  BY TypeFacts
<1>2. /\ auth.generation \in Nat /\ auth.revision \in Nat /\ auth.revision + 1 \in Revisions
      /\ rt.snap.generation \in Nat
  BY <1>1, RecordFacts, RuntimeFacts, RevisionAssumption DEF CanWrite, Revisions
<1>3. /\ Settled \in RecordType /\ Settled.revision = auth.revision + 1
      /\ Settled.generation = auth.generation /\ Settled.material = auth.material
      /\ Settled.of = auth.of /\ Settled.state \in {"connected", "disconnected"}
  BY <1>1, <1>2 DEF Settled, RecordType
<1>4. RecordOk(Settled, rt)
  BY <1>2, <1>3 DEF RecordOk, InTransition
<1> QED BY <1>3, <1>4

LEMMA CommitStep ==
  ASSUME AuthorizationInv, NEW r \in Ceremonies, Commit(r)
  PROVE  AuthorizationInv'
<1> DEFINE c == ceremony[r]
<1>1. /\ TypeOK /\ auth \in RecordType /\ runtime \in RuntimeType
      /\ ceremony \in [Ceremonies -> CeremonyType] /\ broker \in {"open", "stopping", "down"}
      /\ RecordOk(auth, runtime) /\ \A q \in Ceremonies : CeremonyOk(ceremony[q], auth, runtime.vm)
      /\ c \in CeremonyType /\ CeremonyOk(c, auth, runtime.vm)
      /\ auth.revision \in Nat /\ auth.generation \in Nat
  BY TypeFacts, RecordFacts DEF AuthorizationInv
<1>2. c.at = "committing" /\ CanWrite /\ UNCHANGED <<runtime, broker>>
  BY DEF Commit
<1>3. c.commits = 0 /\ c.told # "cancelled"
  BY <1>1, <1>2 DEF CeremonyOk
<1>4. CASE ~(IsOpen /\ ~c.expired /\ Commits(r))
  <2> DEFINE told == IF IsOpen THEN "failed" ELSE c.told
             d == [c EXCEPT !.at = "done", !.told = told]
  <2>1. UNCHANGED auth /\ ceremony' = Ended(r, told)
    BY <1>4 DEF Commit
  <2>2. told \in {"no", "failed", "cancelled", "completed", "containment-failed", "disconnecting"}
        /\ told # "cancelled"
    BY <1>1, <1>3 DEF CeremonyType
  <2> HIDE DEF told
  <2>3. d \in CeremonyType /\ CeremonyOk(d, auth, runtime.vm)
    BY <1>1, <2>2, EditedCeremony
  <2>4. ceremony' = [ceremony EXCEPT ![r] = d]
    BY <1>1, <2>1, EndedIs
  <2> HIDE DEF d
  <2> QED BY <1>2, <2>1, <2>3, <2>4, OneCeremony
<1>5. CASE IsOpen /\ ~c.expired /\ Commits(r)
  <2> DEFINE b == Written(c.kind)
             enrolled == [c EXCEPT !.at = "done", !.told = "completed", !.commits = c.commits + 1]
             containing == [c EXCEPT !.at = "containing", !.commits = c.commits + 1,
                                     !.seen = auth'.revision, !.through = auth.generation]
             d == IF c.kind = "enroll" THEN enrolled ELSE containing
  <2>1. auth' = b
    BY <1>5 DEF Commit
  <2>2. ceremony' = [ceremony EXCEPT ![r] = d]
    <3>1. ceremony' = IF c.kind = "enroll"
               THEN [Ended(r, "completed") EXCEPT ![r].commits = @ + 1]
               ELSE [ceremony EXCEPT ![r].at = "containing", ![r].commits = @ + 1,
                                     ![r].seen = auth'.revision, ![r].through = auth.generation]
      BY <1>5 DEF Commit
    <3>2. [Ended(r, "completed") EXCEPT ![r].commits = @ + 1] = [ceremony EXCEPT ![r] = enrolled]
      <4>1. Ended(r, "completed") = [ceremony EXCEPT ![r] = [c EXCEPT !.at = "done", !.told = "completed"]]
        BY <1>1, EndedIs
      <4> DEFINE e == [c EXCEPT !.at = "done", !.told = "completed"]
      <4>2. [e EXCEPT !.commits = @ + 1] = enrolled
        <5> HIDE DEF c
        <5> QED BY <1>1 DEF CeremonyType
      <4> HIDE DEF e
      <4>3. [[ceremony EXCEPT ![r] = e] EXCEPT ![r].commits = @ + 1]
              = [ceremony EXCEPT ![r] = [e EXCEPT !.commits = @ + 1]]
        BY <1>1
      <4> QED BY <4>1, <4>2, <4>3 DEF e
    <3>3. [ceremony EXCEPT ![r].at = "containing", ![r].commits = @ + 1,
                           ![r].seen = auth'.revision, ![r].through = auth.generation]
            = [ceremony EXCEPT ![r] = containing]
      BY <1>1
    <3> HIDE DEF enrolled, containing, c
    <3> QED BY <3>1, <3>2, <3>3
  <2>3. /\ c.kind = "enroll" => auth.state \in {"none", "disconnected"}
        /\ c.kind = "reauthorize" => auth.state = "connected"
        /\ c.kind = "disconnect" => auth.state \in {"connected", "replacing"}
    BY <1>5 DEF Commits, Enrollable
  <2>4. c.kind \in {"enroll", "reauthorize", "disconnect"}
    BY <1>1, <1>2 DEF CeremonyOk, CeremonyType
  <2>5. auth.revision + 1 \in Revisions /\ auth.generation + 1 \in Revisions /\ 0 \in Revisions
    BY <1>1, <1>2, RevisionAssumption DEF CanWrite, Revisions, RecordOk
  <2>6. /\ b \in RecordType /\ b.revision = auth.revision + 1 /\ b.generation = auth.generation + 1
        /\ b.of = b.generation
    <3>1. auth.life \in {"active", "degraded", "reauthorize"}
      BY <1>1 DEF RecordType
    <3> HIDE DEF c
    <3> QED BY <2>4, <2>5, <3>1 DEF Written, RecordType
  <2>7. b.state = CASE c.kind = "enroll" -> "connected"
                    [] c.kind = "reauthorize" -> "replacing"
                    [] c.kind = "disconnect" -> "disconnecting"
    BY DEF Written
  <2>8. RecordOk(b, runtime)
    <3> HIDE DEF b, c
    <3> QED BY <1>1, <2>3, <2>4, <2>6, <2>7, WrittenOk
  <2>9. /\ auth' \in RecordType
        /\ RecordOk(auth', runtime)
        /\ auth'.revision = auth.revision + 1
        /\ auth'.generation = auth.generation + 1
        /\ c.kind # "enroll" => auth'.state \in InTransition
    <3> HIDE DEF b, c
    <3> QED BY <2>1, <2>4, <2>6, <2>7, <2>8 DEF InTransition
  <2> HIDE DEF b
  <2>10. enrolled \in CeremonyType /\ CeremonyOk(enrolled, auth', runtime.vm)
    <3>1. /\ enrolled \in CeremonyType /\ enrolled.at = "done" /\ enrolled.seen = c.seen
          /\ enrolled.told = "completed"
      <4> DEFINE one == c.commits + 1
                 e == [c EXCEPT !.at = "done", !.told = "completed", !.commits = one]
      <4>1. one \in 0..1 /\ c \in CeremonyType
        BY <1>1, <1>3
      <4> HIDE DEF c, one
      <4>2. e \in CeremonyType
        BY <4>1, Zenon DEF CeremonyType
      <4>3. e.at = "done" /\ e.seen = c.seen /\ e.told = "completed"
        BY <4>1 DEF CeremonyType
      <4> QED BY <4>2, <4>3 DEF one
    <3>2. c.seen <= auth.revision /\ c.seen \in Nat
      BY <1>1, RevisionAssumption DEF CeremonyOk, CeremonyType, Revisions
    <3> HIDE DEF enrolled
    <3> QED BY <1>1, <2>9, <3>1, <3>2 DEF CeremonyOk
  <2>11. c.kind # "enroll" => containing \in CeremonyType /\ CeremonyOk(containing, auth', runtime.vm)
    <3>1. auth.generation \in Revisions /\ auth'.revision \in Revisions /\ auth'.revision \in Nat
      BY <1>1, <2>9, RecordFacts
    <3>2. /\ containing \in CeremonyType /\ containing.at = "containing"
          /\ containing.seen = auth'.revision /\ containing.told = c.told
          /\ containing.through = auth.generation /\ containing.kind = c.kind
      <4> DEFINE seen == auth'.revision
                 through == auth.generation
                 one == c.commits + 1
                 e == [c EXCEPT !.at = "containing", !.commits = one, !.seen = seen,
                                !.through = through]
      <4>1. /\ one \in 0..1 /\ seen \in Revisions /\ through \in Revisions
            /\ c \in CeremonyType
        BY <1>1, <1>3, <3>1
      <4> HIDE DEF c, seen, through, one
      <4>2. e \in CeremonyType
        BY <4>1, Zenon DEF CeremonyType
      <4>3. /\ e.at = "containing" /\ e.seen = seen /\ e.told = c.told
            /\ e.through = through /\ e.kind = c.kind
        BY <4>1 DEF CeremonyType
      <4> QED BY <4>2, <4>3 DEF seen, through, one
    <3> HIDE DEF containing
    <3> QED BY <1>1, <1>2, <1>3, <2>9, <3>1, <3>2 DEF CeremonyOk
  <2>12. d \in CeremonyType /\ CeremonyOk(d, auth', runtime.vm)
    <3> HIDE DEF enrolled, containing, c
    <3> QED BY <2>10, <2>11
  <2> HIDE DEF d, enrolled, containing, c
  <2>13. /\ ceremony' \in [Ceremonies -> CeremonyType]
         /\ \A q \in Ceremonies : ceremony'[q] = IF q = r THEN d ELSE ceremony[q]
    BY <1>1, <2>2, <2>12
  <2>14. \A q \in Ceremonies : CeremonyOk(ceremony[q], auth', runtime.vm)
    BY <1>1, <2>9, OtherCeremony
  <2>15. \A q \in Ceremonies : CeremonyOk(ceremony'[q], auth', runtime.vm)
    BY <2>12, <2>13, <2>14
  <2> QED BY <1>1, <1>2, <2>9, <2>13, <2>15, InvIs
<1> QED BY <1>4, <1>5

LEMMA SettleStep ==
  ASSUME AuthorizationInv, NEW r \in Ceremonies, Settle(r)
  PROVE  AuthorizationInv'
<1> DEFINE c == ceremony[r]
<1>1. /\ TypeOK /\ auth \in RecordType /\ runtime \in RuntimeType
      /\ ceremony \in [Ceremonies -> CeremonyType] /\ broker \in {"open", "stopping", "down"}
      /\ RecordOk(auth, runtime) /\ \A q \in Ceremonies : CeremonyOk(ceremony[q], auth, runtime.vm)
      /\ c \in CeremonyType /\ CeremonyOk(c, auth, runtime.vm)
  BY TypeFacts DEF AuthorizationInv
<1>2. c.at = "settling" /\ CanWrite /\ UNCHANGED <<runtime, broker>>
  BY DEF Settle
<1>3. \/ UNCHANGED auth /\ (ceremony' = Ended(r, c.told) \/ ceremony' = Ended(r, "disconnecting")
                              \/ ceremony' = Ended(r, "failed"))
      \/ auth.revision = c.seen /\ auth' = Settled /\ ceremony' = Ended(r, "completed")
  BY DEF Settle, Settles
<1>4. c.told # "cancelled" /\ c.told \in {"no", "failed", "cancelled", "completed",
                                          "containment-failed", "disconnecting"}
  BY <1>1, <1>2 DEF CeremonyOk, CeremonyType
<1>5. ASSUME NEW t \in {c.told, "disconnecting", "failed", "completed"}, ceremony' = Ended(r, t),
             \/ UNCHANGED auth
             \/ /\ auth' \in RecordType /\ auth'.revision = auth.revision + 1
                /\ RecordOk(auth', runtime)
      PROVE  AuthorizationInv'
  <2> DEFINE d == [c EXCEPT !.at = "done", !.told = t]
  <2>1. d \in CeremonyType /\ CeremonyOk(d, auth, runtime.vm)
    BY <1>1, <1>4, <1>5, EditedCeremony
  <2>2. ceremony' = [ceremony EXCEPT ![r] = d]
    BY <1>1, <1>5, EndedIs
  <2> HIDE DEF d
  <2>3. CASE UNCHANGED auth
    BY <1>2, <2>1, <2>2, <2>3, OneCeremony
  <2>4. CASE /\ auth' \in RecordType /\ auth'.revision = auth.revision + 1
             /\ RecordOk(auth', runtime)
    <3>1. /\ ceremony' \in [Ceremonies -> CeremonyType]
          /\ \A q \in Ceremonies : ceremony'[q] = IF q = r THEN d ELSE ceremony[q]
      BY <1>1, <2>1, <2>2
    <3>2. \A q \in Ceremonies : CeremonyOk(ceremony'[q], auth, runtime.vm)
      BY <1>1, <2>1, <3>1
    <3>3. \A q \in Ceremonies : CeremonyOk(ceremony'[q], auth', runtime.vm)
      BY <1>1, <2>4, <3>1, <3>2, OtherCeremony
    <3> QED BY <1>1, <1>2, <2>4, <3>1, <3>3, InvIs
  <2> QED BY <1>5, <2>3, <2>4
<1>6. CASE auth.revision = c.seen /\ auth' = Settled /\ ceremony' = Ended(r, "completed")
  <2>1. auth.state \in InTransition /\ runtime.vm = 0
    BY <1>1, <1>2, <1>6 DEF CeremonyOk
  <2>2. Settled \in RecordType /\ Settled.revision = auth.revision + 1 /\ RecordOk(Settled, runtime)
    BY <1>1, <1>2, <2>1, SettledOk
  <2> QED BY <1>5, <1>6, <2>2
<1> QED BY <1>3, <1>5, <1>6

\* replaceGrantEnvelope: the record a refresh writes is the one that was read.
LEMMA RefreshStep ==
  ASSUME AuthorizationInv, NEW life \in {"active", "degraded", "reauthorize"}, RefreshEnds(life)
  PROVE  AuthorizationInv'
<1> DEFINE n == auth.revision + 1
           s == runtime.snap
           m == IF life = "active" THEN n ELSE auth.material
           b == [auth EXCEPT !.revision = n, !.life = life, !.of = s.generation, !.material = m]
           fresh == [s EXCEPT !.revision = n, !.material = n]
           used == [runtime EXCEPT !.stage = "authorizing", !.vm = s.generation, !.snap = fresh]
<1>1. /\ TypeOK /\ auth \in RecordType /\ runtime \in RuntimeType
      /\ ceremony \in [Ceremonies -> CeremonyType] /\ broker \in {"open", "stopping", "down"}
      /\ RecordOk(auth, runtime) /\ \A q \in Ceremonies : CeremonyOk(ceremony[q], auth, runtime.vm)
      /\ auth.revision \in Nat /\ auth.generation \in Nat
  BY TypeFacts, RecordFacts DEF AuthorizationInv
<1>2. CanWrite /\ UNCHANGED <<ceremony, broker>>
  BY DEF RefreshEnds
<1>3. Free \in RuntimeType /\ Free.stage = "free" /\ Free.snap.generation = 0 /\ Free.vm = runtime.vm
  BY <1>1, FreeIs
<1>4. CASE ~(IsOpen /\ Stores(s))
  <2>1. UNCHANGED auth /\ runtime' = Free
    BY <1>4 DEF RefreshEnds
  <2>2. RecordOk(auth, runtime')
    BY <1>1, <1>3, <2>1, LessMaterial
  <2>3. runtime'.vm = runtime.vm /\ runtime' \in RuntimeType
    BY <1>3, <2>1
  <2> QED BY <1>1, <1>2, <2>1, <2>2, <2>3, InvIs
<1>5. CASE IsOpen /\ Stores(s)
  <2>1. auth.state = "connected" /\ auth.generation = s.generation
    BY <1>5 DEF Stores, Readable
  <2>2. auth' = b
    BY <1>5 DEF RefreshEnds
  <2>3. runtime' = Free \/ runtime' = used
    BY <1>5 DEF RefreshEnds
  <2>4. n \in Revisions /\ m \in Revisions /\ s.generation \in Revisions /\ s \in SnapshotType
    <3>1. auth.material \in Revisions
      BY <1>1 DEF RecordType
    <3>2. s \in SnapshotType /\ s.generation \in Revisions
      BY <1>1 DEF RuntimeType, SnapshotType
    <3> QED BY <1>1, <1>2, <3>1, <3>2, RevisionAssumption DEF CanWrite, Revisions
  <2>5. n = auth.revision + 1
    OBVIOUS
  <2> HIDE DEF n, m
  <2>6. /\ b \in RecordType /\ b.revision = n /\ b.state = "connected"
        /\ b.generation = auth.generation /\ b.of = s.generation
    <3> HIDE DEF s
    <3> QED BY <1>1, <2>1, <2>4 DEF RecordType
  <2>7. fresh \in SnapshotType /\ fresh.generation = s.generation
    <3> HIDE DEF s
    <3> QED BY <2>4 DEF SnapshotType
  <2>8. /\ used \in RuntimeType /\ used.stage = "authorizing" /\ used.vm = s.generation
        /\ used.snap.generation = s.generation
    <3> HIDE DEF s, fresh
    <3> QED BY <1>1, <2>4, <2>7 DEF RuntimeType
  <2> HIDE DEF b, used, s, fresh
  <2>9. runtime' \in RuntimeType /\ RecordOk(auth', runtime')
    <3>1. runtime' \in RuntimeType /\ runtime'.stage # "refreshing"
          /\ runtime'.vm \in {runtime.vm, s.generation} /\ runtime'.snap.generation <= auth.generation
      BY <1>1, <1>3, <2>1, <2>3, <2>8
    <3>2. /\ b.generation <= b.revision /\ b.of = b.generation /\ b.state = "connected"
          /\ b.generation = auth.generation
      BY <1>1, <2>1, <2>5, <2>6 DEF RecordOk
    <3>3. runtime'.vm \in {0, auth.generation}
      BY <1>1, <2>1, <3>1 DEF RecordOk
    <3> QED BY <2>2, <3>1, <3>2, <3>3 DEF RecordOk, InTransition
  <2>10. \A q \in Ceremonies : CeremonyOk(ceremony[q], auth', runtime'.vm)
    BY <1>1, <2>2, <2>5, <2>6, OtherCeremony
  <2> QED BY <1>1, <1>2, <2>2, <2>6, <2>9, <2>10, InvIs
<1> QED BY <1>4, <1>5

\* A crash ends every ceremony; the restart contains what the last process has left
\* and settles the transition it began.
LEMMA CrashRestartStep ==
  ASSUME AuthorizationInv, Crash \/ Restart
  PROVE  AuthorizationInv'
<1>1. /\ TypeOK /\ auth \in RecordType /\ runtime \in RuntimeType
      /\ ceremony \in [Ceremonies -> CeremonyType]
      /\ RecordOk(auth, runtime) /\ \A q \in Ceremonies : CeremonyOk(ceremony[q], auth, runtime.vm)
  BY TypeFacts DEF AuthorizationInv
<1>2. CASE Crash
  <2>1. /\ broker' = "down" /\ UNCHANGED auth /\ runtime' = [Free EXCEPT !.unsafe = FALSE]
        /\ ceremony' = [r \in Ceremonies |-> NoCeremony]
    BY <1>2 DEF Crash
  <2>2. Free \in RuntimeType /\ Free.stage = "free" /\ Free.snap.generation = 0 /\ Free.vm = runtime.vm
    BY <1>1, FreeIs
  <2>3. /\ runtime' \in RuntimeType /\ runtime'.stage = "free" /\ runtime'.snap.generation = 0
        /\ runtime'.vm = runtime.vm
    BY <2>1, <2>2 DEF RuntimeType
  <2>4. RecordOk(auth, runtime')
    BY <1>1, <2>3, LessMaterial
  <2>5. /\ ceremony' \in [Ceremonies -> CeremonyType]
        /\ \A r \in Ceremonies : CeremonyOk(ceremony'[r], auth, runtime'.vm)
    BY <1>1, <2>1, NoCeremonyOk
  <2> QED BY <1>1, <2>1, <2>3, <2>4, <2>5, InvIs
<1>3. CASE Restart
  <2>1. /\ CanWrite /\ broker' = "open" /\ runtime' = [runtime EXCEPT !.vm = 0]
        /\ auth' = (IF auth.state \in {"replacing", "disconnecting"} THEN Settled ELSE auth)
        /\ UNCHANGED ceremony
    BY <1>3 DEF Restart, Recovered
  <2>2. 0 \in Revisions
    BY RevisionAssumption DEF Revisions
  <2>3. /\ runtime' \in RuntimeType /\ runtime'.vm = 0 /\ runtime'.stage = runtime.stage
        /\ runtime'.snap = runtime.snap
    BY <1>1, <2>1, <2>2 DEF RuntimeType
  <2>4. RecordOk(auth, runtime')
    BY <1>1, <2>3, LessMaterial
  <2>5. CASE auth.state \in InTransition
    <3>1. auth' = Settled
      BY <2>1, <2>5 DEF InTransition
    <3>2. Settled \in RecordType /\ Settled.revision = auth.revision + 1 /\ RecordOk(Settled, runtime')
      BY <1>1, <2>1, <2>3, <2>4, <2>5, SettledOk
    <3>3. \A r \in Ceremonies : CeremonyOk(ceremony[r], auth', runtime'.vm)
      BY <1>1, <3>1, <3>2, OtherCeremony
    <3> QED BY <1>1, <2>1, <2>3, <3>1, <3>2, <3>3, InvIs
  <2>6. CASE auth.state \notin InTransition
    <3>1. auth' = auth
      BY <2>1, <2>6 DEF InTransition
    <3>2. \A r \in Ceremonies : CeremonyOk(ceremony[r], auth, runtime'.vm)
      BY <1>1, <2>3, OtherCeremony
    <3> QED BY <1>1, <2>1, <2>3, <2>4, <3>1, <3>2, InvIs
  <2> QED BY <2>5, <2>6
<1> QED BY <1>2, <1>3

-----------------------------------------------------------------------------
(* The theorems.                                                           *)

LEMMA AuthorizationStep == AuthorizationInv /\ [Next]_vars => AuthorizationInv'
<1> SUFFICES ASSUME AuthorizationInv, [Next]_vars PROVE AuthorizationInv'
  OBVIOUS
<1>1. CASE UNCHANGED vars
  BY <1>1 DEF vars, AuthorizationInv, TypeOK, RecordOk, CeremonyOk
<1>2. ASSUME NEW r \in Ceremonies,
             \/ \E kind \in {"enroll", "reauthorize", "disconnect"} : Begin(r, kind)
             \/ \E ok \in BOOLEAN : ExchangeEnds(r, ok)
             \/ Submit(r) \/ Callback(r) \/ Cancel(r) \/ Expire(r) \/ Reap(r) \/ Forget(r)
             \/ Confirm(r)
      PROVE  AuthorizationInv'
  BY <1>2, CeremonyStep
<1>3. ASSUME NEW r \in Ceremonies, (\E ok \in BOOLEAN : Contain(r, ok)) \/ Commit(r) \/ Settle(r)
      PROVE  AuthorizationInv'
  BY <1>3, ContainStep, CommitStep, SettleStep
<1>4. CASE (\E good \in BOOLEAN : Resolve(good) \/ Authorize(good)) \/ Retire
  BY <1>4, RuntimeStep
<1>5. CASE \E life \in {"active", "degraded", "reauthorize"} : RefreshEnds(life)
  BY <1>5, RefreshStep
<1>6. CASE CancelAll \/ StopAdmission
  BY <1>6, AllCeremoniesStep
<1>7. CASE Crash \/ Restart
  BY <1>7, CrashRestartStep
<1> QED BY <1>1, <1>2, <1>3, <1>4, <1>5, <1>6, <1>7 DEF Next

LEMMA AuthorizationStart == Init => AuthorizationInv
<1> SUFFICES ASSUME Init PROVE AuthorizationInv
  OBVIOUS
<1>1. 0 \in Revisions /\ 0 <= 0
  BY RevisionAssumption DEF Revisions
<1>2. auth \in RecordType
  BY <1>1 DEF Init, RecordType
<1>3. NoSnapshot \in SnapshotType /\ NoSnapshot.generation = 0
  BY <1>1 DEF NoSnapshot, SnapshotType
<1>4. runtime \in RuntimeType /\ runtime.vm = 0 /\ runtime.stage = "free" /\ runtime.snap.generation = 0
  BY <1>1, <1>3 DEF Init, RuntimeType
<1>5. /\ ceremony \in [Ceremonies -> CeremonyType]
      /\ \A r \in Ceremonies : CeremonyOk(ceremony[r], auth, runtime.vm)
  BY <1>2, NoCeremonyOk DEF Init
<1>6. broker \in {"open", "stopping", "down"}
  BY DEF Init
<1>7. RecordOk(auth, runtime)
  BY <1>1, <1>4 DEF Init, RecordOk, InTransition
<1> QED BY <1>2, <1>4, <1>5, <1>6, <1>7, TypeFacts DEF AuthorizationInv

\* The invariant that carries the theorems below.
THEOREM AuthorizationCorrect == Spec => []AuthorizationInv
BY AuthorizationStart, AuthorizationStep, PTL DEF Spec

\* Whatever ceremonies, refreshes, commands, crashes and restarts interleave: a settled
\* authorization has nothing running with an older credential of it, and what is stored
\* of it, or will be, came from the credential it names.
THEOREM ContainmentCorrect == Spec => []AuthorizationIsContained
<1>1. AuthorizationInv => AuthorizationIsContained
  BY DEF AuthorizationInv, RecordOk, AuthorizationIsContained, SettledMeansContained,
         RefreshIsOfTheRecord, Readable
<1> QED BY <1>1, AuthorizationCorrect, PTL

\* A ceremony that its owner or agent was told is cancelled has not changed the
\* authorization and never will.
THEOREM CancellationCorrect == Spec => []CancelledNeverCommits
<1>1. AuthorizationInv => CancelledNeverCommits
  BY DEF AuthorizationInv, CeremonyOk, CancelledNeverCommits
<1> QED BY <1>1, AuthorizationCorrect, PTL

-----------------------------------------------------------------------------
(* The client: its inductive invariant, as a predicate of a state of it.   *)

CommandStates ==
  [at : {"idle", "queued", "handed", "sent", "result", "error", "nothing"},
   via : Generations \cup {0}]

HeaderStates == {"none", "asked", "abandoned"}
ReadyStates == {"no", "resolved", "rejected"}
Windows == {"none", "open", "closed"}

ClientStates ==
  [cur : Generations \cup {0}, phase : {"none", "dialing", "hello", "accepted"},
   open : SUBSET Generations, hellos : SUBSET Generations,
   headers : HeaderStates, acquired : BOOLEAN, timer : BOOLEAN,
   attempts : 0 .. MaxAttempts, gap : BOOLEAN, late : BOOLEAN, had : BOOLEAN,
   closed : BOOLEAN, ready : ReadyStates,
   beats : -1 .. StableBeats, steady : BOOLEAN, window : Windows,
   fresh : BOOLEAN, reported : [Generations -> 0 .. 1], command : [Commands -> CommandStates]]

\* The attempt: one socket, its hello, and no gap reported of it yet.
AttemptIsSound(c) ==
  /\ c.open = {c.cur} \ {0}
  /\ c.cur = 0 <=> c.phase = "none"
  /\ c.cur \in c.hellos => c.phase = "hello"
  /\ c.headers = "asked" => c.cur = 0 /\ ~c.closed
  /\ c.cur # 0 => c.reported[c.cur] = 0

\* The episode: a gap unless an attachment is accepted, and the evidence of it.
EpisodeIsSound(c) ==
  /\ c.closed => c.cur = 0 /\ ~c.timer
  /\ c.timer => c.cur = 0 /\ c.headers # "asked"
  /\ ~c.closed /\ c.phase # "accepted" => c.gap
  /\ c.phase = "accepted" => c.had /\ (c.gap => c.window = "closed")
  /\ c.window = "open" => c.fresh
  /\ c.window = "open" <=> c.had /\ ~c.closed /\ c.phase # "accepted"

\* What a command k waits for is there.
Waits(c, k) ==
  /\ k.at \in {"handed", "sent"} => c.phase = "accepted" /\ k.via = c.cur
  /\ k.at = "queued" => ~c.closed /\ k.via \in {0, c.cur} /\ (k.via # 0 => c.phase = "accepted")

\* No command waits on an attachment that is gone.
CommandsAreSound(c) == \A m \in Commands : Waits(c, c.command[m])

Good(c) == c \in ClientStates /\ AttemptIsSound(c) /\ EpisodeIsSound(c) /\ CommandsAreSound(c)

\* It dials, or has something to.
Busy(c) == ~c.closed => c.cur # 0 \/ c.timer \/ c.headers = "asked"

ClientInv == Good(client) /\ Busy(client)

\* What most steps leave: the attempt, the commands and the accepted attachment.
SameAttempt(c, r) ==
  /\ r.cur = c.cur /\ r.phase = c.phase /\ r.open = c.open /\ r.hellos = c.hellos
  /\ r.headers = c.headers /\ r.reported = c.reported /\ r.command = c.command

LEMMA AttemptKept ==
  ASSUME NEW c, NEW r, SameAttempt(c, r), r.closed => c.closed
  PROVE  /\ AttemptIsSound(c) => AttemptIsSound(r)
         /\ CommandsAreSound(c) => CommandsAreSound(r)
<1>1. AttemptIsSound(c) => AttemptIsSound(r)
  BY DEF SameAttempt, AttemptIsSound
<1>2. CommandsAreSound(c) => CommandsAreSound(r)
  BY DEF SameAttempt, CommandsAreSound, Waits
<1> QED BY <1>1, <1>2

-----------------------------------------------------------------------------
(* The client's own steps.                                                 *)

WithWindow(c, w) == [c EXCEPT !.window = w]

LEMMA WindowSet ==
  ASSUME NEW c \in ClientStates, NEW w \in Windows, NEW r, r = WithWindow(c, w)
  PROVE  /\ r \in ClientStates /\ SameAttempt(c, r) /\ r.window = w /\ r.fresh = c.fresh
         /\ r.closed = c.closed /\ r.timer = c.timer /\ r.gap = c.gap /\ r.had = c.had
<1>1. r \in ClientStates
  BY ZenonT(60) DEF ClientStates, WithWindow
<1> QED BY <1>1 DEF ClientStates, WithWindow, SameAttempt

\* Evidence of an event during a gap changes nothing that is not already so.
LEMMA EvidenceKeeps ==
  ASSUME NEW c, Good(c), c.phase # "accepted", ~c.closed, NEW r, r = Client!Evidence(c, FALSE)
  PROVE  /\ Good(r) /\ SameAttempt(c, r)
         /\ r.closed = c.closed /\ r.timer = c.timer /\ r.gap = c.gap
<1>1. CASE r = c
  BY <1>1 DEF SameAttempt
<1>2. CASE r = WithWindow(c, "open") /\ c.had
  <2>1. c \in ClientStates
    BY DEF Good
  <2>2. /\ r \in ClientStates /\ SameAttempt(c, r) /\ r.window = "open" /\ r.fresh = c.fresh
        /\ r.closed = c.closed /\ r.timer = c.timer /\ r.gap = c.gap /\ r.had = c.had
    BY <1>2, <2>1, WindowSet DEF Windows
  <2>3. c.window = "open"
    BY <1>2 DEF Good, EpisodeIsSound
  <2>4. EpisodeIsSound(r)
    BY <2>2, <2>3 DEF Good, EpisodeIsSound, SameAttempt
  <2>5. AttemptIsSound(r) /\ CommandsAreSound(r)
    BY <2>2, AttemptKept DEF Good
  <2> QED BY <2>2, <2>4, <2>5 DEF Good
<1> QED BY <1>1, <1>2 DEF Client!Evidence, WithWindow

\* The commands after the end of the attachment g, and after the client is closed.
Rejected(c, g) ==
  [m \in Commands |->
     CASE c.command[m].at \in {"handed", "sent"} /\ c.command[m].via = g -> [at |-> "nothing", via |-> 0]
       [] c.command[m].at = "sent" /\ c.command[m].via # g -> [at |-> "error", via |-> 0]
       [] c.command[m].at = "queued" /\ c.command[m].via = g -> [at |-> "queued", via |-> 0]
       [] OTHER -> c.command[m]]

Withdrawn(c) ==
  [m \in Commands |->
     IF c.command[m].at = "queued" THEN [at |-> "nothing", via |-> 0] ELSE c.command[m]]

LEMMA DestroyedIs ==
  ASSUME NEW c \in ClientStates, CommandsAreSound(c), c.open = {c.cur} \ {0}, c.cur # 0,
         NEW r, r = Client!Destroyed(c, c.cur)
  PROVE  /\ r \in ClientStates /\ r.cur = 0 /\ r.phase = "none" /\ r.open = {}
         /\ r.hellos = c.hellos /\ r.headers = c.headers /\ r.reported = c.reported
         /\ r.closed = c.closed /\ r.timer = c.timer /\ r.gap = c.gap /\ r.had = c.had
         /\ r.window = c.window /\ r.fresh = c.fresh /\ r.attempts = c.attempts /\ r.late = c.late
         /\ CommandsAreSound(r)
<1> DEFINE cs == Rejected(c, c.cur)
           o == c.open \ {c.cur}
<1>1. r = [c EXCEPT !.cur = 0, !.phase = "none", !.open = o, !.command = cs]
  BY DEF Client!Destroyed, Rejected
<1>2. /\ cs \in [Commands -> CommandStates]
      /\ \A m \in Commands : /\ cs[m].at \notin {"handed", "sent"}
                             /\ cs[m].at = "queued" => ~c.closed /\ cs[m].via = 0
  <2>1. SUFFICES ASSUME NEW m \in Commands
                 PROVE  /\ cs[m] \in CommandStates /\ cs[m].at \notin {"handed", "sent"}
                        /\ cs[m].at = "queued" => ~c.closed /\ cs[m].via = 0
    <3>1. cs = [m \in Commands |-> cs[m]]
      BY DEF Rejected
    <3> HIDE DEF cs
    <3> QED BY <3>1
  <2>2. c.command[m] \in CommandStates
    BY DEF ClientStates
  <2>3. Waits(c, c.command[m])
    BY DEF CommandsAreSound
  <2>4. CASE c.command[m].at \in {"handed", "sent"}
    <3>1. cs[m] = [at |-> "nothing", via |-> 0]
      BY <2>3, <2>4 DEF Rejected, Waits
    <3> QED BY <3>1 DEF CommandStates
  <2>5. CASE c.command[m].at = "queued"
    <3>1. cs[m].at = "queued" /\ cs[m].via = 0 /\ cs[m] \in CommandStates
      <4>1. CASE c.command[m].via = c.cur
        <5>1. cs[m] = [at |-> "queued", via |-> 0]
          BY <2>5, <4>1 DEF Rejected
        <5> QED BY <5>1 DEF CommandStates
      <4>2. CASE c.command[m].via = 0
        <5>1. cs[m] = c.command[m]
          BY <2>5, <4>2 DEF Rejected
        <5> QED BY <2>2, <2>5, <4>2, <5>1
      <4> QED BY <2>3, <2>5, <4>1, <4>2 DEF Waits
    <3> QED BY <2>3, <2>5, <3>1 DEF Waits
  <2>6. CASE c.command[m].at \notin {"queued", "handed", "sent"}
    <3>1. cs[m] = c.command[m]
      BY <2>6 DEF Rejected
    <3> QED BY <2>2, <2>6, <3>1
  <2> QED BY <2>4, <2>5, <2>6
<1>3. o \in SUBSET Generations /\ o = {} /\ 0 \in Generations \cup {0}
  BY DEF ClientStates
<1> HIDE DEF cs, o
<1>4. r \in ClientStates
  BY <1>1, <1>2, <1>3, ZenonT(60) DEF ClientStates
<1>5. /\ r.cur = 0 /\ r.phase = "none" /\ r.open = o /\ r.command = cs
      /\ r.hellos = c.hellos /\ r.headers = c.headers /\ r.reported = c.reported
      /\ r.closed = c.closed /\ r.timer = c.timer /\ r.gap = c.gap /\ r.had = c.had
      /\ r.window = c.window /\ r.fresh = c.fresh /\ r.attempts = c.attempts /\ r.late = c.late
  BY <1>1 DEF ClientStates
<1>6. CommandsAreSound(r)
  BY <1>2, <1>5 DEF CommandsAreSound, Waits
<1> QED BY <1>3, <1>4, <1>5, <1>6

\* The process answers the commands that wait for their turn.
LEMMA UnregisteredIs ==
  ASSUME NEW c \in ClientStates, CommandsAreSound(c), NEW r, r = Client!Unregistered(c)
  PROVE  /\ r \in ClientStates /\ r.cur = c.cur /\ r.phase = c.phase /\ r.open = c.open
         /\ \A m \in Commands : r.command[m].at # "queued" /\ Waits(c, r.command[m])
<1> DEFINE cs == Withdrawn(c)
<1>1. r = [c EXCEPT !.command = cs]
  BY DEF Client!Unregistered, Withdrawn
<1>2. /\ cs \in [Commands -> CommandStates]
      /\ \A m \in Commands : cs[m].at # "queued" /\ Waits(c, cs[m])
  <2>1. SUFFICES ASSUME NEW m \in Commands
                 PROVE  cs[m] \in CommandStates /\ cs[m].at # "queued" /\ Waits(c, cs[m])
    <3>1. cs = [m \in Commands |-> cs[m]]
      BY DEF Withdrawn
    <3> HIDE DEF cs
    <3> QED BY <3>1
  <2>2. c.command[m] \in CommandStates /\ Waits(c, c.command[m])
    BY DEF ClientStates, CommandsAreSound
  <2>3. CASE c.command[m].at = "queued"
    <3>1. cs[m] = [at |-> "nothing", via |-> 0]
      BY <2>3 DEF Withdrawn
    <3> QED BY <3>1 DEF CommandStates, Waits
  <2>4. CASE c.command[m].at # "queued"
    <3>1. cs[m] = c.command[m]
      BY <2>4 DEF Withdrawn
    <3> QED BY <2>2, <2>4, <3>1
  <2> QED BY <2>3, <2>4
<1> HIDE DEF cs
<1>3. r \in ClientStates
  BY <1>1, <1>2, ZenonT(60) DEF ClientStates
<1>4. r.cur = c.cur /\ r.phase = c.phase /\ r.open = c.open /\ r.command = cs
  BY <1>1 DEF ClientStates
<1> QED BY <1>2, <1>3, <1>4

LEMMA ClosedIs ==
  ASSUME NEW c, Good(c), NEW r, r = Client!Closed(c)
  PROVE  Good(r) /\ r.closed
<1>0. c \in ClientStates
  BY DEF Good
<1>1. CASE c.closed
  BY <1>1 DEF Client!Closed
<1>2. CASE ~c.closed
  <2> DEFINE x == IF c.cur = 0 THEN c ELSE Client!Destroyed(c, c.cur)
             d == Client!Unregistered(x)
             h == IF d.headers = "asked" THEN "abandoned" ELSE d.headers
             y == IF d.ready = "no" THEN "rejected" ELSE d.ready
             w == IF d.window = "open" THEN "closed" ELSE d.window
  <2>0. /\ x \in ClientStates /\ x.cur = 0 /\ x.phase = "none" /\ x.open = {}
        /\ CommandsAreSound(x)
    <3>1. CASE c.cur = 0
      BY <1>0, <3>1 DEF Good, AttemptIsSound
    <3>2. CASE c.cur # 0
      <4>1. x = Client!Destroyed(c, c.cur)
        BY <3>2
      <4>2. c.open = {c.cur} \ {0} /\ CommandsAreSound(c)
        BY DEF Good, AttemptIsSound
      <4> HIDE DEF x
      <4> QED BY <1>0, <3>2, <4>1, <4>2, DestroyedIs
    <3> QED BY <3>1, <3>2
  <2>2. r = [d EXCEPT !.closed = TRUE, !.headers = h, !.ready = y, !.timer = FALSE, !.window = w]
    BY <1>2 DEF Client!Closed
  <2> HIDE DEF x
  <2>1. /\ d \in ClientStates /\ d.cur = 0 /\ d.phase = "none" /\ d.open = {}
        /\ \A m \in Commands : d.command[m].at \notin {"queued", "handed", "sent"}
    <3>1. /\ d \in ClientStates /\ d.cur = x.cur /\ d.phase = x.phase /\ d.open = x.open
          /\ \A m \in Commands : d.command[m].at # "queued" /\ Waits(x, d.command[m])
      BY <2>0, UnregisteredIs
    <3> HIDE DEF d
    <3> QED BY <2>0, <3>1 DEF Waits
  <2> HIDE DEF d
  <2>3. /\ h \in HeaderStates /\ h # "asked" /\ y \in ReadyStates
        /\ w \in Windows /\ w # "open"
    BY <2>1 DEF ClientStates, HeaderStates, ReadyStates, Windows
  <2> HIDE DEF h, y, w
  <2>4. r \in ClientStates
    BY <2>1, <2>2, <2>3, ZenonT(60) DEF ClientStates
  <2>5. /\ r.cur = 0 /\ r.phase = "none" /\ r.open = {} /\ r.closed = TRUE /\ r.headers = h
        /\ r.timer = FALSE /\ r.window = w /\ r.command = d.command /\ r.hellos \subseteq Generations
    BY <2>1, <2>2, <2>4 DEF ClientStates
  <2>6. AttemptIsSound(r)
    BY <2>3, <2>5, ClientAssumption DEF AttemptIsSound
  <2>7. EpisodeIsSound(r)
    BY <2>3, <2>5 DEF EpisodeIsSound
  <2>8. CommandsAreSound(r)
    BY <2>1, <2>5 DEF CommandsAreSound, Waits
  <2> QED BY <2>4, <2>5, <2>6, <2>7, <2>8 DEF Good
<1> QED BY <1>1, <1>2

WithTimer(c, on) == [c EXCEPT !.timer = on]

LEMMA TimerSet ==
  ASSUME NEW c, Good(c), NEW on \in BOOLEAN, NEW r, r = WithTimer(c, on),
         on => ~c.closed /\ c.cur = 0 /\ c.headers # "asked"
  PROVE  /\ Good(r) /\ SameAttempt(c, r) /\ r.timer = on /\ r.closed = c.closed /\ r.gap = c.gap
<1>0. c \in ClientStates
  BY DEF Good
<1>1. r \in ClientStates
  BY <1>0, ZenonT(60) DEF ClientStates, WithTimer
<1>2. /\ SameAttempt(c, r) /\ r.timer = on /\ r.closed = c.closed /\ r.gap = c.gap
      /\ r.had = c.had /\ r.window = c.window /\ r.fresh = c.fresh
  BY <1>0 DEF ClientStates, WithTimer, SameAttempt
<1>3. EpisodeIsSound(r)
  BY <1>2 DEF Good, EpisodeIsSound, SameAttempt
<1>4. AttemptIsSound(r) /\ CommandsAreSound(r)
  BY <1>2, AttemptKept DEF Good
<1> QED BY <1>1, <1>2, <1>3, <1>4 DEF Good

LEMMA ScheduledIs ==
  ASSUME NEW c, Good(c), c.headers # "asked", NEW r, r = Client!Scheduled(c)
  PROVE  /\ Good(r) /\ Busy(r)
         /\ ~r.closed => SameAttempt(c, r)
<1>1. CASE c.timer \/ c.cur # 0 \/ ~Client!HasBudget(c)
  <2>1. CASE Client!Exhausted(c)
    <3>1. r = Client!Closed(c)
      BY <1>1, <2>1 DEF Client!Scheduled
    <3> QED BY <3>1, ClosedIs DEF Busy
  <2>2. CASE ~Client!Exhausted(c)
    <3>1. r = c
      BY <1>1, <2>2 DEF Client!Scheduled
    <3>2. Busy(c)
      BY <1>1, <2>2 DEF Good, AttemptIsSound, EpisodeIsSound, Busy, Client!HasBudget
    <3> QED BY <3>1, <3>2 DEF SameAttempt
  <2> QED BY <2>1, <2>2
<1>2. CASE ~(c.timer \/ c.cur # 0 \/ ~Client!HasBudget(c))
  <2> DEFINE d == WithTimer(c, TRUE)
  <2>1. ~c.closed /\ c.phase # "accepted" /\ c.cur = 0
    BY <1>2 DEF Client!HasBudget, Good, AttemptIsSound
  <2>2. /\ Good(d) /\ SameAttempt(c, d) /\ d.timer = TRUE /\ d.closed = c.closed
    BY <2>1, TimerSet
  <2>3. r = Client!Evidence(d, FALSE)
    BY <1>2 DEF Client!Scheduled, WithTimer
  <2> HIDE DEF d
  <2>4. d.phase # "accepted" /\ ~d.closed
    BY <2>1, <2>2 DEF SameAttempt
  <2>5. Good(r) /\ SameAttempt(d, r) /\ r.closed = d.closed /\ r.timer = d.timer
    BY <2>2, <2>3, <2>4, EvidenceKeeps
  <2>6. SameAttempt(c, r)
    BY <2>2, <2>5 DEF SameAttempt
  <2> QED BY <2>2, <2>5, <2>6 DEF Busy
<1> QED BY <1>1, <1>2

\* The loss of the current attempt: the client dials again or is closed, and the loss
\* of an attachment that was accepted is reported.
LEMMA FencedIs ==
  ASSUME NEW c, Good(c), ~c.closed, c.cur # 0, NEW r, r = Client!Fenced(c, c.cur)
  PROVE  /\ Good(r) /\ Busy(r)
         /\ c.phase = "accepted" /\ ~r.closed => r.reported[c.cur] = c.reported[c.cur] + 1
<1>0. /\ c \in ClientStates /\ c.cur \in Generations /\ c.reported \in [Generations -> 0 .. 1]
      /\ CommandsAreSound(c) /\ c.open = {c.cur} \ {0}
  BY DEF Good, ClientStates, AttemptIsSound
<1> DEFINE was == c.phase = "accepted"
           x == Client!Destroyed(c, c.cur)
           n == IF was THEN c.reported[c.cur] + 1 ELSE c.reported[c.cur]
           rep == [c.reported EXCEPT ![c.cur] = n]
           d == [x EXCEPT !.beats = -1, !.gap = TRUE, !.reported = rep]
           e == IF was /\ (c.window = "closed" \/ ~c.gap) THEN Client!Opened(d) ELSE d
<1>1. /\ x \in ClientStates /\ x.cur = 0 /\ x.phase = "none" /\ x.open = {}
      /\ x.hellos = c.hellos /\ x.headers = c.headers /\ x.reported = c.reported
      /\ x.closed = c.closed /\ x.timer = c.timer /\ x.gap = c.gap /\ x.had = c.had
      /\ x.window = c.window /\ x.fresh = c.fresh /\ CommandsAreSound(x)
  BY <1>0, DestroyedIs
<1>2. r = Client!Scheduled(e)
  <2>1. [x EXCEPT !.beats = -1, !.gap = TRUE,
                  !.reported[c.cur] = IF was THEN @ + 1 ELSE @] = d
    <3> HIDE DEF x
    <3> QED BY <1>1
  <2> HIDE DEF d
  <2>2. r = Client!Scheduled(IF was /\ (c.window = "closed" \/ ~c.gap)
                      THEN Client!Opened([x EXCEPT !.beats = -1, !.gap = TRUE,
                                            !.reported[c.cur] = IF was THEN @ + 1 ELSE @])
                      ELSE [x EXCEPT !.beats = -1, !.gap = TRUE,
                                     !.reported[c.cur] = IF was THEN @ + 1 ELSE @])
    BY DEF Client!Fenced
  <2> HIDE DEF x, was
  <2> QED BY <2>1, <2>2
<1> HIDE DEF x
<1>3. c.reported[c.cur] = 0 /\ n \in 0 .. 1 /\ rep \in [Generations -> 0 .. 1]
      /\ rep[c.cur] = n /\ (was => n = 1)
  <2>1. c.reported[c.cur] = 0
    BY DEF Good, AttemptIsSound
  <2>2. n \in 0 .. 1 /\ (was => n = 1)
    BY <2>1
  <2> HIDE DEF n
  <2> QED BY <1>0, <2>1, <2>2
<1> HIDE DEF n, rep
<1>4. -1 \in -1 .. StableBeats
  BY ClientAssumption
<1>5. d \in ClientStates
  BY <1>1, <1>3, <1>4, ZenonT(60) DEF ClientStates
<1>6. /\ d.cur = 0 /\ d.phase = "none" /\ d.open = {} /\ d.reported = rep /\ d.gap = TRUE
      /\ d.hellos = c.hellos /\ d.headers = c.headers /\ d.closed = c.closed /\ d.timer = c.timer
      /\ d.had = c.had /\ d.window = c.window /\ d.fresh = c.fresh /\ d.command = x.command
  BY <1>1, <1>5 DEF ClientStates
<1> HIDE DEF d
<1>7. /\ e \in ClientStates /\ SameAttempt(d, e) /\ e.gap = TRUE /\ e.closed = d.closed
      /\ e.timer = d.timer /\ e.had = d.had
      /\ e.window = (IF was /\ (c.window = "closed" \/ ~c.gap) THEN "open" ELSE d.window)
      /\ e.window = "open" /\ ~e.fresh => c.window = "open" /\ ~c.fresh
  <2>1. CASE was /\ (c.window = "closed" \/ ~c.gap)
    <3>1. e = [d EXCEPT !.window = "open", !.fresh = TRUE]
      BY <2>1 DEF Client!Opened
    <3> HIDE DEF e, was
    <3>2. e \in ClientStates
      <4>1. "open" \in Windows
        BY DEF Windows
      <4> QED BY <1>5, <3>1, <4>1, ZenonT(60) DEF ClientStates
    <3>3. /\ SameAttempt(d, e) /\ e.gap = d.gap /\ e.closed = d.closed
          /\ e.timer = d.timer /\ e.had = d.had /\ e.window = "open" /\ e.fresh = TRUE
      BY <1>5, <3>1 DEF ClientStates, SameAttempt
    <3>4. e.fresh
      BY <3>3
    <3>5. e.window = (IF was /\ (c.window = "closed" \/ ~c.gap) THEN "open" ELSE d.window)
      BY <2>1, <3>3
    <3>6. e.gap = TRUE
      BY <1>6, <3>3
    <3> HIDE DEF d
    <3> QED BY <3>2, <3>3, <3>4, <3>5, <3>6
  <2>2. CASE ~(was /\ (c.window = "closed" \/ ~c.gap))
    <3>1. e = d
      BY <2>2
    <3> HIDE DEF e, was
    <3> QED BY <1>5, <1>6, <2>2, <3>1 DEF SameAttempt
  <2> QED BY <2>1, <2>2
<1> HIDE DEF e
<1>8. AttemptIsSound(e)
  <2>1. e.cur = 0 /\ e.phase = "none" /\ e.open = {} /\ e.headers = c.headers /\ e.hellos = c.hellos
    BY <1>6, <1>7 DEF SameAttempt
  <2>2. 0 \notin c.hellos /\ c.headers # "asked"
    BY <1>0, ClientAssumption DEF ClientStates, Good, AttemptIsSound
  <2> QED BY <2>1, <2>2 DEF AttemptIsSound
<1>9. CommandsAreSound(e)
  <2>1. e.command = x.command /\ e.phase = x.phase /\ e.cur = x.cur /\ e.closed = x.closed
    BY <1>1, <1>6, <1>7 DEF SameAttempt
  <2> QED BY <1>1, <2>1 DEF CommandsAreSound, Waits
<1>10. EpisodeIsSound(e)
  <2>1. e.phase = "none" /\ e.cur = 0 /\ ~e.closed /\ e.had = c.had
    BY <1>6, <1>7 DEF SameAttempt
  <2>4. ~e.timer
    BY <1>6, <1>7 DEF Good, EpisodeIsSound
  <2>2. e.window = "open" <=> c.had
    <3>1. CASE was
      BY <1>6, <1>7, <3>1 DEF Good, EpisodeIsSound
    <3>2. CASE ~was
      BY <1>6, <1>7, <3>2 DEF Good, EpisodeIsSound
    <3> QED BY <3>1, <3>2
  <2>3. e.window = "open" => e.fresh
    BY <1>7 DEF Good, EpisodeIsSound
  <2> QED BY <1>7, <2>1, <2>2, <2>3, <2>4 DEF EpisodeIsSound
<1>11. Good(e)
  BY <1>7, <1>8, <1>9, <1>10 DEF Good
<1>12. Good(r) /\ Busy(r) /\ (~r.closed => SameAttempt(e, r))
  <2>1. e.headers # "asked"
    BY <1>6, <1>7 DEF SameAttempt, Good, AttemptIsSound
  <2> QED BY <1>2, <1>11, <2>1, ScheduledIs
<1>13. ~r.closed => r.reported = rep
  BY <1>6, <1>7, <1>12 DEF SameAttempt
<1> QED BY <1>3, <1>12, <1>13

-----------------------------------------------------------------------------
(* The steps of the client.                                                *)

\* The loss of an accepted attachment is reported, unless the client is closed.
LossReported(c, r) ==
  c.phase = "accepted" /\ r.phase # "accepted" /\ ~r.closed
    => r.reported[c.cur] = c.reported[c.cur] + 1

Keeps(r) == Good(r) /\ Busy(r) /\ LossReported(client, r)

LEMMA ClientHas ==
  ASSUME ClientInv
  PROVE  /\ client \in ClientStates /\ Good(client) /\ Busy(client)
         /\ AttemptIsSound(client) /\ EpisodeIsSound(client) /\ CommandsAreSound(client)
BY DEF ClientInv, Good

\* Edits that leave the attempt, the commands and the episode.
SameEpisode(c, r) ==
  /\ r.closed = c.closed /\ r.timer = c.timer /\ r.gap = c.gap /\ r.had = c.had
  /\ r.window = c.window /\ r.fresh = c.fresh

LEMMA EpisodeKept ==
  ASSUME NEW c, NEW r, r.cur = c.cur, r.phase = c.phase, r.headers = c.headers,
         SameEpisode(c, r), EpisodeIsSound(c)
  PROVE  EpisodeIsSound(r)
BY DEF SameEpisode, EpisodeIsSound

LEMMA Unaffected ==
  ASSUME NEW c, Good(c), NEW r \in ClientStates, SameAttempt(c, r), SameEpisode(c, r)
  PROVE  Good(r) /\ (Busy(c) => Busy(r)) /\ LossReported(c, r)
<1>1. AttemptIsSound(r) /\ CommandsAreSound(r)
  BY AttemptKept DEF SameEpisode, Good
<1>2. EpisodeIsSound(r)
  BY EpisodeKept DEF SameAttempt, Good
<1>3. Busy(c) => Busy(r)
  BY DEF Busy, SameAttempt, SameEpisode
<1> QED BY <1>1, <1>2, <1>3 DEF Good, LossReported, SameAttempt

LEMMA TimerFiresKeeps ==
  ASSUME ClientInv, Client!TimerFires
  PROVE  Keeps(client')
<1> DEFINE c == WithTimer(client, FALSE)
           d == [c EXCEPT !.gap = TRUE]
<1>0. client.timer /\ client' = Client!Started(c)
  BY DEF Client!TimerFires, WithTimer
<1>1. ~client.closed /\ client.cur = 0 /\ client.phase = "none" /\ client.headers # "asked"
  BY <1>0, ClientHas DEF AttemptIsSound, EpisodeIsSound
<1>2. Good(c) /\ SameAttempt(client, c) /\ c.closed = client.closed /\ c.timer = FALSE
  BY ClientHas, TimerSet
<1> HIDE DEF c
<1>3. c \in ClientStates
  BY <1>2 DEF Good
<1>4. d \in ClientStates
  BY <1>3, ZenonT(60) DEF ClientStates
<1>5. /\ SameAttempt(c, d) /\ d.closed = c.closed /\ d.gap = TRUE /\ d.timer = c.timer
      /\ d.had = c.had /\ d.window = c.window /\ d.fresh = c.fresh /\ d.attempts = c.attempts
  BY <1>3, <1>4 DEF ClientStates, SameAttempt
<1>6. d.phase = "none" /\ d.cur = 0 /\ d.headers # "asked" /\ ~d.closed /\ ~d.timer
  BY <1>1, <1>2, <1>5 DEF SameAttempt
<1>7. Good(d)
  <2>1. AttemptIsSound(d) /\ CommandsAreSound(d)
    BY <1>2, <1>5, AttemptKept DEF Good
  <2>2. EpisodeIsSound(c) /\ c.phase = "none"
    BY <1>2, <1>5, <1>6 DEF Good, SameAttempt
  <2>3. EpisodeIsSound(d)
    BY <1>5, <1>6, <2>2 DEF EpisodeIsSound, SameAttempt
  <2> QED BY <1>4, <2>1, <2>3 DEF Good
<1>8. CASE ~Client!HasBudget(d)
  <2>1. client' = Client!Scheduled(d)
    BY <1>0, <1>8 DEF Client!Started
  <2> HIDE DEF d
  <2> QED BY <1>1, <1>6, <1>7, <2>1, ScheduledIs DEF Keeps, LossReported
<1>9. CASE Client!HasBudget(d)
  <2> DEFINE n == IF d.attempts < MaxAttempts THEN d.attempts + 1 ELSE d.attempts
             e == [d EXCEPT !.headers = "asked", !.attempts = n]
  <2>1. client' = Client!Evidence(e, FALSE)
    BY <1>0, <1>6, <1>9 DEF Client!Started
  <2> HIDE DEF d
  <2>2. n \in 0 .. MaxAttempts /\ "asked" \in HeaderStates
    BY <1>4, ClientAssumption DEF ClientStates, HeaderStates
  <2> HIDE DEF n
  <2>3. e \in ClientStates
    BY <1>4, <2>2, ZenonT(60) DEF ClientStates
  <2>4. /\ SameEpisode(d, e) /\ e.headers = "asked" /\ e.cur = d.cur /\ e.phase = d.phase
        /\ e.open = d.open /\ e.hellos = d.hellos /\ e.reported = d.reported /\ e.command = d.command
    BY <1>4, <2>3 DEF ClientStates, SameEpisode
  <2> HIDE DEF e
  <2>5. ~e.timer /\ ~e.closed /\ e.phase = "none" /\ e.cur = 0
    BY <1>6, <2>4 DEF SameEpisode
  <2>6. AttemptIsSound(e)
    BY <1>7, <2>4, <2>5 DEF Good, AttemptIsSound
  <2>7. CommandsAreSound(e)
    BY <1>7, <2>4 DEF Good, CommandsAreSound, Waits, SameEpisode
  <2>8. EpisodeIsSound(e)
    BY <1>7, <2>4, <2>5 DEF Good, EpisodeIsSound, SameEpisode
  <2>9. Good(e)
    BY <2>3, <2>6, <2>7, <2>8 DEF Good
  <2>10. Good(client') /\ SameAttempt(e, client')
    BY <2>1, <2>5, <2>9, EvidenceKeeps
  <2>11. Busy(client')
    BY <2>4, <2>10 DEF Busy, SameAttempt
  <2> QED BY <1>1, <2>10, <2>11 DEF Keeps, LossReported
<1> QED BY <1>8, <1>9

LEMMA HeadersArriveKeeps ==
  ASSUME ClientInv, NEW g \in Generations, Client!HeadersArrive(g)
  PROVE  Keeps(client')
<1> DEFINE o == client.open \cup {g}
           rep == [client.reported EXCEPT ![g] = 0]
<1>0. /\ client.headers = "asked" /\ ~client.closed /\ client.cur = 0
      /\ g \notin client.hellos /\ g # 0
  BY ClientAssumption DEF Client!HeadersArrive, Client!StillWanted
<1>1. client' = [client EXCEPT !.headers = "none", !.acquired = TRUE, !.cur = g, !.phase = "dialing",
                               !.open = o, !.reported = rep]
  BY DEF Client!HeadersArrive, Client!Dialled
<1>2. /\ client \in ClientStates /\ client.phase = "none" /\ client.open = {} /\ ~client.timer
      /\ EpisodeIsSound(client) /\ CommandsAreSound(client)
  BY <1>0, ClientHas DEF AttemptIsSound, EpisodeIsSound
<1>3. /\ o \in SUBSET Generations /\ o = {g} /\ rep \in [Generations -> 0 .. 1] /\ rep[g] = 0
      /\ g \in Generations \cup {0} /\ "none" \in HeaderStates
  BY <1>2 DEF ClientStates, HeaderStates
<1> HIDE DEF o, rep
<1>4. client' \in ClientStates
  BY <1>1, <1>2, <1>3, ZenonT(60) DEF ClientStates
<1>5. /\ SameEpisode(client, client') /\ client'.headers = "none" /\ client'.cur = g
      /\ client'.phase = "dialing" /\ client'.open = o /\ client'.reported = rep
      /\ client'.hellos = client.hellos /\ client'.command = client.command
  BY <1>1, <1>2, <1>4 DEF ClientStates, SameEpisode
<1>6. AttemptIsSound(client')
  BY <1>0, <1>3, <1>5 DEF AttemptIsSound
<1>7. EpisodeIsSound(client')
  BY <1>0, <1>2, <1>5 DEF EpisodeIsSound, SameEpisode
<1>8. CommandsAreSound(client')
  BY <1>0, <1>2, <1>5 DEF CommandsAreSound, Waits, SameEpisode
<1>9. Busy(client')
  BY <1>0, <1>5 DEF Busy
<1> QED BY <1>2, <1>4, <1>6, <1>7, <1>8, <1>9 DEF Keeps, Good, LossReported

WithHeaders(c, h, y) == [c EXCEPT !.headers = h, !.ready = y]

LEMMA HeadersSet ==
  ASSUME NEW c, Good(c), NEW h \in {"none", "abandoned"}, NEW y \in ReadyStates,
         NEW r, r = WithHeaders(c, h, y)
  PROVE  Good(r) /\ SameEpisode(c, r) /\ r.headers = h /\ r.cur = c.cur /\ r.phase = c.phase
<1>1. c \in ClientStates /\ h \in HeaderStates /\ h # "asked"
  BY DEF Good, HeaderStates
<1>2. r \in ClientStates
  BY <1>1, ZenonT(60) DEF ClientStates, WithHeaders
<1>3. /\ SameEpisode(c, r) /\ r.headers = h /\ r.cur = c.cur /\ r.phase = c.phase
      /\ r.open = c.open /\ r.hellos = c.hellos /\ r.reported = c.reported /\ r.command = c.command
  BY <1>1, <1>2 DEF ClientStates, SameEpisode, WithHeaders
<1>4. AttemptIsSound(r) /\ CommandsAreSound(r)
  BY <1>1, <1>3 DEF Good, AttemptIsSound, CommandsAreSound, Waits, SameEpisode
<1>5. EpisodeIsSound(r)
  BY <1>1, <1>3 DEF Good, EpisodeIsSound, SameEpisode
<1> QED BY <1>2, <1>3, <1>4, <1>5 DEF Good

LEMMA HeadersGoneKeeps ==
  ASSUME ClientInv, Client!HeadersAbandoned \/ Client!HeadersUnavailable \/ Client!HeadersFail
  PROVE  Keeps(client')
<1>0. /\ client \in ClientStates /\ Good(client) /\ Busy(client) /\ client.ready \in ReadyStates
      /\ "none" \in {"none", "abandoned"} /\ "rejected" \in ReadyStates
  BY ClientHas DEF ClientStates, ReadyStates
<1> DEFINE d == WithHeaders(client, "none", client.ready)
           x == WithHeaders(client, "none", "rejected")
<1>1. /\ Good(d) /\ SameEpisode(client, d) /\ d.headers = "none" /\ d.cur = client.cur
      /\ d.phase = client.phase
  BY <1>0, HeadersSet
<1>2. [client EXCEPT !.headers = "none"] = d
  BY <1>0 DEF WithHeaders, ClientStates
<1>3. client.headers = "asked" => ~client.closed /\ client.cur = 0 /\ client.phase = "none"
  BY ClientHas DEF AttemptIsSound
<1>4. CASE Client!HeadersAbandoned
  <2>1. client' = d /\ client.headers # "asked"
    BY <1>2, <1>3, <1>4 DEF Client!HeadersAbandoned, Client!StillWanted
  <2> HIDE DEF d
  <2>2. Busy(d)
    BY <1>0, <1>1, <2>1 DEF Busy, SameEpisode
  <2> QED BY <1>1, <2>1, <2>2 DEF Keeps, LossReported
<1>5. CASE Client!HeadersUnavailable
  <2> DEFINE e == Client!Evidence(d, FALSE)
  <2>1. client' = Client!Scheduled(e) /\ client.headers = "asked"
    BY <1>2, <1>5 DEF Client!HeadersUnavailable, Client!Retried
  <2> HIDE DEF d
  <2>2. Good(e) /\ SameAttempt(d, e)
    <3>1. d.phase # "accepted" /\ ~d.closed
      BY <1>1, <1>3, <2>1 DEF SameEpisode
    <3> QED BY <1>1, <3>1, EvidenceKeeps
  <2> HIDE DEF e
  <2>3. e.headers # "asked"
    BY <1>1, <2>2 DEF SameAttempt
  <2> QED BY <1>3, <2>1, <2>2, <2>3, ScheduledIs DEF Keeps, LossReported
<1>6. CASE Client!HeadersFail
  <2>1. client' = Client!Closed(x)
    BY <1>6 DEF Client!HeadersFail, WithHeaders
  <2>2. Good(x)
    BY <1>0, HeadersSet
  <2> HIDE DEF x
  <2>3. Good(client') /\ client'.closed
    BY <2>1, <2>2, ClosedIs
  <2> QED BY <2>3 DEF Keeps, LossReported, Busy
<1> QED BY <1>4, <1>5, <1>6

WithHello(c, phase, hs) == [c EXCEPT !.phase = phase, !.hellos = hs]

LEMMA HelloSet ==
  ASSUME NEW c \in ClientStates, NEW phase \in {"none", "dialing", "hello", "accepted"},
         NEW hs \in SUBSET Generations, NEW r, r = WithHello(c, phase, hs)
  PROVE  /\ r \in ClientStates /\ SameEpisode(c, r) /\ r.phase = phase /\ r.hellos = hs
         /\ r.cur = c.cur /\ r.open = c.open /\ r.headers = c.headers /\ r.reported = c.reported
         /\ r.command = c.command
<1>1. r \in ClientStates
  BY ZenonT(60) DEF ClientStates, WithHello
<1> QED BY <1>1 DEF ClientStates, WithHello, SameEpisode

LEMMA ConnectKeeps ==
  ASSUME ClientInv, Client!ConnectFails \/ Client!Connects
  PROVE  Keeps(client')
<1>0. /\ client \in ClientStates /\ Good(client) /\ AttemptIsSound(client)
      /\ EpisodeIsSound(client) /\ CommandsAreSound(client)
  BY ClientHas
<1>1. client.phase = "dialing" /\ client.cur # 0 /\ ~client.closed /\ client.cur \in Generations
  BY <1>0 DEF Client!ConnectFails, Client!Connects, AttemptIsSound, EpisodeIsSound, ClientStates
<1>2. CASE Client!ConnectFails
  <2> DEFINE e == Client!Evidence(client, FALSE)
  <2>1. Good(e) /\ SameAttempt(client, e) /\ e.closed = client.closed
    BY <1>0, <1>1, EvidenceKeeps
  <2>2. client' = Client!Fenced(e, client.cur)
    BY <1>2 DEF Client!ConnectFails
  <2> HIDE DEF e
  <2>3. client' = Client!Fenced(e, e.cur) /\ e.cur # 0 /\ ~e.closed
    BY <1>1, <2>1, <2>2 DEF SameAttempt
  <2> QED BY <1>1, <2>1, <2>3, FencedIs DEF Keeps, LossReported
<1>3. CASE Client!Connects
  <2> DEFINE hs == client.hellos \cup {client.cur}
  <2>1. client' = WithHello(client, "hello", hs)
    BY <1>3 DEF Client!Connects, WithHello
  <2>2. hs \in SUBSET Generations
    BY <1>0, <1>1 DEF ClientStates
  <2> HIDE DEF hs
  <2>3. /\ client' \in ClientStates /\ SameEpisode(client, client') /\ client'.phase = "hello"
        /\ client'.hellos = hs /\ client'.cur = client.cur /\ client'.open = client.open
        /\ client'.headers = client.headers /\ client'.reported = client.reported
        /\ client'.command = client.command
    BY <1>0, <2>1, <2>2, HelloSet
  <2>4. AttemptIsSound(client')
    BY <1>0, <1>1, <2>3 DEF AttemptIsSound, SameEpisode
  <2>5. EpisodeIsSound(client')
    BY <1>0, <1>1, <2>3 DEF EpisodeIsSound, SameEpisode
  <2>6. CommandsAreSound(client')
    BY <1>0, <1>1, <2>3 DEF CommandsAreSound, Waits, SameEpisode
  <2> QED BY <1>1, <2>3, <2>4, <2>5, <2>6 DEF Keeps, Good, Busy, LossReported
<1> QED BY <1>2, <1>3

LEMMA HelloWithdrawn ==
  ASSUME NEW c, Good(c), NEW g \in Generations, NEW r, r = WithHello(c, c.phase, c.hellos \ {g})
  PROVE  Good(r) /\ SameEpisode(c, r) /\ r.cur = c.cur /\ r.phase = c.phase
         /\ r.headers = c.headers /\ r.reported = c.reported
<1>0. c \in ClientStates /\ c.phase \in {"none", "dialing", "hello", "accepted"}
      /\ c.hellos \ {g} \in SUBSET Generations
  BY DEF Good, ClientStates
<1>1. /\ r \in ClientStates /\ SameEpisode(c, r) /\ r.phase = c.phase /\ r.hellos = c.hellos \ {g}
      /\ r.cur = c.cur /\ r.open = c.open /\ r.headers = c.headers /\ r.reported = c.reported
      /\ r.command = c.command
  <2> DEFINE hs == c.hellos \ {g}
  <2>1. hs \in SUBSET Generations /\ r = WithHello(c, c.phase, hs)
    BY <1>0
  <2> HIDE DEF hs
  <2>2. /\ r \in ClientStates /\ SameEpisode(c, r) /\ r.phase = c.phase /\ r.hellos = hs
        /\ r.cur = c.cur /\ r.open = c.open /\ r.headers = c.headers /\ r.reported = c.reported
        /\ r.command = c.command
    BY <1>0, <2>1, HelloSet
  <2> QED BY <2>2 DEF hs
<1>2. AttemptIsSound(r)
  BY <1>1 DEF Good, AttemptIsSound, SameEpisode
<1>3. EpisodeIsSound(r)
  BY <1>1, EpisodeKept DEF Good
<1>4. CommandsAreSound(r)
  BY <1>1 DEF Good, CommandsAreSound, Waits, SameEpisode
<1> QED BY <1>1, <1>2, <1>3, <1>4 DEF Good

LEMMA HelloEndsKeeps ==
  ASSUME ClientInv, NEW g \in Generations, Client!HelloRefused(g) \/ Client!HelloIgnored(g)
  PROVE  Keeps(client')
<1> DEFINE d == WithHello(client, client.phase, client.hellos \ {g})
<1>0. client \in ClientStates /\ Good(client) /\ Busy(client)
  BY ClientHas
<1>1. /\ Good(d) /\ SameEpisode(client, d) /\ d.cur = client.cur /\ d.phase = client.phase
      /\ d.headers = client.headers
  BY <1>0, HelloWithdrawn
<1>2. [client EXCEPT !.hellos = @ \ {g}] = d
  BY <1>0 DEF WithHello, ClientStates
<1> HIDE DEF d
<1>3. CASE Client!HelloRefused(g)
  <2> DEFINE e == Client!Evidence(d, FALSE)
  <2>1. client' = Client!Fenced(e, g) /\ g \in client.hellos /\ client.cur = g
    BY <1>2, <1>3 DEF Client!HelloRefused, Client!CurrentHello
  <2>2. client.phase = "hello" /\ ~client.closed /\ g # 0
    BY <2>1, ClientHas, ClientAssumption DEF AttemptIsSound, EpisodeIsSound
  <2>3. Good(e) /\ SameAttempt(d, e) /\ e.closed = d.closed
    <3>1. d.phase # "accepted" /\ ~d.closed
      BY <1>1, <2>2 DEF SameEpisode
    <3> QED BY <1>1, <3>1, EvidenceKeeps
  <2> HIDE DEF e
  <2>4. client' = Client!Fenced(e, e.cur) /\ e.cur # 0 /\ ~e.closed
    BY <1>1, <2>1, <2>2, <2>3 DEF SameAttempt, SameEpisode
  <2> QED BY <2>2, <2>3, <2>4, FencedIs DEF Keeps, LossReported
<1>4. CASE Client!HelloIgnored(g)
  <2>1. client' = d
    BY <1>2, <1>4 DEF Client!HelloIgnored
  <2>2. Busy(d)
    BY <1>0, <1>1 DEF Busy, SameEpisode
  <2> QED BY <1>1, <2>1, <2>2 DEF Keeps, LossReported
<1> QED BY <1>3, <1>4

LEMMA HelloAcceptedKeeps ==
  ASSUME ClientInv, NEW g \in Generations, Client!HelloAccepted(g)
  PROVE  Keeps(client')
<1> DEFINE hs == client.hellos \ {g}
           y == IF client.ready = "no" THEN "resolved" ELSE client.ready
           c == [client EXCEPT !.hellos = hs, !.phase = "accepted", !.fresh = FALSE, !.ready = y]
<1>0. /\ client \in ClientStates /\ Good(client) /\ AttemptIsSound(client)
      /\ EpisodeIsSound(client) /\ CommandsAreSound(client)
  BY ClientHas
<1>1. client.cur = g /\ g \in client.hellos /\ g # 0
  BY ClientAssumption DEF Client!HelloAccepted, Client!CurrentHello
<1>2. client.phase = "hello" /\ ~client.closed /\ client.gap
  BY <1>0, <1>1 DEF AttemptIsSound, EpisodeIsSound
<1>3. client' = IF c.had /\ c.gap THEN Client!Evidence([c EXCEPT !.beats = 0, !.steady = FALSE], TRUE)
                ELSE Client!Reset([c EXCEPT !.had = TRUE])
  BY DEF Client!HelloAccepted
<1>4. hs \in SUBSET Generations /\ g \notin hs /\ y \in ReadyStates
  BY <1>0 DEF ClientStates, ReadyStates
<1> HIDE DEF hs, y
<1>5. c \in ClientStates
  BY <1>0, <1>4, ZenonT(60) DEF ClientStates
<1>6. /\ c.cur = g /\ c.phase = "accepted" /\ c.hellos = hs /\ c.open = client.open
      /\ c.headers = client.headers /\ c.reported = client.reported /\ c.command = client.command
      /\ c.closed = client.closed /\ c.timer = client.timer /\ c.gap = client.gap
      /\ c.had = client.had /\ c.window = client.window /\ c.attempts = client.attempts
  BY <1>0, <1>1, <1>5 DEF ClientStates
<1> HIDE DEF c
<1>7. AttemptIsSound(c) /\ CommandsAreSound(c)
  <2>1. AttemptIsSound(c)
    BY <1>0, <1>1, <1>4, <1>6 DEF AttemptIsSound
  <2>2. CommandsAreSound(c)
    BY <1>0, <1>1, <1>6 DEF CommandsAreSound, Waits
  <2> QED BY <2>1, <2>2
<1>8. ~c.timer /\ ~c.closed /\ c.gap
  BY <1>0, <1>1, <1>2, <1>6 DEF EpisodeIsSound
<1>9. CASE c.had
  <2> DEFINE d == [c EXCEPT !.beats = 0, !.steady = FALSE]
  <2>1. 0 \in -1 .. StableBeats
    BY ClientAssumption
  <2>2. d \in ClientStates
    BY <1>5, <2>1, ZenonT(60) DEF ClientStates
  <2>3. SameAttempt(c, d) /\ SameEpisode(c, d)
    BY <1>5, <2>2 DEF ClientStates, SameAttempt, SameEpisode
  <2>4. client' = Client!Evidence(d, TRUE)
    BY <1>3, <1>8, <1>9
  <2> HIDE DEF d
  <2>5. d.had /\ d.window = "open"
    BY <1>0, <1>2, <1>6, <1>9, <2>3 DEF SameEpisode, EpisodeIsSound
  <2>6. client' = WithWindow(d, "closed")
    BY <2>4, <2>5 DEF Client!Evidence, WithWindow
  <2>7. /\ client' \in ClientStates /\ SameAttempt(d, client') /\ client'.window = "closed"
        /\ client'.closed = d.closed /\ client'.timer = d.timer /\ client'.had = d.had
    BY <2>2, <2>6, WindowSet DEF Windows
  <2>8. SameAttempt(c, client') /\ (client'.closed => c.closed)
    BY <2>3, <2>7 DEF SameAttempt, SameEpisode
  <2>9. AttemptIsSound(client') /\ CommandsAreSound(client')
    BY <1>7, <2>8, AttemptKept
  <2>10. client'.phase = "accepted" /\ client'.cur # 0 /\ ~client'.closed /\ ~client'.timer /\ client'.had
    BY <1>1, <1>6, <1>8, <2>3, <2>5, <2>7, <2>8 DEF SameAttempt, SameEpisode
  <2>11. EpisodeIsSound(client')
    BY <2>7, <2>10 DEF EpisodeIsSound
  <2> QED BY <2>7, <2>9, <2>10, <2>11 DEF Keeps, Good, Busy, LossReported
<1>10. CASE ~c.had
  <2> DEFINE d == [c EXCEPT !.had = TRUE]
             r == [d EXCEPT !.attempts = 0, !.gap = FALSE, !.beats = -1]
  <2>1. client' = r
    BY <1>3, <1>10 DEF Client!Reset
  <2>2. -1 \in -1 .. StableBeats /\ 0 \in 0 .. MaxAttempts
    BY ClientAssumption
  <2>3. d \in ClientStates
    BY <1>5, ZenonT(60) DEF ClientStates
  <2>4. SameAttempt(c, d) /\ d.had = TRUE /\ d.closed = c.closed /\ d.timer = c.timer /\ d.window = c.window
    BY <1>5, <2>3 DEF ClientStates, SameAttempt
  <2> HIDE DEF d
  <2>5. r \in ClientStates
    BY <2>2, <2>3, ZenonT(60) DEF ClientStates
  <2>6. SameAttempt(d, r) /\ r.had = d.had /\ r.closed = d.closed /\ r.timer = d.timer /\ r.gap = FALSE
        /\ r.window = d.window
    BY <2>3, <2>5 DEF ClientStates, SameAttempt
  <2> HIDE DEF r
  <2>7. SameAttempt(c, r) /\ (r.closed => c.closed)
    BY <2>4, <2>6 DEF SameAttempt
  <2>8. AttemptIsSound(r) /\ CommandsAreSound(r)
    BY <1>7, <2>7, AttemptKept
  <2>9. r.phase = "accepted" /\ r.cur # 0 /\ ~r.closed /\ ~r.timer /\ r.had /\ r.window # "open"
    BY <1>0, <1>1, <1>6, <1>8, <1>10, <2>4, <2>6, <2>7 DEF SameAttempt, EpisodeIsSound
  <2>10. EpisodeIsSound(r)
    BY <2>6, <2>9 DEF EpisodeIsSound
  <2> QED BY <2>1, <2>5, <2>8, <2>9, <2>10 DEF Keeps, Good, Busy, LossReported
<1> QED BY <1>9, <1>10

LEMMA AttachmentEndsKeeps ==
  ASSUME ClientInv, Client!AttachmentLost \/ Client!Close
  PROVE  Keeps(client')
<1>0. Good(client) /\ AttemptIsSound(client) /\ EpisodeIsSound(client)
  BY ClientHas
<1>1. CASE Client!AttachmentLost
  <2>1. client.cur # 0 /\ ~client.closed /\ client' = Client!Fenced(client, client.cur)
    BY <1>0, <1>1 DEF Client!AttachmentLost, AttemptIsSound, EpisodeIsSound
  <2> QED BY <1>0, <2>1, FencedIs DEF Keeps, LossReported
<1>2. CASE Client!Close
  <2>1. client' = Client!Closed(client)
    BY <1>2 DEF Client!Close
  <2>2. Good(client') /\ client'.closed
    BY <1>0, <2>1, ClosedIs
  <2> QED BY <2>2 DEF Keeps, LossReported, Busy
<1> QED BY <1>1, <1>2

LEMMA HeartbeatKeeps ==
  ASSUME ClientInv, Client!Heartbeat
  PROVE  Keeps(client')
<1> DEFINE n == IF client.beats < StableBeats THEN client.beats + 1 ELSE client.beats
           d == [client EXCEPT !.window = "none"]
           r == [d EXCEPT !.attempts = 0, !.gap = FALSE, !.beats = -1]
<1>0. /\ client \in ClientStates /\ Good(client) /\ Busy(client) /\ client.phase = "accepted"
      /\ AttemptIsSound(client) /\ EpisodeIsSound(client) /\ CommandsAreSound(client)
  BY ClientHas DEF Client!Heartbeat
<1>1. CASE client' = r
  <2>1. /\ -1 \in -1 .. StableBeats /\ 0 \in 0 .. MaxAttempts /\ "none" \in Windows
    BY ClientAssumption DEF Windows
  <2>2. d \in ClientStates
    BY <1>0, <2>1, ZenonT(60) DEF ClientStates
  <2>3. SameAttempt(client, d) /\ d.had = client.had /\ d.closed = client.closed
        /\ d.timer = client.timer /\ d.window = "none"
    BY <1>0, <2>2 DEF ClientStates, SameAttempt
  <2> HIDE DEF d
  <2>4. r \in ClientStates
    BY <2>1, <2>2, ZenonT(60) DEF ClientStates
  <2>5. SameAttempt(d, r) /\ r.had = d.had /\ r.closed = d.closed /\ r.timer = d.timer
        /\ r.gap = FALSE /\ r.window = d.window
    BY <2>2, <2>4 DEF ClientStates, SameAttempt
  <2> HIDE DEF r
  <2>6. SameAttempt(client, r) /\ r.had = client.had /\ r.closed = client.closed
        /\ r.timer = client.timer /\ r.gap = FALSE /\ r.window = "none"
    BY <2>3, <2>5 DEF SameAttempt
  <2>7. AttemptIsSound(r) /\ CommandsAreSound(r)
    BY <1>0, <2>6, AttemptKept
  <2>8. EpisodeIsSound(r)
    BY <1>0, <2>6 DEF EpisodeIsSound, SameAttempt
  <2>9. Busy(r)
    BY <1>0, <2>6 DEF Busy, SameAttempt
  <2> QED BY <1>0, <1>1, <2>4, <2>6, <2>7, <2>8, <2>9 DEF Keeps, Good, LossReported, SameAttempt
<1>2. CASE client' = [client EXCEPT !.beats = n]
  <2>1. n \in -1 .. StableBeats
    BY <1>0, ClientAssumption DEF ClientStates
  <2> HIDE DEF n
  <2>2. client' \in ClientStates
    BY <1>0, <1>2, <2>1, ZenonT(60) DEF ClientStates
  <2>3. SameAttempt(client, client') /\ SameEpisode(client, client')
    BY <1>0, <1>2, <2>2 DEF ClientStates, SameAttempt, SameEpisode
  <2> QED BY <1>0, <2>2, <2>3, Unaffected DEF Keeps
<1> QED BY <1>1, <1>2 DEF Client!Heartbeat, Client!Reset

LEMMA ElapseKeeps ==
  ASSUME ClientInv, Client!Elapse
  PROVE  Keeps(client')
<1>0. client \in ClientStates /\ Good(client) /\ Busy(client)
  BY ClientHas
<1>1. client' = [client EXCEPT !.late = TRUE] \/ client' = [client EXCEPT !.steady = TRUE]
  BY DEF Client!Elapse
<1>2. client' \in ClientStates
  <2>1. CASE client' = [client EXCEPT !.late = TRUE]
    BY <1>0, <2>1, ZenonT(60) DEF ClientStates
  <2>2. CASE client' = [client EXCEPT !.steady = TRUE]
    BY <1>0, <2>2, ZenonT(60) DEF ClientStates
  <2> QED BY <1>1, <2>1, <2>2
<1>3. SameAttempt(client, client') /\ SameEpisode(client, client')
  BY <1>0, <1>1, <1>2 DEF ClientStates, SameAttempt, SameEpisode
<1> QED BY <1>0, <1>2, <1>3, Unaffected DEF Keeps

WithCommand(c, m, v) == [c EXCEPT !.command[m] = v]

\* A command that waits on the accepted attachment, or on none.
LEMMA CommandSet ==
  ASSUME NEW c, Good(c), NEW m \in Commands, NEW v \in CommandStates,
         Waits(c, v),
         NEW r, r = WithCommand(c, m, v)
  PROVE  /\ Good(r) /\ SameEpisode(c, r) /\ r.cur = c.cur /\ r.phase = c.phase
         /\ r.headers = c.headers /\ r.reported = c.reported
<1> DEFINE cs == [c.command EXCEPT ![m] = v]
<1>0. c \in ClientStates /\ c.command \in [Commands -> CommandStates]
  BY DEF Good, ClientStates
<1>1. cs \in [Commands -> CommandStates] /\ r = [c EXCEPT !.command = cs]
  BY <1>0 DEF WithCommand
<1>2. cs[m] = v /\ \A x \in Commands : x # m => cs[x] = c.command[x]
  BY <1>0
<1> HIDE DEF cs
<1>3. r \in ClientStates
  BY <1>0, <1>1, ZenonT(60) DEF ClientStates
<1>4. /\ SameEpisode(c, r) /\ r.cur = c.cur /\ r.phase = c.phase /\ r.open = c.open
      /\ r.hellos = c.hellos /\ r.headers = c.headers /\ r.reported = c.reported /\ r.command = cs
  BY <1>0, <1>1, <1>3 DEF ClientStates, SameEpisode
<1>5. AttemptIsSound(r)
  BY <1>4 DEF Good, AttemptIsSound, SameEpisode
<1>6. EpisodeIsSound(r)
  BY <1>4, EpisodeKept DEF Good
<1>7. CommandsAreSound(r)
  BY <1>2, <1>4 DEF Good, CommandsAreSound, Waits, SameEpisode
<1> QED BY <1>3, <1>4, <1>5, <1>6, <1>7 DEF Good

LEMMA CommandKeeps ==
  ASSUME ClientInv, NEW m \in Commands,
         \/ Client!Emit(m) \/ Client!HandOn(m) \/ Client!Send(m) \/ Client!Answer(m) \/ Client!TimesOut(m) \/ Client!Forget(m)
  PROVE  Keeps(client')
<1>0. /\ client \in ClientStates /\ Good(client) /\ Busy(client) /\ client.command[m] \in CommandStates
      /\ AttemptIsSound(client) /\ EpisodeIsSound(client) /\ CommandsAreSound(client)
      /\ client.cur \in Generations \cup {0} /\ 0 \in Generations \cup {0}
  BY ClientHas DEF ClientStates
<1>1. ASSUME NEW v \in CommandStates, client' = WithCommand(client, m, v),
             Waits(client, v)
      PROVE  Keeps(client')
  <2>1. /\ Good(client') /\ SameEpisode(client, client') /\ client'.cur = client.cur
        /\ client'.phase = client.phase /\ client'.headers = client.headers
    BY <1>0, <1>1, CommandSet
  <2>2. Busy(client')
    BY <1>0, <2>1 DEF Busy, SameEpisode
  <2> QED BY <2>1, <2>2 DEF Keeps, LossReported
<1>2. CASE Client!Emit(m)
  <2> DEFINE v == [at |-> "queued", via |-> client.cur]
  <2>1. v \in CommandStates /\ client' = WithCommand(client, m, v) /\ client.phase = "accepted"
    BY <1>0, <1>2 DEF Client!Emit, WithCommand, CommandStates
  <2>2. Waits(client, v)
    BY <1>0, <2>1 DEF Waits, EpisodeIsSound, AttemptIsSound
  <2> QED BY <1>1, <2>1, <2>2
<1>7. CASE Client!HandOn(m)
  <2>1. Waits(client, client.command[m]) /\ client.command[m].at = "queued"
    BY <1>0, <1>7 DEF Client!HandOn, CommandsAreSound
  <2>2. CASE client.command[m].via = 0
    <3> DEFINE v == [at |-> "nothing", via |-> 0]
    <3>1. v \in CommandStates /\ client' = WithCommand(client, m, v) /\ Waits(client, v)
      BY <1>0, <1>7, <2>2 DEF Client!HandOn, WithCommand, CommandStates, Waits
    <3> QED BY <1>1, <3>1
  <2>3. CASE client.command[m].via # 0
    <3> DEFINE v == [client.command[m] EXCEPT !.at = "handed"]
    <3>1. client' = WithCommand(client, m, v)
      BY <1>7, <2>3 DEF Client!HandOn, WithCommand
    <3>2. v \in CommandStates /\ v.via = client.command[m].via /\ v.at = "handed"
      BY <1>0 DEF CommandStates
    <3> HIDE DEF v
    <3>3. Waits(client, v)
      BY <2>1, <2>3, <3>2 DEF Waits
    <3> QED BY <1>1, <3>1, <3>2, <3>3
  <2> QED BY <2>2, <2>3
<1>3. CASE Client!Send(m)
  <2> DEFINE v == [client.command[m] EXCEPT !.at = "sent"]
  <2>1. client' = WithCommand(client, m, v)
    BY <1>3 DEF Client!Send, WithCommand
  <2>2. v \in CommandStates /\ v.via = client.command[m].via /\ v.at = "sent"
    BY <1>0 DEF CommandStates
  <2>3. client.phase = "accepted" /\ client.command[m].via = client.cur
    BY <1>0, <1>3 DEF Client!Send, CommandsAreSound, Waits
  <2> HIDE DEF v
  <2>4. Waits(client, v)
    BY <2>2, <2>3 DEF Waits
  <2> QED BY <1>1, <2>1, <2>2, <2>4
<1>4. CASE Client!Answer(m)
  <2> DEFINE v == [at |-> "result", via |-> 0]
  <2>1. v \in CommandStates /\ client' = WithCommand(client, m, v) /\ Waits(client, v)
    BY <1>0, <1>4 DEF Client!Answer, WithCommand, CommandStates, Waits
  <2> QED BY <1>1, <2>1
<1>5. CASE Client!TimesOut(m)
  <2> DEFINE v == [at |-> "error", via |-> 0]
             d == WithCommand(client, m, v)
  <2>1. v \in CommandStates /\ client' = Client!Fenced(d, client.command[m].via)
    BY <1>0, <1>5 DEF Client!TimesOut, WithCommand, CommandStates
  <2>2. client.phase = "accepted" /\ client.command[m].via = client.cur
    BY <1>0, <1>5 DEF Client!TimesOut, CommandsAreSound, Waits
  <2>3. Waits(client, v)
    BY DEF Waits
  <2> HIDE DEF v
  <2>4. /\ Good(d) /\ SameEpisode(client, d) /\ d.cur = client.cur /\ d.phase = client.phase
        /\ d.reported = client.reported
    BY <1>0, <2>1, <2>3, CommandSet
  <2> HIDE DEF d
  <2>5. client' = Client!Fenced(d, d.cur) /\ d.cur # 0 /\ ~d.closed /\ d.phase = "accepted"
    BY <1>0, <2>1, <2>2, <2>4 DEF AttemptIsSound, EpisodeIsSound, SameEpisode
  <2>6. Good(client') /\ Busy(client')
        /\ (~client'.closed => client'.reported[d.cur] = d.reported[d.cur] + 1)
    BY <2>4, <2>5, FencedIs
  <2> QED BY <2>4, <2>6 DEF Keeps, LossReported
<1>6. CASE Client!Forget(m)
  <2> DEFINE v == [at |-> "idle", via |-> 0]
  <2>1. v \in CommandStates /\ client' = WithCommand(client, m, v) /\ Waits(client, v)
    BY <1>0, <1>6 DEF Client!Forget, WithCommand, CommandStates, Waits
  <2> QED BY <1>1, <2>1
<1> QED BY <1>2, <1>3, <1>4, <1>5, <1>6, <1>7

-----------------------------------------------------------------------------
(* The client's invariant.                                                 *)

LEMMA ClientStarts ==
  ASSUME Client!Init
  PROVE  ClientInv
<1> DEFINE rs == [g \in Generations |-> 0]
           cs == [m \in Commands |-> [at |-> "idle", via |-> 0]]
<1>1. rs \in [Generations -> 0 .. 1]
  OBVIOUS
<1>2. cs \in [Commands -> CommandStates] /\ \A m \in Commands : cs[m].at = "idle"
  BY DEF CommandStates
<1>3. client = [cur |-> 0, phase |-> "none", open |-> {}, hellos |-> {},
                headers |-> "asked", acquired |-> FALSE, timer |-> FALSE, attempts |-> 1,
                gap |-> TRUE, late |-> FALSE, had |-> FALSE, closed |-> FALSE, ready |-> "no",
                beats |-> -1, steady |-> FALSE, window |-> "none", fresh |-> FALSE,
                reported |-> rs, command |-> cs]
  BY DEF Client!Init
<1> HIDE DEF rs, cs
<1>4. 1 \in 0 .. MaxAttempts /\ -1 \in -1 .. StableBeats
  BY ClientAssumption
<1>5. "asked" \in HeaderStates /\ "no" \in ReadyStates /\ "none" \in Windows
  BY DEF HeaderStates, ReadyStates, Windows
<1>6. client \in ClientStates
  BY <1>1, <1>2, <1>3, <1>4, <1>5, ZenonT(60) DEF ClientStates
<1>7. AttemptIsSound(client) /\ EpisodeIsSound(client) /\ Busy(client)
  BY <1>3 DEF AttemptIsSound, EpisodeIsSound, Busy
<1>8. CommandsAreSound(client)
  BY <1>2, <1>3 DEF CommandsAreSound, Waits
<1> QED BY <1>6, <1>7, <1>8 DEF ClientInv, Good

LEMMA ClientStep ==
  ASSUME ClientInv, [Client!Next]_client
  PROVE  Keeps(client')
<1>1. CASE UNCHANGED client
  BY <1>1 DEF Keeps, ClientInv, LossReported
<1>2. CASE Client!TimerFires
  BY <1>2, TimerFiresKeeps
<1>3. CASE \E g \in Generations : Client!HeadersArrive(g)
  BY <1>3, HeadersArriveKeeps
<1>4. CASE Client!HeadersAbandoned \/ Client!HeadersUnavailable \/ Client!HeadersFail
  BY <1>4, HeadersGoneKeeps
<1>5. CASE Client!Connects \/ Client!ConnectFails
  BY <1>5, ConnectKeeps
<1>6. CASE \E g \in Generations : Client!HelloRefused(g) \/ Client!HelloIgnored(g)
  BY <1>6, HelloEndsKeeps
<1>7. CASE \E g \in Generations : Client!HelloAccepted(g)
  BY <1>7, HelloAcceptedKeeps
<1>8. CASE Client!AttachmentLost \/ Client!Close
  BY <1>8, AttachmentEndsKeeps
<1>9. CASE Client!Heartbeat
  BY <1>9, HeartbeatKeeps
<1>10. CASE Client!Elapse
  BY <1>10, ElapseKeeps
<1>11. CASE \E m \in Commands :
         \/ Client!Emit(m) \/ Client!HandOn(m) \/ Client!Send(m) \/ Client!Answer(m) \/ Client!TimesOut(m) \/ Client!Forget(m)
  BY <1>11, CommandKeeps
<1> QED BY <1>1, <1>2, <1>3, <1>4, <1>5, <1>6, <1>7, <1>8, <1>9, <1>10, <1>11 DEF Client!Next

LEMMA ClientInvGives ==
  ASSUME ClientInv
  PROVE  Client!TypeOK /\ Client!NeverIdle /\ Client!OneSocket /\ Client!EvidenceFollowsAttachment /\ Client!NoCommandIsStranded
<1>1. Client!TypeOK
  BY DEF ClientInv, Good, Client!TypeOK, ClientStates, CommandStates, HeaderStates, ReadyStates, Windows
<1>2. Client!NeverIdle
  BY DEF ClientInv, Busy, Client!NeverIdle
<1>3. Client!OneSocket
  BY DEF ClientInv, Good, AttemptIsSound, EpisodeIsSound, Client!OneSocket
<1>4. Client!EvidenceFollowsAttachment
  BY DEF ClientInv, Good, EpisodeIsSound, Client!EvidenceFollowsAttachment
<1>5. Client!NoCommandIsStranded
  BY DEF ClientInv, Good, CommandsAreSound, Waits, Client!NoCommandIsStranded
<1> QED BY <1>1, <1>2, <1>3, <1>4, <1>5

-----------------------------------------------------------------------------
(* The dispatcher: its inductive invariant.                                *)

Times == 0 .. MaxTime
RunStages == {"none", "running", "returned", "thrown"}
DeliveryStages == {"out", "preparing", "ledger", "refused", "replayed", "executing", "answered"}

Entries == [command : Delivered \ Mutations, since : Times, nth : Nat]
DeliveryStates ==
  [at : DeliveryStages, command : Delivered \cup {"none"}, session : SessionIds \cup {0}]
RunStates == [is : RunStages, since : Times]

DispatcherTyped ==
  /\ now \in Times /\ accepted \in SessionIds \cup {0}
  /\ cache \subseteq Entries /\ IsFiniteSet(cache) /\ Cardinality(cache) <= MaxCached
  /\ delivery \in [Deliveries -> DeliveryStates] /\ run \in [Deliveries -> RunStates]

\* A delivery that has an execution is that execution's and no longer another's.
RunsFollowDeliveries ==
  \A d \in Deliveries :
    /\ delivery[d].at = "preparing" => delivery[d].command \in Delivered
    /\ run[d].is # "none" =>
         /\ delivery[d].at \in {"executing", "answered"}
         /\ delivery[d].command \in Delivered /\ run[d].since <= now

\* Two entries are of different commands and in the order of their times; an entry
\* is of the last execution of its command.
Ordered(x, y) ==
  /\ x.command = y.command => x = y
  /\ x.nth = y.nth => x = y
  /\ x.nth < y.nth => x.since <= y.since

OfLastRun(x) ==
  /\ x.nth < Cardinality(Dispatcher!Executions) /\ x.since <= now
  /\ \E f \in Dispatcher!RunsOf(x.command) : run[f].since = x.since
  /\ \A f \in Dispatcher!RunsOf(x.command) : run[f].since <= x.since

CacheIsSound ==
  /\ \A x, y \in cache : Ordered(x, y)
  /\ \A x \in cache : OfLastRun(x)

\* Why execution e does not keep its command from being executed again.
MayRepeat(e) ==
  \/ run[e].is = "thrown" \/ now - run[e].since > Ttl
  \/ Dispatcher!CrowdedOut(e) \/ Dispatcher!TakenByFailure(e)

\* An execution that keeps its command from being executed again has an entry in the
\* window, and of two executions the earlier one no longer does.
WindowIsComplete ==
  \A e \in Dispatcher!Executions :
    /\ MayRepeat(e) \/ Dispatcher!Cached(delivery[e].command) # {}
    /\ \A d \in Dispatcher!RunsOf(delivery[e].command) : run[d].since > run[e].since => MayRepeat(e)

DispatcherInv == DispatcherTyped /\ RunsFollowDeliveries /\ CacheIsSound /\ WindowIsComplete

-----------------------------------------------------------------------------
(* The window.                                                             *)

\* The dispatcher counts as this module does.
LEMMA SameSize ==
  ASSUME NEW S
  PROVE  Dispatcher!Cardinality(S) = Cardinality(S)
BY DEF Dispatcher!Cardinality, Cardinality

LEMMA PrunedIs ==
  ASSUME NEW E
  PROVE  /\ Dispatcher!Pruned(E) \subseteq E
         /\ \A e \in Dispatcher!Pruned(E) : Dispatcher!Fresh(e)
BY DEF Dispatcher!Pruned, Dispatcher!Unexpired

\* What is dropped from the window and is not too old is one of the oldest.
LEMMA PrunedDrops ==
  ASSUME NEW E, IsFiniteSet(E), NEW x \in E, x \notin Dispatcher!Pruned(E), Dispatcher!Fresh(x)
  PROVE  Cardinality(Dispatcher!Newer(E, x)) >= MaxCached
<1> DEFINE F == Dispatcher!Unexpired(E)
           N == Dispatcher!Newer(F, x)
           M == Dispatcher!Newer(E, x)
<1>1. ~(Cardinality(N) < MaxCached)
  BY SameSize DEF Dispatcher!Pruned, Dispatcher!Unexpired
<1>2. M \subseteq E /\ N \subseteq M
  BY DEF Dispatcher!Newer, Dispatcher!Unexpired
<1> HIDE DEF N, M
<1>3. IsFiniteSet(M)
  BY <1>2, FS_Subset
<1>4. IsFiniteSet(N) /\ Cardinality(N) <= Cardinality(M)
  BY <1>2, <1>3, FS_Subset
<1>5. Cardinality(N) \in Nat /\ Cardinality(M) \in Nat
  BY <1>3, <1>4, FS_CardinalityType
<1>6. Cardinality(M) >= MaxCached
  BY <1>1, <1>4, <1>5, DispatcherAssumption
<1> QED BY <1>6 DEF M

LEMMA PrunedFits ==
  ASSUME NEW E, IsFiniteSet(E), \A x \in E : x.nth \in Nat, \A x, y \in E : x.nth = y.nth => x = y
  PROVE  IsFiniteSet(Dispatcher!Pruned(E)) /\ Cardinality(Dispatcher!Pruned(E)) <= MaxCached
<1> DEFINE F == Dispatcher!Unexpired(E)
           K == Dispatcher!Pruned(E)
           S == {e.nth : e \in K}
<1>1. K \subseteq F /\ F \subseteq E /\ \A e \in K : Cardinality(Dispatcher!Newer(F, e)) < MaxCached
  BY SameSize DEF Dispatcher!Pruned, Dispatcher!Unexpired
<1>2. IsFiniteSet(F)
  BY <1>1, FS_Subset
<1> HIDE DEF F, K
<1>3. IsFiniteSet(K) /\ Cardinality(K) \in Nat
  BY <1>1, <1>2, FS_Subset, FS_CardinalityType
<1>4. CASE K = {}
  <2>1. Cardinality(K) = 0
    BY <1>4, FS_EmptySet
  <2> QED BY <1>3, <2>1, DispatcherAssumption DEF K
<1>5. CASE K # {}
  <2>1. S \in SUBSET Nat /\ S # {}
    BY <1>1, <1>5
  <2>2. PICK n \in S : \A t \in S : n <= t
    BY <2>1, LeastNumber
  <2>3. PICK e \in K : e.nth = n
    OBVIOUS
  <2> DEFINE N == Dispatcher!Newer(F, e)
  <2>4. K \ {e} \subseteq N
    <3> SUFFICES ASSUME NEW f \in K, f # e
                 PROVE  f \in N
      OBVIOUS
    <3>1. f.nth \in Nat /\ e.nth \in Nat /\ f.nth # e.nth /\ e.nth <= f.nth /\ f \in F
      BY <1>1, <2>2, <2>3
    <3>2. f.nth > e.nth
      BY <3>1
    <3> QED BY <3>1, <3>2 DEF Dispatcher!Newer
  <2>5. N \subseteq F
    BY DEF Dispatcher!Newer
  <2>6. Cardinality(N) < MaxCached
    BY <1>1
  <2> HIDE DEF N
  <2>7. IsFiniteSet(N) /\ Cardinality(N) \in Nat
    BY <1>2, <2>5, FS_Subset, FS_CardinalityType
  <2>8. Cardinality(K \ {e}) <= Cardinality(N)
    BY <2>4, <2>7, FS_Subset
  <2>9. Cardinality(K \ {e}) = Cardinality(K) - 1
    BY <1>3, FS_RemoveElement
  <2>10. Cardinality(K) <= MaxCached
    BY <1>3, <2>6, <2>7, <2>8, <2>9, DispatcherAssumption
  <2> QED BY <1>3, <2>10 DEF K
<1> QED BY <1>4, <1>5

-----------------------------------------------------------------------------
(* Executions are only added, and what allows a repetition stays.          *)

Grows ==
  /\ now' >= now
  /\ \A d \in Deliveries : run[d].is # "none" =>
       /\ run'[d].is # "none" /\ run'[d].since = run[d].since
       /\ run[d].is = "thrown" => run'[d].is = "thrown"
       /\ delivery'[d].command = delivery[d].command

LEMMA MayRepeatStays ==
  ASSUME DispatcherTyped, DispatcherTyped', Grows,
         NEW e \in Dispatcher!Executions, MayRepeat(e)
  PROVE  MayRepeat(e)'
<1>1. /\ e \in Deliveries /\ run[e].is # "none" /\ run'[e].since = run[e].since
      /\ delivery'[e].command = delivery[e].command
  BY DEF Dispatcher!Executions, Grows
<1>2. CASE run[e].is = "thrown"
  BY <1>1, <1>2 DEF Grows, MayRepeat
<1>3. CASE now - run[e].since > Ttl
  <2>1. now \in Int /\ now' \in Int /\ run[e].since \in Int /\ now' >= now
    BY <1>1 DEF DispatcherTyped, RunStates, Times, Grows
  <2>2. now' - run'[e].since > Ttl
    BY <1>1, <1>3, <2>1, DispatcherAssumption
  <2> QED BY <2>2 DEF MayRepeat
<1>4. CASE Dispatcher!CrowdedOut(e)
  <2>1. Dispatcher!Crowd(e) \subseteq Dispatcher!Crowd(e)'
    <3> SUFFICES ASSUME NEW c \in Delivered \ {delivery[e].command},
                        NEW f \in Dispatcher!RunsOf(c), run[f].since >= run[e].since
                 PROVE  f \in Dispatcher!RunsOf(c)' /\ run'[f].since >= run'[e].since
      BY <1>1 DEF Dispatcher!Crowd
    <3> QED BY <1>1 DEF Grows, Dispatcher!RunsOf
  <2>2. Dispatcher!Crowd(e)' \subseteq Delivered
    BY DEF Dispatcher!Crowd
  <2>3. Cardinality(Dispatcher!Crowd(e)) >= MaxCached
    BY <1>4, SameSize DEF Dispatcher!CrowdedOut
  <2>4. IsFiniteSet(Dispatcher!Crowd(e)') /\ IsFiniteSet(Dispatcher!Crowd(e))
    BY <2>1, <2>2, FS_Subset, DispatcherAssumption
  <2>5. Cardinality(Dispatcher!Crowd(e)) <= Cardinality(Dispatcher!Crowd(e)')
    BY <2>1, <2>4, FS_Subset
  <2>6. Cardinality(Dispatcher!Crowd(e)) \in Nat /\ Cardinality(Dispatcher!Crowd(e)') \in Nat
    BY <2>4, FS_CardinalityType
  <2>7. Cardinality(Dispatcher!Crowd(e)') >= MaxCached
    BY <2>3, <2>5, <2>6, DispatcherAssumption
  <2> QED BY <2>7, SameSize DEF MayRepeat, Dispatcher!CrowdedOut
<1>5. CASE Dispatcher!TakenByFailure(e)
  <2>1. PICK f \in Dispatcher!RunsOf(delivery[e].command) \ {e} :
              run[f].is = "thrown" /\ run[f].since <= run[e].since
    BY <1>5 DEF Dispatcher!TakenByFailure
  <2>2. /\ f \in Dispatcher!RunsOf(delivery[e].command)' /\ run'[f].is = "thrown"
        /\ run'[f].since <= run'[e].since
    BY <1>1, <2>1 DEF Grows, Dispatcher!RunsOf
  <2> QED BY <2>1, <2>2 DEF MayRepeat, Dispatcher!TakenByFailure
<1> QED BY <1>2, <1>3, <1>4, <1>5 DEF MayRepeat

-----------------------------------------------------------------------------
(* Steps that start no execution.                                          *)

Quiet == \A d \in Deliveries : run'[d].is # "none" => run[d].is # "none"

LEMMA SameRuns ==
  ASSUME Grows, Quiet
  PROVE  /\ Dispatcher!Executions' = Dispatcher!Executions
         /\ \A c : Dispatcher!RunsOf(c)' = Dispatcher!RunsOf(c)
         /\ \A e \in Dispatcher!Executions :
              run'[e].since = run[e].since /\ delivery'[e].command = delivery[e].command
<1>1. Dispatcher!Executions' = Dispatcher!Executions
  BY DEF Grows, Quiet, Dispatcher!Executions
<1>2. ASSUME NEW c
      PROVE  Dispatcher!RunsOf(c)' = Dispatcher!RunsOf(c)
  BY DEF Grows, Quiet, Dispatcher!RunsOf
<1>3. \A e \in Dispatcher!Executions :
        run'[e].since = run[e].since /\ delivery'[e].command = delivery[e].command
  BY DEF Grows, Dispatcher!Executions
<1> QED BY <1>1, <1>2, <1>3

LEMMA RunsAre ==
  ASSUME NEW c, NEW f \in Dispatcher!RunsOf(c)
  PROVE  f \in Dispatcher!Executions /\ f \in Deliveries /\ delivery[f].command = c
BY DEF Dispatcher!RunsOf, Dispatcher!Executions

LEMMA QuietStep ==
  ASSUME DispatcherInv, DispatcherTyped', RunsFollowDeliveries', Grows, Quiet, cache' \subseteq cache,
         \A e \in Dispatcher!Executions :
           Dispatcher!Cached(delivery[e].command) # {} =>
             MayRepeat(e)' \/ Dispatcher!Cached(delivery[e].command)' # {}
  PROVE  DispatcherInv'
<1>1. DispatcherTyped /\ CacheIsSound /\ WindowIsComplete
  BY DEF DispatcherInv
<1>2. CacheIsSound'
  <2>1. ASSUME NEW x \in cache'
        PROVE  OfLastRun(x)'
    <3>1. OfLastRun(x)
      BY <1>1, <2>1 DEF CacheIsSound
    <3>2. x.since \in Int /\ now \in Int /\ now' \in Int
      BY <1>1, <2>1 DEF DispatcherTyped, Entries, Times
    <3>3. x.since <= now'
      BY <3>1, <3>2 DEF OfLastRun, Grows
    <3>4. \A f \in Dispatcher!RunsOf(x.command) : run'[f].since = run[f].since
      BY SameRuns, RunsAre
    <3> QED BY <3>1, <3>3, <3>4, SameRuns DEF OfLastRun
  <2> QED BY <1>1, <2>1 DEF CacheIsSound, Ordered
<1>3. WindowIsComplete'
  <2> SUFFICES ASSUME NEW e \in Dispatcher!Executions
               PROVE  /\ MayRepeat(e)' \/ Dispatcher!Cached(delivery[e].command)' # {}
                      /\ \A d \in Dispatcher!RunsOf(delivery[e].command)' :
                            run'[d].since > run'[e].since => MayRepeat(e)'
    BY SameRuns DEF WindowIsComplete
  <2>1. MayRepeat(e) => MayRepeat(e)'
    BY <1>1, MayRepeatStays
  <2>2. MayRepeat(e)' \/ Dispatcher!Cached(delivery[e].command)' # {}
    BY <1>1, <2>1 DEF WindowIsComplete
  <2>3. ASSUME NEW d \in Dispatcher!RunsOf(delivery[e].command)', run'[d].since > run'[e].since
        PROVE  MayRepeat(e)'
    <3>1. d \in Dispatcher!RunsOf(delivery[e].command)
      BY <2>3, SameRuns DEF Dispatcher!RunsOf
    <3>2. run[d].since > run[e].since
      BY <2>3, <3>1, SameRuns, RunsAre
    <3> QED BY <1>1, <2>1, <3>1, <3>2 DEF WindowIsComplete
  <2> QED BY <2>2, <2>3
<1> QED BY <1>2, <1>3 DEF DispatcherInv

LEMMA DispatcherHas ==
  ASSUME DispatcherInv
  PROVE  /\ DispatcherTyped /\ RunsFollowDeliveries /\ CacheIsSound /\ WindowIsComplete
         /\ now \in Int /\ delivery \in [Deliveries -> DeliveryStates]
         /\ run \in [Deliveries -> RunStates] /\ cache \subseteq Entries /\ IsFiniteSet(cache)
BY DEF DispatcherInv, DispatcherTyped, Times

\* A delivery whose stage alone changes.
LEMMA Advanced ==
  ASSUME delivery \in [Deliveries -> DeliveryStates], NEW d \in Deliveries, NEW v \in DeliveryStages,
         delivery' = [delivery EXCEPT ![d].at = v]
  PROVE  /\ delivery' \in [Deliveries -> DeliveryStates] /\ delivery'[d].at = v
         /\ \A e \in Deliveries : delivery'[e].command = delivery[e].command
         /\ \A e \in Deliveries : e # d => delivery'[e].at = delivery[e].at
<1>1. delivery[d] \in DeliveryStates
  OBVIOUS
<1>2. [delivery[d] EXCEPT !.at = v] \in DeliveryStates
  BY <1>1 DEF DeliveryStates
<1>3. delivery' \in [Deliveries -> DeliveryStates]
  BY <1>2
<1>4. delivery'[d].at = v /\ delivery'[d].command = delivery[d].command
  BY <1>1 DEF DeliveryStates
<1>5. \A e \in Deliveries : e # d => delivery'[e] = delivery[e]
  OBVIOUS
<1> QED BY <1>3, <1>4, <1>5

\* Steps that touch neither the window nor an execution.
LEMMA WindowUntouched ==
  ASSUME DispatcherInv, DispatcherTyped', RunsFollowDeliveries', Grows, Quiet, cache' = cache
  PROVE  DispatcherInv'
<1>1. \A c : Dispatcher!Cached(c)' = Dispatcher!Cached(c)
  BY DEF Dispatcher!Cached
<1>2. \A e \in Dispatcher!Executions : Dispatcher!Cached(delivery[e].command)' = Dispatcher!Cached(delivery[e].command)
  BY SameRuns DEF Dispatcher!Cached
<1> QED BY <1>2, QuietStep

LEMMA SessionAccepted ==
  ASSUME DispatcherInv, NEW s \in SessionIds, Dispatcher!AcceptSession(s)
  PROVE  DispatcherInv'
<1>1. DispatcherTyped /\ RunsFollowDeliveries /\ now \in Int
  BY DispatcherHas
<1>2. DispatcherTyped' /\ cache' = cache
  BY <1>1 DEF Dispatcher!AcceptSession, DispatcherTyped
<1>3. RunsFollowDeliveries' /\ Grows /\ Quiet
  BY <1>1 DEF Dispatcher!AcceptSession, RunsFollowDeliveries, Grows, Quiet
<1> QED BY <1>2, <1>3, WindowUntouched

LEMMA TimePasses ==
  ASSUME DispatcherInv, Dispatcher!Tick
  PROVE  DispatcherInv'
<1>1. DispatcherTyped /\ RunsFollowDeliveries /\ now \in Int /\ run \in [Deliveries -> RunStates]
  BY DispatcherHas
<1>2. now' \in Times /\ now' >= now
  BY <1>1, DispatcherAssumption DEF Dispatcher!Tick, DispatcherTyped, Times
<1>3. DispatcherTyped' /\ cache' = cache
  BY <1>1, <1>2 DEF Dispatcher!Tick, DispatcherTyped
<1>4. Grows /\ Quiet
  BY <1>2 DEF Dispatcher!Tick, Grows, Quiet
<1>5. RunsFollowDeliveries'
  <2> SUFFICES ASSUME NEW d \in Deliveries, run[d].is # "none"
               PROVE  run[d].since <= now'
    BY <1>1 DEF Dispatcher!Tick, RunsFollowDeliveries
  <2>1. run[d].since <= now /\ run[d].since \in Int /\ now' \in Int
    BY <1>1, <1>2 DEF RunsFollowDeliveries, RunStates, Times
  <2> QED BY <1>1, <1>2, <2>1
<1> QED BY <1>3, <1>4, <1>5, WindowUntouched

LEMMA Arrives ==
  ASSUME DispatcherInv, NEW d \in Deliveries, NEW c \in Delivered, Dispatcher!Deliver(d, c)
  PROVE  DispatcherInv'
<1> DEFINE v == [at |-> "preparing", command |-> c, session |-> accepted]
<1>1. /\ DispatcherTyped /\ RunsFollowDeliveries /\ now \in Int
      /\ delivery \in [Deliveries -> DeliveryStates] /\ accepted \in SessionIds \cup {0}
  BY DispatcherHas DEF DispatcherTyped
<1>2. /\ delivery' = [delivery EXCEPT ![d] = v] /\ delivery[d].at = "out"
      /\ now' = now /\ accepted' = accepted /\ cache' = cache /\ run' = run
  BY DEF Dispatcher!Deliver
<1>3. v \in DeliveryStates /\ v.at = "preparing" /\ v.command = c
  BY <1>1 DEF DeliveryStates, DeliveryStages
<1> HIDE DEF v
<1>4. /\ delivery' \in [Deliveries -> DeliveryStates] /\ delivery'[d] = v
      /\ \A e \in Deliveries : e # d => delivery'[e] = delivery[e]
  BY <1>1, <1>2, <1>3
<1>5. run[d].is = "none"
  BY <1>1, <1>2 DEF RunsFollowDeliveries
<1>6. DispatcherTyped'
  BY <1>1, <1>2, <1>4 DEF DispatcherTyped
<1>7. Grows /\ Quiet
  BY <1>1, <1>2, <1>4, <1>5 DEF Grows, Quiet
<1>8. RunsFollowDeliveries'
  BY <1>1, <1>2, <1>3, <1>4, <1>5 DEF RunsFollowDeliveries
<1> QED BY <1>2, <1>6, <1>7, <1>8, WindowUntouched

LEMMA DecidedWithoutRun ==
  ASSUME DispatcherInv, NEW d \in Deliveries, Dispatcher!Mutate(d) \/ Dispatcher!Replay(d)
  PROVE  DispatcherInv'
<1>1. /\ DispatcherTyped /\ RunsFollowDeliveries /\ now \in Int
      /\ delivery \in [Deliveries -> DeliveryStates]
  BY DispatcherHas
<1>2. PICK v \in {"ledger", "refused", "replayed"} : delivery' = [delivery EXCEPT ![d].at = v]
  BY DEF Dispatcher!Mutate, Dispatcher!Replay
<1>3. /\ delivery[d].at = "preparing"
      /\ now' = now /\ accepted' = accepted /\ cache' = cache /\ run' = run
  BY DEF Dispatcher!Mutate, Dispatcher!Replay
<1>4. /\ delivery' \in [Deliveries -> DeliveryStates] /\ delivery'[d].at = v
      /\ \A e \in Deliveries : delivery'[e].command = delivery[e].command
      /\ \A e \in Deliveries : e # d => delivery'[e].at = delivery[e].at
  <2>1. v \in DeliveryStages
    BY <1>2 DEF DeliveryStages
  <2> QED BY <1>1, <1>2, <2>1, Advanced
<1>5. run[d].is = "none"
  BY <1>1, <1>3 DEF RunsFollowDeliveries
<1>6. DispatcherTyped'
  BY <1>1, <1>3, <1>4 DEF DispatcherTyped
<1>7. Grows /\ Quiet
  BY <1>1, <1>3, <1>4 DEF Grows, Quiet
<1>8. RunsFollowDeliveries'
  BY <1>1, <1>2, <1>3, <1>4, <1>5 DEF RunsFollowDeliveries
<1> QED BY <1>3, <1>6, <1>7, <1>8, WindowUntouched

\* What is left of the window without a command.
LEMMA ForgottenIs ==
  ASSUME NEW c
  PROVE  /\ Dispatcher!Forgotten(c) \subseteq cache
         /\ IsFiniteSet(cache) => /\ IsFiniteSet(Dispatcher!Forgotten(c))
                                  /\ Cardinality(Dispatcher!Forgotten(c)) <= Cardinality(cache)
                                  /\ Cardinality(Dispatcher!Forgotten(c)) \in Nat
                                  /\ Cardinality(cache) \in Nat
<1>1. Dispatcher!Forgotten(c) \subseteq cache
  BY DEF Dispatcher!Forgotten
<1> QED BY <1>1, FS_Subset, FS_CardinalityType

LEMMA ForgetsOne ==
  ASSUME DispatcherInv, NEW d \in Deliveries, cache' = Dispatcher!Forgotten(delivery[d].command)
  PROVE  /\ cache' \subseteq cache /\ cache' \subseteq Entries
         /\ IsFiniteSet(cache') /\ Cardinality(cache') <= MaxCached
         /\ \A c : c # delivery[d].command /\ Dispatcher!Cached(c) # {} => {x \in cache' : x.command = c} # {}
<1>1. cache \subseteq Entries /\ IsFiniteSet(cache) /\ Cardinality(cache) <= MaxCached
  BY DEF DispatcherInv, DispatcherTyped
<1>2. cache' \subseteq cache /\ IsFiniteSet(cache') /\ Cardinality(cache') <= Cardinality(cache)
      /\ Cardinality(cache') \in Nat /\ Cardinality(cache) \in Nat
  BY <1>1, ForgottenIs
<1>3. Cardinality(cache') <= MaxCached
  BY <1>1, <1>2, DispatcherAssumption
<1>4. \A c : c # delivery[d].command /\ Dispatcher!Cached(c) # {} => {x \in cache' : x.command = c} # {}
  BY DEF Dispatcher!Cached, Dispatcher!Forgotten
<1> QED BY <1>1, <1>2, <1>3, <1>4

LEMMA ExpiredIsForgotten ==
  ASSUME DispatcherInv, NEW d \in Deliveries, Dispatcher!Expired(d)
  PROVE  DispatcherInv'
<1>1. /\ DispatcherTyped /\ RunsFollowDeliveries /\ CacheIsSound /\ now \in Int
      /\ delivery \in [Deliveries -> DeliveryStates] /\ run \in [Deliveries -> RunStates]
      /\ cache \subseteq Entries
  BY DispatcherHas
<1>2. /\ delivery[d].at = "preparing" /\ cache' = Dispatcher!Forgotten(delivery[d].command)
      /\ delivery' = [delivery EXCEPT ![d].at = "refused"]
      /\ now' = now /\ accepted' = accepted /\ run' = run
  BY DEF Dispatcher!Expired
<1>3. PICK x \in cache : x.command = delivery[d].command /\ ~Dispatcher!Fresh(x)
  BY DEF Dispatcher!Expired, Dispatcher!Cached
<1>4. /\ delivery' \in [Deliveries -> DeliveryStates] /\ delivery'[d].at = "refused"
      /\ \A e \in Deliveries : delivery'[e].command = delivery[e].command
      /\ \A e \in Deliveries : e # d => delivery'[e].at = delivery[e].at
  <2>1. "refused" \in DeliveryStages
    BY DEF DeliveryStages
  <2> QED BY <1>1, <1>2, <2>1, Advanced
<1>5. /\ cache' \subseteq cache /\ cache' \subseteq Entries
      /\ IsFiniteSet(cache') /\ Cardinality(cache') <= MaxCached
      /\ \A c : c # delivery[d].command /\ Dispatcher!Cached(c) # {} => {y \in cache' : y.command = c} # {}
  BY <1>2, ForgetsOne
<1>6. run[d].is = "none"
  BY <1>1, <1>2 DEF RunsFollowDeliveries
<1>7. DispatcherTyped'
  BY <1>1, <1>2, <1>4, <1>5 DEF DispatcherTyped
<1>8. Grows /\ Quiet
  BY <1>1, <1>2, <1>4 DEF Grows, Quiet
<1>9. RunsFollowDeliveries'
  BY <1>1, <1>2, <1>4, <1>6 DEF RunsFollowDeliveries
<1>10. ASSUME NEW e \in Dispatcher!Executions, Dispatcher!Cached(delivery[e].command) # {}
       PROVE  MayRepeat(e)' \/ Dispatcher!Cached(delivery[e].command)' # {}
  <2>1. e \in Deliveries /\ run[e].is # "none" /\ delivery'[e].command = delivery[e].command
    BY <1>4 DEF Dispatcher!Executions
  <2>2. CASE delivery[e].command = delivery[d].command
    <3>1. e \in Dispatcher!RunsOf(x.command)
      BY <1>3, <2>1, <2>2 DEF Dispatcher!RunsOf
    <3>2. run[e].since <= x.since
      BY <1>1, <1>3, <3>1 DEF CacheIsSound, OfLastRun
    <3>3. run[e].since \in Int /\ x.since \in Int
      BY <1>1, <1>3, <2>1 DEF RunStates, Entries, Times
    <3>4. ~(now - x.since <= Ttl)
      BY <1>3 DEF Dispatcher!Fresh
    <3>5. now - run[e].since > Ttl
      BY <1>1, <3>2, <3>3, <3>4, DispatcherAssumption
    <3> QED BY <1>2, <3>5 DEF MayRepeat
  <2>3. CASE delivery[e].command # delivery[d].command
    BY <1>5, <1>10, <2>1, <2>3 DEF Dispatcher!Cached
  <2> QED BY <2>2, <2>3
<1> QED BY <1>5, <1>7, <1>8, <1>9, <1>10, QuietStep

\* The end of an execution.
LEMMA EndedRun ==
  ASSUME DispatcherInv, NEW d \in Deliveries, NEW v \in {"returned", "thrown"}, run[d].is = "running",
         run' = [run EXCEPT ![d].is = v], delivery' = [delivery EXCEPT ![d].at = "answered"],
         now' = now, accepted' = accepted
  PROVE  /\ run' \in [Deliveries -> RunStates] /\ delivery' \in [Deliveries -> DeliveryStates]
         /\ run'[d].is = v /\ Grows /\ Quiet /\ RunsFollowDeliveries'
         /\ \A e \in Deliveries : delivery'[e].command = delivery[e].command
         /\ \A e \in Deliveries : run'[e].since = run[e].since
<1>1. /\ RunsFollowDeliveries /\ now \in Int
      /\ delivery \in [Deliveries -> DeliveryStates] /\ run \in [Deliveries -> RunStates]
  BY DispatcherHas
<1>2. /\ delivery' \in [Deliveries -> DeliveryStates] /\ delivery'[d].at = "answered"
      /\ \A e \in Deliveries : delivery'[e].command = delivery[e].command
      /\ \A e \in Deliveries : e # d => delivery'[e].at = delivery[e].at
  <2>1. "answered" \in DeliveryStages
    BY DEF DeliveryStages
  <2> QED BY <1>1, <2>1, Advanced
<1>3. run[d] \in RunStates /\ v \in RunStages
  BY <1>1 DEF RunStages
<1>4. [run[d] EXCEPT !.is = v] \in RunStates
  BY <1>3 DEF RunStates
<1>5. run' \in [Deliveries -> RunStates]
  BY <1>1, <1>4
<1>6. run'[d].is = v /\ run'[d].since = run[d].since
  BY <1>1, <1>3 DEF RunStates
<1>7. \A e \in Deliveries : e # d => run'[e] = run[e]
  BY <1>1
<1>8. Grows
  BY <1>1, <1>2, <1>6, <1>7 DEF Grows
<1>9. Quiet
  BY <1>6, <1>7 DEF Quiet
<1>10. RunsFollowDeliveries'
  BY <1>1, <1>2, <1>6, <1>7 DEF RunsFollowDeliveries
<1> QED BY <1>2, <1>5, <1>6, <1>7, <1>8, <1>9, <1>10

LEMMA RunReturns ==
  ASSUME DispatcherInv, NEW d \in Deliveries, Dispatcher!Returns(d)
  PROVE  DispatcherInv'
<1>1. /\ run[d].is = "running" /\ run' = [run EXCEPT ![d].is = "returned"]
      /\ delivery' = [delivery EXCEPT ![d].at = "answered"]
      /\ now' = now /\ accepted' = accepted /\ cache' = cache
  BY DEF Dispatcher!Returns
<1>2. /\ run' \in [Deliveries -> RunStates] /\ delivery' \in [Deliveries -> DeliveryStates]
      /\ Grows /\ Quiet /\ RunsFollowDeliveries'
  BY <1>1, EndedRun
<1>3. DispatcherTyped'
  BY <1>1, <1>2, DispatcherHas DEF DispatcherTyped
<1> QED BY <1>1, <1>2, <1>3, WindowUntouched

LEMMA RunThrows ==
  ASSUME DispatcherInv, NEW d \in Deliveries, Dispatcher!Throws(d)
  PROVE  DispatcherInv'
<1>1. /\ run[d].is = "running" /\ run' = [run EXCEPT ![d].is = "thrown"]
      /\ delivery' = [delivery EXCEPT ![d].at = "answered"]
      /\ now' = now /\ accepted' = accepted /\ cache' = Dispatcher!Forgotten(delivery[d].command)
  BY DEF Dispatcher!Throws
<1>2. /\ run' \in [Deliveries -> RunStates] /\ delivery' \in [Deliveries -> DeliveryStates]
      /\ run'[d].is = "thrown" /\ Grows /\ Quiet /\ RunsFollowDeliveries'
      /\ \A e \in Deliveries : delivery'[e].command = delivery[e].command
      /\ \A e \in Deliveries : run'[e].since = run[e].since
  BY <1>1, EndedRun
<1>3. /\ cache' \subseteq cache /\ cache' \subseteq Entries
      /\ IsFiniteSet(cache') /\ Cardinality(cache') <= MaxCached
      /\ \A c : c # delivery[d].command /\ Dispatcher!Cached(c) # {} => {y \in cache' : y.command = c} # {}
  BY <1>1, ForgetsOne
<1>4. DispatcherTyped'
  BY <1>1, <1>2, <1>3, DispatcherHas DEF DispatcherTyped
<1>5. ASSUME NEW e \in Dispatcher!Executions, Dispatcher!Cached(delivery[e].command) # {}
      PROVE  MayRepeat(e)' \/ Dispatcher!Cached(delivery[e].command)' # {}
  <2>1. e \in Deliveries /\ run[e].is # "none" /\ delivery'[e].command = delivery[e].command
    BY <1>2 DEF Dispatcher!Executions
  <2>2. CASE delivery[e].command # delivery[d].command
    BY <1>3, <1>5, <2>1, <2>2 DEF Dispatcher!Cached
  <2>3. CASE e = d
    BY <1>2, <2>3 DEF MayRepeat
  <2>4. CASE e # d /\ delivery[e].command = delivery[d].command
    <3>1. d \in Dispatcher!RunsOf(delivery[e].command)
      BY <1>1, <2>4 DEF Dispatcher!RunsOf
    <3>2. run[d].since \in Int /\ run[e].since \in Int
      BY <2>1, DispatcherHas DEF RunStates, Times
    <3>3. CASE run[d].since > run[e].since
      <4>1. MayRepeat(e)
        BY <3>1, <3>3, DispatcherHas DEF WindowIsComplete
      <4> QED BY <1>2, <1>4, <4>1, MayRepeatStays, DispatcherHas
    <3>4. CASE run[d].since <= run[e].since
      <4>1. d \in Dispatcher!RunsOf(delivery[e].command)' /\ run'[d].since <= run'[e].since
        BY <1>2, <2>1, <2>4, <3>4 DEF Dispatcher!RunsOf
      <4> QED BY <1>2, <2>4, <4>1 DEF MayRepeat, Dispatcher!TakenByFailure
    <3> QED BY <3>2, <3>3, <3>4
  <2> QED BY <2>2, <2>3, <2>4
<1> QED BY <1>2, <1>3, <1>4, <1>5, QuietStep

-----------------------------------------------------------------------------
(* An execution starts.                                                    *)

\* An entry with MaxCached newer ones: as many other commands came since.
LEMMA DroppedIsCrowdedOut ==
  ASSUME DispatcherTyped', NEW S, IsFiniteSet(S), S \subseteq Entries,
         \A x, y \in S : Ordered(x, y), \A x \in S : OfLastRun(x)',
         NEW x \in S, Cardinality(Dispatcher!Newer(S, x)) >= MaxCached,
         NEW e \in Deliveries, e \in Dispatcher!RunsOf(x.command)'
  PROVE  MayRepeat(e)'
<1> DEFINE N == Dispatcher!Newer(S, x)
           C == Dispatcher!Crowd(e)'
           f == [y \in N |-> y.command]
<1>1. N \subseteq S /\ \A y \in N : y.nth > x.nth
  BY DEF Dispatcher!Newer
<1>2. delivery'[e].command = x.command
  BY DEF Dispatcher!RunsOf
<1>3. ASSUME NEW y \in N
      PROVE  y.command \in C
  <2>1. y \in S /\ y \in Entries /\ x \in Entries /\ y.nth > x.nth
    BY <1>1
  <2>2. y.nth \in Int /\ x.nth \in Int /\ y.since \in Int /\ x.since \in Int
    BY <2>1 DEF Entries, Times
  <2>3. y.command \in Delivered
    BY <2>1 DEF Entries
  <2>4. Ordered(x, y)
    BY <2>1
  <2>5. y.command # x.command
    BY <2>1, <2>2, <2>4 DEF Ordered
  <2>6. x.since <= y.since
    BY <2>1, <2>2, <2>4 DEF Ordered
  <2>7. PICK g \in Dispatcher!RunsOf(y.command)' : run'[g].since = y.since
    BY <2>1 DEF OfLastRun
  <2>8. run'[e].since <= x.since
    BY DEF OfLastRun
  <2>9. run'[e].since \in Int
    BY DEF DispatcherTyped, RunStates, Times
  <2>10. run'[g].since >= run'[e].since
    BY <2>2, <2>6, <2>7, <2>8, <2>9
  <2> QED BY <1>2, <2>3, <2>5, <2>7, <2>10 DEF Dispatcher!Crowd
<1>4. \A y, z \in N : y.command = z.command => y = z
  BY <1>1 DEF Ordered
<1>5. C \subseteq Delivered
  BY DEF Dispatcher!Crowd
<1> HIDE DEF N, C
<1>6. f \in Injection(N, C)
  <2>1. f \in [N -> C]
    BY <1>3
  <2>2. \A y, z \in N : f[y] = f[z] => y = z
    BY <1>4
  <2> HIDE DEF f
  <2> QED BY <2>1, <2>2 DEF Injection, IsInjective
<1>7. IsFiniteSet(C)
  BY <1>5, FS_Subset, DispatcherAssumption
<1>8. Cardinality(N) <= Cardinality(C) /\ IsFiniteSet(N)
  BY <1>6, <1>7, FS_Injection
<1>9. Cardinality(N) \in Nat /\ Cardinality(C) \in Nat
  BY <1>7, <1>8, FS_CardinalityType
<1>10. Cardinality(N) >= MaxCached
  BY DEF N
<1>11. Cardinality(C) >= MaxCached
  BY <1>8, <1>9, <1>10, DispatcherAssumption
<1>12. Dispatcher!CrowdedOut(e)'
  BY <1>11, SameSize DEF Dispatcher!CrowdedOut, C
<1> QED BY <1>12 DEF MayRepeat

\* The window before the new entry, with it, and pruned twice.
LEMMA PrunedTwice ==
  ASSUME NEW S, NEW n, IsFiniteSet(S \cup {n}), NEW x \in S \cup {n}, Dispatcher!Fresh(x),
         x \notin Dispatcher!Pruned(Dispatcher!Pruned(S) \cup {n})
  PROVE  Cardinality(Dispatcher!Newer(S \cup {n}, x)) >= MaxCached
<1> DEFINE A == S \cup {n}
           P == Dispatcher!Pruned(S)
           B == P \cup {n}
<1>1. B \in SUBSET A /\ S \in SUBSET A /\ IsFiniteSet(S) /\ IsFiniteSet(B)
  <2>1. P \subseteq S /\ S \subseteq A /\ B \subseteq A
    BY PrunedIs
  <2> QED BY <2>1, FS_Subset
<1>2. ASSUME NEW T \in SUBSET A, Cardinality(Dispatcher!Newer(T, x)) >= MaxCached
      PROVE  Cardinality(Dispatcher!Newer(A, x)) >= MaxCached
  <2> DEFINE N == Dispatcher!Newer(T, x)
             M == Dispatcher!Newer(A, x)
  <2>1. N \subseteq M /\ M \subseteq A
    BY DEF Dispatcher!Newer
  <2>2. Cardinality(N) >= MaxCached
    BY <1>2
  <2> HIDE DEF N, M, A
  <2>3. IsFiniteSet(M)
    BY <2>1, FS_Subset DEF A
  <2>4. IsFiniteSet(N) /\ Cardinality(N) <= Cardinality(M)
    BY <2>1, <2>3, FS_Subset
  <2>5. Cardinality(N) \in Nat /\ Cardinality(M) \in Nat
    BY <2>3, <2>4, FS_CardinalityType
  <2>6. Cardinality(M) >= MaxCached
    BY <2>2, <2>4, <2>5, DispatcherAssumption
  <2> QED BY <2>6 DEF M
<1>3. CASE x \in B
  <2>1. Cardinality(Dispatcher!Newer(B, x)) >= MaxCached
    BY <1>1, <1>3, PrunedDrops
  <2> HIDE DEF A, B
  <2> QED BY <1>1, <1>2, <2>1 DEF A
<1>4. CASE x \notin B
  <2>1. Cardinality(Dispatcher!Newer(S, x)) >= MaxCached
    BY <1>1, <1>4, PrunedDrops
  <2> HIDE DEF A
  <2> QED BY <1>1, <1>2, <2>1 DEF A
<1> QED BY <1>3, <1>4

LEMMA Starting ==
  ASSUME DispatcherInv, NEW d \in Deliveries, Dispatcher!Execute(d)
  PROVE  /\ delivery[d].command \in Delivered \ Mutations /\ run[d].is = "none"
         /\ cache' = Dispatcher!Recorded(delivery[d].command) /\ now' = now /\ accepted' = accepted
         /\ run' \in [Deliveries -> RunStates] /\ delivery' \in [Deliveries -> DeliveryStates]
         /\ run'[d].is = "running" /\ run'[d].since = now
         /\ \A e \in Deliveries : delivery'[e].command = delivery[e].command
         /\ \A e \in Deliveries : e # d => run'[e] = run[e]
         /\ Grows /\ RunsFollowDeliveries'
         /\ \A x \in cache : x.command # delivery[d].command
<1> DEFINE v == [is |-> "running", since |-> now]
<1>1. /\ RunsFollowDeliveries /\ now \in Int /\ now \in Times
      /\ delivery \in [Deliveries -> DeliveryStates] /\ run \in [Deliveries -> RunStates]
  BY DispatcherHas DEF DispatcherTyped
<1>2. /\ delivery[d].at = "preparing" /\ delivery[d].command \notin Mutations
      /\ delivery' = [delivery EXCEPT ![d].at = "executing"] /\ run' = [run EXCEPT ![d] = v]
      /\ cache' = Dispatcher!Recorded(delivery[d].command) /\ now' = now /\ accepted' = accepted
      /\ Dispatcher!Cached(delivery[d].command) = {}
  BY DEF Dispatcher!Execute
<1>3. delivery[d].command \in Delivered /\ run[d].is = "none"
  BY <1>1, <1>2 DEF RunsFollowDeliveries
<1>4. /\ delivery' \in [Deliveries -> DeliveryStates] /\ delivery'[d].at = "executing"
      /\ \A e \in Deliveries : delivery'[e].command = delivery[e].command
      /\ \A e \in Deliveries : e # d => delivery'[e].at = delivery[e].at
  <2>1. "executing" \in DeliveryStages
    BY DEF DeliveryStages
  <2> QED BY <1>1, <1>2, <2>1, Advanced
<1>5. v \in RunStates /\ v.is = "running" /\ v.since = now
  BY <1>1 DEF RunStates, RunStages
<1> HIDE DEF v
<1>6. /\ run' \in [Deliveries -> RunStates] /\ run'[d] = v
      /\ \A e \in Deliveries : e # d => run'[e] = run[e]
  BY <1>1, <1>2, <1>5
<1>7. Grows
  BY <1>1, <1>2, <1>3, <1>4, <1>6 DEF Grows
<1>8. RunsFollowDeliveries'
  BY <1>1, <1>2, <1>3, <1>4, <1>5, <1>6 DEF RunsFollowDeliveries
<1>9. \A x \in cache : x.command # delivery[d].command
  BY <1>2 DEF Dispatcher!Cached
<1> QED BY <1>2, <1>3, <1>4, <1>5, <1>6, <1>7, <1>8, <1>9

\* The window with the new entry, before it is pruned.
LEMMA WindowWithNew ==
  ASSUME DispatcherInv, NEW d \in Deliveries, Dispatcher!Execute(d),
         NEW n, n = Dispatcher!Entry(delivery[d].command)
  PROVE  /\ n.command = delivery[d].command /\ n.since = now
         /\ cache \cup {n} \subseteq Entries /\ IsFiniteSet(cache \cup {n})
         /\ \A x, y \in cache \cup {n} : Ordered(x, y)
         /\ \A x \in cache \cup {n} : OfLastRun(x)'
<1> DEFINE c == delivery[d].command
<1>1. /\ CacheIsSound /\ RunsFollowDeliveries /\ cache \subseteq Entries /\ IsFiniteSet(cache) /\ now \in Int
      /\ run \in [Deliveries -> RunStates] /\ now \in Times
  BY DispatcherHas DEF DispatcherTyped
<1>2. /\ c \in Delivered \ Mutations /\ run[d].is = "none" /\ now' = now
      /\ run'[d].is = "running" /\ run'[d].since = now
      /\ \A e \in Deliveries : delivery'[e].command = delivery[e].command
      /\ \A e \in Deliveries : e # d => run'[e] = run[e]
      /\ \A x \in cache : x.command # c
  BY Starting
<1>3. Dispatcher!Executions' = Dispatcher!Executions \cup {d} /\ d \notin Dispatcher!Executions
  BY <1>2 DEF Dispatcher!Executions
<1>4. IsFiniteSet(Dispatcher!Executions)
  <2>1. Dispatcher!Executions \subseteq Deliveries
    BY DEF Dispatcher!Executions
  <2> QED BY <2>1, FS_Subset, DispatcherAssumption
<1> DEFINE k == Cardinality(Dispatcher!Executions)
<1>5. k \in Nat /\ Cardinality(Dispatcher!Executions') = k + 1
  BY <1>3, <1>4, FS_CardinalityType, FS_AddElement
<1>6. n = [command |-> c, since |-> now, nth |-> k]
  BY SameSize DEF Dispatcher!Entry
<1> HIDE DEF k
<1>7. n \in Entries /\ n.command = c /\ n.since = now /\ n.nth = k
  BY <1>1, <1>2, <1>5, <1>6 DEF Entries
<1>8. \A x \in cache : x.nth < k /\ x.nth \in Nat /\ x.since <= now /\ x.since \in Int
  BY <1>1 DEF CacheIsSound, OfLastRun, Entries, Times, k
<1>9. \A x, y \in cache \cup {n} : Ordered(x, y)
  <2> TAKE x \in cache \cup {n}, y \in cache \cup {n}
  <2>1. CASE x \in cache /\ y \in cache
    BY <1>1, <2>1 DEF CacheIsSound
  <2>2. CASE x = n /\ y = n
    BY <1>5, <1>7, <2>2 DEF Ordered
  <2>3. CASE x \in cache /\ y = n
    BY <1>2, <1>5, <1>7, <1>8, <2>3 DEF Ordered
  <2>4. CASE x = n /\ y \in cache
    BY <1>2, <1>5, <1>7, <1>8, <2>4 DEF Ordered
  <2> QED BY <2>1, <2>2, <2>3, <2>4
<1>10. ASSUME NEW x \in cache
       PROVE  OfLastRun(x)'
  <2>1. OfLastRun(x) /\ x.command # c
    BY <1>1, <1>2 DEF CacheIsSound
  <2>2. Dispatcher!RunsOf(x.command)' = Dispatcher!RunsOf(x.command)
    BY <1>2, <2>1 DEF Dispatcher!RunsOf
  <2>3. \A f \in Dispatcher!RunsOf(x.command) : run'[f] = run[f]
    BY <1>2 DEF Dispatcher!RunsOf
  <2>4. x.nth < k + 1
    BY <1>5, <1>8
  <2> QED BY <1>2, <1>5, <1>8, <2>1, <2>2, <2>3, <2>4 DEF OfLastRun
<1>11. OfLastRun(n)'
  <2>1. d \in Dispatcher!RunsOf(n.command)'
    BY <1>2, <1>7 DEF Dispatcher!RunsOf
  <2>2. ASSUME NEW f \in Dispatcher!RunsOf(n.command)'
        PROVE  run'[f].since <= now
    <3>1. f \in Deliveries /\ run'[f].is # "none"
      BY DEF Dispatcher!RunsOf
    <3>2. CASE f = d
      BY <1>1, <1>2, <3>2
    <3>3. CASE f # d
      BY <1>1, <1>2, <3>1, <3>3 DEF RunsFollowDeliveries
    <3> QED BY <3>2, <3>3
  <2>3. n.nth < k + 1
    BY <1>5, <1>7
  <2> QED BY <1>1, <1>2, <1>5, <1>7, <2>1, <2>2, <2>3 DEF OfLastRun
<1>12. IsFiniteSet(cache \cup {n})
  BY <1>1, FS_AddElement
<1> QED BY <1>1, <1>7, <1>9, <1>10, <1>11, <1>12

LEMMA RunStarts ==
  ASSUME DispatcherInv, NEW d \in Deliveries, Dispatcher!Execute(d)
  PROVE  DispatcherInv'
<1> DEFINE n == Dispatcher!Entry(delivery[d].command)
<1>1. /\ DispatcherTyped /\ WindowIsComplete /\ now \in Int /\ now \in Times
      /\ cache \subseteq Entries /\ CacheIsSound
  BY DispatcherHas DEF DispatcherTyped
<1>2. /\ run[d].is = "none"
      /\ cache' = Dispatcher!Recorded(delivery[d].command) /\ now' = now /\ accepted' = accepted
      /\ run' \in [Deliveries -> RunStates] /\ delivery' \in [Deliveries -> DeliveryStates]
      /\ run'[d].is = "running" /\ run'[d].since = now
      /\ \A e \in Deliveries : delivery'[e].command = delivery[e].command
      /\ \A e \in Deliveries : e # d => run'[e] = run[e]
      /\ Grows /\ RunsFollowDeliveries'
      /\ \A x \in cache : x.command # delivery[d].command
  BY Starting
<1>3. PICK m : m = n
  OBVIOUS
<1>4. cache' = Dispatcher!Pruned(Dispatcher!Pruned(cache) \cup {m})
  BY <1>2, <1>3 DEF Dispatcher!Recorded
<1> HIDE DEF n
<1>5. /\ m.command = delivery[d].command /\ m.since = now
      /\ cache \cup {m} \subseteq Entries /\ IsFiniteSet(cache \cup {m})
      /\ \A x, y \in cache \cup {m} : Ordered(x, y)
      /\ \A x \in cache \cup {m} : OfLastRun(x)'
  BY <1>3, WindowWithNew DEF n
<1>6. cache' \subseteq cache \cup {m}
  BY <1>4, PrunedIs
<1>7. IsFiniteSet(cache') /\ Cardinality(cache') <= MaxCached
  <2> DEFINE E == Dispatcher!Pruned(cache) \cup {m}
  <2>1. E \subseteq cache \cup {m}
    BY PrunedIs
  <2> HIDE DEF E
  <2>2. IsFiniteSet(E)
    BY <1>5, <2>1, FS_Subset
  <2>3. \A x \in E : x.nth \in Nat
    BY <1>5, <2>1 DEF Entries
  <2>4. \A x, y \in E : x.nth = y.nth => x = y
    BY <1>5, <2>1 DEF Ordered
  <2>5. cache' = Dispatcher!Pruned(E)
    BY <1>4 DEF E
  <2> QED BY <2>2, <2>3, <2>4, <2>5, PrunedFits
<1>8. DispatcherTyped'
  BY <1>1, <1>2, <1>5, <1>6, <1>7 DEF DispatcherTyped
<1>9. CacheIsSound'
  BY <1>5, <1>6 DEF CacheIsSound
<1>10. ASSUME NEW x \in cache \cup {m}, NEW e \in Deliveries, run'[e].is # "none",
              delivery[e].command = x.command
       PROVE  MayRepeat(e)' \/ Dispatcher!Cached(delivery[e].command)' # {}
  <2>1. e \in Dispatcher!RunsOf(x.command)'
    BY <1>2, <1>10 DEF Dispatcher!RunsOf
  <2>2. CASE x \in cache'
    <3>1. x.command = delivery'[e].command
      BY <1>2, <1>10
    <3> QED BY <2>2, <3>1 DEF Dispatcher!Cached
  <2>3. CASE x \notin cache' /\ Dispatcher!Fresh(x)
    <3>1. Cardinality(Dispatcher!Newer(cache \cup {m}, x)) >= MaxCached
      BY <1>4, <1>5, <2>3, PrunedTwice
    <3>2. MayRepeat(e)'
      BY <1>5, <1>8, <2>1, <3>1, DroppedIsCrowdedOut
    <3> QED BY <3>2
  <2>4. CASE ~Dispatcher!Fresh(x)
    <3>1. run'[e].since <= x.since
      BY <1>5, <2>1 DEF OfLastRun
    <3>2. run'[e].since \in Int /\ x.since \in Int
      BY <1>2, <1>5 DEF RunStates, Entries, Times
    <3>3. ~(now - x.since <= Ttl)
      BY <2>4 DEF Dispatcher!Fresh
    <3>4. now' - run'[e].since > Ttl
      BY <1>1, <1>2, <3>1, <3>2, <3>3, DispatcherAssumption
    <3> QED BY <3>4 DEF MayRepeat
  <2> QED BY <2>2, <2>3, <2>4
<1>11. ASSUME NEW e \in Dispatcher!Executions, MayRepeat(e)
       PROVE  MayRepeat(e)'
  BY <1>1, <1>2, <1>8, <1>11, MayRepeatStays
<1>12. WindowIsComplete'
  <2> SUFFICES ASSUME NEW e \in Dispatcher!Executions'
               PROVE  /\ MayRepeat(e)' \/ Dispatcher!Cached(delivery[e].command)' # {}
                      /\ \A f \in Dispatcher!RunsOf(delivery[e].command)' :
                            run'[f].since > run'[e].since => MayRepeat(e)'
    BY DEF WindowIsComplete
  <2>1. e \in Deliveries /\ run'[e].is # "none" /\ (e # d => e \in Dispatcher!Executions)
    BY <1>2 DEF Dispatcher!Executions
  <2>2. MayRepeat(e)' \/ Dispatcher!Cached(delivery[e].command)' # {}
    <3>1. CASE e = d
      BY <1>5, <1>10, <2>1, <3>1
    <3>2. CASE e # d /\ MayRepeat(e)
      BY <1>11, <2>1, <3>2
    <3>3. CASE e # d /\ ~MayRepeat(e)
      <4>1. PICK x \in cache : x.command = delivery[e].command
        BY <1>1, <2>1, <3>3 DEF WindowIsComplete, Dispatcher!Cached
      <4> QED BY <1>10, <2>1, <4>1
    <3> QED BY <3>1, <3>2, <3>3
  <2>3. ASSUME NEW f \in Dispatcher!RunsOf(delivery[e].command)', run'[f].since > run'[e].since
        PROVE  MayRepeat(e)'
    <3>1. f \in Deliveries /\ run'[f].is # "none" /\ delivery[f].command = delivery[e].command
      BY <1>2, <2>1 DEF Dispatcher!RunsOf
    <3>2. e # d
      <4> SUFFICES ASSUME e = d
                   PROVE  FALSE
        OBVIOUS
      <4>1. run'[f].since <= now
        BY <1>2, <3>1 DEF RunsFollowDeliveries
      <4>2. run'[f].since \in Int
        BY <1>2, <3>1 DEF RunStates, Times
      <4> QED BY <1>1, <1>2, <2>3, <4>1, <4>2
    <3>3. CASE f = d
      <4>1. Dispatcher!Cached(delivery[e].command) = {}
        BY <1>2, <3>1, <3>3 DEF Dispatcher!Cached
      <4>2. MayRepeat(e)
        BY <1>1, <2>1, <3>2, <4>1 DEF WindowIsComplete
      <4> QED BY <1>11, <2>1, <3>2, <4>2
    <3>4. CASE f # d
      <4>1. f \in Dispatcher!RunsOf(delivery[e].command) /\ run[f].since > run[e].since
        BY <1>2, <2>1, <2>3, <3>1, <3>2, <3>4 DEF Dispatcher!RunsOf
      <4>2. MayRepeat(e)
        BY <1>1, <2>1, <3>2, <4>1 DEF WindowIsComplete
      <4> QED BY <1>11, <2>1, <3>2, <4>2
    <3> QED BY <3>3, <3>4
  <2> QED BY <2>2, <2>3
<1> QED BY <1>2, <1>8, <1>9, <1>12 DEF DispatcherInv

-----------------------------------------------------------------------------
(* The dispatcher's invariant and what it promises.                        *)

LEMMA DispatcherStarts ==
  ASSUME Dispatcher!Init
  PROVE  DispatcherInv
<1>1. /\ now = 0 /\ accepted = 0 /\ cache = {}
      /\ delivery = [d \in Deliveries |-> Dispatcher!NoDelivery]
      /\ run = [d \in Deliveries |-> Dispatcher!NoRun]
  BY DEF Dispatcher!Init
<1>2. /\ Dispatcher!NoDelivery \in DeliveryStates /\ Dispatcher!NoDelivery.at = "out"
      /\ Dispatcher!NoRun \in RunStates /\ Dispatcher!NoRun.is = "none"
  BY DispatcherAssumption
     DEF Dispatcher!NoDelivery, Dispatcher!NoRun, DeliveryStates, RunStates, DeliveryStages, RunStages, Times
<1>3. IsFiniteSet(cache) /\ Cardinality(cache) = 0
  BY <1>1, FS_EmptySet
<1>4. DispatcherTyped
  BY <1>1, <1>2, <1>3, DispatcherAssumption DEF DispatcherTyped, Times
<1>5. RunsFollowDeliveries
  BY <1>1, <1>2 DEF RunsFollowDeliveries
<1>6. CacheIsSound
  BY <1>1 DEF CacheIsSound
<1>7. Dispatcher!Executions = {}
  BY <1>1, <1>2 DEF Dispatcher!Executions
<1>8. WindowIsComplete
  BY <1>7 DEF WindowIsComplete
<1> QED BY <1>4, <1>5, <1>6, <1>8 DEF DispatcherInv

LEMMA DispatcherStutters ==
  ASSUME DispatcherInv, UNCHANGED dispatcher
  PROVE  DispatcherInv'
<1>1. DispatcherTyped /\ RunsFollowDeliveries /\ now \in Int
  BY DispatcherHas
<1>2. /\ now' = now /\ accepted' = accepted /\ cache' = cache /\ delivery' = delivery /\ run' = run
  BY DEF dispatcher
<1>3. DispatcherTyped'
  BY <1>1, <1>2 DEF DispatcherTyped
<1>4. RunsFollowDeliveries' /\ Grows /\ Quiet
  BY <1>1, <1>2 DEF RunsFollowDeliveries, Grows, Quiet
<1> QED BY <1>2, <1>3, <1>4, WindowUntouched

LEMMA DispatcherStep ==
  ASSUME DispatcherInv, Dispatcher!Next
  PROVE  DispatcherInv'
<1>1. CASE \E s \in SessionIds : Dispatcher!AcceptSession(s)
  BY <1>1, SessionAccepted
<1>2. CASE \E d \in Deliveries : \E c \in Delivered : Dispatcher!Deliver(d, c)
  BY <1>2, Arrives
<1>3. CASE \E d \in Deliveries : Dispatcher!Mutate(d) \/ Dispatcher!Replay(d)
  BY <1>3, DecidedWithoutRun
<1>4. CASE \E d \in Deliveries : Dispatcher!Expired(d)
  BY <1>4, ExpiredIsForgotten
<1>5. CASE \E d \in Deliveries : Dispatcher!Execute(d)
  BY <1>5, RunStarts
<1>6. CASE \E d \in Deliveries : Dispatcher!Returns(d)
  BY <1>6, RunReturns
<1>7. CASE \E d \in Deliveries : Dispatcher!Throws(d)
  BY <1>7, RunThrows
<1>8. CASE Dispatcher!Tick
  BY <1>8, TimePasses
<1> QED BY <1>1, <1>2, <1>3, <1>4, <1>5, <1>6, <1>7, <1>8 DEF Dispatcher!Next

LEMMA DispatcherInvGives ==
  ASSUME DispatcherInv
  PROVE  Dispatcher!TypeOK
BY SameSize DEF DispatcherInv, DispatcherTyped, Dispatcher!TypeOK, Entries, DeliveryStates, RunStates,
       DeliveryStages, RunStages, Times

\* Only Execute starts an execution, and only Mutate hands a mutation to the ledger.
LEMMA OnlyExecuteStarts ==
  ASSUME DispatcherInv, Dispatcher!Next, NEW d \in Deliveries, Dispatcher!Starts(d)
  PROVE  Dispatcher!Execute(d)
<1>1. run \in [Deliveries -> RunStates] /\ run[d].is = "none" /\ run'[d].is = "running"
  BY DispatcherHas DEF Dispatcher!Starts
<1>2. ASSUME run' = run
      PROVE  FALSE
  BY <1>1, <1>2
<1>3. ASSUME NEW e \in Deliveries, run[e].is = "running", NEW v, v \in {"returned", "thrown"},
             run' = [run EXCEPT ![e].is = v]
      PROVE  FALSE
  <2>1. e # d
    BY <1>1, <1>3
  <2> QED BY <1>1, <1>3, <2>1
<1>4. ASSUME NEW e \in Deliveries, Dispatcher!Execute(e)
      PROVE  e = d
  BY <1>1, <1>4 DEF Dispatcher!Execute
<1>5. ~(\E s \in SessionIds : Dispatcher!AcceptSession(s)) /\ ~Dispatcher!Tick
  BY <1>2 DEF Dispatcher!AcceptSession, Dispatcher!Tick
<1>6. ASSUME NEW e \in Deliveries
      PROVE  /\ \A c \in Delivered : ~Dispatcher!Deliver(e, c)
             /\ ~Dispatcher!Mutate(e) /\ ~Dispatcher!Replay(e) /\ ~Dispatcher!Expired(e)
             /\ ~Dispatcher!Returns(e) /\ ~Dispatcher!Throws(e)
  <2>1. /\ \A c \in Delivered : ~Dispatcher!Deliver(e, c)
        /\ ~Dispatcher!Mutate(e) /\ ~Dispatcher!Replay(e) /\ ~Dispatcher!Expired(e)
    BY <1>2 DEF Dispatcher!Deliver, Dispatcher!Mutate, Dispatcher!Replay, Dispatcher!Expired
  <2>2. ~Dispatcher!Returns(e) /\ ~Dispatcher!Throws(e)
    BY <1>3 DEF Dispatcher!Returns, Dispatcher!Throws
  <2> QED BY <2>1, <2>2
<1> QED BY <1>4, <1>5, <1>6 DEF Dispatcher!Next

LEMMA OnlyMutateRecords ==
  ASSUME DispatcherInv, Dispatcher!Next, NEW d \in Deliveries,
         delivery[d].at # "ledger", delivery'[d].at = "ledger"
  PROVE  delivery[d].session = accepted
<1>1. delivery \in [Deliveries -> DeliveryStates]
  BY DispatcherHas
<1>2. delivery' # delivery
  OBVIOUS
<1>3. ASSUME NEW e \in Deliveries, NEW v \in DeliveryStages, delivery' = [delivery EXCEPT ![e].at = v]
      PROVE  e = d /\ v = "ledger"
  BY <1>1, <1>3, Advanced
<1>4. ASSUME NEW e \in Deliveries, NEW c \in Delivered, Dispatcher!Deliver(e, c)
      PROVE  FALSE
  BY <1>1, <1>4 DEF Dispatcher!Deliver
<1>5. ASSUME NEW e \in Deliveries,
             \/ Dispatcher!Replay(e) \/ Dispatcher!Expired(e) \/ Dispatcher!Execute(e)
             \/ Dispatcher!Returns(e) \/ Dispatcher!Throws(e)
      PROVE  FALSE
  <2>1. PICK v \in {"replayed", "refused", "executing", "answered"} :
               delivery' = [delivery EXCEPT ![e].at = v]
    BY <1>5 DEF Dispatcher!Replay, Dispatcher!Expired, Dispatcher!Execute, Dispatcher!Returns, Dispatcher!Throws
  <2>2. v \in DeliveryStages /\ v # "ledger"
    BY <2>1 DEF DeliveryStages
  <2> QED BY <1>3, <2>1, <2>2
<1>6. ASSUME NEW e \in Deliveries, Dispatcher!Mutate(e)
      PROVE  delivery[d].session = accepted
  <2> DEFINE v == IF Dispatcher!StillAccepted(e) THEN "ledger" ELSE "refused"
  <2>1. v \in DeliveryStages /\ delivery' = [delivery EXCEPT ![e].at = v]
    BY <1>6 DEF Dispatcher!Mutate, DeliveryStages
  <2>2. e = d /\ v = "ledger"
    BY <1>3, <2>1
  <2> QED BY <2>2 DEF Dispatcher!StillAccepted
<1>7. ~(\E s \in SessionIds : Dispatcher!AcceptSession(s)) /\ ~Dispatcher!Tick
  BY <1>2 DEF Dispatcher!AcceptSession, Dispatcher!Tick
<1> QED BY <1>4, <1>5, <1>6, <1>7 DEF Dispatcher!Next

LEMMA DispatchesOnceHolds ==
  ASSUME DispatcherInv, Dispatcher!Next
  PROVE  Dispatcher!DispatchesOnce
<1> SUFFICES ASSUME NEW d \in Deliveries
             PROVE  /\ Dispatcher!Starts(d) =>
                         \A e \in Dispatcher!RunsOf(delivery[d].command) : MayRepeat(e)
                    /\ delivery[d].at # "ledger" /\ delivery'[d].at = "ledger" =>
                         delivery[d].session = accepted
  BY DEF Dispatcher!DispatchesOnce, MayRepeat
<1>1. ASSUME Dispatcher!Starts(d), NEW e \in Dispatcher!RunsOf(delivery[d].command)
      PROVE  MayRepeat(e)
  <2>1. Dispatcher!Cached(delivery[d].command) = {}
    BY <1>1, OnlyExecuteStarts DEF Dispatcher!Execute
  <2>2. e \in Dispatcher!Executions /\ delivery[e].command = delivery[d].command
    BY RunsAre
  <2> QED BY <2>1, <2>2, DispatcherHas DEF WindowIsComplete
<1> QED BY <1>1, OnlyMutateRecords

-----------------------------------------------------------------------------
(* The executor of one attachment.                                         *)

Classes == {"safety", "authority", "liveness", "diagnostic"}
WorkPlaces == {"out", "waiting", "executing", "ended"}
Results == {"no", "executed", "failed", "closed", "replaced", "refused"}
WorkStates == [at : WorkPlaces, told : Results, clean : BOOLEAN]

\* The messages of K that are in one of the places A.
Holding(K, A, f) == {v \in K : f[v].at \in A}
OfClass(c) == {w \in Messages : ClassOf[w] = c}
OfPrincipal(p) == {w \in Messages : ClassOf[w] = "authority" /\ PrincipalOf[w] = p}
InQueue == {"waiting"}
InRun == {"executing"}
InHand == {"waiting", "executing"}

ExecutorTyped ==
  /\ queue \in [Classes -> Seq(Messages)] /\ perPrincipal \in [Principals -> Seq(Messages)]
  /\ order \in Seq(Principals) /\ cursor \in 0 .. Len(Cycle) - 1
  /\ held \in [Classes -> Nat] /\ heldBy \in [Principals -> Nat] /\ active \in [Classes -> Nat]
  /\ work \in [Messages -> WorkStates]
  /\ pump \in {"off", "scheduled", "running"} /\ closed \in BOOLEAN

\* A queue holds, once each, the messages that wait in it.
Queues(s, K, f) == Distinct(s) /\ Elements(s) = Holding(K, InQueue, f)

QueuesAreExact ==
  /\ \A c \in Classes \ {"authority"} : Queues(queue[c], OfClass(c), work)
  /\ \A p \in Principals : Queues(perPrincipal[p], OfPrincipal(p), work)

ClassAccounts ==
  \A c \in Classes : /\ held[c] = Cardinality(Holding(OfClass(c), InHand, work))
                     /\ active[c] = Cardinality(Holding(OfClass(c), InRun, work))
                     /\ active[c] <= MaxActive[c]
PrincipalAccounts == \A p \in Principals : heldBy[p] = Cardinality(Holding(OfPrincipal(p), InHand, work))

OrderIsExact ==
  Distinct(order) /\ Elements(order) = {p \in Principals : heldBy[p] > 0} /\ Seated(turn, order)

\* Something of class c may be started.
MayRun(c) == active[c] < MaxActive[c] /\ Holding(OfClass(c), InQueue, work) # {}
NoneMayRun == pump = "off" /\ ~closed => \A c \in Classes : ~MayRun(c)

ExecutorInv ==
  ExecutorTyped /\ QueuesAreExact /\ ClassAccounts /\ PrincipalAccounts /\ OrderIsExact /\ NoneMayRun

-----------------------------------------------------------------------------
LEMMA ExecutorParts ==
  /\ Executor!Classes = Classes
  /\ \A S : Executor!Cardinality(S) = Cardinality(S)
  /\ \A s : Executor!ToSet(s) = {s[i] : i \in DOMAIN s}
<1>1. ASSUME NEW S PROVE Executor!Cardinality(S) = Cardinality(S)
  BY DEF Executor!Cardinality, Cardinality, Executor!IsFiniteSet, IsFiniteSet
<1> QED BY <1>1 DEF Executor!Classes, Classes, Executor!ToSet

LEMMA ExecutorRounds ==
  ASSUME NEW s, NEW t, NEW T
  PROVE  /\ Executor!Served(s, t, T) = Served(s, t, T)
         /\ Executor!NextTurn(s, t, T) = NextTurn(s, t, T)
         /\ Executor!Kept(s, T) = Kept(s, T)
         /\ Executor!Clamped(t, T) = Clamped(t, T)
<1>1. \A i : Executor!At(s, i) = At(s, i)
  BY DEF Executor!At, At
<1>2. Executor!Distance(s, t, T) = Distance(s, t, T)
  BY <1>1 DEF Executor!Distance, Distance
<1>3. Executor!Kept(s, T) = Kept(s, T)
  <2> DEFINE P == {i \in 1 .. Len(s) : s[i] \in T}
             Nth(n) == CHOOSE f \in [1 .. n -> P] : \A i, j \in 1 .. n : i < j => f[i] < f[j]
             List(n) == [i \in 1 .. n |-> s[Nth(n)[i]]]
  <2>1. Executor!Kept(s, T) = List(Executor!Cardinality(P))
    BY DEF Executor!Kept
  <2>2. Kept(s, T) = List(Cardinality(P))
    BY DEF Kept
  <2>3. Executor!Cardinality(P) = Cardinality(P)
    BY ExecutorParts
  <2> HIDE DEF List
  <2> QED BY <2>1, <2>2, <2>3
<1>4. Executor!Served(s, t, T) = Served(s, t, T)
  BY <1>1, <1>2 DEF Executor!Served, Served
<1>5. Executor!NextTurn(s, t, T) = NextTurn(s, t, T)
  BY <1>2 DEF Executor!NextTurn, NextTurn
<1> QED BY <1>3, <1>4, <1>5 DEF Executor!Clamped, Clamped

LEMMA ElementsAre ==
  ASSUME NEW Y, NEW s \in Seq(Y)
  PROVE  /\ Executor!ToSet(s) = Elements(s) /\ Elements(s) \subseteq Y
         /\ (Elements(s) = {} <=> s = << >>)
<1>1. Len(s) \in Nat /\ DOMAIN s = 1 .. Len(s) /\ \A i \in 1 .. Len(s) : s[i] \in Y
  OBVIOUS
<1>2. s # << >> => 1 \in 1 .. Len(s)
  BY <1>1
<1>3. s = << >> => 1 .. Len(s) = {}
  OBVIOUS
<1> QED BY <1>1, <1>2, <1>3, ExecutorParts DEF Elements

LEMMA MessagesFinite ==
  ASSUME NEW K \in SUBSET Messages, NEW A, NEW f
  PROVE  IsFiniteSet(Holding(K, A, f)) /\ Cardinality(Holding(K, A, f)) \in Nat
<1>1. Holding(K, A, f) \subseteq Messages
  BY DEF Holding
<1>2. IsFiniteSet(Holding(K, A, f))
  BY <1>1, ExecutorAssumption, FS_Subset
<1> QED BY <1>2, FS_CardinalityType

\* One message moves, at most.
OnlyMoves(w, f, g) == \A v \in Messages \ {w} : g[v].at = f[v].at

LEMMA Moved ==
  ASSUME NEW f, NEW g, NEW w \in Messages, NEW K \in SUBSET Messages, NEW A, OnlyMoves(w, f, g)
  PROVE  /\ (w \notin K \/ (f[w].at \in A <=> g[w].at \in A)) => Holding(K, A, g) = Holding(K, A, f)
         /\ w \in K /\ f[w].at \notin A /\ g[w].at \in A =>
              /\ w \notin Holding(K, A, f) /\ Holding(K, A, g) = Holding(K, A, f) \cup {w}
              /\ Cardinality(Holding(K, A, g)) = Cardinality(Holding(K, A, f)) + 1
         /\ w \in K /\ f[w].at \in A /\ g[w].at \notin A =>
              /\ w \in Holding(K, A, f) /\ Holding(K, A, g) = Holding(K, A, f) \ {w}
              /\ Cardinality(Holding(K, A, g)) = Cardinality(Holding(K, A, f)) - 1
<1>1. (w \notin K \/ (f[w].at \in A <=> g[w].at \in A)) => Holding(K, A, g) = Holding(K, A, f)
  BY DEF Holding, OnlyMoves
<1>2. w \in K /\ f[w].at \notin A /\ g[w].at \in A =>
        w \notin Holding(K, A, f) /\ Holding(K, A, g) = Holding(K, A, f) \cup {w}
  BY DEF Holding, OnlyMoves
<1>3. w \in K /\ f[w].at \in A /\ g[w].at \notin A =>
        w \in Holding(K, A, f) /\ Holding(K, A, g) = Holding(K, A, f) \ {w}
  BY DEF Holding, OnlyMoves
<1>4. IsFiniteSet(Holding(K, A, f))
  BY MessagesFinite
<1>5. w \in K /\ f[w].at \notin A /\ g[w].at \in A =>
        Cardinality(Holding(K, A, g)) = Cardinality(Holding(K, A, f)) + 1
  BY <1>2, <1>4, FS_AddElement
<1>6. w \in K /\ f[w].at \in A /\ g[w].at \notin A =>
        Cardinality(Holding(K, A, g)) = Cardinality(Holding(K, A, f)) - 1
  BY <1>3, <1>4, FS_RemoveElement
<1> QED BY <1>1, <1>2, <1>3, <1>5, <1>6

\* The sets of the classes and of the principals.
LEMMA GroupsAre ==
  /\ \A c \in Classes : OfClass(c) \in SUBSET Messages
  /\ \A p \in Principals : OfPrincipal(p) \in SUBSET Messages
  /\ \A w \in Messages : /\ ClassOf[w] \in Classes
                         /\ \A c \in Classes : w \in OfClass(c) <=> c = ClassOf[w]
                         /\ ClassOf[w] = "authority" => PrincipalOf[w] \in Principals
                         /\ \A p \in Principals : w \in OfPrincipal(p) <=>
                              ClassOf[w] = "authority" /\ p = PrincipalOf[w]
BY ExecutorAssumption, ExecutorParts DEF OfClass, OfPrincipal

-----------------------------------------------------------------------------
LEMMA WaitingIs ==
  ASSUME ExecutorTyped, QueuesAreExact, NEW c \in Classes
  PROVE  /\ Executor!WaitingOf(c) = Holding(OfClass(c), InQueue, work)
         /\ Executor!Ready(c) <=> MayRun(c)
<1>1. Executor!WaitingOf(c) = Holding(OfClass(c), InQueue, work)
  <2>1. CASE c # "authority"
    <3>1. Executor!ToSet(queue[c]) = Elements(queue[c])
      BY ElementsAre DEF ExecutorTyped
    <3> QED BY <2>1, <3>1 DEF Executor!WaitingOf, QueuesAreExact, Queues
  <2>2. CASE c = "authority"
    <3>1. \A p \in Principals : Executor!ToSet(perPrincipal[p]) = Holding(OfPrincipal(p), InQueue, work)
      BY ElementsAre DEF ExecutorTyped, QueuesAreExact, Queues
    <3>2. Executor!WaitingOf(c) = UNION {Holding(OfPrincipal(p), InQueue, work) : p \in Principals}
      BY <2>2, <3>1 DEF Executor!WaitingOf
    <3>3. \A w \in Messages : w \in OfClass(c) <=> \E p \in Principals : w \in OfPrincipal(p)
      BY <2>2, GroupsAre
    <3>4. OfClass(c) \subseteq Messages /\ \A p \in Principals : OfPrincipal(p) \subseteq Messages
      BY GroupsAre
    <3> QED BY <3>2, <3>3, <3>4 DEF Holding
  <2> QED BY <2>1, <2>2
<1> QED BY <1>1 DEF Executor!Ready, MayRun

LEMMA SameHolding ==
  ASSUME NEW w \in Messages, OnlyMoves(w, work, work'), work[w].at \notin InHand, work'[w].at \notin InHand,
         NEW K \in SUBSET Messages
  PROVE  /\ Holding(K, InQueue, work') = Holding(K, InQueue, work)
         /\ Holding(K, InRun, work') = Holding(K, InRun, work)
         /\ Holding(K, InHand, work') = Holding(K, InHand, work)
BY Moved DEF InQueue, InRun, InHand

\* The steps that change no queue and no account.
Resting == UNCHANGED <<queue, perPrincipal, order, turn, cursor, held, heldBy, active>>

LEMMA Rested ==
  ASSUME ExecutorInv, Resting, NEW w \in Messages, OnlyMoves(w, work, work'),
         work[w].at \notin InHand, work'[w].at \notin InHand
  PROVE  /\ QueuesAreExact' /\ ClassAccounts' /\ PrincipalAccounts' /\ OrderIsExact'
         /\ UNCHANGED <<pump, closed>> => NoneMayRun'
<1>1. /\ \A c \in Classes : /\ Holding(OfClass(c), InQueue, work') = Holding(OfClass(c), InQueue, work)
                            /\ Holding(OfClass(c), InRun, work') = Holding(OfClass(c), InRun, work)
                            /\ Holding(OfClass(c), InHand, work') = Holding(OfClass(c), InHand, work)
      /\ \A p \in Principals : /\ Holding(OfPrincipal(p), InQueue, work') = Holding(OfPrincipal(p), InQueue, work)
                               /\ Holding(OfPrincipal(p), InHand, work') = Holding(OfPrincipal(p), InHand, work)
  BY SameHolding, GroupsAre
<1>2. QueuesAreExact'
  BY <1>1 DEF ExecutorInv, QueuesAreExact, Queues, Resting
<1>3. ClassAccounts'
  BY <1>1 DEF ExecutorInv, ClassAccounts, Resting
<1>4. PrincipalAccounts'
  BY <1>1 DEF ExecutorInv, PrincipalAccounts, Resting
<1>5. OrderIsExact'
  BY DEF ExecutorInv, OrderIsExact, Resting
<1>6. UNCHANGED <<pump, closed>> => NoneMayRun'
  BY <1>1 DEF ExecutorInv, NoneMayRun, MayRun, Resting
<1> QED BY <1>2, <1>3, <1>4, <1>5, <1>6

LEMMA ScheduledRests ==
  ASSUME ExecutorTyped, pump' = Executor!Scheduled, UNCHANGED closed
  PROVE  NoneMayRun' /\ pump' \in {"off", "scheduled", "running"}
BY DEF Executor!Scheduled, NoneMayRun, ExecutorTyped

\* What Told does to the messages.
Tells(g, ws, place) ==
  /\ g \in [Messages -> WorkStates]
  /\ \A v \in Messages : g[v].at = (IF v \in ws THEN place ELSE work[v].at)
  /\ \A v \in Messages : work[v].told # "no" => g[v].told = work[v].told
  /\ \A v \in Messages : v \notin ws => g[v] = work[v]

LEMMA ToldIs ==
  ASSUME work \in [Messages -> WorkStates], NEW ws \in SUBSET Messages, NEW what \in Results,
         NEW place \in WorkPlaces, NEW clean \in BOOLEAN, NEW g, g = Executor!Told(ws, what, place, clean)
  PROVE  Tells(g, ws, place)
<1>1. g = [v \in Messages |-> IF v \in ws THEN [at |-> place, told |-> IF work[v].told = "no" THEN what
                                                ELSE work[v].told, clean |-> clean]
                              ELSE work[v]]
  BY DEF Executor!Told
<1>2. \A v \in Messages : work[v] \in WorkStates /\ work[v].told \in Results
  <2>1. \A v \in Messages : work[v] \in WorkStates
    OBVIOUS
  <2>2. \A r \in WorkStates : r.told \in Results
    BY DEF WorkStates
  <2> QED BY <2>1, <2>2
<1>3. g \in [Messages -> WorkStates]
  <2> SUFFICES ASSUME NEW v \in Messages
               PROVE  (IF v \in ws THEN [at |-> place, told |-> IF work[v].told = "no" THEN what
                                         ELSE work[v].told, clean |-> clean] ELSE work[v]) \in WorkStates
    BY <1>1
  <2> DEFINE said == IF work[v].told = "no" THEN what ELSE work[v].told
  <2>1. said \in Results /\ work[v] \in WorkStates
    BY <1>2
  <2> HIDE DEF said
  <2>2. [at |-> place, told |-> said, clean |-> clean] \in WorkStates
    BY <2>1 DEF WorkStates
  <2> QED BY <2>1, <2>2 DEF said
<1>4. ASSUME NEW v \in Messages
      PROVE  /\ g[v].at = (IF v \in ws THEN place ELSE work[v].at)
             /\ work[v].told # "no" => g[v].told = work[v].told
             /\ v \notin ws => g[v] = work[v]
  BY <1>1
<1> QED BY <1>3, <1>4 DEF Tells

LEMMA ExecutorAnswers ==
  ASSUME ExecutorInv, NEW w \in Messages, Executor!SubmitAnswered(w)
  PROVE  ExecutorInv'
<1> DEFINE what == IF closed THEN "closed" ELSE "refused"
<1>1. /\ work[w].at = "out" /\ work' = Executor!Told({w}, what, "ended", TRUE)
      /\ UNCHANGED <<pump, closed>>
  BY DEF Executor!SubmitAnswered
<1>2. Resting
  BY DEF Resting, Executor!SubmitAnswered, Executor!queues, Executor!accounts
<1>3. what \in Results /\ "ended" \in WorkPlaces
  BY DEF Results, WorkPlaces
<1> HIDE DEF what
<1>4. Tells(work', {w}, "ended")
  <2>1. work \in [Messages -> WorkStates] /\ {w} \in SUBSET Messages /\ TRUE \in BOOLEAN
    BY DEF ExecutorInv, ExecutorTyped
  <2> QED BY <1>1, <1>3, <2>1, ToldIs, Zenon
<1>5. OnlyMoves(w, work, work') /\ work[w].at \notin InHand /\ work'[w].at \notin InHand
  BY <1>1, <1>4 DEF Tells, OnlyMoves, InHand
<1>6. ExecutorTyped'
  BY <1>1, <1>2, <1>4 DEF Tells, ExecutorInv, ExecutorTyped, Resting
<1> QED BY <1>1, <1>2, <1>5, <1>6, Rested DEF ExecutorInv

LEMMA ExecutorForgets ==
  ASSUME ExecutorInv, NEW w \in Messages, Executor!Forget(w)
  PROVE  ExecutorInv'
<1>1. /\ work[w].at = "ended" /\ work' = [work EXCEPT ![w] = Executor!NoWork] /\ UNCHANGED <<pump, closed>>
  BY DEF Executor!Forget
<1>2. Resting
  BY DEF Resting, Executor!Forget, Executor!queues, Executor!accounts
<1>3. Executor!NoWork \in WorkStates /\ Executor!NoWork.at = "out"
  BY DEF Executor!NoWork, WorkStates, WorkPlaces, Results
<1>4. work' \in [Messages -> WorkStates]
  BY <1>1, <1>3 DEF ExecutorInv, ExecutorTyped
<1>5. OnlyMoves(w, work, work') /\ work[w].at \notin InHand /\ work'[w].at \notin InHand
  BY <1>1, <1>3 DEF OnlyMoves, InHand, ExecutorInv, ExecutorTyped
<1>6. ExecutorTyped'
  BY <1>1, <1>2, <1>4 DEF ExecutorInv, ExecutorTyped, Resting
<1> QED BY <1>1, <1>2, <1>5, <1>6, Rested DEF ExecutorInv

LEMMA ExecutorPumpStarts ==
  ASSUME ExecutorInv, Executor!PumpStarts
  PROVE  ExecutorInv'
<1>1. Resting /\ work' = work /\ UNCHANGED closed
  BY DEF Executor!PumpStarts, Resting, Executor!queues, Executor!accounts
<1>2. /\ pump' \in {"off", "scheduled", "running"}
      /\ pump' = "off" => closed
  BY DEF Executor!PumpStarts
<1>3. ExecutorTyped'
  BY <1>1, <1>2 DEF ExecutorInv, ExecutorTyped, Resting
<1>4. QueuesAreExact' /\ ClassAccounts' /\ PrincipalAccounts' /\ OrderIsExact'
  BY <1>1 DEF ExecutorInv, QueuesAreExact, ClassAccounts, PrincipalAccounts, OrderIsExact, Resting
<1>5. NoneMayRun'
  BY <1>1, <1>2 DEF NoneMayRun
<1> QED BY <1>3, <1>4, <1>5 DEF ExecutorInv

LEMMA ExecutorPumpEnds ==
  ASSUME ExecutorInv, Executor!PumpEnds
  PROVE  ExecutorInv'
<1>1. Resting /\ work' = work /\ UNCHANGED closed /\ pump' = "off"
  BY DEF Executor!PumpEnds, Resting, Executor!queues, Executor!accounts
<1>2. \A c \in Classes : ~Executor!Ready(c)
  BY ExecutorParts DEF Executor!PumpEnds, Executor!Eligible
<1>3. ExecutorTyped'
  BY <1>1 DEF ExecutorInv, ExecutorTyped, Resting
<1>4. QueuesAreExact' /\ ClassAccounts' /\ PrincipalAccounts' /\ OrderIsExact'
  BY <1>1 DEF ExecutorInv, QueuesAreExact, ClassAccounts, PrincipalAccounts, OrderIsExact, Resting
<1>5. \A c \in Classes : ~MayRun(c)
  BY <1>2, WaitingIs DEF ExecutorInv
<1>6. NoneMayRun'
  BY <1>1, <1>5 DEF NoneMayRun, MayRun, Resting
<1> QED BY <1>3, <1>4, <1>6 DEF ExecutorInv

-----------------------------------------------------------------------------
(* A message is admitted.                                                  *)

\* What a step does to the messages of K: nothing, or w joins those that wait.
Undisturbed(K) == /\ Holding(K, InQueue, work') = Holding(K, InQueue, work)
             /\ Holding(K, InRun, work') = Holding(K, InRun, work)
             /\ Holding(K, InHand, work') = Holding(K, InHand, work)
Joins(w, K) == /\ w \notin Holding(K, InQueue, work)
               /\ Holding(K, InQueue, work') = Holding(K, InQueue, work) \cup {w}
               /\ Holding(K, InRun, work') = Holding(K, InRun, work)
               /\ Cardinality(Holding(K, InHand, work')) = Cardinality(Holding(K, InHand, work)) + 1

LEMMA AdmittedTo ==
  ASSUME NEW w \in Messages, OnlyMoves(w, work, work'), work[w].at = "out", work'[w].at = "waiting",
         NEW K \in SUBSET Messages
  PROVE  (w \notin K => Undisturbed(K)) /\ (w \in K => Joins(w, K))
<1>1. /\ work[w].at \notin InRun /\ work'[w].at \notin InRun
      /\ work[w].at \notin InQueue /\ work'[w].at \in InQueue
      /\ work[w].at \notin InHand /\ work'[w].at \in InHand
  BY DEF InRun, InQueue, InHand
<1>2. w \notin K => Undisturbed(K)
  BY Moved DEF Undisturbed
<1>3. w \in K => /\ w \notin Holding(K, InQueue, work)
                 /\ Holding(K, InQueue, work') = Holding(K, InQueue, work) \cup {w}
  BY <1>1, Moved
<1>4. Holding(K, InRun, work') = Holding(K, InRun, work)
  BY <1>1, Moved
<1>5. w \in K => Cardinality(Holding(K, InHand, work')) = Cardinality(Holding(K, InHand, work)) + 1
  BY <1>1, Moved
<1> QED BY <1>2, <1>3, <1>4, <1>5 DEF Joins

LEMMA ExecutorAdmits ==
  ASSUME ExecutorInv, NEW w \in Messages, Executor!Admit(w)
  PROVE  ExecutorInv'
<1> DEFINE c0 == ClassOf[w]
           p0 == PrincipalOf[w]
<1>1. /\ work[w].at = "out" /\ work' = [work EXCEPT ![w].at = "waiting"]
      /\ held' = [held EXCEPT ![c0] = @ + 1] /\ pump' = Executor!Scheduled
      /\ UNCHANGED <<turn, cursor, active, closed>>
  BY DEF Executor!Admit
<1>2. c0 \in Classes /\ (c0 = "authority" => p0 \in Principals)
  BY GroupsAre
<1>3. work' \in [Messages -> WorkStates]
  <2>1. "waiting" \in WorkPlaces
    BY DEF WorkPlaces
  <2> QED BY <1>1, <2>1, Zenon DEF ExecutorInv, ExecutorTyped, WorkStates
<1>4. OnlyMoves(w, work, work') /\ work'[w].at = "waiting"
  BY <1>1 DEF OnlyMoves, ExecutorInv, ExecutorTyped, WorkStates
<1>5. /\ held' \in [Classes -> Nat] /\ held'[c0] = held[c0] + 1
      /\ \A c \in Classes : c # c0 => held'[c] = held[c]
  BY <1>1, <1>2 DEF ExecutorInv, ExecutorTyped
<1> HIDE DEF c0, p0
<1>6. Joins(w, OfClass(c0)) /\ \A c \in Classes : c # c0 => Undisturbed(OfClass(c))
  BY <1>1, <1>2, <1>4, GroupsAre, AdmittedTo DEF c0
<1>7. \A p \in Principals : (w \in OfPrincipal(p) => Joins(w, OfPrincipal(p)))
                            /\ (w \notin OfPrincipal(p) => Undisturbed(OfPrincipal(p)))
  BY <1>1, <1>4, GroupsAre, AdmittedTo
<1>8. ClassAccounts'
  <2> SUFFICES ASSUME NEW c \in Classes
               PROVE  /\ held'[c] = Cardinality(Holding(OfClass(c), InHand, work'))
                      /\ active'[c] = Cardinality(Holding(OfClass(c), InRun, work'))
                      /\ active'[c] <= MaxActive[c]
    BY DEF ClassAccounts
  <2>1. /\ held[c] = Cardinality(Holding(OfClass(c), InHand, work))
        /\ active[c] = Cardinality(Holding(OfClass(c), InRun, work))
        /\ active[c] <= MaxActive[c]
    BY DEF ExecutorInv, ClassAccounts
  <2>2. CASE c = c0
    BY <1>1, <1>5, <1>6, <2>1, <2>2 DEF Joins
  <2>3. CASE c # c0
    BY <1>1, <1>5, <1>6, <2>1, <2>3 DEF Undisturbed
  <2> QED BY <2>2, <2>3
<1>9. NoneMayRun' /\ pump' \in {"off", "scheduled", "running"}
  BY <1>1, ScheduledRests DEF ExecutorInv
<1>10. CASE c0 # "authority"
  <2>1. /\ queue' = [queue EXCEPT ![c0] = Append(@, w)]
        /\ UNCHANGED <<perPrincipal, order, heldBy>>
    BY <1>10 DEF Executor!Admit, Executor!IsAuthority, c0
  <2>2. /\ Append(queue[c0], w) \in Seq(Messages)
        /\ Elements(Append(queue[c0], w)) = Elements(queue[c0]) \cup {w}
        /\ w \notin Elements(queue[c0]) /\ Distinct(queue[c0]) => Distinct(Append(queue[c0], w))
    BY <1>2, Appended DEF ExecutorInv, ExecutorTyped
  <2>3. /\ queue' \in [Classes -> Seq(Messages)] /\ queue'[c0] = Append(queue[c0], w)
        /\ \A c \in Classes : c # c0 => queue'[c] = queue[c]
    BY <1>2, <2>1, <2>2 DEF ExecutorInv, ExecutorTyped
  <2>4. ExecutorTyped'
    BY <1>1, <1>3, <1>5, <1>9, <2>1, <2>3 DEF ExecutorInv, ExecutorTyped
  <2>5. \A c \in Classes \ {"authority"} : Queues(queue'[c], OfClass(c), work')
    <3>1. Queues(queue'[c0], OfClass(c0), work')
      BY <1>2, <1>10, <1>6, <2>2, <2>3 DEF Joins, ExecutorInv, QueuesAreExact, Queues
    <3>2. ASSUME NEW c \in Classes \ {"authority"}, c # c0
          PROVE  Queues(queue'[c], OfClass(c), work')
      BY <1>6, <3>2, <2>3 DEF Undisturbed, ExecutorInv, QueuesAreExact, Queues
    <3> QED BY <3>1, <3>2
  <2>6. \A p \in Principals : w \notin OfPrincipal(p)
    BY <1>10, GroupsAre DEF c0
  <2>7. \A p \in Principals : /\ Holding(OfPrincipal(p), InQueue, work') = Holding(OfPrincipal(p), InQueue, work)
                              /\ Holding(OfPrincipal(p), InHand, work') = Holding(OfPrincipal(p), InHand, work)
    BY <1>7, <2>6 DEF Undisturbed
  <2>8. QueuesAreExact'
    BY <2>1, <2>5, <2>7 DEF ExecutorInv, QueuesAreExact, Queues
  <2>9. PrincipalAccounts'
    BY <2>1, <2>7 DEF ExecutorInv, PrincipalAccounts
  <2>10. OrderIsExact'
    BY <1>1, <2>1 DEF ExecutorInv, OrderIsExact
  <2> QED BY <1>8, <1>9, <2>4, <2>8, <2>9, <2>10 DEF ExecutorInv
<1>11. CASE c0 = "authority"
  <2>1. /\ perPrincipal' = [perPrincipal EXCEPT ![p0] = Append(@, w)]
        /\ order' = (IF heldBy[p0] = 0 THEN Append(order, p0) ELSE order)
        /\ heldBy' = [heldBy EXCEPT ![p0] = @ + 1] /\ UNCHANGED queue
    BY <1>11 DEF Executor!Admit, Executor!IsAuthority, c0, p0
  <2>2. /\ p0 \in Principals /\ w \in OfPrincipal(p0) /\ perPrincipal[p0] \in Seq(Messages)
        /\ \A p \in Principals : p # p0 => w \notin OfPrincipal(p)
    BY <1>2, <1>11, GroupsAre DEF ExecutorInv, ExecutorTyped, c0, p0
  <2>3. /\ Append(perPrincipal[p0], w) \in Seq(Messages)
        /\ Elements(Append(perPrincipal[p0], w)) = Elements(perPrincipal[p0]) \cup {w}
        /\ w \notin Elements(perPrincipal[p0]) /\ Distinct(perPrincipal[p0])
             => Distinct(Append(perPrincipal[p0], w))
    BY <2>2, Appended
  <2>4. /\ perPrincipal' \in [Principals -> Seq(Messages)] /\ perPrincipal'[p0] = Append(perPrincipal[p0], w)
        /\ \A p \in Principals : p # p0 => perPrincipal'[p] = perPrincipal[p]
    BY <2>1, <2>2, <2>3 DEF ExecutorInv, ExecutorTyped
  <2>5. /\ heldBy' \in [Principals -> Nat] /\ heldBy'[p0] = heldBy[p0] + 1 /\ heldBy[p0] \in Nat
        /\ \A p \in Principals : p # p0 => heldBy'[p] = heldBy[p]
    BY <2>1, <2>2 DEF ExecutorInv, ExecutorTyped
  <2>6. \A c \in Classes \ {"authority"} : Queues(queue'[c], OfClass(c), work')
    BY <1>11, <1>6, <2>1 DEF Undisturbed, ExecutorInv, QueuesAreExact, Queues
  <2>7. \A p \in Principals : Queues(perPrincipal'[p], OfPrincipal(p), work')
    <3>1. Queues(perPrincipal'[p0], OfPrincipal(p0), work')
      BY <1>7, <2>2, <2>3, <2>4 DEF Joins, ExecutorInv, QueuesAreExact, Queues
    <3>2. ASSUME NEW p \in Principals, p # p0
          PROVE  Queues(perPrincipal'[p], OfPrincipal(p), work')
      BY <1>7, <3>2, <2>2, <2>4 DEF Undisturbed, ExecutorInv, QueuesAreExact, Queues
    <3> QED BY <3>1, <3>2
  <2>8. PrincipalAccounts'
    <3>1. heldBy'[p0] = Cardinality(Holding(OfPrincipal(p0), InHand, work'))
      BY <1>7, <2>2, <2>5 DEF Joins, ExecutorInv, PrincipalAccounts
    <3>2. \A p \in Principals : p # p0 => heldBy'[p] = Cardinality(Holding(OfPrincipal(p), InHand, work'))
      BY <1>7, <2>2, <2>5 DEF Undisturbed, ExecutorInv, PrincipalAccounts
    <3> QED BY <3>1, <3>2 DEF PrincipalAccounts
  <2>9. order' \in Seq(Principals) /\ OrderIsExact'
    <3>1. {p \in Principals : heldBy'[p] > 0} = {p \in Principals : heldBy[p] > 0} \cup {p0}
      BY <2>2, <2>5
    <3>2. order \in Seq(Principals)
      BY DEF ExecutorInv, ExecutorTyped
    <3>3. CASE heldBy[p0] = 0
      <4>1. /\ order' = Append(order, p0) /\ p0 \notin Elements(order) /\ Distinct(order)
        BY <2>1, <3>3 DEF ExecutorInv, OrderIsExact
      <4>2. /\ order' \in Seq(Principals) /\ Len(order') = Len(order) + 1 /\ Distinct(order')
            /\ Elements(order') = Elements(order) \cup {p0}
        BY <2>2, <3>2, <4>1, Appended
      <4>3. Seated(turn', order')
        <5>1. Len(order) \in Nat /\ turn \in Nat /\ (turn < Len(order) \/ turn = 0)
          BY <3>2 DEF ExecutorInv, OrderIsExact, Seated
        <5> QED BY <1>1, <4>2, <5>1 DEF Seated
      <4> QED BY <3>1, <4>2, <4>3 DEF ExecutorInv, OrderIsExact
    <3>4. CASE heldBy[p0] # 0
      <4>1. order' = order /\ {p \in Principals : heldBy'[p] > 0} = {p \in Principals : heldBy[p] > 0}
        BY <2>1, <2>2, <2>5, <3>1, <3>4
      <4> QED BY <1>1, <3>2, <4>1 DEF ExecutorInv, OrderIsExact
    <3> QED BY <3>3, <3>4
  <2>10. ExecutorTyped'
    BY <1>1, <1>3, <1>5, <1>9, <2>1, <2>4, <2>5, <2>9 DEF ExecutorInv, ExecutorTyped
  <2>11. QueuesAreExact'
    BY <2>6, <2>7 DEF QueuesAreExact
  <2> QED BY <1>8, <1>9, <2>8, <2>9, <2>10, <2>11 DEF ExecutorInv
<1> QED BY <1>10, <1>11

-----------------------------------------------------------------------------
(* A message takes the place of one that waits.                            *)

LEMMA ReplacedIn ==
  ASSUME NEW g, NEW v \in Messages, NEW w \in Messages, v # w, OnlyMoves(v, work, g), OnlyMoves(w, g, work'),
         work[v].at = "waiting", g[v].at = "ended", work[w].at = "out", work'[w].at = "waiting",
         NEW K \in SUBSET Messages
  PROVE  /\ v \notin K /\ w \notin K => Undisturbed(K)
         /\ v \in K /\ w \in K =>
              /\ Holding(K, InQueue, work') = (Holding(K, InQueue, work) \ {v}) \cup {w}
              /\ v \in Holding(K, InQueue, work) /\ w \notin Holding(K, InQueue, work)
              /\ Holding(K, InRun, work') = Holding(K, InRun, work)
              /\ Cardinality(Holding(K, InHand, work')) = Cardinality(Holding(K, InHand, work))
<1>1. /\ work[v].at \notin InRun /\ g[v].at \notin InRun
      /\ work[v].at \in InQueue /\ g[v].at \notin InQueue
      /\ work[v].at \in InHand /\ g[v].at \notin InHand
  BY DEF InRun, InQueue, InHand
<1>2. g[w].at = "out" /\ work[w].at = "out"
  BY DEF OnlyMoves
<1>3. /\ g[w].at \notin InRun /\ work'[w].at \notin InRun
      /\ g[w].at \notin InQueue /\ work'[w].at \in InQueue
      /\ g[w].at \notin InHand /\ work'[w].at \in InHand
  BY <1>2 DEF InRun, InQueue, InHand
<1>4. v \notin K /\ w \notin K => Undisturbed(K)
  <2> SUFFICES ASSUME v \notin K, w \notin K
               PROVE  Undisturbed(K)
    OBVIOUS
  <2>1. \A A : Holding(K, A, g) = Holding(K, A, work)
    BY Moved
  <2>2. \A A : Holding(K, A, work') = Holding(K, A, g)
    BY Moved
  <2> QED BY <2>1, <2>2 DEF Undisturbed
<1>5. ASSUME v \in K, w \in K
      PROVE  /\ Holding(K, InQueue, work') = (Holding(K, InQueue, work) \ {v}) \cup {w}
             /\ v \in Holding(K, InQueue, work) /\ w \notin Holding(K, InQueue, work)
             /\ Holding(K, InRun, work') = Holding(K, InRun, work)
             /\ Cardinality(Holding(K, InHand, work')) = Cardinality(Holding(K, InHand, work))
  <2>1. v \in Holding(K, InQueue, work) /\ Holding(K, InQueue, g) = Holding(K, InQueue, work) \ {v}
    BY <1>1, <1>5, Moved
  <2>2. w \notin Holding(K, InQueue, g) /\ Holding(K, InQueue, work') = Holding(K, InQueue, g) \cup {w}
    BY <1>3, <1>5, Moved
  <2>3. Holding(K, InRun, g) = Holding(K, InRun, work) /\ Holding(K, InRun, work') = Holding(K, InRun, g)
    BY <1>1, <1>3, Moved
  <2>4. Cardinality(Holding(K, InHand, g)) = Cardinality(Holding(K, InHand, work)) - 1
    BY <1>1, <1>5, Moved
  <2>5. Cardinality(Holding(K, InHand, work')) = Cardinality(Holding(K, InHand, g)) + 1
    BY <1>3, <1>5, Moved
  <2>6. Cardinality(Holding(K, InHand, work')) = Cardinality(Holding(K, InHand, work))
    <3>1. Cardinality(Holding(K, InHand, work)) \in Nat
      BY MessagesFinite
    <3> QED BY <2>4, <2>5, <3>1
  <2> QED BY <2>1, <2>2, <2>3, <2>6
<1> QED BY <1>4, <1>5

LEMMA ExecutorReplaces ==
  ASSUME ExecutorInv, NEW w \in Messages, Executor!Replace(w)
  PROVE  ExecutorInv'
<1>1. /\ work[w].at = "out" /\ pump' = Executor!Scheduled /\ UNCHANGED closed
      /\ UNCHANGED <<perPrincipal, order, turn, cursor, held, heldBy, active>>
  BY DEF Executor!Replace, Executor!accounts
<1>2. PICK v \in Executor!Prior(w) :
        /\ queue' = [queue EXCEPT ![ClassOf[w]] = [i \in DOMAIN @ |-> IF @[i] = v THEN w ELSE @[i]]]
        /\ work' = [Executor!Told({v}, "replaced", "ended", TRUE) EXCEPT ![w].at = "waiting"]
  BY DEF Executor!Replace
<1> DEFINE c0 == ClassOf[w]
           g == Executor!Told({v}, "replaced", "ended", TRUE)
           r == [i \in DOMAIN queue[c0] |-> IF queue[c0][i] = v THEN w ELSE queue[c0][i]]
<1>3. /\ v \in Messages /\ work[v].at = "waiting" /\ ClassOf[v] = c0 /\ c0 # "authority" /\ v # w
  BY <1>1 DEF Executor!Prior, Executor!Coalesced
<1>4. Tells(g, {v}, "ended")
  <2>1. work \in [Messages -> WorkStates] /\ {v} \in SUBSET Messages /\ TRUE \in BOOLEAN
    BY <1>3 DEF ExecutorInv, ExecutorTyped
  <2>2. "replaced" \in Results /\ "ended" \in WorkPlaces
    BY DEF Results, WorkPlaces
  <2> QED BY <2>1, <2>2, ToldIs, Zenon
<1>5. work' = [g EXCEPT ![w].at = "waiting"] /\ queue' = [queue EXCEPT ![c0] = r]
  BY <1>2
<1> HIDE DEF g, r
<1>6. work' \in [Messages -> WorkStates]
  <2>1. "waiting" \in WorkPlaces
    BY DEF WorkPlaces
  <2>2. g \in [Messages -> WorkStates]
    BY <1>4 DEF Tells
  <2> QED BY <1>5, <2>1, <2>2, Zenon DEF WorkStates
<1>7. OnlyMoves(v, work, g) /\ g[v].at = "ended"
  BY <1>3, <1>4 DEF Tells, OnlyMoves
<1>8. OnlyMoves(w, g, work') /\ work'[w].at = "waiting"
  BY <1>4, <1>5 DEF Tells, OnlyMoves, WorkStates
<1>9. c0 \in Classes
  BY GroupsAre
<1>10. /\ Holding(OfClass(c0), InQueue, work') = (Holding(OfClass(c0), InQueue, work) \ {v}) \cup {w}
       /\ v \in Holding(OfClass(c0), InQueue, work) /\ w \notin Holding(OfClass(c0), InQueue, work)
       /\ Holding(OfClass(c0), InRun, work') = Holding(OfClass(c0), InRun, work)
       /\ Cardinality(Holding(OfClass(c0), InHand, work')) = Cardinality(Holding(OfClass(c0), InHand, work))
  <2>1. OfClass(c0) \in SUBSET Messages /\ v \in OfClass(c0) /\ w \in OfClass(c0)
    BY <1>3, <1>9, GroupsAre
  <2> QED BY <1>1, <1>3, <1>7, <1>8, <2>1, ReplacedIn
<1>11. \A c \in Classes : c # c0 => Undisturbed(OfClass(c))
  <2> SUFFICES ASSUME NEW c \in Classes, c # c0
               PROVE  Undisturbed(OfClass(c))
    OBVIOUS
  <2>1. OfClass(c) \in SUBSET Messages /\ v \notin OfClass(c) /\ w \notin OfClass(c)
    BY <1>3, GroupsAre
  <2> QED BY <1>1, <1>3, <1>7, <1>8, <2>1, ReplacedIn
<1>12. \A p \in Principals : Undisturbed(OfPrincipal(p))
  <2> SUFFICES ASSUME NEW p \in Principals
               PROVE  Undisturbed(OfPrincipal(p))
    OBVIOUS
  <2>1. OfPrincipal(p) \in SUBSET Messages /\ v \notin OfPrincipal(p) /\ w \notin OfPrincipal(p)
    BY <1>3, GroupsAre
  <2> QED BY <1>1, <1>3, <1>7, <1>8, <2>1, ReplacedIn
<1>13. queue[c0] \in Seq(Messages) /\ Distinct(queue[c0]) /\ Elements(queue[c0]) = Holding(OfClass(c0), InQueue, work)
  BY <1>3, <1>9 DEF ExecutorInv, ExecutorTyped, QueuesAreExact, Queues
<1>14. r \in Seq(Messages) /\ Distinct(r) /\ Elements(r) = (Elements(queue[c0]) \ {v}) \cup {w}
  <2>1. v \in Elements(queue[c0]) /\ w \notin Elements(queue[c0])
    BY <1>10, <1>13
  <2> HIDE DEF c0
  <2> QED BY <1>13, <2>1, PlaceTaken DEF r
<1>15. /\ queue' \in [Classes -> Seq(Messages)] /\ queue'[c0] = r
       /\ \A c \in Classes : c # c0 => queue'[c] = queue[c]
  BY <1>5, <1>9, <1>14 DEF ExecutorInv, ExecutorTyped
<1> HIDE DEF c0
<1>16. QueuesAreExact'
  <2>1. Queues(queue'[c0], OfClass(c0), work')
    BY <1>10, <1>13, <1>14, <1>15 DEF Queues
  <2>2. ASSUME NEW c \in Classes \ {"authority"}, c # c0
        PROVE  Queues(queue'[c], OfClass(c), work')
    BY <1>11, <1>15, <2>2 DEF Undisturbed, ExecutorInv, QueuesAreExact, Queues
  <2>3. \A p \in Principals : Queues(perPrincipal'[p], OfPrincipal(p), work')
    BY <1>1, <1>12 DEF Undisturbed, ExecutorInv, QueuesAreExact, Queues
  <2> QED BY <2>1, <2>2, <2>3 DEF QueuesAreExact
<1>17. ClassAccounts'
  <2> SUFFICES ASSUME NEW c \in Classes
               PROVE  /\ held'[c] = Cardinality(Holding(OfClass(c), InHand, work'))
                      /\ active'[c] = Cardinality(Holding(OfClass(c), InRun, work'))
                      /\ active'[c] <= MaxActive[c]
    BY DEF ClassAccounts
  <2>1. /\ held[c] = Cardinality(Holding(OfClass(c), InHand, work))
        /\ active[c] = Cardinality(Holding(OfClass(c), InRun, work))
        /\ active[c] <= MaxActive[c]
    BY DEF ExecutorInv, ClassAccounts
  <2>2. CASE c = c0
    BY <1>1, <1>10, <2>1, <2>2
  <2>3. CASE c # c0
    BY <1>1, <1>11, <2>1, <2>3 DEF Undisturbed
  <2> QED BY <2>2, <2>3
<1>18. PrincipalAccounts'
  BY <1>1, <1>12 DEF Undisturbed, ExecutorInv, PrincipalAccounts
<1>19. OrderIsExact'
  BY <1>1 DEF ExecutorInv, OrderIsExact
<1>20. NoneMayRun' /\ pump' \in {"off", "scheduled", "running"}
  BY <1>1, ScheduledRests DEF ExecutorInv
<1>21. ExecutorTyped'
  BY <1>1, <1>6, <1>15, <1>20 DEF ExecutorInv, ExecutorTyped
<1> QED BY <1>16, <1>17, <1>18, <1>19, <1>20, <1>21 DEF ExecutorInv

-----------------------------------------------------------------------------
(* The pump starts an execution.                                           *)

\* w is started, or its execution ends.
Starts(w, K) == /\ w \in Holding(K, InQueue, work)
                /\ Holding(K, InQueue, work') = Holding(K, InQueue, work) \ {w}
                /\ Cardinality(Holding(K, InRun, work')) = Cardinality(Holding(K, InRun, work)) + 1
                /\ Holding(K, InHand, work') = Holding(K, InHand, work)
Leaves(w, K) == /\ Holding(K, InQueue, work') = Holding(K, InQueue, work)
                /\ Cardinality(Holding(K, InRun, work')) = Cardinality(Holding(K, InRun, work)) - 1
                /\ Cardinality(Holding(K, InHand, work')) = Cardinality(Holding(K, InHand, work)) - 1
                /\ w \in Holding(K, InHand, work)

LEMMA StartedFrom ==
  ASSUME NEW w \in Messages, OnlyMoves(w, work, work'), work[w].at = "waiting", work'[w].at = "executing",
         NEW K \in SUBSET Messages
  PROVE  (w \notin K => Undisturbed(K)) /\ (w \in K => Starts(w, K))
<1>1. /\ work[w].at \notin InRun /\ work'[w].at \in InRun
      /\ work[w].at \in InQueue /\ work'[w].at \notin InQueue
      /\ work[w].at \in InHand /\ work'[w].at \in InHand
  BY DEF InRun, InQueue, InHand
<1>2. w \notin K => Undisturbed(K)
  BY Moved DEF Undisturbed
<1>3. w \in K => /\ w \in Holding(K, InQueue, work)
                 /\ Holding(K, InQueue, work') = Holding(K, InQueue, work) \ {w}
  BY <1>1, Moved
<1>4. Holding(K, InHand, work') = Holding(K, InHand, work)
  BY <1>1, Moved
<1>5. w \in K => Cardinality(Holding(K, InRun, work')) = Cardinality(Holding(K, InRun, work)) + 1
  BY <1>1, Moved
<1> QED BY <1>2, <1>3, <1>4, <1>5 DEF Starts

LEMMA EndedFrom ==
  ASSUME NEW w \in Messages, OnlyMoves(w, work, work'), work[w].at = "executing", work'[w].at = "ended",
         NEW K \in SUBSET Messages
  PROVE  (w \notin K => Undisturbed(K)) /\ (w \in K => Leaves(w, K))
<1>1. /\ work[w].at \in InRun /\ work'[w].at \notin InRun
      /\ work[w].at \notin InQueue /\ work'[w].at \notin InQueue
      /\ work[w].at \in InHand /\ work'[w].at \notin InHand
  BY DEF InRun, InQueue, InHand
<1>2. w \notin K => Undisturbed(K)
  BY Moved DEF Undisturbed
<1>3. Holding(K, InQueue, work') = Holding(K, InQueue, work)
  BY <1>1, Moved
<1>4. w \in K => Cardinality(Holding(K, InHand, work')) = Cardinality(Holding(K, InHand, work)) - 1
  BY <1>1, Moved
<1>5. w \in K => Cardinality(Holding(K, InRun, work')) = Cardinality(Holding(K, InRun, work)) - 1
  BY <1>1, Moved
<1>6. w \in K => w \in Holding(K, InHand, work)
  BY <1>1 DEF Holding
<1> QED BY <1>2, <1>3, <1>4, <1>5, <1>6 DEF Leaves

\* The class that is served has a message that may run.
LEMMA ServedClass ==
  ASSUME ExecutorInv, Executor!Eligible # {}
  PROVE  /\ Executor!Served(Cycle, cursor, Executor!Eligible) \in Classes
         /\ MayRun(Executor!Served(Cycle, cursor, Executor!Eligible))
         /\ Executor!NextTurn(Cycle, cursor, Executor!Eligible) \in 0 .. Len(Cycle) - 1
<1> DEFINE T == Executor!Eligible
<1>1. /\ T \subseteq Classes /\ \A c \in T : Executor!Ready(c)
  BY ExecutorParts DEF Executor!Eligible
<1>2. \A c \in T : MayRun(c)
  BY <1>1, WaitingIs DEF ExecutorInv
<1>3. Elements(Cycle) \cap T # {}
  BY <1>1, ExecutorAssumption, ExecutorParts DEF Elements
<1>4. Cycle \in Seq(Classes) /\ cursor \in 0 .. Len(Cycle) - 1
  BY ExecutorAssumption, ExecutorParts DEF ExecutorInv, ExecutorTyped
<1> HIDE DEF T
<1>5. Served(Cycle, cursor, T) \in T /\ NextTurn(Cycle, cursor, T) \in 0 .. Len(Cycle) - 1
  BY <1>3, <1>4, ServedIs
<1> QED BY <1>1, <1>2, <1>5, ExecutorRounds DEF T

\* And for the authority class a principal, whose turn it is.
LEMMA ServedPrincipal ==
  ASSUME ExecutorInv, MayRun("authority")
  PROVE  /\ Executor!Served(order, turn, Executor!WithWork) \in Principals
         /\ perPrincipal[Executor!Served(order, turn, Executor!WithWork)] # << >>
         /\ Executor!NextTurn(order, turn, Executor!WithWork) \in 0 .. Len(order) - 1
<1> DEFINE T == Executor!WithWork
<1>1. T = {p \in Principals : perPrincipal[p] # << >>}
  BY DEF Executor!WithWork
<1>2. PICK w \in Messages : w \in OfClass("authority") /\ w \in Holding(OfClass("authority"), InQueue, work)
  BY DEF MayRun, Holding, OfClass
<1>3. PICK p \in Principals : w \in OfPrincipal(p)
  BY <1>2, ExecutorAssumption DEF OfClass, OfPrincipal
<1>4. w \in Holding(OfPrincipal(p), InQueue, work) /\ w \in Holding(OfPrincipal(p), InHand, work)
  BY <1>2, <1>3 DEF Holding, InQueue, InHand
<1>5. perPrincipal[p] # << >>
  <2>1. Elements(perPrincipal[p]) # {} /\ perPrincipal[p] \in Seq(Messages)
    BY <1>4 DEF ExecutorInv, ExecutorTyped, QueuesAreExact, Queues
  <2> QED BY <2>1, ElementsAre
<1>6. heldBy[p] > 0
  <2>1. OfPrincipal(p) \in SUBSET Messages
    BY GroupsAre
  <2>2. /\ IsFiniteSet(Holding(OfPrincipal(p), InHand, work))
        /\ Cardinality(Holding(OfPrincipal(p), InHand, work)) \in Nat
        /\ Holding(OfPrincipal(p), InHand, work) # {}
    BY <1>4, <2>1, MessagesFinite
  <2>3. Cardinality(Holding(OfPrincipal(p), InHand, work)) # 0
    BY <2>2, FS_EmptySet
  <2> QED BY <2>2, <2>3 DEF ExecutorInv, PrincipalAccounts
<1>7. p \in Elements(order) /\ p \in T
  BY <1>1, <1>5, <1>6 DEF ExecutorInv, OrderIsExact
<1>8. order \in Seq(Principals) /\ order # << >> /\ turn \in 0 .. Len(order) - 1
  <2>1. order \in Seq(Principals) /\ Len(order) \in Nat
    BY DEF ExecutorInv, ExecutorTyped
  <2>2. order # << >>
    BY <1>7, <2>1, ElementsAre
  <2> QED BY <2>1, <2>2 DEF ExecutorInv, OrderIsExact, Seated
<1> HIDE DEF T
<1>9. Elements(order) \cap T # {}
  BY <1>7
<1>10. Served(order, turn, T) \in T /\ NextTurn(order, turn, T) \in 0 .. Len(order) - 1
  BY <1>8, <1>9, ServedIs
<1> QED BY <1>1, <1>10, ExecutorRounds DEF T

LEMMA ExecutorDequeues ==
  ASSUME ExecutorInv, Executor!Dequeue
  PROVE  ExecutorInv'
<1> DEFINE c0 == Executor!Served(Cycle, cursor, Executor!Eligible)
           p0 == Executor!Served(order, turn, Executor!WithWork)
           w == IF c0 = "authority" THEN Head(perPrincipal[p0]) ELSE Head(queue[c0])
<1>1. /\ pump = "running" /\ Executor!Eligible # {}
      /\ cursor' = Executor!NextTurn(Cycle, cursor, Executor!Eligible)
      /\ UNCHANGED <<order, held, heldBy, pump, closed>>
  BY DEF Executor!Dequeue
<1>2. /\ Executor!Started(w)
      /\ c0 = "authority" => /\ perPrincipal' = [perPrincipal EXCEPT ![p0] = Tail(@)]
                             /\ turn' = Executor!NextTurn(order, turn, Executor!WithWork)
                             /\ UNCHANGED queue
      /\ c0 # "authority" => /\ queue' = [queue EXCEPT ![c0] = Tail(@)]
                             /\ UNCHANGED <<perPrincipal, turn>>
  BY DEF Executor!Dequeue
<1>3. c0 \in Classes /\ MayRun(c0) /\ cursor' \in 0 .. Len(Cycle) - 1
  BY <1>1, ServedClass
<1>4. c0 = "authority" => /\ p0 \in Principals /\ perPrincipal[p0] # << >>
                          /\ Executor!NextTurn(order, turn, Executor!WithWork) \in 0 .. Len(order) - 1
  BY <1>3, ServedPrincipal
<1> HIDE DEF c0, p0
<1>5. c0 # "authority" => /\ queue[c0] \in Seq(Messages) /\ queue[c0] # << >> /\ Distinct(queue[c0])
                          /\ Elements(queue[c0]) = Holding(OfClass(c0), InQueue, work)
  <2> SUFFICES ASSUME c0 # "authority"
               PROVE  /\ queue[c0] \in Seq(Messages) /\ queue[c0] # << >> /\ Distinct(queue[c0])
                      /\ Elements(queue[c0]) = Holding(OfClass(c0), InQueue, work)
    OBVIOUS
  <2>1. /\ queue[c0] \in Seq(Messages) /\ Distinct(queue[c0])
        /\ Elements(queue[c0]) = Holding(OfClass(c0), InQueue, work)
    BY <1>3 DEF ExecutorInv, ExecutorTyped, QueuesAreExact, Queues
  <2> QED BY <1>3, <2>1, ElementsAre DEF MayRun
<1>6. c0 = "authority" => /\ perPrincipal[p0] \in Seq(Messages) /\ Distinct(perPrincipal[p0])
                          /\ Elements(perPrincipal[p0]) = Holding(OfPrincipal(p0), InQueue, work)
  BY <1>4 DEF ExecutorInv, ExecutorTyped, QueuesAreExact, Queues
<1>7. w \in Messages /\ work[w].at = "waiting" /\ ClassOf[w] = c0 /\ (c0 = "authority" => PrincipalOf[w] = p0)
  <2>1. CASE c0 # "authority"
    <3>1. w \in Elements(queue[c0])
      BY <1>5, <2>1, Shifted
    <3> QED BY <1>3, <1>5, <2>1, <3>1, GroupsAre DEF Holding, OfClass, InQueue
  <2>2. CASE c0 = "authority"
    <3>1. w \in Elements(perPrincipal[p0])
      BY <1>4, <1>6, <2>2, Shifted
    <3> QED BY <1>6, <2>2, <3>1 DEF Holding, OfPrincipal, InQueue
  <2> QED BY <2>1, <2>2
<1>8. c0 # "authority" => w = Head(queue[c0])
  OBVIOUS
<1>9. c0 = "authority" => w = Head(perPrincipal[p0])
  OBVIOUS
<1> HIDE DEF w
<1>10. work' = [work EXCEPT ![w].at = "executing"] /\ active' = [active EXCEPT ![c0] = @ + 1]
  BY <1>2, <1>7 DEF Executor!Started
<1>11. work' \in [Messages -> WorkStates]
  <2>1. "executing" \in WorkPlaces
    BY DEF WorkPlaces
  <2> QED BY <1>10, <2>1, Zenon DEF ExecutorInv, ExecutorTyped, WorkStates
<1>12. OnlyMoves(w, work, work') /\ work'[w].at = "executing"
  BY <1>7, <1>10 DEF OnlyMoves, ExecutorInv, ExecutorTyped, WorkStates
<1>13. Starts(w, OfClass(c0)) /\ \A c \in Classes : c # c0 => Undisturbed(OfClass(c))
  BY <1>3, <1>7, <1>12, GroupsAre, StartedFrom
<1>14. \A p \in Principals : (w \in OfPrincipal(p) => Starts(w, OfPrincipal(p)))
                             /\ (w \notin OfPrincipal(p) => Undisturbed(OfPrincipal(p)))
  BY <1>7, <1>12, GroupsAre, StartedFrom
<1>15. /\ active' \in [Classes -> Nat] /\ active'[c0] = active[c0] + 1 /\ active[c0] \in Nat
       /\ \A c \in Classes : c # c0 => active'[c] = active[c]
  BY <1>3, <1>10 DEF ExecutorInv, ExecutorTyped
<1>16. ClassAccounts'
  <2> SUFFICES ASSUME NEW c \in Classes
               PROVE  /\ held'[c] = Cardinality(Holding(OfClass(c), InHand, work'))
                      /\ active'[c] = Cardinality(Holding(OfClass(c), InRun, work'))
                      /\ active'[c] <= MaxActive[c]
    BY DEF ClassAccounts
  <2>1. /\ held[c] = Cardinality(Holding(OfClass(c), InHand, work))
        /\ active[c] = Cardinality(Holding(OfClass(c), InRun, work))
        /\ active[c] <= MaxActive[c]
    BY DEF ExecutorInv, ClassAccounts
  <2>2. CASE c = c0
    <3>1. active[c0] < MaxActive[c0] /\ MaxActive[c0] \in Nat
      BY <1>3, ExecutorAssumption, ExecutorParts DEF MayRun
    <3>2. active'[c] <= MaxActive[c]
      BY <1>15, <2>2, <3>1
    <3>3. active'[c] = Cardinality(Holding(OfClass(c), InRun, work'))
      BY <1>13, <1>15, <2>1, <2>2 DEF Starts
    <3>4. held'[c] = Cardinality(Holding(OfClass(c), InHand, work'))
      BY <1>1, <1>13, <2>1, <2>2 DEF Starts
    <3> QED BY <3>2, <3>3, <3>4
  <2>3. CASE c # c0
    BY <1>1, <1>13, <1>15, <2>1, <2>3 DEF Undisturbed
  <2> QED BY <2>2, <2>3
<1>17. PrincipalAccounts'
  <2>1. \A p \in Principals : Holding(OfPrincipal(p), InHand, work') = Holding(OfPrincipal(p), InHand, work)
    BY <1>14 DEF Starts, Undisturbed
  <2> QED BY <1>1, <2>1 DEF ExecutorInv, PrincipalAccounts
<1>18. /\ queue' \in [Classes -> Seq(Messages)]
       /\ \A c \in Classes \ {"authority"} : Queues(queue'[c], OfClass(c), work')
  <2>1. CASE c0 = "authority"
    BY <1>2, <1>13, <2>1 DEF Undisturbed, ExecutorInv, ExecutorTyped, QueuesAreExact, Queues
  <2>2. CASE c0 # "authority"
    <3>1. /\ Tail(queue[c0]) \in Seq(Messages) /\ Distinct(Tail(queue[c0]))
          /\ Elements(Tail(queue[c0])) = Elements(queue[c0]) \ {w}
      BY <1>5, <1>8, <2>2, Shifted
    <3>2. /\ queue' \in [Classes -> Seq(Messages)] /\ queue'[c0] = Tail(queue[c0])
          /\ \A c \in Classes : c # c0 => queue'[c] = queue[c]
      BY <1>2, <1>3, <2>2, <3>1 DEF ExecutorInv, ExecutorTyped
    <3>3. Queues(queue'[c0], OfClass(c0), work')
      BY <1>5, <1>13, <2>2, <3>1, <3>2 DEF Starts, Queues
    <3>4. \A c \in Classes \ {"authority"} : c # c0 => Queues(queue'[c], OfClass(c), work')
      BY <1>13, <3>2 DEF Undisturbed, ExecutorInv, QueuesAreExact, Queues
    <3> QED BY <3>2, <3>3, <3>4
  <2> QED BY <2>1, <2>2
<1>19. /\ perPrincipal' \in [Principals -> Seq(Messages)]
       /\ \A p \in Principals : Queues(perPrincipal'[p], OfPrincipal(p), work')
  <2>1. CASE c0 # "authority"
    <3>1. \A p \in Principals : Undisturbed(OfPrincipal(p))
      BY <1>7, <1>14, <2>1, GroupsAre
    <3> QED BY <1>2, <2>1, <3>1 DEF Undisturbed, ExecutorInv, ExecutorTyped, QueuesAreExact, Queues
  <2>2. CASE c0 = "authority"
    <3>1. /\ Tail(perPrincipal[p0]) \in Seq(Messages) /\ Distinct(Tail(perPrincipal[p0]))
          /\ Elements(Tail(perPrincipal[p0])) = Elements(perPrincipal[p0]) \ {w}
      BY <1>4, <1>6, <1>9, <2>2, Shifted
    <3>2. /\ perPrincipal' \in [Principals -> Seq(Messages)] /\ perPrincipal'[p0] = Tail(perPrincipal[p0])
          /\ \A p \in Principals : p # p0 => perPrincipal'[p] = perPrincipal[p]
      BY <1>2, <1>4, <2>2, <3>1 DEF ExecutorInv, ExecutorTyped
    <3>3. w \in OfPrincipal(p0) /\ \A p \in Principals : p # p0 => w \notin OfPrincipal(p)
      BY <1>4, <1>7, <2>2, GroupsAre
    <3>4. Queues(perPrincipal'[p0], OfPrincipal(p0), work')
      BY <1>4, <1>6, <1>14, <2>2, <3>1, <3>2, <3>3 DEF Starts, Queues
    <3>5. \A p \in Principals : p # p0 => Queues(perPrincipal'[p], OfPrincipal(p), work')
      BY <1>14, <3>2, <3>3 DEF Undisturbed, ExecutorInv, QueuesAreExact, Queues
    <3> QED BY <3>2, <3>4, <3>5
  <2> QED BY <2>1, <2>2
<1>20. OrderIsExact'
  <2>1. Seated(turn', order)
    <3>1. CASE c0 # "authority"
      BY <1>2, <3>1 DEF ExecutorInv, OrderIsExact
    <3>2. CASE c0 = "authority"
      <4>1. turn' \in 0 .. Len(order) - 1 /\ Len(order) \in Nat
        BY <1>2, <1>4, <3>2 DEF ExecutorInv, ExecutorTyped
      <4> QED BY <4>1 DEF Seated
    <3> QED BY <3>1, <3>2
  <2> QED BY <1>1, <2>1 DEF ExecutorInv, OrderIsExact
<1>21. NoneMayRun'
  BY <1>1 DEF NoneMayRun
<1>22. ExecutorTyped'
  BY <1>1, <1>3, <1>11, <1>15, <1>18, <1>19 DEF ExecutorInv, ExecutorTyped
<1>23. QueuesAreExact'
  BY <1>18, <1>19 DEF QueuesAreExact
<1> QED BY <1>16, <1>17, <1>20, <1>21, <1>22, <1>23 DEF ExecutorInv

-----------------------------------------------------------------------------
(* An execution ends.                                                      *)

LEMMA CountsDown ==
  ASSUME NEW w, NEW K \in SUBSET Messages, Leaves(w, K)
  PROVE  /\ Cardinality(Holding(K, InHand, work)) \in Nat \ {0}
         /\ Cardinality(Holding(K, InRun, work)) \in Nat \ {0}
         /\ Cardinality(Holding(K, InHand, work)) - 1 \in Nat
         /\ Cardinality(Holding(K, InRun, work)) - 1 \in Nat
         /\ Cardinality(Holding(K, InHand, work')) = Cardinality(Holding(K, InHand, work)) - 1
         /\ Cardinality(Holding(K, InRun, work')) = Cardinality(Holding(K, InRun, work)) - 1
<1>1. /\ Cardinality(Holding(K, InHand, work)) \in Nat /\ Cardinality(Holding(K, InHand, work')) \in Nat
      /\ Cardinality(Holding(K, InRun, work)) \in Nat /\ Cardinality(Holding(K, InRun, work')) \in Nat
  BY MessagesFinite
<1>2. /\ Cardinality(Holding(K, InHand, work')) = Cardinality(Holding(K, InHand, work)) - 1
      /\ Cardinality(Holding(K, InRun, work')) = Cardinality(Holding(K, InRun, work)) - 1
  BY DEF Leaves
<1> QED BY <1>1, <1>2

LEMMA ExecutorEnds ==
  ASSUME ExecutorInv, NEW w \in Messages, NEW result \in {"executed", "failed"},
         Executor!ExecutionEnds(w, result)
  PROVE  ExecutorInv'
<1> DEFINE c0 == ClassOf[w]
           p0 == PrincipalOf[w]
<1>1. /\ work[w].at = "executing" /\ work' = Executor!Told({w}, result, "ended", TRUE)
      /\ held' = [held EXCEPT ![c0] = @ - 1] /\ active' = [active EXCEPT ![c0] = @ - 1]
      /\ pump' = Executor!Scheduled /\ UNCHANGED <<queue, perPrincipal, cursor, closed>>
  BY DEF Executor!ExecutionEnds, Executor!TellsEnd
<1>2. c0 \in Classes /\ (c0 = "authority" => p0 \in Principals)
  BY GroupsAre
<1>3. Tells(work', {w}, "ended")
  <2>1. work \in [Messages -> WorkStates] /\ {w} \in SUBSET Messages /\ TRUE \in BOOLEAN
    BY DEF ExecutorInv, ExecutorTyped
  <2>2. result \in Results /\ "ended" \in WorkPlaces
    BY DEF Results, WorkPlaces
  <2> QED BY <1>1, <2>1, <2>2, ToldIs, Zenon
<1>4. OnlyMoves(w, work, work') /\ work'[w].at = "ended"
  BY <1>3 DEF Tells, OnlyMoves
<1> DEFINE gone == heldBy[p0] = 1
<1>5. /\ c0 = "authority" =>
           /\ heldBy' = [heldBy EXCEPT ![p0] = @ - 1]
           /\ order' = IF gone THEN Executor!Kept(order, Principals \ {p0}) ELSE order
           /\ turn' = IF gone THEN Executor!Clamped(turn, Len(order')) ELSE turn
      /\ c0 # "authority" => UNCHANGED <<heldBy, order, turn>>
  BY DEF Executor!ExecutionEnds, Executor!IsAuthority, Executor!PrincipalReleased
<1>6. Leaves(w, OfClass(c0)) /\ \A c \in Classes : c # c0 => Undisturbed(OfClass(c))
  BY <1>1, <1>2, <1>4, GroupsAre, EndedFrom
<1>7. \A p \in Principals : (w \in OfPrincipal(p) => Leaves(w, OfPrincipal(p)))
                            /\ (w \notin OfPrincipal(p) => Undisturbed(OfPrincipal(p)))
  BY <1>1, <1>4, GroupsAre, EndedFrom
<1>8. /\ c0 # "authority" => \A p \in Principals : w \notin OfPrincipal(p)
      /\ c0 = "authority" => w \in OfPrincipal(p0) /\ \A p \in Principals : p # p0 => w \notin OfPrincipal(p)
  BY <1>2, GroupsAre
<1> HIDE DEF c0, p0
<1>9. /\ held[c0] \in Nat \ {0} /\ active[c0] \in Nat \ {0}
      /\ held[c0] - 1 = Cardinality(Holding(OfClass(c0), InHand, work')) /\ held[c0] - 1 \in Nat
      /\ active[c0] - 1 = Cardinality(Holding(OfClass(c0), InRun, work')) /\ active[c0] - 1 \in Nat
  <2>1. OfClass(c0) \in SUBSET Messages
    BY <1>2, GroupsAre
  <2> QED BY <1>2, <1>6, <2>1, CountsDown DEF ExecutorInv, ClassAccounts
<1>10. /\ held' \in [Classes -> Nat] /\ held'[c0] = held[c0] - 1
       /\ \A c \in Classes : c # c0 => held'[c] = held[c]
       /\ active' \in [Classes -> Nat] /\ active'[c0] = active[c0] - 1
       /\ \A c \in Classes : c # c0 => active'[c] = active[c]
  BY <1>1, <1>2, <1>9 DEF ExecutorInv, ExecutorTyped
<1>11. ClassAccounts'
  <2> SUFFICES ASSUME NEW c \in Classes
               PROVE  /\ held'[c] = Cardinality(Holding(OfClass(c), InHand, work'))
                      /\ active'[c] = Cardinality(Holding(OfClass(c), InRun, work'))
                      /\ active'[c] <= MaxActive[c]
    BY DEF ClassAccounts
  <2>1. /\ held[c] = Cardinality(Holding(OfClass(c), InHand, work))
        /\ active[c] = Cardinality(Holding(OfClass(c), InRun, work))
        /\ active[c] <= MaxActive[c]
    BY DEF ExecutorInv, ClassAccounts
  <2>2. CASE c = c0
    <3>1. MaxActive[c0] \in Nat
      BY <1>2, ExecutorAssumption, ExecutorParts
    <3> QED BY <1>9, <1>10, <2>1, <2>2, <3>1
  <2>3. CASE c # c0
    BY <1>6, <1>10, <2>1, <2>3 DEF Undisturbed
  <2> QED BY <2>2, <2>3
<1>12. QueuesAreExact'
  <2>1. \A c \in Classes : Holding(OfClass(c), InQueue, work') = Holding(OfClass(c), InQueue, work)
    BY <1>6 DEF Leaves, Undisturbed
  <2>2. \A p \in Principals : Holding(OfPrincipal(p), InQueue, work') = Holding(OfPrincipal(p), InQueue, work)
    BY <1>7 DEF Leaves, Undisturbed
  <2> QED BY <1>1, <2>1, <2>2 DEF ExecutorInv, QueuesAreExact, Queues
<1>13. NoneMayRun' /\ pump' \in {"off", "scheduled", "running"}
  BY <1>1, ScheduledRests DEF ExecutorInv
<1>14. /\ heldBy' \in [Principals -> Nat] /\ PrincipalAccounts'
       /\ order' \in Seq(Principals) /\ OrderIsExact'
  <2>1. CASE c0 # "authority"
    <3>1. \A p \in Principals : Holding(OfPrincipal(p), InHand, work') = Holding(OfPrincipal(p), InHand, work)
      BY <1>7, <1>8, <2>1 DEF Undisturbed
    <3>2. heldBy' \in [Principals -> Nat] /\ PrincipalAccounts'
      BY <1>5, <2>1, <3>1 DEF ExecutorInv, ExecutorTyped, PrincipalAccounts
    <3>3. order' \in Seq(Principals) /\ OrderIsExact'
      BY <1>5, <2>1 DEF ExecutorInv, ExecutorTyped, OrderIsExact
    <3> QED BY <3>2, <3>3
  <2>2. CASE c0 = "authority"
    <3>1. p0 \in Principals /\ Leaves(w, OfPrincipal(p0)) /\ \A p \in Principals : p # p0 => Undisturbed(OfPrincipal(p))
      BY <1>2, <1>7, <1>8, <2>2
    <3>2. /\ heldBy[p0] \in Nat \ {0} /\ heldBy[p0] - 1 \in Nat
          /\ heldBy[p0] - 1 = Cardinality(Holding(OfPrincipal(p0), InHand, work'))
      <4>1. OfPrincipal(p0) \in SUBSET Messages
        BY <3>1, GroupsAre
      <4> QED BY <3>1, <4>1, CountsDown DEF ExecutorInv, PrincipalAccounts
    <3>3. /\ heldBy' \in [Principals -> Nat] /\ heldBy'[p0] = heldBy[p0] - 1
          /\ \A p \in Principals : p # p0 => heldBy'[p] = heldBy[p]
      BY <1>5, <2>2, <3>1, <3>2 DEF ExecutorInv, ExecutorTyped
    <3>4. PrincipalAccounts'
      <4>1. heldBy'[p0] = Cardinality(Holding(OfPrincipal(p0), InHand, work'))
        BY <3>2, <3>3
      <4>2. \A p \in Principals : p # p0 => heldBy'[p] = Cardinality(Holding(OfPrincipal(p), InHand, work'))
        BY <3>1, <3>3 DEF Undisturbed, ExecutorInv, PrincipalAccounts
      <4> QED BY <4>1, <4>2 DEF PrincipalAccounts
    <3>5. order \in Seq(Principals) /\ turn \in Nat
      BY DEF ExecutorInv, ExecutorTyped, OrderIsExact, Seated
    <3>6. CASE gone
      <4>1. order' = Kept(order, Principals \ {p0}) /\ turn' = Clamped(turn, Len(order'))
        BY <1>5, <2>2, <3>6, ExecutorRounds
      <4>2. /\ order' \in Seq(Principals) /\ Elements(order') = Elements(order) \cap (Principals \ {p0})
            /\ Distinct(order) => Distinct(order')
        BY <3>5, <4>1, KeptIs
      <4>3. {p \in Principals : heldBy'[p] > 0} = {p \in Principals : heldBy[p] > 0} \ {p0}
        BY <3>2, <3>3, <3>6
      <4>4. Seated(turn', order')
        BY <3>5, <4>1, <4>2, ClampedIs
      <4> QED BY <3>3, <3>4, <4>2, <4>3, <4>4 DEF ExecutorInv, OrderIsExact
    <3>7. CASE ~gone
      <4>1. order' = order /\ turn' = turn
        BY <1>5, <2>2, <3>7
      <4>2. {p \in Principals : heldBy'[p] > 0} = {p \in Principals : heldBy[p] > 0}
        BY <3>1, <3>2, <3>3, <3>7
      <4> QED BY <3>3, <3>4, <3>5, <4>1, <4>2 DEF ExecutorInv, OrderIsExact
    <3> QED BY <3>6, <3>7
  <2> QED BY <2>1, <2>2
<1>15. ExecutorTyped'
  BY <1>1, <1>3, <1>10, <1>13, <1>14 DEF ExecutorInv, ExecutorTyped, Tells
<1> QED BY <1>11, <1>12, <1>13, <1>14, <1>15 DEF ExecutorInv

-----------------------------------------------------------------------------
(* close()                                                                 *)

\* What waits is ended, what executes goes on.
LEMMA ClosingIs ==
  ASSUME ExecutorTyped, Executor!Close
  PROVE  /\ work' \in [Messages -> WorkStates]
         /\ \A v \in Messages : work'[v].at = IF work[v].at = "waiting" THEN "ended" ELSE work[v].at
         /\ \A v \in Messages : work[v].told # "no" => work'[v].told = work[v].told
<1> DEFINE waiting == {v \in Messages : work[v].at = "waiting"}
           running == {v \in Messages : work[v].at = "executing"}
           f == Executor!Told(waiting, "closed", "ended", TRUE)
           g == Executor!Told(running, "closed", "executing", FALSE)
<1>1. work' = [v \in Messages |-> IF v \in waiting THEN f[v] ELSE g[v]]
  BY DEF Executor!Close
<1>2. Tells(f, waiting, "ended") /\ Tells(g, running, "executing")
  <2>1. /\ work \in [Messages -> WorkStates] /\ TRUE \in BOOLEAN /\ FALSE \in BOOLEAN
        /\ waiting \in SUBSET Messages /\ running \in SUBSET Messages
    BY DEF ExecutorTyped
  <2>2. "closed" \in Results /\ "ended" \in WorkPlaces /\ "executing" \in WorkPlaces
    BY DEF Results, WorkPlaces
  <2> HIDE DEF waiting, running
  <2> QED BY <2>1, <2>2, ToldIs, Zenon
<1> HIDE DEF f, g
<1>3. work' \in [Messages -> WorkStates]
  BY <1>1, <1>2 DEF Tells
<1>4. ASSUME NEW v \in Messages
      PROVE  /\ work'[v].at = IF work[v].at = "waiting" THEN "ended" ELSE work[v].at
             /\ work[v].told # "no" => work'[v].told = work[v].told
  BY <1>1, <1>2 DEF Tells
<1> QED BY <1>3, <1>4

LEMMA ExecutorCloses ==
  ASSUME ExecutorInv, Executor!Close
  PROVE  ExecutorInv'
<1>1. /\ closed' = TRUE /\ queue' = [c \in Classes |-> << >>] /\ perPrincipal' = [p \in Principals |-> << >>]
      /\ held' = [c \in Classes |-> held[c] - Executor!Cardinality(Executor!WaitingOf(c))]
      /\ heldBy' = [p \in Principals |-> heldBy[p] - Len(perPrincipal[p])]
      /\ order' = Executor!Kept(order, {p \in Principals : heldBy'[p] > 0})
      /\ turn' = Executor!Clamped(turn, Len(order')) /\ UNCHANGED <<cursor, active, pump>>
  BY ExecutorParts DEF Executor!Close
<1>2. /\ work' \in [Messages -> WorkStates]
      /\ \A v \in Messages : work'[v].at = IF work[v].at = "waiting" THEN "ended" ELSE work[v].at
  BY ClosingIs DEF ExecutorInv
<1>3. ASSUME NEW K \in SUBSET Messages
      PROVE  /\ Holding(K, InQueue, work') = {} /\ Holding(K, InRun, work') = Holding(K, InRun, work)
             /\ Cardinality(Holding(K, InHand, work'))
                  = Cardinality(Holding(K, InHand, work)) - Cardinality(Holding(K, InQueue, work))
             /\ Cardinality(Holding(K, InHand, work')) \in Nat
             /\ Cardinality(Holding(K, InHand, work)) \in Nat
             /\ Cardinality(Holding(K, InQueue, work)) \in Nat
  <2>1. Holding(K, InQueue, work') = {}
    BY <1>2 DEF Holding, InQueue
  <2>2. Holding(K, InRun, work') = Holding(K, InRun, work)
    BY <1>2 DEF Holding, InRun
  <2>3. Holding(K, InHand, work') = Holding(K, InHand, work) \ Holding(K, InQueue, work)
    BY <1>2 DEF Holding, InHand, InQueue
  <2>4. Holding(K, InHand, work) \cap Holding(K, InQueue, work) = Holding(K, InQueue, work)
    BY DEF Holding, InHand, InQueue
  <2>5. /\ IsFiniteSet(Holding(K, InHand, work)) /\ Cardinality(Holding(K, InHand, work)) \in Nat
        /\ Cardinality(Holding(K, InQueue, work)) \in Nat /\ Cardinality(Holding(K, InHand, work')) \in Nat
    BY MessagesFinite
  <2>6. Cardinality(Holding(K, InHand, work) \ Holding(K, InQueue, work))
          = Cardinality(Holding(K, InHand, work)) - Cardinality(Holding(K, InHand, work) \cap Holding(K, InQueue, work))
    BY <2>5, FS_Difference
  <2> QED BY <2>1, <2>2, <2>3, <2>4, <2>5, <2>6
<1>4. ASSUME NEW c \in Classes
      PROVE  /\ held'[c] = Cardinality(Holding(OfClass(c), InHand, work')) /\ held'[c] \in Nat
             /\ active'[c] = Cardinality(Holding(OfClass(c), InRun, work'))
             /\ active'[c] <= MaxActive[c]
  <2>1. OfClass(c) \in SUBSET Messages
    BY GroupsAre
  <2>2. held'[c] = held[c] - Cardinality(Holding(OfClass(c), InQueue, work))
    BY <1>1, WaitingIs, ExecutorParts DEF ExecutorInv
  <2>3. held'[c] = Cardinality(Holding(OfClass(c), InHand, work')) /\ held'[c] \in Nat
    BY <1>3, <2>1, <2>2 DEF ExecutorInv, ClassAccounts
  <2>4. active'[c] = Cardinality(Holding(OfClass(c), InRun, work')) /\ active'[c] <= MaxActive[c]
    BY <1>1, <1>3, <2>1 DEF ExecutorInv, ClassAccounts
  <2> QED BY <2>3, <2>4
<1>5. ASSUME NEW p \in Principals
      PROVE  /\ heldBy'[p] = Cardinality(Holding(OfPrincipal(p), InHand, work')) /\ heldBy'[p] \in Nat
             /\ heldBy'[p] <= heldBy[p] /\ heldBy[p] \in Nat
  <2>1. OfPrincipal(p) \in SUBSET Messages
    BY GroupsAre
  <2>2. Len(perPrincipal[p]) = Cardinality(Holding(OfPrincipal(p), InQueue, work))
    <3>1. /\ perPrincipal[p] \in Seq(Messages) /\ Distinct(perPrincipal[p])
          /\ Elements(perPrincipal[p]) = Holding(OfPrincipal(p), InQueue, work)
      BY DEF ExecutorInv, ExecutorTyped, QueuesAreExact, Queues
    <3> QED BY <3>1, DistinctLength
  <2>3. heldBy'[p] = heldBy[p] - Cardinality(Holding(OfPrincipal(p), InQueue, work))
    BY <1>1, <2>2
  <2>4. heldBy[p] = Cardinality(Holding(OfPrincipal(p), InHand, work))
    BY DEF ExecutorInv, PrincipalAccounts
  <2> QED BY <1>3, <2>1, <2>3, <2>4
<1>6. held' \in [Classes -> Nat] /\ heldBy' \in [Principals -> Nat]
  BY <1>1, <1>4, <1>5
<1>7. ClassAccounts' /\ PrincipalAccounts'
  BY <1>4, <1>5 DEF ClassAccounts, PrincipalAccounts
<1>8. /\ queue' \in [Classes -> Seq(Messages)] /\ perPrincipal' \in [Principals -> Seq(Messages)]
      /\ QueuesAreExact'
  <2>1. << >> \in Seq(Messages) /\ Distinct(<< >>) /\ Elements(<< >>) = {}
    BY DEF Distinct, Elements
  <2>2. \A c \in Classes : Holding(OfClass(c), InQueue, work') = {}
    BY <1>3, GroupsAre
  <2>3. \A p \in Principals : Holding(OfPrincipal(p), InQueue, work') = {}
    BY <1>3, GroupsAre
  <2> QED BY <1>1, <2>1, <2>2, <2>3 DEF QueuesAreExact, Queues
<1>9. order' \in Seq(Principals) /\ OrderIsExact'
  <2> DEFINE T == {p \in Principals : heldBy'[p] > 0}
  <2>1. order \in Seq(Principals) /\ turn \in Nat
    BY DEF ExecutorInv, ExecutorTyped, OrderIsExact, Seated
  <2>2. order' = Kept(order, T) /\ turn' = Clamped(turn, Len(order'))
    BY <1>1, ExecutorRounds
  <2>3. T \subseteq Elements(order)
    BY <1>5 DEF ExecutorInv, OrderIsExact
  <2> HIDE DEF T
  <2>4. /\ order' \in Seq(Principals) /\ Elements(order') = Elements(order) \cap T
        /\ Distinct(order) => Distinct(order')
    BY <2>1, <2>2, KeptIs
  <2>5. Seated(turn', order')
    BY <2>1, <2>2, <2>4, ClampedIs
  <2> QED BY <2>3, <2>4, <2>5 DEF ExecutorInv, OrderIsExact, T
<1>10. NoneMayRun'
  BY <1>1 DEF NoneMayRun
<1>11. ExecutorTyped'
  BY <1>1, <1>2, <1>6, <1>8, <1>9 DEF ExecutorInv, ExecutorTyped
<1> QED BY <1>7, <1>8, <1>9, <1>10, <1>11 DEF ExecutorInv

-----------------------------------------------------------------------------
(* The executor's invariant.                                               *)

LEMMA ExecutorStarts ==
  ASSUME Executor!Init
  PROVE  ExecutorInv
<1>1. /\ queue = [c \in Classes |-> << >>] /\ perPrincipal = [p \in Principals |-> << >>]
      /\ order = << >> /\ turn = 0 /\ cursor = 0
      /\ held = [c \in Classes |-> 0] /\ heldBy = [p \in Principals |-> 0] /\ active = [c \in Classes |-> 0]
      /\ work = [w \in Messages |-> Executor!NoWork] /\ pump = "off" /\ closed = FALSE
  BY ExecutorParts DEF Executor!Init
<1>2. Executor!NoWork \in WorkStates /\ Executor!NoWork.at = "out"
  BY DEF Executor!NoWork, WorkStates, WorkPlaces, Results
<1>3. work \in [Messages -> WorkStates] /\ \A w \in Messages : work[w].at = "out"
  BY <1>1, <1>2
<1>4. ASSUME NEW K \in SUBSET Messages
      PROVE  Holding(K, InQueue, work) = {} /\ Holding(K, InRun, work) = {} /\ Holding(K, InHand, work) = {}
  BY <1>3 DEF Holding, InQueue, InRun, InHand
<1>5. /\ \A c \in Classes : /\ Holding(OfClass(c), InQueue, work) = {} /\ Holding(OfClass(c), InRun, work) = {}
                            /\ Holding(OfClass(c), InHand, work) = {}
      /\ \A p \in Principals : Holding(OfPrincipal(p), InQueue, work) = {} /\ Holding(OfPrincipal(p), InHand, work) = {}
  BY <1>4, GroupsAre
<1>6. 0 \in 0 .. Len(Cycle) - 1
  <2>1. \E i \in 1 .. Len(Cycle) : Cycle[i] = "safety"
    BY ExecutorAssumption, ExecutorParts DEF Classes
  <2>2. Len(Cycle) \in Nat
    BY ExecutorAssumption
  <2> QED BY <2>1, <2>2
<1>7. << >> \in Seq(Messages) /\ << >> \in Seq(Principals) /\ Distinct(<< >>) /\ Elements(<< >>) = {}
  BY DEF Distinct, Elements
<1>8. Cardinality({}) = 0
  BY FS_EmptySet
<1>9. ExecutorTyped
  BY <1>1, <1>3, <1>6, <1>7 DEF ExecutorTyped
<1>10. QueuesAreExact
  BY <1>1, <1>5, <1>7 DEF QueuesAreExact, Queues
<1>11. ClassAccounts
  <2>1. \A c \in Classes : MaxActive[c] \in Nat
    BY ExecutorAssumption, ExecutorParts
  <2>2. \A c \in Classes : held[c] = 0 /\ active[c] = 0 /\ active[c] <= MaxActive[c]
    BY <1>1, <2>1
  <2> QED BY <1>5, <1>8, <2>2 DEF ClassAccounts
<1>12. PrincipalAccounts
  BY <1>1, <1>5, <1>8 DEF PrincipalAccounts
<1>13. OrderIsExact
  <2>1. {p \in Principals : heldBy[p] > 0} = {}
    BY <1>1
  <2>2. Seated(turn, order)
    BY <1>1 DEF Seated
  <2> QED BY <1>1, <1>7, <2>1, <2>2 DEF OrderIsExact
<1>14. NoneMayRun
  BY <1>5 DEF NoneMayRun, MayRun
<1> QED BY <1>9, <1>10, <1>11, <1>12, <1>13, <1>14 DEF ExecutorInv

LEMMA ExecutorRests ==
  ASSUME ExecutorInv, UNCHANGED executor
  PROVE  ExecutorInv'
<1>1. Resting /\ UNCHANGED <<work, pump, closed>>
  BY DEF executor, Resting
<1>2. ExecutorTyped' /\ QueuesAreExact'
  BY <1>1 DEF ExecutorInv, Resting, ExecutorTyped, QueuesAreExact
<1>3. ClassAccounts' /\ PrincipalAccounts' /\ OrderIsExact' /\ NoneMayRun'
  BY <1>1 DEF ExecutorInv, Resting, ClassAccounts, PrincipalAccounts, OrderIsExact, NoneMayRun, MayRun
<1> QED BY <1>2, <1>3 DEF ExecutorInv

LEMMA ExecutorStep ==
  ASSUME ExecutorInv, Executor!Next
  PROVE  ExecutorInv'
<1>1. ASSUME NEW w \in Messages,
             Executor!SubmitAnswered(w) \/ Executor!Admit(w) \/ Executor!Replace(w) \/ Executor!Forget(w)
      PROVE  ExecutorInv'
  BY <1>1, ExecutorAnswers, ExecutorAdmits, ExecutorReplaces, ExecutorForgets
<1>2. ASSUME NEW w \in Messages, NEW result \in {"executed", "failed"}, Executor!ExecutionEnds(w, result)
      PROVE  ExecutorInv'
  BY <1>2, ExecutorEnds
<1>3. ASSUME Executor!PumpStarts \/ Executor!Dequeue \/ Executor!PumpEnds \/ Executor!Close
      PROVE  ExecutorInv'
  BY <1>3, ExecutorPumpStarts, ExecutorDequeues, ExecutorPumpEnds, ExecutorCloses
<1> QED BY <1>1, <1>2, <1>3 DEF Executor!Next

LEMMA ExecutorInvGives ==
  ASSUME ExecutorInv
  PROVE  Executor!TypeOK /\ Executor!AccountsAgree /\ Executor!LimitsHold /\ Executor!NothingWaitsIdly
<1>1. Executor!TypeOK
  <2>1. turn \in Nat
    BY DEF ExecutorInv, OrderIsExact, Seated
  <2> QED BY <2>1, ExecutorParts
          DEF ExecutorInv, ExecutorTyped, Executor!TypeOK, WorkStates, WorkPlaces, Results
<1>2. ASSUME NEW c \in Classes, NEW A
      PROVE  Executor!In(c, A) = Holding(OfClass(c), A, work)
  BY DEF Executor!In, Holding, OfClass
<1>3. \A p \in Principals : {w \in Executor!In("authority", {"waiting", "executing"}) : PrincipalOf[w] = p}
                              = Holding(OfPrincipal(p), InHand, work)
  BY DEF Executor!In, Holding, OfPrincipal, InHand
<1>4. Executor!AccountsAgree
  <2>1. ASSUME NEW c \in Classes
        PROVE  /\ held[c] = Executor!Cardinality(Executor!In(c, {"waiting", "executing"}))
               /\ active[c] = Executor!Cardinality(Executor!In(c, {"executing"}))
               /\ Executor!In(c, {"waiting"}) = Executor!WaitingOf(c)
    BY <1>2, ExecutorParts, WaitingIs DEF ExecutorInv, ClassAccounts, InHand, InRun, InQueue
  <2>2. ASSUME NEW p \in Principals
        PROVE  heldBy[p] = Executor!Cardinality({w \in Executor!In("authority", {"waiting", "executing"}) :
                                                   PrincipalOf[w] = p})
    BY <1>3, ExecutorParts DEF ExecutorInv, PrincipalAccounts
  <2>3. Executor!ToSet(order) = {p \in Principals : heldBy[p] > 0}
    <3>1. order \in Seq(Principals)
      BY DEF ExecutorInv, ExecutorTyped
    <3> QED BY <3>1, ElementsAre DEF ExecutorInv, OrderIsExact
  <2>4. Executor!IsInjective(order)
    <3>1. DOMAIN order = 1 .. Len(order)
      BY DEF ExecutorInv, ExecutorTyped
    <3> QED BY <3>1 DEF ExecutorInv, OrderIsExact, Distinct, Executor!IsInjective
  <2>5. turn < Len(order) \/ (order = << >> /\ turn = 0)
    BY DEF ExecutorInv, OrderIsExact, Seated
  <2> QED BY <2>1, <2>2, <2>3, <2>4, <2>5, ExecutorParts DEF Executor!AccountsAgree
<1>5. Executor!LimitsHold
  BY <1>2, ExecutorParts DEF ExecutorInv, ClassAccounts, InRun, Executor!LimitsHold
<1>6. Executor!NothingWaitsIdly
  BY WaitingIs, ExecutorParts DEF ExecutorInv, NoneMayRun, Executor!NothingWaitsIdly, Executor!Eligible
<1> QED BY <1>1, <1>4, <1>5, <1>6

LEMMA ExecutorTellsOnce ==
  ASSUME ExecutorInv, Executor!Next
  PROVE  Executor!TellsOnce
<1> SUFFICES ASSUME NEW v \in Messages, work[v].told # "no"
             PROVE  work'[v].told = work[v].told \/ work'[v].at = "out"
  BY DEF Executor!TellsOnce
<1>1. work \in [Messages -> WorkStates] /\ ExecutorTyped /\ TRUE \in BOOLEAN
  BY DEF ExecutorInv, ExecutorTyped
<1>2. {"executed", "failed", "closed", "replaced", "refused"} \subseteq Results /\ "ended" \in WorkPlaces
  BY DEF Results, WorkPlaces
<1>3. ASSUME NEW w \in Messages, Executor!SubmitAnswered(w)
      PROVE  work'[v].told = work[v].told
  <2> DEFINE what == IF closed THEN "closed" ELSE "refused"
  <2>1. work' = Executor!Told({w}, what, "ended", TRUE) /\ what \in Results /\ {w} \in SUBSET Messages
    BY <1>2, <1>3 DEF Executor!SubmitAnswered
  <2> HIDE DEF what
  <2>2. Tells(work', {w}, "ended")
    BY <1>1, <1>2, <2>1, ToldIs, Zenon
  <2> QED BY <2>2 DEF Tells
<1>4. ASSUME NEW w \in Messages, Executor!Admit(w)
      PROVE  work'[v].told = work[v].told
  BY <1>1, <1>4 DEF Executor!Admit, WorkStates
<1>5. ASSUME NEW w \in Messages, Executor!Replace(w)
      PROVE  work'[v].told = work[v].told
  <2>1. PICK u \in Executor!Prior(w) :
          work' = [Executor!Told({u}, "replaced", "ended", TRUE) EXCEPT ![w].at = "waiting"]
    BY <1>5 DEF Executor!Replace
  <2> DEFINE g == Executor!Told({u}, "replaced", "ended", TRUE)
  <2>2. {u} \in SUBSET Messages /\ "replaced" \in Results
    BY <1>2 DEF Executor!Prior
  <2>3. Tells(g, {u}, "ended")
    BY <1>1, <1>2, <2>2, ToldIs, Zenon
  <2>4. work' = [g EXCEPT ![w].at = "waiting"]
    BY <2>1
  <2> HIDE DEF g
  <2> QED BY <2>3, <2>4 DEF Tells, WorkStates
<1>6. ASSUME NEW w \in Messages, Executor!Forget(w)
      PROVE  work'[v].told = work[v].told \/ work'[v].at = "out"
  BY <1>1, <1>6 DEF Executor!Forget, Executor!NoWork
<1>7. ASSUME NEW w \in Messages, NEW result \in {"executed", "failed"}, Executor!ExecutionEnds(w, result)
      PROVE  work'[v].told = work[v].told
  <2>1. work' = Executor!Told({w}, result, "ended", TRUE) /\ {w} \in SUBSET Messages /\ result \in Results
    BY <1>2, <1>7 DEF Executor!ExecutionEnds, Executor!TellsEnd
  <2>2. Tells(work', {w}, "ended")
    BY <1>1, <1>2, <2>1, ToldIs, Zenon
  <2> QED BY <2>2 DEF Tells
<1>8. ASSUME Executor!PumpStarts \/ Executor!PumpEnds
      PROVE  work' = work
  BY <1>8 DEF Executor!PumpStarts, Executor!PumpEnds
<1>9. ASSUME Executor!Dequeue
      PROVE  work'[v].told = work[v].told
  <2>1. PICK w : work' = [work EXCEPT ![w].at = "executing"]
    BY <1>9 DEF Executor!Dequeue, Executor!Started
  <2> QED BY <1>1, <2>1 DEF WorkStates
<1>10. ASSUME Executor!Close
       PROVE  work'[v].told = work[v].told
  BY <1>1, <1>10, ClosingIs
<1> QED BY <1>3, <1>4, <1>5, <1>6, <1>7, <1>8, <1>9, <1>10 DEF Executor!Next

-----------------------------------------------------------------------------
(* The admission of all zones.                                             *)

ZonePlaces == {"out", "queued", "handed", "released"}
Tellings == {"no", "answered", "closed", "replaced"}
DueAnswers == {"completion", "cleanup"}
SessionOr == Process!Sessions \cup {Process!NoSession}
ZoneWorkStates == [at : ZonePlaces, owner : SessionOr, told : Tellings, aborted : BOOLEAN, due : SUBSET DueAnswers]

ProcessTyped ==
  /\ session \in [Zones -> SessionOr] /\ retired \in [Zones -> SUBSET Process!Sessions]
  /\ zoneOrder \in Seq(Zones) /\ Len(zoneOrder) <= MaxActiveSessions
  /\ nonSafety \in Nat /\ tokens \subseteq ZoneMessages
  /\ zoneWork \in [ZoneMessages -> ZoneWorkStates]
  /\ zonePump \in {"off", "scheduled", "running"}

InProcess == {"queued", "handed"}
\* The answer that releases work.
Releasing(w) == IF w \in Retained THEN "cleanup" ELSE "completion"

\* Work that is queued or handed on has a session, other work none; the answer
\* that releases it is due from when it is handed on until it is released.
WorkIsOwned ==
  \A w \in ZoneMessages :
    /\ zoneWork[w].at \in InProcess => zoneWork[w].owner \in Process!Sessions
    /\ zoneWork[w].at \notin InProcess => zoneWork[w].owner = Process!NoSession
    /\ zoneWork[w].at = "queued" => zoneWork[w].due = {}
    /\ zoneWork[w].at = "handed" => Releasing(w) \in zoneWork[w].due
    /\ zoneWork[w].at = "released" => Releasing(w) \notin zoneWork[w].due

\* The work that is queued or handed on, of all zones and of one; its sessions.
All(f) == {w \in ZoneMessages : f[w].at \in InProcess}
Of(z, f) == {w \in ZoneMessages : ZoneOf[w] = z /\ f[w].at \in InProcess}
Owners(z, f) == {f[w].owner : w \in Of(z, f)}
Handed(f) == {w \in ZoneMessages : f[w].at = "handed"}

AccountIsExact == nonSafety = Cardinality(All(zoneWork) \ Safety) /\ nonSafety <= MaxNonSafety
RetiredAreOwners == \A z \in Zones : retired[z] = Owners(z, zoneWork) \ {session[z]}
TokensAreHanded == tokens = Handed(zoneWork)

\* The zones that have a place.
Placed(s, f) == {z \in Zones : s[z] # Process!NoSession \/ Of(z, f) # {}}
ZonesAreOrdered ==
  /\ Distinct(zoneOrder) /\ Seated(zoneTurn, zoneOrder)
  /\ Elements(zoneOrder) = Placed(session, zoneWork)

NoneQueued == zonePump = "off" => \A w \in ZoneMessages : zoneWork[w].at # "queued"

ProcessInv == /\ ProcessTyped /\ WorkIsOwned /\ AccountIsExact /\ RetiredAreOwners
              /\ TokensAreHanded /\ ZonesAreOrdered /\ NoneQueued

-----------------------------------------------------------------------------
LEMMA ProcessParts ==
  /\ \A S : Process!Cardinality(S) = Cardinality(S)
  /\ \A s : Process!ToSet(s) = {s[i] : i \in DOMAIN s}
  /\ Process!NoSession \notin Process!Sessions
<1>1. ASSUME NEW S PROVE Process!Cardinality(S) = Cardinality(S)
  BY DEF Process!Cardinality, Cardinality, Process!IsFiniteSet, IsFiniteSet
<1>2. Process!NoSession \notin Process!Sessions
  BY ProcessAssumption DEF Process!NoSession, Process!Sessions
<1> QED BY <1>1, <1>2 DEF Process!ToSet

LEMMA ProcessRounds ==
  ASSUME NEW s, NEW t, NEW T
  PROVE  /\ Process!Served(s, t, T) = Served(s, t, T)
         /\ Process!NextTurn(s, t, T) = NextTurn(s, t, T)
         /\ Process!Kept(s, T) = Kept(s, T)
         /\ Process!Clamped(t, T) = Clamped(t, T)
<1>1. \A i : Process!At(s, i) = At(s, i)
  BY DEF Process!At, At
<1>2. Process!Distance(s, t, T) = Distance(s, t, T)
  BY <1>1 DEF Process!Distance, Distance
<1>3. Process!Kept(s, T) = Kept(s, T)
  <2> DEFINE P == {i \in 1 .. Len(s) : s[i] \in T}
             Nth(n) == CHOOSE f \in [1 .. n -> P] : \A i, j \in 1 .. n : i < j => f[i] < f[j]
             List(n) == [i \in 1 .. n |-> s[Nth(n)[i]]]
  <2>1. Process!Kept(s, T) = List(Process!Cardinality(P))
    BY DEF Process!Kept
  <2>2. Kept(s, T) = List(Cardinality(P))
    BY DEF Kept
  <2>3. Process!Cardinality(P) = Cardinality(P)
    BY ProcessParts
  <2> HIDE DEF List
  <2> QED BY <2>1, <2>2, <2>3
<1>4. Process!Served(s, t, T) = Served(s, t, T)
  BY <1>1, <1>2 DEF Process!Served, Served
<1>5. Process!NextTurn(s, t, T) = NextTurn(s, t, T)
  BY <1>2 DEF Process!NextTurn, NextTurn
<1> QED BY <1>3, <1>4, <1>5 DEF Process!Clamped, Clamped

LEMMA ZonesIn ==
  ASSUME NEW s \in Seq(Zones)
  PROVE  /\ Process!ToSet(s) = Elements(s) /\ Elements(s) \subseteq Zones /\ Len(s) \in Nat
         /\ (Elements(s) = {} <=> s = << >>)
<1>1. Len(s) \in Nat /\ DOMAIN s = 1 .. Len(s) /\ \A i \in 1 .. Len(s) : s[i] \in Zones
  OBVIOUS
<1>2. s # << >> => 1 \in 1 .. Len(s)
  BY <1>1
<1>3. s = << >> => 1 .. Len(s) = {}
  OBVIOUS
<1> QED BY <1>1, <1>2, <1>3, ProcessParts DEF Elements

\* A list without one of its elements.
LEMMA OneLess ==
  ASSUME NEW s \in Seq(Zones), Distinct(s), NEW z \in Elements(s), NEW r, r = Process!Kept(s, Zones \ {z})
  PROVE  r \in Seq(Zones) /\ Distinct(r) /\ Elements(r) = Elements(s) \ {z} /\ Len(r) = Len(s) - 1
<1>1. r = Kept(s, Zones \ {z})
  BY ProcessRounds
<1>2. r \in Seq(Zones) /\ Distinct(r) /\ Elements(r) = Elements(s) \cap (Zones \ {z})
  BY <1>1, KeptIs, ZenonT(60)
<1>3. Elements(r) = Elements(s) \ {z}
  BY <1>2, ZonesIn
<1>4. /\ IsFiniteSet(Elements(s)) /\ Cardinality(Elements(s)) = Len(s)
      /\ Cardinality(Elements(r)) = Len(r)
  BY <1>2, DistinctLength
<1>5. Cardinality(Elements(s) \ {z}) = Cardinality(Elements(s)) - 1
  BY <1>4, FS_RemoveElement
<1> QED BY <1>2, <1>3, <1>4, <1>5

\* The account of one message.
LEMMA CountedOne ==
  ASSUME NEW w \in ZoneMessages
  PROVE  Process!Counted({w}) = IF w \in Safety THEN 0 ELSE 1
<1>1. w \in Safety => {w} \ Safety = {}
  OBVIOUS
<1>2. w \notin Safety => {w} \ Safety = {w}
  OBVIOUS
<1>3. Cardinality({}) = 0 /\ Cardinality({w}) = 1
  BY FS_EmptySet, FS_Singleton
<1> QED BY <1>1, <1>2, <1>3, ProcessParts DEF Process!Counted

LEMMA AllFinite ==
  ASSUME NEW f
  PROVE  IsFiniteSet(All(f) \ Safety) /\ Cardinality(All(f) \ Safety) \in Nat
<1>1. All(f) \ Safety \subseteq ZoneMessages
  BY DEF All
<1>2. IsFiniteSet(All(f) \ Safety)
  BY <1>1, ProcessAssumption, FS_Subset
<1> QED BY <1>2, FS_CardinalityType

\* One message joins the accounted work, or leaves it.
LEMMA Joined ==
  ASSUME NEW f, NEW g, NEW w \in ZoneMessages, All(g) = All(f) \cup {w}, w \notin All(f)
  PROVE  Cardinality(All(g) \ Safety) = Cardinality(All(f) \ Safety) + Process!Counted({w})
<1>1. IsFiniteSet(All(f) \ Safety) /\ Cardinality(All(f) \ Safety) \in Nat
  BY AllFinite
<1>2. CASE w \in Safety
  <2>1. All(g) \ Safety = All(f) \ Safety
    BY <1>2
  <2>2. Process!Counted({w}) = 0
    BY <1>2, CountedOne
  <2> QED BY <1>1, <2>1, <2>2
<1>3. CASE w \notin Safety
  <2>1. All(g) \ Safety = (All(f) \ Safety) \cup {w} /\ w \notin All(f) \ Safety
    BY <1>3
  <2>2. Cardinality((All(f) \ Safety) \cup {w}) = Cardinality(All(f) \ Safety) + 1
    BY <1>1, <2>1, FS_AddElement
  <2> QED BY <1>3, <2>1, <2>2, CountedOne
<1> QED BY <1>2, <1>3

-----------------------------------------------------------------------------
(* Steps that release nothing.                                             *)

SamePlace(q, r) == q.at = r.at /\ q.owner = r.owner /\ q.due = r.due

SettledAs(q, r) == /\ q \in ZoneWorkStates /\ SamePlace(q, r) /\ q.aborted = r.aborted
                   /\ r.told # "no" => q.told = r.told

LEMMA SettledIs ==
  ASSUME NEW r \in ZoneWorkStates, NEW what \in Tellings
  PROVE  SettledAs(Process!Settled(r, what), r)
<1>1. [r EXCEPT !.told = what] \in ZoneWorkStates
  BY Zenon DEF ZoneWorkStates
<1>2. /\ [r EXCEPT !.told = what].at = r.at /\ [r EXCEPT !.told = what].owner = r.owner
      /\ [r EXCEPT !.told = what].due = r.due /\ [r EXCEPT !.told = what].aborted = r.aborted
  BY DEF ZoneWorkStates
<1> QED BY <1>1, <1>2 DEF Process!Settled, SettledAs, SamePlace

\* A record with another flag, place or owner.
LEMMA RecordsChange ==
  ASSUME NEW r \in ZoneWorkStates
  PROVE  /\ \A b \in BOOLEAN : [r EXCEPT !.aborted = b] \in ZoneWorkStates
         /\ \A p \in ZonePlaces : [r EXCEPT !.at = p] \in ZoneWorkStates
         /\ \A s \in SessionOr : [r EXCEPT !.owner = s] \in ZoneWorkStates
         /\ \A d \in SUBSET DueAnswers : [r EXCEPT !.due = d] \in ZoneWorkStates
BY Zenon DEF ZoneWorkStates

\* The work that is queued or handed on stays the same.
SameWork(f, g) == /\ All(g) = All(f)
                  /\ \A z \in Zones : Of(z, g) = Of(z, f) /\ Owners(z, g) = Owners(z, f)

LEMMA WorkStays ==
  ASSUME NEW f, NEW g,
         \A v \in ZoneMessages : /\ g[v].at \in InProcess <=> f[v].at \in InProcess
                                 /\ f[v].at \in InProcess => g[v].owner = f[v].owner
  PROVE  SameWork(f, g)
<1>1. All(g) = All(f)
  BY DEF All
<1>2. ASSUME NEW z \in Zones
      PROVE  Of(z, g) = Of(z, f) /\ Owners(z, g) = Owners(z, f)
  <2>1. Of(z, g) = Of(z, f)
    BY DEF Of
  <2>2. \A v \in Of(z, f) : g[v].owner = f[v].owner
    BY DEF Of
  <2> QED BY <2>1, <2>2 DEF Owners
<1> QED BY <1>1, <1>2 DEF SameWork

\* Everything but the work and the pump.
Apart == UNCHANGED <<session, retired, zoneOrder, zoneTurn, nonSafety, tokens>>

LEMMA ProcessKeeps ==
  ASSUME ProcessInv, Apart, zoneWork' \in [ZoneMessages -> ZoneWorkStates], WorkIsOwned',
         SameWork(zoneWork, zoneWork'), Handed(zoneWork') = Handed(zoneWork),
         zonePump' \in {"off", "scheduled", "running"}, NoneQueued'
  PROVE  ProcessInv'
<1>1. ProcessTyped'
  BY DEF ProcessInv, ProcessTyped, Apart
<1>2. AccountIsExact' /\ RetiredAreOwners' /\ TokensAreHanded'
  BY DEF ProcessInv, AccountIsExact, RetiredAreOwners, TokensAreHanded, Apart, SameWork
<1>3. Placed(session, zoneWork') = Placed(session, zoneWork)
  BY DEF Placed, SameWork
<1>4. ZonesAreOrdered'
  BY <1>3 DEF ProcessInv, ZonesAreOrdered, Apart
<1> QED BY <1>1, <1>2, <1>4 DEF ProcessInv

LEMMA PlacesStay ==
  ASSUME ProcessInv, zoneWork' \in [ZoneMessages -> ZoneWorkStates],
         \A v \in ZoneMessages : SamePlace(zoneWork'[v], zoneWork[v])
  PROVE  /\ WorkIsOwned' /\ SameWork(zoneWork, zoneWork') /\ Handed(zoneWork') = Handed(zoneWork)
         /\ (zonePump' = "off" => zonePump = "off") => NoneQueued'
<1>1. WorkIsOwned'
  BY DEF ProcessInv, WorkIsOwned, SamePlace
<1>2. SameWork(zoneWork, zoneWork')
  BY WorkStays DEF SamePlace
<1>3. Handed(zoneWork') = Handed(zoneWork)
  BY DEF Handed, SamePlace
<1>4. (zonePump' = "off" => zonePump = "off") => NoneQueued'
  BY DEF ProcessInv, NoneQueued, SamePlace
<1> QED BY <1>1, <1>2, <1>3, <1>4

LEMMA ProcessPumpStarts ==
  ASSUME ProcessInv, Process!PumpStarts
  PROVE  ProcessInv'
<1>1. Apart /\ zoneWork' = zoneWork /\ zonePump' = "running"
  BY DEF Process!PumpStarts, Apart
<1>2. zoneWork' \in [ZoneMessages -> ZoneWorkStates] /\ \A v \in ZoneMessages : SamePlace(zoneWork'[v], zoneWork[v])
  BY <1>1 DEF ProcessInv, ProcessTyped, SamePlace
<1> QED BY <1>1, <1>2, PlacesStay, ProcessKeeps

\* The zones that have something queued have their place.
LEMMA QueuedHasPlace ==
  ASSUME ProcessInv, NEW w \in ZoneMessages, zoneWork[w].at = "queued"
  PROVE  /\ Process!HasQueued
         /\ Elements(zoneOrder) \cap Process!WithWork # {}
<1>1. ZoneOf[w] \in Zones /\ w \in Of(ZoneOf[w], zoneWork)
  BY ProcessAssumption DEF Of, InProcess
<1>2. ZoneOf[w] \in Process!WithWork
  BY <1>1 DEF Process!WithWork, Process!Queued
<1>3. ZoneOf[w] \in Elements(zoneOrder)
  BY <1>1 DEF ProcessInv, ZonesAreOrdered, Placed
<1>4. Process!HasQueued
  BY <1>2, <1>3 DEF Process!HasQueued, Elements
<1> QED BY <1>2, <1>3, <1>4

LEMMA ProcessPumpEnds ==
  ASSUME ProcessInv, Process!PumpEnds
  PROVE  ProcessInv'
<1>1. Apart /\ zoneWork' = zoneWork /\ zonePump' = "off" /\ ~Process!HasQueued
  BY DEF Process!PumpEnds, Apart
<1>2. zoneWork' \in [ZoneMessages -> ZoneWorkStates] /\ \A v \in ZoneMessages : SamePlace(zoneWork'[v], zoneWork[v])
  BY <1>1 DEF ProcessInv, ProcessTyped, SamePlace
<1>3. NoneQueued'
  BY <1>1, QueuedHasPlace DEF NoneQueued
<1> QED BY <1>1, <1>2, <1>3, PlacesStay, ProcessKeeps

LEMMA ZoneScheduled ==
  ASSUME ProcessTyped, zonePump' = Process!Scheduled
  PROVE  zonePump' \in {"off", "scheduled", "running"} /\ zonePump' # "off" /\ NoneQueued'
BY DEF Process!Scheduled, NoneQueued, ProcessTyped

LEMMA ProcessCancels ==
  ASSUME ProcessInv, NEW w \in ZoneMessages, Process!Cancel(w)
  PROVE  ProcessInv'
<1> DEFINE said == IF zoneWork[w].at = "queued" THEN Process!Settled(zoneWork[w], "closed") ELSE zoneWork[w]
<1>1. /\ zoneWork' = [zoneWork EXCEPT ![w] = [said EXCEPT !.aborted = TRUE]] /\ Apart
      /\ zonePump' = IF zoneWork[w].at = "queued" THEN Process!Scheduled ELSE zonePump
  BY DEF Process!Cancel, Apart
<1>2. zoneWork[w] \in ZoneWorkStates /\ "closed" \in Tellings /\ TRUE \in BOOLEAN
  BY DEF ProcessInv, ProcessTyped, Tellings
<1>3. said \in ZoneWorkStates /\ SamePlace(said, zoneWork[w])
  BY <1>2, SettledIs DEF SettledAs, SamePlace
<1> HIDE DEF said
<1>4. /\ [said EXCEPT !.aborted = TRUE] \in ZoneWorkStates /\ SamePlace([said EXCEPT !.aborted = TRUE], said)
  <2>1. [said EXCEPT !.aborted = TRUE] \in ZoneWorkStates
    BY <1>2, <1>3, RecordsChange, Zenon
  <2>2. SamePlace([said EXCEPT !.aborted = TRUE], said)
    BY <1>3 DEF SamePlace, ZoneWorkStates
  <2> QED BY <2>1, <2>2
<1> DEFINE q == [said EXCEPT !.aborted = TRUE]
<1>5. q \in ZoneWorkStates /\ SamePlace(q, zoneWork[w]) /\ zoneWork' = [zoneWork EXCEPT ![w] = q]
  BY <1>1, <1>3, <1>4 DEF SamePlace
<1> HIDE DEF q
<1>6. zoneWork' \in [ZoneMessages -> ZoneWorkStates] /\ \A v \in ZoneMessages : SamePlace(zoneWork'[v], zoneWork[v])
  BY <1>5 DEF ProcessInv, ProcessTyped, SamePlace
<1>7. zonePump' \in {"off", "scheduled", "running"} /\ (zonePump' = "off" => zonePump = "off")
  BY <1>1 DEF Process!Scheduled, ProcessInv, ProcessTyped
<1> QED BY <1>1, <1>6, <1>7, PlacesStay, ProcessKeeps

LEMMA ProcessForgets ==
  ASSUME ProcessInv, NEW w \in ZoneMessages, Process!Forget(w)
  PROVE  ProcessInv'
<1>1. /\ zoneWork' = [zoneWork EXCEPT ![w] = Process!NoWork] /\ Apart /\ UNCHANGED zonePump
      /\ zoneWork[w].at = "released"
  BY DEF Process!Forget, Apart
<1>2. /\ Process!NoWork \in ZoneWorkStates /\ Process!NoWork.at = "out"
      /\ Process!NoWork.owner = Process!NoSession
  BY DEF Process!NoWork, ZoneWorkStates, ZonePlaces, Tellings, SessionOr
<1>3. zoneWork' \in [ZoneMessages -> ZoneWorkStates] /\ zoneWork'[w] = Process!NoWork
      /\ \A v \in ZoneMessages : v # w => zoneWork'[v] = zoneWork[v]
  BY <1>1, <1>2 DEF ProcessInv, ProcessTyped
<1>4. WorkIsOwned'
  BY <1>2, <1>3 DEF ProcessInv, WorkIsOwned, InProcess
<1>5. SameWork(zoneWork, zoneWork')
  <2>1. \A v \in ZoneMessages : /\ zoneWork'[v].at \in InProcess <=> zoneWork[v].at \in InProcess
                                /\ zoneWork[v].at \in InProcess => zoneWork'[v].owner = zoneWork[v].owner
    BY <1>1, <1>2, <1>3 DEF InProcess
  <2> QED BY <2>1, WorkStays
<1>6. Handed(zoneWork') = Handed(zoneWork)
  BY <1>1, <1>2, <1>3 DEF Handed
<1>7. NoneQueued' /\ zonePump' \in {"off", "scheduled", "running"}
  BY <1>1, <1>2, <1>3 DEF ProcessInv, ProcessTyped, NoneQueued
<1> QED BY <1>1, <1>3, <1>4, <1>5, <1>6, <1>7, ProcessKeeps

-----------------------------------------------------------------------------
(* Work is released.                                                       *)

\* w is released and nothing else changes place.
ReleasedAlone(w) ==
  /\ zoneWork' \in [ZoneMessages -> ZoneWorkStates]
  /\ \A v \in ZoneMessages : v # w => zoneWork'[v] = zoneWork[v]
  /\ zoneWork'[w].at = "released" /\ zoneWork'[w].owner = Process!NoSession
  /\ Releasing(w) \notin zoneWork'[w].due

LEMMA WithoutReleased ==
  ASSUME NEW w \in ZoneMessages, zoneWork[w].at \in InProcess, ReleasedAlone(w)
  PROVE  /\ w \in All(zoneWork) /\ All(zoneWork') = All(zoneWork) \ {w}
         /\ \A z \in Zones : Of(z, zoneWork') = Of(z, zoneWork) \ {w}
         /\ \A z \in Zones : Owners(z, zoneWork') = {zoneWork[v].owner : v \in Of(z, zoneWork) \ {w}}
         /\ Handed(zoneWork') = Handed(zoneWork) \ {w}
<1>1. w \in All(zoneWork) /\ All(zoneWork') = All(zoneWork) \ {w}
  BY DEF All, ReleasedAlone, InProcess
<1>2. Handed(zoneWork') = Handed(zoneWork) \ {w}
  BY DEF Handed, ReleasedAlone
<1>3. ASSUME NEW z \in Zones
      PROVE  /\ Of(z, zoneWork') = Of(z, zoneWork) \ {w}
             /\ Owners(z, zoneWork') = {zoneWork[v].owner : v \in Of(z, zoneWork) \ {w}}
  <2>1. Of(z, zoneWork') = Of(z, zoneWork) \ {w}
    BY DEF Of, ReleasedAlone, InProcess
  <2>2. \A v \in Of(z, zoneWork) \ {w} : zoneWork'[v] = zoneWork[v]
    BY DEF Of, ReleasedAlone
  <2> QED BY <2>1, <2>2 DEF Owners
<1> QED BY <1>1, <1>2, <1>3

\* What the release of w leaves of the retired sessions of its zone.
Rest(w) == IF Process!WorkOf(ZoneOf[w], zoneWork[w].owner) \subseteq {w}
           THEN retired[ZoneOf[w]] \ {zoneWork[w].owner} ELSE retired[ZoneOf[w]]

LEMMA RestIs ==
  ASSUME ProcessInv, NEW w \in ZoneMessages, zoneWork[w].at \in InProcess, ReleasedAlone(w)
  PROVE  Rest(w) = Owners(ZoneOf[w], zoneWork') \ {session[ZoneOf[w]]}
<1> DEFINE z == ZoneOf[w]
           s == zoneWork[w].owner
           O == Of(z, zoneWork)
<1>1. z \in Zones /\ w \in O
  BY ProcessAssumption DEF Of
<1>2. /\ retired[z] = {zoneWork[v].owner : v \in O} \ {session[z]}
      /\ Owners(z, zoneWork') = {zoneWork[v].owner : v \in O \ {w}}
  BY <1>1, WithoutReleased DEF ProcessInv, RetiredAreOwners, Owners
<1>3. Process!WorkOf(z, s) = {v \in O : zoneWork[v].owner = s}
  BY DEF Process!WorkOf, Process!Held, Of, InProcess
<1>4. CASE Process!WorkOf(z, s) \subseteq {w}
  <2>1. \A v \in O \ {w} : zoneWork[v].owner # s
    BY <1>3, <1>4
  <2>2. Rest(w) = retired[z] \ {s}
    BY <1>4 DEF Rest
  <2> HIDE DEF O, s, z
  <2>3. {zoneWork[v].owner : v \in O} \ {s} = {zoneWork[v].owner : v \in O \ {w}}
    BY <1>1, <2>1 DEF s
  <2> QED BY <1>2, <2>2, <2>3 DEF z
<1>5. CASE ~(Process!WorkOf(z, s) \subseteq {w})
  <2>1. PICK u \in O \ {w} : zoneWork[u].owner = s
    BY <1>3, <1>5
  <2>2. Rest(w) = retired[z]
    BY <1>5 DEF Rest
  <2> HIDE DEF O, s, z
  <2>3. {zoneWork[v].owner : v \in O} = {zoneWork[v].owner : v \in O \ {w}}
    BY <1>1, <2>1 DEF s
  <2> QED BY <1>2, <2>2, <2>3 DEF z
<1> QED BY <1>4, <1>5

\* The zone goes exactly when nothing else of it is queued or handed on.
LEMMA GoneIs ==
  ASSUME ProcessInv, NEW w \in ZoneMessages, zoneWork[w].at \in InProcess, ReleasedAlone(w)
  PROVE  Process!MayUnregister(ZoneOf[w], Rest(w), session[ZoneOf[w]])
           <=> session[ZoneOf[w]] = Process!NoSession /\ Of(ZoneOf[w], zoneWork') = {}
<1> DEFINE z == ZoneOf[w]
<1>1. z \in Zones
  BY ProcessAssumption
<1>2. Rest(w) = Owners(z, zoneWork') \ {session[z]}
  BY RestIs
<1>3. \A v \in Of(z, zoneWork') : zoneWork'[v].owner \in Process!Sessions
  <2>1. \A v \in Of(z, zoneWork') : v # w /\ v \in ZoneMessages /\ zoneWork'[v] = zoneWork[v] /\ zoneWork[v].at \in InProcess
    BY DEF Of, ReleasedAlone, InProcess
  <2> QED BY <2>1 DEF ProcessInv, WorkIsOwned
<1>4. session[z] = Process!NoSession => (Rest(w) = {} <=> Of(z, zoneWork') = {})
  BY <1>2, <1>3, ProcessParts DEF Owners
<1> QED BY <1>4 DEF Process!MayUnregister

LEMMA Released ==
  ASSUME ProcessInv, NEW w \in ZoneMessages, zoneWork[w].at \in InProcess, ReleasedAlone(w),
         NEW t, Seated(t, zoneOrder), Process!Release(w, t), UNCHANGED session,
         zonePump' \in {"off", "scheduled", "running"}, NoneQueued'
  PROVE  ProcessInv'
<1> DEFINE z == ZoneOf[w]
           gone == Process!MayUnregister(z, Rest(w), session[z])
           lost == IF gone THEN {v \in tokens : ZoneOf[v] = z} ELSE {}
           dropped == IF gone THEN {v \in ZoneMessages : ZoneOf[v] = z /\ zoneWork[v].at = "queued"} ELSE {}
<1>1. /\ retired' = [retired EXCEPT ![z] = Rest(w)]
      /\ IF gone THEN Process!Unregistered(z, t) ELSE zoneOrder' = zoneOrder /\ zoneTurn' = t
      /\ tokens' = tokens \ (lost \cup {w})
      /\ nonSafety' = nonSafety - Process!Counted(lost \cup dropped \cup {w})
  BY DEF Process!Release, Rest
<1>2. z \in Zones
  BY ProcessAssumption
<1>3. gone <=> session[z] = Process!NoSession /\ Of(z, zoneWork') = {}
  BY GoneIs
<1>4. /\ w \in All(zoneWork) /\ All(zoneWork') = All(zoneWork) \ {w}
      /\ \A y \in Zones : Of(y, zoneWork') = Of(y, zoneWork) \ {w}
      /\ Handed(zoneWork') = Handed(zoneWork) \ {w}
  BY WithoutReleased
<1>5. lost \subseteq {w} /\ dropped \subseteq {w}
  <2> SUFFICES ASSUME gone
               PROVE  /\ {v \in tokens : ZoneOf[v] = z} \subseteq {w}
                      /\ {v \in ZoneMessages : ZoneOf[v] = z /\ zoneWork[v].at = "queued"} \subseteq {w}
    OBVIOUS
  <2>1. Of(z, zoneWork) \subseteq {w}
    BY <1>2, <1>3, <1>4
  <2>2. \A v \in tokens : v \in ZoneMessages /\ zoneWork[v].at = "handed"
    BY DEF ProcessInv, TokensAreHanded, Handed
  <2> QED BY <2>1, <2>2 DEF Of, InProcess
<1>6. lost \cup dropped \cup {w} = {w} /\ lost \cup {w} = {w}
  BY <1>5
<1> HIDE DEF lost, dropped, gone
<1>7. tokens' = tokens \ {w} /\ nonSafety' = nonSafety - Process!Counted({w})
  BY <1>1, <1>6
<1>8. AccountIsExact' /\ nonSafety' \in Nat
  <2>1. All(zoneWork) = All(zoneWork') \cup {w} /\ w \notin All(zoneWork')
    BY <1>4
  <2>2. Cardinality(All(zoneWork) \ Safety) = Cardinality(All(zoneWork') \ Safety) + Process!Counted({w})
    BY <2>1, Joined
  <2>3. Cardinality(All(zoneWork') \ Safety) \in Nat /\ Process!Counted({w}) \in {0, 1}
    BY AllFinite, CountedOne
  <2>4. nonSafety = Cardinality(All(zoneWork) \ Safety) /\ nonSafety <= MaxNonSafety /\ MaxNonSafety \in Nat
    BY ProcessAssumption DEF ProcessInv, AccountIsExact
  <2> QED BY <1>7, <2>2, <2>3, <2>4 DEF AccountIsExact
<1>9. TokensAreHanded'
  BY <1>4, <1>7 DEF ProcessInv, TokensAreHanded
<1>10. /\ retired' \in [Zones -> SUBSET Process!Sessions] /\ RetiredAreOwners'
  <2>1. Rest(w) = Owners(z, zoneWork') \ {session[z]}
    BY RestIs
  <2>2. Rest(w) \subseteq retired[z]
    BY DEF Rest
  <2>3. retired' \in [Zones -> SUBSET Process!Sessions]
    BY <1>1, <1>2, <2>2 DEF ProcessInv, ProcessTyped
  <2>4. ASSUME NEW y \in Zones
        PROVE  retired'[y] = Owners(y, zoneWork') \ {session'[y]}
    <3>1. CASE y = z
      BY <1>1, <1>2, <2>1, <3>1 DEF ProcessInv, ProcessTyped
    <3>2. CASE y # z
      <4>1. w \notin Of(y, zoneWork)
        BY <3>2 DEF Of
      <4>2. Owners(y, zoneWork') = Owners(y, zoneWork)
        <5>1. Owners(y, zoneWork') = {zoneWork[v].owner : v \in Of(y, zoneWork) \ {w}}
          BY WithoutReleased
        <5>2. Of(y, zoneWork) \ {w} = Of(y, zoneWork)
          BY <4>1
        <5> QED BY <5>1, <5>2 DEF Owners
      <4>3. retired'[y] = retired[y]
        BY <1>1, <3>2 DEF ProcessInv, ProcessTyped
      <4> QED BY <4>2, <4>3 DEF ProcessInv, RetiredAreOwners
    <3> QED BY <3>1, <3>2
  <2> QED BY <2>3, <2>4 DEF RetiredAreOwners
<1>11. Placed(session', zoneWork') = IF gone THEN Placed(session, zoneWork) \ {z} ELSE Placed(session, zoneWork)
  <2>1. \A y \in Zones : y # z => Of(y, zoneWork') = Of(y, zoneWork)
    BY <1>4 DEF Of
  <2>2. w \in Of(z, zoneWork)
    BY DEF Of
  <2>3. \A y \in Zones : y # z => (y \in Placed(session', zoneWork') <=> y \in Placed(session, zoneWork))
    BY <2>1 DEF Placed
  <2>4. z \in Placed(session, zoneWork) /\ (z \in Placed(session', zoneWork') <=> ~gone)
    BY <1>2, <1>3, <2>2 DEF Placed
  <2> QED BY <2>3, <2>4 DEF Placed
<1>12. zoneOrder' \in Seq(Zones) /\ Len(zoneOrder') <= MaxActiveSessions /\ ZonesAreOrdered'
  <2>1. /\ zoneOrder \in Seq(Zones) /\ Len(zoneOrder) <= MaxActiveSessions /\ Distinct(zoneOrder)
        /\ Elements(zoneOrder) = Placed(session, zoneWork) /\ t \in Nat
        /\ MaxActiveSessions \in Nat /\ Len(zoneOrder) \in Nat
    BY ProcessAssumption DEF ProcessInv, ProcessTyped, ZonesAreOrdered, Seated
  <2>2. CASE gone
    <3>1. z \in Elements(zoneOrder)
      <4>1. w \in Of(z, zoneWork)
        BY DEF Of
      <4> QED BY <1>2, <2>1, <4>1 DEF Placed
    <3>2. zoneOrder' = Process!Kept(zoneOrder, Zones \ {z}) /\ zoneTurn' = Clamped(t, Len(zoneOrder'))
      BY <1>1, <2>2, ProcessRounds DEF Process!Unregistered
    <3>3. /\ zoneOrder' \in Seq(Zones) /\ Distinct(zoneOrder') /\ Elements(zoneOrder') = Elements(zoneOrder) \ {z}
          /\ Len(zoneOrder') = Len(zoneOrder) - 1
      BY <2>1, <3>1, <3>2, OneLess
    <3>4. Seated(zoneTurn', zoneOrder')
      BY <2>1, <3>2, <3>3, ClampedIs
    <3>5. Len(zoneOrder') <= MaxActiveSessions
      BY <2>1, <3>3
    <3> QED BY <1>11, <2>1, <2>2, <3>3, <3>4, <3>5 DEF ZonesAreOrdered
  <2>3. CASE ~gone
    BY <1>1, <1>11, <2>1, <2>3 DEF ZonesAreOrdered
  <2> QED BY <2>2, <2>3
<1>13. WorkIsOwned'
  BY DEF ReleasedAlone, ProcessInv, WorkIsOwned, InProcess
<1>14. ProcessTyped'
  BY <1>7, <1>8, <1>10, <1>12 DEF ProcessInv, ProcessTyped, ReleasedAlone
<1> QED BY <1>8, <1>9, <1>10, <1>12, <1>13, <1>14 DEF ProcessInv

\* The pump takes from the zone whose turn it is.
LEMMA TakesFrom ==
  ASSUME ProcessInv, NEW w \in ZoneMessages, Process!Takes(w)
  PROVE  zoneWork[w].at = "queued" /\ Seated(Process!AfterTurn, zoneOrder)
<1> DEFINE T == Process!WithWork
<1>1. Process!HasQueued /\ zoneWork[w].at = "queued"
  BY DEF Process!Takes, Process!Queued
<1>2. zoneOrder \in Seq(Zones) /\ Len(zoneOrder) \in Nat /\ Seated(zoneTurn, zoneOrder)
  BY DEF ProcessInv, ProcessTyped, ZonesAreOrdered
<1>3. Elements(zoneOrder) \cap T # {}
  BY <1>1, QueuedHasPlace
<1>4. zoneTurn \in 0 .. Len(zoneOrder) - 1
  <2>1. zoneOrder # << >>
    BY <1>2, <1>3, ZonesIn
  <2> QED BY <1>2, <2>1 DEF Seated
<1> HIDE DEF T
<1>5. NextTurn(zoneOrder, zoneTurn, T) \in 0 .. Len(zoneOrder) - 1
  BY <1>2, <1>3, <1>4, ServedIs
<1>6. Process!AfterTurn \in 0 .. Len(zoneOrder) - 1
  BY <1>5, ProcessRounds DEF T, Process!AfterTurn
<1>7. Seated(Process!AfterTurn, zoneOrder)
  BY <1>2, <1>6 DEF Seated
<1> QED BY <1>1, <1>7

\* A released record: placed, without its session.
LEMMA ReleasedRecord ==
  ASSUME NEW r \in ZoneWorkStates, NEW q, q = [[r EXCEPT !.at = "released"] EXCEPT !.owner = Process!NoSession]
  PROVE  q \in ZoneWorkStates /\ q.at = "released" /\ q.owner = Process!NoSession /\ q.due = r.due /\ q.told = r.told
<1> DEFINE p == [r EXCEPT !.at = "released"]
<1>1. "released" \in ZonePlaces /\ Process!NoSession \in SessionOr
  BY DEF ZonePlaces, SessionOr
<1>2. p \in ZoneWorkStates
  BY <1>1, RecordsChange, Zenon
<1>3. p.at = "released" /\ p.due = r.due /\ p.told = r.told
  BY DEF ZoneWorkStates
<1> HIDE DEF p
<1>4. q = [p EXCEPT !.owner = Process!NoSession]
  BY DEF p
<1>5. q \in ZoneWorkStates
  BY <1>1, <1>2, <1>4, RecordsChange, Zenon
<1>6. q.at = p.at /\ q.owner = Process!NoSession /\ q.due = p.due /\ q.told = p.told
  BY <1>2, <1>4 DEF ZoneWorkStates
<1> QED BY <1>3, <1>5, <1>6

LEMMA ProcessThrows ==
  ASSUME ProcessInv, NEW w \in ZoneMessages, Process!HandOnThrows(w)
  PROVE  ProcessInv'
<1> DEFINE r == Process!Settled(zoneWork[w], "answered")
           q == [[r EXCEPT !.at = "released"] EXCEPT !.owner = Process!NoSession]
<1>1. /\ zonePump = "running" /\ Process!Takes(w) /\ Process!Release(w, Process!AfterTurn)
      /\ UNCHANGED <<session, zonePump>>
      /\ zoneWork' = [zoneWork EXCEPT ![w] = q]
  BY DEF Process!HandOnThrows
<1>2. zoneWork[w].at = "queued" /\ Seated(Process!AfterTurn, zoneOrder)
  BY <1>1, TakesFrom
<1>3. r \in ZoneWorkStates /\ r.due = zoneWork[w].due
  <2>1. zoneWork[w] \in ZoneWorkStates /\ "answered" \in Tellings
    BY DEF ProcessInv, ProcessTyped, Tellings
  <2> QED BY <2>1, SettledIs DEF SettledAs, SamePlace
<1> HIDE DEF r
<1>4. q \in ZoneWorkStates /\ q.at = "released" /\ q.owner = Process!NoSession /\ q.due = r.due
  BY <1>3, ReleasedRecord
<1> HIDE DEF q
<1>5. r.due = {}
  BY <1>2, <1>3 DEF ProcessInv, WorkIsOwned
<1>6. ReleasedAlone(w)
  BY <1>1, <1>4, <1>5 DEF ReleasedAlone, ProcessInv, ProcessTyped
<1>7. NoneQueued' /\ zonePump' \in {"off", "scheduled", "running"}
  BY <1>1 DEF NoneQueued
<1>8. zoneWork[w].at \in InProcess
  BY <1>2 DEF InProcess
<1> QED BY <1>1, <1>2, <1>6, <1>7, <1>8, Released

LEMMA ProcessDrops ==
  ASSUME ProcessInv, NEW w \in ZoneMessages, Process!Drop(w)
  PROVE  ProcessInv'
<1> DEFINE r == zoneWork[w]
           q == [[r EXCEPT !.at = "released"] EXCEPT !.owner = Process!NoSession]
<1>1. /\ zonePump = "running" /\ Process!Takes(w) /\ Process!Release(w, Process!AfterTurn)
      /\ UNCHANGED <<session, zonePump>>
      /\ zoneWork' = [zoneWork EXCEPT ![w].at = "released", ![w].owner = Process!NoSession]
  BY DEF Process!Drop
<1>2. zoneWork[w].at = "queued" /\ Seated(Process!AfterTurn, zoneOrder)
  BY <1>1, TakesFrom
<1>3. zoneWork' = [zoneWork EXCEPT ![w] = q]
  BY <1>1 DEF ProcessInv, ProcessTyped
<1>4. q \in ZoneWorkStates /\ q.at = "released" /\ q.owner = Process!NoSession /\ q.due = r.due
  <2>1. r \in ZoneWorkStates
    BY DEF ProcessInv, ProcessTyped
  <2> HIDE DEF r
  <2> QED BY <2>1, ReleasedRecord
<1> HIDE DEF q
<1>5. r.due = {}
  BY <1>2 DEF ProcessInv, WorkIsOwned
<1>6. ReleasedAlone(w)
  BY <1>3, <1>4, <1>5 DEF ReleasedAlone, ProcessInv, ProcessTyped
<1>7. NoneQueued' /\ zonePump' \in {"off", "scheduled", "running"}
  BY <1>1 DEF NoneQueued
<1>8. zoneWork[w].at \in InProcess
  BY <1>2 DEF InProcess
<1> QED BY <1>1, <1>2, <1>6, <1>7, <1>8, Released

LEMMA ProcessAnswered ==
  ASSUME ProcessInv, NEW w \in ZoneMessages, NEW what \in DueAnswers, Process!Answered(w, what)
  PROVE  ProcessInv'
<1> DEFINE releases == (what = "cleanup") <=> (w \in Retained)
           r == IF what = "completion" THEN Process!Settled(zoneWork[w], "answered") ELSE zoneWork[w]
           q == [r EXCEPT !.due = @ \ {what}, !.at = IF releases THEN "released" ELSE @,
                          !.owner = IF releases THEN Process!NoSession ELSE @]
<1>1. /\ zoneWork[w].at \in {"handed", "released"} /\ what \in zoneWork[w].due
      /\ zoneWork' = [zoneWork EXCEPT ![w] = q] /\ UNCHANGED session
      /\ releases => Process!Release(w, zoneTurn) /\ zonePump' = Process!Scheduled
      /\ ~releases => UNCHANGED <<retired, zoneOrder, zoneTurn, nonSafety, tokens, zonePump>>
  BY DEF Process!Answered
<1>2. releases <=> what = Releasing(w)
  BY DEF Releasing, DueAnswers
<1>3. r \in ZoneWorkStates /\ SamePlace(r, zoneWork[w])
  <2>1. zoneWork[w] \in ZoneWorkStates /\ "answered" \in Tellings
    BY DEF ProcessInv, ProcessTyped, Tellings
  <2> QED BY <2>1, SettledIs DEF SettledAs, SamePlace
<1> HIDE DEF r
<1> DEFINE d == [r EXCEPT !.due = r.due \ {what}]
<1>4. d \in ZoneWorkStates /\ d.due = zoneWork[w].due \ {what} /\ d.at = zoneWork[w].at /\ d.owner = zoneWork[w].owner
  <2>1. r.due \ {what} \in SUBSET DueAnswers
    BY <1>3 DEF ZoneWorkStates
  <2>2. d \in ZoneWorkStates
    BY <1>3, <2>1, RecordsChange, Zenon
  <2>3. d.due = r.due \ {what} /\ d.at = r.at /\ d.owner = r.owner
    BY <1>3 DEF ZoneWorkStates
  <2> QED BY <1>3, <2>2, <2>3 DEF SamePlace
<1>5. /\ releases => q = [[d EXCEPT !.at = "released"] EXCEPT !.owner = Process!NoSession]
      /\ ~releases => q = d
  BY <1>3 DEF ZoneWorkStates
<1> HIDE DEF d, q, releases
<1>6. CASE releases
  <2>1. zoneWork[w].at = "handed"
    BY <1>1, <1>2, <1>6 DEF ProcessInv, WorkIsOwned
  <2>2. q \in ZoneWorkStates /\ q.at = "released" /\ q.owner = Process!NoSession /\ q.due = d.due
    BY <1>4, <1>5, <1>6, ReleasedRecord
  <2>3. Releasing(w) \notin q.due
    BY <1>2, <1>4, <1>6, <2>2
  <2>4. ReleasedAlone(w)
    BY <1>1, <2>2, <2>3 DEF ReleasedAlone, ProcessInv, ProcessTyped
  <2>5. NoneQueued' /\ zonePump' \in {"off", "scheduled", "running"}
    BY <1>1, <1>6, ZoneScheduled DEF ProcessInv
  <2>6. zoneWork[w].at \in InProcess /\ Seated(zoneTurn, zoneOrder)
    BY <2>1 DEF InProcess, ProcessInv, ZonesAreOrdered
  <2> QED BY <1>1, <1>6, <2>4, <2>5, <2>6, Released
<1>7. CASE ~releases
  <2>1. /\ zoneWork' \in [ZoneMessages -> ZoneWorkStates] /\ zoneWork'[w] = d
        /\ \A v \in ZoneMessages : v # w => zoneWork'[v] = zoneWork[v]
    BY <1>1, <1>4, <1>5, <1>7 DEF ProcessInv, ProcessTyped
  <2>2. WorkIsOwned'
    <3>1. ASSUME NEW v \in ZoneMessages
          PROVE  /\ zoneWork'[v].at \in InProcess => zoneWork'[v].owner \in Process!Sessions
                 /\ zoneWork'[v].at \notin InProcess => zoneWork'[v].owner = Process!NoSession
                 /\ zoneWork'[v].at = "queued" => zoneWork'[v].due = {}
                 /\ zoneWork'[v].at = "handed" => Releasing(v) \in zoneWork'[v].due
                 /\ zoneWork'[v].at = "released" => Releasing(v) \notin zoneWork'[v].due
      <4>1. CASE v # w
        BY <2>1, <4>1 DEF ProcessInv, WorkIsOwned
      <4>2. CASE v = w
        BY <1>1, <1>2, <1>4, <1>7, <2>1, <4>2 DEF ProcessInv, WorkIsOwned
      <4> QED BY <4>1, <4>2
    <3> QED BY <3>1 DEF WorkIsOwned
  <2>3. \A v \in ZoneMessages : zoneWork'[v].at = zoneWork[v].at /\ zoneWork'[v].owner = zoneWork[v].owner
    BY <1>4, <2>1
  <2>4. SameWork(zoneWork, zoneWork')
    BY <2>3, WorkStays
  <2>5. Handed(zoneWork') = Handed(zoneWork)
    BY <2>3 DEF Handed
  <2>6. Apart /\ UNCHANGED zonePump
    BY <1>1, <1>7 DEF Apart
  <2>7. NoneQueued' /\ zonePump' \in {"off", "scheduled", "running"}
    BY <2>3, <2>6 DEF ProcessInv, ProcessTyped, NoneQueued
  <2> QED BY <2>1, <2>2, <2>4, <2>5, <2>6, <2>7, ProcessKeeps
<1> QED BY <1>6, <1>7

-----------------------------------------------------------------------------
(* Work is handed on, admitted, or takes the place of other work.          *)

LEMMA ProcessHandsOn ==
  ASSUME ProcessInv, NEW w \in ZoneMessages, Process!HandOn(w)
  PROVE  ProcessInv'
<1> DEFINE r == zoneWork[w]
           d == [r EXCEPT !.at = "handed"]
           q == [d EXCEPT !.due = DueAnswers]
<1>1. /\ zonePump = "running" /\ Process!Takes(w) /\ zoneTurn' = Process!AfterTurn
      /\ zoneWork' = [zoneWork EXCEPT ![w].at = "handed", ![w].due = {"completion", "cleanup"}]
      /\ tokens' = tokens \cup {w} /\ UNCHANGED <<session, retired, zoneOrder, nonSafety, zonePump>>
  BY DEF Process!HandOn
<1>2. zoneWork[w].at = "queued" /\ Seated(Process!AfterTurn, zoneOrder)
  BY <1>1, TakesFrom
<1>3. zoneWork' = [zoneWork EXCEPT ![w] = q]
  BY <1>1 DEF ProcessInv, ProcessTyped, DueAnswers
<1>4. r \in ZoneWorkStates
  BY DEF ProcessInv, ProcessTyped
<1> HIDE DEF r
<1>5. d \in ZoneWorkStates /\ d.at = "handed" /\ d.owner = r.owner
  <2>1. "handed" \in ZonePlaces
    BY DEF ZonePlaces
  <2>2. d \in ZoneWorkStates
    BY <1>4, <2>1, RecordsChange, Zenon
  <2> QED BY <1>4, <2>2 DEF ZoneWorkStates
<1> HIDE DEF d
<1>6. q \in ZoneWorkStates /\ q.at = "handed" /\ q.owner = r.owner /\ q.due = DueAnswers
  <2>1. DueAnswers \in SUBSET DueAnswers
    OBVIOUS
  <2>2. q \in ZoneWorkStates
    BY <1>5, <2>1, RecordsChange, Zenon
  <2> QED BY <1>5, <2>2 DEF ZoneWorkStates
<1> HIDE DEF q
<1>7. /\ zoneWork' \in [ZoneMessages -> ZoneWorkStates] /\ zoneWork'[w] = q
      /\ \A v \in ZoneMessages : v # w => zoneWork'[v] = zoneWork[v]
  BY <1>3, <1>6 DEF ProcessInv, ProcessTyped
<1>8. WorkIsOwned'
  <2>1. q.owner \in Process!Sessions /\ Releasing(w) \in q.due /\ q.at = "handed"
    BY <1>2, <1>6 DEF r, ProcessInv, WorkIsOwned, InProcess, Releasing, DueAnswers
  <2> QED BY <1>7, <2>1 DEF ProcessInv, WorkIsOwned, InProcess
<1>9. SameWork(zoneWork, zoneWork')
  <2>1. \A v \in ZoneMessages : /\ zoneWork'[v].at \in InProcess <=> zoneWork[v].at \in InProcess
                                /\ zoneWork[v].at \in InProcess => zoneWork'[v].owner = zoneWork[v].owner
    BY <1>2, <1>6, <1>7 DEF InProcess, r
  <2> QED BY <2>1, WorkStays
<1>10. Handed(zoneWork') = Handed(zoneWork) \cup {w}
  BY <1>6, <1>7 DEF Handed
<1>11. ProcessTyped'
  BY <1>1, <1>7 DEF ProcessInv, ProcessTyped
<1>12. AccountIsExact' /\ RetiredAreOwners' /\ TokensAreHanded'
  BY <1>1, <1>9, <1>10 DEF ProcessInv, AccountIsExact, RetiredAreOwners, TokensAreHanded, SameWork
<1>13. Placed(session, zoneWork') = Placed(session, zoneWork)
  BY <1>9 DEF Placed, SameWork
<1>14. ZonesAreOrdered'
  BY <1>1, <1>2, <1>13 DEF ProcessInv, ZonesAreOrdered
<1>15. NoneQueued'
  BY <1>1 DEF NoneQueued
<1> QED BY <1>8, <1>11, <1>12, <1>14, <1>15 DEF ProcessInv

\* What is submitted is queued, with the session of its zone.
LEMMA SubmittedIs ==
  ASSUME ProcessInv, NEW w \in ZoneMessages
  PROVE  LET q == Process!Submitted(w)
         IN  /\ q \in ZoneWorkStates /\ q.at = "queued" /\ q.owner = session[ZoneOf[w]] /\ q.due = {}
<1> DEFINE n == Process!NoWork
           d == [n EXCEPT !.at = "queued"]
           q == [d EXCEPT !.owner = session[ZoneOf[w]]]
<1>1. Process!Submitted(w) = q
  BY DEF Process!Submitted, Process!NoWork
<1>2. n \in ZoneWorkStates /\ n.due = {}
  BY DEF Process!NoWork, ZoneWorkStates, ZonePlaces, Tellings, SessionOr
<1>3. session[ZoneOf[w]] \in SessionOr
  BY ProcessAssumption DEF ProcessInv, ProcessTyped
<1> HIDE DEF n
<1>4. d \in ZoneWorkStates /\ d.at = "queued" /\ d.due = {}
  <2>1. "queued" \in ZonePlaces
    BY DEF ZonePlaces
  <2>2. d \in ZoneWorkStates
    BY <1>2, <2>1, RecordsChange, Zenon
  <2> QED BY <1>2, <2>2 DEF ZoneWorkStates
<1> HIDE DEF d
<1>5. q \in ZoneWorkStates
  BY <1>3, <1>4, RecordsChange, Zenon
<1>6. q.at = "queued" /\ q.owner = session[ZoneOf[w]] /\ q.due = {}
  BY <1>4 DEF ZoneWorkStates
<1> HIDE DEF q
<1> QED BY <1>1, <1>5, <1>6

\* w is queued with the session of its zone; nothing else changes place.
QueuedAlone(w) ==
  /\ zoneWork' \in [ZoneMessages -> ZoneWorkStates]
  /\ \A v \in ZoneMessages : v # w => zoneWork'[v] = zoneWork[v]
  /\ zoneWork'[w].at = "queued" /\ zoneWork'[w].owner = session[ZoneOf[w]] /\ zoneWork'[w].due = {}

LEMMA ProcessAdmits ==
  ASSUME ProcessInv, NEW w \in ZoneMessages, Process!Admit(w)
  PROVE  ProcessInv'
<1> DEFINE z == ZoneOf[w]
<1>1. /\ zoneWork[w].at = "out" /\ session[z] # Process!NoSession /\ Process!HasRoom(w) /\ Process!Prior(w) = {}
      /\ zoneWork' = [zoneWork EXCEPT ![w] = Process!Submitted(w)]
      /\ nonSafety' = nonSafety + Process!Counted({w}) /\ zonePump' = Process!Scheduled
      /\ UNCHANGED <<session, retired, zoneOrder, zoneTurn, tokens>>
  BY DEF Process!Admit
<1>2. QueuedAlone(w)
  <2> DEFINE q == Process!Submitted(w)
  <2>1. q \in ZoneWorkStates /\ q.at = "queued" /\ q.owner = session[z] /\ q.due = {}
    BY SubmittedIs
  <2> HIDE DEF q
  <2>2. zoneWork' = [zoneWork EXCEPT ![w] = q]
    BY <1>1 DEF q
  <2> QED BY <2>1, <2>2 DEF QueuedAlone, ProcessInv, ProcessTyped
<1>3. z \in Zones /\ session[z] \in Process!Sessions
  <2>1. z \in Zones
    BY ProcessAssumption
  <2>2. session[z] \in SessionOr
    BY <2>1 DEF ProcessInv, ProcessTyped
  <2> QED BY <1>1, <2>1, <2>2 DEF SessionOr
<1>4. WorkIsOwned'
  BY <1>2, <1>3 DEF QueuedAlone, ProcessInv, WorkIsOwned, InProcess
<1>5. /\ All(zoneWork') = All(zoneWork) \cup {w} /\ w \notin All(zoneWork)
      /\ Handed(zoneWork') = Handed(zoneWork)
  BY <1>1, <1>2 DEF QueuedAlone, All, Handed, InProcess
<1>6. \A y \in Zones : IF y = z THEN Of(y, zoneWork') = Of(y, zoneWork) \cup {w} /\ w \notin Of(y, zoneWork)
                       ELSE Of(y, zoneWork') = Of(y, zoneWork)
  BY <1>1, <1>2 DEF QueuedAlone, Of, InProcess
<1>7. AccountIsExact' /\ nonSafety' \in Nat
  <2>1. Cardinality(All(zoneWork') \ Safety) = Cardinality(All(zoneWork) \ Safety) + Process!Counted({w})
    BY <1>5, Joined
  <2>2. nonSafety = Cardinality(All(zoneWork) \ Safety) /\ nonSafety <= MaxNonSafety /\ MaxNonSafety \in Nat
        /\ nonSafety \in Nat
    BY ProcessAssumption DEF ProcessInv, ProcessTyped, AccountIsExact
  <2>3. CASE w \in Safety
    <3>1. Process!Counted({w}) = 0
      BY <2>3, CountedOne
    <3> QED BY <1>1, <2>1, <2>2, <3>1 DEF AccountIsExact
  <2>4. CASE w \notin Safety
    <3>1. Process!Counted({w}) = 1
      BY <2>4, CountedOne
    <3>2. nonSafety < MaxNonSafety
      BY <1>1, <2>4 DEF Process!HasRoom
    <3> QED BY <1>1, <2>1, <2>2, <3>1, <3>2 DEF AccountIsExact
  <2> QED BY <2>3, <2>4
<1>8. \A v \in ZoneMessages : zoneWork[v].at \in InProcess => zoneWork'[v].owner = zoneWork[v].owner
  BY <1>1, <1>2 DEF QueuedAlone, InProcess
<1>9. RetiredAreOwners'
  <2> SUFFICES ASSUME NEW y \in Zones
               PROVE  retired'[y] = Owners(y, zoneWork') \ {session'[y]}
    BY DEF RetiredAreOwners
  <2>1. retired[y] = Owners(y, zoneWork) \ {session[y]}
    BY DEF ProcessInv, RetiredAreOwners
  <2>2. \A v \in Of(y, zoneWork) : zoneWork'[v].owner = zoneWork[v].owner
    BY <1>8 DEF Of
  <2>3. CASE y = z
    <3>1. Owners(y, zoneWork') = Owners(y, zoneWork) \cup {session[y]}
      BY <1>2, <1>6, <2>2, <2>3 DEF Owners, QueuedAlone
    <3> QED BY <1>1, <2>1, <3>1
  <2>4. CASE y # z
    <3>1. Owners(y, zoneWork') = Owners(y, zoneWork)
      BY <1>6, <2>2, <2>4 DEF Owners
    <3> QED BY <1>1, <2>1, <3>1
  <2> QED BY <2>3, <2>4
<1>10. Placed(session', zoneWork') = Placed(session, zoneWork)
  BY <1>1, <1>6 DEF Placed
<1>11. ZonesAreOrdered' /\ TokensAreHanded'
  BY <1>1, <1>5, <1>10 DEF ProcessInv, ZonesAreOrdered, TokensAreHanded
<1>12. NoneQueued' /\ zonePump' \in {"off", "scheduled", "running"}
  BY <1>1, ZoneScheduled DEF ProcessInv
<1>13. ProcessTyped'
  BY <1>1, <1>2, <1>7, <1>12 DEF QueuedAlone, ProcessInv, ProcessTyped
<1> QED BY <1>4, <1>7, <1>9, <1>11, <1>12, <1>13 DEF ProcessInv

LEMMA ProcessReplaces ==
  ASSUME ProcessInv, NEW w \in ZoneMessages, Process!Replace(w)
  PROVE  ProcessInv'
<1> DEFINE z == ZoneOf[w]
<1>1. /\ zoneWork[w].at = "out" /\ session[z] # Process!NoSession /\ zonePump' = Process!Scheduled
      /\ UNCHANGED <<session, zoneOrder, zoneTurn, nonSafety, tokens>>
  BY DEF Process!Replace
<1>2. PICK v \in Process!Prior(w) :
        /\ zoneWork' = [zoneWork EXCEPT ![w] = Process!Submitted(w),
                                        ![v] = [Process!Settled(@, "replaced") EXCEPT !.at = "released",
                                                                              !.owner = Process!NoSession]]
        /\ retired' = [retired EXCEPT ![ZoneOf[v]] =
                         IF Process!WorkOf(ZoneOf[v], zoneWork[v].owner) \subseteq {v}
                         THEN @ \ {zoneWork[v].owner} ELSE @]
  BY DEF Process!Replace
<1>3. /\ v \in ZoneMessages /\ zoneWork[v].at = "queued" /\ ZoneOf[v] = z /\ v # w
      /\ w \notin Safety /\ v \notin Safety
  BY <1>1, ProcessAssumption DEF Process!Prior
<1> DEFINE r == Process!Settled(zoneWork[v], "replaced")
           q == [[r EXCEPT !.at = "released"] EXCEPT !.owner = Process!NoSession]
           a == Process!Submitted(w)
<1>4. a \in ZoneWorkStates /\ a.at = "queued" /\ a.owner = session[z] /\ a.due = {}
  BY SubmittedIs
<1>5. r \in ZoneWorkStates /\ r.due = {}
  <2>1. zoneWork[v] \in ZoneWorkStates /\ "replaced" \in Tellings /\ zoneWork[v].due = {}
    BY <1>3 DEF ProcessInv, ProcessTyped, Tellings, WorkIsOwned
  <2> QED BY <2>1, SettledIs DEF SettledAs, SamePlace
<1>6. zoneWork' = [zoneWork EXCEPT ![w] = a, ![v] = q]
  BY <1>2, <1>3 DEF ProcessInv, ProcessTyped
<1> HIDE DEF a, r
<1>7. q \in ZoneWorkStates /\ q.at = "released" /\ q.owner = Process!NoSession /\ q.due = {}
  BY <1>5, ReleasedRecord
<1> HIDE DEF q
<1>8. /\ zoneWork' \in [ZoneMessages -> ZoneWorkStates] /\ zoneWork'[w] = a /\ zoneWork'[v] = q
      /\ \A u \in ZoneMessages : u # w /\ u # v => zoneWork'[u] = zoneWork[u]
  BY <1>3, <1>4, <1>6, <1>7 DEF ProcessInv, ProcessTyped
<1>9. z \in Zones /\ session[z] \in Process!Sessions
  <2>1. z \in Zones
    BY ProcessAssumption
  <2>2. session[z] \in SessionOr
    BY <2>1 DEF ProcessInv, ProcessTyped
  <2> QED BY <1>1, <2>1, <2>2 DEF SessionOr
<1>10. WorkIsOwned'
  <2> SUFFICES ASSUME NEW u \in ZoneMessages
               PROVE  /\ zoneWork'[u].at \in InProcess => zoneWork'[u].owner \in Process!Sessions
                      /\ zoneWork'[u].at \notin InProcess => zoneWork'[u].owner = Process!NoSession
                      /\ zoneWork'[u].at = "queued" => zoneWork'[u].due = {}
                      /\ zoneWork'[u].at = "handed" => Releasing(u) \in zoneWork'[u].due
                      /\ zoneWork'[u].at = "released" => Releasing(u) \notin zoneWork'[u].due
    BY DEF WorkIsOwned
  <2>1. CASE u = w
    BY <1>4, <1>8, <1>9, <2>1 DEF InProcess
  <2>2. CASE u = v
    BY <1>7, <1>8, <2>2 DEF InProcess
  <2>3. CASE u # w /\ u # v
    BY <1>8, <2>3 DEF ProcessInv, WorkIsOwned
  <2> QED BY <2>1, <2>2, <2>3
<1>11. /\ All(zoneWork') = (All(zoneWork) \ {v}) \cup {w} /\ w \notin All(zoneWork) /\ v \in All(zoneWork)
       /\ Handed(zoneWork') = Handed(zoneWork)
  BY <1>1, <1>3, <1>4, <1>7, <1>8 DEF All, Handed, InProcess
<1>12. /\ Of(z, zoneWork') = (Of(z, zoneWork) \ {v}) \cup {w} /\ w \notin Of(z, zoneWork) /\ v \in Of(z, zoneWork)
       /\ \A y \in Zones : y # z => Of(y, zoneWork') = Of(y, zoneWork)
  BY <1>1, <1>3, <1>4, <1>7, <1>8 DEF Of, InProcess
<1>13. \A u \in ZoneMessages : u # v /\ zoneWork[u].at \in InProcess => zoneWork'[u].owner = zoneWork[u].owner
  BY <1>1, <1>8 DEF InProcess
<1>14. AccountIsExact'
  <2> DEFINE S == All(zoneWork) \ Safety
  <2>1. All(zoneWork') \ Safety = (S \ {v}) \cup {w} /\ v \in S /\ w \notin S
    BY <1>3, <1>11
  <2>2. IsFiniteSet(S) /\ Cardinality(S) \in Nat
    BY AllFinite
  <2> HIDE DEF S
  <2>3. IsFiniteSet(S \ {v}) /\ Cardinality(S \ {v}) = Cardinality(S) - 1
    BY <2>1, <2>2, FS_RemoveElement
  <2>4. Cardinality((S \ {v}) \cup {w}) = Cardinality(S \ {v}) + 1
    BY <2>1, <2>3, FS_AddElement
  <2>5. Cardinality(All(zoneWork') \ Safety) = Cardinality(S)
    <3>1. Cardinality(All(zoneWork') \ Safety) = Cardinality((S \ {v}) \cup {w})
      BY <2>1
    <3>2. Cardinality((S \ {v}) \cup {w}) = Cardinality(S)
      BY <2>2, <2>3, <2>4
    <3> QED BY <3>1, <3>2
  <2> QED BY <1>1, <2>5 DEF S, ProcessInv, AccountIsExact
<1>15. /\ retired' \in [Zones -> SUBSET Process!Sessions] /\ RetiredAreOwners'
  <2> DEFINE s == zoneWork[v].owner
             O == Of(z, zoneWork)
             rest == IF Process!WorkOf(z, s) \subseteq {v} THEN retired[z] \ {s} ELSE retired[z]
  <2>1. retired' = [retired EXCEPT ![z] = rest]
    BY <1>2, <1>3, <1>9 DEF ProcessInv, ProcessTyped
  <2>2. retired[z] = {zoneWork[u].owner : u \in O} \ {session[z]}
    BY <1>9 DEF ProcessInv, RetiredAreOwners, Owners
  <2>3. Process!WorkOf(z, s) = {u \in O : zoneWork[u].owner = s}
    BY DEF Process!WorkOf, Process!Held, Of, InProcess
  <2>4. Owners(z, zoneWork') = {zoneWork[u].owner : u \in O \ {v}} \cup {session[z]}
    <3>1. \A u \in O \ {v} : zoneWork'[u].owner = zoneWork[u].owner
      BY <1>13 DEF Of
    <3>2. zoneWork'[w].owner = session[z]
      BY <1>4, <1>8
    <3> HIDE DEF z
    <3> QED BY <1>12, <3>1, <3>2 DEF Owners
  <2>5. rest = Owners(z, zoneWork') \ {session[z]}
    <3>1. CASE Process!WorkOf(z, s) \subseteq {v}
      <4>1. \A u \in O \ {v} : zoneWork[u].owner # s
        BY <2>3, <3>1
      <4>2. rest = retired[z] \ {s}
        BY <3>1
      <4>3. {zoneWork[u].owner : u \in O} \ {s} = {zoneWork[u].owner : u \in O \ {v}}
        BY <1>12, <4>1
      <4> HIDE DEF O, s, z, rest
      <4> QED BY <2>2, <2>4, <4>2, <4>3
    <3>2. CASE ~(Process!WorkOf(z, s) \subseteq {v})
      <4>1. PICK u \in O \ {v} : zoneWork[u].owner = s
        BY <2>3, <3>2
      <4>2. rest = retired[z]
        BY <3>2
      <4>3. {zoneWork[x].owner : x \in O} = {zoneWork[x].owner : x \in O \ {v}}
        BY <1>12, <4>1
      <4> HIDE DEF O, s, z, rest
      <4> QED BY <2>2, <2>4, <4>2, <4>3
    <3> QED BY <3>1, <3>2
  <2>6. rest \subseteq retired[z]
    OBVIOUS
  <2> HIDE DEF rest
  <2>7. /\ retired' \in [Zones -> SUBSET Process!Sessions] /\ retired'[z] = rest
        /\ \A y \in Zones : y # z => retired'[y] = retired[y]
    BY <1>9, <2>1, <2>6 DEF ProcessInv, ProcessTyped
  <2>8. \A y \in Zones : y # z => Owners(y, zoneWork') = Owners(y, zoneWork)
    <3> SUFFICES ASSUME NEW y \in Zones, y # z
                 PROVE  Owners(y, zoneWork') = Owners(y, zoneWork)
      OBVIOUS
    <3>1. \A u \in Of(y, zoneWork) : zoneWork'[u].owner = zoneWork[u].owner
      BY <1>3, <1>13 DEF Of
    <3>2. Of(y, zoneWork') = Of(y, zoneWork)
      BY <1>12
    <3> QED BY <3>1, <3>2 DEF Owners
  <2>9. ASSUME NEW y \in Zones
        PROVE  retired'[y] = Owners(y, zoneWork') \ {session'[y]}
    <3>1. CASE y = z
      BY <1>1, <2>5, <2>7, <3>1
    <3>2. CASE y # z
      BY <1>1, <2>7, <2>8, <3>2 DEF ProcessInv, RetiredAreOwners
    <3> QED BY <3>1, <3>2
  <2> QED BY <2>7, <2>9 DEF RetiredAreOwners
<1>16. Placed(session', zoneWork') = Placed(session, zoneWork)
  BY <1>1, <1>12 DEF Placed
<1>17. ZonesAreOrdered' /\ TokensAreHanded'
  BY <1>1, <1>11, <1>16 DEF ProcessInv, ZonesAreOrdered, TokensAreHanded
<1>18. NoneQueued' /\ zonePump' \in {"off", "scheduled", "running"}
  BY <1>1, ZoneScheduled DEF ProcessInv
<1>19. ProcessTyped'
  BY <1>1, <1>8, <1>15, <1>18 DEF ProcessInv, ProcessTyped
<1> QED BY <1>10, <1>14, <1>15, <1>17, <1>18, <1>19 DEF ProcessInv

-----------------------------------------------------------------------------
(* Sessions come and go.                                                   *)

\* The callers of the session's work are told; the work keeps its place.
LEMMA ClosedSession ==
  ASSUME ProcessInv, NEW z \in Zones, Process!Closed(z), session[z] # Process!NoSession
  PROVE  /\ zoneWork' \in [ZoneMessages -> ZoneWorkStates]
         /\ \A v \in ZoneMessages : SamePlace(zoneWork'[v], zoneWork[v])
         /\ retired' \in [Zones -> SUBSET Process!Sessions]
         /\ retired'[z] = Owners(z, zoneWork)
         /\ \A y \in Zones : y # z => retired'[y] = retired[y]
<1> DEFINE mine == Process!WorkOf(z, session[z])
           new(v) == [Process!Settled(zoneWork[v], "closed") EXCEPT !.aborted = @ \/ v \in Retained]
<1>1. /\ zoneWork' = [v \in ZoneMessages |-> IF v \in mine THEN new(v) ELSE zoneWork[v]]
      /\ retired' = [retired EXCEPT ![z] = IF mine = {} THEN @ ELSE @ \cup {session[z]}]
  BY DEF Process!Closed
<1>2. ASSUME NEW v \in ZoneMessages
      PROVE  zoneWork[v] \in ZoneWorkStates /\ new(v) \in ZoneWorkStates /\ SamePlace(new(v), zoneWork[v])
  <2> DEFINE r == Process!Settled(zoneWork[v], "closed")
             b == r.aborted \/ v \in Retained
  <2>1. zoneWork[v] \in ZoneWorkStates /\ "closed" \in Tellings
    BY DEF ProcessInv, ProcessTyped, Tellings
  <2>2. r \in ZoneWorkStates /\ SamePlace(r, zoneWork[v])
    BY <2>1, SettledIs DEF SettledAs
  <2>3. new(v) = [r EXCEPT !.aborted = b]
    BY <2>2 DEF ZoneWorkStates
  <2>4. b \in BOOLEAN
    OBVIOUS
  <2> HIDE DEF r, b
  <2>5. [r EXCEPT !.aborted = b] \in ZoneWorkStates
    BY <2>2, <2>4, RecordsChange, Zenon
  <2>6. SamePlace([r EXCEPT !.aborted = b], r)
    BY <2>2 DEF SamePlace, ZoneWorkStates
  <2>7. SamePlace([r EXCEPT !.aborted = b], zoneWork[v])
    BY <2>2, <2>6 DEF SamePlace
  <2> HIDE DEF new
  <2> QED BY <2>1, <2>3, <2>5, <2>7
<1> HIDE DEF new
<1>3. /\ zoneWork' \in [ZoneMessages -> ZoneWorkStates]
      /\ \A v \in ZoneMessages : SamePlace(zoneWork'[v], zoneWork[v])
  BY <1>1, <1>2 DEF SamePlace
<1>4. session[z] \in Process!Sessions
  <2>1. session[z] \in SessionOr
    BY DEF ProcessInv, ProcessTyped
  <2> QED BY <2>1 DEF SessionOr
<1>5. /\ retired' \in [Zones -> SUBSET Process!Sessions]
      /\ retired'[z] = IF mine = {} THEN retired[z] ELSE retired[z] \cup {session[z]}
      /\ \A y \in Zones : y # z => retired'[y] = retired[y]
  BY <1>1, <1>4 DEF ProcessInv, ProcessTyped
<1>6. retired[z] = Owners(z, zoneWork) \ {session[z]}
  BY DEF ProcessInv, RetiredAreOwners
<1>7. mine = {v \in Of(z, zoneWork) : zoneWork[v].owner = session[z]}
  BY DEF Process!WorkOf, Process!Held, Of, InProcess
<1>8. mine = {} <=> session[z] \notin Owners(z, zoneWork)
  BY <1>7 DEF Owners
<1> HIDE DEF mine
<1>9. retired'[z] = Owners(z, zoneWork)
  BY <1>5, <1>6, <1>8
<1> QED BY <1>3, <1>5, <1>9

\* A zone's sessions with work left are none exactly when it has no work.
LEMMA NoOwners ==
  ASSUME NEW z, NEW f, Owners(z, f) = {}
  PROVE  Of(z, f) = {}
BY DEF Owners

LEMMA ProcessUnregisters ==
  ASSUME ProcessInv, NEW z \in Zones, Process!Unregister(z)
  PROVE  ProcessInv'
<1>1. /\ session[z] # Process!NoSession /\ Process!Closed(z)
      /\ session' = [session EXCEPT ![z] = Process!NoSession]
      /\ IF retired'[z] = {} THEN Process!Unregistered(z, zoneTurn) ELSE UNCHANGED <<zoneOrder, zoneTurn>>
      /\ UNCHANGED <<nonSafety, tokens, zonePump>>
  BY DEF Process!Unregister, Process!MayUnregister
<1>2. /\ zoneWork' \in [ZoneMessages -> ZoneWorkStates]
      /\ \A v \in ZoneMessages : SamePlace(zoneWork'[v], zoneWork[v])
      /\ retired' \in [Zones -> SUBSET Process!Sessions]
      /\ retired'[z] = Owners(z, zoneWork)
      /\ \A y \in Zones : y # z => retired'[y] = retired[y]
  BY <1>1, ClosedSession
<1>3. WorkIsOwned' /\ SameWork(zoneWork, zoneWork') /\ Handed(zoneWork') = Handed(zoneWork) /\ NoneQueued'
  BY <1>1, <1>2, PlacesStay
<1>4. /\ session' \in [Zones -> SessionOr] /\ session'[z] = Process!NoSession
      /\ \A y \in Zones : y # z => session'[y] = session[y]
  BY <1>1 DEF ProcessInv, ProcessTyped, SessionOr
<1>5. \A v \in Of(z, zoneWork) : zoneWork[v].owner # Process!NoSession
  BY ProcessParts DEF Of, ProcessInv, WorkIsOwned
<1>6. RetiredAreOwners'
  <2> SUFFICES ASSUME NEW y \in Zones
               PROVE  retired'[y] = Owners(y, zoneWork') \ {session'[y]}
    BY DEF RetiredAreOwners
  <2>1. Owners(y, zoneWork') = Owners(y, zoneWork)
    BY <1>3 DEF SameWork
  <2>2. CASE y = z
    <3>1. Process!NoSession \notin Owners(z, zoneWork)
      BY <1>5 DEF Owners
    <3> QED BY <1>2, <1>4, <2>1, <2>2, <3>1
  <2>3. CASE y # z
    BY <1>2, <1>4, <2>1, <2>3 DEF ProcessInv, RetiredAreOwners
  <2> QED BY <2>2, <2>3
<1>7. retired'[z] = {} <=> Of(z, zoneWork') = {}
  <2>1. Of(z, zoneWork') = Of(z, zoneWork)
    BY <1>3 DEF SameWork
  <2> QED BY <1>2, <2>1, NoOwners DEF Owners
<1>8. Placed(session', zoneWork') = IF retired'[z] = {} THEN Placed(session, zoneWork) \ {z} ELSE Placed(session, zoneWork)
  <2>1. \A y \in Zones : y # z => (y \in Placed(session', zoneWork') <=> y \in Placed(session, zoneWork))
    BY <1>3, <1>4 DEF Placed, SameWork
  <2>2. z \in Placed(session, zoneWork) /\ (z \in Placed(session', zoneWork') <=> retired'[z] # {})
    BY <1>1, <1>4, <1>7 DEF Placed
  <2> QED BY <2>1, <2>2 DEF Placed
<1>9. zoneOrder' \in Seq(Zones) /\ Len(zoneOrder') <= MaxActiveSessions /\ ZonesAreOrdered'
  <2>1. /\ zoneOrder \in Seq(Zones) /\ Len(zoneOrder) <= MaxActiveSessions /\ Distinct(zoneOrder)
        /\ Elements(zoneOrder) = Placed(session, zoneWork) /\ zoneTurn \in Nat /\ Seated(zoneTurn, zoneOrder)
        /\ MaxActiveSessions \in Nat /\ Len(zoneOrder) \in Nat
    BY ProcessAssumption DEF ProcessInv, ProcessTyped, ZonesAreOrdered, Seated
  <2>2. CASE retired'[z] = {}
    <3>1. z \in Elements(zoneOrder)
      BY <1>1, <2>1 DEF Placed
    <3>2. zoneOrder' = Process!Kept(zoneOrder, Zones \ {z}) /\ zoneTurn' = Clamped(zoneTurn, Len(zoneOrder'))
      BY <1>1, <2>2, ProcessRounds DEF Process!Unregistered
    <3>3. /\ zoneOrder' \in Seq(Zones) /\ Distinct(zoneOrder') /\ Elements(zoneOrder') = Elements(zoneOrder) \ {z}
          /\ Len(zoneOrder') = Len(zoneOrder) - 1
      BY <2>1, <3>1, <3>2, OneLess
    <3>4. Seated(zoneTurn', zoneOrder')
      BY <2>1, <3>2, <3>3, ClampedIs
    <3>5. Len(zoneOrder') <= MaxActiveSessions
      BY <2>1, <3>3
    <3> QED BY <1>8, <2>1, <2>2, <3>3, <3>4, <3>5 DEF ZonesAreOrdered
  <2>3. CASE retired'[z] # {}
    BY <1>1, <1>8, <2>1, <2>3 DEF ZonesAreOrdered
  <2> QED BY <2>2, <2>3
<1>10. AccountIsExact' /\ TokensAreHanded'
  BY <1>1, <1>3 DEF ProcessInv, AccountIsExact, TokensAreHanded, SameWork
<1>11. ProcessTyped'
  BY <1>1, <1>2, <1>4, <1>9 DEF ProcessInv, ProcessTyped
<1> QED BY <1>3, <1>6, <1>9, <1>10, <1>11 DEF ProcessInv

LEMMA ProcessRegisters ==
  ASSUME ProcessInv, NEW z \in Zones, NEW s \in Process!Sessions, Process!Register(z, s)
  PROVE  ProcessInv'
<1>1. /\ session[z] = Process!NoSession /\ Process!Fresh(z, s)
      /\ Process!Registered(z) \/ Len(zoneOrder) < MaxActiveSessions
      /\ session' = [session EXCEPT ![z] = s]
      /\ zoneOrder' = IF Process!Registered(z) THEN zoneOrder ELSE Append(zoneOrder, z)
      /\ UNCHANGED <<retired, zoneTurn, nonSafety, tokens, zoneWork, zonePump>>
  BY DEF Process!Register
<1>2. /\ session' \in [Zones -> SessionOr] /\ session'[z] = s /\ s # Process!NoSession
      /\ \A y \in Zones : y # z => session'[y] = session[y]
  BY <1>1, ProcessParts DEF ProcessInv, ProcessTyped, SessionOr
<1>3. RetiredAreOwners'
  <2>1. s \notin Owners(z, zoneWork)
    BY <1>1 DEF Process!Fresh, Owners, Of
  <2>2. Process!NoSession \notin Owners(z, zoneWork)
    BY ProcessParts DEF Of, Owners, ProcessInv, WorkIsOwned
  <2>3. \A y \in Zones : retired[y] = Owners(y, zoneWork) \ {session[y]}
    BY DEF ProcessInv, RetiredAreOwners
  <2>4. ASSUME NEW y \in Zones
        PROVE  retired[y] = Owners(y, zoneWork) \ {session'[y]}
    <3>1. CASE y = z
      BY <1>1, <1>2, <2>1, <2>2, <2>3, <3>1
    <3>2. CASE y # z
      BY <1>2, <2>3, <3>2
    <3> QED BY <3>1, <3>2
  <2> QED BY <1>1, <2>4 DEF RetiredAreOwners
<1>4. Placed(session', zoneWork') = Placed(session, zoneWork) \cup {z}
  BY <1>1, <1>2 DEF Placed
<1>5. /\ zoneOrder \in Seq(Zones) /\ Len(zoneOrder) <= MaxActiveSessions /\ Distinct(zoneOrder)
      /\ Elements(zoneOrder) = Placed(session, zoneWork) /\ Seated(zoneTurn, zoneOrder)
      /\ MaxActiveSessions \in Nat /\ Len(zoneOrder) \in Nat
  BY ProcessAssumption DEF ProcessInv, ProcessTyped, ZonesAreOrdered
<1>6. Process!Registered(z) <=> z \in Elements(zoneOrder)
  BY <1>5, ZonesIn DEF Process!Registered
<1>7. zoneOrder' \in Seq(Zones) /\ Len(zoneOrder') <= MaxActiveSessions /\ ZonesAreOrdered'
  <2>1. CASE Process!Registered(z)
    <3>1. Placed(session', zoneWork') = Placed(session, zoneWork)
      BY <1>4, <1>5, <1>6, <2>1
    <3> QED BY <1>1, <1>5, <2>1, <3>1 DEF ZonesAreOrdered
  <2>2. CASE ~Process!Registered(z)
    <3>1. /\ zoneOrder' \in Seq(Zones) /\ Len(zoneOrder') = Len(zoneOrder) + 1 /\ Distinct(zoneOrder')
          /\ Elements(zoneOrder') = Elements(zoneOrder) \cup {z}
      BY <1>1, <1>5, <1>6, <2>2, Appended
    <3>2. Seated(zoneTurn', zoneOrder') /\ Len(zoneOrder') <= MaxActiveSessions
      BY <1>1, <1>5, <2>2, <3>1 DEF Seated
    <3> QED BY <1>4, <1>5, <3>1, <3>2 DEF ZonesAreOrdered
  <2> QED BY <2>1, <2>2
<1>8. WorkIsOwned' /\ AccountIsExact' /\ TokensAreHanded' /\ NoneQueued'
  BY <1>1 DEF ProcessInv, WorkIsOwned, AccountIsExact, TokensAreHanded, NoneQueued
<1>9. ProcessTyped'
  BY <1>1, <1>2, <1>7 DEF ProcessInv, ProcessTyped
<1> QED BY <1>3, <1>7, <1>8, <1>9 DEF ProcessInv

LEMMA ProcessSupersedes ==
  ASSUME ProcessInv, NEW z \in Zones, NEW s \in Process!Sessions, Process!Supersede(z, s)
  PROVE  ProcessInv'
<1>1. /\ session[z] # Process!NoSession /\ Process!Fresh(z, s) /\ Process!Closed(z)
      /\ session' = [session EXCEPT ![z] = s]
      /\ IF retired'[z] = {}
         THEN /\ zoneOrder' = Append(Process!Kept(zoneOrder, Zones \ {z}), z)
              /\ zoneTurn' = Process!Clamped(zoneTurn, Len(zoneOrder) - 1)
         ELSE UNCHANGED <<zoneOrder, zoneTurn>>
      /\ UNCHANGED <<nonSafety, tokens, zonePump>>
  BY DEF Process!Supersede, Process!MayUnregister
<1>2. /\ zoneWork' \in [ZoneMessages -> ZoneWorkStates]
      /\ \A v \in ZoneMessages : SamePlace(zoneWork'[v], zoneWork[v])
      /\ retired' \in [Zones -> SUBSET Process!Sessions]
      /\ retired'[z] = Owners(z, zoneWork)
      /\ \A y \in Zones : y # z => retired'[y] = retired[y]
  BY <1>1, ClosedSession
<1>3. WorkIsOwned' /\ SameWork(zoneWork, zoneWork') /\ Handed(zoneWork') = Handed(zoneWork) /\ NoneQueued'
  BY <1>1, <1>2, PlacesStay
<1>4. /\ session' \in [Zones -> SessionOr] /\ session'[z] = s /\ s # Process!NoSession
      /\ \A y \in Zones : y # z => session'[y] = session[y]
  BY <1>1, ProcessParts DEF ProcessInv, ProcessTyped, SessionOr
<1>5. s \notin Owners(z, zoneWork)
  BY <1>1 DEF Process!Fresh, Owners, Of
<1>6. RetiredAreOwners'
  <2> SUFFICES ASSUME NEW y \in Zones
               PROVE  retired'[y] = Owners(y, zoneWork') \ {session'[y]}
    BY DEF RetiredAreOwners
  <2>1. Owners(y, zoneWork') = Owners(y, zoneWork)
    BY <1>3 DEF SameWork
  <2>2. CASE y = z
    BY <1>2, <1>4, <1>5, <2>1, <2>2
  <2>3. CASE y # z
    BY <1>2, <1>4, <2>1, <2>3 DEF ProcessInv, RetiredAreOwners
  <2> QED BY <2>2, <2>3
<1>7. Placed(session', zoneWork') = Placed(session, zoneWork) /\ z \in Placed(session, zoneWork)
  BY <1>1, <1>3, <1>4 DEF Placed, SameWork
<1>8. zoneOrder' \in Seq(Zones) /\ Len(zoneOrder') <= MaxActiveSessions /\ ZonesAreOrdered'
  <2>1. /\ zoneOrder \in Seq(Zones) /\ Len(zoneOrder) <= MaxActiveSessions /\ Distinct(zoneOrder)
        /\ Elements(zoneOrder) = Placed(session, zoneWork) /\ zoneTurn \in Nat /\ Seated(zoneTurn, zoneOrder)
        /\ MaxActiveSessions \in Nat /\ Len(zoneOrder) \in Nat
    BY ProcessAssumption DEF ProcessInv, ProcessTyped, ZonesAreOrdered, Seated
  <2>2. CASE retired'[z] = {}
    <3> DEFINE r == Process!Kept(zoneOrder, Zones \ {z})
    <3>1. z \in Elements(zoneOrder)
      BY <1>7, <2>1
    <3>2. zoneOrder' = Append(r, z) /\ zoneTurn' = Clamped(zoneTurn, Len(zoneOrder) - 1)
      BY <1>1, <2>2, ProcessRounds
    <3>3. /\ r \in Seq(Zones) /\ Distinct(r) /\ Elements(r) = Elements(zoneOrder) \ {z}
          /\ Len(r) = Len(zoneOrder) - 1
      BY <2>1, <3>1, OneLess
    <3> HIDE DEF r
    <3>4. /\ zoneOrder' \in Seq(Zones) /\ Len(zoneOrder') = Len(r) + 1 /\ Distinct(zoneOrder')
          /\ Elements(zoneOrder') = Elements(r) \cup {z}
      BY <3>2, <3>3, Appended
    <3>5. Len(zoneOrder') = Len(zoneOrder) /\ Len(r) \in Nat
      BY <2>1, <3>3, <3>4
    <3>6. Seated(zoneTurn', zoneOrder')
      BY <2>1, <3>2, <3>3, <3>5 DEF Seated, Clamped
    <3>7. Elements(zoneOrder') = Elements(zoneOrder)
      BY <3>1, <3>3, <3>4
    <3> QED BY <1>7, <2>1, <3>4, <3>5, <3>6, <3>7 DEF ZonesAreOrdered
  <2>3. CASE retired'[z] # {}
    BY <1>1, <1>7, <2>1, <2>3 DEF ZonesAreOrdered
  <2> QED BY <2>2, <2>3
<1>9. AccountIsExact' /\ TokensAreHanded'
  BY <1>1, <1>3 DEF ProcessInv, AccountIsExact, TokensAreHanded, SameWork
<1>10. ProcessTyped'
  BY <1>1, <1>2, <1>4, <1>8 DEF ProcessInv, ProcessTyped
<1> QED BY <1>3, <1>6, <1>8, <1>9, <1>10 DEF ProcessInv

-----------------------------------------------------------------------------
(* The invariant of the process.                                           *)

LEMMA ProcessStarts ==
  ASSUME Process!Init
  PROVE  ProcessInv
<1>1. /\ session = [z \in Zones |-> Process!NoSession] /\ retired = [z \in Zones |-> {}]
      /\ zoneOrder = << >> /\ zoneTurn = 0 /\ nonSafety = 0 /\ tokens = {}
      /\ zoneWork = [w \in ZoneMessages |-> Process!NoWork] /\ zonePump = "off"
  BY DEF Process!Init
<1>2. /\ Process!NoWork \in ZoneWorkStates /\ Process!NoWork.at = "out"
      /\ Process!NoWork.owner = Process!NoSession
  BY DEF Process!NoWork, ZoneWorkStates, ZonePlaces, Tellings, SessionOr
<1>3. zoneWork \in [ZoneMessages -> ZoneWorkStates] /\ \A w \in ZoneMessages : zoneWork[w] = Process!NoWork
  BY <1>1, <1>2
<1>4. All(zoneWork) = {} /\ Handed(zoneWork) = {} /\ \A z \in Zones : Of(z, zoneWork) = {}
  BY <1>2, <1>3 DEF All, Handed, Of, InProcess
<1>5. << >> \in Seq(Zones) /\ Distinct(<< >>) /\ Elements(<< >>) = {} /\ Len(<< >>) = 0
  BY DEF Distinct, Elements
<1>6. ProcessTyped
  BY <1>1, <1>3, <1>5, ProcessAssumption DEF ProcessTyped, SessionOr
<1>7. WorkIsOwned
  BY <1>2, <1>3 DEF WorkIsOwned, InProcess
<1>8. AccountIsExact
  <2>1. Cardinality({}) = 0 /\ All(zoneWork) \ Safety = {}
    BY <1>4, FS_EmptySet
  <2>2. MaxNonSafety \in Nat /\ nonSafety = 0
    BY <1>1, ProcessAssumption
  <2>3. Cardinality(All(zoneWork) \ Safety) = 0
    BY <2>1
  <2> QED BY <2>2, <2>3 DEF AccountIsExact
<1>9. RetiredAreOwners /\ TokensAreHanded
  BY <1>1, <1>4 DEF RetiredAreOwners, Owners, TokensAreHanded
<1>10. ZonesAreOrdered
  BY <1>1, <1>4, <1>5 DEF ZonesAreOrdered, Placed, Seated
<1>11. NoneQueued
  BY <1>2, <1>3 DEF NoneQueued
<1> QED BY <1>6, <1>7, <1>8, <1>9, <1>10, <1>11 DEF ProcessInv

LEMMA ProcessRests ==
  ASSUME ProcessInv, UNCHANGED process
  PROVE  ProcessInv'
<1>1. UNCHANGED <<session, retired, zoneOrder, zoneTurn, nonSafety, tokens, zoneWork, zonePump>>
  BY DEF process
<1>2. ProcessTyped' /\ WorkIsOwned' /\ AccountIsExact' /\ RetiredAreOwners'
  BY <1>1 DEF ProcessInv, ProcessTyped, WorkIsOwned, AccountIsExact, RetiredAreOwners
<1>3. TokensAreHanded' /\ ZonesAreOrdered' /\ NoneQueued'
  BY <1>1 DEF ProcessInv, TokensAreHanded, ZonesAreOrdered, NoneQueued
<1> QED BY <1>2, <1>3 DEF ProcessInv

LEMMA ProcessStep ==
  ASSUME ProcessInv, Process!Next
  PROVE  ProcessInv'
<1>1. ASSUME NEW z \in Zones, Process!Unregister(z)
      PROVE  ProcessInv'
  BY <1>1, ProcessUnregisters
<1>2. ASSUME NEW z \in Zones, NEW s \in Process!Sessions, Process!Register(z, s) \/ Process!Supersede(z, s)
      PROVE  ProcessInv'
  BY <1>2, ProcessRegisters, ProcessSupersedes
<1>3. ASSUME NEW w \in ZoneMessages,
             Process!Admit(w) \/ Process!Replace(w) \/ Process!Cancel(w) \/ Process!Forget(w)
      PROVE  ProcessInv'
  BY <1>3, ProcessAdmits, ProcessReplaces, ProcessCancels, ProcessForgets
<1>4. ASSUME NEW w \in ZoneMessages, Process!HandOn(w) \/ Process!HandOnThrows(w) \/ Process!Drop(w)
      PROVE  ProcessInv'
  BY <1>4, ProcessHandsOn, ProcessThrows, ProcessDrops
<1>5. ASSUME NEW w \in ZoneMessages, Process!Answers(w)
      PROVE  ProcessInv'
  <2>1. PICK what \in DueAnswers : Process!Answered(w, what)
    BY <1>5 DEF Process!Answers, DueAnswers
  <2> QED BY <2>1, ProcessAnswered
<1>6. ASSUME Process!PumpStarts \/ Process!PumpEnds
      PROVE  ProcessInv'
  BY <1>6, ProcessPumpStarts, ProcessPumpEnds
<1> QED BY <1>1, <1>2, <1>3, <1>4, <1>5, <1>6 DEF Process!Next

LEMMA ProcessInvGives ==
  ASSUME ProcessInv
  PROVE  /\ Process!TypeOK /\ Process!AccountsAgree /\ Process!PlacesFollowWork /\ Process!NothingWaitsIdly
<1>1. zoneOrder \in Seq(Zones) /\ zoneTurn \in Nat
  BY DEF ProcessInv, ProcessTyped, ZonesAreOrdered, Seated
<1>2. Process!TypeOK
  <2>1. Process!IsInjective(zoneOrder)
    <3>1. DOMAIN zoneOrder = 1 .. Len(zoneOrder)
      BY <1>1
    <3> QED BY <3>1 DEF ProcessInv, ZonesAreOrdered, Distinct, Process!IsInjective
  <2> QED BY <1>1, <2>1
          DEF ProcessInv, ProcessTyped, Process!TypeOK, ZoneWorkStates, ZonePlaces, Tellings, DueAnswers, SessionOr
<1>3. Process!Outstanding = All(zoneWork)
  BY DEF Process!Outstanding, Process!Held, All, InProcess
<1>4. Process!AccountsAgree
  <2>1. nonSafety = Process!Counted(Process!Outstanding) /\ nonSafety <= MaxNonSafety
    BY <1>3, ProcessParts DEF ProcessInv, AccountIsExact, Process!Counted
  <2>2. ASSUME NEW z \in Zones
        PROVE  retired[z] = {zoneWork[w].owner : w \in {v \in Process!Outstanding : ZoneOf[v] = z}} \ {session[z]}
    <3>1. {v \in Process!Outstanding : ZoneOf[v] = z} = Of(z, zoneWork)
      BY <1>3 DEF All, Of
    <3> QED BY <3>1 DEF ProcessInv, RetiredAreOwners, Owners
  <2>3. tokens = {w \in ZoneMessages : zoneWork[w].at = "handed"}
    BY DEF ProcessInv, TokensAreHanded, Handed
  <2> QED BY <2>1, <2>2, <2>3 DEF Process!AccountsAgree
<1>5. Process!PlacesFollowWork
  <2> SUFFICES ASSUME NEW z \in Zones
               PROVE  Process!Registered(z) <=> session[z] # Process!NoSession
                                                \/ \E w \in Process!Outstanding : ZoneOf[w] = z
    BY DEF Process!PlacesFollowWork
  <2>1. Process!Registered(z) <=> z \in Placed(session, zoneWork)
    BY <1>1, ZonesIn DEF Process!Registered, ProcessInv, ZonesAreOrdered
  <2>2. Of(z, zoneWork) # {} <=> \E w \in Process!Outstanding : ZoneOf[w] = z
    BY <1>3 DEF All, Of
  <2> QED BY <2>1, <2>2 DEF Placed
<1>6. Process!NothingWaitsIdly
  BY DEF ProcessInv, NoneQueued, Process!NothingWaitsIdly, Process!HasQueued, Process!WithWork, Process!Queued
<1> QED BY <1>2, <1>4, <1>5, <1>6

\* Only HandOn hands work on, and only work whose caller was told nothing.
LEMMA ToldIsLeft ==
  ASSUME ProcessInv, Process!Next
  PROVE  Process!LeavesToldWork
<1> SUFFICES ASSUME NEW w \in ZoneMessages, zoneWork[w].at = "queued", zoneWork[w].told # "no"
             PROVE  zoneWork'[w].at # "handed"
  BY DEF Process!LeavesToldWork
<1>1. zoneWork \in [ZoneMessages -> ZoneWorkStates] /\ zoneWork[w] \in ZoneWorkStates
  BY DEF ProcessInv, ProcessTyped
<1>2. ASSUME NEW z \in Zones, Process!Unregister(z) \/ \E s \in Process!Sessions : Process!Supersede(z, s)
      PROVE  zoneWork'[w].at # "handed"
  <2>1. Process!Closed(z) /\ session[z] # Process!NoSession
    BY <1>2 DEF Process!Unregister, Process!Supersede
  <2>2. SamePlace(zoneWork'[w], zoneWork[w])
    BY <2>1, ClosedSession
  <2> QED BY <2>2 DEF SamePlace
<1>3. ASSUME NEW z \in Zones, NEW s \in Process!Sessions, Process!Register(z, s)
      PROVE  zoneWork'[w].at # "handed"
  BY <1>3 DEF Process!Register
<1>4. ASSUME NEW v \in ZoneMessages, Process!Admit(v)
      PROVE  zoneWork'[w].at # "handed"
  <2>1. zoneWork' = [zoneWork EXCEPT ![v] = Process!Submitted(v)] /\ zoneWork[v].at = "out"
    BY <1>4 DEF Process!Admit
  <2> QED BY <1>1, <2>1
<1>5. ASSUME NEW v \in ZoneMessages, Process!Replace(v)
      PROVE  zoneWork'[w].at # "handed"
  <2>1. zoneWork[v].at = "out"
    BY <1>5 DEF Process!Replace
  <2>2. PICK u \in Process!Prior(v) :
          zoneWork' = [zoneWork EXCEPT ![v] = Process!Submitted(v),
                                       ![u] = [Process!Settled(@, "replaced") EXCEPT !.at = "released",
                                                                             !.owner = Process!NoSession]]
    BY <1>5 DEF Process!Replace
  <2> DEFINE r == Process!Settled(zoneWork[u], "replaced")
             q == [[r EXCEPT !.at = "released"] EXCEPT !.owner = Process!NoSession]
  <2>3. u \in ZoneMessages /\ zoneWork[u].at = "queued"
    BY DEF Process!Prior
  <2>4. zoneWork' = [zoneWork EXCEPT ![v] = Process!Submitted(v), ![u] = q]
    BY <1>1, <2>1, <2>2, <2>3
  <2>5. q.at = "released"
    <3>1. zoneWork[u] \in ZoneWorkStates /\ "replaced" \in Tellings
      BY <1>1, <2>3 DEF Tellings
    <3>2. r \in ZoneWorkStates
      BY <3>1, SettledIs DEF SettledAs
    <3> HIDE DEF r
    <3> QED BY <3>2, ReleasedRecord
  <2> HIDE DEF q
  <2> QED BY <1>1, <2>1, <2>3, <2>4, <2>5
<1>6. ASSUME NEW v \in ZoneMessages, Process!Cancel(v)
      PROVE  zoneWork'[w].at # "handed"
  <2> DEFINE said == IF zoneWork[v].at = "queued" THEN Process!Settled(zoneWork[v], "closed") ELSE zoneWork[v]
  <2>1. zoneWork' = [zoneWork EXCEPT ![v] = [said EXCEPT !.aborted = TRUE]]
    BY <1>6 DEF Process!Cancel
  <2>2. said \in ZoneWorkStates /\ said.at = zoneWork[v].at
    <3>1. zoneWork[v] \in ZoneWorkStates /\ "closed" \in Tellings
      BY <1>1 DEF Tellings
    <3> QED BY <3>1, SettledIs DEF SettledAs, SamePlace
  <2> HIDE DEF said
  <2>3. [said EXCEPT !.aborted = TRUE].at = said.at
    BY <2>2 DEF ZoneWorkStates
  <2> QED BY <1>1, <2>1, <2>2, <2>3
<1>7. ASSUME NEW v \in ZoneMessages, Process!Forget(v)
      PROVE  zoneWork'[w].at # "handed"
  BY <1>1, <1>7 DEF Process!Forget
<1>8. ASSUME NEW v \in ZoneMessages, Process!HandOn(v)
      PROVE  zoneWork'[w].at # "handed"
  <2>1. v # w
    BY <1>8 DEF Process!HandOn, Process!MayStart
  <2>2. zoneWork'[w] = zoneWork[w]
    BY <1>1, <1>8, <2>1 DEF Process!HandOn
  <2> QED BY <2>2
<1>9. ASSUME NEW v \in ZoneMessages, Process!HandOnThrows(v)
      PROVE  zoneWork'[w].at # "handed"
  <2>1. v # w
    BY <1>9 DEF Process!HandOnThrows, Process!MayStart
  <2>2. zoneWork'[w] = zoneWork[w]
    BY <1>1, <1>9, <2>1 DEF Process!HandOnThrows
  <2> QED BY <2>2
<1>10. ASSUME NEW v \in ZoneMessages, Process!Drop(v)
       PROVE  zoneWork'[w].at # "handed"
  <2>1. zoneWork' = [zoneWork EXCEPT ![v].at = "released", ![v].owner = Process!NoSession]
    BY <1>10 DEF Process!Drop
  <2> QED BY <1>1, <2>1 DEF ZoneWorkStates
<1>11. ASSUME NEW v \in ZoneMessages, Process!Answers(v)
       PROVE  zoneWork'[w].at # "handed"
  <2>1. PICK what \in DueAnswers : Process!Answered(v, what)
    BY <1>11 DEF Process!Answers, DueAnswers
  <2>2. v # w
    BY <2>1 DEF Process!Answered
  <2>3. zoneWork'[w] = zoneWork[w]
    BY <1>1, <2>1, <2>2 DEF Process!Answered
  <2> QED BY <2>3
<1>12. ASSUME Process!PumpStarts \/ Process!PumpEnds
       PROVE  zoneWork' = zoneWork
  BY <1>12 DEF Process!PumpStarts, Process!PumpEnds
<1> QED BY <1>2, <1>3, <1>4, <1>5, <1>6, <1>7, <1>8, <1>9, <1>10, <1>11, <1>12 DEF Process!Next

-----------------------------------------------------------------------------
(* The parts together: one of them moves, the others rest.                 *)

PartsInv == ExecutorInv /\ ProcessInv /\ DispatcherInv /\ ClientInv

LEMMA PartsStart ==
  ASSUME PartsInit
  PROVE  PartsInv
BY ExecutorStarts, ProcessStarts, DispatcherStarts, ClientStarts DEF PartsInit, PartsInv

\* What a step of the parts does to each of them.
LEMMA PartsMove ==
  ASSUME [PartsNext]_<<part, executor, process, dispatcher, client, vars>>
  PROVE  /\ part' = part
         /\ Executor!Next \/ UNCHANGED executor
         /\ Process!Next \/ UNCHANGED process
         /\ Dispatcher!Next \/ UNCHANGED dispatcher
         /\ [Client!Next]_client
BY DEF PartsNext

LEMMA PartsStep ==
  ASSUME PartsInv, [PartsNext]_<<part, executor, process, dispatcher, client, vars>>
  PROVE  PartsInv'
<1>1. ExecutorInv'
  BY PartsMove, ExecutorStep, ExecutorRests DEF PartsInv
<1>2. ProcessInv'
  BY PartsMove, ProcessStep, ProcessRests DEF PartsInv
<1>3. DispatcherInv'
  BY PartsMove, DispatcherStep, DispatcherStutters DEF PartsInv
<1>4. ClientInv'
  BY PartsMove, ClientStep DEF PartsInv, Keeps, ClientInv
<1> QED BY <1>1, <1>2, <1>3, <1>4 DEF PartsInv

\* The invariant that carries the theorems below.
THEOREM PartsCorrect == PartsSpec => []PartsInv
<1> HIDE DEF PartsInv, PartsInit, PartsNext
<1> QED BY PartsStart, PartsStep, PTL DEF PartsSpec

\* For every number of messages, principals, zones and attachments and all limits: what
\* the admission counts of a class, a principal, a zone or the process is what waits or
\* executes there, the limits hold, every zone with work keeps its place and no other
\* has one, and nothing that could be started waits without the pump.
THEOREM AdmissionCorrect == PartsSpec => []AdmissionIsAccounted
<1>1. PartsInv => AdmissionIsAccounted
  BY ExecutorInvGives, ProcessInvGives DEF PartsInv, AdmissionIsAccounted
<1> QED BY <1>1, PartsCorrect, PTL

\* A result that an executor has told its caller is not replaced by a later one; and a
\* message whose caller was told that the session is closed, that a later report replaced
\* it or that it is cancelled never starts afterwards.
THEOREM CallersCorrect == PartsSpec => CallersAreToldOnce
<1>1. ASSUME PartsInv, [PartsNext]_<<part, executor, process, dispatcher, client, vars>>
      PROVE  [Executor!TellsOnce /\ Process!LeavesToldWork]_<<executor, process>>
  <2>1. Executor!TellsOnce
    <3>1. CASE Executor!Next
      BY <1>1, <3>1, ExecutorTellsOnce DEF PartsInv
    <3>2. CASE UNCHANGED executor
      BY <3>2 DEF executor, Executor!TellsOnce
    <3> QED BY <1>1, <3>1, <3>2, PartsMove
  <2>2. Process!LeavesToldWork
    <3>1. CASE Process!Next
      BY <1>1, <3>1, ToldIsLeft DEF PartsInv
    <3>2. CASE UNCHANGED process
      BY <3>2 DEF process, Process!LeavesToldWork
    <3> QED BY <1>1, <3>1, <3>2, PartsMove
  <2> QED BY <2>1, <2>2
<1> QED BY <1>1, PartsCorrect, PTL DEF PartsSpec, CallersAreToldOnce

\* For every number of deliveries, commands and sessions: the dispatcher executes a
\* command again only when its earlier result left the window, by its age or because the
\* window was full, or failed; and it hands a mutation to the ledger only for the session
\* that is accepted at that moment.
THEOREM DispatchCorrect == PartsSpec => DispatchesOnceInItsSession
<1>1. ASSUME PartsInv, [PartsNext]_<<part, executor, process, dispatcher, client, vars>>
      PROVE  [Dispatcher!DispatchesOnce]_dispatcher
  BY <1>1, PartsMove, DispatchesOnceHolds DEF PartsInv
<1> QED BY <1>1, PartsCorrect, PTL DEF PartsSpec, DispatchesOnceInItsSession

\* For every number of generations, commands and attempts: a client that is not closed
\* dials, waits or has an attachment, with one socket; its evidence of a lost attachment
\* is of the latest one; and no command waits on an attachment that is gone.
THEOREM AttachmentCorrect == PartsSpec => []AttachmentIsSound
<1>1. PartsInv => AttachmentIsSound
  BY DispatcherInvGives, ClientInvGives DEF PartsInv, AttachmentIsSound
<1> QED BY <1>1, PartsCorrect, PTL

\* Every step in which the client loses an attachment that was accepted reports the loss,
\* once, to the owner of the leases.
THEOREM LossCorrect == PartsSpec => LossIsReported
<1>1. ASSUME PartsInv, [PartsNext]_<<part, executor, process, dispatcher, client, vars>>
      PROVE  [Client!ReportsLoss]_client
  BY <1>1, PartsMove, ClientStep DEF PartsInv, Keeps, ClientInv, LossReported, Client!ReportsLoss
<1> QED BY <1>1, PartsCorrect, PTL DEF PartsSpec, LossIsReported

\* The parts contain an authorization, so what is proved of its own specification holds
\* of it there: a settled one is contained, and a cancelled ceremony commits nothing.
THEOREM AuthorizationInherited == PartsSpec => [](AuthorizationIsContained /\ CancelledNeverCommits)
<1>1. PartsInit => Init
  BY DEF PartsInit
<1>2. [PartsNext]_<<part, executor, process, dispatcher, client, vars>> => [Next]_vars
  BY DEF PartsNext
<1>3. PartsSpec => Spec
  BY <1>1, <1>2, PTL DEF PartsSpec, Spec
<1> QED BY <1>3, ContainmentCorrect, CancellationCorrect, PTL
=============================================================================

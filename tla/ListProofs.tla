---------------------------- MODULE ListProofs -----------------------------
(***************************************************************************)
(* Facts that the other proofs keep needing.  Induction and recursion over *)
(* the naturals are stated with sets and functions, because a theorem with *)
(* an operator for a parameter cannot be used: what holds of all numbers is *)
(* the set of those it holds of.                                           *)
(***************************************************************************)
EXTENDS Order, Paths, FiniteSetTheorems, SequenceTheorems, WellFoundedInduction, TLAPS

(* Every set of naturals has a least member. *)
LEMMA LeastNat ==
  ASSUME NEW T \in SUBSET Nat, T # {}
  PROVE  \E n \in T : \A m \in T : n <= m
<1>. DEFINE R == {ss \in Nat \X Nat : ss[1] < ss[2]}
<1>1. IsWellFoundedOn(R, Nat)
  BY NatLessThanWellFounded DEF OpToRel
<1>2. \A m, n \in T : m < n => <<m, n>> \in R
  OBVIOUS
<1>. HIDE DEF R
<1>3. PICK n \in T : \A m \in T : <<m, n>> \notin R
  BY <1>1, WFMin
<1>4. ASSUME NEW m \in T PROVE n <= m
  <2>1. m \in Nat /\ n \in Nat /\ ~(m < n)
    BY <1>2, <1>3
  <2>2. QED
    BY <2>1
<1>5. QED
  BY <1>4

(* A set of naturals with 0 and the successor of every member has them all. *)
LEMMA Induction ==
  ASSUME NEW T \in SUBSET Nat, 0 \in T, \A n \in T : n + 1 \in T
  PROVE  T = Nat
<1>1. SUFFICES ASSUME Nat \ T # {} PROVE FALSE
  OBVIOUS
<1>2. PICK n \in Nat \ T : \A m \in Nat \ T : n <= m
  BY <1>1, LeastNat
<1>3. n # 0 /\ n - 1 \in Nat /\ ~(n <= n - 1) /\ n = (n - 1) + 1
  BY <1>2
<1>4. n - 1 \in T
  BY <1>2, <1>3
<1>5. QED
  BY <1>2, <1>3, <1>4

(* The same up to a bound. *)
LEMMA InductionUpTo ==
  ASSUME NEW N \in Nat, NEW T \in SUBSET (0..N), 0 \in T,
         \A n \in 0..N : n \in T /\ n < N => n + 1 \in T
  PROVE  T = 0..N
<1>. DEFINE All == {n \in Nat : n <= N => n \in T}
<1>1. 0 \in All
  OBVIOUS
<1>2. ASSUME NEW n \in All PROVE n + 1 \in All
  <2>1. n \in Nat /\ n + 1 \in Nat /\ (n <= N => n \in T)
    OBVIOUS
  <2>2. n + 1 <= N => n \in 0..N /\ n < N
    BY <2>1
  <2>3. QED
    BY <2>1, <2>2
<1>3. All \in SUBSET Nat
  OBVIOUS
<1>4. \A n \in All : n + 1 \in All
  BY <1>2
<1>. HIDE DEF All
<1>5. All = Nat
  BY <1>1, <1>3, <1>4, Induction
<1>6. \A n \in 0..N : n \in T
  BY <1>5 DEF All
<1>7. QED
  BY <1>6

(* A function up to N that begins with a, each value of which gives the next. *)
Unfolds(f, N, A, a, next) ==
  /\ f \in [0..N -> A] /\ f[0] = a
  /\ \A i \in 1..N : f[i] = next[<<i - 1, f[i - 1]>>]

(* A function can be defined by its first value and its next. *)
LEMMA Recursion ==
  ASSUME NEW A, NEW a \in A, NEW next \in [Nat \X A -> A], NEW N \in Nat
  PROVE  \E f : Unfolds(f, N, A, a, next)
<1>. DEFINE Is(f, n) == Unfolds(f, n, A, a, next)
     Some == {n \in Nat : \E f : Is(f, n)}
<1>. USE DEF Unfolds
<1>1. 0 \in Some
  <2>1. Is([i \in 0..0 |-> a], 0)
    OBVIOUS
  <2>2. QED
    BY <2>1
<1>2. ASSUME NEW n \in Some PROVE n + 1 \in Some
  <2>1. n \in Nat
    OBVIOUS
  <2>2. PICK f : Is(f, n)
    OBVIOUS
  <2>. DEFINE g == [i \in 0..n + 1 |-> IF i = n + 1 THEN next[<<n, f[n]>>] ELSE f[i]]
  <2>3. f[n] \in A
    BY <2>1, <2>2
  <2>4. next[<<n, f[n]>>] \in A
    BY <2>1, <2>3
  <2>5. g \in [0..n + 1 -> A]
    <3>1. \A i \in 0..n + 1 : i = n + 1 \/ i \in 0..n
      BY <2>1
    <3>2. QED
      BY <2>2, <2>4, <3>1
  <2>6. \A i \in 0..n : i \in 0..n + 1 /\ i # n + 1 /\ g[i] = f[i]
    BY <2>1
  <2>7. n + 1 \in 0..n + 1 /\ g[n + 1] = next[<<n, f[n]>>]
    BY <2>1
  <2>. HIDE DEF g
  <2>8. g[0] = a
    BY <2>1, <2>2, <2>6
  <2>9. ASSUME NEW i \in 1..n + 1 PROVE g[i] = next[<<i - 1, g[i - 1]>>]
    <3>1. CASE i = n + 1
      <4>1. i - 1 = n /\ n \in 0..n
        BY <2>1, <3>1
      <4>2. g[i - 1] = f[n]
        BY <2>6, <4>1
      <4>3. QED
        BY <2>7, <3>1, <4>1, <4>2
    <3>2. CASE i \in 1..n
      <4>1. i - 1 \in 0..n /\ i \in 0..n
        BY <2>1, <3>2
      <4>2. g[i] = f[i] /\ g[i - 1] = f[i - 1]
        BY <2>6, <4>1
      <4>3. QED
        BY <2>2, <3>2, <4>2
    <3>3. QED
      BY <2>1, <3>1, <3>2
  <2>10. n + 1 \in Nat /\ Is(g, n + 1)
    BY <2>1, <2>5, <2>8, <2>9
  <2>11. QED
    BY <2>10
<1>3. Some \in SUBSET Nat /\ \A n \in Some : n + 1 \in Some
  BY <1>2
<1>4. N \in Some
  <2>. HIDE DEF Some
  <2>1. QED
    BY <1>1, <1>3, Induction
<1>5. QED
  BY <1>4

\* Three sequences, one after the other.
Associates(a, b, c) == (a \o b) \o c = a \o (b \o c)
(* They may be taken together in any way. *)
LEMMA Associate ==
  ASSUME NEW U, NEW a \in Seq(U), NEW b \in Seq(U), NEW c \in Seq(U)
  PROVE  Associates(a, b, c)
BY ConcatAssociative DEF Associates

-----------------------------------------------------------------------------
(* InOrder.                                                                *)

\* InOrder is the last value of upTo, which looks at one name a time.
Gathers(upTo, order, S, U) ==
  /\ upTo \in [0..Len(order) -> Seq(U)]
  /\ upTo[0] = <<>>
  /\ \A i \in 1..Len(order) :
       upTo[i] = IF order[i] \in S THEN Append(upTo[i - 1], order[i]) ELSE upTo[i - 1]
  /\ InOrder(order, S) = upTo[Len(order)]

(* There is such a function. *)
LEMMA InOrderDef ==
  ASSUME NEW U, NEW order \in Seq(U), NEW S
  PROVE  \E upTo : Gathers(upTo, order, S, U)
<1>. DEFINE N == Len(order)
     next == [p \in Nat \X Seq(U) |->
                IF p[1] + 1 \in 1..N /\ order[p[1] + 1] \in S
                THEN Append(p[2], order[p[1] + 1]) ELSE p[2]]
     Body(g) == [i \in 0..N |->
                  IF i = 0 THEN <<>>
                  ELSE IF order[i] \in S THEN Append(g[i - 1], order[i]) ELSE g[i - 1]]
     g == CHOOSE g : g = Body(g)
<1>1. N \in Nat /\ <<>> \in Seq(U)
  BY EmptySeq
<1>2. next \in [Nat \X Seq(U) -> Seq(U)]
  <2>1. ASSUME NEW p \in Nat \X Seq(U), p[1] + 1 \in 1..N
        PROVE  Append(p[2], order[p[1] + 1]) \in Seq(U)
    <3>1. order[p[1] + 1] \in U
      BY <2>1, ElementOfSeq
    <3>2. QED
      BY <3>1, AppendProperties
  <2>2. QED
    BY <2>1
<1>3. PICK f \in [0..N -> Seq(U)] :
        f[0] = <<>> /\ \A i \in 1..N : f[i] = next[<<i - 1, f[i - 1]>>]
  <2>. HIDE DEF next, N
  <2>1. \E f : Unfolds(f, N, Seq(U), <<>>, next)
    BY <1>1, <1>2, Recursion
  <2>2. QED
    BY <2>1 DEF Unfolds
<1>4. ASSUME NEW i \in 1..N
      PROVE  f[i] = IF order[i] \in S THEN Append(f[i - 1], order[i]) ELSE f[i - 1]
  <2>1. i - 1 \in 0..N /\ i - 1 \in Nat /\ (i - 1) + 1 = i
    BY <1>1
  <2>2. <<i - 1, f[i - 1]>> \in Nat \X Seq(U)
    BY <1>3, <2>1
  <2>3. QED
    BY <1>3, <2>1, <2>2
<1>5. f = Body(f)
  <2>1. ASSUME NEW i \in 0..N PROVE f[i] = Body(f)[i]
    <3>1. i = 0 \/ i \in 1..N
      BY <1>1
    <3>2. QED
      BY <1>3, <1>4, <3>1
  <2>2. QED
    BY <1>3, <2>1
<1>6. g = Body(g)
  BY <1>5
<1>7. InOrder(order, S) = g[N]
  BY DEF InOrder
<1>. HIDE DEF g
<1>8. g[0] = <<>> /\ \A i \in 1..N :
        g[i] = IF order[i] \in S THEN Append(g[i - 1], order[i]) ELSE g[i - 1]
  <2>1. 0 \in 0..N /\ \A i \in 1..N : i \in 0..N /\ i # 0
    BY <1>1
  <2>2. \A i \in 0..N : g[i] = Body(g)[i]
    BY <1>6
  <2>3. g[0] = Body(g)[0]
    BY <2>1, <2>2
  <2>4. \A i \in 1..N : g[i] = Body(g)[i]
    BY <2>1, <2>2
  <2>. HIDE DEF N
  <2>5. QED
    BY <2>1, <2>3, <2>4
<1>9. g \in [0..N -> Seq(U)]
  <2>. DEFINE T == {i \in 0..N : g[i] \in Seq(U)}
  <2>1. 0 \in T
    <3>1. 0 \in 0..N /\ g[0] \in Seq(U)
      BY <1>1, <1>8
    <3>2. QED
      BY <3>1
  <2>2. ASSUME NEW i \in 0..N, i \in T, i < N PROVE i + 1 \in T
    <3>1. i + 1 \in 1..N /\ i + 1 \in 0..N /\ (i + 1) - 1 = i
      BY <1>1, <2>2
    <3>2. order[i + 1] \in U
      BY <3>1, ElementOfSeq
    <3>3. g[i] \in Seq(U)
      BY <2>2
    <3>4. Append(g[i], order[i + 1]) \in Seq(U)
      BY <3>2, <3>3, AppendProperties
    <3>5. QED
      BY <1>8, <3>1, <3>3, <3>4
  <2>3. T = 0..N
    <3>. HIDE DEF N
    <3>1. T \in SUBSET (0..N)
      OBVIOUS
    <3>. HIDE DEF T
    <3>2. QED
      BY <1>1, <2>1, <2>2, <3>1, InductionUpTo
  <2>4. g = [i \in 0..N |-> g[i]]
    BY <1>6
  <2>5. QED
    BY <2>3, <2>4
<1>10. Gathers(g, order, S, U)
  BY <1>7, <1>8, <1>9 DEF Gathers
<1>11. QED
  BY <1>10, Zenon

(* The result is a list of those names that are in both, each as often as it
   was in the order, and no longer than it. *)
LEMMA InOrderProperties ==
  ASSUME NEW U, NEW order \in Seq(U), NEW S
  PROVE  /\ InOrder(order, S) \in Seq(U)
         /\ Len(InOrder(order, S)) <= Len(order)
         /\ {InOrder(order, S)[k] : k \in 1..Len(InOrder(order, S))}
              = {order[i] : i \in 1..Len(order)} \cap S
         /\ IsInjective(order) => IsInjective(InOrder(order, S))
<1>. DEFINE N == Len(order)
<1>1. N \in Nat
  OBVIOUS
<1>0. PICK upTo : Gathers(upTo, order, S, U)
  BY InOrderDef, Zenon
<1>2. /\ upTo \in [0..N -> Seq(U)] /\ upTo[0] = <<>>
      /\ \A i \in 1..N : upTo[i] = IF order[i] \in S THEN Append(upTo[i - 1], order[i])
                                                   ELSE upTo[i - 1]
      /\ InOrder(order, S) = upTo[N]
  BY <1>0 DEF Gathers
<1>. DEFINE Good(i) ==
       /\ Len(upTo[i]) <= i
       /\ {upTo[i][k] : k \in 1..Len(upTo[i])} = {order[j] : j \in 1..i} \cap S
       /\ IsInjective(order) => IsInjective(upTo[i])
     T == {i \in 0..N : Good(i)}
<1>3. 0 \in T
  <2>1. Len(upTo[0]) = 0 /\ 0 \in 0..N
    BY <1>1, <1>2, EmptySeq
  <2>2. QED
    BY <2>1 DEF IsInjective
<1>4. ASSUME NEW i \in 0..N, i \in T, i < N PROVE i + 1 \in T
  <2>. DEFINE s == upTo[i]
       x == order[i + 1]
       t == upTo[i + 1]
  <2>1. i + 1 \in 1..N /\ i + 1 \in 0..N /\ (i + 1) - 1 = i /\ i \in Nat
    BY <1>1, <1>4
  <2>2. s \in Seq(U) /\ t \in Seq(U)
    BY <1>2, <2>1
  <2>3. x \in U
    BY <2>1, ElementOfSeq
  <2>4. Good(i)
    BY <1>4
  <2>5. t = IF x \in S THEN Append(s, x) ELSE s
    BY <1>2, <2>1
  <2>6. {order[j] : j \in 1..i + 1} = {order[j] : j \in 1..i} \cup {x}
    <3>1. 1..i + 1 = (1..i) \cup {i + 1}
      BY <2>1
    <3>2. QED
      BY <3>1
  <2>7. CASE x \notin S
    <3>1. t = s /\ i <= i + 1 /\ Len(s) \in Nat
      BY <2>1, <2>2, <2>5, <2>7
    <3>2. Len(t) <= i + 1
      BY <2>1, <2>4, <3>1
    <3>3. Good(i + 1)
      BY <2>4, <2>6, <2>7, <3>1, <3>2
    <3>4. QED
      BY <2>1, <3>3
  <2>8. CASE x \in S
    <3>1. /\ t = Append(s, x) /\ Len(t) = Len(s) + 1 /\ t[Len(s) + 1] = x
          /\ Len(s) \in Nat /\ \A k \in 1..Len(s) : t[k] = s[k]
      BY <2>2, <2>3, <2>5, <2>8, AppendProperties, LenProperties
    <3>2. 1..Len(t) = (1..Len(s)) \cup {Len(s) + 1}
      BY <3>1
    <3>3. Len(t) <= i + 1
      BY <2>1, <2>4, <3>1
    <3>4. {t[k] : k \in 1..Len(t)} = {s[k] : k \in 1..Len(s)} \cup {x}
      <4>. HIDE DEF s, t, x
      <4>1. QED
        BY <3>1, <3>2
    <3>5. {t[k] : k \in 1..Len(t)} = {order[j] : j \in 1..i + 1} \cap S
      BY <2>4, <2>6, <2>8, <3>4
    <3>6. ASSUME IsInjective(order) PROVE IsInjective(t)
      <4>1. IsInjective(s)
        BY <2>4, <3>6
      <4>2. \A k \in 1..Len(s) : s[k] # x
        <5>1. ASSUME NEW k \in 1..Len(s), s[k] = x PROVE FALSE
          <6>1. s[k] \in {order[j] : j \in 1..i}
            BY <2>4
          <6>2. PICK j \in 1..i : order[j] = x
            BY <5>1, <6>1
          <6>3. j \in 1..N /\ j # i + 1
            BY <2>1, <6>2
          <6>4. QED
            BY <2>1, <3>6, <6>2, <6>3 DEF IsInjective
        <5>2. QED
          BY <5>1
      <4>3. QED
        <5>. HIDE DEF s, t, x
        <5>1. QED
          BY <3>1, <3>2, <4>1, <4>2 DEF IsInjective
    <3>7. Good(i + 1)
      BY <3>3, <3>5, <3>6
    <3>8. QED
      BY <2>1, <3>7
  <2>9. QED
    BY <2>7, <2>8
<1>5. T = 0..N
  <2>1. T \in SUBSET (0..N)
    OBVIOUS
  <2>. HIDE DEF T, N
  <2>2. QED
    BY <1>1, <1>3, <1>4, <2>1, InductionUpTo
<1>6. N \in T
  <2>1. N \in 0..N
    BY <1>1
  <2>. HIDE DEF T
  <2>2. QED
    BY <1>5, <2>1
<1>7. Good(N) /\ upTo[N] \in Seq(U)
  BY <1>1, <1>2, <1>6
<1>8. PICK r : r = upTo[N]
  OBVIOUS
<1>9. /\ r \in Seq(U) /\ Len(r) <= N
      /\ {r[k] : k \in 1..Len(r)} = {order[j] : j \in 1..N} \cap S
      /\ IsInjective(order) => IsInjective(r)
  BY <1>7, <1>8
<1>10. InOrder(order, S) = r
  BY <1>2, <1>8
<1>. HIDE DEF Good, T
<1>11. QED
  BY <1>9, <1>10, Zenon

(* A last name that is kept stays the last. *)
LEMMA InOrderLast ==
  ASSUME NEW U, NEW order \in Seq(U), NEW S, order # <<>>, order[Len(order)] \in S
  PROVE  /\ InOrder(order, S) # <<>>
         /\ InOrder(order, S)[Len(InOrder(order, S))] = order[Len(order)]
<1>. DEFINE N == Len(order)
<1>1. N \in Nat /\ N \in 1..N /\ N - 1 \in 0..N /\ N \in 0..N
  BY LenProperties, EmptySeq
<1>0. PICK upTo : Gathers(upTo, order, S, U)
  BY InOrderDef, Zenon
<1>2. /\ upTo \in [0..N -> Seq(U)]
      /\ \A i \in 1..N : upTo[i] = IF order[i] \in S THEN Append(upTo[i - 1], order[i])
                                                   ELSE upTo[i - 1]
      /\ InOrder(order, S) = upTo[N]
  BY <1>0 DEF Gathers
<1>3. order[N] \in U
  BY <1>1, ElementOfSeq
<1>4. upTo[N] = Append(upTo[N - 1], order[N])
  BY <1>1, <1>2
<1>5. upTo[N - 1] \in Seq(U) /\ upTo[N] \in Seq(U)
  BY <1>1, <1>2
<1>6. /\ Len(upTo[N]) = Len(upTo[N - 1]) + 1 /\ upTo[N][Len(upTo[N - 1]) + 1] = order[N]
      /\ Len(upTo[N - 1]) \in Nat
  BY <1>3, <1>4, <1>5, AppendProperties, LenProperties
<1>7. upTo[N] # <<>>
  BY <1>5, <1>6, EmptySeq
<1>8. QED
  BY <1>2, <1>6, <1>7

(* A list without duplicates is as long as the set of its members is large. *)
LEMMA DistinctCardinality ==
  ASSUME NEW U, NEW s \in Seq(U), IsInjective(s)
  PROVE  Cardinality({s[i] : i \in 1..Len(s)}) = Len(s)
<1>. DEFINE R == {s[i] : i \in 1..Len(s)}
<1>1. Len(s) \in Nat /\ s \in [1..Len(s) -> R]
  BY LenProperties
<1>2. s \in Bijection(1..Len(s), R)
  BY <1>1 DEF Bijection, Injection, Surjection, IsInjective
<1>3. ExistsBijection(1..Len(s), R)
  BY <1>2 DEF ExistsBijection
<1>4. IsFiniteSet(1..Len(s)) /\ Cardinality(1..Len(s)) = Len(s)
  BY <1>1, FS_Interval
<1>5. QED
  BY <1>3, <1>4, FS_Bijection

-----------------------------------------------------------------------------
(* Normal.                                                                 *)

(* A list without its last element. *)
LEMMA DropLast ==
  ASSUME NEW U, NEW s \in Seq(U)
  PROVE  /\ SubSeq(s, 1, Len(s) - 1) \in Seq(U)
         /\ Len(SubSeq(s, 1, Len(s) - 1)) = IF Len(s) = 0 THEN 0 ELSE Len(s) - 1
         /\ \A d \in 1..Len(s) - 1 : SubSeq(s, 1, Len(s) - 1)[d] = s[d]
<1>1. Len(s) \in Nat /\ \A k \in 1..Len(s) - 1 : k \in 1..Len(s)
  BY LenProperties
<1>2. \A k \in 1..Len(s) - 1 : s[k] \in U
  BY <1>1, ElementOfSeq
<1>3. Len(s) - 1 \in Int /\ (Len(s) - 1) - 1 + 1 = Len(s) - 1
  BY <1>1
<1>. DEFINE n == Len(s) - 1
<1>. HIDE DEF n
<1>4. /\ SubSeq(s, 1, n) \in Seq(U)
      /\ Len(SubSeq(s, 1, n)) = IF 1 <= n THEN n - 1 + 1 ELSE 0
      /\ \A i \in 1..n - 1 + 1 : SubSeq(s, 1, n)[i] = s[1 + i - 1]
  BY <1>2, <1>3, SubSeqProperties DEF n
<1>5. QED
  BY <1>1, <1>3, <1>4 DEF n

(* Normal is the last value of a function that looks at one component a time. *)
LEMMA NormalDef ==
  ASSUME NEW U, NEW parts \in Seq(U)
  PROVE  \E upTo \in [0..Len(parts) -> Seq(U)] :
           /\ upTo[0] = <<>>
           /\ \A i \in 1..Len(parts) :
                upTo[i] = IF parts[i] # ".." THEN Append(upTo[i - 1], parts[i])
                          ELSE SubSeq(upTo[i - 1], 1, Len(upTo[i - 1]) - 1)
           /\ Normal(parts) = upTo[Len(parts)]
<1>. DEFINE N == Len(parts)
     next == [p \in Nat \X Seq(U) |->
                IF p[1] + 1 \in 1..N
                THEN IF parts[p[1] + 1] # ".." THEN Append(p[2], parts[p[1] + 1])
                     ELSE SubSeq(p[2], 1, Len(p[2]) - 1)
                ELSE p[2]]
     Body(g) == [i \in 0..N |->
                  IF i = 0 THEN <<>>
                  ELSE IF parts[i] # ".." THEN Append(g[i - 1], parts[i])
                  ELSE SubSeq(g[i - 1], 1, Len(g[i - 1]) - 1)]
     g == CHOOSE g : g = Body(g)
<1>1. N \in Nat /\ <<>> \in Seq(U)
  BY EmptySeq
<1>0. ASSUME NEW s \in Seq(U) PROVE SubSeq(s, 1, Len(s) - 1) \in Seq(U)
  BY DropLast
<1>2. next \in [Nat \X Seq(U) -> Seq(U)]
  <2>1. ASSUME NEW p \in Nat \X Seq(U), p[1] + 1 \in 1..N
        PROVE  Append(p[2], parts[p[1] + 1]) \in Seq(U)
    <3>1. parts[p[1] + 1] \in U
      BY <2>1, ElementOfSeq
    <3>2. QED
      BY <3>1, AppendProperties
  <2>2. QED
    BY <1>0, <2>1
<1>3. PICK f \in [0..N -> Seq(U)] :
        f[0] = <<>> /\ \A i \in 1..N : f[i] = next[<<i - 1, f[i - 1]>>]
  <2>. HIDE DEF next, N
  <2>1. \E f : Unfolds(f, N, Seq(U), <<>>, next)
    BY <1>1, <1>2, Recursion
  <2>2. QED
    BY <2>1 DEF Unfolds
<1>4. ASSUME NEW i \in 1..N
      PROVE  f[i] = IF parts[i] # ".." THEN Append(f[i - 1], parts[i])
                    ELSE SubSeq(f[i - 1], 1, Len(f[i - 1]) - 1)
  <2>1. i - 1 \in 0..N /\ i - 1 \in Nat /\ (i - 1) + 1 = i
    BY <1>1
  <2>2. <<i - 1, f[i - 1]>> \in Nat \X Seq(U)
    BY <1>3, <2>1
  <2>3. QED
    BY <1>3, <2>1, <2>2
<1>5. f = Body(f)
  <2>1. ASSUME NEW i \in 0..N PROVE f[i] = Body(f)[i]
    <3>1. i = 0 \/ i \in 1..N
      BY <1>1
    <3>2. QED
      BY <1>3, <1>4, <3>1
  <2>2. QED
    BY <1>3, <2>1
<1>6. g = Body(g)
  BY <1>5
<1>7. Normal(parts) = g[N]
  BY DEF Normal
<1>. HIDE DEF g
<1>8. g[0] = <<>> /\ \A i \in 1..N :
        g[i] = IF parts[i] # ".." THEN Append(g[i - 1], parts[i])
               ELSE SubSeq(g[i - 1], 1, Len(g[i - 1]) - 1)
  <2>1. 0 \in 0..N /\ \A i \in 1..N : i \in 0..N /\ i # 0
    BY <1>1
  <2>2. \A i \in 0..N : g[i] = Body(g)[i]
    BY <1>6
  <2>3. g[0] = Body(g)[0]
    BY <2>1, <2>2
  <2>4. \A i \in 1..N : g[i] = Body(g)[i]
    BY <2>1, <2>2
  <2>. HIDE DEF N
  <2>5. QED
    BY <2>1, <2>3, <2>4
<1>9. g \in [0..N -> Seq(U)]
  <2>. DEFINE T == {i \in 0..N : g[i] \in Seq(U)}
  <2>1. 0 \in T
    <3>1. 0 \in 0..N /\ g[0] \in Seq(U)
      BY <1>1, <1>8
    <3>2. QED
      BY <3>1
  <2>2. ASSUME NEW i \in 0..N, i \in T, i < N PROVE i + 1 \in T
    <3>1. i + 1 \in 1..N /\ i + 1 \in 0..N /\ (i + 1) - 1 = i
      BY <1>1, <2>2
    <3>2. parts[i + 1] \in U
      BY <3>1, ElementOfSeq
    <3>3. g[i] \in Seq(U)
      BY <2>2
    <3>4. Append(g[i], parts[i + 1]) \in Seq(U)
      BY <3>2, <3>3, AppendProperties
    <3>5. SubSeq(g[i], 1, Len(g[i]) - 1) \in Seq(U)
      BY <1>0, <3>3
    <3>6. QED
      BY <1>8, <3>1, <3>4, <3>5
  <2>3. T = 0..N
    <3>. HIDE DEF N
    <3>1. T \in SUBSET (0..N)
      OBVIOUS
    <3>. HIDE DEF T
    <3>2. QED
      BY <1>1, <2>1, <2>2, <3>1, InductionUpTo
  <2>4. g = [i \in 0..N |-> g[i]]
    BY <1>6
  <2>5. QED
    BY <2>3, <2>4
<1>10. QED
  BY <1>7, <1>8, <1>9

(* A step of the walk is one up or one down. *)
LEMMA ClimbStep ==
  ASSUME NEW U, NEW parts \in Seq(U)
  PROVE  /\ Climb(parts, 0) = 0
         /\ \A n \in Nat : Climb(parts, n) \in Int
         /\ \A n \in Nat : Climb(parts, n + 1) =
              IF parts[n + 1] # ".." THEN Climb(parts, n) + 1 ELSE Climb(parts, n) - 1
<1>. DEFINE Up(n) == {i \in 1..n : parts[i] # ".."}
     Down(n) == {i \in 1..n : parts[i] = ".."}
<1>1. ASSUME NEW n \in Nat
      PROVE  /\ IsFiniteSet(Up(n)) /\ IsFiniteSet(Down(n))
             /\ Cardinality(Up(n)) \in Nat /\ Cardinality(Down(n)) \in Nat
  <2>1. IsFiniteSet(1..n)
    BY FS_Interval
  <2>2. Up(n) \subseteq 1..n /\ Down(n) \subseteq 1..n
    OBVIOUS
  <2>. HIDE DEF Up, Down
  <2>3. QED
    BY <2>1, <2>2, FS_Subset, FS_CardinalityType
<1>2. ASSUME NEW n \in Nat
      PROVE  Climb(parts, n) = Cardinality(Up(n)) - Cardinality(Down(n))
  BY DEF Climb
<1>3. Up(0) = {} /\ Down(0) = {}
  OBVIOUS
<1>4. ASSUME NEW n \in Nat
      PROVE  Climb(parts, n + 1) =
               IF parts[n + 1] # ".." THEN Climb(parts, n) + 1 ELSE Climb(parts, n) - 1
  <2>1. 1..n + 1 = (1..n) \cup {n + 1} /\ n + 1 \notin 1..n /\ n + 1 \in Nat
    OBVIOUS
  <2>2. CASE parts[n + 1] # ".."
    <3>1. Up(n + 1) = Up(n) \cup {n + 1} /\ n + 1 \notin Up(n) /\ Down(n + 1) = Down(n)
      BY <2>1, <2>2
    <3>. HIDE DEF Up, Down
    <3>2. Cardinality(Up(n + 1)) = Cardinality(Up(n)) + 1
      BY <1>1, <3>1, FS_AddElement
    <3>3. QED
      BY <1>1, <1>2, <2>1, <2>2, <3>1, <3>2
  <2>3. CASE parts[n + 1] = ".."
    <3>1. Down(n + 1) = Down(n) \cup {n + 1} /\ n + 1 \notin Down(n) /\ Up(n + 1) = Up(n)
      BY <2>1, <2>3
    <3>. HIDE DEF Up, Down
    <3>2. Cardinality(Down(n + 1)) = Cardinality(Down(n)) + 1
      BY <1>1, <3>1, FS_AddElement
    <3>3. QED
      BY <1>1, <1>2, <2>1, <2>3, <3>1, <3>2
  <2>4. QED
    BY <2>2, <2>3
<1>5. Climb(parts, 0) = 0
  <2>. HIDE DEF Up, Down
  <2>1. Cardinality(Up(0)) = 0 /\ Cardinality(Down(0)) = 0
    BY <1>1, <1>3, FS_EmptySet
  <2>2. QED
    BY <1>2, <2>1
<1>6. \A n \in Nat : Climb(parts, n) \in Int
  <2>. HIDE DEF Up, Down
  <2>1. QED
    BY <1>1, <1>2
<1>7. QED
  BY <1>4, <1>5, <1>6

(* The lowest point so far. *)
LEMMA LowestStep ==
  ASSUME NEW U, NEW parts \in Seq(U), NEW n \in Nat
  PROVE  /\ LowestUpTo(parts, n) \in {Climb(parts, k) : k \in 0..n}
         /\ \A k \in 0..n : LowestUpTo(parts, n) <= Climb(parts, k)
<1>. DEFINE C(k) == Climb(parts, k)
     T == {m \in Nat : \E low \in {C(k) : k \in 0..m} : \A k \in 0..m : low <= C(k)}
<1>1. \A k \in Nat : C(k) \in Int
  BY ClimbStep
<1>. HIDE DEF C
<1>2. 0 \in T
  <2>1. 0..0 = {0} /\ C(0) \in Int
    BY <1>1
  <2>2. C(0) \in {C(k) : k \in 0..0} /\ \A k \in 0..0 : C(0) <= C(k)
    BY <2>1
  <2>3. QED
    BY <2>2
<1>3. ASSUME NEW m \in T PROVE m + 1 \in T
  <2>1. PICK low \in {C(k) : k \in 0..m} : \A k \in 0..m : low <= C(k)
    OBVIOUS
  <2>2. m \in Nat /\ m + 1 \in Nat /\ 0..m + 1 = (0..m) \cup {m + 1}
    OBVIOUS
  <2>3. low \in Int /\ C(m + 1) \in Int /\ \A k \in 0..m : C(k) \in Int
    BY <1>1, <2>2
  <2>4. CASE low <= C(m + 1)
    BY <2>1, <2>2, <2>4
  <2>5. CASE C(m + 1) <= low
    <3>1. \A k \in 0..m + 1 : C(m + 1) <= C(k)
      <4>1. ASSUME NEW k \in 0..m PROVE C(m + 1) <= C(k)
        <5>1. low <= C(k) /\ C(k) \in Int
          BY <2>1, <2>3
        <5>2. QED
          BY <2>3, <2>5, <5>1
      <4>2. C(m + 1) <= C(m + 1)
        BY <2>3
      <4>3. QED
        BY <2>2, <4>1, <4>2
    <3>2. QED
      BY <2>2, <3>1
  <2>6. QED
    BY <2>3, <2>4, <2>5
<1>4. n \in T
  <2>1. T \in SUBSET Nat
    OBVIOUS
  <2>. HIDE DEF T
  <2>2. QED
    BY <1>2, <1>3, <2>1, Induction
<1>5. \E low \in {C(k) : k \in 0..n} : \A k \in 0..n : low <= C(k)
  BY <1>4
<1>6. QED
  BY <1>5 DEF C, LowestUpTo

(* What a component does to the level: ".." takes one off, and nothing at the top. *)
LEMMA LevelStep ==
  ASSUME NEW U, NEW parts \in Seq(U)
  PROVE  /\ Level(parts, 0) = 0
         /\ \A n \in Nat : Level(parts, n) \in Nat
         /\ \A n \in Nat : Level(parts, n + 1) =
              IF parts[n + 1] # ".." THEN Level(parts, n) + 1
              ELSE IF Level(parts, n) = 0 THEN 0 ELSE Level(parts, n) - 1
<1>. DEFINE C(k) == Climb(parts, k)
     M(k) == LowestUpTo(parts, k)
<1>1. /\ C(0) = 0 /\ \A n \in Nat : C(n) \in Int
      /\ \A n \in Nat : C(n + 1) = IF parts[n + 1] # ".." THEN C(n) + 1 ELSE C(n) - 1
  BY ClimbStep
<1>2. \A n \in Nat : M(n) \in {C(k) : k \in 0..n} /\ \A k \in 0..n : M(n) <= C(k)
  BY LowestStep
<1>3. \A n \in Nat : Level(parts, n) = C(n) - M(n)
  BY DEF Level
<1>. HIDE DEF C, M
<1>4. ASSUME NEW n \in Nat PROVE M(n) \in Int /\ M(n) <= C(n)
  <2>1. PICK k \in 0..n : M(n) = C(k)
    BY <1>2
  <2>2. C(k) \in Int /\ n \in 0..n
    BY <1>1
  <2>3. QED
    BY <1>2, <2>1, <2>2
<1>5. ASSUME NEW n \in Nat
      PROVE  Level(parts, n + 1) =
               IF parts[n + 1] # ".." THEN Level(parts, n) + 1
               ELSE IF Level(parts, n) = 0 THEN 0 ELSE Level(parts, n) - 1
  <2>1. n + 1 \in Nat /\ 0..n + 1 = (0..n) \cup {n + 1} /\ n \in 0..n
    OBVIOUS
  <2>2. /\ M(n) \in Int /\ M(n + 1) \in Int /\ C(n) \in Int /\ C(n + 1) \in Int
        /\ M(n) <= C(n) /\ M(n + 1) <= C(n + 1)
    BY <1>1, <1>4, <2>1
  <2>3. M(n + 1) <= M(n)
    BY <1>2, <2>1
  <2>4. M(n + 1) = C(n + 1) \/ M(n) <= M(n + 1)
    BY <1>2, <2>1
  <2>5. CASE parts[n + 1] # ".."
    <3>1. C(n + 1) = C(n) + 1
      BY <1>1, <2>5
    <3>2. M(n + 1) = M(n)
      BY <2>2, <2>3, <2>4, <3>1
    <3>3. QED
      BY <1>3, <2>1, <2>2, <2>5, <3>1, <3>2
  <2>6. CASE parts[n + 1] = ".."
    <3>1. C(n + 1) = C(n) - 1
      BY <1>1, <2>6
    <3>2. CASE C(n) = M(n)
      <4>1. M(n + 1) = C(n + 1)
        BY <2>2, <2>4, <3>1, <3>2
      <4>2. QED
        BY <1>3, <2>1, <2>2, <2>6, <3>2, <4>1
    <3>3. CASE C(n) # M(n)
      <4>1. M(n + 1) = M(n)
        BY <2>2, <2>3, <2>4, <3>1, <3>3
      <4>2. QED
        BY <1>3, <2>1, <2>2, <2>6, <3>1, <3>3, <4>1
    <3>4. QED
      BY <3>2, <3>3
  <2>7. QED
    BY <2>5, <2>6
<1>6. Level(parts, 0) = 0
  <2>1. 0..0 = {0} /\ 0 \in Nat
    OBVIOUS
  <2>2. M(0) = C(0)
    BY <1>2, <2>1
  <2>3. QED
    BY <1>1, <1>3, <2>1, <2>2
<1>7. QED
  <2>1. ASSUME NEW n \in Nat PROVE Level(parts, n) \in Nat
    <3>1. C(n) \in Int /\ M(n) \in Int /\ M(n) <= C(n)
      BY <1>1, <1>4
    <3>2. Level(parts, n) = C(n) - M(n)
      BY <1>3
    <3>3. QED
      BY <3>1, <3>2
  <2>2. QED
    BY <1>5, <1>6, <2>1

(* What is on the way: every level up to the last has one component. *)
LEMMA OnTheWayProperties ==
  ASSUME NEW U, NEW parts \in Seq(U)
  PROVE  /\ OnTheWay(parts) \subseteq 1..Len(parts)
         /\ \A i \in OnTheWay(parts) : Level(parts, i) \in 1..Level(parts, Len(parts))
         /\ \A i, j \in OnTheWay(parts) : Level(parts, i) = Level(parts, j) => i = j
<1>. DEFINE N == Len(parts)
     L(n) == Level(parts, n)
<1>1. N \in Nat /\ DOMAIN parts = 1..N
  BY LenProperties
<1>2. /\ \A n \in Nat : L(n) \in Nat
      /\ \A n \in Nat : parts[n + 1] # ".." => L(n + 1) = L(n) + 1
  BY LevelStep
<1>3. \A i \in OnTheWay(parts) :
        i \in 1..N /\ parts[i] # ".." /\ \A j \in i..N : L(j) >= L(i)
  BY <1>1 DEF OnTheWay
<1>. HIDE DEF L, N
<1>4. ASSUME NEW i \in OnTheWay(parts) PROVE i - 1 \in Nat /\ L(i) = L(i - 1) + 1
  <2>1. i - 1 \in Nat /\ (i - 1) + 1 = i
    BY <1>1, <1>3
  <2>2. QED
    BY <1>2, <1>3, <2>1
<1>5. ASSUME NEW i \in OnTheWay(parts) PROVE L(i) \in 1..L(N)
  <2>1. N \in i..N /\ L(N) \in Nat /\ L(i - 1) \in Nat
    BY <1>1, <1>2, <1>3, <1>4
  <2>2. QED
    BY <1>3, <1>4, <2>1
<1>6. ASSUME NEW i \in OnTheWay(parts), NEW j \in OnTheWay(parts), i < j
      PROVE  L(i) # L(j)
  <2>1. j - 1 \in i..N
    BY <1>1, <1>3, <1>6
  <2>2. L(j - 1) >= L(i) /\ L(j) = L(j - 1) + 1
    BY <1>3, <1>4, <2>1
  <2>3. L(j - 1) \in Nat /\ L(i) \in Nat
    BY <1>1, <1>2, <1>3, <1>4
  <2>4. QED
    BY <2>2, <2>3
<1>7. ASSUME NEW i \in OnTheWay(parts), NEW j \in OnTheWay(parts), L(i) = L(j)
      PROVE  i = j
  <2>1. i \in Nat /\ j \in Nat
    BY <1>1, <1>3
  <2>2. QED
    BY <1>6, <1>7, <2>1
<1>8. QED
  BY <1>3, <1>5, <1>7 DEF L, N

(* The stack of components holds what is on the way, level by level. *)
LEMMA NormalIsOnTheWay ==
  ASSUME NEW U, NEW parts \in Seq(U)
  PROVE  /\ Normal(parts) \in Seq(U) /\ Len(Normal(parts)) = Level(parts, Len(parts))
         /\ \A d \in 1..Len(Normal(parts)) :
              \E i \in OnTheWay(parts) : Level(parts, i) = d /\ Normal(parts)[d] = parts[i]
<1>. DEFINE N == Len(parts)
     L(n) == Level(parts, n)
     Up(n) == {i \in 1..n : parts[i] # ".." /\ \A j \in i..n : L(j) >= L(i)}
<1>1. N \in Nat /\ DOMAIN parts = 1..N
  BY LenProperties
<1>2. /\ L(0) = 0
      /\ \A n \in Nat : L(n) \in Nat
      /\ \A n \in Nat : L(n + 1) = IF parts[n + 1] # ".." THEN L(n) + 1
                                   ELSE IF L(n) = 0 THEN 0 ELSE L(n) - 1
  BY LevelStep
<1>3. PICK upTo \in [0..N -> Seq(U)] :
        /\ upTo[0] = <<>>
        /\ \A i \in 1..N : upTo[i] = IF parts[i] # ".." THEN Append(upTo[i - 1], parts[i])
                                     ELSE SubSeq(upTo[i - 1], 1, Len(upTo[i - 1]) - 1)
        /\ Normal(parts) = upTo[N]
  BY NormalDef
<1>. DEFINE Good(n) == /\ Len(upTo[n]) = L(n)
                       /\ \A d \in 1..L(n) : \E i \in Up(n) : L(i) = d /\ upTo[n][d] = parts[i]
     T == {n \in 0..N : Good(n)}
<1>. HIDE DEF L
<1>4. 0 \in T
  <2>1. Len(upTo[0]) = 0 /\ 1..0 = {} /\ 0 \in 0..N
    BY <1>1, <1>3, EmptySeq
  <2>2. Good(0)
    BY <1>2, <2>1
  <2>3. QED
    BY <2>1, <2>2
<1>5. ASSUME NEW n \in 0..N, n \in T, n < N PROVE n + 1 \in T
  <2>. DEFINE s == upTo[n]
       t == upTo[n + 1]
       x == parts[n + 1]
  <2>1. /\ n \in Nat /\ n + 1 \in Nat /\ n + 1 \in 1..N /\ n + 1 \in 0..N /\ (n + 1) - 1 = n
        /\ 1..n + 1 = (1..n) \cup {n + 1}
        /\ \A i \in 1..n : (\A j \in i..n + 1 : j \in i..n \/ j = n + 1) /\ n \in i..n
    <3>1. n \in Nat /\ n + 1 \in 1..N
      BY <1>1, <1>5
    <3>2. /\ n + 1 \in Nat /\ n + 1 \in 0..N /\ (n + 1) - 1 = n
          /\ 1..n + 1 = (1..n) \cup {n + 1}
      BY <3>1
    <3>3. \A i \in 1..n : (\A j \in i..n + 1 : j \in i..n \/ j = n + 1) /\ n \in i..n
      BY <3>1
    <3>4. QED
      BY <3>1, <3>2, <3>3
  <2>2. s \in Seq(U) /\ x \in U /\ Good(n)
    BY <1>3, <1>5, <2>1, ElementOfSeq
  <2>3. L(n) \in Nat /\ L(n + 1) \in Nat /\ \A i \in 1..n : L(i) \in Nat
    <3>1. \A i \in 1..n : i \in Nat
      BY <2>1
    <3>2. QED
      BY <1>2, <2>1, <3>1
  <2>4. Len(s) = L(n) /\ \A d \in 1..L(n) : \E i \in Up(n) : L(i) = d /\ s[d] = parts[i]
    BY <2>2
  <2>5. ASSUME NEW i \in Up(n), L(i) <= L(n + 1) PROVE i \in Up(n + 1)
    <3>1. i \in 1..n /\ i \in 1..n + 1 /\ parts[i] # ".."
      BY <2>1
    <3>2. \A j \in i..n + 1 : L(j) >= L(i)
      BY <2>1, <2>3, <2>5, <3>1
    <3>3. QED
      BY <3>1, <3>2
  <2>6. CASE x # ".."
    <3>1. L(n + 1) = L(n) + 1 /\ t = Append(s, x)
      BY <1>2, <1>3, <2>1, <2>6
    <3>2. Len(t) = Len(s) + 1 /\ t[Len(s) + 1] = x /\ \A d \in 1..Len(s) : t[d] = s[d]
      BY <2>2, <3>1, AppendProperties
    <3>3. n + 1 \in Up(n + 1)
      <4>1. \A j \in n + 1..n + 1 : j = n + 1
        BY <2>1
      <4>2. QED
        BY <2>1, <2>3, <2>6, <4>1
    <3>4. ASSUME NEW d \in 1..L(n + 1)
          PROVE  \E i \in Up(n + 1) : L(i) = d /\ t[d] = parts[i]
      <4>1. d \in 1..L(n) \/ d = L(n) + 1
        BY <2>3, <3>1
      <4>2. CASE d = L(n) + 1
        BY <2>4, <3>1, <3>2, <3>3, <4>2
      <4>3. CASE d \in 1..L(n)
        <5>1. PICK i \in Up(n) : L(i) = d /\ s[d] = parts[i]
          BY <2>4, <4>3
        <5>2. L(i) <= L(n + 1)
          BY <2>3, <3>1, <4>3, <5>1
        <5>3. i \in Up(n + 1)
          BY <2>5, <5>2
        <5>4. t[d] = s[d]
          BY <2>4, <3>2, <4>3
        <5>. HIDE DEF Up, s, t
        <5>5. QED
          BY <5>1, <5>3, <5>4
      <4>4. QED
        BY <4>1, <4>2, <4>3
    <3>5. Len(t) = L(n + 1)
      BY <2>4, <3>1, <3>2
    <3>6. QED
      BY <2>1, <3>4, <3>5
  <2>7. CASE x = ".."
    <3>1. t = SubSeq(s, 1, Len(s) - 1) /\ L(n + 1) = IF L(n) = 0 THEN 0 ELSE L(n) - 1
      BY <1>2, <1>3, <2>1, <2>7
    <3>2. Len(t) = L(n + 1) /\ \A d \in 1..L(n + 1) : t[d] = s[d]
      <4>1. /\ Len(t) = IF Len(s) = 0 THEN 0 ELSE Len(s) - 1
            /\ \A d \in 1..Len(s) - 1 : t[d] = s[d]
        BY <2>2, <3>1, DropLast
      <4>2. \A d \in 1..L(n + 1) : d \in 1..L(n) - 1
        BY <2>3, <3>1
      <4>. HIDE DEF s, t
      <4>3. QED
        BY <2>4, <3>1, <4>1, <4>2
    <3>3. ASSUME NEW d \in 1..L(n + 1)
          PROVE  \E i \in Up(n + 1) : L(i) = d /\ t[d] = parts[i]
      <4>1. d \in 1..L(n)
        BY <2>3, <3>1
      <4>2. PICK i \in Up(n) : L(i) = d /\ s[d] = parts[i]
        BY <2>4, <4>1
      <4>3. i \in Up(n + 1)
        BY <2>5, <4>2
      <4>. HIDE DEF Up, s, t
      <4>4. QED
        BY <3>2, <4>2, <4>3
    <3>4. QED
      BY <2>1, <3>2, <3>3
  <2>8. QED
    BY <2>6, <2>7
<1>6. N \in T
  <2>1. T \in SUBSET (0..N) /\ N \in 0..N
    BY <1>1
  <2>. HIDE DEF T, N
  <2>2. QED
    BY <1>1, <1>4, <1>5, <2>1, InductionUpTo
<1>7. Good(N) /\ upTo[N] \in Seq(U) /\ Up(N) = OnTheWay(parts)
  BY <1>1, <1>3, <1>6 DEF OnTheWay, L
<1>8. QED
  BY <1>3, <1>7 DEF L

(* A stack of components resolves a path as the reference does. *)
THEOREM NormalIsPlace ==
  ASSUME NEW U, NEW parts \in Seq(U)
  PROVE  Normal(parts) = Place(parts)
<1>. DEFINE W == OnTheWay(parts)
     L(n) == Level(parts, n)
     D == Len(Normal(parts))
<1>1. /\ W \subseteq 1..Len(parts)
      /\ \A i \in W : L(i) \in 1..D
      /\ \A i, j \in W : L(i) = L(j) => i = j
  BY OnTheWayProperties, NormalIsOnTheWay
<1>2. /\ Normal(parts) \in Seq(U)
      /\ \A d \in 1..D : \E i \in W : L(i) = d /\ Normal(parts)[d] = parts[i]
  BY NormalIsOnTheWay
<1>3. D \in Nat /\ Normal(parts) = [d \in 1..D |-> Normal(parts)[d]]
  BY <1>2, LenProperties
<1>. HIDE DEF W, L, D
<1>4. Cardinality(W) = D
  <2>. DEFINE f == [i \in W |-> L(i)]
  <2>1. f \in [W -> 1..D] /\ \A i \in W : f[i] = L(i)
    BY <1>1
  <2>. HIDE DEF f
  <2>2. f \in Bijection(W, 1..D)
    BY <1>1, <1>2, <2>1 DEF Bijection, Injection, Surjection, IsInjective
  <2>4. ExistsBijection(W, 1..D)
    BY <2>2 DEF ExistsBijection
  <2>5. Cardinality(1..D) = D /\ IsFiniteSet(1..Len(parts))
    <3>1. D \in Nat /\ Len(parts) \in Nat
      BY <1>3, LenProperties
    <3>2. QED
      BY <3>1, FS_Interval
  <2>6. IsFiniteSet(W)
    BY <1>1, <2>5, FS_Subset
  <2>7. QED
    BY <2>4, <2>5, <2>6, FS_Bijection
<1>5. ASSUME NEW d \in 1..D
      PROVE  Normal(parts)[d] = parts[CHOOSE i \in W : L(i) = d]
  BY <1>1, <1>2
<1>6. Place(parts) = [d \in 1..D |-> parts[CHOOSE i \in W : L(i) = d]]
  BY <1>4 DEF Place, W, L
<1>7. QED
  BY <1>3, <1>5, <1>6

(* Resolved, a path has the last name it had, unless that is "..". *)
LEMMA NormalLast ==
  ASSUME NEW U, NEW parts \in Seq(U), parts # <<>>, parts[Len(parts)] # ".."
  PROVE  /\ Normal(parts) # <<>>
         /\ Normal(parts)[Len(Normal(parts))] = parts[Len(parts)]
<1>. DEFINE N == Len(parts)
<1>1. N \in Nat /\ N \in 1..N /\ N - 1 \in 0..N /\ N \in 0..N
  BY LenProperties, EmptySeq
<1>2. PICK upTo \in [0..N -> Seq(U)] :
        /\ \A i \in 1..N : upTo[i] = IF parts[i] # ".." THEN Append(upTo[i - 1], parts[i])
                                     ELSE SubSeq(upTo[i - 1], 1, Len(upTo[i - 1]) - 1)
        /\ Normal(parts) = upTo[N]
  BY NormalDef
<1>3. parts[N] \in U
  BY <1>1, ElementOfSeq
<1>4. upTo[N] = Append(upTo[N - 1], parts[N])
  BY <1>1, <1>2
<1>5. upTo[N - 1] \in Seq(U) /\ upTo[N] \in Seq(U)
  BY <1>1, <1>2
<1>6. /\ Len(upTo[N]) = Len(upTo[N - 1]) + 1 /\ upTo[N][Len(upTo[N - 1]) + 1] = parts[N]
      /\ Len(upTo[N - 1]) \in Nat
  BY <1>3, <1>4, <1>5, AppendProperties, LenProperties
<1>7. upTo[N] # <<>>
  BY <1>5, <1>6, EmptySeq
<1>8. QED
  BY <1>2, <1>6, <1>7

-----------------------------------------------------------------------------
(* Paths, component by component.                                          *)

\* upTo is the walk that Normal takes, with how far down it is at every component.
NormalBy(upTo, parts, U) ==
  /\ upTo \in [0..Len(parts) -> Seq(U)]
  /\ upTo[0] = <<>>
  /\ \A i \in 1..Len(parts) :
       upTo[i] = IF parts[i] # ".." THEN Append(upTo[i - 1], parts[i])
                 ELSE SubSeq(upTo[i - 1], 1, Len(upTo[i - 1]) - 1)
  /\ Normal(parts) = upTo[Len(parts)]
  /\ \A i \in 0..Len(parts) : Len(upTo[i]) = Level(parts, i)

(* There is such a walk. *)
LEMMA NormalWalk ==
  ASSUME NEW U, NEW parts \in Seq(U)
  PROVE  \E upTo : NormalBy(upTo, parts, U)
<1>. DEFINE M == Len(parts)
     L(n) == Level(parts, n)
<1>1. M \in Nat
  BY LenProperties
<1>2. PICK upTo \in [0..M -> Seq(U)] :
        /\ upTo[0] = <<>>
        /\ \A i \in 1..M :
             upTo[i] = IF parts[i] # ".." THEN Append(upTo[i - 1], parts[i])
                       ELSE SubSeq(upTo[i - 1], 1, Len(upTo[i - 1]) - 1)
        /\ Normal(parts) = upTo[M]
  BY NormalDef
<1>3. /\ L(0) = 0 /\ \A n \in Nat : L(n) \in Nat
      /\ \A n \in Nat : L(n + 1) =
           IF parts[n + 1] # ".." THEN L(n) + 1 ELSE IF L(n) = 0 THEN 0 ELSE L(n) - 1
  BY LevelStep
<1>4. \A i \in 1..M : parts[i] \in U
  BY <1>1, ElementOfSeq
<1>. DEFINE T == {n \in 0..M : Len(upTo[n]) = L(n)}
<1>. HIDE DEF L, M
<1>5. 0 \in T
  BY <1>1, <1>2, <1>3
<1>6. ASSUME NEW n \in 0..M, n \in T, n < M PROVE n + 1 \in T
  <2>1. n \in Nat /\ n + 1 \in 1..M /\ n + 1 \in 0..M /\ (n + 1) - 1 = n
    BY <1>1, <1>6
  <2>2. upTo[n] \in Seq(U) /\ parts[n + 1] \in U /\ Len(upTo[n]) = L(n)
    BY <1>2, <1>4, <1>6, <2>1
  <2>3. CASE parts[n + 1] # ".."
    <3>1. upTo[n + 1] = Append(upTo[n], parts[n + 1])
      BY <1>2, <2>1, <2>3
    <3>2. Len(upTo[n + 1]) = Len(upTo[n]) + 1
      BY <2>2, <3>1, AppendProperties
    <3>3. QED
      BY <1>3, <2>1, <2>2, <2>3, <3>2
  <2>4. CASE parts[n + 1] = ".."
    <3>1. upTo[n + 1] = SubSeq(upTo[n], 1, Len(upTo[n]) - 1)
      BY <1>2, <2>1, <2>4
    <3>2. Len(upTo[n + 1]) = IF Len(upTo[n]) = 0 THEN 0 ELSE Len(upTo[n]) - 1
      BY <2>2, <3>1, DropLast
    <3>3. QED
      BY <1>3, <2>1, <2>2, <2>4, <3>2
  <2>5. QED
    BY <2>3, <2>4
<1>7. T = 0..M
  <2>. HIDE DEF T
  <2>1. T \in SUBSET (0..M)
    BY DEF T
  <2>2. QED
    BY <1>1, <1>5, <1>6, <2>1, InductionUpTo
<1>8. \A i \in 0..M : Len(upTo[i]) = L(i)
  BY <1>7
<1>9. NormalBy(upTo, parts, U)
  BY <1>2, <1>8 DEF L, M, NormalBy
<1>10. QED
  BY <1>9, Zenon

\* The walk takes a step for every component of f.
Steps(walk, f) ==
  \A i \in 1..Len(f) :
    walk[i] = IF f[i] # ".." THEN Append(walk[i - 1], f[i])
              ELSE SubSeq(walk[i - 1], 1, Len(walk[i - 1]) - 1)

(* The walk over what follows starts from where what comes first leads. *)
LEMMA NormalFrom ==
  ASSUME NEW U, NEW a \in Seq(U), NEW f \in Seq(U)
  PROVE  \E walk \in [0..Len(f) -> Seq(U)] :
           /\ walk[0] = Normal(a) /\ Steps(walk, f) /\ walk[Len(f)] = Normal(a \o f)
           /\ \A i \in 0..Len(f) : Len(walk[i]) = Level(a \o f, Len(a) + i)
<1>. DEFINE c == a \o f
     K == Len(a)
     M == Len(f)
<1>1. /\ K \in Nat /\ M \in Nat /\ c \in Seq(U) /\ Len(c) = K + M
      /\ \A i \in 1..K + M : c[i] = IF i <= K THEN a[i] ELSE f[i - K]
  BY ConcatProperties, LenProperties
<1>. DEFINE Z(i) == Level(c, i)
<1>0. PICK up : NormalBy(up, c, U)
  BY <1>1, NormalWalk, Zenon
<1>2. /\ up \in [0..K + M -> Seq(U)] /\ up[0] = <<>>
      /\ \A i \in 1..K + M : up[i] = IF c[i] # ".." THEN Append(up[i - 1], c[i])
                                    ELSE SubSeq(up[i - 1], 1, Len(up[i - 1]) - 1)
      /\ Normal(c) = up[K + M]
      /\ \A i \in 0..K + M : Len(up[i]) = Z(i)
  <2>1. Len(c) = K + M
    BY <1>1
  <2>. HIDE DEF c, K, M
  <2>2. QED
    BY <1>0, <2>1 DEF NormalBy
<1>3. PICK ua \in [0..K -> Seq(U)] :
        /\ ua[0] = <<>>
        /\ \A i \in 1..K : ua[i] = IF a[i] # ".." THEN Append(ua[i - 1], a[i])
                                  ELSE SubSeq(ua[i - 1], 1, Len(ua[i - 1]) - 1)
        /\ Normal(a) = ua[K]
  BY NormalDef
<1>. DEFINE T == {n \in 0..K : up[n] = ua[n]}
<1>. HIDE DEF c, K, M, Z
<1>4. 0 \in T
  BY <1>1, <1>2, <1>3
<1>5. ASSUME NEW n \in 0..K, n \in T, n < K PROVE n + 1 \in T
  <2>1. n + 1 \in 1..K /\ n + 1 \in 1..K + M /\ n + 1 \in 0..K /\ (n + 1) - 1 = n /\ n + 1 <= K
    BY <1>1, <1>5
  <2>2. c[n + 1] = a[n + 1] /\ up[n] = ua[n]
    BY <1>1, <1>5, <2>1
  <2>3. /\ up[n + 1] = IF c[n + 1] # ".." THEN Append(up[n], c[n + 1])
                       ELSE SubSeq(up[n], 1, Len(up[n]) - 1)
        /\ ua[n + 1] = IF a[n + 1] # ".." THEN Append(ua[n], a[n + 1])
                       ELSE SubSeq(ua[n], 1, Len(ua[n]) - 1)
    BY <1>2, <1>3, <2>1
  <2>4. up[n + 1] = ua[n + 1]
    BY <2>2, <2>3
  <2>5. QED
    BY <2>1, <2>4
<1>6. T = 0..K
  <2>. HIDE DEF T
  <2>1. T \in SUBSET (0..K)
    BY DEF T
  <2>2. QED
    BY <1>1, <1>4, <1>5, <2>1, InductionUpTo
<1>7. up[K] = Normal(a)
  <2>1. K \in T
    <3>. HIDE DEF T
    <3>1. QED
      BY <1>1, <1>6
  <2>2. QED
    BY <1>3, <2>1
<1>. DEFINE walk == [i \in 0..M |-> up[K + i]]
<1>8. walk \in [0..M -> Seq(U)] /\ \A i \in 0..M : walk[i] = up[K + i]
  BY <1>1, <1>2
<1>. HIDE DEF walk
<1>9. walk[0] = Normal(a) /\ walk[M] = Normal(c)
  BY <1>1, <1>2, <1>7, <1>8
<1>10. ASSUME NEW i \in 1..M
       PROVE  walk[i] = IF f[i] # ".." THEN Append(walk[i - 1], f[i])
                        ELSE SubSeq(walk[i - 1], 1, Len(walk[i - 1]) - 1)
  <2>1. /\ K + i \in 1..K + M /\ (K + i) - 1 = K + (i - 1) /\ i \in 0..M /\ i - 1 \in 0..M
        /\ ~(K + i <= K) /\ (K + i) - K = i
    BY <1>1
  <2>2. c[K + i] = f[i]
    BY <1>1, <2>1
  <2>3. walk[i] = up[K + i] /\ walk[i - 1] = up[(K + i) - 1]
    BY <1>8, <2>1
  <2>4. up[K + i] = IF c[K + i] # ".." THEN Append(up[(K + i) - 1], c[K + i])
                    ELSE SubSeq(up[(K + i) - 1], 1, Len(up[(K + i) - 1]) - 1)
    BY <1>2, <2>1
  <2>5. QED
    BY <2>2, <2>3, <2>4
<1>11. ASSUME NEW i \in 0..M PROVE Len(walk[i]) = Z(K + i)
  <2>1. K + i \in 0..K + M
    BY <1>1
  <2>2. QED
    BY <1>2, <1>8, <2>1
<1>12. Steps(walk, f)
  BY <1>10 DEF Steps, M
<1>13. QED
  BY <1>8, <1>9, <1>11, <1>12 DEF c, K, M, Z

(* Nothing is left to resolve. *)
LEMMA NormalPlain ==
  ASSUME NEW U, NEW parts \in Seq(U)
  PROVE  /\ Normal(parts) \in Seq(U \ {".."})
         /\ (\A i \in 1..Len(parts) : parts[i] # "..") => Normal(parts) = parts
<1>. DEFINE M == Len(parts)
<1>1. M \in Nat /\ \A i \in 1..M : parts[i] \in U
  BY LenProperties, ElementOfSeq
<1>2. PICK up \in [0..M -> Seq(U)] :
        /\ up[0] = <<>>
        /\ \A i \in 1..M : up[i] = IF parts[i] # ".." THEN Append(up[i - 1], parts[i])
                                  ELSE SubSeq(up[i - 1], 1, Len(up[i - 1]) - 1)
        /\ Normal(parts) = up[M]
  BY NormalDef
<1>. DEFINE V == U \ {".."}
     T == {n \in 0..M : up[n] \in Seq(V)}
<1>. HIDE DEF M
<1>3. 0 \in T
  <2>1. <<>> \in Seq(V)
    OBVIOUS
  <2>2. QED
    BY <1>1, <1>2, <2>1
<1>4. ASSUME NEW n \in 0..M, n \in T, n < M PROVE n + 1 \in T
  <2>1. n + 1 \in 1..M /\ n + 1 \in 0..M /\ (n + 1) - 1 = n
    BY <1>1, <1>4
  <2>2. up[n] \in Seq(V) /\ parts[n + 1] \in U
    BY <1>1, <1>4, <2>1
  <2>3. up[n + 1] = IF parts[n + 1] # ".." THEN Append(up[n], parts[n + 1])
                    ELSE SubSeq(up[n], 1, Len(up[n]) - 1)
    BY <1>2, <2>1
  <2>. HIDE DEF V
  <2>4. CASE parts[n + 1] # ".."
    <3>1. parts[n + 1] \in V
      BY <2>2, <2>4 DEF V
    <3>2. Append(up[n], parts[n + 1]) \in Seq(V)
      BY <2>2, <3>1, AppendProperties
    <3>3. QED
      BY <2>1, <2>3, <2>4, <3>2
  <2>5. CASE parts[n + 1] = ".."
    <3>1. SubSeq(up[n], 1, Len(up[n]) - 1) \in Seq(V)
      BY <2>2, DropLast
    <3>2. QED
      BY <2>1, <2>3, <2>5, <3>1
  <2>6. QED
    BY <2>4, <2>5
<1>5. T = 0..M
  <2>. HIDE DEF T
  <2>1. T \in SUBSET (0..M)
    BY DEF T
  <2>2. QED
    BY <1>1, <1>3, <1>4, <2>1, InductionUpTo
<1>6. Normal(parts) \in Seq(V)
  <2>1. M \in 0..M
    BY <1>1
  <2>2. QED
    BY <1>2, <1>5, <2>1
<1>7. ASSUME \A i \in 1..M : parts[i] # ".." PROVE Normal(parts) = parts
  <2>. DEFINE S == {n \in 0..M : Len(up[n]) = n /\ \A i \in 1..n : up[n][i] = parts[i]}
  <2>1. 0 \in S
    BY <1>1, <1>2
  <2>2. ASSUME NEW n \in 0..M, n \in S, n < M PROVE n + 1 \in S
    <3>1. n \in Nat /\ n + 1 \in 1..M /\ n + 1 \in 0..M /\ (n + 1) - 1 = n
      BY <1>1, <2>2
    <3>2. up[n] \in Seq(U) /\ parts[n + 1] \in U /\ Len(up[n]) = n
      BY <1>1, <1>2, <2>2, <3>1
    <3>3. up[n + 1] = Append(up[n], parts[n + 1])
      BY <1>2, <1>7, <3>1
    <3>4. /\ Len(up[n + 1]) = n + 1 /\ up[n + 1][n + 1] = parts[n + 1]
          /\ \A i \in 1..n : up[n + 1][i] = up[n][i]
      BY <3>2, <3>3, AppendProperties
    <3>5. \A i \in 1..n + 1 : i \in 1..n \/ i = n + 1
      BY <3>1
    <3>6. \A i \in 1..n + 1 : up[n + 1][i] = parts[i]
      BY <2>2, <3>4, <3>5
    <3>7. QED
      BY <3>1, <3>4, <3>6
  <2>3. S = 0..M
    <3>. HIDE DEF S
    <3>1. S \in SUBSET (0..M)
      BY DEF S
    <3>2. QED
      BY <1>1, <2>1, <2>2, <3>1, InductionUpTo
  <2>4. M \in S
    <3>. HIDE DEF S
    <3>1. QED
      BY <1>1, <2>3
  <2>5. Len(up[M]) = Len(parts) /\ up[M] \in Seq(U) /\ \A i \in 1..Len(up[M]) : up[M][i] = parts[i]
    BY <1>1, <1>2, <2>4 DEF M
  <2>6. up[M] = parts
    BY <2>5, SeqEqual
  <2>7. QED
    BY <1>2, <2>6
<1>8. QED
  BY <1>6, <1>7 DEF M
=============================================================================

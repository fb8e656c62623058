-------------------------- MODULE SelectionProofs --------------------------
(***************************************************************************)
(* For every root, every database and every manifest: an entry is kept     *)
(* under the name its source has below the root, in the spelling of the    *)
(* manifest, and left out only for a name the manifest does not have.      *)
(***************************************************************************)
EXTENDS SelectionProperties, ListProofs

-----------------------------------------------------------------------------
(* Sequences.                                                              *)

(* Dropping the last member of two sequences drops that of the second. *)
LEMMA ConcatDrop ==
  ASSUME NEW U, NEW x \in Seq(U), NEW r \in Seq(U), r # <<>>
  PROVE  SubSeq(x \o r, 1, Len(x \o r) - 1) = x \o SubSeq(r, 1, Len(r) - 1)
<1>. DEFINE a == SubSeq(x \o r, 1, Len(x \o r) - 1)
     b == SubSeq(r, 1, Len(r) - 1)
<1>1. /\ x \o r \in Seq(U) /\ Len(x \o r) = Len(x) + Len(r)
      /\ \A i \in 1..Len(x) + Len(r) : (x \o r)[i] = IF i <= Len(x) THEN x[i] ELSE r[i - Len(x)]
  BY ConcatProperties
<1>2. Len(x) \in Nat /\ Len(r) \in Nat /\ Len(r) # 0
  BY LenProperties, EmptySeq
<1>3. /\ a \in Seq(U) /\ Len(a) = Len(x) + Len(r) - 1
      /\ \A i \in 1..Len(x) + Len(r) - 1 : a[i] = (x \o r)[i]
  <2>1. /\ a \in Seq(U) /\ Len(a) = IF Len(x \o r) = 0 THEN 0 ELSE Len(x \o r) - 1
        /\ \A i \in 1..Len(x \o r) - 1 : a[i] = (x \o r)[i]
    BY <1>1, DropLast
  <2>. HIDE DEF a
  <2>2. QED
    BY <1>1, <1>2, <2>1
<1>4. /\ b \in Seq(U) /\ Len(b) = Len(r) - 1 /\ \A i \in 1..Len(r) - 1 : b[i] = r[i]
  BY <1>2, DropLast
<1>. HIDE DEF a, b
<1>5. /\ x \o b \in Seq(U) /\ Len(x \o b) = Len(x) + Len(b)
      /\ \A i \in 1..Len(x) + Len(b) : (x \o b)[i] = IF i <= Len(x) THEN x[i] ELSE b[i - Len(x)]
  BY <1>4, ConcatProperties
<1>6. ASSUME NEW i \in 1..Len(a) PROVE a[i] = (x \o b)[i]
  <2>1. i \in 1..Len(x) + Len(r) /\ i \in 1..Len(x) + Len(b)
    BY <1>2, <1>3, <1>4
  <2>2. CASE i <= Len(x)
    BY <1>1, <1>3, <1>5, <2>1, <2>2
  <2>3. CASE ~(i <= Len(x))
    <3>1. i - Len(x) \in 1..Len(r) - 1
      BY <1>2, <1>3, <2>3
    <3>2. a[i] = r[i - Len(x)] /\ (x \o b)[i] = b[i - Len(x)]
      BY <1>1, <1>3, <1>5, <2>1, <2>3
    <3>3. QED
      BY <1>4, <3>1, <3>2
  <2>4. QED
    BY <2>2, <2>3
<1>7. Len(a) = Len(x \o b)
  BY <1>2, <1>3, <1>4, <1>5
<1>8. a = x \o b
  BY <1>3, <1>5, <1>6, <1>7, SeqEqual
<1>9. QED
  BY <1>8 DEF a, b

(* What comes after the first of two sequences is the second. *)
LEMMA AfterConcat ==
  ASSUME NEW U, NEW x \in Seq(U), NEW r \in Seq(U)
  PROVE  After(x \o r, Len(x)) = r
<1>. DEFINE c == x \o r
     k == Len(x)
     m == Len(r)
     a == SubSeq(c, k + 1, k + m)
<1>1. /\ k \in Nat /\ m \in Nat /\ c \in Seq(U) /\ Len(c) = k + m
      /\ \A i \in 1..k + m : c[i] = IF i <= k THEN x[i] ELSE r[i - k]
  BY ConcatProperties, LenProperties
<1>2. \A i \in 1..k + m : c[i] \in U
  BY <1>1, ElementOfSeq
<1>. HIDE DEF c, k, m
<1>3. \A i \in k + 1..k + m : c[i] \in U
  BY <1>1, <1>2
<1>4. /\ a \in Seq(U) /\ Len(a) = (IF k + 1 <= k + m THEN (k + m) - (k + 1) + 1 ELSE 0)
      /\ \A i \in 1..(k + m) - (k + 1) + 1 : a[i] = c[(k + 1) + i - 1]
  BY <1>1, <1>3, SubSeqProperties
<1>. HIDE DEF a
<1>5. Len(a) = m /\ \A i \in 1..m : a[i] = r[i]
  <2>1. Len(a) = m
    BY <1>1, <1>4
  <2>2. ASSUME NEW i \in 1..m PROVE a[i] = r[i]
    <3>1. /\ i \in 1..(k + m) - (k + 1) + 1 /\ (k + 1) + i - 1 = k + i
          /\ k + i \in 1..k + m /\ ~(k + i <= k) /\ (k + i) - k = i
      BY <1>1
    <3>2. QED
      BY <1>1, <1>4, <3>1
  <2>3. QED
    BY <2>1, <2>2
<1>6. a = r
  BY <1>4, <1>5, SeqEqual DEF m
<1>7. QED
  BY <1>1, <1>6 DEF After, a, c, k

(* A sequence is what it starts with and what comes after. *)
LEMMA SplitAt ==
  ASSUME NEW U, NEW z \in Seq(U), NEW k \in 0..Len(z)
  PROVE  /\ SubSeq(z, 1, k) \in Seq(U) /\ Len(SubSeq(z, 1, k)) = k
         /\ \A i \in 1..k : SubSeq(z, 1, k)[i] = z[i]
         /\ After(z, k) \in Seq(U) /\ Len(After(z, k)) = Len(z) - k
         /\ z = SubSeq(z, 1, k) \o After(z, k)
<1>. DEFINE a == SubSeq(z, 1, k)
     m == Len(z)
     b == SubSeq(z, k + 1, m)
<1>1. m \in Nat /\ k \in Nat /\ k <= m /\ \A i \in 1..m : z[i] \in U
  BY LenProperties, ElementOfSeq
<1>2. SubSeq(z, 1, k) \o SubSeq(z, k + 1, m) = SubSeq(z, 1, m)
  <2>1. 1 \in 1..m + 1 /\ k \in 1 - 1..m /\ m \in k..m
    BY <1>1
  <2>2. QED
    BY <2>1, ConcatAdjacentSubSeq
<1>3. SubSeq(z, 1, m) = z
  BY SubSeqFull
<1>. HIDE DEF m
<1>4. /\ a \in Seq(U) /\ Len(a) = (IF 1 <= k THEN k - 1 + 1 ELSE 0)
      /\ \A i \in 1..k - 1 + 1 : a[i] = z[1 + i - 1]
  <2>1. \A i \in 1..k : z[i] \in U
    BY <1>1
  <2>2. QED
    BY <1>1, <2>1, SubSeqProperties
<1>5. b \in Seq(U) /\ Len(b) = (IF k + 1 <= m THEN m - (k + 1) + 1 ELSE 0)
  <2>1. \A i \in k + 1..m : z[i] \in U
    BY <1>1
  <2>2. QED
    BY <1>1, <2>1, SubSeqProperties
<1>. HIDE DEF a, b
<1>6. Len(a) = k /\ (\A i \in 1..k : a[i] = z[i]) /\ Len(b) = m - k
  BY <1>1, <1>4, <1>5
<1>7. QED
  BY <1>2, <1>3, <1>4, <1>5, <1>6 DEF After, a, b, m

-----------------------------------------------------------------------------
(* Two walks over the same components.                                     *)

\* What comes below x in one sequence comes below y in the other.
Beside(c, d, x, y, U) == \E r \in Seq(U) : c = x \o r /\ d = y \o r

(* Two sequences stay beside each other when a component is added to both. *)
LEMMA AppendBeside ==
  ASSUME NEW U, NEW x \in Seq(U), NEW y \in Seq(U), NEW e \in U,
         NEW c, NEW d, Beside(c, d, x, y, U)
  PROVE  Beside(Append(c, e), Append(d, e), x, y, U)
<1>1. PICK r \in Seq(U) : c = x \o r /\ d = y \o r
  BY DEF Beside
<1>2. x \o r \in Seq(U) /\ y \o r \in Seq(U) /\ <<e>> \in Seq(U)
  BY ConcatProperties
<1>3. Append(c, e) = (x \o r) \o <<e>> /\ Append(d, e) = (y \o r) \o <<e>>
  BY <1>1, <1>2, AppendIsConcat
<1>. DEFINE last == <<e>>
<1>. HIDE DEF last
<1>4. last \in Seq(U) /\ r \in Seq(U)
  BY <1>2 DEF last
<1>5. Associates(x, r, last) /\ Associates(y, r, last)
  BY <1>4, Associate
<1>6. r \o <<e>> \in Seq(U)
  BY <1>2, ConcatProperties
<1>7. QED
  BY <1>3, <1>5, <1>6 DEF Associates, Beside, last

(* So they do when one is taken off both, while what is common to them is left. *)
LEMMA DropBeside ==
  ASSUME NEW U, NEW x \in Seq(U), NEW y \in Seq(U), x # <<>>,
         NEW c, NEW d, Beside(c, d, x, y, U), NEW less, less = SubSeq(c, 1, Len(c) - 1),
         Len(less) >= Len(x)
  PROVE  Beside(less, SubSeq(d, 1, Len(d) - 1), x, y, U)
<1>1. PICK r \in Seq(U) : c = x \o r /\ d = y \o r
  BY DEF Beside
<1>2. Len(x) \in Nat /\ Len(x) # 0
  BY LenProperties, EmptySeq
<1>3. r # <<>>
  <2>1. SUFFICES ASSUME r = <<>> PROVE FALSE
    OBVIOUS
  <2>2. c = x
    BY <1>1, <2>1, ConcatEmptySeq
  <2>3. Len(less) = Len(x) - 1
    BY <1>2, <2>2, DropLast
  <2>4. QED
    BY <1>2, <2>3
<1>4. less = x \o SubSeq(r, 1, Len(r) - 1)
  BY <1>1, <1>3, ConcatDrop
<1>5. SubSeq(d, 1, Len(d) - 1) = y \o SubSeq(r, 1, Len(r) - 1)
  BY <1>1, <1>3, ConcatDrop
<1>6. SubSeq(r, 1, Len(r) - 1) \in Seq(U)
  BY DropLast
<1>7. QED
  BY <1>4, <1>5, <1>6 DEF Beside

(* Two walks that start alike below x and below y stay alike, as long as the
   first never goes above x. *)
LEMMA SameSteps ==
  ASSUME NEW U, NEW f \in Seq(U),
         NEW a \in [0..Len(f) -> Seq(U)], NEW b \in [0..Len(f) -> Seq(U)],
         Steps(a, f), Steps(b, f),
         NEW x \in Seq(U), NEW y \in Seq(U), x # <<>>, Beside(a[0], b[0], x, y, U),
         \A i \in 0..Len(f) : Len(a[i]) >= Len(x)
  PROVE  Beside(a[Len(f)], b[Len(f)], x, y, U)
<1>. DEFINE M == Len(f)
     T == {n \in 0..M : Beside(a[n], b[n], x, y, U)}
<1>1. M \in Nat /\ \A i \in 1..M : f[i] \in U
  BY LenProperties, ElementOfSeq
<1>2. /\ \A i \in 0..M : Len(a[i]) >= Len(x)
      /\ \A i \in 1..M : a[i] = IF f[i] # ".." THEN Append(a[i - 1], f[i])
                                ELSE SubSeq(a[i - 1], 1, Len(a[i - 1]) - 1)
      /\ \A i \in 1..M : b[i] = IF f[i] # ".." THEN Append(b[i - 1], f[i])
                                ELSE SubSeq(b[i - 1], 1, Len(b[i - 1]) - 1)
  BY DEF Steps
<1>. HIDE DEF M
<1>3. 0 \in T
  BY <1>1
<1>4. ASSUME NEW n \in 0..M, n \in T, n < M PROVE n + 1 \in T
  <2>1. n + 1 \in 1..M /\ n + 1 \in 0..M /\ (n + 1) - 1 = n
    BY <1>1, <1>4
  <2>2. Beside(a[n], b[n], x, y, U) /\ f[n + 1] \in U /\ Len(a[n + 1]) >= Len(x)
    BY <1>1, <1>2, <1>4, <2>1
  <2>3. CASE f[n + 1] # ".."
    <3>1. a[n + 1] = Append(a[n], f[n + 1]) /\ b[n + 1] = Append(b[n], f[n + 1])
      BY <1>2, <2>1, <2>3
    <3>2. Beside(a[n + 1], b[n + 1], x, y, U)
      BY <2>2, <3>1, AppendBeside
    <3>3. QED
      BY <2>1, <3>2
  <2>4. CASE f[n + 1] = ".."
    <3>1. /\ a[n + 1] = SubSeq(a[n], 1, Len(a[n]) - 1)
          /\ b[n + 1] = SubSeq(b[n], 1, Len(b[n]) - 1)
      BY <1>2, <2>1, <2>4
    <3>2. Beside(a[n + 1], b[n + 1], x, y, U)
      BY <2>2, <3>1, DropBeside
    <3>3. QED
      BY <2>1, <3>2
  <2>5. QED
    BY <2>3, <2>4
<1>5. T = 0..M
  <2>. HIDE DEF T
  <2>1. T \in SUBSET (0..M)
    BY DEF T
  <2>2. QED
    BY <1>1, <1>3, <1>4, <2>1, InductionUpTo
<1>6. M \in T
  <2>. HIDE DEF T
  <2>1. QED
    BY <1>1, <1>5
<1>7. QED
  BY <1>6 DEF M

(* A walk whose first component in the end is not one of those it went over
   after a ".." never went up to the top. *)
LEMMA NeverAtTheTop ==
  ASSUME NEW U, NEW f \in Seq(U), NEW a \in [0..Len(f) -> Seq(U)], Steps(a, f),
         a[0] # <<>>, a[Len(f)] # <<>>,
         \A i, j \in 1..Len(f) : i < j /\ f[i] = ".." => f[j] # a[Len(f)][1]
  PROVE  \A i \in 0..Len(f) : Len(a[i]) >= 1 /\ a[i][1] = a[Len(f)][1]
<1>. DEFINE M == Len(f)
     e == a[M][1]
     At(i) == a[i] # <<>> /\ a[i][1] = e
     Plain(n) == \A i \in 1..n : f[i] # ".."
     T == {n \in 0..M : /\ At(n) => \A i \in 0..n : At(i)
                        /\ Plain(n) => a[n] # <<>>}
<1>1. /\ M \in Nat /\ \A i \in 1..M : f[i] \in U
      /\ \A i, j \in 1..M : i < j /\ f[i] = ".." => f[j] # e
  BY LenProperties, ElementOfSeq
<1>2. \A i \in 1..M : a[i] = IF f[i] # ".." THEN Append(a[i - 1], f[i])
                             ELSE SubSeq(a[i - 1], 1, Len(a[i - 1]) - 1)
  BY DEF Steps
<1>3. a[0] # <<>> /\ a[M] # <<>> /\ At(M) /\ a \in [0..M -> Seq(U)]
  OBVIOUS
<1>. HIDE DEF M, e
<1>4. 0 \in T
  BY <1>1, <1>3
<1>5. ASSUME NEW n \in 0..M, n \in T, n < M PROVE n + 1 \in T
  <2>1. n + 1 \in 1..M /\ n + 1 \in 0..M /\ (n + 1) - 1 = n
    BY <1>1, <1>5
  <2>2. a[n] \in Seq(U) /\ f[n + 1] \in U /\ Len(a[n]) \in Nat
    BY <1>1, <1>3, <2>1, LenProperties
  <2>3. ASSUME At(n + 1) PROVE At(n)
    <3>1. CASE f[n + 1] # ".."
      <4>1. a[n + 1] = Append(a[n], f[n + 1])
        BY <1>2, <2>1, <3>1
      <4>2. CASE a[n] = <<>>
        <5>1. Len(a[n]) = 0
          BY <4>2
        <5>2. a[n + 1][1] = f[n + 1]
          BY <2>2, <4>1, <5>1, AppendProperties
        <5>3. f[n + 1] = e
          BY <2>3, <5>2
        <5>4. \A i \in 1..n : i \in 1..M /\ i < n + 1
          BY <1>1, <2>1
        <5>5. Plain(n)
          BY <1>1, <2>1, <5>3, <5>4
        <5>6. QED
          BY <1>5, <4>2, <5>5
      <4>3. CASE a[n] # <<>>
        <5>1. 1 \in 1..Len(a[n])
          BY <2>2, <4>3, EmptySeq
        <5>2. a[n + 1][1] = a[n][1]
          BY <2>2, <4>1, <5>1, AppendProperties
        <5>3. QED
          BY <2>3, <4>3, <5>2
      <4>4. QED
        BY <4>2, <4>3
    <3>2. CASE f[n + 1] = ".."
      <4>1. a[n + 1] = SubSeq(a[n], 1, Len(a[n]) - 1)
        BY <1>2, <2>1, <3>2
      <4>2. /\ a[n + 1] \in Seq(U)
            /\ Len(a[n + 1]) = (IF Len(a[n]) = 0 THEN 0 ELSE Len(a[n]) - 1)
            /\ \A d \in 1..Len(a[n]) - 1 : a[n + 1][d] = a[n][d]
        BY <2>2, <4>1, DropLast
      <4>3. Len(a[n + 1]) \in Nat /\ Len(a[n + 1]) # 0
        BY <2>3, <4>2, LenProperties, EmptySeq
      <4>4. 1 \in 1..Len(a[n]) - 1
        <5>. DEFINE p == Len(a[n])
             q == Len(a[n + 1])
        <5>1. p \in Nat /\ q \in Nat /\ q # 0 /\ q = IF p = 0 THEN 0 ELSE p - 1
          BY <2>2, <4>2, <4>3
        <5>. HIDE DEF p, q
        <5>2. 1 \in 1..p - 1
          BY <5>1
        <5>3. QED
          BY <5>2 DEF p
      <4>5. a[n] # <<>>
        BY <4>4
      <4>6. QED
        BY <2>3, <4>2, <4>4, <4>5
    <3>3. QED
      BY <3>1, <3>2
  <2>4. ASSUME Plain(n + 1) PROVE a[n + 1] # <<>>
    <3>1. f[n + 1] # ".."
      BY <1>1, <2>1, <2>4
    <3>2. a[n + 1] = Append(a[n], f[n + 1])
      BY <1>2, <2>1, <3>1
    <3>3. Len(a[n + 1]) = Len(a[n]) + 1
      BY <2>2, <3>2, AppendProperties
    <3>4. QED
      BY <2>2, <3>3
  <2>5. \A i \in 0..n + 1 : i \in 0..n \/ i = n + 1
    BY <2>1
  <2>. HIDE DEF At, Plain
  <2>6. QED
    BY <1>5, <2>1, <2>3, <2>4, <2>5
<1>6. T = 0..M
  <2>. HIDE DEF T
  <2>1. T \in SUBSET (0..M)
    BY DEF T
  <2>2. QED
    BY <1>1, <1>4, <1>5, <2>1, InductionUpTo
<1>7. M \in T
  <2>. HIDE DEF T
  <2>1. QED
    BY <1>1, <1>6
<1>8. ASSUME NEW i \in 0..M PROVE Len(a[i]) >= 1 /\ a[i][1] = e
  <2>1. At(i)
    <3>. HIDE DEF At, Plain
    <3>1. QED
      BY <1>3, <1>7
  <2>2. a[i] \in Seq(U)
    BY <1>3
  <2>3. Len(a[i]) \in Nat /\ Len(a[i]) # 0
    BY <2>1, <2>2, LenProperties, EmptySeq
  <2>4. QED
    BY <2>1, <2>3
<1>9. QED
  BY <1>8 DEF M, e

-----------------------------------------------------------------------------
(* Where a path lies.                                                      *)

(* The root is a path to somewhere below the top. *)
LEMMA RootTyped ==
  ASSUME root \in Roots
  PROVE  /\ root.anchor \in {"posix", "drive"} /\ root.parts \in Seq(Components)
         /\ Place(root.parts) # <<>>
BY SelectionAssumption DEF Located

(* The place a path leads to is its normal form, without "..". *)
LEMMA PlaceTyped ==
  ASSUME NEW parts \in Seq(Components)
  PROVE  /\ Normal(parts) = Place(parts) /\ Place(parts) \in Seq(Components)
         /\ \A i \in 1..Len(Place(parts)) : Place(parts)[i] # ".."
<1>. DEFINE p == Place(parts)
     V == Components \ {".."}
<1>1. Normal(parts) = p /\ p \in Seq(V)
  BY NormalIsPlace, NormalPlain
<1>. HIDE DEF p
<1>2. \A i \in 1..Len(p) : p[i] \in V
  BY <1>1, ElementOfSeq
<1>3. Seq(V) \subseteq Seq(Components)
  BY DEF V
<1>4. QED
  BY <1>1, <1>2, <1>3 DEF p

(* What a path is taken to lie below is a sequence of components. *)
LEMMA TopTyped ==
  ASSUME root \in Roots, NEW path
  PROVE  /\ Top(path) \in Seq(Components) /\ Len(Top(path)) \in Nat \ {0}
         /\ DOMAIN Top(path) = 1..Len(Top(path))
<1>1. <<"workspace">> \in Seq(Components) /\ <<"workspace">> # <<>>
  BY SelectionAssumption DEF Components
<1>2. Top(path) \in Seq(Components) /\ Top(path) # <<>>
  BY <1>1, RootTyped, PlaceTyped DEF Top
<1>3. QED
  BY <1>2, LenProperties, EmptySeq

\* The components of the container below which a path is looked for.
Workspace == <<"workspace">>

(* The workspace is one component. *)
LEMMA WorkspaceTyped ==
  /\ Workspace \in Seq(Components) /\ Len(Workspace) = 1 /\ Workspace # <<>>
  /\ Workspace[1] = "workspace" /\ "workspace" # ".."
BY SelectionAssumption DEF Workspace, Components

(* A path in the workspace is the workspace and what comes after it. *)
LEMMA StartsWithWorkspace ==
  ASSUME NEW p \in Seq(Components)
  PROVE  InWorkspace(p) <=> Len(p) >= 1 /\ p = Workspace \o After(p, 1)
<1>1. ASSUME InWorkspace(p) PROVE Len(p) >= 1 /\ p = Workspace \o After(p, 1)
  <2>1. Len(p) \in Nat /\ Len(p) # 0 /\ p[1] = "workspace"
    BY <1>1, LenProperties, EmptySeq DEF InWorkspace
  <2>2. 1 \in 0..Len(p)
    BY <2>1
  <2>. DEFINE s == SubSeq(p, 1, 1)
  <2>3. s \in Seq(Components) /\ Len(s) = 1 /\ s[1] = p[1] /\ p = s \o After(p, 1)
    BY <2>2, SplitAt
  <2>. HIDE DEF s
  <2>4. s = Workspace
    BY <2>1, <2>3, WorkspaceTyped, SeqEqual
  <2>5. QED
    BY <2>1, <2>3, <2>4
<1>2. ASSUME Len(p) >= 1, p = Workspace \o After(p, 1) PROVE InWorkspace(p)
  <2>1. 1 \in 0..Len(p) /\ Len(p) \in Nat
    BY <1>2, LenProperties
  <2>2. After(p, 1) \in Seq(Components)
    BY <2>1, SplitAt
  <2>3. (Workspace \o After(p, 1))[1] = Workspace[1]
    BY <2>2, WorkspaceTyped, ConcatProperties, LenProperties
  <2>4. p[1] = "workspace" /\ p # <<>>
    BY <1>2, <2>1, <2>3, WorkspaceTyped
  <2>5. QED
    BY <2>4 DEF InWorkspace
<1>3. QED
  BY <1>1, <1>2

(* What is put below the workspace is in it. *)
LEMMA BelowWorkspace ==
  ASSUME NEW r \in Seq(Components)
  PROVE  /\ InWorkspace(Workspace \o r) /\ Len(Workspace \o r) = Len(r) + 1
         /\ After(Workspace \o r, 1) = r
<1>1. Workspace \o r \in Seq(Components) /\ Len(Workspace \o r) = Len(r) + 1
  BY WorkspaceTyped, ConcatProperties, LenProperties
<1>2. After(Workspace \o r, Len(Workspace)) = r
  BY WorkspaceTyped, AfterConcat
<1>3. After(Workspace \o r, 1) = r
  BY <1>2, WorkspaceTyped
<1>4. Len(r) + 1 >= 1
  BY LenProperties
<1>5. QED
  BY <1>1, <1>3, <1>4, StartsWithWorkspace

(* A path is found exactly where it lies: below the root, or below /workspace
   when it is spelled as a path of the container. *)
LEMMA WorkspacePathIs ==
  ASSUME root \in Roots, NEW path \in Located
  PROVE  WorkspacePath(path) =
           IF StartsAt(path, Place(path.parts))
           THEN Path("posix", Workspace \o After(Place(path.parts), Len(Top(path))))
           ELSE NoPath
<1>. DEFINE p == Place(path.parts)
     q == Place(root.parts)
<1>1. path.parts \in Seq(Components) /\ root.parts \in Seq(Components)
  BY RootTyped DEF Located
<1>2. /\ Normal(path.parts) = p /\ p \in Seq(Components)
      /\ Normal(root.parts) = q /\ q \in Seq(Components)
  BY <1>1, PlaceTyped
<1>3. Len(p) \in Nat /\ Len(q) \in Nat /\ DOMAIN q = 1..Len(q)
  BY <1>2, LenProperties
<1>4. Top(path) = IF InContainer(path) THEN Workspace ELSE q
  BY DEF Top, Workspace
<1>. HIDE DEF p, q
<1>5. CASE InContainer(path)
  <2>1. WorkspacePath(path) = IF InWorkspace(p) THEN Path("posix", p) ELSE NoPath
    BY <1>2, <1>5 DEF WorkspacePath, InContainer
  <2>2. Top(path) = Workspace /\ path.anchor = "posix"
    BY <1>4, <1>5 DEF InContainer
  <2>3. DOMAIN Workspace = {1}
    BY DEF Workspace
  <2>4. StartsAt(path, p) <=> 1 <= Len(p) /\ Workspace[1] = p[1]
    BY <1>5, <2>2, <2>3, WorkspaceTyped DEF StartsAt, Alike
  <2>5. StartsAt(path, p) <=> InWorkspace(p)
    <3>1. p # <<>> <=> 1 <= Len(p)
      BY <1>2, <1>3, EmptySeq
    <3>2. QED
      BY <2>4, <3>1, WorkspaceTyped DEF InWorkspace
  <2>6. InWorkspace(p) => p = Workspace \o After(p, Len(Top(path)))
    BY <1>2, <2>2, StartsWithWorkspace, WorkspaceTyped
  <2>7. QED
    BY <2>1, <2>5, <2>6 DEF p
<1>6. CASE ~InContainer(path)
  <2>1. WorkspacePath(path) =
          IF /\ path.anchor = root.anchor /\ Len(q) <= Len(p)
             /\ \A i \in DOMAIN q : Same(q[i], p[i])
          THEN Path("posix", <<"workspace">> \o After(p, Len(q))) ELSE NoPath
    BY <1>2, <1>6 DEF WorkspacePath, InContainer
  <2>2. Top(path) = q
    BY <1>4, <1>6
  <2>3. StartsAt(path, p) <=>
          /\ path.anchor = root.anchor /\ Len(q) <= Len(p)
          /\ \A i \in DOMAIN q : Alike(q[i], p[i], path.anchor)
    BY <1>6, <2>2 DEF StartsAt
  <2>4. path.anchor = root.anchor => \A a, b : Same(a, b) <=> Alike(a, b, path.anchor)
    BY DEF Same, Alike, Windows
  <2>5. StartsAt(path, p) <=>
          /\ path.anchor = root.anchor /\ Len(q) <= Len(p)
          /\ \A i \in DOMAIN q : Same(q[i], p[i])
    BY <2>3, <2>4
  <2>6. QED
    BY <2>1, <2>2, <2>5 DEF p, Workspace
<1>7. QED
  BY <1>5, <1>6

(* A path with an anchor is not the missing one. *)
LEMMA NotNoPath == \A parts : Path("posix", parts) # NoPath /\ Path("relative", parts) # NoPath
BY DEF Path, NoPath

(* What lies below the top is what comes after it in the place of the path. *)
LEMMA BelowTyped ==
  ASSUME root \in Roots, NEW path, path.parts \in Seq(Components)
  PROVE  /\ Below(path) \in Seq(Components)
         /\ StartsAt(path, Place(path.parts)) =>
              Below(path) = After(Place(path.parts), Len(Top(path)))
<1>. DEFINE p == Place(path.parts)
<1>1. p \in Seq(Components)
  BY PlaceTyped
<1>. HIDE DEF p
<1>2. CASE StartsAt(path, p)
  <2>1. Len(Top(path)) \in 0..Len(p)
    BY <1>1, <1>2, TopTyped, LenProperties DEF StartsAt
  <2>2. After(p, Len(Top(path))) \in Seq(Components)
    BY <1>1, <2>1, SplitAt
  <2>3. QED
    BY <1>2, <2>2 DEF Below, p
<1>3. CASE ~StartsAt(path, p)
  <2>1. <<>> \in Seq(Components)
    OBVIOUS
  <2>2. QED
    BY <1>3, <2>1 DEF Below, p
<1>4. QED
  BY <1>2, <1>3

-----------------------------------------------------------------------------
(* The source of an entry.                                                 *)

(* The two paths of an entry are paths. *)
LEMMA EntryTyped ==
  ASSUME NEW entry \in Entries
  PROVE  /\ entry.file \in Located /\ entry.directory \in Located
         /\ entry.file.parts \in Seq(Components) /\ entry.directory.parts \in Seq(Components)
BY SelectionAssumption DEF Entries, Located

\* The name below /workspace that a path of the container has.
NameOf(path) ==
  IF InWorkspace(path.parts) /\ Len(path.parts) > 1
  THEN Path("relative", After(path.parts, 1)) ELSE NoPath

(* An absolute source is the one below the root it stands for. *)
LEMMA DirectSource ==
  ASSUME root \in Roots, NEW entry \in Entries, entry.file.anchor # "relative"
  PROVE  SourceRelative(entry) =
           IF Below(entry.file) # <<>> THEN Path("relative", Below(entry.file)) ELSE NoPath
<1>. DEFINE file == entry.file
     p == Place(file.parts)
     r == After(p, Len(Top(file)))
<1>1. file \in Located /\ file.parts \in Seq(Components)
  BY EntryTyped
<1>2. WorkspacePath(file) =
        IF StartsAt(file, p) THEN Path("posix", Workspace \o r) ELSE NoPath
  BY <1>1, WorkspacePathIs
<1>3. SourceRelative(entry) = NameOf(WorkspacePath(file))
  <2>1. SourceRelative(entry) =
          NameOf(IF WorkspacePath(file) # NoPath THEN WorkspacePath(file) ELSE NoPath)
    BY DEF SourceRelative, NameOf
  <2>2. QED
    BY <2>1
<1>4. /\ Below(file) \in Seq(Components)
      /\ StartsAt(file, p) => Below(file) = r
      /\ ~StartsAt(file, p) => Below(file) = <<>>
  BY <1>1, BelowTyped DEF Below
<1>. HIDE DEF file, p, r
<1>5. CASE StartsAt(file, p)
  <2>1. r \in Seq(Components) /\ Len(r) \in Nat /\ (r # <<>> <=> Len(r) > 0)
    BY <1>4, <1>5, LenProperties, EmptySeq
  <2>2. /\ InWorkspace(Workspace \o r) /\ Len(Workspace \o r) = Len(r) + 1
        /\ After(Workspace \o r, 1) = r
    BY <2>1, BelowWorkspace
  <2>3. WorkspacePath(file).parts = Workspace \o r
    BY <1>2, <1>5 DEF Path
  <2>4. NameOf(WorkspacePath(file)) =
          IF r # <<>> THEN Path("relative", r) ELSE NoPath
    BY <2>1, <2>2, <2>3 DEF NameOf
  <2>5. QED
    BY <1>3, <1>4, <1>5, <2>4 DEF file
<1>6. CASE ~StartsAt(file, p)
  <2>1. NoPath.parts = <<>>
    BY DEF NoPath, Path
  <2>2. NameOf(NoPath) = NoPath
    BY <2>1 DEF NameOf, InWorkspace
  <2>3. QED
    BY <1>2, <1>3, <1>4, <1>6, <2>2 DEF file
<1>7. QED
  BY <1>5, <1>6

\* The directory of an entry as the container names it, and the source there.
DirectoryParts(entry) ==
  Workspace \o After(Place(entry.directory.parts), Len(Top(entry.directory)))
JoinedParts(entry) == Normal(DirectoryParts(entry) \o entry.file.parts)

(* A relative source is looked for in the directory of its entry. *)
LEMMA RelativeSource ==
  ASSUME root \in Roots, NEW entry \in Entries, entry.file.anchor = "relative"
  PROVE  SourceRelative(entry) =
           IF /\ StartsAt(entry.directory, Place(entry.directory.parts))
              /\ InWorkspace(JoinedParts(entry)) /\ Len(JoinedParts(entry)) > 1
           THEN Path("relative", After(JoinedParts(entry), 1)) ELSE NoPath
<1>. DEFINE file == entry.file
     dir == entry.directory
     starts == StartsAt(dir, Place(dir.parts))
     joined == JoinedParts(entry)
<1>1. file \in Located /\ dir \in Located
  BY EntryTyped
<1>2. WorkspacePath(file) = NoPath
  <2>1. ~StartsAt(file, Place(file.parts))
    BY RootTyped DEF StartsAt, InContainer
  <2>2. QED
    BY <1>1, <2>1, WorkspacePathIs
<1>3. WorkspacePath(dir) = IF starts THEN Path("posix", DirectoryParts(entry)) ELSE NoPath
  BY <1>1, WorkspacePathIs DEF DirectoryParts
<1>4. SourceRelative(entry) =
        NameOf(IF WorkspacePath(dir) # NoPath
               THEN Path("posix", Joined(WorkspacePath(dir).parts, file.parts)) ELSE NoPath)
  BY <1>2 DEF SourceRelative, NameOf
<1>5. NoPath.parts = <<>>
  BY DEF NoPath, Path
<1>6. CASE starts
  <2>1. WorkspacePath(dir) # NoPath /\ WorkspacePath(dir).parts = DirectoryParts(entry)
    BY <1>3, <1>6, NotNoPath DEF Path
  <2>2. SourceRelative(entry) = NameOf(Path("posix", joined))
    BY <1>4, <2>1 DEF Joined, JoinedParts
  <2>3. Path("posix", joined).parts = joined
    BY DEF Path
  <2>. HIDE DEF joined
  <2>4. SourceRelative(entry) =
          IF InWorkspace(joined) /\ Len(joined) > 1
          THEN Path("relative", After(joined, 1)) ELSE NoPath
    BY <2>2, <2>3 DEF NameOf
  <2>5. QED
    BY <1>6, <2>4 DEF joined
<1>7. CASE ~starts
  <2>1. SourceRelative(entry) = NameOf(NoPath)
    BY <1>3, <1>4, <1>7
  <2>2. NameOf(NoPath) = NoPath
    BY <1>5 DEF NameOf, InWorkspace
  <2>3. QED
    BY <1>7, <2>1, <2>2
<1>8. QED
  BY <1>6, <1>7

(* The filter walks over a relative source from the container's name of its
   directory, the host from its own. *)
LEMMA JoinedWalks ==
  ASSUME root \in Roots, NEW entry \in Entries,
         Len(Top(entry.directory)) <= Len(Place(entry.directory.parts))
  PROVE  LET f == entry.file.parts
             dir == entry.directory.parts
             k == Len(Top(entry.directory))
             top == SubSeq(Place(dir), 1, k)
         IN /\ top \in Seq(Components) /\ Len(top) = k /\ top # <<>>
            /\ \A i \in 1..k : top[i] = Place(dir)[i]
            /\ \E a, b \in [0..Len(f) -> Seq(Components)] :
                 /\ Steps(a, f) /\ Steps(b, f)
                 /\ Beside(a[0], b[0], Workspace, top, Components)
                 /\ Beside(b[0], a[0], top, Workspace, Components)
                 /\ a[Len(f)] = JoinedParts(entry)
                 /\ b[Len(f)] = Place(dir \o f)
                 /\ \A i \in 0..Len(f) : Len(b[i]) = Level(dir \o f, Len(dir) + i)
<1>. DEFINE f == entry.file.parts
     dir == entry.directory.parts
     k == Len(Top(entry.directory))
     d == Place(dir)
     top == SubSeq(d, 1, k)
     rest == After(d, k)
     c == Workspace \o rest
<1>1. f \in Seq(Components) /\ dir \in Seq(Components)
  BY EntryTyped
<1>2. /\ Normal(dir) = d /\ d \in Seq(Components)
      /\ \A i \in 1..Len(d) : d[i] # ".."
  BY <1>1, PlaceTyped
<1>3. k \in 0..Len(d) /\ k # 0
  BY <1>2, TopTyped, LenProperties
<1>4. c = DirectoryParts(entry)
  BY DEF DirectoryParts
<1>. HIDE DEF f, dir, d, k
<1>5. /\ top \in Seq(Components) /\ Len(top) = k /\ \A i \in 1..k : top[i] = d[i]
      /\ rest \in Seq(Components) /\ Len(rest) = Len(d) - k
      /\ d = top \o rest
  BY <1>2, <1>3, SplitAt
<1>6. top # <<>>
  BY <1>3, <1>5
<1>. HIDE DEF top, rest
<1>7. Normal(c) = c /\ c \in Seq(Components)
  <2>1. /\ c \in Seq(Components) /\ Len(c) = 1 + Len(rest)
        /\ \A i \in 1..1 + Len(rest) : c[i] = IF i <= 1 THEN Workspace[i] ELSE rest[i - 1]
    <3>. DEFINE w == Len(Workspace)
    <3>1. /\ c \in Seq(Components) /\ Len(c) = w + Len(rest)
          /\ \A i \in 1..w + Len(rest) : c[i] = IF i <= w THEN Workspace[i] ELSE rest[i - w]
      <4>1. Workspace \in Seq(Components) /\ rest \in Seq(Components)
        BY <1>5, WorkspaceTyped
      <4>2. QED
        BY <4>1, ConcatProperties
    <3>2. w = 1
      BY WorkspaceTyped
    <3>. HIDE DEF w, c
    <3>3. QED
      BY <3>1, <3>2
  <2>2. \A i \in 1..Len(rest) : rest[i] # ".."
    <3>1. TAKE i \in 1..Len(rest)
    <3>2. \A j \in 1..Len(top) + Len(rest) :
            (top \o rest)[j] = IF j <= Len(top) THEN top[j] ELSE rest[j - Len(top)]
      BY <1>5, ConcatProperties
    <3>3. /\ k + i \in 1..Len(top) + Len(rest) /\ ~(k + i <= Len(top))
          /\ (k + i) - Len(top) = i /\ k + i \in 1..Len(d)
      BY <1>2, <1>3, <1>5, LenProperties
    <3>4. d[k + i] = rest[i]
      BY <1>5, <3>2, <3>3
    <3>5. QED
      BY <1>2, <3>3, <3>4
  <2>. HIDE DEF c
  <2>3. ASSUME NEW i \in 1..Len(c) PROVE c[i] # ".."
    <3>1. Len(rest) \in Nat /\ i \in 1..1 + Len(rest)
      BY <1>5, <2>1, LenProperties
    <3>2. CASE i <= 1
      BY <2>1, <3>1, <3>2, WorkspaceTyped
    <3>3. CASE ~(i <= 1)
      <4>1. i - 1 \in 1..Len(rest) /\ c[i] = rest[i - 1]
        BY <2>1, <3>1, <3>3
      <4>2. QED
        BY <2>2, <4>1
    <3>4. QED
      BY <3>2, <3>3
  <2>4. QED
    BY <2>1, <2>3, NormalPlain
<1>. HIDE DEF c
<1>8. PICK a \in [0..Len(f) -> Seq(Components)] :
        /\ a[0] = Normal(c) /\ Steps(a, f) /\ a[Len(f)] = Normal(c \o f)
        /\ \A i \in 0..Len(f) : Len(a[i]) = Level(c \o f, Len(c) + i)
  BY <1>1, <1>7, NormalFrom
<1>9. PICK b \in [0..Len(f) -> Seq(Components)] :
        /\ b[0] = Normal(dir) /\ Steps(b, f) /\ b[Len(f)] = Normal(dir \o f)
        /\ \A i \in 0..Len(f) : Len(b[i]) = Level(dir \o f, Len(dir) + i)
  BY <1>1, NormalFrom
<1>10. Normal(dir \o f) = Place(dir \o f)
  <2>1. dir \o f \in Seq(Components)
    BY <1>1, ConcatProperties
  <2>2. QED
    BY <2>1, PlaceTyped
<1>11. a[0] = Workspace \o rest /\ b[0] = top \o rest
  BY <1>2, <1>5, <1>7, <1>8, <1>9 DEF c
<1>12. /\ Beside(a[0], b[0], Workspace, top, Components)
       /\ Beside(b[0], a[0], top, Workspace, Components)
  BY <1>5, <1>11 DEF Beside
<1>13. a[Len(f)] = JoinedParts(entry)
  BY <1>4, <1>8 DEF JoinedParts, f
<1>14. QED
  BY <1>5, <1>6, <1>8, <1>9, <1>10, <1>12, <1>13 DEF f, dir, k, d, top

\* The path with f after dir, which starts with what dir starts with.
IsUnder(path, dir, f) ==
  /\ path.parts = dir.parts \o f /\ Top(path) = Top(dir)
  /\ \A p : StartsAt(path, p) <=> StartsAt(dir, p)

(* A relative source lies below what its directory lies below. *)
LEMMA SameTop ==
  ASSUME NEW dir \in Located, NEW f \in Seq(Components),
         dir.parts # <<>> \/ f = <<>> \/ f[1] # "workspace",
         NEW path, path = Path(dir.anchor, dir.parts \o f)
  PROVE  IsUnder(path, dir, f)
<1>. DEFINE s == dir.parts
<1>1. path.anchor = dir.anchor /\ path.parts = s \o f /\ s \in Seq(Components)
  BY DEF Path, Located
<1>. HIDE DEF s
<1>2. InWorkspace(s \o f) <=> InWorkspace(s)
  <2>1. CASE s = <<>>
    <3>1. s \o f = f
      BY <2>1, ConcatEmptySeq
    <3>2. ~InWorkspace(s)
      BY <2>1 DEF InWorkspace
    <3>3. f = <<>> \/ f[1] # "workspace"
      BY <2>1 DEF s
    <3>4. QED
      BY <3>1, <3>2, <3>3 DEF InWorkspace
  <2>2. CASE s # <<>>
    <3>1. Len(s) \in Nat /\ Len(s) # 0 /\ Len(f) \in Nat
      BY <1>1, <2>2, LenProperties, EmptySeq
    <3>2. /\ s \o f \in Seq(Components) /\ Len(s \o f) = Len(s) + Len(f)
          /\ \A i \in 1..Len(s) + Len(f) : (s \o f)[i] = IF i <= Len(s) THEN s[i] ELSE f[i - Len(s)]
      BY <1>1, ConcatProperties
    <3>3. (s \o f)[1] = s[1] /\ s \o f # <<>>
      BY <3>1, <3>2, EmptySeq
    <3>4. QED
      BY <2>2, <3>3 DEF InWorkspace
  <2>3. QED
    BY <2>1, <2>2
<1>3. InContainer(path) <=> InContainer(dir)
  BY <1>1, <1>2 DEF InContainer, s
<1>4. Top(path) = Top(dir)
  BY <1>3 DEF Top
<1>5. \A p : StartsAt(path, p) <=> StartsAt(dir, p)
  BY <1>1, <1>3, <1>4 DEF StartsAt
<1>6. QED
  BY <1>1, <1>4, <1>5 DEF s, IsUnder

(* What starts alike lies below the same top. *)
LEMMA StartsAlike ==
  ASSUME root \in Roots, NEW path, NEW p, NEW q,
         StartsAt(path, p), Len(q) >= Len(Top(path)),
         \A i \in 1..Len(Top(path)) : q[i] = p[i]
  PROVE  StartsAt(path, q)
BY TopTyped DEF StartsAt

\* What comes after x in c comes after y in d.
FollowsAlike(c, d, x, y) ==
  /\ c \in Seq(Components) /\ d \in Seq(Components)
  /\ After(c, Len(x)) = After(d, Len(y)) /\ After(c, Len(x)) \in Seq(Components)
  /\ Len(c) = Len(x) + Len(After(c, Len(x))) /\ Len(d) = Len(y) + Len(After(d, Len(y)))
  /\ \A i \in 1..Len(y) : d[i] = y[i]
  /\ c = x \o After(c, Len(x))

(* It does when the two are below them with the same rest. *)
LEMMA BesideParts ==
  ASSUME NEW c, NEW d, NEW x \in Seq(Components), NEW y \in Seq(Components),
         Beside(c, d, x, y, Components)
  PROVE  FollowsAlike(c, d, x, y)
<1>1. PICK r \in Seq(Components) : c = x \o r /\ d = y \o r
  BY DEF Beside
<1>2. After(c, Len(x)) = r /\ After(d, Len(y)) = r
  BY <1>1, AfterConcat
<1>3. c \in Seq(Components) /\ Len(c) = Len(x) + Len(r)
  BY <1>1, ConcatProperties
<1>4. /\ d \in Seq(Components) /\ Len(d) = Len(y) + Len(r)
      /\ \A i \in 1..Len(y) + Len(r) : d[i] = IF i <= Len(y) THEN y[i] ELSE r[i - Len(y)]
  BY <1>1, ConcatProperties
<1>5. \A i \in 1..Len(y) : i \in 1..Len(y) + Len(r) /\ i <= Len(y)
  BY LenProperties
<1>6. After(c, Len(x)) = After(d, Len(y)) /\ After(c, Len(x)) \in Seq(Components)
  BY <1>2
<1>7. Len(c) = Len(x) + Len(After(c, Len(x))) /\ Len(d) = Len(y) + Len(After(d, Len(y)))
  BY <1>2, <1>3, <1>4
<1>8. \A i \in 1..Len(y) : d[i] = y[i]
  BY <1>4, <1>5
<1>9. c = x \o After(c, Len(x))
  BY <1>1, <1>2
<1>10. QED
  BY <1>3, <1>4, <1>6, <1>7, <1>8, <1>9 DEF FollowsAlike

(* Where a relative source is looked for: below the directory of its entry. *)
LEMMA RelativeAbsolute ==
  ASSUME root \in Roots, NEW entry \in Entries, entry.file.anchor = "relative"
  PROVE  /\ entry.directory.anchor \in {"posix", "drive"} =>
              Absolute(entry) = Path(entry.directory.anchor,
                                     entry.directory.parts \o entry.file.parts)
         /\ entry.directory.anchor \notin {"posix", "drive"} => Below(Absolute(entry)) = <<>>
         /\ \A p : StartsAt(entry.directory, p) => entry.directory.anchor \in {"posix", "drive"}
<1>1. NoPath.anchor = "none"
  BY DEF NoPath, Path
<1>2. \A p : ~StartsAt(NoPath, p)
  BY <1>1, RootTyped DEF StartsAt, InContainer
<1>3. QED
  BY <1>2, RootTyped DEF Absolute, Below, StartsAt, InContainer

(* A relative source that is found, and does not climb so, is the one its path
   leads to on the host. *)
LEMMA RelativeInPlace ==
  ASSUME root \in Roots, NEW entry \in Entries, entry.file.anchor = "relative",
         ~Climbs(entry.file.parts),
         StartsAt(entry.directory, Place(entry.directory.parts)),
         InWorkspace(JoinedParts(entry))
  PROVE  Below(Absolute(entry)) = After(JoinedParts(entry), 1)
<1>. DEFINE f == entry.file.parts
     dir == entry.directory
     k == Len(Top(dir))
     top == SubSeq(Place(dir.parts), 1, k)
     joined == JoinedParts(entry)
     path == Absolute(entry)
     place == Place(dir.parts \o f)
<1>1. f \in Seq(Components) /\ dir \in Located /\ dir.parts \in Seq(Components)
  BY EntryTyped
<1>2. k <= Len(Place(dir.parts)) /\ k \in Nat /\ k # 0
  BY TopTyped DEF StartsAt
<1>3. /\ top \in Seq(Components) /\ Len(top) = k /\ top # <<>>
      /\ \A i \in 1..k : top[i] = Place(dir.parts)[i]
      /\ \E a, b \in [0..Len(f) -> Seq(Components)] :
           /\ Steps(a, f) /\ Steps(b, f)
           /\ Beside(a[0], b[0], Workspace, top, Components)
           /\ a[Len(f)] = joined /\ b[Len(f)] = place
  BY <1>2, JoinedWalks
<1>4. dir.parts # <<>>
  <2>1. SUFFICES ASSUME dir.parts = <<>> PROVE FALSE
    OBVIOUS
  <2>. DEFINE s == dir.parts
  <2>2. Len(Place(s)) >= k /\ Len(s) = 0 /\ s \in Seq(Components) /\ Normal(s) = Place(s)
    BY <1>1, <1>2, <2>1, PlaceTyped
  <2>. HIDE DEF s, k
  <2>3. Normal(s) = <<>>
    <3>1. PICK upTo : NormalBy(upTo, s, Components)
      BY <2>2, NormalWalk, Zenon
    <3>2. QED
      BY <2>2, <3>1 DEF NormalBy
  <2>4. QED
    BY <1>2, <2>2, <2>3
<1>5. path = Path(dir.anchor, dir.parts \o f)
  BY RelativeAbsolute
<1>6. /\ path.parts = dir.parts \o f /\ Top(path) = Top(dir)
      /\ \A p : StartsAt(path, p) <=> StartsAt(dir, p)
  <2>. HIDE DEF f, k, top, joined, place, path, dir
  <2>1. IsUnder(path, dir, f)
    BY <1>1, <1>4, <1>5, SameTop
  <2>2. QED
    BY <2>1 DEF IsUnder
<1>7. joined # <<>> /\ joined[1] = "workspace"
  BY DEF InWorkspace
<1>. HIDE DEF f, k, top, joined, place, path, dir
<1>8. Beside(joined, place, Workspace, top, Components)
  <2>1. PICK a, b \in [0..Len(f) -> Seq(Components)] :
          /\ Steps(a, f) /\ Steps(b, f)
          /\ Beside(a[0], b[0], Workspace, top, Components)
          /\ a[Len(f)] = joined /\ b[Len(f)] = place
    BY <1>3
  <2>2. /\ a[Len(f)] # <<>>
        /\ \A i, j \in 1..Len(f) : i < j /\ f[i] = ".." => f[j] # a[Len(f)][1]
    BY <1>7, <2>1 DEF f, Climbs
  <2>3. a[0] # <<>>
    <3>1. PICK r \in Seq(Components) : a[0] = Workspace \o r
      BY <2>1 DEF Beside
    <3>2. QED
      BY <3>1, BelowWorkspace DEF InWorkspace
  <2>4. \A i \in 0..Len(f) : Len(a[i]) >= 1 /\ a[i][1] = a[Len(f)][1]
    BY <1>1, <2>1, <2>2, <2>3, NeverAtTheTop
  <2>5. \A i \in 0..Len(f) : Len(a[i]) >= Len(Workspace)
    BY <2>4, WorkspaceTyped
  <2>6. Beside(a[Len(f)], b[Len(f)], Workspace, top, Components)
    BY <1>1, <1>3, <2>1, <2>5, WorkspaceTyped, SameSteps
  <2>7. QED
    BY <2>1, <2>6
<1>9. /\ After(joined, Len(Workspace)) = After(place, k)
      /\ Len(place) = k + Len(After(place, k)) /\ place \in Seq(Components)
      /\ After(place, k) \in Seq(Components)
      /\ \A i \in 1..k : place[i] = top[i]
  <2>1. top \in Seq(Components) /\ Len(top) = k /\ Workspace \in Seq(Components)
    BY <1>3, WorkspaceTyped
  <2>2. /\ joined \in Seq(Components) /\ place \in Seq(Components)
        /\ After(joined, Len(Workspace)) = After(place, Len(top))
             /\ After(joined, Len(Workspace)) \in Seq(Components)
        /\ Len(joined) = Len(Workspace) + Len(After(joined, Len(Workspace)))
             /\ Len(place) = Len(top) + Len(After(place, Len(top)))
        /\ \A i \in 1..Len(top) : place[i] = top[i]
        /\ joined = Workspace \o After(joined, Len(Workspace))
    <3>1. FollowsAlike(joined, place, Workspace, top)
      BY <1>8, <2>1, BesideParts
    <3>2. QED
      BY <3>1 DEF FollowsAlike
  <2>3. QED
    BY <2>1, <2>2
<1>10. Len(place) >= k
  BY <1>2, <1>9, LenProperties
<1>11. StartsAt(dir, place)
  <2>1. \A i \in 1..Len(Top(dir)) : place[i] = Place(dir.parts)[i]
    BY <1>3, <1>9 DEF k
  <2>2. StartsAt(dir, Place(dir.parts)) /\ Len(place) >= Len(Top(dir))
    BY <1>10 DEF k, dir
  <2>3. QED
    BY <2>1, <2>2, StartsAlike
<1>12. Below(path) = After(place, k)
  BY <1>6, <1>11 DEF Below, place, k
<1>13. QED
  BY <1>9, <1>12, WorkspaceTyped DEF path, joined

(* A relative source below the root, whose path stays there from its directory
   on, is found. *)
LEMMA InsideRelative ==
  ASSUME root \in Roots, NEW entry \in Entries, entry.file.anchor = "relative",
         Below(Absolute(entry)) # <<>>, StaysBelow(entry)
  PROVE  /\ StartsAt(entry.directory, Place(entry.directory.parts))
         /\ InWorkspace(JoinedParts(entry)) /\ Len(JoinedParts(entry)) > 1
<1>. DEFINE f == entry.file.parts
     dir == entry.directory
     k == Len(Top(dir))
     d == Place(dir.parts)
     top == SubSeq(d, 1, k)
     joined == JoinedParts(entry)
     path == Absolute(entry)
     place == Place(dir.parts \o f)
<1>1. f \in Seq(Components) /\ dir \in Located /\ dir.parts \in Seq(Components)
  BY EntryTyped
<1>2. path = Path(dir.anchor, dir.parts \o f)
  BY RelativeAbsolute
<1>3. path.parts = dir.parts \o f
  <2>. HIDE DEF path
  <2>1. QED
    BY <1>2 DEF Path
<1>4. \A n \in Len(dir.parts)..Len(dir.parts \o f) : Level(dir.parts \o f, n) >= Len(Top(path))
  BY <1>3 DEF StaysBelow
<1>5. Len(dir.parts \o f) = Len(dir.parts) + Len(f) /\ Len(dir.parts) \in Nat /\ Len(f) \in Nat
  BY <1>1, ConcatProperties, LenProperties
<1>6. Len(Top(path)) \in Nat /\ Len(Top(path)) # 0
  BY TopTyped
<1>7. dir.parts # <<>>
  <2>1. SUFFICES ASSUME dir.parts = <<>> PROVE FALSE
    OBVIOUS
  <2>2. 0 \in Len(dir.parts)..Len(dir.parts \o f)
    BY <1>5, <2>1
  <2>3. Level(dir.parts \o f, 0) >= Len(Top(path))
    BY <1>4, <2>2
  <2>4. dir.parts \o f \in Seq(Components)
    BY <1>1, ConcatProperties
  <2>5. Level(dir.parts \o f, 0) = 0
    BY <2>4, LevelStep
  <2>6. QED
    BY <1>6, <2>3, <2>5
<1>8. Top(path) = Top(dir) /\ \A p : StartsAt(path, p) <=> StartsAt(dir, p)
  BY <1>1, <1>2, <1>7, SameTop DEF IsUnder
<1>9. k \in Nat /\ k # 0
  BY <1>6, <1>8
<1>10. StartsAt(path, place) /\ Below(path) = After(place, k)
  <2>1. Place(path.parts) = place
    BY <1>3
  <2>. HIDE DEF place, path
  <2>2. StartsAt(path, place)
    BY <2>1 DEF Below, path
  <2>3. QED
    BY <1>8, <2>1, <2>2 DEF Below
<1>11. Level(dir.parts \o f, Len(dir.parts)) = Len(d)
  <2>. DEFINE s == dir.parts
  <2>1. s \in Seq(Components) /\ f \in Seq(Components)
    BY <1>1
  <2>2. Normal(s) = d
    BY <1>1, PlaceTyped
  <2>3. 0 \in 0..Len(f) /\ Len(s) + 0 = Len(s)
    BY <1>5
  <2>. HIDE DEF s, d, f
  <2>4. PICK b \in [0..Len(f) -> Seq(Components)] :
          /\ b[0] = Normal(s) /\ Steps(b, f) /\ b[Len(f)] = Normal(s \o f)
          /\ \A i \in 0..Len(f) : Len(b[i]) = Level(s \o f, Len(s) + i)
    BY <2>1, NormalFrom
  <2>5. Len(b[0]) = Level(s \o f, Len(s))
    BY <2>3, <2>4
  <2>6. QED
    BY <2>2, <2>4, <2>5 DEF s
<1>12. k <= Len(d)
  <2>1. Len(dir.parts) \in Len(dir.parts)..Len(dir.parts \o f)
    <3>. DEFINE m == Len(dir.parts)
         n == Len(dir.parts \o f)
         l == Len(f)
    <3>1. n = m + l /\ m \in Nat /\ l \in Nat
      BY <1>5
    <3>. HIDE DEF m, n, l
    <3>2. m \in m..n
      BY <3>1
    <3>3. QED
      BY <3>2 DEF m, n
  <2>2. Level(dir.parts \o f, Len(dir.parts)) >= Len(Top(path))
    BY <1>4, <2>1
  <2>3. d \in Seq(Components)
    BY <1>1, PlaceTyped
  <2>4. Len(d) \in Nat
    BY <2>3, LenProperties
  <2>5. QED
    BY <1>8, <1>9, <1>11, <2>2, <2>4
<1>13. /\ top \in Seq(Components) /\ Len(top) = k /\ top # <<>>
       /\ \A i \in 1..k : top[i] = d[i]
       /\ \E a, b \in [0..Len(f) -> Seq(Components)] :
            /\ Steps(a, f) /\ Steps(b, f)
            /\ Beside(b[0], a[0], top, Workspace, Components)
            /\ a[Len(f)] = joined /\ b[Len(f)] = place
            /\ \A i \in 0..Len(f) : Len(b[i]) = Level(dir.parts \o f, Len(dir.parts) + i)
  BY <1>12, JoinedWalks
<1>. HIDE DEF f, k, top, joined, place, path, dir, d
<1>14. Beside(place, joined, top, Workspace, Components)
  <2>1. PICK a, b \in [0..Len(f) -> Seq(Components)] :
          /\ Steps(a, f) /\ Steps(b, f)
          /\ Beside(b[0], a[0], top, Workspace, Components)
          /\ a[Len(f)] = joined /\ b[Len(f)] = place
          /\ \A i \in 0..Len(f) : Len(b[i]) = Level(dir.parts \o f, Len(dir.parts) + i)
    BY <1>13
  <2>2. ASSUME NEW i \in 0..Len(f) PROVE Len(b[i]) >= Len(top)
    <3>1. Len(dir.parts) + i \in Len(dir.parts)..Len(dir.parts \o f)
      BY <1>5
    <3>2. Len(b[i]) >= Len(Top(path))
      BY <1>4, <2>1, <3>1
    <3>3. Len(Top(path)) = Len(top)
      BY <1>8, <1>13 DEF k
    <3>4. QED
      BY <3>2, <3>3
  <2>3. Beside(b[Len(f)], a[Len(f)], top, Workspace, Components)
    BY <1>1, <1>13, <2>1, <2>2, WorkspaceTyped, SameSteps
  <2>4. QED
    BY <2>1, <2>3
<1>15. \A i \in 1..k : place[i] = top[i]
  <2>1. PICK r \in Seq(Components) : place = top \o r
    BY <1>14 DEF Beside
  <2>2. \A i \in 1..Len(top) + Len(r) : (top \o r)[i] = IF i <= Len(top) THEN top[i] ELSE r[i - Len(top)]
    BY <1>13, <2>1, ConcatProperties
  <2>3. \A i \in 1..k : i \in 1..Len(top) + Len(r) /\ i <= Len(top)
    BY <1>9, <1>13, LenProperties
  <2>4. QED
    BY <2>1, <2>2, <2>3
<1>16. StartsAt(dir, d)
  <2>1. StartsAt(dir, place)
    BY <1>8, <1>10
  <2>2. Len(d) >= Len(Top(dir)) /\ \A i \in 1..Len(Top(dir)) : d[i] = place[i]
    <3>1. d \in Seq(Components) /\ Len(d) \in Nat
      BY <1>1, PlaceTyped, LenProperties DEF d
    <3>2. QED
      BY <1>9, <1>12, <1>13, <1>15, <3>1 DEF k
  <2>3. QED
    BY <2>1, <2>2, StartsAlike
<1>17. PICK r \in Seq(Components) : place = top \o r /\ joined = Workspace \o r
  BY <1>14 DEF Beside
<1>18. r # <<>>
  <2>1. After(top \o r, Len(top)) = r
    BY <1>13, AfterConcat
  <2>2. After(place, k) # <<>>
    BY <1>10 DEF path
  <2>3. QED
    BY <1>13, <1>17, <2>1, <2>2
<1>19. InWorkspace(joined) /\ Len(joined) = Len(r) + 1
  BY <1>17, BelowWorkspace
<1>20. Len(joined) > 1
  <2>1. Len(r) \in Nat /\ Len(r) # 0
    BY <1>18, LenProperties, EmptySeq
  <2>2. QED
    BY <1>19, <2>1
<1>21. QED
  BY <1>16, <1>19, <1>20 DEF dir, d, joined

-----------------------------------------------------------------------------
(* The name a source is found under.                                       *)

(* A source that is found has a name. *)
LEMMA RelativeTyped ==
  ASSUME root \in Roots, NEW entry \in Entries
  PROVE  /\ SourceRelative(entry).parts \in Seq(Components)
         /\ SourceRelative(entry) # NoPath => SourceRelative(entry).parts # <<>>
<1>. DEFINE rel == SourceRelative(entry)
<1>1. NoPath.parts = <<>> /\ <<>> \in Seq(Components)
  BY DEF NoPath, Path
<1>2. CASE entry.file.anchor # "relative"
  <2>1. rel = IF Below(entry.file) # <<>> THEN Path("relative", Below(entry.file)) ELSE NoPath
    BY <1>2, DirectSource
  <2>2. Below(entry.file) \in Seq(Components)
    BY EntryTyped, BelowTyped
  <2>. HIDE DEF rel
  <2>3. QED
    BY <1>1, <2>1, <2>2 DEF Path, rel
<1>3. CASE entry.file.anchor = "relative"
  <2>. DEFINE starts == StartsAt(entry.directory, Place(entry.directory.parts))
       joined == JoinedParts(entry)
  <2>1. rel = IF starts /\ InWorkspace(joined) /\ Len(joined) > 1
              THEN Path("relative", After(joined, 1)) ELSE NoPath
    BY <1>3, RelativeSource
  <2>2. ASSUME starts PROVE joined \in Seq(Components)
    <3>. DEFINE d == Place(entry.directory.parts)
         k == Len(Top(entry.directory))
    <3>1. d \in Seq(Components) /\ entry.file.parts \in Seq(Components)
      BY EntryTyped, PlaceTyped
    <3>2. k \in 0..Len(d)
      BY <2>2, <3>1, TopTyped, LenProperties DEF StartsAt
    <3>. HIDE DEF d, k
    <3>3. After(d, k) \in Seq(Components)
      BY <3>1, <3>2, SplitAt
    <3>4. Workspace \o After(d, k) \in Seq(Components)
      BY <3>3, WorkspaceTyped, ConcatProperties
    <3>5. DirectoryParts(entry) \in Seq(Components)
      BY <3>4 DEF DirectoryParts, d, k
    <3>6. DirectoryParts(entry) \o entry.file.parts \in Seq(Components)
      BY <3>1, <3>5, ConcatProperties
    <3>7. QED
      BY <3>6, PlaceTyped DEF JoinedParts
  <2>. HIDE DEF rel, starts, joined
  <2>3. CASE starts /\ InWorkspace(joined) /\ Len(joined) > 1
    <3>1. joined \in Seq(Components) /\ Len(joined) \in Nat /\ 1 \in 0..Len(joined)
      BY <2>2, <2>3, LenProperties
    <3>2. After(joined, 1) \in Seq(Components) /\ Len(After(joined, 1)) = Len(joined) - 1
      BY <3>1, SplitAt
    <3>3. After(joined, 1) # <<>>
      BY <2>3, <3>1, <3>2, EmptySeq
    <3>4. rel.parts = After(joined, 1)
      BY <2>1, <2>3 DEF Path
    <3>5. QED
      BY <3>2, <3>3, <3>4 DEF rel
  <2>4. CASE ~(starts /\ InWorkspace(joined) /\ Len(joined) > 1)
    BY <1>1, <2>1, <2>4 DEF rel
  <2>5. QED
    BY <2>3, <2>4
<1>4. QED
  BY <1>2, <1>3

(* A source that is found is the one below the root it stands for, unless it is
   relative and climbs. *)
LEMMA SourceInPlace ==
  ASSUME root \in Roots, NEW entry \in Entries, SourceRelative(entry) # NoPath,
         entry.file.anchor # "relative" \/ ~Climbs(entry.file.parts)
  PROVE  SourceRelative(entry).parts = Below(Absolute(entry))
<1>1. CASE entry.file.anchor # "relative"
  <2>1. SourceRelative(entry) = Path("relative", Below(entry.file))
    BY <1>1, DirectSource
  <2>2. Absolute(entry) = entry.file
    BY <1>1 DEF Absolute
  <2>3. QED
    BY <2>1, <2>2 DEF Path
<1>2. CASE entry.file.anchor = "relative"
  <2>1. /\ StartsAt(entry.directory, Place(entry.directory.parts))
        /\ InWorkspace(JoinedParts(entry))
        /\ SourceRelative(entry) = Path("relative", After(JoinedParts(entry), 1))
    BY <1>2, RelativeSource
  <2>2. Below(Absolute(entry)) = After(JoinedParts(entry), 1)
    BY <1>2, <2>1, RelativeInPlace
  <2>3. QED
    BY <2>1, <2>2 DEF Path
<1>3. QED
  BY <1>1, <1>2

(* A source whose path leads below the root is found. *)
LEMMA InsideFound ==
  ASSUME root \in Roots, NEW entry \in Entries, Below(Absolute(entry)) # <<>>,
         entry.file.anchor # "relative" \/ StaysBelow(entry)
  PROVE  SourceRelative(entry) # NoPath
<1>1. CASE entry.file.anchor # "relative"
  <2>1. Absolute(entry) = entry.file
    BY <1>1 DEF Absolute
  <2>2. SourceRelative(entry) = Path("relative", Below(entry.file))
    BY <1>1, <2>1, DirectSource
  <2>3. QED
    BY <2>2, NotNoPath
<1>2. CASE entry.file.anchor = "relative"
  <2>1. SourceRelative(entry) = Path("relative", After(JoinedParts(entry), 1))
    BY <1>2, InsideRelative, RelativeSource
  <2>2. QED
    BY <2>1, NotNoPath
<1>3. QED
  BY <1>1, <1>2

(* A path that is no source below /workspace is /workspace itself or nowhere. *)
LEMMA NoSource ==
  ASSUME root \in Roots, NEW entry \in Entries, SourceRelative(entry) = NoPath
  PROVE  Len(WorkspacePath(entry.file).parts) <= 1
<1>. DEFINE file == entry.file
     r == After(Place(file.parts), Len(Top(file)))
     starts == StartsAt(file, Place(file.parts))
<1>1. file \in Located /\ file.parts \in Seq(Components)
  BY EntryTyped
<1>2. WorkspacePath(file) = IF starts THEN Path("posix", Workspace \o r) ELSE NoPath
  BY <1>1, WorkspacePathIs
<1>3. starts => Below(file) = r
  BY <1>1, BelowTyped
<1>4. CASE starts
  <2>1. file.anchor # "relative"
    BY <1>4, RootTyped DEF StartsAt, InContainer
  <2>2. SourceRelative(entry) = IF Below(file) # <<>> THEN Path("relative", Below(file)) ELSE NoPath
    BY <2>1, DirectSource
  <2>3. r = <<>>
    BY <1>3, <1>4, <2>2, NotNoPath
  <2>. HIDE DEF r
  <2>4. Workspace \o r = Workspace
    BY <2>3, WorkspaceTyped, ConcatEmptySeq
  <2>5. WorkspacePath(file).parts = Workspace
    BY <1>2, <1>4, <2>4 DEF Path
  <2>6. QED
    BY <2>5, WorkspaceTyped
<1>5. CASE ~starts
  <2>1. WorkspacePath(file).parts = <<>>
    BY <1>2, <1>5 DEF NoPath, Path
  <2>2. QED
    BY <2>1
<1>6. QED
  BY <1>4, <1>5

(* Names that fold alike have as many components. *)
LEMMA FoldedAlike ==
  ASSUME NEW a \in Seq(Components), NEW b \in Seq(Components), Folded(a) = Folded(b)
  PROVE  Len(a) = Len(b) /\ \A i \in 1..Len(a) : Folded(a)[i] = Folded(b)[i]
<1>1. DOMAIN a = 1..Len(a) /\ DOMAIN b = 1..Len(b) /\ Len(a) \in Nat /\ Len(b) \in Nat
  BY LenProperties
<1>2. DOMAIN Folded(a) = 1..Len(a) /\ DOMAIN Folded(b) = 1..Len(b)
  BY <1>1 DEF Folded
<1>. DEFINE m == Len(a)
     n == Len(b)
<1>3. m \in Nat /\ n \in Nat /\ 1..m = 1..n
  BY <1>1, <1>2
<1>. HIDE DEF m, n
<1>4. m <= n
  <2>1. m = 0 \/ m \in 1..m
    BY <1>3
  <2>2. m = 0 \/ m \in 1..n
    BY <1>3, <2>1
  <2>3. QED
    BY <1>3, <2>2
<1>5. n <= m
  <2>1. n = 0 \/ n \in 1..n
    BY <1>3
  <2>2. n = 0 \/ n \in 1..m
    BY <1>3, <2>1
  <2>3. QED
    BY <1>3, <2>2
<1>6. m = n
  BY <1>3, <1>4, <1>5
<1>7. QED
  BY <1>6 DEF m, n

-----------------------------------------------------------------------------
(* The entries kept and omitted.                                           *)

Kept == [source : Entries, file : Located, directory : Located]

\* What an entry may become.
Outcomes(entry) ==
  LET rel == SourceRelative(entry) IN
  {Translated(entry, rel, name) :
     name \in IF selecting /\ rel # NoPath THEN Canonical(rel.parts) ELSE {rel.parts}}

Omissible(entry) ==
  LET rel == SourceRelative(entry) IN
  selecting /\ rel # NoPath /\ Canonical(rel.parts) = {}

SelectionInv ==
  /\ root \in Roots /\ selecting \in BOOLEAN /\ manifest \in SUBSET Seq(Components)
  /\ retained \in Seq(Kept) /\ omitted \in Seq(Entries)
  /\ \A i \in 1..Len(retained) :
       ~Ambiguous /\ retained[i] \in Outcomes(retained[i].source)
  /\ \A i \in 1..Len(omitted) : Omissible(omitted[i])

(* Nothing that is given changes, and so neither does what an entry becomes. *)
LEMMA GivenStays ==
  ASSUME UNCHANGED given
  PROVE  /\ Ambiguous' = Ambiguous
         /\ \A entry : Outcomes(entry)' = Outcomes(entry)
         /\ \A entry : Omissible(entry)' = Omissible(entry)
<1>1. root' = root /\ manifest' = manifest /\ selecting' = selecting
  BY DEF given
<1>2. Windows' = Windows
  BY <1>1 DEF Windows
<1>3. \A parts : Folded(parts)' = Folded(parts)
  BY <1>2 DEF Folded
<1>4. \A path : WorkspacePath(path)' = WorkspacePath(path)
  BY <1>1, <1>2 DEF WorkspacePath, Same
<1>5. \A entry : SourceRelative(entry)' = SourceRelative(entry)
  BY <1>4 DEF SourceRelative
<1>6. \A parts : Canonical(parts)' = Canonical(parts)
  BY <1>1, <1>3 DEF Canonical
<1>7. \A directory, rel, name : Respelled(directory, rel, name)' = Respelled(directory, rel, name)
  BY <1>2, <1>3 DEF Respelled
<1>8. \A entry, rel, name : Translated(entry, rel, name)' = Translated(entry, rel, name)
  BY <1>4, <1>7 DEF Translated
<1>9. \A entry : Outcomes(entry)' = Outcomes(entry)
  BY <1>1, <1>5, <1>6, <1>8 DEF Outcomes
<1>10. \A entry : Omissible(entry)' = Omissible(entry)
  BY <1>1, <1>5, <1>6 DEF Omissible
<1>11. Ambiguous' = Ambiguous
  BY <1>1, <1>3 DEF Ambiguous
<1>12. QED
  BY <1>9, <1>10, <1>11

(* A path that is translated is empty or lies in the workspace. *)
LEMMA WorkspacePathTyped ==
  ASSUME root \in Roots, NEW path \in Located
  PROVE  /\ WorkspacePath(path) \in Located
         /\ \/ WorkspacePath(path).parts = <<>>
            \/ \E r \in Seq(Components) : WorkspacePath(path).parts = Workspace \o r
<1>. DEFINE p == Place(path.parts)
     k == Len(Top(path))
     r == After(p, k)
<1>1. p \in Seq(Components)
  <2>1. path.parts \in Seq(Components)
    BY DEF Located
  <2>2. QED
    BY <2>1, PlaceTyped
<1>2. WorkspacePath(path) = IF StartsAt(path, p) THEN Path("posix", Workspace \o r) ELSE NoPath
  BY WorkspacePathIs
<1>. HIDE DEF p, k
<1>3. CASE StartsAt(path, p)
  <2>1. k \in 0..Len(p)
    BY <1>1, <1>3, TopTyped, LenProperties DEF StartsAt, k
  <2>2. r \in Seq(Components)
    BY <1>1, <2>1, SplitAt
  <2>. HIDE DEF r
  <2>3. Workspace \o r \in Seq(Components)
    BY <2>2, WorkspaceTyped, ConcatProperties
  <2>4. WorkspacePath(path) = Path("posix", Workspace \o r)
    BY <1>2, <1>3
  <2>5. Path("posix", Workspace \o r) \in Located
    BY <2>3 DEF Path, Located
  <2>6. WorkspacePath(path).parts = Workspace \o r
    BY <2>4 DEF Path
  <2>7. QED
    BY <2>2, <2>4, <2>5, <2>6
<1>4. CASE ~StartsAt(path, p)
  <2>1. <<>> \in Seq(Components)
    OBVIOUS
  <2>2. QED
    BY <1>2, <1>4, <2>1 DEF NoPath, Path, Located
<1>5. QED
  BY <1>3, <1>4

\* The name an entry is given has its own spelling, and is the source's.
Named(entry, name) ==
  /\ name \in Seq(Components) /\ Folded(name) = Folded(SourceRelative(entry).parts)
  /\ selecting /\ SourceRelative(entry) # NoPath => name \in manifest

(* What is kept of an entry is its translation under a name the manifest has. *)
LEMMA OutcomeNamed ==
  ASSUME SelectionInv, NEW entry \in Entries, NEW kept \in Outcomes(entry)
  PROVE  \E name : Named(entry, name) /\ kept = Translated(entry, SourceRelative(entry), name)
<1>. DEFINE rel == SourceRelative(entry)
<1>1. PICK name \in IF selecting /\ rel # NoPath THEN Canonical(rel.parts) ELSE {rel.parts} :
        kept = Translated(entry, rel, name)
  BY DEF Outcomes
<1>2. rel.parts \in Seq(Components) /\ manifest \subseteq Seq(Components)
  BY RelativeTyped DEF SelectionInv
<1>. HIDE DEF rel
<1>3. /\ name \in Seq(Components) /\ Folded(name) = Folded(rel.parts)
      /\ selecting /\ rel # NoPath => name \in manifest
  BY <1>1, <1>2 DEF Canonical
<1>4. QED
  BY <1>1, <1>3 DEF Named, rel

(* A directory that is spelled as in the manifest is a path. *)
LEMMA RespelledTyped ==
  ASSUME root \in Roots, NEW directory \in Located, NEW rel, NEW name \in Seq(Components),
         Len(rel.parts) = Len(name)
  PROVE  Respelled(directory, rel, name) \in Located
<1>. DEFINE below == After(directory.parts, 1)
     m == Len(below)
     s == SubSeq(name, 1, m)
<1>1. CASE directory = NoPath
  BY <1>1 DEF Respelled
<1>2. CASE directory # NoPath
  <2>1. directory.parts \in Seq(Components) /\ Len(directory.parts) \in Nat
    BY LenProperties DEF Located
  <2>2. CASE m <= Len(rel.parts) /\ m \in Nat
    <3>1. m \in 0..Len(name)
      BY <2>2, LenProperties
    <3>. HIDE DEF m
    <3>2. s \in Seq(Components)
      BY <3>1, SplitAt
    <3>. HIDE DEF s
    <3>3. Path("posix", Workspace \o s) \in Located
      <4>1. Workspace \o s \in Seq(Components)
        BY <3>2, WorkspaceTyped, ConcatProperties
      <4>2. QED
        BY <4>1 DEF Path, Located
    <3>4. Respelled(directory, rel, name) \in {directory, Path("posix", Workspace \o s)}
      BY DEF Respelled, Workspace, s, m
    <3>5. QED
      BY <3>3, <3>4
  <2>3. CASE ~(m <= Len(rel.parts) /\ m \in Nat)
    <3>1. m \in Nat
      <4>. DEFINE q == directory.parts
      <4>1. \A i \in 2..Len(q) : q[i] \in Components
        BY <2>1, ElementOfSeq
      <4>2. below \in Seq(Components)
        BY <2>1, <4>1, SubSeqProperties DEF After
      <4>. HIDE DEF below
      <4>3. QED
        BY <4>2, LenProperties
    <3>2. QED
      BY <2>3, <3>1 DEF Respelled
  <2>4. QED
    BY <2>2, <2>3
<1>3. QED
  BY <1>1, <1>2

(* What is kept of an entry is kept with it. *)
LEMMA OutcomeTyped ==
  ASSUME SelectionInv, NEW entry \in Entries, NEW kept \in Outcomes(entry)
  PROVE  kept \in Kept /\ kept.source = entry
<1>. DEFINE rel == SourceRelative(entry)
     dir == WorkspacePath(entry.directory)
<1>1. PICK name : Named(entry, name) /\ kept = Translated(entry, rel, name)
  BY OutcomeNamed
<1>2. root \in Roots /\ rel.parts \in Seq(Components)
  BY RelativeTyped DEF SelectionInv
<1>3. WorkspacePath(entry.file) \in Located /\ dir \in Located
  BY <1>2, EntryTyped, WorkspacePathTyped
<1>4. name \in Seq(Components) /\ Len(rel.parts) = Len(name)
  <2>1. name \in Seq(Components) /\ Folded(name) = Folded(rel.parts)
    BY <1>1 DEF Named
  <2>. HIDE DEF rel
  <2>2. QED
    BY <1>2, <2>1, FoldedAlike
<1>. HIDE DEF rel, dir
<1>5. Respelled(dir, rel, name) \in Located
  BY <1>2, <1>3, <1>4, RespelledTyped
<1>6. Path("posix", Workspace \o name) \in Located
  <2>1. Workspace \o name \in Seq(Components)
    BY <1>4, WorkspaceTyped, ConcatProperties
  <2>2. QED
    BY <2>1 DEF Path, Located
<1>7. kept = [source |-> entry,
              file |-> IF rel # NoPath THEN Path("posix", Workspace \o name)
                                       ELSE WorkspacePath(entry.file),
              directory |-> Respelled(dir, rel, name)]
  BY <1>1 DEF Translated, Workspace, dir
<1>8. QED
  BY <1>3, <1>5, <1>6, <1>7 DEF Kept

(* The invariant holds before anything is selected. *)
LEMMA InitSelection == Init => SelectionInv
<1>1. SUFFICES ASSUME Init PROVE SelectionInv
  OBVIOUS
<1>2. manifest \in SUBSET Seq(Components)
  <2>1. manifest \in Manifests \/ manifest = {}
    BY <1>1 DEF Init
  <2>2. Manifests \subseteq SUBSET Seq(Components)
    BY SelectionAssumption
  <2>3. QED
    BY <2>1, <2>2
<1>3. <<>> \in Seq(Kept) /\ <<>> \in Seq(Entries) /\ Len(<<>>) = 0
  OBVIOUS
<1>4. QED
  BY <1>1, <1>2, <1>3 DEF Init, SelectionInv

(* Every step keeps it. *)
LEMMA SelectionStep == SelectionInv /\ [Next]_vars => SelectionInv'
<1>1. SUFFICES ASSUME SelectionInv, [Next]_vars PROVE SelectionInv'
  OBVIOUS
<1>2. UNCHANGED given
  BY <1>1 DEF Next, Refuse, Finish, Keep, Omit, vars
<1>3. /\ Ambiguous' = Ambiguous
      /\ \A entry : Outcomes(entry)' = Outcomes(entry)
      /\ \A entry : Omissible(entry)' = Omissible(entry)
  BY <1>2, GivenStays
<1>4. root' = root /\ manifest' = manifest /\ selecting' = selecting
  BY <1>2 DEF given
<1>5. retained \in Seq(Kept) /\ omitted \in Seq(Entries)
  BY <1>1 DEF SelectionInv
<1>6. CASE UNCHANGED <<retained, omitted>>
  BY <1>1, <1>3, <1>4, <1>6 DEF SelectionInv
<1>7. ASSUME Running, NEW entry \in Entries, Keep(entry) PROVE SelectionInv'
  <2>1. PICK kept \in Outcomes(entry) : retained' = Append(retained, kept)
    BY <1>7 DEF Keep, Outcomes
  <2>2. omitted' = omitted /\ ~Ambiguous
    BY <1>7 DEF Keep, Running
  <2>3. kept \in Kept /\ kept.source = entry
    BY <1>1, <2>1, OutcomeTyped
  <2>4. /\ retained' \in Seq(Kept) /\ Len(retained') = Len(retained) + 1
        /\ \A i \in 1..Len(retained) : retained'[i] = retained[i]
        /\ retained'[Len(retained) + 1] = kept
    BY <1>5, <2>1, <2>3, AppendProperties
  <2>5. ASSUME NEW i \in 1..Len(retained') PROVE retained'[i] \in Outcomes(retained'[i].source)
    <3>1. i \in 1..Len(retained) \/ i = Len(retained) + 1
      BY <1>5, <2>4, LenProperties
    <3>2. QED
      BY <1>1, <2>1, <2>3, <2>4, <3>1 DEF SelectionInv
  <2>6. QED
    BY <1>1, <1>3, <1>4, <2>2, <2>4, <2>5 DEF SelectionInv
<1>8. ASSUME NEW entry \in Entries, Omit(entry) PROVE SelectionInv'
  <2>1. omitted' = Append(omitted, entry) /\ retained' = retained /\ Omissible(entry)
    BY <1>8 DEF Omit, Omissible
  <2>2. /\ omitted' \in Seq(Entries) /\ Len(omitted') = Len(omitted) + 1
        /\ \A i \in 1..Len(omitted) : omitted'[i] = omitted[i]
        /\ omitted'[Len(omitted) + 1] = entry
    BY <1>5, <2>1, AppendProperties
  <2>3. ASSUME NEW i \in 1..Len(omitted') PROVE Omissible(omitted'[i])
    <3>1. i \in 1..Len(omitted) \/ i = Len(omitted) + 1
      BY <1>5, <2>2, LenProperties
    <3>2. QED
      BY <1>1, <2>1, <2>2, <3>1 DEF SelectionInv
  <2>4. QED
    BY <1>1, <1>3, <1>4, <2>1, <2>2, <2>3 DEF SelectionInv
<1>9. CASE Refuse \/ Finish \/ UNCHANGED vars
  BY <1>6, <1>9 DEF Refuse, Finish, vars
<1>10. QED
  BY <1>1, <1>7, <1>8, <1>9 DEF Next

(* It holds in every state of a run. *)
LEMMA SelectionInvariance == Spec => []SelectionInv
<1>1. QED
  BY InitSelection, SelectionStep, PTL DEF Spec

-----------------------------------------------------------------------------
(* The theorems.                                                           *)

(* What is kept under a source below /workspace. *)
LEMMA KeptAs ==
  ASSUME SelectionInv, NEW kept \in Resolved
  PROVE  /\ ~Ambiguous /\ root \in Roots /\ kept \in Kept /\ SourceRelative(kept.source) # NoPath
         /\ \E name : /\ Named(kept.source, name)
                      /\ kept = Translated(kept.source, SourceRelative(kept.source), name)
                      /\ kept.file.parts = Workspace \o name
                      /\ After(kept.file.parts, 1) = name
<1>1. PICK i \in DOMAIN retained : kept = retained[i] /\ Len(kept.file.parts) > 1
  BY DEF Resolved
<1>2. i \in 1..Len(retained)
  BY <1>1, LenProperties DEF SelectionInv
<1>. DEFINE entry == kept.source
     rel == SourceRelative(entry)
<1>3. ~Ambiguous /\ root \in Roots /\ kept \in Kept /\ kept \in Outcomes(entry)
  BY <1>1, <1>2, ElementOfSeq DEF SelectionInv
<1>4. entry \in Entries
  BY <1>3 DEF Kept
<1>5. PICK name : Named(entry, name) /\ kept = Translated(entry, rel, name)
  BY <1>3, <1>4, OutcomeNamed
<1>. HIDE DEF entry
<1>6. kept.file = IF rel # NoPath THEN Path("posix", Workspace \o name)
                                  ELSE WorkspacePath(entry.file)
  BY <1>5 DEF Translated, Workspace
<1>7. rel # NoPath
  <2>1. SUFFICES ASSUME rel = NoPath PROVE FALSE
    OBVIOUS
  <2>2. Len(WorkspacePath(entry.file).parts) <= 1
    BY <1>3, <1>4, <2>1, NoSource
  <2>3. WorkspacePath(entry.file).parts \in Seq(Components)
    BY <1>3, <1>4, EntryTyped, WorkspacePathTyped DEF Located
  <2>4. Len(WorkspacePath(entry.file).parts) \in Nat
    BY <2>3, LenProperties
  <2>5. kept.file = WorkspacePath(entry.file)
    BY <1>6, <2>1
  <2>6. QED
    BY <1>1, <2>2, <2>4, <2>5
<1>8. kept.file.parts = Workspace \o name
  BY <1>6, <1>7 DEF Path
<1>9. name \in Seq(Components)
  BY <1>5 DEF Named
<1>10. After(kept.file.parts, 1) = name
  BY <1>8, <1>9, BelowWorkspace
<1>11. QED
  BY <1>3, <1>5, <1>7, <1>8, <1>10 DEF entry

\* No source climbs, as those of the run selection_escape do.
NoClimber == \A source \in Sources : source.anchor = "relative" => ~Climbs(source.parts)

(* A source that is found keeps its place below the root, when no entry climbs out. *)
LEMMA InPlace ==
  ASSUME NoClimber, root \in Roots, NEW entry \in Entries, SourceRelative(entry) # NoPath
  PROVE  SourceRelative(entry).parts = Below(Absolute(entry))
<1>1. entry.file \in Sources
  BY DEF Entries
<1>2. QED
  BY <1>1, SourceInPlace DEF NoClimber

(* `transform`: an entry that is given a source below /workspace is given the
   one its path leads to on the host, through whatever "..", spelling and root,
   when no relative source climbs. *)
THEOREM KeepsInPlace == ASSUME NoClimber PROVE Spec => []KeptInPlace
<1>1. ASSUME SelectionInv PROVE KeptInPlace
  <2>1. SUFFICES ASSUME NEW kept \in Resolved
                 PROVE  Folded(After(kept.file.parts, 1)) = Folded(Below(Absolute(kept.source)))
    BY DEF KeptInPlace
  <2>. DEFINE entry == kept.source
  <2>2. root \in Roots /\ entry \in Entries /\ SourceRelative(entry) # NoPath
    BY <1>1, KeptAs DEF Kept
  <2>3. Folded(After(kept.file.parts, 1)) = Folded(SourceRelative(entry).parts)
    BY <1>1, KeptAs DEF Named
  <2>4. SourceRelative(entry).parts = Below(Absolute(entry))
    BY <2>2, InPlace
  <2>5. QED
    BY <2>3, <2>4
<1>2. QED
  BY <1>1, SelectionInvariance, PTL

(* With a manifest, a name is kept in the manifest's spelling and no other, and
   left out only when the manifest has it in no spelling. *)
THEOREM SelectsExactly == ASSUME NoClimber PROVE Spec => []SelectionExact
<1>1. ASSUME SelectionInv, selecting, NEW kept \in Resolved
      PROVE  {n \in manifest : Folded(n) = Folded(After(kept.file.parts, 1))}
               = {After(kept.file.parts, 1)}
  <2>1. PICK name : Named(kept.source, name) /\ After(kept.file.parts, 1) = name
    BY <1>1, KeptAs
  <2>2. ~Ambiguous /\ name \in manifest
    BY <1>1, <2>1, KeptAs DEF Named
  <2>3. \A n \in manifest : Folded(n) = Folded(name) => n = name
    BY <2>2 DEF Ambiguous
  <2>4. QED
    BY <2>1, <2>2, <2>3
<1>2. ASSUME SelectionInv, NEW i \in DOMAIN omitted
      PROVE  LET name == Below(Absolute(omitted[i]))
             IN name # <<>> /\ \A n \in manifest : Folded(n) # Folded(name)
  <2>. DEFINE entry == omitted[i]
       rel == SourceRelative(entry)
  <2>1. i \in 1..Len(omitted) /\ omitted \in Seq(Entries) /\ root \in Roots
    BY <1>2, LenProperties DEF SelectionInv
  <2>2. entry \in Entries /\ Omissible(entry)
    BY <1>2, <2>1, ElementOfSeq DEF SelectionInv
  <2>3. rel # NoPath /\ Canonical(rel.parts) = {}
    BY <2>2 DEF Omissible
  <2>4. rel.parts = Below(Absolute(entry)) /\ rel.parts # <<>>
    BY <2>1, <2>2, <2>3, InPlace, RelativeTyped
  <2>5. \A n \in manifest : Folded(n) # Folded(rel.parts)
    BY <2>3 DEF Canonical
  <2>6. QED
    BY <2>4, <2>5
<1>3. SelectionInv => SelectionExact
  BY <1>1, <1>2 DEF SelectionExact
<1>4. QED
  BY <1>3, SelectionInvariance, PTL

(* A source below the root is never kept as unresolved, whatever it is called,
   when its path stays below the root from its directory on. *)
THEOREM ResolvesInside == Spec => []InsideIsResolved
<1>1. ASSUME SelectionInv PROVE InsideIsResolved
  <2>. SUFFICES ASSUME NEW i \in DOMAIN retained,
                       Below(Absolute(retained[i].source)) # <<>>,
                       retained[i].source.file.anchor # "relative" \/ StaysBelow(retained[i].source)
                PROVE  retained[i] \in Resolved
    BY DEF InsideIsResolved
  <2>. DEFINE kept == retained[i]
       entry == kept.source
       rel == SourceRelative(entry)
  <2>1. i \in 1..Len(retained)
    BY <1>1, LenProperties DEF SelectionInv
  <2>2. root \in Roots /\ kept \in Kept /\ kept \in Outcomes(entry)
    BY <1>1, <2>1, ElementOfSeq DEF SelectionInv
  <2>3. entry \in Entries
    BY <2>2 DEF Kept
  <2>4. rel # NoPath
    BY <2>2, <2>3, InsideFound
  <2>5. PICK name : Named(entry, name) /\ kept = Translated(entry, rel, name)
    BY <1>1, <2>2, <2>3, OutcomeNamed
  <2>6. rel.parts \in Seq(Components) /\ rel.parts # <<>>
    BY <2>2, <2>3, <2>4, RelativeTyped
  <2>7. name \in Seq(Components) /\ Folded(name) = Folded(rel.parts)
    BY <2>5 DEF Named
  <2>. HIDE DEF kept, entry, rel
  <2>8. Len(name) = Len(rel.parts)
    BY <2>6, <2>7, FoldedAlike
  <2>9. Len(name) \in Nat /\ Len(name) # 0
    BY <2>6, <2>7, <2>8, LenProperties, EmptySeq
  <2>10. kept.file.parts = Workspace \o name
    BY <2>4, <2>5 DEF Translated, Workspace, Path
  <2>11. Len(kept.file.parts) > 1
    BY <2>7, <2>9, <2>10, BelowWorkspace
  <2>12. QED
    BY <2>11 DEF Resolved, kept
<1>2. QED
  BY <1>1, SelectionInvariance, PTL

\* The directory is respelled: its container path leads to the source.
LeadsTo(directory, rel) ==
  /\ Windows /\ rel # NoPath /\ directory # NoPath
  /\ Len(After(directory.parts, 1)) <= Len(rel.parts)
  /\ Folded(After(directory.parts, 1))
       = SubSeq(Folded(rel.parts), 1, Len(After(directory.parts, 1)))

(* The components of what is put below the workspace. *)
LEMMA WorkspaceParts ==
  ASSUME NEW r \in Seq(Components)
  PROVE  /\ Workspace \o r \in Seq(Components) /\ Len(Workspace \o r) = Len(r) + 1
         /\ \A i \in 1..Len(r) : (Workspace \o r)[i + 1] = r[i]
         /\ \A q \in Seq(Components) : (Workspace \o r)[1] = (Workspace \o q)[1]
<1>1. ASSUME NEW q \in Seq(Components)
      PROVE  /\ Workspace \o q \in Seq(Components) /\ Len(Workspace \o q) = Len(q) + 1
             /\ Len(q) \in Nat
             /\ \A i \in 1..Len(q) + 1 :
                  (Workspace \o q)[i] = IF i <= 1 THEN Workspace[i] ELSE q[i - 1]
  <2>. DEFINE c == Workspace \o q
       k == Len(Workspace)
  <2>1. /\ c \in Seq(Components) /\ Len(c) = k + Len(q)
        /\ \A i \in 1..k + Len(q) : c[i] = IF i <= k THEN Workspace[i] ELSE q[i - k]
    BY WorkspaceTyped, ConcatProperties
  <2>2. k = 1 /\ Len(q) \in Nat
    BY WorkspaceTyped, LenProperties
  <2>3. k + Len(q) = Len(q) + 1
    BY <2>2
  <2>. HIDE DEF c, k
  <2>4. \A i \in 1..Len(q) + 1 : c[i] = IF i <= 1 THEN Workspace[i] ELSE q[i - 1]
    BY <2>1, <2>2
  <2>5. QED
    BY <2>1, <2>2, <2>3, <2>4 DEF c
<1>2. \A i \in 1..Len(r) : (Workspace \o r)[i + 1] = r[i]
  <2>. DEFINE c == Workspace \o r
  <2>1. Len(r) \in Nat /\ \A i \in 1..Len(r) + 1 :
          c[i] = IF i <= 1 THEN Workspace[i] ELSE r[i - 1]
    BY <1>1
  <2>. HIDE DEF c
  <2>2. ASSUME NEW i \in 1..Len(r) PROVE c[i + 1] = r[i]
    <3>1. /\ i + 1 \in 1..Len(r) + 1 /\ ~(i + 1 <= 1) /\ i + 1 - 1 = i
      BY <2>1
    <3>2. QED
      BY <2>1, <3>1
  <2>3. QED
    BY <2>2 DEF c
<1>3. ASSUME NEW q \in Seq(Components) PROVE (Workspace \o q)[1] = Workspace[1]
  <2>. DEFINE c == Workspace \o q
  <2>1. Len(q) \in Nat /\ \A i \in 1..Len(q) + 1 :
          c[i] = IF i <= 1 THEN Workspace[i] ELSE q[i - 1]
    BY <1>1
  <2>. HIDE DEF c
  <2>2. c[1] = Workspace[1]
    BY <2>1
  <2>3. QED
    BY <2>2 DEF c
<1>4. QED
  BY <1>1, <1>2, <1>3

(* The start of a name leads to the start of the path of the whole name. *)
LEMMA PrefixOfName ==
  ASSUME NEW name \in Seq(Components), NEW m \in 0..Len(name)
  PROVE  LET s == Workspace \o SubSeq(name, 1, m)
         IN s = SubSeq(Workspace \o name, 1, Len(s))
<1>. DEFINE s == SubSeq(name, 1, m)
     a == Workspace \o s
     c == Workspace \o name
     n == m + 1
     b == SubSeq(c, 1, n)
<1>1. s \in Seq(Components) /\ Len(s) = m /\ \A i \in 1..m : s[i] = name[i]
  BY SplitAt
<1>2. /\ c \in Seq(Components) /\ Len(c) = Len(name) + 1
      /\ \A i \in 1..Len(name) : c[i + 1] = name[i]
  BY WorkspaceParts
<1>. HIDE DEF s
<1>3. /\ a \in Seq(Components) /\ Len(a) = m + 1
      /\ \A i \in 1..m : a[i + 1] = s[i]
      /\ a[1] = c[1]
  BY <1>1, WorkspaceParts
<1>4. n \in 0..Len(c) /\ n \in Nat /\ Len(name) \in Nat /\ m \in Nat
  BY <1>2, LenProperties
<1>. HIDE DEF a, c
<1>5. b \in Seq(Components) /\ Len(b) = n /\ \A i \in 1..n : b[i] = c[i]
  BY <1>2, <1>4, SplitAt
<1>. HIDE DEF b
<1>6. \A i \in 1..n : a[i] = b[i]
  <2>1. SUFFICES ASSUME NEW i \in 1..n PROVE a[i] = b[i]
    OBVIOUS
  <2>2. i \in Nat /\ b[i] = c[i] /\ (i = 1 \/ i - 1 \in 1..m)
    BY <1>4, <1>5
  <2>3. CASE i = 1
    BY <1>3, <2>2, <2>3
  <2>4. ASSUME NEW j \in 1..m, j = i - 1 PROVE a[i] = b[i]
    <3>1. j \in 1..Len(name) /\ i = j + 1
      BY <1>4, <2>2, <2>4
    <3>2. a[j + 1] = s[j] /\ c[j + 1] = name[j] /\ s[j] = name[j]
      BY <1>1, <1>2, <1>3, <3>1
    <3>3. QED
      BY <2>2, <3>1, <3>2
  <2>5. QED
    BY <2>2, <2>3, <2>4
<1>7. a = b
  BY <1>3, <1>4, <1>5, <1>6, SeqEqual
<1>8. QED
  BY <1>3, <1>7 DEF a, b, c, s, n

(* A path is folded one component at a time. *)
LEMMA FoldedPart ==
  ASSUME NEW z \in Seq(Components), NEW i \in 1..Len(z)
  PROVE  Folded(z)[i] = IF Windows THEN Fold[z[i]] ELSE z[i]
BY LenProperties DEF Folded

(* A container directory that folds like the start of the source leads to it. *)
LEMMA LeadingFolds ==
  ASSUME Windows, NEW r \in Seq(Components), NEW name \in Seq(Components),
         NEW rel, rel # NoPath, rel.parts \in Seq(Components),
         Folded(name) = Folded(rel.parts),
         NEW directory, directory # NoPath, directory.parts = Workspace \o r,
         Len(directory.parts) <= Len(Workspace \o name),
         Folded(directory.parts) = Folded(SubSeq(Workspace \o name, 1, Len(directory.parts)))
  PROVE  LeadsTo(directory, rel)
<1>. DEFINE m == Len(r)
     c == Workspace \o name
     d == Workspace \o r
     b == SubSeq(c, 1, Len(d))
<1>1. /\ c \in Seq(Components) /\ Len(c) = Len(name) + 1
      /\ \A i \in 1..Len(name) : c[i + 1] = name[i]
  BY WorkspaceParts
<1>2. d \in Seq(Components) /\ Len(d) = m + 1 /\ \A i \in 1..m : d[i + 1] = r[i]
  BY WorkspaceParts
<1>3. After(directory.parts, 1) = r
  BY BelowWorkspace
<1>4. m \in Nat /\ Len(name) \in Nat /\ m <= Len(name)
  BY <1>1, <1>2, LenProperties
<1>5. Len(name) = Len(rel.parts) /\ \A i \in 1..Len(name) : Folded(name)[i] = Folded(rel.parts)[i]
  BY FoldedAlike
<1>6. b \in Seq(Components) /\ Len(b) = Len(d) /\ \A i \in 1..Len(d) : b[i] = c[i]
  <2>. HIDE DEF c, d
  <2>1. Len(d) \in 0..Len(c)
    BY <1>1, <1>2, <1>4
  <2>2. QED
    BY <1>1, <2>1, SplitAt
<1>7. Folded(d) = Folded(b)
  OBVIOUS
<1>. HIDE DEF b, c, d
<1>8. \A i \in 1..m : Folded(r)[i] = Folded(rel.parts)[i]
  <2>1. SUFFICES ASSUME NEW i \in 1..m PROVE Folded(r)[i] = Folded(rel.parts)[i]
    OBVIOUS
  <2>. DEFINE j == i + 1
  <2>2. j \in 1..Len(d) /\ j \in 1..Len(b) /\ i \in 1..Len(name)
    BY <1>1, <1>2, <1>4, <1>6
  <2>3. d[j] = r[i] /\ b[j] = name[i]
    BY <1>1, <1>2, <1>6, <2>2
  <2>. HIDE DEF j
  <2>4. Folded(d)[j] = Folded(r)[i]
    <3>1. Folded(d)[j] = IF Windows THEN Fold[d[j]] ELSE d[j]
      BY <1>2, <2>2, FoldedPart
    <3>2. Folded(r)[i] = IF Windows THEN Fold[r[i]] ELSE r[i]
      BY FoldedPart
    <3>3. QED
      BY <2>3, <3>1, <3>2
  <2>5. Folded(b)[j] = Folded(name)[i]
    BY <1>6, <2>2, <2>3, FoldedPart
  <2>6. QED
    BY <1>5, <1>7, <2>2, <2>4, <2>5
<1>9. Folded(r) = SubSeq(Folded(rel.parts), 1, m)
  <2>. DEFINE f == Folded(rel.parts)
       g == SubSeq(f, 1, m)
  <2>1. DOMAIN Folded(r) = 1..m /\ Folded(r) = [i \in 1..m |-> Folded(r)[i]]
    BY LenProperties DEF Folded
  <2>2. g = [i \in 1..m |-> f[i]]
    BY <1>4 DEF f
  <2>3. QED
    BY <1>8, <2>1, <2>2
<1>10. QED
  BY <1>3, <1>4, <1>5, <1>9 DEF LeadsTo

(* On Windows the directory of a kept source is spelled as the start of the
   source's path whenever it folds alike, so that the container, where case
   counts, finds the source from its directory. *)
THEOREM DirectoryLeads == Spec => []DirectoryLeadsToSource
<1>1. ASSUME SelectionInv PROVE DirectoryLeadsToSource
  <2>. SUFFICES ASSUME Windows, NEW kept \in Resolved,
                       kept.directory.parts # <<>>,
                       Len(kept.directory.parts) <= Len(kept.file.parts),
                       Folded(kept.directory.parts)
                         = Folded(SubSeq(kept.file.parts, 1, Len(kept.directory.parts)))
                PROVE  kept.directory.parts
                         = SubSeq(kept.file.parts, 1, Len(kept.directory.parts))
    BY DEF DirectoryLeadsToSource
  <2>. DEFINE entry == kept.source
       rel == SourceRelative(entry)
       w == WorkspacePath(entry.directory)
  <2>1. PICK name : /\ Named(entry, name) /\ kept = Translated(entry, rel, name)
                    /\ kept.file.parts = Workspace \o name
    BY <1>1, KeptAs
  <2>2. root \in Roots /\ entry \in Entries /\ rel # NoPath
    BY <1>1, KeptAs DEF Kept
  <2>3. name \in Seq(Components) /\ Folded(name) = Folded(rel.parts)
    BY <2>1 DEF Named
  <2>4. rel.parts \in Seq(Components)
    BY <2>2, RelativeTyped
  <2>5. w \in Located /\ (w.parts = <<>> \/ \E r \in Seq(Components) : w.parts = Workspace \o r)
    BY <2>2, EntryTyped, WorkspacePathTyped
  <2>6. kept.directory = Respelled(w, rel, name)
    BY <2>1 DEF Translated
  <2>. HIDE DEF w, rel
  <2>7. Len(name) = Len(rel.parts)
    BY <2>3, <2>4, FoldedAlike
  <2>8. kept.directory = IF LeadsTo(w, rel)
                         THEN Path("posix", Workspace \o SubSeq(name, 1, Len(After(w.parts, 1))))
                         ELSE w
    BY <2>6 DEF Respelled, LeadsTo, Workspace
  <2>9. CASE LeadsTo(w, rel)
    <3>. DEFINE m == Len(After(w.parts, 1))
    <3>1. w # NoPath /\ m <= Len(rel.parts)
      BY <2>9 DEF LeadsTo
    <3>2. m \in Nat
      <4>1. CASE w.parts = <<>>
        BY <4>1 DEF After
      <4>2. ASSUME NEW r \in Seq(Components), w.parts = Workspace \o r PROVE m \in Nat
        BY <4>2, BelowWorkspace, LenProperties
      <4>3. QED
        BY <2>5, <4>1, <4>2
    <3>3. m \in 0..Len(name)
      BY <2>3, <2>7, <3>1, <3>2, LenProperties
    <3>4. kept.directory.parts = Workspace \o SubSeq(name, 1, m)
      BY <2>8, <2>9 DEF Path
    <3>. HIDE DEF m
    <3>5. QED
      BY <2>1, <2>3, <3>3, <3>4, PrefixOfName
  <2>10. CASE ~LeadsTo(w, rel)
    <3>1. kept.directory = w
      BY <2>8, <2>10
    <3>2. PICK r \in Seq(Components) : w.parts = Workspace \o r
      BY <2>5, <3>1
    <3>3. w # NoPath
      BY <3>1 DEF NoPath, Path
    <3>4. /\ Len(w.parts) <= Len(Workspace \o name)
          /\ Folded(w.parts) = Folded(SubSeq(Workspace \o name, 1, Len(w.parts)))
      BY <2>1, <3>1
    <3>5. LeadsTo(w, rel)
      BY <2>2, <2>3, <2>4, <3>2, <3>3, <3>4, LeadingFolds
    <3>6. QED
      BY <2>10, <3>5
  <2>11. QED
    BY <2>9, <2>10
<1>2. QED
  BY <1>1, SelectionInvariance, PTL
=============================================================================

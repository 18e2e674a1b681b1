------------------------------ MODULE MountsProof -----------------------------
(***************************************************************************)
(* Where create puts a mount, for any file system, any rootfs and any      *)
(* number of links.                                                        *)
(*                                                                         *)
(* The operators of module Mounts are recursive functions on numbers,      *)
(* paths, or ways along a path that lead over links.  RecursiveFunction    *)
(* says that such a function exists and satisfies its equation, for any    *)
(* order in which every set has something smallest; the order on ways      *)
(* counts the links first and the names after them (Below).                *)
(*                                                                         *)
(* On this rest three facts that module ConfigureProof puts together: what *)
(* create does to a file system only adds directories and files (Grown)    *)
(* and makes a destination that no link leads to (DestinationMade); in an  *)
(* image with plain links the destination is such a one, and it is where a *)
(* process of the container gets to (PlainDestination); and neither of     *)
(* these is changed by what was added for other mounts (PlainGrown).       *)
(***************************************************************************)
EXTENDS Mounts, WellFoundedInduction, SequenceTheorems, TLAPS

-----------------------------------------------------------------------------
(***************************************************************************)
(* Recursive functions                                                     *)
(***************************************************************************)

\* R is an order on S in which everything has something smallest.
IsOrder(S, R) ==
  /\ \A U \in SUBSET S : U # {} => \E x \in U : \A y \in U : <<y, x>> \notin R
  /\ \A x, y, z \in S : <<x, y>> \in R /\ <<y, z>> \in R => <<x, z>> \in R

\* F computes a value in T for everything in S, from the values for what is below.
IsRecursion(S, T, R, F) ==
  /\ T # {} /\ IsOrder(S, R)
  /\ \A x \in S : \A g \in [S -> T] : F[<<x, g>>] \in T
  /\ \A x \in S : \A g, h \in [S -> T] :
       (\A y \in S : <<y, x>> \in R => g[y] = h[y]) => F[<<x, g>>] = F[<<x, h>>]

LEMMA RecursiveFunction ==
  ASSUME NEW S, NEW T, NEW R, NEW F, IsRecursion(S, T, R, F)
  PROVE  \E f \in [S -> T] : \A x \in S : f[x] = F[<<x, f>>]
<1>0. PICK t : t \in T
  BY DEF IsRecursion
<1> DEFINE Upto(x) == {y \in S : y = x \/ <<y, x>> \in R}
           Try(x, g) == g \in [S -> T] /\ \A y \in Upto(x) : g[y] = F[<<y, g>>]
<1>1. \A U \in SUBSET S : U # {} => \E x \in U : \A y \in U : <<y, x>> \notin R
  BY DEF IsOrder, IsRecursion
<1>2. \A x, y, z \in S : <<x, y>> \in R /\ <<y, z>> \in R => <<x, z>> \in R
  BY DEF IsOrder, IsRecursion
<1>3. \A x \in S : \A g, h \in [S -> T] :
        (\A y \in S : <<y, x>> \in R => g[y] = h[y]) => F[<<x, g>>] = F[<<x, h>>]
  BY DEF IsRecursion
<1>4. \A x \in S : \A g \in [S -> T] : F[<<x, g>>] \in T
  BY DEF IsRecursion
\* Two tries agree where both are right.
<1>5. \A a, b \in S : \A g, h :
        Try(a, g) /\ Try(b, h) => \A y \in Upto(a) \cap Upto(b) : g[y] = h[y]
  <2> TAKE a, b \in S
  <2> TAKE g, h
  <2> HAVE Try(a, g) /\ Try(b, h)
  <2> DEFINE U == {y \in Upto(a) \cap Upto(b) : g[y] # h[y]}
  <2>1. SUFFICES ASSUME U # {} PROVE FALSE
    OBVIOUS
  <2>2. PICK x \in U : \A y \in U : <<y, x>> \notin R
    <3>1. U \in SUBSET S
      OBVIOUS
    <3> QED BY <3>1, <2>1, <1>1, Zenon
  <2>3. \A y \in S : <<y, x>> \in R => g[y] = h[y]
    <3> SUFFICES ASSUME NEW y \in S, <<y, x>> \in R PROVE g[y] = h[y]
      OBVIOUS
    <3>1. y \in Upto(a) \cap Upto(b)
      BY <1>2, <2>2, Zenon
    <3> QED BY <3>1, <2>2, Zenon
  <2>4. F[<<x, g>>] = F[<<x, h>>]
    BY <2>2, <2>3, <1>3
  <2> QED BY <2>2, <2>4, Zenon
\* What all the tries below x agree on can be extended to x.
<1> DEFINE Tried(x) == \E g : Try(x, g)
           Some(x) == CHOOSE g : Try(x, g)
<1> DEFINE all == [y \in S |-> IF Tried(y) THEN Some(y)[y] ELSE t]
<1>6. all \in [S -> T]
  <2>1. ASSUME NEW y \in S, Tried(y) PROVE Some(y)[y] \in T
    <3>1. Try(y, Some(y))
      BY <2>1, Zenon
    <3> QED BY <3>1, Zenon
  <2> QED BY <1>0, <2>1, Zenon
<1>7. ASSUME NEW x \in S, Tried(x) PROVE all[x] = F[<<x, all>>] /\ \A y \in Upto(x) : Tried(y)
  <2>1. Try(x, Some(x)) /\ all[x] = Some(x)[x]
    BY <1>7, Zenon
  <2>2. ASSUME NEW y \in Upto(x) PROVE Try(y, Some(x))
    <3>1. Upto(y) \subseteq Upto(x)
      BY <1>2, Zenon
    <3> QED BY <2>1, <3>1, Zenon
  <2>3. \A y \in Upto(x) : Tried(y)
    BY <2>2, Zenon
  <2>4. ASSUME NEW y \in S, <<y, x>> \in R PROVE all[y] = Some(x)[y]
    <3>1. y \in Upto(x) /\ y \in Upto(y)
      BY <2>4
    <3>2. Try(y, Some(y)) /\ all[y] = Some(y)[y]
      BY <2>3, <3>1, Zenon
    <3>3. Some(y)[y] = Some(x)[y]
      <4> HIDE DEF Try, Upto, Some
      <4>1. \A z \in Upto(y) \cap Upto(x) : Some(y)[z] = Some(x)[z]
        BY <3>2, <2>1, <1>5
      <4> QED BY <3>1, <4>1
    <3> QED BY <3>2, <3>3
  <2>5. F[<<x, all>>] = F[<<x, Some(x)>>]
    BY <2>4, <2>1, <1>3, <1>6, Zenon
  <2>6. x \in Upto(x)
    OBVIOUS
  <2> QED BY <2>1, <2>3, <2>5, <2>6, Zenon
<1>8. \A x \in S : Tried(x)
  <2> DEFINE U == {x \in S : ~ Tried(x)}
  <2>1. SUFFICES ASSUME U # {} PROVE FALSE
    OBVIOUS
  <2>2. PICK x \in U : \A y \in U : <<y, x>> \notin R
    <3>1. U \in SUBSET S
      OBVIOUS
    <3> QED BY <3>1, <2>1, <1>1, Zenon
  <2>3. \A y \in S : <<y, x>> \in R => Tried(y)
    BY <2>2, Zenon
  <2> DEFINE g == [y \in S |-> IF y = x THEN F[<<x, all>>] ELSE all[y]]
  <2>4. <<x, x>> \notin R /\ x \in S
    BY <2>2, Zenon
  <2>5. g \in [S -> T] /\ g[x] = F[<<x, all>>] /\ \A y \in S : y # x => g[y] = all[y]
    BY <2>4, <1>4, <1>6, Zenon
  <2> HIDE DEF g, all
  <2>6. ASSUME NEW y \in Upto(x) PROVE g[y] = F[<<y, g>>]
    <3>1. \A z \in S : <<z, y>> \in R => z # x
      BY <1>2, <2>4, Zenon
    <3>2. \A z \in S : <<z, y>> \in R => g[z] = all[z]
      BY <3>1, <2>5, Zenon
    <3>3. F[<<y, g>>] = F[<<y, all>>]
      BY <3>2, <2>5, <1>3, <1>6, Zenon
    <3>4. CASE y = x
      BY <3>4, <3>3, <2>5, Zenon
    <3>5. CASE y # x
      <4>1. y \in S /\ Tried(y)
        BY <3>5, <2>3, Zenon
      <4>2. all[y] = F[<<y, all>>]
        BY <4>1, <1>7, Zenon
      <4> QED BY <3>5, <3>3, <4>1, <4>2, <2>5, Zenon
    <3> QED BY <3>4, <3>5
  <2>7. Try(x, g)
    BY <2>5, <2>6, Zenon
  <2> QED BY <2>2, <2>7, Zenon
<1> HIDE DEF all
<1> QED BY <1>6, <1>7, <1>8, Zenon

\* What holds of everything when it holds of all below holds of all.
LEMMA OrderInduction ==
  ASSUME NEW S, NEW R, IsOrder(S, R), NEW G,
         \A x \in S : (\A y \in S : <<y, x>> \in R => y \in G) => x \in G
  PROVE  \A x \in S : x \in G
<1> DEFINE U == S \ G
<1>1. SUFFICES ASSUME U # {} PROVE FALSE
  OBVIOUS
<1>2. PICK x \in U : \A y \in U : <<y, x>> \notin R
  <2>1. U \in SUBSET S
    OBVIOUS
  <2> QED BY <2>1, <1>1, Zenon DEF IsOrder
<1> QED BY <1>2, Zenon

\* Ordered by a number, and if it is the same by another.
Lex(S, m, k) ==
  {p \in S \X S : m[p[1]] < m[p[2]] \/ (m[p[1]] = m[p[2]] /\ k[p[1]] < k[p[2]])}

LEMMA Smallest ==
  ASSUME NEW S, NEW m \in [S -> Nat], NEW U \in SUBSET S, U # {}
  PROVE  \E x \in U : \A y \in U : m[x] <= m[y]
<1> DEFINE R == OpToRel(<, Nat)
           V == {m[x] : x \in U}
<1>1. \A x, y \in Nat : <<y, x>> \in R <=> y < x
  BY DEF OpToRel
<1>2. V \subseteq Nat /\ V # {}
  OBVIOUS
<1>3. PICK v \in V : \A y \in V : ~ (<<y, v>> \in R)
  BY <1>2, NatLessThanWellFounded, WFMin
<1> HIDE DEF R
<1>4. PICK x \in U : v = m[x]
  OBVIOUS
<1>5. ASSUME NEW y \in U PROVE m[x] <= m[y]
  <2>1. m[y] \in V /\ m[y] \in Nat /\ m[x] \in Nat
    OBVIOUS
  <2>2. ~ (m[y] < m[x])
    BY <2>1, <1>1, <1>3, <1>4
  <2> QED BY <2>1, <2>2
<1> QED BY <1>5

LEMMA LexIsOrder ==
  ASSUME NEW S, NEW m \in [S -> Nat], NEW k \in [S -> Nat]
  PROVE  IsOrder(S, Lex(S, m, k))
<1>1. ASSUME NEW x \in S, NEW y \in S
      PROVE  <<x, y>> \in Lex(S, m, k) <=> m[x] < m[y] \/ (m[x] = m[y] /\ k[x] < k[y])
  BY DEF Lex
<1>2. ASSUME NEW U \in SUBSET S, U # {}
      PROVE  \E x \in U : \A y \in U : <<y, x>> \notin Lex(S, m, k)
  <2>1. PICK a \in U : \A y \in U : m[a] <= m[y]
    BY <1>2, Smallest
  <2> DEFINE V == {x \in U : m[x] = m[a]}
  <2>2. PICK x \in V : \A y \in V : k[x] <= k[y]
    <3>1. V \in SUBSET S /\ V # {}
      OBVIOUS
    <3> HIDE DEF V
    <3> QED BY <3>1, Smallest
  <2>3. ASSUME NEW y \in U PROVE <<y, x>> \notin Lex(S, m, k)
    <3>0. x \in S /\ y \in S /\ m[x] = m[a] /\ m[a] <= m[y]
      BY <2>1
    <3>1. m[x] \in Nat /\ m[y] \in Nat /\ k[x] \in Nat /\ k[y] \in Nat
      BY <3>0
    <3>2. m[y] = m[x] => k[x] <= k[y]
      BY <2>2, <3>0
    <3>3. ~ (m[y] < m[x] \/ (m[y] = m[x] /\ k[y] < k[x]))
      BY <3>0, <3>1, <3>2
    <3> QED BY <3>0, <3>3, <1>1
  <2> QED BY <2>3
<1>3. ASSUME NEW x \in S, NEW y \in S, NEW z \in S,
             <<x, y>> \in Lex(S, m, k), <<y, z>> \in Lex(S, m, k)
      PROVE  <<x, z>> \in Lex(S, m, k)
  <2>1. /\ m[x] \in Nat /\ m[y] \in Nat /\ m[z] \in Nat
        /\ k[x] \in Nat /\ k[y] \in Nat /\ k[z] \in Nat
    OBVIOUS
  <2>2. /\ m[x] < m[y] \/ (m[x] = m[y] /\ k[x] < k[y])
        /\ m[y] < m[z] \/ (m[y] = m[z] /\ k[y] < k[z])
    BY <1>1, <1>3
  <2>3. m[x] < m[z] \/ (m[x] = m[z] /\ k[x] < k[z])
    BY <2>1, <2>2
  <2> QED BY <2>3, <1>1
<1> QED BY <1>2, <1>3 DEF IsOrder

\* Numbers from 0 on.
LEMMA NumbersInduction ==
  ASSUME NEW n \in Nat, NEW G, 0 \in G, \A i \in 1 .. n : i - 1 \in G => i \in G
  PROVE  \A i \in 0 .. n : i \in G
<1> DEFINE m == [i \in 0 .. n |-> i]
           U == (0 .. n) \ G
<1>1. SUFFICES ASSUME U # {} PROVE FALSE
  OBVIOUS
<1>2. m \in [0 .. n -> Nat] /\ U \in SUBSET (0 .. n)
  OBVIOUS
<1>3. PICK x \in U : \A y \in U : m[x] <= m[y]
  <2> HIDE DEF m, U
  <2> QED BY <1>1, <1>2, Smallest
<1>4. x \in 1 .. n /\ x - 1 \in 0 .. n
  OBVIOUS
<1>5. x - 1 \in U
  BY <1>4
<1>6. m[x] = x /\ m[x - 1] = x - 1
  BY <1>4
<1> QED BY <1>3, <1>4, <1>5, <1>6

\* Values in T that F computes one from the other.
IsIteration(n, T, b, F) ==
  n \in Nat /\ b \in T /\ \A i \in 1 .. n : \A x \in T : F[<<i, x>>] \in T

LEMMA Iteration ==
  ASSUME NEW n, NEW T, NEW b, NEW F, IsIteration(n, T, b, F)
  PROVE  \E f \in [0 .. n -> T] : f[0] = b /\ \A i \in 1 .. n : f[i] = F[<<i, f[i - 1]>>]
<1> DEFINE S == 0 .. n
           m == [i \in S |-> i]
           R == Lex(S, m, m)
           H == [a \in S \X [S -> T] |-> IF a[1] = 0 THEN b ELSE F[<<a[1], a[2][a[1] - 1]>>]]
<1> USE DEF IsIteration
<1>1. IsOrder(S, R)
  <2>1. m \in [S -> Nat]
    OBVIOUS
  <2> HIDE DEF m
  <2> QED BY <2>1, LexIsOrder
<1>2. \A i \in 1 .. n : i \in S /\ i - 1 \in S /\ i # 0 /\ <<i - 1, i>> \in R
  BY DEF Lex
<1>3. \A i \in S : i # 0 => i \in 1 .. n
  OBVIOUS
<1>0. 0 \in S
  OBVIOUS
<1> HIDE DEF R, S
<1>4. \A i \in S : \A g \in [S -> T] :
        H[<<i, g>>] = IF i = 0 THEN b ELSE F[<<i, g[i - 1]>>]
  OBVIOUS
<1> HIDE DEF H
<1>5. ASSUME NEW i \in S, NEW g \in [S -> T] PROVE H[<<i, g>>] \in T
  <2>1. CASE i # 0
    <3>1. i \in 1 .. n /\ g[i - 1] \in T
      BY <2>1, <1>2, <1>3
    <3> QED BY <2>1, <3>1, <1>4
  <2> QED BY <2>1, <1>4
<1>6. IsRecursion(S, T, R, H)
  <2> SUFFICES ASSUME NEW i \in S, NEW g \in [S -> T], NEW h \in [S -> T],
                      \A y \in S : <<y, i>> \in R => g[y] = h[y]
               PROVE  H[<<i, g>>] = H[<<i, h>>]
    BY <1>1, <1>5 DEF IsRecursion
  <2>1. i # 0 => g[i - 1] = h[i - 1]
    BY <1>2, <1>3
  <2> QED BY <2>1, <1>4
<1>7. PICK f \in [S -> T] : \A i \in S : f[i] = H[<<i, f>>]
  BY <1>6, RecursiveFunction
<1>8. f[0] = b
  BY <1>0, <1>4, <1>7
<1>9. \A i \in 1 .. n : f[i] = F[<<i, f[i - 1]>>]
  BY <1>2, <1>4, <1>7
<1> QED BY <1>7, <1>8, <1>9 DEF S

-----------------------------------------------------------------------------
(***************************************************************************)
(* Paths                                                                   *)
(***************************************************************************)

\* A path without its last name.
LEMMA FrontFacts ==
  ASSUME NEW S, NEW p \in Seq(S)
  PROVE  /\ Front(p) \in Seq(S)
         /\ p # <<>> => /\ Len(p) \in Nat \ {0} /\ Len(Front(p)) = Len(p) - 1
                        /\ Last(p) \in S /\ p = Append(Front(p), Last(p))
<1>1. CASE p = <<>>
  BY <1>1 DEF Front
<1>2. CASE p # <<>>
  <2>1. Len(p) \in Nat \ {0} /\ Len(p) - 1 \in 0 .. Len(p) /\ Last(p) \in S
    BY <1>2 DEF Last
  <2>2. /\ Front(p) \in Seq(S) /\ Len(Front(p)) = Len(p) - 1
        /\ \A i \in 1 .. Len(p) - 1 : Front(p)[i] = p[i]
    <3>1. PICK n \in 0 .. Len(p) : n = Len(p) - 1
      BY <2>1
    <3>2. \A i \in 1 .. n : p[i] \in S
      BY <3>1
    <3>3. n \in Int /\ n - 1 + 1 = n /\ (IF 1 <= n THEN n - 1 + 1 ELSE 0) = n
      BY <3>1
    <3>4. /\ SubSeq(p, 1, n) \in Seq(S)
          /\ Len(SubSeq(p, 1, n)) = IF 1 <= n THEN n - 1 + 1 ELSE 0
          /\ \A i \in 1 .. n - 1 + 1 : SubSeq(p, 1, n)[i] = p[1 + i - 1]
      BY <3>2, <3>3, SubSeqProperties
    <3>5. Front(p) = SubSeq(p, 1, n)
      BY <3>1 DEF Front
    <3>6. \A i \in 1 .. n : 1 + i - 1 = i
      BY <3>3
    <3> QED BY <3>1, <3>3, <3>4, <3>5, <3>6
  <2>3. p = Append(Front(p), Last(p))
    <3> DEFINE a == Append(Front(p), Last(p))
    <3>1. a \in Seq(S) /\ Len(a) = Len(p)
      BY <2>1, <2>2
    <3>2. \A i \in 1 .. Len(p) : a[i] = p[i]
      BY <2>1, <2>2 DEF Last
    <3> HIDE DEF a
    <3>3. p = a
      BY <3>1, <3>2
    <3> QED BY <3>3 DEF a
  <2> QED BY <2>1, <2>2, <2>3
<1> QED BY <1>1, <1>2

LEMMA AppendFacts ==
  ASSUME NEW S, NEW p \in Seq(S), NEW x \in S
  PROVE  /\ Append(p, x) \in Seq(S) /\ Append(p, x) # <<>> /\ Len(Append(p, x)) = Len(p) + 1
         /\ Len(p) \in Nat
         /\ Front(Append(p, x)) = p /\ Last(Append(p, x)) = x /\ p \o <<x>> = Append(p, x)
         /\ DOMAIN Append(p, x) = 1 .. Len(p) + 1 /\ Append(p, x)[Len(p) + 1] = x
         /\ \A i \in 1 .. Len(p) : Append(p, x)[i] = p[i]
BY DEF Front, Last

\* What holds of the empty path, and with a path of all that are one name longer.
LEMMA PathInduction ==
  ASSUME NEW S, NEW G, <<>> \in G,
         \A p \in Seq(S) : p \in G => \A x \in S : Append(p, x) \in G
  PROVE  \A p \in Seq(S) : p \in G
<1> TAKE p \in Seq(S)
<1> DEFINE N == Len(p)
           H == {i \in 0 .. N : \A q \in Seq(S) : Len(q) = i => q \in G}
<1>0. N \in Nat
  OBVIOUS
<1>1. 0 \in H
  <2>1. \A q \in Seq(S) : Len(q) = 0 => q = <<>>
    OBVIOUS
  <2> QED BY <2>1, <1>0
<1>2. ASSUME NEW i \in 1 .. N, i - 1 \in H PROVE i \in H
  <2>1. i \in 0 .. N
    BY <1>0
  <2>2. ASSUME NEW q \in Seq(S), Len(q) = i PROVE q \in G
    <3>1. q # <<>>
      BY <2>2, <1>0
    <3>2. /\ Front(q) \in Seq(S) /\ Len(Front(q)) = i - 1 /\ Last(q) \in S
          /\ q = Append(Front(q), Last(q))
      BY <3>1, <2>2, FrontFacts
    <3>3. Front(q) \in G
      BY <3>2, <1>2, Zenon
    <3> QED BY <3>2, <3>3
  <2> QED BY <2>1, <2>2
<1>3. N \in H
  <2> HIDE DEF H, N
  <2>1. \A i \in 0 .. N : i \in H
    BY <1>0, <1>1, <1>2, NumbersInduction
  <2> QED BY <2>1, <1>0
<1> QED BY <1>3

\* The first n names of a path, and the others.
Begin(q, n) == SubSeq(q, 1, n)
Rest(q, n)  == SubSeq(q, n + 1, Len(q))

LEMMA Split ==
  ASSUME NEW S, NEW q \in Seq(S), NEW n \in 0 .. Len(q)
  PROVE  /\ Begin(q, n) \in Seq(S) /\ Len(Begin(q, n)) = n
         /\ \A i \in 1 .. n : Begin(q, n)[i] = q[i]
         /\ Rest(q, n) \in Seq(S) /\ Len(Rest(q, n)) = Len(q) - n
         /\ \A i \in 1 .. Len(q) - n : Rest(q, n)[i] = q[n + i]
<1>0. Len(q) \in Nat /\ n \in Nat /\ \A i \in 1 .. Len(q) : q[i] \in S
  OBVIOUS
<1>1. /\ Begin(q, n) \in Seq(S) /\ Len(Begin(q, n)) = n
      /\ \A i \in 1 .. n : Begin(q, n)[i] = q[i]
  <2>1. \A i \in 1 .. n : q[i] \in S
    BY <1>0
  <2> QED BY <1>0, <2>1, SubSeqProperties DEF Begin
<1>2. /\ Rest(q, n) \in Seq(S) /\ Len(Rest(q, n)) = Len(q) - n
      /\ \A i \in 1 .. Len(q) - n : Rest(q, n)[i] = q[n + i]
  <2>1. \A i \in n + 1 .. Len(q) : q[i] \in S
    BY <1>0
  <2> QED BY <1>0, <2>1, SubSeqProperties DEF Rest
<1> QED BY <1>1, <1>2

LEMMA SplitEnds ==
  ASSUME NEW S, NEW q \in Seq(S)
  PROVE  /\ Begin(q, 0) = <<>> /\ Begin(q, Len(q)) = q
         /\ Rest(q, 0) = q /\ Rest(q, Len(q)) = <<>>
<1>0. Len(q) \in Nat
  OBVIOUS
<1>1. Begin(q, 0) = <<>> /\ Rest(q, Len(q)) = <<>>
  BY <1>0, SubSeqEmpty DEF Begin, Rest
<1>2. Begin(q, Len(q)) = q /\ Rest(q, 0) = q
  BY SubSeqFull DEF Begin, Rest
<1> QED BY <1>1, <1>2

LEMMA SplitNext ==
  ASSUME NEW S, NEW q \in Seq(S), NEW n \in 1 .. Len(q)
  PROVE  /\ q[n] \in S /\ n - 1 \in 0 .. Len(q) /\ n \in 0 .. Len(q)
         /\ Begin(q, n) = Append(Begin(q, n - 1), q[n]) /\ Begin(q, n) # <<>>
         /\ Front(Begin(q, n)) = Begin(q, n - 1) /\ Last(Begin(q, n)) = q[n]
         /\ Rest(q, n - 1) # <<>> /\ Head(Rest(q, n - 1)) = q[n]
         /\ Tail(Rest(q, n - 1)) = Rest(q, n)
<1>0. Len(q) \in Nat /\ n - 1 \in 0 .. Len(q) /\ n \in 0 .. Len(q) /\ n \in Nat /\ q[n] \in S
  OBVIOUS
<1>1. /\ Begin(q, n - 1) \in Seq(S) /\ Len(Begin(q, n - 1)) = n - 1
      /\ \A i \in 1 .. n - 1 : Begin(q, n - 1)[i] = q[i]
      /\ Rest(q, n - 1) \in Seq(S) /\ Len(Rest(q, n - 1)) = Len(q) - (n - 1)
  BY <1>0, Split
<1>2. /\ Begin(q, n) \in Seq(S) /\ Len(Begin(q, n)) = n
      /\ \A i \in 1 .. n : Begin(q, n)[i] = q[i]
  BY <1>0, Split
<1> DEFINE a == Append(Begin(q, n - 1), q[n])
<1>3. /\ a \in Seq(S) /\ Len(a) = n /\ a[n] = q[n] /\ a # <<>>
      /\ Front(a) = Begin(q, n - 1) /\ Last(a) = q[n]
      /\ \A i \in 1 .. n - 1 : a[i] = Begin(q, n - 1)[i]
  BY <1>0, <1>1, AppendFacts
<1>4. Begin(q, n) = a
  <2> HIDE DEF a
  <2>1. \A i \in 1 .. n : a[i] = Begin(q, n)[i]
    BY <1>0, <1>1, <1>2, <1>3
  <2> QED BY <1>2, <1>3, <2>1, SeqEqual
<1>5. Head(Rest(q, n - 1)) = q[n] /\ Tail(Rest(q, n - 1)) = Rest(q, n)
  <2>1. n \in 1 .. Len(q) /\ Len(q) \in n .. Len(q) /\ (n - 1) + 1 = n
    BY <1>0
  <2> QED BY <2>1, HeadTailOfSubSeq DEF Rest
<1>6. Rest(q, n - 1) # <<>>
  BY <1>0, <1>1
<1> QED BY <1>0, <1>3, <1>4, <1>5, <1>6

LEMMA SplitAgain ==
  ASSUME NEW S, NEW q \in Seq(S), NEW n \in 0 .. Len(q), NEW k \in 0 .. n
  PROVE  Begin(Begin(q, n), k) = Begin(q, k)
<1>0. Len(q) \in Nat /\ n \in Nat /\ k \in Nat /\ k \in 0 .. Len(q)
  OBVIOUS
<1> DEFINE b == Begin(q, n)
<1>1. b \in Seq(S) /\ Len(b) = n /\ \A i \in 1 .. n : b[i] = q[i]
  BY Split
<1>2. Begin(q, k) \in Seq(S) /\ Len(Begin(q, k)) = k /\ \A i \in 1 .. k : Begin(q, k)[i] = q[i]
  BY <1>0, Split
<1> HIDE DEF b
<1>3. Begin(b, k) \in Seq(S) /\ Len(Begin(b, k)) = k /\ \A i \in 1 .. k : Begin(b, k)[i] = b[i]
  <2>1. k \in 0 .. Len(b)
    BY <1>1
  <2> QED BY <1>1, <2>1, Split
<1>4. \A i \in 1 .. k : Begin(b, k)[i] = Begin(q, k)[i]
  BY <1>0, <1>1, <1>2, <1>3
<1> QED BY <1>2, <1>3, <1>4, SeqEqual DEF b

LEMMA CatFacts ==
  ASSUME NEW S, NEW t \in Seq(S), NEW r \in Seq(S)
  PROVE  /\ t \o r \in Seq(S) /\ <<>> \o r = r /\ t \o <<>> = t
         /\ t # <<>> => t \o r # <<>> /\ Head(t \o r) = Head(t) /\ Tail(t \o r) = Tail(t) \o r
<1>1. t \o r \in Seq(S) /\ <<>> \o r = r /\ t \o <<>> = t
  BY ConcatEmptySeq, ConcatProperties
<1>2. ASSUME t # <<>> PROVE t \o r # <<>> /\ Head(t \o r) = Head(t) /\ Tail(t \o r) = Tail(t) \o r
  <2> DEFINE c == t \o r
             a == Tail(c)
             b == Tail(t) \o r
  <2>1. Len(t) \in Nat \ {0} /\ Len(r) \in Nat
    BY <1>2
  <2>2. /\ c \in Seq(S) /\ Len(c) = Len(t) + Len(r) /\ c # <<>>
        /\ \A i \in 1 .. Len(t) + Len(r) : c[i] = IF i <= Len(t) THEN t[i] ELSE r[i - Len(t)]
    BY <2>1, ConcatProperties
  <2>3. /\ Tail(t) \in Seq(S) /\ Len(Tail(t)) = Len(t) - 1
        /\ \A i \in 1 .. Len(t) - 1 : Tail(t)[i] = t[i + 1]
    BY <1>2, HeadTailProperties
  <2>4. /\ b \in Seq(S) /\ Len(b) = Len(t) - 1 + Len(r)
        /\ \A i \in 1 .. Len(t) - 1 + Len(r) :
             b[i] = IF i <= Len(t) - 1 THEN Tail(t)[i] ELSE r[i - (Len(t) - 1)]
    <3>1. /\ b \in Seq(S) /\ Len(b) = Len(Tail(t)) + Len(r)
          /\ \A i \in 1 .. Len(Tail(t)) + Len(r) :
               b[i] = IF i <= Len(Tail(t)) THEN Tail(t)[i] ELSE r[i - Len(Tail(t))]
      BY <2>3, ConcatProperties
    <3> QED BY <3>1, <2>3
  <2> HIDE DEF c, b
  <2>5. /\ a \in Seq(S) /\ Len(a) = Len(t) + Len(r) - 1
        /\ \A i \in 1 .. Len(t) + Len(r) - 1 : a[i] = c[i + 1]
    BY <2>1, <2>2, HeadTailProperties
  <2>6. \A i \in 1 .. Len(t) + Len(r) - 1 : a[i] = b[i]
    <3> HIDE DEF a
    <3> TAKE i \in 1 .. Len(t) + Len(r) - 1
    <3>1. i + 1 \in 1 .. Len(t) + Len(r) /\ i \in 1 .. Len(t) - 1 + Len(r)
      BY <2>1
    <3>2. a[i] = IF i + 1 <= Len(t) THEN t[i + 1] ELSE r[(i + 1) - Len(t)]
      BY <3>1, <2>2, <2>5
    <3>3. b[i] = IF i <= Len(t) - 1 THEN Tail(t)[i] ELSE r[i - (Len(t) - 1)]
      BY <3>1, <2>4
    <3>4. CASE i <= Len(t) - 1
      <4>1. i \in 1 .. Len(t) - 1 /\ i + 1 <= Len(t)
        BY <3>4, <2>1
      <4> QED BY <4>1, <3>2, <3>3, <3>4, <2>3
    <3>5. CASE ~ (i <= Len(t) - 1)
      <4>1. ~ (i + 1 <= Len(t)) /\ (i + 1) - Len(t) = i - (Len(t) - 1)
        BY <3>5, <2>1
      <4> QED BY <4>1, <3>2, <3>3, <3>5
    <3> QED BY <3>4, <3>5
  <2>7. a = b
    <3> HIDE DEF a
    <3>1. Len(a) = Len(b)
      BY <2>1, <2>4, <2>5
    <3> QED BY <2>4, <2>5, <2>6, <3>1, SeqEqual
  <2>8. Head(c) = Head(t)
    <3>1. c[1] = t[1]
      BY <2>1, <2>2
    <3> QED BY <3>1, <1>2, <2>2
  <2> QED BY <2>2, <2>7, <2>8 DEF b, c
<1> QED BY <1>1, <1>2

-----------------------------------------------------------------------------
(***************************************************************************)
(* filepath.Clean and filepath.Join                                        *)
(***************************************************************************)

\* Clean goes over the names of a path.
LEMMA CleanSteps ==
  ASSUME NEW path \in Path
  PROVE  \E c \in [0 .. Len(path) -> Path] :
           /\ c[0] = <<>> /\ Clean(path) = c[Len(path)]
           /\ \A n \in 1 .. Len(path) :
                c[n] = IF path[n] # ".." THEN Append(c[n - 1], path[n]) ELSE Front(c[n - 1])
<1> DEFINE N == Len(path)
           next(n, p) == IF path[n] # ".." THEN Append(p, path[n]) ELSE Front(p)
           F == [a \in (1 .. N) \X Path |-> next(a[1], a[2])]
<1>0. N \in Nat /\ <<>> \in Path /\ \A n \in 1 .. N : path[n] \in Names
  BY DEF Path
<1>1. \A n \in 1 .. N : \A p \in Path : next(n, p) \in Path
  BY <1>0, FrontFacts, AppendFacts DEF Path
<1>2. \A n \in 1 .. N : \A p \in Path : F[<<n, p>>] = next(n, p) /\ F[<<n, p>>] \in Path
  BY <1>1
<1> HIDE DEF N, next, F
<1>3. PICK f \in [0 .. N -> Path] : f[0] = <<>> /\ \A i \in 1 .. N : f[i] = F[<<i, f[i - 1]>>]
  <2>1. IsIteration(N, Path, <<>>, F)
    BY <1>0, <1>2 DEF IsIteration
  <2> QED BY <2>1, Iteration
<1>4. \A n \in 1 .. N : n \in 0 .. N /\ n - 1 \in 0 .. N /\ n # 0
  BY <1>0
<1>5. \A n \in 0 .. N : n # 0 => n \in 1 .. N
  BY <1>0
<1>6. \A n \in 1 .. N : f[n] = next(n, f[n - 1])
  BY <1>2, <1>3, <1>4
<1> DEFINE Body(g) == [n \in 0 .. N |-> IF n = 0 THEN <<>> ELSE next(n, g[n - 1])]
           clean == CHOOSE g : g = Body(g)
<1>7. f = Body(f)
  <2>1. \A n \in 0 .. N : f[n] = IF n = 0 THEN <<>> ELSE next(n, f[n - 1])
    BY <1>3, <1>5, <1>6, Zenon
  <2> QED BY <2>1, <1>3, Zenon
<1>8. clean = Body(clean)
  BY <1>7, Zenon
<1>9. Clean(path) = clean[N]
  BY Zenon DEF Clean, N, next
<1> HIDE DEF clean
<1>10. clean[0] = <<>> /\ \A n \in 1 .. N : clean[n] = next(n, clean[n - 1])
  <2>1. 0 \in 0 .. N
    BY <1>0
  <2> QED BY <2>1, <1>4, <1>8, Zenon
<1> DEFINE G == {n \in 0 .. N : clean[n] \in Path}
<1>11. \A n \in 0 .. N : n \in G
  <2>1. 0 \in G
    BY <1>0, <1>10
  <2>2. \A i \in 1 .. N : i - 1 \in G => i \in G
    BY <1>1, <1>4, <1>10, Zenon
  <2> HIDE DEF G
  <2> QED BY <1>0, <2>1, <2>2, NumbersInduction
<1>12. clean \in [0 .. N -> Path]
  BY <1>8, <1>11, Zenon
<1> QED BY <1>9, <1>10, <1>12 DEF N, next

\* Clean drops a name and ".." after it, and ".." at the root.
LEMMA CleanNext ==
  ASSUME NEW p \in Path, NEW x \in Names
  PROVE  Clean(Append(p, x)) = IF x # ".." THEN Append(Clean(p), x) ELSE Front(Clean(p))
<1> DEFINE q == Append(p, x)
           N == Len(p)
<1>1. /\ q \in Path /\ Len(q) = N + 1 /\ q[N + 1] = x /\ N \in Nat
      /\ \A n \in 1 .. N : q[n] = p[n]
  BY AppendFacts DEF Path
<1> HIDE DEF q
<1>2. PICK c \in [0 .. N -> Path] :
        /\ c[0] = <<>> /\ Clean(p) = c[N]
        /\ \A n \in 1 .. N : c[n] = IF p[n] # ".." THEN Append(c[n - 1], p[n]) ELSE Front(c[n - 1])
  BY CleanSteps
<1>3. PICK d \in [0 .. N + 1 -> Path] :
        /\ d[0] = <<>> /\ Clean(q) = d[N + 1]
        /\ \A n \in 1 .. N + 1 : d[n] = IF q[n] # ".." THEN Append(d[n - 1], q[n]) ELSE Front(d[n - 1])
  BY <1>1, CleanSteps
<1> HIDE DEF N
<1> DEFINE G == {n \in 0 .. N : c[n] = d[n]}
<1>4. \A n \in 0 .. N : n \in G
  <2>1. 0 \in G
    BY <1>1, <1>2, <1>3
  <2>2. ASSUME NEW n \in 1 .. N, n - 1 \in G PROVE n \in G
    <3>1. n \in 1 .. N + 1 /\ n \in 0 .. N /\ q[n] = p[n] /\ c[n - 1] = d[n - 1]
      BY <1>1, <2>2
    <3> QED BY <3>1, <1>2, <1>3, Zenon
  <2> HIDE DEF G
  <2> QED BY <1>1, <2>1, <2>2, NumbersInduction
<1>5. c[N] = d[N]
  BY <1>1, <1>4
<1>6. d[N + 1] = IF x # ".." THEN Append(d[N], x) ELSE Front(d[N])
  <2>1. N + 1 \in 1 .. N + 1 /\ (N + 1) - 1 = N
    BY <1>1
  <2> QED BY <2>1, <1>1, <1>3
<1> QED BY <1>2, <1>3, <1>5, <1>6 DEF q

LEMMA CleanEmpty == Clean(<<>>) = <<>>
<1>1. <<>> \in Path /\ Len(<<>>) = 0
  BY DEF Path
<1> QED BY <1>1, CleanSteps

\* A path with one name more or less.
LEMMA ProperNext ==
  ASSUME NEW p, Proper(p)
  PROVE  /\ Proper(Front(p)) /\ \A x \in Names : x # ".." => Proper(Append(p, x))
         /\ \A n \in 0 .. Len(p) : Proper(Begin(p, n))
<1>1. p \in Path /\ Len(p) \in Nat /\ \A n \in 1 .. Len(p) : p[n] # ".."
  BY DEF Proper, Path
<1>2. Front(<<>>) = <<>>
  BY SubSeqEmpty DEF Front
<1>3. \A n \in 0 .. Len(p) : Proper(Begin(p, n))
  <2> TAKE n \in 0 .. Len(p)
  <2>1. Begin(p, n) \in Seq(Names) /\ Len(Begin(p, n)) = n /\ \A i \in 1 .. n : Begin(p, n)[i] = p[i]
    BY <1>1, Split DEF Path
  <2> QED BY <1>1, <2>1 DEF Proper, Path
<1>4. Proper(Front(p))
  <2>1. CASE p = <<>>
    BY <2>1, <1>2
  <2>2. CASE p # <<>>
    <3>1. Len(p) - 1 \in 0 .. Len(p)
      BY <1>1, <2>2 DEF Path
    <3> QED BY <3>1, <1>3 DEF Front, Begin
  <2> QED BY <2>1, <2>2
<1>5. ASSUME NEW x \in Names, x # ".." PROVE Proper(Append(p, x))
  <2>1. /\ Append(p, x) \in Seq(Names) /\ DOMAIN Append(p, x) = 1 .. Len(p) + 1
        /\ Append(p, x)[Len(p) + 1] = x /\ \A i \in 1 .. Len(p) : Append(p, x)[i] = p[i]
    BY <1>1, AppendFacts DEF Path
  <2>2. \A i \in 1 .. Len(p) + 1 : i \in 1 .. Len(p) \/ i = Len(p) + 1
    BY <1>1
  <2> QED BY <1>1, <1>5, <2>1, <2>2, Zenon DEF Proper, Path
<1> QED BY <1>3, <1>4, <1>5

\* No ".." is left, and nothing changes where there is none.
LEMMA CleanProper ==
  ASSUME NEW p \in Path
  PROVE  Proper(Clean(p)) /\ (Proper(p) => Clean(p) = p)
<1> DEFINE G == {q \in Path : Proper(Clean(q)) /\ (Proper(q) => Clean(q) = q)}
<1>1. <<>> \in G
  <2>1. <<>> \in Path /\ Proper(<<>>)
    BY DEF Proper, Path
  <2> QED BY <2>1, CleanEmpty, Zenon
<1>2. ASSUME NEW q \in Seq(Names), q \in G, NEW x \in Names PROVE Append(q, x) \in G
  <2> DEFINE a == Append(q, x)
  <2>1. /\ a \in Path /\ Front(a) = q /\ a[Len(q) + 1] = x /\ DOMAIN a = 1 .. Len(q) + 1
        /\ Len(q) \in Nat
    BY AppendFacts DEF Path
  <2>2. Proper(a) => Proper(q) /\ x # ".."
    <3>1. Len(q) + 1 \in 1 .. Len(q) + 1
      BY <2>1
    <3> QED BY <2>1, <3>1, ProperNext DEF Proper
  <2>3. Clean(a) = IF x # ".." THEN Append(Clean(q), x) ELSE Front(Clean(q))
    BY <1>2, CleanNext
  <2>4. Proper(Clean(a))
    BY <1>2, <2>3, ProperNext
  <2> HIDE DEF a
  <2>5. Proper(a) => Clean(a) = a
    BY <1>2, <2>2, <2>3 DEF a
  <2> QED BY <2>1, <2>4, <2>5 DEF a
<1>3. \A q \in Seq(Names) : q \in G
  <2> HIDE DEF G
  <2>1. \A q \in Seq(Names) : q \in G => \A x \in Names : Append(q, x) \in G
    BY <1>2
  <2> QED BY <1>1, <2>1, PathInduction
<1> QED BY <1>3 DEF Path

\* Join of a path and one name.
LEMMA JoinName ==
  ASSUME NEW p, Proper(p), NEW x \in Names
  PROVE  Join(p, <<x>>) = IF x # ".." THEN Append(p, x) ELSE Front(p)
<1>1. p \in Path /\ p \o <<x>> = Append(p, x)
  BY AppendFacts DEF Proper, Path
<1>2. Clean(p) = p
  BY <1>1, CleanProper
<1> QED BY <1>1, <1>2, CleanNext DEF Join

-----------------------------------------------------------------------------
(***************************************************************************)
(* Ways                                                                    *)
(***************************************************************************)
FileTree == UNION {[D -> Node] : D \in SUBSET Path}

LEMMA TreeFacts ==
  ASSUME NEW fs \in FileTree
  PROVE  /\ DOMAIN fs \in SUBSET Path /\ fs \in [DOMAIN fs -> Node]
         /\ \A p \in DOMAIN fs : fs[p].kind \in {"dir", "file", "link"}
         /\ \A p : IsA(fs, p, "link") => p \in DOMAIN fs /\ fs[p].to \in Path
<1>1. DOMAIN fs \in SUBSET Path /\ fs \in [DOMAIN fs -> Node]
  BY DEF FileTree
<1>2. \A x \in Node : x.kind \in {"dir", "file", "link"} /\ (x.kind = "link" => x.to \in Path)
  BY DEF Node
<1> QED BY <1>1, <1>2, Zenon DEF IsA

LEMMA FileSystemIsTree ==
  ASSUME NEW fs, IsFileSystem(fs)
  PROVE  fs \in FileTree
<1>1. fs \in [DOMAIN fs -> Node] /\ DOMAIN fs \in SUBSET Path
  BY DEF IsFileSystem, Proper
<1> QED BY <1>1, Zenon DEF FileTree

LEMMA GoingFacts ==
  /\ \A at, path \in Path : \A l \in 0 .. MaxLinks :
       /\ Going(at, path, l) \in Way /\ Going(at, path, l).at = at
       /\ Going(at, path, l).path = path /\ Going(at, path, l).links = l
  /\ \A w \in Way : w.at \in Path /\ w.path \in Path /\ w.links \in 0 .. MaxLinks
  /\ \A w \in Way : w = Going(w.at, w.path, w.links)
BY DEF Way, Going

\* A step goes on with fewer names, or with fewer links.
Below == Lex(Way, [w \in Way |-> w.links], [w \in Way |-> Len(w.path)])

LEMMA BelowFacts ==
  /\ IsOrder(Way, Below)
  /\ \A v, w \in Way : <<v, w>> \in Below <=>
       v.links < w.links \/ (v.links = w.links /\ Len(v.path) < Len(w.path))
<1> DEFINE m == [w \in Way |-> w.links]
           k == [w \in Way |-> Len(w.path)]
<1>1. \A w \in Way : w.links \in Nat /\ Len(w.path) \in Nat
  <2>1. \A w \in Way : w.path \in Path /\ w.links \in 0 .. MaxLinks
    BY GoingFacts
  <2> QED BY <2>1, MountsAssumption DEF Path
<1>2. m \in [Way -> Nat] /\ k \in [Way -> Nat] /\ \A w \in Way : m[w] = w.links /\ k[w] = Len(w.path)
  BY <1>1
<1> HIDE DEF m, k
<1>3. IsOrder(Way, Lex(Way, m, k))
  BY <1>2, LexIsOrder
<1>4. \A v, w \in Way : <<v, w>> \in Lex(Way, m, k) <=> m[v] < m[w] \/ (m[v] = m[w] /\ k[v] < k[w])
  BY DEF Lex
<1> QED BY <1>2, <1>3, <1>4 DEF Below, m, k

LEMMA StepsBelow ==
  ASSUME NEW w \in Way, w.path # <<>>
  PROVE  /\ w.at \in Path /\ w.links \in Nat
         /\ Head(w.path) \in Names /\ Append(w.at, Head(w.path)) \in Path /\ Tail(w.path) \in Path
         /\ Front(w.at) \in Path /\ <<>> \in Path
         /\ \A a \in Path : /\ Going(a, Tail(w.path), w.links) \in Way
                            /\ <<Going(a, Tail(w.path), w.links), w>> \in Below
         /\ w.links > 0 =>
              \A a, t \in Path : /\ Going(a, t \o Tail(w.path), w.links - 1) \in Way
                                 /\ <<Going(a, t \o Tail(w.path), w.links - 1), w>> \in Below
<1>1. w.at \in Path /\ w.path \in Path /\ w.links \in 0 .. MaxLinks /\ w.links \in Nat
  BY GoingFacts, MountsAssumption
<1>2. /\ Head(w.path) \in Names /\ Tail(w.path) \in Path /\ Len(Tail(w.path)) = Len(w.path) - 1
      /\ Len(w.path) \in Nat
  BY <1>1, HeadTailProperties DEF Path
<1>3. Append(w.at, Head(w.path)) \in Path /\ Front(w.at) \in Path /\ <<>> \in Path
  <2>1. \A a \in Path, x \in Names : Append(a, x) \in Path
    BY DEF Path
  <2>2. Front(w.at) \in Path
    BY <1>1, FrontFacts DEF Path
  <2>3. <<>> \in Path
    BY DEF Path
  <2> QED BY <1>1, <1>2, <2>1, <2>2, <2>3
<1>4. ASSUME NEW a \in Path
      PROVE  /\ Going(a, Tail(w.path), w.links) \in Way
             /\ <<Going(a, Tail(w.path), w.links), w>> \in Below
  <2> DEFINE v == Going(a, Tail(w.path), w.links)
  <2>1. v \in Way /\ v.links = w.links /\ v.path = Tail(w.path)
    BY <1>1, <1>2, GoingFacts
  <2> HIDE DEF v
  <2>2. Len(v.path) < Len(w.path)
    BY <1>2, <2>1
  <2> QED BY <2>1, <2>2, BelowFacts DEF v
<1>5. ASSUME w.links > 0, NEW a \in Path, NEW t \in Path
      PROVE  /\ Going(a, t \o Tail(w.path), w.links - 1) \in Way
             /\ <<Going(a, t \o Tail(w.path), w.links - 1), w>> \in Below
  <2> DEFINE v == Going(a, t \o Tail(w.path), w.links - 1)
  <2>1. w.links - 1 \in 0 .. MaxLinks /\ w.links - 1 < w.links
    BY <1>1, <1>5, MountsAssumption
  <2>2. t \o Tail(w.path) \in Path
    BY <1>2, CatFacts DEF Path
  <2>3. v \in Way /\ v.links = w.links - 1
    BY <2>1, <2>2, GoingFacts
  <2> HIDE DEF v
  <2> QED BY <2>1, <2>3, BelowFacts DEF v
<1> QED BY <1>1, <1>2, <1>3, <1>4, <1>5

-----------------------------------------------------------------------------
(***************************************************************************)
(* The walk of the kernel                                                  *)
(***************************************************************************)

\* One step of Walk, which continues with g.
WalkNext(fs, g, w) ==
  IF w.path = <<>> THEN {w.at}
  ELSE LET p    == Append(w.at, Head(w.path))
           rest == Tail(w.path)
       IN IF Head(w.path) = ".." THEN g[Going(Front(w.at), rest, w.links)]
          ELSE IF IsA(fs, p, "dir") \/ (IsA(fs, p, "file") /\ rest = <<>>)
          THEN g[Going(p, rest, w.links)]
          ELSE IF IsA(fs, p, "link") /\ w.links > 0
          THEN g[Going(IF fs[p].abs THEN <<>> ELSE w.at, fs[p].to \o rest, w.links - 1)]
          ELSE {}

\* Where a step goes on.
LEMMA WalkBelow ==
  ASSUME NEW fs \in FileTree, NEW w \in Way, NEW g
  PROVE  \/ w.path = <<>> /\ WalkNext(fs, g, w) = {w.at} /\ w.at \in Path
         \/ WalkNext(fs, g, w) = {}
         \/ \E v \in Way : <<v, w>> \in Below /\ WalkNext(fs, g, w) = g[v]
                           /\ v.at \in {Front(w.at), <<>>, w.at} \cup DOMAIN fs
                           /\ \A h : WalkNext(fs, h, w) = h[v]
<1>1. CASE w.path = <<>>
  BY <1>1, GoingFacts, Zenon DEF WalkNext
<1>2. CASE w.path # <<>>
  <2> DEFINE x    == Head(w.path)
             p    == Append(w.at, x)
             rest == Tail(w.path)
             base == IF fs[p].abs THEN <<>> ELSE w.at
             From(v) == v.at \in {Front(w.at), <<>>, w.at} \cup DOMAIN fs
  <2>0. \A at, path, links : Going(at, path, links).at = at
    BY DEF Going
  <2>1. CASE x = ".."
    <3> DEFINE v == Going(Front(w.at), rest, w.links)
    <3>1. v \in Way /\ <<v, w>> \in Below
      BY <1>2, StepsBelow
    <3>2. \A h : WalkNext(fs, h, w) = h[v]
      BY <1>2, <2>1, Zenon DEF WalkNext
    <3>3. From(v)
      BY <2>0, Zenon
    <3> QED BY <3>1, <3>2, <3>3, Zenon
  <2>2. CASE x # ".." /\ (IsA(fs, p, "dir") \/ (IsA(fs, p, "file") /\ rest = <<>>))
    <3> DEFINE v == Going(p, rest, w.links)
    <3>1. v \in Way /\ <<v, w>> \in Below
      BY <1>2, StepsBelow
    <3>2. \A h : WalkNext(fs, h, w) = h[v]
      BY <1>2, <2>2, Zenon DEF WalkNext
    <3>3. From(v)
      <4>1. p \in DOMAIN fs
        BY <2>2, Zenon DEF IsA
      <4>2. v.at = p
        BY <2>0, Zenon
      <4> HIDE DEF v
      <4> QED BY <4>1, <4>2, Zenon
    <3> QED BY <3>1, <3>2, <3>3, Zenon
  <2>3. CASE /\ x # ".." /\ ~ (IsA(fs, p, "dir") \/ (IsA(fs, p, "file") /\ rest = <<>>))
             /\ IsA(fs, p, "link") /\ w.links > 0
    <3> DEFINE v == Going(base, fs[p].to \o rest, w.links - 1)
    <3>1. v \in Way /\ <<v, w>> \in Below
      <4>1. base \in Path
        BY <1>2, StepsBelow
      <4>2. fs[p].to \in Path
        BY <2>3, TreeFacts
      <4> HIDE DEF base, p
      <4> QED BY <1>2, <2>3, <4>1, <4>2, StepsBelow
    <3>2. \A h : WalkNext(fs, h, w) = h[v]
      BY <1>2, <2>3, Zenon DEF WalkNext
    <3>3. From(v)
      BY <2>0, Zenon
    <3> HIDE DEF v
    <3> QED BY <3>1, <3>2, <3>3, Zenon
  <2>4. CASE /\ x # ".." /\ ~ (IsA(fs, p, "dir") \/ (IsA(fs, p, "file") /\ rest = <<>>))
             /\ ~ (IsA(fs, p, "link") /\ w.links > 0)
    BY <1>2, <2>4, Zenon DEF WalkNext
  <2> QED BY <2>1, <2>2, <2>3, <2>4, Zenon
<1> QED BY <1>1, <1>2

\* Walk is defined by its steps.
LEMMA WalkSteps ==
  ASSUME NEW fs \in FileTree
  PROVE  /\ Walk(fs) \in [Way -> SUBSET Path]
         /\ \A w \in Way : Walk(fs)[w] = WalkNext(fs, Walk(fs), w)
<1> DEFINE T == SUBSET Path
           F == [a \in Way \X [Way -> T] |-> WalkNext(fs, a[2], a[1])]
<1>0. {} \in T /\ T # {} /\ \A p \in Path : {p} \in T
  OBVIOUS
<1> HIDE DEF T
<1>1. \A w \in Way : \A g \in [Way -> T] : F[<<w, g>>] = WalkNext(fs, g, w)
  OBVIOUS
<1>2. \A w \in Way : \A g \in [Way -> T] : WalkNext(fs, g, w) \in T
  <2> TAKE w \in Way
  <2> TAKE g \in [Way -> T]
  <2>1. \A v \in Way : g[v] \in T
    OBVIOUS
  <2> QED BY <1>0, <2>1, WalkBelow, Zenon
<1>3. \A w \in Way : \A g, h \in [Way -> T] :
        (\A v \in Way : <<v, w>> \in Below => g[v] = h[v]) => WalkNext(fs, g, w) = WalkNext(fs, h, w)
  <2> TAKE w \in Way
  <2> TAKE g, h \in [Way -> T]
  <2> HAVE \A v \in Way : <<v, w>> \in Below => g[v] = h[v]
  <2>1. CASE w.path = <<>>
    BY <2>1, Zenon DEF WalkNext
  <2>2. CASE \E v \in Way : <<v, w>> \in Below /\ \A f : WalkNext(fs, f, w) = f[v]
    BY <2>2, Zenon
  <2>3. CASE WalkNext(fs, g, w) = {} /\ WalkNext(fs, h, w) = {}
    BY <2>3
  <2> QED BY <2>1, <2>2, <2>3, WalkBelow, Zenon
<1> HIDE DEF F
<1>4. IsRecursion(Way, T, Below, F)
  <2>1. \A w \in Way : \A g \in [Way -> T] : F[<<w, g>>] \in T
    BY <1>1, <1>2
  <2>2. \A w \in Way : \A g, h \in [Way -> T] :
          (\A v \in Way : <<v, w>> \in Below => g[v] = h[v]) => F[<<w, g>>] = F[<<w, h>>]
    <3> TAKE w \in Way
    <3> TAKE g, h \in [Way -> T]
    <3> HAVE \A v \in Way : <<v, w>> \in Below => g[v] = h[v]
    <3>1. WalkNext(fs, g, w) = WalkNext(fs, h, w)
      BY <1>3
    <3>2. F[<<w, g>>] = WalkNext(fs, g, w) /\ F[<<w, h>>] = WalkNext(fs, h, w)
      BY <1>1
    <3> QED BY <3>1, <3>2
  <2> QED BY <1>0, <2>1, <2>2, BelowFacts, Zenon DEF IsRecursion
<1>5. PICK f \in [Way -> T] : \A w \in Way : f[w] = F[<<w, f>>]
  BY <1>4, RecursiveFunction
<1> DEFINE Body(g) == [w \in Way |-> WalkNext(fs, g, w)]
           walk == CHOOSE g : g = Body(g)
<1>6. f = Body(f)
  BY <1>1, <1>5, Zenon
<1>7. walk = Body(walk)
  BY <1>6, Zenon
<1>8. Walk(fs) = walk
  BY Zenon DEF Walk, WalkNext
<1> HIDE DEF walk
<1>9. \A w \in Way : walk[w] = WalkNext(fs, walk, w)
  BY <1>7, Zenon
<1> DEFINE G == {w \in Way : walk[w] \in T}
<1>10. \A w \in Way : w \in G
  <2>1. ASSUME NEW w \in Way, \A v \in Way : <<v, w>> \in Below => v \in G PROVE w \in G
    <3>1. \A v \in Way : <<v, w>> \in Below => walk[v] \in T
      BY <2>1, Zenon
    <3>2. WalkNext(fs, walk, w) \in T
      BY <1>0, <3>1, WalkBelow, Zenon
    <3> QED BY <3>2, <1>9, Zenon
  <2> HIDE DEF G
  <2> QED BY <2>1, BelowFacts, OrderInduction
<1>11. walk \in [Way -> T]
  BY <1>7, <1>10, Zenon
<1> QED BY <1>8, <1>9, <1>11 DEF T

-----------------------------------------------------------------------------
(***************************************************************************)
(* The way of a process of the container                                   *)
(***************************************************************************)

\* One step of Resolve, which continues with g.
ResolveNext(fs, g, w) ==
  IF w.path = <<>> THEN w.at
  ELSE LET p    == Append(w.at, Head(w.path))
           rest == Tail(w.path)
       IN IF Head(w.path) = ".."
          THEN g[Going(IF w.at = Rootfs THEN w.at ELSE Front(w.at), rest, w.links)]
          ELSE IF IsA(fs, p, "link") /\ w.links > 0
          THEN g[Going(IF fs[p].abs THEN Rootfs ELSE w.at, fs[p].to \o rest, w.links - 1)]
          ELSE g[Going(p, rest, w.links)]

LEMMA ResolveBelow ==
  ASSUME NEW fs \in FileTree, NEW w \in Way
  PROVE  \/ w.path = <<>> /\ w.at \in Path /\ \A g : ResolveNext(fs, g, w) = w.at
         \/ \E v \in Way : <<v, w>> \in Below /\ \A g : ResolveNext(fs, g, w) = g[v]
<1>0. Rootfs \in Path
  BY MountsAssumption DEF Proper
<1>1. CASE w.path = <<>>
  BY <1>1, GoingFacts, Zenon DEF ResolveNext
<1>2. CASE w.path # <<>>
  <2> DEFINE x    == Head(w.path)
             p    == Append(w.at, x)
             rest == Tail(w.path)
             back == IF w.at = Rootfs THEN w.at ELSE Front(w.at)
             base == IF fs[p].abs THEN Rootfs ELSE w.at
  <2>1. CASE x = ".."
    <3> DEFINE v == Going(back, rest, w.links)
    <3>1. v \in Way /\ <<v, w>> \in Below
      <4>1. back \in Path
        BY <1>2, StepsBelow
      <4> HIDE DEF back
      <4> QED BY <1>2, <4>1, StepsBelow
    <3>2. \A h : ResolveNext(fs, h, w) = h[v]
      BY <1>2, <2>1, Zenon DEF ResolveNext
    <3> HIDE DEF v
    <3> QED BY <3>1, <3>2, Zenon
  <2>2. CASE x # ".." /\ IsA(fs, p, "link") /\ w.links > 0
    <3> DEFINE v == Going(base, fs[p].to \o rest, w.links - 1)
    <3>1. v \in Way /\ <<v, w>> \in Below
      <4>1. base \in Path
        BY <1>0, <1>2, StepsBelow
      <4>2. fs[p].to \in Path
        BY <2>2, TreeFacts
      <4> HIDE DEF base, p
      <4> QED BY <1>2, <2>2, <4>1, <4>2, StepsBelow
    <3>2. \A h : ResolveNext(fs, h, w) = h[v]
      BY <1>2, <2>2, Zenon DEF ResolveNext
    <3> HIDE DEF v
    <3> QED BY <3>1, <3>2, Zenon
  <2>3. CASE x # ".." /\ ~ (IsA(fs, p, "link") /\ w.links > 0)
    <3> DEFINE v == Going(p, rest, w.links)
    <3>1. v \in Way /\ <<v, w>> \in Below
      BY <1>2, StepsBelow
    <3>2. \A h : ResolveNext(fs, h, w) = h[v]
      BY <1>2, <2>3, Zenon DEF ResolveNext
    <3> HIDE DEF v
    <3> QED BY <3>1, <3>2, Zenon
  <2> QED BY <2>1, <2>2, <2>3, Zenon
<1> QED BY <1>1, <1>2

\* Resolve is defined by its steps.
LEMMA ResolveSteps ==
  ASSUME NEW fs \in FileTree
  PROVE  \A w \in Way : Resolve(fs)[w] = ResolveNext(fs, Resolve(fs), w)
<1> DEFINE F == [a \in Way \X [Way -> Path] |-> ResolveNext(fs, a[2], a[1])]
<1>1. \A w \in Way : \A g \in [Way -> Path] : F[<<w, g>>] = ResolveNext(fs, g, w)
  OBVIOUS
<1> HIDE DEF F
<1>2. \A w \in Way : \A g \in [Way -> Path] : F[<<w, g>>] \in Path
  <2> TAKE w \in Way
  <2> TAKE g \in [Way -> Path]
  <2>1. \A v \in Way : g[v] \in Path
    OBVIOUS
  <2>2. ResolveNext(fs, g, w) \in Path
    BY <2>1, ResolveBelow, Zenon
  <2> QED BY <1>1, <2>2
<1>3. \A w \in Way : \A g, h \in [Way -> Path] :
        (\A v \in Way : <<v, w>> \in Below => g[v] = h[v]) => F[<<w, g>>] = F[<<w, h>>]
  <2> TAKE w \in Way
  <2> TAKE g, h \in [Way -> Path]
  <2> HAVE \A v \in Way : <<v, w>> \in Below => g[v] = h[v]
  <2>1. ResolveNext(fs, g, w) = ResolveNext(fs, h, w)
    <3>1. CASE \A k : ResolveNext(fs, k, w) = w.at
      BY <3>1, Zenon
    <3>2. CASE \E v \in Way : <<v, w>> \in Below /\ \A k : ResolveNext(fs, k, w) = k[v]
      BY <3>2, Zenon
    <3> QED BY <3>1, <3>2, ResolveBelow, Zenon
  <2>2. F[<<w, g>>] = ResolveNext(fs, g, w) /\ F[<<w, h>>] = ResolveNext(fs, h, w)
    BY <1>1
  <2> QED BY <2>1, <2>2
<1>4. IsRecursion(Way, Path, Below, F)
  <2>1. Path # {}
    BY MountsAssumption DEF Proper
  <2> QED BY <1>2, <1>3, <2>1, BelowFacts, Zenon DEF IsRecursion
<1>5. PICK f \in [Way -> Path] : \A w \in Way : f[w] = F[<<w, f>>]
  BY <1>4, RecursiveFunction
<1> DEFINE Body(g) == [w \in Way |-> ResolveNext(fs, g, w)]
           resolve == CHOOSE g : g = Body(g)
<1>6. f = Body(f)
  BY <1>1, <1>5, Zenon
<1>7. resolve = Body(resolve)
  BY <1>6, Zenon
<1>8. Resolve(fs) = resolve
  BY Zenon DEF Resolve, ResolveNext
<1> HIDE DEF resolve
<1>9. \A w \in Way : resolve[w] = ResolveNext(fs, resolve, w)
  BY <1>7, Zenon
<1> QED BY <1>8, <1>9

\* What matters of a file system are its links.
SameLinks(fs, f) ==
  \A p : /\ IsA(fs, p, "link") <=> IsA(f, p, "link")
         /\ IsA(fs, p, "link") => f[p] = fs[p]

LEMMA ResolveSame ==
  ASSUME NEW fs \in FileTree, NEW f \in FileTree, SameLinks(fs, f)
  PROVE  \A w \in Way : Resolve(f)[w] = Resolve(fs)[w]
<1> DEFINE G == {w \in Way : Resolve(f)[w] = Resolve(fs)[w]}
<1>1. \A w \in Way : \A g : ResolveNext(f, g, w) = ResolveNext(fs, g, w)
  BY Zenon DEF ResolveNext, SameLinks
<1>2. ASSUME NEW w \in Way, \A v \in Way : <<v, w>> \in Below => v \in G PROVE w \in G
  <2>1. \A v \in Way : <<v, w>> \in Below => Resolve(f)[v] = Resolve(fs)[v]
    BY <1>2, Zenon
  <2>2. ResolveNext(fs, Resolve(f), w) = ResolveNext(fs, Resolve(fs), w)
    <3>1. CASE \A k : ResolveNext(fs, k, w) = w.at
      BY <3>1, Zenon
    <3>2. CASE \E v \in Way : <<v, w>> \in Below /\ \A k : ResolveNext(fs, k, w) = k[v]
      BY <3>2, <2>1, Zenon
    <3> QED BY <3>1, <3>2, ResolveBelow, Zenon
  <2>3. Resolve(f)[w] = ResolveNext(f, Resolve(f), w) /\ Resolve(fs)[w] = ResolveNext(fs, Resolve(fs), w)
    BY ResolveSteps
  <2> QED BY <1>1, <2>2, <2>3, Zenon
<1>3. \A w \in Way : w \in G
  <2> HIDE DEF G
  <2> QED BY <1>2, BelowFacts, OrderInduction
<1> QED BY <1>3

-----------------------------------------------------------------------------
(***************************************************************************)
(* Paths without links                                                     *)
(***************************************************************************)

\* Neither the path nor anything above it is a link.
LinkFree(fs, q) == \A n \in 1 .. Len(q) : ~ IsA(fs, Begin(q, n), "link")

LEMMA AboveIsDir ==
  ASSUME NEW fs, IsFileSystem(fs), NEW q \in DOMAIN fs
  PROVE  /\ \A n \in 0 .. Len(q) : n < Len(q) => IsA(fs, Begin(q, n), "dir")
         /\ ~ IsA(fs, q, "link") => LinkFree(fs, q)
<1> DEFINE N == Len(q)
           G == {k \in 0 .. N : /\ Begin(q, N - k) \in DOMAIN fs
                                /\ k # 0 => IsA(fs, Begin(q, N - k), "dir")}
<1>0. q \in Path /\ q \in Seq(Names) /\ N \in Nat /\ N - 0 = N
  BY DEF IsFileSystem, Proper, Path
<1>1. 0 \in G
  BY <1>0, SplitEnds
<1>2. ASSUME NEW k \in 1 .. N, k - 1 \in G PROVE k \in G
  <2>1. /\ N - (k - 1) \in 1 .. Len(q) /\ (N - (k - 1)) - 1 = N - k
        /\ k \in 0 .. N
    BY <1>0
  <2> DEFINE p == Begin(q, N - (k - 1))
  <2>2. p # <<>> /\ Front(p) = Begin(q, N - k)
    BY <1>0, <2>1, SplitNext
  <2>3. p \in DOMAIN fs
    BY <1>2, Zenon
  <2>4. IsA(fs, Begin(q, N - k), "dir")
    BY <2>2, <2>3, Zenon DEF IsFileSystem
  <2> QED BY <2>1, <2>4, Zenon DEF IsA
<1>3. \A k \in 0 .. N : k \in G
  <2> HIDE DEF G, N
  <2> QED BY <1>0, <1>1, <1>2, NumbersInduction
<1>4. ASSUME NEW n \in 0 .. N, n < N PROVE IsA(fs, Begin(q, n), "dir")
  <2>1. N - n \in 0 .. N /\ N - n # 0 /\ N - (N - n) = n
    <3> HIDE DEF N, G
    <3> QED BY <1>0, <1>4
  <2> QED BY <1>3, <2>1, Zenon
<1>5. ASSUME ~ IsA(fs, q, "link"), NEW n \in 1 .. N PROVE ~ IsA(fs, Begin(q, n), "link")
  <2>1. CASE n = N
    BY <2>1, <1>0, <1>5, SplitEnds
  <2>2. CASE n # N
    <3>1. n \in 0 .. N /\ n < N
      <4> HIDE DEF N
      <4> QED BY <1>0, <2>2
    <3> QED BY <3>1, <1>4 DEF IsA
  <2> QED BY <2>1, <2>2
<1> QED BY <1>4, <1>5 DEF LinkFree

LEMMA LinkFreeNext ==
  ASSUME NEW fs, NEW q \in Path, LinkFree(fs, q)
  PROVE  /\ \A n \in 0 .. Len(q) : LinkFree(fs, Begin(q, n))
         /\ LinkFree(fs, Front(q))
         /\ q # <<>> => ~ IsA(fs, q, "link")
         /\ \A x \in Names : ~ IsA(fs, Append(q, x), "link") => LinkFree(fs, Append(q, x))
<1>0. q \in Seq(Names) /\ Len(q) \in Nat
  BY DEF Path
<1>1. ASSUME NEW n \in 0 .. Len(q) PROVE LinkFree(fs, Begin(q, n))
  <2>1. Len(Begin(q, n)) = n
    BY <1>0, Split
  <2>2. ASSUME NEW k \in 1 .. n PROVE ~ IsA(fs, Begin(Begin(q, n), k), "link")
    <3>1. k \in 0 .. n /\ k \in 1 .. Len(q)
      BY <1>0
    <3>2. Begin(Begin(q, n), k) = Begin(q, k)
      BY <1>0, <3>1, SplitAgain
    <3> QED BY <3>1, <3>2 DEF LinkFree
  <2> QED BY <2>1, <2>2 DEF LinkFree
<1>2. LinkFree(fs, Front(q))
  <2>1. CASE q = <<>>
    <3>1. Front(<<>>) = <<>>
      BY SubSeqEmpty DEF Front
    <3> QED BY <2>1, <3>1
  <2>2. CASE q # <<>>
    <3>1. Len(q) - 1 \in 0 .. Len(q)
      BY <1>0, <2>2
    <3> QED BY <3>1, <1>1 DEF Front, Begin
  <2> QED BY <2>1, <2>2
<1>3. q # <<>> => ~ IsA(fs, q, "link")
  <2>1. q # <<>> => Len(q) \in 1 .. Len(q)
    BY <1>0
  <2>2. Begin(q, Len(q)) = q
    BY <1>0, SplitEnds
  <2> QED BY <2>1, <2>2 DEF LinkFree
<1>4. ASSUME NEW x \in Names, ~ IsA(fs, Append(q, x), "link") PROVE LinkFree(fs, Append(q, x))
  <2> DEFINE a == Append(q, x)
  <2>1. a \in Seq(Names) /\ Len(a) = Len(q) + 1 /\ Front(a) = q /\ Len(a) \in Nat
    BY <1>0, AppendFacts
  <2> HIDE DEF a
  <2>2. Begin(a, Len(a)) = a
    BY <2>1, SplitEnds
  <2>3. Begin(a, Len(q)) = q
    <3>1. Len(a) - 1 = Len(q)
      BY <2>1, <1>0
    <3> QED BY <3>1, <2>1 DEF Front, Begin
  <2>4. ASSUME NEW n \in 1 .. Len(a) PROVE ~ IsA(fs, Begin(a, n), "link")
    <3>1. CASE n = Len(a)
      BY <3>1, <2>2, <1>4 DEF a
    <3>2. CASE n # Len(a)
      <4>1. n \in 0 .. Len(q) /\ n \in 1 .. Len(q) /\ Len(q) \in 0 .. Len(a)
        BY <3>2, <2>1, <1>0
      <4>2. Begin(a, n) = Begin(q, n)
        BY <4>1, <2>1, <2>3, SplitAgain
      <4> QED BY <4>1, <4>2 DEF LinkFree
    <3> QED BY <3>1, <3>2
  <2>5. LinkFree(fs, a)
    BY <2>4 DEF LinkFree
  <2> QED BY <2>5 DEF a
<1> QED BY <1>1, <1>2, <1>3, <1>4

\* The kernel finds the path itself, if it exists.
LEMMA StatLinkFree ==
  ASSUME NEW fs, IsFileSystem(fs), NEW q, Proper(q), LinkFree(fs, q)
  PROVE  Stat(fs, q) = {q} \cap DOMAIN fs
<1> DEFINE N == Len(q)
           W(n) == Walk(fs)[Going(Begin(q, n), Rest(q, n), MaxLinks)]
           G == {k \in 0 .. N : W(N - k) = IF k = 0 THEN {q} ELSE {q} \cap DOMAIN fs}
<1>0. /\ q \in Path /\ q \in Seq(Names) /\ N \in Nat /\ N - 0 = N /\ fs \in FileTree
      /\ DOMAIN q = 1 .. N /\ MaxLinks \in 0 .. MaxLinks
  BY FileSystemIsTree, MountsAssumption DEF Proper, Path
<1>1. ASSUME NEW n \in 0 .. N
      PROVE  LET w == Going(Begin(q, n), Rest(q, n), MaxLinks) IN
             /\ w.at = Begin(q, n) /\ w.path = Rest(q, n) /\ w.links = MaxLinks
             /\ W(n) = WalkNext(fs, Walk(fs), w)
  <2>1. Begin(q, n) \in Path /\ Rest(q, n) \in Path
    BY <1>0, Split DEF Path
  <2> QED BY <1>0, <2>1, GoingFacts, WalkSteps
<1>2. 0 \in G
  <2>1. N \in 0 .. N /\ Rest(q, N) = <<>> /\ Begin(q, N) = q
    BY <1>0, SplitEnds
  <2>2. W(N) = {q}
    BY <2>1, <1>1, Zenon DEF WalkNext
  <2> QED BY <2>2, <1>0
<1>3. ASSUME NEW k \in 1 .. N, k - 1 \in G PROVE k \in G
  <2> DEFINE n == N - k
             p == Begin(q, n + 1)
  <2>1. /\ n \in 0 .. N /\ n + 1 \in 1 .. N /\ N - (k - 1) = n + 1 /\ k \in 0 .. N /\ k # 0
        /\ (n + 1) - 1 = n /\ n + 1 \in 0 .. N /\ (k - 1 = 0 <=> n + 1 = N)
    BY <1>0
  <2> HIDE DEF n
  <2>2. /\ q[n + 1] # ".." /\ Rest(q, n) # <<>> /\ Head(Rest(q, n)) = q[n + 1]
        /\ Tail(Rest(q, n)) = Rest(q, n + 1) /\ Append(Begin(q, n), q[n + 1]) = p
        /\ p \in Path
    <3>1. q[n + 1] # ".."
      BY <1>0, <2>1 DEF Proper
    <3>2. /\ Rest(q, n) # <<>> /\ Head(Rest(q, n)) = q[n + 1]
          /\ Tail(Rest(q, n)) = Rest(q, n + 1) /\ Append(Begin(q, n), q[n + 1]) = p
      BY <1>0, <2>1, SplitNext
    <3>3. p \in Path
      BY <1>0, <2>1, Split DEF Path
    <3> QED BY <3>1, <3>2, <3>3
  <2>3. /\ Rest(q, n + 1) = <<>> => n + 1 = N /\ p = q
        /\ n + 1 = N => Rest(q, n + 1) = <<>> /\ p = q
    <3>1. Len(Rest(q, n + 1)) = N - (n + 1) /\ Begin(q, N) = q /\ Rest(q, N) = <<>>
      BY <1>0, <2>1, Split, SplitEnds
    <3>2. Rest(q, n + 1) = <<>> => n + 1 = N
      <4>1. Rest(q, n + 1) = <<>> => Len(Rest(q, n + 1)) = 0
        OBVIOUS
      <4> HIDE DEF N
      <4> QED BY <1>0, <2>1, <3>1, <4>1
    <3> QED BY <3>1, <3>2
  <2>4. ~ IsA(fs, p, "link")
    BY <2>1 DEF LinkFree
  <2>5. W(n + 1) = IF n + 1 = N THEN {q} ELSE {q} \cap DOMAIN fs
    BY <1>3, <2>1, Zenon
  <2>6. n + 1 # N /\ q \in DOMAIN fs => IsA(fs, p, "dir")
    <3>1. n + 1 # N => n + 1 < N
      <4> HIDE DEF N
      <4> QED BY <2>1, <1>0
    <3> QED BY <3>1, <2>1, AboveIsDir
  <2>7. p \in DOMAIN fs => IsA(fs, p, "dir") \/ IsA(fs, p, "file")
    BY <1>0, <2>4, TreeFacts DEF IsA
  <2>8. W(n) = IF IsA(fs, p, "dir") \/ (IsA(fs, p, "file") /\ Rest(q, n + 1) = <<>>)
               THEN W(n + 1) ELSE {}
    <3> DEFINE w == Going(Begin(q, n), Rest(q, n), MaxLinks)
    <3>1. /\ w.at = Begin(q, n) /\ w.path = Rest(q, n) /\ w.links = MaxLinks
          /\ W(n) = WalkNext(fs, Walk(fs), w)
      BY <1>1, <2>1
    <3> HIDE DEF w
    <3> QED BY <3>1, <2>2, <2>4, Zenon DEF WalkNext
  <2>9. W(n) = {q} \cap DOMAIN fs
    <3> HIDE DEF p
    <3>1. CASE n + 1 = N
      <4>1. p = q /\ Rest(q, n + 1) = <<>> /\ W(n + 1) = {q}
        BY <3>1, <2>3, <2>5, Zenon
      <4>2. CASE p \in DOMAIN fs
        <5>1. W(n) = {q}
          BY <4>1, <4>2, <2>7, <2>8, Zenon
        <5> QED BY <4>1, <4>2, <5>1
      <4>3. CASE p \notin DOMAIN fs
        <5>1. W(n) = {}
          BY <4>3, <2>8, Zenon DEF IsA
        <5> QED BY <4>1, <4>3, <5>1
      <4> QED BY <4>2, <4>3
    <3>2. CASE n + 1 # N
      <4>1. W(n + 1) = {q} \cap DOMAIN fs /\ Rest(q, n + 1) # <<>>
        BY <3>2, <2>3, <2>5, Zenon
      <4>2. CASE q \in DOMAIN fs
        BY <4>1, <4>2, <3>2, <2>6, <2>8, Zenon
      <4>3. CASE q \notin DOMAIN fs
        <5>1. {q} \cap DOMAIN fs = {}
          BY <4>3
        <5> QED BY <4>1, <5>1, <2>8, Zenon
      <4> QED BY <4>2, <4>3
    <3> QED BY <3>1, <3>2
  <2> HIDE DEF W
  <2> QED BY <2>1, <2>9 DEF n
<1>4. \A k \in 0 .. N : k \in G
  <2> HIDE DEF G, N
  <2> QED BY <1>0, <1>2, <1>3, NumbersInduction
<1>5. Stat(fs, q) = W(0)
  BY <1>0, SplitEnds DEF Stat
<1> HIDE DEF W
<1>6. W(0) = IF N = 0 THEN {q} ELSE {q} \cap DOMAIN fs
  <2>1. N \in 0 .. N /\ N - N = 0
    BY <1>0
  <2> QED BY <1>4, <2>1, Zenon
<1>7. N = 0 => q \in DOMAIN fs
  <2>1. N = 0 => q = <<>>
    BY <1>0
  <2> QED BY <2>1 DEF IsFileSystem, IsA
<1> QED BY <1>5, <1>6, <1>7

-----------------------------------------------------------------------------
(***************************************************************************)
(* What the kernel finds and where it can make something                   *)
(***************************************************************************)

LEMMA StatReal ==
  ASSUME NEW fs, IsFileSystem(fs), NEW p \in Path
  PROVE  Stat(fs, p) \subseteq DOMAIN fs
<1> DEFINE D == DOMAIN fs
           G == {w \in Way : w.at \in D => Walk(fs)[w] \subseteq D}
<1>0. fs \in FileTree /\ <<>> \in D
  BY FileSystemIsTree DEF IsFileSystem, IsA
<1>1. \A q \in D : Front(q) \in D
  <2> TAKE q \in D
  <2>1. CASE q = <<>>
    <3>1. Front(<<>>) = <<>>
      BY SubSeqEmpty DEF Front
    <3> QED BY <2>1, <3>1
  <2>2. CASE q # <<>>
    BY <2>2 DEF IsFileSystem, IsA
  <2> QED BY <2>1, <2>2
<1> HIDE DEF D
<1>2. ASSUME NEW w \in Way, \A v \in Way : <<v, w>> \in Below => v \in G PROVE w \in G
  <2>0. SUFFICES ASSUME w.at \in D PROVE Walk(fs)[w] \subseteq D
    BY Zenon
  <2>1. Walk(fs)[w] = WalkNext(fs, Walk(fs), w)
    BY <1>0, WalkSteps
  <2>2. CASE w.path = <<>>
    <3>1. WalkNext(fs, Walk(fs), w) = {w.at}
      BY <2>2, Zenon DEF WalkNext
    <3> QED BY <3>1, <2>1, <2>0
  <2>3. CASE WalkNext(fs, Walk(fs), w) = {}
    BY <2>1, <2>3
  <2>4. ASSUME NEW v \in Way, <<v, w>> \in Below, v.at \in {Front(w.at), <<>>, w.at} \cup DOMAIN fs,
               WalkNext(fs, Walk(fs), w) = Walk(fs)[v]
        PROVE  Walk(fs)[w] \subseteq D
    <3>1. v.at \in D
      BY <1>0, <1>1, <2>0, <2>4 DEF D
    <3>2. Walk(fs)[v] \subseteq D
      BY <1>2, <2>4, <3>1, Zenon
    <3> QED BY <2>1, <2>4, <3>2
  <2> QED BY <1>0, <2>2, <2>3, <2>4, WalkBelow, Zenon
<1>3. \A w \in Way : w \in G
  <2> HIDE DEF G
  <2> QED BY <1>2, BelowFacts, OrderInduction
<1> DEFINE w == Going(<<>>, p, MaxLinks)
<1>4. w \in Way /\ w.at = <<>>
  <2>1. <<>> \in Path /\ MaxLinks \in 0 .. MaxLinks
    BY MountsAssumption DEF Path
  <2> QED BY <2>1, GoingFacts
<1>5. Walk(fs)[w] \subseteq D
  <2> HIDE DEF w
  <2> QED BY <1>0, <1>3, <1>4, Zenon
<1> QED BY <1>5 DEF Stat, D

\* Where something can be made there is a directory above it.
LEMMA PlaceFacts ==
  ASSUME NEW fs, IsFileSystem(fs), NEW p \in Path, NEW q \in Place(fs, p)
  PROVE  Proper(q) /\ (p # <<>> => q # <<>> /\ IsA(fs, Front(q), "dir"))
<1>1. CASE p = <<>>
  <2>1. q = <<>>
    BY <1>1, Zenon DEF Place
  <2> QED BY <1>1, <2>1 DEF Proper, Path
<1>2. CASE p # <<>>
  <2>1. PICK d : d \in Stat(fs, Front(p)) /\ IsA(fs, d, "dir") /\ Last(p) # ".." /\ q = Append(d, Last(p))
    BY <1>2, Zenon DEF Place
  <2>2. Proper(d) /\ d \in Seq(Names)
    BY <2>1 DEF IsA, IsFileSystem, Proper, Path
  <2>3. Last(p) \in Names
    BY <1>2, FrontFacts DEF Path
  <2>4. Proper(q)
    BY <2>1, <2>2, <2>3, ProperNext
  <2>5. q # <<>> /\ Front(q) = d
    BY <2>1, <2>2, <2>3, AppendFacts
  <2> QED BY <2>1, <2>4, <2>5
<1> QED BY <1>1, <1>2

LEMMA PlaceLinkFree ==
  ASSUME NEW fs, IsFileSystem(fs), NEW p, Proper(p), LinkFree(fs, Front(p))
  PROVE  /\ Place(fs, p) \subseteq {p}
         /\ p # <<>> => (Place(fs, p) = IF IsA(fs, Front(p), "dir") THEN {p} ELSE {})
         /\ Lstat(fs, p) = {p} \cap DOMAIN fs
<1>1. CASE p = <<>>
  <2>1. Place(fs, p) = {p}
    BY <1>1, Zenon DEF Place
  <2> QED BY <1>1, <2>1 DEF Lstat
<1>2. CASE p # <<>>
  <2>1. p \in Path /\ Last(p) # ".." /\ p = Append(Front(p), Last(p))
    <3>1. p \in Seq(Names) /\ Len(p) \in DOMAIN p
      BY <1>2 DEF Proper, Path
    <3> QED BY <1>2, <3>1, FrontFacts DEF Proper, Path, Last
  <2>2. Stat(fs, Front(p)) = {Front(p)} \cap DOMAIN fs
    BY StatLinkFree, ProperNext
  <2>3. Place(fs, p) = {Append(q, Last(p)) : q \in {d \in Stat(fs, Front(p)) :
                                                      IsA(fs, d, "dir") /\ Last(p) # ".."}}
    BY <1>2, Zenon DEF Place
  <2>4. CASE IsA(fs, Front(p), "dir")
    <3>1. {d \in Stat(fs, Front(p)) : IsA(fs, d, "dir") /\ Last(p) # ".."} = {Front(p)}
      BY <2>1, <2>2, <2>4 DEF IsA
    <3>2. Place(fs, p) = {Append(q, Last(p)) : q \in {Front(p)}}
      BY <2>3, <3>1, Zenon
    <3>3. Place(fs, p) = {p}
      BY <3>2, <2>1
    <3> QED BY <2>4, <3>3, Zenon DEF Lstat
  <2>5. CASE ~ IsA(fs, Front(p), "dir")
    <3>1. {d \in Stat(fs, Front(p)) : IsA(fs, d, "dir") /\ Last(p) # ".."} = {}
      BY <2>2, <2>5
    <3>2. Place(fs, p) = {Append(q, Last(p)) : q \in {}}
      BY <2>3, <3>1, Zenon
    <3>3. Place(fs, p) = {}
      BY <3>2
    <3>4. p \notin DOMAIN fs
      BY <1>2, <2>5 DEF IsFileSystem
    <3>5. Lstat(fs, p) = {} /\ {p} \cap DOMAIN fs = {}
      BY <3>3, <3>4 DEF Lstat
    <3> QED BY <1>2, <2>5, <3>3, <3>5
  <2> QED BY <2>4, <2>5
<1> QED BY <1>1, <1>2

-----------------------------------------------------------------------------
(***************************************************************************)
(* A file system that has grown: nothing is lost, and no link is new.      *)
(***************************************************************************)
Grown(fs, f) ==
  /\ IsFileSystem(f)
  /\ DOMAIN fs \subseteq DOMAIN f
  /\ \A p \in DOMAIN fs : f[p] = fs[p]
  /\ \A p \in DOMAIN f : p \notin DOMAIN fs => f[p].kind # "link"

LEMMA GrownFacts ==
  ASSUME NEW fs, NEW f, Grown(fs, f)
  PROVE  /\ SameLinks(fs, f)
         /\ \A p, kind : IsA(fs, p, kind) => IsA(f, p, kind)
         /\ \A q : LinkFree(fs, q) => LinkFree(f, q)
         /\ \A g : Grown(f, g) => Grown(fs, g)
<1>1. SameLinks(fs, f) /\ \A p, kind : IsA(fs, p, kind) => IsA(f, p, kind)
  BY Zenon DEF Grown, IsA, SameLinks
<1>2. \A q : LinkFree(fs, q) => LinkFree(f, q)
  BY <1>1, Zenon DEF LinkFree, SameLinks
<1>3. ASSUME NEW g, Grown(f, g) PROVE Grown(fs, g)
  <2>1. DOMAIN fs \subseteq DOMAIN g /\ \A p \in DOMAIN fs : g[p] = fs[p]
    BY <1>3, Zenon DEF Grown
  <2>2. ASSUME NEW p \in DOMAIN g, p \notin DOMAIN fs PROVE g[p].kind # "link"
    <3>1. CASE p \in DOMAIN f
      <4>1. g[p] = f[p] /\ f[p].kind # "link"
        BY <1>3, <2>2, <3>1, Zenon DEF Grown
      <4> QED BY <4>1, Zenon
    <3>2. CASE p \notin DOMAIN f
      BY <1>3, <3>2, Zenon DEF Grown
    <3> QED BY <3>1, <3>2
  <2> QED BY <1>3, <2>1, <2>2, Zenon DEF Grown
<1> QED BY <1>1, <1>2, <1>3

LEMMA GrownSelf ==
  ASSUME NEW fs, IsFileSystem(fs)
  PROVE  Grown(fs, fs)
BY Zenon DEF Grown

\* A directory or file in a directory.
LEMMA WithGrows ==
  ASSUME NEW fs, IsFileSystem(fs), NEW q, Proper(q), q # <<>>, q \notin DOMAIN fs,
         IsA(fs, Front(q), "dir"), NEW node \in {Dir, File}
  PROVE  Grown(fs, With(fs, q, node)) /\ IsA(With(fs, q, node), q, node.kind)
<1> DEFINE f == With(fs, q, node)
<1>1. DOMAIN f = DOMAIN fs \cup {q} /\ f[q] = node /\ \A p \in DOMAIN fs : f[p] = fs[p]
  <2>1. \A p \in DOMAIN fs : p # q
    OBVIOUS
  <2> QED BY <2>1, Zenon DEF With
<1>2. f = [p \in DOMAIN f |-> f[p]]
  BY Zenon DEF With
<1> HIDE DEF f
<1>3. node \in Node /\ node.kind \in {"dir", "file"}
  BY DEF Node, Dir, File
<1>4. f \in [DOMAIN f -> Node]
  <2>1. \A p \in DOMAIN fs : fs[p] \in Node
    BY DEF IsFileSystem
  <2>2. \A p \in DOMAIN f : f[p] \in Node
    BY <1>1, <1>3, <2>1, Zenon
  <2> QED BY <1>2, <2>2, Zenon
<1>5. \A p, kind : IsA(fs, p, kind) => IsA(f, p, kind)
  BY <1>1, Zenon DEF IsA
<1>6. IsFileSystem(f)
  <2>1. \A p \in DOMAIN f : Proper(p) /\ (p # <<>> => IsA(f, Front(p), "dir"))
    BY <1>1, <1>5, Zenon DEF IsFileSystem
  <2> QED BY <1>4, <1>5, <2>1, Zenon DEF IsFileSystem
<1>7. node.kind # "link"
  BY <1>3
<1>8. Grown(fs, f)
  BY <1>1, <1>6, <1>7, Zenon DEF Grown
<1>9. IsA(f, q, node.kind)
  BY <1>1, Zenon DEF IsA
<1> QED BY <1>8, <1>9 DEF f

\* The root is found.
LEMMA StatRoot ==
  ASSUME NEW fs, IsFileSystem(fs)
  PROVE  Stat(fs, <<>>) = {<<>>} /\ IsDir(fs, <<>>)
<1>1. Proper(<<>>) /\ LinkFree(fs, <<>>)
  BY DEF Proper, Path, LinkFree
<1>2. Stat(fs, <<>>) = {<<>>} \cap DOMAIN fs
  BY <1>1, StatLinkFree
<1>3. IsA(fs, <<>>, "dir") /\ <<>> \in DOMAIN fs
  BY DEF IsFileSystem, IsA
<1> QED BY <1>2, <1>3 DEF IsDir

-----------------------------------------------------------------------------
(***************************************************************************)
(* mkdirAll                                                                *)
(***************************************************************************)

\* What mkdirAll makes of the file systems that have the directory above p.
MkdirNext(fs, above, p) ==
  IF IsDir(fs, p) THEN {fs}
  ELSE IF Stat(fs, p) # {} THEN {}
  ELSE UNION {IF \E q \in Lstat(f, p) : IsA(f, q, "dir") THEN {f} ELSE Mkdir(f, p) : f \in above}

LEMMA MkdirNextGrows ==
  ASSUME NEW fs, IsFileSystem(fs), NEW p \in Path, NEW above, \A f \in above : Grown(fs, f)
  PROVE  \A f \in MkdirNext(fs, above, p) : Grown(fs, f)
<1> TAKE f \in MkdirNext(fs, above, p)
<1>1. CASE IsDir(fs, p)
  BY <1>1, GrownSelf, Zenon DEF MkdirNext
<1>2. CASE ~ IsDir(fs, p)
  <2>0. p # <<>>
    BY <1>2, StatRoot
  <2>1. PICK a \in above : f \in IF \E q \in Lstat(a, p) : IsA(a, q, "dir") THEN {a} ELSE Mkdir(a, p)
    BY <1>2, Zenon DEF MkdirNext
  <2>2. CASE f = a
    BY <2>1, <2>2
  <2>3. CASE f \in Mkdir(a, p)
    <3>1. IsFileSystem(a)
      BY <2>1 DEF Grown
    <3>2. PICK q \in Place(a, p) : q \notin DOMAIN a /\ f = With(a, q, Dir)
      BY <2>3, Zenon DEF Mkdir
    <3>3. Proper(q) /\ q # <<>> /\ IsA(a, Front(q), "dir")
      BY <2>0, <3>1, <3>2, PlaceFacts
    <3>4. Grown(a, f)
      BY <3>1, <3>2, <3>3, WithGrows
    <3> QED BY <3>4, <2>1, GrownFacts
  <2> QED BY <2>1, <2>2, <2>3, Zenon
<1> QED BY <1>1, <1>2

LEMMA MkdirAllSteps ==
  ASSUME NEW fs, IsFileSystem(fs), NEW p \in Path
  PROVE  /\ mkdirAll(fs, p) = MkdirNext(fs, mkdirAll(fs, Front(p)), p)
         /\ \A f \in mkdirAll(fs, p) : Grown(fs, f)
<1> DEFINE V == {f \in FileTree : Grown(fs, f)}
           T == SUBSET V
           m == [q \in Path |-> Len(q)]
           R == Lex(Path, m, m)
           F == [a \in Path \X [Path -> T] |-> MkdirNext(fs, a[2][Front(a[1])], a[1])]
<1>0. T # {} /\ \A U \in T : \A f \in U : Grown(fs, f)
  OBVIOUS
<1>00. \A U : (\A f \in U : Grown(fs, f)) => U \in T
  <2>1. \A f : Grown(fs, f) => f \in FileTree
    BY FileSystemIsTree DEF Grown
  <2> QED BY <2>1
<1>1. IsOrder(Path, R)
  <2>1. m \in [Path -> Nat]
    BY DEF Path
  <2> HIDE DEF m
  <2> QED BY <2>1, LexIsOrder
<1>2. \A q \in Path : Front(q) \in Path /\ (q # <<>> => <<Front(q), q>> \in R)
  <2> TAKE q \in Path
  <2>1. Front(q) \in Path /\ (q # <<>> => Len(q) \in Nat /\ Len(Front(q)) = Len(q) - 1)
    BY FrontFacts DEF Path
  <2>2. q # <<>> => m[Front(q)] < m[q]
    BY <2>1
  <2> QED BY <2>1, <2>2 DEF Lex
<1> HIDE DEF T, R
<1>3. \A q \in Path : \A g \in [Path -> T] : F[<<q, g>>] = MkdirNext(fs, g[Front(q)], q)
  OBVIOUS
<1> HIDE DEF F
<1>4. \A q \in Path : \A g \in [Path -> T] : F[<<q, g>>] \in T
  <2> TAKE q \in Path
  <2> TAKE g \in [Path -> T]
  <2>1. g[Front(q)] \in T
    BY <1>2
  <2>2. \A f \in MkdirNext(fs, g[Front(q)], q) : Grown(fs, f)
    BY <1>0, <2>1, MkdirNextGrows
  <2> QED BY <1>00, <1>3, <2>2
<1>5. \A q \in Path : \A g, h \in [Path -> T] :
        (\A y \in Path : <<y, q>> \in R => g[y] = h[y]) => F[<<q, g>>] = F[<<q, h>>]
  <2> TAKE q \in Path
  <2> TAKE g, h \in [Path -> T]
  <2> HAVE \A y \in Path : <<y, q>> \in R => g[y] = h[y]
  <2>1. MkdirNext(fs, g[Front(q)], q) = MkdirNext(fs, h[Front(q)], q)
    <3>1. CASE q = <<>>
      BY <3>1, StatRoot, Zenon DEF MkdirNext
    <3>2. CASE q # <<>>
      BY <3>2, <1>2
    <3> QED BY <3>1, <3>2
  <2>2. F[<<q, g>>] = MkdirNext(fs, g[Front(q)], q) /\ F[<<q, h>>] = MkdirNext(fs, h[Front(q)], q)
    BY <1>3
  <2> QED BY <2>1, <2>2
<1>6. IsRecursion(Path, T, R, F)
  BY <1>0, <1>1, <1>4, <1>5, Zenon DEF IsRecursion
<1>7. PICK f \in [Path -> T] : \A q \in Path : f[q] = F[<<q, f>>]
  BY <1>6, RecursiveFunction
<1> DEFINE Body(g) == [q \in Path |-> MkdirNext(fs, g[Front(q)], q)]
           make == CHOOSE g : g = Body(g)
<1>8. f = Body(f)
  BY <1>3, <1>7, Zenon
<1>9. make = Body(make)
  BY <1>8, Zenon
<1>10. \A q : mkdirAll(fs, q) = make[q]
  BY Zenon DEF mkdirAll, MkdirNext
<1> HIDE DEF make
<1>11. \A q \in Path : make[q] = MkdirNext(fs, make[Front(q)], q)
  BY <1>9, Zenon
<1> DEFINE G == {q \in Path : \A h \in make[q] : Grown(fs, h)}
<1>12. ASSUME NEW q \in Path, \A y \in Path : <<y, q>> \in R => y \in G PROVE q \in G
  <2>1. CASE q = <<>>
    <3>1. make[q] = {fs}
      BY <2>1, <1>11, StatRoot, Zenon DEF MkdirNext
    <3> QED BY <3>1, GrownSelf
  <2>2. CASE q # <<>>
    <3>1. \A h \in make[Front(q)] : Grown(fs, h)
      BY <2>2, <1>2, <1>12, Zenon
    <3>2. \A h \in MkdirNext(fs, make[Front(q)], q) : Grown(fs, h)
      BY <3>1, MkdirNextGrows
    <3> QED BY <3>2, <1>11, Zenon
  <2> QED BY <2>1, <2>2
<1>13. \A q \in Path : q \in G
  <2> HIDE DEF G
  <2> QED BY <1>1, <1>12, OrderInduction
<1> QED BY <1>10, <1>11, <1>13, Zenon

\* The directory is there.
LEMMA MkdirAllMakes ==
  ASSUME NEW fs, IsFileSystem(fs), NEW q, Proper(q), LinkFree(fs, q), NEW f \in mkdirAll(fs, q)
  PROVE  Grown(fs, f) /\ IsA(f, q, "dir")
<1> DEFINE N == Len(q)
           G == {n \in 0 .. N : \A g \in mkdirAll(fs, Begin(q, n)) : IsA(g, Begin(q, n), "dir")}
<1>0. q \in Path /\ q \in Seq(Names) /\ N \in Nat
  BY DEF Proper, Path
<1>1. 0 \in G
  <2>1. Begin(q, 0) = <<>> /\ <<>> \in Path /\ 0 \in 0 .. N
    BY <1>0, SplitEnds DEF Path
  <2>2. \A g \in mkdirAll(fs, <<>>) : IsA(g, <<>>, "dir")
    BY <2>1, MkdirAllSteps DEF Grown, IsFileSystem
  <2> QED BY <2>1, <2>2, Zenon
<1>2. ASSUME NEW n \in 1 .. N, n - 1 \in G PROVE n \in G
  <2> DEFINE p == Begin(q, n)
  <2>1. /\ n \in 0 .. N /\ n - 1 \in 0 .. N /\ p # <<>> /\ Front(p) = Begin(q, n - 1)
    BY <1>0, SplitNext
  <2>2. /\ p \in Path /\ Proper(p) /\ LinkFree(fs, p) /\ LinkFree(fs, Front(p)) /\ Front(p) \in Path
    <3>1. Proper(p) /\ Proper(Front(p)) /\ LinkFree(fs, p) /\ LinkFree(fs, Front(p))
      BY <1>0, <2>1, ProperNext, LinkFreeNext
    <3> QED BY <3>1 DEF Proper
  <2> HIDE DEF p
  <2>3. ASSUME NEW g \in mkdirAll(fs, p) PROVE IsA(g, p, "dir")
    <3>1. g \in MkdirNext(fs, mkdirAll(fs, Front(p)), p)
      BY <2>2, <2>3, MkdirAllSteps
    <3>2. CASE IsDir(fs, p)
      <4>1. g = fs
        BY <3>1, <3>2, Zenon DEF MkdirNext
      <4>2. Stat(fs, p) = {p} \cap DOMAIN fs
        BY <2>2, StatLinkFree
      <4> QED BY <3>2, <4>1, <4>2 DEF IsDir
    <3>3. CASE ~ IsDir(fs, p)
      <4>1. PICK a \in mkdirAll(fs, Front(p)) :
              g \in IF \E r \in Lstat(a, p) : IsA(a, r, "dir") THEN {a} ELSE Mkdir(a, p)
        BY <3>1, <3>3, Zenon DEF MkdirNext
      <4>2. Grown(fs, a) /\ IsFileSystem(a)
        BY <2>2, <4>1, MkdirAllSteps DEF Grown
      <4>3. Place(a, p) \subseteq {p} /\ Lstat(a, p) = {p} \cap DOMAIN a
        BY <2>2, <4>2, GrownFacts, PlaceLinkFree
      <4>4. CASE \E r \in Lstat(a, p) : IsA(a, r, "dir")
        <5>1. g = a
          BY <4>1, <4>4, Zenon
        <5> QED BY <4>3, <4>4, <5>1
      <4>5. CASE ~ \E r \in Lstat(a, p) : IsA(a, r, "dir")
        <5>1. PICK r \in Place(a, p) : r \notin DOMAIN a /\ g = With(a, r, Dir)
          BY <4>1, <4>5, Zenon DEF Mkdir
        <5>2. r = p /\ p \notin DOMAIN a
          BY <4>3, <5>1
        <5>3. IsA(a, Front(p), "dir")
          BY <2>1, <2>2, <4>2, <5>1, <5>2, PlaceFacts
        <5>4. IsA(With(a, p, Dir), p, Dir.kind)
          BY <2>1, <2>2, <4>2, <5>2, <5>3, WithGrows
        <5>5. Dir.kind = "dir"
          BY DEF Dir
        <5> QED BY <5>1, <5>2, <5>4, <5>5
      <4> QED BY <4>4, <4>5
    <3> QED BY <3>2, <3>3
  <2> QED BY <2>1, <2>3 DEF p
<1>3. \A n \in 0 .. N : n \in G
  <2> HIDE DEF G, N
  <2> QED BY <1>0, <1>1, <1>2, NumbersInduction
<1>4. N \in G /\ Begin(q, N) = q
  BY <1>0, <1>3, SplitEnds
<1> QED BY <1>0, <1>4, MkdirAllSteps

\* Where no link leads to the directory, nothing is made but it and those above it.
Above(q) == {Begin(q, n) : n \in 0 .. Len(q)}

LEMMA AboveNext ==
  ASSUME NEW q \in Path
  PROVE  q \in Above(q) /\ \A x \in Names : Above(q) \subseteq Above(Append(q, x))
<1>0. q \in Seq(Names) /\ Len(q) \in Nat
  BY DEF Path
<1>1. q \in Above(q)
  <2>1. Len(q) \in 0 .. Len(q) /\ Begin(q, Len(q)) = q
    BY <1>0, SplitEnds
  <2> QED BY <2>1, Zenon DEF Above
<1>2. ASSUME NEW x \in Names, NEW n \in 0 .. Len(q)
      PROVE  Begin(q, n) \in Above(Append(q, x))
  <2> DEFINE a == Append(q, x)
  <2>1. a \in Seq(Names) /\ Len(a) = Len(q) + 1 /\ a # <<>> /\ Front(a) = q
    BY <1>0, AppendFacts
  <2> HIDE DEF a
  <2>2. Len(q) + 1 \in 1 .. Len(a) /\ Len(q) \in 0 .. Len(a) /\ n \in 0 .. Len(a)
        /\ (Len(q) + 1) - 1 = Len(q)
    BY <1>0, <2>1
  <2>3. Begin(a, Len(a)) = a /\ Front(Begin(a, Len(q) + 1)) = Begin(a, (Len(q) + 1) - 1)
    BY <2>1, <2>2, SplitEnds, SplitNext
  <2>4. Begin(a, Len(q)) = q
    BY <2>1, <2>2, <2>3
  <2>5. Begin(Begin(a, Len(q)), n) = Begin(a, n)
    BY <2>1, <2>2, SplitAgain
  <2> QED BY <2>2, <2>4, <2>5, Zenon DEF Above, a
<1> QED BY <1>1, <1>2, Zenon DEF Above

LEMMA MkdirAllStays ==
  ASSUME NEW fs, IsFileSystem(fs)
  PROVE  \A q \in Path : Proper(q) /\ LinkFree(fs, Front(q)) =>
           \A f \in mkdirAll(fs, q) : DOMAIN f \subseteq DOMAIN fs \cup Above(q)
<1> DEFINE G == {q \in Path : Proper(q) /\ LinkFree(fs, Front(q)) =>
                   \A f \in mkdirAll(fs, q) : DOMAIN f \subseteq DOMAIN fs \cup Above(q)}
<1>0. \A q \in Path : IsDir(fs, q) => mkdirAll(fs, q) = {fs}
  BY MkdirAllSteps, Zenon DEF MkdirNext
<1>1. <<>> \in G
  <2>1. <<>> \in Path
    BY DEF Path
  <2>2. mkdirAll(fs, <<>>) = {fs}
    BY <1>0, <2>1, StatRoot
  <2> QED BY <2>1, <2>2
<1>2. ASSUME NEW q \in Path, q \in G, NEW x \in Names PROVE Append(q, x) \in G
  <2> DEFINE p == Append(q, x)
  <2>1. p \in Path /\ p # <<>> /\ Front(p) = q
    BY AppendFacts DEF Path
  <2> HIDE DEF p
  <2>2. SUFFICES ASSUME Proper(p), LinkFree(fs, q), NEW f \in mkdirAll(fs, p)
                 PROVE  DOMAIN f \subseteq DOMAIN fs \cup Above(p)
    BY <2>1, Zenon DEF p
  <2>3. f \in MkdirNext(fs, mkdirAll(fs, q), p)
    BY <2>1, <2>2, MkdirAllSteps
  <2>4. CASE f = fs
    BY <2>4
  <2>5. CASE f # fs
    <3>1. PICK a \in mkdirAll(fs, q) :
            f \in IF \E r \in Lstat(a, p) : IsA(a, r, "dir") THEN {a} ELSE Mkdir(a, p)
      BY <2>3, <2>5, Zenon DEF MkdirNext
    <3>2. DOMAIN a \subseteq DOMAIN fs \cup Above(q)
      <4>1. Proper(q) /\ LinkFree(fs, Front(q))
        BY <2>1, <2>2, ProperNext, LinkFreeNext
      <4> QED BY <4>1, <3>1, <1>2, Zenon
    <3>3. Grown(fs, a) /\ IsFileSystem(a)
      BY <3>1, MkdirAllSteps DEF Grown
    <3>4. LinkFree(a, Front(p))
      BY <2>1, <2>2, <3>3, GrownFacts
    <3>5. Place(a, p) \subseteq {p}
      BY <2>2, <3>3, <3>4, PlaceLinkFree
    <3>6. DOMAIN f \subseteq DOMAIN a \cup {p}
      <4>1. CASE f = a
        BY <4>1
      <4>2. CASE f \in Mkdir(a, p)
        <5>1. PICK r \in Place(a, p) : f = With(a, r, Dir)
          BY <4>2, Zenon DEF Mkdir
        <5>2. DOMAIN f = DOMAIN a \cup {r}
          BY <5>1 DEF With
        <5> QED BY <3>5, <5>2
      <4> QED BY <3>1, <4>1, <4>2, Zenon
    <3>7. Above(q) \subseteq Above(p) /\ p \in Above(p)
      BY <2>1, AboveNext DEF p
    <3> QED BY <3>2, <3>6, <3>7
  <2> QED BY <2>4, <2>5
<1>3. \A q \in Path : q \in G
  <2> HIDE DEF G
  <2>1. \A q \in Seq(Names) : q \in G => \A x \in Names : Append(q, x) \in G
    BY <1>2 DEF Path
  <2> QED BY <1>1, <2>1, PathInduction DEF Path
<1> QED BY <1>3, Zenon

-----------------------------------------------------------------------------
(***************************************************************************)
(* Touch and createMountDestination                                        *)
(***************************************************************************)

\* One step of Touch, which goes on with g where a link leads.
TouchNext(fs, g, links, p) ==
  IF Stat(fs, p) # {} THEN IF IsDir(fs, p) THEN {} ELSE {fs}
  ELSE UNION {IF q \notin DOMAIN fs THEN {With(fs, q, File)}
              ELSE IF ~IsA(fs, q, "link") \/ links = 0 THEN {}
              ELSE g[IF fs[q].abs THEN fs[q].to ELSE Front(q) \o fs[q].to]
               : q \in Place(fs, p)}

LEMMA TouchNextGrows ==
  ASSUME NEW fs, IsFileSystem(fs), NEW p \in Path, NEW links, NEW g,
         links = 0 \/ \A q \in Path : \A f \in g[q] : Grown(fs, f)
  PROVE  \A f \in TouchNext(fs, g, links, p) : Grown(fs, f)
<1> TAKE f \in TouchNext(fs, g, links, p)
<1>1. CASE Stat(fs, p) # {}
  BY <1>1, GrownSelf, Zenon DEF TouchNext
<1>2. CASE Stat(fs, p) = {}
  <2>0. p # <<>>
    BY <1>2, StatRoot
  <2>1. PICK q \in Place(fs, p) :
          f \in IF q \notin DOMAIN fs THEN {With(fs, q, File)}
                ELSE IF ~IsA(fs, q, "link") \/ links = 0 THEN {}
                ELSE g[IF fs[q].abs THEN fs[q].to ELSE Front(q) \o fs[q].to]
    BY <1>2, Zenon DEF TouchNext
  <2>2. Proper(q) /\ q # <<>> /\ IsA(fs, Front(q), "dir")
    BY <2>0, PlaceFacts
  <2>3. CASE q \notin DOMAIN fs
    <3>1. f = With(fs, q, File)
      BY <2>1, <2>3, Zenon
    <3> QED BY <3>1, <2>2, <2>3, WithGrows
  <2>4. CASE q \in DOMAIN fs
    <3> DEFINE to == IF fs[q].abs THEN fs[q].to ELSE Front(q) \o fs[q].to
    <3>1. IsA(fs, q, "link") /\ links # 0 /\ f \in g[to]
      BY <2>1, <2>4, Zenon
    <3>2. fs[q].to \in Path
      BY <3>1, FileSystemIsTree, TreeFacts
    <3>3. Front(q) \o fs[q].to \in Path
      <4>1. Front(q) \in Path
        BY <2>2, ProperNext DEF Proper
      <4> QED BY <3>2, <4>1, CatFacts DEF Path
    <3>4. to \in Path
      BY <3>2, <3>3
    <3> HIDE DEF to
    <3> QED BY <3>1, <3>4
  <2> QED BY <2>3, <2>4
<1> QED BY <1>1, <1>2

LEMMA TouchSteps ==
  ASSUME NEW fs, IsFileSystem(fs)
  PROVE  \E touch : \A p \in Path :
           /\ Touch(fs, p) = TouchNext(fs, touch, MaxLinks, p)
           /\ \A f \in Touch(fs, p) : Grown(fs, f)
<1> DEFINE V == {f \in FileTree : Grown(fs, f)}
           U == SUBSET V
           T == [Path -> U]
           next(g, i) == [p \in Path |-> TouchNext(fs, g, i, p)]
           F == [a \in (1 .. MaxLinks) \X T |-> next(a[2], a[1])]
<1>0. MaxLinks \in Nat
  BY MountsAssumption
<1>1. \A X : (\A f \in X : Grown(fs, f)) => X \in U
  <2>1. \A f : Grown(fs, f) => f \in FileTree
    BY FileSystemIsTree DEF Grown
  <2> QED BY <2>1
<1>2. \A X \in U : \A f \in X : Grown(fs, f)
  OBVIOUS
<1> HIDE DEF U
<1>3. \A g : next(g, 0) \in T
  <2> TAKE g
  <2>1. \A p \in Path : TouchNext(fs, g, 0, p) \in U
    <3> TAKE p \in Path
    <3>1. \A f \in TouchNext(fs, g, 0, p) : Grown(fs, f)
      BY TouchNextGrows
    <3> QED BY <1>1, <3>1
  <2> QED BY <2>1, Zenon
<1>4. \A g \in T : \A i : next(g, i) \in T
  <2> TAKE g \in T
  <2> TAKE i
  <2>1. \A q \in Path : \A f \in g[q] : Grown(fs, f)
    BY <1>2
  <2>2. \A p \in Path : TouchNext(fs, g, i, p) \in U
    <3> TAKE p \in Path
    <3>1. \A f \in TouchNext(fs, g, i, p) : Grown(fs, f)
      BY <2>1, TouchNextGrows
    <3> QED BY <1>1, <3>1
  <2> QED BY <2>2, Zenon
<1>5. \A g, h : next(g, 0) = next(h, 0)
  <2> TAKE g, h
  <2>1. \A p \in Path : TouchNext(fs, g, 0, p) = TouchNext(fs, h, 0, p)
    BY Zenon DEF TouchNext
  <2> QED BY <2>1, Zenon
<1> HIDE DEF T, next
<1>6. \A i \in 1 .. MaxLinks : \A g \in T : F[<<i, g>>] = next(g, i) /\ F[<<i, g>>] \in T
  BY <1>4
<1> HIDE DEF F
<1> DEFINE b == next(<<>>, 0)
<1>7. b \in T
  BY <1>3
<1> HIDE DEF b
<1>8. PICK f \in [0 .. MaxLinks -> T] :
        f[0] = b /\ \A i \in 1 .. MaxLinks : f[i] = F[<<i, f[i - 1]>>]
  <2>1. IsIteration(MaxLinks, T, b, F)
    BY <1>0, <1>6, <1>7 DEF IsIteration
  <2> QED BY <2>1, Iteration
<1> DEFINE Body(g) == [i \in 0 .. MaxLinks |-> next(g[i - 1], i)]
           touch == CHOOSE g : g = Body(g)
<1>9. f = Body(f)
  <2>1. ASSUME NEW i \in 0 .. MaxLinks PROVE f[i] = next(f[i - 1], i)
    <3>1. CASE i = 0
      BY <3>1, <1>5, <1>8, Zenon DEF b
    <3>2. CASE i # 0
      <4>1. i \in 1 .. MaxLinks /\ i - 1 \in 0 .. MaxLinks
        BY <1>0, <3>2
      <4> QED BY <4>1, <1>6, <1>8
    <3> QED BY <3>1, <3>2
  <2> QED BY <2>1, <1>8, Zenon
<1>10. touch = Body(touch)
  BY <1>9, Zenon
<1>11. \A p : Touch(fs, p) = touch[MaxLinks][p]
  BY Zenon DEF Touch, TouchNext, next
<1> HIDE DEF touch
<1>12. \A i \in 0 .. MaxLinks : touch[i] = next(touch[i - 1], i)
  BY <1>10, Zenon
<1> DEFINE G == {i \in 0 .. MaxLinks : touch[i] \in T}
<1>13. \A i \in 0 .. MaxLinks : i \in G
  <2>1. 0 \in G
    <3>1. 0 \in 0 .. MaxLinks
      BY <1>0
    <3> QED BY <3>1, <1>3, <1>12, Zenon
  <2>2. ASSUME NEW i \in 1 .. MaxLinks, i - 1 \in G PROVE i \in G
    <3>1. i \in 0 .. MaxLinks
      BY <1>0
    <3> QED BY <3>1, <2>2, <1>4, <1>12, Zenon
  <2> HIDE DEF G
  <2> QED BY <1>0, <2>1, <2>2, NumbersInduction
<1>14. MaxLinks \in 0 .. MaxLinks
  BY <1>0
<1>15. touch[MaxLinks] = next(touch[MaxLinks - 1], MaxLinks) /\ touch[MaxLinks] \in T
  BY <1>12, <1>13, <1>14, Zenon
<1> DEFINE before == touch[MaxLinks - 1]
<1>16. ASSUME NEW p \in Path
       PROVE  /\ Touch(fs, p) = TouchNext(fs, before, MaxLinks, p)
              /\ \A h \in Touch(fs, p) : Grown(fs, h)
  <2>1. touch[MaxLinks][p] = TouchNext(fs, before, MaxLinks, p)
    BY <1>15, Zenon DEF next
  <2>2. touch[MaxLinks][p] \in U
    BY <1>15 DEF T
  <2> QED BY <2>1, <2>2, <1>2, <1>11, Zenon
<1> QED BY <1>16, Zenon

\* The file is there, and nothing else is new.
LEMMA TouchMakes ==
  ASSUME NEW fs, IsFileSystem(fs), NEW p, Proper(p), LinkFree(fs, p), NEW f \in Touch(fs, p)
  PROVE  IsA(f, p, "file") /\ DOMAIN f \subseteq DOMAIN fs \cup {p}
<1>0. p \in Path
  BY DEF Proper
<1>1. PICK g : f \in TouchNext(fs, g, MaxLinks, p)
  BY <1>0, TouchSteps, Zenon
<1>2. Stat(fs, p) = {p} \cap DOMAIN fs
  BY StatLinkFree
<1>3. CASE Stat(fs, p) # {}
  <2>1. f = fs /\ ~ IsDir(fs, p)
    BY <1>1, <1>3, Zenon DEF TouchNext
  <2>2. p \in DOMAIN fs /\ ~ IsA(fs, p, "dir")
    BY <1>2, <1>3, <2>1 DEF IsDir
  <2>3. ~ IsA(fs, p, "link")
    <3>1. p # <<>>
      BY <2>1, StatRoot
    <3> QED BY <1>0, <3>1, LinkFreeNext
  <2> QED BY <2>1, <2>2, <2>3, FileSystemIsTree, TreeFacts DEF IsA
<1>4. CASE Stat(fs, p) = {}
  <2>0. p # <<>> /\ p \notin DOMAIN fs
    BY <1>2, <1>4, StatRoot
  <2>1. PICK q \in Place(fs, p) :
          f \in IF q \notin DOMAIN fs THEN {With(fs, q, File)}
                ELSE IF ~IsA(fs, q, "link") \/ MaxLinks = 0 THEN {}
                ELSE g[IF fs[q].abs THEN fs[q].to ELSE Front(q) \o fs[q].to]
    BY <1>1, <1>4, Zenon DEF TouchNext
  <2>2. q = p
    BY <1>0, LinkFreeNext, PlaceLinkFree
  <2>3. f = With(fs, p, File)
    BY <2>0, <2>1, <2>2, Zenon
  <2>4. IsA(fs, Front(p), "dir")
    BY <1>0, <2>0, <2>1, <2>2, PlaceFacts
  <2>5. IsA(f, p, File.kind)
    BY <2>0, <2>3, <2>4, WithGrows
  <2>6. File.kind = "file"
    BY DEF File
  <2>7. DOMAIN f = DOMAIN fs \cup {p}
    BY <2>3 DEF With
  <2> QED BY <2>5, <2>6, <2>7
<1> QED BY <1>3, <1>4

\* createMountDestination loses nothing, and where no link is on the way it makes what
\* the mount needs and nothing beside it.
LEMMA DestinationMade ==
  ASSUME NEW fs, IsFileSystem(fs), NEW dest, Proper(dest), NEW mount,
         NEW f \in createMountDestination(fs, mount, dest)
  PROVE  /\ Grown(fs, f)
         /\ LinkFree(fs, dest) =>
              /\ IsA(f, dest, IF mount.source = "file" THEN "file" ELSE "dir")
              /\ DOMAIN f \subseteq DOMAIN fs \cup Above(dest)
<1>0. dest \in Path /\ Proper(Front(dest)) /\ Front(dest) \in Path
  BY ProperNext DEF Proper
<1>00. LinkFree(fs, dest) => LinkFree(fs, Front(dest)) /\ LinkFree(fs, Front(Front(dest)))
  BY <1>0, LinkFreeNext
<1>000. Above(Front(dest)) \cup {dest} \subseteq Above(dest)
  <2>1. CASE dest = <<>>
    <3>1. Front(dest) = dest
      BY <2>1, SubSeqEmpty DEF Front
    <3> QED BY <1>0, <3>1, AboveNext
  <2>2. CASE dest # <<>>
    <3>1. Last(dest) \in Names /\ dest = Append(Front(dest), Last(dest))
      BY <1>0, <2>2, FrontFacts DEF Path
    <3> QED BY <1>0, <3>1, AboveNext
  <2> QED BY <2>1, <2>2
<1>1. CASE mount.source = "file"
  <2>1. PICK a \in mkdirAll(fs, Front(dest)) : f \in Touch(a, dest)
    BY <1>1, Zenon DEF createMountDestination
  <2>2. Grown(fs, a) /\ IsFileSystem(a)
    BY <1>0, <2>1, MkdirAllSteps DEF Grown
  <2>3. Grown(a, f)
    BY <1>0, <2>1, <2>2, TouchSteps, Zenon
  <2>4. LinkFree(fs, dest) => IsA(f, dest, "file") /\ DOMAIN f \subseteq DOMAIN a \cup {dest}
    BY <2>1, <2>2, GrownFacts, TouchMakes
  <2>5. LinkFree(fs, dest) => DOMAIN a \subseteq DOMAIN fs \cup Above(Front(dest))
    BY <1>0, <1>00, <2>1, MkdirAllStays
  <2>6. LinkFree(fs, dest) => DOMAIN f \subseteq DOMAIN fs \cup Above(dest)
    BY <1>000, <2>4, <2>5
  <2> QED BY <1>1, <2>2, <2>3, <2>4, <2>6, GrownFacts
<1>2. CASE mount.source # "file"
  <2>1. f \in mkdirAll(fs, dest)
    BY <1>2, Zenon DEF createMountDestination
  <2>2. LinkFree(fs, dest) => IsA(f, dest, "dir")
    BY <2>1, MkdirAllMakes
  <2>3. LinkFree(fs, dest) => DOMAIN f \subseteq DOMAIN fs \cup Above(dest)
    BY <1>0, <1>00, <2>1, MkdirAllStays
  <2> QED BY <1>0, <1>2, <2>1, <2>2, <2>3, MkdirAllSteps
<1> QED BY <1>1, <1>2

\* The same holds for what is left when the making fails half-way.
LEMMA SomeMade ==
  ASSUME NEW fs, IsFileSystem(fs), NEW path, Proper(path), NEW f \in mkdirSome(fs, path)
  PROVE  /\ Grown(fs, f)
         /\ LinkFree(fs, Front(path)) => DOMAIN f \subseteq DOMAIN fs \cup Above(path)
<1>0. path \in Path /\ path \in Seq(Names) /\ Len(path) \in Nat /\ Front(path) \in Path
  BY ProperNext DEF Proper, Path
<1>1. PICK n \in 0 .. Len(path) : f \in mkdirAll(fs, Begin(path, n))
  BY Zenon DEF mkdirSome, Begin
<1> DEFINE b == Begin(path, n)
<1>2. Proper(b) /\ b \in Path /\ Len(b) = n
  BY <1>0, ProperNext, Split DEF Path
<1>3. Grown(fs, f)
  BY <1>1, <1>2, MkdirAllSteps
<1>4. ASSUME LinkFree(fs, Front(path)) PROVE LinkFree(fs, Front(b))
  <2>1. CASE n = Len(path)
    BY <1>0, <1>4, <2>1, SplitEnds
  <2>2. CASE n # Len(path)
    <3>1. Len(path) \in 1 .. Len(path) /\ Len(path) - 1 \in 0 .. Len(path) /\ n \in 0 .. Len(path) - 1
      BY <1>0, <2>2
    <3>2. Front(path) = Begin(path, Len(path) - 1)
      <4>1. Begin(path, Len(path)) = path
        BY <1>0, SplitEnds
      <4>2. Front(Begin(path, Len(path))) = Begin(path, Len(path) - 1)
        BY <1>0, <3>1, SplitNext
      <4> QED BY <4>1, <4>2
    <3>3. b = Begin(Front(path), n) /\ n \in 0 .. Len(Front(path))
      <4>1. Len(Begin(path, Len(path) - 1)) = Len(path) - 1
        BY <1>0, <3>1, Split
      <4>2. Begin(Begin(path, Len(path) - 1), n) = Begin(path, n)
        BY <1>0, <3>1, SplitAgain
      <4> QED BY <3>1, <3>2, <4>1, <4>2
    <3>4. LinkFree(fs, b)
      BY <1>0, <1>4, <3>3, LinkFreeNext
    <3> QED BY <1>2, <3>4, LinkFreeNext
  <2> QED BY <2>1, <2>2
<1>5. Above(b) \subseteq Above(path)
  <2> SUFFICES ASSUME NEW a \in Above(b) PROVE a \in Above(path)
    OBVIOUS
  <2>1. PICK i \in 0 .. n : a = Begin(b, i)
    BY <1>2, Zenon DEF Above
  <2>2. a = Begin(path, i) /\ i \in 0 .. Len(path)
    BY <1>0, <2>1, SplitAgain
  <2> QED BY <2>2, Zenon DEF Above
<1> HIDE DEF b
<1>6. LinkFree(fs, Front(path)) => DOMAIN f \subseteq DOMAIN fs \cup Above(b)
  BY <1>1, <1>2, <1>4, MkdirAllStays DEF b
<1> QED BY <1>3, <1>5, <1>6

LEMMA SomeDestinationMade ==
  ASSUME NEW fs, IsFileSystem(fs), NEW dest, Proper(dest), NEW mount,
         NEW f \in createSomeOfMountDestination(fs, mount, dest)
  PROVE  /\ Grown(fs, f)
         /\ LinkFree(fs, dest) => DOMAIN f \subseteq DOMAIN fs \cup Above(dest)
<1>0. dest \in Path /\ Proper(Front(dest)) /\ Front(dest) \in Path
  BY ProperNext DEF Proper
<1>1. LinkFree(fs, dest) => LinkFree(fs, Front(dest)) /\ LinkFree(fs, Front(Front(dest)))
  BY <1>0, LinkFreeNext
<1>2. CASE f = fs
  BY <1>2, GrownSelf
<1>3. CASE f \in mkdirSome(fs, dest)
  BY <1>1, <1>3, SomeMade
<1>4. CASE f \in mkdirSome(fs, Front(dest))
  <2>1. Above(Front(dest)) \subseteq Above(dest)
    <3>1. CASE dest = <<>>
      <4>1. Front(dest) = dest
        BY <3>1, SubSeqEmpty DEF Front
      <4> QED BY <4>1
    <3>2. CASE dest # <<>>
      <4>1. Last(dest) \in Names /\ dest = Append(Front(dest), Last(dest))
        BY <1>0, <3>2, FrontFacts DEF Path
      <4> QED BY <1>0, <4>1, AboveNext
    <3> QED BY <3>1, <3>2
  <2>2. Grown(fs, f) /\ (LinkFree(fs, dest) => DOMAIN f \subseteq DOMAIN fs \cup Above(Front(dest)))
    BY <1>0, <1>1, <1>4, SomeMade
  <2> QED BY <2>1, <2>2
<1> QED BY <1>2, <1>3, <1>4, Zenon DEF createSomeOfMountDestination

\* What is new on the way to a place in the rootfs is in the rootfs.
LEMMA NewInRootfs ==
  ASSUME NEW fs, IsFileSystem(fs), NEW q \in Path, IsPrefix(Rootfs, q),
         NEW a \in Above(q), a \notin DOMAIN fs
  PROVE  IsPrefix(Rootfs, a)
<1> DEFINE m == Len(Rootfs)
<1>0. /\ q \in Seq(Names) /\ Len(q) \in Nat /\ Rootfs \in Seq(Names) /\ m \in Nat
      /\ Rootfs \in DOMAIN fs
  BY MountsAssumption DEF Proper, Path, IsFileSystem, IsA
<1>1. m <= Len(q) /\ Begin(q, m) = Rootfs
  <2>1. Len(Rootfs) <= Len(q) /\ SubSeq(Rootfs, 1, Len(Rootfs)) = SubSeq(q, 1, Len(Rootfs))
    BY Zenon DEF IsPrefix
  <2>2. Begin(Rootfs, Len(Rootfs)) = Rootfs
    BY <1>0, SplitEnds
  <2> QED BY <2>1, <2>2, Zenon DEF Begin
<1>2. PICK n \in 0 .. Len(q) : a = Begin(q, n)
  BY Zenon DEF Above
<1>3. CASE n <= m
  <2>1. m \in 0 .. Len(q) /\ n \in 0 .. m /\ n \in 0 .. Len(Rootfs)
    BY <1>0, <1>1, <1>3
  <2>2. a = Begin(Rootfs, n)
    BY <1>0, <1>1, <1>2, <2>1, SplitAgain
  <2>3. CASE n = m
    BY <1>0, <2>2, <2>3, SplitEnds
  <2>4. CASE n # m
    <3>1. n < Len(Rootfs)
      BY <1>0, <2>1, <2>4
    <3> QED BY <1>0, <2>1, <2>2, <3>1, AboveIsDir DEF IsA
  <2> QED BY <2>3, <2>4
<1>4. CASE ~ (n <= m)
  <2>1. m \in 0 .. n /\ m <= n
    BY <1>0, <1>4
  <2>2. Begin(a, m) = Rootfs /\ Len(a) = n
    BY <1>0, <1>1, <1>2, <2>1, SplitAgain, Split
  <2>3. Begin(Rootfs, m) = Rootfs
    BY <1>0, SplitEnds
  <2> QED BY <2>1, <2>2, <2>3, Zenon DEF IsPrefix, Begin
<1> QED BY <1>3, <1>4

-----------------------------------------------------------------------------
(***************************************************************************)
(* resolveMountDestination                                                 *)
(***************************************************************************)

\* One name more of the destination.
ResolvedNext(fs, r, x) ==
  IF r.err THEN [path |-> Join(r.path, <<x>>), err |-> TRUE] ELSE resolvePathRelative(fs, r.path, x)

Resolved == [path : {p \in Path : Proper(p)}, err : BOOLEAN]

LEMMA ResolvedProper ==
  ASSUME NEW fs, IsFileSystem(fs), NEW r \in Resolved, NEW x \in Names
  PROVE  ResolvedNext(fs, r, x) \in Resolved
<1> DEFINE P == {p \in Path : Proper(p)}
           p == Join(r.path, <<x>>)
<1>0. \A q : Proper(q) => q \in P
  BY DEF Proper
<1>1. r.path \in P /\ r.err \in BOOLEAN /\ \A a \in P, e \in BOOLEAN : [path |-> a, err |-> e] \in Resolved
  BY Zenon DEF Resolved
<1>2. p \in P
  BY <1>0, <1>1, JoinName, ProperNext
<1>3. \A a \in P, t \in Path : Join(a, t) \in P
  <2> TAKE a \in P, t \in Path
  <2>1. a \o t \in Path
    BY CatFacts DEF Path
  <2> QED BY <1>0, <2>1, CleanProper DEF Join
<1>4. Rootfs \in P
  BY <1>0, MountsAssumption
<1> HIDE DEF P, p
<1>5. CASE r.err \/ Lstat(fs, p) = {}
  <2>1. ResolvedNext(fs, r, x) = [path |-> p, err |-> TRUE]
    BY <1>5, Zenon DEF ResolvedNext, resolvePathRelative, p
  <2> QED BY <1>1, <1>2, <2>1
<1>6. CASE ~ r.err /\ Lstat(fs, p) # {}
  <2> DEFINE q == CHOOSE q \in Lstat(fs, p) : TRUE
             node == fs[q]
             path == IF node.kind # "link" \/ (node.abs /\ HasPrefix(node.to, Rootfs)) THEN p
                     ELSE IF node.abs THEN Join(Rootfs, node.to)
                     ELSE Join(r.path, node.to)
  <2>1. ResolvedNext(fs, r, x) = [path |-> path, err |-> FALSE]
    BY <1>6, Zenon DEF ResolvedNext, resolvePathRelative, p
  <2>2. q \in DOMAIN fs
    <3>1. q \in Lstat(fs, p)
      BY <1>6, Zenon
    <3> HIDE DEF q
    <3> QED BY <3>1 DEF Lstat
  <2> HIDE DEF q
  <2>3. node.kind = "link" => node.to \in Path
    BY <2>2, FileSystemIsTree, TreeFacts DEF IsA
  <2>4. path \in P
    <3> HIDE DEF node
    <3> QED BY <1>1, <1>2, <1>3, <1>4, <2>3, Zenon
  <2> HIDE DEF path
  <2> QED BY <1>1, <2>1, <2>4
<1> QED BY <1>1, <1>5, <1>6, Zenon

LEMMA ResolvedSteps ==
  ASSUME NEW fs, IsFileSystem(fs), NEW dst \in Path
  PROVE  \E r \in [0 .. Len(dst) -> Resolved] :
           /\ r[0] = [path |-> Rootfs, err |-> FALSE]
           /\ \A n \in 1 .. Len(dst) : r[n] = ResolvedNext(fs, r[n - 1], dst[n])
           /\ resolveMountDestination(fs, dst) = r[Len(dst)].path
<1> DEFINE N == Len(dst)
           b == [path |-> Rootfs, err |-> FALSE]
           next(n, r) == ResolvedNext(fs, r, dst[n])
           F == [a \in (1 .. N) \X Resolved |-> next(a[1], a[2])]
<1>0. N \in Nat /\ \A n \in 1 .. N : dst[n] \in Names
  BY DEF Path
<1>1. b \in Resolved
  <2>1. Rootfs \in {p \in Path : Proper(p)}
    BY MountsAssumption DEF Proper
  <2> QED BY <2>1, Zenon DEF Resolved
<1>2. \A n \in 1 .. N : \A r \in Resolved : next(n, r) \in Resolved
  BY <1>0, ResolvedProper
<1> HIDE DEF N, b, next
<1>3. \A n \in 1 .. N : \A r \in Resolved : F[<<n, r>>] = next(n, r) /\ F[<<n, r>>] \in Resolved
  BY <1>2
<1> HIDE DEF F
<1>4. PICK f \in [0 .. N -> Resolved] : f[0] = b /\ \A i \in 1 .. N : f[i] = F[<<i, f[i - 1]>>]
  <2>1. IsIteration(N, Resolved, b, F)
    BY <1>0, <1>1, <1>3 DEF IsIteration
  <2> QED BY <2>1, Iteration
<1>5. \A n \in 1 .. N : n \in 0 .. N /\ n - 1 \in 0 .. N /\ n # 0
  BY <1>0
<1>6. \A n \in 0 .. N : n # 0 => n \in 1 .. N
  BY <1>0
<1> DEFINE Body(g) == [n \in 0 .. N |-> IF n = 0 THEN b ELSE next(n, g[n - 1])]
           resolved == CHOOSE g : g = Body(g)
<1>7. f = Body(f)
  <2>1. \A n \in 1 .. N : f[n] = next(n, f[n - 1])
    BY <1>3, <1>4, <1>5
  <2>2. \A n \in 0 .. N : f[n] = IF n = 0 THEN b ELSE next(n, f[n - 1])
    BY <2>1, <1>4, <1>6, Zenon
  <2> QED BY <2>2, <1>4, Zenon
<1>8. resolved = Body(resolved)
  BY <1>7, Zenon
<1>9. resolveMountDestination(fs, dst) = resolved[N].path
  BY Zenon DEF resolveMountDestination, ResolvedNext, N, next, b
<1> HIDE DEF resolved
<1>10. resolved[0] = b /\ \A n \in 1 .. N : resolved[n] = next(n, resolved[n - 1])
  <2>1. 0 \in 0 .. N
    BY <1>0
  <2> QED BY <2>1, <1>5, <1>8, Zenon
<1> DEFINE G == {n \in 0 .. N : resolved[n] \in Resolved}
<1>11. \A n \in 0 .. N : n \in G
  <2>1. 0 \in G
    BY <1>0, <1>1, <1>10
  <2>2. \A i \in 1 .. N : i - 1 \in G => i \in G
    BY <1>2, <1>5, <1>10, Zenon
  <2> HIDE DEF G
  <2> QED BY <1>0, <2>1, <2>2, NumbersInduction
<1>12. resolved \in [0 .. N -> Resolved]
  BY <1>8, <1>11, Zenon
<1> QED BY <1>9, <1>10, <1>12 DEF N, b, next

\* The destination is spelled without "..".
LEMMA DestinationProper ==
  ASSUME NEW fs, IsFileSystem(fs), NEW dst \in Path
  PROVE  Proper(resolveMountDestination(fs, dst))
<1>1. PICK r \in [0 .. Len(dst) -> Resolved] : resolveMountDestination(fs, dst) = r[Len(dst)].path
  BY ResolvedSteps
<1>2. Len(dst) \in 0 .. Len(dst)
  BY DEF Path
<1>3. r[Len(dst)] \in Resolved
  BY <1>2
<1> QED BY <1>1, <1>3, Zenon DEF Resolved

\* One name more on the way of a process.
LEMMA ResolveName ==
  ASSUME NEW fs \in FileTree, NEW at \in Path, NEW path \in Path, NEW l \in 0 .. MaxLinks, path # <<>>
  PROVE  /\ Head(path) = ".." =>
              Resolve(fs)[Going(at, path, l)] =
                Resolve(fs)[Going(IF at = Rootfs THEN at ELSE Front(at), Tail(path), l)]
         /\ Head(path) # ".." /\ ~ IsA(fs, Append(at, Head(path)), "link") =>
              Resolve(fs)[Going(at, path, l)] =
                Resolve(fs)[Going(Append(at, Head(path)), Tail(path), l)]
         /\ Head(path) # ".." /\ IsA(fs, Append(at, Head(path)), "link") /\ l > 0 =>
              Resolve(fs)[Going(at, path, l)] =
                Resolve(fs)[Going(IF fs[Append(at, Head(path))].abs THEN Rootfs ELSE at,
                                  fs[Append(at, Head(path))].to \o Tail(path), l - 1)]
<1> DEFINE w == Going(at, path, l)
<1>1. w \in Way /\ w.at = at /\ w.path = path /\ w.links = l
  BY GoingFacts
<1>2. Resolve(fs)[w] = ResolveNext(fs, Resolve(fs), w)
  BY <1>1, ResolveSteps
<1> HIDE DEF w
<1>3. CASE Head(path) = ".."
  BY <1>1, <1>2, <1>3, Zenon DEF ResolveNext, w
<1>4. CASE Head(path) # ".." /\ ~ IsA(fs, Append(at, Head(path)), "link")
  BY <1>1, <1>2, <1>4, Zenon DEF ResolveNext, w
<1>5. CASE Head(path) # ".." /\ IsA(fs, Append(at, Head(path)), "link") /\ l > 0
  BY <1>1, <1>2, <1>5, Zenon DEF ResolveNext, w
<1> QED BY <1>3, <1>4, <1>5, Zenon

\* The way along the target of a link, if no other link is on it and it does not leave
\* the rootfs: it ends where Join says.
LEMMA TargetJoined ==
  ASSUME NEW fs, IsFileSystem(fs), NEW base, Proper(base), LinkFree(fs, base),
         NEW to \in Path, NEW rest \in Path, NEW l \in 0 .. MaxLinks,
         \A n \in 1 .. Len(to) : /\ IsPrefix(Rootfs, Join(base, SubSeq(to, 1, n)))
                                 /\ ~ IsA(fs, Join(base, SubSeq(to, 1, n)), "link")
  PROVE  /\ LinkFree(fs, Join(base, to))
         /\ Resolve(fs)[Going(base, to \o rest, l)] = Resolve(fs)[Going(Join(base, to), rest, l)]
<1> DEFINE N == Len(to)
           way(n) == Join(base, Begin(to, n))
           R(a, p) == Resolve(fs)[Going(a, p, l)]
           G == {n \in 0 .. N : /\ LinkFree(fs, way(n))
                                /\ R(base, to \o rest) = R(way(n), Rest(to, n) \o rest)}
<1>0. /\ base \in Path /\ to \in Seq(Names) /\ N \in Nat /\ fs \in FileTree /\ base \in Seq(Names)
      /\ rest \in Seq(Names) /\ Rootfs \in Path
  BY FileSystemIsTree, MountsAssumption DEF Proper, Path
<1>1. \A n \in 1 .. N : IsPrefix(Rootfs, way(n)) /\ ~ IsA(fs, way(n), "link")
  BY DEF Begin
<1>2. 0 \in G
  <2>1. Begin(to, 0) = <<>> /\ Rest(to, 0) = to /\ base \o <<>> = base /\ 0 \in 0 .. N
    BY <1>0, SplitEnds, CatFacts
  <2>2. way(0) = base
    BY <1>0, <2>1, CleanProper DEF Join
  <2> HIDE DEF way
  <2> QED BY <2>1, <2>2
<1>3. ASSUME NEW n \in 1 .. N, n - 1 \in G PROVE n \in G
  <2> DEFINE x == to[n]
             a == way(n - 1)
             r == Rest(to, n) \o rest
             p == Rest(to, n - 1) \o rest
  <2>1. /\ x \in Names /\ n - 1 \in 0 .. N /\ n \in 0 .. N
        /\ Begin(to, n) = Append(Begin(to, n - 1), x)
        /\ Rest(to, n - 1) # <<>> /\ Head(Rest(to, n - 1)) = x /\ Tail(Rest(to, n - 1)) = Rest(to, n)
    BY <1>0, SplitNext
  <2>2. Begin(to, n - 1) \in Seq(Names) /\ Rest(to, n - 1) \in Seq(Names) /\ Rest(to, n) \in Seq(Names)
    BY <1>0, <2>1, Split
  <2>3. p \in Path /\ r \in Path /\ p # <<>> /\ Head(p) = x /\ Tail(p) = r
    <3>1. p \in Seq(Names) /\ r \in Seq(Names)
      BY <1>0, <2>2, CatFacts
    <3>2. p # <<>> /\ Head(p) = Head(Rest(to, n - 1)) /\ Tail(p) = Tail(Rest(to, n - 1)) \o rest
      <4>1. \A s, t \in Seq(Names) :
              s # <<>> => s \o t # <<>> /\ Head(s \o t) = Head(s) /\ Tail(s \o t) = Tail(s) \o t
        BY CatFacts
      <4> QED BY <1>0, <2>1, <2>2, <4>1, Zenon
    <3> QED BY <2>1, <3>1, <3>2, Zenon DEF Path
  <2> DEFINE c == base \o Begin(to, n - 1)
  <2>4. c \in Path /\ base \o Begin(to, n) = Append(c, x)
    <3>1. \A s, t \in Seq(Names) : \A y \in Names : s \o t \in Seq(Names) /\ s \o Append(t, y) = Append(s \o t, y)
      OBVIOUS
    <3>2. c \in Seq(Names) /\ base \o Append(Begin(to, n - 1), x) = Append(c, x)
      BY <1>0, <2>1, <2>2, <3>1, Zenon
    <3> QED BY <2>1, <3>2 DEF Path
  <2> HIDE DEF c
  <2>5. a = Clean(c) /\ Proper(a) /\ a \in Path
    <3>1. a = Clean(c)
      BY DEF Join, c
    <3>2. Proper(Clean(c))
      BY <2>4, CleanProper
    <3> QED BY <3>1, <3>2 DEF Proper
  <2>6. way(n) = IF x # ".." THEN Append(a, x) ELSE Front(a)
    <3>1. Clean(Append(c, x)) = IF x # ".." THEN Append(Clean(c), x) ELSE Front(Clean(c))
      BY <2>1, <2>4, CleanNext
    <3> HIDE DEF a
    <3> QED BY <3>1, <2>4, <2>5, Zenon DEF Join
  <2>7. LinkFree(fs, a) /\ R(base, to \o rest) = R(a, p)
    BY <1>3, Zenon
  <2>8. IsPrefix(Rootfs, way(n)) /\ ~ IsA(fs, way(n), "link")
    BY <1>1
  <2> HIDE DEF a, p, r, way, x
  <2>9. CASE x = ".."
    <3>1. way(n) = Front(a)
      BY <2>6, <2>9
    <3>2. LinkFree(fs, way(n))
      BY <2>5, <2>7, <3>1, LinkFreeNext
    <3>3. (IF a = Rootfs THEN a ELSE Front(a)) = way(n)
      <4>1. CASE a # Rootfs
        BY <3>1, <4>1
      <4>2. CASE a = Rootfs /\ Rootfs = <<>>
        <5>1. Front(<<>>) = <<>>
          BY SubSeqEmpty DEF Front
        <5> QED BY <4>2, <3>1, <5>1
      <4>3. CASE a = Rootfs /\ Rootfs # <<>>
        <5>1. Len(Rootfs) \in Nat /\ Len(Front(Rootfs)) = Len(Rootfs) - 1
          BY <1>0, <4>3, FrontFacts DEF Path
        <5>2. Len(Rootfs) <= Len(Front(Rootfs))
          BY <2>8, <3>1, <4>3 DEF IsPrefix
        <5> QED BY <5>1, <5>2
      <4> QED BY <4>1, <4>2, <4>3
    <3>4. R(a, p) = R(IF a = Rootfs THEN a ELSE Front(a), r)
      <4>1. R(a, p) = R(IF a = Rootfs THEN a ELSE Front(a), Tail(p))
        BY <1>0, <2>3, <2>5, <2>9, ResolveName
      <4> QED BY <2>3, <4>1
    <3>5. R(base, to \o rest) = R(way(n), r)
      BY <2>7, <3>3, <3>4, Zenon
    <3> QED BY <2>1, <3>2, <3>5, Zenon DEF r
  <2>10. CASE x # ".."
    <3>1. way(n) = Append(a, x)
      BY <2>6, <2>10
    <3>2. LinkFree(fs, way(n))
      BY <2>1, <2>5, <2>7, <2>8, <3>1, LinkFreeNext
    <3>3. R(a, p) = R(Append(a, x), r)
      <4>1. ~ IsA(fs, Append(a, x), "link")
        BY <2>8, <3>1
      <4>2. R(a, p) = R(Append(a, Head(p)), Tail(p))
        BY <1>0, <2>3, <2>5, <2>10, <4>1, ResolveName
      <4> QED BY <2>3, <4>2
    <3>4. R(base, to \o rest) = R(way(n), r)
      BY <2>7, <3>1, <3>3, Zenon
    <3> QED BY <2>1, <3>2, <3>4, Zenon DEF r
  <2> QED BY <2>9, <2>10
<1>4. \A n \in 0 .. N : n \in G
  <2> HIDE DEF G, N
  <2> QED BY <1>0, <1>2, <1>3, NumbersInduction
<1>5. N \in G
  BY <1>0, <1>4
<1>6. way(N) = Join(base, to) /\ Rest(to, N) \o rest = rest
  <2>1. Begin(to, N) = to /\ Rest(to, N) = <<>> /\ <<>> \o rest = rest
    BY <1>0, SplitEnds, CatFacts
  <2> QED BY <2>1
<1> HIDE DEF way, N
<1> QED BY <1>5, <1>6, Zenon

\* The rootfs is inside itself, and so is what lies in what is inside of it.
LEMMA RootfsInside ==
  /\ IsPrefix(Rootfs, Rootfs)
  /\ \A p \in Path : \A x \in Names : IsPrefix(Rootfs, p) => IsPrefix(Rootfs, Append(p, x))
<1>0. Rootfs \in Seq(Names) /\ Len(Rootfs) \in Nat
  BY MountsAssumption DEF Proper, Path
<1>1. IsPrefix(Rootfs, Rootfs)
  BY <1>0 DEF IsPrefix
<1>2. ASSUME NEW p \in Path, NEW x \in Names, IsPrefix(Rootfs, p)
      PROVE  IsPrefix(Rootfs, Append(p, x))
  <2> DEFINE a == Append(p, x)
             m == Len(Rootfs)
  <2>1. p \in Seq(Names) /\ Len(p) \in Nat /\ m <= Len(p)
    BY <1>2 DEF Path, IsPrefix
  <2>2. a \in Seq(Names) /\ Len(a) = Len(p) + 1 /\ a # <<>> /\ Front(a) = p
    BY <2>1, AppendFacts
  <2> HIDE DEF a
  <2>3. Len(p) \in 0 .. Len(a) /\ Len(a) \in 1 .. Len(a) /\ m \in 0 .. Len(p) /\ Len(a) - 1 = Len(p)
    BY <1>0, <2>1, <2>2
  <2>4. Begin(a, Len(a)) = a /\ Front(Begin(a, Len(a))) = Begin(a, Len(a) - 1)
    BY <2>2, <2>3, SplitEnds, SplitNext
  <2>5. Begin(a, Len(p)) = p
    BY <2>2, <2>3, <2>4
  <2>6. Begin(a, m) = Begin(p, m)
    BY <2>2, <2>3, <2>5, SplitAgain
  <2>7. m <= Len(a) /\ SubSeq(Rootfs, 1, m) = SubSeq(p, 1, m)
    BY <1>0, <1>2, <2>1, <2>2 DEF IsPrefix
  <2> QED BY <2>6, <2>7, Zenon DEF IsPrefix, Begin, a
<1> QED BY <1>1, <1>2

\* With plain links, one name of the destination is resolved as a process does it, and
\* followed only into the rootfs.
LEMMA NameAsInContainer ==
  ASSUME NEW fs, IsFileSystem(fs), Plain(fs),
         NEW r \in Resolved, LinkFree(fs, r.path), r.err => r.path \notin DOMAIN fs,
         NEW path \in Path, path # <<>>, Head(path) # "..", NEW l \in 0 .. MaxLinks
  PROVE  LET s == ResolvedNext(fs, r, Head(path)) IN
         /\ LinkFree(fs, s.path) /\ (s.err => s.path \notin DOMAIN fs)
         /\ s.path = r.path \/ s.path = Append(r.path, Head(path)) \/ IsPrefix(Rootfs, s.path)
         /\ l > 0 => \E k \in {l - 1, l} :
              Resolve(fs)[Going(r.path, path, l)] = Resolve(fs)[Going(s.path, Tail(path), k)]
<1> DEFINE at == r.path
           x == Head(path)
           rest == Tail(path)
           p == Append(at, x)
           s == ResolvedNext(fs, r, x)
<1>0. /\ Proper(at) /\ at \in Path /\ at \in Seq(Names) /\ r.err \in BOOLEAN /\ fs \in FileTree
      /\ l > 0 => l - 1 \in 0 .. MaxLinks
  <2>1. at \in {q \in Path : Proper(q)} /\ r.err \in BOOLEAN
    BY Zenon DEF Resolved
  <2> QED BY <2>1, FileSystemIsTree, MountsAssumption DEF Path
<1>00. x \in Names /\ rest \in Path
  BY HeadTailProperties DEF Path
<1>1. Join(at, <<x>>) = p
  BY <1>0, <1>00, JoinName
<1>2. Proper(p) /\ p \in Path /\ p # <<>> /\ Front(p) = at
  BY <1>0, <1>00, ProperNext, AppendFacts DEF Path
<1>3. Lstat(fs, p) = {p} \cap DOMAIN fs
  <2>1. LinkFree(fs, Front(p))
    BY <1>2
  <2> HIDE DEF p
  <2> QED BY <1>2, <2>1, PlaceLinkFree
<1> HIDE DEF at
<1>4. CASE ~ IsA(fs, p, "link") /\ s.path = p /\ (s.err => p \notin DOMAIN fs)
  <2>1. LinkFree(fs, p)
    BY <1>0, <1>00, <1>4, LinkFreeNext DEF at
  <2>2. Resolve(fs)[Going(at, path, l)] = Resolve(fs)[Going(p, rest, l)]
    <3>1. ~ IsA(fs, Append(at, x), "link")
      BY <1>4
    <3> HIDE DEF s
    <3> QED BY <1>0, <3>1, ResolveName
  <2>3. s.path = Append(r.path, Head(path))
    <3>1. p = Append(r.path, Head(path))
      BY Zenon DEF at
    <3> HIDE DEF s, p
    <3> QED BY <1>4, <3>1
  <2> HIDE DEF s, p
  <2> QED BY <1>4, <2>1, <2>2, <2>3, Zenon DEF at, s
<1>5. CASE r.err \/ p \notin DOMAIN fs
  <2>1. p \notin DOMAIN fs
    <3>1. CASE r.err
      <4>1. at \notin DOMAIN fs
        BY <3>1 DEF at
      <4> QED BY <4>1, <1>2, Zenon DEF IsFileSystem, IsA
    <3> QED BY <3>1, <1>5
  <2>2. Lstat(fs, p) = {}
    BY <1>3, <2>1
  <2>3. s = [path |-> p, err |-> TRUE]
    BY <1>1, <1>5, <2>1, <2>2, Zenon DEF ResolvedNext, resolvePathRelative, at
  <2>4. s.path = p /\ ~ IsA(fs, p, "link")
    BY <2>1, <2>3 DEF IsA
  <2> QED BY <1>4, <2>1, <2>4
<1>6. CASE ~ r.err /\ p \in DOMAIN fs
  <2> DEFINE node == fs[p]
             to   == node.to
             base == IF node.abs THEN Rootfs ELSE at
  <2>1. Lstat(fs, p) = {p} /\ Lstat(fs, p) # {} /\ (CHOOSE q \in Lstat(fs, p) : TRUE) = p
    <3>1. Lstat(fs, p) = {p}
      BY <1>3, <1>6
    <3>2. (CHOOSE q \in Lstat(fs, p) : TRUE) \in Lstat(fs, p)
      BY <3>1, Zenon
    <3> QED BY <3>1, <3>2
  <2>2. s = [path |-> IF node.kind # "link" \/ (node.abs /\ HasPrefix(node.to, Rootfs)) THEN p
                      ELSE IF node.abs THEN Join(Rootfs, node.to)
                      ELSE Join(at, node.to),
             err |-> FALSE]
    BY <1>1, <1>6, <2>1, Zenon DEF ResolvedNext, resolvePathRelative, at
  <2>3. CASE node.kind # "link"
    <3>1. ~ IsA(fs, p, "link")
      BY <2>3, Zenon DEF IsA
    <3>2. s.path = p /\ s.err = FALSE
      <4> HIDE DEF s, node, p
      <4>1. s = [path |-> p, err |-> FALSE]
        BY <2>2, <2>3, Zenon
      <4> QED BY <4>1
    <3> QED BY <1>4, <3>1, <3>2
  <2>4. CASE node.kind = "link"
    <3>1. IsA(fs, p, "link")
      BY <1>6, <2>4, Zenon DEF IsA
    <3>2. /\ ~ (node.abs /\ HasPrefix(node.to, Rootfs))
          /\ \A n \in 1 .. Len(to) : /\ IsPrefix(Rootfs, Join(base, SubSeq(to, 1, n)))
                                     /\ ~ IsA(fs, Join(base, SubSeq(to, 1, n)), "link")
      <4> HIDE DEF p
      <4> QED BY <1>2, <1>6, <3>1, Zenon DEF Plain
    <3>3. s.path = Join(base, to) /\ s.err = FALSE
      <4>1. s = [path |-> Join(base, to), err |-> FALSE]
        <5> HIDE DEF s, node, p
        <5>1. CASE node.abs
          BY <5>1, <2>2, <2>4, <3>2, Zenon
        <5>2. CASE ~ node.abs
          BY <5>2, <2>2, <2>4, <3>2, Zenon
        <5> QED BY <5>1, <5>2
      <4> HIDE DEF s, base, to
      <4> QED BY <4>1
    <3>4. to \in Path
      BY <1>0, <3>1, TreeFacts
    <3>5. Proper(base) /\ LinkFree(fs, base)
      <4>1. Rootfs \in DOMAIN fs /\ ~ IsA(fs, Rootfs, "link")
        BY DEF IsFileSystem, IsA
      <4>2. LinkFree(fs, Rootfs)
        BY <4>1, AboveIsDir
      <4> QED BY <1>0, <4>2, MountsAssumption DEF at
    <3>6. l > 0 => Resolve(fs)[Going(at, path, l)] = Resolve(fs)[Going(base, to \o rest, l - 1)]
      <4> HIDE DEF s
      <4> QED BY <1>0, <3>1, ResolveName
    <3> HIDE DEF base, to, p, s
    <3>7. /\ LinkFree(fs, Join(base, to))
          /\ \A i \in 0 .. MaxLinks :
               Resolve(fs)[Going(base, to \o rest, i)] = Resolve(fs)[Going(Join(base, to), rest, i)]
      BY <1>0, <1>00, <3>2, <3>4, <3>5, TargetJoined
    <3>8. l > 0 => Resolve(fs)[Going(r.path, path, l)] = Resolve(fs)[Going(s.path, rest, l - 1)]
      BY <1>0, <3>3, <3>6, <3>7, Zenon DEF at
    <3>9. s.path = r.path \/ IsPrefix(Rootfs, s.path)
      <4>1. to \in Seq(Names) /\ Len(to) \in Nat
        BY <3>4 DEF Path
      <4>2. CASE Len(to) = 0
        <5>1. to = <<>>
          BY <4>1, <4>2
        <5>2. s.path = base
          BY <3>3, <3>5, <5>1, CleanProper, CatFacts DEF Join, Proper, Path
        <5> QED BY <5>2, RootfsInside DEF base, at
      <4>3. CASE Len(to) # 0
        <5>1. Len(to) \in 1 .. Len(to)
          BY <4>1, <4>3
        <5>2. SubSeq(to, 1, Len(to)) = to
          BY <4>1, SplitEnds DEF Begin
        <5> QED BY <3>2, <3>3, <5>1, <5>2
      <4> QED BY <4>2, <4>3
    <3> QED BY <3>3, <3>7, <3>8, <3>9, Zenon DEF s
  <2> QED BY <2>3, <2>4
<1> QED BY <1>0, <1>5, <1>6, Zenon

\* A destination is resolved to where a process of the container finds it.
LEMMA PlainDestination ==
  ASSUME NEW fs, IsFileSystem(fs), Plain(fs), NEW dst, Proper(dst)
  PROVE  LET dest == resolveMountDestination(fs, dst) IN
         /\ LinkFree(fs, dest) /\ IsPrefix(Rootfs, dest)
         /\ Len(dst) <= MaxLinks => dest = InContainer(fs, dst)
<1> DEFINE N == Len(dst)
           R(a, p, l) == Resolve(fs)[Going(a, p, l)]
           in == InContainer(fs, dst)
<1>0. /\ dst \in Path /\ dst \in Seq(Names) /\ N \in Nat /\ MaxLinks \in Nat
      /\ DOMAIN dst = 1 .. N /\ fs \in FileTree
  BY FileSystemIsTree, MountsAssumption DEF Proper, Path
<1>1. PICK r \in [0 .. N -> Resolved] :
        /\ r[0] = [path |-> Rootfs, err |-> FALSE]
        /\ \A n \in 1 .. N : r[n] = ResolvedNext(fs, r[n - 1], dst[n])
        /\ resolveMountDestination(fs, dst) = r[N].path
  BY <1>0, ResolvedSteps
<1> DEFINE G == {n \in 0 .. N :
                   /\ LinkFree(fs, r[n].path) /\ (r[n].err => r[n].path \notin DOMAIN fs)
                   /\ IsPrefix(Rootfs, r[n].path)
                   /\ N <= MaxLinks =>
                        \E l \in 0 .. MaxLinks : l >= MaxLinks - n /\ in = R(r[n].path, Rest(dst, n), l)}
<1>2. 0 \in G
  <2>1. Rootfs \in DOMAIN fs /\ ~ IsA(fs, Rootfs, "link")
    BY DEF IsFileSystem, IsA
  <2>2. LinkFree(fs, Rootfs) /\ IsPrefix(Rootfs, Rootfs)
    BY <2>1, AboveIsDir, RootfsInside
  <2>3. r[0].path = Rootfs /\ r[0].err = FALSE
    BY <1>1
  <2>4. in = R(Rootfs, Rest(dst, 0), MaxLinks)
    BY <1>0, SplitEnds DEF InContainer
  <2>5. MaxLinks \in 0 .. MaxLinks /\ MaxLinks >= MaxLinks - 0 /\ 0 \in 0 .. N
    BY <1>0
  <2> HIDE DEF in, R
  <2> QED BY <2>2, <2>3, <2>4, <2>5
<1>3. ASSUME NEW n \in 1 .. N, n - 1 \in G PROVE n \in G
  <2> DEFINE s == r[n - 1]
             x == dst[n]
             path == Rest(dst, n - 1)
             rest == Rest(dst, n)
  <2>1. /\ n \in 0 .. N /\ n - 1 \in 0 .. N /\ x \in Names
        /\ path # <<>> /\ Head(path) = x /\ Tail(path) = rest
    BY <1>0, SplitNext
  <2>2. path \in Path /\ rest \in Path /\ x # ".." /\ s \in Resolved
    <3>1. path \in Path /\ rest \in Path
      BY <1>0, <2>1, Split DEF Path
    <3>2. x # ".."
      BY <1>0 DEF Proper
    <3> QED BY <2>1, <3>1, <3>2
  <2>3. LinkFree(fs, s.path) /\ (s.err => s.path \notin DOMAIN fs)
    BY <1>3, Zenon
  <2>4. r[n] = ResolvedNext(fs, s, Head(path)) /\ rest = Tail(path) /\ Head(path) # ".."
    BY <1>1, <2>1, <2>2
  <2> HIDE DEF s, path, in, x, rest
  <2>5. ASSUME NEW l \in 0 .. MaxLinks
        PROVE  /\ LinkFree(fs, r[n].path) /\ (r[n].err => r[n].path \notin DOMAIN fs)
               /\ \/ r[n].path = s.path \/ r[n].path = Append(s.path, Head(path))
                  \/ IsPrefix(Rootfs, r[n].path)
               /\ l > 0 => \E k \in {l - 1, l} : R(s.path, path, l) = R(r[n].path, rest, k)
    BY <2>1, <2>2, <2>3, <2>4, NameAsInContainer
  <2>6. /\ LinkFree(fs, r[n].path) /\ (r[n].err => r[n].path \notin DOMAIN fs)
        /\ IsPrefix(Rootfs, r[n].path)
    <3>1. MaxLinks \in 0 .. MaxLinks
      BY <1>0
    <3>2. s.path \in Path /\ Head(path) \in Names
      BY <2>1, <2>2, Zenon DEF Resolved
    <3>3. IsPrefix(Rootfs, s.path)
      BY <1>3, Zenon DEF s
    <3>4. IsPrefix(Rootfs, Append(s.path, Head(path)))
      BY <3>2, <3>3, RootfsInside
    <3> QED BY <2>5, <3>1, <3>3, <3>4
  <2>7. ASSUME N <= MaxLinks
        PROVE  \E k \in 0 .. MaxLinks : k >= MaxLinks - n /\ in = R(r[n].path, Rest(dst, n), k)
    <3>1. PICK l \in 0 .. MaxLinks : l >= MaxLinks - (n - 1) /\ in = R(s.path, path, l)
      BY <1>3, <2>7, Zenon DEF s, path
    <3>2. l > 0
      <4> HIDE DEF N
      <4> QED BY <1>0, <2>7, <3>1
    <3>3. PICK k \in {l - 1, l} : R(s.path, path, l) = R(r[n].path, rest, k)
      BY <2>5, <3>2, Zenon
    <3>4. k \in 0 .. MaxLinks /\ k >= MaxLinks - n
      <4> HIDE DEF N
      <4> QED BY <1>0, <3>1, <3>2, <3>3
    <3> QED BY <3>1, <3>3, <3>4, Zenon DEF rest
  <2> QED BY <2>1, <2>6, <2>7, Zenon
<1>4. N \in G
  <2> HIDE DEF G, N
  <2>1. \A n \in 0 .. N : n \in G
    BY <1>0, <1>2, <1>3, NumbersInduction
  <2> QED BY <1>0, <2>1
<1>5. ASSUME NEW l \in 0 .. MaxLinks PROVE R(r[N].path, <<>>, l) = r[N].path
  <2> DEFINE w == Going(r[N].path, <<>>, l)
  <2>1. r[N].path \in Path /\ <<>> \in Path
    <3>1. r[N] \in Resolved
      BY <1>0
    <3> QED BY <3>1 DEF Resolved, Path
  <2>2. w \in Way /\ w.at = r[N].path /\ w.path = <<>>
    BY <2>1, GoingFacts
  <2>3. Resolve(fs)[w] = ResolveNext(fs, Resolve(fs), w)
    BY <1>0, <2>2, ResolveSteps
  <2> HIDE DEF w
  <2>4. Resolve(fs)[w] = r[N].path
    BY <2>2, <2>3, Zenon DEF ResolveNext
  <2> QED BY <2>4 DEF w
<1>6. Rest(dst, N) = <<>>
  BY <1>0, SplitEnds
<1>7. LinkFree(fs, r[N].path) /\ IsPrefix(Rootfs, r[N].path)
  BY <1>4, Zenon
<1> HIDE DEF in, R
<1>8. N <= MaxLinks => in = r[N].path
  <2> SUFFICES ASSUME N <= MaxLinks PROVE in = r[N].path
    OBVIOUS
  <2>1. PICK l \in 0 .. MaxLinks : in = R(r[N].path, Rest(dst, N), l)
    BY <1>4, Zenon
  <2> QED BY <1>5, <1>6, <2>1
<1> QED BY <1>1, <1>7, <1>8 DEF in

\* The last name of the rootfs, where a path has it, is not a longer one there.
NotBeside(p) ==
  LET m == Len(Rootfs) IN 0 < m /\ m <= Len(p) => p[m] = Rootfs[m] \/ <<p[m], Rootfs[m]>> \notin Longer

LEMMA InsideByText ==
  ASSUME NEW p \in Path, NotBeside(p), HasPrefix(p, Rootfs)
  PROVE  IsPrefix(Rootfs, p)
<1> DEFINE m == Len(Rootfs)
<1>0. Rootfs \in Seq(Names) /\ m \in Nat /\ p \in Seq(Names) /\ Len(p) \in Nat
  BY MountsAssumption DEF Proper, Path
<1>1. m <= Len(p) /\ \A n \in 1 .. m : p[n] = Rootfs[n]
  <2>1. m <= Len(p) /\ DOMAIN Rootfs = 1 .. m
    BY <1>0 DEF HasPrefix
  <2>2. ASSUME NEW n \in 1 .. m PROVE p[n] = Rootfs[n]
    <3>1. p[n] = Rootfs[n] \/ (n = m /\ <<p[n], Rootfs[n]>> \in Longer)
      BY <2>1, Zenon DEF HasPrefix
    <3>2. n = m => p[m] = Rootfs[m] \/ <<p[m], Rootfs[m]>> \notin Longer
      BY <1>0, <2>1 DEF NotBeside
    <3> QED BY <3>1, <3>2
  <2> QED BY <2>1, <2>2
<1>2. m \in 0 .. Len(p) /\ m \in 0 .. Len(Rootfs)
  BY <1>0, <1>1
<1>3. /\ Begin(p, m) \in Seq(Names) /\ Len(Begin(p, m)) = m
      /\ \A i \in 1 .. m : Begin(p, m)[i] = p[i]
  BY <1>0, <1>2, Split
<1>4. Begin(p, m) = Rootfs
  BY <1>0, <1>1, <1>3, SeqEqual
<1>5. Begin(Rootfs, m) = Rootfs
  BY <1>0, SplitEnds
<1> QED BY <1>1, <1>4, <1>5, Zenon DEF IsPrefix, Begin

LEMMA NotBesideNext ==
  /\ NotBeside(Rootfs)
  /\ \A n \in 0 .. Len(Rootfs) : NotBeside(Begin(Rootfs, n))
  /\ \A p \in Path : IsPrefix(Rootfs, p) => NotBeside(p)
  /\ \A p \in Path : \A x \in Names :
       NotBeside(p) /\ <<x, Last(Rootfs)>> \notin Longer => NotBeside(Append(p, x))
<1> DEFINE m == Len(Rootfs)
<1>0. Rootfs \in Seq(Names) /\ m \in Nat /\ Last(Rootfs) = Rootfs[m]
  BY MountsAssumption DEF Proper, Path, Last
<1>1. \A n \in 0 .. m : NotBeside(Begin(Rootfs, n))
  <2> TAKE n \in 0 .. m
  <2>1. Len(Begin(Rootfs, n)) = n /\ \A i \in 1 .. n : Begin(Rootfs, n)[i] = Rootfs[i]
    BY <1>0, Split
  <2> QED BY <1>0, <2>1 DEF NotBeside
<1>2. ASSUME NEW p \in Path, IsPrefix(Rootfs, p) PROVE NotBeside(p)
  <2>1. m <= Len(p) /\ Begin(p, m) = Begin(Rootfs, m) /\ p \in Seq(Names) /\ Len(p) \in Nat
    <3>1. m <= Len(p) /\ Begin(p, m) = Begin(Rootfs, m)
      BY <1>2, Zenon DEF IsPrefix, Begin
    <3> QED BY <3>1 DEF Path
  <2>2. m \in 0 .. Len(p) /\ m \in 0 .. Len(Rootfs)
    BY <1>0, <2>1
  <2>3. /\ \A i \in 1 .. m : Begin(p, m)[i] = p[i]
        /\ \A i \in 1 .. m : Begin(Rootfs, m)[i] = Rootfs[i]
    BY <1>0, <2>1, <2>2, Split
  <2>4. \A i \in 1 .. m : p[i] = Rootfs[i]
    BY <2>1, <2>3
  <2> QED BY <1>0, <2>4 DEF NotBeside
<1>3. ASSUME NEW p \in Path, NEW x \in Names, NotBeside(p), <<x, Last(Rootfs)>> \notin Longer
      PROVE  NotBeside(Append(p, x))
  <2>1. /\ Len(Append(p, x)) = Len(p) + 1 /\ Append(p, x)[Len(p) + 1] = x
        /\ Len(p) \in Nat /\ \A i \in 1 .. Len(p) : Append(p, x)[i] = p[i]
    BY DEF Path
  <2> DEFINE a == Append(p, x)
  <2> HIDE DEF a
  <2>2. ASSUME 0 < m, m <= Len(a) PROVE a[m] = Rootfs[m] \/ <<a[m], Rootfs[m]>> \notin Longer
    <3>1. CASE m = Len(p) + 1
      BY <1>0, <1>3, <2>1, <3>1 DEF a
    <3>2. CASE m <= Len(p)
      <4>1. a[m] = p[m]
        BY <1>0, <2>1, <2>2, <3>2 DEF a
      <4> QED BY <1>3, <2>2, <3>2, <4>1 DEF NotBeside
    <3> QED BY <1>0, <2>1, <2>2, <3>1, <3>2 DEF a
  <2> QED BY <2>2 DEF NotBeside, a
<1>4. NotBeside(Rootfs)
  BY DEF NotBeside
<1> QED BY <1>1, <1>2, <1>3, <1>4

\* ".." leads from a directory above the rootfs to the one above that.
LEMMA NameUp ==
  ASSUME NEW fs, IsFileSystem(fs), NEW r \in Resolved, r.err = FALSE,
         NEW j \in 0 .. Len(Rootfs), r.path = Begin(Rootfs, j)
  PROVE  LET s == ResolvedNext(fs, r, "..") IN
         \E i \in 0 .. Len(Rootfs) : s.path = Begin(Rootfs, i) /\ s.err = FALSE
<1> DEFINE at == r.path
           p  == Front(at)
           s  == ResolvedNext(fs, r, "..")
<1>0. Rootfs \in Seq(Names) /\ Len(Rootfs) \in Nat /\ Proper(at) /\ ".." \in Names /\ Rootfs \in DOMAIN fs
  <2>1. at \in {q \in Path : Proper(q)}
    BY Zenon DEF Resolved
  <2> QED BY <2>1, MountsAssumption DEF Proper, Path, IsFileSystem, IsA
<1>1. Join(at, <<"..">>) = p /\ Proper(p)
  BY <1>0, JoinName, ProperNext
<1>2. PICK i \in 0 .. Len(Rootfs) : p = Begin(Rootfs, i) /\ i <= j
  <2>1. CASE j = 0
    <3>1. at = <<>>
      BY <1>0, <2>1, SplitEnds
    <3>2. p = <<>>
      BY <3>1, SubSeqEmpty DEF Front
    <3>3. 0 \in 0 .. Len(Rootfs) /\ Begin(Rootfs, 0) = <<>> /\ 0 <= j
      BY <1>0, SplitEnds
    <3> QED BY <3>2, <3>3
  <2>2. CASE j # 0
    <3>1. j \in 1 .. Len(Rootfs) /\ j - 1 \in 0 .. Len(Rootfs) /\ j - 1 <= j
      BY <1>0, <2>2
    <3>2. Front(Begin(Rootfs, j)) = Begin(Rootfs, j - 1)
      BY <1>0, <3>1, SplitNext
    <3> QED BY <3>1, <3>2
  <2> QED BY <2>1, <2>2
<1>3. p \in DOMAIN fs /\ IsA(fs, p, "dir")
  <2>1. CASE i = Len(Rootfs)
    BY <1>0, <1>2, <2>1, SplitEnds DEF IsFileSystem
  <2>2. CASE i # Len(Rootfs)
    <3>1. i < Len(Rootfs)
      BY <1>0, <2>2
    <3>2. IsA(fs, Begin(Rootfs, i), "dir")
      BY <1>0, <3>1, AboveIsDir
    <3> QED BY <1>2, <3>2 DEF IsA
  <2> QED BY <2>1, <2>2
<1> HIDE DEF p
<1>4. LinkFree(fs, Front(p))
  <2>1. ~ IsA(fs, p, "link")
    BY <1>3 DEF IsA
  <2>2. LinkFree(fs, p)
    BY <1>3, <2>1, AboveIsDir
  <2> QED BY <1>1, <2>2, LinkFreeNext DEF Proper
<1>5. Lstat(fs, p) = {p}
  BY <1>1, <1>3, <1>4, PlaceLinkFree
<1>6. (CHOOSE q \in Lstat(fs, p) : TRUE) = p /\ Lstat(fs, p) # {}
  <2>1. (CHOOSE q \in Lstat(fs, p) : TRUE) \in Lstat(fs, p)
    BY <1>5, Zenon
  <2> QED BY <1>5, <2>1
<1>7. fs[p].kind # "link"
  BY <1>3 DEF IsA
<1>8. s = [path |-> p, err |-> FALSE]
  BY <1>1, <1>6, <1>7, Zenon DEF ResolvedNext, resolvePathRelative
<1> HIDE DEF s
<1>9. s.path = p /\ s.err = FALSE
  BY <1>8
<1> QED BY <1>2, <1>9, Zenon DEF s

\* A destination that leads up at first and passes the check is in the rootfs.
LEMMA UpDestination ==
  ASSUME NEW fs, IsFileSystem(fs), Plain(fs), NEW dst \in Path, NEW k \in 0 .. Len(dst),
         \A n \in DOMAIN dst : (n <= k <=> dst[n] = "..") /\ <<dst[n], Last(Rootfs)>> \notin Longer,
         HasPrefix(resolveMountDestination(fs, dst), Rootfs)
  PROVE  LET dest == resolveMountDestination(fs, dst) IN
         LinkFree(fs, dest) /\ IsPrefix(Rootfs, dest)
<1> DEFINE N == Len(dst)
<1>0. /\ dst \in Seq(Names) /\ N \in Nat /\ DOMAIN dst = 1 .. N /\ Rootfs \in Seq(Names)
      /\ Len(Rootfs) \in Nat /\ Rootfs \in DOMAIN fs
  BY MountsAssumption DEF Proper, Path, IsFileSystem, IsA
<1>1. PICK r \in [0 .. N -> Resolved] :
        /\ r[0] = [path |-> Rootfs, err |-> FALSE]
        /\ \A n \in 1 .. N : r[n] = ResolvedNext(fs, r[n - 1], dst[n])
        /\ resolveMountDestination(fs, dst) = r[N].path
  BY ResolvedSteps
<1> DEFINE Above0(n) == \E j \in 0 .. Len(Rootfs) : r[n].path = Begin(Rootfs, j) /\ r[n].err = FALSE
           Free(n)   == /\ LinkFree(fs, r[n].path) /\ (r[n].err => r[n].path \notin DOMAIN fs)
                        /\ NotBeside(r[n].path)
           G == {n \in 0 .. N : (n <= k => Above0(n)) /\ Free(n)}
<1>2. LinkFree(fs, Rootfs)
  <2>1. ~ IsA(fs, Rootfs, "link")
    BY DEF IsFileSystem, IsA
  <2> QED BY <1>0, <2>1, AboveIsDir
<1>3. \A n \in 0 .. N : Above0(n) => Free(n)
  <2> SUFFICES ASSUME NEW n \in 0 .. N, NEW j \in 0 .. Len(Rootfs),
                      r[n].path = Begin(Rootfs, j), r[n].err = FALSE
               PROVE  Free(n)
    BY Zenon
  <2>1. LinkFree(fs, Begin(Rootfs, j)) /\ NotBeside(Begin(Rootfs, j))
    BY <1>0, <1>2, LinkFreeNext, NotBesideNext DEF Path
  <2> QED BY <2>1
<1>4. 0 \in G
  <2>1. Above0(0)
    <3>1. Len(Rootfs) \in 0 .. Len(Rootfs) /\ Begin(Rootfs, Len(Rootfs)) = Rootfs
      BY <1>0, SplitEnds
    <3>2. r[0].path = Rootfs /\ r[0].err = FALSE
      BY <1>1
    <3> QED BY <3>1, <3>2
  <2>2. 0 \in 0 .. N
    BY <1>0
  <2> HIDE DEF Above0, Free
  <2> QED BY <1>3, <2>1, <2>2
<1>5. ASSUME NEW n \in 1 .. N, n - 1 \in G PROVE n \in G
  <2>1. n \in 0 .. N /\ n - 1 \in 0 .. N /\ dst[n] \in Names /\ r[n] = ResolvedNext(fs, r[n - 1], dst[n])
    BY <1>0, <1>1
  <2>2. r[n - 1] \in Resolved
    BY <2>1
  <2>3. CASE n <= k
    <3>1. dst[n] = ".." /\ n - 1 <= k
      BY <1>0, <2>1, <2>3
    <3>2. PICK j \in 0 .. Len(Rootfs) : r[n - 1].path = Begin(Rootfs, j) /\ r[n - 1].err = FALSE
      BY <1>5, <3>1, Zenon
    <3>3. Above0(n)
      <4> DEFINE q == r[n - 1]
      <4>1. q \in Resolved /\ q.path = Begin(Rootfs, j) /\ q.err = FALSE /\ r[n] = ResolvedNext(fs, q, "..")
        BY <2>1, <2>2, <3>1, <3>2
      <4> HIDE DEF q
      <4> QED BY <4>1, NameUp
    <3> HIDE DEF Above0, Free
    <3> QED BY <1>3, <2>1, <3>3
  <2>4. CASE ~ (n <= k)
    <3> DEFINE q == r[n - 1]
               x == dst[n]
    <3>1. x # ".." /\ <<x, Last(Rootfs)>> \notin Longer /\ x \in Names
      BY <1>0, <2>1, <2>4
    <3>2. /\ q \in Resolved /\ LinkFree(fs, q.path) /\ (q.err => q.path \notin DOMAIN fs)
          /\ NotBeside(q.path) /\ r[n] = ResolvedNext(fs, q, x)
      BY <1>5, <2>1, <2>2, Zenon
    <3>3. <<x>> \in Path /\ <<x>> # <<>> /\ Head(<<x>>) = x /\ MaxLinks \in 0 .. MaxLinks
      BY <3>1, MountsAssumption DEF Path
    <3> DEFINE path == <<x>>
    <3> HIDE DEF q, x, path
    <3>4. /\ LinkFree(fs, r[n].path) /\ (r[n].err => r[n].path \notin DOMAIN fs)
          /\ r[n].path = q.path \/ r[n].path = Append(q.path, x) \/ IsPrefix(Rootfs, r[n].path)
      <4>1. path \in Path /\ path # <<>> /\ Head(path) = x
        BY <3>3 DEF path
      <4>2. Head(path) # ".." /\ r[n] = ResolvedNext(fs, q, Head(path))
        BY <3>1, <3>2, <4>1
      <4>3. /\ LinkFree(fs, r[n].path) /\ (r[n].err => r[n].path \notin DOMAIN fs)
            /\ \/ r[n].path = q.path \/ r[n].path = Append(q.path, Head(path))
               \/ IsPrefix(Rootfs, r[n].path)
        BY <3>2, <3>3, <4>1, <4>2, NameAsInContainer
      <4> QED BY <4>1, <4>3
    <3>5. q.path \in Path /\ r[n].path \in Path
      <4>1. q \in Resolved /\ r[n] \in Resolved
        BY <2>1, <3>2
      <4> QED BY <4>1, Zenon DEF Resolved
    <3>6. NotBeside(r[n].path)
      BY <3>1, <3>2, <3>4, <3>5, NotBesideNext
    <3> HIDE DEF Above0
    <3> QED BY <2>1, <2>4, <3>4, <3>6
  <2> QED BY <2>3, <2>4
<1>6. Free(N)
  <2> HIDE DEF G, N
  <2>1. \A n \in 0 .. N : n \in G
    BY <1>0, <1>4, <1>5, NumbersInduction
  <2>2. N \in G
    BY <1>0, <2>1
  <2> HIDE DEF Above0, Free
  <2> QED BY <2>2 DEF G
<1>7. r[N].path \in Path
  <2>1. r[N] \in Resolved
    BY <1>0
  <2> QED BY <2>1, Zenon DEF Resolved
<1> HIDE DEF N
<1> QED BY <1>1, <1>6, <1>7, InsideByText

\* Only the links decide which files are found.
LEMMA PlainGrown ==
  ASSUME NEW fs, IsFileSystem(fs), NEW f, Grown(fs, f), NEW dst \in Path
  PROVE  (Plain(fs) => Plain(f)) /\ InContainer(f, dst) = InContainer(fs, dst)
<1>1. SameLinks(fs, f)
  BY GrownFacts
<1>2. Plain(fs) => Plain(f)
  <2> SUFFICES ASSUME Plain(fs) PROVE Plain(f)
    OBVIOUS
  <2>1. \A p : IsA(f, p, "link") => p \in DOMAIN fs /\ IsA(fs, p, "link") /\ f[p] = fs[p]
    BY <1>1, Zenon DEF SameLinks, IsA
  <2>2. \A p : IsA(f, p, "link") => IsA(fs, p, "link")
    BY <2>1
  <2> SUFFICES ASSUME NEW p \in DOMAIN f, IsA(f, p, "link")
               PROVE  LET base == IF f[p].abs THEN Rootfs ELSE Front(p)
                          way(n) == Join(base, SubSeq(f[p].to, 1, n))
                      IN /\ \A n \in 1 .. Len(f[p].to) : IsPrefix(Rootfs, way(n)) /\ ~IsA(f, way(n), "link")
                         /\ ~(f[p].abs /\ HasPrefix(f[p].to, Rootfs))
    BY Zenon DEF Plain
  <2>3. p \in DOMAIN fs /\ IsA(fs, p, "link") /\ f[p] = fs[p]
    BY <2>1
  <2> DEFINE base == IF fs[p].abs THEN Rootfs ELSE Front(p)
             way(n) == Join(base, SubSeq(fs[p].to, 1, n))
  <2>4. /\ \A n \in 1 .. Len(fs[p].to) : IsPrefix(Rootfs, way(n)) /\ ~IsA(fs, way(n), "link")
        /\ ~(fs[p].abs /\ HasPrefix(fs[p].to, Rootfs))
    BY <2>3, Zenon DEF Plain
  <2> QED BY <2>2, <2>3, <2>4, Zenon
<1>3. InContainer(f, dst) = InContainer(fs, dst)
  <2>1. fs \in FileTree /\ f \in FileTree
    BY FileSystemIsTree DEF Grown
  <2>2. Going(Rootfs, dst, MaxLinks) \in Way
    <3>1. Rootfs \in Path /\ MaxLinks \in 0 .. MaxLinks
      BY MountsAssumption DEF Proper
    <3> QED BY <3>1, GoingFacts
  <2> QED BY <1>1, <2>1, <2>2, ResolveSame DEF InContainer
<1> QED BY <1>2, <1>3

=============================================================================

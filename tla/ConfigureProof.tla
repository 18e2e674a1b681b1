---------------------------- MODULE ConfigureProof ----------------------------
(***************************************************************************)
(* Proofs about module Configure for any container specs, calls and number *)
(* of creates.                                                             *)
(*                                                                         *)
(* Most of what create writes is computed in one step, from a spec that no *)
(* step changes.  So the invariant only has to say which part of the       *)
(* config has been written at which step, and the work is in lemmas about  *)
(* the sequences that are written.  They need induction, which the library *)
(* states with an operator as a parameter; Induction states it for a set.  *)
(*                                                                         *)
(* Mounts are different: each is resolved in the rootfs that the ones      *)
(* before it have left.  FilesInv says that create only adds directories   *)
(* and files, so what was resolved earlier stays where it was; module      *)
(* MountsProof has the work.                                               *)
(***************************************************************************)
EXTENDS Configure, MountsProof

-----------------------------------------------------------------------------
(***************************************************************************)
(* Sequences                                                               *)
(***************************************************************************)

\* A set that has 1, and with a number the next one up to n, has all numbers up to n.
LEMMA Induction ==
  ASSUME NEW n \in Nat \ {0}, NEW G, 1 \in G, \A i \in 2 .. n : i - 1 \in G => i \in G
  PROVE  \A i \in 1 .. n : i \in G
<1> DEFINE R == OpToRel(<, Nat)
           T == (1 .. n) \ G
<1>1. \A x, y \in Nat : y < x => <<y, x>> \in R
  BY DEF OpToRel
<1>2. T # {} => \E x \in T : \A y \in T : ~ (<<y, x>> \in R)
  <2>1. T \subseteq Nat
    OBVIOUS
  <2> QED BY <2>1, NatLessThanWellFounded, WFMin
<1> HIDE DEF R
<1>3. ASSUME NEW x \in T PROVE \E y \in T : <<y, x>> \in R
  <2>1. x \in 2 .. n /\ x - 1 \in 1 .. n /\ x \in Nat /\ x - 1 \in Nat /\ x - 1 < x
    OBVIOUS
  <2>2. x - 1 \in T
    BY <2>1
  <2> HIDE DEF T
  <2> QED BY <1>1, <2>1, <2>2
<1>4. T = {}
  BY <1>2, <1>3, Zenon
<1> QED BY <1>4

\* FlattenSeq puts sequences after each other: there are partial results that start with
\* the first sequence, and each of the others is appended once.
LEMMA FlattenSteps ==
  ASSUME NEW S, NEW ss \in Seq(Seq(S)), ss # <<>>
  PROVE  \E f \in [1 .. Len(ss) -> Seq(S)] :
           /\ f[1] = ss[1]
           /\ \A i \in 2 .. Len(ss) : f[i] = f[i - 1] \o ss[i]
           /\ FlattenSeq(ss) = f[Len(ss)]
<1> DEFINE N == Len(ss)
           Upto(g, n) == /\ g \in [1 .. n -> Seq(S)]
                         /\ g[1] = ss[1]
                         /\ \A i \in 2 .. n : g[i] = g[i - 1] \o ss[i]
           G == {n \in 1 .. N : \E g : Upto(g, n)}
<1>0. N \in Nat \ {0} /\ \A i \in 1 .. N : ss[i] \in Seq(S)
  OBVIOUS
<1> HIDE DEF N
\* The partial results exist ...
<1>1. 1 \in G
  <2>1. Upto([i \in 1 .. 1 |-> ss[1]], 1)
    BY <1>0
  <2>2. 1 \in 1 .. N
    BY <1>0
  <2> QED BY <2>1, <2>2, Zenon
<1>2. ASSUME NEW n \in 2 .. N, n - 1 \in G PROVE n \in G
  <2>1. PICK g : Upto(g, n - 1)
    BY <1>2
  <2> DEFINE h == [i \in 1 .. n |-> IF i = n THEN g[n - 1] \o ss[n] ELSE g[i]]
  <2>0. /\ n \in Nat /\ n \in 1 .. n /\ n \in 1 .. N /\ n # 1 /\ 1 \in 1 .. n
        /\ n - 1 \in 1 .. (n - 1) /\ n - 1 \in 1 .. n /\ n - 1 # n
    BY <1>0
  <2>2. g[n - 1] \in Seq(S) /\ ss[n] \in Seq(S)
    BY <2>0, <2>1, <1>0
  <2>3. g[n - 1] \o ss[n] \in Seq(S)
    BY <2>2
  <2>4. h \in [1 .. n -> Seq(S)]
    <3> SUFFICES ASSUME NEW i \in 1 .. n PROVE h[i] \in Seq(S)
      BY Zenon
    <3>1. CASE i = n
      BY <3>1, <2>3
    <3>2. CASE i # n
      <4>1. i \in 1 .. (n - 1)
        BY <2>0, <3>2
      <4> QED BY <4>1, <3>2, <2>1
    <3> QED BY <3>1, <3>2
  <2>5. h[1] = ss[1]
    BY <2>0, <2>1, Zenon
  <2>6. ASSUME NEW i \in 2 .. n PROVE h[i] = h[i - 1] \o ss[i]
    <3>0. i \in 1 .. n /\ i - 1 \in 1 .. n /\ i - 1 # n
      BY <2>0
    <3>1. h[i - 1] = g[i - 1]
      BY <3>0, Zenon
    <3>2. CASE i = n
      BY <3>0, <3>1, <3>2, Zenon
    <3>3. CASE i # n
      <4>1. i \in 2 .. (n - 1)
        BY <2>0, <3>3
      <4>2. h[i] = g[i]
        BY <3>0, <3>3, Zenon
      <4> QED BY <3>1, <4>1, <4>2, <2>1, Zenon
    <3> QED BY <3>2, <3>3
  <2> HIDE DEF h
  <2>7. Upto(h, n)
    BY <2>4, <2>5, <2>6
  <2> QED BY <2>0, <2>7, Zenon
<1>3. PICK f : Upto(f, N)
  <2> HIDE DEF G
  <2>1. \A i \in 1 .. N : i \in G
    BY <1>0, <1>1, <1>2, Induction
  <2>2. N \in G
    BY <1>0, <2>1
  <2> QED BY <2>2, Zenon DEF G
\* ... so the recursive definition has a solution, and any solution is as stated.
<1> DEFINE Body(g) == [i \in 1 .. N |-> IF i = 1 THEN ss[i] ELSE g[i - 1] \o ss[i]]
           Flatten == CHOOSE g : g = Body(g)
<1>4. f = Body(f)
  <2>1. ASSUME NEW i \in 1 .. N PROVE f[i] = Body(f)[i]
    <3>1. CASE i = 1
      BY <1>3, <3>1, Zenon
    <3>2. CASE i # 1
      <4>1. i \in 2 .. N
        BY <3>2, <1>0
      <4> QED BY <4>1, <3>2, <1>3, Zenon
    <3> QED BY <3>1, <3>2
  <2>2. f = [i \in 1 .. N |-> f[i]]
    BY <1>3, Zenon
  <2> QED BY <2>1, <2>2, Zenon
<1>5. Flatten = Body(Flatten)
  BY <1>4, Zenon
<1>6. FlattenSeq(ss) = Flatten[N]
  BY <1>0 DEF FlattenSeq, N
<1> HIDE DEF Flatten
<1>7. \A i \in 1 .. N : Flatten[i] = IF i = 1 THEN ss[i] ELSE Flatten[i - 1] \o ss[i]
  BY <1>5, Zenon
<1>8. Flatten[1] = ss[1]
  BY <1>0, <1>7
<1>9. ASSUME NEW i \in 2 .. N PROVE Flatten[i] = Flatten[i - 1] \o ss[i]
  <2>1. i \in 1 .. N /\ i # 1
    BY <1>0
  <2> QED BY <2>1, <1>7, Zenon
<1> DEFINE H == {n \in 1 .. N : Flatten[n] \in Seq(S)}
<1>10. 1 \in H
  BY <1>0, <1>8
<1>11. ASSUME NEW n \in 2 .. N, n - 1 \in H PROVE n \in H
  <2>1. n \in 1 .. N
    BY <1>0
  <2>2. Flatten[n - 1] \in Seq(S) /\ ss[n] \in Seq(S)
    BY <2>1, <1>0, <1>11
  <2>3. Flatten[n - 1] \o ss[n] \in Seq(S)
    BY <2>2
  <2> QED BY <2>1, <2>3, <1>9
<1>12. \A n \in 1 .. N : Flatten[n] \in Seq(S)
  <2> HIDE DEF H
  <2>1. \A i \in 1 .. N : i \in H
    BY <1>0, <1>10, <1>11, Induction
  <2> QED BY <2>1 DEF H
<1>13. Flatten \in [1 .. N -> Seq(S)]
  BY <1>5, <1>12, Zenon
<1> QED BY <1>6, <1>8, <1>9, <1>13, Zenon DEF N

\* An element of a sequence.
LEMMA Element ==
  ASSUME NEW S, NEW s \in Seq(S)
  PROVE  /\ Len(s) \in Nat /\ DOMAIN s = 1 .. Len(s)
         /\ \A n \in DOMAIN s : s[n] \in S
OBVIOUS

\* Ways to make a sequence.
LEMMA FunctionIsSeq ==
  ASSUME NEW S, NEW n \in Nat, NEW s \in [1 .. n -> S]
  PROVE  s \in Seq(S) /\ Len(s) = n
OBVIOUS

LEMMA PairIsSeq ==
  ASSUME NEW S, NEW x \in S, NEW y \in S
  PROVE  /\ <<x, y>> \in Seq(S) /\ Len(<<x, y>>) = 2 /\ DOMAIN <<x, y>> = {1, 2}
         /\ <<x, y>>[1] = x /\ <<x, y>>[2] = y
OBVIOUS

LEMMA SingleIsSeq ==
  ASSUME NEW S, NEW x \in S
  PROVE  /\ <<x>> \in Seq(S) /\ Len(<<x>>) = 1 /\ DOMAIN <<x>> = {1} /\ <<x>>[1] = x
OBVIOUS

\* The elements of two sequences after each other.
LEMMA CatElements ==
  ASSUME NEW S, NEW a \in Seq(S), NEW b \in Seq(S)
  PROVE  Range(a \o b) = Range(a) \cup Range(b)
<1> DEFINE c == a \o b
<1>1. /\ Len(a) \in Nat /\ DOMAIN a = 1 .. Len(a)
      /\ Len(b) \in Nat /\ DOMAIN b = 1 .. Len(b)
      /\ DOMAIN c = 1 .. Len(a) + Len(b)
  OBVIOUS
<1>2. \A i \in 1 .. Len(a) : c[i] = a[i]
  OBVIOUS
<1>3. \A i \in 1 .. Len(a) + Len(b) : i \notin 1 .. Len(a) => c[i] = b[i - Len(a)]
  OBVIOUS
<1> HIDE DEF c
<1>4. \A i \in 1 .. Len(a) : i \in DOMAIN c
  BY <1>1
<1>5. \A i \in 1 .. Len(b) : Len(a) + i \in DOMAIN c /\ c[Len(a) + i] = b[i]
  BY <1>1, <1>3
<1>6. \A i \in DOMAIN c : i \in DOMAIN a \/ i - Len(a) \in DOMAIN b
  BY <1>1
<1>7. Range(c) \subseteq Range(a) \cup Range(b)
  BY <1>1, <1>2, <1>3, <1>6 DEF Range
<1>8. Range(a) \subseteq Range(c)
  BY <1>1, <1>2, <1>4 DEF Range
<1>9. Range(b) \subseteq Range(c)
  BY <1>1, <1>5 DEF Range
<1> QED BY <1>7, <1>8, <1>9 DEF c

\* The elements of the result.
LEMMA FlattenElements ==
  ASSUME NEW S, NEW ss \in Seq(Seq(S))
  PROVE  /\ FlattenSeq(ss) \in Seq(S)
         /\ Range(FlattenSeq(ss)) = UNION {Range(ss[i]) : i \in DOMAIN ss}
<1>1. CASE ss = <<>>
  <2>1. FlattenSeq(ss) = <<>>
    BY <1>1 DEF FlattenSeq
  <2>2. Range(FlattenSeq(ss)) = {} /\ DOMAIN ss = {}
    BY <1>1, <2>1 DEF Range
  <2> QED BY <2>1, <2>2
<1>2. CASE ss # <<>>
  <2> DEFINE N == Len(ss)
  <2>0. N \in Nat \ {0} /\ DOMAIN ss = 1 .. N /\ \A i \in 1 .. N : ss[i] \in Seq(S)
    BY <1>2
  <2>1. PICK f \in [1 .. N -> Seq(S)] :
           /\ f[1] = ss[1]
           /\ \A i \in 2 .. N : f[i] = f[i - 1] \o ss[i]
           /\ FlattenSeq(ss) = f[N]
    BY <1>2, FlattenSteps
  <2> HIDE DEF N
  <2> DEFINE All(n) == UNION {Range(ss[i]) : i \in 1 .. n}
             G == {n \in 1 .. N : Range(f[n]) = All(n)}
  <2>2. 1 \in G
    <3>1. Range(f[1]) = All(1)
      BY <2>1
    <3> QED BY <3>1, <2>0
  <2>3. ASSUME NEW n \in 2 .. N, n - 1 \in G PROVE n \in G
    <3>0. n \in 1 .. N /\ n - 1 \in 1 .. N /\ 1 .. n = (1 .. (n - 1)) \cup {n}
      BY <2>0
    <3>1. f[n - 1] \in Seq(S) /\ ss[n] \in Seq(S) /\ f[n] = f[n - 1] \o ss[n]
      BY <2>0, <2>1, <3>0
    <3>2. Range(f[n]) = Range(f[n - 1]) \cup Range(ss[n])
      BY <3>1, CatElements
    <3>3. Range(f[n - 1]) = All(n - 1)
      BY <2>3, Zenon
    <3>4. All(n) = All(n - 1) \cup Range(ss[n])
      BY <3>0
    <3> QED BY <3>0, <3>2, <3>3, <3>4, Zenon
  <2>4. N \in G
    <3> HIDE DEF G
    <3>1. \A i \in 1 .. N : i \in G
      BY <2>0, <2>2, <2>3, Induction
    <3> QED BY <2>0, <3>1
  <2>5. f[N] \in Seq(S)
    BY <2>0, <2>1
  <2> QED BY <2>0, <2>1, <2>4, <2>5, Zenon
<1> QED BY <1>1, <1>2

\* A set of numbers up to n has a largest one.
LEMMA Largest ==
  ASSUME NEW n \in Nat, NEW D, D \subseteq 1 .. n, D # {}
  PROVE  \E k \in D : \A m \in D : m <= k
<1> DEFINE E(i) == {m \in D : m <= i}
           G == {i \in 1 .. n : E(i) # {} => \E k \in E(i) : \A m \in E(i) : m <= k}
<1>0. n \in Nat \ {0} /\ \A m \in D : m \in 1 .. n
  <2>1. PICK x : x \in D
    OBVIOUS
  <2>2. x \in 1 .. n
    BY <2>1
  <2> QED BY <2>2
<1>1. 1 \in G
  <2>1. \A m \in E(1) : m = 1
    BY <1>0
  <2>2. E(1) # {} => \E k \in E(1) : \A m \in E(1) : m <= k
    BY <2>1
  <2> QED BY <2>2, <1>0
<1>2. ASSUME NEW i \in 2 .. n, i - 1 \in G PROVE i \in G
  <2>0. i \in 1 .. n
    BY <1>0
  <2>1. CASE i \in D
    <3>1. i \in E(i) /\ \A m \in E(i) : m <= i
      BY <2>0, <2>1
    <3> QED BY <3>1, <2>0
  <2>2. CASE i \notin D
    <3>1. \A m \in D : m <= i <=> m <= i - 1
      BY <1>0, <2>0, <2>2
    <3>2. E(i) = E(i - 1)
      BY <3>1
    <3> QED BY <3>2, <2>0, <1>2
  <2> QED BY <2>1, <2>2
<1>3. n \in G
  <2> HIDE DEF G
  <2>1. \A i \in 1 .. n : i \in G
    BY <1>0, <1>1, <1>2, Induction
  <2> QED BY <1>0, <2>1
<1>4. E(n) = D
  <2>1. \A m \in D : m <= n
    BY <1>0
  <2> QED BY <2>1
<1> QED BY <1>3, <1>4

-----------------------------------------------------------------------------
(***************************************************************************)
(* The features                                                            *)
(***************************************************************************)
InputInv == \E i \in Inputs : spec = i[1] /\ call = i[2]

\* loadEnvFile takes the last definition of a variable that is defined.
LEMMA LastDefinition ==
  ASSUME InputInv, NEW f \in Flags
  PROVE  /\ Definitions(f) = {} => loadEnvFile[f] = Nil
         /\ Definitions(f) # {} =>
              \E k \in Definitions(f) : /\ \A m \in Definitions(f) : m <= k
                                        /\ loadEnvFile[f] = call.file[k].value
<1>1. call.file \in Seq([flag : STRING, value : ValueType])
  BY InputsAssumption DEF InputInv
<1>2. Len(call.file) \in Nat /\ Definitions(f) \subseteq 1 .. Len(call.file)
  BY <1>1 DEF Definitions
<1> DEFINE last == CHOOSE n \in Definitions(f) : \A m \in Definitions(f) : m <= n
<1>3. loadEnvFile[f] = IF Definitions(f) = {} THEN Nil ELSE call.file[last].value
  BY Zenon DEF loadEnvFile
<1>4. ASSUME Definitions(f) # {}
      PROVE  last \in Definitions(f) /\ \A m \in Definitions(f) : m <= last
  <2>1. \E k \in Definitions(f) : \A m \in Definitions(f) : m <= k
    BY <1>2, <1>4, Largest
  <2> QED BY <2>1, Zenon
<1> HIDE DEF last
<1> QED BY <1>3, <1>4

\* The values that a feature is given, the first one that is set counting most.
Given(f) ==
  LET file == [n \in DOMAIN call.file |->
                 IF call.file[n].flag = f THEN call.file[n].value ELSE Nil]
  IN <<call.args[f], call.env[f]>> \o Reverse(file) \o <<TRUE>>

LEMMA GivenValues ==
  ASSUME InputInv, NEW f \in Flags
  PROVE  LET L == Len(call.file) IN
         /\ L \in Nat /\ DOMAIN Given(f) = 1 .. L + 3
         /\ Given(f)[1] = call.args[f] /\ Given(f)[2] = call.env[f]
         /\ \A n \in 3 .. L + 2 :
              Given(f)[n] = IF L + 3 - n \in Definitions(f) THEN call.file[L + 3 - n].value ELSE Nil
         /\ Given(f)[L + 3] = TRUE
<1> DEFINE L    == Len(call.file)
           file == [n \in DOMAIN call.file |->
                      IF call.file[n].flag = f THEN call.file[n].value ELSE Nil]
           rev  == Reverse(file)
           V    == ValueType
<1>1. call.file \in Seq([flag : STRING, value : V]) /\ call.args[f] \in V /\ call.env[f] \in V
  BY InputsAssumption DEF InputInv, ValueType
<1>nil. Nil \in V /\ TRUE \in V
  BY DEF ValueType
<1>2. L \in Nat /\ DOMAIN call.file = 1 .. L
  BY <1>1
<1>3. file \in Seq(V) /\ Len(file) = L
  <2>1. \A n \in 1 .. L : call.file[n].value \in V /\ Nil \in V
    <3>1. \A n \in DOMAIN call.file : call.file[n] \in [flag : STRING, value : V]
      BY <1>1, Element, Zenon
    <3> QED BY <1>2, <1>nil, <3>1, Zenon
  <2>2. file \in [1 .. L -> V]
    <3> HIDE DEF V
    <3> QED BY <2>1, <1>2
  <2> QED BY <2>2, <1>2
<1>4. rev = [i \in 1 .. L |-> file[(L - i) + 1]]
  <2> HIDE DEF file
  <2> QED BY <1>3 DEF Reverse
<1>5. rev \in Seq(V) /\ Len(rev) = L
  <2> HIDE DEF rev, file
  <2>1. \A i \in 1 .. L : file[(L - i) + 1] \in V
    BY <1>2, <1>3
  <2>2. rev \in [1 .. L -> V]
    BY <2>1, <1>4
  <2> QED BY <2>2, <1>2
<1>6. \A n \in 3 .. L + 2 :
        rev[n - 2] = IF L + 3 - n \in Definitions(f) THEN call.file[L + 3 - n].value ELSE Nil
  <2> TAKE n \in 3 .. L + 2
  <2>1. n - 2 \in 1 .. L /\ (L - (n - 2)) + 1 = L + 3 - n /\ L + 3 - n \in 1 .. L
    BY <1>2
  <2>2. rev[n - 2] = file[L + 3 - n]
    BY <2>1, <1>4
  <2> QED BY <2>1, <2>2, <1>2 DEF Definitions
<1> DEFINE head == <<call.args[f], call.env[f]>>
<1>7. head \in Seq(V) /\ Len(head) = 2 /\ head[1] = call.args[f] /\ head[2] = call.env[f]
  BY <1>1
<1>8. Given(f) = head \o rev \o <<TRUE>>
  BY Zenon DEF Given
<1> HIDE DEF head, rev, file, L, V
<1>cat. \A a, b \in Seq(V) :
          /\ a \o b \in Seq(V) /\ Len(a \o b) = Len(a) + Len(b)
          /\ DOMAIN (a \o b) = 1 .. Len(a) + Len(b)
          /\ \A i \in 1 .. Len(a) : (a \o b)[i] = a[i]
          /\ \A i \in 1 .. Len(b) : (a \o b)[Len(a) + i] = b[i]
  OBVIOUS
<1>9. <<TRUE>> \in Seq(V) /\ Len(<<TRUE>>) = 1
  BY <1>nil, SingleIsSeq
<1> DEFINE front == head \o rev
<1>10. /\ front \in Seq(V) /\ Len(front) = L + 2
       /\ front[1] = head[1] /\ front[2] = head[2]
       /\ \A n \in 3 .. L + 2 : front[n] = rev[n - 2]
  <2>1. /\ front \in Seq(V) /\ Len(front) = 2 + L
        /\ \A i \in 1 .. 2 : front[i] = head[i]
        /\ \A i \in 1 .. L : front[2 + i] = rev[i]
    <3>1. /\ front \in Seq(V) /\ Len(front) = Len(head) + Len(rev)
          /\ \A i \in 1 .. Len(head) : front[i] = head[i]
          /\ \A i \in 1 .. Len(rev) : front[Len(head) + i] = rev[i]
      BY <1>cat, <1>5, <1>7, Zenon
    <3> HIDE DEF front
    <3> QED BY <3>1, <1>5, <1>7, Zenon
  <2>2. \A n \in 3 .. L + 2 : n - 2 \in 1 .. L /\ 2 + (n - 2) = n
    BY <1>2
  <2>3. 2 + L = L + 2 /\ 1 \in 1 .. 2 /\ 2 \in 1 .. 2
    BY <1>2
  <2> HIDE DEF front
  <2> QED BY <2>1, <2>2, <2>3
<1> HIDE DEF front
<1>11. /\ DOMAIN (front \o <<TRUE>>) = 1 .. L + 3
       /\ \A n \in 1 .. L + 2 : (front \o <<TRUE>>)[n] = front[n]
       /\ (front \o <<TRUE>>)[L + 3] = TRUE
  <2>1. /\ DOMAIN (front \o <<TRUE>>) = 1 .. (L + 2) + 1
        /\ \A n \in 1 .. L + 2 : (front \o <<TRUE>>)[n] = front[n]
        /\ \A n \in 1 .. 1 : (front \o <<TRUE>>)[(L + 2) + n] = <<TRUE>>[n]
    <3> DEFINE t == <<TRUE>>
    <3>1. t \in Seq(V) /\ Len(t) = 1
      BY <1>9
    <3> HIDE DEF t
    <3>2. /\ DOMAIN (front \o t) = 1 .. Len(front) + Len(t)
          /\ \A n \in 1 .. Len(front) : (front \o t)[n] = front[n]
          /\ \A n \in 1 .. Len(t) : (front \o t)[Len(front) + n] = t[n]
      BY <1>cat, <1>10, <3>1, Zenon
    <3> QED BY <3>1, <3>2, <1>10, Zenon DEF t
  <2>2. (L + 2) + 1 = L + 3 /\ 1 \in 1 .. 1 /\ <<TRUE>>[1] = TRUE
    BY <1>2
  <2> QED BY <2>1, <2>2, Zenon
<1> QED BY <1>2, <1>6, <1>7, <1>8, <1>10, <1>11 DEF front, L

\* What a value stands for.
Meant(v) == IF v = Blank THEN TRUE ELSE v

LEMMA ValueMeant ==
  /\ \A v \in BOOLEAN : v # Nil /\ Meant(v) = v
  /\ \A v \in ValueType : v # Nil /\ v # Invalid => Meant(v) = IF v \in BOOLEAN THEN v ELSE TRUE
  /\ Nil \notin BOOLEAN
<1>1. Nil \notin BOOLEAN /\ Blank \notin BOOLEAN
  BY ConfigureAssumption
<1>2. ASSUME NEW v \in BOOLEAN PROVE v # Nil /\ Meant(v) = v
  <2>1. v # Nil /\ v # Blank
    BY <1>1, Zenon
  <2> QED BY <2>1, Zenon DEF Meant
<1>3. ASSUME NEW v \in ValueType, v # Nil, v # Invalid
      PROVE  Meant(v) = IF v \in BOOLEAN THEN v ELSE TRUE
  <2>1. v \in BOOLEAN \/ v = Blank
    BY <1>3, Zenon DEF ValueType
  <2> QED BY <1>1, <1>2, <2>1, Zenon DEF Meant
<1> QED BY <1>1, <1>2, <1>3, Zenon

\* FlagValue is the first value that is set.
LEMMA FirstGiven ==
  ASSUME InputInv, NEW f \in Flags
  PROVE  /\ FlagValue(f) \in BOOLEAN
         /\ ~Unusable => \E n \in DOMAIN Given(f) : /\ FlagValue(f) = Meant(Given(f)[n])
                                                    /\ Given(f)[n] # Nil
                                                    /\ \A m \in 1 .. n - 1 : Given(f)[m] = Nil
<1> DEFINE L == Len(call.file)
           V == ValueType
           v == Given(f)
<1>1. /\ call.file \in Seq([flag : STRING, value : V])
      /\ call.args[f] \in BOOLEAN \cup {Nil} /\ call.env[f] \in V
      /\ \A n \in DOMAIN call.file : call.file[n].flag \in Flags => call.file[n].value # Nil
  BY InputsAssumption DEF InputInv
<1>2. /\ L \in Nat /\ DOMAIN v = 1 .. L + 3
      /\ v[1] = call.args[f] /\ v[2] = call.env[f]
      /\ \A n \in 3 .. L + 2 :
           v[n] = IF L + 3 - n \in Definitions(f) THEN call.file[L + 3 - n].value ELSE Nil
      /\ v[L + 3] = TRUE
  BY GivenValues
<1>3. \A n \in Definitions(f) : /\ n \in 1 .. L /\ call.file[n].value \in V
                                /\ call.file[n].value # Nil
  <2> TAKE n \in Definitions(f)
  <2>1. n \in DOMAIN call.file /\ call.file[n].flag = f
    BY DEF Definitions
  <2>2. n \in 1 .. L /\ call.file[n].value \in V
    <3>1. call.file[n] \in [flag : STRING, value : V]
      BY <1>1, <2>1, Element
    <3>2. DOMAIN call.file = 1 .. L
      BY <1>1, Element, Zenon
    <3> QED BY <2>1, <3>1, <3>2, Zenon
  <2>3. call.file[n].value # Nil
    BY <1>1, <2>1
  <2> QED BY <2>2, <2>3
<1>4. /\ FlagValue(f) = IF call.args[f] # Nil THEN call.args[f]
                        ELSE IF Environment[f] \in BOOLEAN THEN Environment[f] ELSE TRUE
      /\ Environment[f] = IF call.env[f] = Nil THEN loadEnvFile[f] ELSE call.env[f]
  BY Zenon DEF FlagValue, Environment
<1>5. FlagValue(f) \in BOOLEAN
  <2>1. call.args[f] # Nil => call.args[f] \in BOOLEAN
    BY <1>1, Zenon
  <2> QED BY <1>4, <2>1, Zenon
<1> HIDE DEF L, v, V
<1> SUFFICES ASSUME ~Unusable
             PROVE  \E n \in DOMAIN v : /\ FlagValue(f) = Meant(v[n]) /\ v[n] # Nil
                                        /\ \A m \in 1 .. n - 1 : v[m] = Nil
  BY <1>5, Zenon DEF v
<1>u. Environment[f] # Invalid
  BY Zenon DEF Unusable
<1>6. CASE call.args[f] # Nil
  <2>1. FlagValue(f) = Meant(v[1]) /\ v[1] # Nil
    BY <1>1, <1>2, <1>4, <1>6, ValueMeant, Zenon
  <2>2. 1 \in DOMAIN v /\ \A m \in 1 .. 1 - 1 : v[m] = Nil
    BY <1>2
  <2> QED BY <2>1, <2>2
<1>7. CASE call.args[f] = Nil /\ call.env[f] # Nil
  <2>1. FlagValue(f) = Meant(v[2]) /\ v[2] # Nil
    BY <1>1, <1>2, <1>4, <1>7, <1>u, ValueMeant, Zenon DEF V
  <2>2. 2 \in DOMAIN v /\ \A m \in 1 .. 2 - 1 : v[m] = Nil
    BY <1>2, <1>7
  <2> QED BY <2>1, <2>2
<1>8. CASE call.args[f] = Nil /\ call.env[f] = Nil /\ Definitions(f) # {}
  <2>1. PICK k \in Definitions(f) : /\ \A m \in Definitions(f) : m <= k
                                    /\ loadEnvFile[f] = call.file[k].value
    BY <1>8, LastDefinition
  <2>2. k \in 1 .. L /\ call.file[k].value \in V /\ call.file[k].value # Nil
    BY <1>3
  <2>3. L + 3 - k \in 3 .. L + 2 /\ L + 3 - (L + 3 - k) = k
    BY <1>2, <2>2
  <2>4. v[L + 3 - k] = call.file[k].value
    BY <1>2, <2>3
  <2>5. FlagValue(f) = Meant(call.file[k].value)
    BY <1>4, <1>8, <1>u, <2>1, <2>2, ValueMeant, Zenon DEF V
  <2>6. ASSUME NEW m \in 1 .. (L + 3 - k) - 1 PROVE v[m] = Nil
    <3>1. m \in {1, 2} \/ (m \in 3 .. L + 2 /\ ~(L + 3 - m <= k))
      BY <1>2, <2>2
    <3> QED BY <3>1, <1>2, <1>8, <2>1
  <2>7. L + 3 - k \in DOMAIN v
    BY <1>2, <2>3
  <2> QED BY <2>2, <2>4, <2>5, <2>6, <2>7, Zenon
<1>9. CASE call.args[f] = Nil /\ call.env[f] = Nil /\ Definitions(f) = {}
  <2>1. FlagValue(f) = TRUE
    BY <1>4, <1>9, LastDefinition, ValueMeant, Zenon
  <2>2. L + 3 \in DOMAIN v /\ \A m \in 1 .. (L + 3) - 1 : m \in {1, 2} \/ m \in 3 .. L + 2
    BY <1>2
  <2>3. \A m \in 1 .. (L + 3) - 1 : v[m] = Nil
    BY <1>2, <1>9, <2>2
  <2>4. TRUE # Nil /\ Meant(TRUE) = TRUE
    BY ValueMeant, Zenon
  <2> QED BY <1>2, <2>1, <2>2, <2>3, <2>4, Zenon
<1> QED BY <1>6, <1>7, <1>8, <1>9

-----------------------------------------------------------------------------
(***************************************************************************)
(* The device rules                                                        *)
(***************************************************************************)

\* What a list allows that follows another one.
LEMMA AllowedCat ==
  ASSUME NEW S, NEW a \in Seq(S), NEW b \in Seq(S), NEW d
  PROVE  Allowed(a \o b, d) <=> Allowed(a, d) \/ Allowed(b, d)
<1>1. \A s : Allowed(s, d) <=> \E r \in Range(s) : r.allow /\ Matches(r, d)
  BY Zenon DEF Allowed, Range
<1>2. Range(a \o b) = Range(a) \cup Range(b)
  BY CatElements
<1> QED BY <1>1, <1>2, Zenon

\* Rules of the spec or for default devices (the provers do not know that "c" is a string),
\* and those that lxc takes.
AnyRule == [allow : BOOLEAN, type : STRING \cup {"c"}, major : Int \cup {Nil}, minor : Int \cup {Nil}]
Typed == [allow : BOOLEAN, type : {"b", "c"}, major : Int \cup {Nil}, minor : Int \cup {Nil}]

LEMMA AnyDevice == anyDevice \notin {"b", "c"}
<1>1. "" # "b" /\ "" # "c"
  BY Zenon
<1> QED BY <1>1, Zenon DEF anyDevice

\* The items that are written for one rule allow what the rule allows, and none of
\* them denies if the rule allows or is one for any device.
LEMMA DecomposedRule ==
  ASSUME NEW r \in AnyRule, r.type \in {anyDevice, "b", "c"}, NEW d, d.type \in {"b", "c"}
  PROVE  /\ Decompose(r) \in Seq(Typed)
         /\ Allowed(Decompose(r), d) <=> r.allow /\ Matches(r, d)
         /\ r.allow \/ r.type = anyDevice =>
              \A n \in DOMAIN Decompose(r) : Decompose(r)[n].allow
<1>1. CASE r.type # anyDevice
  <2>1. Decompose(r) = <<r>> /\ r \in Typed
    <3>1. Decompose(r) = <<r>> /\ r.type \in {"b", "c"}
      BY <1>1 DEF Decompose
    <3>2. r \in Typed
      BY <3>1, Zenon DEF Typed, AnyRule
    <3> QED BY <3>1, <3>2
  <2> DEFINE s == <<r>>
  <2>2. Decompose(r) = s /\ DOMAIN s = {1} /\ s[1] = r /\ s \in Seq(Typed)
    BY <2>1, SingleIsSeq
  <2> HIDE DEF s
  <2>3. Allowed(s, d) <=> r.allow /\ Matches(r, d)
    BY <2>2, Zenon DEF Allowed
  <2> QED BY <1>1, <2>2, <2>3, Zenon
<1>2. CASE r.type = anyDevice /\ ~r.allow
  <2>1. Decompose(r) = <<>> /\ DOMAIN <<>> = {} /\ <<>> \in Seq(Typed)
    BY <1>2 DEF Decompose
  <2> QED BY <1>2, <2>1, Zenon DEF Allowed
<1>3. CASE r.type = anyDevice /\ r.allow
  <2> DEFINE x == [r EXCEPT !.type = "b"]
             y == [r EXCEPT !.type = "c"]
             s == <<x, y>>
  <2>1. Decompose(r) = s
    BY <1>3 DEF Decompose
  <2>2. x \in Typed /\ y \in Typed
    BY Zenon DEF Typed, AnyRule
  <2>3. /\ x.allow = r.allow /\ x.type = "b" /\ x.major = r.major /\ x.minor = r.minor
        /\ y.allow = r.allow /\ y.type = "c" /\ y.major = r.major /\ y.minor = r.minor
    BY DEF AnyRule
  <2>4. Matches(r, d) <=> Matches(x, d) \/ Matches(y, d)
    BY <1>3, <2>3 DEF Matches
  <2>5. DOMAIN s = {1, 2} /\ s[1] = x /\ s[2] = y /\ s \in Seq(Typed)
    BY <2>2
  <2> HIDE DEF x, y, s
  <2>6. s[1].allow /\ s[2].allow
    BY <1>3, <2>3, <2>5, Zenon
  <2>7. Allowed(s, d) <=> Matches(x, d) \/ Matches(y, d)
    BY <2>5, <2>6, Zenon DEF Allowed
  <2>8. \A n \in DOMAIN s : s[n].allow
    BY <2>5, <2>6, Zenon
  <2> QED BY <1>3, <2>1, <2>4, <2>5, <2>7, <2>8, Zenon
<1> QED BY <1>1, <1>2, <1>3 DEF AnyRule

\* The items that are written for a list allow what the list allows, and none denies if
\* none of the list does but for any device.
LEMMA DecomposedRules ==
  ASSUME NEW rs \in Seq(AnyRule), \A n \in DOMAIN rs : rs[n].type \in {anyDevice, "b", "c"},
         NEW d, d.type \in {"b", "c"}
  PROVE  LET items == FlattenSeq([n \in DOMAIN rs |-> Decompose(rs[n])]) IN
         /\ items \in Seq(Typed)
         /\ Allowed(items, d) <=> Allowed(rs, d)
         /\ (\A n \in DOMAIN rs : rs[n].allow \/ rs[n].type = anyDevice)
              => \A n \in DOMAIN items : items[n].allow
<1> DEFINE N  == Len(rs)
           ss == [n \in DOMAIN rs |-> Decompose(rs[n])]
<1>0. N \in Nat /\ DOMAIN rs = 1 .. N /\ \A n \in 1 .. N : rs[n] \in AnyRule
  OBVIOUS
<1>1. \A n \in 1 .. N : /\ ss[n] = Decompose(rs[n]) /\ ss[n] \in Seq(Typed)
                        /\ Allowed(ss[n], d) <=> rs[n].allow /\ Matches(rs[n], d)
                        /\ rs[n].allow \/ rs[n].type = anyDevice =>
                             \A m \in DOMAIN ss[n] : ss[n][m].allow
  <2> TAKE n \in 1 .. N
  <2>1. ss[n] = Decompose(rs[n])
    BY <1>0, Zenon
  <2>2. rs[n] \in AnyRule /\ rs[n].type \in {anyDevice, "b", "c"}
    BY <1>0, Zenon
  <2>3. /\ Decompose(rs[n]) \in Seq(Typed)
        /\ Allowed(Decompose(rs[n]), d) <=> rs[n].allow /\ Matches(rs[n], d)
        /\ rs[n].allow \/ rs[n].type = anyDevice =>
             \A m \in DOMAIN Decompose(rs[n]) : Decompose(rs[n])[m].allow
    BY <2>2, DecomposedRule
  <2> QED BY <2>1, <2>3, Zenon
<1>2. ss \in Seq(Seq(Typed)) /\ DOMAIN ss = 1 .. N
  <2>1. ss \in [1 .. N -> Seq(Typed)]
    BY <1>0, <1>1, Zenon
  <2> HIDE DEF ss
  <2> QED BY <1>0, <2>1, FunctionIsSeq
<1> DEFINE items == FlattenSeq(ss)
<1> HIDE DEF ss, N
<1>3. items \in Seq(Typed) /\ Range(items) = UNION {Range(ss[n]) : n \in 1 .. N}
  BY <1>2, FlattenElements
<1> HIDE DEF items
<1>4. Allowed(items, d) <=> \E n \in 1 .. N : Allowed(ss[n], d)
  <2>1. \A s : Allowed(s, d) <=> \E r \in Range(s) : r.allow /\ Matches(r, d)
    BY Zenon DEF Allowed, Range
  <2>2. \A r : r \in Range(items) <=> \E n \in 1 .. N : r \in Range(ss[n])
    BY <1>3, Zenon
  <2> QED BY <2>1, <2>2, Zenon
<1>5. Allowed(rs, d) <=> \E n \in 1 .. N : rs[n].allow /\ Matches(rs[n], d)
  BY <1>0, Zenon DEF Allowed
<1>6. ASSUME \A n \in 1 .. N : rs[n].allow \/ rs[n].type = anyDevice, NEW m \in DOMAIN items
      PROVE  items[m].allow
  <2>1. items[m] \in Range(items)
    BY Zenon DEF Range
  <2>2. PICK n \in 1 .. N : items[m] \in Range(ss[n])
    BY <1>3, <2>1, Zenon
  <2>3. \A i \in DOMAIN ss[n] : ss[n][i].allow
    BY <1>1, <1>6, Zenon
  <2> QED BY <2>2, <2>3, Zenon DEF Range
<1> QED BY <1>0, <1>1, <1>3, <1>4, <1>5, <1>6, Zenon DEF items, ss

\* The default devices are character devices of group 0.
LEMMA DefaultDevice ==
  ASSUME NEW x \in Range(DefaultDevices)
  PROVE  /\ x.type = "c" /\ x.gid = 0 /\ x.major \in Int /\ x.minor \in Int
         /\ [x EXCEPT !.gid = 0].gid = 0
<1>1. PICK p, a, b : x = Device(p, a, b) /\ a \in Int /\ b \in Int
  <2>1. PICK k \in DOMAIN DefaultDevices : x = DefaultDevices[k]
    BY DEF Range
  <2>2. k \in 1 .. 6
    BY <2>1 DEF DefaultDevices
  <2>3. \/ x = Device("/dev/null", 1, 3) \/ x = Device("/dev/zero", 1, 5)
        \/ x = Device("/dev/full", 1, 7) \/ x = Device("/dev/random", 1, 8)
        \/ x = Device("/dev/urandom", 1, 9) \/ x = Device("/dev/tty", 5, 0)
    BY <2>1, <2>2 DEF DefaultDevices
  <2> QED BY <2>3
<1> QED BY <1>1 DEF Device

LEMMA MissingType == Missing \in Seq(Range(DefaultDevices))
<1> DEFINE S == Range(DefaultDevices)
           ss == [k \in DOMAIN DefaultDevices |->
                    IF \E n \in DOMAIN spec.devices : spec.devices[n].path = DefaultDevices[k].path
                    THEN <<>> ELSE <<DefaultDevices[k]>>]
<1>1. DOMAIN DefaultDevices = 1 .. 6
  BY DEF DefaultDevices
<1>2. \A k \in 1 .. 6 : DefaultDevices[k] \in S
  BY <1>1 DEF Range
<1>3. ss \in [1 .. 6 -> Seq(S)]
  <2> HIDE DEF S
  <2>1. \A k \in 1 .. 6 : <<DefaultDevices[k]>> \in Seq(S) /\ <<>> \in Seq(S)
    BY <1>2
  <2> QED BY <1>1, <2>1, Zenon
<1>4. ss \in Seq(Seq(S))
  <2>1. 6 \in Nat
    OBVIOUS
  <2> HIDE DEF ss, S
  <2> QED BY <1>3, <2>1, FunctionIsSeq
<1>5. Missing = FlattenSeq(ss)
  BY DEF Missing
<1> HIDE DEF ss, S
<1>6. FlattenSeq(ss) \in Seq(S)
  BY <1>4, FlattenElements
<1> QED BY <1>5, <1>6 DEF S

\* What the rules allow with those that ensureDefaultDevices adds.
LEMMA AddedRules ==
  ASSUME InputInv
  PROVE  /\ AllRules \in Seq(AnyRule)
         /\ \A n \in DOMAIN AllRules : AllRules[n].allow \/ AllRules[n] \in Range(spec.rules)
         /\ \A d : Allowed(AllRules, d) <=>
              \/ Allowed(spec.rules, d)
              \/ Matches(Rule(TRUE, "c", 5, 2), d) \/ Matches(Rule(TRUE, "c", 88, Nil), d)
              \/ \E n \in DOMAIN Missing : Matches(Missing[n], d)
<1> DEFINE rs  == spec.rules
           two == <<Rule(TRUE, "c", 5, 2), Rule(TRUE, "c", 88, Nil)>>
           mis == [n \in DOMAIN Missing |->
                     Rule(TRUE, Missing[n].type, Missing[n].major, Missing[n].minor)]
           M   == Len(Missing)
           Allow(s) == \A n \in DOMAIN s : s[n].allow
<1>1. rs \in Seq(RuleType)
  BY InputsAssumption DEF InputInv
<1>2. rs \in Seq(AnyRule)
  <2>1. RuleType \subseteq AnyRule
    BY Zenon DEF RuleType, AnyRule
  <2> HIDE DEF rs
  <2> QED BY <1>1, <2>1
<1>a. \A a, b \in Int \cup {Nil} : Rule(TRUE, "c", a, b) \in AnyRule
  BY Zenon DEF Rule, AnyRule
<1>3. Rule(TRUE, "c", 5, 2) \in AnyRule /\ Rule(TRUE, "c", 88, Nil) \in AnyRule
  <2>1. 5 \in Int /\ 2 \in Int /\ 88 \in Int
    OBVIOUS
  <2> QED BY <1>a, <2>1, Zenon
<1>4. /\ two \in Seq(AnyRule) /\ Len(two) = 2 /\ DOMAIN two = {1, 2}
      /\ two[1] = Rule(TRUE, "c", 5, 2) /\ two[2] = Rule(TRUE, "c", 88, Nil)
  <2> DEFINE x == Rule(TRUE, "c", 5, 2)
             y == Rule(TRUE, "c", 88, Nil)
  <2>1. x \in AnyRule /\ y \in AnyRule /\ two = <<x, y>>
    BY <1>3
  <2> HIDE DEF x, y, two
  <2>2. /\ <<x, y>> \in Seq(AnyRule) /\ Len(<<x, y>>) = 2 /\ DOMAIN <<x, y>> = {1, 2}
        /\ <<x, y>>[1] = x /\ <<x, y>>[2] = y
    BY <2>1, PairIsSeq
  <2> QED BY <2>1, <2>2, Zenon DEF x, y
<1>5. M \in Nat /\ DOMAIN Missing = 1 .. M /\ \A n \in 1 .. M : Missing[n] \in Range(DefaultDevices)
  BY MissingType
<1>6. \A n \in 1 .. M : /\ mis[n] = Rule(TRUE, Missing[n].type, Missing[n].major, Missing[n].minor)
                        /\ mis[n] \in AnyRule /\ mis[n].allow
                        /\ mis[n].type = Missing[n].type /\ mis[n].major = Missing[n].major
                        /\ mis[n].minor = Missing[n].minor
  <2> TAKE n \in 1 .. M
  <2>1. mis[n] = Rule(TRUE, Missing[n].type, Missing[n].major, Missing[n].minor)
    BY <1>5, Zenon
  <2>2. Missing[n].type = "c" /\ Missing[n].major \in Int /\ Missing[n].minor \in Int
    BY <1>5, DefaultDevice
  <2>4. /\ mis[n].allow /\ mis[n].type = Missing[n].type
        /\ mis[n].major = Missing[n].major /\ mis[n].minor = Missing[n].minor
    BY <1>5, Zenon DEF Rule
  <2> HIDE DEF mis
  <2>3. Rule(TRUE, "c", Missing[n].major, Missing[n].minor) \in AnyRule
    BY <1>a, <2>2, Zenon
  <2> QED BY <2>1, <2>2, <2>3, <2>4, Zenon
<1>7. mis \in Seq(AnyRule) /\ DOMAIN mis = 1 .. M
  <2>1. mis \in [1 .. M -> AnyRule]
    BY <1>5, <1>6, Zenon
  <2> HIDE DEF mis
  <2> QED BY <1>5, <2>1
<1>8. AllRules = rs \o two \o mis
  BY Zenon DEF AllRules
<1>9. Allow(two) /\ Allow(mis)
  <2> HIDE DEF two, mis
  <2>1. Allow(two)
    <3>1. Rule(TRUE, "c", 5, 2).allow /\ Rule(TRUE, "c", 88, Nil).allow
      BY Zenon DEF Rule
    <3>2. two[1].allow /\ two[2].allow
      BY <1>4, <3>1, Zenon
    <3> QED BY <1>4, <3>2, Zenon
  <2>2. Allow(mis)
    BY <1>6, <1>7, Zenon
  <2> QED BY <2>1, <2>2
<1> HIDE DEF rs, two, mis
<1>10. rs \o two \in Seq(AnyRule) /\ rs \o two \o mis \in Seq(AnyRule)
  BY <1>2, <1>4, <1>7
\* A list that only allows allows what one of its rules matches.
<1>11. ASSUME NEW s, Allow(s), NEW d
       PROVE  Allowed(s, d) <=> \E n \in DOMAIN s : Matches(s[n], d)
  BY <1>11, Zenon DEF Allowed
<1>12. ASSUME NEW d
       PROVE  Allowed(AllRules, d) <=>
                \/ Allowed(spec.rules, d)
                \/ Matches(Rule(TRUE, "c", 5, 2), d) \/ Matches(Rule(TRUE, "c", 88, Nil), d)
                \/ \E n \in DOMAIN Missing : Matches(Missing[n], d)
  <2>1. Allowed(rs \o two \o mis, d) <=> Allowed(rs \o two, d) \/ Allowed(mis, d)
    BY <1>7, <1>10, AllowedCat
  <2>2. Allowed(rs \o two, d) <=> Allowed(rs, d) \/ Allowed(two, d)
    BY <1>2, <1>4, AllowedCat
  <2>3. Allowed(two, d) <=> Matches(Rule(TRUE, "c", 5, 2), d) \/ Matches(Rule(TRUE, "c", 88, Nil), d)
    BY <1>4, <1>9, <1>11, Zenon
  <2>4. Allowed(mis, d) <=> \E n \in DOMAIN Missing : Matches(Missing[n], d)
    <3>1. \A n \in 1 .. M : Matches(mis[n], d) <=> Matches(Missing[n], d)
      <4> TAKE n \in 1 .. M
      <4> QED BY <1>6, Zenon DEF Matches
    <3> QED BY <1>5, <1>7, <1>9, <1>11, <3>1, Zenon
  <2> QED BY <1>8, <2>1, <2>2, <2>3, <2>4, Zenon DEF rs
<1>13. ASSUME NEW n \in DOMAIN AllRules
       PROVE  AllRules[n].allow \/ AllRules[n] \in Range(rs)
  <2>1. Range(rs \o two \o mis) = Range(rs \o two) \cup Range(mis)
    BY <1>7, <1>10, CatElements
  <2>2. Range(rs \o two) = Range(rs) \cup Range(two)
    BY <1>2, <1>4, CatElements
  <2>3. AllRules[n] \in Range(rs) \cup Range(two) \cup Range(mis)
    BY <1>8, <2>1, <2>2, Zenon DEF Range
  <2>4. \A r \in Range(two) \cup Range(mis) : r.allow
    BY <1>9, Zenon DEF Range
  <2> QED BY <2>3, <2>4, Zenon
<1> QED BY <1>8, <1>10, <1>12, <1>13, Zenon DEF rs

-----------------------------------------------------------------------------
(***************************************************************************)
(* The seccomp profile                                                     *)
(***************************************************************************)
LineType == [name : STRING, action : STRING, arg : Nat \cup {Nil}]

\* The lines for a system call: one for each name and comparison.
IsLine(l, sc) ==
  \E k \in DOMAIN sc.names :
    /\ l.name = sc.names[k] /\ l.action = sc.action
    /\ \/ sc.args = <<>> /\ l.arg = Nil
       \/ \E m \in DOMAIN sc.args : l.arg = sc.args[m]

LEMMA SyscallLines ==
  ASSUME NEW sc \in SyscallType
  PROVE  /\ writeSeccompSyscall(sc) \in Seq(LineType)
         /\ \A l \in LineType : l \in Range(writeSeccompSyscall(sc)) <=> IsLine(l, sc)
<1> DEFINE one(n)   == [name |-> sc.names[n], action |-> sc.action, arg |-> Nil]
           two(n,m) == [name |-> sc.names[n], action |-> sc.action, arg |-> sc.args[m]]
           each(n)  == IF sc.args = <<>> THEN <<one(n)>> ELSE [m \in DOMAIN sc.args |-> two(n, m)]
           ss       == [n \in DOMAIN sc.names |-> each(n)]
           N        == Len(sc.names)
           A        == Len(sc.args)
<1>1. sc.names \in Seq(STRING) /\ sc.args \in Seq(Nat) /\ sc.action \in STRING
  BY Zenon DEF SyscallType
<1>2. /\ N \in Nat /\ DOMAIN sc.names = 1 .. N /\ \A n \in 1 .. N : sc.names[n] \in STRING
      /\ A \in Nat /\ DOMAIN sc.args = 1 .. A /\ \A m \in 1 .. A : sc.args[m] \in Nat
      /\ sc.args = <<>> <=> A = 0
  BY <1>1
<1> HIDE DEF N, A
<1>3. \A n \in 1 .. N : /\ each(n) \in Seq(LineType)
                        /\ \A l : l \in Range(each(n)) <=>
                             \/ sc.args = <<>> /\ l = one(n)
                             \/ \E m \in 1 .. A : l = two(n, m)
  <2> TAKE n \in 1 .. N
  <2>1. CASE sc.args = <<>>
    <3>1. one(n) \in LineType
      BY <1>1, <1>2, Zenon DEF LineType
    <3>2. each(n) = <<one(n)>>
      BY <2>1, Zenon
    <3>3. 1 .. A = {}
      BY <1>2, <2>1
    <3> HIDE DEF one, each
    <3>4. each(n) \in Seq(LineType) /\ DOMAIN each(n) = {1} /\ each(n)[1] = one(n)
      BY <3>1, <3>2
    <3> QED BY <2>1, <3>3, <3>4, Zenon DEF Range
  <2>2. CASE sc.args # <<>>
    <3>1. \A m \in 1 .. A : two(n, m) \in LineType
      <4>1. \A m \in 1 .. A : sc.args[m] \in Nat \cup {Nil}
        BY <1>2, Zenon
      <4> QED BY <1>1, <1>2, <4>1, Zenon DEF LineType
    <3>2. each(n) = [m \in 1 .. A |-> two(n, m)]
      BY <1>2, <2>2, Zenon
    <3> HIDE DEF two, each
    <3>3. each(n) \in [1 .. A -> LineType]
      BY <3>1, <3>2, Zenon
    <3>4. each(n) \in Seq(LineType)
      BY <1>2, <3>3, FunctionIsSeq
    <3> QED BY <2>2, <3>2, <3>4, Zenon DEF Range
  <2> QED BY <2>1, <2>2
<1>4. ss \in Seq(Seq(LineType)) /\ DOMAIN ss = 1 .. N /\ \A n \in 1 .. N : ss[n] = each(n)
  <2> HIDE DEF each
  <2>1. ss \in [1 .. N -> Seq(LineType)] /\ \A n \in 1 .. N : ss[n] = each(n)
    BY <1>2, <1>3, Zenon
  <2> HIDE DEF ss
  <2> QED BY <1>2, <2>1, FunctionIsSeq
<1>5. writeSeccompSyscall(sc) = FlattenSeq(ss)
  BY Zenon DEF writeSeccompSyscall
<1> HIDE DEF ss
<1>6. /\ FlattenSeq(ss) \in Seq(LineType)
      /\ Range(FlattenSeq(ss)) = UNION {Range(ss[n]) : n \in DOMAIN ss}
  BY <1>4, FlattenElements
<1>7. ASSUME NEW l \in LineType PROVE l \in Range(writeSeccompSyscall(sc)) <=> IsLine(l, sc)
  <2>1. l \in Range(writeSeccompSyscall(sc)) <=> \E n \in 1 .. N : l \in Range(each(n))
    <3> HIDE DEF each
    <3>1. l \in Range(writeSeccompSyscall(sc)) <=> \E n \in 1 .. N : l \in Range(ss[n])
      BY <1>4, <1>5, <1>6, Zenon
    <3> QED BY <1>4, <3>1, Zenon
  <2>2. \A n \in 1 .. N : l = one(n) <=> l.name = sc.names[n] /\ l.action = sc.action /\ l.arg = Nil
    BY DEF LineType
  <2>3. \A n \in 1 .. N, m \in 1 .. A :
          l = two(n, m) <=> l.name = sc.names[n] /\ l.action = sc.action /\ l.arg = sc.args[m]
    BY DEF LineType
  <2> HIDE DEF one, two, each
  <2>4. l \in Range(writeSeccompSyscall(sc)) <=>
          \E n \in 1 .. N : \/ sc.args = <<>> /\ l = one(n)
                            \/ \E m \in 1 .. A : l = two(n, m)
    BY <1>3, <2>1, Zenon
  <2>5. ASSUME l \in Range(writeSeccompSyscall(sc)) PROVE IsLine(l, sc)
    <3>1. PICK n \in 1 .. N : \/ sc.args = <<>> /\ l = one(n)
                              \/ \E m \in 1 .. A : l = two(n, m)
      BY <2>4, <2>5, Zenon
    <3> QED BY <1>2, <2>2, <2>3, <3>1, Zenon DEF IsLine
  <2>6. ASSUME IsLine(l, sc) PROVE l \in Range(writeSeccompSyscall(sc))
    <3>1. PICK n \in 1 .. N : /\ l.name = sc.names[n] /\ l.action = sc.action
                              /\ \/ sc.args = <<>> /\ l.arg = Nil
                                 \/ \E m \in 1 .. A : l.arg = sc.args[m]
      BY <1>2, <2>6, Zenon DEF IsLine
    <3> QED BY <2>2, <2>3, <2>4, <3>1, Zenon
  <2> QED BY <2>5, <2>6
<1> QED BY <1>5, <1>6, <1>7, Zenon

\* The lines of the profile.
Lines == FlattenSeq([n \in DOMAIN spec.syscalls |-> writeSeccompSyscall(spec.syscalls[n])])

LEMMA ProfileLines ==
  ASSUME InputInv
  PROVE  /\ Lines \in Seq(LineType)
         /\ \A l \in LineType : l \in Range(Lines) <=> \E sc \in Range(spec.syscalls) : IsLine(l, sc)
<1> DEFINE ss == [n \in DOMAIN spec.syscalls |-> writeSeccompSyscall(spec.syscalls[n])]
           N  == Len(spec.syscalls)
<1>1. spec.syscalls \in Seq(SyscallType)
  BY InputsAssumption DEF InputInv
<1>2. /\ N \in Nat /\ DOMAIN spec.syscalls = 1 .. N
      /\ \A n \in 1 .. N : spec.syscalls[n] \in SyscallType
  BY <1>1
<1> HIDE DEF N
<1>3. \A n \in 1 .. N : /\ writeSeccompSyscall(spec.syscalls[n]) \in Seq(LineType)
                        /\ \A l \in LineType : l \in Range(writeSeccompSyscall(spec.syscalls[n]))
                                                 <=> IsLine(l, spec.syscalls[n])
  BY <1>2, SyscallLines
<1>4. ss \in [1 .. N -> Seq(LineType)] /\ \A n \in 1 .. N : ss[n] = writeSeccompSyscall(spec.syscalls[n])
  BY <1>2, <1>3, Zenon
<1>5. Lines = FlattenSeq(ss)
  BY Zenon DEF Lines
<1> HIDE DEF ss
<1>6. ss \in Seq(Seq(LineType)) /\ DOMAIN ss = 1 .. N
  BY <1>2, <1>4, FunctionIsSeq
<1>7. /\ FlattenSeq(ss) \in Seq(LineType)
      /\ Range(FlattenSeq(ss)) = UNION {Range(ss[n]) : n \in DOMAIN ss}
  BY <1>6, FlattenElements
<1>8. ASSUME NEW l \in LineType
      PROVE  l \in Range(Lines) <=> \E sc \in Range(spec.syscalls) : IsLine(l, sc)
  <2>1. l \in Range(Lines) <=> \E n \in 1 .. N : l \in Range(ss[n])
    BY <1>5, <1>6, <1>7, Zenon
  <2>2. l \in Range(Lines) <=> \E n \in 1 .. N : IsLine(l, spec.syscalls[n])
    BY <1>3, <1>4, <2>1, Zenon
  <2> QED BY <1>2, <2>2, Zenon DEF Range
<1> QED BY <1>5, <1>7, <1>8, Zenon

\* With one comparison at most the lines decide about a call as the rules of the spec do.
LEMMA LinesDecide ==
  ASSUME InputInv, \A n \in DOMAIN spec.syscalls : Len(spec.syscalls[n].args) <= 1,
         NEW p, p.lines = Lines, p.default = spec.action,
         NEW name \in STRING, NEW val \in Nat
  PROVE  ByLines(p, name, val) = BySpec(name, val)
<1> DEFINE L == {m \in Range(p.lines) : m.name = name /\ m.arg \in {Nil, val}}
           R == {r \in Range(spec.syscalls) :
                   name \in Range(r.names) /\ \A m \in DOMAIN r.args : r.args[m] = val}
<1>1. spec.syscalls \in Seq(SyscallType)
  BY InputsAssumption DEF InputInv
<1>2. \A sc \in Range(spec.syscalls) :
        /\ sc \in SyscallType /\ sc.action \in STRING
        /\ sc.args \in Seq(Nat) /\ Len(sc.args) <= 1
  <2>1. \A n \in DOMAIN spec.syscalls : spec.syscalls[n] \in SyscallType
    BY <1>1, Element
  <2> QED BY <2>1, Zenon DEF Range, SyscallType
<1>3. \A sc \in Range(spec.syscalls) :
        \/ sc.args = <<>> /\ DOMAIN sc.args = {}
        \/ sc.args # <<>> /\ DOMAIN sc.args = {1} /\ sc.args[1] # Nil
  <2> TAKE sc \in Range(spec.syscalls)
  <2> DEFINE a == sc.args
  <2>1. a \in Seq(Nat) /\ Len(a) <= 1
    BY <1>2, Zenon
  <2> HIDE DEF a
  <2>2. \/ a = <<>> /\ DOMAIN a = {}
        \/ a # <<>> /\ DOMAIN a = {1} /\ a[1] \in Nat
    <3>1. CASE Len(a) = 0
      BY <2>1, <3>1
    <3>2. CASE Len(a) = 1
      BY <2>1, <3>2
    <3>3. Len(a) = 0 \/ Len(a) = 1
      <4>1. Len(a) \in Nat
        BY <2>1, Element
      <4>2. \A k \in Nat : k <= 1 => k = 0 \/ k = 1
        OBVIOUS
      <4> QED BY <2>1, <4>1, <4>2, Zenon
    <3> QED BY <3>1, <3>2, <3>3
  <2>3. Nil \notin Nat
    BY ConfigureAssumption
  <2> QED BY <2>2, <2>3, Zenon DEF a
<1>4. \A l \in Range(Lines) : l \in LineType
  <2>1. Lines \in Seq(LineType)
    BY ProfileLines
  <2>2. \A n \in DOMAIN Lines : Lines[n] \in LineType
    BY <2>1, Element
  <2> QED BY <2>2, Zenon DEF Range
<1>5. ASSUME NEW l \in L PROVE \E sc \in R : sc.action = l.action
  <2>1. l \in Range(Lines) /\ l.name = name /\ l.arg \in {Nil, val}
    BY Zenon
  <2>2. PICK sc \in Range(spec.syscalls) : IsLine(l, sc)
    BY <1>4, <2>1, ProfileLines
  <2>3. PICK k \in DOMAIN sc.names :
          /\ l.name = sc.names[k] /\ l.action = sc.action
          /\ \/ sc.args = <<>> /\ l.arg = Nil
             \/ \E m \in DOMAIN sc.args : l.arg = sc.args[m]
    BY <2>2, Zenon DEF IsLine
  <2>4. name \in Range(sc.names)
    BY <2>1, <2>3, Zenon DEF Range
  <2>5. \A m \in DOMAIN sc.args : sc.args[m] = val
    BY <1>3, <2>1, <2>3, Zenon
  <2> QED BY <2>3, <2>4, <2>5, Zenon
<1>6. ASSUME NEW sc \in R PROVE \E l \in L : l.action = sc.action
  <2>1. /\ sc \in Range(spec.syscalls) /\ name \in Range(sc.names)
        /\ \A m \in DOMAIN sc.args : sc.args[m] = val
    BY Zenon
  <2> DEFINE l == [name |-> name, action |-> sc.action,
                   arg  |-> IF sc.args = <<>> THEN Nil ELSE val]
  <2>2. l \in LineType /\ l.name = name /\ l.action = sc.action
    BY <1>2, <2>1, Zenon DEF LineType
  <2>3. l.arg = IF sc.args = <<>> THEN Nil ELSE val
    BY Zenon
  <2> HIDE DEF l
  <2>4. IsLine(l, sc)
    <3>1. PICK k \in DOMAIN sc.names : name = sc.names[k]
      BY <2>1, Zenon DEF Range
    <3>2. \/ sc.args = <<>> /\ l.arg = Nil
          \/ \E m \in DOMAIN sc.args : l.arg = sc.args[m]
      BY <1>3, <2>1, <2>3, Zenon
    <3> QED BY <2>2, <3>1, <3>2, Zenon DEF IsLine
  <2>5. l \in Range(Lines)
    BY <2>1, <2>2, <2>4, ProfileLines
  <2>6. l \in L
    BY <2>2, <2>3, <2>5, Zenon
  <2> QED BY <2>2, <2>6, Zenon
<1>7. {l.action : l \in L} = {sc.action : sc \in R}
  <2> HIDE DEF L, R
  <2> QED BY <1>5, <1>6
<1> QED BY <1>7, Zenon DEF ByLines, BySpec

-----------------------------------------------------------------------------
(***************************************************************************)
(* The invariant                                                           *)
(***************************************************************************)

\* The steps after container.json was written, after configureNamespaces, and after
\* configureDeviceController.
Launched == {"launch", "open", "pid", "rename", "created"}
Placed   == Launched \cup {"seccomp", "devices", "write", "cgroup"}
Informed == Placed \cup {"init", "mounts", "namespaces"}

StepInv ==
  /\ pc \in Informed \cup {"idle", "info", "failed"}
  /\ creates \in 0 .. MaxCreates
  /\ pc # "idle" => creates # 0

FlagsInv ==
  /\ flags \in [Flags -> BOOLEAN]
  /\ pc # "idle" => ~Unusable /\ \A f \in Flags : flags[f] = FlagValue(f)

MountsInv ==
  /\ \E S : mounts \in Seq(S)
  /\ Len(mounts) <= Len(AllMounts)

\* The n-th mount is where a process looks for its destination in the image, and there.
MountPlaced(n) ==
  LET dst == AllMounts[n].dst IN
  Plain(spec.rootfs) /\ Proper(dst) /\ Len(dst) <= MaxLinks
    => /\ mounts[n].dest = InContainer(spec.rootfs, dst)
       /\ IsA(fs, mounts[n].dest, mounts[n].create)

\* The rootfs is that of the image, with more directories and files.
FilesInv ==
  /\ Grown(spec.rootfs, fs)
  /\ \A n \in DOMAIN mounts : MountPlaced(n)
  /\ MadeInRootfs

\* A container that runs was created from the namespaces in container.json.
NamespacesInv ==
  /\ share \subseteq Namespaces /\ keep \subseteq Namespaces
  /\ pc \in Informed => info = spec.namespaces
  /\ pc \in Placed => keep = Namespaces \ Types(spec.namespaces)
  /\ attached # <<>> => /\ pc = "created"
                        /\ Types(info) \subseteq Namespaces /\ attached = <<Types(info)>>

DevicesInv ==
  /\ rules \in Seq(Typed)
  /\ \A n \in DOMAIN devices : devices[n].gid # Nil
  /\ pc \in Launched /\ flags["cgroup-devices"] =>
       /\ \A n \in DOMAIN AllRules : AllRules[n].type \in {anyDevice, "b", "c"}
       /\ rules = FlattenSeq([n \in DOMAIN AllRules |-> Decompose(AllRules[n])])

Profile == [default |-> spec.action, sections |-> seccompArchs, lines |-> Lines]
ProfileInv == profile # <<>> => profile = <<Profile>>

\* A temporary file is there while its create is in CreatePidFile, or ended in it.
PidInv ==
  /\ died \in BOOLEAN
  /\ tmp \in {NoFile, Empty} \cup {<<n>> : n \in 1 .. creates}
  /\ pidfile \in {NoFile} \cup {<<n>> : n \in 1 .. creates}
  /\ pc = "rename" => tmp = <<creates>>
  /\ pc = "created" => pidfile = <<creates>>
  /\ TempMeansDied

ConfigureInv ==
  /\ InputInv /\ StepInv /\ FlagsInv /\ MountsInv /\ FilesInv /\ NamespacesInv
  /\ DevicesInv /\ ProfileInv /\ PidInv

\* No step changes the spec or the call, nor what is computed from them.
LEMMA InputStays ==
  ASSUME [Next]_vars
  PROVE  /\ spec' = spec /\ call' = call
         /\ AllMounts' = AllMounts /\ AllRules' = AllRules /\ Profile' = Profile
         /\ (Unusable' <=> Unusable) /\ \A f : FlagValue(f)' = FlagValue(f)
<1>1. spec' = spec /\ call' = call
  BY DEF Next, vars, input, Create, createContainer, configureInit, ConfigureMount, MountsDone,
         configureNamespaces, writeSeccompProfile, ensureDefaultDevices, writeDevices,
         configureDeviceController, runStartCmd, OpenPidFile, WritePidFile, RenamePidFile,
         Exec, Fails, Delete, Ended
<1>2. AllMounts' = AllMounts
  BY <1>1 DEF AllMounts
<1>3. AllRules' = AllRules
  BY <1>1, Zenon DEF AllRules, Missing
<1>4. Profile' = Profile
  BY <1>1, Zenon DEF Profile, Lines, seccompArchs
<1>5. (Unusable' <=> Unusable) /\ \A f : FlagValue(f)' = FlagValue(f)
  <2>1. loadEnvFile' = loadEnvFile
    BY <1>1 DEF loadEnvFile, Definitions
  <2>2. Environment' = Environment
    BY <1>1, <2>1, Zenon DEF Environment
  <2>3. Unusable' <=> Unusable
    BY <1>1, <2>2, Zenon DEF Unusable
  <2> QED BY <1>1, <2>2, <2>3, Zenon DEF FlagValue
<1> QED BY <1>1, <1>2, <1>3, <1>4, <1>5

LEMMA MountsNumber ==
  ASSUME InputInv
  PROVE  Len(AllMounts) \in Nat /\ DOMAIN AllMounts = 1 .. Len(AllMounts)
<1>1. spec.mounts \in Seq(MountType)
  BY InputsAssumption DEF InputInv
<1>2. \A s \in Seq(MountType) : \A x, y :
        Len(s \o <<x, y>>) \in Nat /\ DOMAIN (s \o <<x, y>>) = 1 .. Len(s \o <<x, y>>)
  OBVIOUS
<1> QED BY <1>1, <1>2 DEF AllMounts, InitMounts

LEMMA InitConfigureInv == Init => ConfigureInv
<1> SUFFICES ASSUME Init PROVE ConfigureInv
  OBVIOUS
<1>1. InputInv /\ StepInv
  BY ConfigureAssumption DEF Init, InputInv, StepInv, Informed, Placed, Launched
<1>2. FlagsInv
  BY Zenon DEF Init, FlagsInv
<1>3. MountsInv
  <2>1. mounts = <<>>
    BY DEF Init
  <2>2. mounts \in Seq({}) /\ Len(mounts) = 0
    BY <2>1
  <2> QED BY <1>1, <2>2, MountsNumber DEF MountsInv
<1>4. NamespacesInv
  BY DEF Init, NamespacesInv, Informed, Placed, Launched
<1>5. DevicesInv
  BY DEF Init, DevicesInv, Launched
<1>6. ProfileInv
  BY DEF Init, ProfileInv
<1>7. PidInv
  BY DEF Init, PidInv, TempMeansDied, NoFile
<1>8. FilesInv
  <2>1. IsFileSystem(spec.rootfs) /\ fs = spec.rootfs /\ DOMAIN mounts = {}
    BY <1>1, InputsAssumption DEF Init, InputInv
  <2>2. Grown(spec.rootfs, fs)
    BY <2>1, GrownSelf
  <2> QED BY <2>1, <2>2, Zenon DEF FilesInv, MadeInRootfs
<1> QED BY <1>1, <1>2, <1>3, <1>4, <1>5, <1>6, <1>7, <1>8 DEF ConfigureInv

LEMMA StepsKept ==
  ASSUME ConfigureInv, [Next]_vars
  PROVE  InputInv' /\ StepInv'
<1>1. InputInv'
  BY InputStays DEF ConfigureInv, InputInv
<1>2. StepInv'
  BY ConfigureAssumption
     DEF ConfigureInv, StepInv, Informed, Placed, Launched, Goto,
         Next, vars, input, Create, createContainer, configureInit, ConfigureMount, MountsDone,
         configureNamespaces, writeSeccompProfile, ensureDefaultDevices, writeDevices,
         configureDeviceController, runStartCmd, OpenPidFile, WritePidFile, RenamePidFile,
         Exec, Fails, Delete, Ended
<1> QED BY <1>1, <1>2

LEMMA FlagsKept ==
  ASSUME ConfigureInv, [Next]_vars
  PROVE  FlagsInv'
<1>1. CASE Create
  <2>1. \A f \in Flags : FlagValue(f) \in BOOLEAN
    BY FirstGiven DEF ConfigureInv
  <2>2. CASE ~Unusable /\ flags' = [f \in Flags |-> FlagValue(f)]
    BY <2>1, <2>2, InputStays, Zenon DEF FlagsInv
  <2>3. CASE UNCHANGED <<flags, pc>>
    BY <2>3, InputStays, Zenon DEF ConfigureInv, FlagsInv
  <2> QED BY <1>1, <2>2, <2>3 DEF Create
<1>2. CASE ~Create
  <2>1. flags' = flags /\ (pc' # "idle" => pc # "idle")
    BY <1>2
       DEF Goto, Next, vars, input, createContainer, configureInit, ConfigureMount, MountsDone,
           configureNamespaces, writeSeccompProfile, ensureDefaultDevices, writeDevices,
           configureDeviceController, runStartCmd, OpenPidFile, WritePidFile, RenamePidFile,
           Exec, Fails, Delete, Ended
  <2> QED BY <2>1, InputStays, Zenon DEF ConfigureInv, FlagsInv
<1> QED BY <1>1, <1>2

LEMMA MountsKept ==
  ASSUME ConfigureInv, [Next]_vars
  PROVE  MountsInv'
<1>0. PICK S : mounts \in Seq(S)
  BY DEF ConfigureInv, MountsInv
<1>1. CASE ConfigureMount /\ mounts' # mounts
  <2>1. PICK e : mounts' = Append(mounts, e)
    BY <1>1, Zenon DEF ConfigureMount
  <2>2. mounts' \in Seq(S \cup {e}) /\ Len(mounts') = Len(mounts) + 1 /\ Len(mounts) \in Nat
    <3>1. \A s \in Seq(S) : Append(s, e) \in Seq(S \cup {e}) /\ Len(Append(s, e)) = Len(s) + 1
                            /\ Len(s) \in Nat
      OBVIOUS
    <3> QED BY <1>0, <2>1, <3>1, Zenon
  <2>3. Len(mounts) < Len(AllMounts)
    BY <1>1, Zenon DEF ConfigureMount
  <2>4. Len(AllMounts) \in Nat
    BY MountsNumber DEF ConfigureInv
  <2>5. Len(mounts') <= Len(AllMounts)
    BY <2>2, <2>3, <2>4
  <2> QED BY <2>2, <2>5, InputStays, Zenon DEF MountsInv
<1>2. CASE Delete
  <2>1. mounts' = <<>>
    BY <1>2 DEF Delete, NoConfig
  <2>2. mounts' \in Seq({}) /\ Len(mounts') = 0
    BY <2>1
  <2>3. 0 <= Len(AllMounts)
    BY MountsNumber DEF ConfigureInv
  <2> QED BY <2>2, <2>3, InputStays, Zenon DEF MountsInv
<1>3. CASE mounts' = mounts
  BY <1>3, InputStays, Zenon DEF ConfigureInv, MountsInv
<1>4. mounts' = mounts \/ Delete \/ ConfigureMount
  BY DEF Next, vars, config, Create, createContainer, configureInit, MountsDone,
         configureNamespaces, writeSeccompProfile, ensureDefaultDevices, writeDevices,
         configureDeviceController, runStartCmd, OpenPidFile, WritePidFile, RenamePidFile,
         Exec, Fails, Ended
<1> QED BY <1>1, <1>2, <1>3, <1>4

\* The destinations are paths, those of the spec and those of init.
LEMMA DestinationPaths ==
  ASSUME InputInv
  PROVE  \A n \in 1 .. Len(AllMounts) : AllMounts[n].dst \in Path
<1>1. spec.mounts \in Seq(MountType)
  BY InputsAssumption DEF InputInv
<1>2. \A s \in Seq(MountType) : \A x, y : \A n \in 1 .. Len(s \o <<x, y>>) :
        (s \o <<x, y>>)[n] \in MountType \cup {x, y}
  OBVIOUS
<1>3. \A ms \in MountType : ms.dst \in Path
  BY Zenon DEF MountType
<1>4. InitMounts[1].dst = <<".crio-lxc">> /\ InitMounts[2].dst = <<".crio-lxc", "init">>
  BY DEF InitMounts
<1>5. InitMounts[1].dst \in Path /\ InitMounts[2].dst \in Path
  BY <1>4, ConfigureAssumption DEF Path
<1>6. InitMounts = <<InitMounts[1], InitMounts[2]>>
  BY DEF InitMounts
<1>7. \A n \in 1 .. Len(AllMounts) : AllMounts[n] \in MountType \cup {InitMounts[1], InitMounts[2]}
  <2> HIDE DEF InitMounts
  <2> QED BY <1>1, <1>2, <1>6 DEF AllMounts
<1> QED BY <1>3, <1>5, <1>7, Zenon

LEMMA FilesKept ==
  ASSUME ConfigureInv, [Next]_vars
  PROVE  FilesInv'
<1>0. /\ InputInv /\ Grown(spec.rootfs, fs) /\ \A n \in DOMAIN mounts : MountPlaced(n)
      /\ spec' = spec /\ AllMounts' = AllMounts /\ MadeInRootfs
  BY InputStays DEF ConfigureInv, FilesInv
<1>1. IsFileSystem(spec.rootfs) /\ IsFileSystem(fs)
  BY <1>0, InputsAssumption DEF InputInv, Grown
<1> DEFINE Known == /\ Plain(spec.rootfs)
                    /\ \A n \in DOMAIN AllMounts : UpAtFirst(AllMounts[n].dst)
\* What was made stays there, and more is only made in the rootfs.
<1>2. ASSUME Grown(fs, fs'),
             Known => \E q \in Path : /\ IsPrefix(Rootfs, q)
                                      /\ DOMAIN fs' \subseteq DOMAIN fs \cup Above(q)
      PROVE  /\ Grown(spec.rootfs, fs') /\ MadeInRootfs'
             /\ \A n \in DOMAIN mounts : n \in DOMAIN mounts' /\ mounts'[n] = mounts[n] => MountPlaced(n)'
  <2>1. Grown(spec.rootfs, fs') /\ \A p, kind : IsA(fs, p, kind) => IsA(fs', p, kind)
    BY <1>0, <1>2, GrownFacts
  <2>2. ASSUME NEW n \in DOMAIN mounts, mounts'[n] = mounts[n]
        PROVE  MountPlaced(n)'
    BY <1>0, <2>1, <2>2, Zenon DEF MountPlaced
  <2>3. MadeInRootfs'
    <3> SUFFICES ASSUME Known, NEW p \in DOMAIN fs', p \notin DOMAIN spec.rootfs
                 PROVE  IsPrefix(Rootfs, p)
      BY <1>0, Zenon DEF MadeInRootfs
    <3>1. p \in DOMAIN fs => IsPrefix(Rootfs, p)
      BY <1>0, Zenon DEF MadeInRootfs
    <3>2. PICK q \in Path : IsPrefix(Rootfs, q) /\ DOMAIN fs' \subseteq DOMAIN fs \cup Above(q)
      BY <1>2, Zenon
    <3>3. p \notin DOMAIN fs => p \in Above(q)
      BY <3>2
    <3> QED BY <1>1, <3>1, <3>2, <3>3, NewInRootfs
  <2> QED BY <2>1, <2>2, <2>3
<1> HIDE DEF Known
<1>3. CASE configureInit
  <2>1. Proper(Rootfs) /\ ".crio-lxc" \in Names
    BY MountsAssumption, ConfigureAssumption
  <2>2. Join(Rootfs, <<".crio-lxc">>) = Append(Rootfs, ".crio-lxc")
    BY <2>1, JoinName
  <2> DEFINE q == Append(Rootfs, ".crio-lxc")
  <2>3. Proper(q) /\ q \in Path /\ Front(q) = Rootfs /\ IsPrefix(Rootfs, q)
    <3>1. Proper(q)
      BY <2>1, ProperNext
    <3>2. Rootfs \in Seq(Names) /\ q \in Path /\ Front(q) = Rootfs
      BY <2>1, AppendFacts DEF Proper, Path
    <3> QED BY <3>1, <3>2 DEF IsPrefix
  <2> HIDE DEF q
  <2>4. fs' \in mkdirAll(fs, q) \cup mkdirSome(fs, q) /\ mounts' = mounts
    BY <1>3, <2>2 DEF configureInit, config, q
  <2>5. Grown(fs, fs')
    BY <1>1, <2>3, <2>4, MkdirAllSteps, SomeMade
  <2>6. LinkFree(fs, Rootfs)
    <3>1. Rootfs \in DOMAIN fs /\ ~ IsA(fs, Rootfs, "link")
      BY <1>1 DEF IsFileSystem, IsA
    <3> QED BY <1>1, <3>1, AboveIsDir
  <2>7. DOMAIN fs' \subseteq DOMAIN fs \cup Above(q)
    BY <1>1, <2>3, <2>4, <2>6, MkdirAllStays, SomeMade
  <2> QED BY <1>0, <1>2, <2>3, <2>4, <2>5, <2>7, Zenon DEF FilesInv
<1>4. CASE ConfigureMount /\ ~(fs' = fs /\ mounts' = mounts)
  <2>0. PICK k : k = Len(mounts) + 1
    OBVIOUS
  <2> DEFINE dst  == AllMounts[k].dst
             ms   == Converted(AllMounts[k])
             kind == IF ms.source = "file" THEN "file" ELSE "dir"
             dest == resolveMountDestination(fs, dst)
  <2>1. PICK S : mounts \in Seq(S)
    BY DEF ConfigureInv, MountsInv
  <2>2. Len(mounts) < Len(AllMounts) /\ Len(mounts) \in Nat /\ DOMAIN mounts = 1 .. Len(mounts)
    BY <1>4, <2>1 DEF ConfigureMount
  <2>3. k \in 1 .. Len(AllMounts)
    BY <1>0, <2>0, <2>2, MountsNumber
  <2>4. dst \in Path
    BY <1>0, <2>3, DestinationPaths
  <2>5. ms.dst = dst
    BY DEF Converted
  <2>6. /\ HasPrefix(dest, Rootfs)
        /\ \/ /\ fs' \in createMountDestination(fs, ms, dest)
              /\ mounts' = Append(mounts, [dest |-> dest, create |-> kind])
           \/ /\ fs' \in createSomeOfMountDestination(fs, ms, dest) \cup createMountDestination(fs, ms, dest)
              /\ mounts' = mounts
    <3> HIDE DEF ms
    <3> QED BY <1>4, <2>0, <2>5, Zenon DEF ConfigureMount, Entry, ms
  <2> HIDE DEF dst, ms, dest, kind
  <2>7. ASSUME mounts' = Append(mounts, [dest |-> dest, create |-> kind])
        PROVE  /\ DOMAIN mounts' = DOMAIN mounts \cup {k} /\ mounts'[k] = [dest |-> dest, create |-> kind]
               /\ mounts'[k].dest = dest /\ mounts'[k].create = kind
               /\ \A n \in DOMAIN mounts : mounts'[n] = mounts[n]
    <3>1. /\ DOMAIN mounts' = DOMAIN mounts \cup {k} /\ mounts'[k] = [dest |-> dest, create |-> kind]
          /\ \A n \in DOMAIN mounts : mounts'[n] = mounts[n]
      BY <2>0, <2>1, <2>2, <2>7
    <3> QED BY <3>1
  <2>9. Proper(dest) /\ dest \in Path
    BY <1>1, <2>4, DestinationProper DEF dest, Proper
  <2>10. /\ Grown(fs, fs')
         /\ LinkFree(fs, dest) =>
              /\ DOMAIN fs' \subseteq DOMAIN fs \cup Above(dest)
              /\ fs' \in createMountDestination(fs, ms, dest) => IsA(fs', dest, kind)
    BY <1>1, <2>6, <2>9, DestinationMade, SomeDestinationMade DEF kind
  <2>11. ASSUME Plain(spec.rootfs), Proper(dst)
         PROVE  /\ LinkFree(fs, dest) /\ IsPrefix(Rootfs, dest)
                /\ Len(dst) <= MaxLinks => dest = InContainer(spec.rootfs, dst)
    <3>1. Plain(fs) /\ InContainer(fs, dst) = InContainer(spec.rootfs, dst)
      BY <1>0, <1>1, <2>4, <2>11, PlainGrown
    <3>2. /\ LinkFree(fs, dest) /\ IsPrefix(Rootfs, dest)
          /\ Len(dst) <= MaxLinks => dest = InContainer(fs, dst)
      BY <1>1, <2>11, <3>1, PlainDestination DEF dest
    <3> QED BY <3>1, <3>2
  <2>12. ASSUME fs' \in createMountDestination(fs, ms, dest),
                mounts' = Append(mounts, [dest |-> dest, create |-> kind])
         PROVE  MountPlaced(k)'
    <3> SUFFICES ASSUME Plain(spec.rootfs), Proper(dst), Len(dst) <= MaxLinks
                 PROVE  dest = InContainer(spec.rootfs, dst) /\ IsA(fs', dest, kind)
      BY <1>0, <2>7, <2>12, Zenon DEF MountPlaced, dst
    <3> QED BY <2>10, <2>11, <2>12
\* A destination that leads up is refused unless it is in the rootfs.
  <2>13. Known => \E q \in Path : IsPrefix(Rootfs, q) /\ DOMAIN fs' \subseteq DOMAIN fs \cup Above(q)
    <3> SUFFICES ASSUME Known PROVE LinkFree(fs, dest) /\ IsPrefix(Rootfs, dest)
      BY <2>9, <2>10, Zenon
    <3>1. k \in DOMAIN AllMounts
      BY <1>0, <2>3, MountsNumber
    <3>2. Plain(spec.rootfs) /\ UpAtFirst(dst)
      BY <3>1, Zenon DEF Known, dst
    <3>3. PICK j \in 0 .. Len(dst) :
            \A n \in DOMAIN dst : /\ n <= j <=> dst[n] = ".."
                                  /\ j > 0 => <<dst[n], Last(Rootfs)>> \notin Longer
      BY <3>2, Zenon DEF UpAtFirst
    <3>4. CASE j = 0
      <4>1. \A n \in DOMAIN dst : dst[n] # ".."
        <5>1. \A n \in DOMAIN dst : ~ (n <= 0)
          BY <2>4 DEF Path
        <5> QED BY <3>3, <3>4, <5>1
      <4>2. Proper(dst)
        BY <2>4, <4>1, Zenon DEF Proper
      <4> QED BY <2>11, <3>2, <4>2
    <3>5. CASE j # 0
      <4>1. j > 0
        BY <3>5, <2>4 DEF Path
      <4>2. \A n \in DOMAIN dst : (n <= j <=> dst[n] = "..") /\ <<dst[n], Last(Rootfs)>> \notin Longer
        BY <3>3, <4>1
      <4>3. Plain(fs)
        BY <1>0, <1>1, <2>4, <3>2, PlainGrown
      <4>4. HasPrefix(resolveMountDestination(fs, dst), Rootfs)
        BY <2>6, Zenon DEF dest
      <4> QED BY <1>1, <2>4, <4>2, <4>3, <4>4, UpDestination DEF dest
    <3> QED BY <3>4, <3>5
  <2>14. Grown(spec.rootfs, fs')  /\ MadeInRootfs'
    BY <1>2, <2>10, <2>13
  <2>15. CASE mounts' = mounts
    BY <1>0, <1>2, <2>10, <2>13, <2>15, Zenon DEF FilesInv
  <2>16. CASE mounts' # mounts
    <3>1. \A n \in DOMAIN mounts : MountPlaced(n)'
      BY <1>2, <2>6, <2>7, <2>10, <2>13, <2>16, Zenon
    <3>2. MountPlaced(k)' /\ DOMAIN mounts' = DOMAIN mounts \cup {k}
      BY <2>6, <2>7, <2>12, <2>16, Zenon
    <3>3. \A n \in DOMAIN mounts' : n \in DOMAIN mounts \/ n = k
      BY <3>2
    <3> QED BY <1>0, <2>14, <3>1, <3>2, <3>3, Zenon DEF FilesInv
  <2> QED BY <2>15, <2>16
<1>5. CASE Delete
  <2>1. fs' = fs /\ mounts' = <<>>
    BY <1>5 DEF Delete, NoConfig
  <2>2. DOMAIN mounts' = {}
    BY <2>1
  <2> QED BY <1>0, <2>1, <2>2, Zenon DEF FilesInv, MadeInRootfs
<1>6. CASE fs' = fs /\ mounts' = mounts
  BY <1>0, <1>6, Zenon DEF FilesInv, MountPlaced, MadeInRootfs
<1>7. \/ fs' = fs /\ mounts' = mounts
      \/ configureInit \/ Delete
      \/ ConfigureMount /\ ~(fs' = fs /\ mounts' = mounts)
  BY DEF Next, vars, config, Create, createContainer, MountsDone,
         configureNamespaces, writeSeccompProfile, ensureDefaultDevices, writeDevices,
         configureDeviceController, runStartCmd, OpenPidFile, WritePidFile, RenamePidFile,
         Exec, Fails, Ended
<1> QED BY <1>3, <1>4, <1>5, <1>6, <1>7

LEMMA NamespacesKept ==
  ASSUME ConfigureInv, [Next]_vars
  PROVE  NamespacesInv'
<1> USE DEF ConfigureInv, StepInv, NamespacesInv, Informed, Placed, Launched, Goto
<1>1. CASE createContainer
  BY <1>1, InputStays DEF createContainer, input
<1>2. CASE configureNamespaces
  <2>1. CASE pc' = "failed" /\ UNCHANGED <<share, keep>>
    BY <1>2, <2>1, InputStays DEF configureNamespaces
  <2>2. CASE pc' = "seccomp"
    <3>1. /\ pc = "namespaces" /\ info' = info /\ attached' = attached
          /\ keep' = Namespaces \ Types(spec.namespaces)
      BY <1>2, <2>2, Zenon DEF configureNamespaces
    <3>2. share' \subseteq Namespaces
      BY <1>2, <2>2 DEF configureNamespaces
    <3>3. Types(spec.namespaces)' = Types(spec.namespaces)
      BY InputStays DEF Types
    <3> QED BY <2>2, <3>1, <3>2, <3>3, InputStays
  <2> QED BY <1>2, <2>1, <2>2 DEF configureNamespaces
<1>3. CASE Exec
  <2>1. Types(info)' = Types(info) /\ Types(spec.namespaces)' = Types(spec.namespaces)
    BY <1>3, InputStays DEF Exec, Types
  <2> QED BY <1>3, <2>1, InputStays DEF Exec
<1>4. CASE Delete
  BY <1>4 DEF Delete, NoConfig
<1>5. CASE UNCHANGED nsItems /\ (pc' = pc \/ attached = <<>>)
           /\ (pc' \in Informed => pc \in Informed) /\ (pc' \in Placed => pc \in Placed)
  <2>1. Types(info)' = Types(info) /\ Types(spec.namespaces)' = Types(spec.namespaces)
    BY <1>5, InputStays DEF nsItems, Types
  <2> QED BY <1>5, <2>1, InputStays DEF nsItems
<1>6. \/ createContainer \/ configureNamespaces \/ Exec \/ Delete
      \/ UNCHANGED nsItems /\ (pc' = pc \/ attached = <<>>)
         /\ (pc' \in Informed => pc \in Informed) /\ (pc' \in Placed => pc \in Placed)
  BY DEF Next, vars, nsItems, config, Create, configureInit, ConfigureMount, MountsDone,
         writeSeccompProfile, ensureDefaultDevices, writeDevices, configureDeviceController,
         runStartCmd, OpenPidFile, WritePidFile, RenamePidFile, Fails, Ended
<1> QED BY <1>1, <1>2, <1>3, <1>4, <1>5, <1>6

\* configureDeviceController writes rules that lxc takes.
LEMMA WrittenRules ==
  ASSUME InputInv, \A n \in DOMAIN AllRules : AllRules[n].type \in {anyDevice, "b", "c"}
  PROVE  FlattenSeq([n \in DOMAIN AllRules |-> Decompose(AllRules[n])]) \in Seq(Typed)
<1> DEFINE ss == [n \in DOMAIN AllRules |-> Decompose(AllRules[n])]
           N  == Len(AllRules)
<1>1. AllRules \in Seq(AnyRule)
  BY AddedRules
<1>2. N \in Nat /\ DOMAIN AllRules = 1 .. N /\ \A n \in 1 .. N : AllRules[n] \in AnyRule
  BY <1>1, Element
<1>3. \A n \in 1 .. N : Decompose(AllRules[n]) \in Seq(Typed)
  <2>1. \A r \in AnyRule : r.type \in {anyDevice, "b", "c"} => Decompose(r) \in Seq(Typed)
    <3> DEFINE d == Device(Nil, 1, 3)
    <3>1. d.type \in {"b", "c"}
      BY DEF Device
    <3> HIDE DEF d
    <3> QED BY <3>1, DecomposedRule
  <2> QED BY <1>2, <2>1, Zenon
<1>4. ss \in [1 .. N -> Seq(Typed)]
  BY <1>2, <1>3, Zenon
<1> HIDE DEF ss, N
<1>5. ss \in Seq(Seq(Typed))
  BY <1>2, <1>4, FunctionIsSeq
<1>6. FlattenSeq(ss) \in Seq(Typed)
  BY <1>5, FlattenElements
<1> QED BY <1>6 DEF ss

LEMMA DevicesKept ==
  ASSUME ConfigureInv, [Next]_vars
  PROVE  DevicesInv'
<1> DEFINE Known   == \A n \in DOMAIN AllRules : AllRules[n].type \in {anyDevice, "b", "c"}
           Written == FlattenSeq([n \in DOMAIN AllRules |-> Decompose(AllRules[n])])
<1>0. Known' = Known /\ Written' = Written
  BY InputStays, Zenon
<1> HIDE DEF Known, Written
<1>1. /\ rules \in Seq(Typed)
      /\ \A n \in DOMAIN devices : devices[n].gid # Nil
      /\ pc \in Launched /\ flags["cgroup-devices"] => Known /\ rules = Written
  BY Zenon DEF ConfigureInv, DevicesInv, Known, Written
<1> SUFFICES /\ rules' \in Seq(Typed)
             /\ \A n \in DOMAIN devices' : devices'[n].gid # Nil
             /\ pc' \in Launched /\ flags'["cgroup-devices"] => Known /\ rules' = Written
  BY <1>0, Zenon DEF DevicesInv, Known, Written
<1>2. CASE writeDevices
  <2>1. rules' = rules /\ flags' = flags /\ pc' \notin Launched
    BY <1>2 DEF writeDevices, input, Launched
  <2>2. CASE devices' = devices
    BY <1>1, <2>1, <2>2, Zenon
  <2>3. CASE devices' = [n \in DOMAIN AllDevices |-> [AllDevices[n] EXCEPT !.gid = 0]]
    <3>1. 0 # Nil
      BY ConfigureAssumption
    <3>2. \A n \in DOMAIN AllDevices : [AllDevices[n] EXCEPT !.gid = 0].gid = 0
      <4> DEFINE S == DeviceType \cup Range(DefaultDevices)
      <4>1. spec.devices \in Seq(DeviceType) /\ Missing \in Seq(Range(DefaultDevices))
        BY InputsAssumption, MissingType DEF ConfigureInv, InputInv
      <4>2. AllDevices \in Seq(S)
        <5>1. \A A, B : \A a \in Seq(A), b \in Seq(B) : a \o b \in Seq(A \cup B)
          OBVIOUS
        <5> QED BY <4>1, <5>1, Zenon DEF AllDevices
      <4>3. \A n \in DOMAIN AllDevices : AllDevices[n] \in S
        BY <4>2, Element
      <4>4. \A x \in DeviceType : [x EXCEPT !.gid = 0].gid = 0
        BY DEF DeviceType
      <4>5. \A x \in Range(DefaultDevices) : [x EXCEPT !.gid = 0].gid = 0
        BY DefaultDevice
      <4> QED BY <4>3, <4>4, <4>5, Zenon
    <3>3. \A n \in DOMAIN devices' : devices'[n].gid = 0
      BY <2>3, <3>2, Zenon
    <3> QED BY <1>1, <2>1, <3>1, <3>3, Zenon
  <2> QED BY <1>2, <2>2, <2>3 DEF writeDevices
<1>3. CASE configureDeviceController
  <2>1. devices' = devices /\ flags' = flags
    BY <1>3 DEF configureDeviceController, input
  <2>2. CASE ~flags["cgroup-devices"] /\ rules' = rules
    BY <1>1, <2>1, <2>2, Zenon
  <2>3. CASE Known /\ rules' = Written
    <3>1. rules' \in Seq(Typed)
      BY <2>3, WrittenRules DEF ConfigureInv, Known, Written
    <3> QED BY <1>1, <2>1, <2>3, <3>1, Zenon
  <2>4. CASE pc' = "failed" /\ rules' = rules
    <3>1. pc' \notin Launched
      BY <2>4 DEF Launched
    <3> QED BY <1>1, <2>1, <2>4, <3>1, Zenon
  <2> QED BY <1>3, <2>2, <2>3, <2>4, Zenon DEF configureDeviceController, Known, Written
<1>4. CASE Delete
  <2>1. rules' = <<>> /\ devices' = <<>> /\ pc' \notin Launched
    BY <1>4 DEF Delete, NoConfig, Launched
  <2>2. <<>> \in Seq(Typed) /\ DOMAIN <<>> = {}
    OBVIOUS
  <2> QED BY <2>1, <2>2, Zenon
<1>5. CASE Create
  <2>1. rules' = rules /\ devices' = devices /\ pc' \notin Launched
    BY <1>5 DEF Create, config, devItems, Launched
  <2> QED BY <1>1, <2>1, Zenon
<1>6. CASE UNCHANGED <<rules, devices, flags>> /\ (pc' \in Launched => pc \in Launched)
  BY <1>1, <1>6, Zenon
<1>7. \/ writeDevices \/ configureDeviceController \/ Delete \/ Create
      \/ UNCHANGED <<rules, devices, flags>> /\ (pc' \in Launched => pc \in Launched)
  BY DEF Launched, Goto, Next, vars, input, devItems, config, createContainer, configureInit,
         ConfigureMount, MountsDone, configureNamespaces, writeSeccompProfile,
         ensureDefaultDevices, runStartCmd, OpenPidFile, WritePidFile, RenamePidFile, Exec,
         Fails, Ended
<1> QED BY <1>2, <1>3, <1>4, <1>5, <1>6, <1>7

LEMMA ProfileKept ==
  ASSUME ConfigureInv, [Next]_vars
  PROVE  ProfileInv'
<1>1. CASE writeSeccompProfile
  <2>1. profile' = profile \/ profile' = <<Profile>>
    BY <1>1, Zenon DEF writeSeccompProfile, Profile, Lines
  <2> QED BY <2>1, InputStays, Zenon DEF ConfigureInv, ProfileInv
<1>2. profile' = profile \/ profile' = <<>> \/ writeSeccompProfile
  BY DEF Next, vars, config, Create, createContainer, configureInit, ConfigureMount, MountsDone,
         configureNamespaces, ensureDefaultDevices, writeDevices, configureDeviceController,
         runStartCmd, OpenPidFile, WritePidFile, RenamePidFile, Exec, Fails, Delete, NoConfig,
         Ended
<1> QED BY <1>1, <1>2, InputStays, Zenon DEF ConfigureInv, ProfileInv

LEMMA PidKept ==
  ASSUME ConfigureInv, [Next]_vars
  PROVE  PidInv'
<1> USE DEF ConfigureInv, StepInv, PidInv, TempMeansDied, NoFile, Empty, Goto
<1>0. creates \in Nat /\ died \in BOOLEAN
  BY ConfigureAssumption
<1>1. CASE Create
  <2>1. 1 .. creates \subseteq 1 .. creates'
    BY <1>0, <1>1 DEF Create
  <2> QED BY <1>1, <2>1 DEF Create, pid
<1>2. CASE OpenPidFile
  BY <1>2 DEF OpenPidFile, input
<1>3. CASE WritePidFile
  BY <1>0, <1>3 DEF WritePidFile, input
<1>4. CASE RenamePidFile
  BY <1>0, <1>4 DEF RenamePidFile, input
<1>5. CASE Fails
  BY <1>5 DEF Fails, input
<1>6. CASE UNCHANGED <<tmp, pidfile, died, creates>> /\ pc' \notin {"rename", "created"}
           /\ pc \notin {"pid", "rename"}
  BY <1>6
<1>7. CASE UNCHANGED <<tmp, pidfile, died, creates, pc>>
  BY <1>7
<1>8. \/ Create \/ OpenPidFile \/ WritePidFile \/ RenamePidFile \/ Fails
      \/ UNCHANGED <<tmp, pidfile, died, creates, pc>>
      \/ UNCHANGED <<tmp, pidfile, died, creates>> /\ pc' \notin {"rename", "created"}
         /\ pc \notin {"pid", "rename"}
  BY DEF Next, vars, input, pid, createContainer, configureInit, ConfigureMount, MountsDone,
         configureNamespaces, writeSeccompProfile, ensureDefaultDevices, writeDevices,
         configureDeviceController, runStartCmd, Exec, Delete, Ended
<1> QED BY <1>1, <1>2, <1>3, <1>4, <1>5, <1>6, <1>7, <1>8

\* ConfigureInv holds in every reachable state.
THEOREM ConfigureInvariance == Spec => []ConfigureInv
<1>1. ConfigureInv /\ [Next]_vars => ConfigureInv'
  BY StepsKept, FlagsKept, MountsKept, FilesKept, NamespacesKept, DevicesKept, ProfileKept, PidKept
     DEF ConfigureInv
<1> QED BY <1>1, InitConfigureInv, PTL DEF Spec

-----------------------------------------------------------------------------
(***************************************************************************)
(* The properties                                                          *)
(***************************************************************************)

\* Every variable keeps its type; the rules that reach lxc are for block or character
\* devices, and every device has a group.
THEOREM ConfigureTypes == Spec => []ConfigureTypeOK
<1>1. ConfigureInv => ConfigureTypeOK
  <2> SUFFICES ASSUME ConfigureInv PROVE ConfigureTypeOK
    OBVIOUS
  <2>1. pc \in {"idle", "info", "init", "mounts", "namespaces", "devices", "write", "cgroup",
                "seccomp", "launch", "open", "pid", "rename", "created", "failed"}
    BY DEF ConfigureInv, StepInv, Informed, Placed, Launched
  <2>2. \A n \in DOMAIN rules : rules[n].type \in {"b", "c"}
    <3>1. \A n \in DOMAIN rules : rules[n] \in Typed
      BY Element DEF ConfigureInv, DevicesInv
    <3> QED BY <3>1, Zenon DEF Typed
  <2>3. /\ tmp \in {NoFile, Empty} \cup {<<n>> : n \in 1 .. creates}
        /\ pidfile \in {NoFile, Empty} \cup {<<n>> : n \in 1 .. creates}
    BY Zenon DEF ConfigureInv, PidInv
  <2> QED BY <2>1, <2>2, <2>3, Zenon
         DEF ConfigureTypeOK, ConfigureInv, StepInv, FlagsInv, MountsInv, NamespacesInv,
             DevicesInv, PidInv
<1> QED BY <1>1, ConfigureInvariance, PTL

\* Every mount of the config is where the container's processes find its destination, and
\* there is a file or directory for it: for any image whose links are plain, any number of
\* mounts and of creates, and whatever the earlier mounts made in the rootfs.
THEOREM MountsAsInContainerHolds == Spec => []MountsAsInContainer
<1>1. ConfigureInv => MountsAsInContainer
  <2> SUFFICES ASSUME ConfigureInv, Plain(spec.rootfs), NEW n \in DOMAIN mounts,
                      ".." \notin Range(AllMounts[n].dst), Len(AllMounts[n].dst) <= MaxLinks
               PROVE  /\ mounts[n].dest = InContainer(fs, AllMounts[n].dst)
                      /\ IsA(fs, mounts[n].dest, mounts[n].create)
    BY Zenon DEF MountsAsInContainer
  <2> DEFINE dst == AllMounts[n].dst
  <2>1. /\ InputInv /\ Grown(spec.rootfs, fs) /\ IsFileSystem(spec.rootfs) /\ MountPlaced(n)
    BY InputsAssumption DEF ConfigureInv, FilesInv, InputInv
  <2>2. n \in 1 .. Len(AllMounts)
    <3>1. PICK S : mounts \in Seq(S)
      BY DEF ConfigureInv, MountsInv
    <3>2. Len(mounts) <= Len(AllMounts) /\ Len(AllMounts) \in Nat
      BY <2>1, MountsNumber DEF ConfigureInv, MountsInv
    <3> QED BY <3>1, <3>2
  <2>3. dst \in Path
    BY <2>1, <2>2, DestinationPaths
  <2>4. Proper(dst)
    BY <2>3, Zenon DEF Proper, Range
  <2>5. InContainer(fs, dst) = InContainer(spec.rootfs, dst)
    BY <2>1, <2>3, PlainGrown
  <2> QED BY <2>1, <2>4, <2>5, Zenon DEF MountPlaced
<1> QED BY <1>1, ConfigureInvariance, PTL

\* The directories and files that create makes for mounts are in the rootfs, whichever
\* plain links the image and the rest of the file system have, wherever a create fails, and
\* also when destinations lead out of the rootfs: those are refused.
THEOREM MadeInRootfsHolds == Spec => []MadeInRootfs
<1>1. ConfigureInv => MadeInRootfs
  BY DEF ConfigureInv, FilesInv
<1> QED BY <1>1, ConfigureInvariance, PTL

\* A process that exec starts is in exactly the namespaces of the container that are not
\* inherited, for any list of namespaces.
THEOREM ExecSharesNamespacesHolds == Spec => []ExecSharesNamespaces
<1>1. ConfigureInv => ExecSharesNamespaces
  BY DEF ConfigureInv, NamespacesInv, ExecSharesNamespaces, Informed, Placed, Launched
<1> QED BY <1>1, ConfigureInvariance, PTL

\* The features that create uses are those of the flag, the environment, the environment
\* file and the default, in this order, for any number of definitions in the file.
THEOREM FlagsByPrecedenceHolds == Spec => []FlagsByPrecedence
<1>1. ConfigureInv => FlagsByPrecedence
  <2> SUFFICES ASSUME ConfigureInv, pc # "idle", NEW f \in Flags
               PROVE  \E n \in DOMAIN Given(f) :
                        /\ flags[f] = Meant(Given(f)[n]) /\ Given(f)[n] # Nil
                        /\ \A m \in 1 .. n - 1 : Given(f)[m] = Nil
    BY Zenon DEF FlagsByPrecedence, Given, Meant
  <2>1. flags[f] = FlagValue(f) /\ ~Unusable
    BY Zenon DEF ConfigureInv, FlagsInv
  <2> QED BY <2>1, FirstGiven DEF ConfigureInv
<1> QED BY <1>1, ConfigureInvariance, PTL

\* The profile has one section and decides about a call as the spec does, for any number
\* of rules and names.
THEOREM SeccompAsSpecifiedHolds == Spec => []SeccompAsSpecified
<1>1. ConfigureInv => SeccompAsSpecified
  <2> SUFFICES ASSUME ConfigureInv, profile # <<>>, Trimmed[spec.native] = spec.native,
                      spec.archs = <<>> \/ spec.native \in Range(spec.archs),
                      \A n \in DOMAIN spec.syscalls : Len(spec.syscalls[n].args) <= 1
               PROVE  /\ profile[1].sections = <<spec.native>>
                      /\ \A name \in UNION {Range(sc.names) : sc \in Range(spec.syscalls)},
                            val \in {0, 1} : ByLines(profile[1], name, val) = BySpec(name, val)
    BY Zenon DEF SeccompAsSpecified
  <2>1. profile[1] = Profile
    <3>1. profile = <<Profile>>
      BY Zenon DEF ConfigureInv, ProfileInv
    <3>2. \A x : <<x>>[1] = x
      OBVIOUS
    <3> QED BY <3>1, <3>2, Zenon
  <2>2. seccompArchs = <<spec.native>>
    <3>1. spec.archs = <<>> \/ \E n \in DOMAIN spec.archs : Trimmed[spec.archs[n]] = spec.native
      BY Zenon DEF Range
    <3> QED BY <3>1, Zenon DEF seccompArchs
  <2>3. /\ Profile.sections = seccompArchs /\ Profile.lines = Lines
        /\ Profile.default = spec.action
    BY Zenon DEF Profile
  <2>4. ASSUME NEW sc \in Range(spec.syscalls), NEW name \in Range(sc.names) PROVE name \in STRING
    <3>1. spec.syscalls \in Seq(SyscallType)
      BY InputsAssumption DEF ConfigureInv, InputInv
    <3>2. \A n \in DOMAIN spec.syscalls : spec.syscalls[n] \in SyscallType
      BY <3>1, Element
    <3>3. sc.names \in Seq(STRING)
      BY <3>2, Zenon DEF Range, SyscallType
    <3>4. \A n \in DOMAIN sc.names : sc.names[n] \in STRING
      BY <3>3, Element
    <3> QED BY <3>4, Zenon DEF Range
  <2>5. ASSUME NEW name \in STRING, NEW val \in {0, 1}
        PROVE  ByLines(Profile, name, val) = BySpec(name, val)
    <3>1. val \in Nat
      OBVIOUS
    <3> QED BY <2>3, <3>1, LinesDecide DEF ConfigureInv
  <2> QED BY <2>1, <2>2, <2>3, <2>4, <2>5, Zenon
<1> QED BY <1>1, ConfigureInvariance, PTL

\* The device controller is given a list that only allows, and this allows what the spec
\* and the default devices allow, and nothing else: for any list of rules that denies, if
\* at all, all devices at its head.
THEOREM DevicesAsSpecifiedHolds == Spec => []DevicesAsSpecified
<1>1. ConfigureInv => DevicesAsSpecified
  <2> DEFINE Denying == \A n \in DOMAIN spec.rules :
                          spec.rules[n].allow \/ (n = 1 /\ spec.rules[n].type = anyDevice)
  <2> SUFFICES ASSUME ConfigureInv, pc \in {"launch", "created"}, flags["cgroup-devices"], Denying
               PROVE  /\ \A n \in DOMAIN rules : rules[n].allow
                      /\ \A d \in SampleDevices :
                           Allowed(rules, d) <=>
                             \/ Allowed(spec.rules, d)
                             \/ d.type = "c" /\ <<d.major, d.minor>> = <<5, 2>>
                             \/ \E n \in DOMAIN Missing : Matches(Missing[n], d)
    BY Zenon DEF DevicesAsSpecified
  <2>1. \A d \in SampleDevices : /\ d.type \in {"b", "c"} /\ d.major \in Int /\ d.minor \in Int
                                 /\ d.major # 88
    <3> TAKE d \in SampleDevices
    <3>1. CASE d = [Device(Nil, 1, 3) EXCEPT !.type = "b"]
      BY <3>1 DEF Device
    <3>2. CASE \E major \in {1, 5, 10}, minor \in 0 .. 9 : d = Device(Nil, major, minor)
      BY <3>2 DEF Device
    <3> QED BY <3>1, <3>2 DEF SampleDevices
  <2>2. InputInv
    BY DEF ConfigureInv
  <2>3. /\ \A n \in DOMAIN AllRules : AllRules[n].type \in {anyDevice, "b", "c"}
        /\ rules = FlattenSeq([n \in DOMAIN AllRules |-> Decompose(AllRules[n])])
    <3>1. pc \in Launched
      BY DEF Launched
    <3> QED BY <3>1, Zenon DEF ConfigureInv, DevicesInv
  <2>4. /\ AllRules \in Seq(AnyRule)
        /\ \A n \in DOMAIN AllRules : AllRules[n].allow \/ AllRules[n] \in Range(spec.rules)
        /\ \A d : Allowed(AllRules, d) <=>
              \/ Allowed(spec.rules, d)
              \/ Matches(Rule(TRUE, "c", 5, 2), d) \/ Matches(Rule(TRUE, "c", 88, Nil), d)
              \/ \E n \in DOMAIN Missing : Matches(Missing[n], d)
    BY <2>2, AddedRules
  <2>5. \A n \in DOMAIN AllRules : AllRules[n].allow \/ AllRules[n].type = anyDevice
    BY <2>4, Zenon DEF Range
  <2>6. ASSUME NEW d, d.type \in {"b", "c"}
        PROVE  /\ Allowed(rules, d) <=> Allowed(AllRules, d)
               /\ \A n \in DOMAIN rules : rules[n].allow
    BY <2>3, <2>4, <2>5, <2>6, DecomposedRules
  <2>7. ASSUME NEW d \in SampleDevices
        PROVE  /\ Matches(Rule(TRUE, "c", 5, 2), d)
                    <=> d.type = "c" /\ <<d.major, d.minor>> = <<5, 2>>
               /\ ~Matches(Rule(TRUE, "c", 88, Nil), d)
    <3>1. "c" # anyDevice /\ 5 # Nil /\ 2 # Nil /\ 88 # Nil
      BY AnyDevice, ConfigureAssumption
    <3> QED BY <2>1, <3>1 DEF Matches, Rule
  <2>8. \A n \in DOMAIN rules : rules[n].allow
    <3> DEFINE d == Device(Nil, 1, 3)
    <3>1. d.type \in {"b", "c"}
      BY DEF Device
    <3> HIDE DEF d
    <3> QED BY <2>6, <3>1
  <2> HIDE DEF Denying
  <2>9. ASSUME NEW d \in SampleDevices
        PROVE  Allowed(rules, d) <=>
                 \/ Allowed(spec.rules, d)
                 \/ d.type = "c" /\ <<d.major, d.minor>> = <<5, 2>>
                 \/ \E n \in DOMAIN Missing : Matches(Missing[n], d)
    <3>1. Allowed(rules, d) <=> Allowed(AllRules, d)
      BY <2>1, <2>6
    <3> QED BY <2>4, <2>7, <3>1, Zenon
  <2> QED BY <2>8, <2>9
<1> QED BY <1>1, ConfigureInvariance, PTL

\* A reader of the pid file never finds an empty one, and after a successful create that
\* of the create's own monitor, however often creates before it were aborted.
THEOREM PidFileWholeHolds == Spec => []PidFileWhole
<1>1. ConfigureInv => PidFileWhole
  BY ConfigureAssumption DEF ConfigureInv, StepInv, PidInv, PidFileWhole, Empty, NoFile
<1> QED BY <1>1, ConfigureInvariance, PTL

\* A create finds a temporary pid file only if an earlier one ended within CreatePidFile.
THEOREM TempMeansDiedHolds == Spec => []TempMeansDied
<1>1. ConfigureInv => TempMeansDied
  BY DEF ConfigureInv, PidInv
<1> QED BY <1>1, ConfigureInvariance, PTL

=============================================================================

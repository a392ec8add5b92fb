---------------------------- MODULE StorageProofs ----------------------------
(***************************************************************************)
(* Proofs about Storage, for every set of components, every storage of the *)
(* kinds described there and every bound.  What is made of a single spec   *)
(* comes first: the lists of claims and the pods, which recursive          *)
(* functions compute, in closed form.  Then what follows for a spec that   *)
(* changes under reconciles that fail half way.                            *)
(***************************************************************************)
EXTENDS Storage, SequenceTheorems, FiniteSetTheorems, FunctionTheorems, TLAPS

(* Induction over the numbers up to a bound, and functions defined by it. *)

\* A set of numbers has a least element.
LEMMA LeastElement ==
  ASSUME NEW T \in SUBSET Nat, T # {}
  PROVE  \E x \in T : \A y \in T : x <= y
<1> DEFINE R == OpToRel(<, Nat)
<1>1. IsWellFoundedOn(R, Nat)
  BY NatLessThanWellFounded
<1>2. \A x, y \in Nat : x < y => <<x, y>> \in R
  BY DEF OpToRel
<1> HIDE DEF R
<1>3. PICK x \in T : \A y \in T : ~ (<<y, x>> \in R)
  BY <1>1, WFMin
<1>4. ASSUME NEW y \in T PROVE x <= y
  <2>1. x \in Nat /\ y \in Nat
    OBVIOUS
  <2>2. ~ (y < x)
    BY <1>2, <1>3, <1>4, <2>1
  <2> QED
    BY <2>1, <2>2
<1> QED
  BY <1>4

\* What holds of 0 and goes over from each number to the next holds up to the bound.
LEMMA InductionUpTo ==
  ASSUME NEW n \in Nat, NEW S, 0 \in S,
         \A k \in 1 .. n : k - 1 \in S => k \in S
  PROVE  \A k \in 0 .. n : k \in S
<1> DEFINE T == {k \in 0 .. n : k \notin S}
<1> SUFFICES ASSUME T # {} PROVE FALSE
  OBVIOUS
<1>1. T \in SUBSET Nat
  OBVIOUS
<1>2. PICK k \in T : \A j \in T : k <= j
  BY <1>1, LeastElement
<1>3. k \in 1 .. n
  BY <1>2
<1>4. k - 1 \notin T
  BY <1>2, <1>3
<1> QED
  BY <1>2, <1>3, <1>4

\* How a recursive function goes on: the next value, from its index and the last one.
Steps(n, T) == [(1 .. n) \X T -> T]
Follows(g, n, a, h) == g[0] = a /\ \A k \in 1 .. n : g[k] = h[<<k, g[k - 1]>>]

\* A function defined by recursion exists.
LEMMA Recursion ==
  ASSUME NEW n \in Nat, NEW T, NEW a \in T, NEW h \in Steps(n, T)
  PROVE  \E g \in [0 .. n -> T] : Follows(g, n, a, h)
<1> DEFINE Good(g, m) == g[0] = a /\ \A k \in 1 .. m : g[k] = h[<<k, g[k - 1]>>]
           S == {m \in 0 .. n : \E g \in [0 .. m -> T] : Good(g, m)}
<1>1. 0 \in S
  <2> DEFINE g == [k \in 0 .. 0 |-> a]
  <2>1. 0 \in 0 .. 0 /\ 0 \in 0 .. n
    OBVIOUS
  <2>2. g \in [0 .. 0 -> T]
    OBVIOUS
  <2>3. g[0] = a
    BY <2>1
  <2> HIDE DEF g
  <2>4. Good(g, 0)
    BY <2>3
  <2> QED
    BY <2>1, <2>2, <2>4
<1>2. ASSUME NEW m \in 1 .. n, m - 1 \in S PROVE m \in S
  <2>1. PICK g \in [0 .. m - 1 -> T] : Good(g, m - 1)
    BY <1>2
  <2> DEFINE next == h[<<m, g[m - 1]>>]
             f == [k \in 0 .. m |-> IF k = m THEN next ELSE g[k]]
  <2>2. m - 1 \in 0 .. m - 1
    OBVIOUS
  <2>3. next \in T
    BY <2>2 DEF Steps
  <2>4. \A k \in 0 .. m : k = m \/ k \in 0 .. m - 1
    OBVIOUS
  <2>5. f[m] = next /\ \A k \in 0 .. m - 1 : f[k] = g[k]
    OBVIOUS
  <2>6. f \in [0 .. m -> T]
    <3> HIDE DEF next
    <3>1. ASSUME NEW k \in 0 .. m PROVE (IF k = m THEN next ELSE g[k]) \in T
      BY <2>3, <2>4
    <3> QED
      BY <3>1
  <2> HIDE DEF f
  <2>7. ASSUME NEW k \in 1 .. m PROVE f[k] = h[<<k, f[k - 1]>>]
    <3>1. f[k - 1] = g[k - 1]
      BY <2>5
    <3>2. CASE k = m
      BY <2>5, <3>1, <3>2
    <3>3. CASE k \in 1 .. m - 1
      <4>1. f[k] = g[k]
        BY <2>5, <3>3
      <4> QED
        BY <2>1, <3>1, <3>3, <4>1
    <3> QED
      BY <3>2, <3>3
  <2>8. f[0] = a
    BY <2>1, <2>5
  <2> QED
    BY <2>6, <2>7, <2>8
<1> HIDE DEF S
<1>3. n \in S
  BY <1>1, <1>2, InductionUpTo
<1> QED
  BY <1>3 DEF S, Follows

-----------------------------------------------------------------------------
(* The lists of claims *)

\* A claim that is on a list at most once.
Once(list, x) == \A i, j \in 1 .. Len(list) : list[i] = x /\ list[j] = x => i = j

\* What appending a claim makes of a list.
LEMMA AppendIs ==
  ASSUME NEW S, NEW list \in Seq(S), NEW x \in S
  PROVE  /\ Append(list, x) \in Seq(S)
         /\ AllOf(Append(list, x)) = AllOf(list) \union {x}
         /\ \A y : y # x /\ Once(list, y) => Once(Append(list, x), y)
<1> DEFINE r == Append(list, x)
<1>1. /\ r \in Seq(S) /\ Len(r) = Len(list) + 1 /\ r[Len(list) + 1] = x
      /\ \A i \in 1 .. Len(list) : r[i] = list[i]
  BY AppendProperties
<1>2. Len(list) \in Nat
  BY LenProperties
<1> HIDE DEF r
<1>3. AllOf(r) = AllOf(list) \union {x}
  <2>1. \A i \in 1 .. Len(r) : i \in 1 .. Len(list) \/ i = Len(list) + 1
    BY <1>1, <1>2
  <2>2. \A i \in 1 .. Len(list) : i \in 1 .. Len(r)
    BY <1>1, <1>2
  <2>3. Len(list) + 1 \in 1 .. Len(r)
    BY <1>1, <1>2
  <2> QED
    BY <1>1, <2>1, <2>2, <2>3 DEF AllOf, UpTo
<1>4. ASSUME NEW y, y # x, Once(list, y) PROVE Once(r, y)
  BY <1>1, <1>2, <1>4 DEF Once
<1> QED
  BY <1>1, <1>3, <1>4 DEF r

\* A list without one of its positions.
LEMMA RemoveAtIs ==
  ASSUME NEW S, NEW list \in Seq(S), NEW k \in 1 .. Len(list)
  PROVE  /\ RemoveAt(list, k) \in Seq(S)
         /\ Len(RemoveAt(list, k)) = Len(list) - 1
         /\ \A i \in 1 .. Len(list) - 1 :
               RemoveAt(list, k)[i] = IF i < k THEN list[i] ELSE list[i + 1]
<1> DEFINE a == SubSeq(list, 1, k - 1)
           b == SubSeq(list, k + 1, Len(list))
<1>1. Len(list) \in Nat /\ \A i \in 1 .. Len(list) : list[i] \in S
  BY LenProperties, ElementOfSeq
<1>2. a \in Seq(S) /\ Len(a) = k - 1 /\ \A i \in 1 .. k - 1 : a[i] = list[i]
  BY <1>1, SubSeqProperties
<1>3. /\ b \in Seq(S) /\ Len(b) = Len(list) - k
      /\ \A i \in 1 .. Len(list) - k : b[i] = list[k + i]
  BY <1>1, SubSeqProperties
<1> HIDE DEF a, b
<1>4. /\ a \o b \in Seq(S) /\ Len(a \o b) = Len(list) - 1
      /\ \A i \in 1 .. Len(list) - 1 : (a \o b)[i] = IF i <= k - 1 THEN a[i] ELSE b[i - (k - 1)]
  BY <1>1, <1>2, <1>3, ConcatProperties
<1>5. ASSUME NEW i \in 1 .. Len(list) - 1
      PROVE  (a \o b)[i] = IF i < k THEN list[i] ELSE list[i + 1]
  <2>1. CASE i < k
    BY <1>1, <1>2, <1>4, <2>1
  <2>2. CASE ~ (i < k)
    <3> DEFINE j == i - (k - 1)
    <3>1. j \in 1 .. Len(list) - k /\ k + j = i + 1 /\ ~ (i <= k - 1)
      BY <1>1, <2>2
    <3>2. (a \o b)[i] = b[j]
      BY <1>4, <3>1
    <3> HIDE DEF j
    <3>3. b[j] = list[i + 1]
      BY <1>3, <3>1
    <3> QED
      BY <2>2, <3>2, <3>3
  <2> QED
    BY <2>1, <2>2
<1> QED
  BY <1>4, <1>5 DEF RemoveAt, a, b

\* Deleting a claim that is on a list once takes it off, and the others stay.
LEMMA DeleteIs ==
  ASSUME NEW S, NEW list \in Seq(S), NEW x, Once(list, x)
  PROVE  /\ DeleteWhileRanging(list, x) \in Seq(S)
         /\ AllOf(DeleteWhileRanging(list, x)) = AllOf(list) \ {x}
         /\ \A y : Once(list, y) => Once(DeleteWhileRanging(list, x), y)
<1> DEFINE at == {i \in DOMAIN list : list[i] = x}
<1>1. DOMAIN list = 1 .. Len(list) /\ Len(list) \in Nat
  BY LenProperties
<1>2. CASE at = {}
  <2>1. DeleteWhileRanging(list, x) = list
    BY <1>2 DEF DeleteWhileRanging
  <2> QED
    BY <1>1, <1>2, <2>1 DEF AllOf, UpTo
<1>3. CASE at # {}
  <2> DEFINE k == CHOOSE i \in at : TRUE
             r == RemoveAt(list, k)
  <2>1. k \in at
    BY <1>3
  <2>2. ~ \E i, j \in at : i # j
    BY <1>1 DEF Once
  <2>3. DeleteWhileRanging(list, x) = r
    BY <1>3, <2>2 DEF DeleteWhileRanging
  <2>4. k \in 1 .. Len(list) /\ list[k] = x /\ \A i \in 1 .. Len(list) : list[i] = x => i = k
    BY <1>1, <2>1 DEF Once
  <2>5. /\ r \in Seq(S) /\ Len(r) = Len(list) - 1
        /\ \A i \in 1 .. Len(list) - 1 : r[i] = IF i < k THEN list[i] ELSE list[i + 1]
    BY <2>4, RemoveAtIs
  <2> HIDE DEF k, r
  <2>6. AllOf(r) = AllOf(list) \ {x}
    <3>1. ASSUME NEW i \in 1 .. Len(r) PROVE r[i] \in AllOf(list) \ {x}
      <4>1. CASE i < k
        BY <1>1, <2>4, <2>5, <4>1 DEF AllOf, UpTo
      <4>2. CASE ~ (i < k)
        <5>1. i + 1 \in 1 .. Len(list) /\ i + 1 # k /\ r[i] = list[i + 1]
          BY <1>1, <2>4, <2>5, <4>2
        <5> QED
          BY <2>4, <5>1 DEF AllOf, UpTo
      <4> QED
        BY <4>1, <4>2
    <3>2. ASSUME NEW i \in 1 .. Len(list), i # k PROVE list[i] \in AllOf(r)
      <4>1. CASE i < k
        <5>1. i \in 1 .. Len(r) /\ r[i] = list[i]
          BY <1>1, <2>4, <2>5, <4>1
        <5> QED
          BY <5>1 DEF AllOf, UpTo
      <4>2. CASE ~ (i < k)
        <5>1. i - 1 \in 1 .. Len(r) /\ r[i - 1] = list[i]
          BY <1>1, <2>4, <2>5, <3>2, <4>2
        <5> QED
          BY <5>1 DEF AllOf, UpTo
      <4> QED
        BY <4>1, <4>2
    <3> QED
      BY <2>4, <3>1, <3>2 DEF AllOf, UpTo
  <2>7. ASSUME NEW y, Once(list, y) PROVE Once(r, y)
    <3> SUFFICES ASSUME NEW i \in 1 .. Len(r), NEW j \in 1 .. Len(r), r[i] = y, r[j] = y
                 PROVE  i = j
      BY DEF Once
    <3> DEFINE place(p) == IF p < k THEN p ELSE p + 1
    <3>1. /\ place(i) \in 1 .. Len(list) /\ list[place(i)] = y
          /\ place(j) \in 1 .. Len(list) /\ list[place(j)] = y
      BY <1>1, <2>4, <2>5
    <3>2. place(i) = place(j)
      BY <2>7, <3>1 DEF Once
    <3> QED
      BY <2>4, <3>2
  <2> QED
    BY <2>3, <2>5, <2>6, <2>7
<1> QED
  BY <1>2, <1>3

\* Whether one of the storages is for this usage, and of which types.
IsAsked(list, u) == \E i \in 1 .. Len(list) : For(list[i], u)
IsAskedAs(list, u, types) == \E i \in 1 .. Len(list) : For(list[i], u) /\ list[i].type \in types

\* The components in an order, each of them once.
LEMMA OrderIs ==
  ASSUME IsFiniteSet(Components)
  PROVE  /\ Order \in Seq(Components)
         /\ DOMAIN Order = 1 .. Len(Order) /\ Len(Order) \in Nat
         /\ \A i \in 1 .. Len(Order) : Order[i] \in Components
         /\ \A i, j \in 1 .. Len(Order) : Order[i] = Order[j] => i = j
         /\ \A c \in Components : \E i \in 1 .. Len(Order) : Order[i] = c
<1> DEFINE n == Cardinality(Components)
           f == SetToSeq(Components)
<1>1. n \in Nat /\ ExistsBijection(1 .. n, Components)
  BY FS_CardinalityType
<1>2. PICK g : g \in Bijection(1 .. n, Components)
  BY <1>1 DEF ExistsBijection
<1>3. g \in [1 .. n -> Components] /\ \A i, j \in 1 .. n : g[i] = g[j] => i = j
  BY <1>2, Fun_BijectionProperties
<1>4. IsInjective(g)
  BY <1>3 DEF IsInjective
<1>5. f \in [1 .. n -> Components] /\ IsInjective(f)
  BY <1>3, <1>4 DEF SetToSeq
<1> HIDE DEF f
<1>6. \A i, j \in 1 .. n : f[i] = f[j] => i = j
  BY <1>5 DEF IsInjective
<1>7. f \in Injection(1 .. n, Components)
  BY <1>5 DEF Injection
<1>8. IsFiniteSet(1 .. n) /\ Cardinality(1 .. n) = n
  BY <1>1, FS_Interval
<1>9. f \in Surjection(1 .. n, Components)
  BY <1>7, <1>8, FS_Injection
<1>10. \A c \in Components : \E i \in 1 .. n : f[i] = c
  BY <1>9 DEF Surjection
<1>11. f \in Seq(Components) /\ Len(f) = n /\ DOMAIN f = 1 .. n
  BY <1>1, <1>5
<1> QED
  BY <1>1, <1>5, <1>6, <1>10, <1>11 DEF Order, f

\* The mark of a panic is no list of claims.
LEMMA PanickedIsNone == Panicked \notin Seq(Claim)
<1> SUFFICES ASSUME Panicked \in Seq(Claim) PROVE FALSE
  OBVIOUS
<1>1. Len(Panicked) = 1 /\ Panicked[1] = <<"panic">>
  BY DEF Panicked
<1>2. <<"panic">> \in Claim
  BY <1>1, ElementOfSeq
<1>3. PICK c \in Components, u \in Usages : <<"panic">> = <<c, u>>
  BY <1>2 DEF Claim
<1>4. Len(<<"panic">>) = 1 /\ Len(<<c, u>>) = 2
  OBVIOUS
<1> QED
  BY <1>3, <1>4

\* What a section's storages make of a list of claims.
LEMMA SectionIs ==
  ASSUME NEW list \in Seq(Claim), NEW c \in Components, NEW u \in Usages,
         NEW storages \in Seq(StorageSpec), OncePerUsage(storages), NEW types,
         Once(list, <<c, u>>)
  PROVE  LET x == <<c, u>>
             result == SectionClaims(list, storages, x, types)
         IN  /\ result \in Seq(Claim)
             /\ \A y : y # x => (y \in AllOf(result) <=> y \in AllOf(list))
             /\ \A y : y # x /\ Once(list, y) => Once(result, y)
             /\ x \in AllOf(result) <=> IF IsAsked(storages, u)
                                        THEN IsAskedAs(storages, u, types)
                                        ELSE x \in AllOf(list)
<1> DEFINE x == <<c, u>>
           n == Len(storages)
           Step(prev, k) ==
              IF prev = Panicked \/ ~For(storages[k], x[2]) THEN prev
              ELSE IF storages[k].type \in types THEN Append(prev, x)
              ELSE DeleteWhileRanging(prev, x)
           P(loop) == loop = [k \in 0 .. n |-> IF k = 0 THEN list ELSE Step(loop[k - 1], k)]
           result == SectionClaims(list, storages, x, types)
<1>0. n \in Nat
  BY LenProperties
<1>1. n \in Nat /\ x \in Claim /\ x[2] = u
  BY <1>0 DEF Claim
<1>2. result = (CHOOSE loop : P(loop))[n]
  BY DEF SectionClaims
<1>3. list # Panicked
  BY PanickedIsNone
<1> HIDE DEF result
<1>4. CASE ~IsAsked(storages, u)
  <2>1. \A k \in 1 .. n : Step(list, k) = list
    BY <1>1, <1>4 DEF IsAsked
  <2> DEFINE g == [k \in 0 .. n |-> list]
  <2>2. P(g)
    <3>1. \A k \in 0 .. n : k # 0 => g[k - 1] = list
      BY <1>1
    <3> HIDE DEF Step
    <3>2. \A k \in 0 .. n : list = IF k = 0 THEN list ELSE Step(g[k - 1], k)
      BY <1>1, <2>1, <3>1
    <3> QED
      BY <3>2
  <2> DEFINE f == CHOOSE loop : P(loop)
  <2>3. P(f)
    <3> HIDE DEF P
    <3> QED
      BY <2>2
  <2> HIDE DEF Step, f, g, n
  <2>4. f[0] = list /\ \A k \in 1 .. n : f[k] = Step(f[k - 1], k)
    BY <1>1, <2>3
  <2> DEFINE S == {k \in 0 .. n : f[k] = list}
  <2>5. 0 \in S /\ \A k \in 1 .. n : k - 1 \in S => k \in S
    BY <1>1, <2>1, <2>4
  <2> HIDE DEF S
  <2>6. n \in S
    <3>1. \A k \in 0 .. n : k \in S
      BY ONLY <1>0, <2>5, InductionUpTo
    <3> QED
      BY <1>0, <3>1
  <2>7. result = list
    BY <1>2, <2>6 DEF f, S
  <2> QED
    BY <1>4, <2>7 DEF result
<1>5. CASE IsAsked(storages, u)
  <2>1. PICK p \in 1 .. n : For(storages[p], u)
    BY <1>5 DEF IsAsked
  <2>2. \A k \in 1 .. n : For(storages[k], u) => k = p
    BY <2>1 DEF OncePerUsage, Says, For
  <2> DEFINE done == IF storages[p].type \in types THEN Append(list, x)
                     ELSE DeleteWhileRanging(list, x)
  <2>3. /\ done \in Seq(Claim)
        /\ \A y : y # x => (y \in AllOf(done) <=> y \in AllOf(list))
        /\ \A y : y # x /\ Once(list, y) => Once(done, y)
        /\ x \in AllOf(done) <=> storages[p].type \in types
    <3>1. CASE storages[p].type \in types
      BY <1>1, <3>1, AppendIs
    <3>2. CASE storages[p].type \notin types
      BY <1>1, <3>2, DeleteIs
    <3> QED
      BY <3>1, <3>2
  <2>4. done # Panicked
    BY <2>3, PanickedIsNone
  <2>5. /\ \A k \in 1 .. n : k < p => Step(list, k) = list
        /\ Step(list, p) = done
        /\ \A k \in 1 .. n : k > p => Step(done, k) = done
    <3>1. \A k \in 1 .. n : k # p => ~For(storages[k], u)
      BY <2>2
    <3>2. p \in Nat /\ \A k \in 1 .. n : k \in Nat
      BY <1>1
    <3> HIDE DEF done
    <3>3. \A k \in 1 .. n : k # p => Step(list, k) = list /\ Step(done, k) = done
      BY <1>1, <3>1
    <3>4. Step(list, p) = done
      BY <1>1, <1>3, <2>1 DEF done
    <3> QED
      BY <3>2, <3>3, <3>4
  <2> HIDE DEF done
  <2> DEFINE At2(k) == IF k < p THEN list ELSE done
             g == [k \in 0 .. n |-> At2(k)]
  <2>6. P(g)
    <3> HIDE DEF Step
    <3>1. ASSUME NEW k \in 0 .. n
          PROVE  At2(k) = IF k = 0 THEN list ELSE Step(g[k - 1], k)
      <4>1. CASE k = 0
        BY <1>1, <4>1
      <4>2. CASE k # 0
        <5>1. k \in 1 .. n /\ k - 1 \in 0 .. n
          BY <1>1, <4>2
        <5>2. g[k - 1] = IF k - 1 < p THEN list ELSE done
          BY <5>1
        <5> HIDE DEF g
        <5>3. CASE k < p
          BY <1>1, <2>5, <5>1, <5>2, <5>3
        <5>4. CASE k = p
          BY <1>1, <2>5, <5>1, <5>2, <5>4
        <5>5. CASE k > p
          BY <1>1, <2>5, <5>1, <5>2, <5>5
        <5> QED
          BY <1>1, <5>1, <5>3, <5>4, <5>5
      <4> QED
        BY <4>1, <4>2
    <3> QED
      BY <3>1
  <2> DEFINE f == CHOOSE loop : P(loop)
  <2>7. P(f)
    <3> HIDE DEF P
    <3> QED
      BY <2>6
  <2> HIDE DEF Step, f, g, n
  <2>8. f[0] = list /\ \A k \in 1 .. n : f[k] = Step(f[k - 1], k)
    BY <1>1, <2>7
  <2> DEFINE S == {k \in 0 .. n : f[k] = At2(k)}
  <2>9. 0 \in S
    BY <1>1, <2>8
  <2>10. ASSUME NEW k \in 1 .. n, k - 1 \in S PROVE k \in S
    <3>1. f[k - 1] = IF k - 1 < p THEN list ELSE done
      BY <2>10
    <3>2. CASE k < p
      BY <1>1, <2>5, <2>8, <3>1, <3>2
    <3>3. CASE k = p
      BY <1>1, <2>5, <2>8, <3>1, <3>3
    <3>4. CASE k > p
      BY <1>1, <2>5, <2>8, <3>1, <3>4
    <3> QED
      BY <1>1, <3>2, <3>3, <3>4
  <2> HIDE DEF S
  <2>11. n \in S
    <3>1. \A k \in 0 .. n : k \in S
      BY ONLY <1>0, <2>9, <2>10, InductionUpTo
    <3> QED
      BY <1>0, <3>1
  <2>12. result = done
    BY <1>1, <1>2, <2>11 DEF f, S
  <2>13. IsAskedAs(storages, u, types) <=> storages[p].type \in types
    BY <2>1, <2>2 DEF IsAskedAs, n
  <2> QED
    BY <1>5, <2>3, <2>12, <2>13 DEF result
<1> QED
  BY <1>4, <1>5

\* Whether a claim is on the list of these types: the section decides or, if it has
\* no storage for the usage, the service.
Listed(s, c, u, types) ==
    IF IsAsked(s.section[c], u) THEN IsAskedAs(s.section[c], u, types)
    ELSE IsAskedAs(s.global, u, types)

\* The storages of a spec are plain.
LEMMA SpecIs ==
  ASSUME StoragesPlain, NEW s \in SpecType
  PROVE  /\ s.global \in GlobalLists /\ s.global \in Seq(StorageSpec)
         /\ OncePerUsage(s.global)
         /\ \A c \in Components :
               /\ s.section[c] \in SectionLists /\ s.section[c] \in Seq(StorageSpec)
               /\ OncePerUsage(s.section[c]) /\ SectionFit(s.section[c])
               /\ Section(s, ClaimSection(c)) = s.section[c]
<1>1. PICK g \in GlobalLists, f \in [Components -> SectionLists] :
         s = [global |-> g, section |-> f]
  BY DEF SpecType
<1>2. s.global = g /\ s.section = f
  BY <1>1
<1>3. \A c \in Components : ClaimSection(c) = c /\ Section(s, c) = s.section[c]
  BY DEF StoragesPlain, ClaimSection, Section
<1>4. \A c \in Components : s.section[c] \in SectionLists
  BY <1>2
<1> QED
  BY <1>2, <1>3, <1>4 DEF StoragesPlain

\* The claims of a usage, appended for the whole service, are on the list once.
LEMMA GlobalIs ==
  ASSUME IsFiniteSet(Components), NEW list \in Seq(Claim), NEW u \in Usages,
         \A c \in Components : <<c, u>> \notin AllOf(list)
  PROVE  LET all == list \o ClaimList(u)
         IN  /\ all \in Seq(Claim)
             /\ \A c \in Components :
                   /\ <<c, u>> \in AllOf(all) /\ Once(all, <<c, u>>)
                   /\ \A w \in Usages : w # u =>
                         (<<c, w>> \in AllOf(all) <=> <<c, w>> \in AllOf(list))
<1> DEFINE m == Len(list)
           n == Len(Order)
           tail == ClaimList(u)
           all == list \o tail
<1>1. m \in Nat /\ n \in Nat /\ DOMAIN Order = 1 .. n
  BY OrderIs, LenProperties
<1>2. /\ \A i \in 1 .. n : Order[i] \in Components
      /\ \A i, j \in 1 .. n : Order[i] = Order[j] => i = j
      /\ \A c \in Components : \E i \in 1 .. n : Order[i] = c
  BY OrderIs
<1> HIDE DEF n
<1>3. tail = [i \in 1 .. n |-> <<Order[i], u>>]
  BY <1>1 DEF ClaimList
<1>4. \A i \in 1 .. n : <<Order[i], u>> \in Claim
  BY <1>2 DEF Claim
<1>5. tail \in Seq(Claim) /\ Len(tail) = n /\ \A i \in 1 .. n : tail[i] = <<Order[i], u>>
  BY <1>1, <1>3, <1>4
<1> HIDE DEF tail
<1>6. /\ all \in Seq(Claim) /\ Len(all) = m + n
      /\ \A i \in 1 .. m + n : all[i] = IF i <= m THEN list[i] ELSE tail[i - m]
  BY <1>1, <1>5, ConcatProperties
<1> HIDE DEF all
<1>7. /\ \A i \in 1 .. m : i \in 1 .. m + n /\ all[i] = list[i]
      /\ \A i \in 1 .. n : m + i \in 1 .. m + n /\ all[m + i] = <<Order[i], u>>
  <2>1. ASSUME NEW i \in 1 .. m PROVE i \in 1 .. m + n /\ all[i] = list[i]
    BY <1>1, <1>6
  <2>2. ASSUME NEW i \in 1 .. n PROVE m + i \in 1 .. m + n /\ all[m + i] = <<Order[i], u>>
    <3>1. m + i \in 1 .. m + n /\ ~(m + i <= m) /\ (m + i) - m = i
      BY <1>1
    <3>2. all[m + i] = tail[(m + i) - m]
      BY <1>6, <3>1
    <3> QED
      BY <1>5, <3>1, <3>2
  <2> QED
    BY <2>1, <2>2
<1>8. \A i \in 1 .. m + n : i \in 1 .. m \/ \E j \in 1 .. n : i = m + j
  <2> SUFFICES ASSUME NEW i \in 1 .. m + n, i \notin 1 .. m
               PROVE  \E j \in 1 .. n : i = m + j
    OBVIOUS
  <2>1. i - m \in 1 .. n /\ i = m + (i - m)
    BY <1>1
  <2> QED
    BY <2>1
<1>9. AllOf(all) = AllOf(list) \union {<<Order[i], u>> : i \in 1 .. n}
  <2>1. AllOf(all) = {all[i] : i \in 1 .. m + n} /\ AllOf(list) = {list[i] : i \in 1 .. m}
    BY <1>6 DEF AllOf, UpTo
  <2>2. ASSUME NEW i \in 1 .. m + n
        PROVE  all[i] \in AllOf(list) \union {<<Order[j], u>> : j \in 1 .. n}
    <3>1. CASE i \in 1 .. m
      BY <1>7, <2>1, <3>1
    <3>2. ASSUME NEW j \in 1 .. n, i = m + j PROVE all[i] = <<Order[j], u>>
      BY <1>7, <3>2
    <3> QED
      BY <1>8, <3>1, <3>2
  <2>3. \A i \in 1 .. m : list[i] \in AllOf(all)
    BY <1>7, <2>1
  <2>4. \A i \in 1 .. n : <<Order[i], u>> \in AllOf(all)
    BY <1>7, <2>1
  <2> QED
    BY <2>1, <2>2, <2>3, <2>4
<1>10. ASSUME NEW c \in Components
       PROVE  /\ <<c, u>> \in AllOf(all) /\ Once(all, <<c, u>>)
              /\ \A w \in Usages : w # u =>
                    (<<c, w>> \in AllOf(all) <=> <<c, w>> \in AllOf(list))
  <2>1. <<c, u>> \in AllOf(all)
    BY <1>2, <1>9
  <2>2. Once(all, <<c, u>>)
    <3> SUFFICES ASSUME NEW i \in 1 .. m + n, NEW j \in 1 .. m + n,
                        all[i] = <<c, u>>, all[j] = <<c, u>>
                 PROVE  i = j
      BY <1>6 DEF Once
    <3>1. \A k \in 1 .. m : all[k] # <<c, u>>
      BY <1>7 DEF AllOf, UpTo
    <3>2. PICK p \in 1 .. n, q \in 1 .. n : i = m + p /\ j = m + q
      BY <1>8, <3>1
    <3>3. <<Order[p], u>> = <<c, u>> /\ <<Order[q], u>> = <<c, u>>
      BY <1>7, <3>2
    <3>4. Order[p] = Order[q]
      BY <3>3
    <3> QED
      BY <1>2, <3>2, <3>4
  <2>3. ASSUME NEW w \in Usages, w # u
        PROVE  <<c, w>> \in AllOf(all) <=> <<c, w>> \in AllOf(list)
    <3>1. \A i \in 1 .. n : <<Order[i], u>> # <<c, w>>
      BY <2>3
    <3> QED
      BY <1>9, <3>1
  <2> QED
    BY <2>1, <2>2, <2>3
<1> QED
  BY <1>6, <1>10 DEF all, tail

\* What the sections make of the claims of a usage, one after the other: those before
\* this position are settled, the others are still as the service has them.
Settled(l, k, s, u, list, types) ==
    /\ l \in Seq(Claim)
    /\ \A i \in 1 .. Len(Order) :
          /\ i <= k => (<<Order[i], u>> \in AllOf(l) <=> Listed(s, Order[i], u, types))
          /\ i > k => /\ <<Order[i], u>> \in AllOf(l) <=> IsAskedAs(s.global, u, types)
                      /\ Once(l, <<Order[i], u>>)
    /\ \A c \in Components, w \in Usages :
          w # u => (<<c, w>> \in AllOf(l) <=> <<c, w>> \in AllOf(list))

\* Before the sections are looked at, nothing is settled.
LEMMA SettledInit ==
  ASSUME StoragesPlain, NEW s \in SpecType, NEW u \in Usages, NEW types,
         NEW list \in Seq(Claim), \A c \in Components : <<c, u>> \notin AllOf(list)
  PROVE  Settled(IF \E e \in Range(s.global) : e.type \in types /\ For(e, u)
                 THEN list \o ClaimList(u) ELSE list, 0, s, u, list, types)
<1>1. /\ \A i \in 1 .. Len(Order) : Order[i] \in Components
      /\ Len(Order) \in Nat
  BY OrderIs DEF StoragesPlain
<1>2. (\E e \in Range(s.global) : e.type \in types /\ For(e, u))
         <=> IsAskedAs(s.global, u, types)
  <2>1. DOMAIN s.global = 1 .. Len(s.global)
    BY SpecIs
  <2> QED
    BY <2>1 DEF Range, IsAskedAs
<1>3. CASE IsAskedAs(s.global, u, types)
  <2>1. /\ list \o ClaimList(u) \in Seq(Claim)
        /\ \A c \in Components :
              /\ <<c, u>> \in AllOf(list \o ClaimList(u))
              /\ Once(list \o ClaimList(u), <<c, u>>)
              /\ \A w \in Usages : w # u =>
                    (<<c, w>> \in AllOf(list \o ClaimList(u)) <=> <<c, w>> \in AllOf(list))
    BY GlobalIs DEF StoragesPlain
  <2> DEFINE all == list \o ClaimList(u)
  <2>2. (IF \E e \in Range(s.global) : e.type \in types /\ For(e, u)
         THEN all ELSE list) = all
    BY <1>2, <1>3
  <2>3. \A i \in 1 .. Len(Order) : ~(i <= 0)
    BY <1>1
  <2> HIDE DEF all
  <2>4. Settled(all, 0, s, u, list, types)
    BY <1>1, <1>3, <2>1, <2>3 DEF Settled, all
  <2> QED
    BY <2>2, <2>4 DEF all
<1>4. CASE ~IsAskedAs(s.global, u, types)
  <2>1. \A c \in Components : Once(list, <<c, u>>)
    BY DEF AllOf, UpTo, Once
  <2> QED
    BY <1>1, <1>2, <1>4, <2>1 DEF Settled
<1> QED
  BY <1>3, <1>4

\* A section settles the claim of its component and no other.
LEMMA SettledNext ==
  ASSUME StoragesPlain, NEW s \in SpecType, NEW u \in Usages, NEW types,
         NEW list \in Seq(Claim), NEW k \in 1 .. Len(Order), NEW l,
         Settled(l, k - 1, s, u, list, types)
  PROVE  Settled(SectionClaims(l, Section(s, ClaimSection(Order[k])), <<Order[k], u>>, types),
                 k, s, u, list, types)
<1>1. /\ \A i \in 1 .. Len(Order) : Order[i] \in Components
      /\ \A i, j \in 1 .. Len(Order) : Order[i] = Order[j] => i = j
      /\ Len(Order) \in Nat
  BY OrderIs DEF StoragesPlain
<1> DEFINE c == Order[k]
           x == <<c, u>>
           storages == s.section[c]
           r == SectionClaims(l, storages, x, types)
<1>2. c \in Components /\ l \in Seq(Claim) /\ k - 1 < k /\ k \in Nat
  BY <1>1 DEF Settled
<1>3. /\ x \in AllOf(l) <=> IsAskedAs(s.global, u, types)
      /\ Once(l, x)
  <2>1. k > k - 1
    BY <1>2
  <2> QED
    BY <2>1 DEF Settled
<1>4. storages \in Seq(StorageSpec) /\ OncePerUsage(storages)
      /\ Section(s, ClaimSection(c)) = storages
  BY <1>2, SpecIs
<1>5. /\ r \in Seq(Claim)
      /\ \A y : y # x => (y \in AllOf(r) <=> y \in AllOf(l))
      /\ \A y : y # x /\ Once(l, y) => Once(r, y)
      /\ x \in AllOf(r) <=> IF IsAsked(storages, u) THEN IsAskedAs(storages, u, types)
                            ELSE x \in AllOf(l)
  BY <1>2, <1>3, <1>4, SectionIs
<1>6. x \in AllOf(r) <=> Listed(s, c, u, types)
  BY <1>3, <1>5 DEF Listed
<1> HIDE DEF r
<1>7. ASSUME NEW i \in 1 .. Len(Order)
      PROVE  /\ i <= k => (<<Order[i], u>> \in AllOf(r) <=> Listed(s, Order[i], u, types))
             /\ i > k => /\ <<Order[i], u>> \in AllOf(r) <=> IsAskedAs(s.global, u, types)
                         /\ Once(r, <<Order[i], u>>)
  <2>1. CASE i = k
    BY <1>2, <1>6, <2>1
  <2>2. CASE i # k
    <3>1. <<Order[i], u>> # x
      BY <1>1, <2>2
    <3>2. /\ i <= k => i <= k - 1
          /\ i > k => i > k - 1
      BY <1>1, <1>2, <2>2
    <3> QED
      BY <1>5, <3>1, <3>2 DEF Settled
  <2> QED
    BY <2>1, <2>2
<1>8. ASSUME NEW d \in Components, NEW w \in Usages, w # u
      PROVE  <<d, w>> \in AllOf(r) <=> <<d, w>> \in AllOf(list)
  <2>1. <<d, w>> # x
    BY <1>8
  <2> QED
    BY <1>5, <1>8, <2>1 DEF Settled
<1>9. Settled(r, k, s, u, list, types)
  BY <1>5, <1>7, <1>8 DEF Settled
<1> QED
  BY <1>4, <1>9 DEF r

\* The claims of a usage.
LEMMA UsageIs ==
  ASSUME StoragesPlain, NEW s \in SpecType, NEW u \in Usages, NEW types,
         NEW list, list \in Seq(Claim),
         \A c \in Components : <<c, u>> \notin AllOf(list)
  PROVE  /\ UsageClaims(s, u, list, types) \in Seq(Claim)
         /\ \A c \in Components :
               /\ <<c, u>> \in AllOf(UsageClaims(s, u, list, types)) <=> Listed(s, c, u, types)
               /\ \A w \in Usages : w # u =>
                     (<<c, w>> \in AllOf(UsageClaims(s, u, list, types))
                         <=> <<c, w>> \in AllOf(list))
<1> DEFINE n == Len(Order)
           T == Seq(Claim)
           global == IF \E e \in Range(s.global) : e.type \in types /\ For(e, u)
                     THEN list \o ClaimList(u) ELSE list
           Step(k, prev) == SectionClaims(prev, Section(s, ClaimSection(Order[k])),
                                          <<Order[k], u>>, types)
           P(loop) == loop = [k \in 0 .. n |->
                                IF k = 0 THEN global ELSE
                                   SectionClaims(loop[k - 1], Section(s, ClaimSection(Order[k])),
                                                 <<Order[k], u>>, types)]
           Good(l, k) == Settled(l, k, s, u, list, types)
<1>1. n \in Nat
  BY OrderIs DEF StoragesPlain
<1>2. UsageClaims(s, u, list, types) = (CHOOSE loop : P(loop))[n]
  BY DEF UsageClaims
<1>3. Good(global, 0)
  BY SettledInit
<1>4. ASSUME NEW k \in 1 .. n, NEW l, Good(l, k - 1) PROVE Good(Step(k, l), k)
  BY <1>4, SettledNext
<1>5. ASSUME NEW l, NEW k, Good(l, k) PROVE l \in T
  BY <1>5 DEF Settled
<1> HIDE DEF n, T, global, Good
<1>6. \E g : P(g)
  <2> DEFINE h == [a \in (1 .. n) \X T |-> IF Step(a[1], a[2]) \in T THEN Step(a[1], a[2]) ELSE a[2]]
  <2> HIDE DEF Step
  <2>1. h \in Steps(n, T)
    <3>1. ASSUME NEW a \in (1 .. n) \X T
          PROVE  (IF Step(a[1], a[2]) \in T THEN Step(a[1], a[2]) ELSE a[2]) \in T
      OBVIOUS
    <3> QED
      BY <3>1 DEF Steps
  <2>2. \A k \in 1 .. n, l \in T : Step(k, l) \in T => h[<<k, l>>] = Step(k, l)
    OBVIOUS
  <2> HIDE DEF h
  <2>3. global \in T
    BY <1>3, <1>5
  <2>4. \E g \in [0 .. n -> T] : Follows(g, n, global, h)
    BY ONLY <1>1, <2>1, <2>3, Recursion
  <2>5. PICK g \in [0 .. n -> T] :
           g[0] = global /\ \A k \in 1 .. n : g[k] = h[<<k, g[k - 1]>>]
    BY <2>4 DEF Follows
  <2> DEFINE S == {k \in 0 .. n : Good(g[k], k)}
  <2>6. 0 \in S
    BY <1>1, <1>3, <2>5
  <2>7. ASSUME NEW k \in 1 .. n, Good(g[k - 1], k - 1)
        PROVE  g[k] = Step(k, g[k - 1]) /\ Good(g[k], k)
    <3>1. Good(Step(k, g[k - 1]), k)
      BY <1>4, <2>7 DEF Step
    <3>2. Step(k, g[k - 1]) \in T /\ g[k - 1] \in T
      BY <1>5, <2>7, <3>1
    <3> QED
      BY <2>2, <2>5, <3>1, <3>2
  <2>8. \A k \in 1 .. n : k - 1 \in S => k \in S
    BY <1>1, <2>7
  <2>9. \A k \in 0 .. n : k \in S
    <3> HIDE DEF S
    <3> QED
      BY ONLY <1>1, <2>6, <2>8, InductionUpTo
  <2>10. \A k \in 1 .. n : k \in 0 .. n /\ k - 1 \in 0 .. n
    BY <1>1
  <2>11. \A k \in 1 .. n : g[k] = Step(k, g[k - 1])
    BY <2>7, <2>9, <2>10
  <2>12. \A k \in 0 .. n : k = 0 \/ k \in 1 .. n
    BY <1>1
  <2>13. \A k \in 0 .. n : g[k] = IF k = 0 THEN global ELSE Step(k, g[k - 1])
    BY <2>5, <2>11, <2>12
  <2>14. g = [k \in 0 .. n |-> IF k = 0 THEN global ELSE Step(k, g[k - 1])]
    BY <2>13
  <2>15. P(g)
    BY <2>14 DEF Step
  <2> QED
    BY <2>15
<1> DEFINE f == CHOOSE loop : P(loop)
<1>7. P(f)
  <2> HIDE DEF P
  <2> QED
    BY <1>6
<1> HIDE DEF f
<1>8. f = [k \in 0 .. n |-> IF k = 0 THEN global ELSE Step(k, f[k - 1])]
  BY <1>7
<1> HIDE DEF Step, P
<1>9. /\ f[0] = global
      /\ \A k \in 1 .. n : f[k] = Step(k, f[k - 1])
  <2>1. 0 \in 0 .. n /\ \A k \in 1 .. n : k \in 0 .. n /\ k # 0
    BY <1>1
  <2> QED
    BY <1>8, <2>1
<1> DEFINE S == {k \in 0 .. n : Good(f[k], k)}
<1>10. 0 \in S
  BY <1>1, <1>3, <1>9
<1>11. \A k \in 1 .. n : k - 1 \in S => k \in S
  BY <1>1, <1>4, <1>9
<1>12. n \in S
  <2> HIDE DEF S
  <2>1. \A k \in 0 .. n : k \in S
    BY ONLY <1>1, <1>10, <1>11, InductionUpTo
  <2> QED
    BY <1>1, <2>1
<1>13. Settled(f[n], n, s, u, list, types)
  BY <1>12 DEF Good
<1>14. \A c \in Components : \E i \in 1 .. n : Order[i] = c /\ i <= n
  BY <1>1, OrderIs DEF StoragesPlain, n
<1> QED
  BY <1>2, <1>13, <1>14 DEF Settled, f, n

\* The lists of claims, in closed form.
LEMMA InstallIs ==
  ASSUME StoragesPlain, NEW s \in SpecType
  PROVE  /\ Install[s] \in Seq(Claim)
         /\ \A c \in Components, u \in Usages :
               <<c, u>> \in AllOf(Install[s]) <=> Listed(s, c, u, PVC)
<1> DEFINE log == UsageClaims(s, "log", << >>, PVC)
           all == UsageClaims(s, "data", log, PVC)
<1>1. << >> \in Seq(Claim) /\ AllOf(<< >>) = {}
  BY DEF AllOf, UpTo
<1>2. "log" \in Usages /\ "data" \in Usages /\ \A u \in Usages : u = "log" \/ u = "data"
  BY DEF Usages
<1>3. /\ log \in Seq(Claim)
      /\ \A c \in Components :
            /\ <<c, "log">> \in AllOf(log) <=> Listed(s, c, "log", PVC)
            /\ <<c, "data">> \notin AllOf(log)
  BY <1>1, <1>2, UsageIs
<1> HIDE DEF log
<1>4. /\ all \in Seq(Claim)
      /\ \A c \in Components :
            /\ <<c, "data">> \in AllOf(all) <=> Listed(s, c, "data", PVC)
            /\ <<c, "log">> \in AllOf(all) <=> <<c, "log">> \in AllOf(log)
  BY <1>2, <1>3, UsageIs
<1> HIDE DEF all
<1>5. Install[s] = all
  BY <1>3, PanickedIsNone DEF Install, InstallClaims, log, all
<1> QED
  BY <1>2, <1>3, <1>4, <1>5

\* The same of the claims to uninstall.
LEMMA UninstallIs ==
  ASSUME StoragesPlain, NEW s \in SpecType
  PROVE  /\ Uninstall[s] \in Seq(Claim)
         /\ \A c \in Components, u \in Usages :
               <<c, u>> \in AllOf(Uninstall[s]) <=> Listed(s, c, u, NotPVC)
<1> DEFINE log == UsageClaims(s, "log", << >>, NotPVC)
           all == UsageClaims(s, "data", log, NotPVC)
<1>1. << >> \in Seq(Claim) /\ AllOf(<< >>) = {}
  BY DEF AllOf, UpTo
<1>2. "log" \in Usages /\ "data" \in Usages /\ \A u \in Usages : u = "log" \/ u = "data"
  BY DEF Usages
<1>3. /\ log \in Seq(Claim)
      /\ \A c \in Components :
            /\ <<c, "log">> \in AllOf(log) <=> Listed(s, c, "log", NotPVC)
            /\ <<c, "data">> \notin AllOf(log)
  BY <1>1, <1>2, UsageIs
<1> HIDE DEF log
<1>4. /\ all \in Seq(Claim)
      /\ \A c \in Components :
            /\ <<c, "data">> \in AllOf(all) <=> Listed(s, c, "data", NotPVC)
            /\ <<c, "log">> \in AllOf(all) <=> <<c, "log">> \in AllOf(log)
  BY <1>2, <1>3, UsageIs
<1> HIDE DEF all
<1>5. Uninstall[s] = all
  BY <1>3, PanickedIsNone DEF Uninstall, UninstallClaims, log, all
<1> QED
  BY <1>2, <1>3, <1>4, <1>5

-----------------------------------------------------------------------------
(* The volumes of a pod *)

\* A storage that puts a claim into the pod, and one that takes it out.
Puts(e, c, u) == e.type = "pvc" /\ e.sized /\ Concerns(e, c, u)
Takes(e, u) == e.type = "ephemeral" /\ e.usage = u

\* Whether a claim is in the pod after these storages were written.
Kept(list, k, c, u) ==
    \E i \in 1 .. k : Puts(list[i], c, u) /\ \A j \in i .. k : ~Takes(list[j], u)

\* The volumes of a pod, in closed form.
LEMMA PodIs ==
  ASSUME NEW s \in SpecType, NEW c \in Components, NEW u \in Usages,
         Len(Written(s, c)) \in Nat
  PROVE  /\ Pod(s, c)[u].source = "claim" <=> Kept(Written(s, c), Len(Written(s, c)), c, u)
         /\ Pod(s, c)[u].mounted <=> \/ \E e \in Range(Written(s, c)) : SetMount(e, c, u)
                                     \/ c = "influxdb" /\ u = "data"
         /\ Pod(s, c)[u] = [source |-> Pod(s, c)[u].source, mounted |-> Pod(s, c)[u].mounted]
         /\ Pod(s, c) \in PodType
<1> DEFINE list == Written(s, c)
           n == Len(list)
           T == [Usages -> {"manifest", "emptyDir", "claim"}]
           start == [w \in Usages |-> "manifest"]
           Step(k, prev) == [w \in Usages |-> SetVolume(prev[w], list[k], c, w)]
           P(source) == source = [k \in 0 .. n |->
                           [w \in Usages |-> IF k = 0 THEN "manifest"
                                             ELSE SetVolume(source[k - 1][w], list[k], c, w)]]
           f == CHOOSE source : P(source)
<1>1. n \in Nat
  OBVIOUS
<1>2. Pod(s, c) = [w \in Usages |->
           [source  |-> f[n][w],
            mounted |-> \/ \E e \in Range(list) : SetMount(e, c, w)
                        \/ c = "influxdb" /\ w = "data"]]
  BY DEF Pod
<1> HIDE DEF list, n
<1>3. start \in T
  OBVIOUS
<1>4. ASSUME NEW k, NEW prev \in T PROVE Step(k, prev) \in T
  BY DEF SetVolume
<1> HIDE DEF T
<1>5. \E g : P(g)
  <2> DEFINE h == [a \in (1 .. n) \X T |-> Step(a[1], a[2])]
  <2>1. h \in Steps(n, T)
    <3> HIDE DEF Step
    <3>1. ASSUME NEW a \in (1 .. n) \X T PROVE Step(a[1], a[2]) \in T
      BY <1>4
    <3> QED
      BY <3>1 DEF Steps
  <2>2. \A k \in 1 .. n, v \in T : h[<<k, v>>] = Step(k, v)
    OBVIOUS
  <2> HIDE DEF h, start
  <2>3. \E g \in [0 .. n -> T] : Follows(g, n, start, h)
    BY ONLY <1>1, <1>3, <2>1, Recursion
  <2>4. PICK g \in [0 .. n -> T] :
           g[0] = start /\ \A k \in 1 .. n : g[k] = h[<<k, g[k - 1]>>]
    BY <2>3 DEF Follows
  <2> HIDE DEF Step
  <2>5. \A k \in 1 .. n : g[k] = Step(k, g[k - 1])
    <3>1. \A k \in 1 .. n : k - 1 \in 0 .. n
      BY <1>1
    <3> QED
      BY <2>2, <2>4, <3>1
  <2>6. ASSUME NEW k \in 0 .. n
        PROVE  g[k] = [w \in Usages |-> IF k = 0 THEN "manifest"
                                        ELSE SetVolume(g[k - 1][w], list[k], c, w)]
    <3>1. CASE k = 0
      BY <2>4, <3>1 DEF start
    <3>2. CASE k # 0
      <4>1. k \in 1 .. n
        BY <1>1, <3>2
      <4> QED
        BY <2>5, <3>2, <4>1 DEF Step
    <3> QED
      BY <3>1, <3>2
  <2>7. P(g)
    BY <2>6
  <2> QED
    BY <2>7
<1>6. P(f)
  <2> HIDE DEF P
  <2> QED
    BY <1>5
<1> HIDE DEF f
<1>7. /\ \A w \in Usages : f[0][w] = "manifest"
      /\ \A k \in 1 .. n : \A w \in Usages : f[k][w] = SetVolume(f[k - 1][w], list[k], c, w)
  <2>1. 0 \in 0 .. n /\ \A k \in 1 .. n : k \in 0 .. n /\ k # 0
    BY <1>1
  <2>2. \A k \in 0 .. n :
           f[k] = [w \in Usages |-> IF k = 0 THEN "manifest"
                                    ELSE SetVolume(f[k - 1][w], list[k], c, w)]
    BY <1>6
  <2> QED
    BY <2>1, <2>2
<1> HIDE DEF P
<1> DEFINE S == {k \in 0 .. n : f[k][u] = "claim" <=> Kept(list, k, c, u)}
           R == {k \in 0 .. n : \A w \in Usages : f[k][w] \in {"manifest", "emptyDir", "claim"}}
<1>8. 0 \in S
  BY <1>1, <1>7 DEF Kept
<1>9. ASSUME NEW k \in 1 .. n, k - 1 \in S PROVE k \in S
  <2>1. f[k - 1][u] = "claim" <=> Kept(list, k - 1, c, u)
    BY <1>9
  <2>2. f[k][u] = SetVolume(f[k - 1][u], list[k], c, u)
    BY <1>7
  <2>3. k \in Nat /\ k \in 0 .. n
    BY <1>1
  <2>4. CASE Puts(list[k], c, u)
    <3>1. f[k][u] = "claim"
      BY <2>2, <2>4 DEF SetVolume, Puts
    <3>2. ~Takes(list[k], u) /\ \A j \in k .. k : j = k
      BY <2>3, <2>4 DEF Puts, Takes
    <3>3. Kept(list, k, c, u)
      BY <2>3, <2>4, <3>2 DEF Kept
    <3> QED
      BY <2>3, <3>1, <3>3
  <2>5. CASE ~Puts(list[k], c, u) /\ Takes(list[k], u)
    <3>1. f[k][u] = "emptyDir"
      BY <2>2, <2>5 DEF SetVolume, Puts, Takes
    <3>2. ~Kept(list, k, c, u)
      BY <2>3, <2>5 DEF Kept
    <3> QED
      BY <2>3, <3>1, <3>2
  <2>6. CASE ~Puts(list[k], c, u) /\ ~Takes(list[k], u)
    <3>1. f[k][u] = f[k - 1][u]
      BY <2>2, <2>6 DEF SetVolume, Puts, Takes
    <3>2. Kept(list, k, c, u) <=> Kept(list, k - 1, c, u)
      BY <2>3, <2>6 DEF Kept
    <3> QED
      BY <2>1, <2>3, <3>1, <3>2
  <2> QED
    BY <2>4, <2>5, <2>6
<1>10. f[n][u] = "claim" <=> Kept(list, n, c, u)
  <2> HIDE DEF S
  <2>1. \A k \in 0 .. n : k \in S
    BY ONLY <1>1, <1>8, <1>9, InductionUpTo
  <2> QED
    BY <1>1, <2>1 DEF S
<1>11. Pod(s, c)[u] = [source  |-> f[n][u],
                       mounted |-> \/ \E e \in Range(list) : SetMount(e, c, u)
                                   \/ c = "influxdb" /\ u = "data"]
  BY <1>2
<1>12. \A w \in Usages : f[n][w] \in {"manifest", "emptyDir", "claim"}
  <2>1. 0 \in R
    BY <1>1, <1>7
  <2>2. ASSUME NEW k \in 1 .. n, k - 1 \in R PROVE k \in R
    BY <1>1, <1>7, <2>2 DEF SetVolume
  <2> HIDE DEF R
  <2>3. \A k \in 0 .. n : k \in R
    BY ONLY <1>1, <2>1, <2>2, InductionUpTo
  <2> QED
    BY <1>1, <2>3 DEF R
<1>13. Pod(s, c) \in PodType
  BY <1>2, <1>12 DEF PodType, VolumeType
<1> QED
  BY <1>10, <1>11, <1>13 DEF list, n

\* What is asked of a list, for a storage at most.
LEMMA AskedOnce ==
  ASSUME NEW list, OncePerUsage(list), NEW u \in Usages, NEW i \in 1 .. Len(list),
         For(list[i], u), NEW types
  PROVE  /\ IsAsked(list, u)
         /\ IsAskedAs(list, u, types) <=> list[i].type \in types
  BY DEF OncePerUsage, IsAsked, IsAskedAs, Says, For

\* The claims of a list to install are not on the one to uninstall.
LEMMA ListsApart ==
  ASSUME StoragesPlain, NEW s \in SpecType, NEW c \in Components, NEW u \in Usages
  PROVE  ~(Listed(s, c, u, PVC) /\ Listed(s, c, u, NotPVC))
<1>1. ASSUME NEW list, OncePerUsage(list)
      PROVE  ~(IsAskedAs(list, u, PVC) /\ IsAskedAs(list, u, NotPVC))
  <2> SUFFICES ASSUME IsAskedAs(list, u, PVC) PROVE ~IsAskedAs(list, u, NotPVC)
    OBVIOUS
  <2>1. PICK i \in 1 .. Len(list) : For(list[i], u) /\ list[i].type = "pvc"
    BY DEF IsAskedAs, PVC
  <2>2. list[i].type \notin NotPVC
    BY <2>1 DEF NotPVC
  <2> QED
    BY <1>1, <2>1, <2>2, AskedOnce
<1>2. OncePerUsage(s.section[c]) /\ OncePerUsage(s.global)
  BY SpecIs
<1> QED
  BY <1>1, <1>2 DEF Listed

\* A list in two parts.
LEMMA ConcatIs ==
  ASSUME NEW S, NEW a \in Seq(S), NEW b \in Seq(S)
  PROVE  /\ Len(a \o b) \in Nat /\ Len(a \o b) = Len(a) + Len(b)
         /\ Len(a) \in Nat /\ Len(b) \in Nat
         /\ \A i \in 1 .. Len(a) : i \in 1 .. Len(a \o b) /\ (a \o b)[i] = a[i]
         /\ \A i \in 1 .. Len(b) : Len(a) + i \in 1 .. Len(a \o b) /\ (a \o b)[Len(a) + i] = b[i]
         /\ \A i \in 1 .. Len(a \o b) :
               i \in 1 .. Len(a) \/ \E j \in 1 .. Len(b) : i = Len(a) + j
<1> DEFINE m == Len(a)
           n == Len(b)
           ab == a \o b
<1>1. m \in Nat /\ n \in Nat
  BY LenProperties
<1>2. /\ Len(ab) = m + n
      /\ \A i \in 1 .. m + n : ab[i] = IF i <= m THEN a[i] ELSE b[i - m]
  BY <1>1, ConcatProperties
<1> HIDE DEF m, n, ab
<1>3. \A i \in 1 .. m : i \in 1 .. m + n /\ ab[i] = a[i]
  BY <1>1, <1>2
<1>4. ASSUME NEW i \in 1 .. n PROVE m + i \in 1 .. m + n /\ ab[m + i] = b[i]
  <2>1. m + i \in 1 .. m + n /\ ~(m + i <= m) /\ (m + i) - m = i
    BY <1>1
  <2>2. ab[m + i] = b[(m + i) - m]
    BY <1>2, <2>1
  <2> QED
    BY <2>1, <2>2
<1>5. ASSUME NEW i \in 1 .. m + n, i \notin 1 .. m PROVE \E j \in 1 .. n : i = m + j
  <2>1. i - m \in 1 .. n /\ i = m + (i - m)
    BY <1>1, <1>5
  <2> QED
    BY <2>1
<1>6. m + n \in Nat
  BY <1>1
<1> QED
  BY <1>1, <1>2, <1>3, <1>4, <1>5, <1>6 DEF m, n, ab

\* What is written into a pod that is not a StatefulSet's.
LEMMA WrittenIs ==
  ASSUME StoragesPlain, NEW s \in SpecType, NEW c \in Components
  PROVE  /\ Len(Written(s, c)) \in Nat
         /\ c \in StatefulSets => Written(s, c) = << >>
         /\ c \notin StatefulSets => Written(s, c) = s.global \o s.section[c]
         /\ Written(s, c) \in Seq(StorageSpec)
<1>1. s.global \in Seq(StorageSpec) /\ s.section[c] \in Seq(StorageSpec)
  BY SpecIs
<1>2. s.global \o s.section[c] \in Seq(StorageSpec)
  BY <1>1, ConcatProperties
<1>3. Written(s, c) \in Seq(StorageSpec)
  BY <1>2 DEF Written
<1>4. Len(Written(s, c)) \in Nat
  BY <1>3, LenProperties
<1> QED
  BY <1>3, <1>4 DEF Written

\* A claim in a pod is on the list to install and not on the one to uninstall.
LEMMA KeptIsListed ==
  ASSUME StoragesPlain, NEW s \in SpecType, NEW c \in Components, NEW u \in Usages,
         Kept(Written(s, c), Len(Written(s, c)), c, u)
  PROVE  Listed(s, c, u, PVC) /\ ~Listed(s, c, u, NotPVC)
<1> DEFINE g == s.global
           f == s.section[c]
           list == Written(s, c)
<1>1. /\ g \in Seq(StorageSpec) /\ f \in Seq(StorageSpec)
      /\ OncePerUsage(g) /\ OncePerUsage(f) /\ SectionFit(f)
  BY SpecIs
<1>2. PICK i \in 1 .. Len(list) :
         Puts(list[i], c, u) /\ \A j \in i .. Len(list) : ~Takes(list[j], u)
  BY DEF Kept
<1>3. c \notin StatefulSets /\ list = g \o f
  <2>1. i \in 1 .. Len(list) /\ Len(<< >>) = 0
    OBVIOUS
  <2>2. list # << >>
    BY <2>1
  <2> QED
    BY <2>2, WrittenIs
<1> HIDE DEF g, f, list
<1>4. /\ Len(list) = Len(g) + Len(f) /\ Len(g) \in Nat /\ Len(f) \in Nat
      /\ \A k \in 1 .. Len(g) : k \in 1 .. Len(list) /\ list[k] = g[k]
      /\ \A k \in 1 .. Len(f) : Len(g) + k \in 1 .. Len(list) /\ list[Len(g) + k] = f[k]
      /\ \/ i \in 1 .. Len(g)
         \/ \E j \in 1 .. Len(f) : i = Len(g) + j
  BY <1>1, <1>3, ConcatIs
<1>5. ASSUME NEW e, Puts(e, c, u) PROVE For(e, u) /\ e.type \in PVC /\ e.type \notin NotPVC
  BY <1>5 DEF Puts, Concerns, For, PVC, NotPVC
<1>6. CASE \E j \in 1 .. Len(f) : i = Len(g) + j
  <2>1. PICK j \in 1 .. Len(f) : i = Len(g) + j
    BY <1>6
  <2>2. For(f[j], u) /\ f[j].type \in PVC /\ f[j].type \notin NotPVC
    BY <1>2, <1>4, <1>5, <2>1
  <2>3. IsAsked(f, u) /\ IsAskedAs(f, u, PVC) /\ ~IsAskedAs(f, u, NotPVC)
    BY <1>1, <2>2, AskedOnce
  <2> QED
    BY <2>3 DEF Listed, f
<1>7. CASE i \in 1 .. Len(g)
  <2>1. For(g[i], u) /\ g[i].type \in PVC /\ g[i].type \notin NotPVC
    BY <1>2, <1>4, <1>5, <1>7
  <2>2. IsAskedAs(g, u, PVC) /\ ~IsAskedAs(g, u, NotPVC)
    BY <1>1, <1>7, <2>1, AskedOnce
  <2>3. CASE IsAsked(f, u)
    <3>1. PICK j \in 1 .. Len(f) : For(f[j], u)
      BY <2>3 DEF IsAsked
    <3>2. Len(g) + j \in i .. Len(list) /\ list[Len(g) + j] = f[j]
      BY <1>4, <1>7
    <3>3. ~Takes(f[j], u)
      BY <1>2, <3>2
    <3>4. f[j].type = "pvc"
      BY <1>1, <3>1, <3>3 DEF SectionFit, Takes, For
    <3>5. f[j].type \in PVC /\ f[j].type \notin NotPVC
      BY <3>4 DEF PVC, NotPVC
    <3>6. IsAskedAs(f, u, PVC) /\ ~IsAskedAs(f, u, NotPVC)
      BY <1>1, <3>1, <3>5, AskedOnce
    <3> QED
      BY <2>3, <3>6 DEF Listed, f
  <2>4. CASE ~IsAsked(f, u)
    BY <2>2, <2>4 DEF Listed, f, g
  <2> QED
    BY <2>3, <2>4
<1> QED
  BY <1>4, <1>6, <1>7

\* What is made of any spec is consistent.
SpecsAgree == \A s \in SpecType : ListsAgreeOn(s) /\ NeverPanicsOn(s)

\* Of every spec the lists of claims and the pods agree, and computing them does not
\* panic: the claims a pod names are to be installed and not to be uninstalled.
THEOREM SpecsAgreeAlways == ASSUME StoragesPlain PROVE SpecsAgree
<1> SUFFICES ASSUME NEW s \in SpecType PROVE ListsAgreeOn(s) /\ NeverPanicsOn(s)
  BY DEF SpecsAgree
<1>1. NeverPanicsOn(s)
  BY InstallIs, UninstallIs DEF NeverPanicsOn
<1>2. ASSUME NEW c \in Components, NEW x \in PodClaims(Pods[s][c], c)
      PROVE  x \in AllOf(Install[s]) /\ x \notin AllOf(Uninstall[s])
  <2>1. PICK u \in Usages : x = <<c, u>> /\ Pods[s][c][u].source = "claim"
    BY <1>2 DEF PodClaims
  <2>2. Pods[s][c] = Pod(s, c)
    BY DEF Pods
  <2>3. Kept(Written(s, c), Len(Written(s, c)), c, u)
    <3>1. Len(Written(s, c)) \in Nat
      BY WrittenIs
    <3>2. Pod(s, c)[u].source = "claim"
      BY <2>1, <2>2
    <3> QED
      BY <3>1, <3>2, PodIs
  <2>4. Listed(s, c, u, PVC) /\ ~Listed(s, c, u, NotPVC)
    BY <2>3, KeptIsListed
  <2> QED
    BY <2>1, <2>4, InstallIs, UninstallIs
<1> QED
  BY <1>1, <1>2 DEF ListsAgreeOn

-----------------------------------------------------------------------------
(* What is asked for *)

\* What a list with at most one storage for the usage says last.
LEMMA LastTypeIs ==
  ASSUME NEW list \in Seq(StorageSpec), OncePerUsage(list), NEW c, NEW u \in Usages
  PROVE  /\ \A i \in 1 .. Len(list) : Concerns(list[i], c, u) =>
               LastType(list, c, u) = IF list[i].type = "pvc" THEN "pvc" ELSE "ephemeral"
         /\ (\A i \in 1 .. Len(list) : ~Concerns(list[i], c, u)) =>
               LastType(list, c, u) = "unset"
<1> DEFINE mine == {i \in DOMAIN list : Concerns(list[i], c, u)}
<1>1. DOMAIN list = 1 .. Len(list) /\ Len(list) \in Nat
  BY LenProperties
<1>2. ASSUME NEW i \in 1 .. Len(list), Concerns(list[i], c, u)
      PROVE  LastType(list, c, u) = IF list[i].type = "pvc" THEN "pvc" ELSE "ephemeral"
  <2>1. ASSUME NEW j \in 1 .. Len(list), Concerns(list[j], c, u) PROVE j = i
    <3>1. For(list[i], u) /\ For(list[j], u)
      BY <1>2, <2>1 DEF Concerns, For
    <3> QED
      BY <3>1 DEF OncePerUsage, Says, For
  <2>2. mine = {i}
    BY <1>1, <1>2, <2>1
  <2>3. Max({i}) = i
    <3>1. i >= i
      BY <1>1
    <3>2. \E x \in {i} : \A y \in {i} : x >= y
      BY <3>1
    <3>3. Max({i}) \in {i}
      BY <3>2 DEF Max
    <3> QED
      BY <3>3
  <2> HIDE DEF mine
  <2>4. LastType(list, c, u) =
           IF mine = {} THEN "unset"
           ELSE IF list[Max(mine)].type = "pvc" THEN "pvc" ELSE "ephemeral"
    BY DEF LastType, mine
  <2> QED
    BY <2>2, <2>3, <2>4
<1>3. ASSUME \A i \in 1 .. Len(list) : ~Concerns(list[i], c, u)
      PROVE  LastType(list, c, u) = "unset"
  <2>1. mine = {}
    BY <1>1, <1>3
  <2> QED
    BY <2>1 DEF LastType
<1> QED
  BY <1>2, <1>3

\* The claims to uninstall are those of which ephemeral storage is asked.
LEMMA UninstalledIsEphemeral ==
  ASSUME StoragesPlain, StoragesMeant, NEW s \in SpecType, NEW c \in Components,
         NEW u \in Usages, Listed(s, c, u, NotPVC)
  PROVE  Asked(s, c, u) = "ephemeral"
<1>1. /\ s.global \in GlobalLists /\ s.global \in Seq(StorageSpec)
      /\ OncePerUsage(s.global)
      /\ s.section[c] \in SectionLists /\ s.section[c] \in Seq(StorageSpec)
      /\ OncePerUsage(s.section[c])
  BY SpecIs
<1>2. \A e : e.type \in NotPVC => e.type # "pvc"
  BY DEF NotPVC
<1>3. CASE IsAsked(s.section[c], u)
  <2>1. PICK i \in 1 .. Len(s.section[c]) :
           For(s.section[c][i], u) /\ s.section[c][i].type \in NotPVC
    BY <1>3 DEF Listed, IsAskedAs
  <2>2. Concerns(s.section[c][i], c, u)
    BY <1>1, <2>1 DEF StoragesMeant, Says, For
  <2>3. LastType(s.section[c], c, u) = "ephemeral"
    BY <1>1, <1>2, <2>1, <2>2, LastTypeIs
  <2> QED
    BY <2>3 DEF Asked
<1>4. CASE ~IsAsked(s.section[c], u)
  <2>1. PICK i \in 1 .. Len(s.global) :
           For(s.global[i], u) /\ s.global[i].type \in NotPVC
    BY <1>4 DEF Listed, IsAskedAs
  <2>2. Concerns(s.global[i], c, u)
    BY <1>1, <1>2, <2>1 DEF StoragesMeant, Says, For
  <2>3. LastType(s.global, c, u) = "ephemeral"
    BY <1>1, <1>2, <2>1, <2>2, LastTypeIs
  <2>4. \A j \in 1 .. Len(s.section[c]) : ~Concerns(s.section[c][j], c, u)
    BY <1>4 DEF IsAsked, Concerns, For
  <2>5. LastType(s.section[c], c, u) = "unset"
    BY <1>1, <2>4, LastTypeIs
  <2> QED
    BY <2>3, <2>5 DEF Asked
<1> QED
  BY <1>3, <1>4

\* What is made of a spec is what it asks for.
Made(s, c, u) ==
    LET volume == Pods[s][c][u]
    IN  /\ Asked(s, c, u) = "pvc" =>
              volume = [source |-> "claim", mounted |-> TRUE] /\ Listed(s, c, u, PVC)
        /\ Asked(s, c, u) = "ephemeral" =>
              volume.source # "claim" /\ volume.mounted /\ Listed(s, c, u, NotPVC)
        /\ Asked(s, c, u) \notin {"pvc", "ephemeral"} => volume.source # "claim"

\* The lists of claims and the pod of a spec give every usage what the spec asks.
LEMMA MadeAsAsked ==
  ASSUME StoragesPlain, StoragesMeant, StoragesComplete,
         NEW s \in SpecType, NEW c \in Components, NEW u \in Usages
  PROVE  Made(s, c, u)
<1> DEFINE g == s.global
           f == s.section[c]
           list == Written(s, c)
           volume == Pods[s][c][u]
           kept == Kept(list, Len(list), c, u)
<1>1. /\ g \in Seq(StorageSpec) /\ f \in Seq(StorageSpec)
      /\ g \in GlobalLists /\ f \in SectionLists
      /\ OncePerUsage(g) /\ OncePerUsage(f) /\ SectionFit(f)
  BY SpecIs
<1>2. list = g \o f /\ Len(list) \in Nat /\ list \in Seq(StorageSpec)
  <2>1. c \notin StatefulSets
    BY DEF StoragesComplete
  <2> QED
    BY <2>1, WrittenIs
<1>3. /\ volume.source = "claim" <=> kept
      /\ volume.mounted <=> \/ \E e \in Range(list) : SetMount(e, c, u)
                            \/ c = "influxdb" /\ u = "data"
      /\ volume = [source |-> volume.source, mounted |-> volume.mounted]
      /\ volume.mounted \in BOOLEAN
  <2>1. volume = Pod(s, c)[u]
    BY DEF Pods
  <2>2. Pod(s, c) \in PodType
    BY <1>2, PodIs
  <2>3. Pod(s, c)[u].mounted \in BOOLEAN
    <3>1. CASE Pod(s, c) \in [Usages -> VolumeType]
      <4>1. Pod(s, c)[u] \in VolumeType
        BY <3>1
      <4> QED
        BY <4>1 DEF VolumeType
    <3>2. CASE Pod(s, c) = NoPod
      <4>1. NoPod[u].mounted = FALSE
        BY DEF NoPod
      <4> QED
        BY <3>2, <4>1
    <3> QED
      BY <2>2, <3>1, <3>2 DEF PodType
  <2> HIDE DEF volume
  <2> QED
    BY <1>2, <2>1, <2>3, PodIs
<1>4. kept => Listed(s, c, u, PVC) /\ ~Listed(s, c, u, NotPVC)
  BY KeptIsListed
<1> HIDE DEF volume
<1>5. DOMAIN list = 1 .. Len(list)
  BY <1>2
<1> HIDE DEF list, g, f
<1>6. /\ Len(list) = Len(g) + Len(f) /\ Len(g) \in Nat /\ Len(f) \in Nat
      /\ \A k \in 1 .. Len(g) : k \in 1 .. Len(list) /\ list[k] = g[k]
      /\ \A k \in 1 .. Len(f) : Len(g) + k \in 1 .. Len(list) /\ list[Len(g) + k] = f[k]
      /\ \A i \in 1 .. Len(list) : i \in 1 .. Len(g) \/ \E j \in 1 .. Len(f) : i = Len(g) + j
  <2>1. list = g \o f /\ g \in Seq(StorageSpec) /\ f \in Seq(StorageSpec)
    BY <1>1, <1>2
  <2> QED
    BY ONLY <2>1, ConcatIs
<1>7. ASSUME NEW i \in 1 .. Len(list), Concerns(list[i], c, u),
             list[i].type \in {"pvc", "ephemeral"}
      PROVE  volume.mounted = TRUE
  <2>1. list[i] \in Range(list) /\ SetMount(list[i], c, u)
    BY <1>5, <1>7 DEF Range, SetMount
  <2> QED
    BY <1>3, <2>1
<1>8. \A e : Concerns(e, c, u) => For(e, u)
  BY DEF Concerns, For
<1>9. \A e : Takes(e, u) => For(e, u) /\ e.type = "ephemeral"
  BY DEF Takes, For
<1>10. /\ \A i \in 1 .. Len(g) : (g[i].type = "pvc" /\ g[i].sized) \/ g[i].type = "ephemeral"
       /\ \A i \in 1 .. Len(f) : (f[i].type = "pvc" /\ f[i].sized) \/ f[i].type = "ephemeral"
  BY <1>1 DEF StoragesComplete
<1> HIDE DEF kept
<1>11. CASE \E j \in 1 .. Len(f) : Concerns(f[j], c, u)
  <2>1. PICK j \in 1 .. Len(f) : Concerns(f[j], c, u)
    BY <1>11
  <2>2. Asked(s, c, u) = IF f[j].type = "pvc" THEN "pvc" ELSE "ephemeral"
    <3>1. LastType(f, c, u) = IF f[j].type = "pvc" THEN "pvc" ELSE "ephemeral"
      BY <1>1, <2>1, LastTypeIs
    <3> QED
      BY <3>1 DEF Asked, f
  <2>3. Len(g) + j \in 1 .. Len(list) /\ list[Len(g) + j] = f[j]
    BY <1>6
  <2>4. volume.mounted = TRUE
    BY <1>7, <1>10, <2>1, <2>3
  <2>5. CASE f[j].type = "pvc"
    <3>1. Puts(list[Len(g) + j], c, u)
      BY <1>10, <2>1, <2>3, <2>5 DEF Puts
    <3>2. ASSUME NEW k \in Len(g) + j .. Len(list), Takes(list[k], u) PROVE FALSE
      <4>1. PICK i \in 1 .. Len(f) : k = Len(g) + i
        BY <1>6
      <4>2. For(f[i], u) /\ f[i].type = "ephemeral" /\ For(f[j], u)
        BY <1>6, <1>8, <1>9, <2>1, <3>2, <4>1
      <4>3. Says(f[i], u) /\ Says(f[j], u)
        BY <4>2 DEF Says, For
      <4>4. i = j
        BY <1>1, <2>1, <4>3 DEF OncePerUsage
      <4> QED
        BY <2>5, <4>2, <4>4
    <3>3. kept
      BY <2>3, <3>1, <3>2 DEF Kept, kept
    <3> QED
      BY <1>3, <1>4, <2>2, <2>4, <2>5, <3>3 DEF Made, volume
  <2>6. CASE f[j].type # "pvc"
    <3>1. f[j].type \in NotPVC /\ For(f[j], u)
      BY <1>8, <1>10, <2>1, <2>6 DEF NotPVC
    <3>2. IsAsked(f, u) /\ IsAskedAs(f, u, NotPVC)
      BY <3>1 DEF IsAsked, IsAskedAs
    <3>3. Listed(s, c, u, NotPVC)
      BY <3>2 DEF Listed, f
    <3> QED
      BY <1>3, <1>4, <2>2, <2>4, <2>6, <3>3 DEF Made, volume
  <2> QED
    BY <2>5, <2>6
<1>12. CASE \A j \in 1 .. Len(f) : ~Concerns(f[j], c, u)
  <2>1. \A j \in 1 .. Len(f) : ~For(f[j], u)
    BY <1>1, <1>12 DEF StoragesMeant, Says, For
  <2>2. ~IsAsked(f, u)
    BY <2>1 DEF IsAsked
  <2>3. Asked(s, c, u) = LastType(g, c, u)
    <3>1. LastType(f, c, u) = "unset"
      BY <1>1, <1>12, LastTypeIs
    <3> QED
      BY <3>1 DEF Asked, f, g
  <2>4. ASSUME NEW i \in 1 .. Len(g), Concerns(g[i], c, u) PROVE Made(s, c, u)
    <3>1. Asked(s, c, u) = IF g[i].type = "pvc" THEN "pvc" ELSE "ephemeral"
      BY <1>1, <2>3, <2>4, LastTypeIs
    <3>2. i \in 1 .. Len(list) /\ list[i] = g[i]
      BY <1>6
    <3>3. volume.mounted = TRUE
      BY <1>7, <1>10, <2>4, <3>2
    <3>4. CASE g[i].type = "pvc"
      <4>1. Puts(list[i], c, u)
        BY <1>10, <2>4, <3>2, <3>4 DEF Puts
      <4>2. ASSUME NEW k \in i .. Len(list), Takes(list[k], u) PROVE FALSE
        <5>1. For(list[k], u) /\ list[k].type = "ephemeral" /\ k \in 1 .. Len(list)
          BY <1>6, <1>9, <4>2
        <5>2. k \in 1 .. Len(g)
          BY <1>6, <2>1, <5>1
        <5>3. For(g[k], u) /\ For(g[i], u) /\ g[k].type = "ephemeral"
          BY <1>6, <1>8, <2>4, <5>1, <5>2
        <5> QED
          BY <1>1, <3>4, <5>2, <5>3 DEF OncePerUsage, Says, For
      <4>3. kept
        BY <3>2, <4>1, <4>2 DEF Kept, kept
      <4> QED
        BY <1>3, <1>4, <3>1, <3>3, <3>4, <4>3 DEF Made, volume
    <3>5. CASE g[i].type # "pvc"
      <4>1. g[i].type \in NotPVC /\ For(g[i], u)
        BY <1>8, <1>10, <2>4, <3>5 DEF NotPVC
      <4>2. IsAskedAs(g, u, NotPVC)
        BY <4>1 DEF IsAskedAs
      <4>3. Listed(s, c, u, NotPVC)
        BY <2>2, <4>2 DEF Listed, f, g
      <4> QED
        BY <1>3, <1>4, <3>1, <3>3, <3>5, <4>3 DEF Made, volume
    <3> QED
      BY <3>4, <3>5
  <2>5. ASSUME \A i \in 1 .. Len(g) : ~Concerns(g[i], c, u) PROVE Made(s, c, u)
    <3>1. Asked(s, c, u) = "unset"
      BY <1>1, <2>3, <2>5, LastTypeIs
    <3>2. ~kept
      <4>1. ASSUME NEW i \in 1 .. Len(list) PROVE ~Puts(list[i], c, u)
        BY <1>6, <1>12, <2>5 DEF Puts
      <4> QED
        BY <4>1 DEF kept, Kept
    <3> QED
      BY <1>3, <3>1, <3>2 DEF Made, volume
  <2> QED
    BY <2>4, <2>5
<1> QED
  BY <1>11, <1>12

-----------------------------------------------------------------------------
(* Edits, failures and restarts *)

\* The part of the types the argument needs.
SpecsTyped ==
    /\ spec \in SpecType
    /\ worker \in [pc : {"idle", "create", "write", "delete", "record"}, spec : SpecType]

\* The claims of the spec at work are there when its pods are written, and its pods
\* are written when claims are deleted.
Prepared ==
    ~misread =>
       /\ At("write") => AllOf(Install[worker.spec]) \subseteq claims
       /\ At("delete") => \A c \in Components : pods[c] = Pods[worker.spec][c]

\* The inductive invariant.
Inv == SpecsTyped /\ Prepared /\ NamedClaimsExist

\* A part of a list is of the list.
LEMMA UpToAll ==
  ASSUME NEW s \in SpecType, SpecsAgree,
         NEW list \in {Install[s], Uninstall[s]}, NEW k \in 0 .. Len(list)
  PROVE  UpTo(list, k) \subseteq AllOf(list)
<1>1. list \in Seq(Claim)
  BY DEF SpecsAgree, NeverPanicsOn
<1> QED
  BY <1>1 DEF UpTo, AllOf

LEMMA TypedInit == Init => SpecsTyped
  BY DEF Init, SpecsTyped

LEMMA TypedNext == ASSUME SpecsTyped, [Next]_vars PROVE SpecsTyped'
<1> USE DEF SpecsTyped, At, Goto, Requeue, NoEdit
<1>1. CASE WorkerStep
  <2>1. CASE Begin
    BY <1>1, <2>1 DEF WorkerStep, Begin
  <2>2. CASE CreateClaims
    BY <1>1, <2>2 DEF WorkerStep, CreateClaims, CreateClaimsOr
  <2>3. CASE WritePods
    BY <1>1, <2>3 DEF WorkerStep, WritePods
  <2>4. CASE DeleteClaims
    BY <1>1, <2>4 DEF WorkerStep, DeleteClaims
  <2>5. CASE Record
    BY <1>1, <2>5 DEF WorkerStep, Record
  <2> QED
    BY <1>1, <2>1, <2>2, <2>3, <2>4, <2>5 DEF WorkerStep, Worker
<1>2. CASE InformerStep \/ ResyncStep
  BY <1>2 DEF InformerStep, ObserveClaims, ResyncStep, Resync
<1>3. CASE RestartStep
  BY <1>3 DEF RestartStep, Restart
<1>4. CASE EditStorages
  <2>1. UNCHANGED worker
    BY <1>4 DEF EditStorages
  <2>2. spec' \in SpecType
    <3>1. PICK g \in GlobalLists, f \in [Components -> SectionLists] :
             spec = [global |-> g, section |-> f]
      BY DEF SpecType
    <3>2. ASSUME NEW list \in GlobalLists, spec' = [spec EXCEPT !.global = list]
          PROVE  spec' \in SpecType
      <4>1. spec' = [global |-> list, section |-> f]
        BY <3>1, <3>2
      <4> QED
        BY <4>1 DEF SpecType
    <3>3. ASSUME NEW c \in Components, NEW list \in SectionLists,
                 spec' = [spec EXCEPT !.section[c] = list]
          PROVE  spec' \in SpecType
      <4>1. spec' = [global |-> g, section |-> [f EXCEPT ![c] = list]]
        BY <3>1, <3>3
      <4>2. \E h \in [Components -> SectionLists] : h = [f EXCEPT ![c] = list]
        OBVIOUS
      <4>3. PICK h \in [Components -> SectionLists] : spec' = [global |-> g, section |-> h]
        BY <4>1, <4>2
      <4> QED
        BY <4>3 DEF SpecType
    <3> QED
      BY <1>4, <3>2, <3>3 DEF EditStorages
  <2> QED
    BY <2>1, <2>2
<1>5. CASE UNCHANGED vars
  BY <1>5 DEF vars
<1> QED
  BY <1>1, <1>2, <1>3, <1>4, <1>5 DEF Next

LEMMA InvInit == Init => Inv
<1>1. Init => NamedClaimsExist
  BY DEF Init, NamedClaimsExist, PodClaims, NoPod
<1>2. Init => Prepared
  BY DEF Init, Prepared, At
<1> QED
  BY <1>1, <1>2, TypedInit DEF Inv

LEMMA CreateStep ==
  ASSUME SpecsAgree, Inv, CreateClaims
  PROVE  Prepared' /\ NamedClaimsExist'
<1> DEFINE list == Install[worker.spec]
<1>1. worker.spec \in SpecType
  BY DEF Inv, SpecsTyped
<1>2. PICK k \in 0 .. Len(list) :
         /\ SetClaims(claims \union (UpTo(list, k) \ seen))
         /\ IF k = Len(list) THEN Goto("write")
            ELSE Requeue
  BY DEF CreateClaims, CreateClaimsOr
<1>3. claims' = claims \union (UpTo(list, k) \ seen) /\ UNCHANGED pods
  BY <1>2 DEF SetClaims, CreateClaims, CreateClaimsOr
<1>4. ~misread' => ~misread /\ seen = claims
  BY DEF CreateClaims, CreateClaimsOr, Read
<1>5. NamedClaimsExist'
  BY <1>3, <1>4 DEF Inv, NamedClaimsExist, PodClaims
<1>6. CASE k = Len(list)
  <2>1. worker' = [worker EXCEPT !.pc = "write"]
    BY <1>2, <1>6 DEF Goto
  <2>2. worker'.pc = "write" /\ worker'.spec = worker.spec
    BY <2>1 DEF Inv, SpecsTyped
  <2>3. ~misread' => AllOf(list) \subseteq claims'
    BY <1>3, <1>4, <1>6 DEF AllOf
  <2> QED
    BY <1>5, <2>2, <2>3 DEF Prepared, At, AllOf, UpTo
<1>7. CASE k # Len(list)
  <2>1. worker'.pc = "idle"
    BY <1>2, <1>7 DEF Requeue, Inv, SpecsTyped
  <2> QED
    BY <1>5, <2>1 DEF Prepared, At
<1> QED
  BY <1>6, <1>7

LEMMA WriteStep ==
  ASSUME SpecsAgree, Inv, WritePods
  PROVE  Prepared' /\ NamedClaimsExist'
<1>1. worker.spec \in SpecType /\ At("write") /\ UNCHANGED <<claims, misread>>
  BY DEF Inv, SpecsTyped, WritePods
<1>2. PICK done \in SUBSET Components :
         /\ pods' = [c \in Components |->
                       IF c \in done THEN Pods[worker.spec][c] ELSE pods[c]]
         /\ IF done = Components THEN Goto("delete") ELSE Requeue
  BY DEF WritePods
<1>3. NamedClaimsExist'
  <2> SUFFICES ASSUME ~misread, NEW c \in Components
               PROVE  PodClaims(pods'[c], c) \subseteq claims
    BY <1>1 DEF NamedClaimsExist, PodClaims
  <2>1. CASE c \in done
    <3>1. pods'[c] = Pods[worker.spec][c]
      BY <1>2, <2>1
    <3>2. PodClaims(Pods[worker.spec][c], c) \subseteq AllOf(Install[worker.spec])
      BY <1>1 DEF SpecsAgree, ListsAgreeOn
    <3> QED
      BY <1>1, <3>1, <3>2 DEF Inv, Prepared
  <2>2. CASE c \notin done
    <3>1. pods'[c] = pods[c]
      BY <1>2, <2>2
    <3> QED
      BY <3>1 DEF Inv, NamedClaimsExist
  <2> QED
    BY <2>1, <2>2
<1>4. CASE done = Components
  <2>1. worker'.pc = "delete" /\ worker'.spec = worker.spec
    BY <1>2, <1>4 DEF Goto, Inv, SpecsTyped
  <2>2. \A c \in Components : pods'[c] = Pods[worker.spec][c]
    BY <1>2, <1>4
  <2> QED
    BY <1>3, <2>1, <2>2 DEF Prepared, At
<1>5. CASE done # Components
  <2>1. worker'.pc = "idle"
    BY <1>2, <1>5 DEF Requeue, Inv, SpecsTyped
  <2> QED
    BY <1>3, <2>1 DEF Prepared, At
<1> QED
  BY <1>4, <1>5

LEMMA DeleteStep ==
  ASSUME SpecsAgree, Inv, DeleteClaims
  PROVE  Prepared' /\ NamedClaimsExist'
<1> DEFINE list == Uninstall[worker.spec]
<1>1. worker.spec \in SpecType /\ At("delete") /\ UNCHANGED pods
  BY DEF Inv, SpecsTyped, DeleteClaims
<1>2. PICK k \in 0 .. Len(list) :
         /\ claims' = claims \ (UpTo(list, k) \intersect seen)
         /\ Goto("record") \/ Requeue
  BY DEF DeleteClaims, SetClaims
<1>3. worker'.pc \in {"record", "idle"}
  BY <1>2 DEF Goto, Requeue, Inv, SpecsTyped
<1>4. ~misread' => ~misread
  BY DEF DeleteClaims, Read
<1>5. ASSUME ~misread, NEW c \in Components
      PROVE  PodClaims(pods[c], c) \subseteq claims'
  <2>1. pods[c] = Pods[worker.spec][c]
    BY <1>1, <1>5 DEF Inv, Prepared
  <2>2. PodClaims(pods[c], c) \intersect AllOf(list) = {}
    BY <1>1, <2>1 DEF SpecsAgree, ListsAgreeOn
  <2>3. PodClaims(pods[c], c) \subseteq claims
    BY <1>5 DEF Inv, NamedClaimsExist
  <2>4. UpTo(list, k) \subseteq AllOf(list)
    BY <1>1, UpToAll
  <2> QED
    BY <1>2, <2>2, <2>3, <2>4
<1>6. NamedClaimsExist'
  BY <1>1, <1>4, <1>5 DEF NamedClaimsExist, PodClaims
<1> QED
  BY <1>3, <1>6 DEF Prepared, At

LEMMA InvNext == ASSUME SpecsAgree, Inv, [Next]_vars PROVE Inv'
<1> SUFFICES Prepared' /\ NamedClaimsExist'
  BY TypedNext DEF Inv
<1>1. CASE WorkerStep
  <2>1. CASE Begin \/ Record
    <3>1. worker'.pc \in {"create", "idle"} /\ UNCHANGED <<claims, pods, misread>>
      BY <2>1 DEF Begin, Record, At, Goto, Requeue, Inv, SpecsTyped
    <3> QED
      BY <3>1 DEF Inv, Prepared, NamedClaimsExist, PodClaims, At
  <2> QED
    BY <1>1, <2>1, CreateStep, WriteStep, DeleteStep DEF WorkerStep, Worker
<1>2. CASE InformerStep \/ ResyncStep \/ EditStorages
  <2>1. UNCHANGED <<worker, claims, pods, misread>>
    BY <1>2 DEF InformerStep, ObserveClaims, ResyncStep, Resync, EditStorages
  <2> QED
    BY <2>1 DEF Inv, Prepared, NamedClaimsExist, PodClaims, At
<1>3. CASE RestartStep
  <2>1. worker'.pc = "idle" /\ UNCHANGED <<claims, pods, misread>>
    BY <1>3 DEF RestartStep, Restart, Requeue, Inv, SpecsTyped
  <2> QED
    BY <2>1 DEF Inv, Prepared, NamedClaimsExist, PodClaims, At
<1>4. CASE UNCHANGED vars
  BY <1>4 DEF vars, Inv, Prepared, NamedClaimsExist, PodClaims, At
<1> QED
  BY <1>1, <1>2, <1>3, <1>4 DEF Next

\* The claims the pods in the cluster name exist, through every edit, failure and
\* restart, as long as the cache is not behind when it is used.
THEOREM ClaimsExist == ASSUME StoragesPlain PROVE Spec => []NamedClaimsExist
<1>1. Init => Inv
  BY InvInit
<1>2. Inv /\ [Next]_vars => Inv'
  BY InvNext, SpecsAgreeAlways
<1>3. Inv => NamedClaimsExist
  BY DEF Inv
<1> QED
  BY <1>1, <1>2, <1>3, PTL DEF Spec

\* Whatever the storages become, the lists of claims and the pods agree.
THEOREM ListsAlwaysAgree == ASSUME StoragesPlain PROVE Spec => []ListsAgree
<1>1. Init => SpecsTyped
  BY TypedInit
<1>2. SpecsTyped /\ [Next]_vars => SpecsTyped'
  BY TypedNext
<1>3. SpecsTyped => ListsAgree
  BY SpecsAgreeAlways DEF SpecsTyped, SpecsAgree, ListsAgree
<1> QED
  BY <1>1, <1>2, <1>3, PTL DEF Spec

\* Whatever the storages become, computing the lists of claims does not panic.
THEOREM PanicsNever == ASSUME StoragesPlain PROVE Spec => []NeverPanics
<1>1. Init => SpecsTyped
  BY TypedInit
<1>2. SpecsTyped /\ [Next]_vars => SpecsTyped'
  BY TypedNext
<1>3. SpecsTyped => NeverPanics
  BY SpecsAgreeAlways DEF SpecsTyped, SpecsAgree, NeverPanics
<1> QED
  BY <1>1, <1>2, <1>3, PTL DEF Spec

-----------------------------------------------------------------------------
(* The types *)

\* The bounds of the model.
BoundsTyped == MaxFailures \in Nat /\ MaxEdits \in Nat

LEMMA StorageTypeInit == ASSUME BoundsTyped PROVE Init => StorageTypeOK
<1> SUFFICES ASSUME Init PROVE StorageTypeOK
  OBVIOUS
<1>1. worker \in WorkerType
  BY DEF Init, WorkerType
<1>2. pods \in [Components -> PodType]
  <2>1. NoPod \in PodType
    BY DEF PodType
  <2> QED
    BY <2>1 DEF Init
<1>3. failures \in 0 .. MaxFailures /\ edits \in 0 .. MaxEdits
  BY DEF Init, BoundsTyped
<1> QED
  BY <1>1, <1>2, <1>3 DEF Init, StorageTypeOK

LEMMA StorageTypeNext ==
  ASSUME StoragesPlain, BoundsTyped, StorageTypeOK, [Next]_vars
  PROVE  StorageTypeOK'
<1> DEFINE Rest == /\ guarded \in BOOLEAN /\ known \in BOOLEAN /\ queued \in BOOLEAN
                   /\ misread \in BOOLEAN /\ raced \in BOOLEAN
                   /\ applied \in SpecType \union {Never}
                   /\ claims \subseteq Claim /\ seen \subseteq Claim
                   /\ (~ClaimLag => seen = claims)
                   /\ pods \in [Components -> PodType]
                   /\ failures \in 0 .. MaxFailures
                   /\ edits \in 0 .. MaxEdits
<1>1. SpecsTyped /\ Rest
  BY DEF StorageTypeOK, SpecsTyped, WorkerType
<1>2. SpecsTyped'
  BY <1>1, TypedNext
<1> SUFFICES Rest'
  BY <1>2 DEF StorageTypeOK, SpecsTyped, WorkerType
<1>3. \A list, k : list \in Seq(Claim) /\ k \in 0 .. Len(list) => UpTo(list, k) \subseteq Claim
  BY DEF UpTo
<1>4. ASSUME NEW f, Fails(f) PROVE failures' \in 0 .. MaxFailures
  BY <1>1, <1>4 DEF Fails, BoundsTyped
<1>5. ASSUME NEW new, new \subseteq Claim, SetClaims(new)
      PROVE  claims' \subseteq Claim /\ seen' \subseteq Claim /\ (~ClaimLag => seen' = claims')
  BY <1>1, <1>5 DEF SetClaims
<1>6. CASE WorkerStep
  <2>1. UNCHANGED <<guarded, spec, raced, edits>>
    BY <1>6 DEF WorkerStep, NoEdit
  <2>2. CASE Begin
    BY <1>1, <2>1, <2>2 DEF Begin, Syncing, Succeeds
  <2>3. CASE CreateClaims
    <3> DEFINE list == Install[worker.spec]
    <3>1. list \in Seq(Claim)
      BY <1>1, InstallIs DEF SpecsTyped
    <3> HIDE DEF list
    <3>2. PICK k \in 0 .. Len(list) :
             /\ SetClaims(claims \union (UpTo(list, k) \ seen))
             /\ \/ Goto("write") /\ Succeeds
                \/ Requeue /\ (Succeeds \/ Fails("create"))
      BY <2>3 DEF CreateClaims, CreateClaimsOr, list
    <3>3. claims \union (UpTo(list, k) \ seen) \subseteq Claim
      BY <1>1, <1>3, <3>1
    <3>4. misread' \in BOOLEAN /\ pods' = pods /\ Syncing
      BY <1>1, <2>3 DEF CreateClaims, CreateClaimsOr, Read
    <3>5. queued' \in BOOLEAN /\ failures' \in 0 .. MaxFailures
      BY <1>1, <1>4, <3>2 DEF Goto, Requeue, Succeeds
    <3> QED
      BY <1>1, <1>5, <2>1, <3>2, <3>3, <3>4, <3>5 DEF Syncing
  <2>4. CASE WritePods
    <3>1. PICK done \in SUBSET Components :
             /\ pods' = [c \in Components |->
                           IF c \in done THEN Pods[worker.spec][c] ELSE pods[c]]
             /\ \/ Goto("delete") /\ Succeeds
                \/ Requeue /\ (Succeeds \/ Fails("write"))
      BY <2>4 DEF WritePods
    <3>2. ASSUME NEW c \in Components PROVE Pods[worker.spec][c] \in PodType
      <4>1. worker.spec \in SpecType
        BY <1>1 DEF SpecsTyped
      <4>2. Len(Written(worker.spec, c)) \in Nat
        BY <4>1, WrittenIs
      <4>3. "log" \in Usages
        BY DEF Usages
      <4>4. Pod(worker.spec, c) \in PodType
        BY <4>1, <4>2, <4>3, PodIs
      <4> QED
        BY <4>1, <4>4 DEF Pods
    <3>3. pods' \in [Components -> PodType]
      BY <1>1, <3>1, <3>2
    <3>4. queued' \in BOOLEAN /\ failures' \in 0 .. MaxFailures
      BY <1>1, <1>4, <3>1 DEF Goto, Requeue, Succeeds
    <3>5. UNCHANGED <<applied, known, claims, seen, misread>>
      BY <2>4 DEF WritePods, Syncing
    <3> QED
      BY <1>1, <2>1, <3>3, <3>4, <3>5
  <2>5. CASE DeleteClaims
    <3> DEFINE list == Uninstall[worker.spec]
    <3>1. PICK k \in 0 .. Len(list) :
             /\ SetClaims(claims \ (UpTo(list, k) \intersect seen))
             /\ \/ Goto("record") /\ Succeeds
                \/ Requeue /\ Fails("delete")
      BY <2>5 DEF DeleteClaims
    <3>2. claims \ (UpTo(list, k) \intersect seen) \subseteq Claim
      BY <1>1
    <3>3. misread' \in BOOLEAN /\ pods' = pods /\ UNCHANGED <<applied, known>>
      BY <1>1, <2>5 DEF DeleteClaims, Read, Syncing
    <3>4. queued' \in BOOLEAN /\ failures' \in 0 .. MaxFailures
      BY <1>1, <1>4, <3>1 DEF Goto, Requeue, Succeeds
    <3> QED
      BY <1>1, <1>5, <2>1, <3>1, <3>2, <3>3, <3>4
  <2>6. CASE Record
    <3>1. applied' \in SpecType \union {Never} /\ known' \in BOOLEAN
      BY <1>1, <2>6 DEF Record, Syncing, SpecsTyped
    <3>2. queued' \in BOOLEAN /\ failures' \in 0 .. MaxFailures
      BY <1>1, <1>4, <2>6 DEF Record, Goto, Requeue, Succeeds
    <3>3. UNCHANGED <<claims, seen, pods, misread>>
      BY <2>6 DEF Record
    <3> QED
      BY <1>1, <2>1, <3>1, <3>2, <3>3
  <2> QED
    BY <1>6, <2>2, <2>3, <2>4, <2>5, <2>6 DEF WorkerStep, Worker
<1>7. CASE InformerStep \/ ResyncStep
  BY <1>1, <1>7 DEF InformerStep, ObserveClaims, ResyncStep, Resync, Syncing, NoEdit
<1>8. CASE RestartStep
  BY <1>1, <1>4, <1>8 DEF RestartStep, Restart, Requeue, NoEdit
<1>9. CASE EditStorages
  <2>1. edits' \in 0 .. MaxEdits
    BY <1>1, <1>9 DEF EditStorages, BoundsTyped
  <2> QED
    BY <1>1, <1>9, <2>1 DEF EditStorages, Syncing
<1>10. CASE UNCHANGED vars
  BY <1>1, <1>10 DEF vars
<1> QED
  BY <1>6, <1>7, <1>8, <1>9, <1>10 DEF Next

\* Every variable keeps its type.
THEOREM StorageTypes == ASSUME StoragesPlain, BoundsTyped PROVE Spec => []StorageTypeOK
<1>1. Init => StorageTypeOK
  BY StorageTypeInit
<1>2. StorageTypeOK /\ [Next]_vars => StorageTypeOK'
  BY StorageTypeNext
<1> QED
  BY <1>1, <1>2, PTL DEF Spec

-----------------------------------------------------------------------------
(* Deletions, and what a reconcile leaves *)

\* A step deletes only claims of which ephemeral storage is asked.
LEMMA DeletesOnlyEphemeral ==
  ASSUME StoragesPlain, StoragesMeant, SpecsTyped, [Next]_vars,
         claims \subseteq Claim, NEW x \in claims \ claims'
  PROVE  Asked(worker.spec, x[1], x[2]) = "ephemeral"
<1>1. PICK c \in Components, u \in Usages : x = <<c, u>>
  BY DEF Claim
<1>2. CASE WorkerStep /\ DeleteClaims
  <2> DEFINE list == Uninstall[worker.spec]
  <2>1. worker.spec \in SpecType
    BY DEF SpecsTyped
  <2>2. PICK k \in 0 .. Len(list) : claims' = claims \ (UpTo(list, k) \intersect seen)
    BY <1>2 DEF DeleteClaims, SetClaims
  <2>3. x \in UpTo(list, k)
    BY <2>2
  <2>4. list \in Seq(Claim)
    BY <2>1, UninstallIs
  <2> HIDE DEF list
  <2>5. x \in AllOf(list)
    BY <2>3, <2>4 DEF AllOf, UpTo
  <2>6. Listed(worker.spec, c, u, NotPVC)
    BY <1>1, <2>1, <2>5, UninstallIs DEF list
  <2> QED
    BY <1>1, <2>1, <2>6, UninstalledIsEphemeral
<1>3. CASE WorkerStep /\ CreateClaims
  BY <1>3 DEF CreateClaims, CreateClaimsOr, SetClaims
<1>4. CASE WorkerStep /\ (Begin \/ WritePods \/ Record)
  BY <1>4 DEF Begin, WritePods, Record
<1>5. CASE InformerStep \/ ResyncStep \/ RestartStep \/ EditStorages
  BY <1>5 DEF InformerStep, ObserveClaims, ResyncStep, Resync, RestartStep, Restart, EditStorages
<1>6. CASE UNCHANGED vars
  BY <1>6 DEF vars
<1> QED
  BY <1>2, <1>3, <1>4, <1>5, <1>6 DEF Next, WorkerStep, Worker

\* A claim, and the data in it, is deleted only when ephemeral storage is asked for.
THEOREM DeletesAreAsked ==
  ASSUME StoragesPlain, StoragesMeant, BoundsTyped PROVE Spec => OnlyEphemeralDeletes
<1>1. Init => StorageTypeOK
  BY StorageTypeInit
<1>2. StorageTypeOK /\ [Next]_vars => StorageTypeOK'
  BY StorageTypeNext
<1>3. StorageTypeOK /\ [Next]_vars =>
         [\A claim \in claims \ claims' :
             Asked(worker.spec, claim[1], claim[2]) = "ephemeral"]_vars
  BY DeletesOnlyEphemeral DEF StorageTypeOK, SpecsTyped, WorkerType
<1> QED
  BY <1>1, <1>2, <1>3, PTL DEF Spec, OnlyEphemeralDeletes

\* A spec has been applied: its pods are written, its claims are there and the claims
\* it does not want are not.
Applied(s) ==
    /\ \A c \in Components : pods[c] = Pods[s][c]
    /\ AllOf(Install[s]) \subseteq claims
    /\ AllOf(Uninstall[s]) \intersect claims = {}

\* No edit can go unnoticed: operands are protected, or none came too early.
Noticed == guarded \/ ~raced

\* A reconcile works from the spec as it is: with protection when nothing is in the
\* queue; without it as long as no edit came too early, and then it is at work only on
\* a spec that is not the recorded one, and rests only with the recorded one.
FromSpec ==
    /\ guarded /\ ~queued /\ ~At("idle") => worker.spec = spec
    /\ ~guarded /\ ~raced =>
          /\ ~At("idle") => worker.spec = spec /\ ~(known /\ applied = spec)
          /\ At("idle") /\ ~queued => applied = spec

\* With the cache read in time, the claims to install are there until the end, and once
\* a reconcile is through its spec has been applied.  So has the spec there is when
\* nothing is in the queue, and the recorded one when the next reconcile is skipped.
UpToDate ==
    /\ FromSpec
    /\ ~misread =>
          /\ At("delete") => AllOf(Install[worker.spec]) \subseteq claims
          /\ At("record") => Applied(worker.spec)
          /\ Noticed /\ At("idle") /\ ~queued => Applied(spec)
          /\ ~guarded /\ ~raced /\ known /\ applied = spec => Applied(spec)

LEMMA UpToDateInit == Init => UpToDate
  BY DEF Init, UpToDate, FromSpec, At

\* What is applied stays so while claims and pods do.
LEMMA AppliedStays ==
  ASSUME NEW s, UNCHANGED <<claims, pods>>
  PROVE  (Applied(s) /\ s' = s) => Applied(s)'
  BY DEF Applied, AllOf, UpTo, Install, Uninstall, Pods

\* What applies a spec: a deletion of claims that goes through with the cache in time.
LEMMA DeleteApplies ==
  ASSUME StoragesPlain, StorageTypeOK, Prepared, UpToDate, DeleteClaims,
         ~misread', worker'.pc = "record"
  PROVE  Applied(worker.spec)' /\ worker'.spec = worker.spec
<1> DEFINE list == Uninstall[worker.spec]
           Gone(i) == list[i] \in seen /\ list[i] \notin claims
<1>1. /\ worker.spec \in SpecType /\ worker = [pc |-> worker.pc, spec |-> worker.spec]
      /\ misread \in BOOLEAN
  BY DEF StorageTypeOK, WorkerType
<1>2. PICK k \in 0 .. Len(list) :
         /\ SetClaims(claims \ (UpTo(list, k) \intersect seen))
         /\ IF k = Len(list) \/ Gone(k + 1) THEN Goto("record") ELSE Requeue
  BY DEF DeleteClaims
<1>3. At("delete") /\ pods' = pods /\ misread' = (misread \/ seen # claims)
  BY DEF DeleteClaims, Read
<1>4. claims' = claims \ (UpTo(list, k) \intersect seen)
  BY <1>2 DEF SetClaims
<1>5. worker'.spec = worker.spec
  BY <1>1, <1>2 DEF Goto, Requeue
<1>6. ~Requeue
  BY <1>1 DEF Requeue
<1>7. seen = claims /\ ~misread
  BY <1>3
<1>8. k = Len(list)
  BY <1>2, <1>6, <1>7
<1>9. claims' = claims \ AllOf(Uninstall[worker.spec])
  BY <1>4, <1>7, <1>8 DEF AllOf
<1>10. AllOf(Install[worker.spec]) \subseteq claims
  BY <1>3, <1>7 DEF UpToDate
<1>11. \A c \in Components : pods[c] = Pods[worker.spec][c]
  BY <1>3, <1>7 DEF Prepared
<1>12. ASSUME NEW x \in AllOf(Install[worker.spec]) PROVE x \notin AllOf(Uninstall[worker.spec])
  <2>1. x \in Claim
    BY <1>10 DEF StorageTypeOK
  <2>2. PICK c \in Components, u \in Usages : x = <<c, u>>
    BY <2>1 DEF Claim
  <2> QED
    BY <1>1, <1>12, <2>2, InstallIs, UninstallIs, ListsApart
<1>13. /\ AllOf(Install[worker.spec])' = AllOf(Install[worker.spec])
       /\ AllOf(Uninstall[worker.spec])' = AllOf(Uninstall[worker.spec])
       /\ \A c \in Components : (Pods[worker.spec][c])' = Pods[worker.spec][c]
  BY <1>5 DEF AllOf, UpTo, Install, Uninstall, Pods
<1> QED
  BY <1>3, <1>5, <1>9, <1>10, <1>11, <1>12, <1>13 DEF Applied

\* A reconcile that goes on to its next step, or ends by an error, works from the same
\* spec as before.
LEMMA GoingOn ==
  ASSUME StorageTypeOK, FromSpec, NEW pc \in {"write", "delete", "record"},
         ~At("idle"), Goto(pc) \/ Requeue, Syncing, NoEdit
  PROVE  FromSpec' /\ worker'.spec = worker.spec /\ worker'.pc \in {pc, "idle"}
            /\ (worker'.pc = "idle" => queued')
<1>1. worker = [pc |-> worker.pc, spec |-> worker.spec]
  BY DEF StorageTypeOK, WorkerType
<1>2. /\ worker'.spec = worker.spec
      /\ \/ worker'.pc = pc /\ queued' = queued
         \/ worker'.pc = "idle" /\ queued' = TRUE
  BY <1>1 DEF Goto, Requeue
<1> QED
  BY <1>2 DEF FromSpec, At, Syncing, NoEdit

LEMMA UpToDateNext ==
  ASSUME StoragesPlain, StorageTypeOK, Prepared, UpToDate, [Next]_vars
  PROVE  UpToDate'
<1>1. /\ worker.spec \in SpecType /\ spec \in SpecType /\ queued \in BOOLEAN
      /\ worker = [pc |-> worker.pc, spec |-> worker.spec]
      /\ guarded \in BOOLEAN /\ known \in BOOLEAN /\ misread \in BOOLEAN /\ raced \in BOOLEAN
  BY DEF StorageTypeOK, WorkerType
<1>2. FromSpec
  BY DEF UpToDate
<1>3. CASE WorkerStep
  <2>0. UNCHANGED <<guarded, spec, raced>> /\ NoEdit
    BY <1>3 DEF WorkerStep, NoEdit
  <2>1. CASE Begin
    <3>1. /\ At("idle") /\ UNCHANGED <<applied, known, claims, pods, misread>>
          /\ queued' = FALSE
      BY <2>1 DEF Begin, Syncing
    <3>2. CASE ~guarded /\ known /\ applied = spec
      <4>1. worker' = worker
        BY <2>1, <3>2 DEF Begin
      <4> QED
        BY <1>2, <2>0, <3>1, <3>2, <4>1, AppliedStays DEF UpToDate, FromSpec, Noticed, At
    <3>3. CASE ~(~guarded /\ known /\ applied = spec)
      <4>1. worker'.pc = "create" /\ worker'.spec = spec
        BY <2>1, <3>3 DEF Begin
      <4> QED
        BY <1>2, <2>0, <3>1, <3>3, <4>1, AppliedStays DEF UpToDate, FromSpec, Noticed, At
    <3> QED
      BY <3>2, <3>3
  <2>2. CASE CreateClaims
    <3>1. At("create") /\ (Goto("write") \/ Requeue) /\ Syncing
      BY <2>2 DEF CreateClaims, CreateClaimsOr
    <3>2. /\ FromSpec' /\ worker'.pc \in {"write", "idle"}
          /\ (worker'.pc = "idle" => queued')
      BY <1>2, <2>0, <3>1, GoingOn DEF At
    <3> QED
      BY <1>2, <2>0, <3>1, <3>2 DEF UpToDate, FromSpec, Noticed, At, Syncing
  <2>3. CASE WritePods
    <3>1. /\ At("write") /\ (Goto("delete") \/ Requeue) /\ Syncing
          /\ UNCHANGED <<claims, misread>>
      BY <2>3 DEF WritePods
    <3>2. /\ FromSpec' /\ worker'.pc \in {"delete", "idle"} /\ worker'.spec = worker.spec
          /\ (worker'.pc = "idle" => queued')
      BY <1>2, <2>0, <3>1, GoingOn DEF At
    <3>3. ~misread => AllOf(Install[worker.spec]) \subseteq claims
      BY <3>1 DEF Prepared
    <3>4. AllOf(Install[worker.spec])' = AllOf(Install[worker.spec])
      BY <3>2 DEF AllOf, UpTo, Install
    <3> QED
      BY <1>2, <2>0, <3>1, <3>2, <3>3, <3>4 DEF UpToDate, FromSpec, Noticed, At, Syncing
  <2>4. CASE DeleteClaims
    <3>1. At("delete") /\ (Goto("record") \/ Requeue) /\ Syncing
      BY <2>4 DEF DeleteClaims
    <3>2. /\ FromSpec' /\ worker'.pc \in {"record", "idle"}
          /\ (worker'.pc = "idle" => queued')
      BY <1>2, <2>0, <3>1, GoingOn DEF At
    <3>3. ~misread' /\ worker'.pc = "record" => Applied(worker.spec)'
      BY <2>4, DeleteApplies
    <3> QED
      BY <1>2, <2>0, <3>1, <3>2, <3>3 DEF UpToDate, FromSpec, Noticed, At, Syncing
  <2>5. CASE Record
    <3>1. At("record") /\ UNCHANGED <<claims, pods, misread>>
      BY <2>5 DEF Record
    <3>2. CASE Requeue /\ Syncing
      <4>1. /\ FromSpec' /\ worker'.pc \in {"record", "idle"}
            /\ (worker'.pc = "idle" => queued') /\ worker'.pc = "idle"
        BY <1>1, <1>2, <2>0, <3>1, <3>2, GoingOn DEF At, Requeue
      <4> QED
        BY <1>2, <2>0, <3>1, <3>2, <4>1 DEF UpToDate, FromSpec, Noticed, At, Syncing
    <3>3. CASE applied' = spec /\ known' = TRUE /\ Goto("idle")
      <4>1. worker'.pc = "idle" /\ worker'.spec = worker.spec /\ queued' = queued
        BY <1>1, <3>3 DEF Goto
      <4>2. FromSpec'
        BY <2>0, <3>3, <4>1 DEF FromSpec, At
      <4>3. (guarded /\ ~queued) \/ (~guarded /\ ~raced) => worker.spec = spec
        BY <1>2, <3>1 DEF FromSpec, At
      <4>4. ~misread => Applied(worker.spec)
        BY <3>1 DEF UpToDate
      <4>5. ~misread /\ worker.spec = spec => Applied(spec)'
        BY <2>0, <3>1, <4>4, AppliedStays
      <4> QED
        BY <1>1, <2>0, <3>1, <3>3, <4>1, <4>2, <4>3, <4>5 DEF UpToDate, Noticed, At
    <3> QED
      BY <2>5, <3>2, <3>3 DEF Record
  <2> QED
    BY <1>3, <2>1, <2>2, <2>3, <2>4, <2>5 DEF WorkerStep, Worker
<1>4. CASE InformerStep
  <2>1. UNCHANGED <<guarded, spec, applied, known, queued, worker, claims, pods, misread, raced>>
    BY <1>4 DEF InformerStep, ObserveClaims, Syncing, NoEdit
  <2> QED
    BY <1>2, <2>1 DEF UpToDate, FromSpec, Noticed, At, Applied, AllOf, UpTo, Install,
                      Uninstall, Pods
<1>5. CASE ResyncStep
  <2>1. /\ At("idle") /\ queued' = TRUE
        /\ UNCHANGED <<guarded, spec, applied, known, worker, claims, pods, misread, raced>>
    BY <1>5 DEF ResyncStep, Resync, Syncing, NoEdit
  <2> QED
    BY <1>2, <2>1, AppliedStays DEF UpToDate, FromSpec, Noticed, At
<1>6. CASE EditStorages
  <2>1. /\ queued' = TRUE /\ raced' = (raced \/ ~At("idle") \/ queued) /\ spec' # spec
        /\ UNCHANGED <<guarded, applied, known, worker, claims, pods, misread>>
    BY <1>6 DEF EditStorages, Syncing
  <2>2. ~guarded /\ ~raced' => At("idle") /\ ~queued /\ ~raced /\ applied = spec
    BY <1>2, <2>1 DEF FromSpec
  <2>3. FromSpec'
    BY <2>1, <2>2 DEF FromSpec, At
  <2>4. Applied(worker.spec) => Applied(worker.spec)'
    BY <2>1, AppliedStays
  <2>5. AllOf(Install[worker.spec])' = AllOf(Install[worker.spec])
    BY <2>1 DEF AllOf, UpTo, Install
  <2> QED
    BY <2>1, <2>2, <2>3, <2>4, <2>5 DEF UpToDate, Noticed, At
<1>7. CASE RestartStep
  <2>1. queued' = TRUE /\ worker'.pc = "idle" /\ known' = FALSE /\ UNCHANGED misread
    BY <1>1, <1>7 DEF RestartStep, Restart, Requeue
  <2> QED
    BY <2>1 DEF UpToDate, FromSpec, Noticed, At
<1>8. CASE UNCHANGED vars
  <2>1. UNCHANGED <<guarded, spec, applied, known, queued, worker, claims, pods, misread, raced>>
    BY <1>8 DEF vars
  <2> QED
    BY <1>2, <2>1 DEF UpToDate, FromSpec, Noticed, At, Applied, AllOf, UpTo, Install,
                      Uninstall, Pods
<1> QED
  BY <1>3, <1>4, <1>5, <1>6, <1>7, <1>8 DEF Next

\* What is up to date is as the spec asks.
LEMMA UpToDateIsApplied ==
  ASSUME StoragesPlain, StoragesMeant, StoragesComplete, StorageTypeOK, UpToDate
  PROVE  StoragesApplied
<1> SUFFICES ASSUME At("idle"), ~queued, ~misread, Noticed, NEW c \in Components, NEW u \in Usages
             PROVE  Provided(c, u)
  BY DEF StoragesApplied, AllProvided, Noticed
<1>1. spec \in SpecType
  BY DEF StorageTypeOK
<1>2. /\ pods[c] = Pods[spec][c]
      /\ AllOf(Install[spec]) \subseteq claims
      /\ AllOf(Uninstall[spec]) \intersect claims = {}
  BY DEF UpToDate, Applied
<1>3. Made(spec, c, u)
  BY <1>1, MadeAsAsked
<1>4. /\ Listed(spec, c, u, PVC) => <<c, u>> \in claims
      /\ Listed(spec, c, u, NotPVC) => <<c, u>> \notin claims
  BY <1>1, <1>2, InstallIs, UninstallIs
<1>5. CASE Asked(spec, c, u) = "pvc"
  BY <1>2, <1>3, <1>4, <1>5 DEF Made, Provided
<1>6. CASE Asked(spec, c, u) = "ephemeral"
  BY <1>2, <1>3, <1>4, <1>6 DEF Made, Provided
<1>7. CASE Asked(spec, c, u) \notin {"pvc", "ephemeral"}
  BY <1>2, <1>3, <1>7 DEF Made, Provided
<1> QED
  BY <1>5, <1>6, <1>7

\* When a reconcile is through and nothing is queued, everything is as the spec asks,
\* with operand protection, and without it unless an edit came before the last one was
\* applied.
THEOREM StoragesAreApplied ==
  ASSUME StoragesPlain, StoragesMeant, StoragesComplete, BoundsTyped
  PROVE  Spec => []StoragesApplied
<1> DEFINE Whole == StorageTypeOK /\ Inv /\ UpToDate
<1>1. Init => Whole
  BY StorageTypeInit, InvInit, UpToDateInit
<1>2. Whole /\ [Next]_vars => Whole'
  BY StorageTypeNext, InvNext, UpToDateNext, SpecsAgreeAlways DEF Inv
<1>3. Whole => StoragesApplied
  BY UpToDateIsApplied
<1> QED
  BY <1>1, <1>2, <1>3, PTL DEF Spec
=============================================================================

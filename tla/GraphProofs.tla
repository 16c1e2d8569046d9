---------------------------- MODULE GraphProofs -----------------------------
(***************************************************************************)
(* What is proved of AbstractGraph and of the lists the components keep:   *)
(* every operation of the graph leaves a sound graph sound, and changes of *)
(* it what its name says and no more.                                      *)
(***************************************************************************)
EXTENDS GraphWalk, SequenceTheorems, FiniteSetTheorems, WellFoundedInduction, TLAPS

-----------------------------------------------------------------------------
(* Recursion and induction over an initial segment of Nat, of which the    *)
(* walks along a list, a cascade or a chain of parents are instances.      *)

LEMMA LeastNumber ==
    ASSUME NEW T \in SUBSET Nat, T # {}
    PROVE  \E x \in T : \A y \in T : x <= y
<1>1. PICK x \in T : \A y \in T : ~(<<y, x>> \in OpToRel(<, Nat))
  BY NatLessThanWellFounded, WFMin, Zenon
<1>2. \A y \in T : ~(y < x)
  BY <1>1 DEF OpToRel
<1>3. QED BY <1>2

LEMMA Induction ==
    ASSUME NEW n \in Nat, NEW T, 0 \in T, \A k \in 1 .. n : k - 1 \in T => k \in T
    PROVE  \A k \in 0 .. n : k \in T
<1> SUFFICES ASSUME ~(0 .. n \subseteq T) PROVE FALSE
  OBVIOUS
<1> DEFINE missed == {k \in 0 .. n : k \notin T}
<1>1. PICK k \in missed : \A j \in missed : k <= j
  <2>1. missed \in SUBSET Nat /\ missed # {}
    OBVIOUS
  <2> HIDE DEF missed
  <2>2. QED BY <2>1, LeastNumber
<1>2. k \in 1 .. n /\ k - 1 \in T
  BY <1>1
<1>3. QED BY <1>1, <1>2

Steps(f, n, S, a, step) ==
    /\ f \in [0 .. n -> S] /\ f[0] = a
    /\ \A k \in 1 .. n : f[k] = step[<<k, f[k - 1]>>]

LEMMA Recursion ==
    ASSUME NEW n \in Nat, NEW S, NEW a \in S, NEW step \in [(1 .. n) \X S -> S]
    PROVE  \E f : Steps(f, n, S, a, step)
<1> DEFINE Runs(f, m) == Steps(f, m, S, a, step)
           T == {m \in 0 .. n : \E f : Runs(f, m)}
<1>1. 0 \in T
  <2>1. Runs([k \in 0 .. 0 |-> a], 0)
    BY DEF Steps
  <2> HIDE DEF Runs
  <2>2. QED BY <2>1
<1>2. ASSUME NEW m \in 1 .. n, m - 1 \in T PROVE m \in T
  <2>1. PICK f : Runs(f, m - 1)
    BY <1>2
  <2> DEFINE g == [k \in 0 .. m |-> IF k = m THEN step[<<m, f[m - 1]>>] ELSE f[k]]
  <2>2. f[m - 1] \in S
    BY <2>1 DEF Steps
  <2>3. step[<<m, f[m - 1]>>] \in S
    BY <2>2
  <2>4. ASSUME NEW k \in 1 .. m PROVE g[k] = step[<<k, g[k - 1]>>]
    <3>1. CASE k = m
      <4>1. m - 1 \in 0 .. m /\ m - 1 # m /\ m \in 0 .. m
        OBVIOUS
      <4>2. g[m] = step[<<m, f[m - 1]>>] /\ g[m - 1] = f[m - 1]
        BY <4>1
      <4> HIDE DEF g
      <4>3. QED BY <3>1, <4>2
    <3>2. CASE k # m
      <4>1. k \in 1 .. m - 1 /\ k - 1 # m /\ k - 1 \in 0 .. m
        BY <3>2
      <4>2. g[k] = f[k] /\ g[k - 1] = f[k - 1]
        BY <4>1
      <4>3. f[k] = step[<<k, f[k - 1]>>]
        BY <2>1, <4>1 DEF Steps
      <4> HIDE DEF g
      <4>4. QED BY <4>2, <4>3
    <3>3. QED BY <3>1, <3>2
  <2>5. g \in [0 .. m -> S]
    BY <2>1, <2>3 DEF Steps
  <2>6. g[0] = a
    BY <2>1 DEF Steps
  <2>7. Runs(g, m)
    BY <2>4, <2>5, <2>6 DEF Steps
  <2> HIDE DEF Runs
  <2>8. QED BY <2>7
<1>3. n \in T
  <2> HIDE DEF T
  <2>1. QED BY <1>1, <1>2, Induction
<1>4. QED BY <1>3

-----------------------------------------------------------------------------
(* Lists.                                                                  *)

Distinct(s) == \A i, j \in 1 .. Len(s) : s[i] = s[j] => i = j

LEMMA NoRepeatsIsDistinct ==
    ASSUME NEW S, NEW s \in Seq(S)
    PROVE  NoRepeats(s) <=> Distinct(s)
<1> DEFINE f == [i \in 1 .. Len(s) |-> s[i]]
<1>1. IsFiniteSet(1 .. Len(s)) /\ Cardinality(1 .. Len(s)) = Len(s)
  <2>1. Len(s) \in Nat
    OBVIOUS
  <2>2. QED BY <2>1, FS_Interval
<1>2. f \in Surjection(1 .. Len(s), Elems(s))
  BY DEF Surjection, Elems
<1>3. Cardinality(Elems(s)) = Len(s) <=> f \in Injection(1 .. Len(s), Elems(s))
  BY <1>1, <1>2, FS_Surjection
<1>4. f \in Injection(1 .. Len(s), Elems(s)) <=> Distinct(s)
  BY <1>2 DEF Injection, IsInjective, Surjection, Distinct
<1>5. QED BY <1>3, <1>4 DEF NoRepeats

LEMMA ElemsOfAppend ==
    ASSUME NEW S, NEW s \in Seq(S), NEW x \in S
    PROVE  /\ Elems(Append(s, x)) = Elems(s) \cup {x}
           /\ Distinct(s) /\ x \notin Elems(s) => Distinct(Append(s, x))
BY DEF Elems, Distinct

LEMMA ElemsOfButLast ==
    ASSUME NEW S, NEW s \in Seq(S), s # <<>>, Distinct(s)
    PROVE  /\ ButLast(s) \in Seq(S) /\ Distinct(ButLast(s)) /\ LastOf(s) \in S
           /\ LastOf(s) \in Elems(s) /\ Elems(ButLast(s)) = Elems(s) \ {LastOf(s)}
BY DEF Elems, Distinct, ButLast, LastOf

(* Only() keeps some of the members, in their order.                       *)
Picked(s, K, t, m, h) ==
    /\ h \in [1 .. Len(t) -> 1 .. m]
    /\ \A i, j \in 1 .. Len(t) : i < j => h[i] < h[j]
    /\ \A i \in 1 .. Len(t) : t[i] = s[h[i]] /\ s[h[i]] \in K
    /\ \A l \in 1 .. m : s[l] \in K => \E i \in 1 .. Len(t) : h[i] = l

LEMMA PickOneMore ==
    ASSUME NEW S, NEW s \in Seq(S), NEW K, NEW m \in 1 .. Len(s), NEW t \in Seq(S),
           \E h : Picked(s, K, t, m - 1, h)
    PROVE  \E h : Picked(s, K, IF s[m] \in K THEN Append(t, s[m]) ELSE t, m, h)
<1>1. PICK h : Picked(s, K, t, m - 1, h)
  OBVIOUS
<1>2. CASE s[m] \in K
  <2> DEFINE g == [i \in 1 .. Len(t) + 1 |-> IF i = Len(t) + 1 THEN m ELSE h[i]]
  <2>1. /\ Len(Append(t, s[m])) = Len(t) + 1 /\ Len(t) \in Nat
        /\ Append(t, s[m])[Len(t) + 1] = s[m]
        /\ \A i \in 1 .. Len(t) : Append(t, s[m])[i] = t[i]
    OBVIOUS
  <2>2. /\ g[Len(t) + 1] = m /\ \A i \in 1 .. Len(t) : g[i] = h[i] /\ h[i] \in 1 .. m - 1
        /\ g \in [1 .. Len(t) + 1 -> 1 .. m]
    BY <1>1, <2>1, SMTT(30) DEF Picked
  <2> HIDE DEF g
  <2>3. \A i, j \in 1 .. Len(t) + 1 : i < j => g[i] < g[j]
    <3>1. SUFFICES ASSUME NEW i \in 1 .. Len(t) + 1, NEW j \in 1 .. Len(t) + 1, i < j
                   PROVE  g[i] < g[j]
      OBVIOUS
    <3>2. i \in 1 .. Len(t)
      BY <2>1, <3>1
    <3>3. CASE j \in 1 .. Len(t)
      BY <1>1, <2>2, <3>1, <3>2, <3>3 DEF Picked
    <3>4. CASE j = Len(t) + 1
      BY <2>2, <3>2, <3>4
    <3>5. QED BY <2>1, <3>3, <3>4
  <2>4. \A i \in 1 .. Len(t) + 1 : Append(t, s[m])[i] = s[g[i]] /\ s[g[i]] \in K
    <3>1. SUFFICES ASSUME NEW i \in 1 .. Len(t) + 1
                   PROVE  Append(t, s[m])[i] = s[g[i]] /\ s[g[i]] \in K
      OBVIOUS
    <3>2. CASE i \in 1 .. Len(t)
      BY <1>1, <2>1, <2>2, <3>2 DEF Picked
    <3>3. CASE i = Len(t) + 1
      BY <1>2, <2>1, <2>2, <3>3
    <3>4. QED BY <2>1, <3>2, <3>3
  <2>5. \A l \in 1 .. m : s[l] \in K => \E i \in 1 .. Len(t) + 1 : g[i] = l
    <3>1. SUFFICES ASSUME NEW l \in 1 .. m, s[l] \in K PROVE \E i \in 1 .. Len(t) + 1 : g[i] = l
      OBVIOUS
    <3>2. CASE l = m
      BY <2>1, <2>2, <3>2
    <3>3. CASE l # m
      <4>1. l \in 1 .. m - 1
        BY <3>3
      <4>2. PICK i \in 1 .. Len(t) : h[i] = l
        BY <1>1, <3>1, <4>1 DEF Picked
      <4>3. QED BY <2>1, <2>2, <4>2
    <3>4. QED BY <3>2, <3>3
  <2>6. Picked(s, K, Append(t, s[m]), m, g)
    BY <2>1, <2>2, <2>3, <2>4, <2>5 DEF Picked
  <2>7. QED BY <1>2, <2>6
<1>3. CASE s[m] \notin K
  <2>1. Picked(s, K, t, m, h)
    BY <1>1, <1>3 DEF Picked
  <2>2. QED BY <1>3, <2>1
<1>4. QED BY <1>2, <1>3

LEMMA OnlyPicks ==
    ASSUME NEW S, NEW s \in Seq(S), NEW K
    PROVE  Only(s, K) \in Seq(S) /\ \E h : Picked(s, K, Only(s, K), Len(s), h)
<1> DEFINE More(t, k) == IF s[k] \in K THEN Append(t, s[k]) ELSE t
           IsUpTo(f) == f = [k \in 0 .. Len(s) |->
                                IF k = 0 THEN <<>>
                                ELSE IF s[k] \in K THEN Append(f[k - 1], s[k]) ELSE f[k - 1]]
           upTo == CHOOSE f : IsUpTo(f)
           step == [p \in (1 .. Len(s)) \X Seq(S) |-> More(p[2], p[1])]
           T == {m \in 0 .. Len(s) : upTo[m] \in Seq(S) /\ \E h : Picked(s, K, upTo[m], m, h)}
<1>1. Len(s) \in Nat /\ <<>> \in Seq(S)
  OBVIOUS
<1>2. \A t \in Seq(S), k \in 1 .. Len(s) : More(t, k) \in Seq(S) /\ step[<<k, t>>] = More(t, k)
  OBVIOUS
<1>3. step \in [(1 .. Len(s)) \X Seq(S) -> Seq(S)]
  BY <1>2
<1>4. \E f : IsUpTo(f)
  <2>1. PICK f : Steps(f, Len(s), Seq(S), <<>>, step)
    <3> HIDE DEF step
    <3>1. QED BY <1>1, <1>3, Recursion
  <2>2. \A k \in 1 .. Len(s) : f[k] = More(f[k - 1], k)
    <3> HIDE DEF More, step
    <3>1. \A k \in 1 .. Len(s) : k - 1 \in 0 .. Len(s)
      BY <1>1
    <3>2. QED BY <1>2, <2>1, <3>1 DEF Steps
  <2>3. \A k \in 0 .. Len(s) : k = 0 \/ k \in 1 .. Len(s)
    BY <1>1
  <2>4. IsUpTo(f)
    BY <2>1, <2>2, <2>3 DEF Steps
  <2> HIDE DEF IsUpTo
  <2>5. QED BY <2>4
<1>5. IsUpTo(upTo)
  <2> HIDE DEF IsUpTo
  <2>1. QED BY <1>4
<1>6. Only(s, K) = upTo[Len(s)]
  BY DEF Only
<1> HIDE DEF upTo
<1>7. upTo[0] = <<>> /\ \A k \in 1 .. Len(s) : upTo[k] = More(upTo[k - 1], k)
  <2>1. \A k \in 1 .. Len(s) : k \in 0 .. Len(s) /\ k # 0
    BY <1>1
  <2>2. 0 \in 0 .. Len(s)
    BY <1>1
  <2>3. QED BY <1>5, <2>1, <2>2
<1>8. 0 \in T
  <2>1. Picked(s, K, <<>>, 0, <<>>)
    BY DEF Picked
  <2>2. 0 \in 0 .. Len(s)
    BY <1>1
  <2>3. QED BY <1>1, <1>7, <2>1, <2>2
<1>9. ASSUME NEW m \in 1 .. Len(s), m - 1 \in T PROVE m \in T
  <2>1. upTo[m] = More(upTo[m - 1], m) /\ m \in 0 .. Len(s)
    BY <1>1, <1>7
  <2>2. upTo[m - 1] \in Seq(S) /\ \E h : Picked(s, K, upTo[m - 1], m - 1, h)
    BY <1>9
  <2>3. upTo[m] \in Seq(S)
    BY <1>2, <2>1, <2>2
  <2>4. \E h : Picked(s, K, upTo[m], m, h)
    BY <2>1, <2>2, PickOneMore
  <2>5. QED BY <2>1, <2>3, <2>4
<1>10. Len(s) \in T
  <2> HIDE DEF T
  <2>1. \A k \in 0 .. Len(s) : k \in T
    BY <1>1, <1>8, <1>9, Induction, Zenon
  <2>2. QED BY <1>1, <2>1
<1>11. QED BY <1>6, <1>10

LEMMA ElemsOfOnly ==
    ASSUME NEW S, NEW s \in Seq(S), NEW K
    PROVE  /\ Only(s, K) \in Seq(S) /\ Elems(Only(s, K)) = Elems(s) \cap K
           /\ Distinct(s) => Distinct(Only(s, K))
<1>1. PICK h : Picked(s, K, Only(s, K), Len(s), h)
  BY OnlyPicks
<1>2. Only(s, K) \in Seq(S)
  BY OnlyPicks
<1>3. Elems(Only(s, K)) \subseteq Elems(s) \cap K
  BY <1>1, <1>2 DEF Picked, Elems
<1>4. Elems(s) \cap K \subseteq Elems(Only(s, K))
  <2>1. SUFFICES ASSUME NEW m \in 1 .. Len(s), s[m] \in K PROVE s[m] \in Elems(Only(s, K))
    BY DEF Elems
  <2>2. PICK i \in 1 .. Len(Only(s, K)) : h[i] = m
    BY <1>1, <2>1 DEF Picked
  <2>3. QED BY <1>1, <2>2 DEF Picked, Elems
<1>5. ASSUME Distinct(s), NEW i \in 1 .. Len(Only(s, K)), NEW j \in 1 .. Len(Only(s, K)),
             Only(s, K)[i] = Only(s, K)[j]
      PROVE  i = j
  <2>1. h[i] = h[j]
    BY <1>1, <1>5 DEF Picked, Distinct
  <2>2. i \in Int /\ j \in Int /\ h[i] \in Int /\ h[j] \in Int
    BY <1>1, <1>2 DEF Picked
  <2>3. QED BY <1>1, <2>1, <2>2 DEF Picked
<1>6. QED BY <1>2, <1>3, <1>4, <1>5 DEF Distinct

LEMMA ElemsOfWithout ==
    ASSUME NEW S, NEW s \in Seq(S), NEW x
    PROVE  /\ Without(s, x) \in Seq(S) /\ Elems(Without(s, x)) = Elems(s) \ {x}
           /\ Distinct(s) => Distinct(Without(s, x))
<1>1. Elems(s) \cap (Elems(s) \ {x}) = Elems(s) \ {x}
  OBVIOUS
<1>2. QED BY <1>1, ElemsOfOnly DEF Without

LEMMA ElemsOfReverse ==
    ASSUME NEW S, NEW s \in Seq(S)
    PROVE  /\ Sequence!Reverse(s) \in Seq(S) /\ Elems(Sequence!Reverse(s)) = Elems(s)
           /\ Distinct(s) => Distinct(Sequence!Reverse(s))
<1> DEFINE n == Len(s)
           t == Sequence!Reverse(s)
<1>1. n \in Nat /\ s \in [1 .. n -> S]
  OBVIOUS
<1>2. t = [i \in 1 .. n |-> s[(n - i) + 1]]
  BY DEF Sequence!Reverse
<1>3. \A i \in 1 .. n : (n - i) + 1 \in 1 .. n /\ (n - ((n - i) + 1)) + 1 = i
  BY <1>1
<1>4. t \in [1 .. n -> S]
  BY <1>1, <1>2, <1>3
<1>5. t \in Seq(S) /\ Len(t) = n
  BY <1>1, <1>4
<1>6. \A i \in 1 .. n : t[i] = s[(n - i) + 1]
  BY <1>2
<1> HIDE DEF t
<1>7. \A i \in 1 .. n : \E j \in 1 .. n : s[i] = t[j]
  BY <1>3, <1>6
<1>8. \A i \in 1 .. n : \E j \in 1 .. n : t[i] = s[j]
  BY <1>3, <1>6
<1>9. ASSUME NEW x \in Elems(t) PROVE x \in Elems(s)
  <2>1. PICK i \in 1 .. n : x = t[i]
    BY <1>5 DEF Elems
  <2> QED BY <1>8, <2>1 DEF Elems
<1>10. ASSUME NEW x \in Elems(s) PROVE x \in Elems(t)
  <2>1. PICK i \in 1 .. n : x = s[i]
    BY DEF Elems
  <2> QED BY <1>5, <1>7, <2>1 DEF Elems
<1>11. Elems(t) = Elems(s)
  BY <1>9, <1>10
<1>12. ASSUME Distinct(s), NEW i \in 1 .. n, NEW j \in 1 .. n, t[i] = t[j] PROVE i = j
  <2>1. s[(n - i) + 1] = s[(n - j) + 1]
    BY <1>6, <1>12
  <2>2. (n - i) + 1 = (n - j) + 1
    BY <1>3, <1>12, <2>1 DEF Distinct
  <2> QED BY <1>1, <2>2
<1>13. Distinct(s) => Distinct(t)
  BY <1>5, <1>12 DEF Distinct
<1> QED BY <1>5, <1>11, <1>13 DEF t

LEMMA ElemsOfTail ==
    ASSUME NEW S, NEW s \in Seq(S), s # <<>>
    PROVE  /\ Tail(s) \in Seq(S) /\ Head(s) \in S
           /\ Elems(s) = {Head(s)} \cup Elems(Tail(s))
           /\ Distinct(s) => Distinct(Tail(s)) /\ Head(s) \notin Elems(Tail(s))
<1> DEFINE n == Len(s)
           t == Tail(s)
<1>1. /\ n \in Nat /\ n > 0 /\ t \in Seq(S) /\ Len(t) = n - 1
      /\ \A i \in 1 .. n - 1 : t[i] = s[i + 1] 
      /\ Head(s) = s[1] /\ s[1] \in S
  OBVIOUS
<1> HIDE DEF t
<1>2. \A i \in 1 .. n : i = 1 \/ (i - 1 \in 1 .. n - 1 /\ s[i] = t[i - 1])
  BY <1>1
<1>3. \A i \in 1 .. n - 1 : i + 1 \in 1 .. n
  BY <1>1
<1>4. ASSUME NEW x \in Elems(s) PROVE x = s[1] \/ x \in Elems(t)
  <2>1. PICK i \in 1 .. n : x = s[i]
    BY DEF Elems
  <2>2. CASE i - 1 \in 1 .. n - 1 /\ s[i] = t[i - 1]
    BY <1>1, <2>1, <2>2 DEF Elems
  <2> QED BY <1>2, <2>1, <2>2
<1>5. ASSUME NEW x \in Elems(t) PROVE x \in Elems(s)
  <2>1. PICK i \in 1 .. n - 1 : x = t[i]
    BY <1>1 DEF Elems
  <2>2. x = s[i + 1] /\ i + 1 \in 1 .. n
    BY <1>1, <1>3, <2>1
  <2> QED BY <2>2 DEF Elems
<1>6. s[1] \in Elems(s)
  BY <1>1 DEF Elems
<1>7. Elems(s) = {s[1]} \cup Elems(t)
  BY <1>4, <1>5, <1>6
<1>8. ASSUME Distinct(s) PROVE Distinct(t) /\ s[1] \notin Elems(t)
  <2>1. ASSUME NEW i \in 1 .. n - 1, NEW j \in 1 .. n - 1, t[i] = t[j] PROVE i = j
    <3>1. i + 1 = j + 1
      BY <1>1, <1>3, <1>8, <2>1 DEF Distinct
    <3> QED BY <3>1
  <2>2. ASSUME NEW i \in 1 .. n - 1 PROVE t[i] # s[1]
    <3>1. i + 1 # 1 /\ 1 \in 1 .. n /\ i + 1 \in 1 .. n
      BY <1>1
    <3> QED BY <1>1, <1>8, <3>1 DEF Distinct
  <2> QED BY <1>1, <2>1, <2>2 DEF Distinct, Elems
<1> QED BY <1>1, <1>7, <1>8 DEF t

LEMMA FirstOf ==
    ASSUME NEW S, NEW s \in Seq(S)
    PROVE  /\ s = <<>> <=> Elems(s) = {}
           /\ s # <<>> => s[1] \in Elems(s)
<1>1. Len(s) \in Nat /\ (s = <<>> <=> Len(s) = 0)
  OBVIOUS
<1>2. s # <<>> => 1 \in 1 .. Len(s)
  BY <1>1
<1>3. s # <<>> => s[1] \in Elems(s)
  BY <1>2 DEF Elems
<1>4. s = <<>> => Elems(s) = {}
  BY <1>1 DEF Elems
<1> QED BY <1>3, <1>4

-----------------------------------------------------------------------------
(* The inductive form of GraphIsSound, for nodes and edges that bear the   *)
(* labels of W.                                                            *)

SomeIds == Nat \X Nat
NodeSlot(W) == [gen : Nat, what : W, out : Seq(SomeIds), in : Seq(SomeIds)]
EdgeSlot(W) == [gen : Nat, from : SomeIds, to : SomeIds, what : W]
GraphRecord(W) ==
    [nodes : [NodeIndices -> NodeSlot(W)], edges : [EdgeIndices -> EdgeSlot(W)],
     freeNodes : Seq(NodeIndices), freeEdges : Seq(EdgeIndices),
     nodesUsed : 0 .. MaxNodes, edgesUsed : 0 .. MaxEdges,
     nodeNext : [NodeIndices -> Nat \ {0}], edgeNext : [EdgeIndices -> Nat \ {0}],
     version : Nat]

NodeSlotsHold(g) ==
    /\ \A i \in NodeIndices :
          /\ i > g.nodesUsed => g.nodes[i].gen = 0 /\ g.nodeNext[i] = 1
          /\ g.nodes[i].gen \in {0, g.nodeNext[i]}
          /\ g.nodes[i].gen = 0 => g.nodes[i] = NoNode
    /\ Distinct(g.freeNodes)
    /\ Elems(g.freeNodes) = {i \in 1 .. g.nodesUsed : g.nodes[i].gen = 0}
EdgeSlotsHold(g) ==
    /\ \A i \in EdgeIndices :
          /\ i > g.edgesUsed => g.edges[i].gen = 0 /\ g.edgeNext[i] = 1
          /\ g.edges[i].gen \in {0, g.edgeNext[i]}
          /\ g.edges[i].gen = 0 => g.edges[i] = NoEdge
    /\ Distinct(g.freeEdges)
    /\ Elems(g.freeEdges) = {i \in 1 .. g.edgesUsed : g.edges[i].gen = 0}
EntriesHold(g) ==
    \A n \in LiveNodes(g) :
        LET node == NodeAt(g, n) IN
        /\ Distinct(node.out) /\ Distinct(node.in)
        /\ Elems(node.out) = {e \in LiveEdges(g) : EdgeAt(g, e).from = n}
        /\ Elems(node.in) = {e \in LiveEdges(g) : EdgeAt(g, e).to = n}
IsGraph(g, W) ==
    /\ g \in GraphRecord(W) /\ "none" \in W
    /\ NodeSlotsHold(g) /\ EdgeSlotsHold(g) /\ EntriesHold(g) /\ EndsAreLive(g)

LEMMA LiveEdge ==
    ASSUME NEW W, NEW g \in GraphRecord(W), EdgeSlotsHold(g), NEW e
    PROVE  /\ e \in LiveEdges(g) <=> /\ e \in EdgeIndices \X Nat
                                     /\ e[2] # 0 /\ g.edges[e[1]].gen = e[2]
           /\ e \in LiveEdges(g) => EdgeAt(g, e) = g.edges[e[1]] /\ e \in SomeIds
           /\ e \in SomeIds => (EdgeAt(g, e) = NoEdge <=> e \notin LiveEdges(g))
<1>1. \A i \in EdgeIndices : g.edges[i] \in EdgeSlot(W) /\ i \in Nat
  BY GraphAssumption DEF GraphRecord, EdgeIndices
<1>2. e \in LiveEdges(g) <=> \E i \in EdgeIndices : g.edges[i].gen # 0 /\ e = <<i, g.edges[i].gen>>
  BY DEF LiveEdges
<1>3. e \in LiveEdges(g) <=> e \in EdgeIndices \X Nat /\ e[2] # 0 /\ g.edges[e[1]].gen = e[2]
  BY <1>1, <1>2 DEF EdgeSlot
<1>4. e \in LiveEdges(g) => EdgeAt(g, e) = g.edges[e[1]] /\ e \in SomeIds
  BY <1>1, <1>3 DEF EdgeAt, SomeIds
<1>5. e \in LiveEdges(g) => EdgeAt(g, e).gen # 0
  BY <1>1, <1>3, <1>4
<1>6. NoEdge.gen = 0
  BY DEF NoEdge
<1>7. ASSUME e \in SomeIds, e \notin LiveEdges(g) PROVE EdgeAt(g, e) = NoEdge
  <2>1. CASE e[1] \in EdgeIndices /\ g.edges[e[1]].gen = e[2]
    <3>1. e[2] = 0
      BY <1>3, <1>7, <2>1 DEF SomeIds
    <3>2. QED BY <2>1, <3>1 DEF EdgeAt, EdgeSlotsHold
  <2>2. CASE ~(e[1] \in EdgeIndices /\ g.edges[e[1]].gen = e[2])
    BY <2>2 DEF EdgeAt
  <2>3. QED BY <2>1, <2>2
<1>8. QED BY <1>3, <1>4, <1>5, <1>6, <1>7

LEMMA LiveNode ==
    ASSUME NEW W, NEW g \in GraphRecord(W), NodeSlotsHold(g), NEW n
    PROVE  /\ n \in LiveNodes(g) <=> /\ n \in NodeIndices \X Nat
                                     /\ n[2] # 0 /\ g.nodes[n[1]].gen = n[2]
           /\ n \in LiveNodes(g) => NodeAt(g, n) = g.nodes[n[1]] /\ n \in SomeIds
           /\ n \in SomeIds => (NodeAt(g, n) = NoNode <=> n \notin LiveNodes(g))
<1>1. \A i \in NodeIndices : g.nodes[i] \in NodeSlot(W) /\ i \in Nat
  BY GraphAssumption DEF GraphRecord, NodeIndices
<1>2. n \in LiveNodes(g) <=> \E i \in NodeIndices : g.nodes[i].gen # 0 /\ n = <<i, g.nodes[i].gen>>
  BY DEF LiveNodes
<1>3. n \in LiveNodes(g) <=> n \in NodeIndices \X Nat /\ n[2] # 0 /\ g.nodes[n[1]].gen = n[2]
  BY <1>1, <1>2 DEF NodeSlot
<1>4. n \in LiveNodes(g) => NodeAt(g, n) = g.nodes[n[1]] /\ n \in SomeIds
  BY <1>1, <1>3 DEF NodeAt, SomeIds
<1>5. n \in LiveNodes(g) => NodeAt(g, n).gen # 0
  BY <1>1, <1>3, <1>4
<1>6. NoNode.gen = 0
  BY DEF NoNode
<1>7. ASSUME n \in SomeIds, n \notin LiveNodes(g) PROVE NodeAt(g, n) = NoNode
  <2>1. CASE n[1] \in NodeIndices /\ g.nodes[n[1]].gen = n[2]
    <3>1. n[2] = 0
      BY <1>3, <1>7, <2>1 DEF SomeIds
    <3>2. QED BY <2>1, <3>1 DEF NodeAt, NodeSlotsHold
  <2>2. CASE ~(n[1] \in NodeIndices /\ g.nodes[n[1]].gen = n[2])
    BY <2>2 DEF NodeAt
  <2>3. QED BY <2>1, <2>2
<1>8. QED BY <1>3, <1>4, <1>5, <1>6, <1>7

LEMMA EdgesAreIds ==
    ASSUME NEW W, NEW g, IsGraph(g, W), NEW e \in LiveEdges(g)
    PROVE  e \in SomeIds /\ EdgeAt(g, e).from \in LiveNodes(g) /\ EdgeAt(g, e).to \in LiveNodes(g)
<1>1. g \in GraphRecord(W) /\ EdgeSlotsHold(g) /\ EndsAreLive(g)
  BY DEF IsGraph
<1> QED BY <1>1, LiveEdge DEF EndsAreLive, EdgeFits

(* The invariant is what GraphIsSound says, and more.                      *)
LEMMA GraphsAreSound ==
    ASSUME NEW W, NEW g, IsGraph(g, W)
    PROVE  AdjacencyIsExact(g) /\ EndsAreLive(g) /\ IndicesAreKept(g) /\ DeadIdsStayDead(g)
<1>1. g \in GraphRecord(W) /\ NodeSlotsHold(g) /\ EdgeSlotsHold(g) /\ EntriesHold(g)
  BY DEF IsGraph
<1>2. AdjacencyIsExact(g)
  <2>1. ASSUME NEW n \in LiveNodes(g)
        PROVE  NoRepeats(NodeAt(g, n).out) /\ NoRepeats(NodeAt(g, n).in)
    <3>1. NodeAt(g, n).out \in Seq(SomeIds) /\ NodeAt(g, n).in \in Seq(SomeIds)
      <4>1. NodeAt(g, n) = g.nodes[n[1]] /\ n[1] \in NodeIndices
        BY <1>1, LiveNode
      <4>2. NodeAt(g, n) \in NodeSlot(W)
        BY <1>1, <4>1 DEF GraphRecord
      <4>3. QED BY <4>2 DEF NodeSlot
    <3>2. Distinct(NodeAt(g, n).out) /\ Distinct(NodeAt(g, n).in)
      BY <1>1 DEF EntriesHold
    <3>3. QED BY <3>1, <3>2, NoRepeatsIsDistinct
  <2>2. QED BY <1>1, <2>1 DEF EntriesHold, AdjacencyIsExact
<1>3. IndicesAreKept(g)
  <2>1. g.freeNodes \in Seq(NodeIndices) /\ g.freeEdges \in Seq(EdgeIndices)
    BY <1>1 DEF GraphRecord
  <2>2. NoRepeats(g.freeNodes) /\ NoRepeats(g.freeEdges)
    BY <1>1, <2>1, NoRepeatsIsDistinct DEF NodeSlotsHold, EdgeSlotsHold
  <2>3. QED BY <1>1, <2>2 DEF IndicesAreKept, NodeSlotsHold, EdgeSlotsHold
<1>4. DeadIdsStayDead(g)
  <2>1. 1 .. g.nodesUsed \subseteq NodeIndices /\ 1 .. g.edgesUsed \subseteq EdgeIndices
    BY <1>1, GraphAssumption DEF GraphRecord, NodeIndices, EdgeIndices
  <2>2. QED BY <1>1, <2>1 DEF DeadIdsStayDead, NodeSlotsHold, EdgeSlotsHold
<1>5. QED BY <1>2, <1>3, <1>4 DEF IsGraph

LEMMA EmptyGraphIsSound ==
    ASSUME NEW W, "none" \in W
    PROVE  /\ IsGraph(EmptyGraph, W)
           /\ LiveNodes(EmptyGraph) = {} /\ LiveEdges(EmptyGraph) = {}
<1>1. EmptyGraph \in GraphRecord(W)
  BY GraphAssumption
     DEF EmptyGraph, GraphRecord, NodeSlot, EdgeSlot, NoNode, NoEdge, NoId, SomeIds
<1>2. /\ \A i \in NodeIndices : EmptyGraph.nodes[i] = NoNode /\ EmptyGraph.nodeNext[i] = 1
      /\ \A i \in EdgeIndices : EmptyGraph.edges[i] = NoEdge /\ EmptyGraph.edgeNext[i] = 1
      /\ EmptyGraph.nodesUsed = 0 /\ EmptyGraph.edgesUsed = 0
      /\ EmptyGraph.freeNodes = <<>> /\ EmptyGraph.freeEdges = <<>>
  BY DEF EmptyGraph
<1>3. NoNode.gen = 0 /\ NoEdge.gen = 0
  BY DEF NoNode, NoEdge
<1>4. Distinct(<<>>) /\ Elems(<<>>) = {}
  BY DEF Distinct, Elems
<1>5. NodeSlotsHold(EmptyGraph) /\ EdgeSlotsHold(EmptyGraph)
  BY <1>2, <1>3, <1>4 DEF NodeSlotsHold, EdgeSlotsHold
<1>6. LiveNodes(EmptyGraph) = {} /\ LiveEdges(EmptyGraph) = {}
  BY <1>2, <1>3 DEF LiveNodes, LiveEdges
<1>7. QED BY <1>1, <1>5, <1>6 DEF IsGraph, EntriesHold, EndsAreLive

-----------------------------------------------------------------------------
(* What an operation does, as its callers see it.                          *)

NodesStay(g, h) ==
    /\ LiveNodes(h) = LiveNodes(g)
    /\ \A n \in SomeIds : NodeAt(h, n).what = NodeAt(g, n).what
EdgesStay(g, h) ==
    /\ LiveEdges(h) = LiveEdges(g)
    /\ \A e \in SomeIds : EdgeAt(h, e) = EdgeAt(g, e)

(* The ids that were ever given out.                                       *)
Issued(g, n) ==
    /\ n \in NodeIndices \X Nat
    /\ n[2] < g.nodeNext[n[1]] \/ n \in LiveNodes(g)

(* No id of an edge comes back.                                            *)
EdgeIssued(g, e) ==
    /\ e \in EdgeIndices \X Nat
    /\ e[2] < g.edgeNext[e[1]] \/ e \in LiveEdges(g)
EdgesAge(g, h) == \A e : EdgeIssued(g, e) =>
    EdgeIssued(h, e) /\ (e \in LiveEdges(h) => e \in LiveEdges(g))

LEMMA WithNodeIsSound ==
    ASSUME NEW W, NEW g, IsGraph(g, W), NodeRoom(g), NEW what \in W
    PROVE  LET h == WithNode(g, what)
               id == NextNodeId(g)
           IN /\ IsGraph(h, W) /\ EdgesStay(g, h)
              /\ id \in NodeIndices \X Nat /\ id \notin LiveNodes(g) /\ ~Issued(g, id)
              /\ LiveNodes(h) = LiveNodes(g) \cup {id} /\ NodeAt(h, id).what = what
              /\ \A n \in SomeIds \ {id} : NodeAt(h, n) = NodeAt(g, n)
              /\ \A n : Issued(h, n) <=> Issued(g, n) \/ n = id
              /\ h.version = g.version + 1
<1> DEFINE h == WithNode(g, what)
           id == NextNodeId(g)
           i == id[1]
           node == [gen |-> id[2], what |-> what, out |-> <<>>, in |-> <<>>]
<1>1. /\ g \in GraphRecord(W) /\ NodeSlotsHold(g) /\ EdgeSlotsHold(g)
      /\ EntriesHold(g) /\ EndsAreLive(g) /\ "none" \in W
  BY DEF IsGraph
<1>2. /\ id = <<i, g.nodeNext[i]>> /\ i \in NodeIndices /\ g.nodes[i].gen = 0
      /\ g.freeNodes # <<>> => i = LastOf(g.freeNodes) /\ i \in Elems(g.freeNodes)
      /\ g.freeNodes = <<>> => i = g.nodesUsed + 1
  <2>1. CASE g.freeNodes # <<>>
    <3>1. LastOf(g.freeNodes) \in NodeIndices /\ LastOf(g.freeNodes) \in Elems(g.freeNodes)
      BY <1>1, <2>1, ElemsOfButLast DEF GraphRecord, NodeSlotsHold
    <3>2. g.nodes[LastOf(g.freeNodes)].gen = 0
      BY <1>1, <3>1 DEF NodeSlotsHold
    <3>3. QED BY <2>1, <3>1, <3>2 DEF NextNodeId
  <2>2. CASE g.freeNodes = <<>>
    <3>1. g.nodesUsed + 1 \in NodeIndices /\ g.nodesUsed + 1 > g.nodesUsed
      BY <1>1, <2>2, GraphAssumption, SMTT(30) DEF NodeRoom, GraphRecord, NodeIndices
    <3>2. g.nodes[g.nodesUsed + 1].gen = 0 /\ g.nodeNext[g.nodesUsed + 1] = 1
      BY <1>1, <3>1 DEF NodeSlotsHold
    <3>3. QED BY <2>2, <3>1, <3>2 DEF NextNodeId
  <2>3. QED BY <2>1, <2>2
<1>3. /\ g.nodeNext[i] \in Nat \ {0} /\ id[2] = g.nodeNext[i] /\ id \in NodeIndices \X Nat
      /\ id \in SomeIds
  BY <1>1, <1>2, GraphAssumption DEF GraphRecord, SomeIds, NodeIndices
<1>4. /\ h.nodes = [g.nodes EXCEPT ![i] = node]
      /\ h.freeNodes = IF g.freeNodes = <<>> THEN g.freeNodes ELSE ButLast(g.freeNodes)
      /\ h.nodesUsed = IF g.freeNodes = <<>> THEN g.nodesUsed + 1 ELSE g.nodesUsed
      /\ h.version = g.version + 1
      /\ h.edges = g.edges /\ h.freeEdges = g.freeEdges /\ h.edgesUsed = g.edgesUsed
      /\ h.nodeNext = g.nodeNext /\ h.edgeNext = g.edgeNext
      /\ h = [nodes |-> h.nodes, edges |-> h.edges, freeNodes |-> h.freeNodes,
              freeEdges |-> h.freeEdges, nodesUsed |-> h.nodesUsed, edgesUsed |-> h.edgesUsed,
              nodeNext |-> h.nodeNext, edgeNext |-> h.edgeNext, version |-> h.version]
  <2>1. h = [g EXCEPT !.nodes = [@ EXCEPT ![i] = node],
                      !.freeNodes = IF g.freeNodes = <<>> THEN @ ELSE ButLast(@),
                      !.nodesUsed = IF g.freeNodes = <<>> THEN @ + 1 ELSE @,
                      !.version = @ + 1]
    BY DEF WithNode
  <2> HIDE DEF h, id, node
  <2>2. QED BY <1>1, <2>1 DEF GraphRecord
<1>5. h \in GraphRecord(W)
  <2>1. node \in NodeSlot(W)
    BY <1>3 DEF NodeSlot
  <2>2. h.nodes \in [NodeIndices -> NodeSlot(W)]
    BY <1>1, <1>2, <1>4, <2>1 DEF GraphRecord
  <2>3. h.freeNodes \in Seq(NodeIndices)
    <3>1. g.freeNodes \in Seq(NodeIndices) /\ Distinct(g.freeNodes)
      BY <1>1 DEF GraphRecord, NodeSlotsHold
    <3>2. g.freeNodes # <<>> => ButLast(g.freeNodes) \in Seq(NodeIndices)
      BY <3>1, ElemsOfButLast
    <3> HIDE DEF h
    <3>3. QED BY <1>4, <3>1, <3>2
  <2>4. h.nodesUsed \in 0 .. MaxNodes
    BY <1>1, <1>4, GraphAssumption DEF GraphRecord, NodeRoom
  <2>5. h.version \in Nat
    BY <1>1, <1>4 DEF GraphRecord
  <2> HIDE DEF h
  <2>6. QED BY <1>1, <1>4, <2>2, <2>3, <2>4, <2>5 DEF GraphRecord
<1> HIDE DEF h, id
<1>6. /\ h.nodes[i] = node /\ \A j \in NodeIndices \ {i} : h.nodes[j] = g.nodes[j]
  BY <1>1, <1>2, <1>4 DEF GraphRecord
<1>7. EdgesStay(g, h) /\ EdgeSlotsHold(h)
  BY <1>1, <1>4 DEF EdgesStay, EdgeSlotsHold, LiveEdges, EdgeAt
<1>8. NodeSlotsHold(h)
  <2>1. ASSUME NEW j \in NodeIndices
        PROVE  /\ j > h.nodesUsed => h.nodes[j].gen = 0 /\ h.nodeNext[j] = 1
               /\ h.nodes[j].gen \in {0, h.nodeNext[j]}
               /\ h.nodes[j].gen = 0 => h.nodes[j] = NoNode
    <3>1. CASE j = i
      <4>1. i <= h.nodesUsed
        BY <1>1, <1>2, <1>4, GraphAssumption DEF GraphRecord, NodeSlotsHold, NodeIndices
      <4>2. h.nodes[j].gen = h.nodeNext[j] /\ h.nodes[j].gen # 0
        BY <1>3, <1>4, <1>6, <3>1
      <4>3. ~(j > h.nodesUsed)
        BY <1>5, <3>1, <4>1, GraphAssumption DEF NodeIndices, GraphRecord
      <4>4. QED BY <4>2, <4>3
    <3>2. CASE j # i
      <4>1. h.nodes[j] = g.nodes[j] /\ h.nodeNext[j] = g.nodeNext[j]
        BY <1>4, <1>6, <3>2
      <4>2. j > h.nodesUsed => j > g.nodesUsed
        BY <1>1, <1>4, GraphAssumption DEF GraphRecord, NodeIndices
      <4>3. QED BY <1>1, <4>1, <4>2 DEF NodeSlotsHold
    <3>3. QED BY <3>1, <3>2
  <2>2. CASE g.freeNodes = <<>>
    <3>1. h.freeNodes = <<>> /\ Elems(<<>>) = {} /\ Distinct(<<>>)
      BY <1>4, <2>2 DEF Elems, Distinct
    <3>2. {j \in 1 .. g.nodesUsed : g.nodes[j].gen = 0} = {}
      BY <1>1, <2>2, <3>1 DEF NodeSlotsHold
    <3>3. h.nodesUsed = g.nodesUsed + 1 /\ g.nodesUsed \in 0 .. MaxNodes /\ i = g.nodesUsed + 1
      BY <1>1, <1>2, <1>4, <2>2 DEF GraphRecord
    <3>4. \A j \in 1 .. h.nodesUsed : h.nodes[j].gen # 0
      <4>1. SUFFICES ASSUME NEW j \in 1 .. h.nodesUsed PROVE h.nodes[j].gen # 0
        OBVIOUS
      <4>2. CASE j = i
        BY <1>3, <1>6, <4>2
      <4>3. CASE j # i
        <5>1. j \in 1 .. g.nodesUsed /\ j \in NodeIndices
          BY <1>5, <3>3, <4>3, GraphAssumption DEF NodeIndices, GraphRecord
        <5>2. QED BY <1>6, <3>2, <4>3, <5>1
      <4>4. QED BY <4>2, <4>3
    <3>5. QED BY <2>1, <3>1, <3>4 DEF NodeSlotsHold
  <2>3. CASE g.freeNodes # <<>>
    <3>1. /\ h.freeNodes = ButLast(g.freeNodes) /\ h.nodesUsed = g.nodesUsed
          /\ i = LastOf(g.freeNodes) /\ i \in Elems(g.freeNodes)
      BY <1>2, <1>4, <2>3
    <3>2. Distinct(h.freeNodes) /\ Elems(h.freeNodes) = Elems(g.freeNodes) \ {i}
      BY <1>1, <2>3, <3>1, ElemsOfButLast DEF GraphRecord, NodeSlotsHold
    <3>3. \A j \in 1 .. g.nodesUsed : j \in NodeIndices
      BY <1>1, GraphAssumption DEF GraphRecord, NodeIndices
    <3>4. {j \in 1 .. h.nodesUsed : h.nodes[j].gen = 0}
              = {j \in 1 .. g.nodesUsed : g.nodes[j].gen = 0} \ {i}
      BY <1>3, <1>6, <3>1, <3>3
    <3>5. QED BY <1>1, <2>1, <3>2, <3>4 DEF NodeSlotsHold
  <2>4. QED BY <2>2, <2>3
<1>9. id \notin LiveNodes(g) /\ ~Issued(g, id)
  <2>1. id \notin LiveNodes(g)
    BY <1>1, <1>2, <1>3, LiveNode
  <2>2. QED BY <1>3, <2>1 DEF Issued
<1>10. \A n : n \in LiveNodes(h) <=> n \in LiveNodes(g) \/ n = id
  <2>1. ASSUME NEW n PROVE n \in LiveNodes(h) <=> n \in LiveNodes(g) \/ n = id
    <3>1. CASE n \in NodeIndices \X Nat /\ n[1] # i
      BY <1>1, <1>2, <1>5, <1>6, <1>8, <3>1, LiveNode
    <3>2. CASE n \in NodeIndices \X Nat /\ n[1] = i
      <4>1. n \in LiveNodes(h) <=> n[2] = id[2]
        BY <1>3, <1>5, <1>6, <1>8, <3>2, LiveNode
      <4>2. n \notin LiveNodes(g)
        BY <1>1, <1>2, <3>2, LiveNode
      <4>3. n = id <=> n[2] = id[2]
        BY <1>2, <3>2
      <4>4. QED BY <4>1, <4>2, <4>3
    <3>3. CASE n \notin NodeIndices \X Nat
      BY <1>1, <1>3, <1>5, <1>8, <3>3, LiveNode
    <3>4. QED BY <3>1, <3>2, <3>3
  <2>2. QED BY <2>1
<1>11. \A n \in SomeIds \ {id} : NodeAt(h, n) = NodeAt(g, n)
  <2>1. SUFFICES ASSUME NEW n \in SomeIds, n # id PROVE NodeAt(h, n) = NodeAt(g, n)
    OBVIOUS
  <2>2. CASE n \in LiveNodes(g)
    <3>1. n[1] # i /\ n[1] \in NodeIndices
      BY <1>1, <1>2, <2>2, LiveNode
    <3>2. QED BY <1>1, <1>5, <1>6, <1>8, <1>10, <2>2, <3>1, LiveNode
  <2>3. CASE n \notin LiveNodes(g)
    BY <1>1, <1>5, <1>8, <1>10, <2>1, <2>3, LiveNode
  <2>4. QED BY <2>2, <2>3
<1>12. NodeAt(h, id) = node
  BY <1>2, <1>5, <1>6, <1>8, <1>10, LiveNode
<1>13. EndsAreLive(h)
  BY <1>1, <1>7, <1>10, LiveEdge DEF EndsAreLive, EdgeFits, EdgesStay
<1>14. EntriesHold(h)
  <2>1. \A e \in LiveEdges(h) : /\ EdgeAt(h, e) = EdgeAt(g, e) /\ e \in LiveEdges(g)
                                /\ EdgeAt(g, e).from # id /\ EdgeAt(g, e).to # id
    BY <1>1, <1>7, <1>9, LiveEdge DEF EdgesStay, EndsAreLive, EdgeFits
  <2>2. LiveEdges(h) = LiveEdges(g)
    BY <1>7 DEF EdgesStay
  <2>3. SUFFICES ASSUME NEW n \in LiveNodes(h)
                 PROVE  /\ Distinct(NodeAt(h, n).out) /\ Distinct(NodeAt(h, n).in)
                        /\ Elems(NodeAt(h, n).out) = {e \in LiveEdges(h) : EdgeAt(h, e).from = n}
                        /\ Elems(NodeAt(h, n).in) = {e \in LiveEdges(h) : EdgeAt(h, e).to = n}
    BY DEF EntriesHold
  <2>4. CASE n = id
    <3>1. NodeAt(h, n).out = <<>> /\ NodeAt(h, n).in = <<>>
      BY <1>12, <2>4
    <3>2. Elems(<<>>) = {} /\ Distinct(<<>>)
      BY DEF Elems, Distinct
    <3>3. QED BY <2>1, <2>4, <3>1, <3>2
  <2>5. CASE n # id
    <3>1. n \in LiveNodes(g) /\ n \in SomeIds
      BY <1>1, <1>10, <2>5, LiveNode
    <3>2. NodeAt(h, n) = NodeAt(g, n)
      BY <1>11, <2>5, <3>1
    <3>3. QED BY <1>1, <2>1, <2>2, <3>1, <3>2 DEF EntriesHold
  <2>6. QED BY <2>4, <2>5
<1>15. \A n : Issued(h, n) <=> Issued(g, n) \/ n = id
  BY <1>3, <1>4, <1>10 DEF Issued
<1>16. IsGraph(h, W)
  BY <1>1, <1>5, <1>7, <1>8, <1>13, <1>14 DEF IsGraph
<1>17. LiveNodes(h) = LiveNodes(g) \cup {id} /\ NodeAt(h, id).what = what
  BY <1>10, <1>12
<1>18. QED BY <1>3, <1>4, <1>7, <1>9, <1>11, <1>15, <1>16, <1>17 DEF h, id

LEMMA SlotType ==
    ASSUME NEW W, NEW slot \in NodeSlot(W), NEW id \in SomeIds
    PROVE  /\ slot.out \in Seq(SomeIds) /\ slot.in \in Seq(SomeIds)
           /\ Append(slot.out, id) \in Seq(SomeIds) /\ Append(slot.in, id) \in Seq(SomeIds)
<1>1. slot.out \in Seq(SomeIds) /\ slot.in \in Seq(SomeIds)
  BY DEF NodeSlot
<1>2. QED BY <1>1

LEMMA SlotWithOut ==
    ASSUME NEW W, NEW slot \in NodeSlot(W), NEW s \in Seq(SomeIds),
           NEW r, r = [slot EXCEPT !.out = s]
    PROVE  /\ r \in NodeSlot(W)
           /\ r.gen = slot.gen /\ r.what = slot.what /\ r.out = s /\ r.in = slot.in
BY DEF NodeSlot

LEMMA SlotWithIn ==
    ASSUME NEW W, NEW slot \in NodeSlot(W), NEW s \in Seq(SomeIds),
           NEW r, r = [slot EXCEPT !.in = s]
    PROVE  /\ r \in NodeSlot(W)
           /\ r.gen = slot.gen /\ r.what = slot.what /\ r.out = slot.out /\ r.in = s
BY DEF NodeSlot

LEMMA WithEdgeIsSound ==
    ASSUME NEW W, NEW g, IsGraph(g, W), EdgeRoom(g), NEW what \in W,
           NEW from, NEW to, EdgeFits(g, from, to)
    PROVE  LET h == WithEdge(g, from, to, what)
               id == NextEdgeId(g)
           IN /\ IsGraph(h, W) /\ NodesStay(g, h)
              /\ id \in SomeIds /\ id \notin LiveEdges(g)
              /\ LiveEdges(h) = LiveEdges(g) \cup {id}
              /\ EdgeAt(h, id) = [gen |-> id[2], from |-> from, to |-> to, what |-> what]
              /\ \A e \in SomeIds \ {id} : EdgeAt(h, e) = EdgeAt(g, e)
              /\ \A n : Issued(h, n) <=> Issued(g, n)
              /\ h.version = g.version + 1 /\ h.nodesUsed = g.nodesUsed
<1> DEFINE h == WithEdge(g, from, to, what)
           id == NextEdgeId(g)
           i == id[1]
           edge == [gen |-> id[2], from |-> from, to |-> to, what |-> what]
<1>1. /\ g \in GraphRecord(W) /\ NodeSlotsHold(g) /\ EdgeSlotsHold(g)
      /\ EntriesHold(g) /\ EndsAreLive(g) /\ "none" \in W
  BY DEF IsGraph
<1>2. /\ from \in LiveNodes(g) /\ to \in LiveNodes(g) /\ from \in SomeIds /\ to \in SomeIds
      /\ from[1] \in NodeIndices /\ to[1] \in NodeIndices
      /\ g.nodes[from[1]].gen # 0 /\ g.nodes[to[1]].gen # 0
  <2>1. from \in LiveNodes(g) /\ to \in LiveNodes(g)
    BY DEF EdgeFits
  <2>2. QED BY <1>1, <2>1, LiveNode
<1>3. /\ id = <<i, g.edgeNext[i]>> /\ i \in EdgeIndices /\ g.edges[i].gen = 0
      /\ g.freeEdges # <<>> => i = LastOf(g.freeEdges) /\ i \in Elems(g.freeEdges)
      /\ g.freeEdges = <<>> => i = g.edgesUsed + 1
  <2>1. CASE g.freeEdges # <<>>
    <3>1. LastOf(g.freeEdges) \in EdgeIndices /\ LastOf(g.freeEdges) \in Elems(g.freeEdges)
      BY <1>1, <2>1, ElemsOfButLast DEF GraphRecord, EdgeSlotsHold
    <3>2. g.edges[LastOf(g.freeEdges)].gen = 0
      BY <1>1, <3>1 DEF EdgeSlotsHold
    <3>3. QED BY <2>1, <3>1, <3>2 DEF NextEdgeId
  <2>2. CASE g.freeEdges = <<>>
    <3>1. g.edgesUsed + 1 \in EdgeIndices /\ g.edgesUsed + 1 > g.edgesUsed
      BY <1>1, <2>2, GraphAssumption, SMTT(30) DEF EdgeRoom, GraphRecord, EdgeIndices
    <3>2. g.edges[g.edgesUsed + 1].gen = 0 /\ g.edgeNext[g.edgesUsed + 1] = 1
      BY <1>1, <3>1 DEF EdgeSlotsHold
    <3>3. QED BY <2>2, <3>1, <3>2 DEF NextEdgeId
  <2>3. QED BY <2>1, <2>2
<1>4. /\ g.edgeNext[i] \in Nat \ {0} /\ id[2] = g.edgeNext[i] /\ id \in EdgeIndices \X Nat
      /\ id \in SomeIds
  BY <1>1, <1>3, GraphAssumption DEF GraphRecord, SomeIds, EdgeIndices
<1> DEFINE entered == [g EXCEPT !.nodes[from[1]].out = Append(@, id)]
<1>5. /\ h.nodes = [entered.nodes EXCEPT ![to[1]].in = Append(@, id)]
      /\ entered.nodes = [g.nodes EXCEPT ![from[1]].out = Append(@, id)]
      /\ h.edges = [g.edges EXCEPT ![i] = edge]
      /\ h.freeEdges = IF g.freeEdges = <<>> THEN g.freeEdges ELSE ButLast(g.freeEdges)
      /\ h.edgesUsed = IF g.freeEdges = <<>> THEN g.edgesUsed + 1 ELSE g.edgesUsed
      /\ h.version = g.version + 1
      /\ h.freeNodes = g.freeNodes /\ h.nodesUsed = g.nodesUsed
      /\ h.nodeNext = g.nodeNext /\ h.edgeNext = g.edgeNext
      /\ h = [nodes |-> h.nodes, edges |-> h.edges, freeNodes |-> h.freeNodes,
              freeEdges |-> h.freeEdges, nodesUsed |-> h.nodesUsed, edgesUsed |-> h.edgesUsed,
              nodeNext |-> h.nodeNext, edgeNext |-> h.edgeNext, version |-> h.version]
  <2>1. h = [entered EXCEPT !.nodes[to[1]].in = Append(@, id),
                            !.edges[i] = edge,
                            !.freeEdges = IF g.freeEdges = <<>> THEN @ ELSE ButLast(@),
                            !.edgesUsed = IF g.freeEdges = <<>> THEN @ + 1 ELSE @,
                            !.version = @ + 1]
    BY DEF WithEdge
  <2> HIDE DEF h, id, edge
  <2>2. QED BY <1>1, <2>1 DEF GraphRecord
<1> HIDE DEF h, id, entered
<1>6. ASSUME NEW k \in NodeIndices
      PROVE  /\ h.nodes[k].gen = g.nodes[k].gen /\ h.nodes[k].what = g.nodes[k].what
             /\ h.nodes[k].out = IF k = from[1] THEN Append(g.nodes[k].out, id) ELSE g.nodes[k].out
             /\ h.nodes[k].in = IF k = to[1] THEN Append(g.nodes[k].in, id) ELSE g.nodes[k].in
             /\ h.nodes[k] \in NodeSlot(W) /\ g.nodes[k] \in NodeSlot(W)
             /\ g.nodes[k].gen = 0 => h.nodes[k] = g.nodes[k]
  <2>1. g.nodes[k] \in NodeSlot(W) /\ g.nodes \in [NodeIndices -> NodeSlot(W)]
    BY <1>1 DEF GraphRecord
  <2>2. entered.nodes[k] = IF k = from[1] THEN [g.nodes[k] EXCEPT !.out = Append(@, id)]
                           ELSE g.nodes[k]
    BY <1>5, <2>1, ZenonT(30)
  <2>3. /\ entered.nodes[k].gen = g.nodes[k].gen /\ entered.nodes[k].what = g.nodes[k].what
        /\ entered.nodes[k].out = IF k = from[1] THEN Append(g.nodes[k].out, id)
                                  ELSE g.nodes[k].out
        /\ entered.nodes[k].in = g.nodes[k].in
        /\ entered.nodes[k] \in NodeSlot(W)
    <3>1. CASE k = from[1]
      <4>1. entered.nodes[k] = [g.nodes[k] EXCEPT !.out = Append(@, id)]
        BY <2>2, <3>1
      <4> DEFINE s == Append(g.nodes[k].out, id)
      <4>2. s \in Seq(SomeIds)
        BY <1>4, <2>1, SlotType
      <4>3. entered.nodes[k] = [g.nodes[k] EXCEPT !.out = s]
        BY <4>1
      <4> HIDE DEF s
      <4>4. /\ entered.nodes[k] \in NodeSlot(W)
            /\ entered.nodes[k].gen = g.nodes[k].gen /\ entered.nodes[k].what = g.nodes[k].what
            /\ entered.nodes[k].out = s /\ entered.nodes[k].in = g.nodes[k].in
        BY <2>1, <4>2, <4>3, SlotWithOut
      <4>5. QED BY <3>1, <4>4 DEF s
    <3>2. CASE k # from[1]
      BY <2>1, <2>2, <3>2
    <3>3. QED BY <3>1, <3>2
  <2>4. DOMAIN entered.nodes = NodeIndices
    BY <1>5, <2>1
  <2>5. h.nodes[k] = IF k = to[1] THEN [entered.nodes[k] EXCEPT !.in = Append(@, id)]
                     ELSE entered.nodes[k]
    BY <1>5, <2>4
  <2>6. /\ h.nodes[k].gen = g.nodes[k].gen /\ h.nodes[k].what = g.nodes[k].what
        /\ h.nodes[k].out = IF k = from[1] THEN Append(g.nodes[k].out, id) ELSE g.nodes[k].out
        /\ h.nodes[k].in = IF k = to[1] THEN Append(g.nodes[k].in, id) ELSE g.nodes[k].in
        /\ h.nodes[k] \in NodeSlot(W)
    <3>1. CASE k = to[1]
      <4> DEFINE s == Append(entered.nodes[k].in, id)
      <4>1. h.nodes[k] = [entered.nodes[k] EXCEPT !.in = s]
        BY <2>5, <3>1
      <4>2. entered.nodes[k] \in NodeSlot(W) /\ s \in Seq(SomeIds)
        BY <1>4, <2>3, SlotType
      <4> HIDE DEF s
      <4>3. /\ h.nodes[k] \in NodeSlot(W)
            /\ h.nodes[k].gen = entered.nodes[k].gen /\ h.nodes[k].what = entered.nodes[k].what
            /\ h.nodes[k].out = entered.nodes[k].out /\ h.nodes[k].in = s
        BY <4>1, <4>2, SlotWithIn
      <4>4. QED BY <2>3, <3>1, <4>3 DEF s
    <3>2. CASE k # to[1]
      BY <2>3, <2>5, <3>2
    <3>3. QED BY <3>1, <3>2
  <2>7. g.nodes[k].gen = 0 => h.nodes[k] = g.nodes[k]
    BY <1>2, <2>2, <2>5
  <2>8. QED BY <2>1, <2>6, <2>7
<1>7. h \in GraphRecord(W)
  <2>1. edge \in EdgeSlot(W)
    BY <1>2, <1>4 DEF EdgeSlot
  <2>2. h.edges \in [EdgeIndices -> EdgeSlot(W)]
    BY <1>1, <1>3, <1>5, <2>1 DEF GraphRecord
  <2>3. h.freeEdges \in Seq(EdgeIndices)
    <3>1. g.freeEdges \in Seq(EdgeIndices) /\ Distinct(g.freeEdges)
      BY <1>1 DEF GraphRecord, EdgeSlotsHold
    <3>2. g.freeEdges # <<>> => ButLast(g.freeEdges) \in Seq(EdgeIndices)
      BY <3>1, ElemsOfButLast
    <3>3. QED BY <1>5, <3>1, <3>2
  <2>4. h.edgesUsed \in 0 .. MaxEdges
    BY <1>1, <1>5, GraphAssumption DEF GraphRecord, EdgeRoom
  <2>5. h.version \in Nat
    BY <1>1, <1>5 DEF GraphRecord
  <2>6. h.nodes \in [NodeIndices -> NodeSlot(W)]
    <3>1. g.nodes \in [NodeIndices -> NodeSlot(W)]
      BY <1>1 DEF GraphRecord
    <3>2. DOMAIN h.nodes = NodeIndices /\ h.nodes = [k \in DOMAIN h.nodes |-> h.nodes[k]]
      BY <1>5, <3>1
    <3>3. QED BY <1>6, <3>2
  <2>7. QED BY <1>1, <1>5, <2>2, <2>3, <2>4, <2>5, <2>6 DEF GraphRecord
<1>8. /\ h.edges[i] = edge /\ \A j \in EdgeIndices \ {i} : h.edges[j] = g.edges[j]
  BY <1>1, <1>3, <1>5 DEF GraphRecord
<1>9. NodeSlotsHold(h)
  <2>1. \A k \in NodeIndices :
           /\ h.nodes[k].gen = g.nodes[k].gen
           /\ g.nodes[k].gen = 0 => h.nodes[k] = g.nodes[k]
    BY <1>6
  <2>2. 1 .. g.nodesUsed \subseteq NodeIndices
    BY <1>1, GraphAssumption DEF GraphRecord, NodeIndices
  <2>3. {k \in 1 .. h.nodesUsed : h.nodes[k].gen = 0} = {k \in 1 .. g.nodesUsed : g.nodes[k].gen = 0}
    <3>1. h.nodesUsed = g.nodesUsed
      BY <1>5
    <3>2. \A k \in 1 .. g.nodesUsed : h.nodes[k].gen = g.nodes[k].gen
      BY <2>1, <2>2
    <3>3. QED BY <3>1, <3>2
  <2>4. h.nodesUsed = g.nodesUsed /\ h.freeNodes = g.freeNodes /\ h.nodeNext = g.nodeNext
    BY <1>5
  <2>5. \A k \in NodeIndices :
           /\ k > h.nodesUsed => h.nodes[k].gen = 0 /\ h.nodeNext[k] = 1
           /\ h.nodes[k].gen \in {0, h.nodeNext[k]}
           /\ h.nodes[k].gen = 0 => h.nodes[k] = NoNode
    BY <1>1, <2>1, <2>4 DEF NodeSlotsHold
  <2>6. QED BY <1>1, <2>3, <2>4, <2>5 DEF NodeSlotsHold
<1>10. EdgeSlotsHold(h)
  <2>1. ASSUME NEW j \in EdgeIndices
        PROVE  /\ j > h.edgesUsed => h.edges[j].gen = 0 /\ h.edgeNext[j] = 1
               /\ h.edges[j].gen \in {0, h.edgeNext[j]}
               /\ h.edges[j].gen = 0 => h.edges[j] = NoEdge
    <3>1. CASE j = i
      <4>1. i <= h.edgesUsed
        BY <1>1, <1>3, <1>5, GraphAssumption DEF GraphRecord, EdgeSlotsHold, EdgeIndices
      <4>2. h.edges[j].gen = h.edgeNext[j] /\ h.edges[j].gen # 0
        BY <1>4, <1>5, <1>8, <3>1
      <4>3. ~(j > h.edgesUsed)
        BY <1>7, <3>1, <4>1, GraphAssumption DEF EdgeIndices, GraphRecord
      <4>4. QED BY <4>2, <4>3
    <3>2. CASE j # i
      <4>1. h.edges[j] = g.edges[j] /\ h.edgeNext[j] = g.edgeNext[j]
        BY <1>5, <1>8, <3>2
      <4>2. j > h.edgesUsed => j > g.edgesUsed
        BY <1>1, <1>5, GraphAssumption DEF GraphRecord, EdgeIndices
      <4>3. QED BY <1>1, <4>1, <4>2 DEF EdgeSlotsHold
    <3>3. QED BY <3>1, <3>2
  <2>2. CASE g.freeEdges = <<>>
    <3>1. h.freeEdges = <<>> /\ Elems(<<>>) = {} /\ Distinct(<<>>)
      BY <1>5, <2>2 DEF Elems, Distinct
    <3>2. {j \in 1 .. g.edgesUsed : g.edges[j].gen = 0} = {}
      BY <1>1, <2>2, <3>1 DEF EdgeSlotsHold
    <3>3. h.edgesUsed = g.edgesUsed + 1 /\ g.edgesUsed \in 0 .. MaxEdges /\ i = g.edgesUsed + 1
      BY <1>1, <1>3, <1>5, <2>2 DEF GraphRecord
    <3>4. \A j \in 1 .. h.edgesUsed : h.edges[j].gen # 0
      <4>1. SUFFICES ASSUME NEW j \in 1 .. h.edgesUsed PROVE h.edges[j].gen # 0
        OBVIOUS
      <4>2. CASE j = i
        BY <1>4, <1>8, <4>2
      <4>3. CASE j # i
        <5>1. j \in 1 .. g.edgesUsed /\ j \in EdgeIndices
          BY <1>7, <3>3, <4>3, GraphAssumption DEF EdgeIndices, GraphRecord
        <5>2. QED BY <1>8, <3>2, <4>3, <5>1
      <4>4. QED BY <4>2, <4>3
    <3>5. QED BY <2>1, <3>1, <3>4 DEF EdgeSlotsHold
  <2>3. CASE g.freeEdges # <<>>
    <3>1. /\ h.freeEdges = ButLast(g.freeEdges) /\ h.edgesUsed = g.edgesUsed
          /\ i = LastOf(g.freeEdges) /\ i \in Elems(g.freeEdges)
      BY <1>3, <1>5, <2>3
    <3>2. Distinct(h.freeEdges) /\ Elems(h.freeEdges) = Elems(g.freeEdges) \ {i}
      BY <1>1, <2>3, <3>1, ElemsOfButLast DEF GraphRecord, EdgeSlotsHold
    <3>3. \A j \in 1 .. g.edgesUsed : j \in EdgeIndices
      BY <1>1, GraphAssumption DEF GraphRecord, EdgeIndices
    <3>4. {j \in 1 .. h.edgesUsed : h.edges[j].gen = 0}
              = {j \in 1 .. g.edgesUsed : g.edges[j].gen = 0} \ {i}
      BY <1>4, <1>8, <3>1, <3>3
    <3>5. QED BY <1>1, <2>1, <3>2, <3>4 DEF EdgeSlotsHold
  <2>4. QED BY <2>2, <2>3
<1>11. id \notin LiveEdges(g)
  BY <1>1, <1>3, <1>4, LiveEdge
<1>12. \A e : e \in LiveEdges(h) <=> e \in LiveEdges(g) \/ e = id
  <2>1. ASSUME NEW e PROVE e \in LiveEdges(h) <=> e \in LiveEdges(g) \/ e = id
    <3>1. CASE e \in EdgeIndices \X Nat /\ e[1] # i
      BY <1>1, <1>3, <1>7, <1>8, <1>10, <3>1, LiveEdge
    <3>2. CASE e \in EdgeIndices \X Nat /\ e[1] = i
      <4>1. e \in LiveEdges(h) <=> e[2] = id[2]
        BY <1>4, <1>7, <1>8, <1>10, <3>2, LiveEdge
      <4>2. e \notin LiveEdges(g)
        BY <1>1, <1>3, <3>2, LiveEdge
      <4>3. e = id <=> e[2] = id[2]
        BY <1>3, <3>2
      <4>4. QED BY <4>1, <4>2, <4>3
    <3>3. CASE e \notin EdgeIndices \X Nat
      BY <1>1, <1>4, <1>7, <1>10, <3>3, LiveEdge
    <3>4. QED BY <3>1, <3>2, <3>3
  <2>2. QED BY <2>1
<1>13. \A e \in SomeIds \ {id} : EdgeAt(h, e) = EdgeAt(g, e)
  <2>1. SUFFICES ASSUME NEW e \in SomeIds, e # id PROVE EdgeAt(h, e) = EdgeAt(g, e)
    OBVIOUS
  <2>2. CASE e \in LiveEdges(g)
    <3>1. e[1] # i /\ e[1] \in EdgeIndices
      BY <1>1, <1>3, <2>2, LiveEdge
    <3>2. QED BY <1>1, <1>7, <1>8, <1>10, <1>12, <2>2, <3>1, LiveEdge
  <2>3. CASE e \notin LiveEdges(g)
    BY <1>1, <1>7, <1>10, <1>12, <2>1, <2>3, LiveEdge
  <2>4. QED BY <2>2, <2>3
<1>14. EdgeAt(h, id) = edge
  BY <1>3, <1>7, <1>8, <1>10, <1>12, LiveEdge
<1>15. \A n : n \in LiveNodes(h) <=> n \in LiveNodes(g)
  BY <1>1, <1>6, <1>7, <1>9, LiveNode
<1>16. NodesStay(g, h)
  <2>1. ASSUME NEW n \in SomeIds PROVE NodeAt(h, n).what = NodeAt(g, n).what
    <3>1. CASE n \in LiveNodes(g)
      BY <1>1, <1>6, <1>7, <1>9, <1>15, <3>1, LiveNode
    <3>2. CASE n \notin LiveNodes(g)
      BY <1>1, <1>7, <1>9, <1>15, <3>2, LiveNode
    <3>3. QED BY <3>1, <3>2
  <2>2. QED BY <1>15, <2>1 DEF NodesStay
<1>17. EndsAreLive(h)
  <2>1. SUFFICES ASSUME NEW e \in LiveEdges(h)
                 PROVE  EdgeAt(h, e).from \in LiveNodes(h) /\ EdgeAt(h, e).to \in LiveNodes(h)
    BY DEF EndsAreLive, EdgeFits
  <2>2. CASE e = id
    BY <1>2, <1>14, <1>15, <2>2
  <2>3. CASE e # id
    <3>1. e \in LiveEdges(g) /\ e \in SomeIds
      BY <1>1, <1>12, <2>3, LiveEdge
    <3>2. QED BY <1>1, <1>13, <1>15, <2>3, <3>1 DEF EndsAreLive, EdgeFits
  <2>4. QED BY <2>2, <2>3
<1>18. EntriesHold(h)
  <2>1. SUFFICES ASSUME NEW n \in LiveNodes(h)
                 PROVE  /\ Distinct(NodeAt(h, n).out) /\ Distinct(NodeAt(h, n).in)
                        /\ Elems(NodeAt(h, n).out) = {e \in LiveEdges(h) : EdgeAt(h, e).from = n}
                        /\ Elems(NodeAt(h, n).in) = {e \in LiveEdges(h) : EdgeAt(h, e).to = n}
    BY DEF EntriesHold
  <2>2. /\ n \in LiveNodes(g) /\ n[1] \in NodeIndices
        /\ NodeAt(h, n) = h.nodes[n[1]] /\ NodeAt(g, n) = g.nodes[n[1]]
        /\ n = from <=> n[1] = from[1]
        /\ n = to <=> n[1] = to[1]
    <3>1. n \in LiveNodes(g)
      BY <1>15
    <3>2. n[1] \in NodeIndices /\ NodeAt(h, n) = h.nodes[n[1]] /\ NodeAt(g, n) = g.nodes[n[1]]
      BY <1>1, <1>7, <1>9, <3>1, LiveNode
    <3>3. \A m \in LiveNodes(g) : m = <<m[1], g.nodes[m[1]].gen>>
      BY DEF LiveNodes
    <3>4. QED BY <1>2, <3>1, <3>2, <3>3
  <2>3. \A e : e \in LiveEdges(h) <=> e \in LiveEdges(g) \/ e = id
    BY <1>12
  <2>4. \A e \in LiveEdges(g) : EdgeAt(h, e) = EdgeAt(g, e)
    BY <1>1, <1>11, <1>13, LiveEdge
  <2>5. {e \in LiveEdges(h) : EdgeAt(h, e).from = n}
          = {e \in LiveEdges(g) : EdgeAt(g, e).from = n} \cup (IF n = from THEN {id} ELSE {})
    BY <1>14, <2>3, <2>4
  <2>6. {e \in LiveEdges(h) : EdgeAt(h, e).to = n}
          = {e \in LiveEdges(g) : EdgeAt(g, e).to = n} \cup (IF n = to THEN {id} ELSE {})
    BY <1>14, <2>3, <2>4
  <2>7. /\ g.nodes[n[1]].out \in Seq(SomeIds) /\ g.nodes[n[1]].in \in Seq(SomeIds)
        /\ Distinct(g.nodes[n[1]].out) /\ Distinct(g.nodes[n[1]].in)
        /\ Elems(g.nodes[n[1]].out) = {e \in LiveEdges(g) : EdgeAt(g, e).from = n}
        /\ Elems(g.nodes[n[1]].in) = {e \in LiveEdges(g) : EdgeAt(g, e).to = n}
    BY <1>1, <1>6, <2>2 DEF EntriesHold, NodeSlot
  <2>8. id \notin Elems(g.nodes[n[1]].out) /\ id \notin Elems(g.nodes[n[1]].in)
    BY <1>11, <2>7
  <2>9. /\ Elems(Append(g.nodes[n[1]].out, id)) = Elems(g.nodes[n[1]].out) \cup {id}
        /\ Distinct(Append(g.nodes[n[1]].out, id))
        /\ Elems(Append(g.nodes[n[1]].in, id)) = Elems(g.nodes[n[1]].in) \cup {id}
        /\ Distinct(Append(g.nodes[n[1]].in, id))
    BY <1>4, <2>7, <2>8, ElemsOfAppend
  <2>10. Distinct(NodeAt(h, n).out) /\ Elems(NodeAt(h, n).out) = {e \in LiveEdges(h) : EdgeAt(h, e).from = n}
    BY <1>6, <2>2, <2>5, <2>7, <2>9
  <2>11. Distinct(NodeAt(h, n).in) /\ Elems(NodeAt(h, n).in) = {e \in LiveEdges(h) : EdgeAt(h, e).to = n}
    BY <1>6, <2>2, <2>6, <2>7, <2>9
  <2>12. QED BY <2>10, <2>11
<1>19. \A n : Issued(h, n) <=> Issued(g, n)
  BY <1>5, <1>15 DEF Issued
<1>20. IsGraph(h, W)
  BY <1>1, <1>7, <1>9, <1>10, <1>17, <1>18 DEF IsGraph
<1>21. LiveEdges(h) = LiveEdges(g) \cup {id}
  BY <1>12
<1>22. QED BY <1>4, <1>5, <1>11, <1>13, <1>14, <1>16, <1>19, <1>20, <1>21 DEF h, id

(* eraseEdgeLocked() and the loops of removeNode() take an edge out of the *)
(* lists of both its ends, and of nothing else.                            *)
LEMMA EraseEdgeIsSound ==
    ASSUME NEW W, NEW g, IsGraph(g, W), NEW e \in SomeIds
    PROVE  LET h == EraseEdge(g, e)
           IN /\ IsGraph(h, W) /\ NodesStay(g, h)
              /\ LiveEdges(h) = LiveEdges(g) \ {e}
              /\ \A d \in LiveEdges(h) : EdgeAt(h, d) = EdgeAt(g, d)
              /\ \A n : Issued(h, n) <=> Issued(g, n)
              /\ h.version = g.version /\ h.nodesUsed = g.nodesUsed /\ h.nodeNext = g.nodeNext
<1> DEFINE h == EraseEdge(g, e)
           edge == EdgeAt(g, e)
           from == edge.from
           to == edge.to
           i == e[1]
<1>1. /\ g \in GraphRecord(W) /\ NodeSlotsHold(g) /\ EdgeSlotsHold(g)
      /\ EntriesHold(g) /\ EndsAreLive(g) /\ "none" \in W
  BY DEF IsGraph
<1>2. CASE e \notin LiveEdges(g)
  <2>1. h = g
    BY <1>1, <1>2, LiveEdge DEF EraseEdge
  <2> HIDE DEF h
  <2>2. QED BY <1>2, <2>1 DEF NodesStay, h
<1>3. CASE e \in LiveEdges(g)
  <2>1. /\ i \in EdgeIndices /\ edge = g.edges[i] /\ e = <<i, e[2]>> /\ e[2] \in Nat \ {0}
        /\ g.edges[i].gen = e[2] /\ edge # NoEdge /\ g.edgeNext[i] = e[2]
    <3>1. /\ e \in EdgeIndices \X Nat /\ e[2] # 0 /\ g.edges[i].gen = e[2] /\ edge = g.edges[i]
          /\ edge # NoEdge
      BY <1>1, <1>3, LiveEdge
    <3>2. g.edgeNext[i] = e[2]
      BY <1>1, <3>1 DEF EdgeSlotsHold
    <3>3. QED BY <3>1, <3>2
  <2>2. /\ from \in LiveNodes(g) /\ to \in LiveNodes(g) /\ from \in SomeIds /\ to \in SomeIds
        /\ from[1] \in NodeIndices /\ to[1] \in NodeIndices
        /\ g.nodes[from[1]].gen # 0 /\ g.nodes[to[1]].gen # 0
    <3>1. from \in LiveNodes(g) /\ to \in LiveNodes(g)
      BY <1>1, <1>3 DEF EndsAreLive, EdgeFits
    <3>2. QED BY <1>1, <3>1, LiveNode
  <2> HIDE DEF edge
  <2> DEFINE left == [g EXCEPT !.nodes[from[1]].out = Without(@, e)]
  <2>3. /\ h.nodes = [left.nodes EXCEPT ![to[1]].in = Without(@, e)]
        /\ left.nodes = [g.nodes EXCEPT ![from[1]].out = Without(@, e)]
        /\ h.edges = [g.edges EXCEPT ![i] = NoEdge]
        /\ h.edgeNext = [g.edgeNext EXCEPT ![i] = e[2] + 1]
        /\ h.freeEdges = Append(g.freeEdges, i)
        /\ h.edgesUsed = g.edgesUsed /\ h.version = g.version
        /\ h.freeNodes = g.freeNodes /\ h.nodesUsed = g.nodesUsed
        /\ h.nodeNext = g.nodeNext
        /\ h = [nodes |-> h.nodes, edges |-> h.edges, freeNodes |-> h.freeNodes,
                freeEdges |-> h.freeEdges, nodesUsed |-> h.nodesUsed, edgesUsed |-> h.edgesUsed,
                nodeNext |-> h.nodeNext, edgeNext |-> h.edgeNext, version |-> h.version]
    <3>1. h = [left EXCEPT !.nodes[to[1]].in = Without(@, e),
                           !.edges[i] = NoEdge,
                           !.edgeNext[i] = e[2] + 1,
                           !.freeEdges = Append(@, i)]
      BY <2>1 DEF EraseEdge, edge
    <3> HIDE DEF h
    <3>2. QED BY <1>1, <3>1 DEF GraphRecord
  <2> HIDE DEF h, left
  <2>4. ASSUME NEW k \in NodeIndices
        PROVE  /\ h.nodes[k].gen = g.nodes[k].gen /\ h.nodes[k].what = g.nodes[k].what
               /\ h.nodes[k].out = IF k = from[1] THEN Without(g.nodes[k].out, e) ELSE g.nodes[k].out
               /\ h.nodes[k].in = IF k = to[1] THEN Without(g.nodes[k].in, e) ELSE g.nodes[k].in
               /\ h.nodes[k] \in NodeSlot(W) /\ g.nodes[k] \in NodeSlot(W)
               /\ g.nodes[k].gen = 0 => h.nodes[k] = g.nodes[k]
    <3>1. g.nodes[k] \in NodeSlot(W) /\ g.nodes \in [NodeIndices -> NodeSlot(W)]
      BY <1>1 DEF GraphRecord
    <3>2. left.nodes[k] = IF k = from[1] THEN [g.nodes[k] EXCEPT !.out = Without(@, e)]
                          ELSE g.nodes[k]
      BY <2>3, <3>1
    <3>3. /\ left.nodes[k].gen = g.nodes[k].gen /\ left.nodes[k].what = g.nodes[k].what
          /\ left.nodes[k].out = IF k = from[1] THEN Without(g.nodes[k].out, e)
                                 ELSE g.nodes[k].out
          /\ left.nodes[k].in = g.nodes[k].in
          /\ left.nodes[k] \in NodeSlot(W)
      <4>1. CASE k = from[1]
        <5> DEFINE s == Without(g.nodes[k].out, e)
        <5>1. s \in Seq(SomeIds)
          BY <3>1, SlotType, ElemsOfWithout
        <5>2. left.nodes[k] = [g.nodes[k] EXCEPT !.out = s]
          BY <3>2, <4>1
        <5> HIDE DEF s
        <5>3. /\ left.nodes[k] \in NodeSlot(W)
              /\ left.nodes[k].gen = g.nodes[k].gen /\ left.nodes[k].what = g.nodes[k].what
              /\ left.nodes[k].out = s /\ left.nodes[k].in = g.nodes[k].in
          BY <3>1, <5>1, <5>2, SlotWithOut
        <5>4. QED BY <4>1, <5>3 DEF s
      <4>2. CASE k # from[1]
        BY <3>1, <3>2, <4>2
      <4>3. QED BY <4>1, <4>2
    <3>4. DOMAIN left.nodes = NodeIndices
      BY <2>3, <3>1
    <3>5. h.nodes[k] = IF k = to[1] THEN [left.nodes[k] EXCEPT !.in = Without(@, e)]
                       ELSE left.nodes[k]
      BY <2>3, <3>4
    <3>6. /\ h.nodes[k].gen = g.nodes[k].gen /\ h.nodes[k].what = g.nodes[k].what
          /\ h.nodes[k].out = IF k = from[1] THEN Without(g.nodes[k].out, e) ELSE g.nodes[k].out
          /\ h.nodes[k].in = IF k = to[1] THEN Without(g.nodes[k].in, e) ELSE g.nodes[k].in
          /\ h.nodes[k] \in NodeSlot(W)
      <4>1. CASE k = to[1]
        <5> DEFINE s == Without(left.nodes[k].in, e)
        <5>1. s \in Seq(SomeIds)
          BY <3>3, SlotType, ElemsOfWithout
        <5>2. h.nodes[k] = [left.nodes[k] EXCEPT !.in = s]
          BY <3>5, <4>1
        <5> HIDE DEF s
        <5>3. /\ h.nodes[k] \in NodeSlot(W)
              /\ h.nodes[k].gen = left.nodes[k].gen /\ h.nodes[k].what = left.nodes[k].what
              /\ h.nodes[k].out = left.nodes[k].out /\ h.nodes[k].in = s
          BY <3>3, <5>1, <5>2, SlotWithIn
        <5>4. QED BY <3>3, <4>1, <5>3 DEF s
      <4>2. CASE k # to[1]
        BY <3>3, <3>5, <4>2
      <4>3. QED BY <4>1, <4>2
    <3>7. g.nodes[k].gen = 0 => h.nodes[k] = g.nodes[k]
      BY <2>2, <3>2, <3>5
    <3>8. QED BY <3>1, <3>6, <3>7
  <2>5. NoEdge \in EdgeSlot(W)
    BY <1>1 DEF NoEdge, NoId, EdgeSlot, SomeIds
  <2>6. h \in GraphRecord(W)
    <3>1. h.edges \in [EdgeIndices -> EdgeSlot(W)]
      BY <1>1, <2>1, <2>3, <2>5, ZenonT(30) DEF GraphRecord
    <3>2. h.freeEdges \in Seq(EdgeIndices)
      <4>1. g.freeEdges \in Seq(EdgeIndices) /\ i \in EdgeIndices
        BY <1>1, <2>1 DEF GraphRecord
      <4> HIDE DEF i
      <4>2. QED BY <2>3, <4>1
    <3>3. h.edgeNext \in [EdgeIndices -> Nat \ {0}]
      <4>1. g.edgeNext \in [EdgeIndices -> Nat \ {0}] /\ e[2] + 1 \in Nat \ {0}
        BY <1>1, <2>1 DEF GraphRecord
      <4> HIDE DEF i
      <4>2. QED BY <2>3, <4>1
    <3>4. h.nodes \in [NodeIndices -> NodeSlot(W)]
      <4>1. g.nodes \in [NodeIndices -> NodeSlot(W)]
        BY <1>1 DEF GraphRecord
      <4>2. DOMAIN h.nodes = NodeIndices /\ h.nodes = [k \in DOMAIN h.nodes |-> h.nodes[k]]
        BY <2>3, <4>1
      <4>3. QED BY <2>4, <4>2
    <3>5. QED BY <1>1, <2>3, <3>1, <3>2, <3>3, <3>4 DEF GraphRecord
  <2>7. /\ h.edges[i] = NoEdge /\ \A j \in EdgeIndices \ {i} : h.edges[j] = g.edges[j]
        /\ h.edgeNext[i] = e[2] + 1 /\ \A j \in EdgeIndices \ {i} : h.edgeNext[j] = g.edgeNext[j]
    BY <1>1, <2>1, <2>3 DEF GraphRecord
  <2>8. NoEdge.gen = 0
    BY DEF NoEdge
  <2>9. NodeSlotsHold(h)
    <3>1. \A k \in NodeIndices :
             /\ h.nodes[k].gen = g.nodes[k].gen
             /\ g.nodes[k].gen = 0 => h.nodes[k] = g.nodes[k]
      BY <2>4
    <3>2. 1 .. g.nodesUsed \subseteq NodeIndices
      BY <1>1, GraphAssumption DEF GraphRecord, NodeIndices
    <3>3. h.nodesUsed = g.nodesUsed /\ h.freeNodes = g.freeNodes /\ h.nodeNext = g.nodeNext
      BY <2>3
    <3>4. {k \in 1 .. h.nodesUsed : h.nodes[k].gen = 0}
              = {k \in 1 .. g.nodesUsed : g.nodes[k].gen = 0}
      BY <3>1, <3>2, <3>3
    <3>5. \A k \in NodeIndices :
             /\ k > h.nodesUsed => h.nodes[k].gen = 0 /\ h.nodeNext[k] = 1
             /\ h.nodes[k].gen \in {0, h.nodeNext[k]}
             /\ h.nodes[k].gen = 0 => h.nodes[k] = NoNode
      BY <1>1, <3>1, <3>3 DEF NodeSlotsHold
    <3>6. QED BY <1>1, <3>3, <3>4, <3>5 DEF NodeSlotsHold
  <2>10. i \in 1 .. g.edgesUsed /\ 1 .. g.edgesUsed \subseteq EdgeIndices
    BY <1>1, <2>1, GraphAssumption DEF GraphRecord, EdgeSlotsHold, EdgeIndices
  <2>11. EdgeSlotsHold(h)
    <3>1. ASSUME NEW j \in EdgeIndices
          PROVE  /\ j > h.edgesUsed => h.edges[j].gen = 0 /\ h.edgeNext[j] = 1
                 /\ h.edges[j].gen \in {0, h.edgeNext[j]}
                 /\ h.edges[j].gen = 0 => h.edges[j] = NoEdge
      <4>1. CASE j = i
        <5>1. ~(j > h.edgesUsed)
          BY <1>1, <2>3, <2>10, <4>1, GraphAssumption DEF GraphRecord
        <5>2. QED BY <2>7, <2>8, <4>1, <5>1
      <4>2. CASE j # i
        BY <1>1, <2>3, <2>7, <4>2 DEF EdgeSlotsHold
      <4>3. QED BY <4>1, <4>2
    <3>2. g.freeEdges \in Seq(EdgeIndices) /\ Distinct(g.freeEdges) /\ i \notin Elems(g.freeEdges)
      BY <1>1, <2>1 DEF GraphRecord, EdgeSlotsHold
    <3>3. Distinct(h.freeEdges) /\ Elems(h.freeEdges) = Elems(g.freeEdges) \cup {i}
      <4>1. i \in EdgeIndices /\ h.freeEdges = Append(g.freeEdges, i)
        BY <2>1, <2>3
      <4> HIDE DEF i
      <4>2. QED BY <3>2, <4>1, ElemsOfAppend
    <3>4. {j \in 1 .. h.edgesUsed : h.edges[j].gen = 0}
              = {j \in 1 .. g.edgesUsed : g.edges[j].gen = 0} \cup {i}
      <4>1. h.edgesUsed = g.edgesUsed
        BY <2>3
      <4>2. QED BY <2>7, <2>8, <2>10, <4>1
    <3>5. QED BY <1>1, <3>1, <3>3, <3>4 DEF EdgeSlotsHold
  <2>12. \A d : d \in LiveEdges(h) <=> d \in LiveEdges(g) /\ d # e
    <3>1. ASSUME NEW d PROVE d \in LiveEdges(h) <=> d \in LiveEdges(g) /\ d # e
      <4>1. CASE d \in EdgeIndices \X Nat /\ d[1] # i
        BY <1>1, <2>1, <2>6, <2>7, <2>11, <4>1, LiveEdge
      <4>2. CASE d \in EdgeIndices \X Nat /\ d[1] = i
        <5>1. d \notin LiveEdges(h)
          BY <2>6, <2>7, <2>8, <2>11, <4>2, LiveEdge
        <5>2. d \in LiveEdges(g) => d[2] = e[2]
          BY <1>1, <2>1, <4>2, LiveEdge
        <5>3. d[2] = e[2] => d = e
          BY <2>1, <4>2
        <5>4. QED BY <5>1, <5>2, <5>3
      <4>3. CASE d \notin EdgeIndices \X Nat
        BY <1>1, <2>6, <2>11, <4>3, LiveEdge
      <4>4. QED BY <4>1, <4>2, <4>3
    <3>2. QED BY <3>1
  <2>13. \A d \in LiveEdges(h) : EdgeAt(h, d) = EdgeAt(g, d)
    <3>1. SUFFICES ASSUME NEW d \in LiveEdges(h) PROVE EdgeAt(h, d) = EdgeAt(g, d)
      OBVIOUS
    <3>2. d \in LiveEdges(g) /\ d[1] \in EdgeIndices
      BY <2>6, <2>11, <2>12, LiveEdge
    <3>3. d[1] # i
      BY <2>6, <2>7, <2>8, <2>11, LiveEdge
    <3>4. QED BY <1>1, <2>6, <2>7, <2>11, <3>2, <3>3, LiveEdge
  <2>14. \A n : n \in LiveNodes(h) <=> n \in LiveNodes(g)
    BY <1>1, <2>4, <2>6, <2>9, LiveNode
  <2>15. NodesStay(g, h)
    <3>1. ASSUME NEW n \in SomeIds PROVE NodeAt(h, n).what = NodeAt(g, n).what
      <4>1. CASE n \in LiveNodes(g)
        BY <1>1, <2>4, <2>6, <2>9, <2>14, <4>1, LiveNode
      <4>2. CASE n \notin LiveNodes(g)
        BY <1>1, <2>6, <2>9, <2>14, <4>2, LiveNode
      <4>3. QED BY <4>1, <4>2
    <3>2. QED BY <2>14, <3>1 DEF NodesStay
  <2>16. EndsAreLive(h)
    BY <1>1, <2>12, <2>13, <2>14 DEF EndsAreLive, EdgeFits
  <2>17. EntriesHold(h)
    <3>1. SUFFICES ASSUME NEW n \in LiveNodes(h)
                   PROVE  /\ Distinct(NodeAt(h, n).out) /\ Distinct(NodeAt(h, n).in)
                          /\ Elems(NodeAt(h, n).out) = {d \in LiveEdges(h) : EdgeAt(h, d).from = n}
                          /\ Elems(NodeAt(h, n).in) = {d \in LiveEdges(h) : EdgeAt(h, d).to = n}
      BY DEF EntriesHold
    <3>2. /\ n \in LiveNodes(g) /\ n[1] \in NodeIndices
          /\ NodeAt(h, n) = h.nodes[n[1]] /\ NodeAt(g, n) = g.nodes[n[1]]
          /\ n = from <=> n[1] = from[1]
          /\ n = to <=> n[1] = to[1]
      <4>1. n \in LiveNodes(g)
        BY <2>14
      <4>2. n[1] \in NodeIndices /\ NodeAt(h, n) = h.nodes[n[1]] /\ NodeAt(g, n) = g.nodes[n[1]]
        BY <1>1, <2>6, <2>9, <2>14, <4>1, LiveNode
      <4>3. \A m \in LiveNodes(g) : m = <<m[1], g.nodes[m[1]].gen>>
        BY DEF LiveNodes
      <4>4. QED BY <2>2, <4>1, <4>2, <4>3
    <3>3. /\ g.nodes[n[1]].out \in Seq(SomeIds) /\ g.nodes[n[1]].in \in Seq(SomeIds)
          /\ Distinct(g.nodes[n[1]].out) /\ Distinct(g.nodes[n[1]].in)
          /\ Elems(g.nodes[n[1]].out) = {d \in LiveEdges(g) : EdgeAt(g, d).from = n}
          /\ Elems(g.nodes[n[1]].in) = {d \in LiveEdges(g) : EdgeAt(g, d).to = n}
      BY <1>1, <2>4, <3>2, SlotType DEF EntriesHold, NodeSlot
    <3>4. /\ Elems(Without(g.nodes[n[1]].out, e)) = Elems(g.nodes[n[1]].out) \ {e}
          /\ Distinct(Without(g.nodes[n[1]].out, e))
          /\ Elems(Without(g.nodes[n[1]].in, e)) = Elems(g.nodes[n[1]].in) \ {e}
          /\ Distinct(Without(g.nodes[n[1]].in, e))
      BY <3>3, ElemsOfWithout
    <3>5. {d \in LiveEdges(h) : EdgeAt(h, d).from = n}
              = {d \in LiveEdges(g) : EdgeAt(g, d).from = n} \ {e}
      BY <2>12, <2>13
    <3>6. {d \in LiveEdges(h) : EdgeAt(h, d).to = n}
              = {d \in LiveEdges(g) : EdgeAt(g, d).to = n} \ {e}
      BY <2>12, <2>13
    <3>7. (e \in Elems(g.nodes[n[1]].out) => n = from) /\ (e \in Elems(g.nodes[n[1]].in) => n = to)
      BY <3>3 DEF edge
    <3>8. Elems(NodeAt(h, n).out) = Elems(g.nodes[n[1]].out) \ {e} /\ Distinct(NodeAt(h, n).out)
      BY <2>4, <3>2, <3>3, <3>4, <3>7
    <3>9. Elems(NodeAt(h, n).in) = Elems(g.nodes[n[1]].in) \ {e} /\ Distinct(NodeAt(h, n).in)
      BY <2>4, <3>2, <3>3, <3>4, <3>7
    <3>10. QED BY <3>3, <3>5, <3>6, <3>8, <3>9
  <2>18. \A n : Issued(h, n) <=> Issued(g, n)
    BY <2>3, <2>14 DEF Issued
  <2>19. IsGraph(h, W)
    BY <1>1, <2>6, <2>9, <2>11, <2>16, <2>17 DEF IsGraph
  <2>20. LiveEdges(h) = LiveEdges(g) \ {e}
    BY <2>12
  <2>21. QED BY <2>3, <2>13, <2>15, <2>18, <2>19, <2>20 DEF h
<1>4. QED BY <1>2, <1>3

LEMMA WithoutEdgeIsSound ==
    ASSUME NEW W, NEW g, IsGraph(g, W), NEW e \in SomeIds
    PROVE  LET h == WithoutEdge(g, e)
           IN /\ IsGraph(h, W) /\ NodesStay(g, h)
              /\ LiveEdges(h) = LiveEdges(g) \ {e}
              /\ \A d \in LiveEdges(h) : EdgeAt(h, d) = EdgeAt(g, d)
<1> DEFINE x == EraseEdge(g, e)
           h == [x EXCEPT !.version = @ + 1]
<1>1. /\ IsGraph(x, W) /\ NodesStay(g, x) /\ LiveEdges(x) = LiveEdges(g) \ {e}
      /\ \A d \in LiveEdges(x) : EdgeAt(x, d) = EdgeAt(g, d)
  BY EraseEdgeIsSound
<1>2. h = WithoutEdge(g, e)
  BY DEF WithoutEdge
<1> HIDE DEF x
<1>3. x \in GraphRecord(W)
  BY <1>1 DEF IsGraph
<1>4. /\ h.nodes = x.nodes /\ h.edges = x.edges /\ h.freeNodes = x.freeNodes
      /\ h.freeEdges = x.freeEdges /\ h.nodesUsed = x.nodesUsed /\ h.edgesUsed = x.edgesUsed
      /\ h.nodeNext = x.nodeNext /\ h.edgeNext = x.edgeNext
      /\ h \in GraphRecord(W)
  <2>0. h = [x EXCEPT !.version = @ + 1]
    OBVIOUS
  <2> HIDE DEF h
  <2>1. /\ h.nodes = x.nodes /\ h.edges = x.edges /\ h.freeNodes = x.freeNodes
        /\ h.freeEdges = x.freeEdges /\ h.nodesUsed = x.nodesUsed /\ h.edgesUsed = x.edgesUsed
        /\ h.nodeNext = x.nodeNext /\ h.edgeNext = x.edgeNext /\ h.version = x.version + 1
        /\ h = [nodes |-> h.nodes, edges |-> h.edges, freeNodes |-> h.freeNodes,
                freeEdges |-> h.freeEdges, nodesUsed |-> h.nodesUsed, edgesUsed |-> h.edgesUsed,
                nodeNext |-> h.nodeNext, edgeNext |-> h.edgeNext, version |-> h.version]
    BY <1>3, <2>0 DEF GraphRecord
  <2>2. h.version \in Nat
    BY <1>3, <2>1 DEF GraphRecord
  <2>3. h \in GraphRecord(W)
    BY <1>3, <2>1, <2>2 DEF GraphRecord
  <2>4. QED BY <2>1, <2>3
<1> HIDE DEF h
<1>5. /\ LiveNodes(h) = LiveNodes(x) /\ LiveEdges(h) = LiveEdges(x)
      /\ \A n : NodeAt(h, n) = NodeAt(x, n)
      /\ \A d : EdgeAt(h, d) = EdgeAt(x, d)
  BY <1>4 DEF LiveNodes, LiveEdges, NodeAt, EdgeAt
<1>6. IsGraph(h, W)
  <2>1. NodeSlotsHold(h) /\ EdgeSlotsHold(h)
    BY <1>1, <1>4 DEF IsGraph, NodeSlotsHold, EdgeSlotsHold
  <2>2. EntriesHold(h) /\ EndsAreLive(h)
    BY <1>1, <1>5 DEF IsGraph, EntriesHold, EndsAreLive, EdgeFits
  <2>3. QED BY <1>1, <1>4, <2>1, <2>2 DEF IsGraph
<1>7. NodesStay(g, h)
  BY <1>1, <1>5 DEF NodesStay
<1>8. QED BY <1>1, <1>2, <1>5, <1>6, <1>7

(* The end of removeNode(): the slot of a node whose edges are gone.       *)
DropSlot(x, n) ==
    [x EXCEPT !.nodes[n[1]] = NoNode, !.nodeNext[n[1]] = n[2] + 1,
              !.freeNodes = Append(@, n[1]), !.version = @ + 1]

LEMMA DropSlotIsSound ==
    ASSUME NEW W, NEW g, IsGraph(g, W), NEW n \in LiveNodes(g),
           \A e \in LiveEdges(g) : EdgeAt(g, e).from # n /\ EdgeAt(g, e).to # n
    PROVE  LET h == DropSlot(g, n)
           IN /\ IsGraph(h, W) /\ EdgesStay(g, h)
              /\ LiveNodes(h) = LiveNodes(g) \ {n}
              /\ \A m \in LiveNodes(h) : NodeAt(h, m) = NodeAt(g, m)
              /\ \A m : Issued(h, m) <=> Issued(g, m)
              /\ h.version = g.version + 1
<1> DEFINE h == DropSlot(g, n)
           i == n[1]
<1>1. /\ g \in GraphRecord(W) /\ NodeSlotsHold(g) /\ EdgeSlotsHold(g)
      /\ EntriesHold(g) /\ EndsAreLive(g) /\ "none" \in W
  BY DEF IsGraph
<1>2. /\ i \in NodeIndices /\ NodeAt(g, n) = g.nodes[i] /\ n = <<i, n[2]>> /\ n[2] \in Nat \ {0}
      /\ g.nodes[i].gen = n[2] /\ g.nodeNext[i] = n[2]
  <2>1. /\ n \in NodeIndices \X Nat /\ n[2] # 0 /\ g.nodes[i].gen = n[2]
        /\ NodeAt(g, n) = g.nodes[i]
    BY <1>1, LiveNode
  <2>2. g.nodeNext[i] = n[2]
    BY <1>1, <2>1 DEF NodeSlotsHold
  <2>3. QED BY <2>1, <2>2
<1> HIDE DEF i
<1>3. /\ h.nodes = [g.nodes EXCEPT ![i] = NoNode]
      /\ h.nodeNext = [g.nodeNext EXCEPT ![i] = n[2] + 1]
      /\ h.freeNodes = Append(g.freeNodes, i) /\ h.version = g.version + 1
      /\ h.nodesUsed = g.nodesUsed /\ h.edges = g.edges /\ h.freeEdges = g.freeEdges
      /\ h.edgesUsed = g.edgesUsed /\ h.edgeNext = g.edgeNext
      /\ h = [nodes |-> h.nodes, edges |-> h.edges, freeNodes |-> h.freeNodes,
              freeEdges |-> h.freeEdges, nodesUsed |-> h.nodesUsed, edgesUsed |-> h.edgesUsed,
              nodeNext |-> h.nodeNext, edgeNext |-> h.edgeNext, version |-> h.version]
  <2>1. h = [g EXCEPT !.nodes[i] = NoNode, !.nodeNext[i] = n[2] + 1,
                      !.freeNodes = Append(@, i), !.version = @ + 1]
    BY DEF DropSlot, i
  <2> HIDE DEF h
  <2>2. QED BY <1>1, <2>1 DEF GraphRecord
<1> HIDE DEF h
<1>4. NoNode \in NodeSlot(W) /\ NoNode.gen = 0
  BY <1>1 DEF NoNode, NodeSlot
<1>5. h \in GraphRecord(W)
  <2>1. h.nodes \in [NodeIndices -> NodeSlot(W)]
    BY <1>1, <1>2, <1>3, <1>4 DEF GraphRecord
  <2>2. h.freeNodes \in Seq(NodeIndices)
    BY <1>1, <1>2, <1>3 DEF GraphRecord
  <2>3. h.nodeNext \in [NodeIndices -> Nat \ {0}]
    <3>1. g.nodeNext \in [NodeIndices -> Nat \ {0}] /\ n[2] + 1 \in Nat \ {0}
      BY <1>1, <1>2 DEF GraphRecord
    <3>2. QED BY <1>2, <1>3, <3>1
  <2>4. h.version \in Nat
    BY <1>1, <1>3 DEF GraphRecord
  <2>5. QED BY <1>1, <1>3, <2>1, <2>2, <2>3, <2>4 DEF GraphRecord
<1>6. /\ h.nodes[i] = NoNode /\ h.nodeNext[i] = n[2] + 1
      /\ \A j \in NodeIndices \ {i} : h.nodes[j] = g.nodes[j] /\ h.nodeNext[j] = g.nodeNext[j]
  BY <1>1, <1>2, <1>3 DEF GraphRecord
<1>7. i \in 1 .. g.nodesUsed /\ 1 .. g.nodesUsed \subseteq NodeIndices
  BY <1>1, <1>2, GraphAssumption DEF GraphRecord, NodeSlotsHold, NodeIndices
<1>8. EdgesStay(g, h) /\ EdgeSlotsHold(h)
  BY <1>1, <1>3 DEF EdgesStay, EdgeSlotsHold, LiveEdges, EdgeAt
<1>9. NodeSlotsHold(h)
  <2>1. ASSUME NEW j \in NodeIndices
        PROVE  /\ j > h.nodesUsed => h.nodes[j].gen = 0 /\ h.nodeNext[j] = 1
               /\ h.nodes[j].gen \in {0, h.nodeNext[j]}
               /\ h.nodes[j].gen = 0 => h.nodes[j] = NoNode
    <3>1. CASE j = i
      <4>1. ~(j > h.nodesUsed)
        BY <1>1, <1>3, <1>7, <3>1, GraphAssumption DEF GraphRecord
      <4>2. QED BY <1>4, <1>6, <3>1, <4>1
    <3>2. CASE j # i
      BY <1>1, <1>3, <1>6, <3>2 DEF NodeSlotsHold
    <3>3. QED BY <3>1, <3>2
  <2>2. g.freeNodes \in Seq(NodeIndices) /\ Distinct(g.freeNodes) /\ i \notin Elems(g.freeNodes)
    BY <1>1, <1>2 DEF GraphRecord, NodeSlotsHold
  <2>3. Distinct(h.freeNodes) /\ Elems(h.freeNodes) = Elems(g.freeNodes) \cup {i}
    BY <1>2, <1>3, <2>2, ElemsOfAppend
  <2>4. {j \in 1 .. h.nodesUsed : h.nodes[j].gen = 0}
            = {j \in 1 .. g.nodesUsed : g.nodes[j].gen = 0} \cup {i}
    <3>1. h.nodesUsed = g.nodesUsed
      BY <1>3
    <3>2. QED BY <1>4, <1>6, <1>7, <3>1
  <2>5. QED BY <1>1, <2>1, <2>3, <2>4 DEF NodeSlotsHold
<1>10. \A m : m \in LiveNodes(h) <=> m \in LiveNodes(g) /\ m # n
  <2>1. ASSUME NEW m PROVE m \in LiveNodes(h) <=> m \in LiveNodes(g) /\ m # n
    <3>1. CASE m \in NodeIndices \X Nat /\ m[1] # i
      BY <1>1, <1>5, <1>6, <1>9, <3>1, LiveNode DEF i
    <3>2. CASE m \in NodeIndices \X Nat /\ m[1] = i
      <4>1. m \notin LiveNodes(h)
        BY <1>4, <1>5, <1>6, <1>9, <3>2, LiveNode
      <4>2. m \in LiveNodes(g) => m[2] = n[2]
        BY <1>1, <1>2, <3>2, LiveNode
      <4>3. m[2] = n[2] => m = n
        BY <1>2, <3>2
      <4>4. QED BY <4>1, <4>2, <4>3
    <3>3. CASE m \notin NodeIndices \X Nat
      BY <1>1, <1>5, <1>9, <3>3, LiveNode
    <3>4. QED BY <3>1, <3>2, <3>3
  <2>2. QED BY <2>1
<1>11. \A m \in LiveNodes(h) : NodeAt(h, m) = NodeAt(g, m)
  <2>1. SUFFICES ASSUME NEW m \in LiveNodes(h) PROVE NodeAt(h, m) = NodeAt(g, m)
    OBVIOUS
  <2>2. m \in LiveNodes(g) /\ m[1] \in NodeIndices
    BY <1>5, <1>9, <1>10, LiveNode
  <2>3. m[1] # i
    BY <1>4, <1>5, <1>6, <1>9, LiveNode
  <2>4. QED BY <1>1, <1>5, <1>6, <1>9, <2>2, <2>3, LiveNode
<1>12. EndsAreLive(h)
  BY <1>1, <1>8, <1>10, LiveEdge DEF EndsAreLive, EdgeFits, EdgesStay
<1>13. EntriesHold(h)
  <2>1. LiveEdges(h) = LiveEdges(g) /\ \A e \in LiveEdges(g) : EdgeAt(h, e) = EdgeAt(g, e)
    BY <1>1, <1>8, LiveEdge DEF EdgesStay
  <2>2. SUFFICES ASSUME NEW m \in LiveNodes(h)
                 PROVE  /\ Distinct(NodeAt(h, m).out) /\ Distinct(NodeAt(h, m).in)
                        /\ Elems(NodeAt(h, m).out) = {e \in LiveEdges(h) : EdgeAt(h, e).from = m}
                        /\ Elems(NodeAt(h, m).in) = {e \in LiveEdges(h) : EdgeAt(h, e).to = m}
    BY DEF EntriesHold
  <2>3. m \in LiveNodes(g) /\ NodeAt(h, m) = NodeAt(g, m)
    BY <1>10, <1>11
  <2>4. QED BY <1>1, <2>1, <2>3 DEF EntriesHold
<1>14. \A m : Issued(h, m) <=> Issued(g, m)
  <2>1. ASSUME NEW m \in NodeIndices \X Nat PROVE Issued(h, m) <=> Issued(g, m)
    <3>1. CASE m[1] # i
      BY <1>6, <1>10, <3>1 DEF Issued, i
    <3>2. CASE m[1] = i
      <4>1. m \in LiveNodes(g) <=> m[2] = n[2]
        BY <1>1, <1>2, <3>2, LiveNode
      <4>2. m \notin LiveNodes(h)
        BY <1>4, <1>5, <1>6, <1>9, <3>2, LiveNode
      <4>3. h.nodeNext[m[1]] = n[2] + 1 /\ g.nodeNext[m[1]] = n[2] /\ m[2] \in Nat /\ n[2] \in Nat
        BY <1>2, <1>6, <3>2
      <4>4. QED BY <4>1, <4>2, <4>3 DEF Issued
    <3>3. QED BY <3>1, <3>2
  <2>2. QED BY <2>1 DEF Issued
<1>15. IsGraph(h, W)
  BY <1>1, <1>5, <1>8, <1>9, <1>12, <1>13 DEF IsGraph
<1>16. LiveNodes(h) = LiveNodes(g) \ {n}
  BY <1>10
<1>17. QED BY <1>3, <1>8, <1>11, <1>14, <1>15, <1>16 DEF h

LEMMA WithNodeAges ==
    ASSUME NEW W, NEW g, IsGraph(g, W), NodeRoom(g), NEW what \in W
    PROVE  EdgesAge(g, WithNode(g, what))
<1>1. g \in GraphRecord(W) /\ EdgeSlotsHold(g)
  BY DEF IsGraph
<1>2. WithNode(g, what).edgeNext = g.edgeNext /\ WithNode(g, what).edges = g.edges
  BY <1>1 DEF WithNode, GraphRecord
<1>3. LiveEdges(WithNode(g, what)) = LiveEdges(g)
  BY <1>2 DEF LiveEdges
<1> QED BY <1>2, <1>3 DEF EdgesAge, EdgeIssued

LEMMA WithEdgeAges ==
    ASSUME NEW W, NEW g, IsGraph(g, W), EdgeRoom(g), NEW what \in W,
           NEW from, NEW to, EdgeFits(g, from, to)
    PROVE  EdgesAge(g, WithEdge(g, from, to, what))
<1> DEFINE h == WithEdge(g, from, to, what)
           id == NextEdgeId(g)
<1>1. g \in GraphRecord(W) /\ EdgeSlotsHold(g)
  BY DEF IsGraph
<1>2. h.edgeNext = g.edgeNext
  BY <1>1 DEF WithEdge, GraphRecord
<1>3. LiveEdges(h) = LiveEdges(g) \cup {id} /\ id \notin LiveEdges(g)
  BY WithEdgeIsSound
<1>4. id[2] = g.edgeNext[id[1]]
  <2>1. CASE g.freeEdges # <<>>
    BY <2>1 DEF NextEdgeId
  <2>2. CASE g.freeEdges = <<>>
    <3>1. g.edgesUsed + 1 \in EdgeIndices /\ g.edgesUsed + 1 > g.edgesUsed
      BY <1>1, <2>2, GraphAssumption DEF EdgeRoom, GraphRecord, EdgeIndices
    <3>2. g.edgeNext[g.edgesUsed + 1] = 1
      BY <1>1, <3>1 DEF EdgeSlotsHold
    <3> QED BY <2>2, <3>2 DEF NextEdgeId
  <2> QED BY <2>1, <2>2
<1> HIDE DEF h, id
<1>5. ~EdgeIssued(g, id)
  <2>1. ASSUME id \in EdgeIndices \X Nat PROVE ~(id[2] < g.edgeNext[id[1]])
    BY <1>1, <1>4, <2>1 DEF GraphRecord
  <2> QED BY <1>3, <2>1 DEF EdgeIssued
<1>6. ASSUME NEW e, EdgeIssued(g, e)
      PROVE  EdgeIssued(h, e) /\ (e \in LiveEdges(h) => e \in LiveEdges(g))
  BY <1>2, <1>3, <1>5, <1>6 DEF EdgeIssued
<1> QED BY <1>6 DEF EdgesAge, h

LEMMA EraseEdgeAges ==
    ASSUME NEW W, NEW g, IsGraph(g, W), NEW e \in SomeIds
    PROVE  EdgesAge(g, EraseEdge(g, e))
<1> DEFINE h == EraseEdge(g, e)
           i == e[1]
<1>1. g \in GraphRecord(W) /\ EdgeSlotsHold(g)
  BY DEF IsGraph
<1>2. CASE e \notin LiveEdges(g)
  <2>1. h = g
    BY <1>1, <1>2, LiveEdge DEF EraseEdge
  <2> QED BY <2>1 DEF EdgesAge
<1>3. CASE e \in LiveEdges(g)
  <2>1. /\ e \in EdgeIndices \X Nat /\ e[2] # 0 /\ g.edges[i].gen = e[2]
        /\ EdgeAt(g, e) # NoEdge
    BY <1>1, <1>3, LiveEdge
  <2>2. g.edgeNext[i] = e[2]
    BY <1>1, <2>1 DEF EdgeSlotsHold
  <2>3. h.edgeNext = [g.edgeNext EXCEPT ![i] = e[2] + 1]
    BY <1>1, <2>1 DEF EraseEdge, GraphRecord
  <2>4. LiveEdges(h) = LiveEdges(g) \ {e}
    BY EraseEdgeIsSound
  <2> HIDE DEF h
  <2>5. ASSUME NEW d, EdgeIssued(g, d)
        PROVE  EdgeIssued(h, d) /\ (d \in LiveEdges(h) => d \in LiveEdges(g))
    <3>1. d \in EdgeIndices \X Nat /\ (d[2] < g.edgeNext[d[1]] \/ d \in LiveEdges(g))
      BY <2>5 DEF EdgeIssued
    <3>2. g.edgeNext \in [EdgeIndices -> Nat \ {0}]
      BY <1>1 DEF GraphRecord
    <3>3. CASE d[1] = i
      <4>1. h.edgeNext[d[1]] = e[2] + 1
        BY <2>1, <2>3, <3>2, <3>3
      <4>2. d \in LiveEdges(g) => d[2] = e[2]
        BY <1>1, <2>1, <3>3, LiveEdge
      <4>3. d[2] < h.edgeNext[d[1]]
        BY <2>1, <2>2, <3>1, <3>3, <4>1, <4>2
      <4> QED BY <2>4, <3>1, <4>3 DEF EdgeIssued
    <3>4. CASE d[1] # i
      <4>1. h.edgeNext[d[1]] = g.edgeNext[d[1]]
        BY <2>3, <3>1, <3>2, <3>4
      <4> QED BY <2>4, <3>1, <3>4, <4>1 DEF EdgeIssued
    <3> QED BY <3>3, <3>4
  <2> QED BY <2>5 DEF EdgesAge, h
<1> QED BY <1>2, <1>3

LEMMA WithoutEdgeAges ==
    ASSUME NEW W, NEW g, IsGraph(g, W), NEW e \in SomeIds
    PROVE  EdgesAge(g, WithoutEdge(g, e))
<1> DEFINE x == EraseEdge(g, e)
           h == WithoutEdge(g, e)
<1>1. EdgesAge(g, x) /\ x \in GraphRecord(W)
  BY EraseEdgeAges, EraseEdgeIsSound DEF IsGraph
<1>2. h = [x EXCEPT !.version = @ + 1]
  BY DEF WithoutEdge
<1> HIDE DEF x, h
<1>3. h.edgeNext = x.edgeNext /\ h.edges = x.edges
  BY <1>1, <1>2 DEF GraphRecord
<1>4. LiveEdges(h) = LiveEdges(x)
  BY <1>3 DEF LiveEdges
<1> QED BY <1>1, <1>3, <1>4 DEF EdgesAge, EdgeIssued, h

LEMMA DropSlotAges ==
    ASSUME NEW W, NEW g, IsGraph(g, W), NEW n
    PROVE  EdgesAge(g, DropSlot(g, n))
<1>1. g \in GraphRecord(W)
  BY DEF IsGraph
<1>2. DropSlot(g, n).edgeNext = g.edgeNext /\ DropSlot(g, n).edges = g.edges
  BY <1>1 DEF DropSlot, GraphRecord
<1>3. LiveEdges(DropSlot(g, n)) = LiveEdges(g)
  BY <1>2 DEF LiveEdges
<1> QED BY <1>2, <1>3 DEF EdgesAge, EdgeIssued

LEMMA AgesOn ==
    ASSUME NEW f, NEW g, NEW h, EdgesAge(f, g), EdgesAge(g, h)
    PROVE  EdgesAge(f, h)
BY DEF EdgesAge

(* removeNode(): with the node go its edges, each once, and nothing else.  *)
LEMMA WithoutNodeIsSound ==
    ASSUME NEW W, NEW g, IsGraph(g, W), NEW n \in LiveNodes(g)
    PROVE  LET h == WithoutNode(g, n)
           IN /\ IsGraph(h, W)
              /\ LiveNodes(h) = LiveNodes(g) \ {n}
              /\ \A m \in LiveNodes(h) : NodeAt(h, m).what = NodeAt(g, m).what
              /\ LiveEdges(h) = {e \in LiveEdges(g) : EdgeAt(g, e).from # n /\ EdgeAt(g, e).to # n}
              /\ \A e \in LiveEdges(h) : EdgeAt(h, e) = EdgeAt(g, e)
              /\ \A m : Issued(h, m) <=> Issued(g, m)
              /\ EdgesAge(g, h)
              /\ h.version = g.version + 1
<1> DEFINE doomed == g.nodes[n[1]].out \o g.nodes[n[1]].in
           IsErased(f) == f = [k \in 0 .. Len(doomed) |->
                                  IF k = 0 THEN g ELSE EraseEdge(f[k - 1], doomed[k])]
           erased == CHOOSE f : IsErased(f)
           Graphs == {x \in GraphRecord(W) : IsGraph(x, W)}
           step == [p \in (1 .. Len(doomed)) \X Graphs |-> EraseEdge(p[2], doomed[p[1]])]
           Gone(k) == {doomed[j] : j \in 1 .. k}
           Left(x, k) == /\ IsGraph(x, W) /\ NodesStay(g, x)
                         /\ LiveEdges(x) = LiveEdges(g) \ Gone(k)
                         /\ \A d \in LiveEdges(x) : EdgeAt(x, d) = EdgeAt(g, d)
                         /\ \A m : Issued(x, m) <=> Issued(g, m)
                         /\ EdgesAge(g, x)
                         /\ x.version = g.version
           T == {k \in 0 .. Len(doomed) : Left(erased[k], k)}
<1>1. /\ g \in GraphRecord(W) /\ NodeSlotsHold(g) /\ EdgeSlotsHold(g)
      /\ EntriesHold(g) /\ EndsAreLive(g) /\ g \in Graphs
  BY DEF IsGraph
<1>2. /\ NodeAt(g, n) = g.nodes[n[1]] /\ g.nodes[n[1]] \in NodeSlot(W) /\ n \in SomeIds
      /\ n[1] \in NodeIndices
  <2>1. n[1] \in NodeIndices /\ NodeAt(g, n) = g.nodes[n[1]] /\ n \in SomeIds
    BY <1>1, LiveNode
  <2>2. QED BY <1>1, <2>1 DEF GraphRecord
<1>3. /\ doomed \in Seq(SomeIds) /\ Len(doomed) \in Nat
      /\ \A e : e \in Elems(doomed)
                   <=> e \in LiveEdges(g) /\ (EdgeAt(g, e).from = n \/ EdgeAt(g, e).to = n)
  <2> DEFINE out == g.nodes[n[1]].out
             in == g.nodes[n[1]].in
  <2>1. out \in Seq(SomeIds) /\ in \in Seq(SomeIds)
    BY <1>2 DEF NodeSlot
  <2>2. /\ Elems(out) = {e \in LiveEdges(g) : EdgeAt(g, e).from = n}
        /\ Elems(in) = {e \in LiveEdges(g) : EdgeAt(g, e).to = n}
    BY <1>1, <1>2 DEF EntriesHold
  <2> HIDE DEF out, in
  <2>3. Elems(out \o in) = Elems(out) \cup Elems(in) /\ out \o in \in Seq(SomeIds)
    <3>1. /\ Len(out \o in) = Len(out) + Len(in) /\ out \o in \in Seq(SomeIds)
          /\ Len(out) \in Nat /\ Len(in) \in Nat
          /\ \A k \in 1 .. Len(out) : (out \o in)[k] = out[k]
          /\ \A k \in 1 .. Len(in) : (out \o in)[Len(out) + k] = in[k]
      BY <2>1
    <3>2. \A k \in 1 .. Len(out \o in) :
             k \in 1 .. Len(out) \/ \E j \in 1 .. Len(in) : k = Len(out) + j
      <4>1. SUFFICES ASSUME NEW k \in 1 .. Len(out \o in), k \notin 1 .. Len(out)
                     PROVE  \E j \in 1 .. Len(in) : k = Len(out) + j
        OBVIOUS
      <4>2. k - Len(out) \in 1 .. Len(in) /\ k = Len(out) + (k - Len(out))
        BY <3>1, <4>1
      <4>3. QED BY <4>2
    <3>3. /\ \A k \in 1 .. Len(out) : k \in 1 .. Len(out \o in)
          /\ \A k \in 1 .. Len(in) : Len(out) + k \in 1 .. Len(out \o in)
      BY <3>1
    <3>4. Elems(out) \subseteq Elems(out \o in)
      BY <3>1, <3>3 DEF Elems
    <3>5. Elems(in) \subseteq Elems(out \o in)
      <4>1. SUFFICES ASSUME NEW k \in 1 .. Len(in) PROVE in[k] \in Elems(out \o in)
        BY DEF Elems
      <4>2. (out \o in)[Len(out) + k] = in[k] /\ Len(out) + k \in 1 .. Len(out \o in)
        BY <3>1, <3>3
      <4>3. QED BY <4>2 DEF Elems
    <3>6. Elems(out \o in) \subseteq Elems(out) \cup Elems(in)
      <4>1. SUFFICES ASSUME NEW k \in 1 .. Len(out \o in)
                     PROVE  (out \o in)[k] \in Elems(out) \cup Elems(in)
        BY DEF Elems
      <4>2. CASE k \in 1 .. Len(out)
        BY <3>1, <4>2 DEF Elems
      <4>3. ASSUME NEW j \in 1 .. Len(in), k = Len(out) + j
            PROVE  (out \o in)[k] \in Elems(in)
        BY <3>1, <4>3 DEF Elems
      <4>4. QED BY <3>2, <4>2, <4>3
    <3>7. QED BY <3>1, <3>4, <3>5, <3>6
  <2>4. doomed = out \o in
    BY DEF out, in
  <2>5. QED BY <2>2, <2>3, <2>4
<1> HIDE DEF doomed
<1>4. \A k \in 1 .. Len(doomed) : doomed[k] \in SomeIds
  BY <1>3
<1>5. step \in [(1 .. Len(doomed)) \X Graphs -> Graphs]
  <2>1. ASSUME NEW k \in 1 .. Len(doomed), NEW x \in Graphs
        PROVE  EraseEdge(x, doomed[k]) \in Graphs
    <3>1. IsGraph(EraseEdge(x, doomed[k]), W)
      BY <1>4, EraseEdgeIsSound
    <3>2. QED BY <3>1 DEF IsGraph
  <2> HIDE DEF Graphs
  <2>2. QED BY <2>1
<1>6. \E f : IsErased(f)
  <2>1. PICK f : Steps(f, Len(doomed), Graphs, g, step)
    <3> HIDE DEF step, Graphs
    <3>1. QED BY <1>1, <1>3, <1>5, Recursion
  <2>2. \A k \in 1 .. Len(doomed) : f[k] = EraseEdge(f[k - 1], doomed[k])
    <3> HIDE DEF Graphs
    <3>1. \A k \in 1 .. Len(doomed) : k - 1 \in 0 .. Len(doomed)
      BY <1>3
    <3>2. \A k \in 1 .. Len(doomed), x \in Graphs : step[<<k, x>>] = EraseEdge(x, doomed[k])
      OBVIOUS
    <3> HIDE DEF step
    <3>3. QED BY <2>1, <3>1, <3>2 DEF Steps
  <2>3. \A k \in 0 .. Len(doomed) : k = 0 \/ k \in 1 .. Len(doomed)
    BY <1>3
  <2> HIDE DEF step, Graphs
  <2>4. IsErased(f)
    BY <2>1, <2>2, <2>3 DEF Steps
  <2> HIDE DEF IsErased
  <2>5. QED BY <2>4
<1>7. IsErased(erased)
  <2> HIDE DEF IsErased
  <2>1. QED BY <1>6
<1>8. WithoutNode(g, n) = DropSlot(erased[Len(doomed)], n)
  BY DEF WithoutNode, DropSlot, doomed
<1> HIDE DEF erased
<1>9. erased[0] = g /\ \A k \in 1 .. Len(doomed) : erased[k] = EraseEdge(erased[k - 1], doomed[k])
  <2>1. \A k \in 1 .. Len(doomed) : k \in 0 .. Len(doomed) /\ k # 0
    BY <1>3
  <2>2. 0 \in 0 .. Len(doomed)
    BY <1>3
  <2>3. QED BY <1>7, <2>1, <2>2
<1>10. 0 \in T
  <2>1. Left(g, 0)
    BY DEF NodesStay, EdgesAge
  <2>2. 0 \in 0 .. Len(doomed)
    BY <1>3
  <2> HIDE DEF Left
  <2>3. QED BY <1>9, <2>1, <2>2
<1>11. ASSUME NEW k \in 1 .. Len(doomed), k - 1 \in T PROVE k \in T
  <2> DEFINE x == erased[k - 1]
             h == EraseEdge(x, doomed[k])
  <2>1. Left(x, k - 1) /\ erased[k] = h /\ k \in 0 .. Len(doomed)
    BY <1>3, <1>9, <1>11
  <2>2. /\ IsGraph(h, W) /\ NodesStay(x, h) /\ LiveEdges(h) = LiveEdges(x) \ {doomed[k]}
        /\ \A d \in LiveEdges(h) : EdgeAt(h, d) = EdgeAt(x, d)
        /\ \A m : Issued(h, m) <=> Issued(x, m)
        /\ EdgesAge(x, h)
        /\ h.version = x.version
    BY <1>4, <2>1, EraseEdgeIsSound, EraseEdgeAges
  <2>3. Gone(k) = Gone(k - 1) \cup {doomed[k]}
    <3>1. 1 .. k = (1 .. k - 1) \cup {k}
      BY <1>3
    <3>2. QED BY <3>1
  <2> HIDE DEF x, h, Gone
  <2>4. EdgesAge(g, h)
    BY <2>1, <2>2, AgesOn
  <2>5. Left(h, k)
    BY <2>1, <2>2, <2>3, <2>4 DEF NodesStay
  <2> HIDE DEF Left
  <2>6. QED BY <2>1, <2>5
<1>12. Left(erased[Len(doomed)], Len(doomed))
  <2> HIDE DEF T
  <2>1. \A k \in 0 .. Len(doomed) : k \in T
    BY <1>3, <1>10, <1>11, Induction, Zenon
  <2>2. Len(doomed) \in T
    BY <1>3, <2>1
  <2>3. QED BY <2>2 DEF T
<1> DEFINE x == erased[Len(doomed)]
           h == DropSlot(x, n)
<1> HIDE DEF x
<1>13. Gone(Len(doomed)) = Elems(doomed)
  BY DEF Elems
<1>14. /\ IsGraph(x, W) /\ NodesStay(g, x) /\ x.version = g.version
       /\ LiveEdges(x) = {e \in LiveEdges(g) : EdgeAt(g, e).from # n /\ EdgeAt(g, e).to # n}
       /\ \A d \in LiveEdges(x) : EdgeAt(x, d) = EdgeAt(g, d)
       /\ \A m : Issued(x, m) <=> Issued(g, m)
       /\ EdgesAge(g, x)
  BY <1>3, <1>12, <1>13 DEF x
<1>15. n \in LiveNodes(x) /\ LiveNodes(x) = LiveNodes(g)
  BY <1>14 DEF NodesStay
<1>16. /\ IsGraph(h, W) /\ EdgesStay(x, h) /\ LiveNodes(h) = LiveNodes(x) \ {n}
       /\ \A m \in LiveNodes(h) : NodeAt(h, m) = NodeAt(x, m)
       /\ \A m : Issued(h, m) <=> Issued(x, m)
       /\ EdgesAge(x, h) /\ h.version = x.version + 1
  BY <1>14, <1>15, DropSlotIsSound, DropSlotAges
<1>17. h = WithoutNode(g, n)
  BY <1>8 DEF x
<1> HIDE DEF h
<1>18. \A m \in LiveNodes(h) : NodeAt(h, m).what = NodeAt(g, m).what
  <2>1. \A m \in LiveNodes(h) : m \in LiveNodes(g) /\ m \in SomeIds
    BY <1>1, <1>15, <1>16, LiveNode
  <2>2. QED BY <1>14, <1>16, <2>1 DEF NodesStay
<1>19. /\ LiveEdges(h) = LiveEdges(x)
       /\ \A e \in LiveEdges(h) : EdgeAt(h, e) = EdgeAt(x, e)
  <2>1. \A e \in LiveEdges(x) : e \in SomeIds
    BY <1>1, <1>14, LiveEdge
  <2>2. QED BY <1>16, <2>1 DEF EdgesStay
<1>20. EdgesAge(g, h)
  BY <1>14, <1>16, AgesOn
<1>21. QED BY <1>14, <1>15, <1>16, <1>17, <1>18, <1>19, <1>20

-----------------------------------------------------------------------------
(* A graph alone: whatever its user adds and removes.                      *)

Plain == {"none", "plain"}

LEMMA GraphSteps ==
    ASSUME IsGraph(graph, Plain), [GraphNext]_graph
    PROVE  IsGraph(graph, Plain)'
<1>1. CASE UNCHANGED graph
  BY <1>1
<1>2. CASE AddNode
  BY <1>2, WithNodeIsSound DEF AddNode, Plain
<1>3. ASSUME NEW m, NEW n, AddEdge(m, n) PROVE IsGraph(graph, Plain)'
  BY <1>3, WithEdgeIsSound DEF AddEdge, Plain
<1>4. ASSUME NEW n, RemoveNode(n) PROVE IsGraph(graph, Plain)'
  BY <1>4, WithoutNodeIsSound DEF RemoveNode
<1>5. ASSUME NEW e, RemoveEdge(e) PROVE IsGraph(graph, Plain)'
  <2>1. e \in SomeIds
    BY <1>5, LiveEdge DEF RemoveEdge, IsGraph
  <2>2. QED BY <1>5, <2>1, WithoutEdgeIsSound DEF RemoveEdge
<1>6. QED BY <1>1, <1>2, <1>3, <1>4, <1>5 DEF GraphNext

(* The lists of every node hold exactly the edges that lead from it and to *)
(* it, no edge leads to a node that is gone, no slot is lost or given out  *)
(* twice, and no id comes back - for graphs of any size.                   *)
THEOREM GraphStaysSound == GraphInit /\ [][GraphNext]_graph => []GraphIsSound
<1>1. GraphInit => IsGraph(graph, Plain)
  BY EmptyGraphIsSound DEF GraphInit, Plain
<1>2. IsGraph(graph, Plain) /\ [GraphNext]_graph => IsGraph(graph, Plain)'
  BY GraphSteps
<1>3. IsGraph(graph, Plain) => GraphIsSound
  BY GraphsAreSound DEF GraphIsSound
<1>4. QED BY <1>1, <1>2, <1>3, PTL

-----------------------------------------------------------------------------
(* topologicalOrder(): what is left of a node's indegree is the number of  *)
(* its edges that have not been dealt with.                                *)

KahnState(g) == [indegree : [LiveNodes(g) -> Nat], ready : Seq(LiveNodes(g)), order : Seq(LiveNodes(g))]
EdgesTo(g, m) == {e \in LiveEdges(g) : EdgeAt(g, e).to = m}
EdgesFrom(g, S) == {e \in LiveEdges(g) : EdgeAt(g, e).from \in S}
Forward(g, s) == \A j \in 1 .. Len(s), e \in LiveEdges(g) :
    EdgeAt(g, e).to = s[j] => \E i \in 1 .. j - 1 : s[i] = EdgeAt(g, e).from
KahnHolds(g, dealt, s) ==
    /\ s \in KahnState(g)
    /\ Distinct(s.order) /\ Distinct(s.ready) /\ Elems(s.order) \cap Elems(s.ready) = {}
    /\ \A m \in LiveNodes(g) : s.indegree[m] = Cardinality(EdgesTo(g, m) \ dealt)
    /\ \A m \in LiveNodes(g) : m \in Elems(s.order) \cup Elems(s.ready) <=> s.indegree[m] = 0
    /\ Forward(g, s.order)

LEMMA GraphsAreFinite ==
    ASSUME NEW W, NEW g, IsGraph(g, W)
    PROVE  /\ IsFiniteSet(LiveNodes(g)) /\ Cardinality(LiveNodes(g)) <= MaxNodes
           /\ IsFiniteSet(LiveEdges(g))
<1>1. g \in GraphRecord(W) /\ NodeSlotsHold(g) /\ EdgeSlotsHold(g)
  BY DEF IsGraph
<1>2. IsFiniteSet(NodeIndices) /\ IsFiniteSet(EdgeIndices)
  BY GraphAssumption, FS_Interval DEF NodeIndices, EdgeIndices
<1>3. IsFiniteSet(LiveNodes(g)) /\ Cardinality(LiveNodes(g)) <= MaxNodes
  <2> DEFINE f == [n \in LiveNodes(g) |-> n[1]]
  <2>1. \A n \in LiveNodes(g) : n = <<n[1], g.nodes[n[1]].gen>> /\ n[1] \in NodeIndices
    BY <1>1, LiveNode
  <2>2. f \in Injection(LiveNodes(g), NodeIndices)
    BY <2>1 DEF Injection, IsInjective
  <2>3. Cardinality(NodeIndices) = MaxNodes
    BY GraphAssumption, FS_Interval DEF NodeIndices
  <2> HIDE DEF f
  <2> QED BY <1>2, <2>2, <2>3, FS_Injection
<1>4. IsFiniteSet(LiveEdges(g))
  <2> DEFINE f == [e \in LiveEdges(g) |-> e[1]]
  <2>1. \A e \in LiveEdges(g) : e = <<e[1], g.edges[e[1]].gen>> /\ e[1] \in EdgeIndices
    BY <1>1, LiveEdge
  <2>2. f \in Injection(LiveEdges(g), EdgeIndices)
    BY <2>1 DEF Injection, IsInjective
  <2> QED BY <1>2, <2>2, FS_Injection
<1> QED BY <1>3, <1>4

LEMMA OutEdgesAre ==
    ASSUME NEW W, NEW g, IsGraph(g, W), NEW n \in LiveNodes(g)
    PROVE  /\ OutEdges(g, n) \in Seq(SomeIds) /\ Distinct(OutEdges(g, n))
           /\ Elems(OutEdges(g, n)) = {e \in LiveEdges(g) : EdgeAt(g, e).from = n}
<1>1. g \in GraphRecord(W) /\ NodeSlotsHold(g) /\ EntriesHold(g)
  BY DEF IsGraph
<1>2. NodeAt(g, n) = g.nodes[n[1]] /\ n \in NodeIndices \X Nat
  BY <1>1, LiveNode
<1>3. OutEdges(g, n) \in Seq(SomeIds)
  BY <1>1, <1>2 DEF OutEdges, GraphRecord, NodeSlot
<1> QED BY <1>1, <1>3 DEF EntriesHold, OutEdges

LEMMA InEdgesAre ==
    ASSUME NEW W, NEW g, IsGraph(g, W), NEW n \in LiveNodes(g)
    PROVE  /\ InEdges(g, n) \in Seq(SomeIds) /\ Distinct(InEdges(g, n))
           /\ Elems(InEdges(g, n)) = {e \in LiveEdges(g) : EdgeAt(g, e).to = n}
<1>1. g \in GraphRecord(W) /\ NodeSlotsHold(g) /\ EntriesHold(g)
  BY DEF IsGraph
<1>2. NodeAt(g, n) = g.nodes[n[1]] /\ n \in NodeIndices \X Nat
  BY <1>1, LiveNode
<1>3. InEdges(g, n) \in Seq(SomeIds)
  BY <1>1, <1>2 DEF InEdges, GraphRecord, NodeSlot
<1> QED BY <1>1, <1>3 DEF EntriesHold, InEdges

LEMMA RelaxType ==
    ASSUME NEW g, NEW s \in KahnState(g), NEW m \in LiveNodes(g)
    PROVE  /\ Relax(s, m) \in KahnState(g) /\ Relax(s, m).order = s.order
           /\ \A l \in LiveNodes(g) \ {m} : Relax(s, m).indegree[l] = s.indegree[l]
           /\ s.indegree[m] > 0 =>
                 /\ Relax(s, m).indegree[m] = s.indegree[m] - 1
                 /\ Relax(s, m).ready = IF s.indegree[m] = 1 THEN Append(s.ready, m) ELSE s.ready
<1>1. PICK left : left = IF s.indegree[m] > 0 THEN s.indegree[m] - 1 ELSE 0
  OBVIOUS
<1>2. s.indegree \in [LiveNodes(g) -> Nat] /\ s.ready \in Seq(LiveNodes(g)) /\ s.order \in Seq(LiveNodes(g))
  BY DEF KahnState
<1>3. s.indegree[m] \in Nat /\ left \in Nat
  BY <1>1, <1>2
<1>4. PICK d : d = [s.indegree EXCEPT ![m] = left]
  OBVIOUS
<1>5. PICK r : r = IF left = 0 THEN Append(s.ready, m) ELSE s.ready
  OBVIOUS
<1>6. Relax(s, m) = [indegree |-> d, ready |-> r, order |-> s.order]
  <2>1. s = [indegree |-> s.indegree, ready |-> s.ready, order |-> s.order]
    BY DEF KahnState
  <2>2. PICK f, u, o : f = s.indegree /\ u = s.ready /\ o = s.order
    OBVIOUS
  <2>3. s = [indegree |-> f, ready |-> u, order |-> o]
    BY <2>1, <2>2
  <2>4. Relax(s, m) = [s EXCEPT !.indegree[m] = left, !.ready = IF left = 0 THEN Append(@, m) ELSE @]
    BY <1>1 DEF Relax
  <2>5. d = [f EXCEPT ![m] = left] /\ r = IF left = 0 THEN Append(u, m) ELSE u
    BY <1>4, <1>5, <2>2
  <2> QED BY <2>2, <2>3, <2>4, <2>5
<1>7. d \in [LiveNodes(g) -> Nat] /\ d[m] = left /\ \A l \in LiveNodes(g) \ {m} : d[l] = s.indegree[l]
  BY <1>2, <1>3, <1>4
<1>8. r \in Seq(LiveNodes(g))
  BY <1>2, <1>5
<1>9. Relax(s, m) \in KahnState(g)
  BY <1>2, <1>6, <1>7, <1>8 DEF KahnState
<1> QED BY <1>1, <1>3, <1>5, <1>6, <1>7, <1>9

LEMMA RelaxKeeps ==
    ASSUME NEW W, NEW g, IsGraph(g, W), NEW dealt, NEW s, KahnHolds(g, dealt, s),
           NEW e \in LiveEdges(g), e \notin dealt
    PROVE  KahnHolds(g, dealt \cup {e}, Relax(s, EdgeAt(g, e).to))
<1> DEFINE m == EdgeAt(g, e).to
           t == Relax(s, m)
           Left(n) == EdgesTo(g, n) \ dealt
           Next(n) == EdgesTo(g, n) \ (dealt \cup {e})
<1>1. m \in LiveNodes(g)
  BY EdgesAreIds
<1>2. s \in KahnState(g) /\ s.indegree \in [LiveNodes(g) -> Nat] /\ s.ready \in Seq(LiveNodes(g))
  BY DEF KahnHolds, KahnState
<1>3. \A n : IsFiniteSet(Left(n))
  <2>1. \A n : Left(n) \in SUBSET LiveEdges(g)
    BY DEF EdgesTo
  <2> HIDE DEF Left
  <2> QED BY <2>1, GraphsAreFinite, FS_Subset
<1>4. /\ e \in Left(m) /\ Next(m) = Left(m) \ {e}
      /\ \A n : n # m => Next(n) = Left(n)
  BY DEF EdgesTo
<1>5. \A n \in LiveNodes(g) : s.indegree[n] = Cardinality(Left(n))
  BY DEF KahnHolds
<1> HIDE DEF m, t, Left, Next
<1>6. Cardinality(Next(m)) = Cardinality(Left(m)) - 1
  BY <1>3, <1>4, FS_RemoveElement
<1>7. s.indegree[m] > 0
  <2>1. Left(m) # {} /\ s.indegree[m] \in Nat
    BY <1>1, <1>2, <1>4
  <2> QED BY <1>1, <1>3, <1>5, <2>1, FS_EmptySet
<1>8. /\ t \in KahnState(g) /\ t.order = s.order
      /\ \A l \in LiveNodes(g) \ {m} : t.indegree[l] = s.indegree[l]
      /\ t.indegree[m] = s.indegree[m] - 1
      /\ t.ready = IF s.indegree[m] = 1 THEN Append(s.ready, m) ELSE s.ready
  BY <1>1, <1>2, <1>7, RelaxType DEF t
<1>9. \A n \in LiveNodes(g) : t.indegree[n] = Cardinality(Next(n))
  BY <1>1, <1>4, <1>5, <1>6, <1>8
<1>10. m \notin Elems(s.order) \cup Elems(s.ready)
  BY <1>1, <1>7 DEF KahnHolds
<1>11. /\ Distinct(t.ready)
       /\ Elems(t.ready) = IF s.indegree[m] = 1 THEN Elems(s.ready) \cup {m} ELSE Elems(s.ready)
  <2>1. Distinct(s.ready)
    BY DEF KahnHolds
  <2>2. Elems(Append(s.ready, m)) = Elems(s.ready) \cup {m} /\ Distinct(Append(s.ready, m))
    BY <1>1, <1>2, <1>10, <2>1, ElemsOfAppend
  <2> QED BY <1>8, <2>1, <2>2
<1>12. Distinct(t.order) /\ Elems(t.order) \cap Elems(t.ready) = {} /\ Forward(g, t.order)
  BY <1>8, <1>10, <1>11 DEF KahnHolds
<1>13. ASSUME NEW n \in LiveNodes(g)
       PROVE  n \in Elems(t.order) \cup Elems(t.ready) <=> t.indegree[n] = 0
  <2>1. n \in Elems(s.order) \cup Elems(s.ready) <=> s.indegree[n] = 0
    BY DEF KahnHolds
  <2>2. CASE n = m
    <3>1. s.indegree[m] \in Nat
      BY <1>1, <1>2
    <3>2. t.indegree[n] = 0 <=> s.indegree[m] = 1
      BY <1>8, <2>2, <3>1
    <3> QED BY <1>8, <1>10, <1>11, <2>2, <3>2
  <2>3. CASE n # m
    BY <1>8, <1>11, <2>1, <2>3
  <2> QED BY <2>2, <2>3
<1> QED BY <1>8, <1>9, <1>11, <1>12, <1>13 DEF KahnHolds, Next, m, t

(* What topologicalOrder() does with a node that is ready.                 *)
LEMMA PopKeeps ==
    ASSUME NEW W, NEW g, IsGraph(g, W), NEW s, s.ready # <<>>,
           KahnHolds(g, EdgesFrom(g, Elems(s.order)), s)
    PROVE  LET t == PopReady(g, s) IN
           KahnHolds(g, EdgesFrom(g, Elems(t.order)), t) /\ Len(t.order) = Len(s.order) + 1
<1> DEFINE n == Head(s.ready)
           out == OutEdges(g, n)
           targets == Targets(g, n)
           before == EdgesFrom(g, Elems(s.order))
           base == [s EXCEPT !.ready = Tail(@), !.order = Append(@, n)]
           K == KahnState(g)
           IsRelaxed(f) == f = [j \in 0 .. Len(targets) |->
                                   IF j = 0 THEN base ELSE Relax(f[j - 1], targets[j])]
           relaxed == CHOOSE f : IsRelaxed(f)
           step == [p \in (1 .. Len(targets)) \X K |-> Relax(p[2], targets[p[1]])]
           Dealt(j) == before \cup {out[i] : i \in 1 .. j}
           Good(f, j) == f[j].order = base.order /\ KahnHolds(g, Dealt(j), f[j])
           T == {j \in 0 .. Len(targets) : Good(relaxed, j)}
<1>1. /\ s \in K /\ s.ready \in Seq(LiveNodes(g)) /\ s.order \in Seq(LiveNodes(g))
      /\ Distinct(s.order) /\ Distinct(s.ready) /\ Elems(s.order) \cap Elems(s.ready) = {}
      /\ \A m \in LiveNodes(g) : s.indegree[m] = Cardinality(EdgesTo(g, m) \ before)
      /\ \A m \in LiveNodes(g) : m \in Elems(s.order) \cup Elems(s.ready) <=> s.indegree[m] = 0
      /\ Forward(g, s.order)
  BY DEF KahnHolds, KahnState
<1>2. /\ Tail(s.ready) \in Seq(LiveNodes(g)) /\ n \in LiveNodes(g)
      /\ Elems(s.ready) = {n} \cup Elems(Tail(s.ready))
      /\ Distinct(Tail(s.ready)) /\ n \notin Elems(Tail(s.ready))
  BY <1>1, ElemsOfTail
<1>3. n \notin Elems(s.order) /\ s.indegree[n] = 0
  BY <1>1, <1>2
<1>4. /\ out \in Seq(SomeIds) /\ Distinct(out) /\ Len(out) \in Nat
      /\ Elems(out) = {e \in LiveEdges(g) : EdgeAt(g, e).from = n}
  <2> HIDE DEF n
  <2> QED BY <1>2, OutEdgesAre
<1>5. Len(targets) = Len(out) /\ \A j \in 1 .. Len(out) : targets[j] = EdgeAt(g, out[j]).to
  BY <1>4 DEF Targets
<1>6. \A j \in 1 .. Len(out) : out[j] \in LiveEdges(g) /\ EdgeAt(g, out[j]).from = n
  BY <1>4 DEF Elems
<1>7. \A j \in 1 .. Len(out) : targets[j] \in LiveNodes(g)
  BY <1>5, <1>6, EdgesAreIds
<1>8. /\ base \in K /\ base.indegree = s.indegree /\ base.ready = Tail(s.ready)
      /\ base.order = Append(s.order, n)
  <2>1. PICK d, u, o : d = s.indegree /\ u = Tail(s.ready) /\ o = Append(s.order, n)
    OBVIOUS
  <2>2. base = [indegree |-> d, ready |-> u, order |-> o]
    <3>1. PICK r, p : r = s.ready /\ p = s.order
      OBVIOUS
    <3>2. s = [indegree |-> d, ready |-> r, order |-> p]
      BY <1>1, <2>1, <3>1 DEF KahnState
    <3>3. base = [s EXCEPT !.ready = Tail(r), !.order = Append(p, n)]
      BY <3>1
    <3> HIDE DEF base, n
    <3>4. base = [indegree |-> d, ready |-> Tail(r), order |-> Append(p, n)]
      BY <3>2, <3>3
    <3> QED BY <2>1, <3>1, <3>4
  <2>3. o \in Seq(LiveNodes(g)) /\ u \in Seq(LiveNodes(g)) /\ d \in [LiveNodes(g) -> Nat]
    BY <1>1, <1>2, <2>1 DEF KahnState
  <2> HIDE DEF base
  <2> QED BY <2>1, <2>2, <2>3 DEF KahnState
<1>9. PopReady(g, s) = relaxed[Len(targets)]
  BY DEF PopReady
<1> HIDE DEF n, out, targets, base, before
<1>10. Elems(base.order) = Elems(s.order) \cup {n} /\ Distinct(base.order)
  BY <1>1, <1>2, <1>3, <1>8, ElemsOfAppend
<1>11. Forward(g, base.order)
  <2> DEFINE l == Len(s.order)
  <2>1. /\ l \in Nat /\ Len(base.order) = l + 1 /\ base.order[l + 1] = n
        /\ \A i \in 1 .. l : base.order[i] = s.order[i]
    BY <1>1, <1>2, <1>8
  <2>2. EdgesTo(g, n) \subseteq before
    <3>1. Cardinality(EdgesTo(g, n) \ before) = 0
      BY <1>1, <1>2, <1>3
    <3>2. EdgesTo(g, n) \ before \in SUBSET LiveEdges(g)
      BY DEF EdgesTo
    <3>3. IsFiniteSet(EdgesTo(g, n) \ before)
      BY <3>2, GraphsAreFinite, FS_Subset
    <3> QED BY <3>1, <3>3, FS_EmptySet
  <2>3. ASSUME NEW j \in 1 .. l + 1, NEW e \in LiveEdges(g), EdgeAt(g, e).to = base.order[j]
        PROVE  \E i \in 1 .. j - 1 : base.order[i] = EdgeAt(g, e).from
    <3>1. CASE j = l + 1
      <4>1. e \in before
        BY <2>1, <2>2, <2>3, <3>1 DEF EdgesTo
      <4>2. EdgeAt(g, e).from \in Elems(s.order)
        BY <4>1 DEF before, EdgesFrom
      <4>3. PICK i \in 1 .. l : s.order[i] = EdgeAt(g, e).from
        BY <4>2 DEF Elems
      <4> QED BY <2>1, <3>1, <4>3
    <3>2. CASE j # l + 1
      <4>1. j \in 1 .. l
        BY <2>1, <3>2
      <4>2. EdgeAt(g, e).to = s.order[j]
        BY <2>1, <2>3, <4>1
      <4>3. PICK i \in 1 .. j - 1 : s.order[i] = EdgeAt(g, e).from
        BY <1>1, <4>1, <4>2 DEF Forward
      <4>4. i \in 1 .. l
        BY <2>1, <4>1
      <4> QED BY <2>1, <4>3, <4>4
    <3> QED BY <3>1, <3>2
  <2> QED BY <2>1, <2>3 DEF Forward
<1>12. KahnHolds(g, before, base)
  <2>1. Elems(base.order) \cup Elems(base.ready) = Elems(s.order) \cup Elems(s.ready)
    BY <1>2, <1>8, <1>10
  <2>2. Elems(base.order) \cap Elems(base.ready) = {}
    BY <1>1, <1>2, <1>8, <1>10
  <2> QED BY <1>1, <1>2, <1>8, <1>10, <1>11, <2>1, <2>2 DEF KahnHolds
<1>13. step \in [(1 .. Len(targets)) \X K -> K]
  <2>1. \A j \in 1 .. Len(targets), x \in K : Relax(x, targets[j]) \in K
    BY <1>5, <1>7, RelaxType
  <2> HIDE DEF K
  <2> QED BY <2>1
<1>14. \E f : IsRelaxed(f)
  <2>1. PICK f : Steps(f, Len(targets), K, base, step)
    <3> HIDE DEF step, K
    <3> QED BY <1>4, <1>5, <1>8, <1>13, Recursion
  <2>2. \A j \in 1 .. Len(targets) : f[j] = Relax(f[j - 1], targets[j])
    <3> HIDE DEF K
    <3>1. \A j \in 1 .. Len(targets) : j - 1 \in 0 .. Len(targets)
      BY <1>4, <1>5
    <3>2. \A j \in 1 .. Len(targets), x \in K : step[<<j, x>>] = Relax(x, targets[j])
      OBVIOUS
    <3> HIDE DEF step
    <3> QED BY <2>1, <3>1, <3>2 DEF Steps
  <2>3. \A j \in 0 .. Len(targets) : j = 0 \/ j \in 1 .. Len(targets)
    BY <1>4, <1>5
  <2> HIDE DEF step, K
  <2>4. IsRelaxed(f)
    BY <2>1, <2>2, <2>3 DEF Steps
  <2> HIDE DEF IsRelaxed
  <2> QED BY <2>4
<1>15. IsRelaxed(relaxed)
  <2> HIDE DEF IsRelaxed
  <2> QED BY <1>14
<1> HIDE DEF relaxed, step, K
<1>16. relaxed[0] = base /\ \A j \in 1 .. Len(targets) : relaxed[j] = Relax(relaxed[j - 1], targets[j])
  <2>1. \A j \in 1 .. Len(targets) : j \in 0 .. Len(targets) /\ j # 0
    BY <1>4, <1>5
  <2>2. 0 \in 0 .. Len(targets)
    BY <1>4, <1>5
  <2> QED BY <1>15, <2>1, <2>2
<1>17. 0 \in T
  <2>1. Dealt(0) = before
    OBVIOUS
  <2>2. 0 \in 0 .. Len(targets)
    BY <1>4, <1>5
  <2> HIDE DEF Dealt
  <2> QED BY <1>12, <1>16, <2>1, <2>2
<1>18. ASSUME NEW j \in 1 .. Len(targets), j - 1 \in T PROVE j \in T
  <2>1. Good(relaxed, j - 1) /\ j \in 0 .. Len(targets)
    BY <1>4, <1>5, <1>18
  <2>2. out[j] \in LiveEdges(g) /\ targets[j] = EdgeAt(g, out[j]).to
    BY <1>5, <1>6, <1>18
  <2>3. out[j] \notin Dealt(j - 1)
    <3>1. out[j] \notin before
      BY <1>3, <1>5, <1>6, <1>18 DEF before, EdgesFrom
    <3>2. \A i \in 1 .. j - 1 : out[i] # out[j]
      BY <1>4, <1>5, <1>18 DEF Distinct
    <3> QED BY <3>1, <3>2
  <2>4. Dealt(j) = Dealt(j - 1) \cup {out[j]}
    <3>1. 1 .. j = (1 .. j - 1) \cup {j}
      BY <1>4, <1>5
    <3> QED BY <3>1
  <2>5. relaxed[j] = Relax(relaxed[j - 1], EdgeAt(g, out[j]).to)
    BY <1>16, <2>2
  <2> HIDE DEF Dealt
  <2>6. KahnHolds(g, Dealt(j), relaxed[j])
    <3>1. KahnHolds(g, Dealt(j - 1), relaxed[j - 1])
      BY <2>1
    <3>2. PICK x, d : x = relaxed[j - 1] /\ d = Dealt(j - 1)
      OBVIOUS
    <3>3. KahnHolds(g, d \cup {out[j]}, Relax(x, EdgeAt(g, out[j]).to))
      BY <2>2, <2>3, <3>1, <3>2, RelaxKeeps
    <3> QED BY <2>4, <2>5, <3>2, <3>3
  <2>7. relaxed[j - 1] \in KahnState(g) /\ EdgeAt(g, out[j]).to \in LiveNodes(g)
    BY <1>7, <2>1, <2>2, <1>5 DEF KahnHolds
  <2>8. relaxed[j].order = relaxed[j - 1].order
    BY <2>5, <2>7, RelaxType
  <2> QED BY <2>1, <2>6, <2>8
<1>19. Good(relaxed, Len(targets))
  <2> HIDE DEF T
  <2>1. \A j \in 0 .. Len(targets) : j \in T
    BY <1>4, <1>5, <1>17, <1>18, Induction, Zenon
  <2>2. Len(targets) \in T
    BY <1>4, <1>5, <2>1
  <2> QED BY <2>2 DEF T
<1>20. Dealt(Len(targets)) = EdgesFrom(g, Elems(base.order))
  <2>1. {out[i] : i \in 1 .. Len(targets)} = {e \in LiveEdges(g) : EdgeAt(g, e).from = n}
    BY <1>4, <1>5 DEF Elems
  <2> QED BY <1>10, <2>1 DEF before, EdgesFrom
<1>21. Len(base.order) = Len(s.order) + 1
  BY <1>1, <1>2, <1>8
<1> HIDE DEF Dealt
<1> QED BY <1>9, <1>19, <1>20, <1>21

(* All of Kahn's algorithm: it stops when nothing is ready, in time.       *)
LEMMA KahnIs ==
    ASSUME NEW W, NEW g, IsGraph(g, W), NEW indegree, NEW ready,
           KahnHolds(g, {}, [indegree |-> indegree, ready |-> ready, order |-> <<>>])
    PROVE  \E s : /\ KahnHolds(g, EdgesFrom(g, Elems(s.order)), s)
                  /\ s.ready = <<>> /\ Kahn(g, indegree, ready) = s.order
<1> DEFINE base == [indegree |-> indegree, ready |-> ready, order |-> <<>>]
           S == {s \in KahnState(g) : KahnHolds(g, EdgesFrom(g, Elems(s.order)), s)}
           Pop(s) == IF s.ready = <<>> THEN s ELSE PopReady(g, s)
           step == [p \in (1 .. Rounds) \X S |-> Pop(p[2])]
           IsAfter(f) == f = [k \in 0 .. Rounds |->
                                 IF k = 0 THEN base
                                 ELSE IF f[k - 1].ready = <<>> THEN f[k - 1] ELSE PopReady(g, f[k - 1])]
           after == CHOOSE f : IsAfter(f)
           Good(f, k) == f[k] \in S /\ (f[k].ready = <<>> \/ Len(f[k].order) >= k)
           T == {k \in 0 .. Rounds : Good(after, k)}
<1>1. Rounds \in Nat /\ Rounds >= MaxNodes
  BY GraphAssumption DEF Rounds
<1>2. base \in S
  <2>1. base.order = <<>>
    OBVIOUS
  <2>2. Elems(<<>>) = {} /\ EdgesFrom(g, {}) = {}
    BY DEF Elems, EdgesFrom
  <2>3. KahnHolds(g, {}, base)
    OBVIOUS
  <2>4. base \in KahnState(g)
    BY <2>3 DEF KahnHolds
  <2> HIDE DEF base
  <2> QED BY <2>1, <2>2, <2>3, <2>4
<1>3. \A s \in S : Pop(s) \in S /\ (s.ready # <<>> => Len(Pop(s).order) = Len(s.order) + 1)
  <2>1. ASSUME NEW s \in S, s.ready # <<>>
        PROVE  PopReady(g, s) \in S /\ Len(PopReady(g, s).order) = Len(s.order) + 1
    <3>1. /\ KahnHolds(g, EdgesFrom(g, Elems(PopReady(g, s).order)), PopReady(g, s))
          /\ Len(PopReady(g, s).order) = Len(s.order) + 1
      BY <2>1, PopKeeps
    <3>2. PopReady(g, s) \in KahnState(g)
      BY <3>1 DEF KahnHolds
    <3> QED BY <3>1, <3>2
  <2> HIDE DEF S
  <2> QED BY <2>1
<1> HIDE DEF base, S, Pop
<1>4. step \in [(1 .. Rounds) \X S -> S]
  BY <1>3
<1>5. \E f : IsAfter(f)
  <2>1. PICK f : Steps(f, Rounds, S, base, step)
    <3> HIDE DEF step
    <3> QED BY <1>1, <1>2, <1>4, Recursion
  <2>2. \A k \in 1 .. Rounds : f[k] = Pop(f[k - 1])
    <3>1. \A k \in 1 .. Rounds : k - 1 \in 0 .. Rounds
      BY <1>1
    <3>2. \A k \in 1 .. Rounds, x \in S : step[<<k, x>>] = Pop(x)
      OBVIOUS
    <3> HIDE DEF step
    <3> QED BY <2>1, <3>1, <3>2 DEF Steps
  <2>3. \A k \in 0 .. Rounds : k = 0 \/ k \in 1 .. Rounds
    BY <1>1
  <2> HIDE DEF step
  <2>4. IsAfter(f)
    BY <2>1, <2>2, <2>3 DEF Steps, Pop
  <2> HIDE DEF IsAfter
  <2> QED BY <2>4
<1>6. IsAfter(after)
  <2> HIDE DEF IsAfter
  <2> QED BY <1>5
<1>7. Kahn(g, indegree, ready) = after[Rounds].order
  BY DEF Kahn, base
<1> HIDE DEF after, step
<1>8. after[0] = base /\ \A k \in 1 .. Rounds : after[k] = Pop(after[k - 1])
  <2>1. \A k \in 1 .. Rounds : k \in 0 .. Rounds /\ k # 0
    BY <1>1
  <2>2. 0 \in 0 .. Rounds
    BY <1>1
  <2> QED BY <1>6, <2>1, <2>2 DEF Pop
<1>9. \A s \in S : s \in KahnState(g) /\ Len(s.order) \in Nat /\ s.order \in Seq(LiveNodes(g)) /\ s.ready \in Seq(LiveNodes(g))
  BY DEF S, KahnState
<1>10. 0 \in T
  <2>1. Len(base.order) >= 0 /\ 0 \in 0 .. Rounds
    BY <1>1, <1>2, <1>9
  <2> QED BY <1>2, <1>8, <2>1
<1>11. ASSUME NEW k \in 1 .. Rounds, k - 1 \in T PROVE k \in T
  <2>1. after[k - 1] \in S /\ k \in 0 .. Rounds /\ k \in Nat
    BY <1>1, <1>11
  <2>2. after[k] \in S
    BY <1>3, <1>8, <2>1
  <2>3. CASE after[k - 1].ready = <<>>
    BY <1>8, <2>1, <2>2, <2>3 DEF Pop
  <2>4. CASE after[k - 1].ready # <<>>
    <3>1. Len(after[k].order) = Len(after[k - 1].order) + 1
      BY <1>3, <1>8, <2>1, <2>4
    <3>2. Len(after[k - 1].order) >= k - 1 /\ Len(after[k - 1].order) \in Nat
      BY <1>9, <1>11, <2>1, <2>4
    <3>3. Len(after[k].order) >= k
      BY <2>1, <3>1, <3>2
    <3> QED BY <2>1, <2>2, <3>3
  <2> QED BY <2>3, <2>4
<1>12. Good(after, Rounds)
  <2> HIDE DEF T
  <2>1. \A k \in 0 .. Rounds : k \in T
    BY <1>1, <1>10, <1>11, Induction, Zenon
  <2>2. Rounds \in T
    BY <1>1, <2>1
  <2> QED BY <2>2 DEF T
<1>13. ASSUME NEW s \in S, s.ready # <<>> PROVE Len(s.order) < MaxNodes
  <2>1. /\ Distinct(s.order) /\ Elems(s.order) \cap Elems(s.ready) = {}
        /\ s.order \in Seq(LiveNodes(g)) /\ s.ready \in Seq(LiveNodes(g)) /\ Len(s.order) \in Nat
    BY <1>9 DEF S, KahnHolds
  <2>2. Head(s.ready) \in Elems(s.ready) /\ Head(s.ready) \in LiveNodes(g)
    BY <1>13, <2>1, ElemsOfTail
  <2>3. Append(s.order, Head(s.ready)) \in Seq(LiveNodes(g))
    BY <2>1, <2>2
  <2>4. Distinct(Append(s.order, Head(s.ready)))
    BY <2>1, <2>2, ElemsOfAppend
  <2>5. Cardinality(Elems(Append(s.order, Head(s.ready)))) = Len(s.order) + 1
    <3>1. Len(Append(s.order, Head(s.ready))) = Len(s.order) + 1
      BY <2>1, <2>2
    <3> QED BY <2>3, <2>4, <3>1, NoRepeatsIsDistinct DEF NoRepeats
  <2>6. Elems(Append(s.order, Head(s.ready))) \in SUBSET LiveNodes(g)
    BY <2>3 DEF Elems
  <2>7. IsFiniteSet(LiveNodes(g)) /\ Cardinality(LiveNodes(g)) <= MaxNodes
    BY GraphsAreFinite
  <2>8. Cardinality(Elems(Append(s.order, Head(s.ready)))) <= Cardinality(LiveNodes(g)) /\ Cardinality(LiveNodes(g)) \in Nat
    BY <2>6, <2>7, FS_Subset, FS_CardinalityType
  <2> QED BY <2>1, <2>5, <2>7, <2>8, GraphAssumption
<1>14. after[Rounds].ready = <<>>
  <2>1. PICK s, l : s = after[Rounds] /\ l = Len(s.order)
    OBVIOUS
  <2>2. s \in S /\ (s.ready = <<>> \/ l >= Rounds) /\ l \in Nat
    BY <1>9, <1>12, <2>1
  <2> QED BY <1>1, <1>13, <2>1, <2>2, GraphAssumption
<1> QED BY <1>7, <1>12, <1>14 DEF S

(* Nodes that are each entered from among themselves: a cycle.             *)
Knotted(g) == \E S \in SUBSET LiveNodes(g) :
    S # {} /\ \A n \in S : \E e \in LiveEdges(g) : EdgeAt(g, e).to = n /\ EdgeAt(g, e).from \in S

LEMMA ForwardIsOrder ==
    ASSUME NEW W, NEW g, IsGraph(g, W), NEW s \in Seq(LiveNodes(g)),
           Distinct(s), Elems(s) = LiveNodes(g), Forward(g, s)
    PROVE  IsOrder(g, s) /\ ~Knotted(g)
<1>1. Len(s) \in Nat /\ NoRepeats(s)
  BY NoRepeatsIsDistinct
<1>2. ASSUME NEW i \in 1 .. Len(s), NEW j \in 1 .. Len(s), s[j] \in Elems(Targets(g, s[i]))
      PROVE  i < j
  <2>1. s[i] \in LiveNodes(g)
    OBVIOUS
  <2>2. OutEdges(g, s[i]) \in Seq(SomeIds) /\ Elems(OutEdges(g, s[i])) = {e \in LiveEdges(g) : EdgeAt(g, e).from = s[i]}
    BY <2>1, OutEdgesAre
  <2>3. PICK k \in 1 .. Len(OutEdges(g, s[i])) : s[j] = EdgeAt(g, OutEdges(g, s[i])[k]).to
    <3>1. PICK o : o = OutEdges(g, s[i])
      OBVIOUS
    <3>2. Targets(g, s[i]) = [k \in 1 .. Len(o) |-> EdgeAt(g, o[k]).to]
      BY <3>1 DEF Targets
    <3>3. Len(Targets(g, s[i])) = Len(o)
      BY <2>2, <3>1, <3>2
    <3> QED BY <1>2, <3>1, <3>2, <3>3 DEF Elems
  <2>4. PICK e \in LiveEdges(g) : EdgeAt(g, e).from = s[i] /\ EdgeAt(g, e).to = s[j]
    <3>1. OutEdges(g, s[i])[k] \in Elems(OutEdges(g, s[i]))
      BY <2>2 DEF Elems
    <3> QED BY <2>2, <2>3, <3>1
  <2>5. PICK m \in 1 .. j - 1 : s[m] = s[i]
    BY <2>4 DEF Forward
  <2>6. m = i
    BY <1>1, <2>5 DEF Distinct
  <2> QED BY <1>1, <2>5, <2>6
<1>3. ASSUME Knotted(g) PROVE FALSE
  <2>1. PICK S \in SUBSET LiveNodes(g) :
           S # {} /\ \A n \in S : \E e \in LiveEdges(g) : EdgeAt(g, e).to = n /\ EdgeAt(g, e).from \in S
    BY <1>3 DEF Knotted
  <2> DEFINE I == {j \in 1 .. Len(s) : s[j] \in S}
  <2>2. PICK n \in S : n \in Elems(s)
    BY <2>1
  <2>3. I \in SUBSET Nat /\ I # {}
    BY <1>1, <2>2, SMTT(30) DEF Elems
  <2>4. PICK j \in I : \A i \in I : j <= i
    <3> HIDE DEF I
    <3> QED BY <2>3, LeastNumber
  <2>5. PICK e \in LiveEdges(g) : EdgeAt(g, e).to = s[j] /\ EdgeAt(g, e).from \in S
    BY <2>1
  <2>6. PICK i \in 1 .. j - 1 : s[i] = EdgeAt(g, e).from
    BY <2>5 DEF Forward
  <2>7. i \in I /\ i < j /\ i \in Nat /\ j \in Nat
    BY <1>1, <2>5, <2>6
  <2> QED BY <2>4, <2>7
<1> QED BY <1>1, <1>2, <1>3 DEF IsOrder

(* topologicalOrder() names every node once and each before the nodes its  *)
(* edges lead to, or refuses because of a cycle - never for another reason.*)
THEOREM TopologicalOrderIsRight ==
    ASSUME NEW W, NEW g, IsGraph(g, W), NEW seeds \in SeedOrders(g)
    PROVE  LET order == TopologicalOrder(g, seeds) IN
           IF Knotted(g) THEN order = Refused
           ELSE IsOrder(g, order) /\ order \in Seq(LiveNodes(g)) /\ Distinct(order)
<1> DEFINE L == LiveNodes(g)
           indegree == [n \in L |-> Len(InEdges(g, n))]
           ready == Only(seeds, {n \in L : indegree[n] = 0})
           base == [indegree |-> indegree, ready |-> ready, order |-> <<>>]
<1>1. IsFiniteSet(L) /\ Cardinality(L) \in Nat
  BY GraphsAreFinite, FS_CardinalityType
<1>2. seeds \in Seq(L) /\ Distinct(seeds) /\ Elems(seeds) = L
  <2>1. seeds \in [1 .. Cardinality(L) -> L] /\ NoRepeats(seeds)
    BY DEF SeedOrders
  <2>2. seeds \in Seq(L) /\ Len(seeds) = Cardinality(L)
    BY <1>1, <2>1
  <2>3. Distinct(seeds) /\ Cardinality(Elems(seeds)) = Cardinality(L)
    BY <2>1, <2>2, NoRepeatsIsDistinct DEF NoRepeats
  <2>4. Elems(seeds) \in SUBSET L
    BY <2>2 DEF Elems
  <2>5. Elems(seeds) = L
    BY <1>1, <2>3, <2>4, FS_Subset
  <2> QED BY <2>2, <2>3, <2>5
<1>3. \A n \in L : indegree[n] = Cardinality(EdgesTo(g, n) \ {}) /\ indegree[n] \in Nat
  <2>1. ASSUME NEW n \in L PROVE Len(InEdges(g, n)) = Cardinality(EdgesTo(g, n)) /\ Len(InEdges(g, n)) \in Nat
    <3>1. InEdges(g, n) \in Seq(SomeIds) /\ Distinct(InEdges(g, n)) /\ Elems(InEdges(g, n)) = EdgesTo(g, n)
      BY InEdgesAre DEF EdgesTo
    <3> QED BY <3>1, NoRepeatsIsDistinct DEF NoRepeats
  <2> QED BY <2>1
<1>4. /\ ready \in Seq(L) /\ Distinct(ready)
      /\ Elems(ready) = {n \in L : indegree[n] = 0}
  <2>1. \A K : /\ Only(seeds, K) \in Seq(L) /\ Elems(Only(seeds, K)) = L \cap K /\ Distinct(Only(seeds, K))
    BY <1>2, ElemsOfOnly
  <2> HIDE DEF indegree
  <2> QED BY <2>1
<1>5. TopologicalOrder(g, seeds) =
         IF Len(Kahn(g, indegree, ready)) < Cardinality(L) THEN Refused ELSE Kahn(g, indegree, ready)
  BY DEF TopologicalOrder
<1>6. KahnHolds(g, {}, base)
  <2>1. indegree \in [L -> Nat]
    BY <1>3
  <2> HIDE DEF indegree, ready, L
  <2>2. base \in KahnState(g)
    BY <1>4, <2>1 DEF KahnState, L
  <2>3. Len(base.order) = 0 /\ Elems(base.order) = {} /\ base.indegree = indegree /\ base.ready = ready
    BY DEF Elems
  <2>4. Distinct(base.order) /\ Forward(g, base.order)
    BY DEF Distinct, Forward
  <2> HIDE DEF base
  <2> QED BY <1>3, <1>4, <2>2, <2>3, <2>4 DEF KahnHolds, L
<1> HIDE DEF indegree, ready
<1>7. PICK s : /\ KahnHolds(g, EdgesFrom(g, Elems(s.order)), s)
               /\ s.ready = <<>> /\ Kahn(g, indegree, ready) = s.order
  BY <1>6, KahnIs
<1>8. /\ s.order \in Seq(L) /\ Distinct(s.order) /\ Forward(g, s.order) /\ Elems(s.ready) = {}
      /\ \A m \in L : s.indegree[m] = Cardinality(EdgesTo(g, m) \ EdgesFrom(g, Elems(s.order)))
      /\ \A m \in L : m \in Elems(s.order) <=> s.indegree[m] = 0
  <2>1. Elems(s.ready) = {}
    BY <1>7, FirstOf DEF KahnHolds, KahnState
  <2> QED BY <1>7, <2>1 DEF KahnHolds, KahnState
<1>9. /\ Len(s.order) = Cardinality(Elems(s.order)) /\ Elems(s.order) \in SUBSET L
      /\ Len(s.order) <= Cardinality(L) /\ Len(s.order) \in Nat
      /\ Len(s.order) = Cardinality(L) <=> Elems(s.order) = L
  <2>1. Len(s.order) = Cardinality(Elems(s.order)) /\ Elems(s.order) \in SUBSET L /\ Len(s.order) \in Nat
    BY <1>8, NoRepeatsIsDistinct DEF NoRepeats, Elems
  <2>2. Cardinality(Elems(s.order)) <= Cardinality(L) /\ (Cardinality(L) = Cardinality(Elems(s.order)) => L = Elems(s.order))
    BY <1>1, <2>1, FS_Subset
  <2> QED BY <2>1, <2>2
<1>10. ASSUME Elems(s.order) # L PROVE Knotted(g)
  <2> DEFINE S == L \ Elems(s.order)
  <2>1. S # {} /\ S \in SUBSET LiveNodes(g)
    BY <1>9, <1>10
  <2>2. ASSUME NEW n \in S
        PROVE  \E e \in LiveEdges(g) : EdgeAt(g, e).to = n /\ EdgeAt(g, e).from \in S
    <3>1. Cardinality(EdgesTo(g, n) \ EdgesFrom(g, Elems(s.order))) # 0
      BY <1>8, <2>2
    <3>2. PICK e : e \in EdgesTo(g, n) \ EdgesFrom(g, Elems(s.order))
      BY <3>1, FS_EmptySet
    <3>3. e \in LiveEdges(g) /\ EdgeAt(g, e).to = n /\ EdgeAt(g, e).from \notin Elems(s.order)
      BY <3>2 DEF EdgesTo, EdgesFrom
    <3>4. EdgeAt(g, e).from \in L
      BY <3>3, EdgesAreIds
    <3> QED BY <3>3, <3>4
  <2> HIDE DEF S
  <2> QED BY <2>1, <2>2 DEF Knotted
<1>11. CASE Elems(s.order) = L
  <2>1. IsOrder(g, s.order) /\ ~Knotted(g)
    BY <1>8, <1>11, ForwardIsOrder
  <2>2. TopologicalOrder(g, seeds) = s.order
    BY <1>1, <1>5, <1>7, <1>9, <1>11
  <2> QED BY <1>8, <2>1, <2>2
<1>12. CASE Elems(s.order) # L
  <2>1. TopologicalOrder(g, seeds) = Refused
    BY <1>1, <1>5, <1>7, <1>9, <1>12
  <2> QED BY <1>10, <1>12, <2>1
<1> QED BY <1>11, <1>12

-----------------------------------------------------------------------------
(* A traversal: why nothing is shown twice.  The nodes that are shown are  *)
(* behind, those that are pending ahead of the walk or marked, and so are  *)
(* the edges of the node that is being shown.                              *)

Stages == {"idle", "refused", "node", "outs", "edge", "follow", "done"}
WalkTypes(w) ==
    w \in [mode : Modes \cup {"none"}, pc : Stages, start : SomeIds, pending : Seq(SomeIds),
           at : SomeIds, edges : Seq(SomeIds), outs : {w.outs}, visited : SUBSET SomeIds,
           shown : Seq(SomeIds), crossed : Seq(SomeIds), pure : BOOLEAN]
NodesOnce(w) ==
    LET shown == Elems(w.shown)
        pending == Elems(w.pending)
    IN /\ Distinct(w.shown) /\ (w.mode = "none" => w.pc = "idle")
       /\ w.mode \in {"depth", "custom"} => shown \subseteq w.visited
       /\ w.mode = "breadth" => shown \cup pending \subseteq w.visited
       /\ w.mode \in {"breadth", "topological", "reverse"} => Distinct(w.pending) /\ shown \cap pending = {}
       /\ IF w.mode \in Sorted THEN shown \cup pending \subseteq DOMAIN w.outs ELSE DOMAIN w.outs = {}
       /\ w.pc \in {"outs", "edge", "follow"} => w.at \in shown
       /\ w.pc = "follow" => w.mode \notin Sorted /\ w.edges # <<>>

(* An edge that was given out, and unless it is gone by now leaves n.      *)
Leaves(g, e, n) == EdgeIssued(g, e) /\ (e \in LiveEdges(g) => EdgeAt(g, e).from = n)
CrossedHold(g, w) ==
    /\ Distinct(w.crossed)
    /\ \A e \in Elems(w.crossed) : \E n \in Elems(w.shown) :
          Leaves(g, e, n) /\ (w.pc = "outs" => n # w.at)
KeptHold(g, w) ==
    /\ \A m \in DOMAIN w.outs :
          /\ w.outs[m] \in Seq(SomeIds) /\ Distinct(w.outs[m])
          /\ \A e \in Elems(w.outs[m]) : Leaves(g, e, m)
          /\ m \notin Elems(w.shown) \/ (w.pc = "outs" /\ m = w.at) =>
                Elems(w.outs[m]) \cap Elems(w.crossed) = {}
    /\ \A m, n \in DOMAIN w.outs : m # n => Elems(w.outs[m]) \cap Elems(w.outs[n]) = {}

(* The edges of the node that are still to be shown.                       *)
Ahead(w) == CASE w.pc = "edge" -> w.edges
              [] w.pc = "follow" -> Tail(w.edges)
              [] OTHER -> <<>>
AheadHold(g, w) ==
    /\ Distinct(Ahead(w)) /\ Elems(Ahead(w)) \cap Elems(w.crossed) = {}
    /\ \A e \in Elems(Ahead(w)) : Leaves(g, e, w.at)
    /\ w.mode \in Sorted /\ w.pc = "edge" => Elems(w.edges) \subseteq Elems(w.outs[w.at])
WalkHolds(g, w) ==
    /\ WalkTypes(w) /\ NodesOnce(w) /\ CrossedHold(g, w) /\ KeptHold(g, w) /\ AheadHold(g, w)

LEMMA WalkFields ==
    ASSUME NEW w, WalkTypes(w)
    PROVE  /\ w.mode \in Modes \cup {"none"} /\ w.pc \in Stages /\ w.start \in SomeIds
           /\ w.pending \in Seq(SomeIds) /\ w.at \in SomeIds /\ w.edges \in Seq(SomeIds)
           /\ w.visited \in SUBSET SomeIds /\ w.shown \in Seq(SomeIds)
           /\ w.crossed \in Seq(SomeIds) /\ w.pure \in BOOLEAN
BY DEF WalkTypes

(* Whatever a step does not touch keeps its part of the invariant.         *)
LEMMA CrossedStay ==
    ASSUME NEW g, NEW w, NEW v, CrossedHold(g, w), v.crossed = w.crossed,
           Elems(w.shown) \subseteq Elems(v.shown), v.pc = "outs" => v.at \notin Elems(w.shown)
    PROVE  CrossedHold(g, v)
BY DEF CrossedHold

LEMMA KeptStays ==
    ASSUME NEW g, NEW w, NEW v, KeptHold(g, w), v.crossed = w.crossed, v.outs = w.outs,
           Elems(w.shown) \subseteq Elems(v.shown), v.pc = "outs" => v.at \notin Elems(w.shown)
    PROVE  KeptHold(g, v)
BY DEF KeptHold

LEMMA NothingAhead ==
    ASSUME NEW g, NEW w, w.pc \notin {"edge", "follow"}
    PROVE  AheadHold(g, w)
<1>1. Ahead(w) = <<>> /\ Elems(<<>>) = {} /\ Distinct(<<>>)
  BY DEF Ahead, Elems, Distinct
<1> QED BY <1>1 DEF AheadHold

(* A walk that has shown nothing yet.                                      *)
LEMMA FreshWalk ==
    ASSUME NEW g, NEW v, WalkTypes(v), v.shown = <<>>, v.crossed = <<>>,
           v.pc \in {"idle", "node", "refused"}, v.mode = "none" => v.pc = "idle",
           v.mode = "breadth" => Elems(v.pending) \subseteq v.visited,
           v.mode \in {"breadth", "topological", "reverse"} => Distinct(v.pending),
           IF v.mode \in Sorted THEN Elems(v.pending) \subseteq DOMAIN v.outs ELSE DOMAIN v.outs = {},
           \A m \in DOMAIN v.outs :
              /\ v.outs[m] \in Seq(SomeIds) /\ Distinct(v.outs[m])
              /\ \A e \in Elems(v.outs[m]) : Leaves(g, e, m),
           \A m, n \in DOMAIN v.outs : m # n => Elems(v.outs[m]) \cap Elems(v.outs[n]) = {}
    PROVE  WalkHolds(g, v)
<1>1. Elems(v.shown) = {} /\ Elems(v.crossed) = {} /\ Distinct(v.shown) /\ Distinct(v.crossed)
  BY DEF Elems, Distinct
<1>2. NodesOnce(v)
  BY <1>1 DEF NodesOnce
<1>3. CrossedHold(g, v) /\ KeptHold(g, v)
  BY <1>1 DEF CrossedHold, KeptHold
<1> QED BY <1>2, <1>3, NothingAhead DEF WalkHolds

LEMMA NoWalkIs ==
    /\ WalkTypes(NoWalk) /\ NoWalk.shown = <<>> /\ NoWalk.crossed = <<>> /\ NoWalk.pc = "idle"
    /\ NoWalk.mode = "none" /\ NoWalk.pending = <<>> /\ DOMAIN NoWalk.outs = {}
BY DEF NoWalk, WalkTypes, SomeIds, NoId, Stages

LEMMA WalkStarts == ASSUME NEW g PROVE WalkHolds(g, NoWalk)
<1>1. NoWalk.mode \notin Sorted /\ NoWalk.mode # "breadth" /\ NoWalk.mode \notin {"breadth", "topological", "reverse"}
  BY NoWalkIs DEF Sorted
<1> QED BY <1>1, NoWalkIs, FreshWalk

LEMMA StartAtKeeps ==
    ASSUME NEW mode \in Modes \ Sorted, NEW n \in IssuedNodes(graph), StartAt(mode, n)
    PROVE  WalkHolds(graph, walk')
<1> DEFINE there == n \in LiveNodes(graph)
           v == walk'
<1>1. n \in SomeIds
  BY GraphAssumption DEF IssuedNodes, NodeIndices, SomeIds
<1>2. PICK pc, pending, visited :
         /\ pc = (IF there THEN "node" ELSE "refused")
         /\ pending = (IF there THEN <<n>> ELSE <<>>)
         /\ visited = (IF mode = "breadth" THEN {n} ELSE {})
  OBVIOUS
<1>3. v = [NoWalk EXCEPT !.mode = mode, !.start = n, !.pc = pc, !.pending = pending, !.visited = visited]
  BY <1>2 DEF StartAt
<1>4. pc \in {"node", "refused"} /\ visited \in SUBSET SomeIds
  BY <1>1, <1>2
<1>5. /\ pending \in Seq(SomeIds) /\ Distinct(pending) /\ Elems(pending) \subseteq {n}
  <2>1. <<n>> \in Seq(SomeIds) /\ Distinct(<<n>>) /\ Elems(<<n>>) = {n}
    BY <1>1 DEF Distinct, Elems
  <2>2. <<>> \in Seq(SomeIds) /\ Distinct(<<>>) /\ Elems(<<>>) = {}
    BY DEF Distinct, Elems
  <2> QED BY <1>2, <2>1, <2>2
<1>6. /\ v.mode = mode /\ v.pc = pc /\ v.pending = pending /\ v.visited = visited
      /\ v.shown = <<>> /\ v.crossed = <<>> /\ DOMAIN v.outs = {}
  <2> HIDE DEF v
  <2> QED BY <1>3 DEF NoWalk
<1>7. WalkTypes(v)
  <2> HIDE DEF v
  <2>1. pc \in Stages
    BY <1>4 DEF Stages
  <2> QED BY <1>1, <1>3, <1>4, <1>5, <2>1, NoWalkIs DEF WalkTypes
<1> HIDE DEF v
<1>8. WalkHolds(graph, v)
  <2>1. mode # "none" /\ mode \notin Sorted /\ mode \notin {"topological", "reverse"}
    BY DEF Modes, Sorted
  <2> QED BY <1>2, <1>4, <1>5, <1>6, <1>7, <2>1, FreshWalk
<1> QED BY <1>8 DEF v

LEMMA StartSortedKeeps ==
    ASSUME NEW W, IsGraph(graph, W), NEW mode \in Sorted, NEW seeds \in SeedOrders(graph),
           StartSorted(mode, seeds)
    PROVE  WalkHolds(graph, walk')
<1> DEFINE v == walk'
<1>1. PICK g, order : g = graph /\ order = TopologicalOrder(graph, seeds)
  OBVIOUS
<1>2. CASE order = Refused
  <2>1. v = [NoWalk EXCEPT !.mode = mode, !.pc = "refused"]
    BY <1>1, <1>2 DEF StartSorted
  <2> HIDE DEF v
  <2>2. /\ v.mode = mode /\ v.pc = "refused" /\ v.pending = <<>> /\ v.shown = <<>> /\ v.crossed = <<>>
        /\ DOMAIN v.outs = {}
    BY <2>1 DEF NoWalk
  <2>3. WalkTypes(v)
    <3>1. "refused" \in Stages /\ mode \in Modes
      BY DEF Stages, Modes, Sorted
    <3> QED BY <2>1, <3>1, NoWalkIs DEF WalkTypes
  <2>4. Elems(<<>>) = {} /\ Distinct(<<>>)
    BY DEF Elems, Distinct
  <2>5. WalkHolds(graph, v)
    BY <2>2, <2>3, <2>4, FreshWalk DEF Sorted
  <2> QED BY <2>5 DEF v
<1>3. CASE order # Refused
  <2>1. /\ order \in Seq(LiveNodes(g)) /\ Distinct(order)
        /\ \A n \in LiveNodes(g) :
              /\ OutEdges(g, n) \in Seq(SomeIds) /\ Distinct(OutEdges(g, n))
              /\ Elems(OutEdges(g, n)) = {e \in LiveEdges(g) : EdgeAt(g, e).from = n}
    BY <1>1, <1>3, TopologicalOrderIsRight, OutEdgesAre
  <2>2. PICK pending, outs :
           /\ pending = IF mode = "reverse" THEN Sequence!Reverse(order) ELSE order
           /\ outs = [m \in LiveNodes(g) |-> OutEdges(g, m)]
    OBVIOUS
  <2>3. v = [NoWalk EXCEPT !.mode = mode, !.pc = "node", !.pending = pending, !.outs = outs]
    BY <1>1, <1>3, <2>2 DEF StartSorted
  <2>4. pending \in Seq(LiveNodes(g)) /\ Distinct(pending) /\ Elems(pending) \subseteq LiveNodes(g)
    <3>1. pending \in Seq(LiveNodes(g)) /\ Distinct(pending)
      BY <2>1, <2>2, ElemsOfReverse
    <3> QED BY <3>1 DEF Elems
  <2>5. LiveNodes(g) \subseteq SomeIds
    BY <1>1, LiveNode DEF IsGraph
  <2>6. pending \in Seq(SomeIds)
    BY <2>4, <2>5
  <2> HIDE DEF v
  <2>7. /\ v.mode = mode /\ v.pc = "node" /\ v.pending = pending /\ v.shown = <<>> /\ v.crossed = <<>>
        /\ v.outs = outs
    BY <2>3 DEF NoWalk
  <2>8. WalkTypes(v)
    <3>1. "node" \in Stages /\ mode \in Modes
      BY DEF Stages, Modes, Sorted
    <3> QED BY <2>3, <2>6, <3>1, NoWalkIs DEF WalkTypes
  <2>9. DOMAIN outs = LiveNodes(g) /\ \A m \in LiveNodes(g) : outs[m] = OutEdges(g, m)
    BY <2>2
  <2>10. \A e \in LiveEdges(g) : EdgeIssued(g, e)
    BY <1>1, LiveEdge DEF EdgeIssued, IsGraph
  <2>11. \A m \in LiveNodes(g) : \A e \in Elems(outs[m]) : Leaves(g, e, m)
    BY <2>1, <2>9, <2>10 DEF Leaves
  <2>12. \A m, n \in LiveNodes(g) : m # n => Elems(outs[m]) \cap Elems(outs[n]) = {}
    BY <2>1, <2>9
  <2>13. WalkHolds(g, v)
    BY <2>1, <2>4, <2>7, <2>8, <2>9, <2>11, <2>12, FreshWalk DEF Sorted
  <2> QED BY <1>1, <2>13 DEF v
<1> QED BY <1>2, <1>3

(* A node comes up and is passed over, or shown.                           *)
LEMMA VisitNodeKeeps ==
    ASSUME NEW W, IsGraph(graph, W), WalkHolds(graph, walk), NEW answer \in Answers, VisitNode(answer)
    PROVE  WalkHolds(graph, walk')
<1>1. PICK g, w, v : g = graph /\ w = walk /\ v = walk'
  OBVIOUS
<1>2. PICK n, rest, visited : n = Head(w.pending) /\ rest = Tail(w.pending) /\ visited = w.visited \cup {n}
  OBVIOUS
<1>3. PICK onward : onward = IF w.mode = "custom" THEN "done" ELSE "node"
  OBVIOUS
<1>4. /\ WalkTypes(w) /\ NodesOnce(w) /\ CrossedHold(g, w) /\ KeptHold(g, w)
      /\ IsGraph(g, W) /\ w.pc = "node" /\ w.pending # <<>>
  BY <1>1 DEF WalkHolds, VisitNode
<1>5. /\ w.pending \in Seq(SomeIds) /\ w.shown \in Seq(SomeIds) /\ w.visited \in SUBSET SomeIds
      /\ w.mode \in Modes \cup {"none"}
  BY <1>4, WalkFields
<1>6. /\ rest \in Seq(SomeIds) /\ n \in SomeIds /\ visited \in SUBSET SomeIds
      /\ Elems(w.pending) = {n} \cup Elems(rest)
      /\ Distinct(w.pending) => Distinct(rest) /\ n \notin Elems(rest)
  BY <1>2, <1>4, <1>5, ElemsOfTail
<1>7. onward \in Stages /\ onward \in {"done", "node"}
  BY <1>3 DEF Stages
<1>8. CASE SeenBefore(n) \/ n \notin LiveNodes(graph)
  <2>1. v = [w EXCEPT !.pending = rest, !.visited = visited, !.pc = onward]
    BY <1>1, <1>2, <1>3, <1>8 DEF VisitNode
  <2>2. /\ WalkTypes(v) /\ v.mode = w.mode /\ v.pc = onward /\ v.pending = rest /\ v.visited = visited
        /\ v.outs = w.outs /\ v.shown = w.shown /\ v.crossed = w.crossed
    BY <1>4, <1>6, <1>7, <2>1 DEF WalkTypes
  <2>3. NodesOnce(v)
    BY <1>2, <1>4, <1>6, <1>7, <2>2 DEF NodesOnce
  <2> QED BY <1>1, <1>4, <1>7, <2>2, <2>3, CrossedStay, KeptStays, NothingAhead DEF WalkHolds
<1>9. CASE ~(SeenBefore(n) \/ n \notin LiveNodes(graph))
  <2>1. PICK pc, shown, pure :
           /\ pc = (CASE answer = "continue" -> "outs" [] answer = "skip" -> onward [] answer = "stop" -> "done")
           /\ shown = Append(w.shown, n) /\ pure = (w.pure /\ answer = "continue")
    OBVIOUS
  <2>2. v = [w EXCEPT !.pending = rest, !.visited = visited, !.shown = shown, !.at = n, !.pure = pure, !.pc = pc]
    <3>1. v = [[[w EXCEPT !.pending = rest, !.visited = visited]
                    EXCEPT !.shown = shown, !.at = n, !.pure = pure] EXCEPT !.pc = pc]
      <4>1. PICK x : x = [w EXCEPT !.pending = rest, !.visited = visited]
        OBVIOUS
      <4>2. x.shown = w.shown /\ x.pure = w.pure
        BY <1>4, <4>1 DEF WalkTypes
      <4>3. v = [[x EXCEPT !.shown = Append(@, n), !.at = n, !.pure = @ /\ answer = "continue"] EXCEPT !.pc = pc]
        BY <1>1, <1>2, <1>3, <1>9, <2>1, <4>1 DEF VisitNode
      <4> QED BY <2>1, <4>1, <4>2, <4>3
    <3> QED BY <3>1
  <2>3. pc \in Stages /\ pc \in {"outs", "done", "node"} /\ pure \in BOOLEAN
    BY <1>4, <1>7, <2>1 DEF Answers, Stages, WalkTypes
  <2>4. n \notin Elems(w.shown)
    <3>1. CASE w.mode \in {"depth", "custom"}
      <4>1. n \notin w.visited
        BY <1>1, <1>9, <3>1 DEF SeenBefore
      <4> QED BY <1>4, <3>1, <4>1 DEF NodesOnce
    <3>2. CASE w.mode \in {"breadth", "topological", "reverse"}
      BY <1>4, <1>6, <3>2 DEF NodesOnce
    <3>3. CASE w.mode = "none"
      BY <1>4, <3>3 DEF NodesOnce
    <3> QED BY <1>5, <3>1, <3>2, <3>3 DEF Modes
  <2>5. /\ shown \in Seq(SomeIds) /\ Elems(shown) = Elems(w.shown) \cup {n}
        /\ Distinct(w.shown) => Distinct(shown)
    BY <1>5, <1>6, <2>1, <2>4, ElemsOfAppend
  <2>6. /\ WalkTypes(v) /\ v.mode = w.mode /\ v.pc = pc /\ v.pending = rest /\ v.visited = visited
        /\ v.outs = w.outs /\ v.shown = shown /\ v.crossed = w.crossed /\ v.at = n
    BY <1>4, <1>6, <2>2, <2>3, <2>5 DEF WalkTypes
  <2>7. NodesOnce(v)
    BY <1>2, <1>4, <1>6, <2>3, <2>5, <2>6 DEF NodesOnce, Sorted
  <2> QED BY <1>1, <1>4, <2>3, <2>4, <2>5, <2>6, <2>7, CrossedStay, KeptStays, NothingAhead DEF WalkHolds
<1> QED BY <1>8, <1>9

(* The edges of the node that is shown are taken: none of them was crossed.*)
LEMMA EdgesTaken ==
    ASSUME NEW g, NEW w, NEW edges \in Seq(SomeIds), WalkHolds(g, w), w.pc = "outs",
           Distinct(edges), Elems(edges) \cap Elems(w.crossed) = {},
           \A e \in Elems(edges) : Leaves(g, e, w.at),
           w.mode \in Sorted => Elems(edges) \subseteq Elems(w.outs[w.at])
    PROVE  WalkHolds(g, [w EXCEPT !.pc = "edge", !.edges = edges])
<1>1. PICK v : v = [w EXCEPT !.pc = "edge", !.edges = edges]
  OBVIOUS
<1>2. WalkTypes(w) /\ NodesOnce(w) /\ CrossedHold(g, w) /\ KeptHold(g, w)
  BY DEF WalkHolds
<1>3. /\ WalkTypes(v) /\ v.mode = w.mode /\ v.pc = "edge" /\ v.pending = w.pending /\ v.visited = w.visited
      /\ v.outs = w.outs /\ v.shown = w.shown /\ v.crossed = w.crossed /\ v.at = w.at /\ v.edges = edges
  <2>1. "edge" \in Stages
    BY DEF Stages
  <2> QED BY <1>1, <1>2, <2>1 DEF WalkTypes
<1>4. NodesOnce(v)
  BY <1>2, <1>3 DEF NodesOnce
<1>5. AheadHold(g, v)
  BY <1>3 DEF AheadHold, Ahead
<1> QED BY <1>1, <1>2, <1>3, <1>4, <1>5, CrossedStay, KeptStays DEF WalkHolds

LEMMA TakeEdgesKeeps ==
    ASSUME NEW W, IsGraph(graph, W), WalkHolds(graph, walk), TakeEdges
    PROVE  WalkHolds(graph, walk')
<1>1. PICK g, w : g = graph /\ w = walk
  OBVIOUS
<1>2. PICK out, edges : out = OutEdges(g, w.at) /\ edges = IF w.mode = "depth" THEN Sequence!Reverse(out) ELSE out
  OBVIOUS
<1>3. /\ w.pc = "outs" /\ w.mode \notin Sorted /\ IsGraph(g, W) /\ WalkHolds(g, w)
      /\ walk' = [w EXCEPT !.pc = "edge", !.edges = edges]
  BY <1>1, <1>2 DEF TakeEdges, Sorted
<1>4. w.at \in SomeIds /\ CrossedHold(g, w)
  BY <1>3, WalkFields DEF WalkHolds
<1>5. out \in Seq(SomeIds) /\ Distinct(out) /\ Elems(out) \subseteq {e \in LiveEdges(g) : EdgeAt(g, e).from = w.at}
  <2>1. CASE w.at \in LiveNodes(g)
    BY <1>2, <1>3, <2>1, OutEdgesAre
  <2>2. CASE w.at \notin LiveNodes(g)
    <3>1. NodeAt(g, w.at) = NoNode
      BY <1>3, <1>4, <2>2, LiveNode DEF IsGraph
    <3>2. out = <<>>
      BY <1>2, <3>1 DEF OutEdges, NoNode
    <3> QED BY <3>2 DEF Distinct, Elems
  <2> QED BY <2>1, <2>2
<1>6. edges \in Seq(SomeIds) /\ Distinct(edges) /\ Elems(edges) = Elems(out)
  BY <1>2, <1>5, ElemsOfReverse
<1>7. \A e \in LiveEdges(g) : EdgeIssued(g, e)
  BY <1>3, LiveEdge DEF EdgeIssued, IsGraph
<1>8. \A e \in Elems(edges) : Leaves(g, e, w.at)
  BY <1>5, <1>6, <1>7 DEF Leaves
<1>9. Elems(edges) \cap Elems(w.crossed) = {}
  BY <1>3, <1>4, <1>5, <1>6 DEF CrossedHold, Leaves
<1>10. WalkHolds(g, [w EXCEPT !.pc = "edge", !.edges = edges])
  BY <1>3, <1>6, <1>8, <1>9, EdgesTaken
<1> QED BY <1>1, <1>3, <1>10

LEMMA TakeKeptEdgesKeeps ==
    ASSUME WalkHolds(graph, walk), TakeKeptEdges
    PROVE  WalkHolds(graph, walk')
<1>1. PICK g, w, edges : g = graph /\ w = walk /\ edges = w.outs[w.at]
  OBVIOUS
<1>2. /\ w.pc = "outs" /\ w.mode \in Sorted /\ WalkHolds(g, w)
      /\ walk' = [w EXCEPT !.pc = "edge", !.edges = edges]
  BY <1>1 DEF TakeKeptEdges
<1>3. w.at \in DOMAIN w.outs
  BY <1>2 DEF WalkHolds, NodesOnce
<1>4. /\ edges \in Seq(SomeIds) /\ Distinct(edges) /\ Elems(edges) \cap Elems(w.crossed) = {}
      /\ \A e \in Elems(edges) : Leaves(g, e, w.at)
  BY <1>1, <1>2, <1>3 DEF WalkHolds, KeptHold
<1>5. WalkHolds(g, [w EXCEPT !.pc = "edge", !.edges = edges])
  BY <1>1, <1>2, <1>4, EdgesTaken
<1> QED BY <1>1, <1>2, <1>5

(* The edges are done with, or the walk is: nothing else changes.          *)
LEMMA MovesOn ==
    ASSUME NEW g, NEW w, WalkHolds(g, w), w.pc # "idle", NEW pc \in {"node", "done"}
    PROVE  WalkHolds(g, [w EXCEPT !.pc = pc])
<1>1. PICK v : v = [w EXCEPT !.pc = pc]
  OBVIOUS
<1>2. WalkTypes(w) /\ NodesOnce(w) /\ CrossedHold(g, w) /\ KeptHold(g, w)
  BY DEF WalkHolds
<1>3. /\ WalkTypes(v) /\ v.mode = w.mode /\ v.pc = pc /\ v.pending = w.pending /\ v.visited = w.visited
      /\ v.outs = w.outs /\ v.shown = w.shown /\ v.crossed = w.crossed
  <2>1. pc \in Stages
    BY DEF Stages
  <2> QED BY <1>1, <1>2, <2>1 DEF WalkTypes
<1>4. NodesOnce(v)
  BY <1>2, <1>3 DEF NodesOnce
<1> QED BY <1>1, <1>2, <1>3, <1>4, CrossedStay, KeptStays, NothingAhead DEF WalkHolds

LEMMA AskNextKeeps ==
    ASSUME NEW g, NEW w, WalkHolds(g, w), w.mode = "custom", NEW n \in SomeIds
    PROVE  WalkHolds(g, [w EXCEPT !.pc = "node", !.pending = <<n>>])
<1>1. PICK v : v = [w EXCEPT !.pc = "node", !.pending = <<n>>]
  OBVIOUS
<1>2. WalkTypes(w) /\ NodesOnce(w) /\ CrossedHold(g, w) /\ KeptHold(g, w)
  BY DEF WalkHolds
<1>3. /\ WalkTypes(v) /\ v.mode = w.mode /\ v.pc = "node" /\ v.visited = w.visited
      /\ v.outs = w.outs /\ v.shown = w.shown /\ v.crossed = w.crossed
  <2>1. "node" \in Stages /\ <<n>> \in Seq(SomeIds)
    BY DEF Stages
  <2> QED BY <1>1, <1>2, <2>1 DEF WalkTypes
<1>4. NodesOnce(v)
  BY <1>2, <1>3 DEF NodesOnce, Sorted
<1> QED BY <1>1, <1>2, <1>3, <1>4, CrossedStay, KeptStays, NothingAhead DEF WalkHolds

(* An edge is passed over because it is gone, or shown.                    *)
LEMMA EdgePassed ==
    ASSUME NEW g, NEW w, WalkHolds(g, w), w.pc = "edge", w.edges # <<>>
    PROVE  WalkHolds(g, [w EXCEPT !.edges = Tail(w.edges)])
<1>1. PICK v, t : v = [w EXCEPT !.edges = t] /\ t = Tail(w.edges)
  OBVIOUS
<1>2. WalkTypes(w) /\ NodesOnce(w) /\ CrossedHold(g, w) /\ KeptHold(g, w) /\ AheadHold(g, w)
  BY DEF WalkHolds
<1>3. /\ t \in Seq(SomeIds) /\ Elems(t) \subseteq Elems(w.edges) /\ (Distinct(w.edges) => Distinct(t))
  BY <1>1, <1>2, WalkFields, ElemsOfTail
<1>4. /\ WalkTypes(v) /\ v.mode = w.mode /\ v.pc = "edge" /\ v.pending = w.pending /\ v.visited = w.visited
      /\ v.outs = w.outs /\ v.shown = w.shown /\ v.crossed = w.crossed /\ v.at = w.at /\ v.edges = t
  BY <1>1, <1>2, <1>3 DEF WalkTypes
<1>5. NodesOnce(v)
  BY <1>2, <1>4 DEF NodesOnce
<1>6. AheadHold(g, v)
  BY <1>2, <1>3, <1>4 DEF AheadHold, Ahead
<1> QED BY <1>1, <1>2, <1>4, <1>5, <1>6, CrossedStay, KeptStays DEF WalkHolds

LEMMA EdgeShown ==
    ASSUME NEW g, NEW w, WalkHolds(g, w), w.pc = "edge", w.edges # <<>>, NEW pure \in BOOLEAN,
           NEW pc \in {"edge", "follow", "done"}, NEW edges \in Seq(SomeIds),
           edges = IF pc = "edge" THEN Tail(w.edges) ELSE w.edges,
           pc = "follow" => w.mode \notin Sorted
    PROVE  WalkHolds(g, [w EXCEPT !.crossed = Append(w.crossed, Head(w.edges)), !.pure = pure,
                                  !.pc = pc, !.edges = edges])
<1>1. PICK v, e, t, crossed : /\ e = Head(w.edges) /\ t = Tail(w.edges) /\ crossed = Append(w.crossed, e)
                              /\ v = [w EXCEPT !.crossed = crossed, !.pure = pure, !.pc = pc, !.edges = edges]
  OBVIOUS
<1>2. /\ WalkTypes(w) /\ NodesOnce(w) /\ CrossedHold(g, w) /\ KeptHold(g, w)
      /\ w.crossed \in Seq(SomeIds) /\ w.edges \in Seq(SomeIds)
  BY WalkFields DEF WalkHolds
<1>3. /\ Distinct(w.edges) /\ Elems(w.edges) \cap Elems(w.crossed) = {}
      /\ \A d \in Elems(w.edges) : Leaves(g, d, w.at)
      /\ w.mode \in Sorted => Elems(w.edges) \subseteq Elems(w.outs[w.at])
  BY DEF WalkHolds, AheadHold, Ahead
<1>4. /\ t \in Seq(SomeIds) /\ e \in SomeIds /\ Elems(w.edges) = {e} \cup Elems(t)
      /\ Distinct(t) /\ e \notin Elems(t)
  BY <1>1, <1>2, <1>3, ElemsOfTail
<1>5. /\ crossed \in Seq(SomeIds) /\ Distinct(crossed) /\ Elems(crossed) = Elems(w.crossed) \cup {e}
  BY <1>1, <1>2, <1>3, <1>4, ElemsOfAppend DEF CrossedHold
<1>6. /\ WalkTypes(v) /\ v.mode = w.mode /\ v.pc = pc /\ v.pending = w.pending /\ v.visited = w.visited
      /\ v.outs = w.outs /\ v.shown = w.shown /\ v.crossed = crossed /\ v.at = w.at /\ v.edges = edges
  <2>1. pc \in Stages
    BY DEF Stages
  <2> QED BY <1>1, <1>2, <1>5, <2>1 DEF WalkTypes
<1>7. NodesOnce(v)
  BY <1>2, <1>6 DEF NodesOnce
<1>8. w.at \in Elems(w.shown) /\ Leaves(g, e, w.at)
  BY <1>2, <1>3, <1>4 DEF NodesOnce
<1>9. CrossedHold(g, v)
  BY <1>2, <1>5, <1>6, <1>8 DEF CrossedHold
<1>10. KeptHold(g, v)
  <2>1. ASSUME NEW m \in DOMAIN w.outs, m \notin Elems(w.shown)
        PROVE  Elems(w.outs[m]) \cap Elems(crossed) = {}
    <3>1. w.mode \in Sorted /\ w.at \in DOMAIN w.outs /\ w.at # m
      BY <1>2, <1>8, <2>1 DEF NodesOnce
    <3>2. e \notin Elems(w.outs[m])
      BY <1>2, <1>3, <1>4, <2>1, <3>1 DEF KeptHold
    <3>3. Elems(w.outs[m]) \cap Elems(w.crossed) = {}
      BY <1>2, <2>1 DEF KeptHold
    <3> QED BY <1>5, <3>2, <3>3
  <2> QED BY <1>2, <1>6, <2>1 DEF KeptHold
<1>11. AheadHold(g, v)
  <2>1. CASE pc = "done"
    BY <1>6, <2>1, NothingAhead
  <2>2. CASE pc # "done"
    <3>1. Ahead(v) = t
      BY <1>1, <1>6, <2>2 DEF Ahead
    <3> QED BY <1>1, <1>3, <1>4, <1>5, <1>6, <2>2, <3>1 DEF AheadHold
  <2> QED BY <2>1, <2>2
<1> QED BY <1>1, <1>6, <1>7, <1>9, <1>10, <1>11 DEF WalkHolds

LEMMA VisitEdgeKeeps ==
    ASSUME WalkHolds(graph, walk), NEW answer \in Answers, VisitEdge(answer)
    PROVE  WalkHolds(graph, walk')
<1>1. PICK g, w, v : g = graph /\ w = walk /\ v = walk'
  OBVIOUS
<1>2. PICK e, t, crossed, pure : /\ e = Head(w.edges) /\ t = Tail(w.edges) /\ crossed = Append(w.crossed, e)
                                 /\ pure = (w.pure /\ answer = "continue")
  OBVIOUS
<1>3. w.pc = "edge" /\ w.edges # <<>> /\ WalkHolds(g, w) /\ WalkTypes(w)
  BY <1>1 DEF VisitEdge, WalkHolds
<1>4. w.edges \in Seq(SomeIds) /\ w.pure \in BOOLEAN
  BY <1>3, WalkFields
<1>5. t \in Seq(SomeIds) /\ pure \in BOOLEAN
  BY <1>2, <1>3, <1>4
<1>6. PICK next, shown : /\ next = [w EXCEPT !.edges = t]
                         /\ shown = [w EXCEPT !.crossed = crossed, !.pure = pure]
  OBVIOUS
<1>7. shown = [w EXCEPT !.crossed = Append(@, e), !.pure = @ /\ answer = "continue"]
  BY <1>2, <1>6
<1>8. \/ v = next
      \/ w.mode \notin Sorted /\ v = [shown EXCEPT !.pc = "follow"]
      \/ v = [shown EXCEPT !.pc = "done"]
      \/ v = [shown EXCEPT !.edges = Tail(@)]
  BY <1>1, <1>2, <1>6, <1>7 DEF VisitEdge
<1>9. CASE v = next
  BY <1>1, <1>2, <1>3, <1>6, <1>9, EdgePassed
<1>10. CASE w.mode \notin Sorted /\ v = [shown EXCEPT !.pc = "follow"]
  <2>1. v = [w EXCEPT !.crossed = crossed, !.pure = pure, !.pc = "follow", !.edges = w.edges]
    BY <1>3, <1>6, <1>10 DEF WalkTypes
  <2>2. WalkHolds(g, [w EXCEPT !.crossed = Append(w.crossed, Head(w.edges)), !.pure = pure,
                               !.pc = "follow", !.edges = w.edges])
    BY <1>2, <1>3, <1>4, <1>5, <1>10, EdgeShown
  <2> QED BY <1>1, <1>2, <2>1, <2>2
<1>11. CASE v = [shown EXCEPT !.pc = "done"]
  <2>1. v = [w EXCEPT !.crossed = crossed, !.pure = pure, !.pc = "done", !.edges = w.edges]
    BY <1>3, <1>6, <1>11 DEF WalkTypes
  <2>2. WalkHolds(g, [w EXCEPT !.crossed = Append(w.crossed, Head(w.edges)), !.pure = pure,
                               !.pc = "done", !.edges = w.edges])
    BY <1>2, <1>3, <1>4, <1>5, EdgeShown
  <2> QED BY <1>1, <1>2, <2>1, <2>2
<1>12. CASE v = [shown EXCEPT !.edges = Tail(@)]
  <2>1. v = [w EXCEPT !.crossed = crossed, !.pure = pure, !.pc = "edge", !.edges = t]
    BY <1>2, <1>3, <1>6, <1>12 DEF WalkTypes
  <2>2. WalkHolds(g, [w EXCEPT !.crossed = Append(w.crossed, Head(w.edges)), !.pure = pure,
                               !.pc = "edge", !.edges = t])
    BY <1>2, <1>3, <1>4, <1>5, EdgeShown
  <2> QED BY <1>1, <1>2, <2>1, <2>2
<1> QED BY <1>8, <1>9, <1>10, <1>11, <1>12

LEMMA EdgeFollowed ==
    ASSUME NEW g, NEW w, WalkHolds(g, w), w.pc = "follow",
           NEW pending \in Seq(SomeIds), NEW visited \in SUBSET SomeIds, w.visited \subseteq visited,
           w.mode = "breadth" => /\ Elems(pending) \subseteq visited /\ Distinct(pending)
                                 /\ Elems(w.shown) \cap Elems(pending) = {}
    PROVE  WalkHolds(g, [w EXCEPT !.pc = "edge", !.edges = Tail(w.edges), !.pending = pending,
                                  !.visited = visited])
<1>1. PICK v, t : /\ v = [w EXCEPT !.pc = "edge", !.edges = t, !.pending = pending, !.visited = visited]
                  /\ t = Tail(w.edges)
  OBVIOUS
<1>2. WalkTypes(w) /\ NodesOnce(w) /\ CrossedHold(g, w) /\ KeptHold(g, w) /\ AheadHold(g, w)
  BY DEF WalkHolds
<1>3. t \in Seq(SomeIds) /\ w.edges # <<>> /\ w.mode \notin Sorted
  BY <1>1, <1>2, WalkFields DEF NodesOnce
<1>4. /\ WalkTypes(v) /\ v.mode = w.mode /\ v.pc = "edge" /\ v.pending = pending /\ v.visited = visited
      /\ v.outs = w.outs /\ v.shown = w.shown /\ v.crossed = w.crossed /\ v.at = w.at /\ v.edges = t
  <2>1. "edge" \in Stages
    BY DEF Stages
  <2> QED BY <1>1, <1>2, <1>3, <2>1 DEF WalkTypes
<1>5. NodesOnce(v)
  BY <1>2, <1>3, <1>4 DEF NodesOnce, Sorted
<1>6. AheadHold(g, v)
  BY <1>1, <1>2, <1>3, <1>4 DEF AheadHold, Ahead
<1> QED BY <1>1, <1>2, <1>4, <1>5, <1>6, CrossedStay, KeptStays DEF WalkHolds

LEMMA FollowEdgeKeeps ==
    ASSUME NEW W, IsGraph(graph, W), WalkHolds(graph, walk), FollowEdge
    PROVE  WalkHolds(graph, walk')
<1>1. PICK g, w, v : g = graph /\ w = walk /\ v = walk'
  OBVIOUS
<1>2. PICK t, edge, next : /\ t = Tail(w.edges) /\ edge = EdgeAt(g, Head(w.edges))
                           /\ next = [w EXCEPT !.pc = "edge", !.edges = t]
  OBVIOUS
<1>3. IsGraph(g, W) /\ WalkHolds(g, w) /\ w.pc = "follow" /\ WalkTypes(w) /\ NodesOnce(w)
  BY <1>1 DEF FollowEdge, WalkHolds
<1>4. /\ w.edges \in Seq(SomeIds) /\ w.pending \in Seq(SomeIds) /\ w.visited \in SUBSET SomeIds
      /\ w.edges # <<>> /\ w.mode \in Modes /\ w.mode \notin Sorted
  BY <1>3, WalkFields DEF NodesOnce
<1>5. /\ next.pending = w.pending /\ next.visited = w.visited
  BY <1>2, <1>3 DEF WalkTypes
<1>6. edge # NoEdge => edge.to \in SomeIds
  <2>1. Head(w.edges) \in SomeIds
    BY <1>4, ElemsOfTail
  <2>2. edge # NoEdge => Head(w.edges) \in LiveEdges(g)
    BY <1>2, <1>3, <2>1, LiveEdge DEF IsGraph
  <2>3. LiveNodes(g) \subseteq SomeIds
    BY <1>3, LiveNode DEF IsGraph
  <2> QED BY <1>2, <1>3, <2>2, <2>3, EdgesAreIds
<1>7. v = IF edge = NoEdge \/ edge.to \in w.visited THEN next
          ELSE IF w.mode = "depth" THEN DepthPush(next, edge.to) ELSE BreadthPush(next, edge.to)
  BY <1>1, <1>2 DEF FollowEdge
<1>8. w.mode = "breadth" => /\ Elems(w.pending) \subseteq w.visited /\ Distinct(w.pending)
                            /\ Elems(w.shown) \cap Elems(w.pending) = {} /\ Elems(w.shown) \subseteq w.visited
  BY <1>3 DEF NodesOnce
<1>9. CASE edge = NoEdge \/ edge.to \in w.visited
  <2>1. v = [w EXCEPT !.pc = "edge", !.edges = t, !.pending = w.pending, !.visited = w.visited]
    BY <1>2, <1>3, <1>7, <1>9 DEF WalkTypes
  <2>6. WalkHolds(g, [w EXCEPT !.pc = "edge", !.edges = Tail(w.edges), !.pending = w.pending,
                               !.visited = w.visited])
    BY <1>3, <1>4, <1>8, EdgeFollowed
  <2> QED BY <1>1, <1>2, <2>1, <2>6
<1>10. CASE edge # NoEdge /\ edge.to \notin w.visited /\ w.mode = "depth"
  <2>1. PICK pending : pending = <<edge.to>> \o w.pending
    OBVIOUS
  <2>2. pending \in Seq(SomeIds)
    BY <1>4, <1>6, <1>10, <2>1
  <2>3. v = [next EXCEPT !.pending = pending]
    BY <1>5, <1>7, <1>10, <2>1 DEF DepthPush
  <2>4. v = [w EXCEPT !.pc = "edge", !.edges = t, !.pending = pending, !.visited = w.visited]
    BY <1>2, <1>3, <2>3 DEF WalkTypes
  <2>6. WalkHolds(g, [w EXCEPT !.pc = "edge", !.edges = Tail(w.edges), !.pending = pending,
                               !.visited = w.visited])
    BY <1>3, <1>4, <1>10, <2>2, EdgeFollowed
  <2> QED BY <1>1, <1>2, <2>4, <2>6
<1>11. CASE edge # NoEdge /\ edge.to \notin w.visited /\ w.mode # "depth"
  <2>1. PICK pending, visited : pending = Append(w.pending, edge.to) /\ visited = w.visited \cup {edge.to}
    OBVIOUS
  <2>2. /\ pending \in Seq(SomeIds) /\ visited \in SUBSET SomeIds
        /\ Elems(pending) = Elems(w.pending) \cup {edge.to}
        /\ Distinct(w.pending) /\ edge.to \notin Elems(w.pending) => Distinct(pending)
    BY <1>4, <1>6, <1>11, <2>1, ElemsOfAppend
  <2>3. v = [next EXCEPT !.pending = pending, !.visited = visited]
    BY <1>5, <1>7, <1>11, <2>1 DEF BreadthPush
  <2>4. v = [w EXCEPT !.pc = "edge", !.edges = t, !.pending = pending, !.visited = visited]
    BY <1>2, <2>3
  <2>5. w.mode = "breadth" => /\ Elems(pending) \subseteq visited /\ Distinct(pending)
                              /\ Elems(w.shown) \cap Elems(pending) = {}
    BY <1>8, <1>11, <2>1, <2>2
  <2>6. WalkHolds(g, [w EXCEPT !.pc = "edge", !.edges = Tail(w.edges), !.pending = pending,
                               !.visited = visited])
    BY <1>3, <1>4, <2>1, <2>2, <2>5, EdgeFollowed
  <2> QED BY <1>1, <1>2, <2>4, <2>6
<1> QED BY <1>9, <1>10, <1>11

(* The graph changes under the walk: an edge that goes does not come back, *)
(* and one that stays leaves the node it left.                             *)
Changes(g, h) == /\ EdgesAge(g, h)
                 /\ \A e \in LiveEdges(g) \cap LiveEdges(h) : EdgeAt(h, e) = EdgeAt(g, e)

LEMMA GraphChanges ==
    ASSUME IsGraph(graph, Plain), [GraphNext]_graph
    PROVE  Changes(graph, graph')
<1>1. \A e \in LiveEdges(graph) : e \in SomeIds /\ EdgeIssued(graph, e)
  BY LiveEdge DEF IsGraph, EdgeIssued
<1>2. CASE UNCHANGED graph
  BY <1>2 DEF Changes, EdgesAge
<1>3. CASE AddNode
  <2>1. /\ EdgesStay(graph, WithNode(graph, "plain")) /\ EdgesAge(graph, WithNode(graph, "plain"))
        /\ graph' = WithNode(graph, "plain")
    BY <1>3, WithNodeIsSound, WithNodeAges DEF AddNode, Plain
  <2> QED BY <1>1, <2>1 DEF EdgesStay, Changes
<1>4. ASSUME NEW m, NEW n, AddEdge(m, n) PROVE Changes(graph, graph')
  <2>1. PICK h, id : h = WithEdge(graph, m, n, "plain") /\ id = NextEdgeId(graph)
    OBVIOUS
  <2>2. EdgesAge(graph, h) /\ id \notin LiveEdges(graph) /\ graph' = h
    BY <1>4, <2>1, WithEdgeIsSound, WithEdgeAges DEF AddEdge, Plain
  <2>3. \A e \in SomeIds \ {id} : EdgeAt(h, e) = EdgeAt(graph, e)
    BY <1>4, <2>1, WithEdgeIsSound DEF AddEdge, Plain
  <2> QED BY <1>1, <2>2, <2>3 DEF Changes
<1>5. ASSUME NEW n, RemoveNode(n) PROVE Changes(graph, graph')
  <2>1. PICK h : h = WithoutNode(graph, n)
    OBVIOUS
  <2>2. /\ EdgesAge(graph, h) /\ graph' = h
        /\ \A e \in LiveEdges(h) : EdgeAt(h, e) = EdgeAt(graph, e)
    BY <1>5, <2>1, WithoutNodeIsSound DEF RemoveNode
  <2> QED BY <2>2 DEF Changes
<1>6. ASSUME NEW e, RemoveEdge(e) PROVE Changes(graph, graph')
  <2>1. PICK h : h = WithoutEdge(graph, e)
    OBVIOUS
  <2>2. /\ EdgesAge(graph, h) /\ graph' = h
        /\ \A d \in LiveEdges(h) : EdgeAt(h, d) = EdgeAt(graph, d)
    BY <1>1, <1>6, <2>1, WithoutEdgeIsSound, WithoutEdgeAges DEF RemoveEdge
  <2> QED BY <2>2 DEF Changes
<1> QED BY <1>2, <1>3, <1>4, <1>5, <1>6 DEF GraphNext

LEMMA ChangeKeeps ==
    ASSUME NEW g, NEW h, NEW w, WalkHolds(g, w), Changes(g, h), NEW pure \in BOOLEAN
    PROVE  WalkHolds(h, [w EXCEPT !.pure = pure])
<1>1. PICK v : v = [w EXCEPT !.pure = pure]
  OBVIOUS
<1>2. WalkTypes(w) /\ NodesOnce(w) /\ CrossedHold(g, w) /\ KeptHold(g, w) /\ AheadHold(g, w)
  BY DEF WalkHolds
<1>3. /\ WalkTypes(v) /\ v.mode = w.mode /\ v.pc = w.pc /\ v.pending = w.pending /\ v.visited = w.visited
      /\ v.outs = w.outs /\ v.shown = w.shown /\ v.crossed = w.crossed /\ v.at = w.at /\ v.edges = w.edges
  BY <1>1, <1>2 DEF WalkTypes
<1>4. \A e, n : Leaves(g, e, n) => Leaves(h, e, n)
  BY DEF Leaves, Changes, EdgesAge
<1>5. NodesOnce(v)
  BY <1>2, <1>3 DEF NodesOnce
<1>6. CrossedHold(h, v)
  BY <1>2, <1>3, <1>4 DEF CrossedHold
<1>7. KeptHold(h, v)
  BY <1>2, <1>3, <1>4 DEF KeptHold
<1>8. AheadHold(h, v)
  <2>1. Ahead(v) = Ahead(w)
    BY <1>3 DEF Ahead
  <2> QED BY <1>2, <1>3, <1>4, <2>1 DEF AheadHold
<1> QED BY <1>1, <1>3, <1>5, <1>6, <1>7, <1>8 DEF WalkHolds

LEMMA WalkSteps ==
    ASSUME IsGraph(graph, Plain), WalkHolds(graph, walk), WalkNext
    PROVE  WalkHolds(graph', walk')
<1>1. CASE \E mode \in Modes \ Sorted, n \in IssuedNodes(graph) : StartAt(mode, n)
  <2>1. graph' = graph
    BY <1>1 DEF StartAt
  <2> QED BY <1>1, <2>1, StartAtKeeps
<1>2. CASE \E mode \in Sorted, seeds \in SeedOrders(graph) : StartSorted(mode, seeds)
  <2>1. graph' = graph
    BY <1>2 DEF StartSorted
  <2> QED BY <1>2, <2>1, StartSortedKeeps
<1>3. CASE \E answer \in Answers : VisitNode(answer)
  <2>1. graph' = graph
    BY <1>3 DEF VisitNode
  <2> QED BY <1>3, <2>1, VisitNodeKeeps
<1>4. CASE \E answer \in Answers : VisitEdge(answer)
  <2>1. graph' = graph
    BY <1>4 DEF VisitEdge
  <2> QED BY <1>4, <2>1, VisitEdgeKeeps
<1>5. CASE \E n \in IssuedNodes(graph) \cup {NoId} : AskNext(n)
  <2>1. PICK n \in IssuedNodes(graph) \cup {NoId} : AskNext(n)
    BY <1>5
  <2>2. n \in SomeIds
    BY GraphAssumption DEF IssuedNodes, NodeIndices, SomeIds, NoId
  <2>3. /\ graph' = graph /\ walk.pc = "outs" /\ walk.mode = "custom"
        /\ walk' = [walk EXCEPT !.pc = "done"] \/ walk' = [walk EXCEPT !.pc = "node", !.pending = <<n>>]
    BY <2>1 DEF AskNext
  <2>4. WalkHolds(graph, [walk EXCEPT !.pc = "done"])
    BY <2>3, MovesOn
  <2>5. WalkHolds(graph, [walk EXCEPT !.pc = "node", !.pending = <<n>>])
    BY <2>2, <2>3, AskNextKeeps
  <2> QED BY <2>3, <2>4, <2>5
<1>6. CASE TakeEdges
  <2>1. graph' = graph
    BY <1>6 DEF TakeEdges
  <2> QED BY <1>6, <2>1, TakeEdgesKeeps
<1>7. CASE TakeKeptEdges
  <2>1. graph' = graph
    BY <1>7 DEF TakeKeptEdges
  <2> QED BY <1>7, <2>1, TakeKeptEdgesKeeps
<1>8. CASE FollowEdge
  <2>1. graph' = graph
    BY <1>8 DEF FollowEdge
  <2> QED BY <1>8, <2>1, FollowEdgeKeeps
<1>9. CASE LeaveNode
  <2>1. graph' = graph /\ walk.pc # "idle" /\ walk' = [walk EXCEPT !.pc = "node"]
    BY <1>9 DEF LeaveNode
  <2>2. WalkHolds(graph, [walk EXCEPT !.pc = "node"])
    BY <2>1, MovesOn
  <2> QED BY <2>1, <2>2
<1>10. CASE EndWalk
  <2>1. graph' = graph /\ walk.pc # "idle" /\ walk' = [walk EXCEPT !.pc = "done"]
    BY <1>10 DEF EndWalk
  <2>2. WalkHolds(graph, [walk EXCEPT !.pc = "done"])
    BY <2>1, MovesOn
  <2> QED BY <2>1, <2>2
<1>11. CASE ChangeGraph
  <2>1. PICK pure \in BOOLEAN : walk' = [walk EXCEPT !.pure = pure]
    BY <1>11 DEF ChangeGraph
  <2>2. Changes(graph, graph')
    BY <1>11, GraphChanges DEF ChangeGraph
  <2>3. PICK h : h = graph'
    OBVIOUS
  <2>4. WalkHolds(h, [walk EXCEPT !.pure = pure])
    BY <2>2, <2>3, ChangeKeeps
  <2> QED BY <2>1, <2>3, <2>4
<1> QED BY <1>1, <1>2, <1>3, <1>4, <1>5, <1>6, <1>7, <1>8, <1>9, <1>10, <1>11 DEF WalkNext

LEMMA WalksShowOnce ==
    ASSUME NEW W, IsGraph(graph, W), WalkHolds(graph, walk)
    PROVE  ShownOnce
<1>1. WalkTypes(walk) /\ NodesOnce(walk) /\ CrossedHold(graph, walk)
  BY DEF WalkHolds
<1>2. walk.shown \in Seq(SomeIds) /\ walk.crossed \in Seq(SomeIds)
  BY <1>1, WalkFields
<1>3. NoRepeats(walk.shown) /\ NoRepeats(walk.crossed)
  BY <1>1, <1>2, NoRepeatsIsDistinct DEF NodesOnce, CrossedHold
<1>4. \A e \in Elems(walk.crossed) : e \in SomeIds
  BY <1>2 DEF Elems
<1>5. \A e \in Elems(walk.crossed) : EdgeAt(graph, e) # NoEdge => e \in LiveEdges(graph)
  BY <1>4, LiveEdge DEF IsGraph
<1> QED BY <1>1, <1>3, <1>5 DEF ShownOnce, CrossedHold, Leaves

(* A walk shows no node and no edge twice, and an edge only after the node *)
(* it leaves, whatever the visitor and other threads do to the graph.      *)
THEOREM WalksShowNothingTwice == GraphInit /\ WalkInit /\ [][WalkNext]_<<graph, walk>> => []ShownOnce
<1> DEFINE Inv == IsGraph(graph, Plain) /\ WalkHolds(graph, walk)
<1>1. GraphInit /\ WalkInit => Inv
  BY EmptyGraphIsSound, WalkStarts DEF GraphInit, WalkInit, Plain
<1>2. Inv /\ [WalkNext]_<<graph, walk>> => Inv'
  <2> SUFFICES ASSUME Inv, [WalkNext]_<<graph, walk>> PROVE Inv'
    OBVIOUS
  <2>1. CASE UNCHANGED <<graph, walk>>
    BY <2>1
  <2>2. CASE WalkNext
    <3>1. [GraphNext]_graph
      BY <2>2 DEF WalkNext, StartAt, StartSorted, VisitNode, VisitEdge, AskNext, TakeEdges,
             TakeKeptEdges, FollowEdge, LeaveNode, EndWalk, ChangeGraph
    <3> QED BY <2>2, <3>1, GraphSteps, WalkSteps
  <2> QED BY <2>1, <2>2
<1>3. Inv => ShownOnce
  BY WalksShowOnce
<1> HIDE DEF Inv
<1> QED BY <1>1, <1>2, <1>3, PTL
=============================================================================

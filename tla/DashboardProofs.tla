-------------------------- MODULE DashboardProofs --------------------------
(***************************************************************************)
(* The pages of Dashboard, for any names, readings and times.              *)
(***************************************************************************)
EXTENDS Dashboard, FiniteSetTheorems, WellFoundedInduction, TLAPS

-----------------------------------------------------------------------------
(* Finite sets                                                             *)

(* A set of naturals that is not empty has a smallest element.             *)
LEMMA SmallestNat ==
  ASSUME NEW S \in SUBSET Nat, S # {}
  PROVE  \E x \in S : \A y \in S : x <= y
  <1> DEFINE less == OpToRel(<, Nat)
  <1>1. PICK x \in S : \A y \in S : <<y, x>> \notin less
    <2>1. IsWellFoundedOn(less, Nat)
      BY NatLessThanWellFounded
    <2> HIDE DEF less
    <2> QED BY <2>1, WFMin
  <1>2. \A y \in S : ~ (y < x)
    BY <1>1 DEF OpToRel
  <1>3. \A y \in S : x <= y
    BY <1>2
  <1> QED BY <1>3

(* Of sets that all are finite, one has the fewest elements.               *)
LEMMA SmallestSet ==
  ASSUME NEW F, F # {}, \A T \in F : IsFiniteSet(T)
  PROVE  \E T \in F : \A U \in F : Cardinality(T) <= Cardinality(U)
  <1> DEFINE sizes == {Cardinality(T) : T \in F}
  <1>1. sizes \in SUBSET Nat /\ sizes # {}
    BY FS_CardinalityType
  <1>2. PICK n \in sizes : \A k \in sizes : n <= k
    BY <1>1, SmallestNat
  <1> QED BY <1>2

(* A finite set has an element that precedes no other.                     *)
LEMMA LastExists ==
  ASSUME NEW S, IsFiniteSet(S), S # {}, NEW R,
         \A x, y, z \in S : <<x, y>> \in R /\ <<y, z>> \in R => <<x, z>> \in R,
         \A x \in S : <<x, x>> \notin R
  PROVE  \E x \in S : \A y \in S : <<x, y>> \notin R
  <1> DEFINE good(T) == \E x \in T : \A y \in T : <<x, y>> \notin R
             bad == {T \in SUBSET S : T # {} /\ ~ good(T)}
  <1> SUFFICES ASSUME bad # {} PROVE FALSE
    OBVIOUS
  <1>1. \A T \in bad : IsFiniteSet(T)
    BY FS_Subset
  <1>2. PICK T \in bad : \A U \in bad : Cardinality(T) <= Cardinality(U)
    BY <1>1, SmallestSet
  <1>3. PICK x \in T : TRUE
    OBVIOUS
  <1>4. /\ IsFiniteSet(T) /\ T \subseteq S
        /\ Cardinality(T \ {x}) = Cardinality(T) - 1 /\ Cardinality(T) \in Nat
    BY <1>1, <1>3, FS_RemoveElement, FS_CardinalityType
  <1>5. T \ {x} \notin bad
    <2> HIDE DEF bad
    <2>1. T \ {x} \in bad => Cardinality(T) <= Cardinality(T \ {x})
      BY <1>2
    <2> QED BY <1>4, <2>1
  <1>6. CASE T \ {x} = {}
    <2>1. T = {x}
      BY <1>3, <1>6
    <2>2. good(T)
      BY <1>3, <1>4, <2>1
    <2> QED BY <2>2
  <1>7. CASE T \ {x} # {}
    <2>1. PICK y \in T \ {x} : \A z \in T \ {x} : <<y, z>> \notin R
      BY <1>4, <1>5, <1>7
    <2>2. CASE <<y, x>> \in R
      <3>1. \A z \in T : <<x, z>> \notin R
        <4> SUFFICES ASSUME NEW z \in T, <<x, z>> \in R PROVE FALSE
          OBVIOUS
        <4>1. z # x
          BY <1>4
        <4>2. <<y, z>> \in R
          BY <1>4, <2>1, <2>2
        <4> QED BY <2>1, <4>1, <4>2
      <3>2. good(T)
        BY <1>3, <3>1
      <3> QED BY <3>2
    <2>3. CASE <<y, x>> \notin R
      <3>1. \A z \in T : <<y, z>> \notin R
        BY <2>1, <2>3
      <3>2. good(T)
        BY <2>1, <3>1
      <3> QED BY <3>2
    <2> QED BY <2>2, <2>3
  <1> QED BY <1>6, <1>7

LEMMA MinMax ==
  ASSUME NEW S \in SUBSET Int, IsFiniteSet(S), S # {}
  PROVE  /\ Min(S) \in S /\ \A y \in S : Min(S) <= y
         /\ Max(S) \in S /\ \A y \in S : y <= Max(S)
  <1>1. \E x \in S : \A y \in S : x <= y
    <2> DEFINE R == {p \in S \X S : p[1] > p[2]}
    <2>1. \A x, y, z \in S : <<x, y>> \in R /\ <<y, z>> \in R => <<x, z>> \in R
      OBVIOUS
    <2>2. \A x \in S : <<x, x>> \notin R
      OBVIOUS
    <2>3. PICK x \in S : \A y \in S : <<x, y>> \notin R
      <3> HIDE DEF R
      <3> QED BY <2>1, <2>2, LastExists
    <2>4. \A y \in S : ~ (x > y)
      BY <2>3
    <2> QED BY <2>4
  <1>2. \E x \in S : \A y \in S : x >= y
    <2> DEFINE R == {p \in S \X S : p[1] < p[2]}
    <2>1. \A x, y, z \in S : <<x, y>> \in R /\ <<y, z>> \in R => <<x, z>> \in R
      OBVIOUS
    <2>2. \A x \in S : <<x, x>> \notin R
      OBVIOUS
    <2>3. PICK x \in S : \A y \in S : <<x, y>> \notin R
      <3> HIDE DEF R
      <3> QED BY <2>1, <2>2, LastExists
    <2>4. \A y \in S : ~ (x < y)
      BY <2>3
    <2> QED BY <2>4
  <1>3. Min(S) \in S /\ \A y \in S : Min(S) <= y
    BY <1>1 DEF Min
  <1>4. Max(S) \in S /\ \A y \in S : Max(S) >= y
    BY <1>2 DEF Max
  <1> QED BY <1>3, <1>4

-----------------------------------------------------------------------------
(* Results in order                                                        *)

(* What the two queries return: rows with a key and an item.               *)
HasKeys(S) == \A x \in S : x.key \in Nat /\ x.at \in Nat

InOrder(s) == \A i, j \in DOMAIN s : i < j => ~ Before(s[j], s[i])

LEMMA SortedExists ==
  ASSUME NEW S, IsFiniteSet(S), HasKeys(S)
  PROVE  \E s \in SetToSeqs(S) : InOrder(s)
  <1> DEFINE bad == {T \in SUBSET S : ~ \E s \in SetToSeqs(T) : InOrder(s)}
  <1> SUFFICES ASSUME bad # {} PROVE FALSE
    OBVIOUS
  <1>1. \A T \in bad : IsFiniteSet(T)
    BY FS_Subset
  <1>2. PICK T \in bad : \A U \in bad : Cardinality(T) <= Cardinality(U)
    BY <1>1, SmallestSet
  <1>3. IsFiniteSet(T) /\ T \subseteq S /\ Cardinality(T) \in Nat
    BY <1>1, FS_CardinalityType
  <1>4. T # {}
    <2> SUFFICES ASSUME T = {} PROVE FALSE
      OBVIOUS
    <2>1. Cardinality(T) = 0 /\ 1 .. Cardinality(T) = {}
      BY FS_EmptySet
    <2> DEFINE s == [i \in {} |-> 0]
    <2>2. s \in SetToSeqs(T) /\ InOrder(s)
      BY <2>1 DEF SetToSeqs, InOrder
    <2> QED BY <2>2
  <1>5. PICK x \in T : \A y \in T : ~ Before(x, y)
    <2> DEFINE R == {p \in T \X T : Before(p[1], p[2])}
    <2>0. \A y \in T : y.key \in Nat /\ y.at \in Nat
      BY <1>3 DEF HasKeys
    <2>1. \A y, z, w \in T : <<y, z>> \in R /\ <<z, w>> \in R => <<y, w>> \in R
      <3> SUFFICES ASSUME NEW y \in T, NEW z \in T, NEW w \in T, Before(y, z), Before(z, w)
                   PROVE  Before(y, w)
        OBVIOUS
      <3> QED BY <2>0 DEF Before
    <2>2. \A y \in T : <<y, y>> \notin R
      BY <2>0 DEF Before
    <2>3. PICK y \in T : \A z \in T : <<y, z>> \notin R
      <3> HIDE DEF R
      <3> QED BY <1>3, <1>4, <2>1, <2>2, LastExists
    <2> QED BY <2>3
  <1> DEFINE n == Cardinality(T)
  <1>6. Cardinality(T \ {x}) = n - 1 /\ n \in Nat \ {0}
    BY <1>3, <1>4, FS_RemoveElement, FS_EmptySet
  <1>7. T \ {x} \notin bad
    BY <1>2, <1>3, <1>6
  <1>8. PICK s \in SetToSeqs(T \ {x}) : InOrder(s)
    BY <1>3, <1>7
  <1>9. /\ s \in [1 .. n - 1 -> T \ {x}]
        /\ \A i, j \in 1 .. n - 1 : i # j => s[i] # s[j]
    BY <1>6 DEF SetToSeqs
  <1> DEFINE t == [i \in 1 .. n |-> IF i = n THEN x ELSE s[i]]
  <1>10. \A i \in 1 .. n : i = n \/ i \in 1 .. n - 1
    BY <1>6
  <1> HIDE DEF bad
  <1>11. t \in SetToSeqs(T)
    <2>1. t \in [1 .. n -> T]
      BY <1>9, <1>10
    <2>2. \A i, j \in 1 .. n : i # j => t[i] # t[j]
      BY <1>9, <1>10
    <2> QED BY <2>1, <2>2 DEF SetToSeqs
  <1>12. InOrder(t)
    <2> SUFFICES ASSUME NEW i \in 1 .. n, NEW j \in 1 .. n, i < j
                 PROVE  ~ Before(t[j], t[i])
      BY DEF InOrder
    <2>1. i \in 1 .. n - 1 /\ t[i] = s[i] /\ s[i] \in T
      BY <1>6, <1>9, <1>10
    <2>2. CASE j = n
      BY <1>5, <2>1, <2>2
    <2>3. CASE j # n
      BY <1>8, <1>9, <1>10, <2>1, <2>3 DEF InOrder
    <2> QED BY <2>2, <2>3
  <1> QED BY <1>11, <1>12 DEF bad

(* The rows of a result are the rows of the set, each once, in order.      *)
LEMMA OrderedFacts ==
  ASSUME NEW S, IsFiniteSet(S), HasKeys(S)
  PROVE  /\ Ordered(S) \in Seq(S) /\ Len(Ordered(S)) = Cardinality(S)
         /\ ToSet(Ordered(S)) = S
         /\ InOrder(Ordered(S))
  <1> DEFINE s == Ordered(S)
             n == Cardinality(S)
  <1>1. s \in SetToSeqs(S) /\ InOrder(s)
    BY SortedExists DEF Ordered, InOrder
  <1> HIDE DEF s
  <1>2. n \in Nat /\ s \in [1 .. n -> S] /\ \A i, j \in 1 .. n : i # j => s[i] # s[j]
    BY <1>1, FS_CardinalityType DEF SetToSeqs
  <1>3. s \in Seq(S) /\ Len(s) = n /\ DOMAIN s = 1 .. n
    BY <1>2
  <1>4. s \in Surjection(1 .. n, S)
    <2>1. s \in Injection(1 .. n, S)
      BY <1>2 DEF Injection, IsInjective
    <2>2. Cardinality(1 .. n) = n
      BY <1>2, FS_Interval
    <2> QED BY <2>1, <2>2, FS_Injection
  <1>5. ToSet(s) = S
    BY <1>2, <1>3, <1>4 DEF Surjection, ToSet
  <1> QED BY <1>1, <1>3, <1>5 DEF s

-----------------------------------------------------------------------------
(* Rows in groups                                                          *)

Items(S) == [key : Nat, items : Seq(S)]

(* What the groups of the first n rows of s are.                           *)
GroupTyped(out, S) == out \in Seq(Items(S))

OneKeyEach(out) == \A g \in 1 .. Len(out) : \A k \in 1 .. Len(out[g].items) :
                       out[g].items[k].key = out[g].key

NoneEmpty(out) == \A g \in 1 .. Len(out) : out[g].items # <<>>

KeysRise(out) == \A g, h \in 1 .. Len(out) : g < h => out[g].key < out[h].key

ItemsRise(out) == \A g \in 1 .. Len(out) : \A k, l \in 1 .. Len(out[g].items) :
                      k < l => out[g].items[k].at <= out[g].items[l].at

ItemsFrom(out, s, n) == \A g \in 1 .. Len(out) : \A k \in 1 .. Len(out[g].items) :
                            \E i \in 1 .. n : out[g].items[k] = s[i]

AllPlaced(out, s, n) == \A i \in 1 .. n : \E g \in 1 .. Len(out) :
                            \E k \in 1 .. Len(out[g].items) : out[g].items[k] = s[i]

GroupsOf(out, s, n) ==
    /\ GroupTyped(out, ToSet(s)) /\ OneKeyEach(out) /\ NoneEmpty(out)
    /\ KeysRise(out) /\ ItemsRise(out) /\ ItemsFrom(out, s, n) /\ AllPlaced(out, s, n)

LEMMA ItemsOf ==
  ASSUME NEW S, NEW out \in Seq(Items(S))
  PROVE  /\ Len(out) \in Nat
         /\ \A g \in 1 .. Len(out) : /\ out[g] \in Items(S) /\ out[g].items \in Seq(S)
                                     /\ out[g].key \in Nat /\ Len(out[g].items) \in Nat
  <1>1. \A g \in 1 .. Len(out) : out[g] \in Items(S)
    OBVIOUS
  <1>2. \A x \in Items(S) : x.items \in Seq(S) /\ x.key \in Nat
    BY DEF Items
  <1>3. \A g \in 1 .. Len(out) : out[g].items \in Seq(S) /\ Len(out[g].items) \in Nat
    BY <1>1, <1>2
  <1> QED BY <1>1, <1>2, <1>3

(* The row joins the last group.                                           *)
LEMMA JoinedLast ==
  ASSUME NEW S, NEW s \in Seq(S), HasKeys(S), InOrder(s), NEW n \in 1 .. Len(s),
         NEW out, GroupsOf(out, s, n - 1),
         out # <<>>, Last(out).key = s[n].key
  PROVE  GroupsOf(Joined(out, s[n]), s, n)
  <1> DEFINE x == s[n]
             L == Len(out)
             new == Joined(out, x)
  <1>1. /\ out \in Seq(Items(ToSet(s))) /\ L \in Nat \ {0} /\ L \in 1 .. L
        /\ Last(out) = out[L] /\ out[L].key = x.key
        /\ x \in ToSet(s) /\ x \in S /\ x.at \in Nat /\ x.key \in Nat /\ n \in Nat
    BY DEF GroupsOf, GroupTyped, Last, HasKeys, ToSet
  <1>2. \A g \in 1 .. L : /\ out[g] \in Items(ToSet(s)) /\ out[g].items \in Seq(ToSet(s))
                          /\ Len(out[g].items) \in Nat
    BY <1>1, ItemsOf
  <1> DEFINE K == Len(out[L].items)
  <1>3. K \in Nat
    BY <1>1, <1>2
  <1>4. /\ new = [out EXCEPT ![L].items = Append(@, x)]
    BY <1>1 DEF Joined
  <1>5. /\ new \in Seq(Items(ToSet(s))) /\ Len(new) = L
        /\ \A g \in 1 .. L : new[g].key = out[g].key
        /\ \A g \in 1 .. L : g # L => new[g] = out[g]
        /\ new[L].items = Append(out[L].items, x)
    <2>1. DOMAIN out = 1 .. L
      BY <1>1
    <2>2. Append(out[L].items, x) \in Seq(ToSet(s))
      BY <1>1, <1>2
    <2>3. \A g \in 1 .. L :
            new[g] = IF g = L THEN [out[L] EXCEPT !.items = Append(out[L].items, x)] ELSE out[g]
      BY <1>1, <1>4, <2>1
    <2>4. /\ [out[L] EXCEPT !.items = Append(out[L].items, x)].items = Append(out[L].items, x)
          /\ [out[L] EXCEPT !.items = Append(out[L].items, x)].key = out[L].key
          /\ [out[L] EXCEPT !.items = Append(out[L].items, x)] \in Items(ToSet(s))
      BY <1>1, <1>2, <2>2 DEF Items
    <2>5. new \in [1 .. L -> Items(ToSet(s))]
      <3>1. \A g \in 1 .. L : new[g] \in Items(ToSet(s))
        BY <1>2, <2>3, <2>4
      <3>2. new = [g \in 1 .. L |-> new[g]]
        BY <1>4, <2>1
      <3> HIDE DEF new
      <3> QED BY <3>1, <3>2
    <2>6. new \in Seq(Items(ToSet(s))) /\ Len(new) = L
      BY <1>1, <2>5
    <2> HIDE DEF new
    <2> QED BY <1>1, <2>3, <2>4, <2>6
  <1> HIDE DEF new
  <1>6. /\ Len(new[L].items) = K + 1 /\ new[L].items[K + 1] = x
        /\ \A k \in 1 .. K : new[L].items[k] = out[L].items[k]
    BY <1>1, <1>2, <1>5
  <1>7. ASSUME NEW g \in 1 .. L, NEW k \in 1 .. Len(new[g].items)
        PROVE  \/ g = L /\ k = K + 1 /\ new[g].items[k] = x
               \/ k \in 1 .. Len(out[g].items) /\ new[g].items[k] = out[g].items[k]
    <2>1. CASE g = L
      <3>1. k \in 1 .. K + 1
        BY <1>6, <2>1
      <3>2. k = K + 1 \/ k \in 1 .. K
        BY <1>3, <3>1
      <3> QED BY <1>6, <2>1, <3>2
    <2>2. CASE g # L
      BY <1>5, <2>2
    <2> QED BY <2>1, <2>2
  <1>8. GroupTyped(new, ToSet(s))
    BY <1>5 DEF GroupTyped
  <1>9. OneKeyEach(new)
    <2> SUFFICES ASSUME NEW g \in 1 .. L, NEW k \in 1 .. Len(new[g].items)
                 PROVE  new[g].items[k].key = new[g].key
      BY <1>5 DEF OneKeyEach
    <2>1. CASE g = L /\ new[g].items[k] = x
      BY <1>1, <1>5, <2>1
    <2>2. CASE k \in 1 .. Len(out[g].items) /\ new[g].items[k] = out[g].items[k]
      BY <1>5, <2>2 DEF GroupsOf, OneKeyEach
    <2> QED BY <1>7, <2>1, <2>2
  <1>10. NoneEmpty(new)
    BY <1>1, <1>2, <1>3, <1>5, <1>6 DEF GroupsOf, NoneEmpty
  <1>11. KeysRise(new)
    BY <1>5 DEF GroupsOf, KeysRise
  <1>12. ItemsRise(new)
    <2> SUFFICES ASSUME NEW g \in 1 .. L, NEW k \in 1 .. Len(new[g].items),
                        NEW l \in 1 .. Len(new[g].items), k < l
                 PROVE  new[g].items[k].at <= new[g].items[l].at
      BY <1>5 DEF ItemsRise
    <2>1. CASE g = L /\ l = K + 1
      <3>1. k \in 1 .. K /\ new[L].items[k] = out[L].items[k]
        BY <1>3, <1>6, <2>1
      <3>2. PICK i \in 1 .. n - 1 : out[L].items[k] = s[i]
        BY <1>1, <3>1 DEF GroupsOf, ItemsFrom
      <3>3. /\ i \in DOMAIN s /\ n \in DOMAIN s /\ i < n
            /\ s[i] \in S /\ s[i].key \in Nat /\ s[i].at \in Nat
        BY DEF HasKeys
      <3>4. ~ Before(x, s[i]) /\ s[i].key = x.key
        BY <1>1, <3>1, <3>2, <3>3 DEF InOrder, GroupsOf, OneKeyEach
      <3>5. s[i].at <= x.at
        BY <1>1, <3>3, <3>4 DEF Before
      <3> QED BY <1>6, <2>1, <3>1, <3>2, <3>5
    <2>2. CASE ~ (g = L /\ l = K + 1)
      <3>1. /\ l \in 1 .. Len(out[g].items) /\ new[g].items[l] = out[g].items[l]
            /\ k \in 1 .. Len(out[g].items) /\ new[g].items[k] = out[g].items[k]
        <4>1. CASE g # L
          BY <1>5, <4>1
        <4>2. CASE g = L
          <5>1. k \in 1 .. K /\ l \in 1 .. K
            BY <1>3, <1>6, <2>2, <4>2
          <5> QED BY <1>6, <4>2, <5>1
        <4> QED BY <4>1, <4>2
      <3> QED BY <1>1, <3>1 DEF GroupsOf, ItemsRise
    <2> QED BY <2>1, <2>2
  <1>13. ItemsFrom(new, s, n)
    <2> SUFFICES ASSUME NEW g \in 1 .. L, NEW k \in 1 .. Len(new[g].items)
                 PROVE  \E i \in 1 .. n : new[g].items[k] = s[i]
      BY <1>5 DEF ItemsFrom
    <2>1. n \in 1 .. n /\ \A i \in 1 .. n - 1 : i \in 1 .. n
      OBVIOUS
    <2>2. CASE new[g].items[k] = x
      BY <2>1, <2>2
    <2>3. CASE k \in 1 .. Len(out[g].items) /\ new[g].items[k] = out[g].items[k]
      BY <2>1, <2>3 DEF GroupsOf, ItemsFrom
    <2> QED BY <1>7, <2>2, <2>3
  <1>14. AllPlaced(new, s, n)
    <2> SUFFICES ASSUME NEW i \in 1 .. n
                 PROVE  \E g \in 1 .. L : \E k \in 1 .. Len(new[g].items) : new[g].items[k] = s[i]
      BY <1>5 DEF AllPlaced
    <2>1. CASE i = n
      <3>1. K + 1 \in 1 .. Len(new[L].items)
        BY <1>3, <1>6
      <3> QED BY <1>1, <1>6, <2>1, <3>1
    <2>2. CASE i # n
      <3>1. i \in 1 .. n - 1
        BY <2>2
      <3>2. PICK g \in 1 .. L : \E k \in 1 .. Len(out[g].items) : out[g].items[k] = s[i]
        BY <3>1 DEF GroupsOf, AllPlaced
      <3>3. PICK k \in 1 .. Len(out[g].items) : out[g].items[k] = s[i]
        BY <3>2
      <3>4. k \in 1 .. Len(new[g].items) /\ new[g].items[k] = out[g].items[k]
        <4>1. CASE g # L
          BY <1>5, <4>1
        <4>2. CASE g = L
          <5>1. k \in 1 .. K /\ k \in 1 .. K + 1
            BY <1>3, <4>2
          <5> QED BY <1>6, <4>2, <5>1
        <4> QED BY <4>1, <4>2
      <3> QED BY <3>3, <3>4
    <2> QED BY <2>1, <2>2
  <1> QED BY <1>8, <1>9, <1>10, <1>11, <1>12, <1>13, <1>14 DEF GroupsOf, new

(* The row opens a group: its key is greater than every key before.        *)
LEMMA JoinedNew ==
  ASSUME NEW S, NEW s \in Seq(S), HasKeys(S), InOrder(s), NEW n \in 1 .. Len(s),
         NEW out, GroupsOf(out, s, n - 1),
         ~ (out # <<>> /\ Last(out).key = s[n].key)
  PROVE  GroupsOf(Joined(out, s[n]), s, n)
  <1> DEFINE x == s[n]
             L == Len(out)
             opened == [key |-> x.key, items |-> <<x>>]
             new == Joined(out, x)
  <1>1. /\ out \in Seq(Items(ToSet(s))) /\ L \in Nat
        /\ x \in ToSet(s) /\ x \in S /\ x.at \in Nat /\ x.key \in Nat /\ n \in Nat
    BY DEF GroupsOf, GroupTyped, HasKeys, ToSet
  <1>2. \A g \in 1 .. L : /\ out[g] \in Items(ToSet(s)) /\ out[g].items \in Seq(ToSet(s))
                          /\ out[g].key \in Nat /\ Len(out[g].items) \in Nat
    BY <1>1, ItemsOf
  <1>3. /\ opened \in Items(ToSet(s)) /\ opened.key = x.key /\ opened.items = <<x>>
        /\ Len(opened.items) = 1 /\ opened.items[1] = x
    BY <1>1 DEF Items
  <1>4. new = Append(out, opened)
    BY DEF Joined
  <1> HIDE DEF opened
  <1>5. /\ new \in Seq(Items(ToSet(s))) /\ Len(new) = L + 1
        /\ \A g \in 1 .. L : new[g] = out[g]
        /\ new[L + 1] = opened
    BY <1>1, <1>3, <1>4
  <1> HIDE DEF new
  <1>6. \A g \in 1 .. L + 1 : g \in 1 .. L \/ g = L + 1
    BY <1>1
  <1>7. \A g \in 1 .. L : out[g].key <= x.key
    <2> TAKE g \in 1 .. L
    <2>1. 1 \in 1 .. Len(out[g].items) /\ out[g].items[1].key = out[g].key
      <3>1. Len(out[g].items) \in Nat \ {0}
        BY <1>2 DEF GroupsOf, NoneEmpty
      <3> QED BY <3>1 DEF GroupsOf, OneKeyEach
    <2>2. PICK i \in 1 .. n - 1 : out[g].items[1] = s[i]
      BY <2>1 DEF GroupsOf, ItemsFrom
    <2>3. /\ i \in DOMAIN s /\ n \in DOMAIN s /\ i < n /\ s[i].key \in Nat
      BY DEF HasKeys
    <2>4. ~ Before(x, s[i])
      BY <2>3 DEF InOrder
    <2> QED BY <1>1, <2>1, <2>2, <2>3, <2>4 DEF Before
  <1>8. \A g \in 1 .. L : out[g].key < x.key
    <2> TAKE g \in 1 .. L
    <2>1. L \in 1 .. L /\ out[L].key # x.key /\ out[L].key <= x.key
      BY <1>1, <1>7 DEF Last
    <2>2. g = L \/ g < L
      BY <1>1
    <2>3. g < L => out[g].key < out[L].key
      BY <2>1 DEF GroupsOf, KeysRise
    <2> QED BY <1>1, <1>2, <2>1, <2>2, <2>3
  <1>9. GroupTyped(new, ToSet(s))
    BY <1>5 DEF GroupTyped
  <1>10. OneKeyEach(new)
    BY <1>3, <1>5, <1>6 DEF GroupsOf, OneKeyEach
  <1>11. NoneEmpty(new)
    <2>1. new[L + 1].items # <<>>
      <3>1. <<x>> # <<>>
        OBVIOUS
      <3> QED BY <1>3, <1>5, <3>1
    <2>2. \A g \in 1 .. L : new[g].items # <<>>
      BY <1>5 DEF GroupsOf, NoneEmpty
    <2> QED BY <1>5, <1>6, <2>1, <2>2 DEF NoneEmpty
  <1>12. KeysRise(new)
    <2> SUFFICES ASSUME NEW g \in 1 .. L + 1, NEW h \in 1 .. L + 1, g < h
                 PROVE  new[g].key < new[h].key
      BY <1>5 DEF KeysRise
    <2>1. g \in 1 .. L
      BY <1>1
    <2>2. CASE h = L + 1
      BY <1>3, <1>5, <1>8, <2>1, <2>2
    <2>3. CASE h \in 1 .. L
      BY <1>5, <2>1, <2>3 DEF GroupsOf, KeysRise
    <2> QED BY <1>6, <2>2, <2>3
  <1>13. ItemsRise(new)
    <2> SUFFICES ASSUME NEW g \in 1 .. L + 1, NEW k \in 1 .. Len(new[g].items),
                        NEW l \in 1 .. Len(new[g].items), k < l
                 PROVE  new[g].items[k].at <= new[g].items[l].at
      BY <1>5 DEF ItemsRise
    <2>1. CASE g = L + 1
      BY <1>3, <1>5, <2>1
    <2>2. CASE g \in 1 .. L
      BY <1>5, <2>2 DEF GroupsOf, ItemsRise
    <2> QED BY <1>6, <2>1, <2>2
  <1>14. ItemsFrom(new, s, n)
    <2> SUFFICES ASSUME NEW g \in 1 .. L + 1, NEW k \in 1 .. Len(new[g].items)
                 PROVE  \E i \in 1 .. n : new[g].items[k] = s[i]
      BY <1>5 DEF ItemsFrom
    <2>1. n \in 1 .. n /\ \A i \in 1 .. n - 1 : i \in 1 .. n
      OBVIOUS
    <2>2. CASE g = L + 1
      BY <1>3, <1>5, <2>1, <2>2
    <2>3. CASE g \in 1 .. L
      BY <1>5, <2>1, <2>3 DEF GroupsOf, ItemsFrom
    <2> QED BY <1>6, <2>2, <2>3
  <1>15. AllPlaced(new, s, n)
    <2> SUFFICES ASSUME NEW i \in 1 .. n
                 PROVE  \E g \in 1 .. L + 1 :
                          \E k \in 1 .. Len(new[g].items) : new[g].items[k] = s[i]
      BY <1>5 DEF AllPlaced
    <2>1. L + 1 \in 1 .. L + 1 /\ \A g \in 1 .. L : g \in 1 .. L + 1
      BY <1>1
    <2>2. CASE i = n
      BY <1>3, <1>5, <2>1, <2>2
    <2>3. CASE i # n
      <3>1. i \in 1 .. n - 1
        BY <2>3
      <3>2. PICK g \in 1 .. L : \E k \in 1 .. Len(out[g].items) : out[g].items[k] = s[i]
        BY <3>1 DEF GroupsOf, AllPlaced
      <3> QED BY <1>5, <2>1, <3>2
    <2> QED BY <2>2, <2>3
  <1> QED BY <1>9, <1>10, <1>11, <1>12, <1>13, <1>14, <1>15 DEF GroupsOf, new

(* The groups of the first k rows, one after the other.                    *)
Steps(s, k, f) == /\ DOMAIN f = 0 .. k
                  /\ \A n \in 0 .. k : f[n] = IF n = 0 THEN <<>> ELSE Joined(f[n - 1], s[n])

LEMMA StepsExist ==
  ASSUME NEW s
  PROVE  \A k \in Nat : \E f : f = [n \in 0 .. k |-> f[n]] /\ Steps(s, k, f)
  <1> DEFINE ok(k, f) == f = [n \in 0 .. k |-> f[n]] /\ Steps(s, k, f)
             bad == {k \in Nat : ~ \E f : ok(k, f)}
  <1> SUFFICES ASSUME bad # {} PROVE FALSE
    OBVIOUS
  <1>1. PICK x \in bad : \A y \in bad : x <= y
    BY SmallestNat
  <1>2. x # 0
    <2> DEFINE f == [n \in 0 .. 0 |-> <<>>]
    <2>1. ok(0, f)
      BY DEF Steps
    <2> QED BY <1>1, <2>1
  <1>3. x \in Nat /\ x - 1 \in Nat /\ x - 1 \notin bad
    BY <1>1, <1>2
  <1>4. PICK f : Steps(s, x - 1, f)
    BY <1>3
  <1> DEFINE h == [n \in 0 .. x |-> IF n = x THEN Joined(f[x - 1], s[x]) ELSE f[n]]
  <1>5. ok(x, h)
    <2>1. h = [n \in 0 .. x |-> h[n]] /\ DOMAIN h = 0 .. x
      OBVIOUS
    <2>2. ASSUME NEW n \in 0 .. x
          PROVE  h[n] = IF n = 0 THEN <<>> ELSE Joined(h[n - 1], s[n])
      <3>1. CASE n = x
        <4>1. n - 1 \in 0 .. x /\ n - 1 # x /\ n # 0
          BY <1>2, <1>3, <3>1
        <4> QED BY <3>1, <4>1
      <3>2. CASE n # x /\ n # 0
        <4>1. n \in 0 .. x - 1 /\ n - 1 \in 0 .. x /\ n - 1 # x
          BY <1>3, <3>2
        <4>2. f[n] = Joined(f[n - 1], s[n])
          BY <1>4, <3>2, <4>1 DEF Steps
        <4> QED BY <3>2, <4>1, <4>2
      <3>3. CASE n = 0
        <4>1. 0 \in 0 .. x - 1 /\ 0 \in 0 .. x /\ 0 # x
          BY <1>2, <1>3
        <4>2. f[0] = <<>>
          BY <1>4, <4>1 DEF Steps
        <4> QED BY <3>3, <4>1, <4>2
      <3> QED BY <3>1, <3>2, <3>3
    <2> HIDE DEF h
    <2> QED BY <2>1, <2>2 DEF Steps
  <1> QED BY <1>1, <1>5

LEMMA GroupedSteps ==
  ASSUME NEW s, Len(s) \in Nat
  PROVE  \E f : Steps(s, Len(s), f) /\ Grouped(s) = f[Len(s)]
  <1> DEFINE body(f) == [n \in 0 .. Len(s) |-> IF n = 0 THEN <<>> ELSE Joined(f[n - 1], s[n])]
             out == CHOOSE f : f = body(f)
  <1>1. PICK f : f = [n \in 0 .. Len(s) |-> f[n]] /\ Steps(s, Len(s), f)
    BY StepsExist
  <1>2. f = body(f)
    BY <1>1 DEF Steps
  <1>3. out = body(out)
    <2> HIDE DEF body
    <2> QED BY <1>2
  <1>4. Grouped(s) = out[Len(s)]
    BY DEF Grouped
  <1> HIDE DEF out
  <1>5. Steps(s, Len(s), out)
    BY <1>3 DEF Steps
  <1> QED BY <1>4, <1>5

(* The groups of a result in order.                                        *)
LEMMA GroupedFacts ==
  ASSUME NEW S, NEW s \in Seq(S), HasKeys(S), InOrder(s)
  PROVE  GroupsOf(Grouped(s), s, Len(s))
  <1>1. Len(s) \in Nat
    OBVIOUS
  <1>2. PICK f : Steps(s, Len(s), f) /\ Grouped(s) = f[Len(s)]
    BY <1>1, GroupedSteps
  <1> DEFINE bad == {n \in 0 .. Len(s) : ~ GroupsOf(f[n], s, n)}
  <1>3. SUFFICES ASSUME bad # {} PROVE FALSE
    <2>1. Len(s) \in 0 .. Len(s)
      BY <1>1
    <2> QED BY <1>2, <1>3, <2>1
  <1>4. PICK x \in bad : \A y \in bad : x <= y
    <2>1. bad \in SUBSET Nat
      OBVIOUS
    <2> HIDE DEF bad
    <2> QED BY <1>3, <2>1, SmallestNat
  <1>5. x # 0
    <2> SUFFICES ASSUME x = 0 PROVE FALSE
      OBVIOUS
    <2>1. f[0] = <<>>
      BY <1>1, <1>2 DEF Steps
    <2>2. GroupsOf(<<>>, s, 0)
      <3>1. 1 .. Len(<<>>) = {} /\ 1 .. 0 = {}
        OBVIOUS
      <3> QED BY <3>1 DEF GroupsOf, GroupTyped, OneKeyEach, NoneEmpty, KeysRise, ItemsRise,
                          ItemsFrom, AllPlaced
    <2> QED BY <2>1, <2>2
  <1>6. /\ x \in 1 .. Len(s) /\ x - 1 \in 0 .. Len(s) /\ x - 1 \notin bad
        /\ f[x] = Joined(f[x - 1], s[x])
    BY <1>1, <1>2, <1>4, <1>5 DEF Steps
  <1>7. GroupsOf(f[x - 1], s, x - 1)
    BY <1>6
  <1>8. GroupsOf(f[x], s, x)
    <2>1. CASE f[x - 1] # <<>> /\ Last(f[x - 1]).key = s[x].key
      BY <1>6, <1>7, <2>1, JoinedLast
    <2>2. CASE ~ (f[x - 1] # <<>> /\ Last(f[x - 1]).key = s[x].key)
      BY <1>6, <1>7, <2>2, JoinedNew
    <2> QED BY <2>1, <2>2
  <1> QED BY <1>4, <1>8

ItemsOfGroups(groups) == UNION {ToSet(g.items) : g \in ToSet(groups)}

(* A set of rows, ordered and grouped: one group for a key, in the order   *)
(* of the keys and of the items, and nothing is lost or added.             *)
LEMMA GroupsOfSet ==
  ASSUME NEW S, IsFiniteSet(S), HasKeys(S)
  PROVE  LET G == Grouped(Ordered(S))
         IN  /\ G \in Seq(Items(S)) /\ OneKeyEach(G) /\ NoneEmpty(G)
             /\ KeysRise(G) /\ ItemsRise(G)
             /\ ItemsOfGroups(G) = S
  <1> DEFINE s == Ordered(S)
             G == Grouped(s)
  <1>1. s \in Seq(S) /\ ToSet(s) = S /\ InOrder(s) /\ Len(s) \in Nat
    BY OrderedFacts
  <1> HIDE DEF s
  <1>2. GroupsOf(G, s, Len(s))
    BY <1>1, GroupedFacts
  <1> HIDE DEF G
  <1>3. /\ G \in Seq(Items(S)) /\ OneKeyEach(G) /\ NoneEmpty(G)
        /\ KeysRise(G) /\ ItemsRise(G)
    BY <1>1, <1>2 DEF GroupsOf, GroupTyped
  <1>4. /\ Len(G) \in Nat /\ DOMAIN G = 1 .. Len(G)
        /\ \A g \in 1 .. Len(G) :
             G[g].items \in Seq(S) /\ DOMAIN G[g].items = 1 .. Len(G[g].items)
    BY <1>3, ItemsOf
  <1>5. ItemsOfGroups(G) \subseteq S
    BY <1>4 DEF ItemsOfGroups, ToSet
  <1>6. ASSUME NEW x \in S PROVE x \in ItemsOfGroups(G)
    <2>1. PICK i \in 1 .. Len(s) : x = s[i]
      BY <1>1 DEF ToSet
    <2>2. PICK g \in 1 .. Len(G) : \E k \in 1 .. Len(G[g].items) : G[g].items[k] = x
      BY <1>2, <2>1 DEF GroupsOf, AllPlaced
    <2>3. x \in ToSet(G[g].items) /\ G[g] \in ToSet(G)
      BY <1>4, <2>2 DEF ToSet
    <2> QED BY <2>3 DEF ItemsOfGroups
  <1> QED BY <1>3, <1>5, <1>6 DEF G, s

-----------------------------------------------------------------------------
(* Rows and points                                                         *)

RowsTyped ==
    /\ now \in 0 .. MaxTime
    /\ rows \subseteq [metric : Metric, device : Device, value : Values, ts : 0 .. now]
    /\ IsFiniteSet(rows)

SelType == [metric : Metric \cup {Blank}, device : Device \cup {All}, range : Ranges]

PointType == [key : Device, at : Nat, min : Values, max : Values]

LEMMA FiniteImage ==
  ASSUME NEW S, IsFiniteSet(S), NEW f, DOMAIN f = S
  PROVE  IsFiniteSet({f[x] : x \in S})
  <1> DEFINE T == {f[x] : x \in S}
             g == [x \in S |-> f[x]]
  <1>1. g \in Surjection(S, T)
    BY DEF Surjection
  <1> HIDE DEF g
  <1> QED BY <1>1, FS_Surjection

LEMMA Widths ==
  /\ \A range \in Ranges : Source[range] \in Nat \ {0} /\ Interval[range] \in Nat
  /\ \A code : ParsedRange(code) \in Ranges
  /\ \A range \in Ranges : ParsedRange(range) = range
  <1>1. /\ Minute \in Nat \ {0} /\ Hour \in Nat /\ Day \in Nat \ {0} /\ Day7 \in Nat
        /\ Min10 \in Nat
    BY TimeAssumption
  <1>2. \A range \in Ranges : Source[range] \in Nat \ {0}
    BY <1>1 DEF Ranges, Source
  <1>3. \A range \in Ranges : Interval[range] \in Nat
    BY <1>1 DEF Ranges, Interval
  <1>4. \A code : ParsedRange(code) \in Ranges
    BY DEF Ranges, ParsedRange
  <1>5. \A range \in Ranges : ParsedRange(range) = range
    BY DEF ParsedRange
  <1> QED BY <1>2, <1>3, <1>4, <1>5

LEMMA Starts ==
  ASSUME NEW t \in Nat, NEW width \in Nat \ {0}
  PROVE  /\ StartOf(t, width) \in Nat
         /\ StartOf(t, width) <= t /\ t < StartOf(t, width) + width
  BY DEF StartOf

LEMMA RowFacts ==
  ASSUME RowsTyped, NEW r \in rows
  PROVE  /\ r.metric \in Metric /\ r.device \in Device /\ r.value \in Values /\ r.value \in Int
         /\ r.ts \in Nat /\ r.ts <= now /\ now \in Nat
         /\ r.metric \in Nat \ {0} /\ r.device \in Nat \ {0}
  <1>1. now \in Nat
    BY TimeAssumption DEF RowsTyped
  <1>2. r \in [metric : Metric, device : Device, value : Values, ts : 0 .. now]
    BY DEF RowsTyped
  <1>3. r.ts \in Nat /\ r.ts <= now
    BY <1>1, <1>2
  <1> QED BY <1>1, <1>2, <1>3, NameAssumption

(* The point of a row begins before it by less than a bucket and spans its *)
(* value.                                                                  *)
LEMMA PointFacts ==
  ASSUME RowsTyped, NEW sel \in SelType, NEW r \in RowsOf(sel)
  PROVE  LET p == PointOf(r, sel)
         IN  p \in PointType /\ p.min <= p.max /\ Covers(p, r, Source[sel.range])
  <1> DEFINE same == {p \in RowsOf(sel) : SamePoint(p, r, sel.range)}
             values == {q.value : q \in same}
             width == Source[sel.range]
  <1>1. r \in rows /\ sel.range \in Ranges /\ width \in Nat \ {0}
    BY Widths DEF RowsOf, SelType
  <1>2. r \in same /\ same \subseteq rows
    BY <1>1 DEF RowsOf, SamePoint
  <1>3. values \in SUBSET Int /\ values \subseteq Values /\ r.value \in values
    BY <1>2, RowFacts
  <1>4. IsFiniteSet(values)
    <2> DEFINE f == [q \in same |-> q.value]
    <2>1. IsFiniteSet(same)
      BY <1>2, FS_Subset DEF RowsTyped
    <2>2. IsFiniteSet({f[q] : q \in same})
      <3> HIDE DEF same
      <3> QED BY <2>1, FiniteImage
    <2>3. values = {f[q] : q \in same}
      OBVIOUS
    <2> QED BY <2>2, <2>3
  <1> HIDE DEF values
  <1>5. /\ Min(values) \in values /\ Max(values) \in values
        /\ Min(values) <= r.value /\ r.value <= Max(values)
    BY <1>3, <1>4, MinMax
  <1>6. Min(values) <= Max(values)
    <2>1. Min(values) \in Int /\ Max(values) \in Int /\ r.value \in Int
      BY <1>3, <1>5
    <2> HIDE DEF same
    <2> QED BY <1>5, <2>1
  <1>7. /\ StartOf(r.ts, width) \in Nat
        /\ StartOf(r.ts, width) <= r.ts /\ r.ts < StartOf(r.ts, width) + width
    BY <1>1, RowFacts, Starts
  <1>8. PointOf(r, sel) = [key |-> r.device, at |-> StartOf(r.ts, width),
                           min |-> Min(values), max |-> Max(values)]
    BY DEF PointOf, values
  <1> HIDE DEF width
  <1>9. r.device \in Device
    BY <1>1, RowFacts
  <1> HIDE DEF same
  <1>10. PointOf(r, sel) \in PointType
    <2>1. Min(values) \in Values /\ Max(values) \in Values
      BY <1>3, <1>5
    <2> QED BY <1>7, <1>8, <1>9, <2>1 DEF PointType
  <1>11. Covers(PointOf(r, sel), r, width)
    BY <1>5, <1>7, <1>8 DEF Covers
  <1> QED BY <1>6, <1>8, <1>10, <1>11 DEF width

LEMMA PointsFacts ==
  ASSUME RowsTyped, NEW sel \in SelType
  PROVE  /\ IsFiniteSet(Points(sel)) /\ Points(sel) \subseteq PointType
         /\ HasKeys(Points(sel))
         /\ \A p \in Points(sel) : p.min <= p.max /\ p.min \in Int /\ p.max \in Int
  <1> DEFINE f == [r \in RowsOf(sel) |-> PointOf(r, sel)]
             all == {PointOf(r, sel) : r \in RowsOf(sel)}
  <1>1. IsFiniteSet(RowsOf(sel))
    BY FS_Subset DEF RowsTyped, RowsOf
  <1>2. IsFiniteSet(all)
    <2>1. IsFiniteSet({f[r] : r \in RowsOf(sel)})
      BY <1>1, FiniteImage
    <2>2. all = {f[r] : r \in RowsOf(sel)}
      OBVIOUS
    <2> QED BY <2>1, <2>2
  <1>3. \A p \in all : p \in PointType /\ p.min <= p.max
    BY PointFacts
  <1>4. Points(sel) \subseteq all
    BY DEF Points
  <1> HIDE DEF all
  <1>5. IsFiniteSet(Points(sel)) /\ Points(sel) \subseteq PointType
    BY <1>2, <1>3, <1>4, FS_Subset
  <1>6. \A p \in PointType : p.key \in Nat /\ p.at \in Nat /\ p.min \in Int /\ p.max \in Int
    BY NameAssumption DEF PointType
  <1> QED BY <1>3, <1>4, <1>5, <1>6 DEF HasKeys

LEMMA LatestFacts ==
  ASSUME RowsTyped
  PROVE  /\ IsFiniteSet(Latest) /\ Latest \subseteq [key : Metric, at : Device]
         /\ HasKeys(Latest)
  <1> DEFINE f == [r \in Since(Hour) |-> [key |-> r.metric, at |-> r.device]]
  <1>1. Since(Hour) \subseteq rows /\ IsFiniteSet(Since(Hour))
    <2>1. Since(Hour) \subseteq rows
      BY DEF Since
    <2> QED BY <2>1, FS_Subset DEF RowsTyped
  <1>2. IsFiniteSet(Latest)
    <2>1. IsFiniteSet({f[r] : r \in Since(Hour)})
      BY <1>1, FiniteImage
    <2>2. Latest = {f[r] : r \in Since(Hour)}
      BY DEF Latest
    <2> QED BY <2>1, <2>2
  <1>3. Latest \subseteq [key : Metric, at : Device]
    BY <1>1, RowFacts DEF Latest
  <1>4. \A x \in [key : Metric, at : Device] : x.key \in Nat /\ x.at \in Nat
    BY NameAssumption
  <1> QED BY <1>2, <1>3, <1>4 DEF HasKeys

-----------------------------------------------------------------------------
(* What a page shows                                                       *)

GroupsInOrder(groups) ==
    /\ \A i, j \in DOMAIN groups : i < j => groups[i].key < groups[j].key
    /\ \A g \in ToSet(groups) :
         \A i, j \in DOMAIN g.items : i < j => g.items[i].at <= g.items[j].at

Shaded(points) == /\ Cardinality({p.key : p \in points}) = 1
                  /\ \E p \in points : p.min # p.max

BandMatches(body) ==
    LET points == ItemsOfGroups(body.groups)
    IN {[at |-> b.at, drawn |-> Stacked(b)] : b \in body.band}
         = IF Shaded(points) THEN {[at |-> p.at, drawn |-> [from |-> p.min, to |-> p.max]] :
                                     p \in points}
           ELSE {}

ItemType == [key : Metric, at : Device] \cup PointType

LEMMA GroupsTyped ==
  ASSUME NEW S \in SUBSET ItemType, IsFiniteSet(S), HasKeys(S)
  PROVE  /\ Grouped(Ordered(S)) \in Seq([key : Nat, items : Seq(ItemType)])
         /\ GroupsInOrder(Grouped(Ordered(S)))
         /\ ItemsOfGroups(Grouped(Ordered(S))) = S
  <1> DEFINE G == Grouped(Ordered(S))
  <1>1. /\ G \in Seq(Items(S)) /\ KeysRise(G) /\ ItemsRise(G) /\ ItemsOfGroups(G) = S
    BY GroupsOfSet
  <1> HIDE DEF G
  <1>2. /\ Len(G) \in Nat /\ DOMAIN G = 1 .. Len(G)
        /\ \A g \in 1 .. Len(G) :
             G[g].items \in Seq(S) /\ DOMAIN G[g].items = 1 .. Len(G[g].items)
    BY <1>1, ItemsOf
  <1>3. Items(S) \subseteq [key : Nat, items : Seq(ItemType)]
    <2>1. Seq(S) \subseteq Seq(ItemType)
      OBVIOUS
    <2> QED BY <2>1 DEF Items
  <1>4. G \in Seq([key : Nat, items : Seq(ItemType)])
    <2> DEFINE T == [key : Nat, items : Seq(ItemType)]
    <2>1. \A g \in 1 .. Len(G) : G[g] \in T
      BY <1>1, <1>3
    <2> HIDE DEF T
    <2>2. G \in [1 .. Len(G) -> T]
      BY <1>1, <1>2, <2>1
    <2>3. G \in Seq(T)
      BY <1>2, <2>2
    <2> QED BY <2>3 DEF T
  <1>5. GroupsInOrder(G)
    BY <1>1, <1>2 DEF GroupsInOrder, KeysRise, ItemsRise, ToSet
  <1> QED BY <1>1, <1>4, <1>5 DEF G

LEMMA EmptySeq ==
  ASSUME NEW S
  PROVE  <<>> \in Seq(S)
  OBVIOUS

LEMMA EmptyDomain ==
  ASSUME NEW s \in Seq({})
  PROVE  DOMAIN s = {} /\ ToSet(s) = {}
  <1>1. DOMAIN s = {}
    OBVIOUS
  <1>2. ToSet(s) = {}
    BY <1>1 DEF ToSet
  <1> QED BY <1>1, <1>2

LEMMA NoticeFacts ==
  ASSUME NEW what \in {"", "error", "no_metric", "no_data"}
  PROVE  /\ Notice(what) \in Body /\ Notice(what).what = what
         /\ GroupsInOrder(Notice(what).groups) /\ BandMatches(Notice(what))
         /\ ItemsOfGroups(Notice(what).groups) = {}
  <1>1. ToSet(<<>>) = {} /\ DOMAIN <<>> = {}
    BY EmptySeq, EmptyDomain
  <1>2. ItemsOfGroups(<<>>) = {}
    BY <1>1 DEF ItemsOfGroups
  <1>3. Notice(what).groups = <<>> /\ Notice(what).band = {} /\ Notice(what).what = what
    BY DEF Notice
  <1>4. Notice(what) \in Body
    <2> DEFINE T == [key : Nat,
                     items : Seq([key : Metric, at : Device]
                                 \cup [key : Device, at : Nat, min : Values, max : Values])]
               B == [at : Nat, min : Values, spread : Nat]
    <2>1. <<>> \in Seq(T) /\ {} \in SUBSET B
      <3> HIDE DEF T, B
      <3> QED BY EmptySeq
    <2> HIDE DEF T, B
    <2>2. [what |-> what, groups |-> <<>>, band |-> {}]
            \in [what : {"", "error", "no_metric", "no_data", "groups"},
                 groups : Seq(T), band : SUBSET B]
      BY <2>1
    <2> QED BY <2>2 DEF Notice, Body, T, B
  <1>5. GroupsInOrder(Notice(what).groups)
    BY <1>1, <1>3 DEF GroupsInOrder
  <1>6. BandMatches(Notice(what))
    <2>1. ~ Shaded({})
      BY DEF Shaded
    <2> QED BY <1>2, <1>3, <2>1 DEF BandMatches
  <1> QED BY <1>2, <1>3, <1>4, <1>5, <1>6

(* There is one group exactly when there is one key.                       *)
LEMMA OneGroupOneKey ==
  ASSUME NEW S, IsFiniteSet(S), HasKeys(S), S # {}
  PROVE  LET G == Grouped(Ordered(S))
         IN  /\ Len(G) = 1 <=> Cardinality({p.key : p \in S}) = 1
             /\ Len(G) = 1 => ToSet(G[1].items) = S
  <1> DEFINE G == Grouped(Ordered(S))
             keys == {p.key : p \in S}
  <1>1. /\ G \in Seq(Items(S)) /\ OneKeyEach(G) /\ NoneEmpty(G) /\ KeysRise(G)
        /\ ItemsOfGroups(G) = S
    BY GroupsOfSet
  <1> HIDE DEF G
  <1>2. /\ Len(G) \in Nat /\ DOMAIN G = 1 .. Len(G)
        /\ \A g \in 1 .. Len(G) : /\ G[g].items \in Seq(S) /\ Len(G[g].items) \in Nat
                                  /\ DOMAIN G[g].items = 1 .. Len(G[g].items)
                                  /\ G[g].key \in Nat
    BY <1>1, ItemsOf
  <1>3. \A p \in S : \E g \in 1 .. Len(G) : p.key = G[g].key /\ p \in ToSet(G[g].items)
    <2> TAKE p \in S
    <2>1. PICK g \in 1 .. Len(G) : p \in ToSet(G[g].items)
      BY <1>1, <1>2 DEF ItemsOfGroups, ToSet
    <2>2. PICK k \in 1 .. Len(G[g].items) : p = G[g].items[k]
      BY <1>2, <2>1 DEF ToSet
    <2> QED BY <1>1, <2>1, <2>2 DEF OneKeyEach
  <1>4. \A g \in 1 .. Len(G) : G[g].key \in keys
    <2> TAKE g \in 1 .. Len(G)
    <2>1. Len(G[g].items) # 0
      BY <1>1, <1>2 DEF NoneEmpty
    <2>2. 1 \in 1 .. Len(G[g].items)
      BY <1>2, <2>1
    <2>3. G[g].items[1] \in S /\ G[g].items[1].key = G[g].key
      BY <1>1, <1>2, <2>2 DEF OneKeyEach
    <2> QED BY <2>3
  <1>5. IsFiniteSet(keys)
    <2> DEFINE f == [p \in S |-> p.key]
    <2>1. IsFiniteSet({f[p] : p \in S})
      BY FiniteImage
    <2>2. keys = {f[p] : p \in S}
      OBVIOUS
    <2> QED BY <2>1, <2>2
  <1> HIDE DEF keys
  <1>6. Len(G) # 0
    <2>1. Len(G) = 0 => 1 .. Len(G) = {}
      OBVIOUS
    <2> QED BY <1>3, <2>1
  <1>7. ASSUME Len(G) = 1
        PROVE  Cardinality(keys) = 1 /\ ToSet(G[1].items) = S
    <2>1. 1 \in 1 .. Len(G) /\ \A g \in 1 .. Len(G) : g = 1
      BY <1>7
    <2>2. keys = {G[1].key}
      BY <1>3, <1>4, <2>1 DEF keys
    <2>3. ToSet(G[1].items) = S
      <3>1. S \subseteq ToSet(G[1].items)
        BY <1>3, <2>1
      <3>2. ToSet(G[1].items) \subseteq S
        BY <1>2, <2>1 DEF ToSet
      <3> QED BY <3>1, <3>2
    <2> QED BY <2>2, <2>3, FS_Singleton
  <1>8. ASSUME Cardinality(keys) = 1
        PROVE  Len(G) = 1
    <2> SUFFICES ASSUME Len(G) # 1 PROVE FALSE
      OBVIOUS
    <2>1. 1 \in 1 .. Len(G) /\ 2 \in 1 .. Len(G)
      BY <1>2, <1>6
    <2>2. G[1].key < G[2].key
      BY <1>1, <2>1 DEF KeysRise
    <2>3. G[1].key \in keys /\ G[2].key \in keys /\ G[1].key # G[2].key
      BY <1>2, <1>4, <2>1, <2>2
    <2>4. PICK x : keys = {x}
      BY <1>5, <1>8, FS_Singleton
    <2> QED BY <2>3, <2>4
  <1> QED BY <1>7, <1>8 DEF G, keys

(* With readings that are not negative, the second series lies on top of   *)
(* the minimum and ends at the maximum.                                    *)
LEMMA BandDrawn ==
  ASSUME NEW p, p.min \in Nat, p.max \in Int, p.min <= p.max
  PROVE  Stacked([at |-> p.at, min |-> p.min, spread |-> Spread(p)])
           = [from |-> p.min, to |-> p.max]
  <1> DEFINE b == [at |-> p.at, min |-> p.min, spread |-> Spread(p)]
  <1>1. b.min = p.min /\ b.spread = p.max - p.min
    BY DEF Spread
  <1> HIDE DEF b
  <1>2. CASE p.min > 0
    <2>1. Stacked(b) = [from |-> b.min, to |-> b.min + b.spread]
      BY <1>1, <1>2 DEF Stacked
    <2>2. p.min + (p.max - p.min) = p.max
      OBVIOUS
    <2> QED BY <1>1, <2>1, <2>2 DEF b
  <1>3. CASE p.min = 0
    <2>1. Stacked(b) = [from |-> 0, to |-> b.spread]
      BY <1>1, <1>3 DEF Stacked
    <2>2. p.max - p.min = p.max
      BY <1>3
    <2> QED BY <1>1, <1>3, <2>1, <2>2 DEF b
  <1> QED BY <1>2, <1>3

LEMMA BandFacts ==
  ASSUME RowsTyped, NEW sel \in SelType, Points(sel) # {}
  PROVE  LET G == Grouped(Ordered(Points(sel)))
         IN  /\ Band(G) \subseteq [at : Nat, min : Values, spread : Nat]
             /\ Values \subseteq Nat =>
                  {[at |-> b.at, drawn |-> Stacked(b)] : b \in Band(G)}
                    = IF Shaded(Points(sel))
                      THEN {[at |-> p.at, drawn |-> [from |-> p.min, to |-> p.max]] :
                              p \in Points(sel)}
                      ELSE {}
  <1> DEFINE S == Points(sel)
             G == Grouped(Ordered(S))
             band(p) == [at |-> p.at, min |-> p.min, spread |-> Spread(p)]
  <1>1. /\ IsFiniteSet(S) /\ HasKeys(S) /\ S \subseteq PointType /\ S # {}
        /\ \A p \in S : p.min <= p.max /\ p.min \in Int /\ p.max \in Int
    BY PointsFacts
  <1> HIDE DEF S
  <1>2. /\ Len(G) = 1 <=> Cardinality({p.key : p \in S}) = 1
        /\ Len(G) = 1 => ToSet(G[1].items) = S
    BY <1>1, OneGroupOneKey
  <1> HIDE DEF G
  <1>3. Band(G) = IF Shaded(S) THEN {band(p) : p \in S} ELSE {}
    <2>1. CASE Shaded(S)
      BY <1>2, <2>1 DEF Shaded, Band
    <2>2. CASE ~ Shaded(S)
      BY <1>2, <2>2 DEF Shaded, Band
    <2> QED BY <2>1, <2>2
  <1>4. Band(G) \subseteq [at : Nat, min : Values, spread : Nat]
    <2>1. \A p \in S : p.at \in Nat /\ p.min \in Values /\ Spread(p) \in Nat
      BY <1>1 DEF PointType, Spread
    <2> QED BY <1>3, <2>1
  <1>5. ASSUME Values \subseteq Nat
        PROVE  {[at |-> b.at, drawn |-> Stacked(b)] : b \in Band(G)}
                 = IF Shaded(S)
                   THEN {[at |-> p.at, drawn |-> [from |-> p.min, to |-> p.max]] : p \in S}
                   ELSE {}
    <2>1. \A p \in S : band(p).at = p.at /\ Stacked(band(p)) = [from |-> p.min, to |-> p.max]
      <3> TAKE p \in S
      <3>1. p.min \in Nat /\ p.max \in Int /\ p.min <= p.max
        BY <1>1, <1>5 DEF PointType
      <3> QED BY <3>1, BandDrawn
    <2> HIDE DEF band
    <2>2. CASE Shaded(S)
      <3>1. {[at |-> b.at, drawn |-> Stacked(b)] : b \in Band(G)}
              = {[at |-> band(p).at, drawn |-> Stacked(band(p))] : p \in S}
        BY <1>3, <2>2
      <3> QED BY <2>1, <2>2, <3>1
    <2>3. CASE ~ Shaded(S)
      BY <1>3, <2>3
    <2> QED BY <2>2, <2>3
  <1> QED BY <1>4, <1>5 DEF G, S

LEMMA ChartBodyFacts ==
  ASSUME RowsTyped, NEW sel \in SelType, NEW answered \in BOOLEAN
  PROVE  LET b == ChartBody(sel, answered)
         IN  /\ b \in Body /\ GroupsInOrder(b.groups)
             /\ Values \subseteq Nat => BandMatches(b)
             /\ b.what \in {"groups", "no_data"} => ItemsOfGroups(b.groups) = Points(sel)
             /\ sel.metric = Blank => b.what = "no_metric"
  <1> DEFINE b == ChartBody(sel, answered)
             G == Grouped(Ordered(Points(sel)))
  <1>1. CASE sel.metric = Blank
    <2>1. b = Notice("no_metric")
      BY <1>1 DEF ChartBody
    <2> HIDE DEF b
    <2> QED BY <2>1, NoticeFacts DEF b
  <1>2. CASE sel.metric # Blank /\ ~answered
    <2>1. b = Notice("error")
      BY <1>2 DEF ChartBody
    <2> HIDE DEF b
    <2> QED BY <1>2, <2>1, NoticeFacts DEF b
  <1>3. CASE sel.metric # Blank /\ answered /\ Points(sel) = {}
    <2>1. b = Notice("no_data")
      BY <1>3 DEF ChartBody
    <2> HIDE DEF b
    <2> QED BY <1>3, <2>1, NoticeFacts DEF b
  <1>4. CASE sel.metric # Blank /\ answered /\ Points(sel) # {}
    <2>1. b = [what |-> "groups", groups |-> G, band |-> Band(G)]
      BY <1>4 DEF ChartBody
    <2>2. /\ IsFiniteSet(Points(sel)) /\ HasKeys(Points(sel))
          /\ Points(sel) \in SUBSET ItemType
      BY PointsFacts DEF ItemType
    <2>3. /\ G \in Seq([key : Nat, items : Seq(ItemType)])
          /\ GroupsInOrder(G) /\ ItemsOfGroups(G) = Points(sel)
      BY <2>2, GroupsTyped
    <2>4. /\ Band(G) \subseteq [at : Nat, min : Values, spread : Nat]
          /\ Values \subseteq Nat =>
               {[at |-> x.at, drawn |-> Stacked(x)] : x \in Band(G)}
                 = IF Shaded(Points(sel))
                   THEN {[at |-> p.at, drawn |-> [from |-> p.min, to |-> p.max]] :
                           p \in Points(sel)}
                   ELSE {}
      BY <1>4, BandFacts
    <2> HIDE DEF G
    <2>5. b.groups = G /\ b.band = Band(G) /\ b.what = "groups"
      BY <2>1
    <2>6. b \in Body
      BY <2>1, <2>3, <2>4 DEF Body, ItemType, PointType
    <2> HIDE DEF b
    <2>7. Values \subseteq Nat => BandMatches(b)
      BY <2>3, <2>4, <2>5 DEF BandMatches
    <2> QED BY <1>4, <2>3, <2>5, <2>6, <2>7 DEF b
  <1> QED BY <1>1, <1>2, <1>3, <1>4

LEMMA OverviewFacts ==
  ASSUME RowsTyped, NEW answered \in BOOLEAN
  PROVE  OverviewGrid(answered) \in Body /\ GroupsInOrder(OverviewGrid(answered).groups)
  <1> DEFINE b == OverviewGrid(answered)
             G == Grouped(Ordered(Latest))
  <1>1. CASE ~answered \/ Latest = {}
    <2>1. b = Notice("error") \/ b = Notice("no_data")
      BY <1>1 DEF OverviewGrid
    <2> HIDE DEF b
    <2> QED BY <2>1, NoticeFacts DEF b
  <1>2. CASE answered /\ Latest # {}
    <2>1. b = [what |-> "groups", groups |-> G, band |-> {}]
      BY <1>2 DEF OverviewGrid
    <2>2. IsFiniteSet(Latest) /\ HasKeys(Latest) /\ Latest \in SUBSET ItemType
      BY LatestFacts DEF ItemType
    <2>3. /\ G \in Seq([key : Nat, items : Seq(ItemType)]) /\ GroupsInOrder(G)
      BY <2>2, GroupsTyped
    <2> HIDE DEF G
    <2>4. b \in Body
      BY <2>1, <2>3 DEF Body, ItemType, PointType
    <2> QED BY <2>1, <2>3, <2>4
  <1> QED BY <1>1, <1>2

-----------------------------------------------------------------------------
(* The steps                                                               *)

PageType == [kind : {"none", "overview", "chart"}, sel : SelType,
             metrics : SUBSET Metric, devices : SUBSET Device, body : Body]

Typed == RowsTyped /\ page \in PageType

(* Finite sets of metrics have a first one.                                *)
LEMMA FirstMetric ==
  ASSUME NEW S \in SUBSET Metric, S # {}
  PROVE  Min(S) \in S
  <1>1. IsFiniteSet(Metric) /\ Metric \in SUBSET Int
    BY NameAssumption
  <1>2. IsFiniteSet(S)
    BY <1>1, FS_Subset
  <1>3. S \in SUBSET Int
    BY <1>1
  <1> QED BY <1>2, <1>3, MinMax

LEMMA MetricsTyped ==
  ASSUME RowsTyped
  PROVE  Metrics \in SUBSET Metric /\ \A m : DevicesFor(m) \in SUBSET Device
  BY RowFacts DEF Metrics, DevicesFor, Since

LEMMA SelectionTyped ==
  ASSUME NEW q, q.metric \in Metric \cup {Blank}, q.device \in Device \cup {All},
         NEW known \in SUBSET Metric
  PROVE  /\ Selection(q, known) \in SelType
         /\ Selection(q, known).device = q.device
         /\ q.metric # Blank => Selection(q, known).metric = q.metric
         /\ q.metric = Blank => Selection(q, known).metric
                                  = IF known # {} THEN Min(known) ELSE Blank
  <1>1. Selection(q, known).metric \in Metric \cup {Blank}
    BY FirstMetric DEF Selection
  <1> QED BY <1>1, Widths DEF Selection, SelType

LEMMA SameSelection ==
  ASSUME NEW sel \in SelType
  PROVE  Selection(sel, {}) = sel
  <1>1. /\ sel = [metric |-> sel.metric, device |-> sel.device, range |-> sel.range]
        /\ sel.range \in Ranges
    BY DEF SelType
  <1>2. ParsedRange(sel.range) = sel.range
    BY <1>1, Widths
  <1>3. (IF sel.metric # Blank THEN sel.metric ELSE IF {} # {} THEN Min({}) ELSE Blank)
          = sel.metric
    OBVIOUS
  <1> QED BY <1>1, <1>2, <1>3 DEF Selection

(* A chart that is loaded: its selection, what the form offers, and the    *)
(* body for that selection.                                                *)
Loaded(q, known, offered, answered) ==
    LET sel == Selection(q, known)
    IN page' = [kind |-> "chart", sel |-> sel, metrics |-> known,
                devices |-> DeviceOptions(sel, offered), body |-> ChartBody(sel, answered)]

LEMMA LoadChartCases ==
  ASSUME NEW q, LoadChart(q)
  PROVE  /\ UNCHANGED <<now, rows>>
         /\ \E known \in {Metrics, {q.metric} \ {Blank}}, offered, answered \in BOOLEAN :
              Loaded(q, known, offered, answered)
  BY DEF LoadChart, Loaded

(* The steps that change the page.                                         *)
LEMMA PageSteps ==
  ASSUME Typed, [Next]_vars
  PROVE  \/ page' = page
         \/ ShowOverview
         \/ PollChart
         \/ \E q : /\ q.metric \in Metric \cup {Blank} /\ q.device \in Device \cup {All}
                   /\ LoadChart(q)
  <1>1. CASE Elapse \/ UNCHANGED vars
    BY <1>1 DEF Elapse, vars
  <1>2. ASSUME NEW m \in Metric, NEW d \in Device, NEW v \in Values, NEW late \in 0 .. MaxLate,
               Insert(m, d, v, late)
        PROVE  page' = page
    BY <1>2 DEF Insert
  <1>3. ASSUME NEW m \in Metric, NEW d \in Device, FollowCard(m, d)
        PROVE  \E q : /\ q.metric \in Metric \cup {Blank} /\ q.device \in Device \cup {All}
                      /\ LoadChart(q)
    <2> DEFINE q == [metric |-> m, device |-> d, range |-> "1h"]
    <2>1. q.metric \in Metric \cup {Blank} /\ q.device \in Device \cup {All}
      OBVIOUS
    <2>2. LoadChart(q)
      BY <1>3 DEF FollowCard
    <2> HIDE DEF q
    <2> QED BY <2>1, <2>2
  <1>4. CASE OpenChart
    <2>1. PICK q : q.metric = Blank /\ q.device = All /\ LoadChart(q)
      <3> DEFINE q == [metric |-> Blank, device |-> All, range |-> ""]
      <3>1. q.metric = Blank /\ q.device = All
        OBVIOUS
      <3>2. LoadChart(q)
        BY <1>4 DEF OpenChart
      <3> HIDE DEF q
      <3> QED BY <3>1, <3>2
    <2> QED BY <2>1
  <1>5. CASE Submit
    <2>1. FormMetric \in Metric \cup {Blank} /\ FormDevice \in Device \cup {All}
          /\ page.metrics \subseteq Metric /\ page.devices \subseteq Device
      BY FirstMetric DEF Typed, PageType, FormMetric, FormDevice
    <2>2. PICK q \in {[metric |-> m, device |-> FormDevice, range |-> page.sel.range] :
                        m \in page.metrics \cup {FormMetric}}
                   \cup {[metric |-> FormMetric, device |-> d, range |-> page.sel.range] :
                           d \in page.devices \cup {All}}
                   \cup {[metric |-> FormMetric, device |-> FormDevice, range |-> r] :
                           r \in Ranges} :
               LoadChart(q)
      BY <1>5 DEF Submit
    <2>3. q.metric \in Metric \cup {Blank} /\ q.device \in Device \cup {All}
      BY <2>1, <2>2
    <2> QED BY <2>2, <2>3
  <1> QED BY <1>1, <1>2, <1>3, <1>4, <1>5 DEF Next

LEMMA RowsStep ==
  ASSUME RowsTyped, [Next]_vars
  PROVE  RowsTyped'
  <1>1. CASE UNCHANGED <<now, rows>>
    BY <1>1 DEF RowsTyped
  <1>2. CASE Elapse
    <2>1. now' = now + 1 /\ now < MaxTime /\ now \in Nat /\ rows' = rows
      BY <1>2, TimeAssumption DEF Elapse, RowsTyped
    <2>2. now' \in 0 .. MaxTime /\ 0 .. now \subseteq 0 .. now'
      BY <2>1, TimeAssumption
    <2> QED BY <2>1, <2>2 DEF RowsTyped
  <1>3. ASSUME NEW m \in Metric, NEW d \in Device, NEW v \in Values, NEW late \in 0 .. MaxLate,
               Insert(m, d, v, late)
        PROVE  RowsTyped'
    <2> DEFINE row == [metric |-> m, device |-> d, value |-> v, ts |-> now - late]
    <2>1. now' = now /\ rows' = rows \cup {row}
      BY <1>3 DEF Insert
    <2>2. now - late \in 0 .. now
      BY <1>3, TimeAssumption DEF Insert, RowsTyped
    <2>3. row \in [metric : Metric, device : Device, value : Values, ts : 0 .. now]
      BY <2>2
    <2> HIDE DEF row
    <2>4. IsFiniteSet(rows')
      BY <2>1, FS_AddElement DEF RowsTyped
    <2> QED BY <2>1, <2>3, <2>4 DEF RowsTyped
  <1>4. CASE \/ \E m \in Metric, d \in Device : FollowCard(m, d)
             \/ ShowOverview \/ OpenChart \/ Submit \/ PollChart
    <2>1. UNCHANGED <<now, rows>>
      BY <1>4 DEF FollowCard, ShowOverview, OpenChart, Submit, PollChart, LoadChart
    <2> QED BY <1>1, <2>1
  <1> QED BY <1>1, <1>2, <1>3, <1>4 DEF Next, vars

LEMMA DashboardInit == Init => RowsTyped /\ page = Closed
  BY FS_EmptySet, TimeAssumption DEF Init, RowsTyped

(* The body that a page shows was made for the page's own selection.       *)
LEMMA ChartSteps ==
  ASSUME Typed, [Next]_vars, page' # page, page'.kind = "chart"
  PROVE  /\ UNCHANGED <<now, rows>>
         /\ page' \in PageType
         /\ \E answered \in BOOLEAN : page'.body = ChartBody(page'.sel, answered)
  <1>1. CASE ShowOverview
    <2>1. page'.kind = "overview"
      BY <1>1 DEF ShowOverview, Closed
    <2> QED BY <2>1
  <1>2. CASE PollChart
    <2>1. PICK answered \in BOOLEAN :
            page' = [page EXCEPT !.body = ChartBody(Selection(page.sel, {}), answered)]
      BY <1>2 DEF PollChart
    <2>2. page.sel \in SelType /\ Selection(page.sel, {}) = page.sel
      BY SameSelection DEF Typed, PageType
    <2>3. ChartBody(page.sel, answered) \in Body
      BY <2>2, ChartBodyFacts DEF Typed
    <2>4. page' = [page EXCEPT !.body = ChartBody(page.sel, answered)]
      BY <2>1, <2>2
    <2>5. page' \in PageType /\ page'.sel = page.sel
          /\ page'.body = ChartBody(page.sel, answered)
      BY <2>3, <2>4 DEF Typed, PageType
    <2> QED BY <1>2, <2>5 DEF PollChart
  <1>3. ASSUME NEW q, q.metric \in Metric \cup {Blank}, q.device \in Device \cup {All},
               LoadChart(q)
        PROVE  /\ UNCHANGED <<now, rows>>
               /\ page' \in PageType
               /\ \E answered \in BOOLEAN : page'.body = ChartBody(page'.sel, answered)
    <2>1. PICK known \in {Metrics, {q.metric} \ {Blank}}, offered \in BOOLEAN,
               answered \in BOOLEAN : Loaded(q, known, offered, answered)
      BY <1>3, LoadChartCases
    <2>2. known \in SUBSET Metric
      BY <1>3, MetricsTyped DEF Typed
    <2> DEFINE sel == Selection(q, known)
    <2>3. sel \in SelType
      BY <1>3, <2>2, SelectionTyped
    <2>4. DeviceOptions(sel, offered) \in SUBSET Device
      BY <2>3, MetricsTyped DEF Typed, SelType, DeviceOptions
    <2>5. ChartBody(sel, answered) \in Body
      BY <2>3, ChartBodyFacts DEF Typed
    <2>6. page' = [kind |-> "chart", sel |-> sel, metrics |-> known,
                   devices |-> DeviceOptions(sel, offered), body |-> ChartBody(sel, answered)]
      BY <2>1 DEF Loaded
    <2> HIDE DEF sel
    <2>7. page' \in PageType /\ page'.body = ChartBody(page'.sel, answered)
      BY <2>2, <2>3, <2>4, <2>5, <2>6 DEF PageType
    <2> QED BY <1>3, <2>7, LoadChartCases
  <1> QED BY <1>1, <1>2, <1>3, PageSteps

-----------------------------------------------------------------------------
(* Types and groups                                                        *)

PageInv == Typed /\ GroupsInOrder(page.body.groups)

BandInv == page.kind = "chart" => BandMatches(page.body)

LEMMA ClosedFacts ==
  Closed \in PageType /\ GroupsInOrder(Closed.body.groups) /\ Closed.kind = "none"
  <1>1. Notice("") \in Body /\ GroupsInOrder(Notice("").groups)
    BY NoticeFacts
  <1>2. NoSelection \in SelType
    BY DEF NoSelection, SelType, Ranges
  <1>3. Closed.body = Notice("") /\ Closed.kind = "none"
    BY DEF Closed
  <1>4. Closed \in PageType
    BY <1>1, <1>2 DEF Closed, PageType
  <1> QED BY <1>1, <1>3, <1>4

LEMMA OverviewStep ==
  ASSUME Typed, ShowOverview
  PROVE  page' \in PageType /\ GroupsInOrder(page'.body.groups) /\ page'.kind = "overview"
  <1>1. PICK answered \in BOOLEAN :
          page' = [Closed EXCEPT !.kind = "overview", !.body = OverviewGrid(answered)]
    BY DEF ShowOverview
  <1>2. /\ OverviewGrid(answered) \in Body
        /\ GroupsInOrder(OverviewGrid(answered).groups)
    BY OverviewFacts DEF Typed
  <1>3. page'.body = OverviewGrid(answered) /\ page'.kind = "overview" /\ page' \in PageType
    BY <1>1, <1>2, ClosedFacts DEF PageType
  <1> QED BY <1>2, <1>3

LEMMA PageStep == PageInv /\ [Next]_vars => PageInv'
  <1> SUFFICES ASSUME PageInv, [Next]_vars PROVE PageInv'
    OBVIOUS
  <1>1. RowsTyped' /\ Typed
    BY RowsStep DEF PageInv, Typed
  <1>2. CASE page' = page
    BY <1>1, <1>2 DEF PageInv, Typed
  <1>3. CASE ShowOverview
    BY <1>1, <1>3, OverviewStep DEF PageInv, Typed
  <1>4. CASE page' # page /\ page'.kind = "chart"
    <2>1. /\ page' \in PageType
          /\ \E answered \in BOOLEAN : page'.body = ChartBody(page'.sel, answered)
      BY <1>1, <1>4, ChartSteps
    <2>2. page'.sel \in SelType
      BY <2>1 DEF PageType
    <2>3. GroupsInOrder(page'.body.groups)
      BY <1>1, <2>1, <2>2, ChartBodyFacts DEF Typed
    <2> QED BY <1>1, <2>1, <2>3 DEF PageInv, Typed
  <1>5. page'.kind = "chart" \/ page' = page \/ ShowOverview
    <2>1. CASE PollChart
      BY <1>1, <2>1 DEF PollChart, Typed, PageType
    <2>2. ASSUME NEW q, LoadChart(q) PROVE page'.kind = "chart"
      <3>1. PICK known, offered, answered : Loaded(q, known, offered, answered)
        BY <2>2, LoadChartCases
      <3> QED BY <3>1 DEF Loaded
    <2> QED BY <1>1, <2>1, <2>2, PageSteps
  <1> QED BY <1>2, <1>3, <1>4, <1>5

LEMMA PageInvariant == Spec => []PageInv
  <1>1. Init => PageInv
    BY DashboardInit, ClosedFacts DEF PageInv, Typed
  <1> QED BY <1>1, PageStep, PTL DEF Spec

(* The pages stay in their types, whatever was selected, submitted or      *)
(* answered (web.rs, db.rs): groups of rows, a selection that can be       *)
(* asked for, and no band that reaches below its minimum.                  *)
THEOREM DashboardTypeCorrect == Spec => []TypeOK
  <1>1. PageInv => TypeOK
    BY DEF PageInv, Typed, RowsTyped, PageType, SelType, TypeOK
  <1> QED BY <1>1, PageInvariant, PTL

(* A device is one line and a metric one section (db.rs:137-157,           *)
(* web.rs:108-115), whatever rows there are and however many.              *)
THEOREM OneGroupPerKeyHolds == Spec => []OneGroupPerKey
  <1>1. PageInv => OneGroupPerKey
    BY DEF PageInv, GroupsInOrder, OneGroupPerKey
  <1> QED BY <1>1, PageInvariant, PTL

(* The shaded band is the spread of the readings (echarts.rs:30-76), for   *)
(* readings that are not negative: below zero it is not.                   *)
THEOREM BandShowsSpreadHolds ==
  ASSUME Values \subseteq Nat
  PROVE  Spec => []BandShowsSpread
  <1>1. Init => BandInv
    BY DashboardInit, ClosedFacts DEF BandInv
  <1>2. PageInv /\ BandInv /\ [Next]_vars => BandInv'
    <2> SUFFICES ASSUME PageInv, BandInv, [Next]_vars, page'.kind = "chart"
                 PROVE  BandMatches(page'.body)
      BY DEF BandInv, BandMatches, Shaded, ItemsOfGroups, Stacked
    <2>1. CASE page' = page
      BY <2>1 DEF BandInv
    <2>2. CASE page' # page
      <3>1. /\ page' \in PageType /\ Typed
            /\ \E answered \in BOOLEAN : page'.body = ChartBody(page'.sel, answered)
        BY <2>2, ChartSteps DEF PageInv
      <3>2. page'.sel \in SelType
        BY <3>1 DEF PageType
      <3> QED BY <3>1, <3>2, ChartBodyFacts DEF Typed
    <2> QED BY <2>1, <2>2
  <1>3. BandInv => BandShowsSpread
    BY DEF BandInv, BandMatches, Shaded, ItemsOfGroups, BandShowsSpread
  <1> QED BY <1>1, <1>2, <1>3, PageInvariant, PTL DEF Spec

-----------------------------------------------------------------------------
(* What a step may do                                                      *)

(* The form keeps the choice (web.rs:241-300): the device always, the      *)
(* metric as long as it is listed, or was asked for when the list fails.   *)
THEOREM FormKeepsChoiceHolds == Spec => FormKeepsChoice
  <1>1. ASSUME PageInv, [Next]_vars, page'.kind = "chart",
               [page' EXCEPT !.body = page.body] # page
        PROVE  /\ FormDevice' = page'.sel.device
               /\ FormMetric' = page'.sel.metric \/ page'.sel.metric \notin Metrics
    <2>1. Typed /\ page = [page EXCEPT !.body = page.body]
      BY <1>1 DEF PageInv, Typed, PageType
    <2>2. page' # page
      BY <1>1, <2>1
    <2>3. ~ ShowOverview
      BY <1>1, <2>1, OverviewStep
    <2>4. ~ PollChart
      <3> SUFFICES ASSUME PollChart PROVE FALSE
        OBVIOUS
      <3>1. PICK b : page' = [page EXCEPT !.body = b]
        BY DEF PollChart
      <3>2. [page' EXCEPT !.body = page.body] = page
        BY <2>1, <3>1 DEF Typed, PageType
      <3> QED BY <1>1, <3>2
    <2>5. PICK q : /\ q.metric \in Metric \cup {Blank} /\ q.device \in Device \cup {All}
                   /\ LoadChart(q)
      BY <1>1, <2>1, <2>2, <2>3, <2>4, PageSteps
    <2>6. PICK known \in {Metrics, {q.metric} \ {Blank}}, offered \in BOOLEAN,
               answered \in BOOLEAN : Loaded(q, known, offered, answered)
      BY <2>5, LoadChartCases
    <2> DEFINE sel == Selection(q, known)
    <2>7. /\ page'.sel = sel /\ page'.metrics = known
          /\ page'.devices = DeviceOptions(sel, offered)
      BY <2>6 DEF Loaded
    <2>8. known \in SUBSET Metric
      BY <2>1, <2>5, MetricsTyped DEF Typed
    <2>9. /\ sel.device = q.device
          /\ q.metric # Blank => sel.metric = q.metric
          /\ q.metric = Blank => sel.metric = IF known # {} THEN Min(known) ELSE Blank
      BY <2>5, <2>8, SelectionTyped
    <2> HIDE DEF sel
    <2>10. FormDevice' = page'.sel.device
      BY <2>7 DEF FormDevice, DeviceOptions
    <2>11. FormMetric' = page'.sel.metric \/ page'.sel.metric \notin Metrics
      <3>1. CASE known = Metrics
        BY <2>7, <3>1 DEF FormMetric
      <3>2. CASE known = {q.metric} \ {Blank}
        BY <2>7, <2>9, <3>2 DEF FormMetric
      <3> QED BY <2>6, <3>1, <3>2
    <2> QED BY <2>10, <2>11
  <1> QED BY <1>1, PageInvariant, PTL DEF Spec, FormKeepsChoice

(* A chart that is drawn shows every row of its selection in the range,    *)
(* up to the one bucket the range cuts, and nothing else (range.rs:97-133, *)
(* db.rs:105-157).                                                         *)
THEOREM ChartCompleteHolds == Spec => ChartComplete
  <1>1. ASSUME PageInv, [Next]_vars, page' # page, page'.kind = "chart",
               page'.body.what \in {"groups", "no_data"}
        PROVE  LET sel == page'.sel
                   width == Source[sel.range]
                   points == UNION {ToSet(g.items) : g \in ToSet(page'.body.groups)}
               IN /\ \A r \in RowsOf(sel) :
                       r.ts >= now - Interval[sel.range] + width =>
                         \E p \in points : Covers(p, r, width)
                  /\ \A p \in points :
                       /\ p.at > now - Interval[sel.range]
                       /\ \E r \in RowsOf(sel) : Covers(p, r, width)
    <2> DEFINE width == Source[page'.sel.range]
    <2>1. /\ page' \in PageType /\ RowsTyped
          /\ \E answered \in BOOLEAN : page'.body = ChartBody(page'.sel, answered)
      BY <1>1, ChartSteps DEF PageInv, Typed
    <2>2. PICK sel : sel = page'.sel
      OBVIOUS
    <2>3. sel \in SelType /\ sel.range \in Ranges
      BY <2>1, <2>2 DEF PageType, SelType
    <2>4. ItemsOfGroups(page'.body.groups) = Points(sel)
      BY <1>1, <2>1, <2>2, <2>3, ChartBodyFacts
    <2>5. ASSUME NEW r \in RowsOf(sel), r.ts >= now - Interval[sel.range] + Source[sel.range]
          PROVE  \E p \in Points(sel) : Covers(p, r, Source[sel.range])
      <3>1. PICK p : p = PointOf(r, sel)
        OBVIOUS
      <3>2. /\ p \in PointType /\ Covers(p, r, Source[sel.range])
        BY <2>1, <2>3, <3>1, PointFacts
      <3>3. /\ r \in rows /\ r.ts \in Nat /\ now \in Nat /\ p.at \in Nat
            /\ Source[sel.range] \in Nat \ {0} /\ Interval[sel.range] \in Nat
        BY <2>1, <2>3, <3>2, RowFacts, Widths DEF RowsOf, PointType
      <3>4. r.ts < p.at + Source[sel.range]
        BY <3>2 DEF Covers
      <3>5. p.at > now - Interval[sel.range]
        BY <2>5, <3>3, <3>4
      <3>6. p \in Points(sel)
        BY <3>1, <3>5 DEF Points
      <3> QED BY <3>2, <3>6
    <2>6. ASSUME NEW p \in Points(sel)
          PROVE  /\ p.at > now - Interval[sel.range]
                 /\ \E r \in RowsOf(sel) : Covers(p, r, Source[sel.range])
      <3>1. p.at > now - Interval[sel.range]
        BY DEF Points
      <3>2. PICK r \in RowsOf(sel) : p = PointOf(r, sel)
        BY DEF Points
      <3>3. Covers(p, r, Source[sel.range])
        BY <2>1, <2>3, <3>2, PointFacts
      <3> QED BY <3>1, <3>3
    <2> QED BY <2>2, <2>4, <2>5, <2>6 DEF ItemsOfGroups
  <1> QED BY <1>1, PageInvariant, PTL DEF Spec, ChartComplete

(* The link of a card opens its chart (web.rs:120-130), with data unless   *)
(* the card's last row is about to leave the hour.                         *)
THEOREM CardLeadsToDataHolds == Spec => CardLeadsToData
  <1>1. ASSUME PageInv, NEW m \in Metric, NEW d \in Device, FollowCard(m, d)
        PROVE  /\ page'.sel = [metric |-> m, device |-> d, range |-> "1h"]
               /\ (\E r \in rows : r.metric = m /\ r.device = d /\ r.ts >= now - Hour + Minute)
                    => page'.body.what # "no_data"
    <2>1. PICK q : q = [metric |-> m, device |-> d, range |-> "1h"]
      OBVIOUS
    <2>2. LoadChart(q) /\ q \in SelType /\ q.metric # Blank /\ q.range \in Ranges
      BY <1>1, <2>1, NameAssumption DEF FollowCard, SelType, Ranges, Blank
    <2>3. PICK known, answered :
            /\ page'.sel = Selection(q, known)
            /\ page'.body = ChartBody(Selection(q, known), answered)
      <3>1. PICK known, offered, answered : Loaded(q, known, offered, answered)
        BY <2>2, LoadChartCases
      <3> QED BY <3>1 DEF Loaded
    <2>4. Selection(q, known) = q
      BY <2>1, <2>2, Widths DEF Selection
    <2>5. ASSUME NEW r \in rows, r.metric = m, r.device = d, r.ts >= now - Hour + Minute
          PROVE  page'.body.what # "no_data"
      <3>1. r \in RowsOf(q) /\ RowsTyped
        BY <1>1, <2>1, <2>5 DEF RowsOf, PageInv, Typed
      <3>2. PICK p : p = PointOf(r, q)
        OBVIOUS
      <3>3. p \in PointType /\ Covers(p, r, Source[q.range])
        BY <2>2, <3>1, <3>2, PointFacts
      <3>4. Source[q.range] = Minute /\ Interval[q.range] = Hour
        BY <2>1 DEF Source, Interval, Ranges
      <3>5. /\ r.ts \in Nat /\ now \in Nat /\ p.at \in Nat /\ r.ts < p.at + Minute
            /\ Minute \in Nat /\ Hour \in Nat
        BY <3>1, <3>3, <3>4, RowFacts, TimeAssumption DEF Covers, PointType
      <3>6. p.at > now - Interval[q.range]
        BY <2>5, <3>4, <3>5
      <3>7. Points(q) # {}
        BY <3>1, <3>2, <3>6 DEF Points
      <3>8. ChartBody(q, answered).what \in {"error", "groups"}
        BY <2>2, <3>7 DEF ChartBody, Notice
      <3> QED BY <2>3, <2>4, <3>8
    <2> QED BY <2>1, <2>3, <2>4, <2>5
  <1>2. ASSUME PageInv
        PROVE  \A m \in Metric, d \in Device : FollowCard(m, d) =>
                 /\ page'.sel = [metric |-> m, device |-> d, range |-> "1h"]
                 /\ (\E r \in rows : r.metric = m /\ r.device = d /\ r.ts >= now - Hour + Minute)
                      => page'.body.what # "no_data"
    BY <1>1, <1>2
  <1> QED BY <1>2, PageInvariant, PTL DEF Spec, CardLeadsToData
=============================================================================

----------------------------- MODULE ListLemmas -----------------------------
(***************************************************************************)
(* Facts about sequences whose elements have no type worth naming: a list  *)
(* is a sequence over its own members.  The proofs of the components use   *)
(* them for queues, logs and histories.                                    *)
(***************************************************************************)
EXTENDS Naturals, Sequences, Lists, SequenceTheorems, WellFoundedInduction, TLAPS

Members(s) == {s[i] : i \in DOMAIN s}
IsList(s) == s \in Seq(Members(s))

\* A sequence over any set is a list, indexed from 1 to its length.
LEMMA ListOfSeq ==
  ASSUME NEW S, NEW s \in Seq(S)
  PROVE  /\ IsList(s)
         /\ Len(s) \in Nat /\ DOMAIN s = 1..Len(s)
         /\ Members(s) \subseteq S
<1>1. /\ Len(s) \in Nat /\ DOMAIN s = 1..Len(s)
      /\ \A i \in 1..Len(s) : s[i] \in S
  BY LenProperties, ElementOfSeq
<1>2. s \in [1..Len(s) -> Members(s)]
  BY <1>1, LenProperties DEF Members
<1>3. s \in UNION {[1..n -> Members(s)] : n \in Nat}
  BY <1>1, <1>2
<1>4. IsList(s)
  BY <1>3, SeqDef DEF IsList
<1>5. Members(s) \subseteq S
  BY <1>1 DEF Members
<1> QED BY <1>1, <1>4, <1>5

\* The empty list has no members.
LEMMA EmptyList == IsList(<<>>) /\ Members(<<>>) = {} /\ Len(<<>>) = 0 /\ DOMAIN <<>> = {}
<1>1. <<>> \in Seq({}) /\ Len(<<>>) = 0
  BY EmptySeq
<1>2. IsList(<<>>) /\ DOMAIN <<>> = 1..0
  BY <1>1, ListOfSeq
<1> QED BY <1>1, <1>2 DEF Members

\* A list with one more element at its end.
LEMMA AppendList ==
  ASSUME NEW s, IsList(s), NEW x
  PROVE  /\ IsList(Append(s, x))
         /\ Len(s) \in Nat /\ Len(Append(s, x)) = Len(s) + 1
         /\ DOMAIN s = 1..Len(s) /\ DOMAIN Append(s, x) = 1..(Len(s) + 1)
         /\ \A i \in 1..Len(s) : Append(s, x)[i] = s[i]
         /\ Append(s, x)[Len(s) + 1] = x
         /\ Members(Append(s, x)) = Members(s) \union {x}
<1> DEFINE S == Members(s) \union {x}
<1>1. s \in Seq(S)
  <2>1. Members(s) \subseteq S
    OBVIOUS
  <2> QED BY <2>1, SeqMonotonic DEF IsList
<1>2. /\ Append(s, x) \in Seq(S)
      /\ Len(Append(s, x)) = Len(s) + 1
      /\ \A i \in 1..Len(s) : Append(s, x)[i] = s[i]
      /\ Append(s, x)[Len(s) + 1] = x
  BY <1>1, AppendProperties
<1>3. /\ Len(s) \in Nat /\ DOMAIN s = 1..Len(s)
      /\ IsList(Append(s, x)) /\ DOMAIN Append(s, x) = 1..(Len(s) + 1)
  BY <1>1, <1>2, ListOfSeq
<1>4. Members(Append(s, x)) = Members(s) \union {x}
  BY <1>2, <1>3 DEF Members
<1> QED BY <1>2, <1>3, <1>4

\* A list without its first element.
LEMMA TailList ==
  ASSUME NEW s, IsList(s), s # <<>>
  PROVE  /\ IsList(Tail(s))
         /\ Len(s) \in Nat \ {0} /\ DOMAIN s = 1..Len(s)
         /\ Len(Tail(s)) = Len(s) - 1 /\ DOMAIN Tail(s) = 1..(Len(s) - 1)
         /\ \A i \in 1..(Len(s) - 1) : Tail(s)[i] = s[i + 1]
         /\ Head(s) = s[1] /\ Head(s) \in Members(s)
         /\ Members(Tail(s)) \subseteq Members(s)
         /\ Members(s) = Members(Tail(s)) \union {Head(s)}
<1>1. /\ Head(s) \in Members(s) /\ Tail(s) \in Seq(Members(s))
      /\ Len(Tail(s)) = Len(s) - 1
      /\ \A i \in 1..Len(Tail(s)) : Tail(s)[i] = s[i + 1]
  BY HeadTailProperties DEF IsList
<1>2. /\ Len(s) \in Nat /\ DOMAIN s = 1..Len(s)
      /\ IsList(Tail(s)) /\ DOMAIN Tail(s) = 1..Len(Tail(s))
      /\ Members(Tail(s)) \subseteq Members(s) /\ Len(Tail(s)) \in Nat
  BY <1>1, ListOfSeq DEF IsList
<1>3. Len(s) # 0
  BY <1>2, EmptySeq DEF IsList
<1>4. Head(s) = s[1]
  BY HeadTailOfSubSeq, <1>2 DEF IsList
<1>5. Members(s) = Members(Tail(s)) \union {Head(s)}
  <2>1. ASSUME NEW i \in 1..Len(s)
        PROVE  s[i] \in Members(Tail(s)) \union {Head(s)}
    <3>1. CASE i = 1
      BY <3>1, <1>4
    <3>2. CASE i # 1
      <4>1. i - 1 \in 1..(Len(s) - 1) /\ (i - 1) + 1 = i
        BY <3>2, <1>2
      <4>2. Tail(s)[i - 1] = s[i]
        BY <4>1, <1>1
      <4> QED BY <4>1, <4>2, <1>1, <1>2 DEF Members
    <3> QED BY <3>1, <3>2
  <2> QED BY <2>1, <1>1, <1>2 DEF Members
<1> QED BY <1>1, <1>2, <1>3, <1>4, <1>5

\* Without its element at index i a list keeps the others in their order.
LEMMA RemoveList ==
  ASSUME NEW s, IsList(s), NEW i \in DOMAIN s,
         NEW t, t = SubSeq(s, 1, i - 1) \o SubSeq(s, i + 1, Len(s))
  PROVE  /\ IsList(t)
         /\ Len(s) \in Nat \ {0} /\ DOMAIN s = 1..Len(s)
         /\ Len(t) = Len(s) - 1 /\ DOMAIN t = 1..(Len(s) - 1)
         /\ \A k \in 1..(i - 1) : t[k] = s[k]
         /\ \A k \in i..(Len(s) - 1) : t[k] = s[k + 1]
         /\ Members(t) \subseteq Members(s)
<1>1. /\ s \in Seq(Members(s)) /\ Len(s) \in Nat \ {0}
      /\ DOMAIN s = 1..Len(s) /\ i \in 1..Len(s)
  <2>1. Len(s) \in Nat /\ DOMAIN s = 1..Len(s)
    BY ListOfSeq DEF IsList
  <2> QED BY <2>1 DEF IsList
<1> DEFINE a == SubSeq(s, 1, i - 1)
           b == SubSeq(s, i + 1, Len(s))
<1>2. /\ a \in Seq(Members(s)) /\ Len(a) = i - 1
      /\ \A k \in 1..(i - 1) : a[k] = s[k]
  <2>1. 1 \in 1..(Len(s) + 1) /\ i - 1 \in 0..Len(s)
    BY <1>1
  <2>2. \A k \in 1..(i - 1) : k \in 1..Len(s)
    BY <1>1
  <2>3. CASE i = 1
    <3>1. 1 > i - 1
      BY <2>3
    <3>2. a = <<>>
      BY <3>1, <1>1, <2>1, SubSeqProperties, Z3
    <3> QED BY <3>2, <2>3, EmptySeq
  <2>4. CASE i # 1
    <3>1. 1 \in 1..Len(s) /\ i - 1 \in 1..Len(s) /\ 1 <= i - 1
      BY <2>4, <1>1
    <3>2. /\ a \in Seq(Members(s)) /\ Len(a) = (i - 1) - 1 + 1
          /\ \A k \in 1..((i - 1) - 1 + 1) : a[k] = s[1 + k - 1]
      BY <3>1, <1>1, SubSeqProperties
    <3>3. (i - 1) - 1 + 1 = i - 1 /\ \A k \in 1..(i - 1) : 1 + k - 1 = k
      BY <1>1
    <3> QED BY <3>2, <3>3
  <2> QED BY <2>3, <2>4
<1>3. /\ b \in Seq(Members(s)) /\ Len(b) = Len(s) - i
      /\ \A k \in 1..(Len(s) - i) : b[k] = s[i + k]
  <2>1. CASE i = Len(s)
    <3>1. b = <<>>
      BY <2>1, <1>1, SubSeqProperties
    <3> QED BY <3>1, <2>1, <1>1, EmptySeq
  <2>2. CASE i # Len(s)
    <3>1. i + 1 \in 1..Len(s) /\ Len(s) \in 1..Len(s) /\ i + 1 <= Len(s)
      BY <2>2, <1>1
    <3>2. /\ b \in Seq(Members(s)) /\ Len(b) = Len(s) - (i + 1) + 1
          /\ \A k \in 1..(Len(s) - (i + 1) + 1) : b[k] = s[(i + 1) + k - 1]
      BY <3>1, <1>1, SubSeqProperties
    <3>3. Len(s) - (i + 1) + 1 = Len(s) - i /\ \A k \in 1..(Len(s) - i) : (i + 1) + k - 1 = i + k
      BY <1>1
    <3> QED BY <3>2, <3>3
  <2> QED BY <2>1, <2>2
<1>4. /\ t \in Seq(Members(s)) /\ Len(t) = Len(a) + Len(b)
      /\ \A k \in 1..(Len(a) + Len(b)) : t[k] = IF k <= Len(a) THEN a[k] ELSE b[k - Len(a)]
  BY <1>2, <1>3, ConcatProperties
<1>5. Len(t) = Len(s) - 1
  BY <1>1, <1>2, <1>3, <1>4
<1>6. \A k \in 1..(i - 1) : t[k] = s[k]
  BY <1>1, <1>2, <1>3, <1>4
<1>7. ASSUME NEW k \in i..(Len(s) - 1)
      PROVE  t[k] = s[k + 1]
  <2>1. k \in 1..(Len(a) + Len(b)) /\ ~(k <= Len(a)) /\ k - Len(a) = k - i + 1
    BY <1>1, <1>2, <1>3
  <2>2. k - i + 1 \in 1..(Len(s) - i) /\ i + (k - i + 1) = k + 1
    BY <1>1
  <2> QED BY <2>1, <2>2, <1>3, <1>4
<1>8. IsList(t) /\ DOMAIN t = 1..Len(t) /\ Members(t) \subseteq Members(s)
  BY <1>4, ListOfSeq
<1> QED BY <1>1, <1>5, <1>6, <1>7, <1>8

\* The element taken out is the only member that may go.
LEMMA RemoveListMembers ==
  ASSUME NEW s, NEW i, NEW t,
         Len(s) \in Nat \ {0}, DOMAIN s = 1..Len(s), i \in DOMAIN s,
         DOMAIN t = 1..(Len(s) - 1),
         \A k \in 1..(i - 1) : t[k] = s[k],
         \A k \in i..(Len(s) - 1) : t[k] = s[k + 1]
  PROVE  Members(s) = Members(t) \union {s[i]}
<1>1. ASSUME NEW k \in DOMAIN s, k # i
      PROVE  s[k] \in Members(t)
  <2>1. CASE k < i
    <3>1. k \in 1..(i - 1) /\ k \in DOMAIN t
      BY <2>1
    <3> QED BY <3>1 DEF Members
  <2>2. CASE k > i
    <3>1. k - 1 \in i..(Len(s) - 1) /\ (k - 1) + 1 = k /\ k - 1 \in DOMAIN t
      BY <2>2
    <3>2. t[k - 1] = s[k]
      BY <3>1
    <3> QED BY <3>1, <3>2 DEF Members
  <2> QED BY <2>1, <2>2, <1>1
<1>2. ASSUME NEW k \in DOMAIN t
      PROVE  t[k] \in Members(s)
  <2>1. CASE k < i
    BY <2>1 DEF Members
  <2>2. CASE ~(k < i)
    <3>1. k \in i..(Len(s) - 1) /\ k + 1 \in DOMAIN s
      BY <2>2
    <3> QED BY <3>1 DEF Members
  <2> QED BY <2>1, <2>2
<1>3. Members(t) \subseteq Members(s)
  BY <1>2 DEF Members
<1> QED BY <1>1, <1>3 DEF Members

\* A non-empty set of numbers has a least one.
LEMMA LeastNumber ==
  ASSUME NEW S \in SUBSET Nat, S # {}
  PROVE  \E m \in S : \A k \in S : m <= k
<1>1. IsWellFoundedOn(OpToRel(<, Nat), Nat)
  BY NatLessThanWellFounded, Zenon
<1>2. PICK m \in S : \A k \in S : ~(<<k, m>> \in OpToRel(<, Nat))
  BY <1>1, WFMin, Zenon
<1>3. \A k \in S : ~(k < m)
  BY <1>2, Zenon DEF OpToRel
<1> QED BY <1>3

----------------------------------------------------------------------------
(* Kept. *)

\* What is kept of a list, from the front: f[n] of its first n elements.
KeptStep(list, wanted, f, n) ==
  IF n = 0 THEN <<>> ELSE IF list[n] \in wanted THEN Append(f[n - 1], list[n]) ELSE f[n - 1]
KeptUpto(list, wanted, k, f) == f = [n \in 0..k |-> KeptStep(list, wanted, f, n)]

\* The selection of a list, element by element.
LEMMA KeptUptoStep ==
  ASSUME NEW list, NEW wanted, NEW k \in Nat, NEW f, KeptUpto(list, wanted, k, f)
  PROVE  /\ DOMAIN f = 0..k /\ f[0] = <<>>
         /\ \A n \in 1..k : f[n] = KeptStep(list, wanted, f, n)
<1>1. f = [n \in 0..k |-> KeptStep(list, wanted, f, n)]
  BY DEF KeptUpto
<1>2. DOMAIN f = 0..k /\ \A n \in 0..k : f[n] = KeptStep(list, wanted, f, n)
  BY <1>1, Zenon
<1>3. 0 \in 0..k /\ \A n \in 1..k : n \in 0..k
  OBVIOUS
<1>4. f[0] = <<>>
  BY <1>2, <1>3 DEF KeptStep
<1> QED BY <1>2, <1>3, <1>4

\* There is such a function for every length.
LEMMA KeptUptoExists ==
  ASSUME NEW list, NEW wanted, NEW k \in Nat
  PROVE  \E f : KeptUpto(list, wanted, k, f)
<1> DEFINE Bad == {n \in Nat : ~\E f : KeptUpto(list, wanted, n, f)}
<1> SUFFICES ASSUME Bad # {} PROVE FALSE
  OBVIOUS
<1>1. PICK n \in Bad : \A m \in Bad : n <= m
  <2> HIDE DEF Bad
  <2>1. Bad \in SUBSET Nat
    BY DEF Bad
  <2> QED BY <2>1, LeastNumber
<1>2. n # 0
  <2>1. ASSUME n = 0 PROVE FALSE
    <3> DEFINE f == [m \in 0..0 |-> <<>>]
    <3>1. f = [m \in 0..n |-> KeptStep(list, wanted, f, m)]
      BY <2>1 DEF KeptStep
    <3> HIDE DEF f
    <3>2. KeptUpto(list, wanted, n, f)
      BY <3>1 DEF KeptUpto
    <3> QED BY <3>2
  <2> QED BY <2>1
<1>3. n - 1 \in Nat /\ n - 1 \notin Bad /\ n \in Nat
  BY <1>1, <1>2
<1>4. PICK g : KeptUpto(list, wanted, n - 1, g)
  BY <1>3
<1>5. /\ DOMAIN g = 0..(n - 1) /\ g[0] = <<>>
      /\ \A m \in 1..(n - 1) : g[m] = KeptStep(list, wanted, g, m)
  BY <1>3, <1>4, KeptUptoStep
<1> DEFINE f == [m \in 0..n |-> IF m = n THEN KeptStep(list, wanted, g, n) ELSE g[m]]
<1>6. \A m \in 0..n : f[m] = KeptStep(list, wanted, f, m)
  <2>1. ASSUME NEW m \in 0..n PROVE f[m] = KeptStep(list, wanted, f, m)
    <3>1. CASE m = 0
      BY <3>1, <1>2, <1>3, <1>5 DEF KeptStep
    <3>2. CASE m # 0
      <4>1. m - 1 \in 0..n /\ m - 1 # n /\ m \in 1..n
        BY <3>2, <1>3
      <4>2. f[m - 1] = g[m - 1]
        BY <4>1
      <4>3. CASE m = n
        BY <4>1, <4>2, <4>3 DEF KeptStep
      <4>4. CASE m # n
        <5>1. m \in 1..(n - 1)
          BY <4>1, <4>4, <1>3
        <5> QED BY <4>2, <4>4, <5>1, <1>5, <3>2 DEF KeptStep
      <4> QED BY <4>3, <4>4
    <3> QED BY <3>1, <3>2
  <2> QED BY <2>1
<1>7. f = [m \in 0..n |-> KeptStep(list, wanted, f, m)]
  BY <1>6
<1> HIDE DEF f
<1>8. KeptUpto(list, wanted, n, f)
  BY <1>7 DEF KeptUpto
<1> QED BY <1>1, <1>8

\* Two of them agree where both are.
LEMMA KeptUptoUnique ==
  ASSUME NEW list, NEW other, NEW wanted, NEW k \in Nat, NEW l \in Nat, k <= l,
         NEW f, KeptUpto(list, wanted, k, f), NEW g, KeptUpto(other, wanted, l, g),
         \A n \in 1..k : list[n] = other[n]
  PROVE  \A n \in 0..k : f[n] = g[n]
<1> DEFINE Bad == {n \in 0..k : f[n] # g[n]}
<1> SUFFICES ASSUME Bad # {} PROVE FALSE
  OBVIOUS
<1>1. PICK n \in Bad : \A m \in Bad : n <= m
  <2>1. Bad \in SUBSET Nat
    OBVIOUS
  <2> HIDE DEF Bad
  <2> QED BY <2>1, LeastNumber
<1>2. /\ f[0] = <<>> /\ g[0] = <<>>
      /\ \A m \in 1..k : f[m] = KeptStep(list, wanted, f, m)
      /\ \A m \in 1..l : g[m] = KeptStep(other, wanted, g, m)
  BY KeptUptoStep
<1>3. n \in 1..k /\ n \in 1..l /\ n - 1 \in 0..k
  BY <1>1, <1>2
<1>4. f[n - 1] = g[n - 1]
  BY <1>1, <1>3
<1>5. f[n] = KeptStep(list, wanted, f, n) /\ g[n] = KeptStep(other, wanted, g, n)
      /\ list[n] = other[n] /\ n # 0
  BY <1>2, <1>3
<1>6. f[n] = g[n]
  BY <1>4, <1>5 DEF KeptStep
<1> QED BY <1>1, <1>6

\* Kept is the last of the selections of its prefixes.
LEMMA KeptDef ==
  ASSUME NEW list, NEW wanted, Len(list) \in Nat
  PROVE  \E f : KeptUpto(list, wanted, Len(list), f) /\ Kept(list, wanted) = f[Len(list)]
<1> DEFINE f == CHOOSE f : KeptUpto(list, wanted, Len(list), f)
<1>1. KeptUpto(list, wanted, Len(list), f)
  BY KeptUptoExists, Zenon
<1>2. Kept(list, wanted) = f[Len(list)]
  BY DEF Kept, KeptUpto, KeptStep
<1> QED BY <1>1, <1>2, Zenon

\* Of nothing, nothing is kept.
LEMMA KeptOfNothing ==
  ASSUME NEW wanted
  PROVE  Kept(<<>>, wanted) = <<>>
<1>1. Len(<<>>) = 0
  BY EmptyList
<1>2. PICK f : KeptUpto(<<>>, wanted, 0, f) /\ Kept(<<>>, wanted) = f[0]
  BY <1>1, KeptDef
<1> QED BY <1>2, KeptUptoStep

\* What is kept of a list with one element more.
LEMMA KeptAppend ==
  ASSUME NEW list, IsList(list), NEW x, NEW wanted
  PROVE  Kept(Append(list, x), wanted) =
           IF x \in wanted THEN Append(Kept(list, wanted), x) ELSE Kept(list, wanted)
<1> DEFINE longer == Append(list, x)
           k == Len(list)
<1>1. /\ k \in Nat /\ Len(longer) = k + 1
      /\ \A n \in 1..k : longer[n] = list[n]
      /\ longer[k + 1] = x
  BY AppendList
<1>2. PICK f : KeptUpto(list, wanted, k, f) /\ Kept(list, wanted) = f[k]
  BY <1>1, KeptDef
<1>3. PICK g : KeptUpto(longer, wanted, k + 1, g) /\ Kept(longer, wanted) = g[k + 1]
  <2>1. Len(longer) \in Nat
    BY <1>1
  <2>2. \E g : KeptUpto(longer, wanted, Len(longer), g) /\ Kept(longer, wanted) = g[Len(longer)]
    BY <2>1, KeptDef
  <2> QED BY <1>1, <2>2
<1> HIDE DEF longer, k
<1>4. \A n \in 0..k : f[n] = g[n]
  <2>1. k \in Nat /\ k + 1 \in Nat /\ k <= k + 1 /\ \A n \in 1..k : list[n] = longer[n]
    BY <1>1
  <2> QED BY <2>1, <1>2, <1>3, KeptUptoUnique
<1>5. k + 1 \in Nat /\ k + 1 \in 1..(k + 1) /\ (k + 1) - 1 = k /\ k \in 0..k /\ k + 1 # 0
  BY <1>1
<1>6. g[k + 1] = KeptStep(longer, wanted, g, k + 1)
  BY <1>3, <1>5, KeptUptoStep
<1>7. g[k + 1] = IF x \in wanted THEN Append(f[k], x) ELSE f[k]
  BY <1>1, <1>4, <1>5, <1>6 DEF KeptStep
<1> QED BY <1>2, <1>3, <1>7 DEF longer

\* What is kept is a list of the wanted members.
LEMMA KeptMembers ==
  ASSUME NEW list, IsList(list), NEW wanted
  PROVE  /\ IsList(Kept(list, wanted))
         /\ Members(Kept(list, wanted)) = Members(list) \cap wanted
<1> DEFINE k == Len(list)
<1>1. k \in Nat /\ DOMAIN list = 1..k
  BY ListOfSeq DEF IsList
<1>2. PICK f : KeptUpto(list, wanted, k, f) /\ Kept(list, wanted) = f[k]
  BY <1>1, KeptDef
<1>3. /\ f[0] = <<>>
      /\ \A n \in 1..k : f[n] = KeptStep(list, wanted, f, n)
  BY <1>1, <1>2, KeptUptoStep
<1> DEFINE Good(n) == IsList(f[n]) /\ Members(f[n]) = {list[i] : i \in 1..n} \cap wanted
           Bad == {n \in 0..k : ~Good(n)}
<1>4. Bad = {}
  <2> SUFFICES ASSUME Bad # {} PROVE FALSE
    OBVIOUS
  <2>1. PICK n \in Bad : \A m \in Bad : n <= m
    <3>1. Bad \in SUBSET Nat
      BY <1>1
    <3> HIDE DEF Bad
    <3> QED BY <3>1, LeastNumber
  <2>2. Good(0)
    BY <1>3, EmptyList
  <2>3. n \in 1..k /\ n - 1 \in 0..k
    BY <2>1, <2>2, <1>1
  <2>4. Good(n - 1)
    <3>1. n - 1 \notin Bad
      <4>1. ~(n <= n - 1)
        BY <2>3
      <4> HIDE DEF Bad
      <4> QED BY <2>1, <4>1
    <3> QED BY <2>3, <3>1
  <2>5. 1..n = (1..(n - 1)) \cup {n}
    BY <2>3
  <2>6. {list[i] : i \in 1..n} = {list[i] : i \in 1..(n - 1)} \cup {list[n]}
    BY <2>5
  <2>7. f[n] = IF list[n] \in wanted THEN Append(f[n - 1], list[n]) ELSE f[n - 1]
    <3>1. f[n] = KeptStep(list, wanted, f, n) /\ n # 0
      BY <2>3, <1>3
    <3> QED BY <3>1 DEF KeptStep
  <2>8. CASE list[n] \in wanted
    <3>1. IsList(f[n]) /\ Members(f[n]) = Members(f[n - 1]) \cup {list[n]}
      BY <2>4, <2>7, <2>8, AppendList
    <3> QED BY <3>1, <2>1, <2>4, <2>6, <2>8
  <2>9. CASE list[n] \notin wanted
    BY <2>1, <2>4, <2>6, <2>7, <2>9
  <2> QED BY <2>8, <2>9
<1>5. Good(k)
  BY <1>1, <1>4
<1> QED BY <1>1, <1>2, <1>5 DEF Members

\* Two sets that agree on the members keep the same; all of a list is the list.
LEMMA KeptSame ==
  ASSUME NEW list, IsList(list), NEW wanted, NEW same, Members(list) \cap wanted = Members(list) \cap same
  PROVE  Kept(list, wanted) = Kept(list, same)
<1> DEFINE k == Len(list)
<1>1. k \in Nat /\ DOMAIN list = 1..k /\ \A n \in 1..k : list[n] \in Members(list)
  BY ListOfSeq DEF IsList, Members
<1>2. PICK f : KeptUpto(list, wanted, k, f) /\ Kept(list, wanted) = f[k]
  BY <1>1, KeptDef
<1>3. PICK g : KeptUpto(list, same, k, g) /\ Kept(list, same) = g[k]
  BY <1>1, KeptDef
<1>4. /\ f[0] = <<>> /\ g[0] = <<>>
      /\ \A n \in 1..k : f[n] = KeptStep(list, wanted, f, n)
      /\ \A n \in 1..k : g[n] = KeptStep(list, same, g, n)
  BY <1>1, <1>2, <1>3, KeptUptoStep
<1> DEFINE Bad == {n \in 0..k : f[n] # g[n]}
<1>5. Bad = {}
  <2> SUFFICES ASSUME Bad # {} PROVE FALSE
    OBVIOUS
  <2>1. PICK n \in Bad : \A m \in Bad : n <= m
    <3>1. Bad \in SUBSET Nat
      BY <1>1
    <3> HIDE DEF Bad
    <3> QED BY <3>1, LeastNumber
  <2>2. n \in 1..k /\ n - 1 \in 0..k
    BY <2>1, <1>1, <1>4
  <2>3. f[n - 1] = g[n - 1] /\ (list[n] \in wanted <=> list[n] \in same)
    BY <2>1, <2>2, <1>1
  <2>4. f[n] = KeptStep(list, wanted, f, n) /\ g[n] = KeptStep(list, same, g, n) /\ n # 0
    BY <2>2, <1>4
  <2>5. f[n] = g[n]
    BY <2>3, <2>4 DEF KeptStep
  <2> QED BY <2>1, <2>5
<1> QED BY <1>1, <1>2, <1>3, <1>5

\* A list whose members are all wanted is kept as it is.
LEMMA KeptAll ==
  ASSUME NEW list, IsList(list), NEW wanted, Members(list) \subseteq wanted
  PROVE  Kept(list, wanted) = list
<1> DEFINE k == Len(list)
<1>1. k \in Nat /\ DOMAIN list = 1..k /\ \A n \in 1..k : list[n] \in wanted
  BY ListOfSeq DEF IsList, Members
<1>2. PICK f : KeptUpto(list, wanted, k, f) /\ Kept(list, wanted) = f[k]
  BY <1>1, KeptDef
<1>3. /\ f[0] = <<>>
      /\ \A n \in 1..k : f[n] = KeptStep(list, wanted, f, n)
  BY <1>1, <1>2, KeptUptoStep
<1> DEFINE Good(n) == IsList(f[n]) /\ Len(f[n]) = n /\ \A i \in 1..n : f[n][i] = list[i]
           Bad == {n \in 0..k : ~Good(n)}
<1>4. Bad = {}
  <2> SUFFICES ASSUME Bad # {} PROVE FALSE
    OBVIOUS
  <2>1. PICK n \in Bad : \A m \in Bad : n <= m
    <3>1. Bad \in SUBSET Nat
      BY <1>1
    <3> HIDE DEF Bad
    <3> QED BY <3>1, LeastNumber
  <2>2. Good(0)
    BY <1>3, EmptyList
  <2>3. n \in 1..k /\ n - 1 \in 0..k
    BY <2>1, <2>2, <1>1
  <2>4. Good(n - 1)
    <3>1. n - 1 \notin Bad
      <4>1. ~(n <= n - 1)
        BY <2>3
      <4> HIDE DEF Bad
      <4> QED BY <2>1, <4>1
    <3> QED BY <2>3, <3>1
  <2>5. f[n] = Append(f[n - 1], list[n])
    <3>1. f[n] = KeptStep(list, wanted, f, n) /\ n # 0 /\ list[n] \in wanted
      BY <2>3, <1>1, <1>3
    <3> QED BY <3>1 DEF KeptStep
  <2>6. /\ IsList(f[n]) /\ Len(f[n]) = (n - 1) + 1
        /\ \A i \in 1..(n - 1) : f[n][i] = f[n - 1][i]
        /\ f[n][(n - 1) + 1] = list[n]
    BY <2>4, <2>5, AppendList
  <2>7. \A i \in 1..n : i \in 1..(n - 1) \/ i = (n - 1) + 1
    BY <2>3
  <2>8. (n - 1) + 1 = n
    BY <2>3
  <2> QED BY <2>1, <2>4, <2>6, <2>7, <2>8
<1>5. IsList(f[k]) /\ Len(f[k]) = k /\ \A i \in 1..k : f[k][i] = list[i]
  BY <1>1, <1>4
<1>6. DOMAIN f[k] = 1..k /\ f[k] \in Seq(Members(f[k])) /\ list \in Seq(Members(list))
  BY <1>5, ListOfSeq DEF IsList
<1>7. f[k] = list
  BY <1>1, <1>5, <1>6, SeqEqual
<1> QED BY <1>2, <1>7

\* Two things kept are in the order of the list.
LEMMA KeptOrder ==
  ASSUME NEW list, IsList(list), NEW wanted
  PROVE  \A i, j \in DOMAIN Kept(list, wanted) :
           i < j => \E a, b \in DOMAIN list :
                      a < b /\ Kept(list, wanted)[i] = list[a] /\ Kept(list, wanted)[j] = list[b]
<1> DEFINE k == Len(list)
<1>1. k \in Nat /\ DOMAIN list = 1..k
  BY ListOfSeq DEF IsList
<1>2. PICK f : KeptUpto(list, wanted, k, f) /\ Kept(list, wanted) = f[k]
  BY <1>1, KeptDef
<1>3. /\ f[0] = <<>>
      /\ \A n \in 1..k : f[n] = KeptStep(list, wanted, f, n)
  BY <1>1, <1>2, KeptUptoStep
<1> DEFINE From(x, n) == \E b \in 1..n : x = list[b]
           Ordered(g, n) == \A i, j \in DOMAIN g :
                              i < j => \E a, b \in 1..n : a < b /\ g[i] = list[a] /\ g[j] = list[b]
           Good(n) == /\ IsList(f[n])
                      /\ \A j \in DOMAIN f[n] : From(f[n][j], n)
                      /\ Ordered(f[n], n)
           Bad == {n \in 0..k : ~Good(n)}
<1>4. Bad = {}
  <2> SUFFICES ASSUME Bad # {} PROVE FALSE
    OBVIOUS
  <2>1. PICK n \in Bad : \A m \in Bad : n <= m
    <3>1. Bad \in SUBSET Nat
      BY <1>1
    <3> HIDE DEF Bad
    <3> QED BY <3>1, LeastNumber
  <2>2. Good(0)
    BY <1>3, EmptyList
  <2>3. n \in 1..k /\ n - 1 \in 0..k
    BY <2>1, <2>2, <1>1
  <2>4. Good(n - 1)
    <3>1. n - 1 \notin Bad
      <4>1. ~(n <= n - 1)
        BY <2>3
      <4> HIDE DEF Bad
      <4> QED BY <2>1, <4>1
    <3> QED BY <2>3, <3>1
  <2>5. f[n] = IF list[n] \in wanted THEN Append(f[n - 1], list[n]) ELSE f[n - 1]
    <3>1. f[n] = KeptStep(list, wanted, f, n) /\ n # 0
      BY <2>3, <1>3
    <3> QED BY <3>1 DEF KeptStep
  <2>6. CASE list[n] \notin wanted
    <3>1. f[n] = f[n - 1] /\ \A m \in 1..(n - 1) : m \in 1..n
      BY <2>3, <2>5, <2>6
    <3>2. Good(n)
      BY <2>4, <3>1
    <3> QED BY <2>1, <3>2
  <2>7. CASE list[n] \in wanted
    <3> DEFINE g == f[n - 1]
               l == Len(g)
    <3>1. /\ IsList(f[n]) /\ l \in Nat /\ DOMAIN g = 1..l /\ DOMAIN f[n] = 1..(l + 1)
          /\ \A i \in 1..l : f[n][i] = g[i]
          /\ f[n][l + 1] = list[n]
      BY <2>4, <2>5, <2>7, AppendList
    <3>2. \A m \in 1..(n - 1) : m \in 1..n /\ m < n
      BY <2>3
    <3>3. (\A j \in DOMAIN g : From(g[j], n - 1)) /\ Ordered(g, n - 1)
      BY <2>4
    <3>4. n \in 1..n
      BY <2>3
    <3>5. ASSUME NEW j \in DOMAIN f[n] PROVE From(f[n][j], n)
      <4>1. CASE j = l + 1
        BY <3>1, <3>4, <4>1
      <4>2. CASE j # l + 1
        <5>1. j \in DOMAIN g /\ f[n][j] = g[j]
          BY <3>1, <4>2
        <5>2. PICK b \in 1..(n - 1) : g[j] = list[b]
          BY <3>3, <5>1
        <5> QED BY <3>2, <5>1, <5>2
      <4> QED BY <4>1, <4>2
    <3>6. ASSUME NEW i \in DOMAIN f[n], NEW j \in DOMAIN f[n], i < j
          PROVE  \E a, b \in 1..n : a < b /\ f[n][i] = list[a] /\ f[n][j] = list[b]
      <4>1. i \in DOMAIN g /\ f[n][i] = g[i]
        BY <3>1, <3>6
      <4>2. CASE j = l + 1
        <5>1. PICK a \in 1..(n - 1) : g[i] = list[a]
          BY <3>3, <4>1
        <5> QED BY <3>1, <3>2, <3>4, <4>1, <4>2, <5>1
      <4>3. CASE j # l + 1
        <5>1. j \in DOMAIN g /\ f[n][j] = g[j]
          BY <3>1, <4>3
        <5>2. PICK a \in 1..(n - 1), b \in 1..(n - 1) : a < b /\ g[i] = list[a] /\ g[j] = list[b]
          BY <3>3, <3>6, <4>1, <5>1
        <5> QED BY <3>2, <4>1, <5>1, <5>2
      <4> QED BY <4>2, <4>3
    <3>7. Good(n)
      <4> HIDE DEF From
      <4> QED BY <3>1, <3>5, <3>6
    <3> QED BY <2>1, <3>7
  <2> QED BY <2>6, <2>7
<1>5. Good(k)
  BY <1>1, <1>4
<1> QED BY <1>1, <1>2, <1>5

----------------------------------------------------------------------------
(* What is picked out of a list, by places. *)

\* A part of a list, also an empty one.
LEMMA SubSeqOf ==
  ASSUME NEW S, NEW s, NEW m \in Int, NEW n \in Int, m <= n + 1, \A i \in m..n : s[i] \in S
  PROVE  /\ SubSeq(s, m, n) \in Seq(S) /\ Len(SubSeq(s, m, n)) = n - m + 1
         /\ \A i \in 1..(n - m + 1) : SubSeq(s, m, n)[i] = s[m + i - 1]
<1>1. /\ SubSeq(s, m, n) \in Seq(S)
      /\ Len(SubSeq(s, m, n)) = (IF m <= n THEN n - m + 1 ELSE 0)
      /\ \A i \in 1..(n - m + 1) : SubSeq(s, m, n)[i] = s[m + i - 1]
  BY SubSeqProperties
<1>2. ~(m <= n) => n - m + 1 = 0
  OBVIOUS
<1>3. (IF m <= n THEN n - m + 1 ELSE 0) = n - m + 1
  BY <1>2, Zenon
<1>4. Len(SubSeq(s, m, n)) = n - m + 1
  BY <1>1, <1>3, Zenon
<1> QED BY <1>1, <1>4, Zenon

\* A short list that holds the elements of a list at the given places, in their order.
Selects(short, list, at, g) ==
  /\ g \in [1..Len(short) -> at]
  /\ \A i \in 1..Len(short) : short[i] = list[g[i]]
  /\ \A i, j \in 1..Len(short) : i < j => g[i] < g[j]
  /\ \A a \in at : \E i \in 1..Len(short) : g[i] = a

\* One more place, behind the others.
LEMMA SelectsMore ==
  ASSUME NEW short, IsList(short), NEW list, NEW n \in Nat, NEW at \in SUBSET (1..(n - 1)),
         NEW g, Selects(short, list, at, g)
  PROVE  \E h : Selects(Append(short, list[n]), list, at \cup {n}, h)
<1> DEFINE k == Len(short)
           long == Append(short, list[n])
           h == [i \in 1..(k + 1) |-> IF i = k + 1 THEN n ELSE g[i]]
<1>1. /\ k \in Nat /\ Len(long) = k + 1
      /\ \A i \in 1..k : long[i] = short[i]
      /\ long[k + 1] = list[n]
  BY AppendList
<1>2. g \in [1..k -> at] /\ \A i \in 1..k : short[i] = list[g[i]]
  BY DEF Selects
<1>3. \A i, j \in 1..k : i < j => g[i] < g[j]
  BY DEF Selects
<1>4. \A a \in at : \E i \in 1..k : g[i] = a
  BY DEF Selects
<1> HIDE DEF k, long
<1>5. 1..(k + 1) = (1..k) \cup {k + 1} /\ k + 1 \notin 1..k
  BY <1>1
<1>6. h[k + 1] = n /\ \A i \in 1..k : h[i] = g[i]
  BY <1>1, <1>5
<1>7. h \in [1..(k + 1) -> at \cup {n}]
  BY <1>2, <1>5
<1> HIDE DEF h
<1>8. \A i \in 1..(k + 1) : long[i] = list[h[i]]
  BY <1>1, <1>2, <1>5, <1>6
<1>9. ASSUME NEW i \in 1..(k + 1), NEW j \in 1..(k + 1), i < j
      PROVE  h[i] < h[j]
  <2>1. i \in 1..k /\ g[i] \in at /\ h[i] = g[i]
    BY <1>1, <1>2, <1>6, <1>9
  <2>2. CASE j = k + 1
    <3>1. g[i] \in 1..(n - 1) /\ h[j] = n
      BY <1>6, <2>1, <2>2
    <3> QED BY <2>1, <3>1
  <2>3. CASE j # k + 1
    <3>1. j \in 1..k /\ h[j] = g[j]
      BY <1>5, <1>6, <1>9, <2>3
    <3> QED BY <1>3, <1>9, <2>1, <3>1
  <2> QED BY <2>2, <2>3
<1>10. \A a \in at \cup {n} : \E i \in 1..(k + 1) : h[i] = a
  BY <1>4, <1>5, <1>6
<1>11. Selects(long, list, at \cup {n}, h)
  BY <1>1, <1>7, <1>8, <1>9, <1>10 DEF Selects
<1> QED BY <1>11 DEF long

\* A selection of a selection: g takes some of the places to others.
Through(g, places, inner, outer) == inner \subseteq places /\ outer = {g[b] : b \in inner}

LEMMA SelectsOfSelected ==
  ASSUME NEW list, NEW mid, NEW at, NEW g, NEW short, NEW inner, NEW h, NEW outer,
         Selects(mid, list, at, g), Selects(short, mid, inner, h),
         Through(g, 1..Len(mid), inner, outer)
  PROVE  \E e : Selects(short, list, outer, e)
<1> DEFINE e == [i \in 1..Len(short) |-> g[h[i]]]
<1>1. h \in [1..Len(short) -> inner] /\ \A i \in 1..Len(short) : short[i] = mid[h[i]]
  BY DEF Selects
<1>2. \A i, j \in 1..Len(short) : i < j => h[i] < h[j]
  BY DEF Selects
<1>3. \A b \in inner : \E i \in 1..Len(short) : h[i] = b
  BY DEF Selects
<1>4. \A b \in 1..Len(mid) : mid[b] = list[g[b]]
  BY DEF Selects
<1>5. \A b, c \in 1..Len(mid) : b < c => g[b] < g[c]
  BY DEF Selects
<1>0. inner \subseteq 1..Len(mid) /\ outer = {g[b] : b \in inner}
  BY DEF Through
<1>6. e \in [1..Len(short) -> outer]
  BY <1>0, <1>1
<1>7. \A i \in 1..Len(short) : e[i] = g[h[i]] /\ h[i] \in inner /\ h[i] \in 1..Len(mid)
  BY <1>0, <1>1
<1> HIDE DEF e
<1>8. \A i \in 1..Len(short) : short[i] = list[e[i]]
  BY <1>1, <1>4, <1>7
<1>9. \A i, j \in 1..Len(short) : i < j => e[i] < e[j]
  BY <1>2, <1>5, <1>7
<1>10. \A a \in outer : \E i \in 1..Len(short) : e[i] = a
  BY <1>0, <1>3, <1>7
<1>11. Selects(short, list, outer, e)
  BY <1>6, <1>8, <1>9, <1>10 DEF Selects
<1> QED BY <1>11

\* Nothing is selected from nothing.
LEMMA SelectsNothing ==
  ASSUME NEW list
  PROVE  \E g : Selects(<<>>, list, {}, g)
<1> DEFINE g == [i \in 1..0 |-> 0]
<1>1. Len(<<>>) = 0 /\ 1..0 = {}
  BY EmptyList
<1>2. g \in [{} -> {}]
  BY <1>1
<1> HIDE DEF g
<1> QED BY <1>1, <1>2 DEF Selects

\* What is kept, by its places.
LEMMA KeptPlaces ==
  ASSUME NEW list, IsList(list), NEW wanted
  PROVE  \E g : Selects(Kept(list, wanted), list, {a \in 1..Len(list) : list[a] \in wanted}, g)
<1> DEFINE k == Len(list)
<1>1. k \in Nat /\ DOMAIN list = 1..k
  BY ListOfSeq DEF IsList
<1>2. PICK f : KeptUpto(list, wanted, k, f) /\ Kept(list, wanted) = f[k]
  BY <1>1, KeptDef
<1>3. /\ f[0] = <<>>
      /\ \A n \in 1..k : f[n] = KeptStep(list, wanted, f, n)
  BY <1>1, <1>2, KeptUptoStep
<1> DEFINE At(n) == {a \in 1..n : list[a] \in wanted}
           Good(n) == IsList(f[n]) /\ \E g : Selects(f[n], list, At(n), g)
           Bad == {n \in 0..k : ~Good(n)}
<1>4. Bad = {}
  <2> SUFFICES ASSUME Bad # {} PROVE FALSE
    OBVIOUS
  <2>1. PICK n \in Bad : \A m \in Bad : n <= m
    <3>1. Bad \in SUBSET Nat
      BY <1>1
    <3> HIDE DEF Bad
    <3> QED BY <3>1, LeastNumber
  <2>2. Good(0)
    <3>1. At(0) = {}
      OBVIOUS
    <3> HIDE DEF At
    <3> QED BY <1>3, <3>1, EmptyList, SelectsNothing
  <2>3. n \in 1..k /\ n - 1 \in 0..k /\ ~Good(n)
    <3> HIDE DEF Good
    <3>1. n \in 0..k /\ ~Good(n)
      BY <2>1
    <3>2. n # 0
      BY <2>2, <3>1
    <3> QED BY <1>1, <3>1, <3>2
  <2>4. Good(n - 1)
    <3>1. n - 1 \notin Bad
      <4>1. ~(n <= n - 1)
        BY <2>3
      <4> HIDE DEF Bad
      <4> QED BY <2>1, <4>1
    <3> HIDE DEF Good
    <3> QED BY <2>3, <3>1
  <2>5. f[n] = IF list[n] \in wanted THEN Append(f[n - 1], list[n]) ELSE f[n - 1]
    <3>1. f[n] = KeptStep(list, wanted, f, n) /\ n # 0
      BY <2>3, <1>3
    <3> QED BY <3>1 DEF KeptStep
  <2>6. /\ At(n) = IF list[n] \in wanted THEN At(n - 1) \cup {n} ELSE At(n - 1)
        /\ At(n - 1) \in SUBSET (1..(n - 1)) /\ n \in Nat
    <3>1. 1..n = (1..(n - 1)) \cup {n}
      BY <2>3
    <3> QED BY <2>3, <3>1
  <2> HIDE DEF At
  <2>7. PICK g : Selects(f[n - 1], list, At(n - 1), g)
    BY <2>4
  <2>8. CASE list[n] \in wanted
    <3>1. \E h : Selects(Append(f[n - 1], list[n]), list, At(n - 1) \cup {n}, h)
      BY <2>4, <2>6, <2>7, SelectsMore
    <3>2. IsList(Append(f[n - 1], list[n]))
      BY <2>4, AppendList
    <3> QED BY <2>3, <2>5, <2>6, <2>8, <3>1, <3>2
  <2>9. CASE list[n] \notin wanted
    BY <2>3, <2>4, <2>5, <2>6, <2>9
  <2> QED BY <2>8, <2>9
<1>5. Good(k)
  <2> HIDE DEF Good
  <2> QED BY <1>1, <1>4
<1> QED BY <1>2, <1>5
=============================================================================

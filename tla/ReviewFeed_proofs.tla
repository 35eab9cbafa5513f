------------------------- MODULE ReviewFeed_proofs -------------------------
(***************************************************************************)
(* ShownOnce, for any sessions, reviews, contents, faults and events.      *)
(*                                                                         *)
(* The mod forgets a review it has shown when the lines it reads no longer *)
(* hold it (stillInFeed).  That is safe because a feed file only loses     *)
(* reviews, but for those a rewrite brings back: what was seen once and is *)
(* gone from the lines is gone from the file (ViewOK).  So the watch holds *)
(* every review that was seen and that a poll of its session may meet      *)
(* again (WatchOK).  The polls that tick on older lines are those of a     *)
(* timer that was stopped or replaced, and they are out of date by then    *)
(* (MachineOK).                                                            *)
(***************************************************************************)
EXTENDS ReviewFeed, ListLemmas
LOCAL INSTANCE SequencesExt

-----------------------------------------------------------------------------
(* Lists.                                                                   *)

\* The community operator and the members of ListLemmas.
LEMMA ToSetMembers ==
  ASSUME NEW seq
  PROVE  ToSet(seq) = Members(seq)
BY DEF ToSet, Members

\* A list and another after it.
LEMMA ConcatList ==
  ASSUME NEW s, IsList(s), NEW t, IsList(t)
  PROVE  IsList(s \o t) /\ Members(s \o t) = Members(s) \cup Members(t)
<1> DEFINE S == Members(s) \cup Members(t)
<1>1. s \in Seq(S) /\ t \in Seq(S)
  <2>1. Members(s) \subseteq S /\ Members(t) \subseteq S
    OBVIOUS
  <2> QED BY <2>1, SeqMonotonic DEF IsList
<1>2. /\ Len(s) \in Nat /\ DOMAIN s = 1..Len(s)
      /\ Len(t) \in Nat /\ DOMAIN t = 1..Len(t)
  BY <1>1, LenProperties
<1>3. /\ s \o t \in Seq(S) /\ Len(s \o t) = Len(s) + Len(t)
      /\ \A i \in 1..(Len(s) + Len(t)) : (s \o t)[i] = IF i <= Len(s) THEN s[i] ELSE t[i - Len(s)]
  BY <1>1, ConcatProperties
<1>4. IsList(s \o t) /\ DOMAIN (s \o t) = 1..(Len(s) + Len(t)) /\ Members(s \o t) \subseteq S
  BY <1>3, ListOfSeq
<1>5. \A i \in DOMAIN s : i \in DOMAIN (s \o t) /\ (s \o t)[i] = s[i]
  BY <1>2, <1>3, <1>4
<1>6. \A i \in DOMAIN t : i + Len(s) \in DOMAIN (s \o t) /\ (s \o t)[i + Len(s)] = t[i]
  BY <1>2, <1>3, <1>4
<1>7. S \subseteq Members(s \o t)
  BY <1>5, <1>6 DEF Members
<1> QED BY <1>4, <1>7

\* A cut of a list adds nothing.
LEMMA SubList ==
  ASSUME NEW s, IsList(s), NEW m \in Nat \ {0}
  PROVE  /\ IsList(SubSeq(s, m, Len(s)))
         /\ Members(SubSeq(s, m, Len(s))) \subseteq Members(s)
<1>1. s \in Seq(Members(s)) /\ Len(s) \in Nat /\ DOMAIN s = 1..Len(s)
  BY ListOfSeq DEF IsList
<1>2. \A i \in m..Len(s) : s[i] \in Members(s)
  BY <1>1 DEF Members
<1>3. SubSeq(s, m, Len(s)) \in Seq(Members(s))
  BY <1>1, <1>2, SubSeqProperties
<1> QED BY <1>3, ListOfSeq

\* The members of a list of lists, one after the other.
FlattenStep(seqs, f, i) == IF i = 1 THEN seqs[i] ELSE f[i - 1] \o seqs[i]
FlattenUpto(seqs, n, f) == f = [i \in 1..n |-> FlattenStep(seqs, f, i)]

\* The concatenation of the first m lists, by recursion on m.
LEMMA FlattenUptoStep ==
  ASSUME NEW seqs, NEW n \in Nat \ {0}, NEW f, FlattenUpto(seqs, n, f)
  PROVE  DOMAIN f = 1..n /\ \A i \in 1..n : f[i] = FlattenStep(seqs, f, i)
<1>1. f = [i \in 1..n |-> FlattenStep(seqs, f, i)]
  BY DEF FlattenUpto
<1> QED BY <1>1, Zenon

\* There is a function with that recursion, for every length.
LEMMA FlattenUptoExists ==
  ASSUME NEW seqs, NEW k \in Nat \ {0}
  PROVE  \E f : FlattenUpto(seqs, k, f)
<1> DEFINE Bad == {n \in Nat \ {0} : ~\E f : FlattenUpto(seqs, n, f)}
<1> SUFFICES ASSUME Bad # {} PROVE FALSE
  OBVIOUS
<1>1. PICK n \in Bad : \A m \in Bad : n <= m
  <2> HIDE DEF Bad
  <2>1. Bad \in SUBSET Nat
    BY DEF Bad
  <2> QED BY <2>1, LeastNumber
<1>2. n # 1
  <2>1. ASSUME n = 1 PROVE FALSE
    <3> DEFINE f == [i \in 1..1 |-> seqs[1]]
    <3>1. f = [i \in 1..n |-> FlattenStep(seqs, f, i)]
      BY <2>1 DEF FlattenStep
    <3> HIDE DEF f
    <3>2. FlattenUpto(seqs, n, f)
      BY <3>1 DEF FlattenUpto
    <3> QED BY <3>2, <1>1
  <2> QED BY <2>1
<1>3. n - 1 \in Nat \ {0} /\ n - 1 \notin Bad /\ n \in Nat
  BY <1>1, <1>2
<1>4. PICK g : FlattenUpto(seqs, n - 1, g)
  BY <1>3
<1>5. DOMAIN g = 1..(n - 1) /\ \A m \in 1..(n - 1) : g[m] = FlattenStep(seqs, g, m)
  BY <1>3, <1>4, FlattenUptoStep
<1> DEFINE f == [m \in 1..n |-> IF m = n THEN FlattenStep(seqs, g, n) ELSE g[m]]
<1>6. \A m \in 1..n : f[m] = FlattenStep(seqs, f, m)
  <2>1. ASSUME NEW m \in 1..n PROVE f[m] = FlattenStep(seqs, f, m)
    <3>1. CASE m = 1
      <4>1. m \in 1..(n - 1) /\ m # n
        BY <3>1, <1>2, <1>3
      <4>2. f[m] = g[m]
        BY <4>1
      <4>3. g[m] = FlattenStep(seqs, g, m)
        BY <4>1, <1>5
      <4> QED BY <3>1, <4>2, <4>3 DEF FlattenStep
    <3>2. CASE m # 1
      <4>1. m - 1 \in 1..n /\ m - 1 # n
        BY <3>2, <1>3
      <4>2. f[m - 1] = g[m - 1]
        BY <4>1
      <4>3. CASE m = n
        BY <3>2, <4>2, <4>3 DEF FlattenStep
      <4>4. CASE m # n
        <5>1. m \in 1..(n - 1)
          BY <4>4, <1>3
        <5>2. f[m] = g[m] /\ g[m] = FlattenStep(seqs, g, m)
          BY <4>4, <5>1, <1>5
        <5> QED BY <3>2, <4>2, <5>2 DEF FlattenStep
      <4> QED BY <4>3, <4>4
    <3> QED BY <3>1, <3>2
  <2> QED BY <2>1
<1>7. f = [m \in 1..n |-> FlattenStep(seqs, f, m)]
  BY <1>6
<1> HIDE DEF f
<1>8. FlattenUpto(seqs, n, f)
  BY <1>7 DEF FlattenUpto
<1> QED BY <1>1, <1>8

\* What is in a concatenation of lists is in one of them.
LEMMA FlattenMembers ==
  ASSUME NEW seqs, IsList(seqs), \A i \in DOMAIN seqs : IsList(seqs[i])
  PROVE  /\ IsList(FlattenSeq(seqs))
         /\ \A x \in Members(FlattenSeq(seqs)) : \E i \in DOMAIN seqs : x \in Members(seqs[i])
<1> DEFINE k == Len(seqs)
           Good(s) == IsList(s) /\ \A x \in Members(s) : \E i \in 1..k : x \in Members(seqs[i])
<1>1. k \in Nat /\ DOMAIN seqs = 1..k
  BY ListOfSeq DEF IsList
<1>2. CASE k = 0
  <2>1. FlattenSeq(seqs) = seqs
    BY <1>2 DEF FlattenSeq
  <2>2. Members(seqs) = {}
    BY <1>1, <1>2 DEF Members
  <2> QED BY <2>1, <2>2
<1>3. CASE k # 0
  <2> DEFINE f == CHOOSE f : FlattenUpto(seqs, k, f)
  <2>1. FlattenUpto(seqs, k, f)
    BY <1>1, <1>3, FlattenUptoExists
  <2>2. FlattenSeq(seqs) = f[k]
    BY <1>3 DEF FlattenSeq, FlattenUpto, FlattenStep
  <2>3. \A n \in 1..k : f[n] = FlattenStep(seqs, f, n)
    BY <1>1, <1>3, <2>1, FlattenUptoStep
  <2> HIDE DEF f
  <2> DEFINE Bad == {n \in 1..k : ~Good(f[n])}
  <2>4. Bad = {}
    <3> SUFFICES ASSUME Bad # {} PROVE FALSE
      OBVIOUS
    <3>1. PICK n \in Bad : \A m \in Bad : n <= m
      <4>1. Bad \in SUBSET Nat
        BY <1>1
      <4> HIDE DEF Bad
      <4> QED BY <4>1, LeastNumber
    <3>2. \A i \in 1..k : Good(seqs[i])
      BY <1>1
    <3>3. CASE n = 1
      <4>1. f[n] = seqs[n]
        BY <2>3, <3>3 DEF FlattenStep
      <4> QED BY <3>1, <3>2, <4>1
    <3>4. CASE n # 1
      <4>1. n - 1 \in 1..k /\ ~(n <= n - 1)
        BY <1>1, <3>1, <3>4
      <4>2. n - 1 \notin Bad
        <5> HIDE DEF Bad
        <5> QED BY <3>1, <4>1
      <4>3. Good(f[n - 1]) /\ Good(seqs[n])
        BY <3>1, <3>2, <4>1, <4>2
      <4>4. f[n] = f[n - 1] \o seqs[n]
        BY <2>3, <3>1, <3>4 DEF FlattenStep
      <4>5. IsList(f[n]) /\ Members(f[n]) = Members(f[n - 1]) \cup Members(seqs[n])
        BY <4>3, <4>4, ConcatList
      <4> QED BY <3>1, <4>3, <4>5
    <3> QED BY <3>3, <3>4
  <2>5. Good(f[k])
    BY <1>1, <1>3, <2>4
  <2> QED BY <1>1, <2>2, <2>5
<1> QED BY <1>2, <1>3

-----------------------------------------------------------------------------
(* What is made of the lines.                                               *)

DistinctTurns(seq) == \A i, j \in DOMAIN seq : seq[i].turn = seq[j].turn => i = j

\* The units of lines.
LEMMA TurnsOfMembers ==
  ASSUME NEW seq
  PROVE  TurnsOf(seq) = {line.turn : line \in Members(seq)}
BY DEF TurnsOf, Members

\* The reviews among lines.
LEMMA RecordedTurnsMembers ==
  ASSUME NEW lines
  PROVE  RecordedTurns(lines) = {line.turn : line \in {line \in Members(lines) : line.kind = "RECORDED"}}
BY ToSetMembers DEF RecordedTurns

\* What WithoutTurns leaves.
LEMMA WithoutTurnsList ==
  ASSUME NEW seq, IsList(seq), NEW turns
  PROVE  /\ IsList(WithoutTurns(seq, turns))
         /\ Members(WithoutTurns(seq, turns)) \subseteq Members(seq)
         /\ TurnsOf(WithoutTurns(seq, turns)) = TurnsOf(seq) \ turns
<1> DEFINE wanted == {line \in ToSet(seq) : line.turn \notin turns}
<1>1. WithoutTurns(seq, turns) = Kept(seq, wanted)
  BY DEF WithoutTurns
<1>2. wanted = {line \in Members(seq) : line.turn \notin turns}
  BY ToSetMembers
<1>3. IsList(Kept(seq, wanted)) /\ Members(Kept(seq, wanted)) = Members(seq) \cap wanted
  <2> HIDE DEF wanted
  <2> QED BY KeptMembers
<1>4. Members(Kept(seq, wanted)) = {line \in Members(seq) : line.turn \notin turns}
  BY <1>2, <1>3
<1>5. {line.turn : line \in {line \in Members(seq) : line.turn \notin turns}}
        = {line.turn : line \in Members(seq)} \ turns
  OBVIOUS
<1> HIDE DEF wanted
<1> QED BY <1>1, <1>3, <1>4, <1>5, TurnsOfMembers

\* A selection has no unit twice if the list has none.
LEMMA KeptDistinctTurns ==
  ASSUME NEW seq, IsList(seq), DistinctTurns(seq), NEW wanted
  PROVE  DistinctTurns(Kept(seq, wanted))
<1> DEFINE kept == Kept(seq, wanted)
<1>1. IsList(kept)
  BY KeptMembers
<1>2. DOMAIN kept = 1..Len(kept) /\ Len(kept) \in Nat /\ DOMAIN seq = 1..Len(seq) /\ Len(seq) \in Nat
  BY <1>1, ListOfSeq DEF IsList
<1>3. \A i, j \in DOMAIN kept :
        i < j => \E a, b \in DOMAIN seq : a < b /\ kept[i] = seq[a] /\ kept[j] = seq[b]
  BY KeptOrder
<1> HIDE DEF kept
<1>4. ASSUME NEW i \in DOMAIN kept, NEW j \in DOMAIN kept, i < j
      PROVE  kept[i].turn # kept[j].turn
  <2>1. PICK a \in DOMAIN seq, b \in DOMAIN seq : a < b /\ kept[i] = seq[a] /\ kept[j] = seq[b]
    BY <1>3, <1>4
  <2>2. a # b
    BY <1>2, <2>1
  <2> QED BY <2>1, <2>2 DEF DistinctTurns
<1>5. ASSUME NEW i \in DOMAIN kept, NEW j \in DOMAIN kept, kept[i].turn = kept[j].turn
      PROVE  i = j
  <2>1. ~(i < j) /\ ~(j < i)
    BY <1>4, <1>5
  <2> QED BY <1>2, <2>1
<1>6. DistinctTurns(kept)
  BY <1>5 DEF DistinctTurns
<1> QED BY <1>6 DEF kept

\* The elements at chosen positions are elements of the list.
LEMMA AtList ==
  ASSUME NEW seq, IsList(seq), NEW kept
  PROVE  /\ IsList(At(seq, kept))
         /\ Members(At(seq, kept)) = {seq[i] : i \in kept \cap DOMAIN seq}
         /\ \A i, j \in DOMAIN At(seq, kept) :
              i < j => \E a, b \in kept \cap DOMAIN seq :
                         a < b /\ At(seq, kept)[i] = seq[a] /\ At(seq, kept)[j] = seq[b]
<1> DEFINE index == [i \in DOMAIN seq |-> i]
           keep == Kept(index, kept)
<1>1. Len(seq) \in Nat /\ DOMAIN seq = 1..Len(seq)
  BY ListOfSeq DEF IsList
<1>2. IsList(index) /\ Members(index) = DOMAIN seq /\ DOMAIN index = DOMAIN seq
  <2>1. index \in [1..Len(seq) -> Nat]
    BY <1>1
  <2>2. index \in Seq(Nat)
    BY <1>1, <2>1
  <2>3. IsList(index)
    BY <2>2, ListOfSeq
  <2>4. Members(index) = DOMAIN seq
    BY DEF Members
  <2> QED BY <2>3, <2>4
<1>3. IsList(keep) /\ Members(keep) = kept \cap DOMAIN seq
  <2> HIDE DEF index
  <2> QED BY <1>2, KeptMembers
<1>4. \A i, j \in DOMAIN keep :
        i < j => \E a, b \in DOMAIN index : a < b /\ keep[i] = index[a] /\ keep[j] = index[b]
  <2> HIDE DEF index
  <2> QED BY <1>2, KeptOrder
<1>5. \A i, j \in DOMAIN keep : i < j => keep[i] < keep[j]
  BY <1>4
<1>6. At(seq, kept) = [i \in DOMAIN keep |-> seq[keep[i]]]
  BY DEF At
<1>7. \A i \in DOMAIN keep : keep[i] \in kept \cap DOMAIN seq
  BY <1>3 DEF Members
<1> HIDE DEF keep, index
<1>8. Len(keep) \in Nat /\ DOMAIN keep = 1..Len(keep)
  BY <1>3, ListOfSeq DEF IsList
<1> DEFINE at == [i \in DOMAIN keep |-> seq[keep[i]]]
<1>9. IsList(at)
  <2>1. at \in [1..Len(keep) -> Members(seq)]
    BY <1>7, <1>8 DEF Members
  <2>2. at \in Seq(Members(seq))
    BY <1>8, <2>1
  <2> QED BY <2>2, ListOfSeq
<1>10. Members(at) = {seq[i] : i \in kept \cap DOMAIN seq}
  <2>1. Members(at) = {seq[keep[i]] : i \in DOMAIN keep}
    BY DEF Members
  <2>2. {seq[keep[i]] : i \in DOMAIN keep} = {seq[m] : m \in Members(keep)}
    BY DEF Members
  <2> QED BY <1>3, <2>1, <2>2
<1>11. \A i, j \in DOMAIN at :
         i < j => \E a, b \in kept \cap DOMAIN seq : a < b /\ at[i] = seq[a] /\ at[j] = seq[b]
  BY <1>5, <1>7
<1> HIDE DEF at
<1>12. At(seq, kept) = at
  BY <1>6 DEF at
<1> QED BY <1>9, <1>10, <1>11, <1>12

\* One line of each unit is left.
LEMMA UniqueByTurnList ==
  ASSUME NEW seq, IsList(seq)
  PROVE  /\ IsList(UniqueByTurn(seq))
         /\ Members(UniqueByTurn(seq)) \subseteq Members(seq)
         /\ TurnsOf(UniqueByTurn(seq)) = TurnsOf(seq)
         /\ DistinctTurns(UniqueByTurn(seq))
<1> DEFINE first == {i \in DOMAIN seq : \A j \in 1..(i - 1) : seq[j].turn # seq[i].turn}
           u == UniqueByTurn(seq)
<1>1. u = At(seq, first)
  BY DEF UniqueByTurn
<1>2. /\ IsList(u)
      /\ Members(u) = {seq[i] : i \in first \cap DOMAIN seq}
      /\ \A i, j \in DOMAIN u :
           i < j => \E a, b \in first \cap DOMAIN seq : a < b /\ u[i] = seq[a] /\ u[j] = seq[b]
  <2> HIDE DEF first, u
  <2> QED BY <1>1, AtList
<1>3. Len(seq) \in Nat /\ DOMAIN seq = 1..Len(seq)
  BY ListOfSeq DEF IsList
<1>4. Len(u) \in Nat /\ DOMAIN u = 1..Len(u)
  BY <1>2, ListOfSeq DEF IsList
<1> HIDE DEF u
<1>5. Members(u) \subseteq Members(seq)
  BY <1>2 DEF Members
<1>6. TurnsOf(seq) \subseteq TurnsOf(u)
  <2> SUFFICES ASSUME NEW t \in TurnsOf(seq) PROVE t \in TurnsOf(u)
    OBVIOUS
  <2> DEFINE S == {i \in DOMAIN seq : seq[i].turn = t}
  <2>1. S # {} /\ S \in SUBSET Nat
    BY <1>3 DEF TurnsOf
  <2>2. PICK m \in S : \A i \in S : m <= i
    <3> HIDE DEF S
    <3> QED BY <2>1, LeastNumber
  <2>3. \A j \in 1..(m - 1) : j \in DOMAIN seq /\ ~(m <= j)
    BY <1>3, <2>2
  <2>4. m \in first
    BY <2>2, <2>3
  <2>5. seq[m] \in Members(u) /\ seq[m].turn = t
    BY <1>2, <2>2, <2>4
  <2> QED BY <2>5, TurnsOfMembers
<1>7. TurnsOf(u) \subseteq TurnsOf(seq)
  BY <1>5, TurnsOfMembers
<1>8. ASSUME NEW i \in DOMAIN u, NEW j \in DOMAIN u, i < j
      PROVE  u[i].turn # u[j].turn
  <2>1. PICK a \in first, b \in first : a < b /\ u[i] = seq[a] /\ u[j] = seq[b]
    BY <1>2, <1>8
  <2>2. a \in 1..(b - 1)
    BY <1>3, <2>1
  <2>3. seq[a].turn # seq[b].turn
    BY <2>2
  <2> QED BY <2>1, <2>3
<1>9. DistinctTurns(u)
  <2>1. \A i, j \in DOMAIN u : u[i].turn = u[j].turn => ~(i < j) /\ ~(j < i)
    BY <1>8
  <2> QED BY <1>4, <2>1 DEF DistinctTurns
<1> QED BY <1>2, <1>5, <1>6, <1>7, <1>9 DEF u

\* A list of one.
LEMMA OneElement ==
  ASSUME NEW x
  PROVE  IsList(<<x>>) /\ Members(<<x>>) = {x}
<1>1. <<x>> \in Seq({x}) /\ Len(<<x>>) = 1 /\ <<x>>[1] = x
  OBVIOUS
<1>2. DOMAIN <<x>> = 1..1 /\ IsList(<<x>>)
  BY <1>1, ListOfSeq
<1> QED BY <1>1, <1>2 DEF Members

\* Parsing drops the lines that are not well formed.
LEMMA ParsedLines ==
  ASSUME NEW lines, IsList(lines)
  PROVE  /\ IsList(ParseReviewFeed(lines))
         /\ Members(ParseReviewFeed(lines)) = {line \in Members(lines) : WellFormed(line)}
<1> DEFINE wanted == {line \in ToSet(lines) : WellFormed(line)}
<1>1. ParseReviewFeed(lines) = Kept(lines, wanted)
  BY DEF ParseReviewFeed
<1>2. wanted = {line \in Members(lines) : WellFormed(line)}
  BY ToSetMembers
<1>3. IsList(Kept(lines, wanted)) /\ Members(Kept(lines, wanted)) = Members(lines) \cap wanted
  <2> HIDE DEF wanted
  <2> QED BY KeptMembers
<1> QED BY <1>1, <1>2, <1>3

\* Which reviews a file shows: those of its readable RECORDED lines.
LEMMA ReadableMembers ==
  ASSUME NEW lines, IsList(lines)
  PROVE  /\ \A t : t \in Readable(lines) <=>
                     \E line \in Members(lines) : /\ line.kind = "RECORDED" /\ WellFormed(line)
                                                  /\ t = line.turn
         /\ Readable(lines) \subseteq RecordedTurns(lines)
<1>1. Members(ParseReviewFeed(lines)) = {line \in Members(lines) : WellFormed(line)}
  BY ParsedLines
<1>2. Readable(lines) = {line.turn : line \in {line \in Members(ParseReviewFeed(lines)) : line.kind = "RECORDED"}}
  BY RecordedTurnsMembers DEF Readable
<1>3. RecordedTurns(lines) = {line.turn : line \in {line \in Members(lines) : line.kind = "RECORDED"}}
  BY RecordedTurnsMembers
<1> HIDE DEF WellFormed
<1> QED BY <1>1, <1>2, <1>3

\* A line more shows no review but its own.
LEMMA LineAppended ==
  ASSUME NEW lines, IsList(lines), NEW line
  PROVE  /\ IsList(Append(lines, line))
         /\ RecordedTurns(lines) \subseteq RecordedTurns(Append(lines, line))
         /\ \A t \in RecordedTurns(Append(lines, line)) :
              t \in RecordedTurns(lines) \/ (line.kind = "RECORDED" /\ t = line.turn)
         /\ \A t \in Readable(Append(lines, line)) :
              t \in Readable(lines) \/ (line.kind = "RECORDED" /\ t = line.turn)
<1>1. IsList(Append(lines, line)) /\ Members(Append(lines, line)) = Members(lines) \cup {line}
  BY AppendList
<1>2. \A t : t \in RecordedTurns(lines) <=> \E l \in Members(lines) : l.kind = "RECORDED" /\ t = l.turn
  BY RecordedTurnsMembers
<1>3. \A t : t \in RecordedTurns(Append(lines, line)) <=>
        \E l \in Members(Append(lines, line)) : l.kind = "RECORDED" /\ t = l.turn
  BY RecordedTurnsMembers
<1>4. \A t : t \in Readable(lines) <=>
        \E l \in Members(lines) : l.kind = "RECORDED" /\ WellFormed(l) /\ t = l.turn
  BY ReadableMembers
<1>5. \A t : t \in Readable(Append(lines, line)) <=>
        \E l \in Members(Append(lines, line)) : l.kind = "RECORDED" /\ WellFormed(l) /\ t = l.turn
  BY <1>1, ReadableMembers
<1> HIDE DEF WellFormed
<1> QED BY <1>1, <1>2, <1>3, <1>4, <1>5

\* newestLines adds nothing.
LEMMA NewestLinesList ==
  ASSUME NEW lines, IsList(lines), Len(lines) > FeedLimit
  PROVE  IsList(NewestLines(lines)) /\ RecordedTurns(NewestLines(lines)) \subseteq RecordedTurns(lines)
<1>1. Len(lines) \in Nat /\ FeedRetained \in Nat /\ FeedLimit \in Nat /\ FeedRetained < FeedLimit
  BY FeedAssumption, ListOfSeq DEF IsList
<1>2. Len(lines) - FeedRetained + 1 \in Nat \ {0}
  BY <1>1
<1>3. IsList(NewestLines(lines)) /\ Members(NewestLines(lines)) \subseteq Members(lines)
  BY <1>2, SubList DEF NewestLines
<1> QED BY <1>3, RecordedTurnsMembers

\* The reviews of one session's part of a feed.
LEMMA SessionFeedLists ==
  ASSUME NEW lines, IsList(lines), NEW s
  PROVE  /\ IsList(SessionFeedOf(lines, s).recorded) /\ IsList(SessionFeedOf(lines, s).started)
         /\ TurnsOf(SessionFeedOf(lines, s).recorded) = {t \in RecordedTurns(lines) : t.session = s}
<1> DEFINE of(kind) == {line \in ToSet(lines) : line.turn.session = s /\ line.kind = kind}
<1>1. /\ SessionFeedOf(lines, s).recorded = Kept(lines, of("RECORDED"))
      /\ SessionFeedOf(lines, s).started = Kept(lines, of("STARTED"))
  BY DEF SessionFeedOf
<1>2. of("RECORDED") = {line \in Members(lines) : line.turn.session = s /\ line.kind = "RECORDED"}
  BY ToSetMembers
<1> HIDE DEF of
<1>3. /\ IsList(Kept(lines, of("RECORDED"))) /\ IsList(Kept(lines, of("STARTED")))
      /\ Members(Kept(lines, of("RECORDED"))) = Members(lines) \cap of("RECORDED")
  BY KeptMembers
<1>4. TurnsOf(Kept(lines, of("RECORDED"))) = {line.turn : line \in Members(Kept(lines, of("RECORDED")))}
  BY TurnsOfMembers
<1>5. RecordedTurns(lines) = {line.turn : line \in {line \in Members(lines) : line.kind = "RECORDED"}}
  BY RecordedTurnsMembers
<1>6. \A line : line \in Members(Kept(lines, of("RECORDED"))) <=>
                  line \in Members(lines) /\ line.turn.session = s /\ line.kind = "RECORDED"
  BY <1>2, <1>3
<1>7. \A t : t \in TurnsOf(Kept(lines, of("RECORDED"))) <=> t \in RecordedTurns(lines) /\ t.session = s
  BY <1>4, <1>5, <1>6
<1>8. TurnsOf(Kept(lines, of("RECORDED"))) = {t \in RecordedTurns(lines) : t.session = s}
  BY <1>7
<1> QED BY <1>1, <1>3, <1>8

\* A baseline marks every review in the file as shown.
LEMMA BaselineShows ==
  ASSUME NEW lines, IsList(lines), NEW s, NEW nowMs
  PROVE  {t \in RecordedTurns(lines) : t.session = s} \subseteq BaselineWatch(lines, s, nowMs).shown
<1> DEFINE fd == SessionFeedOf(lines, s)
           open == OpenStarts(fd)
<1>1. BaselineWatch(lines, s, nowMs).shown = StillInFeed(TurnsOf(fd.recorded) \cup TurnsOf(Stale(open, nowMs)), fd)
  BY DEF BaselineWatch
<1>2. TurnsOf(fd.recorded) = {t \in RecordedTurns(lines) : t.session = s}
  BY SessionFeedLists
<1> QED BY <1>1, <1>2 DEF StillInFeed

\* What is said of a review names its unit.
LEMMA DescribeReviewList ==
  ASSUME NEW line
  PROVE  IsList(DescribeReview(line)) /\ \A x \in Members(DescribeReview(line)) : x.turn = line.turn
<1> DEFINE outcome == DisplayOutcomeOf(line.content.counts)
           a == IF outcome = "SKIPPED" THEN <<>> ELSE <<[kind |-> "line", turn |-> line.turn]>>
           b == IF outcome = "FAIL" THEN <<[kind |-> "toast", turn |-> line.turn]>> ELSE <<>>
<1>1. DescribeReview(line) = a \o b
  BY DEF DescribeReview
<1> HIDE DEF outcome
<1>2. IsList(a) /\ \A x \in Members(a) : x.turn = line.turn
  BY EmptyList, OneElement
<1>3. IsList(b) /\ \A x \in Members(b) : x.turn = line.turn
  BY EmptyList, OneElement
<1> HIDE DEF a, b
<1>4. IsList(a \o b) /\ Members(a \o b) = Members(a) \cup Members(b)
  BY <1>2, <1>3, ConcatList
<1> QED BY <1>1, <1>2, <1>3, <1>4

\* A notice names the unit it is of.
LEMMA ChainNoticeList ==
  ASSUME NEW line
  PROVE  IsList(ChainNoticeOf(line)) /\ \A x \in Members(ChainNoticeOf(line)) : x.turn = line.turn
<1>1. ChainNoticeOf(line) = <<>> \/ ChainNoticeOf(line) = <<[kind |-> line.content.chain.result, turn |-> line.turn]>>
  BY DEF ChainNoticeOf
<1> QED BY <1>1, EmptyList, OneElement

\* Config issues name units that are fresh.
LEMMA ConfigIssuesList ==
  ASSUME NEW fresh, IsList(fresh)
  PROVE  /\ IsList(ConfigIssues(fresh))
         /\ \A x \in Members(ConfigIssues(fresh)) : x.turn \in TurnsOf(fresh)
<1> DEFINE kept == {i \in DOMAIN fresh : /\ fresh[i].content.config # None
                                         /\ \A j \in 1..(i - 1) : fresh[j].content.config # fresh[i].content.config}
           told == At(fresh, kept)
           issues == [i \in DOMAIN told |-> [kind |-> told[i].content.config, turn |-> told[i].turn]]
<1>1. ConfigIssues(fresh) = issues
  BY DEF ConfigIssues
<1>2. IsList(told) /\ Members(told) = {fresh[i] : i \in kept \cap DOMAIN fresh}
  <2> HIDE DEF kept
  <2> QED BY AtList
<1>3. \A i \in DOMAIN told : told[i].turn \in TurnsOf(fresh)
  <2> HIDE DEF kept, told
  <2>1. \A x \in Members(told) : x.turn \in TurnsOf(fresh)
    BY <1>2 DEF TurnsOf
  <2> QED BY <2>1 DEF Members
<1> HIDE DEF told
<1>4. Len(told) \in Nat /\ DOMAIN told = 1..Len(told)
  BY <1>2, ListOfSeq DEF IsList
<1>5. IsList(issues)
  <2>1. issues \in [1..Len(told) -> Members(issues)]
    BY <1>4 DEF Members
  <2>2. issues \in Seq(Members(issues))
    BY <1>4, <2>1
  <2> QED BY <2>2 DEF IsList
<1>6. \A x \in Members(issues) : x.turn \in TurnsOf(fresh)
  BY <1>3 DEF Members
<1> QED BY <1>1, <1>5, <1>6

\* A status is only a status.
LEMMA WatchStatusList ==
  ASSUME NEW pending, NEW fresh, NEW stale
  PROVE  /\ IsList(WatchStatusOf(pending, fresh, stale))
         /\ \A x \in Members(WatchStatusOf(pending, fresh, stale)) : x.kind \in StatusKinds
<1> DEFINE status(kind, seq) == <<[kind |-> kind, turn |-> Last(seq).turn]>>
           all == WatchStatusOf(pending, fresh, stale)
<1>1. \/ all = status("reviewing", pending) \/ all = status("result", fresh)
      \/ all = status("no result yet", stale) \/ all = <<>>
  BY DEF WatchStatusOf
<1>2. \A kind \in StatusKinds : \A seq :
        IsList(status(kind, seq)) /\ \A x \in Members(status(kind, seq)) : x.kind \in StatusKinds
  BY OneElement
<1>3. {"reviewing", "result", "no result yet"} = StatusKinds
  BY DEF StatusKinds
<1> HIDE DEF status, all
<1>4. IsList(all) /\ \A x \in Members(all) : x.kind \in StatusKinds
  BY <1>1, <1>2, <1>3, EmptyList
<1> QED BY <1>4 DEF all

\* One tick: what is fresh is what was not shown, all of it is shown now, a
\* proposal of a unit is queued once, and what is said is about what is fresh.
TickOK(tick, w, lines, s) ==
  /\ \A t : t \in TurnsOf(tick.fresh) <=> t \in RecordedTurns(lines) /\ t.session = s /\ t \notin w.shown
  /\ \A t \in RecordedTurns(lines) : t.session = s => t \in tick.watch.shown
  /\ IsList(tick.shows) /\ IsList(tick.proposals) /\ DistinctTurns(tick.proposals)
  /\ \A i \in DOMAIN tick.shows :
       tick.shows[i].kind \in StatusKinds \/ tick.shows[i].turn \in TurnsOf(tick.fresh)

\* Every tick is such a one.
LEMMA TickFacts ==
  ASSUME NEW w, NEW lines, IsList(lines), NEW s, NEW nowMs
  PROVE  TickOK(TickWatch(w, lines, s, nowMs), w, lines, s)
<1> DEFINE tick == TickWatch(w, lines, s, nowMs)
           fd == SessionFeedOf(lines, s)
           fresh == UniqueByTurn(WithoutTurns(fd.recorded, w.shown))
           open == WithoutTurns(OpenStarts(fd), w.shown)
           pending == Pending(open, nowMs)
           proposed == {line \in ToSet(fresh) : line.content.proposal}
           reviews == [i \in DOMAIN fresh |-> DescribeReview(fresh[i])]
           notices == [i \in DOMAIN fresh |-> ChainNoticeOf(fresh[i])]
           status == WatchStatusOf(pending, fresh, Stale(open, nowMs))
<1>1. /\ tick.fresh = fresh
      /\ tick.watch.shown = NowShown(w, fresh, fd)
      /\ tick.proposals = Kept(fresh, proposed)
      /\ tick.shows = FlattenSeq(reviews) \o FlattenSeq(notices) \o ConfigIssues(fresh) \o status
  BY Zenon DEF TickWatch
<1> HIDE DEF tick
<1>2. IsList(fd.recorded) /\ TurnsOf(fd.recorded) = {t \in RecordedTurns(lines) : t.session = s}
  BY SessionFeedLists
<1> HIDE DEF fd, open
<1>3. /\ IsList(WithoutTurns(fd.recorded, w.shown))
      /\ TurnsOf(WithoutTurns(fd.recorded, w.shown)) = TurnsOf(fd.recorded) \ w.shown
  BY <1>2, WithoutTurnsList
<1>4. IsList(fresh) /\ TurnsOf(fresh) = TurnsOf(fd.recorded) \ w.shown /\ DistinctTurns(fresh)
  BY <1>3, UniqueByTurnList
<1> HIDE DEF fresh
<1>5. {t \in RecordedTurns(lines) : t.session = s} \subseteq tick.watch.shown
  BY <1>1, <1>2, <1>4 DEF NowShown, StillInFeed
<1>6. IsList(tick.proposals) /\ DistinctTurns(tick.proposals)
  <2> HIDE DEF proposed
  <2> QED BY <1>1, <1>4, KeptMembers, KeptDistinctTurns
<1>7. Len(fresh) \in Nat /\ DOMAIN fresh = 1..Len(fresh)
  BY <1>4, ListOfSeq DEF IsList
<1>8. /\ IsList(FlattenSeq(reviews))
      /\ \A x \in Members(FlattenSeq(reviews)) : x.turn \in TurnsOf(fresh)
  <2>1. \A i \in DOMAIN fresh : IsList(reviews[i]) /\ \A x \in Members(reviews[i]) : x.turn \in TurnsOf(fresh)
    BY DescribeReviewList DEF TurnsOf
  <2>2. IsList(reviews) /\ DOMAIN reviews = DOMAIN fresh
    <3>1. reviews \in [1..Len(fresh) -> Members(reviews)]
      BY <1>7 DEF Members
    <3>2. reviews \in Seq(Members(reviews))
      BY <1>7, <3>1
    <3> QED BY <3>2 DEF IsList
  <2> HIDE DEF reviews
  <2>3. /\ IsList(FlattenSeq(reviews))
        /\ \A x \in Members(FlattenSeq(reviews)) : \E i \in DOMAIN reviews : x \in Members(reviews[i])
    BY <2>1, <2>2, FlattenMembers
  <2> QED BY <2>1, <2>2, <2>3
<1>9. /\ IsList(FlattenSeq(notices))
      /\ \A x \in Members(FlattenSeq(notices)) : x.turn \in TurnsOf(fresh)
  <2>1. \A i \in DOMAIN fresh : IsList(notices[i]) /\ \A x \in Members(notices[i]) : x.turn \in TurnsOf(fresh)
    BY ChainNoticeList DEF TurnsOf
  <2>2. IsList(notices) /\ DOMAIN notices = DOMAIN fresh
    <3>1. notices \in [1..Len(fresh) -> Members(notices)]
      BY <1>7 DEF Members
    <3>2. notices \in Seq(Members(notices))
      BY <1>7, <3>1
    <3> QED BY <3>2 DEF IsList
  <2> HIDE DEF notices
  <2>3. /\ IsList(FlattenSeq(notices))
        /\ \A x \in Members(FlattenSeq(notices)) : \E i \in DOMAIN notices : x \in Members(notices[i])
    BY <2>1, <2>2, FlattenMembers
  <2> QED BY <2>1, <2>2, <2>3
<1>10. /\ IsList(ConfigIssues(fresh))
       /\ \A x \in Members(ConfigIssues(fresh)) : x.turn \in TurnsOf(fresh)
  BY <1>4, ConfigIssuesList
<1>11. IsList(status) /\ \A x \in Members(status) : x.kind \in StatusKinds
  BY WatchStatusList
<1> HIDE DEF reviews, notices, status, pending
<1> DEFINE two == FlattenSeq(reviews) \o FlattenSeq(notices)
           three == two \o ConfigIssues(fresh)
           four == three \o status
<1>12. IsList(two) /\ Members(two) = Members(FlattenSeq(reviews)) \cup Members(FlattenSeq(notices))
  BY <1>8, <1>9, ConcatList
<1> HIDE DEF two
<1>13. IsList(three) /\ Members(three) = Members(two) \cup Members(ConfigIssues(fresh))
  BY <1>10, <1>12, ConcatList
<1> HIDE DEF three
<1>14. IsList(four) /\ Members(four) = Members(three) \cup Members(status)
  BY <1>11, <1>13, ConcatList
<1>15. \A x \in Members(four) : x.kind \in StatusKinds \/ x.turn \in TurnsOf(fresh)
  BY <1>8, <1>9, <1>10, <1>11, <1>12, <1>13, <1>14
<1>16. tick.shows = four
  BY <1>1 DEF three, two
<1>17. \A i \in DOMAIN tick.shows :
         tick.shows[i].kind \in StatusKinds \/ tick.shows[i].turn \in TurnsOf(tick.fresh)
  <2> HIDE DEF four
  <2> QED BY <1>1, <1>15, <1>16 DEF Members
<1> HIDE DEF four
<1>18. TickOK(tick, w, lines, s)
  BY <1>1, <1>2, <1>4, <1>5, <1>6, <1>14, <1>16, <1>17 DEF TickOK
<1> QED BY <1>18 DEF tick

-----------------------------------------------------------------------------
(* The inductive invariant.                                                 *)

\* The reviews that were written, and lines that hold no other.
Written == {t \in Turns : wrote[t].recorded}
LinesOK(lines) == IsList(lines) /\ RecordedTurns(lines) \subseteq Written

Shapes ==
  /\ DOMAIN log = DOMAIN NoLog
  /\ "shown" \in DOMAIN watch
  /\ DOMAIN feeds = Sessions /\ DOMAIN trims = Turns /\ DOMAIN wrote = Turns
  /\ \A t \in Turns : DOMAIN wrote[t] = {"started", "recorded"}

FilesOK ==
  /\ \A s \in Sessions : LinesOK(feeds[s])
  /\ \A t \in Turns : trims[t] # None => LinesOK(trims[t])
  /\ cache # None => LinesOK(cache.lines)

\* A poll that has read and not ticked, and a handler that has read and not
\* made its baseline.
Waiting == poll # None /\ poll.stage = "clock"
HasRead == handler # None /\ handler.stage \in {"baseline clock", "arm clock"}
Arming == handler # None /\ handler.stage = "arm"
Baselining == handler # None /\ handler.stage \in {"baseline read", "baseline clock"}

\* The timer is of the watched session and of the newest generation, and only
\* the end of an arm runs beside it; so the lines a poll that is still current
\* ticks on, and those a handler makes its baseline of, are the cache's.
MachineOK ==
  /\ session \in Sessions
  /\ handler # None => handler.session \in Sessions
  /\ poller # None => /\ poller.owner = generation
                      /\ poller.session = target /\ target \in Sessions
                      /\ handler = None \/ Arming
  /\ generation \in Nat
  /\ Waiting => poll.owner \in Nat /\ poll.owner <= generation /\ LinesOK(poll.lines)
  /\ Waiting /\ poll.owner = generation =>
       /\ poller # None /\ poll.session = poller.session
       /\ log.blind \/ (~Unread(poll.session) /\ cache.lines = poll.lines)
  /\ HasRead => LinesOK(handler.lines)
  /\ HasRead /\ handler.known => ~Unread(handler.session) /\ cache.lines = handler.lines
  /\ Baselining \/ Arming => target = handler.session
  /\ Arming => "shown" \in DOMAIN handler.watch

InPoll == IF Waiting THEN RecordedTurns(poll.lines) ELSE {}
InHandler == IF HasRead THEN RecordedTurns(handler.lines) ELSE {}

\* The reviews that were shown, or marked as shown.
Seen == log.presented \cup log.old

\* A review that was read once is in the mod's newest lines as long as it is in
\* the file: the file only loses reviews, but for those a rewrite brings back.
ViewOK ==
  \A t \in (Seen \cup InPoll \cup InHandler) \ log.returned :
    /\ t \in Written
    /\ ~Unread(t.session) /\ t \in Readable(feeds[t.session]) => t \in RecordedTurns(cache.lines)

\* What the next poll of the session of t will take from the mod's own lines,
\* or from the file when the mod has no lines of it.
InView(t) ==
  t \in (IF Unread(t.session) THEN Readable(feeds[t.session]) ELSE RecordedTurns(cache.lines))

\* What was seen of session s, and a poll may meet again, is in shown.
Covers(shown, s) ==
  log.blind \/ \A t \in Seen \ (log.raced \cup log.returned) : t.session = s /\ InView(t) => t \in shown

\* The watch covers its session, once the baseline is made; so does the one an
\* arm has read and will write.
WatchOK ==
  /\ Baselining \/ Covers(watch.shown, target)
  /\ Arming => Covers(handler.watch.shown, target)

\* What was said, and what a poll is about to say, is about reviews it found
\* fresh; what it says again is excepted.
SaidOK ==
  /\ log.raced \subseteq log.presented
  /\ \A said \in log.said : said.turn \in log.presented
  /\ poll # None /\ poll.stage = "show" =>
       /\ IsList(poll.shows)
       /\ \A i \in DOMAIN poll.shows :
            \/ poll.shows[i].kind \in StatusKinds
            \/ /\ poll.shows[i].turn \in log.presented
               /\ poll.shows[i] \in log.said =>
                    log.blind \/ poll.shows[i].turn \in log.raced \cup log.returned

\* A proposal that is queued is marked as handled.
QueueOK == IsList(queue) /\ Members(queue) \subseteq handled

FeedInv ==
  Shapes /\ FilesOK /\ MachineOK /\ ViewOK /\ WatchOK /\ SaidOK /\ QueueOK /\ ShownOnce

\* Nothing was read, shown or queued yet.
LEMMA InitOK ==
  ASSUME DOMAIN None = {}, Init
  PROVE  FeedInv
<1>1. \A s \in Sessions : feeds[s] = <<>>
  BY DEF Init
<1>2. \A t \in Turns : trims[t] = None /\ wrote[t] = [started |-> 0, recorded |-> FALSE]
  BY DEF Init
<1>3. RecordedTurns(<<>>) = {}
  BY EmptyList, RecordedTurnsMembers
<1>4. Shapes
  BY <1>2 DEF Init, Shapes, EmptyWatch
<1>5. FilesOK
  BY <1>1, <1>2, <1>3, EmptyList DEF Init, FilesOK, LinesOK
<1>6. MachineOK
  BY DEF Init, MachineOK, Waiting, HasRead, Arming, Baselining
<1>7. log.presented = {} /\ log.old = {} /\ log.said = {} /\ log.raced = {} /\ log.again = {} /\ log.foreign = {}
  BY DEF Init, NoLog
<1>8. ViewOK
  BY <1>7 DEF Init, ViewOK, Seen, InPoll, InHandler, Waiting, HasRead
<1>9. WatchOK
  BY <1>7 DEF Init, WatchOK, Covers, Seen, Arming
<1>10. SaidOK
  BY <1>7 DEF Init, SaidOK
<1>11. QueueOK
  BY EmptyList DEF Init, QueueOK
<1>12. ShownOnce
  BY <1>7, EmptyList DEF Init, ShownOnce, NoRepeat, NoReplay, NothingForeign, QueuedOnce
<1> QED BY <1>4, <1>5, <1>6, <1>8, <1>9, <1>10, <1>11, <1>12 DEF FeedInv

-----------------------------------------------------------------------------
(* The workers.                                                             *)

\* A worker only adds what was not written before, but for what it brings back.
LEMMA WorkerStep ==
  ASSUME FeedInv, Shapes', FilesOK',
         UNCHANGED <<session, pollVars, handler, proposalVars>>,
         Written \subseteq Written',
         \A t \in Written : t \in Readable(feeds'[t.session]) =>
                              t \in Readable(feeds[t.session]) \/ t \in log'.returned,
         log.returned \subseteq log'.returned,
         /\ log'.presented = log.presented /\ log'.old = log.old /\ log'.said = log.said
         /\ log'.again = log.again /\ log'.raced = log.raced /\ log'.blind = log.blind
         /\ log'.foreign = log.foreign
  PROVE  FeedInv'
<1> USE DEF pollVars, proposalVars
<1>1. MachineOK'
  <2>1. MachineOK
    BY DEF FeedInv
  <2>2. Waiting => LinesOK(poll.lines)'
    BY <2>1 DEF MachineOK, LinesOK
  <2>3. HasRead => LinesOK(handler.lines)'
    BY <2>1 DEF MachineOK, LinesOK
  <2> QED BY <2>1, <2>2, <2>3 DEF MachineOK, Waiting, HasRead, Arming, Baselining, Unread
<1>2. ViewOK'
  BY DEF FeedInv, ViewOK, Seen, InPoll, InHandler, Waiting, HasRead, Unread
<1>3. ASSUME NEW t, t \in Seen' \ (log'.raced \cup log'.returned), InView(t)'
      PROVE  t \in Seen \ (log.raced \cup log.returned) /\ InView(t)
  <2>1. t \in Seen \ (log.raced \cup log.returned) /\ t \notin log'.returned
    BY <1>3 DEF Seen
  <2>2. t \in Written
    BY <2>1 DEF FeedInv, ViewOK
  <2> QED BY <1>3, <2>1, <2>2 DEF InView, Unread
<1>4. WatchOK'
  BY <1>3 DEF FeedInv, WatchOK, Covers, Baselining, Arming
<1>5. SaidOK' /\ QueueOK'
  BY DEF FeedInv, SaidOK, QueueOK
<1>6. ShownOnce'
  BY DEF FeedInv, ShownOnce, NoRepeat, NoReplay, NothingForeign, QueuedOnce
<1> QED BY <1>1, <1>2, <1>4, <1>5, <1>6 DEF FeedInv

\* A worker appends a line of t: its review, or a line that is none.
LEMMA AppendStep ==
  ASSUME FeedInv, NEW t \in Turns, NEW line, AppendLine(t, line), line.turn = t,
         Written' = IF line.kind = "RECORDED" THEN Written \cup {t} ELSE Written,
         line.kind = "RECORDED" => t \notin Written,
         DOMAIN wrote' = Turns, \A u \in Turns : DOMAIN wrote'[u] = {"started", "recorded"},
         UNCHANGED <<session, pollVars, handler, proposalVars, log>>
  PROVE  FeedInv'
<1> DEFINE s == t.session
           longer == Append(feeds[s], line)
<1>1. s \in Sessions
  BY FeedAssumption DEF Turns
<1>2. /\ feeds' = [feeds EXCEPT ![s] = longer]
      /\ trims' = [trims EXCEPT ![t] = IF Len(longer) > FeedLimit THEN NewestLines(longer) ELSE None]
  BY DEF AppendLine
<1>3. Shapes /\ FilesOK
  BY DEF FeedInv
<1>4. LinesOK(feeds[s])
  BY <1>1, <1>3 DEF FilesOK
<1>5. /\ IsList(longer)
      /\ RecordedTurns(longer) \subseteq Written'
      /\ \A u \in Readable(longer) : u \in Readable(feeds[s]) \/ u \notin Written
  BY <1>4, LineAppended DEF LinesOK
<1>6. Len(longer) > FeedLimit =>
        IsList(NewestLines(longer)) /\ RecordedTurns(NewestLines(longer)) \subseteq Written'
  BY <1>5, NewestLinesList
<1> HIDE DEF longer
<1>7. \A r \in Sessions : feeds'[r] = IF r = s THEN longer ELSE feeds[r]
  BY <1>1, <1>2, <1>3 DEF Shapes
<1>8. \A u \in Turns : trims'[u] = IF u = t THEN IF Len(longer) > FeedLimit THEN NewestLines(longer) ELSE None
                                   ELSE trims[u]
  BY <1>2, <1>3 DEF Shapes
<1>9. FilesOK'
  <2>1. cache' = cache
    BY DEF pollVars
  <2>2. Written \subseteq Written'
    OBVIOUS
  <2> QED BY <1>3, <1>5, <1>6, <1>7, <1>8, <2>1, <2>2 DEF FilesOK, LinesOK
<1>10. Shapes'
  BY <1>2, <1>3 DEF Shapes, pollVars
<1>11. \A u \in Written : u \in Readable(feeds'[u.session]) => u \in Readable(feeds[u.session])
  <2>1. \A u \in Written : u.session \in Sessions
    BY FeedAssumption DEF Turns, Written
  <2> QED BY <1>5, <1>7, <2>1
<1> QED BY <1>9, <1>10, <1>11, WorkerStep

\* A STARTED line shows no review.
LEMMA AppendsStartedStep ==
  ASSUME FeedInv, NEW t \in Turns, AppendsStarted(t)
  PROVE  FeedInv'
<1>1. Shapes
  BY DEF FeedInv
<1>2. wrote' = [wrote EXCEPT ![t].started = @ + 1]
  BY DEF AppendsStarted
<1>3. /\ Written' = Written
      /\ DOMAIN wrote' = Turns /\ \A u \in Turns : DOMAIN wrote'[u] = {"started", "recorded"}
  BY <1>1, <1>2 DEF Written, Shapes
<1>4. Started(t, now).turn = t /\ Started(t, now).kind = "STARTED"
  BY DEF Started
<1>5. AppendLine(t, Started(t, now)) /\ UNCHANGED <<session, pollVars, handler, proposalVars, log>>
  BY DEF AppendsStarted
<1> QED BY <1>3, <1>4, <1>5, AppendStep

\* A RECORDED line shows the review that is written by it.
LEMMA AppendsRecordedStep ==
  ASSUME FeedInv, NEW t \in Turns, NEW content, AppendsRecorded(t, content)
  PROVE  FeedInv'
<1> DEFINE line == Recorded(t, now, content)
<1>1. Shapes
  BY DEF FeedInv
<1>2. wrote' = [wrote EXCEPT ![t].recorded = TRUE] /\ ~wrote[t].recorded
  BY DEF AppendsRecorded
<1>3. /\ Written' = Written \cup {t} /\ t \notin Written
      /\ DOMAIN wrote' = Turns /\ \A u \in Turns : DOMAIN wrote'[u] = {"started", "recorded"}
  BY <1>1, <1>2 DEF Written, Shapes
<1>4. line.turn = t /\ line.kind = "RECORDED"
  BY DEF Recorded
<1>5. AppendLine(t, line) /\ UNCHANGED <<session, pollVars, handler, proposalVars, log>>
  BY DEF AppendsRecorded
<1> HIDE DEF line
<1> QED BY <1>3, <1>4, <1>5, AppendStep

\* What a rewrite brings back is said to be brought back.
LEMMA RewritesStep ==
  ASSUME FeedInv, NEW t \in Turns, Rewrites(t)
  PROVE  FeedInv'
<1> DEFINE s == t.session
<1>1. s \in Sessions
  BY FeedAssumption DEF Turns
<1>2. /\ trims[t] # None
      /\ feeds' = [feeds EXCEPT ![s] = trims[t]]
      /\ trims' = [trims EXCEPT ![t] = None]
      /\ wrote' = wrote
      /\ UNCHANGED <<session, pollVars, handler, proposalVars>>
  BY DEF Rewrites
<1>3. Shapes /\ FilesOK
  BY DEF FeedInv
<1>4. Written' = Written
  BY <1>2 DEF Written
<1>5. /\ log' = [log EXCEPT
                   !.lost = @ \cup (RecordedTurns(feeds[s]) \ RecordedTurns(trims[t])),
                   !.returned = @ \cup (Readable(trims[t]) \ Readable(feeds[s]))]
      /\ DOMAIN log = DOMAIN NoLog
  BY <1>3 DEF Rewrites, Shapes
<1>6. /\ log'.presented = log.presented /\ log'.old = log.old /\ log'.said = log.said
      /\ log'.again = log.again /\ log'.raced = log.raced /\ log'.blind = log.blind
      /\ log'.foreign = log.foreign
      /\ log'.returned = log.returned \cup (Readable(trims[t]) \ Readable(feeds[s]))
      /\ DOMAIN log' = DOMAIN log
  BY <1>5 DEF NoLog
<1>7. \A r \in Sessions : feeds'[r] = IF r = s THEN trims[t] ELSE feeds[r]
  BY <1>1, <1>2, <1>3 DEF Shapes
<1>8. FilesOK'
  <2>1. \A u \in Turns : trims'[u] = IF u = t THEN None ELSE trims[u]
    BY <1>2, <1>3 DEF Shapes
  <2>2. cache' = cache
    BY <1>2 DEF pollVars
  <2>3. LinesOK(trims[t])
    BY <1>2, <1>3 DEF FilesOK
  <2> QED BY <1>3, <1>4, <1>7, <2>1, <2>2, <2>3 DEF FilesOK, LinesOK
<1>9. Shapes'
  BY <1>2, <1>3, <1>6 DEF Shapes, pollVars
<1>10. \A u \in Written : u \in Readable(feeds'[u.session]) =>
                            u \in Readable(feeds[u.session]) \/ u \in log'.returned
  <2>1. \A u \in Written : u.session \in Sessions
    BY FeedAssumption DEF Turns, Written
  <2> QED BY <1>6, <1>7, <2>1
<1> QED BY <1>2, <1>4, <1>6, <1>8, <1>9, <1>10, WorkerStep

-----------------------------------------------------------------------------
(* The reads.                                                               *)

\* Reading the file of s: the lines a call gets are the cache's afterwards,
\* or none, when the read failed and the mod has no lines of that file.
LEMMA ReadFacts ==
  ASSUME FeedInv, NEW s \in Sessions, NEW fails \in BOOLEAN, NEW read, read = Read(s, fails),
         cache' = read.cache, UNCHANGED workerVars, DOMAIN None = {}
  PROVE  /\ LinesOK(read.lines)
         /\ cache' # None => LinesOK(cache'.lines)
         /\ fails /\ Unread(s) => cache' = cache /\ read.lines = <<>>
         /\ ~(fails /\ Unread(s)) =>
              cache' # None /\ cache'.session = s /\ read.lines = cache'.lines
         /\ cache' = cache \/ /\ cache' # None /\ cache'.session = s
                              /\ cache'.lines = ParseReviewFeed(feeds[s])
<1>1. FilesOK
  BY DEF FeedInv
<1>2. LinesOK(<<>>)
  BY EmptyList, RecordedTurnsMembers DEF LinesOK
<1>3. LinesOK(ParseReviewFeed(feeds[s]))
  <2>1. LinesOK(feeds[s])
    BY <1>1 DEF FilesOK
  <2>2. IsList(ParseReviewFeed(feeds[s]))
    BY <2>1, ParsedLines DEF LinesOK
  <2>3. RecordedTurns(ParseReviewFeed(feeds[s])) \subseteq RecordedTurns(feeds[s])
    BY <2>1, ReadableMembers DEF LinesOK, Readable
  <2> QED BY <2>1, <2>2, <2>3 DEF LinesOK
<1>4. CASE ~fails
  <2>1. /\ read.lines = ParseReviewFeed(feeds[s])
        /\ read.cache = [session |-> s, lines |-> ParseReviewFeed(feeds[s])]
    BY <1>4 DEF Read
  <2>2. cache' # None /\ cache'.session = s /\ cache'.lines = ParseReviewFeed(feeds[s])
    <3>1. DOMAIN cache' # DOMAIN None
      BY <2>1
    <3> QED BY <2>1, <3>1
  <2> QED BY <1>3, <1>4, <2>1, <2>2
<1>5. CASE fails
  <2>1. read.lines = (IF Unread(s) THEN <<>> ELSE cache.lines) /\ read.cache = cache
    BY <1>5 DEF Read
  <2> QED BY <1>1, <1>2, <1>5, <2>1 DEF FilesOK, Unread
<1> QED BY <1>4, <1>5

\* A read keeps what the views say: a review the mod has read is still in its
\* lines, or in the file no more.
LEMMA ReadView ==
  ASSUME FeedInv, NEW s \in Sessions, UNCHANGED workerVars,
         cache' = cache \/ /\ cache' # None /\ cache'.session = s
                           /\ cache'.lines = ParseReviewFeed(feeds[s]),
         NEW t \in Seen \cup InPoll \cup InHandler, t \notin log.returned
  PROVE  /\ cache' # None /\ cache'.session = t.session /\ t \in Readable(feeds[t.session]) =>
              t \in RecordedTurns(cache'.lines)
         /\ InView(t)' => InView(t)
<1>1. ~Unread(t.session) /\ t \in Readable(feeds[t.session]) => t \in RecordedTurns(cache.lines)
  BY DEF FeedInv, ViewOK
<1>2. feeds' = feeds
  BY DEF workerVars
<1>3. CASE cache' = cache
  BY <1>1, <1>2, <1>3 DEF Unread, InView
<1>4. CASE /\ cache' # None /\ cache'.session = s
           /\ cache'.lines = ParseReviewFeed(feeds[s])
  <2>1. RecordedTurns(cache'.lines) = Readable(feeds[s])
    BY <1>4 DEF Readable
  <2>2. cache'.session = t.session => s = t.session
    BY <1>4
  <2>3. InView(t)' => t \in Readable(feeds[t.session])
    BY <1>2, <1>4, <2>1 DEF InView, Unread
  <2> QED BY <1>1, <1>4, <2>1, <2>2, <2>3 DEF InView
<1> QED BY <1>3, <1>4

\* A poll reads: it is of the watched session, and its lines are the newest.
LEMMA PollReadsStep ==
  ASSUME FeedInv, NEW fails \in BOOLEAN, PollReads(fails), DOMAIN None = {}
  PROVE  FeedInv'
<1> DEFINE s == poller.session
<1>1. PICK read : /\ read = Read(s, fails)
                  /\ cache' = read.cache
                  /\ poll' = [stage |-> "clock", owner |-> poller.owner, session |-> s,
                              lines |-> read.lines, fails |-> fails]
  BY DEF PollReads
<1>2. /\ poller # None /\ poll = None
      /\ log' = [log EXCEPT !.blind = @ \/ (fails /\ Unread(s))]
      /\ UNCHANGED <<now, workerVars, session, watch, poller, target, generation, handler, proposalVars>>
  BY DEF PollReads
<1>3. Shapes /\ FilesOK /\ MachineOK /\ ViewOK /\ WatchOK /\ SaidOK /\ QueueOK /\ ShownOnce
  BY DEF FeedInv
<1>4. /\ log'.presented = log.presented /\ log'.old = log.old /\ log'.said = log.said
      /\ log'.again = log.again /\ log'.raced = log.raced /\ log'.returned = log.returned
      /\ log'.foreign = log.foreign /\ DOMAIN log' = DOMAIN log
      /\ log'.blind = (log.blind \/ (fails /\ Unread(s)))
  BY <1>2, <1>3 DEF Shapes, NoLog
<1>5. s \in Sessions /\ s = target /\ poller.owner = generation /\ (handler = None \/ Arming)
  BY <1>2, <1>3 DEF MachineOK
<1>6. /\ LinesOK(read.lines)
      /\ cache' # None => LinesOK(cache'.lines)
      /\ fails /\ Unread(s) => cache' = cache /\ read.lines = <<>>
      /\ ~(fails /\ Unread(s)) =>
           cache' # None /\ cache'.session = s /\ read.lines = cache'.lines
      /\ cache' = cache \/ /\ cache' # None /\ cache'.session = s
                           /\ cache'.lines = ParseReviewFeed(feeds[s])
  BY <1>1, <1>2, <1>5, ReadFacts, Zenon
<1>7. poll' # None
  <2>1. DOMAIN poll' # DOMAIN None
    BY <1>1
  <2> QED BY <2>1
<1>8. /\ poll'.stage = "clock" /\ poll'.owner = generation /\ poll'.session = s
      /\ poll'.lines = read.lines
  BY <1>1, <1>5
<1>9. Written' = Written
  BY <1>2 DEF Written, workerVars
<1>10. Shapes' /\ FilesOK'
  BY <1>2, <1>3, <1>4, <1>6, <1>9 DEF Shapes, FilesOK, LinesOK, workerVars
<1>11. MachineOK'
  <2>1. ~HasRead
    BY <1>5 DEF HasRead, Arming
  <2>2. /\ (HasRead <=> HasRead') /\ (Arming <=> Arming') /\ (Baselining <=> Baselining')
    BY <1>2 DEF HasRead, Arming, Baselining
  <2>3. LinesOK(poll.lines)'
    BY <1>6, <1>8, <1>9 DEF LinesOK
  <2>4. log'.blind \/ (~Unread(poll.session) /\ cache.lines = poll.lines)'
    BY <1>4, <1>6, <1>8 DEF Unread
  <2> QED BY <1>2, <1>3, <1>5, <1>7, <1>8, <2>1, <2>2, <2>3, <2>4 DEF MachineOK, Waiting
<1>12. \A t \in (Seen \cup InPoll \cup InHandler) \ log.returned :
         /\ cache' # None /\ cache'.session = t.session /\ t \in Readable(feeds[t.session]) =>
              t \in RecordedTurns(cache'.lines)
         /\ InView(t)' => InView(t)
  BY <1>2, <1>5, <1>6, ReadView
<1>13. ViewOK'
  <2>1. InHandler' = InHandler /\ Seen' = Seen /\ InPoll' = RecordedTurns(read.lines)
    BY <1>2, <1>4, <1>7, <1>8 DEF InHandler, HasRead, Seen, InPoll, Waiting
  <2>2. ASSUME NEW t \in RecordedTurns(read.lines)
        PROVE  t \in Written /\ (cache' # None /\ cache'.session = t.session => t \in RecordedTurns(cache'.lines))
    <3>1. read.lines # <<>>
      BY <2>2, EmptyList, RecordedTurnsMembers
    <3>2. read.lines = cache'.lines
      BY <1>6, <3>1
    <3> QED BY <1>6, <2>2, <3>2 DEF LinesOK
  <2>3. ASSUME NEW t \in Seen \cup InHandler, t \notin log.returned
        PROVE  /\ t \in Written
               /\ cache' # None /\ cache'.session = t.session /\ t \in Readable(feeds[t.session]) =>
                    t \in RecordedTurns(cache'.lines)
    BY <1>3, <1>12, <2>3 DEF ViewOK
  <2>4. feeds' = feeds
    BY <1>2 DEF workerVars
  <2> QED BY <1>4, <1>9, <2>1, <2>2, <2>3, <2>4 DEF ViewOK, Unread
<1>14. WatchOK'
  <2>1. ASSUME NEW t, t \in Seen' \ (log'.raced \cup log'.returned), InView(t)'
        PROVE  t \in Seen \ (log.raced \cup log.returned) /\ InView(t)
    <3>1. t \in Seen \ (log.raced \cup log.returned) /\ t \notin log.returned
      BY <1>4, <2>1 DEF Seen
    <3> QED BY <1>12, <2>1, <3>1
  <2> QED BY <1>2, <1>3, <1>4, <2>1 DEF WatchOK, Covers, Baselining, Arming
<1>15. SaidOK' /\ QueueOK'
  BY <1>2, <1>3, <1>4, <1>8 DEF SaidOK, QueueOK, proposalVars
<1>16. ShownOnce'
  BY <1>2, <1>3, <1>4 DEF ShownOnce, NoRepeat, NoReplay, NothingForeign, QueuedOnce, proposalVars
<1> QED BY <1>10, <1>11, <1>13, <1>14, <1>15, <1>16 DEF FeedInv

\* A handler reads: no timer runs, so no poll is current.
LEMMA HandlerReadsStep ==
  ASSUME FeedInv, NEW fails \in BOOLEAN, HandlerReads(fails), DOMAIN None = {}
  PROVE  FeedInv'
<1> DEFINE s == handler.session
<1>1. PICK read : /\ read = Read(s, fails)
                  /\ cache' = read.cache
                  /\ handler' = [stage |-> IF handler.stage = "arm read" THEN "arm clock" ELSE "baseline clock",
                                 session |-> s, lines |-> read.lines,
                                 known |-> ~(fails /\ Unread(s))]
  BY DEF HandlerReads
<1>2. /\ handler # None /\ handler.stage \in {"baseline read", "arm read"}
      /\ UNCHANGED <<now, workerVars, session, watch, poller, target, generation, poll, proposalVars, log>>
  BY DEF HandlerReads
<1>3. Shapes /\ FilesOK /\ MachineOK /\ ViewOK /\ WatchOK /\ SaidOK /\ QueueOK /\ ShownOnce
  BY DEF FeedInv
<1>4. s \in Sessions
  BY <1>2, <1>3 DEF MachineOK
<1>5. poller = None
  BY <1>2, <1>3 DEF MachineOK, Arming
<1>6. /\ LinesOK(read.lines)
      /\ cache' # None => LinesOK(cache'.lines)
      /\ fails /\ Unread(s) => cache' = cache /\ read.lines = <<>>
      /\ ~(fails /\ Unread(s)) =>
           cache' # None /\ cache'.session = s /\ read.lines = cache'.lines
      /\ cache' = cache \/ /\ cache' # None /\ cache'.session = s
                           /\ cache'.lines = ParseReviewFeed(feeds[s])
  BY <1>1, <1>2, <1>4, ReadFacts, Zenon
<1>7. handler' # None
  <2>1. DOMAIN handler' # DOMAIN None
    BY <1>1
  <2> QED BY <2>1
<1>8. /\ handler'.stage = (IF handler.stage = "arm read" THEN "arm clock" ELSE "baseline clock")
      /\ handler'.session = s /\ handler'.lines = read.lines
      /\ handler'.known = ~(fails /\ Unread(s))
  BY <1>1
<1>9. Written' = Written
  BY <1>2 DEF Written, workerVars
<1>10. HasRead' /\ ~Arming' /\ ~Arming /\ (Baselining' <=> Baselining)
  BY <1>2, <1>7, <1>8 DEF HasRead, Arming, Baselining
<1>11. Shapes' /\ FilesOK'
  BY <1>2, <1>3, <1>6, <1>9 DEF Shapes, FilesOK, LinesOK, workerVars
<1>12. MachineOK'
  <2>1. LinesOK(handler.lines)'
    BY <1>6, <1>8, <1>9 DEF LinesOK
  <2>2. (handler.known => ~Unread(handler.session) /\ cache.lines = handler.lines)'
    BY <1>6, <1>8 DEF Unread
  <2>3. Waiting => LinesOK(poll.lines)'
    BY <1>2, <1>3, <1>9 DEF MachineOK, LinesOK
  <2>4. ~(Waiting /\ poll.owner = generation)
    BY <1>3, <1>5 DEF MachineOK
  <2>5. handler'.session \in Sessions
    BY <1>4, <1>8
  <2>6. Baselining' => target' = handler'.session
    BY <1>2, <1>3, <1>8, <1>10 DEF MachineOK
  <2>7. /\ session \in Sessions /\ generation \in Nat
        /\ Waiting => poll.owner \in Nat /\ poll.owner <= generation
    BY <1>3 DEF MachineOK
  <2>8. /\ session' = session /\ generation' = generation /\ poller' = poller /\ poll' = poll
    BY <1>2
  <2> QED BY <1>5, <1>10, <2>1, <2>2, <2>3, <2>4, <2>5, <2>6, <2>7, <2>8 DEF MachineOK, Waiting
<1>13. \A t \in (Seen \cup InPoll \cup InHandler) \ log.returned :
         /\ cache' # None /\ cache'.session = t.session /\ t \in Readable(feeds[t.session]) =>
              t \in RecordedTurns(cache'.lines)
         /\ InView(t)' => InView(t)
  BY <1>2, <1>4, <1>6, ReadView
<1>14. ViewOK'
  <2>1. InPoll' = InPoll /\ Seen' = Seen /\ InHandler' = RecordedTurns(read.lines)
    BY <1>2, <1>8, <1>10 DEF InHandler, Seen, InPoll, Waiting
  <2>2. ASSUME NEW t \in RecordedTurns(read.lines)
        PROVE  t \in Written /\ (cache' # None /\ cache'.session = t.session => t \in RecordedTurns(cache'.lines))
    <3>1. read.lines # <<>>
      BY <2>2, EmptyList, RecordedTurnsMembers
    <3>2. read.lines = cache'.lines
      BY <1>6, <3>1
    <3> QED BY <1>6, <2>2, <3>2 DEF LinesOK
  <2>3. ASSUME NEW t \in Seen \cup InPoll, t \notin log.returned
        PROVE  /\ t \in Written
               /\ cache' # None /\ cache'.session = t.session /\ t \in Readable(feeds[t.session]) =>
                    t \in RecordedTurns(cache'.lines)
    BY <1>3, <1>13, <2>3 DEF ViewOK
  <2>4. feeds' = feeds /\ log' = log
    BY <1>2 DEF workerVars
  <2> QED BY <1>9, <2>1, <2>2, <2>3, <2>4 DEF ViewOK, Unread
<1>15. WatchOK'
  <2>1. ASSUME NEW t, t \in Seen' \ (log'.raced \cup log'.returned), InView(t)'
        PROVE  t \in Seen \ (log.raced \cup log.returned) /\ InView(t)
    <3>1. t \in Seen \ (log.raced \cup log.returned) /\ t \notin log.returned
      BY <1>2, <2>1 DEF Seen
    <3> QED BY <1>13, <2>1, <3>1
  <2> QED BY <1>2, <1>3, <1>10, <2>1 DEF WatchOK, Covers
<1>16. SaidOK' /\ QueueOK' /\ ShownOnce'
  BY <1>2, <1>3
     DEF SaidOK, QueueOK, proposalVars, ShownOnce, NoRepeat, NoReplay, NothingForeign, QueuedOnce
<1> QED BY <1>11, <1>12, <1>14, <1>15, <1>16 DEF FeedInv

-----------------------------------------------------------------------------
(* A poll shows what it read.                                               *)

\* The proposals of lines of different units are queued once.
LEMMA QueueProposalsOnce ==
  ASSUME QueueOK, QueuedOnce, NEW lines, IsList(lines), DistinctTurns(lines), QueueProposals(lines)
  PROVE  QueueOK' /\ QueuedOnce'
<1> DEFINE wanted == {line \in ToSet(lines) : line.turn \notin handled}
           fresh == WithoutTurns(lines, handled)
           more == [i \in DOMAIN fresh |-> fresh[i].turn]
<1>1. handled' = handled \cup TurnsOf(fresh) /\ queue' = queue \o more
  BY DEF QueueProposals
<1>2. IsList(fresh) /\ TurnsOf(fresh) = TurnsOf(lines) \ handled
  BY WithoutTurnsList
<1>3. DistinctTurns(fresh)
  <2>1. fresh = Kept(lines, wanted)
    BY DEF WithoutTurns
  <2> HIDE DEF wanted, fresh
  <2> QED BY <2>1, KeptDistinctTurns
<1> HIDE DEF fresh
<1>4. Len(fresh) \in Nat /\ DOMAIN fresh = 1..Len(fresh)
  BY <1>2, ListOfSeq DEF IsList
<1>5. IsList(more) /\ Members(more) = TurnsOf(fresh) /\ DOMAIN more = DOMAIN fresh
  <2>1. more \in [1..Len(fresh) -> Members(more)]
    BY <1>4 DEF Members
  <2>2. more \in Seq(Members(more))
    BY <1>4, <2>1
  <2>3. Members(more) = TurnsOf(fresh)
    BY DEF Members, TurnsOf
  <2> QED BY <2>2, <2>3 DEF IsList
<1>6. \A i, j \in DOMAIN more : more[i] = more[j] => i = j
  BY <1>3 DEF DistinctTurns
<1> HIDE DEF more
<1>7. IsList(queue) /\ Members(queue) \subseteq handled
  BY DEF QueueOK
<1>8. IsList(queue') /\ Members(queue') = Members(queue) \cup Members(more)
  BY <1>1, <1>5, <1>7, ConcatList
<1>9. QueueOK'
  <2>1. Members(queue') \subseteq handled'
    BY <1>1, <1>5, <1>7, <1>8
  <2> QED BY <1>8, <2>1 DEF QueueOK
<1>10. /\ Len(queue) \in Nat /\ DOMAIN queue = 1..Len(queue)
       /\ Len(more) \in Nat /\ DOMAIN more = 1..Len(more)
  BY <1>5, <1>7, ListOfSeq DEF IsList
<1>11. /\ Len(queue') = Len(queue) + Len(more)
       /\ \A i \in 1..(Len(queue) + Len(more)) :
            queue'[i] = IF i <= Len(queue) THEN queue[i] ELSE more[i - Len(queue)]
  <2> DEFINE S == Members(queue) \cup Members(more)
  <2>1. queue \in Seq(S) /\ more \in Seq(S)
    <3>1. Members(queue) \subseteq S /\ Members(more) \subseteq S
      OBVIOUS
    <3> QED BY <1>5, <1>7, <3>1, SeqMonotonic DEF IsList
  <2> QED BY <1>1, <2>1, ConcatProperties
<1>12. DOMAIN queue' = 1..(Len(queue) + Len(more))
  BY <1>8, <1>11, ListOfSeq DEF IsList
<1>13. \A i \in DOMAIN queue, j \in DOMAIN more : queue[i] # more[j]
  <2>1. \A i \in DOMAIN queue : queue[i] \in handled
    BY <1>7 DEF Members
  <2>2. \A j \in DOMAIN more : more[j] \in TurnsOf(fresh)
    BY <1>5 DEF Members
  <2> QED BY <1>2, <2>1, <2>2
<1>14. ASSUME NEW i \in DOMAIN queue', NEW j \in DOMAIN queue', queue'[i] = queue'[j]
       PROVE  i = j
  <2>1. CASE i <= Len(queue) /\ j <= Len(queue)
    <3>1. i \in DOMAIN queue /\ j \in DOMAIN queue /\ queue[i] = queue[j]
      BY <1>10, <1>11, <1>12, <1>14, <2>1
    <3> QED BY <3>1 DEF QueuedOnce
  <2>2. CASE ~(i <= Len(queue)) /\ ~(j <= Len(queue))
    <3>1. /\ i - Len(queue) \in DOMAIN more /\ j - Len(queue) \in DOMAIN more
          /\ more[i - Len(queue)] = more[j - Len(queue)]
      BY <1>10, <1>11, <1>12, <1>14, <2>2
    <3>2. i - Len(queue) = j - Len(queue)
      BY <1>6, <3>1
    <3> QED BY <1>10, <1>12, <3>2
  <2>3. CASE i <= Len(queue) /\ ~(j <= Len(queue))
    <3>1. i \in DOMAIN queue /\ j - Len(queue) \in DOMAIN more /\ queue[i] = more[j - Len(queue)]
      BY <1>10, <1>11, <1>12, <1>14, <2>3
    <3> QED BY <1>13, <3>1
  <2>4. CASE ~(i <= Len(queue)) /\ j <= Len(queue)
    <3>1. j \in DOMAIN queue /\ i - Len(queue) \in DOMAIN more /\ queue[j] = more[i - Len(queue)]
      BY <1>10, <1>11, <1>12, <1>14, <2>4
    <3> QED BY <1>13, <3>1
  <2> QED BY <2>1, <2>2, <2>3, <2>4
<1>15. QueuedOnce'
  BY <1>14 DEF QueuedOnce
<1> QED BY <1>9, <1>15

\* A current poll shows what the watch had not covered; an old one ends.
LEMMA PollTicksStep ==
  ASSUME FeedInv, PollTicks, DOMAIN None = {}
  PROVE  FeedInv'
<1>1. /\ poll # None /\ poll.stage = "clock" /\ Waiting
      /\ UNCHANGED <<now, workerVars, session, target, cache, handler, left>>
  BY DEF PollTicks, Waiting
<1>2. Shapes /\ FilesOK /\ MachineOK /\ ViewOK /\ WatchOK /\ SaidOK /\ QueueOK /\ ShownOnce
  BY DEF FeedInv
<1>3. Written' = Written
  BY <1>1 DEF Written, workerVars
<1>4. /\ (HasRead <=> HasRead') /\ (Arming <=> Arming') /\ (Baselining <=> Baselining')
  BY <1>1 DEF HasRead, Arming, Baselining
<1>5. HasRead => LinesOK(handler.lines)'
  BY <1>1, <1>2, <1>3 DEF MachineOK, LinesOK
<1>6. CASE ~Current(poll.owner)
  <2>1. poll' = None /\ UNCHANGED <<watch, poller, generation, proposalVars, log>>
    BY <1>6 DEF PollTicks
  <2>2. Shapes' /\ FilesOK'
    BY <1>1, <1>2, <1>3, <2>1 DEF Shapes, FilesOK, LinesOK, workerVars
  <2>3. MachineOK'
    BY <1>1, <1>2, <1>4, <1>5, <2>1 DEF MachineOK, Waiting, Unread
  <2>4. ViewOK'
    BY <1>1, <1>2, <1>3, <1>4, <2>1 DEF ViewOK, Seen, InPoll, InHandler, Waiting, Unread, workerVars
  <2>5. WatchOK'
    BY <1>1, <1>2, <1>4, <2>1 DEF WatchOK, Covers, Seen, InView, Unread, workerVars
  <2>6. SaidOK' /\ QueueOK' /\ ShownOnce'
    BY <1>2, <2>1
       DEF SaidOK, QueueOK, proposalVars, ShownOnce, NoRepeat, NoReplay, NothingForeign, QueuedOnce
  <2> QED BY <2>2, <2>3, <2>4, <2>5, <2>6 DEF FeedInv
<1>7. CASE Current(poll.owner)
  <2>1. PICK tick :
          /\ tick = TickWatch(watch, poll.lines, poll.session, now)
          /\ watch' = tick.watch
          /\ poller' = IF tick.stop THEN None ELSE poller
          /\ generation' = IF tick.stop THEN generation + 1 ELSE generation
          /\ QueueProposals(tick.proposals)
          /\ poll' = [stage |-> "show", shows |-> tick.shows]
          /\ log' = [log EXCEPT
                       !.awaited = @ \cup TurnsOf(tick.pending),
                       !.presented = @ \cup TurnsOf(tick.fresh),
                       !.foreign = @ \cup {t \in TurnsOf(tick.fresh) : t.session # target},
                       !.cutOff = @ \/ (tick.stop /\ (poll.fails \/ now - watch.armedAt > Ceiling)),
                       !.raced = IF handler # None /\ handler.stage = "arm"
                                 THEN @ \cup TurnsOf(tick.fresh) ELSE @]
    BY <1>7 DEF PollTicks
  <2> DEFINE fresh == TurnsOf(tick.fresh)
  <2>2. /\ poller # None /\ poll.session = target /\ LinesOK(poll.lines)
        /\ log.blind \/ (~Unread(target) /\ cache.lines = poll.lines)
        /\ handler = None \/ Arming
    BY <1>1, <1>2, <1>7 DEF MachineOK, Current
  <2>3. /\ \A t : t \in fresh <=> t \in RecordedTurns(poll.lines) /\ t.session = target /\ t \notin watch.shown
        /\ \A t \in RecordedTurns(poll.lines) : t.session = target => t \in tick.watch.shown
        /\ IsList(tick.shows) /\ IsList(tick.proposals) /\ DistinctTurns(tick.proposals)
        /\ \A i \in DOMAIN tick.shows : tick.shows[i].kind \in StatusKinds \/ tick.shows[i].turn \in fresh
    <3>1. IsList(poll.lines) /\ tick = TickWatch(watch, poll.lines, target, now)
      BY <2>1, <2>2 DEF LinesOK
    <3>2. TickOK(tick, watch, poll.lines, target)
      BY <3>1, TickFacts
    <3> QED BY <3>2 DEF TickOK
  <2>4. {t \in fresh : t.session # target} = {}
    BY <2>3
  <2>5. /\ log'.old = log.old /\ log'.said = log.said /\ log'.again = log.again
        /\ log'.returned = log.returned /\ log'.blind = log.blind /\ DOMAIN log' = DOMAIN log
    BY <1>2, <2>1 DEF Shapes, NoLog
  <2>6. log'.presented = log.presented \cup fresh /\ log'.foreign = log.foreign
    BY <1>2, <2>1, <2>4 DEF Shapes, NoLog
  <2>7. log'.raced = IF Arming THEN log.raced \cup fresh ELSE log.raced
    BY <1>2, <2>1 DEF Shapes, NoLog, Arming
  <2>8. poll' # None /\ poll'.stage = "show" /\ poll'.shows = tick.shows /\ ~Waiting'
    <3>1. DOMAIN poll' # DOMAIN None
      BY <2>1
    <3> QED BY <2>1, <3>1 DEF Waiting
  <2>9. "shown" \in DOMAIN tick.watch
    BY <2>1 DEF TickWatch
  <2>10. QueueOK' /\ QueuedOnce'
    BY <1>2, <2>1, <2>3, QueueProposalsOnce DEF ShownOnce
  <2>11. ~Baselining /\ Covers(watch.shown, target)
    BY <1>2, <2>2 DEF WatchOK, Baselining, Arming
  <2>12. ASSUME NEW t \in fresh, t \in Seen, ~log.blind
         PROVE  t \in log.raced \cup log.returned
    <3>1. t \in RecordedTurns(cache.lines) /\ t.session = target /\ t \notin watch.shown
      BY <2>2, <2>3, <2>12
    <3>2. InView(t)
      BY <2>2, <2>12, <3>1 DEF InView
    <3> QED BY <2>11, <2>12, <3>1, <3>2 DEF Covers
  <2>13. Shapes' /\ FilesOK'
    BY <1>1, <1>2, <1>3, <2>1, <2>5, <2>9 DEF Shapes, FilesOK, LinesOK, workerVars
  <2>14. MachineOK'
    <3>1. generation' \in Nat /\ (poller' # None => poller' = poller /\ generation' = generation)
      BY <1>2, <2>1 DEF MachineOK
    <3> QED BY <1>1, <1>2, <1>4, <1>5, <2>8, <3>1 DEF MachineOK, Unread
  <2>15. ViewOK'
    <3>1. Seen' = Seen \cup fresh /\ fresh \subseteq InPoll /\ InPoll' = {} /\ InHandler' = InHandler
      BY <1>1, <1>4, <2>3, <2>5, <2>6, <2>8 DEF Seen, InPoll, InHandler
    <3> QED BY <1>1, <1>2, <1>3, <2>5, <3>1 DEF ViewOK, Unread, workerVars
  <2>16. WatchOK'
    <3>1. \A t : InView(t)' <=> InView(t)
      BY <1>1 DEF InView, Unread, workerVars
    <3>2. Covers(watch.shown, target)'
      <4>1. ASSUME NEW t, t.session = target, InView(t), ~log.blind
            PROVE  t \in watch'.shown
        <5>1. t \in RecordedTurns(poll.lines)
          BY <2>2, <4>1 DEF InView
        <5> QED BY <2>1, <2>3, <4>1, <5>1
      <4> QED BY <1>1, <2>5, <3>1, <4>1 DEF Covers
    <3>3. Arming => Covers(handler.watch.shown, target)'
      <4>1. Arming => Seen' \ (log'.raced \cup log'.returned) \subseteq Seen \ (log.raced \cup log.returned)
        BY <2>5, <2>6, <2>7 DEF Seen
      <4>2. Arming => Covers(handler.watch.shown, target)
        BY <1>2 DEF WatchOK
      <4> QED BY <1>1, <2>5, <3>1, <4>1, <4>2 DEF Covers
    <3> QED BY <1>4, <3>2, <3>3 DEF WatchOK
  <2>17. SaidOK'
    <3>1. log'.raced \subseteq log'.presented /\ \A said \in log'.said : said.turn \in log'.presented
      BY <1>2, <2>5, <2>6, <2>7 DEF SaidOK
    <3>2. ASSUME NEW i \in DOMAIN tick.shows, tick.shows[i].kind \notin StatusKinds
          PROVE  /\ tick.shows[i].turn \in log'.presented
                 /\ tick.shows[i] \in log'.said =>
                      log'.blind \/ tick.shows[i].turn \in log'.raced \cup log'.returned
      <4>1. tick.shows[i].turn \in fresh
        BY <2>3, <3>2
      <4>2. tick.shows[i] \in log.said => tick.shows[i].turn \in Seen
        BY <1>2 DEF SaidOK, Seen
      <4> QED BY <2>5, <2>6, <2>7, <2>12, <4>1, <4>2
    <3> QED BY <2>3, <2>8, <3>1, <3>2 DEF SaidOK
  <2>18. ShownOnce'
    <3>1. NoRepeat /\ NoReplay /\ NothingForeign
      BY <1>2 DEF ShownOnce
    <3>2. NoRepeat'
      BY <2>5, <2>7, <3>1 DEF NoRepeat
    <3>3. NoReplay'
      <4>1. ASSUME NEW t \in log.old, t \in fresh, ~log.blind
            PROVE  t \in log.returned
        <5>1. t \in log.raced \cup log.returned
          BY <2>12, <4>1 DEF Seen
        <5>2. t \in log.raced => t \in log.presented
          BY <1>2 DEF SaidOK
        <5> QED BY <3>1, <4>1, <5>1, <5>2 DEF NoReplay
      <4> QED BY <2>5, <2>6, <3>1, <4>1 DEF NoReplay
    <3>4. NothingForeign'
      BY <2>6, <3>1 DEF NothingForeign
    <3> QED BY <2>10, <3>2, <3>3, <3>4 DEF ShownOnce
  <2> QED BY <2>10, <2>13, <2>14, <2>15, <2>16, <2>17, <2>18 DEF FeedInv
<1> QED BY <1>6, <1>7

\* What is shown was found fresh; what of it was shown before is excepted.
LEMMA PollShowsStep ==
  ASSUME FeedInv, PollShows, DOMAIN None = {}
  PROVE  FeedInv'
<1>1. Shapes /\ FilesOK /\ MachineOK /\ ViewOK /\ WatchOK /\ SaidOK /\ QueueOK /\ ShownOnce
  BY DEF FeedInv
<1>2. /\ poll # None /\ poll.stage = "show" /\ poll' = None
      /\ UNCHANGED <<now, workerVars, session, watch, poller, target, generation, cache, handler,
                     proposalVars>>
  BY DEF PollShows
<1>3. PICK n \in 0..Len(poll.shows) :
        log' = [log EXCEPT
                  !.said = @ \cup {show \in ToSet(SubSeq(poll.shows, 1, n)) : show.kind \notin StatusKinds},
                  !.again = @ \cup ({show \in ToSet(SubSeq(poll.shows, 1, n)) : show.kind \notin StatusKinds}
                                      \cap log.said)]
  BY DEF PollShows
<1> DEFINE shown == {show \in ToSet(SubSeq(poll.shows, 1, n)) : show.kind \notin StatusKinds}
<1>4. /\ log'.said = log.said \cup shown /\ log'.again = log.again \cup (shown \cap log.said)
      /\ log'.presented = log.presented /\ log'.old = log.old /\ log'.raced = log.raced
      /\ log'.returned = log.returned /\ log'.blind = log.blind /\ log'.foreign = log.foreign
      /\ DOMAIN log' = DOMAIN log
  <2> HIDE DEF shown
  <2>1. log' = [log EXCEPT !.said = @ \cup shown, !.again = @ \cup (shown \cap log.said)]
    BY <1>3 DEF shown
  <2> QED BY <1>1, <2>1 DEF Shapes, NoLog
<1>5. \A x \in shown : /\ x.turn \in log.presented
                       /\ x \in log.said => log.blind \/ x.turn \in log.raced \cup log.returned
  <2>1. IsList(poll.shows)
    BY <1>1, <1>2 DEF SaidOK
  <2>2. /\ Len(poll.shows) \in Nat /\ DOMAIN poll.shows = 1..Len(poll.shows)
        /\ \A i \in 1..n : poll.shows[i] \in Members(poll.shows)
    <3>1. Len(poll.shows) \in Nat /\ DOMAIN poll.shows = 1..Len(poll.shows)
      BY <2>1, ListOfSeq DEF IsList
    <3>2. \A i \in 1..n : i \in 1..Len(poll.shows)
      BY <3>1
    <3> QED BY <3>1, <3>2 DEF Members
  <2>3. SubSeq(poll.shows, 1, n) \in Seq(Members(poll.shows))
    BY <2>2, SubSeqProperties
  <2>4. ToSet(SubSeq(poll.shows, 1, n)) \subseteq Members(poll.shows)
    BY <2>3, ListOfSeq, ToSetMembers
  <2>5. \A x \in shown : \E i \in DOMAIN poll.shows : x = poll.shows[i] /\ poll.shows[i].kind \notin StatusKinds
    BY <2>4 DEF Members
  <2> HIDE DEF shown
  <2> QED BY <1>1, <1>2, <2>5 DEF SaidOK
<1> HIDE DEF shown
<1>6. Written' = Written
  BY <1>2 DEF Written, workerVars
<1>7. Shapes' /\ FilesOK'
  BY <1>1, <1>2, <1>4, <1>6 DEF Shapes, FilesOK, LinesOK, workerVars
<1>8. MachineOK'
  <2>1. HasRead => LinesOK(handler.lines)'
    BY <1>1, <1>2, <1>6 DEF MachineOK, LinesOK
  <2> QED BY <1>1, <1>2, <2>1 DEF MachineOK, Waiting, HasRead, Arming, Baselining, Unread
<1>9. ViewOK'
  <2>1. Seen' = Seen /\ InPoll' = {} /\ InHandler' = InHandler
    BY <1>2, <1>4 DEF Seen, InPoll, Waiting, InHandler, HasRead
  <2> QED BY <1>1, <1>2, <1>4, <1>6, <2>1 DEF ViewOK, Unread, workerVars
<1>10. WatchOK'
  BY <1>1, <1>2, <1>4 DEF WatchOK, Covers, Seen, InView, Unread, Baselining, Arming, workerVars
<1>11. SaidOK' /\ QueueOK'
  BY <1>1, <1>2, <1>4, <1>5 DEF SaidOK, QueueOK, proposalVars
<1>12. ShownOnce'
  <2>1. NoRepeat'
    BY <1>1, <1>4, <1>5 DEF ShownOnce, NoRepeat
  <2> QED BY <1>1, <1>2, <1>4, <2>1 DEF ShownOnce, NoReplay, NothingForeign, QueuedOnce, proposalVars
<1> QED BY <1>7, <1>8, <1>9, <1>10, <1>11, <1>12 DEF FeedInv

-----------------------------------------------------------------------------
(* The handlers.                                                            *)

\* A step that reads and writes no lines, and marks as shown at most what its
\* handler has read and no poll found fresh.
LEMMA QuietStep ==
  ASSUME FeedInv, UNCHANGED <<workerVars, cache, poll, proposalVars>>,
         DOMAIN log' = DOMAIN log,
         /\ log'.presented = log.presented /\ log'.said = log.said /\ log'.again = log.again
         /\ log'.raced = log.raced /\ log'.returned = log.returned /\ log'.foreign = log.foreign,
         log.blind => log'.blind,
         log'.old \cap log.presented = log.old \cap log.presented,
         Seen' \cup InHandler' \subseteq Seen \cup InHandler
  PROVE  /\ FilesOK' /\ ViewOK' /\ SaidOK' /\ QueueOK' /\ ShownOnce'
         /\ \A t : InView(t)' <=> InView(t)
         /\ Waiting => LinesOK(poll.lines)'
         /\ HasRead => LinesOK(handler.lines)
         /\ \A lines : LinesOK(lines) => LinesOK(lines)'
         /\ Waiting' <=> Waiting
<1>1. Shapes /\ FilesOK /\ MachineOK /\ ViewOK /\ WatchOK /\ SaidOK /\ QueueOK /\ ShownOnce
  BY DEF FeedInv
<1>2. Written' = Written
  BY DEF Written, workerVars
<1>3. InPoll' = InPoll /\ (Waiting' <=> Waiting)
  BY DEF InPoll, Waiting
<1>4. FilesOK'
  BY <1>1, <1>2 DEF FilesOK, LinesOK, workerVars
<1>5. ViewOK'
  BY <1>1, <1>2, <1>3 DEF ViewOK, Unread, workerVars
<1>6. SaidOK' /\ QueueOK'
  BY <1>1 DEF SaidOK, QueueOK, proposalVars
<1>7. ShownOnce'
  BY <1>1 DEF ShownOnce, NoRepeat, NoReplay, NothingForeign, QueuedOnce, proposalVars
<1>8. \A t : InView(t)' <=> InView(t)
  BY DEF InView, Unread, workerVars
<1>9. \A lines : LinesOK(lines) => LinesOK(lines)'
  BY <1>2 DEF LinesOK
<1>10. (Waiting => LinesOK(poll.lines)') /\ (HasRead => LinesOK(handler.lines))
  BY <1>1, <1>2 DEF MachineOK, LinesOK
<1> QED BY <1>3, <1>4, <1>5, <1>6, <1>7, <1>8, <1>9, <1>10

\* session.start: nothing is asked of the watch until the baseline is made.
LEMMA SessionStartsStep ==
  ASSUME FeedInv, NEW s \in Sessions, NEW reload \in BOOLEAN, SessionStarts(s, reload), DOMAIN None = {}
  PROVE  FeedInv'
<1>1. /\ handler = None /\ session' = s /\ target' = s /\ watch' = EmptyWatch /\ poller' = None
      /\ handler' = [stage |-> "baseline read", session |-> s]
      /\ UNCHANGED workerVars
  BY DEF SessionStarts
<1>2. Shapes /\ FilesOK /\ MachineOK /\ ViewOK /\ WatchOK /\ SaidOK /\ QueueOK /\ ShownOnce
  BY DEF FeedInv
<1>3. handler' # None
  <2>1. DOMAIN handler' # DOMAIN None
    BY <1>1
  <2> QED BY <2>1
<1>4. Baselining' /\ ~Arming' /\ ~HasRead' /\ ~HasRead /\ handler'.session = s
  BY <1>1, <1>3 DEF Baselining, Arming, HasRead
<1>5. "shown" \in DOMAIN watch'
  BY <1>1 DEF EmptyWatch
<1>6. WatchOK'
  BY <1>4 DEF WatchOK
<1>7. CASE reload
  <2>1. /\ generation' = 1 /\ cache' = None /\ poll' = None /\ handled' = {} /\ queue' = <<>>
        /\ log' = [NoLog EXCEPT !.lost = log.lost]
    BY <1>7 DEF SessionStarts
  <2>2. /\ log'.presented = {} /\ log'.old = {} /\ log'.said = {} /\ log'.raced = {} /\ log'.again = {}
        /\ log'.foreign = {} /\ DOMAIN log' = DOMAIN NoLog
    BY <2>1 DEF NoLog
  <2>3. Shapes'
    BY <1>1, <1>2, <1>5, <2>2 DEF Shapes, workerVars
  <2>4. FilesOK'
    BY <1>1, <1>2, <2>1 DEF FilesOK, LinesOK, Written, workerVars
  <2>5. MachineOK'
    BY <1>1, <1>4, <2>1 DEF MachineOK, Waiting
  <2>6. ViewOK'
    BY <1>4, <2>1, <2>2 DEF ViewOK, Seen, InPoll, InHandler, Waiting
  <2>7. SaidOK'
    BY <2>1, <2>2 DEF SaidOK
  <2>8. QueueOK'
    BY <2>1, EmptyList DEF QueueOK
  <2>9. ShownOnce'
    BY <2>1, <2>2, EmptyList DEF ShownOnce, NoRepeat, NoReplay, NothingForeign, QueuedOnce
  <2> QED BY <1>6, <2>3, <2>4, <2>5, <2>6, <2>7, <2>8, <2>9 DEF FeedInv
<1>8. CASE ~reload
  <2>1. generation' = generation + 1 /\ log' = [log EXCEPT !.awaited = {}] /\ UNCHANGED <<cache, poll, proposalVars>>
    BY <1>8 DEF SessionStarts
  <2>2. /\ log'.presented = log.presented /\ log'.old = log.old /\ log'.said = log.said
        /\ log'.again = log.again /\ log'.raced = log.raced /\ log'.returned = log.returned
        /\ log'.foreign = log.foreign /\ log'.blind = log.blind /\ DOMAIN log' = DOMAIN log
    BY <1>2, <2>1 DEF Shapes, NoLog
  <2>3. Seen' \cup InHandler' = Seen \cup InHandler
    BY <1>4, <2>2 DEF Seen, InHandler
  <2>4. /\ FilesOK' /\ ViewOK' /\ SaidOK' /\ QueueOK' /\ ShownOnce'
        /\ Waiting => LinesOK(poll.lines)'
        /\ Waiting' <=> Waiting
    BY <1>1, <2>1, <2>2, <2>3, QuietStep
  <2>5. Shapes'
    BY <1>1, <1>2, <1>5, <2>2 DEF Shapes, workerVars
  <2>6. MachineOK'
    <3>1. /\ generation \in Nat /\ generation' \in Nat
          /\ Waiting => poll.owner \in Nat /\ poll.owner <= generation
      BY <1>2, <2>1 DEF MachineOK
    <3>2. Waiting => poll.owner <= generation' /\ poll.owner # generation'
      BY <2>1, <3>1
    <3> QED BY <1>1, <1>4, <2>1, <2>4, <3>1, <3>2 DEF MachineOK
  <2> QED BY <1>6, <2>4, <2>5, <2>6 DEF FeedInv
<1> QED BY <1>7, <1>8

\* The session changes without an event.
LEMMA SessionChangesStep ==
  ASSUME FeedInv, NEW s \in Sessions, SessionChanges(s)
  PROVE  FeedInv'
<1> USE DEF pollVars, proposalVars, workerVars
<1>1. /\ session' = s
      /\ UNCHANGED <<now, workerVars, pollVars, handler, proposalVars, log>>
  BY DEF SessionChanges
<1>2. Shapes /\ FilesOK /\ MachineOK /\ ViewOK /\ WatchOK /\ SaidOK /\ QueueOK /\ ShownOnce
  BY DEF FeedInv
<1>3. (HasRead <=> HasRead') /\ (Arming <=> Arming') /\ (Baselining <=> Baselining')
  BY <1>1 DEF HasRead, Arming, Baselining
<1>4. Seen' = Seen /\ InHandler' = InHandler
  BY <1>1, <1>3 DEF Seen, InHandler
<1>5. /\ FilesOK' /\ ViewOK' /\ SaidOK' /\ QueueOK' /\ ShownOnce'
      /\ \A t : InView(t)' <=> InView(t)
      /\ Waiting => LinesOK(poll.lines)'
      /\ \A lines : LinesOK(lines) => LinesOK(lines)'
      /\ Waiting' <=> Waiting
  BY <1>1, <1>4, QuietStep
<1>6. Shapes'
  BY <1>1, <1>2 DEF Shapes
<1>7. HasRead => LinesOK(handler.lines)'
  BY <1>1, <1>2 DEF MachineOK, LinesOK, Written
<1>8. MachineOK'
  BY <1>1, <1>2, <1>3, <1>5, <1>7 DEF MachineOK, Unread
<1>9. WatchOK'
  BY <1>1, <1>2, <1>3, <1>4, <1>5 DEF WatchOK, Covers
<1> QED BY <1>5, <1>6, <1>8, <1>9 DEF FeedInv

\* Time passes, or nothing changes.
LEMMA TickStep ==
  ASSUME FeedInv, UNCHANGED <<workerVars, session, pollVars, handler, proposalVars, log>>
  PROVE  FeedInv'
<1> USE DEF pollVars, proposalVars, workerVars
<1>1. Shapes /\ FilesOK /\ MachineOK /\ ViewOK /\ WatchOK /\ SaidOK /\ QueueOK /\ ShownOnce
  BY DEF FeedInv
<1>2. (HasRead <=> HasRead') /\ (Arming <=> Arming') /\ (Baselining <=> Baselining')
  BY DEF HasRead, Arming, Baselining
<1>3. Seen' = Seen /\ InHandler' = InHandler
  BY <1>2 DEF Seen, InHandler
<1>4. /\ FilesOK' /\ ViewOK' /\ SaidOK' /\ QueueOK' /\ ShownOnce'
      /\ \A t : InView(t)' <=> InView(t)
      /\ Waiting => LinesOK(poll.lines)'
      /\ Waiting' <=> Waiting
  BY <1>3, QuietStep
<1>5. Shapes'
  BY <1>1 DEF Shapes
<1>6. HasRead => LinesOK(handler.lines)'
  BY <1>1 DEF MachineOK, LinesOK, Written
<1>7. MachineOK'
  BY <1>1, <1>2, <1>4, <1>6 DEF MachineOK, Unread
<1>8. WatchOK'
  BY <1>1, <1>2, <1>3, <1>4 DEF WatchOK, Covers
<1> QED BY <1>4, <1>5, <1>7, <1>8 DEF FeedInv

\* turn.complete: the watch an arm takes with it covers, or polling stops.
LEMMA TurnCompletesStep ==
  ASSUME FeedInv, TurnCompletes, DOMAIN None = {}
  PROVE  FeedInv'
<1> USE DEF proposalVars, workerVars
<1>1. /\ handler = None
      /\ UNCHANGED <<now, workerVars, session, watch, target, cache, poll, proposalVars>>
  BY DEF TurnCompletes
<1>2. Shapes /\ FilesOK /\ MachineOK /\ ViewOK /\ WatchOK /\ SaidOK /\ QueueOK /\ ShownOnce
  BY DEF FeedInv
<1>3. ~HasRead /\ ~Arming /\ ~Baselining /\ Covers(watch.shown, target)
  BY <1>1, <1>2 DEF HasRead, Arming, Baselining, WatchOK
<1>4. /\ log'.presented = log.presented /\ log'.old = log.old /\ log'.said = log.said
      /\ log'.again = log.again /\ log'.raced = log.raced /\ log'.returned = log.returned
      /\ log'.foreign = log.foreign /\ log'.blind = log.blind /\ DOMAIN log' = DOMAIN log
  <2>1. log' = log \/ log' = [log EXCEPT !.awaited = {}]
    BY DEF TurnCompletes
  <2> QED BY <1>2, <2>1 DEF Shapes, NoLog
<1>5. \/ /\ handler' = [stage |-> "arm", session |-> session, watch |-> watch]
         /\ target = session /\ UNCHANGED <<poller, generation>>
      \/ /\ handler' = [stage |-> "arm read", session |-> session]
         /\ poller' = None /\ generation' = generation + 1
  BY DEF TurnCompletes, StopPolling
<1>6. handler' # None
  <2>1. DOMAIN handler' # DOMAIN None
    BY <1>5
  <2> QED BY <2>1
<1>7. ~HasRead' /\ ~Baselining'
  <2>1. handler'.stage = "arm" \/ handler'.stage = "arm read"
    <3>1. CASE handler' = [stage |-> "arm", session |-> session, watch |-> watch]
      BY <3>1
    <3>2. CASE handler' = [stage |-> "arm read", session |-> session]
      BY <3>2
    <3> QED BY <1>5, <3>1, <3>2
  <2> QED BY <2>1 DEF HasRead, Baselining
<1>8. Seen' \cup InHandler' = Seen \cup InHandler
  BY <1>3, <1>4, <1>7 DEF Seen, InHandler
<1>9. /\ FilesOK' /\ ViewOK' /\ SaidOK' /\ QueueOK' /\ ShownOnce'
      /\ \A t : InView(t)' <=> InView(t)
      /\ Waiting => LinesOK(poll.lines)'
      /\ Waiting' <=> Waiting
  BY <1>1, <1>4, <1>8, QuietStep
<1>10. Shapes'
  BY <1>1, <1>2, <1>4 DEF Shapes
<1>12. CASE /\ handler' = [stage |-> "arm", session |-> session, watch |-> watch]
            /\ target = session /\ UNCHANGED <<poller, generation>>
  <2>1. Arming' /\ handler'.session = session /\ handler'.watch = watch
    BY <1>6, <1>12 DEF Arming
  <2>2. MachineOK'
    BY <1>1, <1>2, <1>4, <1>7, <1>9, <1>12, <2>1 DEF MachineOK, Shapes, Unread
  <2>3. WatchOK'
    BY <1>1, <1>3, <1>4, <1>9, <2>1 DEF WatchOK, Covers, Seen
  <2> QED BY <1>9, <1>10, <2>2, <2>3 DEF FeedInv
<1>13. CASE /\ handler' = [stage |-> "arm read", session |-> session]
            /\ poller' = None /\ generation' = generation + 1
  <2>1. ~Arming' /\ handler'.session = session
    <3>1. handler'.stage = "arm read" /\ handler'.session = session
      BY <1>13
    <3> QED BY <3>1 DEF Arming
  <2>2. /\ generation \in Nat /\ generation' \in Nat /\ session \in Sessions
        /\ Waiting => poll.owner \in Nat /\ poll.owner <= generation
    <3>1. /\ generation \in Nat /\ session \in Sessions
          /\ Waiting => poll.owner \in Nat /\ poll.owner <= generation
      BY <1>2 DEF MachineOK
    <3>2. generation' = generation + 1
      BY <1>13
    <3> QED BY <3>1, <3>2
  <2>3. Waiting => poll.owner <= generation' /\ poll.owner # generation'
    <3>1. generation' = generation + 1
      BY <1>13
    <3> QED BY <2>2, <3>1
  <2>4. MachineOK'
    BY <1>1, <1>7, <1>9, <1>13, <2>1, <2>2, <2>3 DEF MachineOK
  <2>5. WatchOK'
    BY <1>1, <1>3, <1>4, <1>9, <2>1 DEF WatchOK, Covers, Seen
  <2> QED BY <1>9, <1>10, <2>4, <2>5 DEF FeedInv
<1> QED BY <1>5, <1>12, <1>13

\* What a baseline records of the file.
LEMMA MarksFacts ==
  ASSUME FeedInv, HasRead, log' = Marks
  PROVE  /\ log'.presented = log.presented /\ log'.said = log.said /\ log'.again = log.again
         /\ log'.raced = log.raced /\ log'.returned = log.returned /\ log'.foreign = log.foreign
         /\ DOMAIN log' = DOMAIN log
         /\ handler.known => /\ log'.old = log.old \cup (RecordedTurns(handler.lines) \ log.presented)
                             /\ log'.blind = log.blind
         /\ ~handler.known => log'.old = log.old /\ log'.blind
<1>1. DOMAIN log = DOMAIN NoLog
  BY DEF FeedInv, Shapes
<1>2. CASE handler.known
  <2> DEFINE a == TurnsOf(Pending(OpenStarts(SessionFeedOf(handler.lines, handler.session)), now))
             o == RecordedTurns(handler.lines) \ log.presented
  <2>1. log' = [log EXCEPT !.old = @ \cup o, !.awaited = a]
    BY <1>2 DEF Marks
  <2> HIDE DEF a, o
  <2>2. /\ log'.presented = log.presented /\ log'.said = log.said /\ log'.again = log.again
        /\ log'.raced = log.raced /\ log'.returned = log.returned /\ log'.foreign = log.foreign
        /\ DOMAIN log' = DOMAIN log
        /\ log'.old = log.old \cup o /\ log'.blind = log.blind
    BY <1>1, <2>1 DEF NoLog
  <2> QED BY <1>2, <2>2 DEF o
<1>3. CASE ~handler.known
  <2>1. log' = [log EXCEPT !.blind = TRUE]
    BY <1>3 DEF Marks
  <2>2. /\ log'.presented = log.presented /\ log'.said = log.said /\ log'.again = log.again
        /\ log'.raced = log.raced /\ log'.returned = log.returned /\ log'.foreign = log.foreign
        /\ DOMAIN log' = DOMAIN log
        /\ log'.old = log.old /\ log'.blind
    BY <1>1, <2>1 DEF NoLog
  <2> QED BY <1>3, <2>2
<1> QED BY <1>2, <1>3

\* A baseline: what it knows of the file, the new watch covers.
LEMMA BaselineCovers ==
  ASSUME FeedInv, HasRead, log' = Marks,
         NEW nowMs, watch' = BaselineWatch(handler.lines, handler.session, nowMs),
         UNCHANGED <<workerVars, cache, poll, proposalVars>>,
         InHandler' = {}
  PROVE  /\ FilesOK' /\ ViewOK' /\ SaidOK' /\ QueueOK' /\ ShownOnce' /\ Shapes'
         /\ Waiting => LinesOK(poll.lines)'
         /\ Waiting' <=> Waiting
         /\ \A s : s = handler.session => Covers(watch.shown, s)'
         /\ handler.session \in Sessions /\ session \in Sessions /\ poller = None
         /\ generation \in Nat
         /\ Waiting => poll.owner \in Nat /\ poll.owner <= generation /\ poll.owner # generation
<1>1. Shapes /\ FilesOK /\ MachineOK /\ ViewOK /\ WatchOK /\ SaidOK /\ QueueOK /\ ShownOnce
  BY DEF FeedInv
<1>2. /\ log'.presented = log.presented /\ log'.said = log.said /\ log'.again = log.again
      /\ log'.raced = log.raced /\ log'.returned = log.returned /\ log'.foreign = log.foreign
      /\ DOMAIN log' = DOMAIN log
      /\ handler.known => /\ log'.old = log.old \cup (RecordedTurns(handler.lines) \ log.presented)
                          /\ log'.blind = log.blind
      /\ ~handler.known => log'.old = log.old /\ log'.blind
  BY MarksFacts, Zenon
<1>3. InHandler = RecordedTurns(handler.lines)
  BY DEF InHandler
<1>4. Seen' \cup InHandler' \subseteq Seen \cup InHandler
  BY <1>2, <1>3 DEF Seen
<1>5. log'.old \cap log.presented = log.old \cap log.presented
  BY <1>2
<1>6. /\ FilesOK' /\ ViewOK' /\ SaidOK' /\ QueueOK' /\ ShownOnce'
      /\ \A t : InView(t)' <=> InView(t)
      /\ Waiting => LinesOK(poll.lines)'
      /\ HasRead => LinesOK(handler.lines)
      /\ Waiting' <=> Waiting
  BY <1>2, <1>4, <1>5, QuietStep
<1>7. "shown" \in DOMAIN watch'
  BY DEF BaselineWatch
<1>8. Shapes'
  BY <1>1, <1>2, <1>7 DEF Shapes, workerVars
<1>9. handler.known => ~Unread(handler.session) /\ cache.lines = handler.lines
  BY <1>1 DEF MachineOK
<1>10. {t \in RecordedTurns(handler.lines) : t.session = handler.session} \subseteq watch'.shown
  BY <1>6, BaselineShows DEF LinesOK
<1>11. \A t : t.session = handler.session /\ handler.known /\ InView(t)' => t \in watch'.shown
  BY <1>6, <1>9, <1>10 DEF InView
<1>12. \A s : s = handler.session => Covers(watch.shown, s)'
  BY <1>2, <1>11 DEF Covers
<1>13. poller = None
  BY <1>1 DEF MachineOK, HasRead, Arming
<1>14. Waiting => poll.owner \in Nat /\ poll.owner <= generation /\ poll.owner # generation
  BY <1>1, <1>13 DEF MachineOK
<1>15. handler.session \in Sessions /\ session \in Sessions /\ generation \in Nat
  BY <1>1 DEF MachineOK, HasRead
<1> QED BY <1>6, <1>8, <1>12, <1>13, <1>14, <1>15

\* The baseline of session.start ends, and may start the timer.
LEMMA BaselineEndsStep ==
  ASSUME FeedInv, BaselineEnds
  PROVE  FeedInv'
<1>1. /\ handler # None /\ handler.stage = "baseline clock" /\ handler' = None
      /\ watch' = BaselineWatch(handler.lines, handler.session, now) /\ log' = Marks
      /\ UNCHANGED <<workerVars, session, target, cache, poll, proposalVars>>
  BY DEF BaselineEnds
<1>2. \/ generation' = generation + 1 /\ poller' = [owner |-> generation + 1, session |-> handler.session]
      \/ generation' = generation /\ poller' = poller
  BY DEF BaselineEnds, StartPolling
<1>3. HasRead /\ Baselining /\ ~HasRead' /\ ~Arming' /\ ~Baselining' /\ InHandler' = {}
  BY <1>1 DEF HasRead, Baselining, Arming, InHandler
<1>4. /\ FilesOK' /\ ViewOK' /\ SaidOK' /\ QueueOK' /\ ShownOnce' /\ Shapes'
      /\ Waiting => LinesOK(poll.lines)'
      /\ Waiting' <=> Waiting
      /\ \A s : s = handler.session => Covers(watch.shown, s)'
      /\ handler.session \in Sessions /\ session \in Sessions /\ poller = None
      /\ generation \in Nat
      /\ Waiting => poll.owner \in Nat /\ poll.owner <= generation /\ poll.owner # generation
  BY <1>1, <1>3, BaselineCovers
<1>5. target = handler.session
  BY <1>3 DEF FeedInv, MachineOK
<1>6. WatchOK'
  <2>1. Covers(watch.shown, target)'
    <3> HIDE DEF Covers
    <3>1. target' = handler.session
      BY <1>1, <1>5
    <3> QED BY <1>4, <3>1 DEF Covers
  <2> QED BY <1>3, <2>1 DEF WatchOK
<1>7. generation' \in Nat /\ generation <= generation' /\ (Waiting => poll.owner <= generation' /\ poll.owner # generation')
  <2>1. generation' = generation + 1 \/ generation' = generation
    BY <1>2
  <2> QED BY <1>4, <2>1
<1>8. poller' # None => poller'.owner = generation' /\ poller'.session = handler.session
  <2>1. CASE generation' = generation + 1 /\ poller' = [owner |-> generation + 1, session |-> handler.session]
    BY <2>1
  <2>2. CASE generation' = generation /\ poller' = poller
    BY <1>4, <2>2
  <2> QED BY <1>2, <2>1, <2>2
<1>9. MachineOK'
  BY <1>1, <1>3, <1>4, <1>5, <1>7, <1>8 DEF MachineOK
<1> QED BY <1>4, <1>6, <1>9 DEF FeedInv

\* The baseline of an arm: the watch it takes on is the new one.
LEMMA ArmBaselinesStep ==
  ASSUME FeedInv, ArmBaselines, DOMAIN None = {}
  PROVE  FeedInv'
<1>1. /\ handler # None /\ handler.stage = "arm clock"
      /\ watch' = BaselineWatch(handler.lines, handler.session, now) /\ log' = Marks
      /\ target' = handler.session
      /\ handler' = [stage |-> "arm", session |-> handler.session, watch |-> watch']
      /\ UNCHANGED <<workerVars, session, poller, generation, cache, poll, proposalVars>>
  BY DEF ArmBaselines
<1>2. handler' # None
  <2>1. DOMAIN handler' # DOMAIN None
    BY <1>1
  <2> QED BY <2>1
<1>3. handler'.stage = "arm" /\ handler'.session = handler.session /\ handler'.watch = watch'
  BY <1>1
<1>4. HasRead /\ ~HasRead' /\ Arming' /\ ~Baselining' /\ InHandler' = {}
  BY <1>1, <1>2, <1>3 DEF HasRead, Baselining, Arming, InHandler
<1>5. /\ FilesOK' /\ ViewOK' /\ SaidOK' /\ QueueOK' /\ ShownOnce' /\ Shapes'
      /\ Waiting => LinesOK(poll.lines)'
      /\ Waiting' <=> Waiting
      /\ \A s : s = handler.session => Covers(watch.shown, s)'
      /\ handler.session \in Sessions /\ session \in Sessions /\ poller = None
      /\ generation \in Nat
      /\ Waiting => poll.owner \in Nat /\ poll.owner <= generation /\ poll.owner # generation
  BY <1>1, <1>4, BaselineCovers
<1>6. WatchOK'
  <2>1. Covers(watch.shown, target)'
    BY <1>1, <1>5 DEF Covers
  <2> QED BY <1>3, <2>1 DEF WatchOK, Covers
<1>7. "shown" \in DOMAIN handler'.watch
  BY <1>3, <1>5 DEF Shapes
<1>8. /\ session' = session /\ poller' = poller /\ generation' = generation /\ poll' = poll
      /\ target' = handler.session
  BY <1>1
<1>9. MachineOK'
  BY <1>2, <1>3, <1>4, <1>5, <1>7, <1>8 DEF MachineOK
<1> QED BY <1>5, <1>6, <1>9 DEF FeedInv

\* An arm ends: it writes a watch that covers but for what raced.
LEMMA ArmEndsStep ==
  ASSUME FeedInv, ArmEnds
  PROVE  FeedInv'
<1>1. /\ handler # None /\ handler.stage = "arm" /\ handler' = None
      /\ watch' = [handler.watch EXCEPT !.armedAt = now] /\ target' = handler.session
      /\ generation' = generation + 1
      /\ poller' = [owner |-> generation + 1, session |-> handler.session]
      /\ UNCHANGED <<workerVars, session, cache, poll, proposalVars, log>>
  BY DEF ArmEnds, ArmWatch, StartPolling
<1>2. Shapes /\ FilesOK /\ MachineOK /\ ViewOK /\ WatchOK /\ SaidOK /\ QueueOK /\ ShownOnce
  BY DEF FeedInv
<1>3. Arming /\ ~HasRead /\ ~Arming' /\ ~HasRead' /\ ~Baselining'
  BY <1>1 DEF Arming, HasRead, Baselining
<1>4. target' = target /\ handler.session \in Sessions /\ "shown" \in DOMAIN handler.watch
  BY <1>1, <1>2, <1>3 DEF MachineOK
<1>5. watch'.shown = handler.watch.shown /\ "shown" \in DOMAIN watch'
  BY <1>1, <1>4
<1>6. Seen' = Seen /\ InHandler' = InHandler
  BY <1>1, <1>3 DEF Seen, InHandler
<1>7. /\ FilesOK' /\ ViewOK' /\ SaidOK' /\ QueueOK' /\ ShownOnce'
      /\ \A t : InView(t)' <=> InView(t)
      /\ Waiting => LinesOK(poll.lines)'
      /\ Waiting' <=> Waiting
  BY <1>1, <1>6, QuietStep
<1>8. Shapes'
  BY <1>1, <1>2, <1>5 DEF Shapes, workerVars
<1>9. WatchOK'
  <2>1. Covers(handler.watch.shown, target)
    BY <1>2, <1>3 DEF WatchOK
  <2> QED BY <1>1, <1>3, <1>4, <1>5, <1>6, <1>7, <2>1 DEF WatchOK, Covers
<1>10. /\ generation \in Nat /\ session \in Sessions
       /\ Waiting => poll.owner \in Nat /\ poll.owner <= generation
  BY <1>2 DEF MachineOK
<1>11. generation' = generation + 1
  BY <1>1
<1>12. generation' \in Nat /\ (Waiting => poll.owner <= generation' /\ poll.owner # generation')
  BY <1>10, <1>11
<1>13. poller'.owner = generation' /\ poller'.session = handler.session
  BY <1>1
<1>14. /\ session' = session /\ handler' = None /\ poll' = poll /\ target' = handler.session
  BY <1>1
<1>15. MachineOK'
  BY <1>3, <1>4, <1>7, <1>10, <1>12, <1>13, <1>14 DEF MachineOK
<1> QED BY <1>7, <1>8, <1>9, <1>15 DEF FeedInv

\* A handler that fails before its baseline is made knows nothing: blind.
LEMMA HandlerFailsStep ==
  ASSUME FeedInv, HandlerFails
  PROVE  FeedInv'
<1>1. /\ handler # None /\ handler' = None /\ poller' = None /\ generation' = generation + 1
      /\ UNCHANGED <<workerVars, session, watch, target, cache, poll, proposalVars>>
  BY DEF HandlerFails, StopPolling
<1>2. Shapes /\ FilesOK /\ MachineOK /\ ViewOK /\ WatchOK /\ SaidOK /\ QueueOK /\ ShownOnce
  BY DEF FeedInv
<1>3. ~Arming' /\ ~HasRead' /\ ~Baselining' /\ InHandler' = {}
  BY <1>1 DEF Arming, HasRead, Baselining, InHandler
<1>4. /\ log'.presented = log.presented /\ log'.old = log.old /\ log'.said = log.said
      /\ log'.again = log.again /\ log'.raced = log.raced /\ log'.returned = log.returned
      /\ log'.foreign = log.foreign /\ DOMAIN log' = DOMAIN log
      /\ log.blind => log'.blind
      /\ Baselining => log'.blind
  <2>1. log' = IF Baselining THEN [log EXCEPT !.failed = TRUE, !.blind = TRUE]
               ELSE [log EXCEPT !.failed = TRUE]
    BY <1>1 DEF HandlerFails, Baselining
  <2>2. CASE Baselining
    <3>1. log' = [log EXCEPT !.failed = TRUE, !.blind = TRUE]
      BY <2>1, <2>2
    <3> QED BY <1>2, <3>1 DEF Shapes, NoLog
  <2>3. CASE ~Baselining
    <3>1. log' = [log EXCEPT !.failed = TRUE]
      BY <2>1, <2>3
    <3> QED BY <1>2, <2>3, <3>1 DEF Shapes, NoLog
  <2> QED BY <2>2, <2>3
<1>5. Seen' \cup InHandler' \subseteq Seen \cup InHandler
  BY <1>3, <1>4 DEF Seen
<1>6. /\ FilesOK' /\ ViewOK' /\ SaidOK' /\ QueueOK' /\ ShownOnce'
      /\ \A t : InView(t)' <=> InView(t)
      /\ Waiting => LinesOK(poll.lines)'
      /\ Waiting' <=> Waiting
  BY <1>1, <1>4, <1>5, QuietStep
<1>7. Shapes'
  BY <1>1, <1>2, <1>4 DEF Shapes, workerVars
<1>8. WatchOK'
  BY <1>1, <1>2, <1>3, <1>4, <1>6 DEF WatchOK, Covers, Seen
<1>9. /\ generation \in Nat /\ session \in Sessions
      /\ Waiting => poll.owner \in Nat /\ poll.owner <= generation
  BY <1>2 DEF MachineOK
<1>10. generation' = generation + 1
  BY <1>1
<1>11. generation' \in Nat /\ (Waiting => poll.owner <= generation' /\ poll.owner # generation')
  BY <1>9, <1>10
<1>12. MachineOK'
  BY <1>1, <1>3, <1>6, <1>9, <1>11 DEF MachineOK
<1> QED BY <1>6, <1>7, <1>8, <1>12 DEF FeedInv

-----------------------------------------------------------------------------
(* The behaviours.                                                          *)

\* Every step keeps the invariant.
LEMMA FeedInvStep ==
  ASSUME FeedInv, [Next]_vars, DOMAIN None = {}
  PROVE  FeedInv'
<1>1. ASSUME NEW t \in Turns, AppendsStarted(t)
      PROVE  FeedInv'
  BY <1>1, AppendsStartedStep
<1>2. ASSUME NEW t \in Turns, NEW content \in Contents, AppendsRecorded(t, content)
      PROVE  FeedInv'
  BY <1>2, AppendsRecordedStep
<1>3. ASSUME NEW t \in Turns, Rewrites(t)
      PROVE  FeedInv'
  BY <1>3, RewritesStep
<1>4. ASSUME NEW s \in Sessions, SessionChanges(s)
      PROVE  FeedInv'
  BY <1>4, SessionChangesStep
<1>5. ASSUME NEW s \in Sessions, NEW reload \in BOOLEAN, SessionStarts(s, reload)
      PROVE  FeedInv'
  BY <1>5, SessionStartsStep
<1>6. CASE TurnCompletes
  BY <1>6, TurnCompletesStep
<1>7. CASE HandlerStep
  BY <1>7, HandlerReadsStep, BaselineEndsStep, ArmBaselinesStep, ArmEndsStep DEF HandlerStep
<1>8. CASE HandlerFails
  BY <1>8, HandlerFailsStep
<1>9. CASE HandlerReads(TRUE)
  BY <1>9, HandlerReadsStep
<1>10. CASE PollStep
  BY <1>10, PollReadsStep, PollTicksStep, PollShowsStep DEF PollStep
<1>11. CASE PollReads(TRUE)
  BY <1>11, PollReadsStep
<1>12. CASE Tick
  BY <1>12, TickStep DEF Tick
<1>13. CASE UNCHANGED vars
  BY <1>13, TickStep DEF vars
<1> QED BY <1>1, <1>2, <1>3, <1>4, <1>5, <1>6, <1>7, <1>8, <1>9, <1>10, <1>11, <1>12, <1>13 DEF Next

\* What the feed shows, it shows once and never from before the mod began with
\* the session, however many sessions, reviews, workers, faults and events there
\* are: but for a read that failed with nothing read before, the race of an arm
\* with a poll, and a line that the race of two rewrites brings back
\* (watch.ts:66, register.ts:439, log.ts:47).
THEOREM FeedShowsOnce == DOMAIN None = {} => (Spec => []ShownOnce)
<1> SUFFICES ASSUME DOMAIN None = {}
             PROVE  Spec => []ShownOnce
  OBVIOUS
<1>1. Init => FeedInv
  BY InitOK
<1>2. FeedInv /\ [Next]_vars => FeedInv'
  BY FeedInvStep
<1>3. FeedInv => ShownOnce
  BY DEF FeedInv
<1> QED BY <1>1, <1>2, <1>3, PTL DEF Spec
=============================================================================

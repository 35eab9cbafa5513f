-------------------------- MODULE LocalStore_proofs --------------------------
(***************************************************************************)
(* Proofs about the local files and the processes that share them, for any *)
(* number of them, any sizes and record limits, histories and faults.      *)
(*                                                                         *)
(* First, no rewrite loses a review or an answer it should keep, and until *)
(* something fails no file stays too long.  What a file owes to the writes *)
(* since it was made (Held) is kept line by line; the same is owed by the  *)
(* contents with which a process is about to replace it.                   *)
(*                                                                         *)
(* Then, a listed number answers the FAIL it was shown for, and the        *)
(* listing and the report tell of the same FAILs: what the folds over the  *)
(* history collect is said by sets of its FAILs, by least counterexample.  *)
(***************************************************************************)
EXTENDS LocalStore, ListLemmas, FiniteSetTheorems
LOCAL INSTANCE SequencesExt
LOCAL INSTANCE FiniteSetsExt

(* LocalStore: the answers of a feedback file.                              *)

LEMMA MembersSet ==
  ASSUME NEW s
  PROVE  ToSet(s) = Members(s)
BY DEF ToSet, Members

LEMMA LargerOfTwo ==
  ASSUME NEW a \in Int, NEW b \in Int
  PROVE  Max({a, b}) = IF a >= b THEN a ELSE b
<1> DEFINE larger == IF a >= b THEN a ELSE b
<1>1. larger \in {a, b} /\ \A j \in {a, b} : larger >= j
  OBVIOUS
<1>2. \A m \in {a, b} : (\A j \in {a, b} : m >= j) => m = larger
  OBVIOUS
<1>3. Max({a, b}) = CHOOSE m \in {a, b} : \A j \in {a, b} : m >= j
  BY DEF Max
<1> HIDE DEF larger
<1>4. Max({a, b}) = larger
  BY <1>1, <1>2, <1>3
<1> QED BY <1>4 DEF larger

\* The last elements of a list: how many, and which.
IsRest(t, s, m, skip) ==
  /\ skip \in Nat /\ skip <= Len(s) /\ Len(s) - skip <= m /\ (skip = 0 \/ Len(s) - skip = m)
  /\ Len(s) \in Nat /\ DOMAIN s = 1..Len(s)
  /\ IsList(t) /\ Len(t) = Len(s) - skip /\ DOMAIN t = 1..(Len(s) - skip)
  /\ \A k \in 1..(Len(s) - skip) : t[k] = s[k + skip]

LEMMA NewestList ==
  ASSUME NEW s, IsList(s), NEW m \in Nat \ {0}
  PROVE  \E skip : IsRest(Newest(s, m), s, m, skip)
<1> DEFINE skip == IF Len(s) > m THEN Len(s) - m ELSE 0
<1>1. Len(s) \in Nat /\ DOMAIN s = 1..Len(s) /\ s \in Seq(Members(s))
  BY ListOfSeq DEF IsList
<1>2. skip \in Nat /\ skip <= Len(s)
  BY <1>1
<1>3. Max({0, Len(s) - m}) = skip
  BY <1>1, LargerOfTwo
<1>4. Newest(s, m) = SubSeq(s, skip + 1, Len(s))
  BY <1>3 DEF Newest
<1> HIDE DEF skip
<1>5. /\ SubSeq(s, skip + 1, Len(s)) \in Seq(Members(s))
      /\ Len(SubSeq(s, skip + 1, Len(s))) = Len(s) - skip
      /\ \A k \in 1..(Len(s) - skip) : SubSeq(s, skip + 1, Len(s))[k] = s[k + skip]
  <2>1. \A i \in (skip + 1)..Len(s) : s[i] \in Members(s)
    BY <1>1, <1>2 DEF Members
  <2>2. /\ SubSeq(s, skip + 1, Len(s)) \in Seq(Members(s))
        /\ Len(SubSeq(s, skip + 1, Len(s))) = Len(s) - (skip + 1) + 1
        /\ \A k \in 1..(Len(s) - (skip + 1) + 1) :
             SubSeq(s, skip + 1, Len(s))[k] = s[(skip + 1) + k - 1]
    <3> DEFINE first == skip + 1
    <3>1. first \in Int /\ Len(s) \in Int /\ first <= Len(s) + 1
      BY <1>1, <1>2
    <3>2. \A i \in first..Len(s) : s[i] \in Members(s)
      BY <2>1
    <3> HIDE DEF first
    <3>3. /\ SubSeq(s, first, Len(s)) \in Seq(Members(s))
          /\ Len(SubSeq(s, first, Len(s))) = Len(s) - first + 1
          /\ \A k \in 1..(Len(s) - first + 1) : SubSeq(s, first, Len(s))[k] = s[first + k - 1]
      BY <3>1, <3>2, SubSeqOf
    <3> QED BY <3>3 DEF first
  <2>3. Len(s) - (skip + 1) + 1 = Len(s) - skip
    BY <1>1, <1>2
  <2>4. \A k \in 1..(Len(s) - skip) : SubSeq(s, skip + 1, Len(s))[k] = s[k + skip]
    <3> SUFFICES ASSUME NEW k \in 1..(Len(s) - skip)
                 PROVE  SubSeq(s, skip + 1, Len(s))[k] = s[k + skip]
      OBVIOUS
    <3>1. k \in 1..(Len(s) - (skip + 1) + 1) /\ (skip + 1) + k - 1 = k + skip
      BY <1>1, <1>2
    <3>2. SubSeq(s, skip + 1, Len(s))[k] = s[(skip + 1) + k - 1]
      BY <2>2, <3>1
    <3> QED BY <3>1, <3>2
  <2> QED BY <2>2, <2>3, <2>4
<1>6. IsList(Newest(s, m)) /\ DOMAIN Newest(s, m) = 1..(Len(s) - skip)
  <2>1. Newest(s, m) \in Seq(Members(s)) /\ Len(Newest(s, m)) = Len(s) - skip
    BY <1>4, <1>5
  <2> QED BY <2>1, ListOfSeq
<1>7. Len(s) - skip <= m /\ (skip = 0 \/ Len(s) - skip = m)
  BY <1>1 DEF skip
<1>8. IsRest(Newest(s, m), s, m, skip)
  <2>1. Len(Newest(s, m)) = Len(s) - skip
    BY <1>4, <1>5
  <2>2. \A k \in 1..(Len(s) - skip) : Newest(s, m)[k] = s[k + skip]
    BY <1>4, <1>5
  <2> QED BY <1>1, <1>2, <1>6, <1>7, <2>1, <2>2, Zenon DEF IsRest
<1> QED BY <1>8

\* LatestFeedbackRecords, record by record.
AnswerAfter(latest, a) == Append(Kept(latest, {b \in ToSet(latest) : IdentityOf(b) # IdentityOf(a)}), a)
LatestStep(feedback, f, n) == IF n = 0 THEN <<>> ELSE AnswerAfter(f[n - 1], feedback[n])
LatestUpto(feedback, k, f) == f = [n \in 0..k |-> LatestStep(feedback, f, n)]

LEMMA LatestUptoStep ==
  ASSUME NEW feedback, NEW k \in Nat, NEW f, LatestUpto(feedback, k, f)
  PROVE  /\ DOMAIN f = 0..k /\ f[0] = <<>>
         /\ \A n \in 1..k : f[n] = AnswerAfter(f[n - 1], feedback[n])
<1>1. f = [n \in 0..k |-> LatestStep(feedback, f, n)]
  BY DEF LatestUpto
<1>2. DOMAIN f = 0..k /\ \A n \in 0..k : f[n] = LatestStep(feedback, f, n)
  BY <1>1, Zenon
<1>3. 0 \in 0..k /\ \A n \in 1..k : n \in 0..k /\ n # 0
  OBVIOUS
<1> QED BY <1>2, <1>3 DEF LatestStep

LEMMA LatestUptoExists ==
  ASSUME NEW feedback, NEW k \in Nat
  PROVE  \E f : LatestUpto(feedback, k, f)
<1> DEFINE Bad == {n \in Nat : ~\E f : LatestUpto(feedback, n, f)}
<1> SUFFICES ASSUME Bad # {} PROVE FALSE
  OBVIOUS
<1>1. PICK n \in Bad : \A m \in Bad : n <= m
  <2> HIDE DEF Bad
  <2>1. Bad \in SUBSET Nat
    BY DEF Bad
  <2> QED BY <2>1, LeastNumber
<1>2. n # 0
  <2>1. ASSUME n = 0 PROVE FALSE
    <3> DEFINE f == [m \in 0..0 |-> <<>>]
    <3>1. f = [m \in 0..n |-> LatestStep(feedback, f, m)]
      BY <2>1 DEF LatestStep
    <3> HIDE DEF f
    <3>2. LatestUpto(feedback, n, f)
      BY <3>1 DEF LatestUpto
    <3> QED BY <3>2
  <2> QED BY <2>1
<1>3. n - 1 \in Nat /\ n - 1 \notin Bad /\ n \in Nat
  BY <1>1, <1>2
<1>4. PICK g : LatestUpto(feedback, n - 1, g)
  BY <1>3
<1>5. /\ DOMAIN g = 0..(n - 1) /\ g[0] = <<>>
      /\ \A m \in 1..(n - 1) : g[m] = AnswerAfter(g[m - 1], feedback[m])
  BY <1>3, <1>4, LatestUptoStep
<1> DEFINE f == [m \in 0..n |-> IF m = n THEN AnswerAfter(g[n - 1], feedback[n]) ELSE g[m]]
<1>6. \A m \in 0..n : f[m] = LatestStep(feedback, f, m)
  <2>1. ASSUME NEW m \in 0..n PROVE f[m] = LatestStep(feedback, f, m)
    <3>1. CASE m = 0
      BY <3>1, <1>2, <1>3, <1>5 DEF LatestStep
    <3>2. CASE m # 0
      <4>1. m - 1 \in 0..n /\ m - 1 # n /\ m \in 1..n
        BY <3>2, <1>3
      <4>2. f[m - 1] = g[m - 1]
        BY <4>1
      <4>3. CASE m = n
        BY <4>1, <4>2, <4>3 DEF LatestStep
      <4>4. CASE m # n
        <5>1. m \in 1..(n - 1)
          BY <4>1, <4>4, <1>3
        <5> QED BY <4>2, <4>4, <5>1, <1>5, <3>2 DEF LatestStep
      <4> QED BY <4>3, <4>4
    <3> QED BY <3>1, <3>2
  <2> QED BY <2>1
<1>7. f = [m \in 0..n |-> LatestStep(feedback, f, m)]
  BY <1>6
<1> HIDE DEF f
<1>8. LatestUpto(feedback, n, f)
  BY <1>7 DEF LatestUpto
<1> QED BY <1>1, <1>8

\* Where an answer is the last about its FAIL, among the first n.
LastPlaces(feedback, n) ==
  {a \in 1..n : \A b \in 1..n : a < b => IdentityOf(feedback[b]) # IdentityOf(feedback[a])}

\* One answer for each FAIL, its last, in their order.
LEMMA LatestPlaces ==
  ASSUME NEW feedback, IsList(feedback)
  PROVE  /\ IsList(LatestFeedbackRecords(feedback))
         /\ \E g : Selects(LatestFeedbackRecords(feedback), feedback,
                           LastPlaces(feedback, Len(feedback)), g)
<1> DEFINE k == Len(feedback)
<1>1. k \in Nat /\ DOMAIN feedback = 1..k
  BY ListOfSeq DEF IsList
<1>2. PICK f : LatestUpto(feedback, k, f) /\ LatestFeedbackRecords(feedback) = f[k]
  <2> DEFINE u == CHOOSE u : LatestUpto(feedback, k, u)
  <2>1. LatestUpto(feedback, k, u)
    BY <1>1, LatestUptoExists, Zenon
  <2>2. LatestFeedbackRecords(feedback) = u[k]
    BY DEF LatestFeedbackRecords, LatestUpto, LatestStep, AnswerAfter
  <2> QED BY <2>1, <2>2, Zenon
<1>3. /\ f[0] = <<>>
      /\ \A n \in 1..k : f[n] = AnswerAfter(f[n - 1], feedback[n])
  BY <1>1, <1>2, LatestUptoStep
<1> DEFINE Among(n) == LastPlaces(feedback, n)
           Good(n) == IsList(f[n]) /\ \E g : Selects(f[n], feedback, Among(n), g)
           Bad == {n \in 0..k : ~Good(n)}
<1>4. Bad = {}
  <2> SUFFICES ASSUME Bad # {} PROVE FALSE
    OBVIOUS
  <2>1. PICK n \in Bad : \A m \in Bad : n <= m
    <3>1. Bad \in SUBSET Nat
      BY <1>1
    <3> HIDE DEF Bad
    <3> QED BY <3>1, LeastNumber
  <2>2. Good(0)
    <3>1. Among(0) = {}
      BY DEF LastPlaces
    <3> HIDE DEF Among
    <3> QED BY <1>3, <3>1, EmptyList, SelectsNothing
  <2>3. n \in 1..k /\ n - 1 \in 0..k /\ ~Good(n)
    <3> HIDE DEF Good
    <3>1. n \in 0..k /\ ~Good(n)
      BY <2>1
    <3>2. n # 0
      BY <2>2, <3>1
    <3> QED BY <1>1, <3>1, <3>2
  <2>4. Good(n - 1)
    <3>1. n - 1 \notin Bad
      <4>1. ~(n <= n - 1)
        BY <2>3
      <4> HIDE DEF Bad
      <4> QED BY <2>1, <4>1
    <3> HIDE DEF Good
    <3> QED BY <2>3, <3>1
  <2> DEFINE older == f[n - 1]
             others == {b \in Members(older) : IdentityOf(b) # IdentityOf(feedback[n])}
             inner == {i \in 1..Len(older) : older[i] \in others}
  <2>5. PICK g : Selects(older, feedback, Among(n - 1), g)
    BY <2>4
  <2>6. f[n] = Append(Kept(older, others), feedback[n])
    BY <1>3, <2>3, MembersSet DEF AnswerAfter
  <2>7. PICK h : Selects(Kept(older, others), older, inner, h)
    <3> HIDE DEF others
    <3> QED BY <2>4, KeptPlaces
  <2>8. /\ Among(n - 1) \in SUBSET (1..(n - 1)) /\ n \in Nat
        /\ 1..n = (1..(n - 1)) \cup {n}
    BY <2>3 DEF LastPlaces
  <2> DEFINE outer == {g[b] : b \in inner}
  <2>9. PICK e : Selects(Kept(older, others), feedback, outer, e)
    <3>1. Through(g, 1..Len(older), inner, outer)
      BY DEF Through
    <3> HIDE DEF others, inner, outer, older, Among
    <3> QED BY <2>5, <2>7, <3>1, SelectsOfSelected
  <2>10. /\ g \in [1..Len(older) -> Among(n - 1)]
         /\ \A i \in 1..Len(older) : older[i] = feedback[g[i]]
         /\ \A a \in Among(n - 1) : \E i \in 1..Len(older) : g[i] = a
    BY <2>5 DEF Selects
  <2>11. \A i \in 1..Len(older) : i \in inner <=> IdentityOf(feedback[g[i]]) # IdentityOf(feedback[n])
    <3>1. \A i \in 1..Len(older) : older[i] \in Members(older)
      <4>1. DOMAIN older = 1..Len(older)
        BY <2>4, ListOfSeq DEF IsList
      <4> QED BY <4>1 DEF Members
    <3> HIDE DEF older
    <3> QED BY <2>10, <3>1
  <2>12. outer = {a \in Among(n - 1) : IdentityOf(feedback[a]) # IdentityOf(feedback[n])}
    <3>1. inner \subseteq 1..Len(older)
      OBVIOUS
    <3> HIDE DEF inner, older, others, Among
    <3> QED BY <2>10, <2>11, <3>1
  <2>13. outer \cup {n} = Among(n)
    <3>1. ASSUME NEW a \in 1..(n - 1)
          PROVE  a \in Among(n) <=> a \in Among(n - 1) /\ IdentityOf(feedback[a]) # IdentityOf(feedback[n])
      <4>1. a \in 1..n /\ a < n
        BY <2>3, <3>1
      <4> QED BY <2>8, <4>1 DEF LastPlaces
    <3>2. n \in Among(n)
      BY <2>3 DEF LastPlaces
    <3>3. Among(n) \subseteq 1..n /\ Among(n - 1) \subseteq 1..(n - 1)
      BY DEF LastPlaces
    <3> HIDE DEF Among, inner, outer
    <3> QED BY <2>8, <2>12, <3>1, <3>2, <3>3
  <2>14. IsList(Kept(older, others))
    <3> HIDE DEF others
    <3> QED BY <2>4, KeptMembers
  <2>15. outer \in SUBSET (1..(n - 1))
    <3> HIDE DEF inner, outer, Among
    <3> QED BY <2>8, <2>12
  <2> HIDE DEF inner, outer, others, older
  <2>16. \E d : Selects(Append(Kept(older, others), feedback[n]), feedback, outer \cup {n}, d)
    BY <2>8, <2>9, <2>14, <2>15, SelectsMore
  <2>17. IsList(Append(Kept(older, others), feedback[n]))
    BY <2>14, AppendList
  <2> QED BY <2>3, <2>6, <2>13, <2>16, <2>17
<1>5. Good(k)
  <2> HIDE DEF Good
  <2> QED BY <1>1, <1>4
<1> QED BY <1>2, <1>5

\* An answer in a list that is the last about its FAIL; only FAILs of `after` are
\* answered behind it.
Tells(answers, key, after, decision, k) ==
  /\ k \in DOMAIN answers /\ IdentityOf(answers[k]) = key /\ answers[k].decision = decision
  /\ \A l \in DOMAIN answers : k < l => IdentityOf(answers[l]) \in after

LinesTell(lines, key, after, decision, k) ==
  /\ k \in DOMAIN lines /\ lines[k].tag = "RECORD"
  /\ IdentityOf(lines[k].value) = key /\ lines[k].value.decision = decision
  /\ \A l \in DOMAIN lines : k < l /\ lines[l].tag = "RECORD" => IdentityOf(lines[l].value) \in after

\* What a reader makes of the lines.
GoodLines(file, good, g) ==
  /\ Selects(good, file.lines, {a \in 1..Len(file.lines) : file.lines[a].tag = "RECORD"}, g)
  /\ IsList(good)
  /\ ParseJsonLines(file).records = [i \in DOMAIN good |-> good[i].value]

LEMMA ParsedRecords ==
  ASSUME NEW file, IsList(file.lines)
  PROVE  \E good, g : GoodLines(file, good, g)
<1> DEFINE wanted == {line \in Members(file.lines) : line.tag = "RECORD"}
           good == Kept(file.lines, wanted)
<1>1. ParseJsonLines(file).records = [i \in DOMAIN good |-> good[i].value]
  BY MembersSet DEF ParseJsonLines
<1>2. Len(file.lines) \in Nat /\ DOMAIN file.lines = 1..Len(file.lines)
  BY ListOfSeq DEF IsList
<1>3. {a \in 1..Len(file.lines) : file.lines[a] \in wanted} =
        {a \in 1..Len(file.lines) : file.lines[a].tag = "RECORD"}
  BY <1>2 DEF Members
<1> HIDE DEF wanted
<1>4. IsList(good) /\ \E g : Selects(good, file.lines, {a \in 1..Len(file.lines) : file.lines[a] \in wanted}, g)
  BY KeptMembers, KeptPlaces
<1> HIDE DEF good
<1> QED BY <1>1, <1>3, <1>4 DEF GoodLines

LEMMA ParsedTells ==
  ASSUME NEW file, IsList(file.lines), NEW key, NEW after, NEW decision, NEW k,
         LinesTell(file.lines, key, after, decision, k)
  PROVE  /\ IsList(ParseJsonLines(file).records)
         /\ \E m : Tells(ParseJsonLines(file).records, key, after, decision, m)
<1> DEFINE lines == file.lines
           at == {a \in 1..Len(lines) : lines[a].tag = "RECORD"}
<1>0. PICK good, g : GoodLines(file, good, g)
  BY ParsedRecords
<1>1. /\ Selects(good, lines, at, g) /\ IsList(good)
      /\ ParseJsonLines(file).records = [i \in DOMAIN good |-> good[i].value]
  BY <1>0 DEF GoodLines
<1> DEFINE records == [i \in DOMAIN good |-> good[i].value]
<1>2. Len(good) \in Nat /\ DOMAIN good = 1..Len(good) /\ DOMAIN lines = 1..Len(lines)
  BY <1>1, ListOfSeq DEF IsList
<1>3. DOMAIN records = 1..Len(good) /\ \A i \in 1..Len(good) : records[i] = good[i].value
  BY <1>2
<1>4. IsList(records)
  <2>1. records \in [1..Len(good) -> Members(records)]
    BY <1>2 DEF Members
  <2> HIDE DEF records
  <2> QED BY <1>2, <2>1, SeqDef DEF IsList
<1> HIDE DEF records
<1>5. /\ g \in [1..Len(good) -> at]
      /\ \A i \in 1..Len(good) : good[i] = lines[g[i]]
      /\ \A i, j \in 1..Len(good) : i < j => g[i] < g[j]
      /\ \A a \in at : \E i \in 1..Len(good) : g[i] = a
  BY <1>1 DEF Selects
<1>6. /\ k \in at /\ IdentityOf(lines[k].value) = key /\ lines[k].value.decision = decision
      /\ \A l \in at : k < l => IdentityOf(lines[l].value) \in after
  BY <1>2 DEF LinesTell
<1>7. PICK m \in 1..Len(good) : g[m] = k
  BY <1>5, <1>6
<1>8. IdentityOf(records[m]) = key /\ records[m].decision = decision
  BY <1>3, <1>5, <1>6, <1>7
<1>9. ASSUME NEW l \in 1..Len(good), m < l PROVE IdentityOf(records[l]) \in after
  <2>1. g[l] \in at /\ k < g[l] /\ records[l] = lines[g[l]].value
    BY <1>3, <1>5, <1>7, <1>9
  <2> QED BY <1>6, <2>1
<1>10. Tells(records, key, after, decision, m)
  BY <1>3, <1>8, <1>9 DEF Tells
<1> QED BY <1>1, <1>4, <1>10 DEF records

\* Every reader finds it.
LEMMA ToldDecision ==
  ASSUME NEW answers, IsList(answers), NEW key, NEW after, key \notin after, NEW decision, NEW k,
         Tells(answers, key, after, decision, k)
  PROVE  key \in DOMAIN LatestDecisions(answers) /\ LatestDecisions(answers)[key] = decision
<1>1. DOMAIN answers = 1..Len(answers) /\ Len(answers) \in Nat
  BY ListOfSeq DEF IsList
<1> DEFINE about == {i \in DOMAIN answers : IdentityOf(answers[i]) = key}
<1>2. k \in about /\ \A j \in about : k >= j
  BY <1>1 DEF Tells
<1>3. \A m \in about : (\A j \in about : m >= j) => m = k
  BY <1>1, <1>2
<1>4. Max(about) = k
  <2>1. Max(about) = CHOOSE m \in about : \A j \in about : m >= j
    BY DEF Max
  <2> HIDE DEF about
  <2> QED BY <1>2, <1>3, <2>1
<1>5. key \in {IdentityOf(answers[i]) : i \in DOMAIN answers}
  BY <1>2
<1>6. /\ key \in DOMAIN LatestDecisions(answers)
      /\ LatestDecisions(answers)[key] = answers[Max(about)].decision
  BY <1>5 DEF LatestDecisions
<1> QED BY <1>4, <1>6 DEF Tells

\* A compaction keeps it, unless as many other FAILs as it keeps are answered behind it.
LEMMA CompactedTells ==
  ASSUME NEW answers, IsList(answers), NEW key, NEW after, key \notin after, NEW decision, NEW k,
         Tells(answers, key, after, decision, k),
         NEW m \in Nat \ {0}, IsFiniteSet(after), Cardinality(after) < m
  PROVE  \E p : Tells(CompactFeedback(answers, m), key, after, decision, p)
<1> DEFINE latest == LatestFeedbackRecords(answers)
           at == LastPlaces(answers, Len(answers))
           new == Newest(latest, m)
<1>1. IsList(latest) /\ \E g : Selects(latest, answers, at, g)
  BY LatestPlaces
<1>2. PICK g : Selects(latest, answers, at, g)
  BY <1>1
<1>3. PICK skip : IsRest(new, latest, m, skip)
  <2> HIDE DEF latest
  <2> QED BY <1>1, NewestList
<1>4. DOMAIN answers = 1..Len(answers) /\ Len(answers) \in Nat
  BY ListOfSeq DEF IsList
<1>5. /\ g \in [1..Len(latest) -> at]
      /\ \A i \in 1..Len(latest) : latest[i] = answers[g[i]]
      /\ \A i, j \in 1..Len(latest) : i < j => g[i] < g[j]
      /\ \A a \in at : \E i \in 1..Len(latest) : g[i] = a
  BY <1>2 DEF Selects
<1>6. /\ skip \in Nat /\ skip <= Len(latest) /\ (skip = 0 \/ Len(latest) - skip = m)
      /\ Len(latest) \in Nat /\ DOMAIN new = 1..(Len(latest) - skip)
      /\ \A i \in 1..(Len(latest) - skip) : new[i] = latest[i + skip]
  BY <1>3 DEF IsRest
<1>7. k \in at /\ at \subseteq 1..Len(answers)
  <2>1. \A b \in 1..Len(answers) : k < b => IdentityOf(answers[b]) # IdentityOf(answers[k])
    BY <1>4 DEF Tells
  <2>2. k \in 1..Len(answers)
    BY <1>4 DEF Tells
  <2> QED BY <2>1, <2>2 DEF LastPlaces
<1> HIDE DEF latest, new
<1>8. PICK q \in 1..Len(latest) : g[q] = k
  BY <1>5, <1>7
<1>9. latest[q] = answers[k]
  BY <1>5, <1>8
<1>10. ASSUME NEW r \in 1..Len(latest), q < r PROVE IdentityOf(latest[r]) \in after
  <2>1. g[r] \in DOMAIN answers /\ k < g[r] /\ latest[r] = answers[g[r]]
    BY <1>4, <1>5, <1>7, <1>8, <1>10
  <2> QED BY <2>1 DEF Tells
<1>11. ASSUME NEW r \in 1..Len(latest), NEW s \in 1..Len(latest), r < s
       PROVE  IdentityOf(latest[r]) # IdentityOf(latest[s])
  <2>1. g[r] \in at /\ g[s] \in 1..Len(answers) /\ g[r] < g[s]
    BY <1>5, <1>7, <1>11
  <2>2. IdentityOf(answers[g[s]]) # IdentityOf(answers[g[r]])
    BY <2>1 DEF LastPlaces
  <2> QED BY <1>5, <2>2
<1>12. Len(latest) - q <= Cardinality(after)
  <2> DEFINE S == (q + 1)..Len(latest)
             f == [r \in S |-> IdentityOf(latest[r])]
  <2>1. S \subseteq 1..Len(latest) /\ \A r \in S : q < r
    BY <1>6
  <2>2. f \in [S -> after]
    BY <1>10, <2>1
  <2>3. \A r, s \in S : f[r] = f[s] => r = s
    <3>1. ASSUME NEW r \in S, NEW s \in S, r # s PROVE f[r] # f[s]
      <4>1. r < s \/ s < r
        BY <3>1, <1>6
      <4> QED BY <1>11, <2>1, <4>1
    <3> QED BY <3>1
  <2>4. IsFiniteSet(S) /\ Cardinality(S) \in Nat /\ Cardinality(after) \in Nat
    <3>1. q + 1 \in Int /\ Len(latest) \in Int
      BY <1>6
    <3> QED BY <3>1, FS_Interval, FS_CardinalityType
  <2>5. Cardinality(S) <= Cardinality(after)
    <3>1. ASSUME Cardinality(after) < Cardinality(S) PROVE FALSE
      <4> HIDE DEF S, f
      <4> QED BY <2>2, <2>3, <2>4, <3>1, FS_PigeonHole
    <3> QED BY <2>4, <3>1
  <2>6. Cardinality(S) = Len(latest) - q
    <3> DEFINE first == q + 1
    <3>1. first \in Int /\ Len(latest) \in Int
      BY <1>6
    <3> HIDE DEF first
    <3>2. Cardinality(first..Len(latest)) = IF first > Len(latest) THEN 0 ELSE Len(latest) - first + 1
      BY <3>1, FS_Interval
    <3> QED BY <1>6, <3>2 DEF first
  <2> QED BY <2>5, <2>6
<1>13. Cardinality(after) \in Nat
  BY FS_CardinalityType
<1>14. skip < q
  BY <1>6, <1>12, <1>13
<1> DEFINE p == q - skip
<1>15. p \in 1..(Len(latest) - skip) /\ p + skip = q
  BY <1>6, <1>14
<1> HIDE DEF p
<1>16. new[p] = answers[k]
  BY <1>6, <1>9, <1>15
<1>17. ASSUME NEW l \in DOMAIN new, p < l PROVE IdentityOf(new[l]) \in after
  <2>1. l \in 1..(Len(latest) - skip) /\ new[l] = latest[l + skip]
    BY <1>6, <1>17
  <2>2. l \in Int /\ p \in Int /\ skip \in Nat /\ Len(latest) \in Nat
    BY <1>6, <1>15, <2>1
  <2>3. l + skip \in 1..Len(latest) /\ q < l + skip
    BY <1>15, <1>17, <2>1, <2>2
  <2> QED BY <1>10, <2>1, <2>3
<1>18. Tells(new, key, after, decision, p)
  BY <1>6, <1>15, <1>16, <1>17 DEF Tells
<1> QED BY <1>18 DEF CompactFeedback, new, latest

----------------------------------------------------------------------------
(* What a file owes to the writes since it was made. *)

IsAt(lines, value, k) == k \in DOMAIN lines /\ lines[k] = Line(value)

\* No more lines than writes follow a sound review; cut says that the last line
\* has no newline, and then no sound review is in it.
ReviewHeld(lines, all, cut, i) ==
  /\ \A k, l : IsAt(lines, all[i].value, k) /\ IsAt(lines, all[i].value, l) => k = l
  /\ \A k : IsAt(lines, all[i].value, k) => Len(lines) - k <= Len(all) - i /\ (cut => k # Len(lines))
  /\ (\A k : ~IsAt(lines, all[i].value, k)) => Len(all) - i >= MaxRecords["reviews"]
  /\ \A j \in DOMAIN all : all[j].sound /\ i < j =>
       \A k, l : IsAt(lines, all[i].value, k) /\ IsAt(lines, all[j].value, l) => k < l

ReviewsHeld(lines, all, cut) ==
  \A i \in DOMAIN all : all[i].sound => ReviewHeld(lines, all, cut, i)

\* The FAILs answered after a write.
After(all, i) == {IdentityOf(all[j].value) : j \in (i + 1)..Len(all)}
StillOwed(all, i) ==
  /\ all[i].sound /\ IdentityOf(all[i].value) \notin After(all, i)
  /\ Cardinality(After(all, i)) < MaxRecords["feedback"]

AnswerHeld(lines, all, i, cut, k) ==
  /\ LinesTell(lines, IdentityOf(all[i].value), After(all, i), all[i].value.decision, k)
  /\ cut => k # Len(lines)

AnswersHeld(lines, all, cut) ==
  \A i \in DOMAIN all : StillOwed(all, i) => \E k : AnswerHeld(lines, all, i, cut, k)

Held(f, lines, all, cut) ==
  IF f = "reviews" THEN ReviewsHeld(lines, all, cut) ELSE AnswersHeld(lines, all, cut)

Write(value, sound) == [value |-> value, sound |-> sound]

LEMMA LineIsItsValue ==
  ASSUME NEW a, NEW b
  PROVE  (Line(a) = Line(b) => a = b) /\ Line(a) # Malformed /\ Line(a).tag = "RECORD"
         /\ Line(a).value = a /\ Malformed.tag # "RECORD"
<1>1. Line(a).value = a /\ Line(b).value = b /\ Line(a).tag = "RECORD" /\ Malformed.tag = "MALFORMED"
  BY DEF Line, Malformed
<1> QED BY <1>1

LEMMA FiniteImage ==
  ASSUME NEW h, NEW n \in Nat
  PROVE  IsFiniteSet({h[j] : j \in 1..n})
<1> DEFINE Image(k) == {h[j] : j \in 1..k}
           Bad == {k \in Nat : ~IsFiniteSet(Image(k))}
<1> SUFFICES ASSUME Bad # {} PROVE FALSE
  OBVIOUS
<1>1. PICK k \in Bad : \A m \in Bad : k <= m
  <2>1. Bad \in SUBSET Nat
    OBVIOUS
  <2> HIDE DEF Bad
  <2> QED BY <2>1, LeastNumber
<1>2. Image(0) = {}
  OBVIOUS
<1>3. k # 0
  <2> HIDE DEF Image
  <2> QED BY <1>1, <1>2, FS_EmptySet
<1>4. k - 1 \in Nat /\ k - 1 \notin Bad
  <2>1. k \in Nat /\ k - 1 \in Nat /\ ~(k <= k - 1)
    BY <1>1, <1>3
  <2> HIDE DEF Bad
  <2> QED BY <1>1, <2>1
<1>5. Image(k) = Image(k - 1) \cup {h[k]}
  <2>1. 1..k = (1..(k - 1)) \cup {k}
    BY <1>1, <1>4
  <2> QED BY <2>1
<1>6. IsFiniteSet(Image(k - 1)) /\ ~IsFiniteSet(Image(k))
  BY <1>1, <1>4
<1> HIDE DEF Image
<1> QED BY <1>5, <1>6, FS_AddElement

LEMMA AfterFinite ==
  ASSUME NEW all, IsList(all), NEW i \in DOMAIN all
  PROVE  IsFiniteSet(After(all, i)) /\ Cardinality(After(all, i)) \in Nat
<1>1. Len(all) \in Nat /\ i \in 1..Len(all)
  BY ListOfSeq DEF IsList
<1> DEFINE h == [j \in 1..Len(all) |-> IdentityOf(all[j].value)]
           keys == {h[j] : j \in 1..Len(all)}
<1>2. IsFiniteSet(keys)
  <2> HIDE DEF h
  <2> QED BY <1>1, FiniteImage
<1>3. After(all, i) \in SUBSET keys
  <2>1. \A j \in (i + 1)..Len(all) : j \in 1..Len(all)
    BY <1>1
  <2> QED BY <2>1 DEF After
<1> HIDE DEF keys
<1> QED BY <1>2, <1>3, FS_Subset, FS_CardinalityType

\* One more write: what is answered after an older one, and whether it is owed.
LEMMA AfterOneMore ==
  ASSUME NEW all, IsList(all), NEW w, NEW i \in DOMAIN all
  PROVE  /\ After(Append(all, w), i) = After(all, i) \cup {IdentityOf(w.value)}
         /\ Append(all, w)[i] = all[i]
         /\ StillOwed(Append(all, w), i) => StillOwed(all, i)
<1> DEFINE more == Append(all, w)
<1>1. /\ Len(all) \in Nat /\ Len(more) = Len(all) + 1 /\ DOMAIN all = 1..Len(all)
      /\ \A j \in 1..Len(all) : more[j] = all[j]
      /\ more[Len(all) + 1] = w
  BY AppendList
<1> HIDE DEF more
<1>2. After(more, i) = After(all, i) \cup {IdentityOf(w.value)}
  <2>1. (i + 1)..Len(more) = ((i + 1)..Len(all)) \cup {Len(all) + 1}
    BY <1>1
  <2>2. \A j \in (i + 1)..Len(all) : more[j] = all[j]
    BY <1>1
  <2> QED BY <1>1, <2>1, <2>2 DEF After
<1>3. more[i] = all[i]
  BY <1>1
<1>4. ASSUME StillOwed(more, i) PROVE StillOwed(all, i)
  <2>1. IsFiniteSet(After(all, i)) /\ Cardinality(After(all, i)) \in Nat
    BY AfterFinite
  <2>2. Cardinality(After(more, i)) =
          IF IdentityOf(w.value) \in After(all, i) THEN Cardinality(After(all, i))
          ELSE Cardinality(After(all, i)) + 1
    BY <1>2, <2>1, FS_AddElement
  <2>3. Cardinality(After(all, i)) <= Cardinality(After(more, i))
    BY <2>1, <2>2
  <2>4. Cardinality(After(more, i)) < MaxRecords["feedback"] /\ MaxRecords["feedback"] \in Nat
    BY <1>4, StoreAssumption DEF StillOwed, Files
  <2>5. Cardinality(After(more, i)) \in Nat
    BY <2>1, <2>2
  <2>6. Cardinality(After(all, i)) < MaxRecords["feedback"]
    BY <2>1, <2>3, <2>4, <2>5
  <2> QED BY <1>2, <1>3, <1>4, <2>6 DEF StillOwed
<1> QED BY <1>2, <1>3, <1>4 DEF more

\* Of a file that was made anew nothing is owed.
LEMMA HeldOfNothing ==
  ASSUME NEW f, NEW lines, NEW cut
  PROVE  Held(f, lines, <<>>, cut)
BY EmptyList DEF Held, ReviewsHeld, AnswersHeld

\* A write whose line was lost, or belongs elsewhere.
LEMMA HeldUnsound ==
  ASSUME NEW f, NEW lines, IsList(lines), NEW all, IsList(all), NEW cut, Held(f, lines, all, cut),
         NEW value
  PROVE  Held(f, lines, Append(all, Write(value, FALSE)), cut)
<1> DEFINE w == Write(value, FALSE)
           more == Append(all, w)
<1>1. /\ Len(all) \in Nat /\ Len(more) = Len(all) + 1 /\ DOMAIN all = 1..Len(all)
      /\ DOMAIN more = 1..(Len(all) + 1)
      /\ \A j \in 1..Len(all) : more[j] = all[j]
      /\ more[Len(all) + 1] = w /\ ~w.sound
  BY AppendList DEF Write
<1>2. ASSUME NEW i \in DOMAIN more, more[i].sound PROVE i \in DOMAIN all /\ more[i] = all[i]
  <2> HIDE DEF more, w
  <2>1. i # Len(all) + 1
    BY <1>1, <1>2
  <2>2. i \in 1..Len(all)
    BY <1>1, <2>1
  <2> QED BY <1>1, <2>2
<1>3. CASE f = "reviews"
  <2>1. ReviewsHeld(lines, all, cut)
    BY <1>3 DEF Held
  <2>2. Len(lines) \in Nat /\ DOMAIN lines = 1..Len(lines) /\ MaxRecords["reviews"] \in Nat
    BY ListOfSeq, StoreAssumption DEF IsList, Files
  <2>3. ASSUME NEW i \in DOMAIN more, more[i].sound
        PROVE  /\ i \in DOMAIN all /\ more[i] = all[i] /\ all[i].sound
               /\ \A k : IsAt(lines, all[i].value, k) => Len(lines) - k <= Len(more) - i
               /\ Len(all) - i >= MaxRecords["reviews"] => Len(more) - i >= MaxRecords["reviews"]
    <3>1. i \in DOMAIN all /\ more[i] = all[i]
      BY <1>2, <2>3
    <3>2. ASSUME NEW k, IsAt(lines, all[i].value, k) PROVE Len(lines) - k <= Len(more) - i
      <4>1. Len(lines) - k <= Len(all) - i
        BY <2>1, <2>3, <3>1, <3>2 DEF ReviewsHeld, ReviewHeld
      <4>2. k \in 1..Len(lines) /\ i \in 1..Len(all)
        BY <1>1, <2>2, <3>1, <3>2 DEF IsAt
      <4> QED BY <1>1, <2>2, <4>1, <4>2
    <3> QED BY <1>1, <2>2, <2>3, <3>1, <3>2
  <2>4. ReviewsHeld(lines, more, cut)
    <3> HIDE DEF more
    <3> QED BY <2>1, <2>3 DEF ReviewsHeld, ReviewHeld
  <2> QED BY <1>3, <2>4 DEF Held
<1>4. CASE f # "reviews"
  <2>1. AnswersHeld(lines, all, cut)
    BY <1>4 DEF Held
  <2>2. ASSUME NEW i \in DOMAIN more, StillOwed(more, i)
        PROVE  \E k : AnswerHeld(lines, more, i, cut, k)
    <3>1. i \in DOMAIN all /\ more[i] = all[i]
      BY <1>2, <2>2 DEF StillOwed
    <3>2. StillOwed(all, i) /\ After(all, i) \subseteq After(more, i)
      <4>1. /\ After(more, i) = After(all, i) \cup {IdentityOf(w.value)}
            /\ StillOwed(more, i) => StillOwed(all, i)
        <5> HIDE DEF w
        <5> QED BY <3>1, AfterOneMore
      <4> QED BY <2>2, <4>1
    <3>3. PICK k : AnswerHeld(lines, all, i, cut, k)
      BY <2>1, <3>1, <3>2 DEF AnswersHeld
    <3>4. AnswerHeld(lines, more, i, cut, k)
      <4> HIDE DEF more
      <4> QED BY <3>1, <3>2, <3>3 DEF AnswerHeld, LinesTell
    <3> QED BY <3>4
  <2>3. AnswersHeld(lines, more, cut)
    BY <2>2 DEF AnswersHeld
  <2> QED BY <1>4, <2>3 DEF Held
<1> QED BY <1>3, <1>4

\* A write behind the others; a sound one is there, and new.
LEMMA HeldAppended ==
  ASSUME NEW f, NEW lines, IsList(lines), NEW all, IsList(all), Held(f, lines, all, FALSE),
         NEW value, NEW sound \in BOOLEAN, NEW cut \in BOOLEAN,
         NEW line \in {Line(value), Malformed}, sound => line = Line(value) /\ ~cut,
         f = "reviews" => /\ \A k : ~IsAt(lines, value, k)
                          /\ \A i \in DOMAIN all : all[i].value # value
  PROVE  Held(f, Append(lines, line), Append(all, Write(value, sound)), cut)
<1> DEFINE w == Write(value, sound)
           more == Append(all, w)
           longer == Append(lines, line)
           n == Len(lines)
           m == Len(all)
<1>1. /\ m \in Nat /\ Len(more) = m + 1 /\ DOMAIN all = 1..m /\ DOMAIN more = 1..(m + 1)
      /\ \A j \in 1..m : more[j] = all[j]
      /\ more[m + 1] = w
  <2> HIDE DEF w
  <2> QED BY AppendList
<1>2. /\ n \in Nat /\ Len(longer) = n + 1 /\ DOMAIN lines = 1..n /\ DOMAIN longer = 1..(n + 1)
      /\ \A k \in 1..n : longer[k] = lines[k]
      /\ longer[n + 1] = line
  BY AppendList
<1>3. w.value = value /\ w.sound = sound
  BY DEF Write
<1>4. \A i \in 1..m : /\ After(more, i) = After(all, i) \cup {IdentityOf(value)}
                      /\ StillOwed(more, i) => StillOwed(all, i)
  <2> HIDE DEF w
  <2> QED BY <1>1, <1>3, AfterOneMore
<1> HIDE DEF w, more, longer, n, m
<1>5. CASE f = "reviews"
  <2>1. ReviewsHeld(lines, all, FALSE)
    BY <1>5 DEF Held
  <2>2. ASSUME NEW i \in 1..m, all[i].sound
        PROVE  \A k : IsAt(longer, all[i].value, k) <=> IsAt(lines, all[i].value, k)
    <3>1. all[i].value # value
      BY <1>1, <1>5
    <3>2. line # Line(all[i].value)
      BY <3>1, LineIsItsValue
    <3>3. 1..(n + 1) = (1..n) \cup {n + 1} /\ n + 1 \notin 1..n
      BY <1>2
    <3> QED BY <1>2, <3>2, <3>3 DEF IsAt
  <2>3. ASSUME sound PROVE \A k : IsAt(longer, value, k) <=> k = n + 1
    <3>1. line = Line(value)
      BY <2>3
    <3>2. \A k \in 1..n : lines[k] # Line(value)
      BY <1>2, <1>5 DEF IsAt
    <3>3. 1..(n + 1) = (1..n) \cup {n + 1} /\ n + 1 \notin 1..n
      BY <1>2
    <3> QED BY <1>2, <3>1, <3>2, <3>3 DEF IsAt
  <2>4. ASSUME NEW i \in 1..m, all[i].sound
        PROVE  /\ \A k, l : IsAt(longer, all[i].value, k) /\ IsAt(longer, all[i].value, l) => k = l
               /\ \A k : IsAt(longer, all[i].value, k) =>
                    k \in 1..n /\ n + 1 - k <= m + 1 - i /\ k # n + 1
               /\ (\A k : ~IsAt(longer, all[i].value, k)) => m + 1 - i >= MaxRecords["reviews"]
               /\ \A j \in 1..m : all[j].sound /\ i < j =>
                    \A k, l : IsAt(longer, all[i].value, k) /\ IsAt(longer, all[j].value, l) => k < l
    <3>1. \A k : IsAt(longer, all[i].value, k) <=> IsAt(lines, all[i].value, k)
      BY <2>2, <2>4
    <3>2. \A k, l : IsAt(lines, all[i].value, k) /\ IsAt(lines, all[i].value, l) => k = l
      BY <1>1, <2>1, <2>4 DEF ReviewsHeld, ReviewHeld
    <3>3. \A k : IsAt(lines, all[i].value, k) => n - k <= m - i
      BY <1>1, <2>1, <2>4 DEF ReviewsHeld, ReviewHeld, n, m
    <3>4. (\A k : ~IsAt(lines, all[i].value, k)) => m - i >= MaxRecords["reviews"]
      BY <1>1, <2>1, <2>4 DEF ReviewsHeld, ReviewHeld, m
    <3>5. \A j \in 1..m : all[j].sound /\ i < j =>
                    \A k, l : IsAt(lines, all[i].value, k) /\ IsAt(lines, all[j].value, l) => k < l
      BY <1>1, <2>1, <2>4 DEF ReviewsHeld, ReviewHeld
    <3>6. \A k : IsAt(lines, all[i].value, k) => k \in 1..n
      BY <1>2 DEF IsAt
    <3>7. ASSUME NEW k, IsAt(longer, all[i].value, k)
          PROVE  k \in 1..n /\ n + 1 - k <= m + 1 - i /\ k # n + 1
      <4>1. k \in 1..n /\ n - k <= m - i
        BY <3>1, <3>3, <3>6, <3>7
      <4> QED BY <1>1, <1>2, <4>1
    <3>8. MaxRecords["reviews"] \in Nat
      BY StoreAssumption DEF Files
    <3>9. ASSUME \A k : ~IsAt(longer, all[i].value, k) PROVE m + 1 - i >= MaxRecords["reviews"]
      <4>1. m - i >= MaxRecords["reviews"]
        BY <3>1, <3>4, <3>9
      <4> QED BY <1>1, <3>8, <4>1
    <3>10. ASSUME NEW j \in 1..m, all[j].sound, i < j, NEW k, NEW l,
                  IsAt(longer, all[i].value, k), IsAt(longer, all[j].value, l)
           PROVE  k < l
      <4>1. IsAt(lines, all[j].value, l) /\ IsAt(lines, all[i].value, k)
        BY <2>2, <3>1, <3>10
      <4> QED BY <3>5, <3>10, <4>1
    <3> QED BY <3>1, <3>2, <3>7, <3>9, <3>10
  <2>5. ASSUME NEW i \in 1..(m + 1), more[i].sound
        PROVE  /\ \A k, l : IsAt(longer, more[i].value, k) /\ IsAt(longer, more[i].value, l) => k = l
               /\ \A k : IsAt(longer, more[i].value, k) => n + 1 - k <= m + 1 - i /\ (cut => k # n + 1)
               /\ (\A k : ~IsAt(longer, more[i].value, k)) => m + 1 - i >= MaxRecords["reviews"]
               /\ \A j \in 1..(m + 1) : more[j].sound /\ i < j =>
                    \A k, l : IsAt(longer, more[i].value, k) /\ IsAt(longer, more[j].value, l) => k < l
    <3>1. CASE i = m + 1
      <4>1. more[i].value = value /\ sound /\ ~cut
        BY <1>1, <1>3, <2>5, <3>1
      <4>2. \A k : IsAt(longer, more[i].value, k) <=> k = n + 1
        BY <2>3, <4>1
      <4>3. ~\E j \in 1..(m + 1) : i < j
        BY <1>1, <3>1
      <4>4. n + 1 - (n + 1) <= m + 1 - i
        BY <1>1, <1>2, <3>1
      <4> QED BY <4>1, <4>2, <4>3, <4>4
    <3>2. CASE i # m + 1
      <4>1. i \in 1..m /\ more[i] = all[i] /\ all[i].sound
        BY <1>1, <2>5, <3>2
      <4>2. ASSUME NEW j \in 1..(m + 1), more[j].sound, i < j, NEW k, NEW l,
                   IsAt(longer, more[i].value, k), IsAt(longer, more[j].value, l)
            PROVE  k < l
        <5>1. k \in 1..n
          BY <2>4, <4>1, <4>2
        <5>2. CASE j = m + 1
          <6>1. l = n + 1
            BY <1>1, <1>3, <2>3, <4>2, <5>2
          <6> QED BY <1>2, <5>1, <6>1
        <5>3. CASE j # m + 1
          <6>1. j \in 1..m /\ more[j] = all[j] /\ all[j].sound
            BY <1>1, <4>2, <5>3
          <6> QED BY <2>4, <4>1, <4>2, <6>1
        <5> QED BY <5>2, <5>3
      <4> QED BY <2>4, <4>1, <4>2
    <3> QED BY <3>1, <3>2
  <2>6. ReviewsHeld(longer, more, cut)
    <3>1. ASSUME NEW i \in DOMAIN more, more[i].sound
          PROVE  ReviewHeld(longer, more, cut, i)
      <4>0. Len(longer) = n + 1 /\ Len(more) = m + 1 /\ DOMAIN more = 1..(m + 1)
        BY <1>1, <1>2
      <4>1. i \in 1..(m + 1)
        BY <3>1, <4>0
      <4>2. \A k, l : IsAt(longer, more[i].value, k) /\ IsAt(longer, more[i].value, l) => k = l
        BY <2>5, <3>1, <4>1, Zenon
      <4>3. ASSUME NEW k, IsAt(longer, more[i].value, k)
            PROVE  Len(longer) - k <= Len(more) - i /\ (cut => k # Len(longer))
        <5>1. n + 1 - k <= m + 1 - i /\ (cut => k # n + 1)
          BY <2>5, <3>1, <4>1, <4>3, Zenon
        <5>2. k \in Int
          BY <1>2, <4>3 DEF IsAt
        <5> QED BY <1>1, <1>2, <4>0, <4>1, <5>1, <5>2
      <4>4. ASSUME \A k : ~IsAt(longer, more[i].value, k)
            PROVE  Len(more) - i >= MaxRecords["reviews"]
        <5>1. m + 1 - i >= MaxRecords["reviews"]
          BY <2>5, <3>1, <4>1, <4>4, Zenon
        <5> QED BY <1>1, <4>0, <4>1, <5>1
      <4>5. \A j \in DOMAIN more : more[j].sound /\ i < j =>
              \A k, l : IsAt(longer, more[i].value, k) /\ IsAt(longer, more[j].value, l) => k < l
        BY <2>5, <3>1, <4>0, <4>1, Zenon
      <4> QED BY <4>2, <4>3, <4>4, <4>5, Zenon DEF ReviewHeld
    <3> QED BY <3>1 DEF ReviewsHeld
  <2> QED BY <1>5, <2>6 DEF Held, longer, more, w
<1>6. CASE f # "reviews"
  <2>1. AnswersHeld(lines, all, FALSE)
    BY <1>6 DEF Held
  <2>2. ASSUME NEW i \in DOMAIN more, StillOwed(more, i)
        PROVE  \E k : AnswerHeld(longer, more, i, cut, k)
    <3>1. CASE i = m + 1
      <4>1. more[i].value = value /\ sound /\ ~cut /\ line = Line(value)
        BY <1>1, <1>3, <2>2, <3>1 DEF StillOwed
      <4>2. longer[n + 1].tag = "RECORD" /\ longer[n + 1].value = value
        BY <1>2, <4>1, LineIsItsValue
      <4>3. n + 1 \in DOMAIN longer /\ ~\E l \in DOMAIN longer : n + 1 < l
        BY <1>2
      <4>4. AnswerHeld(longer, more, i, cut, n + 1)
        BY <4>1, <4>2, <4>3 DEF AnswerHeld, LinesTell
      <4> QED BY <4>4
    <3>2. CASE i # m + 1
      <4>1. i \in 1..m /\ more[i] = all[i]
        BY <1>1, <2>2, <3>2
      <4>2. StillOwed(all, i) /\ After(more, i) = After(all, i) \cup {IdentityOf(value)}
        BY <1>4, <2>2, <4>1
      <4>3. PICK k : AnswerHeld(lines, all, i, FALSE, k)
        BY <1>1, <2>1, <4>1, <4>2 DEF AnswersHeld
      <4>4. k \in 1..n /\ k \in 1..(n + 1) /\ k # n + 1 /\ longer[k] = lines[k]
        BY <1>2, <4>3 DEF AnswerHeld, LinesTell
      <4>5. ASSUME NEW l \in DOMAIN longer, k < l, longer[l].tag = "RECORD"
            PROVE  IdentityOf(longer[l].value) \in After(more, i)
        <5>1. CASE l = n + 1
          <6>1. longer[l] = Line(value)
            BY <1>2, <4>5, <5>1, LineIsItsValue
          <6> QED BY <4>2, <6>1, LineIsItsValue
        <5>2. CASE l # n + 1
          <6>1. l \in DOMAIN lines /\ longer[l] = lines[l]
            BY <1>2, <5>2
          <6> QED BY <4>2, <4>3, <4>5, <6>1 DEF AnswerHeld, LinesTell
        <5> QED BY <5>1, <5>2
      <4>6. LinesTell(lines, IdentityOf(all[i].value), After(all, i), all[i].value.decision, k)
        BY <4>3 DEF AnswerHeld
      <4>7. LinesTell(longer, IdentityOf(more[i].value), After(more, i), more[i].value.decision, k)
        BY <1>2, <4>1, <4>4, <4>5, <4>6 DEF LinesTell
      <4>8. AnswerHeld(longer, more, i, cut, k)
        BY <1>2, <4>4, <4>7 DEF AnswerHeld
      <4> QED BY <4>8
    <3> QED BY <3>1, <3>2
  <2>3. AnswersHeld(longer, more, cut)
    BY <2>2 DEF AnswersHeld
  <2> QED BY <1>6, <2>3 DEF Held, longer, more, w
<1> QED BY <1>5, <1>6

\* A write behind a line without a newline: both are lost in one malformed line.
LEMMA GluedList ==
  ASSUME NEW lines, IsList(lines), lines # <<>>
  PROVE  /\ IsList(Append(Front(lines), Malformed))
         /\ Len(lines) \in Nat \ {0} /\ Len(Append(Front(lines), Malformed)) = Len(lines)
         /\ DOMAIN lines = 1..Len(lines) /\ DOMAIN Append(Front(lines), Malformed) = 1..Len(lines)
         /\ \A k \in 1..(Len(lines) - 1) : Append(Front(lines), Malformed)[k] = lines[k]
         /\ Append(Front(lines), Malformed)[Len(lines)] = Malformed
<1> DEFINE n == Len(lines)
           front == Front(lines)
<1>1. n \in Nat \ {0} /\ DOMAIN lines = 1..n /\ lines \in Seq(Members(lines))
  BY TailList DEF IsList
<1>2. front = SubSeq(lines, 1, n - 1)
  BY DEF Front
<1>3. \A i \in 1..(n - 1) : lines[i] \in Members(lines)
  BY <1>1 DEF Members
<1> DEFINE last == n - 1
<1>4. last \in Int /\ 1 <= last + 1 /\ 1 \in Int
  BY <1>1
<1> HIDE DEF last
<1>5. /\ SubSeq(lines, 1, last) \in Seq(Members(lines))
      /\ Len(SubSeq(lines, 1, last)) = last - 1 + 1
      /\ \A i \in 1..(last - 1 + 1) : SubSeq(lines, 1, last)[i] = lines[1 + i - 1]
  <2>1. \A i \in 1..last : lines[i] \in Members(lines)
    BY <1>3 DEF last
  <2> QED BY <1>4, <2>1, SubSeqOf
<1>6. /\ IsList(front) /\ Len(front) = n - 1
      /\ \A i \in 1..(n - 1) : front[i] = lines[i]
  <2>1. last - 1 + 1 = n - 1 /\ \A i \in 1..(n - 1) : i \in 1..(last - 1 + 1) /\ 1 + i - 1 = i
    BY <1>1 DEF last
  <2>2. front = SubSeq(lines, 1, last)
    BY <1>2 DEF last
  <2>3. IsList(front)
    BY <1>5, <2>2, ListOfSeq
  <2> HIDE DEF front
  <2> QED BY <1>5, <2>1, <2>2, <2>3
<1> HIDE DEF front, n
<1>7. /\ IsList(Append(front, Malformed)) /\ Len(Append(front, Malformed)) = Len(front) + 1
      /\ DOMAIN Append(front, Malformed) = 1..(Len(front) + 1)
      /\ \A i \in 1..Len(front) : Append(front, Malformed)[i] = front[i]
      /\ Append(front, Malformed)[Len(front) + 1] = Malformed
  BY <1>6, AppendList
<1>8. Len(front) + 1 = n
  BY <1>1, <1>6
<1>9. \A i \in 1..(n - 1) : Append(front, Malformed)[i] = lines[i]
  BY <1>6, <1>7
<1> QED BY <1>1, <1>7, <1>8, <1>9 DEF front, n

LEMMA HeldGlued ==
  ASSUME NEW f, NEW lines, IsList(lines), lines # <<>>, NEW all, IsList(all),
         Held(f, lines, all, TRUE), NEW cut
  PROVE  Held(f, Append(Front(lines), Malformed), all, cut)
<1> DEFINE new == Append(Front(lines), Malformed)
           n == Len(lines)
<1>1. /\ n \in Nat \ {0} /\ Len(new) = n /\ DOMAIN lines = 1..n /\ DOMAIN new = 1..n
      /\ \A k \in 1..(n - 1) : new[k] = lines[k]
      /\ new[n] = Malformed
  BY GluedList
<1> HIDE DEF new, n
<1>2. \A k \in 1..n : k # n => new[k] = lines[k]
  BY <1>1
<1>3. CASE f = "reviews"
  <2>1. ReviewsHeld(lines, all, TRUE)
    BY <1>3 DEF Held
  <2>2. ASSUME NEW i \in DOMAIN all, all[i].sound
        PROVE  ReviewHeld(new, all, cut, i)
    <3>1. ReviewHeld(lines, all, TRUE, i)
      BY <2>1, <2>2 DEF ReviewsHeld
    <3>2. ASSUME NEW j \in DOMAIN all, all[j].sound
          PROVE  \A k : IsAt(new, all[j].value, k) <=> IsAt(lines, all[j].value, k)
      <4>1. ~IsAt(lines, all[j].value, n)
        BY <2>1, <3>2 DEF ReviewsHeld, ReviewHeld, n
      <4>2. ~IsAt(new, all[j].value, n)
        BY <1>1, LineIsItsValue DEF IsAt
      <4>3. ASSUME NEW k, k # n PROVE IsAt(new, all[j].value, k) <=> IsAt(lines, all[j].value, k)
        BY <1>1, <1>2, <4>3 DEF IsAt
      <4> QED BY <4>1, <4>2, <4>3
    <3>3. \A k : IsAt(new, all[i].value, k) <=> IsAt(lines, all[i].value, k)
      BY <2>2, <3>2
    <3>4. \A k, l : IsAt(new, all[i].value, k) /\ IsAt(new, all[i].value, l) => k = l
      BY <3>1, <3>3, Zenon DEF ReviewHeld
    <3>5. Len(new) = Len(lines)
      BY <1>1 DEF n
    <3>6. \A k : IsAt(new, all[i].value, k) => Len(new) - k <= Len(all) - i /\ k # Len(new)
      BY <3>1, <3>3, <3>5, Zenon DEF ReviewHeld
    <3>7. (\A k : ~IsAt(new, all[i].value, k)) => Len(all) - i >= MaxRecords["reviews"]
      BY <3>1, <3>3, Zenon DEF ReviewHeld
    <3>8. ASSUME NEW j \in DOMAIN all, all[j].sound, i < j, NEW k, NEW l,
                 IsAt(new, all[i].value, k), IsAt(new, all[j].value, l)
          PROVE  k < l
      <4>1. IsAt(lines, all[j].value, l) /\ IsAt(lines, all[i].value, k)
        BY <3>2, <3>3, <3>8
      <4> QED BY <3>1, <3>8, <4>1, Zenon DEF ReviewHeld
    <3> QED BY <3>4, <3>6, <3>7, <3>8, Zenon DEF ReviewHeld
  <2> QED BY <1>3, <2>2 DEF Held, ReviewsHeld, new
<1>4. CASE f # "reviews"
  <2>1. AnswersHeld(lines, all, TRUE)
    BY <1>4 DEF Held
  <2>2. ASSUME NEW i \in DOMAIN all, StillOwed(all, i)
        PROVE  \E k : AnswerHeld(new, all, i, cut, k)
    <3>1. PICK k : AnswerHeld(lines, all, i, TRUE, k)
      BY <2>1, <2>2 DEF AnswersHeld
    <3>2. /\ LinesTell(lines, IdentityOf(all[i].value), After(all, i), all[i].value.decision, k)
          /\ k # n
      BY <3>1 DEF AnswerHeld, n
    <3>3. k \in 1..n /\ new[k] = lines[k]
      BY <1>1, <1>2, <3>2 DEF LinesTell
    <3>4. ASSUME NEW l \in DOMAIN new, k < l, new[l].tag = "RECORD"
          PROVE  IdentityOf(new[l].value) \in After(all, i)
      <4>1. l # n
        BY <1>1, <3>4, LineIsItsValue
      <4>2. l \in DOMAIN lines /\ new[l] = lines[l]
        BY <1>1, <1>2, <3>4, <4>1
      <4> QED BY <3>2, <3>4, <4>2 DEF LinesTell
    <3>5. LinesTell(new, IdentityOf(all[i].value), After(all, i), all[i].value.decision, k)
      BY <1>1, <3>2, <3>3, <3>4 DEF LinesTell
    <3>6. AnswerHeld(new, all, i, cut, k)
      BY <1>1, <3>2, <3>5 DEF AnswerHeld
    <3> QED BY <3>6
  <2> QED BY <1>4, <2>2 DEF Held, AnswersHeld, new
<1> QED BY <1>3, <1>4

\* A last line without a newline is only a loss for the next write.
LEMMA HeldUncut ==
  ASSUME NEW f, NEW lines, NEW all, NEW cut, Held(f, lines, all, cut)
  PROVE  Held(f, lines, all, FALSE)
<1>1. CASE f = "reviews"
  <2>1. ASSUME NEW i \in DOMAIN all, all[i].sound PROVE ReviewHeld(lines, all, FALSE, i)
    <3>1. ReviewHeld(lines, all, cut, i)
      BY <1>1, <2>1 DEF Held, ReviewsHeld
    <3> QED BY <3>1, Zenon DEF ReviewHeld
  <2> QED BY <1>1, <2>1 DEF Held, ReviewsHeld
<1>2. CASE f # "reviews"
  <2>1. \A i, k : AnswerHeld(lines, all, i, cut, k) => AnswerHeld(lines, all, i, FALSE, k)
    BY DEF AnswerHeld
  <2> QED BY <1>2, <2>1 DEF Held, AnswersHeld
<1> QED BY <1>1, <1>2

----------------------------------------------------------------------------
(* What a rewrite keeps. *)

LEMMA AsLinesList ==
  ASSUME NEW values, IsList(values)
  PROVE  /\ IsList(AsLines(values)) /\ Len(AsLines(values)) = Len(values) /\ Len(values) \in Nat
         /\ DOMAIN AsLines(values) = 1..Len(values) /\ DOMAIN values = 1..Len(values)
         /\ \A k \in 1..Len(values) : AsLines(values)[k] = Line(values[k])
<1> DEFINE lines == AsLines(values)
           n == Len(values)
<1>1. n \in Nat /\ DOMAIN values = 1..n
  BY ListOfSeq DEF IsList
<1> HIDE DEF n
<1>2. DOMAIN lines = 1..n /\ \A k \in 1..n : lines[k] = Line(values[k])
  BY <1>1 DEF AsLines
<1>3. lines \in [1..n -> Members(lines)]
  <2>1. lines = [k \in 1..n |-> lines[k]]
    BY <1>1 DEF AsLines
  <2>2. \A k \in 1..n : lines[k] \in Members(lines)
    BY <1>2 DEF Members
  <2> HIDE DEF lines
  <2> QED BY <2>1, <2>2
<1> HIDE DEF lines
<1>4. lines \in Seq(Members(lines))
  BY <1>1, <1>3, SeqDef
<1>5. IsList(lines) /\ DOMAIN lines = 1..Len(lines) /\ Len(lines) \in Nat
  BY <1>4, ListOfSeq
<1>6. Len(lines) = n
  BY <1>1, <1>2, <1>5
<1> QED BY <1>1, <1>2, <1>5, <1>6 DEF lines, n

\* A rewrite keeps lines of the file, few enough.
LEMMA RewrittenList ==
  ASSUME NEW f \in Files, NEW file, IsList(file.lines)
  PROVE  /\ IsList(Rewritten(f, file)) /\ Len(Rewritten(f, file)) <= MaxRecords[f]
         /\ f = "reviews" => \A k \in DOMAIN Rewritten(f, file) :
                               \E l \in DOMAIN file.lines : Rewritten(f, file)[k] = file.lines[l]
         /\ f # "reviews" => \A k \in DOMAIN Rewritten(f, file) : Rewritten(f, file)[k].tag = "RECORD"
<1> DEFINE max == MaxRecords[f]
<1>0. max \in Nat \ {0}
  BY StoreAssumption
<1>1. CASE f = "reviews"
  <2>1. Rewritten(f, file) = Newest(file.lines, max)
    BY <1>1 DEF Rewritten
  <2> HIDE DEF max
  <2>2. PICK skip : IsRest(Newest(file.lines, max), file.lines, max, skip)
    BY <1>0, NewestList
  <2> DEFINE new == Newest(file.lines, max)
  <2> HIDE DEF new
  <2>3. IsRest(new, file.lines, max, skip)
    BY <2>2 DEF new
  <2>4. /\ IsList(new) /\ Len(new) <= max
        /\ \A k \in DOMAIN new : \E l \in DOMAIN file.lines : new[k] = file.lines[l]
    <3>1. ASSUME NEW k \in DOMAIN new PROVE \E l \in DOMAIN file.lines : new[k] = file.lines[l]
      <4>1. k \in 1..(Len(file.lines) - skip) /\ new[k] = file.lines[k + skip]
        BY <2>3, <3>1 DEF IsRest
      <4>2. k + skip \in DOMAIN file.lines
        BY <2>3, <4>1 DEF IsRest
      <4> QED BY <4>1, <4>2
    <3> QED BY <2>3, <3>1 DEF IsRest
  <2> QED BY <1>1, <2>1, <2>4 DEF max, new
<1>2. CASE f # "reviews"
  <2> DEFINE records == ParseJsonLines(file).records
             latest == LatestFeedbackRecords(records)
             new == Newest(latest, max)
  <2>1. Rewritten(f, file) = AsLines(new)
    BY <1>2 DEF Rewritten, CompactFeedback
  <2>2. IsList(records)
    <3>1. PICK good, g : GoodLines(file, good, g)
      BY ParsedRecords
    <3>2. IsList(good) /\ records = [i \in DOMAIN good |-> good[i].value]
      BY <3>1 DEF GoodLines
    <3>3. Len(good) \in Nat /\ DOMAIN good = 1..Len(good)
      BY <3>2, ListOfSeq DEF IsList
    <3>4. records \in [1..Len(good) -> Members(records)]
      BY <3>2, <3>3 DEF Members
    <3> HIDE DEF records
    <3> QED BY <3>3, <3>4, SeqDef DEF IsList
  <2> HIDE DEF records
  <2>3. IsList(latest)
    BY <2>2, LatestPlaces
  <2> HIDE DEF latest, max
  <2>4. IsList(new) /\ Len(new) <= max
    <3>1. PICK skip : IsRest(new, latest, max, skip)
      BY <1>0, <2>3, NewestList
    <3> HIDE DEF new
    <3> QED BY <3>1 DEF IsRest
  <2> HIDE DEF new
  <2>5. /\ IsList(AsLines(new)) /\ Len(AsLines(new)) <= max
        /\ \A k \in DOMAIN AsLines(new) : AsLines(new)[k].tag = "RECORD"
    <3>1. /\ IsList(AsLines(new)) /\ Len(AsLines(new)) = Len(new)
          /\ DOMAIN AsLines(new) = 1..Len(new)
          /\ \A k \in 1..Len(new) : AsLines(new)[k] = Line(new[k])
      BY <2>4, AsLinesList
    <3> QED BY <2>4, <3>1, LineIsItsValue
  <2> QED BY <1>2, <2>1, <2>5 DEF max
<1> QED BY <1>1, <1>2

LEMMA ReviewRewritten ==
  ASSUME NEW lines, NEW new, NEW skip, IsRest(new, lines, MaxRecords["reviews"], skip),
         NEW all, IsList(all), NEW cut, NEW i \in DOMAIN all, all[i].sound, ReviewsHeld(lines, all, cut)
  PROVE  ReviewHeld(new, all, FALSE, i)
<1> DEFINE n == Len(lines)
           m == Len(all)
           max == MaxRecords["reviews"]
           v == all[i].value
<1>1. /\ skip \in Nat /\ skip <= n /\ (skip = 0 \/ n - skip = max)
      /\ n \in Nat /\ DOMAIN lines = 1..n
      /\ Len(new) = n - skip /\ DOMAIN new = 1..(n - skip)
      /\ \A k \in 1..(n - skip) : new[k] = lines[k + skip]
  BY DEF IsRest
<1>2. m \in Nat /\ DOMAIN all = 1..m /\ max \in Nat
  BY ListOfSeq, StoreAssumption DEF IsList, Files
<1>3. ReviewHeld(lines, all, cut, i)
  BY DEF ReviewsHeld
<1>4. /\ \A k, l : IsAt(lines, v, k) /\ IsAt(lines, v, l) => k = l
      /\ \A k : IsAt(lines, v, k) => n - k <= m - i
      /\ (\A k : ~IsAt(lines, v, k)) => m - i >= max
      /\ \A j \in DOMAIN all : all[j].sound /\ i < j =>
           \A k, l : IsAt(lines, v, k) /\ IsAt(lines, all[j].value, l) => k < l
  BY <1>3, Zenon DEF ReviewHeld
<1> HIDE DEF n, m, max, v
<1>5. ASSUME NEW x, NEW k, IsAt(new, x, k)
      PROVE  k \in 1..(n - skip) /\ k + skip \in 1..n /\ IsAt(lines, x, k + skip)
  <2>1. k \in 1..(n - skip) /\ new[k] = Line(x)
    BY <1>1, <1>5 DEF IsAt
  <2>2. k + skip \in 1..n /\ lines[k + skip] = Line(x)
    BY <1>1, <2>1
  <2> QED BY <1>1, <2>1, <2>2 DEF IsAt
<1>6. ASSUME NEW k, NEW l, IsAt(new, v, k), IsAt(new, v, l) PROVE k = l
  <2>1. k \in 1..(n - skip) /\ l \in 1..(n - skip) /\ IsAt(lines, v, k + skip) /\ IsAt(lines, v, l + skip)
    BY <1>5, <1>6
  <2>2. k + skip = l + skip
    <3> DEFINE a == k + skip
               b == l + skip
    <3>1. IsAt(lines, v, a) /\ IsAt(lines, v, b)
      BY <2>1
    <3> HIDE DEF a, b
    <3>2. a = b
      BY <1>4, <3>1
    <3> QED BY <3>2 DEF a, b
  <2> QED BY <1>1, <2>1, <2>2
<1>7. ASSUME NEW k, IsAt(new, v, k) PROVE Len(new) - k <= Len(all) - i
  <2> DEFINE a == k + skip
  <2>1. k \in 1..(n - skip) /\ IsAt(lines, v, a)
    BY <1>5, <1>7
  <2> HIDE DEF a
  <2>2. n - a <= m - i
    BY <1>4, <2>1
  <2>3. Len(new) - k = n - a /\ Len(all) = m
    BY <1>1, <2>1 DEF a, m
  <2> QED BY <2>2, <2>3, Zenon
<1>8. ASSUME \A k : ~IsAt(new, v, k) PROVE Len(all) - i >= MaxRecords["reviews"]
  <2>1. CASE \A k : ~IsAt(lines, v, k)
    BY <1>4, <2>1 DEF m, max
  <2>2. ASSUME NEW a, IsAt(lines, v, a) PROVE m - i >= max
    <3>1. a \in 1..n /\ n - a <= m - i /\ lines[a] = Line(v)
      BY <1>1, <1>4, <2>2 DEF IsAt
    <3>2. a <= skip
      <4>1. ASSUME a > skip PROVE FALSE
        <5> DEFINE b == a - skip
        <5>1. b \in 1..(n - skip) /\ b + skip = a
          BY <1>1, <3>1, <4>1
        <5> HIDE DEF b
        <5>2. new[b] = Line(v) /\ b \in DOMAIN new
          BY <1>1, <3>1, <5>1
        <5>3. IsAt(new, v, b)
          BY <5>2 DEF IsAt
        <5> QED BY <1>8, <5>3
      <4> QED BY <1>1, <3>1, <4>1
    <3>3. n - skip = max
      BY <1>1, <3>1, <3>2
    <3> QED BY <1>1, <1>2, <3>1, <3>2, <3>3
  <2> QED BY <2>1, <2>2 DEF m, max
<1>9. ASSUME NEW j \in DOMAIN all, all[j].sound, i < j, NEW k, NEW l,
             IsAt(new, v, k), IsAt(new, all[j].value, l)
      PROVE  k < l
  <2> DEFINE a == k + skip
             b == l + skip
  <2>1. k \in 1..(n - skip) /\ l \in 1..(n - skip) /\ IsAt(lines, v, a) /\ IsAt(lines, all[j].value, b)
    BY <1>5, <1>9
  <2> HIDE DEF a, b
  <2>2. a < b
    BY <1>4, <1>9, <2>1
  <2> QED BY <1>1, <2>1, <2>2 DEF a, b
<1> QED BY <1>6, <1>7, <1>8, <1>9, Zenon DEF ReviewHeld, v

LEMMA AnswerRewritten ==
  ASSUME NEW file, IsList(file.lines), NEW all, IsList(all), NEW cut, NEW i \in DOMAIN all,
         StillOwed(all, i), AnswersHeld(file.lines, all, cut)
  PROVE  \E k : AnswerHeld(Rewritten("feedback", file), all, i, FALSE, k)
<1> DEFINE key == IdentityOf(all[i].value)
           after == After(all, i)
           decision == all[i].value.decision
           max == MaxRecords["feedback"]
           records == ParseJsonLines(file).records
           new == CompactFeedback(records, max)
<1>1. PICK k : AnswerHeld(file.lines, all, i, cut, k)
  BY DEF AnswersHeld
<1>2. LinesTell(file.lines, key, after, decision, k)
  BY <1>1 DEF AnswerHeld
<1>3. IsFiniteSet(after) /\ Cardinality(after) < max /\ key \notin after /\ max \in Nat \ {0}
  BY AfterFinite, StoreAssumption DEF StillOwed, Files
<1>4. Rewritten("feedback", file) = AsLines(new)
  BY DEF Rewritten
<1>5. IsList(AsLines(new)) /\ IsList(new)
  <2>1. IsList(records)
    <3> HIDE DEF key, after, decision
    <3> QED BY <1>2, ParsedTells
  <2>2. IsList(LatestFeedbackRecords(records))
    <3> HIDE DEF records
    <3> QED BY <2>1, LatestPlaces
  <2>3. PICK skip : IsRest(Newest(LatestFeedbackRecords(records), max), LatestFeedbackRecords(records), max, skip)
    <3> HIDE DEF records, max
    <3> QED BY <1>3, <2>2, NewestList
  <2>4. IsList(new)
    BY <2>3 DEF IsRest, CompactFeedback
  <2> HIDE DEF new
  <2> QED BY <2>4, AsLinesList
<1> HIDE DEF key, after, decision, max
<1>6. PICK m : IsList(records) /\ Tells(records, key, after, decision, m)
  BY <1>2, ParsedTells
<1> HIDE DEF records
<1>7. PICK p : Tells(new, key, after, decision, p)
  BY <1>3, <1>6, CompactedTells
<1> HIDE DEF new
<1>8. /\ DOMAIN AsLines(new) = 1..Len(new) /\ DOMAIN new = 1..Len(new)
      /\ \A l \in 1..Len(new) : AsLines(new)[l] = Line(new[l])
  BY <1>5, AsLinesList
<1>9. \A l \in DOMAIN new : AsLines(new)[l].tag = "RECORD" /\ AsLines(new)[l].value = new[l]
  BY <1>8, LineIsItsValue
<1> DEFINE lines == AsLines(new)
<1>10. LinesTell(lines, key, after, decision, p)
  <2>1. DOMAIN lines = DOMAIN new
    BY <1>8
  <2> HIDE DEF lines
  <2> QED BY <1>7, <1>9, <2>1 DEF Tells, LinesTell, lines
<1>11. AnswerHeld(lines, all, i, FALSE, p)
  <2> HIDE DEF lines
  <2> QED BY <1>10 DEF AnswerHeld, key, after, decision
<1> QED BY <1>4, <1>11

LEMMA HeldRewritten ==
  ASSUME NEW f \in Files, NEW file, IsList(file.lines), NEW all, IsList(all), NEW cut,
         Held(f, file.lines, all, cut)
  PROVE  Held(f, Rewritten(f, file), all, FALSE)
<1>1. CASE f = "reviews"
  <2> DEFINE max == MaxRecords["reviews"]
             new == Newest(file.lines, max)
  <2>0. max \in Nat \ {0}
    BY StoreAssumption DEF Files
  <2>1. Rewritten(f, file) = new
    BY <1>1 DEF Rewritten
  <2>2. PICK skip : IsRest(new, file.lines, max, skip)
    <3> HIDE DEF max
    <3> QED BY <2>0, NewestList
  <2> HIDE DEF new
  <2>3. \A i \in DOMAIN all : all[i].sound => ReviewHeld(new, all, FALSE, i)
    BY <1>1, <2>2, ReviewRewritten DEF Held
  <2> QED BY <1>1, <2>1, <2>3 DEF Held, ReviewsHeld
<1>2. CASE f = "feedback"
  <2>1. AnswersHeld(file.lines, all, cut)
    BY <1>2 DEF Held
  <2>2. \A i \in DOMAIN all : StillOwed(all, i) => \E k : AnswerHeld(Rewritten(f, file), all, i, FALSE, k)
    BY <1>2, <2>1, AnswerRewritten
  <2> QED BY <1>2, <2>2 DEF Held, AnswersHeld
<1> QED BY <1>1, <1>2 DEF Files

\* What is owed is what the properties ask for.
LEMMA HeldReviews ==
  ASSUME IsList(files["reviews"].lines), IsList(truth.reviews), NEW cut,
         Held("reviews", files["reviews"].lines, truth.reviews, cut)
  PROVE  NewestKept
<1> DEFINE all == truth.reviews
           lines == files["reviews"].lines
           Places(i) == {k \in DOMAIN lines : lines[k] = Line(all[i].value)}
<1>1. ReviewsHeld(lines, all, cut)
  BY DEF Held
<1>2. \A i : \A k : k \in Places(i) <=> IsAt(lines, all[i].value, k)
  BY DEF IsAt
<1> HIDE DEF lines, all
<1>3. ASSUME NEW i \in DOMAIN all, all[i].sound
      PROVE  /\ Cardinality(Places(i)) <= 1
             /\ Places(i) = {} => Len(all) - i >= MaxRecords["reviews"]
             /\ \A j \in DOMAIN all : all[j].sound /\ i < j =>
                  \A k \in Places(i), l \in Places(j) : k < l
  <2>1. ReviewHeld(lines, all, cut, i)
    BY <1>1, <1>3 DEF ReviewsHeld
  <2> DEFINE here == Places(i)
  <2>2. \A k : k \in here <=> IsAt(lines, all[i].value, k)
    BY <1>2
  <2>3. \A k, l \in here : k = l
    BY <2>1, <2>2, Zenon DEF ReviewHeld
  <2>4. Cardinality(here) <= 1
    <3> HIDE DEF here
    <3>1. CASE here = {}
      BY <3>1, FS_EmptySet
    <3>2. ASSUME NEW k \in here PROVE Cardinality(here) <= 1
      <4>1. here = {k}
        BY <2>3
      <4>2. Cardinality(here) = 1
        BY <4>1, FS_Singleton, Zenon
      <4> QED BY <4>2
    <3> QED BY <3>1, <3>2
  <2>5. here = {} => Len(all) - i >= MaxRecords["reviews"]
    <3> HIDE DEF here
    <3>1. ASSUME here = {} PROVE \A k : ~IsAt(lines, all[i].value, k)
      BY <2>2, <3>1
    <3>2. (\A k : ~IsAt(lines, all[i].value, k)) => Len(all) - i >= MaxRecords["reviews"]
      BY <2>1, Zenon DEF ReviewHeld
    <3> QED BY <3>1, <3>2, Zenon
  <2>6. ASSUME NEW j \in DOMAIN all, all[j].sound, i < j, NEW k \in Places(i), NEW l \in Places(j)
        PROVE  k < l
    <3>1. IsAt(lines, all[i].value, k) /\ IsAt(lines, all[j].value, l)
      BY <1>2, <2>6
    <3> QED BY <2>1, <2>6, <3>1, Zenon DEF ReviewHeld
  <2> HIDE DEF Places
  <2> QED BY <2>4, <2>5, <2>6
<1> QED BY <1>3 DEF NewestKept, all, lines

LEMMA HeldAnswers ==
  ASSUME IsList(files["feedback"].lines), IsList(truth.feedback), NEW cut,
         Held("feedback", files["feedback"].lines, truth.feedback, cut)
  PROVE  AnswersKept
<1> DEFINE all == truth.feedback
           file == files["feedback"]
           records == ParseJsonLines(file).records
<1>1. AnswersHeld(file.lines, all, cut)
  BY DEF Held
<1> HIDE DEF all, file
<1>2. ASSUME NEW i \in DOMAIN all, StillOwed(all, i)
      PROVE  /\ IdentityOf(all[i].value) \in DOMAIN LatestDecisions(records)
             /\ LatestDecisions(records)[IdentityOf(all[i].value)] = all[i].value.decision
  <2> DEFINE key == IdentityOf(all[i].value)
             after == After(all, i)
             decision == all[i].value.decision
  <2>1. PICK k : AnswerHeld(file.lines, all, i, cut, k)
    BY <1>1, <1>2 DEF AnswersHeld
  <2>2. LinesTell(file.lines, key, after, decision, k) /\ key \notin after
    BY <1>2, <2>1 DEF AnswerHeld, StillOwed
  <2>3. IsList(file.lines)
    BY DEF file
  <2> HIDE DEF key, after, decision
  <2>4. PICK m : IsList(records) /\ Tells(records, key, after, decision, m)
    BY <2>2, <2>3, ParsedTells
  <2> HIDE DEF records
  <2>5. key \in DOMAIN LatestDecisions(records) /\ LatestDecisions(records)[key] = decision
    BY <2>2, <2>4, ToldDecision
  <2> QED BY <2>5 DEF key, decision
<1> HIDE DEF records
<1>3. \A i \in DOMAIN all : StillOwed(all, i) =>
        /\ IdentityOf(all[i].value) \in DOMAIN LatestDecisions(records)
        /\ LatestDecisions(records)[IdentityOf(all[i].value)] = all[i].value.decision
  BY <1>2
<1>4. \A i \in DOMAIN all : StillOwed(all, i) <=>
        /\ all[i].sound
        /\ IdentityOf(all[i].value) \notin {IdentityOf(all[j].value) : j \in (i + 1)..Len(all)}
        /\ Cardinality({IdentityOf(all[j].value) : j \in (i + 1)..Len(all)}) < MaxRecords["feedback"]
  BY DEF StillOwed, After
<1> QED BY <1>3, <1>4 DEF AnswersKept, all, file, records

----------------------------------------------------------------------------
(* The inductive invariant. *)

JobShape(job) ==
  /\ "stage" \in DOMAIN job
  /\ job.stage \in {"append", "size", "read", "replace"} => job.file \in Files
  /\ job.stage \in {"size", "read"} => job = [stage |-> job.stage, file |-> job.file]
  /\ job.stage = "replace" => IsList(job.lines)
FileShape(file) == IsList(file.lines) /\ file.cut \in BOOLEAN /\ (file.cut => file.lines # <<>>)
CountShape(count) ==
  /\ count = [events |-> count.events, faults |-> count.faults]
  /\ count.events \in Nat /\ count.faults \in Nat

StoreShape ==
  /\ DOMAIN files = Files /\ \A f \in Files : FileShape(files[f])
  /\ DOMAIN truth = Files \cup {"listings"} /\ \A f \in Files : IsList(truth[f])
  /\ DOMAIN procs = Procs /\ \A p \in Procs : JobShape(procs[p])
  /\ CountShape(used)

\* Each file holds what it owes, and so do the contents that will replace it.
JobOwed(job, written) ==
  job.stage = "replace" => Held(job.file, job.lines, written[job.file], FALSE)
NothingLost ==
  /\ \A f \in Files : Held(f, files[f].lines, truth[f], files[f].cut)
  /\ \A p \in Procs : JobOwed(procs[p], truth)

\* No two reviews are the same record: the one to be written is none of those
\* written, in the file, or in contents that will replace it.
NumbersIn(lines) == {lines[k].value.n : k \in {l \in DOMAIN lines : lines[l].tag = "RECORD"}}
NumbersOf(all) == {all[i].value.n : i \in DOMAIN all}
Pending(job) == IF job.stage = "append" /\ job.file = "reviews" THEN {job.value.n} ELSE {}
Carried(job) == IF job.stage = "replace" /\ job.file = "reviews" THEN NumbersIn(job.lines) ELSE {}
Known(lines, all, jobs) == NumbersIn(lines) \cup NumbersOf(all) \cup UNION {Carried(jobs[p]) : p \in Procs}
Upto(n) == {k \in Int : k <= n}
Fresh(lines, all, jobs, n) ==
  /\ Known(lines, all, jobs) \subseteq Upto(n)
  /\ \A p \in Procs : Pending(jobs[p]) \subseteq Upto(n) /\ Pending(jobs[p]) \cap Known(lines, all, jobs) = {}
  /\ \A p, q \in Procs : p # q => Pending(jobs[p]) \cap Pending(jobs[q]) = {}

\* Until a fault, a file that is too long has a process that will rewrite it.
AllRecords(lines) == \A k \in DOMAIN lines : lines[k].tag = "RECORD"
Busy(job, f) == job.stage \in {"size", "read", "replace"} /\ job.file = f
FileBounded(f, file, jobs) ==
  /\ file.present /\ ~file.cut /\ AllRecords(file.lines)
  /\ Len(file.lines) <= FileLimit(f) \/ \E p \in Procs : Busy(jobs[p], f)
JobBounded(job) ==
  job.stage = "replace" => AllRecords(job.lines) /\ Len(job.lines) <= MaxRecords[job.file]
Bounded ==
  used.faults = 0 => /\ \A f \in Files : FileBounded(f, files[f], procs)
                     /\ \A p \in Procs : JobBounded(procs[p])

StoreInv ==
  /\ StoreShape
  /\ NothingLost
  /\ Fresh(files["reviews"].lines, truth["reviews"], procs, used.events)
  /\ Bounded

LEMMA LimitBounds ==
  ASSUME NEW f \in Files
  PROVE  /\ FileLimit(f) \in Nat /\ MaxSize[f] \in Nat /\ MaxRecords[f] \in Nat \ {0}
         /\ MaxSize[f] <= FileLimit(f) /\ MaxRecords[f] <= FileLimit(f)
<1>1. MaxSize[f] \in Nat /\ MaxRecords[f] \in Nat \ {0}
  BY StoreAssumption
<1>2. MaxSize[f] \in Int /\ MaxRecords[f] \in Int
  BY <1>1
<1>3. FileLimit(f) = IF MaxSize[f] >= MaxRecords[f] THEN MaxSize[f] ELSE MaxRecords[f]
  BY <1>2, LargerOfTwo, Zenon DEF FileLimit
<1> QED BY <1>1, <1>3

LEMMA InvGives == StoreInv => RewritesKeep
<1> SUFFICES ASSUME StoreInv PROVE RewritesKeep
  OBVIOUS
<1>1. /\ \A f \in Files : IsList(files[f].lines) /\ IsList(truth[f])
      /\ \A f \in Files : Held(f, files[f].lines, truth[f], files[f].cut)
  BY DEF StoreInv, StoreShape, NothingLost, FileShape
<1>2. "reviews" \in Files /\ "feedback" \in Files
  BY DEF Files
<1>3. NewestKept
  BY <1>1, <1>2, HeldReviews
<1>4. AnswersKept
  BY <1>1, <1>2, HeldAnswers
<1>5. FilesBounded
  BY DEF StoreInv, Bounded, FileBounded, FilesBounded, Busy
<1> QED BY <1>3, <1>4, <1>5 DEF RewritesKeep

\* A write keeps what the file owes.
LEMMA GrownHeld ==
  ASSUME NEW f, NEW file, FileShape(file), NEW all, IsList(all), Held(f, file.lines, all, file.cut),
         NEW value, NEW sound \in BOOLEAN, NEW cut \in BOOLEAN,
         NEW line \in {Line(value), Malformed}, sound => line = Line(value) /\ ~cut /\ ~file.cut,
         f = "reviews" => value.n \notin NumbersIn(file.lines) \cup NumbersOf(all)
  PROVE  Held(f, Grown(file, line, cut).lines, Append(all, Write(value, sound)), cut)
<1>0. IsList(file.lines) /\ file.cut \in BOOLEAN /\ (file.cut => file.lines # <<>>)
  BY DEF FileShape
<1>1. CASE file.cut
  <2> DEFINE new == Append(Front(file.lines), Malformed)
  <2>1. Held(f, new, all, cut) /\ IsList(new)
    BY <1>0, <1>1, HeldGlued, GluedList
  <2>2. sound = FALSE
    BY <1>1
  <2>3. Grown(file, line, cut).lines = new
    BY <1>1 DEF Grown
  <2> HIDE DEF new
  <2>4. Held(f, new, Append(all, Write(value, FALSE)), cut)
    BY <2>1, HeldUnsound
  <2> QED BY <2>2, <2>3, <2>4
<1>2. CASE ~file.cut
  <2> DEFINE new == Append(file.lines, line)
             lines == file.lines
  <2>1. Grown(file, line, cut).lines = new
    BY <1>2 DEF Grown
  <2>2. Held(f, lines, all, FALSE)
    BY <1>0, <1>2
  <2>3. f = "reviews" => /\ \A k : ~IsAt(lines, value, k)
                         /\ \A i \in DOMAIN all : all[i].value # value
    <3>1. ASSUME f = "reviews", NEW k, IsAt(lines, value, k) PROVE FALSE
      <4>1. k \in DOMAIN lines /\ lines[k].tag = "RECORD" /\ lines[k].value = value
        BY <3>1, LineIsItsValue DEF IsAt
      <4>2. value.n \in NumbersIn(lines)
        BY <4>1 DEF NumbersIn
      <4> QED BY <3>1, <4>2
    <3>2. ASSUME f = "reviews", NEW i \in DOMAIN all, all[i].value = value PROVE FALSE
      <4>1. value.n \in NumbersOf(all)
        BY <3>2 DEF NumbersOf
      <4> QED BY <3>2, <4>1
    <3> QED BY <3>1, <3>2
  <2> HIDE DEF lines
  <2>4. Held(f, Append(lines, line), Append(all, Write(value, sound)), cut)
    BY <1>0, <2>2, <2>3, HeldAppended DEF lines
  <2> QED BY <2>1, <2>4 DEF lines
<1> QED BY <1>0, <1>1, <1>2

\* What it makes of the file otherwise.
LEMMA GrownFile ==
  ASSUME NEW file, FileShape(file), NEW value, NEW line \in {Line(value), Malformed}, NEW cut \in BOOLEAN
  PROVE  /\ FileShape(Grown(file, line, cut)) /\ Grown(file, line, cut).cut = cut
         /\ Grown(file, line, cut).present
         /\ NumbersIn(Grown(file, line, cut).lines) \subseteq NumbersIn(file.lines) \cup {value.n}
         /\ ~file.cut /\ AllRecords(file.lines) /\ line = Line(value) => AllRecords(Grown(file, line, cut).lines)
<1> DEFINE new == Grown(file, line, cut)
<1>1. IsList(file.lines) /\ file.cut \in BOOLEAN /\ (file.cut => file.lines # <<>>)
  BY DEF FileShape
<1>2. new.present /\ new.cut = cut
  BY DEF Grown
<1>3. CASE file.cut
  <2> DEFINE lines == Append(Front(file.lines), Malformed)
  <2>1. new.lines = lines
    BY <1>3 DEF Grown
  <2>2. /\ IsList(lines) /\ Len(file.lines) \in Nat \ {0} /\ Len(lines) = Len(file.lines)
        /\ DOMAIN file.lines = 1..Len(file.lines) /\ DOMAIN lines = 1..Len(file.lines)
        /\ \A k \in 1..(Len(file.lines) - 1) : lines[k] = file.lines[k]
        /\ lines[Len(file.lines)] = Malformed
    BY <1>1, <1>3, GluedList
  <2> HIDE DEF lines, new
  <2>3. new.lines # <<>>
    BY <2>1, <2>2, EmptyList
  <2>4. ASSUME NEW k \in DOMAIN lines, lines[k].tag = "RECORD"
        PROVE  k \in DOMAIN file.lines /\ lines[k] = file.lines[k]
    <3>1. k # Len(file.lines)
      BY <2>2, <2>4, LineIsItsValue
    <3> QED BY <2>2, <2>4, <3>1
  <2>5. NumbersIn(lines) \subseteq NumbersIn(file.lines)
    BY <2>4 DEF NumbersIn
  <2> QED BY <1>2, <1>3, <2>1, <2>2, <2>3, <2>5 DEF FileShape, new
<1>4. CASE ~file.cut
  <2> DEFINE lines == Append(file.lines, line)
  <2>1. new.lines = lines
    BY <1>4 DEF Grown
  <2>2. /\ IsList(lines) /\ Len(file.lines) \in Nat /\ Len(lines) = Len(file.lines) + 1
        /\ DOMAIN file.lines = 1..Len(file.lines) /\ DOMAIN lines = 1..(Len(file.lines) + 1)
        /\ \A k \in 1..Len(file.lines) : lines[k] = file.lines[k]
        /\ lines[Len(file.lines) + 1] = line
    BY <1>1, AppendList
  <2> HIDE DEF lines, new
  <2>3. new.lines # <<>>
    BY <2>1, <2>2, EmptyList
  <2>4. ASSUME NEW k \in DOMAIN lines
        PROVE  (k \in DOMAIN file.lines /\ lines[k] = file.lines[k]) \/ lines[k] = line
    BY <2>2, <2>4
  <2>5. line.tag = "RECORD" => line.value = value
    BY LineIsItsValue
  <2>6. NumbersIn(lines) \subseteq NumbersIn(file.lines) \cup {value.n}
    BY <2>4, <2>5 DEF NumbersIn
  <2>7. AllRecords(file.lines) /\ line = Line(value) => AllRecords(lines)
    BY <2>4, LineIsItsValue DEF AllRecords
  <2> QED BY <1>2, <1>4, <2>1, <2>2, <2>3, <2>6, <2>7 DEF FileShape, new
<1> QED BY <1>1, <1>3, <1>4

----------------------------------------------------------------------------
(* At first. *)

LEMMA AllSoundList ==
  ASSUME NEW values, IsList(values)
  PROVE  /\ IsList(AllSound(values)) /\ Len(AllSound(values)) = Len(values) /\ Len(values) \in Nat
         /\ DOMAIN AllSound(values) = 1..Len(values)
         /\ \A k \in 1..Len(values) : AllSound(values)[k] = Write(values[k], TRUE)
<1> DEFINE all == AllSound(values)
           n == Len(values)
<1>1. n \in Nat /\ DOMAIN values = 1..n
  BY ListOfSeq DEF IsList
<1> HIDE DEF n
<1>2. DOMAIN all = 1..n /\ \A k \in 1..n : all[k] = Write(values[k], TRUE)
  BY <1>1 DEF AllSound, Write
<1>3. all \in [1..n -> Members(all)]
  <2>1. all = [k \in 1..n |-> all[k]]
    BY <1>1 DEF AllSound
  <2>2. \A k \in 1..n : all[k] \in Members(all)
    BY <1>2 DEF Members
  <2> HIDE DEF all
  <2> QED BY <2>1, <2>2
<1> HIDE DEF all
<1>4. all \in Seq(Members(all))
  BY <1>1, <1>3, SeqDef
<1>5. IsList(all) /\ DOMAIN all = 1..Len(all) /\ Len(all) \in Nat
  BY <1>4, ListOfSeq
<1>6. Len(all) = n
  BY <1>1, <1>2, <1>5
<1> QED BY <1>1, <1>2, <1>5, <1>6 DEF all, n

LEMMA NumberedList ==
  ASSUME NEW values, values \in Seq(ToSet(values))
  PROVE  /\ IsList(Numbered(values)) /\ Len(Numbered(values)) = Len(values) /\ Len(values) \in Nat
         /\ DOMAIN Numbered(values) = 1..Len(values)
         /\ \A k \in 1..Len(values) : Numbered(values)[k].n = k - Len(values)
<1> DEFINE new == Numbered(values)
           n == Len(values)
<1>1. n \in Nat /\ DOMAIN values = 1..n
  BY ListOfSeq
<1> HIDE DEF n
<1>2. DOMAIN new = 1..n /\ \A k \in 1..n : new[k] = Over([n |-> k - n], values[k])
  BY <1>1 DEF Numbered, n
<1>3. \A k \in 1..n : new[k].n = k - n
  <2>1. \A x, r : Over([n |-> x], r).n = x
    BY DEF Over
  <2> HIDE DEF new
  <2> QED BY <1>2, <2>1
<1>4. new \in [1..n -> Members(new)]
  <2>1. new = [k \in 1..n |-> new[k]]
    BY <1>1 DEF Numbered
  <2>2. \A k \in 1..n : new[k] \in Members(new)
    BY <1>2 DEF Members
  <2> HIDE DEF new
  <2> QED BY <2>1, <2>2
<1> HIDE DEF new
<1>5. new \in Seq(Members(new))
  BY <1>1, <1>4, SeqDef
<1>6. IsList(new) /\ DOMAIN new = 1..Len(new) /\ Len(new) \in Nat
  BY <1>5, ListOfSeq
<1>7. Len(new) = n
  BY <1>1, <1>2, <1>6
<1> QED BY <1>1, <1>2, <1>3, <1>6, <1>7 DEF new, n

\* A file that holds all that was written.
LEMMA HeldAtFirst ==
  ASSUME NEW f \in Files, NEW values, IsList(values),
         \A k, l \in 1..Len(values) : values[k] = values[l] => k = l
  PROVE  Held(f, AsLines(values), AllSound(values), FALSE)
<1> DEFINE lines == AsLines(values)
           all == AllSound(values)
           n == Len(values)
<1>1. /\ n \in Nat /\ Len(lines) = n /\ DOMAIN lines = 1..n
      /\ \A k \in 1..n : lines[k] = Line(values[k])
  BY AsLinesList
<1>2. /\ Len(all) = n /\ DOMAIN all = 1..n
      /\ \A k \in 1..n : all[k] = Write(values[k], TRUE)
  BY AllSoundList
<1> HIDE DEF lines, all, n
<1>3. \A k \in 1..n : all[k].value = values[k]
  BY <1>2 DEF Write
<1>4. CASE f = "reviews"
  <2>1. ASSUME NEW i \in 1..n, NEW k PROVE IsAt(lines, all[i].value, k) <=> k = i
    <3>1. ASSUME IsAt(lines, all[i].value, k) PROVE k = i
      <4>1. k \in 1..n /\ Line(values[k]) = Line(values[i])
        BY <1>1, <1>3, <3>1 DEF IsAt
      <4>2. values[k] = values[i]
        BY <4>1, LineIsItsValue
      <4> QED BY <4>1, <4>2 DEF n
    <3>2. IsAt(lines, all[i].value, i)
      BY <1>1, <1>3 DEF IsAt
    <3> QED BY <3>1, <3>2
  <2>2. ASSUME NEW i \in DOMAIN all PROVE ReviewHeld(lines, all, FALSE, i)
    <3>0. i \in 1..n
      BY <1>2
    <3>1. \A k, l : IsAt(lines, all[i].value, k) /\ IsAt(lines, all[i].value, l) => k = l
      BY <2>1, <3>0
    <3>2. ASSUME NEW k, IsAt(lines, all[i].value, k) PROVE Len(lines) - k <= Len(all) - i
      <4>1. k = i
        BY <2>1, <3>0, <3>2
      <4> QED BY <1>1, <1>2, <3>0, <4>1
    <3>3. ~\A k : ~IsAt(lines, all[i].value, k)
      BY <2>1, <3>0
    <3>4. ASSUME NEW j \in DOMAIN all, i < j, NEW k, NEW l,
                 IsAt(lines, all[i].value, k), IsAt(lines, all[j].value, l)
          PROVE  k < l
      <4>1. k = i /\ l = j
        BY <1>2, <2>1, <3>0, <3>4
      <4> QED BY <3>4, <4>1
    <3> QED BY <3>1, <3>2, <3>3, <3>4, Zenon DEF ReviewHeld
  <2> QED BY <1>4, <2>2 DEF Held, ReviewsHeld, lines, all
<1>5. CASE f # "reviews"
  <2>1. ASSUME NEW i \in DOMAIN all PROVE AnswerHeld(lines, all, i, FALSE, i)
    <3>1. i \in 1..n /\ lines[i] = Line(all[i].value)
      BY <1>1, <1>2, <1>3
    <3>2. lines[i].tag = "RECORD" /\ lines[i].value = all[i].value
      BY <3>1, LineIsItsValue
    <3>3. ASSUME NEW l \in DOMAIN lines, i < l PROVE IdentityOf(lines[l].value) \in After(all, i)
      <4>1. l \in (i + 1)..n /\ lines[l] = Line(all[l].value)
        BY <1>1, <1>3, <3>1, <3>3
      <4>2. lines[l].value = all[l].value
        BY <4>1, LineIsItsValue
      <4> QED BY <1>2, <4>1, <4>2 DEF After
    <3> QED BY <1>1, <3>1, <3>2, <3>3 DEF AnswerHeld, LinesTell
  <2> QED BY <1>5, <2>1 DEF Held, AnswersHeld, lines, all
<1> QED BY <1>4, <1>5

\* One file and what was written to it.
FileAtFirst(f, file, all) ==
  /\ FileShape(file) /\ IsList(all) /\ Held(f, file.lines, all, file.cut)
  /\ NumbersIn(file.lines) \cup NumbersOf(all) \subseteq Upto(0)
  /\ file.present /\ ~file.cut /\ AllRecords(file.lines) /\ Len(file.lines) <= FileLimit(f)

LEMMA EachAtFirst ==
  ASSUME NEW f \in Files, NEW values, values \in Seq(ToSet(values)), Len(values) <= FileLimit(f)
  PROVE  FileAtFirst(f, FileOf(AsLines(Numbered(values))), AllSound(Numbered(values)))
<1> DEFINE new == Numbered(values)
           n == Len(values)
<1>1. /\ IsList(new) /\ Len(new) = n /\ n \in Nat
      /\ \A k \in 1..n : new[k].n = k - n
  BY NumberedList
<1> HIDE DEF new
<1>2. \A k, l \in 1..Len(new) : new[k] = new[l] => k = l
  <2> SUFFICES ASSUME NEW k \in 1..Len(new), NEW l \in 1..Len(new), new[k] = new[l] PROVE k = l
    OBVIOUS
  <2>1. k - n = l - n /\ k \in 1..n /\ l \in 1..n
    BY <1>1
  <2> HIDE DEF n
  <2> QED BY <1>1, <2>1
<1> DEFINE lines == AsLines(new)
           all == AllSound(new)
<1>3. Held(f, lines, all, FALSE)
  BY <1>1, <1>2, HeldAtFirst
<1>4. /\ IsList(lines) /\ Len(lines) = n /\ DOMAIN lines = 1..n
      /\ \A k \in 1..n : lines[k] = Line(new[k])
  BY <1>1, AsLinesList
<1>5. /\ IsList(all) /\ DOMAIN all = 1..n /\ \A k \in 1..n : all[k] = Write(new[k], TRUE)
  BY <1>1, AllSoundList
<1> HIDE DEF lines, all
<1>6. \A k \in 1..n : /\ lines[k].tag = "RECORD" /\ lines[k].value.n = k - n
                      /\ all[k].value.n = k - n
  BY <1>1, <1>4, <1>5, LineIsItsValue DEF Write
<1> DEFINE m == n
<1>7. \A k \in 1..n : k - n \in Upto(0)
  <2>1. n \in Nat
    BY <1>1
  <2> HIDE DEF n
  <2> QED BY <2>1 DEF Upto
<1>8. NumbersIn(lines) \cup NumbersOf(all) \subseteq Upto(0) /\ AllRecords(lines)
  <2> HIDE DEF n
  <2> QED BY <1>4, <1>5, <1>6, <1>7 DEF NumbersIn, NumbersOf, AllRecords
<1>9. Len(lines) <= FileLimit(f)
  BY <1>4
<1>10. /\ FileOf(lines).lines = lines /\ FileOf(lines).cut = FALSE /\ FileOf(lines).present = TRUE
  BY DEF FileOf
<1>11. FileAtFirst(f, FileOf(lines), all)
  BY <1>3, <1>4, <1>5, <1>8, <1>9, <1>10 DEF FileAtFirst, FileShape
<1> QED BY <1>11 DEF lines, all, new

LEMMA InitStoreInv == Init => StoreInv
<1> SUFFICES ASSUME Init PROVE StoreInv
  OBVIOUS
<1>1. PICK history \in Histories, feedback \in Feedbacks :
        /\ files = [reviews |-> FileOf(AsLines(Numbered(history))),
                    feedback |-> FileOf(AsLines(Numbered(feedback)))]
        /\ procs = [p \in Procs |-> Idle]
        /\ used = [events |-> 0, faults |-> 0]
        /\ \E x : truth = [reviews |-> AllSound(Numbered(history)),
                           feedback |-> AllSound(Numbered(feedback)), listings |-> x]
  BY Zenon DEF Init
<1>2. /\ DOMAIN files = Files /\ DOMAIN truth = Files \cup {"listings"}
      /\ files["reviews"] = FileOf(AsLines(Numbered(history)))
      /\ files["feedback"] = FileOf(AsLines(Numbered(feedback)))
      /\ truth["reviews"] = AllSound(Numbered(history))
      /\ truth["feedback"] = AllSound(Numbered(feedback))
  BY <1>1 DEF Files
<1>3. /\ FileAtFirst("reviews", files["reviews"], truth["reviews"])
      /\ FileAtFirst("feedback", files["feedback"], truth["feedback"])
  <2>1. /\ history \in Seq(ToSet(history)) /\ Len(history) <= FileLimit("reviews")
        /\ feedback \in Seq(ToSet(feedback)) /\ Len(feedback) <= FileLimit("feedback")
    <3>1. /\ history \in Seq(ReviewLines) /\ Len(history) <= FileLimit("reviews")
          /\ feedback \in Seq(AnswerLines) /\ Len(feedback) <= FileLimit("feedback")
      BY <1>1, StartAssumption
    <3>2. IsList(history) /\ IsList(feedback)
      BY <3>1, ListOfSeq
    <3> QED BY <3>1, <3>2, MembersSet DEF IsList
  <2>2. "reviews" \in Files /\ "feedback" \in Files
    BY DEF Files
  <2>3. FileAtFirst("reviews", FileOf(AsLines(Numbered(history))), AllSound(Numbered(history)))
    BY <2>1, <2>2, EachAtFirst
  <2>4. FileAtFirst("feedback", FileOf(AsLines(Numbered(feedback))), AllSound(Numbered(feedback)))
    BY <2>1, <2>2, EachAtFirst
  <2> QED BY <1>2, <2>3, <2>4
<1>4. \A f \in Files : FileAtFirst(f, files[f], truth[f])
  BY <1>3 DEF Files
<1>5. DOMAIN procs = Procs /\ \A p \in Procs : procs[p] = Idle
  BY <1>1
<1>6. Idle.stage = "idle" /\ "stage" \in DOMAIN Idle
  BY DEF Idle
<1>7. StoreShape
  <2>1. \A p \in Procs : JobShape(procs[p])
    BY <1>5, <1>6 DEF JobShape
  <2>2. CountShape(used)
    BY <1>1 DEF CountShape
  <2> QED BY <1>2, <1>4, <1>5, <2>1, <2>2 DEF StoreShape, FileAtFirst
<1>8. NothingLost
  BY <1>4, <1>5, <1>6 DEF NothingLost, FileAtFirst, JobOwed
<1>9. Fresh(files["reviews"].lines, truth["reviews"], procs, used.events)
  <2>1. \A p \in Procs : Pending(procs[p]) = {} /\ Carried(procs[p]) = {}
    BY <1>5, <1>6 DEF Pending, Carried
  <2>2. Known(files["reviews"].lines, truth["reviews"], procs) =
          NumbersIn(files["reviews"].lines) \cup NumbersOf(truth["reviews"])
    BY <2>1 DEF Known
  <2>3. used.events = 0
    BY <1>1
  <2> QED BY <1>3, <2>1, <2>2, <2>3 DEF Fresh, FileAtFirst
<1>10. Bounded
  BY <1>4, <1>5, <1>6 DEF Bounded, FileBounded, FileAtFirst, JobBounded
<1> QED BY <1>7, <1>8, <1>9, <1>10 DEF StoreInv

----------------------------------------------------------------------------
(* The steps. *)

\* Time goes on, and no fault is undone.
Onward == /\ CountShape(used') /\ used.events <= used'.events
          /\ used'.faults = 0 => used.faults = 0

LEMMA OnwardSteps ==
  ASSUME CountShape(used)
  PROVE  /\ UNCHANGED used => Onward
         /\ Event => Onward /\ used'.events = used.events + 1
         /\ \A kind : Fault(kind) => Onward /\ used'.faults # 0
<1>1. used = [events |-> used.events, faults |-> used.faults] /\ used.events \in Nat /\ used.faults \in Nat
  BY DEF CountShape
<1> DEFINE e == used.events
           u == used.faults
<1>2. ASSUME UNCHANGED used PROVE Onward
  <2>1. used' = used
    BY <1>2
  <2>2. used'.events = used.events /\ used'.faults = used.faults
    BY <2>1
  <2> QED BY <1>1, <2>1, <2>2 DEF Onward, CountShape
<1>3. ASSUME Event PROVE Onward /\ used'.events = used.events + 1
  <2>1. used' = [events |-> e + 1, faults |-> u]
    BY <1>1, <1>3 DEF Event
  <2>2. used'.events = e + 1 /\ used'.faults = u
    BY <2>1
  <2> QED BY <1>1, <2>1, <2>2 DEF Onward, CountShape
<1>4. ASSUME NEW kind, Fault(kind) PROVE Onward /\ used'.faults # 0
  <2>1. used' = [events |-> e + 1, faults |-> u + 1]
    BY <1>1, <1>4 DEF Fault
  <2>2. used'.events = e + 1 /\ used'.faults = u + 1
    BY <2>1
  <2> QED BY <1>1, <2>1, <2>2 DEF Onward, CountShape
<1> QED BY <1>2, <1>3, <1>4

\* Nothing is written to a file.
Unwritten ==
  /\ files' = files /\ DOMAIN truth' = Files \cup {"listings"}
  /\ truth'["reviews"] = truth["reviews"] /\ truth'["feedback"] = truth["feedback"]

\* What a process may turn to: nothing newer than the present, and no less than
\* the file in a rewrite of it.
Soon(job, from, to) == Pending(job) \subseteq Upto(to) /\ Pending(job) \cap Upto(from) = {}
CarriesFile(job, lines) == Carried(job) \subseteq NumbersIn(lines)
StaysBusy(before, job) ==
  \A f \in Files : Busy(before, f) => Busy(job, f) \/ Len(files[f].lines) <= FileLimit(f)

LEMMA FreshJob ==
  ASSUME NEW lines, NEW all, NEW jobs, DOMAIN jobs = Procs, NEW from \in Nat, NEW to \in Nat, from <= to,
         Fresh(lines, all, jobs, from), NEW p \in Procs, NEW job, Soon(job, from, to),
         CarriesFile(job, lines), NEW next, next = [jobs EXCEPT ![p] = job]
  PROVE  Fresh(lines, all, next, to)
<1>1. next[p] = job /\ \A q \in Procs : q # p => next[q] = jobs[q]
  OBVIOUS
<1>2. Known(lines, all, next) \subseteq Known(lines, all, jobs)
  <2>1. \A q \in Procs : Carried(next[q]) \subseteq NumbersIn(lines) \/ Carried(next[q]) = Carried(jobs[q])
    BY <1>1 DEF CarriesFile
  <2> QED BY <2>1 DEF Known
<1>3. Upto(from) \subseteq Upto(to)
  BY DEF Upto
<1>4. /\ Known(lines, all, jobs) \subseteq Upto(from)
      /\ \A q \in Procs : Pending(jobs[q]) \subseteq Upto(from) /\ Pending(jobs[q]) \cap Known(lines, all, jobs) = {}
      /\ \A q, r \in Procs : q # r => Pending(jobs[q]) \cap Pending(jobs[r]) = {}
  BY DEF Fresh
<1>5. Pending(job) \subseteq Upto(to) /\ Pending(job) \cap Upto(from) = {}
  BY DEF Soon
<1>6. Known(lines, all, next) \subseteq Upto(to)
  BY <1>2, <1>3, <1>4
<1>7. ASSUME NEW q \in Procs
      PROVE  Pending(next[q]) \subseteq Upto(to) /\ Pending(next[q]) \cap Known(lines, all, next) = {}
  <2>1. CASE q = p
    BY <1>1, <1>2, <1>4, <1>5, <2>1
  <2>2. CASE q # p
    BY <1>1, <1>2, <1>3, <1>4, <2>2
  <2> QED BY <2>1, <2>2
<1>8. ASSUME NEW q \in Procs, NEW r \in Procs, q # r
      PROVE  Pending(next[q]) \cap Pending(next[r]) = {}
  <2>1. CASE q = p
    BY <1>1, <1>4, <1>5, <1>8, <2>1
  <2>2. CASE r = p
    BY <1>1, <1>4, <1>5, <1>8, <2>2
  <2>3. CASE q # p /\ r # p
    BY <1>1, <1>4, <1>8, <2>3
  <2> QED BY <2>1, <2>2, <2>3
<1> QED BY <1>6, <1>7, <1>8 DEF Fresh

LEMMA JobStep ==
  ASSUME StoreInv, Unwritten, Onward, NEW p \in Procs, NEW job, procs' = [procs EXCEPT ![p] = job],
         JobShape(job), JobOwed(job, truth), Soon(job, used.events, used'.events),
         CarriesFile(job, files["reviews"].lines),
         used'.faults = 0 => JobBounded(job) /\ StaysBusy(procs[p], job)
  PROVE  StoreInv'
<1>1. /\ DOMAIN files = Files /\ \A f \in Files : FileShape(files[f])
      /\ \A f \in Files : IsList(truth[f])
      /\ DOMAIN procs = Procs /\ \A q \in Procs : JobShape(procs[q])
      /\ CountShape(used)
  BY DEF StoreInv, StoreShape
<1>2. /\ files' = files /\ DOMAIN truth' = Files \cup {"listings"}
      /\ \A f \in Files : truth'[f] = truth[f]
  BY DEF Unwritten, Files
<1>3. /\ DOMAIN procs' = Procs /\ procs'[p] = job /\ \A q \in Procs : q # p => procs'[q] = procs[q]
  BY <1>1
<1>4. CountShape(used') /\ used.events <= used'.events /\ (used'.faults = 0 => used.faults = 0)
  BY DEF Onward
<1>5. StoreShape'
  <2>1. \A q \in Procs : JobShape(procs'[q])
    BY <1>1, <1>3
  <2>2. \A f \in Files : FileShape(files'[f]) /\ IsList(truth'[f])
    BY <1>1, <1>2
  <2>3. DOMAIN files' = Files
    BY <1>1, <1>2
  <2> QED BY <1>2, <1>3, <1>4, <2>1, <2>2, <2>3 DEF StoreShape
<1>6. NothingLost'
  <2>1. /\ \A f \in Files : Held(f, files[f].lines, truth[f], files[f].cut)
        /\ \A q \in Procs : JobOwed(procs[q], truth)
    BY DEF StoreInv, NothingLost
  <2>2. \A f \in Files : Held(f, files'[f].lines, truth'[f], files'[f].cut)
    BY <1>2, <2>1
  <2>3. ASSUME NEW q \in Procs PROVE JobOwed(procs'[q], truth')
    <3>1. JobShape(procs'[q]) /\ JobOwed(procs'[q], truth)
      BY <1>1, <1>3, <2>1
    <3> QED BY <1>2, <3>1 DEF JobShape, JobOwed
  <2> QED BY <2>2, <2>3 DEF NothingLost
<1>7. Fresh(files'["reviews"].lines, truth'["reviews"], procs', used'.events)
  <2>1. Fresh(files["reviews"].lines, truth["reviews"], procs, used.events)
    BY DEF StoreInv
  <2>2. used.events \in Nat /\ used'.events \in Nat
    BY <1>1, <1>4 DEF CountShape
  <2> DEFINE lines == files["reviews"].lines
             all == truth["reviews"]
  <2>3. files'["reviews"].lines = lines /\ truth'["reviews"] = all
    BY <1>2 DEF Files
  <2> HIDE DEF lines, all
  <2>4. Fresh(lines, all, procs', used'.events)
    BY <1>1, <1>4, <2>1, <2>2, FreshJob DEF lines, all
  <2> QED BY <2>3, <2>4
<1>8. Bounded'
  <2>1. ASSUME used'.faults = 0
        PROVE  /\ \A f \in Files : FileBounded(f, files[f], procs')
               /\ \A q \in Procs : JobBounded(procs'[q])
    <3>1. /\ \A f \in Files : FileBounded(f, files[f], procs)
          /\ \A q \in Procs : JobBounded(procs[q])
      BY <1>4, <2>1 DEF StoreInv, Bounded
    <3>2. \A q \in Procs : JobBounded(procs'[q])
      BY <1>3, <2>1, <3>1
    <3>3. ASSUME NEW f \in Files PROVE FileBounded(f, files[f], procs')
      <4>1. FileBounded(f, files[f], procs)
        BY <3>1
      <4>2. ASSUME NEW q \in Procs, Busy(procs[q], f)
            PROVE  Len(files[f].lines) <= FileLimit(f) \/ \E r \in Procs : Busy(procs'[r], f)
        <5>1. CASE q = p
          BY <1>3, <2>1, <4>2, <5>1 DEF StaysBusy
        <5>2. CASE q # p
          BY <1>3, <4>2, <5>2
        <5> QED BY <5>1, <5>2
      <4> QED BY <4>1, <4>2 DEF FileBounded
    <3> QED BY <3>2, <3>3
  <2> QED BY <1>2, <2>1 DEF Bounded
<1> QED BY <1>5, <1>6, <1>7, <1>8 DEF StoreInv

\* Numbers only move from a pending review to what is written.
LEMMA FreshMoves ==
  ASSUME NEW lines, NEW all, NEW jobs, NEW from \in Nat, NEW to \in Nat, from <= to,
         Fresh(lines, all, jobs, from), NEW taken, taken \subseteq Upto(from),
         NEW newLines, NEW newAll, NEW next,
         Known(newLines, newAll, next) \subseteq Known(lines, all, jobs) \cup taken,
         \A q \in Procs : Pending(next[q]) \subseteq Pending(jobs[q]) /\ Pending(next[q]) \cap taken = {}
  PROVE  Fresh(newLines, newAll, next, to)
<1>1. Upto(from) \subseteq Upto(to)
  BY DEF Upto
<1>2. /\ Known(lines, all, jobs) \subseteq Upto(from)
      /\ \A q \in Procs : Pending(jobs[q]) \subseteq Upto(from) /\ Pending(jobs[q]) \cap Known(lines, all, jobs) = {}
      /\ \A q, r \in Procs : q # r => Pending(jobs[q]) \cap Pending(jobs[r]) = {}
  BY DEF Fresh
<1> HIDE DEF Fresh
<1>3. Known(newLines, newAll, next) \subseteq Upto(to)
  BY <1>1, <1>2
<1>4. \A q \in Procs : Pending(next[q]) \subseteq Upto(to)
  BY <1>1, <1>2
<1>5. \A q \in Procs : Pending(next[q]) \cap Known(newLines, newAll, next) = {}
  BY <1>2
<1>6. \A q, r \in Procs : q # r => Pending(next[q]) \cap Pending(next[r]) = {}
  BY <1>2
<1> QED BY <1>3, <1>4, <1>5, <1>6 DEF Fresh

\* One process writes a line.
Writes(p, line, sound, cut, job) ==
  /\ files' = [files EXCEPT ![procs[p].file] = Grown(files[procs[p].file], line, cut)]
  /\ truth' = [truth EXCEPT ![procs[p].file] = Append(truth[procs[p].file], Write(procs[p].value, sound))]
  /\ procs' = [procs EXCEPT ![p] = job]
  /\ line \in {Line(procs[p].value), Malformed} /\ sound \in BOOLEAN /\ cut \in BOOLEAN
  /\ sound => /\ line = Line(procs[p].value) /\ ~cut
              /\ ~files[procs[p].file].cut /\ Replacing(procs[p].file) = {}
  /\ job \in {Idle, [stage |-> "size", file |-> procs[p].file]}
  /\ used'.faults = 0 => /\ ~cut /\ line = Line(procs[p].value)
                         /\ job = [stage |-> "size", file |-> procs[p].file]

LEMMA WriteStep ==
  ASSUME StoreInv, Onward, NEW p \in Procs, procs[p].stage = "append",
         NEW line, NEW sound, NEW cut, NEW job, Writes(p, line, sound, cut, job)
  PROVE  StoreInv'
<1> DEFINE g == procs[p].file
           value == procs[p].value
           file == Grown(files[g], line, cut)
           more == Append(truth[g], Write(value, sound))
<1>1. /\ DOMAIN files = Files /\ \A f \in Files : FileShape(files[f])
      /\ DOMAIN truth = Files \cup {"listings"} /\ \A f \in Files : IsList(truth[f])
      /\ DOMAIN procs = Procs /\ \A q \in Procs : JobShape(procs[q])
      /\ CountShape(used)
  BY DEF StoreInv, StoreShape
<1>2. g \in Files
  BY <1>1 DEF JobShape
<1>3. /\ files' = [files EXCEPT ![g] = file] /\ truth' = [truth EXCEPT ![g] = more]
      /\ procs' = [procs EXCEPT ![p] = job]
      /\ line \in {Line(value), Malformed} /\ sound \in BOOLEAN /\ cut \in BOOLEAN
      /\ sound => line = Line(value) /\ ~cut /\ ~files[g].cut /\ Replacing(g) = {}
      /\ job \in {Idle, [stage |-> "size", file |-> g]}
      /\ used'.faults = 0 => ~cut /\ line = Line(value) /\ job = [stage |-> "size", file |-> g]
  BY DEF Writes
<1>4. CountShape(used') /\ used.events <= used'.events /\ (used'.faults = 0 => used.faults = 0)
  BY DEF Onward
<1>5. /\ \A f \in Files : Held(f, files[f].lines, truth[f], files[f].cut)
      /\ \A q \in Procs : JobOwed(procs[q], truth)
  BY DEF StoreInv, NothingLost
<1>6. Fresh(files["reviews"].lines, truth["reviews"], procs, used.events)
  BY DEF StoreInv
<1> HIDE DEF g, value
<1>7. /\ FileShape(file) /\ file.cut = cut /\ file.present
      /\ NumbersIn(file.lines) \subseteq NumbersIn(files[g].lines) \cup {value.n}
      /\ ~files[g].cut /\ AllRecords(files[g].lines) /\ line = Line(value) => AllRecords(file.lines)
  <2> DEFINE old == files[g]
  <2>1. FileShape(old)
    BY <1>1, <1>2
  <2> HIDE DEF old
  <2>2. /\ FileShape(Grown(old, line, cut)) /\ Grown(old, line, cut).cut = cut
        /\ Grown(old, line, cut).present
        /\ NumbersIn(Grown(old, line, cut).lines) \subseteq NumbersIn(old.lines) \cup {value.n}
        /\ ~old.cut /\ AllRecords(old.lines) /\ line = Line(value) => AllRecords(Grown(old, line, cut).lines)
    <3>1. line \in {Line(value), Malformed} /\ cut \in BOOLEAN
      BY <1>3
    <3> QED BY <2>1, <3>1, GrownFile
  <2> QED BY <2>2 DEF old
<1>8. IsList(more) /\ NumbersOf(more) \subseteq NumbersOf(truth[g]) \cup {value.n}
  <2> DEFINE w == Write(value, sound)
             all == truth[g]
  <2>1. w.value = value
    BY DEF Write
  <2> HIDE DEF w, all
  <2>2. /\ IsList(Append(all, w)) /\ Len(all) \in Nat /\ DOMAIN all = 1..Len(all)
        /\ DOMAIN Append(all, w) = 1..(Len(all) + 1)
        /\ \A i \in 1..Len(all) : Append(all, w)[i] = all[i]
        /\ Append(all, w)[Len(all) + 1] = w
    BY <1>1, <1>2, AppendList DEF all
  <2>3. \A i \in DOMAIN Append(all, w) :
          (i \in DOMAIN all /\ Append(all, w)[i] = all[i]) \/ Append(all, w)[i] = w
    BY <2>2
  <2>4. NumbersOf(Append(all, w)) \subseteq NumbersOf(all) \cup {value.n}
    BY <2>1, <2>3 DEF NumbersOf
  <2> QED BY <2>2, <2>4 DEF w, all
<1>9. Held(g, file.lines, more, cut)
  <2>1. g = "reviews" => value.n \notin NumbersIn(files[g].lines) \cup NumbersOf(truth[g])
    <3>1. ASSUME g = "reviews" PROVE value.n \notin NumbersIn(files[g].lines) \cup NumbersOf(truth[g])
      <4>1. value.n \in Pending(procs[p])
        BY <3>1 DEF Pending, g, value
      <4> QED BY <1>6, <3>1, <4>1 DEF Fresh, Known
    <3> QED BY <3>1
  <2>2. Held(g, files[g].lines, truth[g], files[g].cut) /\ FileShape(files[g]) /\ IsList(truth[g])
    BY <1>1, <1>2, <1>5
  <2> QED BY <1>2, <1>3, <2>1, <2>2, GrownHeld
<1>10. /\ files'[g] = file /\ truth'[g] = more /\ procs'[p] = job
       /\ \A f \in Files : f # g => files'[f] = files[f] /\ truth'[f] = truth[f]
       /\ \A q \in Procs : q # p => procs'[q] = procs[q]
       /\ DOMAIN files' = Files /\ DOMAIN truth' = Files \cup {"listings"} /\ DOMAIN procs' = Procs
  BY <1>1, <1>2, <1>3
<1>11. /\ JobShape(job) /\ job.stage \in {"idle", "size"}
       /\ Pending(job) = {} /\ Carried(job) = {}
  <2>1. CASE job = Idle
    BY <2>1 DEF Idle, JobShape, Pending, Carried
  <2>2. CASE job = [stage |-> "size", file |-> g]
    BY <1>2, <2>2 DEF JobShape, Pending, Carried
  <2> QED BY <1>3, <2>1, <2>2
<1> HIDE DEF file, more
<1>12. StoreShape'
  <2>1. \A f \in Files : FileShape(files'[f]) /\ IsList(truth'[f])
    BY <1>1, <1>7, <1>8, <1>10
  <2>2. \A q \in Procs : JobShape(procs'[q])
    BY <1>1, <1>10, <1>11
  <2> QED BY <1>4, <1>10, <2>1, <2>2 DEF StoreShape
<1>13. NothingLost'
  <2>1. \A f \in Files : Held(f, files'[f].lines, truth'[f], files'[f].cut)
    BY <1>5, <1>7, <1>9, <1>10
  <2>2. ASSUME NEW q \in Procs PROVE JobOwed(procs'[q], truth')
    <3>1. CASE q = p
      BY <1>10, <1>11, <3>1 DEF JobOwed
    <3>2. CASE q # p /\ procs[q].stage = "replace" /\ procs[q].file = g
      <4>1. sound = FALSE
        BY <1>3, <3>2 DEF Replacing
      <4>2. Held(g, procs[q].lines, truth[g], FALSE) /\ IsList(procs[q].lines)
        BY <1>1, <1>5, <3>2 DEF JobOwed, JobShape
      <4>3. Held(g, procs[q].lines, Append(truth[g], Write(value, FALSE)), FALSE)
        BY <1>1, <1>2, <4>2, HeldUnsound
      <4>4. truth'[g] = Append(truth[g], Write(value, FALSE))
        BY <1>10, <4>1 DEF more
      <4> QED BY <1>10, <3>2, <4>3, <4>4 DEF JobOwed
    <3>3. CASE q # p /\ ~(procs[q].stage = "replace" /\ procs[q].file = g)
      <4>1. JobOwed(procs[q], truth) /\ JobShape(procs[q]) /\ procs'[q] = procs[q]
        BY <1>1, <1>5, <1>10, <3>3
      <4>2. ASSUME procs[q].stage = "replace"
            PROVE  Held(procs[q].file, procs[q].lines, truth'[procs[q].file], FALSE)
        <5>1. procs[q].file \in Files /\ procs[q].file # g
          BY <3>3, <4>1, <4>2 DEF JobShape
        <5>2. truth'[procs[q].file] = truth[procs[q].file]
          BY <1>10, <5>1
        <5>3. Held(procs[q].file, procs[q].lines, truth[procs[q].file], FALSE)
          BY <4>1, <4>2 DEF JobOwed
        <5> QED BY <5>2, <5>3
      <4> QED BY <4>1, <4>2 DEF JobOwed
    <3> QED BY <3>1, <3>2, <3>3
  <2> QED BY <2>1, <2>2 DEF NothingLost
<1>14. Fresh(files'["reviews"].lines, truth'["reviews"], procs', used'.events)
  <2> DEFINE lines == files["reviews"].lines
             all == truth["reviews"]
             newLines == files'["reviews"].lines
             newAll == truth'["reviews"]
             taken == Pending(procs[p])
  <2>1. used.events \in Nat /\ used'.events \in Nat /\ used.events <= used'.events
    BY <1>1, <1>4 DEF CountShape
  <2>2. taken \subseteq Upto(used.events)
    BY <1>6 DEF Fresh
  <2>3. \A q \in Procs : Pending(procs'[q]) \subseteq Pending(procs[q]) /\ Pending(procs'[q]) \cap taken = {}
    BY <1>6, <1>10, <1>11 DEF Fresh
  <2>4. NumbersIn(newLines) \subseteq NumbersIn(lines) \cup taken /\ NumbersOf(newAll) \subseteq NumbersOf(all) \cup taken
    <3>1. CASE g = "reviews"
      <4>1. taken = {value.n}
        BY <3>1 DEF Pending, g, value
      <4> HIDE DEF taken
      <4> QED BY <1>7, <1>8, <1>10, <3>1, <4>1
    <3>2. CASE g # "reviews"
      BY <1>10, <3>2 DEF Files
    <3> QED BY <3>1, <3>2
  <2>5. \A q \in Procs : Carried(procs'[q]) \subseteq Carried(procs[q])
    BY <1>10, <1>11
  <2> HIDE DEF lines, all, newLines, newAll, taken
  <2>6. Known(newLines, newAll, procs') \subseteq Known(lines, all, procs) \cup taken
    BY <2>4, <2>5 DEF Known
  <2>7. Fresh(newLines, newAll, procs', used'.events)
    <3> DEFINE from == used.events
               to == used'.events
    <3>1. Fresh(lines, all, procs, from)
      BY <1>6 DEF lines, all
    <3>2. from \in Nat /\ to \in Nat /\ from <= to /\ taken \subseteq Upto(from)
      BY <2>1, <2>2
    <3> HIDE DEF from, to
    <3>3. Fresh(newLines, newAll, procs', to)
      BY <2>3, <2>6, <3>1, <3>2, FreshMoves
    <3> QED BY <3>3 DEF to
  <2> QED BY <2>7 DEF newLines, newAll
<1>15. Bounded'
  <2>1. ASSUME used'.faults = 0
        PROVE  /\ \A f \in Files : FileBounded(f, files'[f], procs')
               /\ \A q \in Procs : JobBounded(procs'[q])
    <3>1. /\ \A f \in Files : FileBounded(f, files[f], procs)
          /\ \A q \in Procs : JobBounded(procs[q])
      BY <1>4, <2>1 DEF StoreInv, Bounded
    <3>2. \A q \in Procs : JobBounded(procs'[q])
      BY <1>10, <1>11, <3>1 DEF JobBounded
    <3>3. Busy(procs'[p], g)
      BY <1>3, <1>10, <2>1 DEF Busy
    <3>4. FileBounded(g, file, procs')
      BY <1>2, <1>3, <1>7, <2>1, <3>1, <3>3 DEF FileBounded
    <3>5. ASSUME NEW f \in Files, f # g PROVE FileBounded(f, files[f], procs')
      <4>1. FileBounded(f, files[f], procs)
        BY <3>1
      <4>2. ~Busy(procs[p], f)
        BY DEF Busy
      <4>3. \A q \in Procs : Busy(procs[q], f) => Busy(procs'[q], f)
        BY <1>10, <4>2
      <4> QED BY <4>1, <4>3 DEF FileBounded
    <3> QED BY <1>10, <3>2, <3>4, <3>5
  <2> QED BY <2>1 DEF Bounded
<1> QED BY <1>12, <1>13, <1>14, <1>15 DEF StoreInv

\* Nothing changes but the time.
LEMMA StillStep ==
  ASSUME StoreInv, Onward, files' = files, truth' = truth, procs' = procs
  PROVE  StoreInv'
<1>1. CountShape(used) /\ CountShape(used') /\ used.events <= used'.events /\ (used'.faults = 0 => used.faults = 0)
  BY DEF StoreInv, StoreShape, Onward
<1>2. used.events \in Nat /\ used'.events \in Nat
  BY <1>1 DEF CountShape
<1>3. Fresh(files["reviews"].lines, truth["reviews"], procs, used'.events)
  <2> DEFINE lines == files["reviews"].lines
             all == truth["reviews"]
             from == used.events
             to == used'.events
  <2>1. Fresh(lines, all, procs, from) /\ from \in Nat /\ to \in Nat /\ from <= to
    BY <1>1, <1>2 DEF StoreInv
  <2> HIDE DEF lines, all, from, to
  <2>2. {} \subseteq Upto(from)
    OBVIOUS
  <2>3. Known(lines, all, procs) \subseteq Known(lines, all, procs) \cup {}
    OBVIOUS
  <2>4. \A q \in Procs : Pending(procs[q]) \subseteq Pending(procs[q]) /\ Pending(procs[q]) \cap {} = {}
    OBVIOUS
  <2>5. Fresh(lines, all, procs, to)
    BY <2>1, <2>2, <2>3, <2>4, FreshMoves
  <2> QED BY <2>5 DEF lines, all, to
<1>4. StoreShape'
  BY <1>1 DEF StoreInv, StoreShape
<1>5. NothingLost'
  BY DEF StoreInv, NothingLost
<1>6. Bounded'
  BY <1>1 DEF StoreInv, Bounded
<1> QED BY <1>3, <1>4, <1>5, <1>6 DEF StoreInv

LEMMA ReplaceStep ==
  ASSUME StoreInv, NEW p \in Procs, Replace(p)
  PROVE  StoreInv'
<1> DEFINE g == procs[p].file
           lines == procs[p].lines
<1>1. /\ DOMAIN files = Files /\ \A f \in Files : FileShape(files[f])
      /\ DOMAIN truth = Files \cup {"listings"} /\ \A f \in Files : IsList(truth[f])
      /\ DOMAIN procs = Procs /\ \A q \in Procs : JobShape(procs[q])
      /\ CountShape(used)
  BY DEF StoreInv, StoreShape
<1>2. /\ procs[p].stage = "replace" /\ g \in Files /\ IsList(lines)
  BY <1>1 DEF Replace, JobShape
<1>3. /\ files' = [files EXCEPT ![g] = FileOf(lines)] /\ procs' = [procs EXCEPT ![p] = Idle]
      /\ truth' = truth /\ used' = used
  BY DEF Replace, Go
<1>4. JobOwed(procs[p], truth) /\ Held(g, lines, truth[g], FALSE)
  BY <1>2 DEF StoreInv, NothingLost, JobOwed
<1>5. /\ FileOf(lines).lines = lines /\ FileOf(lines).cut = FALSE /\ FileOf(lines).present = TRUE
  BY DEF FileOf
<1>6. /\ files'[g] = FileOf(lines) /\ procs'[p] = Idle
      /\ \A f \in Files : f # g => files'[f] = files[f]
      /\ \A q \in Procs : q # p => procs'[q] = procs[q]
      /\ DOMAIN files' = Files /\ DOMAIN procs' = Procs
  BY <1>1, <1>2, <1>3
<1>7. Idle.stage = "idle" /\ "stage" \in DOMAIN Idle /\ Pending(Idle) = {} /\ Carried(Idle) = {}
  BY DEF Idle, Pending, Carried
<1>8. g = "reviews" => Carried(procs[p]) = NumbersIn(lines)
  BY <1>2 DEF Carried
<1> HIDE DEF g, lines
<1>9. StoreShape'
  <2>1. \A f \in Files : FileShape(files'[f])
    BY <1>1, <1>2, <1>5, <1>6 DEF FileShape
  <2>2. \A q \in Procs : JobShape(procs'[q])
    BY <1>1, <1>6, <1>7 DEF JobShape
  <2> QED BY <1>1, <1>3, <1>6, <2>1, <2>2 DEF StoreShape
<1>10. NothingLost'
  <2>1. \A f \in Files : Held(f, files[f].lines, truth[f], files[f].cut)
    BY DEF StoreInv, NothingLost
  <2>2. \A f \in Files : Held(f, files'[f].lines, truth[f], files'[f].cut)
    BY <1>4, <1>5, <1>6, <2>1
  <2>3. \A q \in Procs : JobOwed(procs[q], truth)
    BY DEF StoreInv, NothingLost
  <2>4. JobOwed(Idle, truth)
    BY <1>7 DEF JobOwed
  <2>5. \A q \in Procs : JobOwed(procs'[q], truth)
    BY <1>6, <2>3, <2>4
  <2> QED BY <1>3, <2>2, <2>5 DEF NothingLost
<1>11. Fresh(files'["reviews"].lines, truth["reviews"], procs', used.events)
  <2> DEFINE old == files["reviews"].lines
             new == files'["reviews"].lines
             all == truth["reviews"]
             now == used.events
  <2>1. Fresh(old, all, procs, now) /\ now \in Nat /\ now <= now
    BY <1>1 DEF StoreInv, CountShape
  <2>2. NumbersIn(new) \subseteq NumbersIn(old) \cup Carried(procs[p])
    <3>1. CASE g = "reviews"
      BY <1>5, <1>6, <1>8, <3>1
    <3>2. CASE g # "reviews"
      BY <1>6, <3>2 DEF Files
    <3> QED BY <3>1, <3>2
  <2>3. \A q \in Procs : Carried(procs'[q]) \subseteq Carried(procs[q]) /\ Pending(procs'[q]) \subseteq Pending(procs[q])
    BY <1>6, <1>7
  <2> HIDE DEF old, new, all, now
  <2>4. Known(new, all, procs') \subseteq Known(old, all, procs) \cup {}
    BY <2>2, <2>3 DEF Known
  <2>5. {} \subseteq Upto(now) /\ \A q \in Procs : Pending(procs'[q]) \cap {} = {}
    OBVIOUS
  <2>6. Fresh(new, all, procs', now)
    BY <2>1, <2>3, <2>4, <2>5, FreshMoves
  <2> QED BY <2>6 DEF new, all, now
<1>12. Bounded'
  <2>1. ASSUME used.faults = 0
        PROVE  /\ \A f \in Files : FileBounded(f, files'[f], procs')
               /\ \A q \in Procs : JobBounded(procs'[q])
    <3>1. /\ \A f \in Files : FileBounded(f, files[f], procs)
          /\ \A q \in Procs : JobBounded(procs[q])
      BY <2>1 DEF StoreInv, Bounded
    <3>2. \A q \in Procs : JobBounded(procs'[q])
      BY <1>6, <1>7, <3>1 DEF JobBounded
    <3>3. FileBounded(g, FileOf(lines), procs')
      <4>1. AllRecords(lines) /\ Len(lines) <= MaxRecords[g]
        BY <1>2, <3>1 DEF JobBounded, g, lines
      <4>2. Len(lines) \in Nat
        BY <1>2, ListOfSeq DEF IsList
      <4>3. Len(lines) <= FileLimit(g)
        BY <1>2, <4>1, <4>2, LimitBounds
      <4> QED BY <1>5, <4>1, <4>3 DEF FileBounded
    <3>4. ASSUME NEW f \in Files, f # g PROVE FileBounded(f, files[f], procs')
      <4>1. ~Busy(procs[p], f)
        BY <3>4 DEF Busy, g
      <4>2. \A q \in Procs : Busy(procs[q], f) => Busy(procs'[q], f)
        BY <1>6, <4>1
      <4> QED BY <3>1, <4>2 DEF FileBounded
    <3> QED BY <1>6, <3>2, <3>3, <3>4
  <2> QED BY <1>3, <2>1 DEF Bounded
<1> QED BY <1>3, <1>9, <1>10, <1>11, <1>12 DEF StoreInv

LEMMA DeleteStep ==
  ASSUME StoreInv, NEW g \in Files, DeleteFile(g)
  PROVE  StoreInv'
<1>1. /\ DOMAIN files = Files /\ \A f \in Files : FileShape(files[f])
      /\ DOMAIN truth = Files \cup {"listings"} /\ \A f \in Files : IsList(truth[f])
      /\ DOMAIN procs = Procs /\ \A q \in Procs : JobShape(procs[q])
      /\ CountShape(used)
  BY DEF StoreInv, StoreShape
<1>2. /\ files' = [files EXCEPT ![g] = Missing] /\ truth' = [truth EXCEPT ![g] = <<>>]
      /\ procs' = procs
  BY DEF DeleteFile
<1>3. Onward /\ used'.faults # 0
  BY <1>1, OnwardSteps DEF DeleteFile
<1>4. /\ files'[g] = Missing /\ truth'[g] = <<>>
      /\ \A f \in Files : f # g => files'[f] = files[f] /\ truth'[f] = truth[f]
      /\ DOMAIN files' = Files /\ DOMAIN truth' = Files \cup {"listings"}
  BY <1>1, <1>2
<1>5. Missing.lines = <<>> /\ Missing.cut = FALSE
  BY DEF Missing
<1>6. StoreShape'
  <2>1. \A f \in Files : FileShape(files'[f]) /\ IsList(truth'[f])
    BY <1>1, <1>4, <1>5, EmptyList DEF FileShape
  <2> QED BY <1>1, <1>2, <1>3, <1>4, <2>1 DEF StoreShape, Onward
<1>7. NothingLost'
  <2>1. \A f \in Files : Held(f, files[f].lines, truth[f], files[f].cut)
    BY DEF StoreInv, NothingLost
  <2>2. \A f \in Files : Held(f, files'[f].lines, truth'[f], files'[f].cut)
    BY <1>4, <2>1, HeldOfNothing
  <2>3. ASSUME NEW q \in Procs PROVE JobOwed(procs[q], truth')
    <3>1. JobOwed(procs[q], truth) /\ JobShape(procs[q])
      BY <1>1 DEF StoreInv, NothingLost
    <3>2. ASSUME procs[q].stage = "replace"
          PROVE  Held(procs[q].file, procs[q].lines, truth'[procs[q].file], FALSE)
      <4>1. CASE procs[q].file = g
        BY <1>4, <4>1, HeldOfNothing
      <4>2. CASE procs[q].file # g
        <5>1. truth'[procs[q].file] = truth[procs[q].file]
          BY <1>4, <3>1, <3>2, <4>2 DEF JobShape
        <5>2. Held(procs[q].file, procs[q].lines, truth[procs[q].file], FALSE)
          BY <3>1, <3>2 DEF JobOwed
        <5> QED BY <5>1, <5>2
      <4> QED BY <4>1, <4>2
    <3> QED BY <3>2 DEF JobOwed
  <2> QED BY <1>2, <2>2, <2>3 DEF NothingLost
<1>8. Fresh(files'["reviews"].lines, truth'["reviews"], procs, used'.events)
  <2> DEFINE old == files["reviews"].lines
             new == files'["reviews"].lines
             all == truth["reviews"]
             newAll == truth'["reviews"]
             from == used.events
             to == used'.events
  <2>1. Fresh(old, all, procs, from) /\ from \in Nat /\ to \in Nat /\ from <= to
    BY <1>1, <1>3 DEF StoreInv, CountShape, Onward
  <2>2. NumbersIn(new) \subseteq NumbersIn(old) /\ NumbersOf(newAll) \subseteq NumbersOf(all)
    <3>1. CASE g = "reviews"
      <4>1. NumbersIn(<<>>) = {} /\ NumbersOf(<<>>) = {}
        BY EmptyList DEF NumbersIn, NumbersOf
      <4> QED BY <1>4, <1>5, <3>1, <4>1
    <3>2. CASE g # "reviews"
      BY <1>4, <3>2 DEF Files
    <3> QED BY <3>1, <3>2
  <2> HIDE DEF old, new, all, newAll, from, to
  <2>3. Known(new, newAll, procs) \subseteq Known(old, all, procs) \cup {}
    BY <2>2 DEF Known
  <2>4. {} \subseteq Upto(from) /\ \A q \in Procs : Pending(procs[q]) \subseteq Pending(procs[q]) /\ Pending(procs[q]) \cap {} = {}
    OBVIOUS
  <2>5. Fresh(new, newAll, procs, to)
    BY <2>1, <2>3, <2>4, FreshMoves
  <2> QED BY <2>5 DEF new, newAll, to
<1>9. Bounded'
  BY <1>3 DEF Bounded
<1> QED BY <1>2, <1>6, <1>7, <1>8, <1>9 DEF StoreInv

\* A process that has nothing to do with reviews or with a rewrite.
Aside(job) == /\ "stage" \in DOMAIN job /\ job.stage # "replace"
              /\ Pending(job) = {} /\ JobShape(job)

LEMMA AsideJob ==
  ASSUME NEW job, Aside(job), NEW lines, NEW written, NEW from, NEW to
  PROVE  /\ JobShape(job) /\ JobOwed(job, written) /\ Soon(job, from, to)
         /\ CarriesFile(job, lines) /\ JobBounded(job)
<1>1. Carried(job) = {} /\ Pending(job) = {}
  BY DEF Aside, Carried
<1> QED BY <1>1 DEF Aside, JobOwed, Soon, CarriesFile, JobBounded

\* The steps of the commands, and those that change only a process.
TurnsTo(p, job) == /\ procs' = [procs EXCEPT ![p] = job] /\ Unwritten /\ Onward

LEMMA AsideStep ==
  ASSUME StoreInv, NEW p \in Procs, NEW job, TurnsTo(p, job), Aside(job),
         used'.faults = 0 => StaysBusy(procs[p], job)
  PROVE  StoreInv'
<1>1. /\ JobShape(job) /\ JobOwed(job, truth) /\ Soon(job, used.events, used'.events)
      /\ CarriesFile(job, files["reviews"].lines) /\ JobBounded(job)
  BY AsideJob
<1>2. procs' = [procs EXCEPT ![p] = job] /\ Unwritten /\ Onward
  BY DEF TurnsTo
<1> QED BY <1>1, <1>2, JobStep

LEMMA IdleAside == Aside(Idle)
BY DEF Aside, Idle, Pending, JobShape

\* A process that is not working on a file leaves it to the others.
LEMMA NotBusy ==
  ASSUME NEW before, NEW job, before.stage \notin {"size", "read", "replace"}
  PROVE  StaysBusy(before, job)
BY DEF StaysBusy, Busy

LEMMA UnwrittenFiles ==
  ASSUME StoreInv, files' = files,
         truth' = truth \/ \E x : truth' = [truth EXCEPT !.listings = x]
  PROVE  Unwritten
<1>1. DOMAIN truth = Files \cup {"listings"} /\ "listings" # "reviews" /\ "listings" # "feedback"
  BY DEF StoreInv, StoreShape
<1>2. CASE truth' = truth
  BY <1>1, <1>2 DEF Unwritten
<1>3. CASE \E x : truth' = [truth EXCEPT !.listings = x]
  <2>1. PICK x : truth' = [truth EXCEPT !["listings"] = x]
    BY <1>3
  <2>2. DOMAIN truth' = DOMAIN truth
    BY <2>1
  <2>3. "reviews" \in DOMAIN truth /\ "feedback" \in DOMAIN truth
    BY <1>1 DEF Files
  <2>4. truth'["reviews"] = truth["reviews"] /\ truth'["feedback"] = truth["feedback"]
    BY <2>1, <2>3
  <2> QED BY <1>1, <2>2, <2>4 DEF Unwritten
<1> QED BY <1>2, <1>3

LEMMA RecordReviewStep ==
  ASSUME StoreInv, NEW w \in Writers, NEW turn, NEW results, RecordReview(w, turn, results)
  PROVE  StoreInv'
<1> DEFINE value == [turn |-> turn, time |-> clock', results |-> results, n |-> used.events + 1]
           job == [stage |-> "append", file |-> "reviews", value |-> value]
<1>1. CountShape(used) /\ used.events \in Nat
  BY DEF StoreInv, StoreShape, CountShape
<1>2. /\ procs[w] = Idle /\ files' = files /\ truth' = truth /\ Event
      /\ procs' = [procs EXCEPT ![w] = job]
  BY DEF RecordReview, Go
<1>3. Onward /\ used'.events = used.events + 1 /\ Unwritten
  BY <1>1, <1>2, OnwardSteps, UnwrittenFiles
<1>4. value.n = used.events + 1
  OBVIOUS
<1> HIDE DEF value
<1>5. /\ job.stage = "append" /\ job.file = "reviews" /\ job.value = value /\ "stage" \in DOMAIN job
  OBVIOUS
<1> HIDE DEF job
<1>6. Pending(job) = {used.events + 1} /\ Carried(job) = {}
  BY <1>4, <1>5 DEF Pending, Carried
<1>7. Soon(job, used.events, used'.events)
  BY <1>1, <1>3, <1>6 DEF Soon, Upto
<1>8. JobShape(job) /\ JobOwed(job, truth) /\ JobBounded(job) /\ CarriesFile(job, files["reviews"].lines)
  BY <1>5, <1>6 DEF JobShape, Files, JobOwed, JobBounded, CarriesFile
<1>9. StaysBusy(procs[w], job)
  BY <1>2, NotBusy DEF Idle
<1>10. w \in Procs
  BY DEF Procs
<1> QED BY <1>2, <1>3, <1>7, <1>8, <1>9, <1>10, JobStep

LEMMA FeedbackCommandStep ==
  ASSUME StoreInv, NEW t \in Terminals, NEW first, "stage" \in DOMAIN first,
         first.stage \in {"list", "mark"}, Command(t, first)
  PROVE  StoreInv'
<1>1. CountShape(used)
  BY DEF StoreInv, StoreShape
<1> DEFINE rest == [got |-> <<>>, n |-> used.events + 1, since |-> Len(truth.listings)]
           job == Over(first, rest)
<1>2. /\ procs[t] = Idle /\ files' = files /\ truth' = truth /\ Event
      /\ procs' = [procs EXCEPT ![t] = job]
  BY DEF Command, Go
<1>3. Unwritten /\ Onward
  BY <1>1, <1>2, OnwardSteps, UnwrittenFiles
<1> HIDE DEF rest
<1>4. "stage" \in DOMAIN job /\ job.stage = first.stage
  BY DEF Over
<1> HIDE DEF job
<1>5. Aside(job)
  BY <1>4 DEF Aside, Pending, JobShape
<1>6. StaysBusy(procs[t], job) /\ t \in Procs
  BY <1>2, NotBusy DEF Idle, Procs
<1> QED BY <1>2, <1>3, <1>5, <1>6, AsideStep DEF TurnsTo

LEMMA ReadPartStep ==
  ASSUME StoreInv, NEW t \in Terminals, NEW part, ReadPart(t, part)
  PROVE  StoreInv'
<1>1. /\ CountShape(used) /\ DOMAIN procs = Procs /\ t \in Procs /\ JobShape(procs[t])
  BY DEF StoreInv, StoreShape, Procs
<1>2. PICK x : procs' = [procs EXCEPT ![t].got = x]
  BY DEF ReadPart
<1> DEFINE job == [procs[t] EXCEPT !.got = x]
<1>3. procs' = [procs EXCEPT ![t] = job]
  BY <1>2
<1>4. procs[t].stage \in {"list", "mark"} /\ files' = files /\ truth' = truth /\ used' = used
  BY DEF ReadPart
<1>5. Unwritten /\ Onward
  BY <1>1, <1>4, OnwardSteps, UnwrittenFiles
<1>6. "stage" \in DOMAIN job /\ job.stage = procs[t].stage
  BY <1>1 DEF JobShape
<1> HIDE DEF job
<1>7. Aside(job)
  BY <1>4, <1>6 DEF Aside, Pending, JobShape
<1>8. StaysBusy(procs[t], job)
  BY <1>4, NotBusy
<1> QED BY <1>1, <1>3, <1>5, <1>7, <1>8, AsideStep DEF TurnsTo

LEMMA WriteSelectionStep ==
  ASSUME StoreInv, NEW t \in Terminals, WriteSelection(t)
  PROVE  StoreInv'
<1>1. CountShape(used) /\ t \in Procs
  BY DEF StoreInv, StoreShape, Procs
<1>2. /\ procs' = [procs EXCEPT ![t] = Idle] /\ procs[t].stage = "list"
      /\ files' = files /\ used' = used /\ \E x : truth' = [truth EXCEPT !.listings = x]
  BY Zenon DEF WriteSelection, Go, HasRead
<1>3. Unwritten /\ Onward
  BY <1>1, <1>2, OnwardSteps, UnwrittenFiles
<1>4. StaysBusy(procs[t], Idle)
  BY <1>2, NotBusy
<1> QED BY <1>1, <1>2, <1>3, <1>4, IdleAside, AsideStep DEF TurnsTo

LEMMA DecideMarkStep ==
  ASSUME StoreInv, NEW t \in Terminals, DecideMark(t)
  PROVE  StoreInv'
<1>1. CountShape(used) /\ t \in Procs
  BY DEF StoreInv, StoreShape, Procs
<1>2. PICK fail : /\ procs' = [procs EXCEPT ![t] = Idle] \/ procs' = [procs EXCEPT ![t] = AnswerTo(fail, procs[t])]
                  /\ procs[t].stage = "mark" /\ files' = files /\ truth' = truth /\ used' = used
  BY Zenon DEF DecideMark, Go, HasRead
<1>3. Unwritten /\ Onward
  BY <1>1, <1>2, OnwardSteps, UnwrittenFiles
<1>4. Aside(AnswerTo(fail, procs[t]))
  BY DEF AnswerTo, Aside, Pending, JobShape, Files
<1>5. \A job : StaysBusy(procs[t], job)
  BY <1>2, NotBusy
<1> QED BY <1>1, <1>2, <1>3, <1>4, <1>5, IdleAside, AsideStep DEF TurnsTo

LEMMA CheckSizeStep ==
  ASSUME StoreInv, NEW p \in Procs, CheckSize(p)
  PROVE  StoreInv'
<1>1. CountShape(used) /\ JobShape(procs[p]) /\ \A f \in Files : IsList(files[f].lines)
  BY DEF StoreInv, StoreShape, FileShape
<1> DEFINE g == procs[p].file
           more == [procs[p] EXCEPT !.stage = "read"]
           short == Len(files[g].lines) <= MaxSize[g]
<1>2. /\ procs[p].stage = "size" /\ files' = files /\ truth' = truth /\ used' = used
      /\ procs' = [procs EXCEPT ![p] = IF short THEN Idle ELSE more]
  BY DEF CheckSize, Go
<1>3. Unwritten /\ Onward
  BY <1>1, <1>2, OnwardSteps, UnwrittenFiles
<1>4. g \in Files /\ procs[p] = [stage |-> "size", file |-> g]
  BY <1>1, <1>2 DEF JobShape
<1>5. more = [stage |-> "read", file |-> g]
  <2> DEFINE before == procs[p]
             f == before.file
  <2>1. before = [stage |-> "size", file |-> f]
    BY <1>4
  <2> HIDE DEF f
  <2>2. [before EXCEPT !.stage = "read"] = [stage |-> "read", file |-> f]
    BY <2>1
  <2> QED BY <2>2 DEF f
<1>6. CASE short
  <2>1. Len(files[g].lines) <= FileLimit(g)
    <3>1. Len(files[g].lines) \in Nat
      BY <1>1, <1>4, ListOfSeq DEF IsList
    <3> HIDE DEF g
    <3> QED BY <1>4, <1>6, <3>1, LimitBounds
  <2>2. StaysBusy(procs[p], Idle)
    BY <2>1 DEF StaysBusy, Busy
  <2>3. procs' = [procs EXCEPT ![p] = Idle]
    BY <1>2, <1>6
  <2> QED BY <1>3, <2>2, <2>3, IdleAside, AsideStep DEF TurnsTo
<1>7. CASE ~short
  <2>1. more.stage = "read" /\ more.file = g /\ "stage" \in DOMAIN more
    BY <1>5
  <2>2. procs' = [procs EXCEPT ![p] = more]
    BY <1>2, <1>7
  <2> HIDE DEF more, g
  <2>3. Aside(more)
    BY <1>4, <1>5, <2>1 DEF Aside, Pending, JobShape
  <2>4. StaysBusy(procs[p], more)
    BY <2>1 DEF StaysBusy, Busy, g
  <2> QED BY <1>3, <2>2, <2>3, <2>4, AsideStep DEF TurnsTo
<1> QED BY <1>6, <1>7

\* Without a fault what is read is whole, and a file that is too long has records.
LEMMA UsableFile ==
  ASSUME NEW file, IsList(file.lines), AllRecords(file.lines), ParseJsonLines(file).records = <<>>
  PROVE  Len(file.lines) = 0
<1>1. PICK good, g : GoodLines(file, good, g)
  BY ParsedRecords
<1> DEFINE at == {a \in 1..Len(file.lines) : file.lines[a].tag = "RECORD"}
<1>2. /\ IsList(good) /\ ParseJsonLines(file).records = [i \in DOMAIN good |-> good[i].value]
      /\ Selects(good, file.lines, at, g)
  BY <1>1 DEF GoodLines
<1>3. DOMAIN good = 1..Len(good) /\ Len(good) \in Nat
  BY <1>2, ListOfSeq DEF IsList
<1>4. Len(file.lines) \in Nat /\ DOMAIN file.lines = 1..Len(file.lines)
  BY ListOfSeq DEF IsList
<1>5. 1..Len(good) = {}
  <2>1. DOMAIN ParseJsonLines(file).records = DOMAIN good
    BY <1>2
  <2> QED BY <1>3, <2>1, EmptyList
<1>6. at = {}
  BY <1>2, <1>5 DEF Selects
<1>7. ASSUME Len(file.lines) # 0 PROVE FALSE
  <2>1. 1 \in 1..Len(file.lines)
    BY <1>4, <1>7
  <2>2. 1 \in at
    BY <1>4, <2>1 DEF AllRecords
  <2> QED BY <1>6, <2>2
<1> QED BY <1>7

LEMMA ReadContentsStep ==
  ASSUME StoreInv, NEW p \in Procs, ReadContents(p)
  PROVE  StoreInv'
<1> DEFINE g == procs[p].file
           file == files[g]
           unusable == g = "feedback" /\ ParseJsonLines(file).records = <<>> /\ file.lines # <<>>
           lines == Rewritten(g, file)
           job == [stage |-> "replace", file |-> g, lines |-> lines]
<1>1. /\ CountShape(used) /\ JobShape(procs[p]) /\ \A f \in Files : FileShape(files[f]) /\ IsList(truth[f])
      /\ \A f \in Files : Held(f, files[f].lines, truth[f], files[f].cut)
  BY DEF StoreInv, StoreShape, NothingLost
<1>2. /\ procs[p].stage = "read" /\ files' = files /\ truth' = truth /\ used' = used
      /\ procs' = [procs EXCEPT ![p] = IF ~file.present \/ unusable THEN Idle ELSE job]
  BY DEF ReadContents, Go
<1>3. Unwritten /\ Onward
  BY <1>1, <1>2, OnwardSteps, UnwrittenFiles
<1>4. g \in Files
  BY <1>1, <1>2 DEF JobShape
<1>5. IsList(file.lines) /\ IsList(truth[g]) /\ Held(g, file.lines, truth[g], file.cut)
  BY <1>1, <1>4 DEF FileShape
<1>6. used'.faults = 0 => FileBounded(g, file, procs)
  BY <1>2, <1>4 DEF StoreInv, Bounded
<1> HIDE DEF g, file
<1>7. CASE ~file.present \/ unusable
  <2>1. ASSUME used'.faults = 0 PROVE Len(file.lines) <= FileLimit(g)
    <3>1. file.present /\ AllRecords(file.lines)
      BY <1>6, <2>1 DEF FileBounded
    <3>2. Len(file.lines) = 0
      BY <1>5, <1>7, <3>1, UsableFile
    <3> QED BY <1>4, <3>2, LimitBounds
  <2>2. ASSUME used'.faults = 0 PROVE StaysBusy(procs[p], Idle)
    <3>1. \A f \in Files : Busy(procs[p], f) => f = g
      BY DEF Busy, g
    <3> QED BY <2>1, <2>2, <3>1 DEF StaysBusy, file
  <2>3. procs' = [procs EXCEPT ![p] = Idle]
    BY <1>2, <1>7
  <2> QED BY <1>3, <2>2, <2>3, IdleAside, AsideStep DEF TurnsTo
<1>8. CASE ~(~file.present \/ unusable)
  <2>1. procs' = [procs EXCEPT ![p] = job]
    BY <1>2, <1>8
  <2>2. /\ IsList(lines) /\ Len(lines) <= MaxRecords[g]
        /\ g = "reviews" => \A k \in DOMAIN lines : \E l \in DOMAIN file.lines : lines[k] = file.lines[l]
        /\ g # "reviews" => \A k \in DOMAIN lines : lines[k].tag = "RECORD"
    BY <1>4, <1>5, RewrittenList
  <2>3. Held(g, lines, truth[g], FALSE)
    <3> DEFINE all == truth[g]
               cut == file.cut
    <3>1. IsList(all) /\ Held(g, file.lines, all, cut)
      BY <1>5
    <3> HIDE DEF all, cut
    <3>2. Held(g, lines, all, FALSE)
      BY <1>4, <1>5, <3>1, HeldRewritten
    <3> QED BY <3>2 DEF all
  <2> HIDE DEF lines
  <2>4. job.stage = "replace" /\ job.file = g /\ job.lines = lines /\ "stage" \in DOMAIN job
    OBVIOUS
  <2> HIDE DEF job
  <2>5. JobShape(job) /\ JobOwed(job, truth) /\ Pending(job) = {}
    BY <1>4, <2>2, <2>3, <2>4 DEF JobShape, JobOwed, Pending
  <2>6. Soon(job, used.events, used'.events)
    BY <2>5 DEF Soon
  <2>7. CarriesFile(job, files["reviews"].lines)
    <3>1. CASE g = "reviews"
      <4>1. Carried(job) = NumbersIn(lines)
        BY <2>4, <3>1 DEF Carried
      <4>2. NumbersIn(lines) \subseteq NumbersIn(file.lines)
        BY <2>2, <3>1 DEF NumbersIn
      <4> QED BY <3>1, <4>1, <4>2 DEF CarriesFile, file
    <3>2. CASE g # "reviews"
      BY <2>4, <3>2 DEF Carried, CarriesFile
    <3> QED BY <3>1, <3>2
  <2>8. ASSUME used'.faults = 0 PROVE JobBounded(job)
    <3>1. AllRecords(file.lines)
      BY <1>6, <2>8 DEF FileBounded
    <3>2. AllRecords(lines)
      BY <2>2, <3>1 DEF AllRecords
    <3> QED BY <2>2, <2>4, <3>2 DEF JobBounded
  <2>9. StaysBusy(procs[p], job)
    BY <2>4 DEF StaysBusy, Busy, g
  <2> QED BY <1>3, <2>1, <2>5, <2>6, <2>7, <2>8, <2>9, JobStep
<1> QED BY <1>7, <1>8

LEMMA StopStep ==
  ASSUME StoreInv, NEW p \in Procs, Stop(p)
  PROVE  StoreInv'
<1>1. CountShape(used)
  BY DEF StoreInv, StoreShape
<1>2. /\ procs' = [procs EXCEPT ![p] = Idle] /\ files' = files /\ truth' = truth /\ Fault("stop")
  BY DEF Stop, Go
<1>3. Unwritten /\ Onward /\ used'.faults # 0
  BY <1>1, <1>2, OnwardSteps, UnwrittenFiles
<1> QED BY <1>2, <1>3, IdleAside, AsideStep DEF TurnsTo

LEMMA AppendLineStep ==
  ASSUME StoreInv, NEW p \in Procs, AppendLine(p)
  PROVE  StoreInv'
<1> DEFINE g == procs[p].file
           line == Line(procs[p].value)
           sound == ~files[g].cut /\ Replacing(g) = {}
           job == [stage |-> "size", file |-> g]
<1>1. /\ CountShape(used) /\ JobShape(procs[p]) /\ DOMAIN files = Files /\ DOMAIN truth = Files \cup {"listings"}
      /\ \A f \in Files : files[f].cut \in BOOLEAN
  BY DEF StoreInv, StoreShape, FileShape
<1>2. procs[p].stage = "append" /\ used' = used
  BY DEF AppendLine
<1>3. g \in Files
  BY <1>1, <1>2 DEF JobShape
<1>4. files' = [files EXCEPT ![g] = Grown(files[g], line, FALSE)]
  BY DEF AppendLine
<1>5. truth' = [truth EXCEPT ![g] = Append(truth[g], Write(procs[p].value, sound))]
  BY DEF AppendLine, Noted, Write
<1>6. procs' = [procs EXCEPT ![p] = job]
  BY DEF AppendLine, Go
<1>7. sound \in BOOLEAN
  BY <1>1, <1>3
<1>8. Writes(p, line, sound, FALSE, job)
  BY <1>4, <1>5, <1>6, <1>7 DEF Writes
<1>9. Onward
  BY <1>1, <1>2, OnwardSteps
<1> HIDE DEF line, sound, job
<1> QED BY <1>2, <1>8, <1>9, WriteStep

LEMMA AppendCutStep ==
  ASSUME StoreInv, NEW p \in Procs, AppendCut(p)
  PROVE  StoreInv'
<1> DEFINE g == procs[p].file
<1>1. CountShape(used)
  BY DEF StoreInv, StoreShape
<1>2. procs[p].stage = "append" /\ Fault("cut")
  BY DEF AppendCut
<1>3. PICK line \in {Line(procs[p].value), Malformed} :
        files' = [files EXCEPT ![g] = Grown(files[g], line, TRUE)]
  BY DEF AppendCut
<1>4. truth' = [truth EXCEPT ![g] = Append(truth[g], Write(procs[p].value, FALSE))]
  BY DEF AppendCut, Noted, Write
<1>5. procs' = [procs EXCEPT ![p] = Idle]
  BY DEF AppendCut, Go
<1>6. Onward /\ used'.faults # 0
  BY <1>1, <1>2, OnwardSteps
<1>7. Writes(p, line, FALSE, TRUE, Idle)
  BY <1>3, <1>4, <1>5, <1>6 DEF Writes
<1> QED BY <1>2, <1>6, <1>7, WriteStep

LEMMA NextStoreInv ==
  ASSUME StoreInv, [Next]_vars
  PROVE  StoreInv'
<1>1. ASSUME NEW w \in Writers, NEW turn, NEW results, RecordReview(w, turn, results) PROVE StoreInv'
  BY <1>1, RecordReviewStep
<1>2. ASSUME NEW t \in Terminals, List(t) PROVE StoreInv'
  <2> DEFINE first == [stage |-> "list"]
  <2>1. Command(t, first) /\ first.stage = "list" /\ "stage" \in DOMAIN first
    BY <1>2 DEF List
  <2> HIDE DEF first
  <2> QED BY <2>1, FeedbackCommandStep
<1>3. ASSUME NEW t \in Terminals, NEW k, NEW d, Mark(t, k, d) PROVE StoreInv'
  <2> DEFINE first == [stage |-> "mark", number |-> k, decision |-> d]
  <2>1. Command(t, first) /\ first.stage = "mark" /\ "stage" \in DOMAIN first
    BY <1>3 DEF Mark
  <2> HIDE DEF first
  <2> QED BY <2>1, FeedbackCommandStep
<1>4. ASSUME NEW t \in Terminals, NEW part, ReadPart(t, part) PROVE StoreInv'
  BY <1>4, ReadPartStep
<1>5. ASSUME NEW t \in Terminals, WriteSelection(t) \/ DecideMark(t) PROVE StoreInv'
  BY <1>5, WriteSelectionStep, DecideMarkStep
<1>6. ASSUME NEW p \in Procs, AppendLine(p) \/ AppendCut(p) PROVE StoreInv'
  BY <1>6, AppendLineStep, AppendCutStep
<1>7. ASSUME NEW p \in Procs, CheckSize(p) \/ ReadContents(p) PROVE StoreInv'
  BY <1>7, CheckSizeStep, ReadContentsStep
<1>8. ASSUME NEW p \in Procs, Replace(p) \/ Stop(p) PROVE StoreInv'
  BY <1>8, ReplaceStep, StopStep
<1>9. ASSUME NEW f \in Files, DeleteFile(f) PROVE StoreInv'
  BY <1>9, DeleteStep
<1>10. CASE DeleteSelection
  <2>1. files' = files /\ truth' = truth /\ procs' = procs /\ Fault("delete")
    BY <1>10 DEF DeleteSelection
  <2>2. Onward
    BY <2>1, OnwardSteps DEF StoreInv, StoreShape
  <2> QED BY <2>1, <2>2, StillStep
<1>11. CASE UNCHANGED vars
  <2>1. files' = files /\ truth' = truth /\ procs' = procs /\ used' = used
    BY <1>11 DEF vars
  <2>2. Onward
    BY <2>1, OnwardSteps DEF StoreInv, StoreShape
  <2> QED BY <2>1, <2>2, StillStep
<1> QED BY <1>1, <1>2, <1>3, <1>4, <1>5, <1>6, <1>7, <1>8, <1>9, <1>10, <1>11 DEF Next

\* No rewrite loses a review or an answer it should keep, and no file stays too
\* long while nothing fails: for any number of processes, sizes and records.
THEOREM StoreRewritesKeep == Spec => []RewritesKeep
<1>1. Init => StoreInv
  BY InitStoreInv
<1>2. StoreInv /\ [Next]_vars => StoreInv'
  BY NextStoreInv
<1>3. StoreInv => RewritesKeep
  BY InvGives
<1> QED BY <1>1, <1>2, <1>3, PTL DEF Spec

----------------------------------------------------------------------------
(* LocalStore: listing, report and answers tell of the same FAILs.          *)

(* LocalStore: the FAILs of a history, and their listing.                   *)

\* A FAIL of a record as <<turn, rule, time>>; those of its first n results.
FailOf(record, j) == <<record.turn, record.results[j].id, record.time>>
FailPlaces(record, n) == {j \in 1..n : IsRuleFail(record.results[j])}
FailsIn(record, n) == {FailOf(record, j) : j \in FailPlaces(record, n)}
FailsUpto(records, n) == UNION {FailsIn(records[i], Len(records[i].results)) : i \in 1..n}

KeepsNewest(fails, seen, key) ==
  /\ fails[key] = [turn |-> key[1], rule |-> key[2], time |-> fails[key].time]
  /\ <<key[1], key[2], fails[key].time>> \in seen
  /\ \A x \in seen : x[1] = key[1] /\ x[2] = key[2] => x[3] <= fails[key].time

\* The map of the FAILs has each of those seen, with the time of its newest record.
Collected(fails, seen) ==
  /\ IsFiniteSet(DOMAIN fails)
  /\ DOMAIN fails = {Identity(x[1], x[2]) : x \in seen}
  /\ \A key \in DOMAIN fails : KeepsNewest(fails, seen, key)

\* A record as far as the listing looks into it.
IsReview(record) ==
  /\ record.turn \in Int /\ record.time \in Int /\ IsList(record.results)
  /\ \A j \in DOMAIN record.results : record.results[j].id \in Int
Triples(seen) == \A x \in seen : x = <<x[1], x[2], x[3]>> /\ x[3] \in Int

LEMMA NothingCollected == Collected(<<>>, {})
BY EmptyList, FS_EmptySet DEF Collected

LEMMA OneMoreFail ==
  ASSUME NEW fails, NEW seen, Triples(seen), Collected(fails, seen), NEW turn, NEW rule, NEW time \in Int,
         NEW new, LET key == Identity(turn, rule)
                  IN  new = IF key \in DOMAIN fails => time >= fails[key].time
                            THEN With(fails, key, [turn |-> turn, rule |-> rule, time |-> time])
                            ELSE fails
  PROVE  Collected(new, seen \cup {<<turn, rule, time>>})
<1> DEFINE key == Identity(turn, rule)
           fail == <<turn, rule, time>>
           more == seen \cup {fail}
           value == [turn |-> turn, rule |-> rule, time |-> time]
<1>1. /\ IsFiniteSet(DOMAIN fails) /\ DOMAIN fails = {Identity(x[1], x[2]) : x \in seen}
      /\ \A k \in DOMAIN fails : KeepsNewest(fails, seen, k)
  BY DEF Collected
<1>2. {Identity(x[1], x[2]) : x \in more} = DOMAIN fails \cup {key}
  <2>1. Identity(fail[1], fail[2]) = key
    OBVIOUS
  <2> QED BY <1>1, <2>1
<1>3. key[1] = turn /\ key[2] = rule /\ \A x : Identity(x[1], x[2]) = key <=> x[1] = turn /\ x[2] = rule
  BY DEF Identity
<1>4. \A k \in DOMAIN fails : \E x \in seen : k = Identity(x[1], x[2])
  BY <1>1
<1>5. \A k \in DOMAIN fails : k # key => ~(k[1] = turn /\ k[2] = rule)
  BY <1>4 DEF Identity
<1>6. ASSUME NEW k \in DOMAIN fails, k # key PROVE KeepsNewest(fails, more, k)
  BY <1>1, <1>5, <1>6 DEF KeepsNewest
<1>7. \A k \in DOMAIN fails : fails[k].time \in Int
  <2>1. ASSUME NEW k \in DOMAIN fails PROVE fails[k].time \in Int
    <3>1. <<k[1], k[2], fails[k].time>> \in seen
      BY <1>1 DEF KeepsNewest
    <3> QED BY <3>1 DEF Triples
  <2> QED BY <2>1
<1>8. CASE key \in DOMAIN fails => time >= fails[key].time
  <2>1. new = With(fails, key, value)
    BY <1>8
  <2>2. /\ DOMAIN new = DOMAIN fails \cup {key} /\ new[key] = value
        /\ \A k \in DOMAIN fails : k # key => new[k] = fails[k]
    BY <2>1 DEF With
  <2>3. IsFiniteSet(DOMAIN new)
    BY <1>1, <2>2, FS_AddElement
  <2>4. KeepsNewest(new, more, key)
    <3>1. new[key].time = time /\ new[key] = [turn |-> key[1], rule |-> key[2], time |-> time]
      BY <1>3, <2>2
    <3>2. \A x \in more : x[1] = key[1] /\ x[2] = key[2] => x[3] <= time
      <4> SUFFICES ASSUME NEW x \in more, x[1] = turn, x[2] = rule PROVE x[3] <= time
        BY <1>3
      <4>1. CASE x = fail
        BY <4>1
      <4>2. CASE x \in seen
        <5>1. key \in DOMAIN fails
          BY <1>1, <1>3, <4>2
        <5>2. x[3] <= fails[key].time /\ x[3] \in Int
          BY <1>1, <1>3, <4>2, <5>1 DEF KeepsNewest, Triples
        <5> QED BY <1>7, <1>8, <5>1, <5>2
      <4> QED BY <4>1, <4>2
    <3> QED BY <1>3, <3>1, <3>2 DEF KeepsNewest
  <2>5. ASSUME NEW k \in DOMAIN new PROVE KeepsNewest(new, more, k)
    <3>1. CASE k = key
      BY <2>4, <3>1
    <3>2. CASE k # key
      BY <1>6, <2>2, <3>2 DEF KeepsNewest
    <3> QED BY <3>1, <3>2
  <2> QED BY <1>2, <2>2, <2>3, <2>5 DEF Collected
<1>9. CASE ~(key \in DOMAIN fails => time >= fails[key].time)
  <2>1. new = fails /\ key \in DOMAIN fails /\ time <= fails[key].time
    BY <1>7, <1>9
  <2>2. KeepsNewest(fails, more, key)
    <3>1. KeepsNewest(fails, seen, key)
      BY <1>1, <2>1
    <3>2. \A x \in more : x[1] = key[1] /\ x[2] = key[2] => x[3] <= fails[key].time
      BY <2>1, <3>1 DEF KeepsNewest
    <3> QED BY <3>1, <3>2 DEF KeepsNewest
  <2>3. \A k \in DOMAIN fails : KeepsNewest(fails, more, k)
    BY <1>6, <2>2
  <2> QED BY <1>1, <1>2, <2>1, <2>3 DEF Collected
<1> QED BY <1>8, <1>9

\* AddFails, result by result, and CollectRuleFails, record by record.
WithinStep(fails, record, f, n) == IF n = 0 THEN fails ELSE AddFail(f[n - 1], record, record.results[n])
WithinUpto(fails, record, k, f) == f = [n \in 0..k |-> WithinStep(fails, record, f, n)]
CollectStep(records, f, n) == IF n = 0 THEN <<>> ELSE AddFails(f[n - 1], records[n])
CollectUpto(records, k, f) == f = [n \in 0..k |-> CollectStep(records, f, n)]

LEMMA WithinUptoStep ==
  ASSUME NEW fails, NEW record, NEW k \in Nat, NEW f, WithinUpto(fails, record, k, f)
  PROVE  /\ DOMAIN f = 0..k /\ f[0] = fails
         /\ \A n \in 1..k : f[n] = AddFail(f[n - 1], record, record.results[n])
<1>1. f = [n \in 0..k |-> WithinStep(fails, record, f, n)]
  BY DEF WithinUpto
<1>2. DOMAIN f = 0..k /\ \A n \in 0..k : f[n] = WithinStep(fails, record, f, n)
  BY <1>1, Zenon
<1>3. 0 \in 0..k /\ \A n \in 1..k : n \in 0..k /\ n # 0
  OBVIOUS
<1> QED BY <1>2, <1>3 DEF WithinStep

LEMMA WithinUptoExists ==
  ASSUME NEW fails, NEW record, NEW k \in Nat
  PROVE  \E f : WithinUpto(fails, record, k, f)
<1> DEFINE Bad == {n \in Nat : ~\E f : WithinUpto(fails, record, n, f)}
<1> SUFFICES ASSUME Bad # {} PROVE FALSE
  OBVIOUS
<1>1. PICK n \in Bad : \A m \in Bad : n <= m
  <2> HIDE DEF Bad
  <2>1. Bad \in SUBSET Nat
    BY DEF Bad
  <2> QED BY <2>1, LeastNumber
<1>2. n # 0
  <2>1. ASSUME n = 0 PROVE FALSE
    <3> DEFINE f == [m \in 0..0 |-> fails]
    <3>1. f = [m \in 0..n |-> WithinStep(fails, record, f, m)]
      BY <2>1 DEF WithinStep
    <3> HIDE DEF f
    <3>2. WithinUpto(fails, record, n, f)
      BY <3>1 DEF WithinUpto
    <3> QED BY <3>2
  <2> QED BY <2>1
<1>3. n - 1 \in Nat /\ n - 1 \notin Bad /\ n \in Nat
  BY <1>1, <1>2
<1>4. PICK g : WithinUpto(fails, record, n - 1, g)
  BY <1>3
<1>5. /\ DOMAIN g = 0..(n - 1) /\ g[0] = fails
      /\ \A m \in 1..(n - 1) : g[m] = AddFail(g[m - 1], record, record.results[m])
  BY <1>3, <1>4, WithinUptoStep
<1> DEFINE f == [m \in 0..n |-> IF m = n THEN AddFail(g[n - 1], record, record.results[n]) ELSE g[m]]
<1>6. \A m \in 0..n : f[m] = WithinStep(fails, record, f, m)
  <2>1. ASSUME NEW m \in 0..n PROVE f[m] = WithinStep(fails, record, f, m)
    <3>1. CASE m = 0
      BY <3>1, <1>2, <1>3, <1>5 DEF WithinStep
    <3>2. CASE m # 0
      <4>1. m - 1 \in 0..n /\ m - 1 # n /\ m \in 1..n
        BY <3>2, <1>3
      <4>2. f[m - 1] = g[m - 1]
        BY <4>1
      <4>3. CASE m = n
        BY <4>1, <4>2, <4>3 DEF WithinStep
      <4>4. CASE m # n
        <5>1. m \in 1..(n - 1)
          BY <4>1, <4>4, <1>3
        <5> QED BY <4>2, <4>4, <5>1, <1>5, <3>2 DEF WithinStep
      <4> QED BY <4>3, <4>4
    <3> QED BY <3>1, <3>2
  <2> QED BY <2>1
<1>7. f = [m \in 0..n |-> WithinStep(fails, record, f, m)]
  BY <1>6
<1> HIDE DEF f
<1>8. WithinUpto(fails, record, n, f)
  BY <1>7 DEF WithinUpto
<1> QED BY <1>1, <1>8

LEMMA CollectUptoStep ==
  ASSUME NEW records, NEW k \in Nat, NEW f, CollectUpto(records, k, f)
  PROVE  /\ DOMAIN f = 0..k /\ f[0] = <<>>
         /\ \A n \in 1..k : f[n] = AddFails(f[n - 1], records[n])
<1>1. f = [n \in 0..k |-> CollectStep(records, f, n)]
  BY DEF CollectUpto
<1>2. DOMAIN f = 0..k /\ \A n \in 0..k : f[n] = CollectStep(records, f, n)
  BY <1>1, Zenon
<1>3. 0 \in 0..k /\ \A n \in 1..k : n \in 0..k /\ n # 0
  OBVIOUS
<1> QED BY <1>2, <1>3 DEF CollectStep

LEMMA CollectUptoExists ==
  ASSUME NEW records, NEW k \in Nat
  PROVE  \E f : CollectUpto(records, k, f)
<1> DEFINE Bad == {n \in Nat : ~\E f : CollectUpto(records, n, f)}
<1> SUFFICES ASSUME Bad # {} PROVE FALSE
  OBVIOUS
<1>1. PICK n \in Bad : \A m \in Bad : n <= m
  <2> HIDE DEF Bad
  <2>1. Bad \in SUBSET Nat
    BY DEF Bad
  <2> QED BY <2>1, LeastNumber
<1>2. n # 0
  <2>1. ASSUME n = 0 PROVE FALSE
    <3> DEFINE f == [m \in 0..0 |-> <<>>]
    <3>1. f = [m \in 0..n |-> CollectStep(records, f, m)]
      BY <2>1 DEF CollectStep
    <3> HIDE DEF f
    <3>2. CollectUpto(records, n, f)
      BY <3>1 DEF CollectUpto
    <3> QED BY <3>2
  <2> QED BY <2>1
<1>3. n - 1 \in Nat /\ n - 1 \notin Bad /\ n \in Nat
  BY <1>1, <1>2
<1>4. PICK g : CollectUpto(records, n - 1, g)
  BY <1>3
<1>5. /\ DOMAIN g = 0..(n - 1) /\ g[0] = <<>>
      /\ \A m \in 1..(n - 1) : g[m] = AddFails(g[m - 1], records[m])
  BY <1>3, <1>4, CollectUptoStep
<1> DEFINE f == [m \in 0..n |-> IF m = n THEN AddFails(g[n - 1], records[n]) ELSE g[m]]
<1>6. \A m \in 0..n : f[m] = CollectStep(records, f, m)
  <2>1. ASSUME NEW m \in 0..n PROVE f[m] = CollectStep(records, f, m)
    <3>1. CASE m = 0
      BY <3>1, <1>2, <1>3, <1>5 DEF CollectStep
    <3>2. CASE m # 0
      <4>1. m - 1 \in 0..n /\ m - 1 # n /\ m \in 1..n
        BY <3>2, <1>3
      <4>2. f[m - 1] = g[m - 1]
        BY <4>1
      <4>3. CASE m = n
        BY <4>1, <4>2, <4>3 DEF CollectStep
      <4>4. CASE m # n
        <5>1. m \in 1..(n - 1)
          BY <4>1, <4>4, <1>3
        <5> QED BY <4>2, <4>4, <5>1, <1>5, <3>2 DEF CollectStep
      <4> QED BY <4>3, <4>4
    <3> QED BY <3>1, <3>2
  <2> QED BY <2>1
<1>7. f = [m \in 0..n |-> CollectStep(records, f, m)]
  BY <1>6
<1> HIDE DEF f
<1>8. CollectUpto(records, n, f)
  BY <1>7 DEF CollectUpto
<1> QED BY <1>1, <1>8

LEMMA TriplesOf ==
  ASSUME NEW record, IsReview(record), NEW n \in 0..Len(record.results)
  PROVE  Triples(FailsIn(record, n))
BY DEF IsReview, FailsIn, FailPlaces, FailOf, Triples

LEMMA FailsInOneMore ==
  ASSUME NEW record, NEW n \in Nat, n # 0
  PROVE  /\ FailsIn(record, 0) = {}
         /\ FailsIn(record, n) = IF IsRuleFail(record.results[n])
                                 THEN FailsIn(record, n - 1) \cup {FailOf(record, n)}
                                 ELSE FailsIn(record, n - 1)
<1>1. 1..n = (1..(n - 1)) \cup {n} /\ 1..0 = {}
  OBVIOUS
<1>2. FailPlaces(record, n) = IF IsRuleFail(record.results[n]) THEN FailPlaces(record, n - 1) \cup {n}
                              ELSE FailPlaces(record, n - 1)
  BY <1>1 DEF FailPlaces
<1>3. FailPlaces(record, 0) = {}
  BY <1>1 DEF FailPlaces
<1> QED BY <1>2, <1>3 DEF FailsIn

\* One more record.
LEMMA AddFailsCollects ==
  ASSUME NEW fails, NEW seen, Triples(seen), Collected(fails, seen), NEW record, IsReview(record)
  PROVE  Collected(AddFails(fails, record), seen \cup FailsIn(record, Len(record.results)))
<1> DEFINE k == Len(record.results)
<1>1. k \in Nat /\ DOMAIN record.results = 1..k
  BY ListOfSeq DEF IsReview, IsList
<1>2. PICK f : WithinUpto(fails, record, k, f) /\ AddFails(fails, record) = f[k]
  <2> DEFINE u == CHOOSE u : WithinUpto(fails, record, k, u)
  <2>1. WithinUpto(fails, record, k, u)
    BY <1>1, WithinUptoExists, Zenon
  <2>2. AddFails(fails, record) = u[k]
    BY DEF AddFails, WithinUpto, WithinStep
  <2> QED BY <2>1, <2>2, Zenon
<1>3. /\ f[0] = fails
      /\ \A n \in 1..k : f[n] = AddFail(f[n - 1], record, record.results[n])
  <2> HIDE DEF k
  <2>1. WithinUpto(fails, record, k, f) /\ k \in Nat
    BY <1>1, <1>2
  <2>2. f[0] = fails
    BY <2>1, WithinUptoStep
  <2>3. \A n \in 1..k : f[n] = AddFail(f[n - 1], record, record.results[n])
    BY <2>1, WithinUptoStep
  <2> QED BY <2>2, <2>3
<1> DEFINE All(n) == seen \cup FailsIn(record, n)
           Good(n) == Collected(f[n], All(n))
           Bad == {n \in 0..k : ~Good(n)}
<1>4. Bad = {}
  <2> SUFFICES ASSUME Bad # {} PROVE FALSE
    OBVIOUS
  <2>1. PICK n \in Bad : \A m \in Bad : n <= m
    <3>1. Bad \in SUBSET Nat
      BY <1>1
    <3> HIDE DEF Bad
    <3> QED BY <3>1, LeastNumber
  <2>2. Good(0)
    <3>1. All(0) = seen
      BY DEF FailsIn, FailPlaces
    <3> QED BY <1>3, <3>1
  <2>3. n \in 1..k /\ n - 1 \in 0..k /\ n \in Nat /\ n # 0 /\ ~Good(n)
    <3> HIDE DEF Good
    <3>1. n \in 0..k /\ ~Good(n)
      BY <2>1
    <3>2. n # 0
      BY <2>2, <3>1
    <3> QED BY <1>1, <3>1, <3>2
  <2>4. Good(n - 1)
    <3>1. n - 1 \notin Bad
      <4>1. ~(n <= n - 1)
        BY <2>3
      <4> HIDE DEF Bad
      <4> QED BY <2>1, <4>1
    <3> HIDE DEF Good
    <3> QED BY <2>3, <3>1
  <2> DEFINE older == f[n - 1]
             before == All(n - 1)
             result == record.results[n]
             turn == record.turn
             rule == result.id
             time == record.time
             key == Identity(turn, rule)
             newer == key \in DOMAIN older => time >= older[key].time
  <2>5. Collected(older, before) /\ Triples(before)
    <3>1. Triples(FailsIn(record, n - 1))
      BY <2>3, TriplesOf
    <3> QED BY <2>4, <3>1 DEF Triples
  <2>6. f[n] = IF ~(IsRuleFail(result) /\ newer) THEN older
               ELSE With(older, key, [turn |-> turn, rule |-> rule, time |-> time])
    BY <1>3, <2>3 DEF AddFail
  <2>7. All(n) = IF IsRuleFail(result) THEN before \cup {<<turn, rule, time>>} ELSE before
    BY <2>3, FailsInOneMore DEF FailOf
  <2>8. time \in Int
    BY DEF IsReview
  <2> DEFINE new == IF newer THEN With(older, key, [turn |-> turn, rule |-> rule, time |-> time]) ELSE older
  <2>9. Collected(new, before \cup {<<turn, rule, time>>})
    <3> DEFINE now == new
    <3>1. now = IF Identity(turn, rule) \in DOMAIN older => time >= older[Identity(turn, rule)].time
                THEN With(older, Identity(turn, rule), [turn |-> turn, rule |-> rule, time |-> time]) ELSE older
      OBVIOUS
    <3> HIDE DEF now, older, before, turn, rule, time
    <3>2. Collected(now, before \cup {<<turn, rule, time>>})
      BY <2>5, <2>8, <3>1, OneMoreFail
    <3> QED BY <3>2 DEF now
  <2> HIDE DEF older, before, newer, turn, rule, time, result, key
  <2>10. Collected(f[n], All(n))
    <3>1. CASE IsRuleFail(result)
      <4>1. f[n] = new /\ All(n) = before \cup {<<turn, rule, time>>}
        BY <2>6, <2>7, <3>1
      <4> QED BY <2>9, <4>1
    <3>2. CASE ~IsRuleFail(result)
      <4>1. f[n] = older /\ All(n) = before
        BY <2>6, <2>7, <3>2
      <4> QED BY <2>5, <4>1
    <3> QED BY <3>1, <3>2
  <2> QED BY <2>3, <2>10
<1>5. Good(k)
  <2> HIDE DEF Good
  <2> QED BY <1>1, <1>4
<1> QED BY <1>2, <1>5

AreReviews(records) == IsList(records) /\ \A i \in DOMAIN records : IsReview(records[i])

LEMMA RuleFailsCollected ==
  ASSUME NEW records, AreReviews(records)
  PROVE  /\ Collected(CollectRuleFails(records), FailsUpto(records, Len(records)))
         /\ Triples(FailsUpto(records, Len(records)))
<1> DEFINE k == Len(records)
<1>1. k \in Nat /\ DOMAIN records = 1..k /\ \A i \in 1..k : IsReview(records[i])
  BY ListOfSeq DEF AreReviews, IsList
<1>2. PICK f : CollectUpto(records, k, f) /\ CollectRuleFails(records) = f[k]
  <2> DEFINE u == CHOOSE u : CollectUpto(records, k, u)
  <2>1. CollectUpto(records, k, u)
    BY <1>1, CollectUptoExists, Zenon
  <2>2. CollectRuleFails(records) = u[k]
    BY DEF CollectRuleFails, CollectUpto, CollectStep
  <2> QED BY <2>1, <2>2, Zenon
<1>3. /\ f[0] = <<>>
      /\ \A n \in 1..k : f[n] = AddFails(f[n - 1], records[n])
  BY <1>1, <1>2, CollectUptoStep
<1> DEFINE All(n) == FailsUpto(records, n)
           Good(n) == Collected(f[n], All(n)) /\ Triples(All(n))
           Bad == {n \in 0..k : ~Good(n)}
<1>4. Bad = {}
  <2> SUFFICES ASSUME Bad # {} PROVE FALSE
    OBVIOUS
  <2>1. PICK n \in Bad : \A m \in Bad : n <= m
    <3>1. Bad \in SUBSET Nat
      BY <1>1
    <3> HIDE DEF Bad
    <3> QED BY <3>1, LeastNumber
  <2>2. Good(0)
    <3>1. All(0) = {}
      BY DEF FailsUpto
    <3> HIDE DEF All
    <3> QED BY <1>3, <3>1, NothingCollected DEF Triples
  <2>3. n \in 1..k /\ n - 1 \in 0..k /\ ~Good(n)
    <3> HIDE DEF Good
    <3>1. n \in 0..k /\ ~Good(n)
      BY <2>1
    <3>2. n # 0
      BY <2>2, <3>1
    <3> QED BY <1>1, <3>1, <3>2
  <2>4. Good(n - 1)
    <3>1. n - 1 \notin Bad
      <4>1. ~(n <= n - 1)
        BY <2>3
      <4> HIDE DEF Bad
      <4> QED BY <2>1, <4>1
    <3> HIDE DEF Good
    <3> QED BY <2>3, <3>1
  <2> DEFINE record == records[n]
             results == FailsIn(record, Len(record.results))
  <2>5. All(n) = All(n - 1) \cup results
    <3>1. 1..n = (1..(n - 1)) \cup {n}
      BY <2>3
    <3> QED BY <3>1 DEF FailsUpto
  <2>6. IsReview(record)
    BY <1>1, <2>3
  <2>7. Triples(results)
    <3>1. Len(record.results) \in Nat
      BY <2>6, ListOfSeq DEF IsReview, IsList
    <3>2. Len(record.results) \in 0..Len(record.results)
      BY <3>1
    <3> QED BY <2>6, <3>2, TriplesOf
  <2>8. f[n] = AddFails(f[n - 1], record)
    BY <1>3, <2>3
  <2>9. Collected(f[n], All(n - 1) \cup results)
    <3> HIDE DEF record, All
    <3>1. Collected(f[n - 1], All(n - 1)) /\ Triples(All(n - 1))
      BY <2>4
    <3>2. Collected(AddFails(f[n - 1], record), All(n - 1) \cup FailsIn(record, Len(record.results)))
      BY <2>6, <3>1, AddFailsCollects
    <3> QED BY <2>8, <3>2
  <2> HIDE DEF All, results
  <2>10. Triples(All(n))
    BY <2>4, <2>5, <2>7 DEF Triples
  <2> QED BY <2>3, <2>5, <2>9, <2>10
<1>5. Good(k)
  <2> HIDE DEF Good
  <2> QED BY <1>1, <1>4
<1> QED BY <1>2, <1>5

\* A set that an injection takes into another is no larger.
LEMMA NoLarger ==
  ASSUME NEW S, IsFiniteSet(S), NEW T, IsFiniteSet(T), NEW f \in [S -> T],
         \A x, y \in S : f[x] = f[y] => x = y
  PROVE  Cardinality(S) <= Cardinality(T)
<1>1. Cardinality(S) \in Nat /\ Cardinality(T) \in Nat
  BY FS_CardinalityType
<1>2. ASSUME Cardinality(T) < Cardinality(S) PROVE FALSE
  <2>1. \E x, y \in S : x # y /\ f[x] = f[y]
    BY <1>2, FS_PigeonHole
  <2> QED BY <2>1
<1> QED BY <1>1, <1>2

\* The image of a finite set under a function is finite and no larger.
LEMMA ImageNoLarger ==
  ASSUME NEW S, IsFiniteSet(S), NEW f, NEW T, T = {f[x] : x \in S}
  PROVE  IsFiniteSet(T) /\ Cardinality(T) <= Cardinality(S)
<1>1. IsFiniteSet(T)
  <2>1. PICK b \in Seq(S) : \A x \in S : \E i \in 1..Len(b) : b[i] = x
    BY DEF IsFiniteSet
  <2> DEFINE n == Len(b)
  <2>2. n \in Nat /\ \A i \in 1..n : b[i] \in S
    BY ListOfSeq, ElementOfSeq
  <2> DEFINE h == [i \in 1..n |-> f[b[i]]]
  <2>3. {h[j] : j \in 1..n} = T
    BY <2>1, <2>2
  <2> HIDE DEF h
  <2>4. IsFiniteSet({h[j] : j \in 1..n})
    BY <2>2, FiniteImage
  <2> QED BY <2>3, <2>4
<1> DEFINE g == [y \in T |-> CHOOSE x \in S : f[x] = y]
<1>2. \A y \in T : g[y] \in S /\ f[g[y]] = y
  OBVIOUS
<1>3. g \in [T -> S]
  BY <1>2
<1>4. \A x, y \in T : g[x] = g[y] => x = y
  BY <1>2
<1> HIDE DEF g
<1> QED BY <1>1, <1>3, <1>4, NoLarger

\* Two finite sets, each the image of the other.
LEMMA SameSize ==
  ASSUME NEW S, IsFiniteSet(S), NEW T, NEW f, T = {f[x] : x \in S},
         \A x, y \in S : f[x] = f[y] => x = y
  PROVE  IsFiniteSet(T) /\ Cardinality(T) = Cardinality(S)
<1>1. IsFiniteSet(T) /\ Cardinality(T) <= Cardinality(S)
  BY ImageNoLarger
<1> DEFINE g == [x \in S |-> f[x]]
<1>2. g \in [S -> T] /\ \A x, y \in S : g[x] = g[y] => x = y
  OBVIOUS
<1> HIDE DEF g
<1>3. Cardinality(S) <= Cardinality(T)
  BY <1>1, <1>2, NoLarger
<1>4. Cardinality(S) \in Nat /\ Cardinality(T) \in Nat
  BY <1>1, FS_CardinalityType
<1> QED BY <1>1, <1>3, <1>4

\* What can be listed, and what comes before something on the list.
Listable(fails) ==
  /\ IsFiniteSet(fails)
  /\ \A x \in fails : x.turn \in Int /\ x.rule \in Int /\ x.time \in Int
  /\ \A x, y \in fails : x.turn = y.turn /\ x.rule = y.rule => x = y
Ahead(fails, x) == {y \in fails : NewerFirst(y, x)}
PlaceOf(fails, x) == Cardinality(Ahead(fails, x)) + 1

LEMMA NewestInOrder ==
  ASSUME NEW fails, Listable(fails), NEW x \in fails, NEW y \in fails
  PROVE  /\ ~NewerFirst(x, x)
         /\ x # y => NewerFirst(x, y) \/ NewerFirst(y, x)
         /\ \A z \in fails : NewerFirst(x, y) /\ NewerFirst(y, z) => NewerFirst(x, z)
BY DEF Listable, NewerFirst

LEMMA AheadFinite ==
  ASSUME NEW fails, Listable(fails), NEW x \in fails
  PROVE  /\ IsFiniteSet(Ahead(fails, x)) /\ Cardinality(Ahead(fails, x)) \in Nat
         /\ Cardinality(fails) \in Nat /\ PlaceOf(fails, x) \in 1..Cardinality(fails)
<1>1. IsFiniteSet(fails)
  BY DEF Listable
<1>2. Ahead(fails, x) \in SUBSET (fails \ {x})
  BY NewestInOrder DEF Ahead
<1>3. IsFiniteSet(fails \ {x}) /\ Cardinality(fails \ {x}) = Cardinality(fails) - 1
  BY <1>1, FS_RemoveElement
<1>4. IsFiniteSet(Ahead(fails, x)) /\ Cardinality(Ahead(fails, x)) <= Cardinality(fails \ {x})
  BY <1>2, <1>3, FS_Subset
<1>5. Cardinality(Ahead(fails, x)) \in Nat /\ Cardinality(fails) \in Nat
  BY <1>1, <1>4, FS_CardinalityType
<1> QED BY <1>3, <1>4, <1>5 DEF PlaceOf

LEMMA PlacesDiffer ==
  ASSUME NEW fails, Listable(fails), NEW x \in fails, NEW y \in fails,
         PlaceOf(fails, x) = PlaceOf(fails, y)
  PROVE  x = y
<1>1. ASSUME NEW a \in fails, NEW b \in fails, NewerFirst(a, b) PROVE PlaceOf(fails, a) # PlaceOf(fails, b)
  <2>1. Ahead(fails, a) \in SUBSET Ahead(fails, b)
    BY <1>1, NewestInOrder DEF Ahead
  <2>2. a \in Ahead(fails, b) /\ a \notin Ahead(fails, a)
    BY <1>1, NewestInOrder DEF Ahead
  <2>3. IsFiniteSet(Ahead(fails, b))
    BY AheadFinite
  <2>4. Cardinality(Ahead(fails, a)) # Cardinality(Ahead(fails, b))
    BY <2>1, <2>2, <2>3, FS_Subset
  <2>5. Cardinality(Ahead(fails, a)) \in Nat /\ Cardinality(Ahead(fails, b)) \in Nat
    BY AheadFinite
  <2> QED BY <2>4, <2>5 DEF PlaceOf
<1> QED BY <1>1, NewestInOrder

\* Each place on the list is that of one of them.
LEMMA EveryPlaceTaken ==
  ASSUME NEW fails, Listable(fails), NEW k \in 1..Cardinality(fails)
  PROVE  \E x \in fails : PlaceOf(fails, x) = k
<1> DEFINE n == Cardinality(fails)
           others == (1..n) \ {k}
<1>1. IsFiniteSet(fails) /\ n \in Nat
  BY FS_CardinalityType DEF Listable
<1>2. IsFiniteSet(1..n) /\ Cardinality(1..n) = n
  <2> HIDE DEF n
  <2>1. IsFiniteSet(1..n) /\ Cardinality(1..n) = IF 1 > n THEN 0 ELSE n - 1 + 1
    BY <1>1, FS_Interval
  <2> QED BY <1>1, <2>1
<1>3. IsFiniteSet(others) /\ Cardinality(others) = n - 1
  <2> HIDE DEF n
  <2>1. k \in 1..n
    BY DEF n
  <2>2. IsFiniteSet(others) /\ Cardinality(others) = Cardinality(1..n) - 1
    BY <1>2, <2>1, FS_RemoveElement
  <2> QED BY <1>2, <2>2
<1>4. ASSUME ~\E x \in fails : PlaceOf(fails, x) = k PROVE FALSE
  <2> DEFINE f == [x \in fails |-> PlaceOf(fails, x)]
  <2>1. \A x \in fails : PlaceOf(fails, x) \in others
    BY <1>4, AheadFinite
  <2>2. f \in [fails -> others] /\ \A x, y \in fails : f[x] = f[y] => x = y
    <3>1. f \in [fails -> others]
      BY <2>1
    <3>2. \A x, y \in fails : f[x] = f[y] => x = y
      BY PlacesDiffer
    <3> QED BY <3>1, <3>2
  <2> HIDE DEF f, others
  <2>3. Cardinality(fails) <= Cardinality(others)
    BY <1>1, <1>3, <2>2, NoLarger
  <2> HIDE DEF n
  <2>4. n <= n - 1
    BY <1>3, <2>3 DEF n
  <2> QED BY <1>1, <2>4
<1> QED BY <1>4

\* The FAILs listed: as many as wait but the limit, each at its place.
Shown(items, fails) ==
  /\ Len(items) = Min({ListLimit, Cardinality(fails)}) /\ DOMAIN items = 1..Len(items)
  /\ Len(items) \in Nat
  /\ \A k \in DOMAIN items : items[k] \in fails /\ PlaceOf(fails, items[k]) = k

LEMMA SmallerOfTwo ==
  ASSUME NEW a \in Int, NEW b \in Int
  PROVE  Min({a, b}) = IF a <= b THEN a ELSE b
<1> DEFINE smaller == IF a <= b THEN a ELSE b
<1>1. smaller \in {a, b} /\ \A j \in {a, b} : smaller <= j
  OBVIOUS
<1>2. \A i \in {a, b} : (\A j \in {a, b} : i <= j) => i = smaller
  OBVIOUS
<1>3. Min({a, b}) = CHOOSE i \in {a, b} : \A j \in {a, b} : i <= j
  BY DEF Min
<1> HIDE DEF smaller
<1> QED BY <1>1, <1>2, <1>3 DEF smaller

LEMMA ListOfFunction ==
  ASSUME NEW S, NEW n \in Nat, NEW s \in [1..n -> S]
  PROVE  s \in Seq(S) /\ Len(s) = n
<1>1. s \in Seq(S)
  BY SeqDef
<1>2. DOMAIN s = 1..n /\ DOMAIN s = 1..Len(s) /\ Len(s) \in Nat
  BY <1>1, ListOfSeq
<1> QED BY <1>1, <1>2

LEMMA ListingShows ==
  ASSUME NEW fails, Listable(fails), NEW sorted,
         sorted = [k \in 1..Cardinality(fails) |-> CHOOSE x \in fails : PlaceOf(fails, x) = k]
  PROVE  /\ Len(sorted) = Cardinality(fails) /\ Len(sorted) \in Nat
         /\ Shown(SubSeq(sorted, 1, Min({ListLimit, Len(sorted)})), fails)
<1> DEFINE n == Cardinality(fails)
           top == Min({ListLimit, n})
<1>1. n \in Nat
  BY FS_CardinalityType DEF Listable
<1>2. \A k \in 1..n : sorted[k] \in fails /\ PlaceOf(fails, sorted[k]) = k
  BY EveryPlaceTaken
<1> HIDE DEF n
<1>3. sorted \in [1..n -> fails]
  BY <1>2 DEF n
<1>4. sorted \in Seq(fails) /\ Len(sorted) = n
  BY <1>1, <1>3, ListOfFunction
<1>5. top \in Nat /\ top <= n
  BY <1>1, SmallerOfTwo, ListLimitAssumption
<1> HIDE DEF top
<1> DEFINE items == SubSeq(sorted, 1, top)
<1>6. items \in Seq(fails) /\ Len(items) = top /\ \A k \in 1..top : items[k] = sorted[k]
  <2>1. \A i \in 1..top : sorted[i] \in fails
    BY <1>1, <1>2, <1>5
  <2>2. top \in Int /\ 1 \in Int /\ 1 <= top + 1
    BY <1>5
  <2>3. /\ items \in Seq(fails) /\ Len(items) = top - 1 + 1
        /\ \A k \in 1..(top - 1 + 1) : items[k] = sorted[1 + k - 1]
    BY <2>1, <2>2, SubSeqOf
  <2> HIDE DEF items
  <2>4. top - 1 + 1 = top
    BY <2>2
  <2>5. ASSUME NEW k \in 1..top PROVE items[k] = sorted[k]
    <3>1. 1 + k - 1 = k /\ k \in 1..(top - 1 + 1)
      BY <2>2, <2>4
    <3>2. items[k] = sorted[1 + k - 1]
      BY <2>3, <3>1
    <3> QED BY <3>1, <3>2
  <2> QED BY <2>3, <2>4, <2>5
<1> HIDE DEF items
<1>7. DOMAIN items = 1..top
  BY <1>6, ListOfSeq
<1>8. \A k \in 1..top : k \in 1..n
  BY <1>1, <1>5
<1>9. Shown(items, fails)
  BY <1>2, <1>5, <1>6, <1>7, <1>8 DEF Shown, top, n
<1> QED BY <1>1, <1>4, <1>9 DEF items, top, n

TripleOf(fail) == <<fail.turn, fail.rule, fail.time>>
Answered(answers) == {IdentityOf(answers[a]) : a \in DOMAIN answers}
PendingOf(fails, answers) == {fails[key] : key \in DOMAIN fails \ Answered(answers)}
WaitingOf(seen, answered) ==
  {x \in seen : /\ <<x[1], x[2]>> \notin answered
                /\ \A y \in seen : y[1] = x[1] /\ y[2] = x[2] => y[3] <= x[3]}

LEMMA FailNumbers ==
  ASSUME NEW records, AreReviews(records), NEW x \in FailsUpto(records, Len(records))
  PROVE  x[1] \in Int /\ x[2] \in Int /\ x[3] \in Int
<1>1. PICK i \in 1..Len(records) : x \in FailsIn(records[i], Len(records[i].results))
  BY DEF FailsUpto
<1> DEFINE record == records[i]
<1>2. IsReview(record) /\ DOMAIN record.results = 1..Len(record.results)
  <2>1. IsReview(record)
    BY ListOfSeq DEF AreReviews, IsList
  <2> QED BY <2>1, ListOfSeq DEF IsReview, IsList
<1> HIDE DEF record
<1>3. PICK j \in 1..Len(record.results) : x = FailOf(record, j)
  BY <1>1 DEF FailsIn, FailPlaces, record
<1> QED BY <1>2, <1>3 DEF IsReview, FailOf

\* A FAIL of the map, by its key.
LEMMA FailByKey ==
  ASSUME NEW fails, NEW seen, Collected(fails, seen), NEW key \in DOMAIN fails
  PROVE  /\ key = <<key[1], key[2]>>
         /\ fails[key].turn = key[1] /\ fails[key].rule = key[2]
         /\ TripleOf(fails[key]) \in seen
         /\ \A x \in seen : x[1] = key[1] /\ x[2] = key[2] => x[3] <= fails[key].time
<1>1. PICK x \in seen : key = Identity(x[1], x[2])
  BY DEF Collected
<1>2. KeepsNewest(fails, seen, key)
  BY DEF Collected
<1> DEFINE time == fails[key].time
<1>3. fails[key] = [turn |-> key[1], rule |-> key[2], time |-> time]
  BY <1>2 DEF KeepsNewest
<1>4. fails[key].turn = key[1] /\ fails[key].rule = key[2]
  <2> HIDE DEF time
  <2> QED BY <1>3
<1> QED BY <1>1, <1>2, <1>4 DEF Identity, KeepsNewest, TripleOf

LEMMA PendingListable ==
  ASSUME NEW records, AreReviews(records), NEW answers
  PROVE  Listable(PendingOf(CollectRuleFails(records), answers))
<1> DEFINE fails == CollectRuleFails(records)
           seen == FailsUpto(records, Len(records))
           keys == DOMAIN fails \ Answered(answers)
           pending == PendingOf(fails, answers)
<1>1. Collected(fails, seen)
  BY RuleFailsCollected
<1> HIDE DEF fails
<1>2. IsFiniteSet(keys)
  <2>1. IsFiniteSet(DOMAIN fails)
    BY <1>1 DEF Collected
  <2> QED BY <2>1, FS_Difference
<1>3. pending = {fails[key] : key \in keys}
  BY DEF PendingOf
<1>4. IsFiniteSet(pending)
  <2> HIDE DEF keys, pending
  <2> QED BY <1>2, <1>3, ImageNoLarger
<1>5. ASSUME NEW x \in pending
      PROVE  /\ x.turn \in Int /\ x.rule \in Int /\ x.time \in Int
             /\ \E key \in keys : x = fails[key] /\ key = <<x.turn, x.rule>>
  <2>1. PICK key \in keys : x = fails[key]
    BY <1>3
  <2>2. /\ key = <<key[1], key[2]>> /\ x.turn = key[1] /\ x.rule = key[2]
        /\ TripleOf(x) \in seen
    <3>1. key \in DOMAIN fails
      OBVIOUS
    <3> HIDE DEF seen
    <3> QED BY <1>1, <2>1, <3>1, FailByKey
  <2>3. x.turn \in Int /\ x.rule \in Int /\ x.time \in Int
    <3> DEFINE triple == TripleOf(x)
    <3>1. triple[1] \in Int /\ triple[2] \in Int /\ triple[3] \in Int
      <4>1. triple \in FailsUpto(records, Len(records))
        BY <2>2
      <4> HIDE DEF triple
      <4> QED BY <4>1, FailNumbers
    <3>2. triple[1] = x.turn /\ triple[2] = x.rule /\ triple[3] = x.time
      BY DEF TripleOf
    <3> QED BY <3>1, <3>2
  <2> QED BY <2>1, <2>2, <2>3
<1>6. \A x, y \in pending : x.turn = y.turn /\ x.rule = y.rule => x = y
  <2> SUFFICES ASSUME NEW x \in pending, NEW y \in pending, x.turn = y.turn, x.rule = y.rule PROVE x = y
    OBVIOUS
  <2>1. PICK k \in keys : x = fails[k] /\ k = <<x.turn, x.rule>>
    BY <1>5
  <2>2. PICK l \in keys : y = fails[l] /\ l = <<y.turn, y.rule>>
    BY <1>5
  <2> QED BY <2>1, <2>2
<1> HIDE DEF pending
<1>7. Listable(pending)
  BY <1>4, <1>5, <1>6 DEF Listable
<1> QED BY <1>7 DEF pending, fails

\* What waits for an answer, by the records and by the map.
LEMMA WaitingIsPending ==
  ASSUME NEW fails, NEW seen, Collected(fails, seen), Triples(seen), NEW answers
  PROVE  /\ WaitingOf(seen, Answered(answers)) =
              {TripleOf(fails[key]) : key \in DOMAIN fails \ Answered(answers)}
         /\ WaitingOf(seen, Answered(answers)) = {TripleOf(x) : x \in PendingOf(fails, answers)}
<1> DEFINE answered == Answered(answers)
           keys == DOMAIN fails \ answered
           waiting == WaitingOf(seen, answered)
<1> HIDE DEF answered
<1>1. ASSUME NEW x \in waiting PROVE \E key \in keys : x = TripleOf(fails[key])
  <2> DEFINE key == Identity(x[1], x[2])
  <2>1. /\ x \in seen /\ <<x[1], x[2]>> \notin answered
        /\ \A y \in seen : y[1] = x[1] /\ y[2] = x[2] => y[3] <= x[3]
    BY DEF WaitingOf
  <2>2. key \in DOMAIN fails
    BY <2>1 DEF Collected
  <2>3. key \notin answered /\ key[1] = x[1] /\ key[2] = x[2]
    BY <2>1 DEF Identity
  <2> HIDE DEF key
  <2>4. /\ fails[key].turn = key[1] /\ fails[key].rule = key[2] /\ TripleOf(fails[key]) \in seen
        /\ \A y \in seen : y[1] = key[1] /\ y[2] = key[2] => y[3] <= fails[key].time
    BY <2>2, FailByKey
  <2> DEFINE fail == fails[key]
             triple == TripleOf(fail)
  <2>5. triple[1] = x[1] /\ triple[2] = x[2] /\ triple[3] = fail.time
    BY <2>3, <2>4 DEF TripleOf
  <2>6. x[3] <= fail.time /\ fail.time <= x[3] /\ x[3] \in Int /\ fail.time \in Int
    <3>1. triple[3] <= x[3] /\ x[3] <= fail.time
      BY <2>1, <2>3, <2>4, <2>5
    <3>2. triple[3] \in Int /\ x[3] \in Int
      BY <2>1, <2>4 DEF Triples
    <3> QED BY <2>5, <3>1, <3>2
  <2>7. x = <<x[1], x[2], x[3]>> /\ triple = <<triple[1], triple[2], triple[3]>>
    BY <2>1, <2>4 DEF Triples
  <2>8. x[3] = triple[3]
    <3> HIDE DEF triple
    <3> QED BY <2>5, <2>6
  <2>9. x = triple
    <3> HIDE DEF triple
    <3> QED BY <2>5, <2>7, <2>8
  <2> QED BY <2>2, <2>3, <2>9
<1>2. ASSUME NEW key \in keys PROVE TripleOf(fails[key]) \in waiting
  <2> DEFINE fail == fails[key]
             triple == TripleOf(fail)
  <2>1. /\ key = <<key[1], key[2]>> /\ fail.turn = key[1] /\ fail.rule = key[2] /\ triple \in seen
        /\ \A y \in seen : y[1] = key[1] /\ y[2] = key[2] => y[3] <= fail.time
    BY FailByKey
  <2>2. triple[1] = key[1] /\ triple[2] = key[2] /\ triple[3] = fail.time
    BY <2>1 DEF TripleOf
  <2> HIDE DEF triple, fail
  <2>3. <<triple[1], triple[2]>> \notin answered
    BY <2>1, <2>2
  <2>4. \A y \in seen : y[1] = triple[1] /\ y[2] = triple[2] => y[3] <= triple[3]
    BY <2>1, <2>2
  <2>5. triple \in waiting
    BY <2>1, <2>3, <2>4 DEF WaitingOf
  <2> QED BY <2>5 DEF triple, fail
<1>3. waiting = {TripleOf(fails[key]) : key \in keys}
  <2> HIDE DEF waiting, keys
  <2> QED BY <1>1, <1>2
<1>4. {TripleOf(fails[key]) : key \in keys} = {TripleOf(x) : x \in PendingOf(fails, answers)}
  BY DEF PendingOf, answered
<1> QED BY <1>3, <1>4 DEF answered

\* The listing, against what the records say.
ListingTells(listing, waiting) ==
  /\ listing.total = Cardinality(waiting)
  /\ Len(listing.items) = Min({ListLimit, listing.total})
  /\ \A k \in DOMAIN listing.items :
       LET item == listing.items[k]
       IN  /\ <<item.turn, item.rule, item.time>> \in waiting
           /\ Cardinality({x \in waiting : x[3] > item.time}) < k

LEMMA AnsweredDomain ==
  ASSUME NEW answers
  PROVE  DOMAIN LatestDecisions(answers) = Answered(answers)
BY DEF LatestDecisions, Answered

LEMMA ListedPending ==
  ASSUME NEW records, NEW answers, AreReviews(records)
  PROVE  LET listing == ListPendingFails(records, answers)
             pending == PendingOf(CollectRuleFails(records), answers)
         IN  /\ listing.total = Cardinality(pending) /\ Shown(listing.items, pending)
<1> DEFINE pending == PendingOf(CollectRuleFails(records), answers)
           fails == CollectRuleFails(records)
           waiting == {fails[key] : key \in DOMAIN fails \ DOMAIN LatestDecisions(answers)}
           sorted == [k \in 1..Cardinality(waiting) |-> CHOOSE x \in waiting : PlaceOf(waiting, x) = k]
           items == SubSeq(sorted, 1, Min({ListLimit, Len(sorted)}))
           listing == ListPendingFails(records, answers)
<1>1. Listable(pending)
  BY PendingListable
<1>2. waiting = pending
  BY AnsweredDomain DEF PendingOf
<1>3. listing = [items |-> items, total |-> Len(sorted)]
  BY Zenon DEF ListPendingFails, PlaceOf, Ahead
<1>4. listing.items = items /\ listing.total = Len(sorted)
  <2> HIDE DEF items, sorted, listing
  <2> QED BY <1>3
<1>5. Len(sorted) = Cardinality(waiting) /\ Shown(items, waiting)
  <2> DEFINE made == sorted
  <2>1. made = [k \in 1..Cardinality(waiting) |-> CHOOSE x \in waiting : PlaceOf(waiting, x) = k]
    OBVIOUS
  <2>2. Listable(waiting)
    <3> HIDE DEF waiting, pending
    <3> QED BY <1>1, <1>2
  <2> HIDE DEF made, waiting
  <2>3. Len(made) = Cardinality(waiting) /\ Shown(SubSeq(made, 1, Min({ListLimit, Len(made)})), waiting)
    BY <2>1, <2>2, ListingShows
  <2> QED BY <2>3 DEF made
<1> HIDE DEF sorted, items, waiting, pending, listing
<1>6. listing.total = Cardinality(pending) /\ Shown(listing.items, pending)
  BY <1>2, <1>4, <1>5
<1> QED BY <1>6 DEF listing, pending

LEMMA ListingTold ==
  ASSUME NEW records, NEW answers, AreReviews(records)
  PROVE  ListingTells(ListPendingFails(records, answers),
                      WaitingOf(FailsUpto(records, Len(records)), Answered(answers)))
<1> DEFINE fails == CollectRuleFails(records)
           seen == FailsUpto(records, Len(records))
           pending == PendingOf(fails, answers)
           waiting == WaitingOf(seen, Answered(answers))
           listing == ListPendingFails(records, answers)
           items == listing.items
<1>1. listing.total = Cardinality(pending) /\ Shown(items, pending)
  BY ListedPending
<1>2. Collected(fails, seen) /\ Triples(seen)
  BY RuleFailsCollected
<1>3. waiting = {TripleOf(x) : x \in pending}
  <2> HIDE DEF fails, seen
  <2> QED BY <1>2, WaitingIsPending
<1>4. Listable(pending)
  BY PendingListable
<1> HIDE DEF pending, waiting, listing, items
<1>5. IsFiniteSet(pending) /\ \A x, y \in pending : TripleOf(x) = TripleOf(y) => x = y
  BY <1>4 DEF Listable, TripleOf
<1>6. IsFiniteSet(waiting) /\ Cardinality(waiting) = Cardinality(pending)
  <2> DEFINE f == [x \in pending |-> TripleOf(x)]
  <2>1. waiting = {f[x] : x \in pending} /\ \A x, y \in pending : f[x] = f[y] => x = y
    BY <1>3, <1>5
  <2> HIDE DEF f
  <2> QED BY <1>5, <2>1, SameSize
<1>7. Len(items) = Min({ListLimit, listing.total})
  BY <1>1 DEF Shown
<1>8. ASSUME NEW k \in DOMAIN items
      PROVE  /\ <<items[k].turn, items[k].rule, items[k].time>> \in waiting
             /\ Cardinality({x \in waiting : x[3] > items[k].time}) < k
  <2> DEFINE item == items[k]
             newer == {x \in waiting : x[3] > item.time}
             ahead == {x \in pending : x.time > item.time}
  <2>1. item \in pending /\ PlaceOf(pending, item) = k
    BY <1>1 DEF Shown
  <2> HIDE DEF item
  <2>2. TripleOf(item) \in waiting
    BY <1>3, <2>1
  <2>3. ahead \in SUBSET Ahead(pending, item)
    BY DEF Ahead, NewerFirst
  <2>4. /\ IsFiniteSet(Ahead(pending, item)) /\ Cardinality(Ahead(pending, item)) \in Nat
        /\ Cardinality(Ahead(pending, item)) + 1 = k
    BY <1>4, <2>1, AheadFinite DEF PlaceOf
  <2>5. newer = {TripleOf(x) : x \in ahead}
    <3>1. \A x : TripleOf(x)[3] = x.time
      BY DEF TripleOf
    <3> QED BY <1>3, <3>1
  <2> HIDE DEF newer, ahead
  <2>6. IsFiniteSet(ahead) /\ Cardinality(ahead) <= Cardinality(Ahead(pending, item))
    BY <2>3, <2>4, FS_Subset
  <2>7. IsFiniteSet(newer) /\ Cardinality(newer) <= Cardinality(ahead)
    <3> DEFINE f == [x \in ahead |-> TripleOf(x)]
    <3>1. newer = {f[x] : x \in ahead}
      BY <2>5
    <3> HIDE DEF f
    <3> QED BY <2>6, <3>1, ImageNoLarger
  <2>8. Cardinality(newer) \in Nat /\ Cardinality(ahead) \in Nat
    BY <2>6, <2>7, FS_CardinalityType
  <2>9. Cardinality(newer) < k
    BY <2>4, <2>6, <2>7, <2>8
  <2> QED BY <2>2, <2>9 DEF TripleOf, item, newer
<1>9. listing.total = Cardinality(waiting)
  BY <1>1, <1>6
<1>10. \A k \in DOMAIN items :
         LET item == items[k]
         IN  /\ <<item.turn, item.rule, item.time>> \in waiting
             /\ Cardinality({x \in waiting : x[3] > item.time}) < k
  BY <1>8
<1>11. ListingTells(listing, waiting)
  BY <1>7, <1>9, <1>10 DEF ListingTells, items
<1> QED BY <1>11 DEF listing, waiting

IsAnswer(answer) == answer.decision \in {"RIGHT", "WRONG"}
AreAnswers(answers) == IsList(answers) /\ \A a \in DOMAIN answers : IsAnswer(answers[a])

\* A non-empty set of places in a list has a last one.
LEMMA LastOfPlaces ==
  ASSUME NEW n \in Nat, NEW places \in SUBSET (1..n), places # {}
  PROVE  Max(places) \in places /\ \A p \in places : p <= Max(places)
<1> DEFINE left == {n - p : p \in places}
<1>1. left \in SUBSET Nat /\ left # {}
  <2>1. \A p \in places : n - p \in Nat
    OBVIOUS
  <2>2. left \subseteq Nat
    BY <2>1
  <2>3. left # {}
    OBVIOUS
  <2> QED BY <2>2, <2>3
<1>2. PICK m \in left : \A k \in left : m <= k
  <2> HIDE DEF left
  <2> QED BY <1>1, LeastNumber
<1>3. PICK last \in places : m = n - last
  BY <1>2
<1>4. \A p \in places : p <= last
  <2>1. ASSUME NEW p \in places PROVE p <= last
    <3>1. n - last <= n - p
      BY <1>2, <1>3
    <3>2. p \in Int /\ last \in Int
      OBVIOUS
    <3> QED BY <3>1, <3>2
  <2> QED BY <2>1
<1>5. Max(places) = CHOOSE x \in places : \A p \in places : x >= p
  BY DEF Max
<1>6. \A p \in places : last >= p
  BY <1>4
<1>7. Max(places) \in places /\ \A p \in places : Max(places) >= p
  BY <1>3, <1>5, <1>6
<1> QED BY <1>7

LEMMA DecisionIsAnswer ==
  ASSUME NEW answers, AreAnswers(answers), NEW key \in Answered(answers)
  PROVE  LatestDecisions(answers)[key] \in {"RIGHT", "WRONG"}
<1> DEFINE about == {i \in DOMAIN answers : IdentityOf(answers[i]) = key}
           last == Max(about)
<1>1. Len(answers) \in Nat /\ DOMAIN answers = 1..Len(answers)
  BY ListOfSeq DEF AreAnswers, IsList
<1>2. about \in SUBSET (1..Len(answers)) /\ about # {}
  BY <1>1 DEF Answered
<1>3. last \in about
  <2> HIDE DEF about
  <2> QED BY <1>1, <1>2, LastOfPlaces
<1>4. LatestDecisions(answers)[key] = answers[last].decision
  BY DEF LatestDecisions, Answered
<1>5. last \in DOMAIN answers
  BY <1>3
<1> HIDE DEF last
<1> QED BY <1>4, <1>5 DEF AreAnswers, IsAnswer

KeysOf(fails, rule) == {key \in DOMAIN fails : key[2] = rule}

\* A rule's FAILs are right, wrong or unanswered.
LEMMA CalibrationAddsUp ==
  ASSUME NEW records, AreReviews(records), NEW answers, AreAnswers(answers), NEW rule
  PROVE  LET keys == KeysOf(CollectRuleFails(records), rule)
             c == Calibrate(rule, records, answers)
         IN  /\ IsFiniteSet(keys)
             /\ c.right + c.wrong + c.unanswered = Cardinality(keys)
             /\ c.unanswered = Cardinality(keys \ Answered(answers))
<1> DEFINE fails == CollectRuleFails(records)
           keys == KeysOf(fails, rule)
           decisions == LatestDecisions(answers)
           answered == keys \cap DOMAIN decisions
           right == {key \in answered : decisions[key] = "RIGHT"}
           wrong == {key \in answered : decisions[key] = "WRONG"}
           c == Calibrate(rule, records, answers)
<1>1. c.right = Cardinality(right) /\ c.wrong = Cardinality(wrong) /\ c.unanswered = Cardinality(keys \ answered)
  BY DEF Calibrate, KeysOf
<1>2. IsFiniteSet(keys)
  <2>1. Collected(fails, FailsUpto(records, Len(records)))
    BY RuleFailsCollected
  <2>2. IsFiniteSet(DOMAIN fails) /\ keys \in SUBSET DOMAIN fails
    BY <2>1 DEF Collected, KeysOf
  <2> HIDE DEF keys
  <2> QED BY <2>2, FS_Subset
<1>3. answered \in SUBSET keys
  OBVIOUS
<1>4. right \cup wrong = answered /\ right \cap wrong = {}
  <2>1. \A key \in answered : decisions[key] \in {"RIGHT", "WRONG"}
    BY AnsweredDomain, DecisionIsAnswer
  <2> HIDE DEF decisions, answered
  <2> QED BY <2>1
<1>5. keys \ answered = keys \ Answered(answers)
  BY AnsweredDomain
<1>6. right \in SUBSET keys /\ wrong \in SUBSET keys
  OBVIOUS
<1> HIDE DEF right, wrong, answered, keys, c
<1>7. IsFiniteSet(right) /\ IsFiniteSet(wrong) /\ IsFiniteSet(answered)
  BY <1>2, <1>3, <1>6, FS_Subset
<1>8. Cardinality(answered) = Cardinality(right) + Cardinality(wrong) - Cardinality(right \cap wrong)
  BY <1>4, <1>7, FS_Union
<1>9. Cardinality(right \cap wrong) = 0
  BY <1>4, FS_EmptySet
<1>10. Cardinality(keys \ answered) = Cardinality(keys) - Cardinality(keys \cap answered)
  BY <1>2, FS_Difference
<1>11. keys \cap answered = answered
  BY <1>3
<1>12. /\ Cardinality(keys) \in Nat /\ Cardinality(answered) \in Nat
       /\ Cardinality(right) \in Nat /\ Cardinality(wrong) \in Nat
  BY <1>2, <1>7, FS_CardinalityType
<1>13. /\ Cardinality(right) + Cardinality(wrong) = Cardinality(answered)
       /\ Cardinality(keys \ answered) = Cardinality(keys) - Cardinality(answered)
  <2>1. Cardinality(keys \cap answered) = Cardinality(answered)
    BY <1>11
  <2>2. Cardinality(keys \ answered) = Cardinality(keys) - Cardinality(answered)
    BY <1>10, <2>1
  <2>3. Cardinality(answered) = Cardinality(right) + Cardinality(wrong) - 0
    BY <1>8, <1>9
  <2> QED BY <1>12, <2>2, <2>3
<1>14. c.right + c.wrong + c.unanswered = Cardinality(keys)
  <2> DEFINE r == Cardinality(right)
             w == Cardinality(wrong)
             a == Cardinality(answered)
             k == Cardinality(keys)
  <2>1. c.right = r /\ c.wrong = w /\ c.unanswered = k - a
    BY <1>1, <1>13
  <2>2. r \in Nat /\ w \in Nat /\ a \in Nat /\ k \in Nat /\ r + w = a
    BY <1>12, <1>13
  <2> HIDE DEF r, w, a, k
  <2>3. c.right + c.wrong + c.unanswered = k
    BY <2>1, <2>2
  <2> QED BY <2>3 DEF k
<1>15. c.unanswered = Cardinality(keys \ Answered(answers))
  BY <1>1, <1>5
<1> QED BY <1>2, <1>14, <1>15 DEF keys, c

\* The turns a rule failed in, and its FAILs that wait, are as many as its keys.
TurnsOf(seen, rule) == {x[1] : x \in {y \in seen : y[2] = rule}}

LEMMA KeysAreTurns ==
  ASSUME NEW fails, NEW seen, Collected(fails, seen), NEW rule, IsFiniteSet(KeysOf(fails, rule))
  PROVE  Cardinality(TurnsOf(seen, rule)) = Cardinality(KeysOf(fails, rule))
<1> DEFINE keys == KeysOf(fails, rule)
           turns == TurnsOf(seen, rule)
           f == [key \in keys |-> key[1]]
<1>1. \A key \in keys : key \in DOMAIN fails /\ key[2] = rule /\ key = <<key[1], rule>>
  BY FailByKey DEF KeysOf
<1>2. \A turn : turn \in turns <=> \E x \in seen : x[2] = rule /\ x[1] = turn
  BY DEF TurnsOf
<1>3. \A key : key \in keys <=> \E x \in seen : x[2] = rule /\ key = Identity(x[1], x[2])
  <2>1. \A x : Identity(x[1], x[2])[2] = x[2]
    BY DEF Identity
  <2>2. DOMAIN fails = {Identity(x[1], x[2]) : x \in seen}
    BY DEF Collected
  <2> QED BY <2>1, <2>2 DEF KeysOf
<1> HIDE DEF keys, turns
<1>4. turns = {f[key] : key \in keys}
  <2>1. ASSUME NEW turn \in turns PROVE \E key \in keys : turn = f[key]
    <3>1. PICK x \in seen : x[2] = rule /\ x[1] = turn
      BY <1>2
    <3>2. Identity(x[1], x[2]) \in keys
      BY <1>3, <3>1
    <3> QED BY <3>1, <3>2 DEF Identity
  <2>2. ASSUME NEW key \in keys PROVE f[key] \in turns
    <3>1. PICK x \in seen : x[2] = rule /\ key = Identity(x[1], x[2])
      BY <1>3
    <3>2. key[1] = x[1]
      BY <3>1 DEF Identity
    <3> QED BY <1>2, <3>1, <3>2
  <2> HIDE DEF f
  <2> QED BY <2>1, <2>2
<1>5. \A k, l \in keys : f[k] = f[l] => k = l
  BY <1>1
<1>6. IsFiniteSet(keys)
  BY DEF keys
<1> HIDE DEF f
<1>7. Cardinality(turns) = Cardinality(keys)
  BY <1>4, <1>5, <1>6, SameSize
<1> QED BY <1>7 DEF keys, turns

LEMMA KeysAreWaiting ==
  ASSUME NEW fails, NEW seen, Collected(fails, seen), Triples(seen), NEW answers,
         NEW rule, IsFiniteSet(KeysOf(fails, rule))
  PROVE  Cardinality({x \in WaitingOf(seen, Answered(answers)) : x[2] = rule})
           = Cardinality(KeysOf(fails, rule) \ Answered(answers))
<1> DEFINE all == DOMAIN fails \ Answered(answers)
           keys == KeysOf(fails, rule) \ Answered(answers)
           waiting == WaitingOf(seen, Answered(answers))
           own == {x \in waiting : x[2] = rule}
           f == [key \in keys |-> TripleOf(fails[key])]
<1>1. waiting = {TripleOf(fails[key]) : key \in all}
  BY WaitingIsPending
<1>2. \A key \in all : /\ key = <<key[1], key[2]>>
                       /\ TripleOf(fails[key])[1] = key[1] /\ TripleOf(fails[key])[2] = key[2]
  BY FailByKey DEF TripleOf
<1>3. keys = {key \in all : key[2] = rule}
  BY DEF KeysOf
<1> HIDE DEF all, keys, waiting
<1>4. own = {f[key] : key \in keys}
  <2>1. own = {TripleOf(fails[key]) : key \in keys}
    BY <1>1, <1>2, <1>3
  <2> QED BY <2>1
<1>5. \A k, l \in keys : f[k] = f[l] => k = l
  <2> SUFFICES ASSUME NEW k \in keys, NEW l \in keys, f[k] = f[l] PROVE k = l
    OBVIOUS
  <2>1. TripleOf(fails[k]) = TripleOf(fails[l])
    OBVIOUS
  <2>2. k[1] = l[1] /\ k[2] = l[2] /\ k = <<k[1], k[2]>> /\ l = <<l[1], l[2]>>
    BY <1>2, <1>3, <2>1
  <2> QED BY <2>2
<1>6. IsFiniteSet(keys)
  BY FS_Difference DEF keys
<1> HIDE DEF f, own
<1>7. Cardinality(own) = Cardinality(keys)
  BY <1>4, <1>5, <1>6, SameSize
<1> QED BY <1>7 DEF own, keys, waiting

\* The results of a history, and how many of them are a rule's FAILs.
LEMMA ResultsFinite ==
  ASSUME NEW records, AreReviews(records)
  PROVE  IsFiniteSet(ResultsOf(records))
<1> DEFINE n == Len(records)
           own == [i \in 1..n |-> {i} \X DOMAIN records[i].results]
<1>1. n \in Nat /\ DOMAIN records = 1..n /\ \A i \in 1..n : IsReview(records[i])
  BY ListOfSeq DEF AreReviews, IsList
<1>2. ASSUME NEW i \in 1..n PROVE IsFiniteSet(own[i])
  <2> DEFINE results == records[i].results
  <2>1. IsReview(records[i])
    BY <1>1
  <2>2. Len(results) \in Nat /\ DOMAIN results = 1..Len(results)
    BY <2>1, ListOfSeq DEF IsReview, IsList
  <2> HIDE DEF results
  <2>3. IsFiniteSet(DOMAIN results)
    BY <2>2, FS_Interval
  <2>4. IsFiniteSet({i})
    BY FS_Singleton
  <2>5. IsFiniteSet({i} \X DOMAIN results)
    BY <2>3, <2>4, FS_Product
  <2> QED BY <2>5 DEF results
<1>3. ResultsOf(records) = UNION {own[i] : i \in 1..n}
  BY <1>1 DEF ResultsOf
<1> HIDE DEF own, n
<1>4. IsFiniteSet({own[i] : i \in 1..n})
  BY <1>1, FiniteImage
<1>5. \A T \in {own[i] : i \in 1..n} : IsFiniteSet(T)
  BY <1>2
<1> DEFINE parts == {own[i] : i \in 1..n}
<1> HIDE DEF parts
<1>6. IsFiniteSet(UNION parts)
  BY <1>4, <1>5, FS_UNION DEF parts
<1> QED BY <1>3, <1>6 DEF parts

PlacesOf(records, rule) == {p \in ResultsOfKind(records, "RULE") : ResultAt(records, p).id = rule}

LEMMA FailsCounted ==
  ASSUME NEW records, AreReviews(records), NEW rule
  PROVE  Cardinality(TurnsOf(FailsUpto(records, Len(records)), rule))
           <= OutcomeCounts(records, PlacesOf(records, rule))["FAIL"]
<1> DEFINE seen == FailsUpto(records, Len(records))
           failed == {p \in PlacesOf(records, rule) : ResultAt(records, p).outcome = "FAIL"}
           turns == TurnsOf(seen, rule)
           f == [p \in failed |-> records[p[1]].turn]
           some == {p \in failed : f[p] \in turns}
<1>1. /\ Len(records) \in Nat /\ DOMAIN records = 1..Len(records)
      /\ \A i \in 1..Len(records) : IsReview(records[i])
  BY ListOfSeq DEF AreReviews, IsList
<1>2. OutcomeCounts(records, PlacesOf(records, rule))["FAIL"] = Cardinality(failed)
  BY DEF OutcomeCounts, Outcomes
<1>3. IsFiniteSet(failed)
  <2>1. failed \in SUBSET ResultsOf(records)
    BY DEF PlacesOf, ResultsOfKind
  <2> HIDE DEF failed
  <2> QED BY <2>1, ResultsFinite, FS_Subset
<1>4. ASSUME NEW turn \in turns PROVE \E p \in failed : f[p] = turn
  <2>1. PICK x \in seen : x[2] = rule /\ x[1] = turn
    BY DEF TurnsOf
  <2>2. PICK i \in 1..Len(records) : x \in FailsIn(records[i], Len(records[i].results))
    BY DEF FailsUpto
  <2> DEFINE results == records[i].results
  <2>3. PICK j \in 1..Len(results) : IsRuleFail(results[j]) /\ x = FailOf(records[i], j)
    BY <2>2 DEF FailsIn, FailPlaces
  <2>4. DOMAIN results = 1..Len(results)
    <3>1. IsReview(records[i])
      BY <1>1
    <3> QED BY <3>1, ListOfSeq DEF IsReview, IsList
  <2> DEFINE p == <<i, j>>
  <2>5. p \in ResultsOf(records) /\ ResultAt(records, p) = results[j]
    <3>1. i \in DOMAIN records /\ j \in DOMAIN records[i].results
      BY <1>1, <2>4
    <3> QED BY <3>1 DEF ResultsOf, ResultAt
  <2>6. p \in failed
    BY <2>1, <2>3, <2>5 DEF PlacesOf, ResultsOfKind, IsRuleFail, FailOf
  <2>7. f[p] = turn
    BY <2>1, <2>3, <2>6 DEF FailOf
  <2> QED BY <2>6, <2>7
<1> HIDE DEF failed, turns, f
<1>5. IsFiniteSet(some) /\ Cardinality(some) <= Cardinality(failed)
  <2>1. some \in SUBSET failed
    OBVIOUS
  <2> HIDE DEF some
  <2> QED BY <1>3, <2>1, FS_Subset
<1>6. turns = {f[p] : p \in some}
  BY <1>4
<1> HIDE DEF some
<1>7. IsFiniteSet(turns) /\ Cardinality(turns) <= Cardinality(some)
  BY <1>5, <1>6, ImageNoLarger
<1>8. Cardinality(turns) \in Nat /\ Cardinality(some) \in Nat /\ Cardinality(failed) \in Nat
  BY <1>3, <1>5, <1>7, FS_CardinalityType
<1>9. Cardinality(turns) <= Cardinality(failed)
  BY <1>5, <1>7, <1>8
<1> QED BY <1>2, <1>9 DEF turns

\* The FAILs of the rules that the report tells of are all of them.
LEMMA FailsReported ==
  ASSUME NEW records, AreReviews(records)
  PROVE  LET Failed(i) == {rule \in RuleIdsOf(records) :
                             \E j \in DOMAIN records[i].results :
                               IsRuleFail(records[i].results[j]) /\ records[i].results[j].id = rule}
         IN  FailsUpto(records, Len(records))
               = UNION {{<<records[i].turn, rule, records[i].time>> : rule \in Failed(i)} :
                          i \in DOMAIN records}
<1> DEFINE Failed(i) == {rule \in RuleIdsOf(records) :
                           \E j \in DOMAIN records[i].results :
                             IsRuleFail(records[i].results[j]) /\ records[i].results[j].id = rule}
           Of(i) == {<<records[i].turn, rule, records[i].time>> : rule \in Failed(i)}
<1>1. /\ DOMAIN records = 1..Len(records)
      /\ \A i \in 1..Len(records) : IsReview(records[i])
  BY ListOfSeq DEF AreReviews, IsList
<1>2. ASSUME NEW i \in DOMAIN records
      PROVE  Of(i) = FailsIn(records[i], Len(records[i].results))
  <2> DEFINE results == records[i].results
  <2>1. DOMAIN results = 1..Len(results)
    <3>1. IsReview(records[i])
      BY <1>1
    <3> QED BY <3>1, ListOfSeq DEF IsReview, IsList
  <2>2. ASSUME NEW x \in Of(i) PROVE x \in FailsIn(records[i], Len(results))
    <3>1. PICK rule \in Failed(i) : x = <<records[i].turn, rule, records[i].time>>
      OBVIOUS
    <3>2. PICK j \in DOMAIN results : IsRuleFail(results[j]) /\ results[j].id = rule
      OBVIOUS
    <3>3. j \in FailPlaces(records[i], Len(results)) /\ x = FailOf(records[i], j)
      BY <2>1, <3>1, <3>2 DEF FailPlaces, FailOf
    <3> QED BY <3>3 DEF FailsIn
  <2>3. ASSUME NEW x \in FailsIn(records[i], Len(results)) PROVE x \in Of(i)
    <3>1. PICK j \in 1..Len(results) : IsRuleFail(results[j]) /\ x = FailOf(records[i], j)
      BY DEF FailsIn, FailPlaces
    <3> DEFINE p == <<i, j>>
    <3>2. j \in DOMAIN records[i].results
      BY <2>1
    <3>3. p \in ResultsOf(records) /\ ResultAt(records, p) = results[j]
      BY <3>2 DEF ResultsOf, ResultAt
    <3>4. results[j].id \in RuleIdsOf(records)
      BY <3>1, <3>3 DEF RuleIdsOf, ResultsOfKind, IsRuleFail
    <3>5. results[j].id \in Failed(i)
      BY <3>1, <3>2, <3>4
    <3>6. x = <<records[i].turn, results[j].id, records[i].time>>
      BY <3>1 DEF FailOf
    <3> HIDE DEF Failed
    <3> QED BY <3>5, <3>6
  <2> HIDE DEF Of
  <2> QED BY <2>2, <2>3
<1> HIDE DEF Of
<1>3. FailsUpto(records, Len(records)) = UNION {Of(i) : i \in DOMAIN records}
  BY <1>1, <1>2 DEF FailsUpto
<1> QED BY <1>3 DEF Of

\* What the report says of a rule, against what the records say.
ReportTells(breakdown, rule, seen, waiting) ==
  LET c == breakdown.calibration
      turns == TurnsOf(seen, rule)
  IN  /\ c.right + c.wrong + c.unanswered = Cardinality(turns)
      /\ c.unanswered = Cardinality({x \in waiting : x[2] = rule})
      /\ Cardinality(turns) <= breakdown.counts["FAIL"]

LEMMA ReportTold ==
  ASSUME NEW records, AreReviews(records), NEW answers, AreAnswers(answers), NEW rule
  PROVE  LET seen == FailsUpto(records, Len(records))
         IN  ReportTells(RuleBreakdown(rule, records, answers), rule, seen,
                         WaitingOf(seen, Answered(answers)))
<1> DEFINE fails == CollectRuleFails(records)
           seen == FailsUpto(records, Len(records))
           waiting == WaitingOf(seen, Answered(answers))
           keys == KeysOf(fails, rule)
           breakdown == RuleBreakdown(rule, records, answers)
           c == Calibrate(rule, records, answers)
           turns == TurnsOf(seen, rule)
<1>1. Collected(fails, seen) /\ Triples(seen)
  BY RuleFailsCollected
<1>2. /\ breakdown.calibration = c
      /\ breakdown.counts = OutcomeCounts(records, PlacesOf(records, rule))
  BY DEF RuleBreakdown, PlacesOf
<1>3. /\ IsFiniteSet(keys)
      /\ c.right + c.wrong + c.unanswered = Cardinality(keys)
      /\ c.unanswered = Cardinality(keys \ Answered(answers))
  BY CalibrationAddsUp
<1>4. Cardinality(turns) = Cardinality(keys)
  <2> HIDE DEF fails, seen
  <2> QED BY <1>1, <1>3, KeysAreTurns
<1>5. Cardinality({x \in waiting : x[2] = rule}) = Cardinality(keys \ Answered(answers))
  <2> HIDE DEF fails, seen
  <2> QED BY <1>1, <1>3, KeysAreWaiting
<1>6. Cardinality(turns) <= breakdown.counts["FAIL"]
  BY <1>2, FailsCounted
<1> HIDE DEF waiting, keys, turns, c, breakdown
<1>7. ReportTells(breakdown, rule, seen, waiting)
  BY <1>2, <1>3, <1>4, <1>5, <1>6 DEF ReportTells, turns
<1> QED BY <1>7 DEF breakdown, waiting

LEMMA ReviewsMatch ==
  ASSUME AreReviews(ParseJsonLines(files["reviews"]).records),
         AreAnswers(ParseJsonLines(files["feedback"]).records)
  PROVE  ListingMatchesReport
<1> DEFINE reviews == ParseJsonLines(files["reviews"])
           answers == ParseJsonLines(files["feedback"]).records
           records == reviews.records
           report == AggregateHistory(records, reviews.skipped, answers)
           listing == ListPendingFails(records, answers)
           items == listing.items
           Failed(i) == {rule \in DOMAIN report.rules :
                           \E j \in DOMAIN records[i].results :
                             IsRuleFail(records[i].results[j]) /\ records[i].results[j].id = rule}
           fails == UNION {{<<records[i].turn, rule, records[i].time>> : rule \in Failed(i)} :
                             i \in DOMAIN records}
           answered == {IdentityOf(answers[a]) : a \in DOMAIN answers}
           waiting == {x \in fails : /\ <<x[1], x[2]>> \notin answered
                                     /\ \A y \in fails : y[1] = x[1] /\ y[2] = x[2] => y[3] <= x[3]}
<1>1. report.rules = [rule \in RuleIdsOf(records) |-> RuleBreakdown(rule, records, answers)]
  BY DEF AggregateHistory
<1>2. DOMAIN report.rules = RuleIdsOf(records)
  BY <1>1
<1> HIDE DEF report
<1>3. fails = FailsUpto(records, Len(records))
  <2> HIDE DEF records
  <2> DEFINE Own(i) == {rule \in RuleIdsOf(records) :
                          \E j \in DOMAIN records[i].results :
                            IsRuleFail(records[i].results[j]) /\ records[i].results[j].id = rule}
  <2>1. FailsUpto(records, Len(records))
          = UNION {{<<records[i].turn, rule, records[i].time>> : rule \in Own(i)} : i \in DOMAIN records}
    BY FailsReported DEF records
  <2>2. \A i : Failed(i) = Own(i)
    BY <1>2
  <2> HIDE DEF Own, Failed
  <2> QED BY <2>1, <2>2
<1> HIDE DEF fails
<1>4. waiting = WaitingOf(FailsUpto(records, Len(records)), Answered(answers))
  BY <1>3 DEF WaitingOf, Answered
<1> HIDE DEF waiting
<1>5. \A rule : ReportTells(RuleBreakdown(rule, records, answers), rule, fails, waiting)
  BY <1>3, <1>4, ReportTold
<1>6. ListingTells(listing, waiting)
  BY <1>4, ListingTold
<1>7. \A rule \in DOMAIN report.rules : ReportTells(report.rules[rule], rule, fails, waiting)
  BY <1>1, <1>2, <1>5
<1> HIDE DEF records, answers, listing
<1>8. \A rule \in DOMAIN report.rules :
        LET breakdown == report.rules[rule]
            c == breakdown.calibration
            turns == {x[1] : x \in {y \in fails : y[2] = rule}}
        IN  /\ c.right + c.wrong + c.unanswered = Cardinality(turns)
            /\ c.unanswered = Cardinality({x \in waiting : x[2] = rule})
            /\ Cardinality(turns) <= breakdown.counts["FAIL"]
  BY <1>7, Zenon DEF ReportTells, TurnsOf
<1>9. /\ listing.total = Cardinality(waiting)
      /\ Len(items) = Min({ListLimit, listing.total})
      /\ \A k \in DOMAIN items :
           /\ <<items[k].turn, items[k].rule, items[k].time>> \in waiting
           /\ Cardinality({x \in waiting : x[3] > items[k].time}) < k
  BY <1>6, Zenon DEF ListingTells
<1> QED BY <1>8, <1>9, Zenon DEF ListingMatchesReport, report, listing, records, answers, fails, waiting

\* What is read and written are reviews and answers.
Legible(f, value) == IF f = "reviews" THEN IsReview(value) ELSE IsAnswer(value)
AllLegible(f, lines) == \A k \in DOMAIN lines : lines[k].tag = "RECORD" => Legible(f, lines[k].value)

LEMMA LegibleRecords ==
  ASSUME NEW f, NEW file, IsList(file.lines), AllLegible(f, file.lines)
  PROVE  /\ IsList(ParseJsonLines(file).records)
         /\ \A i \in DOMAIN ParseJsonLines(file).records : Legible(f, ParseJsonLines(file).records[i])
<1> DEFINE lines == file.lines
           at == {a \in 1..Len(lines) : lines[a].tag = "RECORD"}
<1>1. PICK good, g : GoodLines(file, good, g)
  BY ParsedRecords
<1>2. /\ Selects(good, lines, at, g) /\ IsList(good)
      /\ ParseJsonLines(file).records = [i \in DOMAIN good |-> good[i].value]
  BY <1>1 DEF GoodLines
<1> DEFINE records == [i \in DOMAIN good |-> good[i].value]
<1>3. Len(good) \in Nat /\ DOMAIN good = 1..Len(good) /\ DOMAIN lines = 1..Len(lines)
  BY <1>2, ListOfSeq DEF IsList
<1>4. DOMAIN records = 1..Len(good) /\ \A i \in 1..Len(good) : records[i] = good[i].value
  BY <1>3
<1>5. IsList(records)
  <2>1. records \in [1..Len(good) -> Members(records)]
    BY <1>3 DEF Members
  <2> HIDE DEF records
  <2> QED BY <1>3, <2>1, SeqDef DEF IsList
<1>6. ASSUME NEW i \in DOMAIN records PROVE Legible(f, records[i])
  <2>1. i \in 1..Len(good)
    BY <1>4
  <2>2. g[i] \in at /\ good[i] = lines[g[i]]
    BY <1>2, <2>1 DEF Selects
  <2>3. lines[g[i]].tag = "RECORD" /\ g[i] \in DOMAIN lines
    BY <1>3, <2>2
  <2>4. records[i] = lines[g[i]].value
    BY <1>4, <2>1, <2>2
  <2> HIDE DEF records
  <2> QED BY <2>3, <2>4 DEF AllLegible
<1> QED BY <1>2, <1>5, <1>6

LEMMA ReadLegibly ==
  ASSUME NEW f \in Files, NEW file, IsList(file.lines), AllLegible(f, file.lines)
  PROVE  IF f = "reviews" THEN AreReviews(ParseJsonLines(file).records)
                          ELSE AreAnswers(ParseJsonLines(file).records)
BY LegibleRecords DEF Legible, AreReviews, AreAnswers

\* A rewrite keeps some of them.
LEMMA RewrittenLegibly ==
  ASSUME NEW f \in Files, NEW file, IsList(file.lines), AllLegible(f, file.lines)
  PROVE  AllLegible(f, Rewritten(f, file))
<1>1. CASE f = "reviews"
  <2> DEFINE lines == Rewritten(f, file)
  <2>1. \A k \in DOMAIN lines : \E l \in DOMAIN file.lines : lines[k] = file.lines[l]
    BY <1>1, RewrittenList
  <2> HIDE DEF lines
  <2>2. AllLegible(f, lines)
    BY <2>1 DEF AllLegible
  <2> QED BY <2>2 DEF lines
<1>2. CASE f # "reviews"
  <2> DEFINE max == MaxRecords[f]
             records == ParseJsonLines(file).records
             latest == LatestFeedbackRecords(records)
             new == Newest(latest, max)
  <2>1. Rewritten(f, file) = AsLines(new)
    BY <1>2 DEF Rewritten, CompactFeedback
  <2>2. IsList(records) /\ \A i \in DOMAIN records : Legible(f, records[i])
    BY LegibleRecords
  <2> HIDE DEF records
  <2>3. IsList(latest) /\ \A i \in DOMAIN latest : Legible(f, latest[i])
    <3>1. IsList(latest)
      BY <2>2, LatestPlaces
    <3>2. PICK g : Selects(latest, records, LastPlaces(records, Len(records)), g)
      BY <2>2, LatestPlaces
    <3> HIDE DEF latest
    <3>3. ASSUME NEW i \in DOMAIN latest PROVE Legible(f, latest[i])
      <4>1. i \in 1..Len(latest) /\ DOMAIN records = 1..Len(records)
        BY <2>2, <3>1, ListOfSeq DEF IsList
      <4>2. g[i] \in 1..Len(records) /\ latest[i] = records[g[i]]
        BY <3>2, <4>1 DEF Selects, LastPlaces
      <4> QED BY <2>2, <4>1, <4>2
    <3> QED BY <3>1, <3>3
  <2> HIDE DEF latest
  <2>4. IsList(new) /\ \A i \in DOMAIN new : Legible(f, new[i])
    <3>1. max \in Nat \ {0}
      BY StoreAssumption
    <3> HIDE DEF max
    <3>2. PICK skip : IsRest(new, latest, max, skip)
      BY <2>3, <3>1, NewestList
    <3> HIDE DEF new
    <3>3. ASSUME NEW i \in DOMAIN new PROVE Legible(f, new[i])
      <4>1. i \in 1..(Len(latest) - skip) /\ new[i] = latest[i + skip]
        BY <3>2 DEF IsRest
      <4>2. i + skip \in DOMAIN latest
        BY <3>2, <4>1 DEF IsRest
      <4> QED BY <2>3, <4>1, <4>2
    <3> QED BY <3>2, <3>3 DEF IsRest
  <2> HIDE DEF new
  <2> DEFINE lines == AsLines(new)
  <2>5. DOMAIN lines = DOMAIN new /\ \A k \in DOMAIN new : lines[k] = Line(new[k])
    BY DEF AsLines
  <2> HIDE DEF lines
  <2>6. \A k \in DOMAIN lines : lines[k].value = new[k]
    BY <2>5, LineIsItsValue
  <2>7. AllLegible(f, lines)
    BY <2>4, <2>5, <2>6 DEF AllLegible
  <2> QED BY <2>1, <2>7 DEF lines
<1> QED BY <1>1, <1>2

\* A write adds one at most.
LEMMA GrownLegibly ==
  ASSUME NEW f, NEW file, FileShape(file), AllLegible(f, file.lines),
         NEW value, Legible(f, value), NEW line \in {Line(value), Malformed}, NEW cut
  PROVE  AllLegible(f, Grown(file, line, cut).lines)
<1> DEFINE lines == Grown(file, line, cut).lines
<1>1. IsList(file.lines) /\ (file.cut => file.lines # <<>>)
  BY DEF FileShape
<1>2. line.tag = "RECORD" => line.value = value
  BY LineIsItsValue
<1>3. ASSUME NEW k \in DOMAIN lines, lines[k].tag = "RECORD"
      PROVE  (k \in DOMAIN file.lines /\ lines[k] = file.lines[k]) \/ lines[k] = line
  <2>1. CASE file.cut
    <3>1. lines = Append(Front(file.lines), Malformed)
      BY <2>1 DEF Grown
    <3> HIDE DEF lines
    <3>2. /\ DOMAIN lines = 1..Len(file.lines) /\ DOMAIN file.lines = 1..Len(file.lines)
          /\ \A i \in 1..(Len(file.lines) - 1) : lines[i] = file.lines[i]
          /\ lines[Len(file.lines)] = Malformed /\ Len(file.lines) \in Nat
      BY <1>1, <2>1, <3>1, GluedList
    <3>3. k # Len(file.lines)
      BY <1>3, <3>2, LineIsItsValue
    <3> QED BY <1>3, <3>2, <3>3
  <2>2. CASE ~file.cut
    <3>1. lines = Append(file.lines, line)
      BY <2>2 DEF Grown
    <3> HIDE DEF lines
    <3>2. /\ DOMAIN lines = 1..(Len(file.lines) + 1) /\ DOMAIN file.lines = 1..Len(file.lines)
          /\ \A i \in 1..Len(file.lines) : lines[i] = file.lines[i]
          /\ lines[Len(file.lines) + 1] = line /\ Len(file.lines) \in Nat
      BY <1>1, <3>1, AppendList
    <3> QED BY <1>3, <3>2
  <2> QED BY <2>1, <2>2
<1> HIDE DEF lines
<1>4. AllLegible(f, lines)
  BY <1>2, <1>3 DEF AllLegible
<1> QED BY <1>4 DEF lines

\* A history as it was left: numbered, it is still one.
LEMMA NumberedLegibly ==
  ASSUME NEW f \in Files, NEW values,
         values \in Seq(IF f = "reviews" THEN ReviewLines ELSE AnswerLines)
  PROVE  /\ AllLegible(f, AsLines(Numbered(values)))
         /\ f = "reviews" => AreReviews(Numbered(values))
<1> DEFINE n == Len(values)
           new == Numbered(values)
<1>1. n \in Nat /\ DOMAIN values = 1..n
  BY ListOfSeq
<1>2. DOMAIN new = 1..n /\ \A k \in 1..n : new[k] = Over([n |-> k - n], values[k])
  BY <1>1 DEF Numbered
<1>3. ASSUME NEW k \in 1..n PROVE Legible(f, new[k])
  <2> DEFINE value == values[k]
             number == [n |-> k - n]
  <2>1. new[k] = Over(number, value) /\ DOMAIN number = {"n"}
    BY <1>2
  <2> HIDE DEF number
  <2>2. value \in IF f = "reviews" THEN ReviewLines ELSE AnswerLines
    BY <1>3, ElementOfSeq
  <2> HIDE DEF new, value
  <2>3. CASE f = "reviews"
    <3>1. value \in ReviewLines
      BY <2>2, <2>3
    <3>2. /\ DOMAIN value = {"turn", "time", "results"} /\ value.turn \in Nat /\ value.time \in Nat
          /\ value.results \in Seq(ResultLines)
      BY <3>1 DEF ReviewLines
    <3>3. new[k].turn = value.turn /\ new[k].time = value.time /\ new[k].results = value.results
      BY <2>1, <3>2 DEF Over
    <3>4. IsList(value.results) /\ \A j \in DOMAIN value.results : value.results[j].id \in Int
      <4>1. IsList(value.results) /\ DOMAIN value.results = 1..Len(value.results)
        BY <3>2, ListOfSeq
      <4>2. \A j \in DOMAIN value.results : value.results[j] \in ResultLines
        BY <3>2, <4>1, ElementOfSeq
      <4> QED BY <4>1, <4>2 DEF ResultLines
    <3> QED BY <2>3, <3>2, <3>3, <3>4 DEF Legible, IsReview
  <2>4. CASE f # "reviews"
    <3>1. value \in AnswerLines
      BY <2>2, <2>4
    <3>2. DOMAIN value = {"turn", "rule", "decision"} /\ value.decision \in {"RIGHT", "WRONG"}
      BY <3>1 DEF AnswerLines
    <3>3. new[k].decision = value.decision
      BY <2>1, <3>2 DEF Over
    <3> QED BY <2>4, <3>2, <3>3 DEF Legible, IsAnswer
  <2> QED BY <2>3, <2>4
<1>4. new \in [1..n -> Members(new)]
  <2>1. new = [k \in 1..n |-> new[k]]
    BY <1>1 DEF Numbered
  <2>2. \A k \in 1..n : new[k] \in Members(new)
    BY <1>2 DEF Members
  <2> HIDE DEF new
  <2> QED BY <2>1, <2>2
<1> HIDE DEF new
<1>5. IsList(new)
  BY <1>1, <1>4, SeqDef DEF IsList
<1> DEFINE lines == AsLines(new)
<1>6. DOMAIN lines = DOMAIN new /\ \A k \in DOMAIN new : lines[k] = Line(new[k])
  BY DEF AsLines
<1> HIDE DEF lines
<1>7. AllLegible(f, lines)
  BY <1>2, <1>3, <1>6, LineIsItsValue DEF AllLegible
<1>8. f = "reviews" => AreReviews(new)
  BY <1>2, <1>3, <1>5 DEF AreReviews, Legible
<1> QED BY <1>7, <1>8 DEF lines, new

\* The latest of the times, and of none, 0.
LEMMA LatestTime ==
  ASSUME NEW times, NEW n \in Nat, \A k \in 1..n : times[k] \in Int
  PROVE  Max({0} \cup {times[k] : k \in 1..n}) \in Int
<1> DEFINE All(m) == {0} \cup {times[k] : k \in 1..m}
           Good(m) == \E x \in All(m) : \A y \in All(m) : x >= y
           Bad == {m \in 0..n : ~Good(m)}
<1>1. \A m \in 0..n : \A x \in All(m) : x \in Int
  OBVIOUS
<1>2. Bad = {}
  <2> SUFFICES ASSUME Bad # {} PROVE FALSE
    OBVIOUS
  <2>1. PICK m \in Bad : \A k \in Bad : m <= k
    <3>1. Bad \in SUBSET Nat
      OBVIOUS
    <3> HIDE DEF Bad
    <3> QED BY <3>1, LeastNumber
  <2>2. Good(0)
    <3>1. All(0) = {0}
      OBVIOUS
    <3> HIDE DEF All
    <3> QED BY <3>1
  <2>3. m \in 1..n /\ m - 1 \in 0..n /\ ~Good(m)
    <3> HIDE DEF Good
    <3>1. m \in 0..n /\ ~Good(m)
      BY <2>1
    <3>2. m # 0
      BY <2>2, <3>1
    <3> QED BY <3>1, <3>2
  <2>4. Good(m - 1)
    <3>1. m - 1 \notin Bad
      <4>1. ~(m <= m - 1)
        BY <2>3
      <4> HIDE DEF Bad
      <4> QED BY <2>1, <4>1
    <3> HIDE DEF Good
    <3> QED BY <2>3, <3>1
  <2> DEFINE before == All(m - 1)
             t == times[m]
  <2>5. All(m) = before \cup {t}
    <3>1. 1..m = (1..(m - 1)) \cup {m}
      <4> HIDE DEF Good, Bad
      <4> QED BY <2>3
    <3> QED BY <3>1
  <2>6. PICK x \in before : \A y \in before : x >= y
    BY <2>4
  <2>7. t \in Int /\ \A y \in before : y \in Int
    BY <1>1, <2>3
  <2> HIDE DEF All, before, t
  <2>8. Good(m)
    <3>1. CASE x >= t
      BY <2>5, <2>6, <2>7, <3>1
    <3>2. CASE ~(x >= t)
      BY <2>5, <2>6, <2>7, <3>2
    <3> QED BY <3>1, <3>2
  <2> QED BY <2>3, <2>8
<1>3. Good(n)
  <2> HIDE DEF Good
  <2> QED BY <1>2
<1> DEFINE all == All(n)
<1>4. \E x \in all : \A y \in all : x >= y
  BY <1>3
<1>5. \A x \in all : x \in Int
  BY <1>1
<1> HIDE DEF all
<1>6. Max(all) = CHOOSE x \in all : \A y \in all : x >= y
  BY DEF Max
<1>7. Max(all) \in all
  BY <1>4, <1>6
<1>8. Max(all) \in Int
  BY <1>5, <1>7
<1> QED BY <1>8 DEF all

\* What a process holds: a review or an answer to write, or what it has read.
LegibleJob(job) ==
  /\ job.stage = "append" => Legible(job.file, job.value)
  /\ job.stage = "replace" => AllLegible(job.file, job.lines)
  /\ job.stage \in {"list", "mark"} /\ "reviews" \in DOMAIN job.got => AreReviews(job.got["reviews"])
  /\ job.stage \in {"list", "mark"} => {"stage", "got", "since"} \subseteq DOMAIN job
  /\ job.stage = "mark" => "decision" \in DOMAIN job /\ job.decision \in {"RIGHT", "WRONG"}

\* A command's selection is a listing of its own time, and so is what it marks.
Read(job, listings) ==
  "selection" \in DOMAIN job.got /\ job.got["selection"] # NoSelection =>
    \E k \in job.since..Len(listings) : job.got["selection"].items = listings[k]
Answers(job, listings) ==
  \E k \in job.since..Len(listings) :
    job.number \in DOMAIN listings[k] /\ listings[k][job.number] = IdentityOf(job.value)
Pinned(job, listings) ==
  /\ job.stage \in {"list", "mark"} => job.since \in 1..Len(listings) /\ Read(job, listings)
  /\ job.stage = "append" => job.since \in Nat \ {0} /\ Answers(job, listings)

\* The selection is the last listing, unless it was deleted.
LastListed(chosen, listings) ==
  /\ IsList(listings) /\ Len(listings) \in Nat \ {0}
  /\ chosen = NoSelection \/ chosen.items = listings[Len(listings)]

ListingInv ==
  /\ clock \in Int
  /\ \A f \in Files : AllLegible(f, files[f].lines)
  /\ LastListed(selection, truth["listings"])
  /\ \A p \in Procs : LegibleJob(procs[p])
  /\ \A t \in Terminals : Pinned(procs[t], truth["listings"])

LEMMA ListingInvGives == StoreInv /\ ListingInv => ListingTruthful
<1> SUFFICES ASSUME StoreInv, ListingInv PROVE ListingTruthful
  OBVIOUS
<1>1. "reviews" \in Files /\ "feedback" \in Files /\ "feedback" # "reviews"
  BY DEF Files
<1>2. \A f \in Files : IsList(files[f].lines)
  BY DEF StoreInv, StoreShape, FileShape
<1>3. \A f \in Files : AllLegible(f, files[f].lines)
  BY DEF ListingInv
<1>4. AreReviews(ParseJsonLines(files["reviews"]).records)
  BY <1>1, <1>2, <1>3, ReadLegibly
<1>5. AreAnswers(ParseJsonLines(files["feedback"]).records)
  BY <1>1, <1>2, <1>3, ReadLegibly
<1>6. ListingMatchesReport
  BY <1>4, <1>5, ReviewsMatch
<1>7. NumberMeansShown
  <2>1. \A t \in Terminals : procs[t].stage = "append" => Answers(procs[t], truth["listings"])
    BY DEF ListingInv, Pinned
  <2> QED BY <2>1 DEF NumberMeansShown, Answers
<1> QED BY <1>6, <1>7 DEF ListingTruthful

\* More listings.
Longer(before, listings) ==
  /\ Len(before) \in Nat /\ Len(listings) \in Nat /\ Len(before) <= Len(listings)
  /\ \A k \in 1..Len(before) : listings[k] = before[k]

LEMMA PinnedLonger ==
  ASSUME NEW job, NEW before, NEW listings, Pinned(job, before), Longer(before, listings)
  PROVE  Pinned(job, listings)
<1> DEFINE m == Len(before)
           n == Len(listings)
<1>1. m \in Nat /\ n \in Nat /\ m <= n /\ \A k \in 1..m : listings[k] = before[k]
  BY DEF Longer
<1>2. ASSUME job.stage \in {"list", "mark"}
      PROVE  job.since \in 1..n /\ Read(job, listings)
  <2>1. job.since \in 1..m /\ Read(job, before)
    BY <1>2 DEF Pinned
  <2> HIDE DEF m, n
  <2>2. \A k \in job.since..m : k \in job.since..n /\ k \in 1..m
    BY <1>1, <2>1
  <2> QED BY <1>1, <2>1, <2>2 DEF Read, m, n
<1>3. ASSUME job.stage = "append"
      PROVE  job.since \in Nat \ {0} /\ Answers(job, listings)
  <2>1. job.since \in Nat \ {0} /\ Answers(job, before)
    BY <1>3 DEF Pinned
  <2> HIDE DEF m, n
  <2>2. \A k \in job.since..m : k \in job.since..n /\ k \in 1..m
    BY <1>1, <2>1
  <2> QED BY <1>1, <2>1, <2>2 DEF Answers, m, n
<1> QED BY <1>2, <1>3 DEF Pinned

\* One process goes on to another job, and what the others rely on stays.
Moves(p, job) ==
  /\ procs' = [procs EXCEPT ![p] = job]
  /\ clock' \in Int
  /\ \A f \in Files : AllLegible(f, files'[f].lines)
  /\ LastListed(selection', truth'["listings"])
  /\ Longer(truth["listings"], truth'["listings"])
  /\ LegibleJob(job)
  /\ p \in Terminals => Pinned(job, truth'["listings"])

LEMMA MovesStep ==
  ASSUME StoreInv, ListingInv, NEW p \in Procs, NEW job, Moves(p, job)
  PROVE  ListingInv'
<1> DEFINE before == truth["listings"]
           listings == truth'["listings"]
<1>1. DOMAIN procs = Procs /\ Terminals \subseteq Procs
  BY DEF StoreInv, StoreShape, Procs
<1>2. procs' = [procs EXCEPT ![p] = job]
  BY DEF Moves
<1>3. procs'[p] = job /\ \A q \in Procs : q # p => procs'[q] = procs[q]
  BY <1>1, <1>2
<1>4. \A q \in Procs : LegibleJob(procs'[q])
  <2>1. LegibleJob(job) /\ \A q \in Procs : LegibleJob(procs[q])
    BY DEF Moves, ListingInv
  <2> QED BY <1>3, <2>1
<1>5. ASSUME NEW t \in Terminals PROVE Pinned(procs'[t], listings)
  <2>1. CASE t = p
    <3>1. Pinned(job, listings)
      BY <2>1 DEF Moves
    <3> QED BY <1>3, <2>1, <3>1
  <2>2. CASE t # p
    <3>1. procs'[t] = procs[t]
      BY <1>1, <1>3, <2>2
    <3>2. Pinned(procs[t], before) /\ Longer(before, listings)
      BY DEF ListingInv, Moves
    <3> HIDE DEF before, listings
    <3>3. Pinned(procs[t], listings)
      BY <3>2, PinnedLonger
    <3> QED BY <3>1, <3>3
  <2> QED BY <2>1, <2>2
<1>6. /\ clock' \in Int /\ \A f \in Files : AllLegible(f, files'[f].lines)
      /\ LastListed(selection', listings)
  BY DEF Moves
<1> QED BY <1>4, <1>5, <1>6 DEF ListingInv

\* Nothing was listed, and the files and the time are as they were.
Quiet ==
  /\ clock' = clock /\ files' = files /\ selection' = selection
  /\ truth'["listings"] = truth["listings"]

LEMMA SameListings ==
  ASSUME ListingInv, truth'["listings"] = truth["listings"]
  PROVE  /\ Longer(truth["listings"], truth'["listings"])
         /\ LastListed(selection, truth'["listings"])
<1> DEFINE listings == truth["listings"]
<1>1. LastListed(selection, listings)
  BY DEF ListingInv
<1> HIDE DEF listings
<1>2. Longer(listings, listings)
  BY <1>1 DEF LastListed, Longer
<1> QED BY <1>1, <1>2 DEF listings

LEMMA QuietStep ==
  ASSUME StoreInv, ListingInv, Quiet, NEW p \in Procs, NEW job, procs' = [procs EXCEPT ![p] = job],
         LegibleJob(job), p \in Terminals => Pinned(job, truth["listings"])
  PROVE  ListingInv'
<1>1. /\ clock' = clock /\ files' = files /\ selection' = selection
      /\ truth'["listings"] = truth["listings"]
  BY DEF Quiet
<1>2. /\ Longer(truth["listings"], truth'["listings"])
      /\ LastListed(selection', truth'["listings"])
  BY <1>1, SameListings
<1>3. clock' \in Int /\ \A f \in Files : AllLegible(f, files'[f].lines)
  BY <1>1 DEF ListingInv
<1>4. p \in Terminals => Pinned(job, truth'["listings"])
  BY <1>1
<1>5. Moves(p, job)
  BY <1>2, <1>3, <1>4 DEF Moves
<1> QED BY <1>5, MovesStep

\* A job that neither reads for a command nor writes.
LEMMA IdleLegible ==
  /\ LegibleJob(Idle) /\ \A listings : Pinned(Idle, listings)
BY DEF LegibleJob, Pinned, Idle

LEMMA OtherJob ==
  ASSUME NEW job, job.stage \notin {"list", "mark", "append"}, NEW listings
  PROVE  Pinned(job, listings)
BY DEF Pinned

LEMMA ListingRecordReview ==
  ASSUME StoreInv, ListingInv, NEW w \in Writers, NEW turn \in Turns, NEW results \in ResultLists,
         RecordReview(w, turn, results)
  PROVE  ListingInv'
<1> DEFINE value == [turn |-> turn, time |-> clock', results |-> results, n |-> used.events + 1]
           job == [stage |-> "append", file |-> "reviews", value |-> value]
<1>1. /\ clock' = clock + 1 /\ files' = files /\ selection' = selection /\ truth' = truth
      /\ procs' = [procs EXCEPT ![w] = job]
  BY DEF RecordReview, Go
<1>2. clock' \in Int
  BY <1>1 DEF ListingInv
<1>3. IsReview(value)
  <2>1. turn \in Int /\ results \in Seq(ResultLines)
    BY StartAssumption
  <2>2. IsList(results) /\ DOMAIN results = 1..Len(results)
    BY <2>1, ListOfSeq
  <2>3. \A j \in DOMAIN results : results[j] \in ResultLines
    BY <2>1, <2>2, ElementOfSeq
  <2>4. \A j \in DOMAIN results : results[j].id \in Int
    BY <2>3 DEF ResultLines
  <2>5. value.turn = turn /\ value.time = clock' /\ value.results = results
    OBVIOUS
  <2> HIDE DEF value
  <2> QED BY <1>2, <2>1, <2>2, <2>4, <2>5 DEF IsReview
<1> HIDE DEF value
<1>4. job.stage = "append" /\ job.file = "reviews" /\ job.value = value
  OBVIOUS
<1> HIDE DEF job
<1>5. LegibleJob(job)
  BY <1>3, <1>4 DEF LegibleJob, Legible
<1>6. w \in Procs /\ w \notin Terminals
  BY StoreAssumption DEF Procs
<1>7. /\ Longer(truth["listings"], truth'["listings"])
      /\ LastListed(selection', truth'["listings"])
  BY <1>1, SameListings
<1>8. \A f \in Files : AllLegible(f, files'[f].lines)
  BY <1>1 DEF ListingInv
<1>9. Moves(w, job)
  BY <1>1, <1>2, <1>5, <1>6, <1>7, <1>8 DEF Moves
<1> QED BY <1>6, <1>9, MovesStep

LEMMA ListingCommand ==
  ASSUME StoreInv, ListingInv, NEW t \in Terminals, NEW first, "stage" \in DOMAIN first,
         first.stage \in {"list", "mark"},
         first.stage = "mark" => "decision" \in DOMAIN first /\ first.decision \in {"RIGHT", "WRONG"},
         DOMAIN first \cap {"got", "since"} = {},
         Command(t, first)
  PROVE  ListingInv'
<1> DEFINE rest == [got |-> <<>>, n |-> used.events + 1, since |-> Len(truth["listings"])]
           job == Over(first, rest)
<1>1. /\ clock' = clock /\ files' = files /\ selection' = selection /\ truth' = truth
      /\ procs' = [procs EXCEPT ![t] = job]
  BY DEF Command, Go
<1>2. DOMAIN rest = {"got", "n", "since"} /\ rest.got = <<>> /\ rest.since = Len(truth["listings"])
  OBVIOUS
<1> HIDE DEF rest
<1>3. job.stage = first.stage /\ job.got = <<>> /\ job.since = Len(truth["listings"])
  BY <1>2 DEF Over
<1>4. job.stage = "mark" => job.decision = first.decision
  BY <1>3 DEF Over
<1>9. DOMAIN job = DOMAIN first \cup DOMAIN rest
  BY DEF Over
<1> HIDE DEF job
<1>5. DOMAIN job.got = {}
  BY <1>3, EmptyList
<1>6. LegibleJob(job)
  BY <1>2, <1>3, <1>4, <1>5, <1>9 DEF LegibleJob
<1>7. Pinned(job, truth["listings"])
  <2>1. Len(truth["listings"]) \in Nat \ {0}
    BY DEF ListingInv, LastListed
  <2> QED BY <1>3, <1>5, <2>1 DEF Pinned, Read
<1>8. t \in Procs /\ Quiet
  BY <1>1 DEF Procs, Quiet
<1> QED BY <1>1, <1>6, <1>7, <1>8, QuietStep

LEMMA ListingReadPart ==
  ASSUME StoreInv, ListingInv, NEW t \in Terminals, NEW part, ReadPart(t, part)
  PROVE  ListingInv'
<1> DEFINE before == procs[t]
           content == IF part = "selection" THEN selection ELSE ParseJsonLines(files[part]).records
           more == With(before.got, part, content)
           job == [before EXCEPT !.got = more]
           listings == truth["listings"]
<1>1. /\ before.stage \in {"list", "mark"} /\ part \in Reads(before.stage)
      /\ procs' = [procs EXCEPT ![t].got = With(@, part, content)]
      /\ clock' = clock /\ files' = files /\ selection' = selection /\ truth' = truth
  BY DEF ReadPart
<1>2. t \in Procs /\ DOMAIN procs = Procs
  BY DEF StoreInv, StoreShape, Procs
<1>3. procs' = [procs EXCEPT ![t] = job]
  BY <1>1, <1>2
<1>4. LegibleJob(before) /\ Pinned(before, listings)
  BY <1>2 DEF ListingInv
<1>5. {"stage", "got", "since"} \subseteq DOMAIN before
      /\ (before.stage = "mark" => "decision" \in DOMAIN before /\ before.decision \in {"RIGHT", "WRONG"})
  BY <1>1, <1>4 DEF LegibleJob
<1>6. "reviews" \in Files => AreReviews(ParseJsonLines(files["reviews"]).records)
  <2>1. \A f \in Files : IsList(files[f].lines) /\ AllLegible(f, files[f].lines)
    BY DEF StoreInv, StoreShape, FileShape, ListingInv
  <2> QED BY <2>1, ReadLegibly
<1>7. part = "reviews" => AreReviews(content)
  <2>1. "reviews" \in Files
    BY DEF Files
  <2> QED BY <1>6, <2>1
<1>8. /\ DOMAIN more = DOMAIN before.got \cup {part} /\ more[part] = content
      /\ \A x \in DOMAIN before.got : x # part => more[x] = before.got[x]
  BY DEF With
<1> HIDE DEF more
<1>9. /\ DOMAIN job = DOMAIN before /\ job.got = more /\ job.stage = before.stage /\ job.since = before.since
      /\ ("decision" \in DOMAIN before => job.decision = before.decision)
  BY <1>5
<1> HIDE DEF job
<1>10. "reviews" \in DOMAIN more => AreReviews(more["reviews"])
  <2>1. "reviews" \in DOMAIN before.got => AreReviews(before.got["reviews"])
    BY <1>1, <1>4 DEF LegibleJob
  <2> HIDE DEF content, before
  <2> QED BY <1>7, <1>8, <2>1
<1>11. LegibleJob(job)
  <2> HIDE DEF content, before
  <2> QED BY <1>1, <1>5, <1>9, <1>10 DEF LegibleJob
<1>12. Pinned(job, listings)
  <2>1. before.since \in 1..Len(listings) /\ Read(before, listings)
    BY <1>1, <1>4 DEF Pinned
  <2>2. Read(job, listings)
    <3>1. CASE part = "selection"
      <4>1. job.got["selection"] = selection
        BY <1>8, <1>9, <3>1
      <4>2. selection # NoSelection => selection.items = listings[Len(listings)]
        BY DEF ListingInv, LastListed
      <4>3. Len(listings) \in job.since..Len(listings)
        <5>1. Len(listings) \in Nat
          BY DEF ListingInv, LastListed
        <5> QED BY <1>9, <2>1, <5>1
      <4> QED BY <4>1, <4>2, <4>3 DEF Read
    <3>2. CASE part # "selection"
      <4>1. "selection" \in DOMAIN job.got <=> "selection" \in DOMAIN before.got
        BY <1>8, <1>9, <3>2
      <4>2. "selection" \in DOMAIN job.got => job.got["selection"] = before.got["selection"]
        BY <1>8, <1>9, <3>2
      <4> HIDE DEF before, content, listings
      <4> QED BY <1>9, <2>1, <4>1, <4>2 DEF Read
    <3> QED BY <3>1, <3>2
  <2> QED BY <1>1, <1>9, <2>1, <2>2 DEF Pinned
<1>13. Quiet
  BY <1>1 DEF Quiet
<1> QED BY <1>2, <1>3, <1>11, <1>12, <1>13, QuietStep

LEMMA ListingWriteSelection ==
  ASSUME StoreInv, ListingInv, NEW t \in Terminals, WriteSelection(t)
  PROVE  ListingInv'
<1> DEFINE got == procs[t].got
           listed == Selection(ListPendingFails(got["reviews"], got["feedback"]).items)
           listings == truth["listings"]
           more == Append(listings, listed.items)
<1>1. /\ selection' = listed /\ files' = files /\ clock' = clock
      /\ truth' = [truth EXCEPT !.listings = Append(@, listed.items)]
      /\ procs' = [procs EXCEPT ![t] = Idle]
  BY DEF WriteSelection, Go
<1>2. "listings" \in DOMAIN truth /\ t \in Procs
  BY DEF StoreInv, StoreShape, Procs
<1>3. truth'["listings"] = more
  BY <1>1, <1>2
<1>4. IsList(listings) /\ Len(listings) \in Nat
  BY DEF ListingInv, LastListed
<1> HIDE DEF listed, listings
<1>5. /\ IsList(more) /\ Len(more) = Len(listings) + 1
      /\ \A k \in 1..Len(listings) : more[k] = listings[k]
      /\ more[Len(listings) + 1] = listed.items
  BY <1>4, AppendList
<1> HIDE DEF more
<1>6. Len(more) \in Nat \ {0} /\ Longer(listings, more) /\ LastListed(listed, more)
  BY <1>4, <1>5 DEF Longer, LastListed
<1>7. /\ clock' \in Int /\ \A f \in Files : AllLegible(f, files'[f].lines)
  BY <1>1 DEF ListingInv
<1>8. Moves(t, Idle)
  BY <1>1, <1>3, <1>6, <1>7, IdleLegible DEF Moves, listings
<1> QED BY <1>2, <1>8, MovesStep

LEMMA ListingDecideMark ==
  ASSUME StoreInv, ListingInv, NEW t \in Terminals, DecideMark(t)
  PROVE  ListingInv'
<1> DEFINE before == procs[t]
           got == before.got
           target == ResolveTarget(got["selection"], before.number, got["reviews"])
           job == AnswerTo(target.fail, before)
           listings == truth["listings"]
           stays == \/ target.status # "FOUND"
                    \/ ~ChangesDecision(target.fail, before.decision, got["feedback"])
<1>1. /\ before.stage = "mark" /\ DOMAIN got = Reads("mark")
      /\ procs' = [procs EXCEPT ![t] = IF stays THEN Idle ELSE job]
      /\ clock' = clock /\ files' = files /\ selection' = selection /\ truth' = truth
  BY DEF DecideMark, HasRead, Go
<1>2. t \in Procs
  BY DEF Procs
<1>3. Quiet
  BY <1>1 DEF Quiet
<1>4. CASE stays
  <2>1. procs' = [procs EXCEPT ![t] = Idle]
    BY <1>1, <1>4
  <2> QED BY <1>2, <1>3, <2>1, IdleLegible, QuietStep
<1>5. CASE ~stays
  <2> DEFINE chosen == got["selection"]
             fails == CollectRuleFails(got["reviews"])
             number == before.number
             key == chosen.items[number]
  <2>1. /\ chosen # NoSelection /\ number \in DOMAIN chosen.items /\ key \in DOMAIN fails
        /\ target.fail = fails[key]
    <3>1. target.status = "FOUND"
      BY <1>5
    <3>2. chosen # NoSelection
      BY <3>1 DEF ResolveTarget, Unresolved
    <3>3. number \in DOMAIN chosen.items
      BY <3>1, <3>2 DEF ResolveTarget, Unresolved
    <3>4. key \in DOMAIN fails
      BY <3>1, <3>2, <3>3 DEF ResolveTarget, Unresolved
    <3>5. target.fail = fails[key]
      BY <3>2, <3>3, <3>4 DEF ResolveTarget
    <3> QED BY <3>2, <3>3, <3>4, <3>5
  <2>2. LegibleJob(before) /\ Pinned(before, listings)
    BY <1>2 DEF ListingInv
  <2>3. {"selection", "reviews"} \subseteq DOMAIN got
    BY <1>1 DEF Reads, Files
  <2>4. AreReviews(got["reviews"]) /\ before.decision \in {"RIGHT", "WRONG"}
    BY <1>1, <2>2, <2>3 DEF LegibleJob
  <2>5. before.since \in 1..Len(listings) /\ Read(before, listings)
    BY <1>1, <2>2 DEF Pinned
  <2>6. PICK k \in before.since..Len(listings) : chosen.items = listings[k]
    BY <2>1, <2>3, <2>5 DEF Read
  <2>7. Len(listings) \in Nat
    BY DEF ListingInv, LastListed
  <2> DEFINE fail == target.fail
  <2>8. fail.turn = key[1] /\ fail.rule = key[2] /\ key = <<key[1], key[2]>>
    <3>1. Collected(fails, FailsUpto(got["reviews"], Len(got["reviews"])))
      BY <2>4, RuleFailsCollected
    <3>2. /\ key = <<key[1], key[2]>> /\ fails[key].turn = key[1] /\ fails[key].rule = key[2]
      <4>1. key \in DOMAIN fails
        BY <2>1
      <4> DEFINE seen == FailsUpto(got["reviews"], Len(got["reviews"]))
      <4> HIDE DEF fails, key, seen
      <4> QED BY <3>1, <4>1, FailByKey DEF seen
    <3> QED BY <2>1, <3>2
  <2>9. /\ job.stage = "append" /\ job.file = "feedback" /\ job.number = number
        /\ job.since = before.since /\ job.value.turn = fail.turn /\ job.value.rule = fail.rule
        /\ job.value.decision = before.decision
    <3> HIDE DEF fail, before
    <3> QED BY DEF AnswerTo, fail, number
  <2> HIDE DEF job
  <2>10. IdentityOf(job.value) = key
    BY <2>8, <2>9 DEF IdentityOf, Identity
  <2>11. LegibleJob(job)
    BY <2>4, <2>9 DEF LegibleJob, Legible, IsAnswer
  <2>12. Pinned(job, listings)
    <3>1. job.since \in Nat \ {0}
      BY <2>5, <2>7, <2>9
    <3>2. k \in job.since..Len(listings)
      BY <2>6, <2>9
    <3>3. job.number \in DOMAIN listings[k] /\ listings[k][job.number] = IdentityOf(job.value)
      BY <2>1, <2>6, <2>9, <2>10
    <3> QED BY <2>9, <3>1, <3>2, <3>3 DEF Pinned, Answers
  <2>13. procs' = [procs EXCEPT ![t] = job]
    BY <1>1, <1>5
  <2> QED BY <1>2, <1>3, <2>11, <2>12, <2>13, QuietStep
<1> QED BY <1>4, <1>5

\* A process that does not write, with a job of no command.
LEMMA ListingAside ==
  ASSUME StoreInv, ListingInv, Quiet, NEW p \in Procs, NEW job,
         job.stage \notin {"list", "mark", "append", "replace"}, procs' = [procs EXCEPT ![p] = job]
  PROVE  ListingInv'
<1>1. LegibleJob(job)
  BY DEF LegibleJob
<1>2. Pinned(job, truth["listings"])
  BY OtherJob
<1> QED BY <1>1, <1>2, QuietStep

\* A write to one file.
LEMMA ListingWrites ==
  ASSUME StoreInv, ListingInv, NEW p \in Procs, NEW job, NEW f \in Files, NEW lines,
         job.stage \notin {"list", "mark", "append", "replace"}, procs' = [procs EXCEPT ![p] = job],
         clock' = clock, selection' = selection, truth'["listings"] = truth["listings"],
         files'[f].lines = lines, AllLegible(f, lines), \A g \in Files : g # f => files'[g] = files[g]
  PROVE  ListingInv'
<1>1. LegibleJob(job)
  BY DEF LegibleJob
<1>2. Pinned(job, truth'["listings"])
  BY OtherJob
<1>3. /\ Longer(truth["listings"], truth'["listings"])
      /\ LastListed(selection', truth'["listings"])
  BY SameListings
<1>4. clock' \in Int
  BY DEF ListingInv
<1>5. \A g \in Files : AllLegible(g, files'[g].lines)
  BY DEF ListingInv
<1>6. Moves(p, job)
  BY <1>1, <1>2, <1>3, <1>4, <1>5 DEF Moves
<1> QED BY <1>6, MovesStep

LEMMA ListingAppends ==
  ASSUME StoreInv, ListingInv, NEW p \in Procs, AppendLine(p) \/ AppendCut(p)
  PROVE  ListingInv'
<1> DEFINE f == procs[p].file
           value == procs[p].value
           job == [stage |-> "size", file |-> f]
<1>1. /\ DOMAIN files = Files /\ FileShape(files[f]) /\ f \in Files
      /\ DOMAIN truth = Files \cup {"listings"} /\ procs[p].stage = "append"
  <2>1. procs[p].stage = "append"
    BY DEF AppendLine, AppendCut
  <2>2. JobShape(procs[p]) /\ DOMAIN files = Files /\ DOMAIN truth = Files \cup {"listings"}
        /\ \A g \in Files : FileShape(files[g])
    BY DEF StoreInv, StoreShape
  <2>3. f \in Files
    BY <2>1, <2>2 DEF JobShape
  <2> QED BY <2>1, <2>2, <2>3
<1>2. Legible(f, value)
  <2>1. LegibleJob(procs[p])
    BY DEF ListingInv
  <2> QED BY <1>1, <2>1 DEF LegibleJob
<1>3. AllLegible(f, files[f].lines)
  BY <1>1 DEF ListingInv
<1>4. f # "listings"
  BY <1>1 DEF Files
<1>5. \E line \in {Line(value), Malformed}, cut \in BOOLEAN :
        files' = [files EXCEPT ![f] = Grown(files[f], line, cut)]
  BY DEF AppendLine, AppendCut
<1>6. PICK line \in {Line(value), Malformed}, cut \in BOOLEAN :
        files' = [files EXCEPT ![f] = Grown(files[f], line, cut)]
  BY <1>5
<1>7. \E sound : truth' = [truth EXCEPT ![f] = Append(@, [value |-> value, sound |-> sound])]
  BY DEF AppendLine, AppendCut, Noted
<1>8. truth'["listings"] = truth["listings"]
  BY <1>1, <1>4, <1>7
<1>9. clock' = clock /\ selection' = selection
  BY DEF AppendLine, AppendCut
<1>10. procs' = [procs EXCEPT ![p] = job] \/ procs' = [procs EXCEPT ![p] = Idle]
  BY DEF AppendLine, AppendCut, Go
<1>11. job.stage = "size" /\ Idle.stage = "idle"
  BY DEF Idle
<1> DEFINE grown == Grown(files[f], line, cut)
<1>12. AllLegible(f, grown.lines)
  <2> DEFINE file == files[f]
  <2>1. FileShape(file) /\ AllLegible(f, file.lines)
    BY <1>1, <1>3
  <2> HIDE DEF file, f, value
  <2>2. AllLegible(f, Grown(file, line, cut).lines)
    BY <1>2, <2>1, GrownLegibly
  <2> QED BY <2>2 DEF file
<1>13. files'[f] = grown /\ \A g \in Files : g # f => files'[g] = files[g]
  BY <1>1, <1>6
<1> HIDE DEF grown, job, f
<1>14. CASE procs' = [procs EXCEPT ![p] = job]
  BY <1>1, <1>8, <1>9, <1>11, <1>12, <1>13, <1>14, ListingWrites
<1>15. CASE procs' = [procs EXCEPT ![p] = Idle]
  BY <1>1, <1>8, <1>9, <1>11, <1>12, <1>13, <1>15, ListingWrites
<1> QED BY <1>10, <1>14, <1>15

LEMMA ListingCheckSize ==
  ASSUME StoreInv, ListingInv, NEW p \in Procs, CheckSize(p)
  PROVE  ListingInv'
<1> DEFINE before == procs[p]
           more == [before EXCEPT !.stage = "read"]
<1>1. Quiet
  BY DEF CheckSize, Quiet
<1>2. procs' = [procs EXCEPT ![p] = Idle] \/ procs' = [procs EXCEPT ![p] = more]
  BY DEF CheckSize, Go
<1>3. before.stage = "size" /\ JobShape(before)
  BY DEF CheckSize, StoreInv, StoreShape
<1> HIDE DEF before
<1>4. more.stage = "read" /\ Idle.stage = "idle"
  BY <1>3 DEF JobShape, Idle
<1> HIDE DEF more
<1> QED BY <1>1, <1>2, <1>4, ListingAside

LEMMA ListingReadContents ==
  ASSUME StoreInv, ListingInv, NEW p \in Procs, ReadContents(p)
  PROVE  ListingInv'
<1> DEFINE f == procs[p].file
           file == files[f]
           lines == Rewritten(f, file)
           job == [stage |-> "replace", file |-> f, lines |-> lines]
<1>1. Quiet
  BY DEF ReadContents, Quiet
<1>2. procs' = [procs EXCEPT ![p] = Idle] \/ procs' = [procs EXCEPT ![p] = job]
  BY DEF ReadContents, Go
<1>3. f \in Files
  BY DEF ReadContents, StoreInv, StoreShape, JobShape
<1>4. IsList(file.lines) /\ AllLegible(f, file.lines)
  BY <1>3 DEF StoreInv, StoreShape, FileShape, ListingInv
<1> HIDE DEF f, file
<1>5. AllLegible(f, lines)
  BY <1>3, <1>4, RewrittenLegibly
<1> HIDE DEF lines
<1>6. job.stage = "replace" /\ job.lines = lines /\ job.file = f
  OBVIOUS
<1> HIDE DEF job
<1>7. LegibleJob(job) /\ Pinned(job, truth["listings"])
  BY <1>5, <1>6, OtherJob DEF LegibleJob
<1>8. CASE procs' = [procs EXCEPT ![p] = job]
  BY <1>1, <1>7, <1>8, QuietStep
<1>9. CASE procs' = [procs EXCEPT ![p] = Idle]
  BY <1>1, <1>9, ListingAside DEF Idle
<1> QED BY <1>2, <1>8, <1>9

LEMMA ListingReplace ==
  ASSUME StoreInv, ListingInv, NEW p \in Procs, Replace(p)
  PROVE  ListingInv'
<1> DEFINE f == procs[p].file
           lines == procs[p].lines
<1>1. /\ procs' = [procs EXCEPT ![p] = Idle] /\ files' = [files EXCEPT ![f] = FileOf(lines)]
      /\ clock' = clock /\ selection' = selection /\ truth' = truth /\ procs[p].stage = "replace"
  BY DEF Replace, Go
<1>2. f \in Files /\ DOMAIN files = Files
  BY <1>1 DEF StoreInv, StoreShape, JobShape
<1>3. AllLegible(f, lines)
  BY <1>1 DEF ListingInv, LegibleJob
<1> HIDE DEF f, lines
<1>4. files'[f].lines = lines /\ \A g \in Files : g # f => files'[g] = files[g]
  BY <1>1, <1>2 DEF FileOf
<1>5. Idle.stage = "idle"
  BY DEF Idle
<1> QED BY <1>1, <1>2, <1>3, <1>4, <1>5, ListingWrites

LEMMA ListingStop ==
  ASSUME StoreInv, ListingInv, NEW p \in Procs, Stop(p)
  PROVE  ListingInv'
<1>1. Quiet /\ procs' = [procs EXCEPT ![p] = Idle]
  BY DEF Stop, Quiet, Go
<1> QED BY <1>1, ListingAside DEF Idle

\* Nothing but a file or the selection changes: it is gone.
LEMMA ListingDeletes ==
  ASSUME StoreInv, ListingInv, (\E f \in Files : DeleteFile(f)) \/ DeleteSelection
  PROVE  ListingInv'
<1>1. /\ procs' = procs /\ clock' = clock
      /\ selection' = selection \/ selection' = NoSelection
  BY DEF DeleteFile, DeleteSelection
<1>2. truth'["listings"] = truth["listings"]
  <2>1. CASE DeleteSelection
    BY <2>1 DEF DeleteSelection
  <2>2. ASSUME NEW f \in Files, DeleteFile(f) PROVE truth'["listings"] = truth["listings"]
    <3>1. f # "listings" /\ DOMAIN truth = Files \cup {"listings"}
      BY DEF Files, StoreInv, StoreShape
    <3>2. truth' = [truth EXCEPT ![f] = <<>>]
      BY <2>2 DEF DeleteFile
    <3> QED BY <3>1, <3>2
  <2> QED BY <2>1, <2>2
<1>3. \A g \in Files : files'[g] = files[g] \/ files'[g] = Missing
  <2>1. DOMAIN files = Files
    BY DEF StoreInv, StoreShape
  <2> QED BY <2>1 DEF DeleteFile, DeleteSelection
<1>4. \A g \in Files : AllLegible(g, Missing.lines)
  BY EmptyList DEF Missing, AllLegible
<1>5. \A g \in Files : AllLegible(g, files'[g].lines)
  BY <1>3, <1>4 DEF ListingInv
<1>6. LastListed(selection', truth'["listings"])
  BY <1>1, <1>2 DEF ListingInv, LastListed
<1> DEFINE listings == truth'["listings"]
<1>7. listings = truth["listings"]
  BY <1>2
<1> HIDE DEF listings
<1>8. \A t \in Terminals : Pinned(procs'[t], listings)
  BY <1>1, <1>7 DEF ListingInv
<1>9. \A p \in Procs : LegibleJob(procs'[p])
  BY <1>1 DEF ListingInv
<1> QED BY <1>1, <1>5, <1>6, <1>8, <1>9 DEF ListingInv, listings

LEMMA NextListingInv ==
  ASSUME StoreInv, ListingInv, [Next]_vars
  PROVE  ListingInv'
<1>1. ASSUME NEW w \in Writers, NEW turn \in Turns, NEW results \in ResultLists,
             RecordReview(w, turn, results)
      PROVE  ListingInv'
  BY <1>1, ListingRecordReview
<1>2. ASSUME NEW t \in Terminals, List(t) PROVE ListingInv'
  <2> DEFINE first == [stage |-> "list"]
  <2>1. /\ Command(t, first) /\ first.stage = "list" /\ "stage" \in DOMAIN first
        /\ DOMAIN first \cap {"got", "since"} = {}
    BY <1>2 DEF List
  <2> HIDE DEF first
  <2> QED BY <2>1, ListingCommand
<1>3. ASSUME NEW t \in Terminals, NEW k, NEW d \in {"RIGHT", "WRONG"}, Mark(t, k, d) PROVE ListingInv'
  <2> DEFINE first == [stage |-> "mark", number |-> k, decision |-> d]
  <2>1. /\ Command(t, first) /\ first.stage = "mark" /\ "stage" \in DOMAIN first
        /\ "decision" \in DOMAIN first /\ first.decision \in {"RIGHT", "WRONG"}
        /\ DOMAIN first \cap {"got", "since"} = {}
    BY <1>3 DEF Mark
  <2> HIDE DEF first
  <2> QED BY <2>1, ListingCommand
<1>4. ASSUME NEW t \in Terminals, NEW part, ReadPart(t, part) PROVE ListingInv'
  BY <1>4, ListingReadPart
<1>5. ASSUME NEW t \in Terminals, WriteSelection(t) \/ DecideMark(t) PROVE ListingInv'
  BY <1>5, ListingWriteSelection, ListingDecideMark
<1>6. ASSUME NEW p \in Procs, AppendLine(p) \/ AppendCut(p) PROVE ListingInv'
  BY <1>6, ListingAppends
<1>7. ASSUME NEW p \in Procs, CheckSize(p) \/ ReadContents(p) PROVE ListingInv'
  BY <1>7, ListingCheckSize, ListingReadContents
<1>8. ASSUME NEW p \in Procs, Replace(p) \/ Stop(p) PROVE ListingInv'
  BY <1>8, ListingReplace, ListingStop
<1>9. ASSUME (\E f \in Files : DeleteFile(f)) \/ DeleteSelection PROVE ListingInv'
  BY <1>9, ListingDeletes
<1>10. CASE UNCHANGED vars
  BY <1>10 DEF vars, ListingInv
<1> QED BY <1>1, <1>2, <1>3, <1>4, <1>5, <1>6, <1>7, <1>8, <1>9, <1>10 DEF Next

LEMMA InitListingInv == Init => ListingInv
<1> SUFFICES ASSUME Init PROVE ListingInv
  OBVIOUS
<1>1. PICK history \in Histories, feedback \in Feedbacks :
        LET reviews == Numbered(history)
            answers == Numbered(feedback)
            listed == ListPendingFails(reviews, <<>>).items
        IN  /\ files = [reviews |-> FileOf(AsLines(reviews)), feedback |-> FileOf(AsLines(answers))]
            /\ selection = Selection(listed)
            /\ procs = [p \in Procs |-> Idle]
            /\ clock = Max({0} \cup {history[i].time : i \in DOMAIN history})
            /\ truth = [reviews |-> AllSound(reviews), feedback |-> AllSound(answers),
                        listings |-> <<Selection(listed).items>>]
  BY Zenon DEF Init
<1> DEFINE chosen == Selection(ListPendingFails(Numbered(history), <<>>).items)
           listings == <<chosen.items>>
<1>2. /\ files["reviews"] = FileOf(AsLines(Numbered(history)))
      /\ files["feedback"] = FileOf(AsLines(Numbered(feedback)))
      /\ truth["listings"] = listings /\ selection = chosen
      /\ \A p \in Procs : procs[p] = Idle
  BY <1>1
<1>3. history \in Seq(ReviewLines) /\ feedback \in Seq(AnswerLines)
  BY StartAssumption
<1>4. \A f \in Files : AllLegible(f, files[f].lines)
  <2>1. AllLegible("reviews", AsLines(Numbered(history)))
    BY <1>3, NumberedLegibly DEF Files
  <2>2. AllLegible("feedback", AsLines(Numbered(feedback)))
    BY <1>3, NumberedLegibly DEF Files
  <2>3. /\ files["reviews"].lines = AsLines(Numbered(history))
        /\ files["feedback"].lines = AsLines(Numbered(feedback))
    BY <1>2 DEF FileOf
  <2> QED BY <2>1, <2>2, <2>3 DEF Files
<1>5. clock \in Int
  <2> DEFINE n == Len(history)
             times == [k \in 1..n |-> history[k].time]
  <2>1. n \in Nat /\ DOMAIN history = 1..n
    BY <1>3, ListOfSeq DEF IsList
  <2>2. \A k \in 1..n : history[k] \in ReviewLines
    BY <1>3, <2>1, ElementOfSeq
  <2>3. \A k \in 1..n : times[k] = history[k].time /\ times[k] \in Int
    BY <2>2 DEF ReviewLines
  <2>4. clock = Max({0} \cup {history[i].time : i \in DOMAIN history})
    BY <1>1
  <2> HIDE DEF times, n
  <2>5. {history[i].time : i \in DOMAIN history} = {times[k] : k \in 1..n}
    BY <2>1, <2>3
  <2>6. Max({0} \cup {times[k] : k \in 1..n}) \in Int
    BY <2>1, <2>3, LatestTime
  <2> QED BY <2>4, <2>5, <2>6
<1> HIDE DEF chosen
<1>6. LastListed(selection, truth["listings"])
  <2>1. IsList(listings) /\ Len(listings) = 1 /\ listings[1] = chosen.items
    <3>1. listings \in Seq({chosen.items})
      OBVIOUS
    <3>2. IsList(listings)
      BY <3>1, ListOfSeq
    <3> QED BY <3>2
  <2> HIDE DEF listings
  <2> QED BY <1>2, <2>1 DEF LastListed
<1>7. /\ \A p \in Procs : LegibleJob(procs[p])
      /\ \A t \in Terminals : Pinned(procs[t], truth["listings"])
  BY <1>2, IdleLegible DEF Procs
<1> QED BY <1>4, <1>5, <1>6, <1>7 DEF ListingInv

\* A listed number answers the FAIL it was shown for, and listing and report tell
\* of the same FAILs, whatever is reviewed, answered, rotated, cut short or deleted
\* meanwhile, for any number of processes, sizes, records and histories.
THEOREM StoreListingTruthful == Spec => []ListingTruthful
<1>1. Init => StoreInv /\ ListingInv
  BY InitStoreInv, InitListingInv
<1>2. StoreInv /\ ListingInv /\ [Next]_vars => (StoreInv /\ ListingInv)'
  BY NextStoreInv, NextListingInv
<1>3. StoreInv /\ ListingInv => ListingTruthful
  BY ListingInvGives
<1> QED BY <1>1, <1>2, <1>3, PTL DEF Spec
=============================================================================

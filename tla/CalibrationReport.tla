------------------------- MODULE CalibrationReport -------------------------
(***************************************************************************)
(* The measures of a calibration run (tools/calibration/metrics.ts and     *)
(* buildCheckReport of report.ts), as functions of the samples of a check  *)
(* in the order they arrived.  A probability is a number of hundredths, a  *)
(* rate or a mean the pair of a fraction, a quantile is in ten-thousandths.*)
(***************************************************************************)
EXTENDS Integers, Sequences, FiniteSets
LOCAL INSTANCE SequencesExt
LOCAL INSTANCE FiniteSetsExt

NoProbability == -1
NoMetric == <<>>

\* A sample is [fixture, repeat, label, outcome, probability, reason].
HasProbability(sample) == sample.probability # NoProbability

HowMany(samples, Test(_)) == Cardinality({i \in DOMAIN samples : Test(samples[i])})

Values(samples) ==
  LET judged == SelectSeq(samples, HasProbability)
  IN  [i \in DOMAIN judged |-> judged[i].probability]

----------------------------------------------------------------------------
(* Agreement with the author's labels. *)

ConfusionMatrix(samples, threshold) ==
  LET Cell(violation, predicted) ==
        HowMany(samples, LAMBDA s : HasProbability(s) /\ (s.label = "VIOLATION") = violation
                                      /\ (s.probability >= threshold) = predicted)
  IN  [truePositive |-> Cell(TRUE, TRUE), falsePositive |-> Cell(FALSE, TRUE),
       trueNegative |-> Cell(FALSE, FALSE), falseNegative |-> Cell(TRUE, FALSE)]

Ratio(numerator, denominator) == IF denominator = 0 THEN NoMetric ELSE <<numerator, denominator>>

\* 2pr / (p + r), of the fractions p and r.
HarmonicMean(p, r) ==
  IF NoMetric \in {p, r} \/ (p # NoMetric /\ r # NoMetric /\ p[1] * r[2] + r[1] * p[2] = 0) THEN NoMetric
  ELSE <<2 * p[1] * r[1], p[1] * r[2] + r[1] * p[2]>>

DerivedMetrics(m) ==
  LET precision == Ratio(m.truePositive, m.truePositive + m.falsePositive)
      recall == Ratio(m.truePositive, m.truePositive + m.falseNegative)
  IN  [precision |-> precision, recall |-> recall,
       specificity |-> Ratio(m.trueNegative, m.trueNegative + m.falsePositive),
       f1 |-> HarmonicMean(precision, recall)]

ThresholdRow(samples, threshold) ==
  LET matrix == ConfusionMatrix(samples, threshold)
  IN  [threshold |-> threshold, matrix |-> matrix, metrics |-> DerivedMetrics(matrix)]

OperatingPointsFor(check) == IF check = "scopeCreep" THEN <<65, 90>> ELSE <<50>>

OperatingPoints(check, samples) ==
  LET points == OperatingPointsFor(check)
  IN  [k \in DOMAIN points |-> ThresholdRow(samples, points[k])]

\* In steps of 0.05, and the operating points that are not among them.
ThresholdSweep(samples, extra) ==
  LET steps == [k \in 1..21 |-> 5 * (k - 1)]
      thresholds == SortSeq(steps \o SelectSeq(extra, LAMBDA t : t \notin ToSet(steps)), <)
  IN  [k \in DOMAIN thresholds |-> ThresholdRow(samples, thresholds[k])]

GateStateMatrix(samples) ==
  [cell \in {"VIOLATION", "NO_VIOLATION"} \X {"PASS", "WARN", "FAIL"} |->
     HowMany(samples, LAMBDA s : s.label = cell[1] /\ s.outcome = cell[2])]

AuthorLabelCounts(samples) ==
  [violation |-> HowMany(samples, LAMBDA s : s.label = "VIOLATION"),
   noViolation |-> HowMany(samples, LAMBDA s : s.label # "VIOLATION")]

OperationalCounts(samples) ==
  LET evaluated == HowMany(samples, HasProbability)
      skipped == HowMany(samples, LAMBDA s : ~HasProbability(s) /\ s.outcome = "SKIPPED")
  IN  [attempted |-> Len(samples), evaluated |-> evaluated, skipped |-> skipped,
       unavailable |-> Len(samples) - evaluated - skipped,
       availabilityRate |-> Ratio(evaluated, Len(samples))]

----------------------------------------------------------------------------
(* Distributions. *)

Total(values) == FoldLeft(LAMBDA sum, v : sum + v, 0, values)

\* Between the two closest ranks, at place p/100 * (n - 1) from the first.
Quantile(sorted, p) ==
  LET position == p * (Len(sorted) - 1)
      lower == position \div 100 + 1
      upper == IF lower < Len(sorted) THEN lower + 1 ELSE lower
  IN  100 * sorted[lower] + (position % 100) * (sorted[upper] - sorted[lower])

Summarize(values) ==
  LET sorted == SortSeq(values, <)
  IN  IF values = <<>> THEN NoMetric
      ELSE [count |-> Len(values), min |-> Head(sorted), max |-> Last(sorted),
            mean |-> <<Total(values), Len(values)>>,
            quantiles |-> [p \in {10, 25, 50, 75, 90} |-> Quantile(sorted, p)]]

\* Ten bins; the last one holds 1.00 too.
HistogramIndex(value) == IF value >= 100 THEN 9 ELSE value \div 10

Histogram(values) == [bin \in 0..9 |-> HowMany(values, LAMBDA v : HistogramIndex(v) = bin)]

Distribution(samples) ==
  LET Of(Test(_)) == Values(SelectSeq(samples, Test))
      violation == Of(LAMBDA s : s.label = "VIOLATION")
      noViolation == Of(LAMBDA s : s.label = "NO_VIOLATION")
  IN  [overall |-> Summarize(Values(samples)), histogram |-> Histogram(Values(samples)),
       violation |-> [summary |-> Summarize(violation), histogram |-> Histogram(violation)],
       noViolation |-> [summary |-> Summarize(noViolation), histogram |-> Histogram(noViolation)]]

----------------------------------------------------------------------------
(* Repeats of a fixture. *)

\* Adjacent judged values on opposite sides of the threshold.
ThresholdCrossings(values, threshold) ==
  [crossings |-> Cardinality({k \in 1..Len(values) - 1 :
                                (values[k] >= threshold) # (values[k + 1] >= threshold)}),
   pairs |-> IF values = <<>> THEN 0 ELSE Len(values) - 1]

RepeatSummary(fixture, ordered, threshold) ==
  LET values == Values(ordered)
      n == Len(values)
      counted == ThresholdCrossings(values, threshold)
      Square(v) == v * v
  IN  [fixture |-> fixture, sampleCount |-> Len(ordered), evaluatedCount |-> n,
       mean |-> Ratio(Total(values), n),
       min |-> IF n = 0 THEN NoMetric ELSE <<Min(ToSet(values))>>,
       max |-> IF n = 0 THEN NoMetric ELSE <<Max(ToSet(values))>>,
       variance |-> Ratio(n * Total([k \in 1..n |-> Square(values[k])]) - Square(Total(values)), n * n),
       crossings |-> counted.crossings, flipRate |-> Ratio(counted.crossings, counted.pairs)]

\* The fixtures, in the order of their first samples.
FixturesOf(samples) ==
  FoldLeft(LAMBDA seen, s : IF s.fixture \in ToSet(seen) THEN seen ELSE Append(seen, s.fixture),
           <<>>, samples)

\* Variant of Repeats: the samples stay in the order in which they arrived.
RepeatsAsTheyCame(samples, threshold) ==
  LET fixtures == FixturesOf(samples)
  IN  [k \in DOMAIN fixtures |->
         RepeatSummary(fixtures[k], SelectSeq(samples, LAMBDA s : s.fixture = fixtures[k]), threshold)]

Repeats(samples, threshold) ==
  LET fixtures == FixturesOf(samples)
      Ordered(group) == SortSeq(group, LAMBDA a, b : a.repeat < b.repeat)
  IN  [k \in DOMAIN fixtures |->
         RepeatSummary(fixtures[k], Ordered(SelectSeq(samples, LAMBDA s : s.fixture = fixtures[k])),
                       threshold)]

----------------------------------------------------------------------------

\* What was not judged, with the reason, in the order in which it arrived.
Failures(samples) ==
  LET failed == SelectSeq(samples, LAMBDA s : ~HasProbability(s))
  IN  [k \in DOMAIN failed |-> [fixture |-> failed[k].fixture, reason |-> failed[k].reason]]

\* buildCheckReport: the first operating point is the one repeats are held against.
CheckReport(check, samples) ==
  [operational |-> OperationalCounts(samples),
   authorLabelCounts |-> AuthorLabelCounts(samples),
   operatingPoints |-> OperatingPoints(check, samples),
   gateStateMatrix |-> GateStateMatrix(samples),
   thresholdSweep |-> ThresholdSweep(samples, OperatingPointsFor(check)),
   distribution |-> Distribution(samples),
   repeats |-> Repeats(samples, OperatingPointsFor(check)[1]),
   unavailable |-> Failures(samples)]
=============================================================================

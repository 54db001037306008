------------------------------ MODULE Charts ------------------------------
(***************************************************************************)
(* The charts of the data portal: the horizontal bar chart and the score   *)
(* gauge.  Their sizes and labels are computed properties, which are kept  *)
(* until one of the properties they are declared to depend on changes.     *)
(***************************************************************************)
EXTENDS Integers, Sequences, FiniteSetsExt, SequencesExt

CONSTANTS
  Values,              \* values of a bar, natural numbers
  MaxSeries,           \* bound: bars
  Widths,              \* widths of the element on the page, not 0
  Scores, MaxScores

ASSUME ChartsAssumption ==
  /\ Values \subseteq Nat /\ Widths \subseteq Nat \ {0}
  /\ Scores \subseteq Nat /\ MaxScores \subseteq Nat \ {0} /\ MaxSeries \in Nat

VARIABLES
  series, elementWidth, size,
  height,              \* the height kept from the first rendering
  score, maxScore,
  scoreAsPercentage, chartState,   \* kept until the score changes
  chartMax, chartScore,            \* what the gauge draws
  maxMoved             \* the maximum changed since the score did (ghost)

chartVars == <<series, elementWidth, size, height, score, maxScore, scoreAsPercentage, chartState,
               chartMax, chartScore, maxMoved>>

BAR_HEIGHT == 16
BAR_MARGIN_BOTTOM == 8
LABEL_HEIGHT == 15
LABEL_MARGIN_BOTTOM == 16
HeightModifier == BAR_HEIGHT + BAR_MARGIN_BOTTOM + LABEL_HEIGHT + LABEL_MARGIN_BOTTOM

ChartsTypeOK ==
  /\ series \in BoundedSeq(Values, MaxSeries) /\ elementWidth \in Widths /\ size \in Widths \cup {0}
  /\ height \in {n * HeightModifier : n \in 0..MaxSeries}
  /\ {score, chartScore} \subseteq Scores /\ {maxScore, chartMax} \subseteq MaxScores
  /\ scoreAsPercentage \in Nat /\ chartState \in {"good", "warning", "critical"} /\ maxMoved \in BOOLEAN

-----------------------------------------------------------------------------
(* The bar chart.  The greatest value starts from the least positive number, which is 0    *)
(* among natural numbers: a series of zeros has bars of length 1.                          *)
MaxY(s) == Max(ToSet(s) \cup {0})

Height(s) == Len(s) * HeightModifier

BarLength(value, s) ==
  LET length == IF MaxY(s) = 0 THEN 0 ELSE (value * size) \div MaxY(s) IN IF length > 1 THEN length ELSE 1

YOffset(i) == 1 + (i - 1) * HeightModifier
LabelOffset(i) == YOffset(i) + BAR_HEIGHT + BAR_MARGIN_BOTTOM + LABEL_HEIGHT

Bar(i) == [value |-> series[i], yOffset |-> YOffset(i), barLength |-> BarLength(series[i], series), labelOffset |-> LabelOffset(i)]
SeriesData == [i \in DOMAIN series |-> Bar(i)]

gaugeVars == <<score, maxScore, scoreAsPercentage, chartState, chartMax, chartScore, maxMoved>>

\* Once, when the element is there; a page that gets another width is not measured again.
DidInsertElement == size = 0 /\ size' = elementWidth /\ UNCHANGED <<series, elementWidth, height, gaugeVars>>
Resize(width) == elementWidth' = width /\ UNCHANGED <<series, size, height, gaugeVars>>

\* The height is declared to depend on something else and stays.
SetSeries(s) == series' = s /\ UNCHANGED <<elementWidth, size, height, gaugeVars>>

-----------------------------------------------------------------------------
(* The gauge. *)
Percentage(s, m) == (200 * s + m) \div (2 * m)
ChartState(percentage) == CASE percentage <= 25 -> "critical" [] percentage <= 50 -> "warning" [] OTHER -> "good"

UpdateChart == chartMax' = maxScore' /\ chartScore' = score'

\* Mutant: the state is kept when the score changes.
SetScoreOnly(s) ==
  /\ s # score /\ score' = s /\ maxMoved' = FALSE
  /\ scoreAsPercentage' = Percentage(s, maxScore) /\ UNCHANGED chartState
  /\ UNCHANGED <<maxScore, series, elementWidth, size, height>>
  /\ UpdateChart

SetScore(s) ==
  /\ s # score /\ score' = s /\ maxMoved' = FALSE
  /\ scoreAsPercentage' = Percentage(s, maxScore) /\ chartState' = ChartState(scoreAsPercentage')
  /\ UNCHANGED <<maxScore, series, elementWidth, size, height>>
  /\ UpdateChart

SetMaxScore(m) ==
  /\ m # maxScore /\ maxScore' = m /\ maxMoved' = TRUE
  /\ UNCHANGED <<score, scoreAsPercentage, chartState, series, elementWidth, size, height>>
  /\ UpdateChart

ChartsInit ==
  /\ series \in BoundedSeq(Values, MaxSeries) /\ elementWidth \in Widths /\ size = 0 /\ height = Height(series)
  /\ score \in Scores /\ maxScore \in MaxScores
  /\ scoreAsPercentage = Percentage(score, maxScore) /\ chartState = ChartState(scoreAsPercentage)
  /\ chartMax = maxScore /\ chartScore = score /\ maxMoved = FALSE

ChartsNext ==
  \/ DidInsertElement \/ \E width \in Widths : Resize(width)
  \/ \E s \in BoundedSeq(Values, MaxSeries) : SetSeries(s)
  \/ \E s \in Scores : SetScore(s) \/ \E m \in MaxScores : SetMaxScore(m)

ChartsSpec == ChartsInit /\ [][ChartsNext]_chartVars

-----------------------------------------------------------------------------
\* Every bar can be seen, none is wider than the element was, and a greater value never has
\* the shorter bar.
BarsFit ==
  \A i, j \in DOMAIN series :
    /\ SeriesData[i].barLength >= 1 /\ SeriesData[i].barLength <= Max({1, size})
    /\ series[i] >= series[j] => SeriesData[i].barLength >= SeriesData[j].barLength

\* A bar starts below the label of the bar before it, and the last label is within the
\* chart as long as the series is not longer than the first one.
BarsDoNotOverlap ==
  \A i \in DOMAIN series :
    /\ i > 1 => SeriesData[i].yOffset > SeriesData[i - 1].labelOffset
    /\ height >= Height(series) => SeriesData[i].labelOffset <= height

\* What the gauge says in words, in a number and in its drawing is the same score, unless only
\* the maximum changed since.
GaugeAgrees ==
  /\ chartScore = score /\ chartMax = maxScore
  /\ ~maxMoved => scoreAsPercentage = Percentage(chartScore, chartMax) /\ chartState = ChartState(scoreAsPercentage)
=============================================================================

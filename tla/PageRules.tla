----------------------------- MODULE PageRules -----------------------------
(***************************************************************************)
(* How a page is judged: the features read from it with PyMuPDF and with   *)
(* pdfplumber, and the rules that send it to the local extractor or to     *)
(* Azure.  Ratios and scores are percentages, rounded down; lengths are    *)
(* percentages of the page's width, areas share one unit.                  *)
(***************************************************************************)
EXTENDS Integers, FiniteSets

\* ClassifierThresholds
MinNativeTextChars == 50
MinTextQuality == 60
HighTextQuality == 80
TableScoreThreshold == 30
LineRectDensityThreshold == 25
MaxImageAreaRatio == 35
ImageDominantRatio == 65
ImageDominantMaxTextChars == 20
SimpleConfidenceFloor == 85

Simple == "born_digital_simple"
Complex == "born_digital_complex"

Least(a, b) == IF a <= b THEN a ELSE b
Greatest(a, b) == IF a >= b THEN a ELSE b

-----------------------------------------------------------------------------
\* Features.  A page has text (chars of it alnum, words at the positions xs),
\* an area (0 for a degenerate media box), images, tables (how many, and the
\* sum of their areas, which may overlap) and lines and rectangles.

\* 0.6 * alnum / chars + 0.4 * words / 25, over one denominator.
TextQuality(p) ==
  IF p.chars = 0 THEN 0
  ELSE Least(100, (300 * p.alnum + 8 * Least(25, p.words) * p.chars) \div (5 * p.chars))

ShareOf(p, area) == Least(100, (100 * area) \div p.area)

ImageAreaRatio(p) == IF p.area = 0 THEN 0 ELSE ShareOf(p, p.images)

\* The words' centres, clustered where two neighbours are 12 % of the width apart.
GapsAfter(xs) == {x \in xs : (\E y \in xs : y > x) /\ \A y \in xs : y > x => y - x >= 12}

ColumnEstimate(p) ==
  IF p.words < 8 \/ p.area = 0 THEN 1 ELSE Least(4, 1 + Cardinality(GapsAfter(p.xs)))

NativeFeatures(p) ==
  [chars |-> p.chars, quality |-> TextQuality(p), image |-> ImageAreaRatio(p),
   columns |-> ColumnEstimate(p)]

TableScore(p) ==
  IF p.tables = 0 THEN 0 ELSE IF p.area = 0 THEN 100 ELSE ShareOf(p, p.tableArea)

LineRectDensity(p) == Least(100, 2 * p.lines)

LayoutFeatures(p) == [table |-> TableScore(p), lines |-> LineRectDensity(p)]

\* A page pdfplumber was not asked about.
NoLayout == [table |-> 0, lines |-> 0]

Signals(native, layout) ==
  [chars |-> native.chars, quality |-> native.quality, image |-> native.image,
   columns |-> native.columns, table |-> layout.table, lines |-> layout.lines]

-----------------------------------------------------------------------------
\* Rules.

ImageDominantLowText(s) ==
  s.image >= ImageDominantRatio /\ s.chars <= ImageDominantMaxTextChars

UnreliableText(s) == s.chars < MinNativeTextChars \/ s.quality < MinTextQuality

LayoutComplexity(s) ==
  \/ s.table >= TableScoreThreshold
  \/ s.columns >= 2
  \/ s.lines >= LineRectDensityThreshold

ConfidentlySimple(s) ==
  /\ s.quality >= HighTextQuality
  /\ s.chars >= MinNativeTextChars
  /\ s.image <= MaxImageAreaRatio
  /\ ~LayoutComplexity(s)

ClassifyPage(s) ==
  IF ImageDominantLowText(s) \/ UnreliableText(s) \/ LayoutComplexity(s) THEN Complex
  ELSE IF ConfidentlySimple(s) THEN Simple ELSE Complex

SimpleConfidence(s) ==
  Least(100, Greatest(s.quality, Greatest(100 - s.image, SimpleConfidenceFloor)))

ComplexConfidence(s) == Least(s.quality, SimpleConfidenceFloor - 1)

Confidence(s) == IF ClassifyPage(s) = Simple THEN SimpleConfidence(s) ELSE ComplexConfidence(s)

\* Mutant of DefinitelyComplex: pages that look simple are not looked at again.
DecidedWithoutLayout(s) ==
  ImageDominantLowText(s) \/ UnreliableText(s) \/ s.columns >= 2 \/ ConfidentlySimple(s)

\* is_definitely_complex_from_pymupdf
DefinitelyComplex(s) == ImageDominantLowText(s) \/ UnreliableText(s) \/ s.columns >= 2
=============================================================================

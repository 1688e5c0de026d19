------------------------ MODULE PageAnalysis_proofs ------------------------
(***************************************************************************)
(* What holds of the classifier for every page there can be: reading fewer *)
(* pages with pdfplumber changes no class, and the confidence tells the    *)
(* two classes apart.  What holds of the parser and of the search for      *)
(* every document and every answer of Azure's: the pages asked for, the    *)
(* extracts kept and the pages shown are the right ones.                   *)
(***************************************************************************)
EXTENDS PageAnalysis, FiniteSetTheorems, WellFoundedInduction, TLAPS

\* A page the native features decide is complex whatever pdfplumber would say
\* of it, which is what the docstring of is_definitely_complex_from_pymupdf
\* (rules.py) promises.
THEOREM NativeDecides ==
  ASSUME NEW n, NEW layout, DefinitelyComplex(Signals(n, NoLayout))
  PROVE  ClassifyPage(Signals(n, layout)) = Complex
BY DEF DefinitelyComplex, ClassifyPage, Signals, NoLayout, ImageDominantLowText,
       UnreliableText, LayoutComplexity

\* A page is called simple exactly when it passes every test of
\* _is_confidently_simple and is no picture with a caption.
LEMMA SimpleIsConfident ==
  ASSUME NEW n, NEW layout, n.chars \in Int, n.quality \in Int
  PROVE  LET s == Signals(n, layout)
         IN  ClassifyPage(s) = Simple <=> ConfidentlySimple(s) /\ ~ImageDominantLowText(s)
<1>1. Simple # Complex
  BY DEF Simple, Complex
<1> QED
  BY <1>1 DEF ClassifyPage, Signals, UnreliableText, LayoutComplexity, ConfidentlySimple,
              MinNativeTextChars, MinTextQuality, HighTextQuality

\* The confidence of a simple page is at least the floor and that of a complex
\* page below it, so that the number alone tells the class.
\* (_simple_confidence and _complex_confidence, rules.py.)
THEOREM ConfidenceTellsClass ==
  ASSUME NEW s, s.quality \in Int, s.image \in Int
  PROVE  Confidence(s) >= SimpleConfidenceFloor <=> ClassifyPage(s) = Simple
<1>1. SimpleConfidence(s) >= SimpleConfidenceFloor
  BY DEF SimpleConfidence, Least, Greatest, SimpleConfidenceFloor
<1>2. ComplexConfidence(s) \in Int /\ ComplexConfidence(s) < SimpleConfidenceFloor
  BY DEF ComplexConfidence, Least, SimpleConfidenceFloor
<1> QED
  BY <1>1, <1>2 DEF Confidence, SimpleConfidenceFloor

-----------------------------------------------------------------------------
\* The length and the quality of a page's text are integers, without text too.
LEMMA TextFeatures ==
  ASSUME NEW p \in PageRecord
  PROVE  NativeFeatures(p).chars \in Int /\ NativeFeatures(p).quality \in Int
<1>1. p.chars \in Nat /\ p.alnum \in Nat /\ p.words \in Nat
  BY DEF PageRecord
<1>2. TextQuality(p) \in Int
  <2>1. CASE p.chars = 0
    BY <2>1 DEF TextQuality
  <2>2. CASE p.chars # 0
    <3> DEFINE n == 300 * p.alnum + 8 * Least(25, p.words) * p.chars
               q == n \div (5 * p.chars)
    <3>1. n \in Int
      BY <1>1 DEF Least
    <3>2. 5 * p.chars \in Int /\ 5 * p.chars > 0
      BY <1>1, <2>2
    <3> HIDE DEF n
    <3>3. q \in Int
      BY <3>1, <3>2
    <3> HIDE DEF q
    <3>4. Least(100, q) \in Int
      BY <3>3 DEF Least
    <3> QED
      BY <3>4, <2>2 DEF TextQuality, n, q
  <2> QED
    BY <2>1, <2>2
<1> QED
  BY <1>1, <1>2 DEF NativeFeatures

-----------------------------------------------------------------------------
\* The class ClassifyPages gives, and the state a run must be in for it.
Decided(p) ==
  ClassifyPage(Signals(native[p], IF p \in Borderline THEN LayoutFeatures(doc[p]) ELSE NoLayout))

Progress ==
  /\ doc \in Documents
  /\ pc = "native" => class = <<>>
  /\ pc = "layout" \/ class # <<>> => native = [p \in Pages |-> NativeFeatures(doc[p])]
  /\ class # <<>> => class = [p \in Pages |-> Decided(p)]

LEMMA ProgressStep == Progress /\ [Next]_vars => Progress'
<1> SUFFICES ASSUME Progress, [Next]_vars
             PROVE  Progress'
  OBVIOUS
<1> USE DEF Pages, Borderline, Decided
<1>1. CASE UNCHANGED vars
  BY <1>1 DEF Progress, vars, read
<1>2. CASE ExtractNative
  BY <1>2 DEF Progress, ExtractNative, read
<1>3. CASE ClassifyPages
  BY <1>3 DEF Progress, ClassifyPages, read
<1>4. ASSUME UNCHANGED <<doc, native, class>>, pc' \notin {"native", "layout"}
      PROVE  Progress'
  BY <1>4 DEF Progress
<1>5. ASSUME NEW label, Raise(label)
      PROVE  Progress'
  BY <1>4, <1>5 DEF Raise, read
<1>6. CASE ReadSimplePages \/ BeginAnalyze \/ Sleep \/ \E pages \in Answers : FetchResult(pages)
  BY <1>4, <1>6 DEF ReadSimplePages, BeginAnalyze, Sleep, FetchResult, read
<1>7. CASE RestartUnclassified
  BY <1>4, <1>7 DEF RestartUnclassified, read
<1>8. CASE \E outcome \in {"succeeded", "failed"} : AzureEnds(outcome)
  BY <1>8 DEF Progress, AzureEnds, read
<1>9. ASSUME NEW es, Show(es)
      PROVE  Progress'
  BY <1>4, <1>9 DEF Show, read
<1>10. CASE Own
  BY <1>2, <1>3, <1>5, <1>6, <1>10 DEF Own, LayoutRaises, ReadingRaises, TimeOut, AnalysisFailed
<1> QED
  BY <1>1, <1>7, <1>8, <1>9, <1>10 DEF Next, SearchPages, GetPage

LEMMA ProgressDecides == Progress => ShortcutAgrees
<1> SUFFICES ASSUME Progress, class # <<>>, NEW p \in Pages
             PROVE  LET full == Signals(NativeFeatures(doc[p]), LayoutFeatures(doc[p]))
                    IN  /\ class[p] = ClassifyPage(full)
                        /\ class[p] = Simple <=> ConfidentlySimple(full) /\ ~ImageDominantLowText(full)
  BY DEF ShortcutAgrees
<1> DEFINE n == NativeFeatures(doc[p])
           full == Signals(n, LayoutFeatures(doc[p]))
<1>1. native[p] = n /\ class[p] = Decided(p)
  BY DEF Progress
<1>2. doc[p] \in PageRecord
  BY AnalysisAssumption DEF Progress, Pages
<1>3. class[p] = ClassifyPage(full)
  <2>1. CASE p \in Borderline
    BY <1>1, <2>1 DEF Decided
  <2>2. CASE p \notin Borderline
    <3>1. DefinitelyComplex(Signals(n, NoLayout))
      BY <1>1, <2>2 DEF Borderline
    <3>2. ClassifyPage(full) = Complex /\ ClassifyPage(Signals(n, NoLayout)) = Complex
      BY <3>1, NativeDecides
    <3> QED
      BY <1>1, <2>2, <3>2 DEF Decided
  <2> QED
    BY <2>1, <2>2
<1>4. n.chars \in Int /\ n.quality \in Int
  BY <1>2, TextFeatures
<1>5. ClassifyPage(full) = Simple <=> ConfidentlySimple(full) /\ ~ImageDominantLowText(full)
  BY <1>4, SimpleIsConfident
<1> QED
  BY <1>3, <1>5

\* In every run over every document, a page's class is the one all its features
\* would give it, although pdfplumber has only read the pages PyMuPDF left open.
\* (PdfClassificationService.classify_bytes.)
THEOREM ShortcutIsSound == Spec => []ShortcutAgrees
<1>1. Init => Progress
  BY DEF Init, Progress, Pages
<1> QED
  BY <1>1, ProgressStep, ProgressDecides, PTL DEF Spec

-----------------------------------------------------------------------------
\* A finite set under a strict total order, given as the set of its pairs, can
\* be written down in order: a member's place is the number of members up to it.
LEMMA InOrder ==
  ASSUME NEW S, IsFiniteSet(S), NEW R,
         \A x \in S : <<x, x>> \notin R,
         \A x, y, z \in S : <<x, y>> \in R /\ <<y, z>> \in R => <<x, z>> \in R,
         \A x, y \in S : x # y => <<x, y>> \in R \/ <<y, x>> \in R
  PROVE  \E s \in [1..Cardinality(S) -> S] :
           IsInjective(s) /\ \A i, j \in DOMAIN s : i < j => <<s[j], s[i]>> \notin R
<1> DEFINE UpTo(x) == {y \in S : <<y, x>> \in R} \cup {x}
           N == 1..Cardinality(S)
<1>1. \A x \in S : UpTo(x) \in SUBSET S /\ IsFiniteSet(UpTo(x)) /\ Cardinality(UpTo(x)) \in N
  <2> TAKE x \in S
  <2>1. UpTo(x) \in SUBSET S /\ x \in UpTo(x)
    OBVIOUS
  <2> HIDE DEF UpTo
  <2>2. IsFiniteSet(UpTo(x)) /\ Cardinality(UpTo(x)) <= Cardinality(S)
    BY <2>1, FS_Subset
  <2>3. Cardinality(UpTo(x)) \in Nat /\ Cardinality(S) \in Nat /\ Cardinality(UpTo(x)) # 0
    BY <2>1, <2>2, FS_CardinalityType, FS_EmptySet
  <2> QED
    BY <2>1, <2>2, <2>3
<1>2. \A x, y \in S : <<x, y>> \in R => Cardinality(UpTo(x)) < Cardinality(UpTo(y))
  <2> SUFFICES ASSUME NEW x \in S, NEW y \in S, <<x, y>> \in R
               PROVE  Cardinality(UpTo(x)) < Cardinality(UpTo(y))
    OBVIOUS
  <2>1. UpTo(x) \in SUBSET UpTo(y) /\ y \in UpTo(y) /\ y \notin UpTo(x)
    OBVIOUS
  <2> HIDE DEF UpTo
  <2>2. Cardinality(UpTo(x)) <= Cardinality(UpTo(y)) /\ Cardinality(UpTo(y)) # Cardinality(UpTo(x))
    BY <1>1, <2>1, FS_Subset
  <2> QED
    BY <1>1, <2>2
<1> HIDE DEF UpTo
<1> DEFINE place == [x \in S |-> Cardinality(UpTo(x))]
<1>3. place \in Injection(S, N)
  <2>1. place \in [S -> N]
    BY <1>1
  <2>2. ASSUME NEW x \in S, NEW y \in S, place[x] = place[y]
        PROVE  x = y
    <3>1. Cardinality(UpTo(x)) \in Int /\ Cardinality(UpTo(y)) = Cardinality(UpTo(x))
      BY <1>1, <2>2
    <3>2. <<x, y>> \notin R /\ <<y, x>> \notin R
      BY <1>2, <3>1
    <3> QED
      BY <3>2
  <2> QED
    BY <2>1, <2>2 DEF Injection, IsInjective
<1>4. IsFiniteSet(N) /\ Cardinality(N) = Cardinality(S) /\ Cardinality(S) \in Nat
  BY FS_Interval, FS_CardinalityType
<1>5. place \in Surjection(S, N)
  <2> HIDE DEF N, place
  <2> QED
    BY <1>3, <1>4, FS_Injection
<1>6. \A i \in N : \E x \in S : place[x] = i
  BY <1>5 DEF Surjection
<1> DEFINE s == [i \in N |-> CHOOSE x \in S : place[x] = i]
<1>7. \A i \in N : s[i] \in S /\ place[s[i]] = i
  BY <1>6
<1> HIDE DEF place
<1>8. s \in [N -> S] /\ IsInjective(s)
  BY <1>7 DEF IsInjective
<1>9. \A i, j \in N : i < j => <<s[j], s[i]>> \notin R
  <2> SUFFICES ASSUME NEW i \in N, NEW j \in N, i < j, <<s[j], s[i]>> \in R
               PROVE  FALSE
    OBVIOUS
  <2>1. place[s[j]] < place[s[i]]
    BY <1>2, <1>7 DEF place
  <2> QED
    BY <1>7, <2>1, <1>4
<1> HIDE DEF s
<1> QED
  BY <1>8, <1>9

\* A sequence without repetition as long as a set, of that set's members, has
\* them all.
LEMMA Exhausts ==
  ASSUME NEW S, IsFiniteSet(S), NEW s \in [1..Cardinality(S) -> S], IsInjective(s)
  PROVE  Range(s) = S /\ s \in Seq(S) /\ Len(s) = Cardinality(S) /\ Cardinality(S) \in Nat
<1>1. Cardinality(S) \in Nat
  BY FS_CardinalityType
<1> DEFINE N == 1..Cardinality(S)
<1>2. IsFiniteSet(N) /\ Cardinality(N) = Cardinality(S)
  BY <1>1, FS_Interval
<1>3. s \in Injection(N, S)
  BY DEF Injection
<1>4. s \in Surjection(N, S)
  <2> HIDE DEF N
  <2> QED
    BY <1>2, <1>3, FS_Injection
<1>5. Range(s) = S
  BY <1>4 DEF Surjection, Range
<1> QED
  BY <1>1, <1>5

\* Ascending writes the members of a finite set of numbers down in their order.
LEMMA AscendingOrder ==
  ASSUME NEW S \in SUBSET Nat, IsFiniteSet(S)
  PROVE  /\ Ascending(S) \in Seq(S)
         /\ Len(Ascending(S)) = Cardinality(S)
         /\ Range(Ascending(S)) = S
         /\ \A i, j \in DOMAIN Ascending(S) : i < j => Ascending(S)[i] < Ascending(S)[j]
<1>1. PICK R : R = {t \in S \X S : t[1] < t[2]}
  OBVIOUS
<1>2. \A x, y \in S : <<x, y>> \in R <=> x < y
  BY <1>1
<1>3. /\ \A x \in S : <<x, x>> \notin R
      /\ \A x, y, z \in S : <<x, y>> \in R /\ <<y, z>> \in R => <<x, z>> \in R
      /\ \A x, y \in S : x # y => <<x, y>> \in R \/ <<y, x>> \in R
  BY <1>2
<1>4. PICK s \in [1..Cardinality(S) -> S] :
        IsInjective(s) /\ \A i, j \in DOMAIN s : i < j => <<s[j], s[i]>> \notin R
  BY <1>3, InOrder
<1>5. \A i, j \in DOMAIN s : i < j => ~(s[j] < s[i])
  BY <1>2, <1>4
<1>6. /\ Ascending(S) \in [1..Cardinality(S) -> S]
      /\ IsInjective(Ascending(S))
      /\ \A i, j \in DOMAIN Ascending(S) : i < j => ~(Ascending(S)[j] < Ascending(S)[i])
  BY <1>4, <1>5 DEF Ascending, Sorted
<1>7. ASSUME NEW i \in DOMAIN Ascending(S), NEW j \in DOMAIN Ascending(S), i < j
      PROVE  Ascending(S)[i] < Ascending(S)[j]
  <2>1. Ascending(S)[i] \in Nat /\ Ascending(S)[j] \in Nat /\ ~(Ascending(S)[j] < Ascending(S)[i])
    BY <1>6, <1>7
  <2>2. i \in Int /\ j \in Int /\ i # j
    BY <1>6, <1>7
  <2>3. Ascending(S)[i] # Ascending(S)[j]
    BY <1>6, <2>2 DEF IsInjective
  <2> QED
    BY <2>1, <2>3
<1> QED
  BY <1>6, <1>7, Exhausts

\* ByPage, of extracts of different pages.
LEMMA ByPageOrder ==
  ASSUME NEW S, IsFiniteSet(S),
         \A e, f \in S : e.page \in Nat /\ (e.page = f.page => e = f)
  PROVE  /\ ByPage(S) \in Seq(S)
         /\ Range(ByPage(S)) = S
         /\ \A i, j \in DOMAIN ByPage(S) : i < j => ByPage(S)[i].page < ByPage(S)[j].page
<1>1. PICK R : R = {t \in S \X S : t[1].page < t[2].page}
  OBVIOUS
<1>2. \A x, y \in S : <<x, y>> \in R <=> x.page < y.page
  BY <1>1
<1>3. /\ \A x \in S : <<x, x>> \notin R
      /\ \A x, y, z \in S : <<x, y>> \in R /\ <<y, z>> \in R => <<x, z>> \in R
      /\ \A x, y \in S : x # y => <<x, y>> \in R \/ <<y, x>> \in R
  BY <1>2
<1>4. PICK s \in [1..Cardinality(S) -> S] :
        IsInjective(s) /\ \A i, j \in DOMAIN s : i < j => <<s[j], s[i]>> \notin R
  BY <1>3, InOrder
<1>5. \A i, j \in DOMAIN s : i < j => ~(s[j].page < s[i].page)
  BY <1>2, <1>4
<1>6. /\ ByPage(S) \in [1..Cardinality(S) -> S]
      /\ IsInjective(ByPage(S))
      /\ \A i, j \in DOMAIN ByPage(S) : i < j => ~(ByPage(S)[j].page < ByPage(S)[i].page)
  BY <1>4, <1>5 DEF ByPage, Sorted
<1>7. \A i, j \in DOMAIN ByPage(S) : i < j => ByPage(S)[i].page < ByPage(S)[j].page
  BY <1>6 DEF IsInjective
<1> QED
  BY <1>6, <1>7, Exhausts

-----------------------------------------------------------------------------
\* The terms of a query that a page says are finitely many, and none only if
\* the page says none.
LEMMA ScoreCounts ==
  ASSUME NEW query \in SUBSET Terms, NEW e
  PROVE  Score(query, e) \in Nat /\ (Score(query, e) > 0 <=> query \cap e.says # {})
<1>1. query \cap e.says \in SUBSET Terms /\ IsFiniteSet(Terms)
  BY AnalysisAssumption
<1>2. IsFiniteSet(query \cap e.says)
  BY <1>1, FS_Subset
<1>3. /\ Cardinality(query \cap e.says) \in Nat
      /\ Cardinality(query \cap e.says) = 0 <=> query \cap e.says = {}
  BY <1>2, FS_CardinalityType, FS_EmptySet
<1> QED
  BY <1>3 DEF Score

\* ByScore ranks every extract, and none behind one with fewer of the terms.
LEMMA ByScoreOrder ==
  ASSUME NEW query \in SUBSET Terms, NEW S, IsFiniteSet(S),
         \A e, f \in S : e.page \in Nat /\ (e.page = f.page => e = f)
  PROVE  /\ ByScore(query, S) \in Seq(S)
         /\ Range(ByScore(query, S)) = S
         /\ \A i, j \in DOMAIN ByScore(query, S) :
              i < j => Score(query, ByScore(query, S)[i]) >= Score(query, ByScore(query, S)[j])
<1>1. PICK R : R = {t \in S \X S : Better(query, t[1], t[2])}
  OBVIOUS
<1>2. \A x, y \in S : <<x, y>> \in R <=> Better(query, x, y)
  BY <1>1
<1>3. \A x \in S : Score(query, x) \in Nat /\ x.page \in Nat
  BY ScoreCounts
<1>4. /\ \A x \in S : <<x, x>> \notin R
      /\ \A x, y, z \in S : <<x, y>> \in R /\ <<y, z>> \in R => <<x, z>> \in R
      /\ \A x, y \in S : x # y => <<x, y>> \in R \/ <<y, x>> \in R
  BY <1>2, <1>3 DEF Better
<1>5. PICK s \in [1..Cardinality(S) -> S] :
        IsInjective(s) /\ \A i, j \in DOMAIN s : i < j => <<s[j], s[i]>> \notin R
  BY <1>4, InOrder
<1>6. \A i, j \in DOMAIN s : i < j => ~Better(query, s[j], s[i])
  BY <1>2, <1>5
<1>7. /\ ByScore(query, S) \in [1..Cardinality(S) -> S]
      /\ IsInjective(ByScore(query, S))
      /\ \A i, j \in DOMAIN ByScore(query, S) :
           i < j => ~Better(query, ByScore(query, S)[j], ByScore(query, S)[i])
  BY <1>5, <1>6 DEF ByScore, Sorted
<1>8. ASSUME NEW i \in DOMAIN ByScore(query, S), NEW j \in DOMAIN ByScore(query, S), i < j
      PROVE  Score(query, ByScore(query, S)[i]) >= Score(query, ByScore(query, S)[j])
  BY <1>3, <1>7, <1>8 DEF Better
<1> QED
  BY <1>7, <1>8, Exhausts

-----------------------------------------------------------------------------
\* A set of numbers that is not empty has a least member.
LEMMA LeastNumber ==
  ASSUME NEW T \in SUBSET Nat, T # {}
  PROVE  \E n \in T : \A m \in T : n <= m
<1>1. IsWellFoundedOn(OpToRel(<, Nat), Nat)
  BY NatLessThanWellFounded
<1>2. PICK n \in T : \A m \in T : <<m, n>> \notin OpToRel(<, Nat)
  BY <1>1, WFMin
<1>3. ASSUME NEW m \in T, m < n
      PROVE  FALSE
  <2>1. <<m, n>> \in Nat \X Nat /\ <<m, n>>[1] < <<m, n>>[2]
    BY <1>3
  <2> QED
    BY <1>2, <2>1 DEF OpToRel
<1> QED
  BY <1>3

\* The equation of FoldLeft(AddPage, <<>>, ps), of which FoldLeft chooses a
\* solution, over the first k members of ps.
FoldsUpTo(k, ps, g) ==
  g = [s \in SUBSET (1..k) |->
         IF s = {} THEN <<>> ELSE AddPage(g[s \ {Max(s)}], ps[Max(s)])]

\* A solution for k members is one for k + 1 with the last added to it.
LEMMA FoldExtends ==
  ASSUME NEW ps, NEW k \in Nat, NEW g, FoldsUpTo(k, ps, g)
  PROVE  \E h : FoldsUpTo(k + 1, ps, h)
<1>1. PICK h : h = [s \in SUBSET (1..k + 1) |->
                      IF k + 1 \in s THEN AddPage(g[s \ {k + 1}], ps[k + 1]) ELSE g[s]]
  OBVIOUS
<1>2. \A s \in SUBSET (1..k + 1) : k + 1 \notin s => s \in SUBSET (1..k) /\ h[s] = g[s]
  BY <1>1
<1>3. ASSUME NEW s \in SUBSET (1..k + 1), k + 1 \in s
      PROVE  h[s] = AddPage(h[s \ {Max(s)}], ps[Max(s)])
  <2>1. Max(s) = k + 1
    <3>1. \A x \in s : x \in Int /\ x <= k + 1
      OBVIOUS
    <3>2. \A x \in s : (\A y \in s : x >= y) <=> x = k + 1
      BY <1>3, <3>1
    <3> QED
      BY <1>3, <3>2 DEF Max
  <2>2. s \ {k + 1} \in SUBSET (1..k + 1) /\ k + 1 \notin s \ {k + 1}
    OBVIOUS
  <2>3. h[s \ {k + 1}] = g[s \ {k + 1}] /\ h[s] = AddPage(g[s \ {k + 1}], ps[k + 1])
    BY <1>1, <1>2, <1>3, <2>2
  <2> QED
    BY <2>1, <2>3
<1>4. ASSUME NEW s \in SUBSET (1..k + 1), k + 1 \notin s, s # {}
      PROVE  h[s] = AddPage(h[s \ {Max(s)}], ps[Max(s)])
  <2>1. PICK m : m = Max(s)
    OBVIOUS
  <2>2. h[s] = g[s] /\ h[s \ {m}] = g[s \ {m}] /\ s \in SUBSET (1..k)
    BY <1>2, <1>4
  <2>3. g[s] = AddPage(g[s \ {m}], ps[m])
    BY <1>4, <2>1, <2>2 DEF FoldsUpTo
  <2> QED
    BY <2>1, <2>2, <2>3
<1>5. h[{}] = <<>>
  <2>1. h[{}] = g[{}]
    BY <1>2
  <2> QED
    BY <2>1 DEF FoldsUpTo
<1>6. \A s \in SUBSET (1..k + 1) :
        h[s] = IF s = {} THEN <<>> ELSE AddPage(h[s \ {Max(s)}], ps[Max(s)])
  BY <1>3, <1>4, <1>5
<1>7. DOMAIN h = SUBSET (1..k + 1) /\ h = [s \in SUBSET (1..k + 1) |-> h[s]]
  BY <1>1
<1> QED
  BY <1>6, <1>7 DEF FoldsUpTo

LEMMA FoldExists ==
  ASSUME NEW ps, NEW k \in Nat
  PROVE  \E g : FoldsUpTo(k, ps, g)
<1> SUFFICES ASSUME ~\E g : FoldsUpTo(k, ps, g)
             PROVE  FALSE
  OBVIOUS
<1>1. PICK T : T = {n \in Nat : ~\E g : FoldsUpTo(n, ps, g)}
  OBVIOUS
<1>2. PICK n \in T : \A m \in T : n <= m
  <2>1. T \in SUBSET Nat /\ T # {}
    BY <1>1
  <2> QED
    BY <2>1, LeastNumber
<1>3. n # 0
  <2>1. PICK g : g = [s \in SUBSET (1..0) |-> <<>>]
    OBVIOUS
  <2>2. \A s \in SUBSET (1..0) : s = {}
    OBVIOUS
  <2>3. g = [s \in SUBSET (1..0) |->
               IF s = {} THEN <<>> ELSE AddPage(g[s \ {Max(s)}], ps[Max(s)])]
    BY <2>1, <2>2
  <2>4. FoldsUpTo(0, ps, g)
    BY <2>3 DEF FoldsUpTo
  <2> QED
    BY <1>1, <1>2, <2>4
<1>4. n - 1 \in Nat /\ n - 1 \notin T
  BY <1>1, <1>2, <1>3
<1>5. PICK g : FoldsUpTo(n - 1, ps, g)
  BY <1>1, <1>4
<1>6. \E h : FoldsUpTo(n - 1 + 1, ps, h)
  BY <1>4, <1>5, FoldExtends
<1>7. n - 1 + 1 = n
  BY <1>1, <1>2
<1> QED
  BY <1>1, <1>2, <1>6, <1>7

\* What the fold has built after each of its steps.
LEMMA FoldByPrefix ==
  ASSUME NEW ps, NEW n \in Nat, DOMAIN ps = 1..n
  PROVE  \E h : /\ h[0] = <<>>
                /\ \A i \in 1..n : h[i] = AddPage(h[i - 1], ps[i])
                /\ h[n] = FoldLeft(AddPage, <<>>, ps)
<1>1. PICK g : g = CHOOSE f : FoldsUpTo(n, ps, f)
  OBVIOUS
<1>2. FoldsUpTo(n, ps, g)
  BY <1>1, FoldExists
<1>3. FoldLeft(AddPage, <<>>, ps) = g[1..n]
  BY <1>1 DEF FoldLeft, MapThenFoldSet, FoldsUpTo
<1>4. PICK h : h = [i \in 0..n |-> g[1..i]]
  OBVIOUS
<1>5. h[0] = <<>>
  <2>1. {} \in SUBSET (1..n) /\ 1..0 = {} /\ 0 \in 0..n
    OBVIOUS
  <2> QED
    BY <1>2, <1>4, <2>1 DEF FoldsUpTo
<1>6. ASSUME NEW i \in 1..n
      PROVE  h[i] = AddPage(h[i - 1], ps[i])
  <2>1. Max(1..i) = i
    <3>1. \A x \in 1..i : (\A y \in 1..i : x >= y) <=> x = i
      OBVIOUS
    <3>2. i \in 1..i
      OBVIOUS
    <3> QED
      BY <3>1, <3>2 DEF Max
  <2>2. 1..i \in SUBSET (1..n) /\ 1..i # {} /\ (1..i) \ {i} = 1..i - 1
    <3>1. \A x : x \in 1..i => x \in 1..n
      OBVIOUS
    <3>2. i \in 1..i
      OBVIOUS
    <3>3. \A x : x \in (1..i) \ {i} <=> x \in 1..i - 1
      OBVIOUS
    <3> QED
      BY <3>1, <3>2, <3>3
  <2>3. g[1..i] = AddPage(g[1..i - 1], ps[i])
    BY <1>2, <2>1, <2>2 DEF FoldsUpTo
  <2> QED
    BY <1>4, <2>3
<1>7. h[n] = FoldLeft(AddPage, <<>>, ps)
  BY <1>3, <1>4
<1> QED
  BY <1>5, <1>6, <1>7

-----------------------------------------------------------------------------
\* The ranges name the pages of S and no other, in the fewest ranges.
Covers(ranges, S) ==
  /\ ranges \in Seq(Nat \X Nat)
  /\ \A x : x \in S <=> \E i \in DOMAIN ranges : x \in ranges[i][1] .. ranges[i][2]
  /\ \A i \in DOMAIN ranges : ranges[i][1] <= ranges[i][2]
  /\ \A i \in 1..Len(ranges) - 1 : ranges[i][2] + 1 < ranges[i + 1][1]

\* A page behind the last range widens it or opens one of its own.
LEMMA AddPageCovers ==
  ASSUME NEW r, NEW S, Covers(r, S), NEW p \in Nat, r # <<>> => Last(r)[2] < p
  PROVE  /\ Covers(AddPage(r, p), S \cup {p})
         /\ AddPage(r, p) # <<>> /\ Last(AddPage(r, p))[2] = p
<1>1. PICK n \in Nat : n = Len(r) /\ DOMAIN r = 1..n /\ r \in [1..n -> Nat \X Nat]
  BY DEF Covers
<1>2. CASE r # <<>> /\ p = Last(r)[2] + 1
  <2>1. n # 0 /\ Last(r) = r[n]
    BY <1>1, <1>2 DEF Last, Covers
  <2>2. PICK q : q = AddPage(r, p)
    OBVIOUS
  <2>3. q = Append(SubSeq(r, 1, n - 1), <<r[n][1], p>>)
    BY <1>1, <1>2, <2>1, <2>2 DEF AddPage, Front
  <2>4. /\ q \in Seq(Nat \X Nat) /\ Len(q) = n /\ DOMAIN q = 1..n
        /\ \A i \in 1..n - 1 : q[i] = r[i]
        /\ q[n] = <<r[n][1], p>>
    <3>1. PICK t : t = SubSeq(r, 1, n - 1)
      OBVIOUS
    <3>2. t \in Seq(Nat \X Nat) /\ Len(t) = n - 1 /\ \A i \in 1..n - 1 : t[i] = r[i]
      BY <1>1, <2>1, <3>1 DEF Covers
    <3>3. <<r[n][1], p>> \in Nat \X Nat
      BY <1>1, <2>1
    <3>4. q = Append(t, <<r[n][1], p>>)
      BY <2>3, <3>1
    <3> QED
      BY <2>1, <3>2, <3>3, <3>4
  <2>5. r[n][1] \in Nat /\ r[n][2] \in Nat /\ r[n][1] <= r[n][2] /\ p = r[n][2] + 1
    BY <1>1, <1>2, <2>1 DEF Covers
  <2>6. \A x : x \in q[n][1] .. q[n][2] <=> x \in r[n][1] .. r[n][2] \/ x = p
    BY <2>4, <2>5
  <2>7. \A x : x \in S \cup {p} <=> \E i \in DOMAIN q : x \in q[i][1] .. q[i][2]
    <3>1. ASSUME NEW x
          PROVE  x \in S \cup {p} <=> \E i \in 1..n : x \in q[i][1] .. q[i][2]
      <4>1. (\E i \in 1..n : x \in q[i][1] .. q[i][2])
              <=> (\E i \in 1..n - 1 : x \in r[i][1] .. r[i][2]) \/ x \in q[n][1] .. q[n][2]
        <5>1. \A i : i \in 1..n <=> i \in 1..n - 1 \/ i = n
          BY <2>1
        <5>2. \A i \in 1..n - 1 : q[i][1] .. q[i][2] = r[i][1] .. r[i][2]
          BY <2>4
        <5> HIDE <2>4
        <5> QED
          BY <5>1, <5>2
      <4>2. x \in S
              <=> (\E i \in 1..n - 1 : x \in r[i][1] .. r[i][2]) \/ x \in r[n][1] .. r[n][2]
        BY <1>1, <2>1 DEF Covers
      <4> QED
        BY <2>6, <4>1, <4>2
    <3> QED
      BY <2>4, <3>1
  <2>8. ASSUME NEW i \in DOMAIN q
        PROVE  q[i][1] <= q[i][2]
    <3>1. CASE i = n
      BY <2>4, <2>5, <3>1
    <3>2. CASE i # n
      <4>1. i \in 1..n - 1 /\ i \in 1..n
        BY <2>4, <3>2
      <4>2. q[i] = r[i] /\ r[i][1] <= r[i][2]
        BY <1>1, <2>4, <4>1 DEF Covers
      <4> QED
        BY <4>2
    <3> QED
      BY <3>1, <3>2
  <2>9. ASSUME NEW i \in 1..n - 1
        PROVE  q[i][2] + 1 < q[i + 1][1]
    <3>1. q[i] = r[i] /\ r[i][2] + 1 < r[i + 1][1]
      BY <1>1, <2>4 DEF Covers
    <3>2. q[i + 1][1] = r[i + 1][1]
      <4>1. CASE i + 1 = n
        BY <2>4, <4>1
      <4>2. CASE i + 1 # n
        <5>1. i + 1 \in 1..n - 1
          BY <4>2
        <5> QED
          BY <2>4, <5>1
      <4> QED
        BY <4>1, <4>2
    <3> QED
      BY <3>1, <3>2
  <2>10. q # <<>> /\ Last(q)[2] = p
    BY <2>1, <2>4 DEF Last
  <2> QED
    BY <2>2, <2>4, <2>7, <2>8, <2>9, <2>10 DEF Covers
<1>3. CASE ~(r # <<>> /\ p = Last(r)[2] + 1)
  <2>1. PICK q : q = AddPage(r, p)
    OBVIOUS
  <2>2. q = Append(r, <<p, p>>)
    BY <1>3, <2>1 DEF AddPage
  <2>3. /\ q \in Seq(Nat \X Nat) /\ Len(q) = n + 1 /\ DOMAIN q = 1..n + 1
        /\ \A i \in 1..n : q[i] = r[i]
        /\ q[n + 1] = <<p, p>>
    BY <1>1, <2>2 DEF Covers
  <2>4. \A x : x \in S \cup {p} <=> \E i \in DOMAIN q : x \in q[i][1] .. q[i][2]
    <3>1. ASSUME NEW x
          PROVE  x \in S \cup {p} <=> \E i \in 1..n + 1 : x \in q[i][1] .. q[i][2]
      <4>1. (\E i \in 1..n + 1 : x \in q[i][1] .. q[i][2])
              <=> (\E i \in 1..n : x \in r[i][1] .. r[i][2]) \/ x = p
        <5>1. \A i : i \in 1..n + 1 <=> i \in 1..n \/ i = n + 1
          OBVIOUS
        <5>2. \A i \in 1..n : q[i][1] .. q[i][2] = r[i][1] .. r[i][2]
          BY <2>3
        <5>3. x \in q[n + 1][1] .. q[n + 1][2] <=> x = p
          BY <2>3
        <5> QED
          BY <5>1, <5>2, <5>3
      <4>2. x \in S <=> \E i \in 1..n : x \in r[i][1] .. r[i][2]
        BY <1>1 DEF Covers
      <4> QED
        BY <4>1, <4>2
    <3> QED
      BY <2>3, <3>1
  <2>5. ASSUME NEW i \in DOMAIN q
        PROVE  q[i][1] <= q[i][2]
    <3>1. CASE i = n + 1
      BY <2>3, <3>1
    <3>2. CASE i # n + 1
      <4>1. i \in 1..n
        BY <2>3, <3>2
      <4>2. q[i] = r[i] /\ r[i][1] <= r[i][2]
        BY <1>1, <2>3, <4>1 DEF Covers
      <4> QED
        BY <4>2
    <3> QED
      BY <3>1, <3>2
  <2>6. ASSUME NEW i \in 1..n
        PROVE  q[i][2] + 1 < q[i + 1][1]
    <3>1. CASE i = n
      <4>1. Last(r) = r[n] /\ r # <<>> /\ r[n][2] \in Nat
        BY <1>1, <3>1 DEF Last
      <4>2. r[n][2] + 1 < p
        BY <1>3, <4>1
      <4>3. q[i] = r[n] /\ q[i + 1] = <<p, p>>
        BY <2>3, <3>1
      <4> QED
        BY <4>2, <4>3
    <3>2. CASE i # n
      <4>1. i \in 1..n - 1 /\ i + 1 \in 1..n
        BY <3>2
      <4>2. r[i][2] + 1 < r[i + 1][1]
        BY <1>1, <4>1 DEF Covers
      <4>3. q[i] = r[i] /\ q[i + 1] = r[i + 1]
        BY <2>3, <4>1
      <4> QED
        BY <4>2, <4>3
    <3> QED
      BY <3>1, <3>2
  <2>7. q # <<>> /\ Last(q)[2] = p
    BY <2>3 DEF Last
  <2> QED
    BY <2>1, <2>3, <2>4, <2>5, <2>6, <2>7 DEF Covers
<1> QED
  BY <1>2, <1>3

\* The pages parameter of any set of pages.
THEOREM FormatPagesCovers ==
  ASSUME NEW S \in SUBSET Nat, IsFiniteSet(S)
  PROVE  Covers(FormatPages(S), S) /\ (S # {} => FormatPages(S) # <<>>)
<1>1. PICK ps \in Seq(S) : ps = Ascending(S)
  BY AscendingOrder
<1>2. PICK n \in Nat : n = Len(ps)
  OBVIOUS
<1>3. /\ DOMAIN ps = 1..n
      /\ \A i \in 1..n : ps[i] \in Nat
      /\ \A i, j \in 1..n : i < j => ps[i] < ps[j]
  <2>1. DOMAIN ps = 1..n
    BY <1>2
  <2>2. \A i, j \in DOMAIN ps : i < j => ps[i] < ps[j]
    BY <1>1, AscendingOrder
  <2>3. \A i \in 1..n : ps[i] \in S
    BY <1>2
  <2> QED
    BY <2>1, <2>2, <2>3
<1>4. S = {ps[k] : k \in 1..n}
  <2>1. S = Range(ps)
    BY <1>1, AscendingOrder
  <2> QED
    BY <1>3, <2>1 DEF Range
<1>5. PICK h : /\ h[0] = <<>>
               /\ \A i \in 1..n : h[i] = AddPage(h[i - 1], ps[i])
               /\ h[n] = FoldLeft(AddPage, <<>>, ps)
  BY <1>3, FoldByPrefix
<1> DEFINE Good(i) == /\ Covers(h[i], {ps[k] : k \in 1..i})
                      /\ i # 0 => h[i] # <<>> /\ Last(h[i])[2] = ps[i]
<1>6. Good(0)
  <2>1. {ps[k] : k \in 1..0} = {}
    OBVIOUS
  <2>2. Covers(<<>>, {})
    BY DEF Covers
  <2> QED
    BY <1>5, <2>1, <2>2
<1>7. ASSUME NEW i \in 1..n, Good(i - 1)
      PROVE  Good(i)
  <2>1. ps[i] \in Nat /\ h[i] = AddPage(h[i - 1], ps[i])
    BY <1>3, <1>5
  <2>2. h[i - 1] # <<>> => Last(h[i - 1])[2] < ps[i]
    <3>1. CASE i - 1 = 0
      BY <1>5, <3>1
    <3>2. CASE i - 1 # 0
      <4>1. i - 1 \in 1..n /\ i - 1 < i
        BY <3>2
      <4>2. ps[i - 1] < ps[i]
        BY <1>3, <4>1
      <4> QED
        BY <1>7, <3>2, <4>2
    <3> QED
      BY <3>1, <3>2
  <2>3. PICK P : P = {ps[k] : k \in 1..i - 1}
    OBVIOUS
  <2>4. Covers(h[i - 1], P)
    BY <1>7, <2>3
  <2>5. Covers(h[i], P \cup {ps[i]}) /\ h[i] # <<>> /\ Last(h[i])[2] = ps[i]
    <3>1. PICK r, p : r = h[i - 1] /\ p = ps[i] /\ p \in Nat
      BY <2>1
    <3>2. /\ Covers(AddPage(r, p), P \cup {p})
          /\ AddPage(r, p) # <<>> /\ Last(AddPage(r, p))[2] = p
      BY <2>2, <2>4, <3>1, AddPageCovers
    <3> QED
      BY <2>1, <3>1, <3>2
  <2>6. \A k : k \in 1..i <=> k \in 1..i - 1 \/ k = i
    OBVIOUS
  <2>7. P \cup {ps[i]} = {ps[k] : k \in 1..i}
    BY <2>3, <2>6
  <2> QED
    BY <2>5, <2>7
<1> HIDE DEF Good
<1>8. Good(n)
  <2> SUFFICES ASSUME ~Good(n)
               PROVE  FALSE
    OBVIOUS
  <2>1. PICK T : T = {i \in 0..n : ~Good(i)}
    OBVIOUS
  <2>2. PICK m \in T : \A i \in T : m <= i
    <3>1. T \in SUBSET Nat /\ T # {}
      BY <2>1
    <3> QED
      BY <3>1, LeastNumber
  <2>3. m \in 1..n /\ m - 1 \in 0..n
    BY <1>6, <2>1, <2>2
  <2>4. m - 1 \notin T
    BY <2>2, <2>3
  <2> QED
    BY <1>7, <2>1, <2>2, <2>3, <2>4
<1>9. FormatPages(S) = h[n]
  BY <1>1, <1>5 DEF FormatPages
<1>10. S # {} => n # 0
  BY <1>4
<1> QED
  BY <1>4, <1>8, <1>9, <1>10 DEF Good

-----------------------------------------------------------------------------
\* What a run has got at each of its stages.  The pages of the parameter and
\* the extracts are the classifier's at a later stage only because nothing
\* classifies again in between, and Azure's answer meets local extracts of the
\* simple pages only.
Stages ==
  /\ pc \in {"layout", "simple", "begin", "poll", "done"} \/ class # <<>> => native # <<>>
  /\ pc \in {"simple", "begin", "poll", "done"} \/ asked # <<>> => class # <<>>
  /\ pc \in {"native", "layout", "simple"} => extracts = <<>>
  /\ pc \in {"begin", "poll"} =>
       Range(extracts) = {Extract(p, "local_pymupdf") : p \in SimplePages} /\ ComplexPages # {}
  /\ pc \in {"native", "layout", "simple", "begin"} => asked = <<>>
  /\ pc = "poll" => asked # <<>>
  /\ asked # <<>> => asked = FormatPages(ComplexPages)
  /\ pc \notin {"done", "raised"} => answer = <<>>
  /\ pc = "done" => azure # "running"
  /\ ExtractsMatchPages

\* The inductive invariant.
Honest == AnalysisTypeOK /\ Progress /\ Stages

\* A document has pages 1 to its length, and so any of them are finitely many.
LEMMA PagesAreNumbers ==
  ASSUME doc \in Documents
  PROVE  /\ Len(doc) \in Nat /\ Pages = 1..Len(doc) /\ Pages \in SUBSET Nat
         /\ \A S \in SUBSET Pages : S \in SUBSET Nat /\ IsFiniteSet(S)
<1>1. doc \in Seq(PageRecord)
  BY AnalysisAssumption
<1>2. Len(doc) \in Nat /\ Pages = 1..Len(doc)
  BY <1>1 DEF Pages
<1>3. IsFiniteSet(1..Len(doc))
  BY <1>2, FS_Interval
<1>4. ASSUME NEW S \in SUBSET Pages
      PROVE  S \in SUBSET Nat /\ IsFiniteSet(S)
  <2>1. IsFiniteSet(S)
    BY <1>2, <1>3, FS_Subset
  <2> QED
    BY <1>2, <2>1
<1> QED
  BY <1>2, <1>4

LEMMA ExtractRecord ==
  ASSUME doc \in Documents, NEW p \in Pages, NEW x \in Extractors
  PROVE  Extract(p, x) \in PageExtracts /\ Extract(p, x).page = p
<1>1. doc[p] \in PageRecord
  BY AnalysisAssumption DEF Pages
<1> QED
  BY <1>1 DEF PageRecord, Extract, PageExtracts

\* The extracts of finitely many pages are finitely many.
LEMMA FiniteExtracts ==
  ASSUME NEW S, IsFiniteSet(S), NEW x
  PROVE  IsFiniteSet({Extract(p, x) : p \in S})
<1>1. PICK f : f = [p \in S |-> Extract(p, x)]
  OBVIOUS
<1>2. PICK T : T = {Extract(p, x) : p \in S}
  OBVIOUS
<1>3. f \in Surjection(S, T)
  BY <1>1, <1>2 DEF Surjection
<1> QED
  BY <1>2, <1>3, FS_Surjection

\* Who has extracted what, when the pages of S and those of T are extracted.
LEMMA ExtractsApart ==
  ASSUME NEW S, NEW T,
         \A e : e \in Range(extracts') <=>
               \/ \E p \in S : e = Extract(p, "local_pymupdf")
               \/ \E p \in T : e = Extract(p, "azure_document_intelligence")
  PROVE  /\ ExtractedBy("local_pymupdf")' = S
         /\ ExtractedBy("azure_document_intelligence")' = T
<1>1. PICK E : E = Range(extracts')
  OBVIOUS
<1>2. \A p, x : Extract(p, x).page = p /\ Extract(p, x).extractor = x
  BY DEF Extract
<1>3. {e.page : e \in {x \in E : x.extractor = "local_pymupdf"}} = S
  BY <1>1, <1>2
<1>4. {e.page : e \in {x \in E : x.extractor = "azure_document_intelligence"}} = T
  BY <1>1, <1>2
<1> QED
  BY <1>1, <1>3, <1>4 DEF ExtractedBy

\* A step aside: the run gives up, sleeps, starts anew or is searched, or Azure
\* ends.
LEMMA AsideStep ==
  ASSUME Honest,
         UNCHANGED <<doc, cfg, native, class, extracts, asked, answer>>,
         pc' \in {pc, "raised"},
         \/ azure' = azure
         \/ azure = "running" /\ azure' \in {"succeeded", "failed"},
         text' \in {{}, Pages}, clock' \in 0..MaxClock, Len(shown') <= Greatest(TopK, 1)
  PROVE  AnalysisTypeOK' /\ Stages'
<1>1. AnalysisTypeOK'
  <2>1. Pages' = Pages /\ PageExtracts' = PageExtracts
    BY DEF Pages, PageExtracts
  <2> QED
    BY <2>1 DEF Honest, AnalysisTypeOK, Labels
<1>2. /\ Pages' = Pages /\ SimplePages' = SimplePages /\ ComplexPages' = ComplexPages
      /\ FormatPages(ComplexPages)' = FormatPages(ComplexPages)
      /\ \A e : ExtractedBy(e)' = ExtractedBy(e)
      /\ HasAzureParser' = HasAzureParser
  BY DEF Pages, SimplePages, ComplexPages, FormatPages, ExtractedBy, HasAzureParser
<1>3. ExtractsMatchPages'
  <2> SUFFICES ASSUME pc' = "done"
               PROVE  ExtractsMatchPages'
    BY DEF ExtractsMatchPages
  <2>1. pc = "done" /\ azure' = azure
    BY DEF Honest, Stages
  <2> QED
    BY <1>2, <2>1 DEF Honest, Stages, ExtractsMatchPages
<1>4. pc' = "done" => azure' # "running"
  BY DEF Honest, Stages
<1>5. {Extract(p, "local_pymupdf") : p \in SimplePages}' = {Extract(p, "local_pymupdf") : p \in SimplePages}
  BY <1>2 DEF Extract
<1>6. Stages'
  BY <1>2, <1>3, <1>4, <1>5 DEF Honest, Stages
<1> QED
  BY <1>1, <1>6

LEMMA ClassifierStep ==
  ASSUME Honest, ExtractNative \/ ClassifyPages
  PROVE  AnalysisTypeOK' /\ Stages'
<1> USE DEF Honest
<1>1. Pages' = Pages /\ doc \in Documents
  BY DEF ExtractNative, ClassifyPages, read, Pages, AnalysisTypeOK
<1>2. CASE ExtractNative
  <2>1. class = <<>> /\ class' = <<>> /\ asked' = <<>> /\ asked = <<>> /\ extracts' = <<>> /\ answer' = <<>>
    BY <1>2 DEF ExtractNative, Progress, Stages
  <2>2. native' # <<>> /\ DOMAIN native' = Pages /\ Len(doc) \in 1..MaxPages
    <3>1. 1 \in Pages
      BY <1>1, <1>2, PagesAreNumbers DEF ExtractNative
    <3>2. DOMAIN native' = Pages
      BY <1>2 DEF ExtractNative
    <3> QED
      BY <1>2, <3>1, <3>2 DEF ExtractNative
  <2>3. AnalysisTypeOK'
    BY <1>1, <1>2, <2>1, <2>2 DEF ExtractNative, read, AnalysisTypeOK, Labels
  <2>4. pc' = "layout"
    BY <1>2 DEF ExtractNative
  <2> QED
    BY <2>1, <2>2, <2>3, <2>4 DEF Stages, ExtractsMatchPages
<1>3. CASE ClassifyPages
  <2>1. /\ asked' = <<>> /\ asked = <<>> /\ extracts' = <<>> /\ extracts = <<>>
        /\ answer' = <<>> /\ native # <<>> /\ native' = native
    BY <1>3 DEF ClassifyPages, Stages
  <2>2. class' \in [Pages -> {Simple, Complex}]
    BY <1>3 DEF ClassifyPages, ClassifyPage
  <2>3. class' # <<>>
    <3>1. 1 \in Pages
      BY <1>1, <2>1, PagesAreNumbers DEF AnalysisTypeOK
    <3> QED
      BY <2>2, <3>1
  <2>4. AnalysisTypeOK'
    BY <1>1, <1>3, <2>1, <2>2 DEF ClassifyPages, read, AnalysisTypeOK, Labels
  <2>5. pc' = "simple"
    BY <1>3 DEF ClassifyPages
  <2> QED
    BY <2>1, <2>3, <2>4, <2>5 DEF Stages, ExtractsMatchPages
<1> QED
  BY <1>2, <1>3

\* The class of a page is one of the two.
LEMMA TwoClasses ==
  ASSUME Honest, class # <<>>
  PROVE  /\ SimplePages \in SUBSET Pages /\ ComplexPages \in SUBSET Pages
         /\ SimplePages \cap ComplexPages = {} /\ SimplePages \cup ComplexPages = Pages
         /\ doc \in Documents
BY DEF Honest, AnalysisTypeOK, SimplePages, ComplexPages

LEMMA ReadSimplePagesStep ==
  ASSUME Honest, ReadSimplePages
  PROVE  AnalysisTypeOK' /\ Stages'
<1> USE DEF Honest
<1>1. /\ pc = "simple" /\ class # <<>> /\ native # <<>>
      /\ asked = <<>> /\ asked' = <<>> /\ answer = <<>> /\ answer' = <<>>
      /\ class' = class /\ native' = native /\ doc' = doc /\ cfg' = cfg /\ azure' = azure /\ azure = "none"
      /\ text' = text /\ clock' = clock /\ shown' = shown
      /\ pc' \in {"begin", "done"} /\ (pc' = "begin" => ComplexPages # {} /\ HasAzureParser)
      /\ pc' = "done" => ~(ComplexPages # {} /\ HasAzureParser)
  BY DEF ReadSimplePages, read, Stages, AnalysisTypeOK
<1>2. /\ Pages' = Pages /\ SimplePages' = SimplePages /\ ComplexPages' = ComplexPages
      /\ HasAzureParser' = HasAzureParser
      /\ \A p, x : Extract(p, x)' = Extract(p, x)
      /\ PageExtracts' = PageExtracts
  BY <1>1 DEF Pages, SimplePages, ComplexPages, HasAzureParser, Extract, PageExtracts
<1>3. SimplePages \in SUBSET Nat /\ IsFiniteSet(SimplePages) /\ SimplePages \in SUBSET Pages
  BY <1>1, TwoClasses, PagesAreNumbers
<1>4. PICK ps : ps = Ascending(SimplePages)
  OBVIOUS
<1>5. /\ ps \in Seq(SimplePages) /\ Range(ps) = SimplePages
      /\ \A i, j \in DOMAIN ps : i < j => ps[i] < ps[j]
  BY <1>3, <1>4, AscendingOrder
<1>6. extracts' = [i \in DOMAIN ps |-> Extract(ps[i], "local_pymupdf")]
  BY <1>4 DEF ReadSimplePages
<1>7. /\ DOMAIN extracts' = DOMAIN ps
      /\ \A i \in DOMAIN ps : /\ extracts'[i].page = ps[i] /\ ps[i] \in SimplePages
                              /\ extracts'[i].extractor = "local_pymupdf"
  BY <1>5, <1>6 DEF Extract
<1>8. Range(extracts') = {Extract(p, "local_pymupdf") : p \in SimplePages}
  BY <1>5, <1>6 DEF Range
<1>9. extracts' \in Seq(PageExtracts)
  <2>1. ASSUME NEW i \in DOMAIN ps
        PROVE  extracts'[i] \in PageExtracts
    <3>1. ps[i] \in Pages
      BY <1>3, <1>7
    <3>2. Extract(ps[i], "local_pymupdf") \in PageExtracts
      BY <3>1, ExtractRecord DEF Extractors, AnalysisTypeOK
    <3> QED
      BY <1>6, <3>2
  <2>2. PICK n \in Nat : DOMAIN ps = 1..n
    BY <1>5
  <2>3. extracts' = [i \in 1..n |-> extracts'[i]]
    BY <1>6, <2>2
  <2> QED
    BY <2>1, <2>2, <2>3
<1>10. AnalysisTypeOK'
  BY <1>1, <1>2, <1>9 DEF AnalysisTypeOK, Labels
<1>11. ExtractsMatchPages'
  <2>1. \A e : e \in Range(extracts') <=> \E p \in SimplePages : e = Extract(p, "local_pymupdf")
    BY <1>8
  <2>2. PICK S, T : S = SimplePages /\ T = {}
    OBVIOUS
  <2>4. ExtractedBy("local_pymupdf")' = S /\ ExtractedBy("azure_document_intelligence")' = T
    BY <2>1, <2>2, ExtractsApart
  <2>3. Range(answer') = {}
    BY <1>1 DEF Range
  <2> QED
    BY <1>1, <1>2, <1>5, <1>7, <2>2, <2>3, <2>4 DEF ExtractsMatchPages
<1>12. {Extract(p, "local_pymupdf") : p \in SimplePages}' = {Extract(p, "local_pymupdf") : p \in SimplePages}
  BY <1>1, <1>2 DEF Extract
<1> QED
  BY <1>1, <1>2, <1>8, <1>10, <1>11, <1>12 DEF Stages

LEMMA BeginAnalyzeStep ==
  ASSUME Honest, BeginAnalyze
  PROVE  AnalysisTypeOK' /\ Stages'
<1> USE DEF Honest
<1>1. /\ pc = "begin" /\ pc' = "poll" /\ class # <<>> /\ native # <<>> /\ ComplexPages # {}
      /\ class' = class /\ native' = native /\ doc' = doc /\ cfg' = cfg /\ azure' = "running"
      /\ extracts' = extracts /\ answer' = answer /\ answer = <<>>
      /\ asked' = FormatPages(ComplexPages)
  BY DEF BeginAnalyze, read, Stages
<1>2. /\ Pages' = Pages /\ SimplePages' = SimplePages /\ ComplexPages' = ComplexPages
      /\ FormatPages(ComplexPages)' = FormatPages(ComplexPages)
      /\ PageExtracts' = PageExtracts
  BY <1>1 DEF Pages, SimplePages, ComplexPages, FormatPages, PageExtracts
<1>3. asked' # <<>>
  <2>1. ComplexPages \in SUBSET Nat /\ IsFiniteSet(ComplexPages)
    BY <1>1, TwoClasses, PagesAreNumbers
  <2> QED
    BY <1>1, <2>1, FormatPagesCovers
<1>4. clock' \in 0..MaxClock
  <2>1. MaxClock \in Nat
    BY AnalysisAssumption
  <2> QED
    BY <2>1 DEF BeginAnalyze
<1>5. AnalysisTypeOK'
  BY <1>1, <1>2, <1>3, <1>4 DEF BeginAnalyze, AnalysisTypeOK, Labels
<1>6. {Extract(p, "local_pymupdf") : p \in SimplePages}' = {Extract(p, "local_pymupdf") : p \in SimplePages}
  BY <1>1, <1>2 DEF Extract
<1> QED
  BY <1>1, <1>2, <1>3, <1>5, <1>6 DEF Stages, ExtractsMatchPages

\* The simple pages' extracts and those of the pages Azure was asked for are of
\* different pages, so that ordering them by page leaves none out.
LEMMA FetchResultStep ==
  ASSUME Honest, NEW pages \in Answers, FetchResult(pages)
  PROVE  AnalysisTypeOK' /\ Stages'
<1> USE DEF Honest
<1>1. /\ pc = "poll" /\ pc' = "done" /\ class # <<>> /\ native # <<>> /\ asked # <<>>
      /\ class' = class /\ native' = native /\ doc' = doc /\ cfg' = cfg
      /\ azure = "succeeded" /\ azure' = azure /\ asked' = asked /\ answer' = pages
      /\ text' = text /\ clock' = clock /\ shown' = shown
      /\ Range(extracts) = {Extract(p, "local_pymupdf") : p \in SimplePages}
      /\ asked = FormatPages(ComplexPages)
  BY DEF FetchResult, read, Stages
<1>2. /\ Pages' = Pages /\ SimplePages' = SimplePages /\ ComplexPages' = ComplexPages
      /\ FormatPages(ComplexPages)' = FormatPages(ComplexPages)
      /\ PageExtracts' = PageExtracts
  BY <1>1 DEF Pages, SimplePages, ComplexPages, FormatPages, PageExtracts
<1>3. PICK S, T : S = SimplePages /\ T = Requested(pages)
  OBVIOUS
<1>4. /\ S \in SUBSET Pages /\ T \in SUBSET Pages /\ S \cap T = {}
      /\ S \in SUBSET Nat /\ IsFiniteSet(S) /\ T \in SUBSET Nat /\ IsFiniteSet(T)
      /\ T = Range(pages) \cap ComplexPages
  <2>1. S \in SUBSET Pages /\ T \in SUBSET Pages /\ S \cap T = {} /\ T = Range(pages) \cap ComplexPages
    BY <1>1, <1>3, TwoClasses DEF Requested
  <2> QED
    BY <2>1, PagesAreNumbers DEF AnalysisTypeOK
<1>5. Range(pages) \subseteq Pages
  BY DEF Answers, Range
<1>6. PICK E : E = {Extract(p, "local_pymupdf") : p \in S}
                     \cup {Extract(p, "azure_document_intelligence") : p \in T}
  OBVIOUS
<1>7. IsFiniteSet(E)
  <2>1. IsFiniteSet({Extract(p, "local_pymupdf") : p \in S})
    BY <1>4, FiniteExtracts
  <2>2. IsFiniteSet({Extract(p, "azure_document_intelligence") : p \in T})
    BY <1>4, FiniteExtracts
  <2> QED
    BY <1>6, <2>1, <2>2, FS_Union
<1>8. \A e : e \in E <=> \/ \E p \in S : e = Extract(p, "local_pymupdf")
                         \/ \E p \in T : e = Extract(p, "azure_document_intelligence")
  BY <1>6
<1>9. \A p, x : Extract(p, x).page = p /\ Extract(p, x).extractor = x
  BY DEF Extract
<1>10. \A e \in E : e.page \in Nat /\ e \in PageExtracts
  <2>1. "local_pymupdf" \in Extractors /\ "azure_document_intelligence" \in Extractors /\ doc \in Documents
    BY DEF Extractors, AnalysisTypeOK
  <2>2. \A p \in Pages, x \in Extractors : Extract(p, x) \in PageExtracts
    BY <2>1, ExtractRecord
  <2> QED
    BY <1>4, <1>8, <1>9, <2>1, <2>2
<1>11. \A e, f \in E : e.page = f.page => e = f
  BY <1>4, <1>8, <1>9
<1>12. extracts' = ByPage(E)
  BY <1>1, <1>3, <1>6 DEF FetchResult
<1>13. /\ extracts' \in Seq(E) /\ Range(extracts') = E
       /\ \A i, j \in DOMAIN extracts' : i < j => extracts'[i].page < extracts'[j].page
  BY <1>7, <1>10, <1>11, <1>12, ByPageOrder
<1>14. AnalysisTypeOK'
  <2>1. extracts' \in Seq(PageExtracts)
    BY <1>10, <1>13
  <2> QED
    BY <1>1, <1>2, <1>5, <2>1 DEF AnalysisTypeOK, Labels
<1>15. ExtractsMatchPages'
  <2>1. ExtractedBy("local_pymupdf")' = S /\ ExtractedBy("azure_document_intelligence")' = T
    BY <1>8, <1>13, ExtractsApart
  <2> QED
    BY <1>1, <1>2, <1>3, <1>4, <1>13, <2>1 DEF ExtractsMatchPages
<1> QED
  BY <1>1, <1>2, <1>14, <1>15 DEF Stages

-----------------------------------------------------------------------------
\* The extracts a run ends with are of different pages.
LEMMA ExtractsDiffer ==
  ASSUME Honest, pc = "done"
  PROVE  /\ IsFiniteSet(Range(extracts))
         /\ \A e, f \in Range(extracts) : e.page \in Nat /\ (e.page = f.page => e = f)
<1> USE DEF Honest
<1>1. PICK n \in Nat : n = Len(extracts) /\ DOMAIN extracts = 1..n
  BY DEF AnalysisTypeOK
<1>2. ASSUME NEW i \in 1..n
      PROVE  extracts[i].page \in Nat
  <2>1. extracts[i] \in PageExtracts
    BY <1>1 DEF AnalysisTypeOK
  <2>2. Pages \in SUBSET Nat
    BY PagesAreNumbers DEF AnalysisTypeOK
  <2> QED
    BY <2>1, <2>2 DEF PageExtracts
<1>3. \A i, j \in 1..n : i < j => extracts[i].page < extracts[j].page
  BY <1>1 DEF Stages, ExtractsMatchPages
<1>4. IsFiniteSet(Range(extracts))
  <2>1. extracts \in Surjection(1..n, Range(extracts))
    BY <1>1 DEF Surjection, Range, AnalysisTypeOK
  <2>2. IsFiniteSet(1..n)
    BY FS_Interval
  <2> QED
    BY <2>1, <2>2, FS_Surjection
<1>5. ASSUME NEW i \in 1..n, NEW j \in 1..n, extracts[i].page = extracts[j].page
      PROVE  i = j
  BY <1>2, <1>3, <1>5
<1> QED
  BY <1>1, <1>2, <1>4, <1>5 DEF Range

\* What a search shows: the first of the extracts with a term of the query, of
\* all of them in the order of ByScore.
LEMMA RankedShows ==
  ASSUME Honest, pc = "done", NEW query \in SUBSET Terms,
         NEW found, found = {e \in Range(extracts) : Score(query, e) > 0}
  PROVE  \E r \in Seq(found), n \in Nat :
           /\ Range(r) = found
           /\ \A i, j \in DOMAIN r : i < j => Score(query, r[i]) >= Score(query, r[j])
           /\ n = Least(TopK, Len(r))
           /\ Ranked(query) \in Seq(found) /\ Len(Ranked(query)) = n
           /\ \A i \in 1..n : Ranked(query)[i] = r[i]
<1>1. IsFiniteSet(found)
  <2>1. IsFiniteSet(Range(extracts)) /\ found \in SUBSET Range(extracts)
    BY ExtractsDiffer
  <2> QED
    BY <2>1, FS_Subset
<1>2. \A e, f \in found : e.page \in Nat /\ (e.page = f.page => e = f)
  BY ExtractsDiffer
<1>3. PICK r : r = ByScore(query, found)
  OBVIOUS
<1>4. /\ r \in Seq(found) /\ Range(r) = found
      /\ \A i, j \in DOMAIN r : i < j => Score(query, r[i]) >= Score(query, r[j])
  BY <1>1, <1>2, <1>3, ByScoreOrder
<1>5. PICK n : n = Least(TopK, Len(r))
  OBVIOUS
<1>6. n \in 0..Len(r)
  <2>1. TopK \in Nat /\ Len(r) \in Nat
    BY <1>4, AnalysisAssumption
  <2> QED
    BY <1>5, <2>1 DEF Least
<1>7. Ranked(query) = SubSeq(r, 1, n)
  BY <1>3, <1>5 DEF Ranked, FirstOf
<1>8. /\ SubSeq(r, 1, n) \in Seq(found) /\ Len(SubSeq(r, 1, n)) = n
      /\ \A i \in 1..n : SubSeq(r, 1, n)[i] = r[i]
  BY <1>4, <1>6
<1>9. n \in Nat /\ r \in Seq(found)
  BY <1>4, <1>6
<1>10. /\ Ranked(query) \in Seq(found) /\ Len(Ranked(query)) = n
       /\ \A i \in 1..n : Ranked(query)[i] = r[i]
  BY <1>7, <1>8
<1> USE <1>9
<1> WITNESS r \in Seq(found), n \in Nat
<1> QED
  BY <1>4, <1>5, <1>10

LEMMA ToolStep ==
  ASSUME Honest,
         \/ \E query \in SUBSET Terms : SearchPages(query)
         \/ \E p \in 1..MaxPages : GetPage(p)
  PROVE  AnalysisTypeOK' /\ Stages'
<1>1. TopK \in Nat
  BY AnalysisAssumption
<1>2. ASSUME NEW es, Show(es), es \in Seq(Range(es)), Len(es) <= Greatest(TopK, 1)
      PROVE  AnalysisTypeOK' /\ Stages'
  <2>1. Len(shown') = Len(es)
    BY <1>2 DEF Show
  <2> QED
    BY <1>2, <2>1, AsideStep DEF Show, read, Honest, AnalysisTypeOK
<1>3. ASSUME NEW query \in SUBSET Terms, SearchPages(query)
      PROVE  AnalysisTypeOK' /\ Stages'
  <2>1. PICK found : found = {e \in Range(extracts) : Score(query, e) > 0}
    OBVIOUS
  <2>2. Ranked(query) \in Seq(found) /\ \E k \in Nat : Len(Ranked(query)) = Least(TopK, k)
    <3>1. pc = "done"
      BY <1>3 DEF SearchPages, Show
    <3>2. PICK r \in Seq(found) : Ranked(query) \in Seq(found) /\ Len(Ranked(query)) = Least(TopK, Len(r))
      BY <2>1, <3>1, RankedShows
    <3>3. Len(r) \in Nat
      OBVIOUS
    <3> QED
      BY <3>2, <3>3
  <2>3. Ranked(query) \in Seq(Range(Ranked(query))) /\ Len(Ranked(query)) <= Greatest(TopK, 1)
    BY <1>1, <2>2 DEF Range, Least, Greatest
  <2> QED
    BY <1>2, <1>3, <2>3 DEF SearchPages
<1>4. ASSUME NEW p \in 1..MaxPages, GetPage(p)
      PROVE  AnalysisTypeOK' /\ Stages'
  <2>1. \A e : <<e>> \in Seq(Range(<<e>>)) /\ Len(<<e>>) <= Greatest(TopK, 1)
    BY <1>1 DEF Range, Greatest
  <2>2. <<>> \in Seq(Range(<<>>)) /\ Len(<<>>) <= Greatest(TopK, 1)
    BY <1>1 DEF Greatest
  <2> QED
    BY <1>2, <1>4, <2>1, <2>2 DEF GetPage
<1> QED
  BY <1>3, <1>4

LEMMA HonestInit == Init => Honest
<1> SUFFICES ASSUME Init
             PROVE  Honest
  OBVIOUS
<1>1. 0 \in 0..MaxClock /\ TopK \in Nat
  BY AnalysisAssumption
<1>2. extracts = <<>> /\ answer = <<>> /\ shown = <<>>
  BY DEF Init
<1>3. <<>> \in Seq(PageExtracts) /\ Range(<<>>) = {} /\ Len(<<>>) <= Greatest(TopK, 1)
  BY <1>1 DEF Range, Greatest
<1>4. AnalysisTypeOK
  BY <1>1, <1>2, <1>3 DEF Init, AnalysisTypeOK, Labels
<1>5. Progress
  BY DEF Init, Progress
<1>6. Stages
  BY DEF Init, Stages, ExtractsMatchPages
<1> QED
  BY <1>4, <1>5, <1>6 DEF Honest

LEMMA HonestStep == Honest /\ [Next]_vars => Honest'
<1> SUFFICES ASSUME Honest, [Next]_vars
             PROVE  AnalysisTypeOK' /\ Stages'
  BY ProgressStep DEF Honest
<1>1. text \in {{}, Pages} /\ {} \in {{}, Pages} /\ clock \in 0..MaxClock /\ Len(shown) <= Greatest(TopK, 1)
  BY DEF Honest, AnalysisTypeOK
<1>2. ASSUME NEW label, Raise(label)
      PROVE  AnalysisTypeOK' /\ Stages'
  BY <1>1, <1>2, AsideStep DEF Raise, read
<1>3. CASE Sleep
  <2>1. clock' \in 0..MaxClock
    <3>1. clock \in Nat /\ PollInterval \in Nat /\ MaxDelay \in Nat /\ MaxClock \in Nat
      BY <1>1, AnalysisAssumption
    <3> QED
      BY <1>3, <3>1 DEF Sleep
  <2> QED
    BY <1>1, <1>3, <2>1, AsideStep DEF Sleep, read
<1>4. CASE RestartUnclassified
  BY <1>1, <1>4, AsideStep DEF RestartUnclassified, read
<1>5. ASSUME NEW outcome \in {"succeeded", "failed"}, AzureEnds(outcome)
      PROVE  AnalysisTypeOK' /\ Stages'
  BY <1>1, <1>5, AsideStep DEF AzureEnds, read
<1>6. CASE UNCHANGED vars
  BY <1>1, <1>6, AsideStep DEF vars, read
<1>7. CASE Own
  <2>1. CASE \E pages \in Answers : FetchResult(pages)
    BY <2>1, FetchResultStep
  <2> QED
    BY <1>2, <1>3, <1>7, <2>1, ClassifierStep, ReadSimplePagesStep, BeginAnalyzeStep
    DEF Own, LayoutRaises, ReadingRaises, TimeOut, AnalysisFailed
<1> QED
  BY <1>4, <1>5, <1>6, <1>7, ToolStep DEF Next

LEMMA HonestSpec == Spec => []Honest
BY HonestInit, HonestStep, PTL DEF Spec

\* Every variable keeps its type whatever the documents, the limits and the
\* waits are, and no tool call returns more pages than it may.
THEOREM AnalysisTyped == Spec => []AnalysisTypeOK
<1>1. Honest => AnalysisTypeOK
  BY DEF Honest
<1> QED
  BY <1>1, HonestSpec, PTL

\* For every document, of any length and any mixture of pages, and whatever
\* Azure answers: the pages parameter names the complex pages and no other, in
\* ranges that could not be fewer, and a run that ends keeps one extract for a
\* page, in order and from the reader the class of the page names.
\* (format_azure_pages_parameter, _analyze_and_map, parse_document.)
THEOREM PagesHonoured == Spec => []PagesAreHonoured
<1>1. Honest => PagesAreHonoured
  <2> SUFFICES ASSUME Honest, asked # <<>>
               PROVE  AskedForComplexPages
    BY DEF Honest, Stages, PagesAreHonoured, AskedForComplexPages
  <2>1. asked = FormatPages(ComplexPages) /\ class # <<>>
    BY DEF Honest, Stages
  <2>2. ComplexPages \in SUBSET Nat /\ IsFiniteSet(ComplexPages)
    BY <2>1, TwoClasses, PagesAreNumbers
  <2>3. Covers(asked, ComplexPages)
    BY <2>1, <2>2, FormatPagesCovers
  <2>4. UNION {asked[i][1] .. asked[i][2] : i \in DOMAIN asked} = ComplexPages
    BY <2>3 DEF Covers
  <2> QED
    BY <2>3, <2>4 DEF Covers, AskedForComplexPages
<1> QED
  BY <1>1, HonestSpec, PTL

\* What one search shows.
LEMMA SearchStep ==
  ASSUME Honest, NEW query \in SUBSET Terms, SearchPages(query),
         NEW found, found = {e \in Range(extracts) : query \cap e.says # {}}
  PROVE  /\ \A p \in Range(shown') : \E e \in found : e.page = p
         /\ \A e \in found : e.page \notin Range(shown') =>
              /\ Len(shown') = TopK
              /\ \A f \in found : f.page \in Range(shown') => Score(query, f) >= Score(query, e)
<1>1. found = {e \in Range(extracts) : Score(query, e) > 0}
  BY ScoreCounts
<1>2. pc = "done"
  BY DEF SearchPages, Show
<1>3. PICK r \in Seq(found), n \in Nat :
        /\ Range(r) = found
        /\ \A i, j \in DOMAIN r : i < j => Score(query, r[i]) >= Score(query, r[j])
        /\ n = Least(TopK, Len(r))
        /\ Ranked(query) \in Seq(found) /\ Len(Ranked(query)) = n
        /\ \A i \in 1..n : Ranked(query)[i] = r[i]
  BY <1>1, <1>2, RankedShows
<1>4. PICK m \in Nat : m = Len(r) /\ DOMAIN r = 1..m
  BY <1>3
<1>5. TopK \in Nat /\ n <= m /\ (n < m => n = TopK)
  BY <1>3, <1>4, AnalysisAssumption DEF Least
<1>6. DOMAIN shown' = 1..n /\ Len(shown') = n /\ \A i \in 1..n : shown'[i] = r[i].page
  BY <1>3 DEF SearchPages, Show
<1>7. \A i \in 1..m : r[i] \in found
  BY <1>3, <1>4
<1>8. \A e \in found : \E i \in 1..m : r[i] = e
  BY <1>3, <1>4 DEF Range
<1>9. ASSUME NEW p \in Range(shown')
      PROVE  \E e \in found : e.page = p
  <2>1. PICK i \in 1..n : shown'[i] = p
    BY <1>6, <1>9 DEF Range
  <2>2. i \in 1..m
    BY <1>5
  <2> QED
    BY <1>6, <1>7, <2>1, <2>2
<1>10. ASSUME NEW e \in found, e.page \notin Range(shown')
       PROVE  /\ Len(shown') = TopK
              /\ \A f \in found : f.page \in Range(shown') => Score(query, f) >= Score(query, e)
  <2>1. PICK j \in 1..m : r[j] = e
    BY <1>8
  <2>2. n < j
    <3>1. j \notin 1..n
      BY <1>6, <1>10, <2>1 DEF Range
    <3> QED
      BY <3>1
  <2>3. Len(shown') = TopK
    BY <1>5, <1>6, <2>2
  <2>4. ASSUME NEW f \in found, f.page \in Range(shown')
        PROVE  Score(query, f) >= Score(query, e)
    <3>1. PICK i \in 1..n : shown'[i] = f.page
      BY <1>6, <2>4 DEF Range
    <3>2. i \in 1..m /\ i < j
      BY <1>5, <2>2
    <3>3. r[i].page = f.page /\ r[i] \in found
      BY <1>6, <1>7, <3>1, <3>2
    <3>4. r[i] = f
      BY <1>1, <1>2, <3>3, ExtractsDiffer
    <3> QED
      BY <1>3, <1>4, <2>1, <3>2, <3>4
  <2> QED
    BY <2>3, <2>4
<1> QED
  BY <1>9, <1>10

\* Whatever is asked of whatever the run has kept, search_pages shows matching
\* pages only, as many as it may, and hides none behind one with fewer of the
\* query's terms.
THEOREM SearchShowsBest == Spec => SearchIsBest
<1> DEFINE Best ==
      \A query \in SUBSET Terms : SearchPages(query) =>
        LET found == {e \in Range(extracts) : query \cap e.says # {}}
            in(e) == e.page \in Range(shown')
        IN  /\ \A p \in Range(shown') : \E e \in found : e.page = p
            /\ \A e \in found : ~in(e) =>
                 /\ Len(shown') = TopK
                 /\ \A f \in found : in(f) => Score(query, f) >= Score(query, e)
<1>1. Honest => Best
  <2> SUFFICES ASSUME Honest, NEW query \in SUBSET Terms, SearchPages(query),
                      NEW found, found = {e \in Range(extracts) : query \cap e.says # {}}
               PROVE  /\ \A p \in Range(shown') : \E e \in found : e.page = p
                      /\ \A e \in found : e.page \notin Range(shown') =>
                           /\ Len(shown') = TopK
                           /\ \A f \in found : f.page \in Range(shown') => Score(query, f) >= Score(query, e)
    OBVIOUS
  <2> QED
    BY SearchStep
<1>2. Honest => [Best]_vars
  BY <1>1
<1>3. SearchIsBest <=> [][Best]_vars
  BY DEF SearchIsBest
<1> QED
  BY <1>2, <1>3, HonestSpec, PTL

-----------------------------------------------------------------------------
\* How long the wait for Azure can get.
Overshoot == clock = 0 \/ clock < MaxWait + PollInterval + MaxDelay

\* The wait for Azure ends one sleep past the deadline at the latest, whatever Azure
\* does: the loop of _analyze_and_map looks at the deadline before each sleep.
THEOREM WaitIsBounded == Spec => [](clock \in Nat /\ Overshoot)
<1> DEFINE Inv == clock \in Nat /\ Overshoot
<1>1. Init => Inv
  BY DEF Init, Overshoot
<1>2. Inv /\ [Next]_vars => Inv'
  <2> SUFFICES ASSUME Inv, [Next]_vars, clock' # clock
               PROVE  Inv'
    BY DEF Overshoot
  <2>1. Sleep \/ BeginAnalyze
    BY DEF Next, Own, vars, read, ExtractNative, Raise, ClassifyPages, LayoutRaises,
           ReadSimplePages, ReadingRaises, TimeOut, AnalysisFailed, FetchResult,
           RestartUnclassified, AzureEnds, SearchPages, GetPage, Show
  <2>2. CASE BeginAnalyze
    BY <2>2 DEF BeginAnalyze, Overshoot
  <2>3. CASE Sleep
    <3>1. MaxWait \in Nat /\ MaxDelay \in Nat /\ PollInterval \in Nat
      BY AnalysisAssumption
    <3> QED
      BY <2>3, <3>1 DEF Sleep, Expired, Overshoot
  <2> QED
    BY <2>1, <2>2, <2>3
<1> QED
  BY <1>1, <1>2, PTL DEF Spec

\* What a run has still to go through.
StagesLeft ==
  [native |-> 5, layout |-> 4, simple |-> 3, begin |-> 2, poll |-> 1, done |-> 0, raised |-> 0][pc]

\* A step of the run: to a later stage, or one sleep nearer to the deadline.
Nearer ==
  \/ StagesLeft' < StagesLeft
  \/ StagesLeft' = StagesLeft /\ clock < MaxWait /\ clock < clock'

\* No step of the run is wasted, and no other step sets it back.
EveryStepCounts == [][IF Own THEN Nearer ELSE UNCHANGED <<StagesLeft, clock>>]_vars

\* The part of AnalysisEnds that needs no fairness: a run gets to its end by its own
\* steps, of which only finitely many are possible, and neither Azure nor a restart
\* nor a tool call takes it back to an earlier one. (classify_bytes, then _analyze_and_map.)
THEOREM StepsRunOut == Spec => EveryStepCounts
<1> DEFINE Counts == IF Own THEN Nearer ELSE UNCHANGED <<StagesLeft, clock>>
<1>1. clock \in Nat /\ [Next]_vars => [Counts]_vars
  <2> SUFFICES ASSUME clock \in Nat, Next
               PROVE  Counts
    OBVIOUS
  <2>1. ASSUME Own
        PROVE  Nearer
    <3>1. ASSUME NEW label \in {"native", "layout", "simple", "begin", "poll"}, Raise(label)
          PROVE  Nearer
      BY <3>1 DEF Raise, Nearer, StagesLeft
    <3>2. CASE ExtractNative \/ ClassifyPages \/ ReadSimplePages \/ BeginAnalyze
      BY <3>2 DEF ExtractNative, ClassifyPages, ReadSimplePages, BeginAnalyze, Nearer, StagesLeft
    <3>3. CASE Sleep
      <4>1. MaxWait \in Nat /\ MaxDelay \in Nat /\ PollInterval \in Nat \ {0}
        BY AnalysisAssumption
      <4>2. pc' = pc /\ clock < MaxWait /\ clock < clock'
        BY <3>3, <4>1 DEF Sleep, Expired
      <4> QED
        BY <4>2 DEF Nearer, StagesLeft
    <3>4. CASE \E pages \in Answers : FetchResult(pages)
      BY <3>4 DEF FetchResult, Nearer, StagesLeft
    <3> QED
      BY <2>1, <3>1, <3>2, <3>3, <3>4 DEF Own, LayoutRaises, ReadingRaises, TimeOut, AnalysisFailed
  <2>2. ASSUME ~Own
        PROVE  UNCHANGED <<StagesLeft, clock>>
    <3>1. pc' = pc /\ clock' = clock
      BY <2>2 DEF Next, RestartUnclassified, AzureEnds, SearchPages, GetPage, Show
    <3> QED
      BY <3>1 DEF StagesLeft
  <2> QED
    BY <2>1, <2>2
<1>2. Spec => []((clock \in Nat) /\ Overshoot)
  BY WaitIsBounded
<1>3. EveryStepCounts <=> [][Counts]_vars
  BY DEF EveryStepCounts
<1> QED
  BY <1>1, <1>2, <1>3, PTL DEF Spec
=============================================================================

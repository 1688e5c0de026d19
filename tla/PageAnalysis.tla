---------------------------- MODULE PageAnalysis ----------------------------
(***************************************************************************)
(* One run over the bytes of one document, in one thread: the classifier   *)
(* decides page by page, asking pdfplumber only about the pages PyMuPDF    *)
(* cannot decide; the parser takes simple pages from PyMuPDF and sends the *)
(* complex ones to Azure, which it polls until a deadline; afterwards the  *)
(* agent's tools read the extracts.  PageRules judges a page.              *)
(*                                                                         *)
(* A page of a document is a record with the fields PageRules reads and    *)
(* says, the terms printed on it.  Azure runs beside the thread.           *)
(***************************************************************************)
EXTENDS PageRules, Sequences, SequencesExt

CONSTANTS
  Documents,      \* sequences of pages
  MaxPages,       \* classification_max_pages
  Terms,          \* what can be printed on a page and asked for
  TopK,           \* agent_search_top_k
  MaxWait,        \* parsing_max_wait_seconds
  PollInterval,   \* parsing_poll_interval_seconds
  MaxDelay,       \* bound: how much longer than asked a sleep may last
  MaxClock        \* bound on clock, which a run does not reach

PageRecord ==
  [chars : Nat, alnum : Nat, words : Nat, xs : SUBSET Nat, area : Nat, images : Nat,
   tables : Nat, tableArea : Nat, lines : Nat, says : SUBSET Terms]

ASSUME AnalysisAssumption ==
  /\ \A d \in Documents : d \in Seq(PageRecord)
  /\ IsFiniteSet(Terms)
  /\ MaxPages \in Nat \ {0}
  /\ {MaxWait, MaxDelay, TopK, MaxClock} \subseteq Nat /\ PollInterval \in Nat \ {0}
  /\ MaxClock > MaxWait + PollInterval + MaxDelay

VARIABLES
  doc,       \* the document
  cfg,       \* the settings the parser reads
  pc,        \* where the run is
  native,    \* PyMuPDF's features of each page
  class,     \* the class of each page
  text,      \* the pages whose text the classifier has left with the run
  extracts,  \* what parse_document has put together
  asked,     \* the page ranges sent to Azure
  azure,     \* Azure's operation
  answer,    \* the pages of Azure's result, in its order
  clock,     \* time since the analysis was begun
  shown      \* the page numbers the last tool call returned

vars == <<doc, cfg, pc, native, class, text, extracts, asked, azure, answer, clock, shown>>

read == <<doc, cfg>>

-----------------------------------------------------------------------------
Pages == DOMAIN doc

\* What Settings.validate_environment lets pass.
Configs ==
  {c \in [parsing : BOOLEAN, endpoint : BOOLEAN, key : BOOLEAN, prod : BOOLEAN] :
     c.prod /\ c.parsing => c.endpoint}

HasAzureParser == cfg.parsing /\ cfg.endpoint

\* _build_credential: a key, or the identity of the production host.
HasCredential == cfg.key \/ cfg.prod

\* The sequence of S's members with none behind one it belongs before.
Sorted(S, Before(_, _)) ==
  CHOOSE s \in [1..Cardinality(S) -> S] :
    IsInjective(s) /\ \A i, j \in DOMAIN s : i < j => ~Before(s[j], s[i])

Ascending(S) == Sorted(S, <)

Extract(p, extractor) == [page |-> p, extractor |-> extractor, says |-> doc[p].says]

ByPage(es) == Sorted(es, LAMBDA e, f : e.page < f.page)

-----------------------------------------------------------------------------
Init ==
  /\ doc \in Documents
  /\ cfg \in Configs
  /\ pc = "native"
  /\ native = <<>> /\ class = <<>> /\ text = {}
  /\ extracts = <<>> /\ asked = <<>> /\ azure = "none" /\ answer = <<>>
  /\ clock = 0
  /\ shown = <<>>

Raise(label) ==
  /\ pc = label
  /\ pc' = "raised"
  /\ UNCHANGED <<read, native, class, text, extracts, asked, azure, answer, clock, shown>>

\* The first lines of classify_bytes; PyMuPDF itself may raise.
ExtractNative ==
  /\ pc = "native"
  /\ Len(doc) \in 1..MaxPages
  /\ native' = [p \in Pages |-> NativeFeatures(doc[p])]
  /\ text' = Pages
  /\ pc' = "layout"
  /\ UNCHANGED <<read, class, extracts, asked, azure, answer, clock, shown>>

Borderline == {p \in Pages : ~DefinitelyComplex(Signals(native[p], NoLayout))}

\* The rest of classify_bytes: pdfplumber, asked about these pages only.
ClassifyPages ==
  /\ pc = "layout"
  /\ class' = [p \in Pages |->
                 ClassifyPage(Signals(native[p],
                                      IF p \in Borderline THEN LayoutFeatures(doc[p])
                                      ELSE NoLayout))]
  /\ pc' = "simple"
  /\ UNCHANGED <<read, native, text, extracts, asked, azure, answer, clock, shown>>

LayoutRaises == Raise("layout") /\ Borderline # {}

\* The pages are saved, the worker dies, and the next one runs with
\* CLASSIFICATION_ENABLED off: the classes come from the table, no text does.
RestartUnclassified ==
  /\ pc = "simple"
  /\ text' = {}
  /\ UNCHANGED <<read, pc, native, class, extracts, asked, azure, answer, clock, shown>>

SimplePages == {p \in Pages : class[p] = Simple}
ComplexPages == Pages \ SimplePages

\* The simple pages, in their order: with the text at hand, or read again.
ReadSimplePages ==
  /\ pc = "simple"
  /\ extracts' = LET ps == Ascending(SimplePages)
                 IN  [i \in DOMAIN ps |-> Extract(ps[i], "local_pymupdf")]
  /\ pc' = IF ComplexPages # {} /\ HasAzureParser THEN "begin" ELSE "done"
  /\ UNCHANGED <<read, native, class, text, asked, azure, answer, clock, shown>>

ReadingRaises == Raise("simple") /\ SimplePages \ text # {}

-----------------------------------------------------------------------------
\* _analyze_and_map.

\* A page after the last range's end opens a range or widens the last one.
AddPage(ranges, p) ==
  IF ranges # <<>> /\ p = Last(ranges)[2] + 1
  THEN Append(Front(ranges), <<Last(ranges)[1], p>>)
  ELSE Append(ranges, <<p, p>>)

\* Mutant of FormatPages: the range still open at the end is not written.
FormatPagesButLast(S) == Front(FoldLeft(AddPage, <<>>, Ascending(S)))

FormatPages(S) == FoldLeft(AddPage, <<>>, Ascending(S))

BeginAnalyze ==
  /\ pc = "begin"
  /\ HasCredential
  /\ asked' = FormatPages(ComplexPages)
  /\ azure' = "running"
  /\ clock' = 0
  /\ pc' = "poll"
  /\ UNCHANGED <<read, native, class, text, extracts, answer, shown>>

\* Mutant of Expired: a deadline set anew at every poll is always ahead.
NeverExpired == clock >= clock + MaxWait

Expired == clock >= MaxWait

Sleep ==
  /\ pc = "poll" /\ azure = "running" /\ ~Expired
  /\ clock' \in clock + PollInterval .. clock + PollInterval + MaxDelay
  /\ clock' <= MaxClock
  /\ UNCHANGED <<read, pc, native, class, text, extracts, asked, azure, answer, shown>>

TimeOut == azure = "running" /\ Expired /\ Raise("poll")

Requested(pages) == Range(pages) \cap ComplexPages

\* poller.result(), and the final sort of parse_document.
FetchResult(pages) ==
  /\ pc = "poll" /\ azure = "succeeded"
  /\ answer' = pages
  /\ extracts' = ByPage(Range(extracts)
                        \cup {Extract(p, "azure_document_intelligence") : p \in Requested(pages)})
  /\ pc' = "done"
  /\ UNCHANGED <<read, native, class, text, asked, azure, clock, shown>>

AnalysisFailed == azure = "failed" /\ Raise("poll")

\* Azure's side: the operation ends when it ends.
AzureEnds(outcome) ==
  /\ azure = "running"
  /\ azure' = outcome
  /\ UNCHANGED <<read, pc, native, class, text, extracts, asked, answer, clock, shown>>

\* Azure may answer with any of the document's pages, once each, in any order.
Answers == {s \in UNION {[1..n -> Pages] : n \in 0..Len(doc)} : IsInjective(s)}

-----------------------------------------------------------------------------
\* The tools, over the extracts the run has saved.

Score(query, e) == Cardinality(query \cap e.says)

Better(query, e, f) ==
  \/ Score(query, e) > Score(query, f)
  \/ Score(query, e) = Score(query, f) /\ e.page < f.page

ByScore(query, es) == Sorted(es, LAMBDA e, f : Better(query, e, f))

\* Mutant of FirstOf: every match is shown.
AllOf(s) == s

FirstOf(s) == SubSeq(s, 1, Least(TopK, Len(s)))

\* Mutant of Ranked: the cut comes before the ranking.
RankedAfterCut(query) ==
  ByScore(query, Range(FirstOf(SelectSeq(extracts, LAMBDA e : Score(query, e) > 0))))

Ranked(query) == FirstOf(ByScore(query, {e \in Range(extracts) : Score(query, e) > 0}))

Show(es) ==
  /\ pc = "done"
  /\ shown' = [i \in DOMAIN es |-> es[i].page]
  /\ UNCHANGED <<read, pc, native, class, text, extracts, asked, azure, answer, clock>>

SearchPages(query) == Show(Ranked(query))

GetPage(p) ==
  \/ \E e \in Range(extracts) : e.page = p /\ Show(<<e>>)
  \/ p \notin {e.page : e \in Range(extracts)} /\ Show(<<>>)

-----------------------------------------------------------------------------
Own ==
  \/ ExtractNative \/ Raise("native")
  \/ ClassifyPages \/ LayoutRaises
  \/ ReadSimplePages \/ ReadingRaises
  \/ BeginAnalyze \/ Raise("begin")
  \/ Sleep \/ TimeOut \/ AnalysisFailed
  \/ \E pages \in Answers : FetchResult(pages)

Next ==
  \/ Own
  \/ RestartUnclassified
  \/ \E outcome \in {"succeeded", "failed"} : AzureEnds(outcome)
  \/ \E query \in SUBSET Terms : SearchPages(query)
  \/ \E p \in 1..MaxPages : GetPage(p)

Spec == Init /\ [][Next]_vars

\* The thread runs on; Azure owes nothing, and the tools need not be called.
FairSpec == Spec /\ WF_vars(Own)

-----------------------------------------------------------------------------
Labels == {"native", "layout", "simple", "begin", "poll", "done", "raised"}

Extractors == {"local_pymupdf", "azure_document_intelligence"}

PageExtracts == [page : Pages, extractor : Extractors, says : SUBSET Terms]

\* TYPE.  A run that has text for a page has text for all of them.
AnalysisTypeOK ==
  /\ doc \in Documents /\ cfg \in Configs
  /\ pc \in Labels
  /\ native # <<>> => DOMAIN native = Pages /\ Len(doc) \in 1..MaxPages
  /\ class = <<>> \/ class \in [Pages -> {Simple, Complex}]
  /\ text \in {{}, Pages}
  /\ extracts \in Seq(PageExtracts)
  /\ azure \in {"none", "running", "succeeded", "failed"}
  /\ azure # "none" <=> asked # <<>>
  /\ Range(answer) \subseteq Pages
  /\ clock \in 0..MaxClock
  /\ Len(shown) <= Greatest(TopK, 1)

\* Leaving a page out of pdfplumber's reading never changes its class: the
\* class is the one the rules give to all the features of the page, and a
\* page called simple passes every threshold by itself.
\* (is_definitely_complex_from_pymupdf and classify_page, rules.py.)
ShortcutAgrees ==
  class # <<>> =>
    \A p \in Pages :
      LET full == Signals(NativeFeatures(doc[p]), LayoutFeatures(doc[p]))
      IN  /\ class[p] = ClassifyPage(full)
          /\ class[p] = Simple <=> ConfidentlySimple(full) /\ ~ImageDominantLowText(full)

\* The pages parameter names the complex pages and no other, each once, in
\* the fewest ranges: Azure bills what it is asked for, and a page it is not
\* asked for has no text.  (format_azure_pages_parameter.)
AskedForComplexPages ==
  asked # <<>> =>
    /\ UNION {asked[i][1] .. asked[i][2] : i \in DOMAIN asked} = ComplexPages
    /\ \A i \in DOMAIN asked : asked[i][1] <= asked[i][2]
    /\ \A i \in 1..Len(asked) - 1 : asked[i][2] + 1 < asked[i + 1][1]

ExtractedBy(extractor) == {e.page : e \in {x \in Range(extracts) : x.extractor = extractor}}

\* A run that ends has the extracts of the pages in the pages' order, one for
\* a page: every simple page by the local extractor, and of the complex ones
\* those Azure has answered, whatever order it answered in and whatever else
\* it answered with.  (CompositeDocumentParser.parse_document, _analyze_and_map;
\* the table's key is the document and the page.)
ExtractsMatchPages ==
  pc = "done" =>
    /\ \A i, j \in DOMAIN extracts : i < j => extracts[i].page < extracts[j].page
    /\ ExtractedBy("local_pymupdf") = SimplePages
    /\ ExtractedBy("azure_document_intelligence") = Range(answer) \cap ComplexPages
    /\ ComplexPages # {} /\ HasAzureParser => azure = "succeeded"

\* Every page of the document is asked of the reader its class names, and what
\* comes back is kept for that page and for no other.
PagesAreHonoured == AskedForComplexPages /\ ExtractsMatchPages

\* A search shows only pages that have a term of the query, and leaves such a
\* page out only when it shows as many as it may, none of them with fewer of
\* the query's terms.  (search_pages, agent/tools.py.)
SearchIsBest ==
  [][\A query \in SUBSET Terms : SearchPages(query) =>
       LET found == {e \in Range(extracts) : query \cap e.says # {}}
           in(e) == e.page \in Range(shown')
       IN  /\ \A p \in Range(shown') : \E e \in found : e.page = p
           /\ \A e \in found : ~in(e) =>
                /\ Len(shown') = TopK
                /\ \A f \in found : in(f) => Score(query, f) >= Score(query, e)]_vars

\* A run ends, even if Azure never does.  (The deadline of _analyze_and_map.)
AnalysisEnds == <>(pc \in {"done", "raised"})
=============================================================================

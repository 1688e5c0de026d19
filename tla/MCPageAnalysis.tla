--------------------------- MODULE MCPageAnalysis ---------------------------
(* An instance of PageAnalysis for TLC: documents of one page from a pool    *)
(* with a page on either side of every threshold, and documents of up to one *)
(* page more than allowed from three pages.                                  *)
EXTENDS PageAnalysis

CONSTANTS a, b

MCTerms == {a, b}

Plain ==
  [chars |-> 1200, alnum |-> 1000, words |-> 200, xs |-> {20, 31, 42, 53, 64, 75},
   area |-> 100, images |-> 0, tables |-> 0, tableArea |-> 0, lines |-> 4, says |-> {a}]

Scanned == [Plain EXCEPT !.chars = 0, !.alnum = 0, !.words = 0, !.xs = {}, !.images = 100,
                         !.says = {a, b}]

Tabular == [Plain EXCEPT !.tables = 2, !.tableArea = 60, !.says = {b}]

Pool ==
  {Plain, Scanned, Tabular} \cup
  {[Plain EXCEPT !.tables = 1, !.tableArea = n] : n \in {29, 30, 120}} \cup
  {[Plain EXCEPT !.lines = n] : n \in {12, 13, 60}} \cup
  {[Plain EXCEPT !.xs = {20, 31, 50 + n}] : n \in {-8, -7}} \cup
  {[Plain EXCEPT !.xs = {10, 30, 50, 70, 90}]} \cup
  {[Plain EXCEPT !.images = n] : n \in {35, 36, 65, 150}} \cup
  {[Plain EXCEPT !.alnum = n] : n \in {380, 420, 780, 820}} \cup
  {[Plain EXCEPT !.chars = n, !.alnum = n - 10, !.words = 25] : n \in {49, 50}} \cup
  {[Plain EXCEPT !.chars = n, !.alnum = n, !.words = 7, !.images = 80] : n \in {20, 21}} \cup
  {[Plain EXCEPT !.area = 0, !.tables = n] : n \in {0, 1}}

MCDocuments ==
  {<<p>> : p \in Pool}
    \cup UNION {[1..n -> {Plain, Scanned, Tabular}] : n \in {0, 2, 3}}
    \cup {<<Scanned, Scanned, Plain, Scanned>>, <<Plain, Tabular, Plain, Scanned>>}
    \cup {<<Plain, Plain, Plain, Plain, Plain>>}
=============================================================================

------------------------- MODULE MCDocumentPipeline -------------------------
(* An instance of DocumentPipeline for TLC: a document with a simple and a  *)
(* complex page, and one without pages.                                     *)
EXTENDS DocumentPipeline, TLC

CONSTANTS d1, d2

MCJobs == {d1, d2}

MCPageClass ==
  (d1 :> <<"born_digital_simple", "born_digital_complex">>) @@
  (d2 :> <<>>)
=============================================================================

\* Two workers and two documents; nothing is left to do once both are deleted.
SPECIFICATION PipelineSpec
CONSTANTS
  d1 = d1
  d2 = d2
  Jobs <- MCJobs
  Workers = {w1, w2}
  NoJob = NoJob
  MaxAttempts = 2
  PageClass <- MCPageClass
INVARIANTS PipelineTypeOK DocumentIsConsistent
PROPERTIES StatusOrder SettledDocumentIsFinal EventuallySettled
CHECK_DEADLOCK FALSE

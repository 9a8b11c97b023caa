\* What becomes of one response: outputs, body errors, assertions, verdict.
CONSTANTS
  TextOrder <- MCTextOrder
  TwoQuotes = {"both"}
  IntLimit = 100000
  MaxSeconds = 1000000
  Cases <- MCCases
  BodyErrorOf <- DetectBodyError
  OutputsOf <- ExtractedOutputs
  BodyCheck <- CheckBody
SPECIFICATION JudgeSpec
INVARIANTS
  VerdictIsTheRuns
  ChecksFollowTheExpectation
  ValuesAreOne
  TextsKeepTheirMeaning

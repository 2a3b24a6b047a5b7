CONSTANTS
  Letter <- Letters
  Argument <- Arguments
  MaxRuns = 2
SPECIFICATION Spec
INVARIANT TypeOK
INVARIANT IdReadsBack
INVARIANT PairMeansUri
INVARIANT OwnKey

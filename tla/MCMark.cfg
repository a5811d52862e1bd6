SPECIFICATION Spec
CONSTANTS
  b1 = b1
  b2 = b2
  Benchmark <- Benchmarks
  FirstCapacity = 1
  Warmup <- Warmups
  MaxTime = 2
  MaxIterations = 3
SYMMETRY Symmetry
INVARIANTS
  SamplesFit
  SummaryIsOfSamples
PROPERTIES
  ExactUnlessOverlapped
  MedianInTheMiddle

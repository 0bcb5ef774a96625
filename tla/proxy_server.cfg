SPECIFICATION ServerSpec
CONSTANTS
  Conns = {k1, k2, k3}
  Serve = serve
  Main = main
  Starters = {serve}
  Stoppers = {main}
INVARIANTS NothingProbesAfterStop GaugeAgrees RequestsAnswered UnaskedExitIsError
PROPERTIES CancellationNotReported ProcessEnds

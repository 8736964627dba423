SPECIFICATION SamplingSpec
CONSTANTS
  Callers = {c1, c2}
  Workloads <- MCWorkloads
  TraceOf <- MCTraceOf
  FieldsOf <- MCFieldsOf
  One = 2
  InitialProbability = 1
  MinProbability = 0
  MaxProbability = 2
  Ps = {0, 2}
  NoCall = NoCall
INVARIANTS RequiredHasDefault WildcardMatchesAny
PROPERTY ChosenArePassedOn

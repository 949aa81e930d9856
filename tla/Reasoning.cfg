SPECIFICATION FairSpec
CONSTANTS
  Fact <- MCFact
  Queries <- MCQueries
  MaxAsked = 2
  MaxDepth = 6
  NoQuery = NoQuery
  State <- MCState
  Loaded <- MCLoaded
  Problems <- MCProblems
  MaxSolved = 1
  MaxSize = 20
  NoProblem = NoProblem
  PatternOf <- MCPatternOf
  Declared <- MCDeclared
  Empty = Empty
INVARIANTS TypeOK RtxIsFaithful ForwardIsClosure BackwardProves PlanExecutes
PROPERTIES QueriesEnd
\* When the queries have been answered, nothing happens any more.
CHECK_DEADLOCK FALSE

SPECIFICATION Spec
CONSTANTS
    o1 = o1
    o2 = o2
    Objects <- MCObjects
    SignalNames = {"a", "b"}
    Declared <- MCDeclared
    Expectations = {0, 1}
    MaxEmissions = 2
    MaxNesting = 2
    MaxTeardowns = 1
INVARIANT TypeOK
INVARIANT ConnectedWhileWatched
INVARIANT EvaluateTellsTheTruth
INVARIANT CountsMatchHistories

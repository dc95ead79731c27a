CONSTANTS
  Callers = {c1}
  Nodes = {n1, n2}
  Pipeline = 2
  MaxReports = 3
  MaxUnanswered = 2
SPECIFICATION Spec
SYMMETRY Alike
INVARIANTS TypeOK ReportsAreCounted
PROPERTY OpenIsRespected

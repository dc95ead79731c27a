CONSTANTS
  Callers = {c1}
  Nodes = {n1}
  Pipeline = 2
  MaxReports = 2
  MaxUnanswered = 1
SPECIFICATION Spec
INVARIANT TablesAgree

SPECIFICATION FairSpec
CONSTANTS
  Ids = {i1}
  Publics = {a}
  Privates = {}
  Displays = {d}
  Offered <- OneProfile
  Nil = Nil
  Absent = Absent
  None = None
  p1 = p1
  p2 = p2
  p3 = p3
  Callers = {p1}
  Calls <- StartCalls
  Generations = {g1}
PROPERTIES
  AcceptedOutlivesRequest

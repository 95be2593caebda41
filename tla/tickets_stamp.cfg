CONSTANTS
  Keep = Keep
  u1 = u1
  r1 = r1
  Users = {u1}
  Requests = {r1}
  StatusInputs = {"resolved"}
  PriorityInputs = {"low"}
  AssigneeInputs = {}
  MaxTickets = 1
  MaxComments = 0
INIT Init
NEXT Next
SYMMETRY Symmetry
INVARIANTS ResolvedIsStamped

CONSTANTS
  Keep = Keep
  u1 = u1
  r1 = r1
  r2 = r2
  Users = {u1}
  Requests = {r1, r2}
  StatusInputs = {"resolved", "closed", "bogus"}
  PriorityInputs = {"low"}
  AssigneeInputs = {}
  MaxTickets = 1
  MaxComments = 0
SPECIFICATION Spec
INVARIANTS StampFollowsStatus AcknowledgedUpdatesStay
PROPERTIES MutexIsReleased

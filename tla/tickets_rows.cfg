CONSTANTS
  Keep = Keep
  u1 = u1
  u2 = u2
  r1 = r1
  r2 = r2
  Users = {u1, u2}
  Requests = {r1, r2}
  StatusInputs = {}
  PriorityInputs = {"low", "bogus"}
  AssigneeInputs = {u2}
  MaxTickets = 1
  MaxComments = 2
INIT Init
NEXT Next
SYMMETRY Symmetry
INVARIANTS TypeOK ReferencesHold CommentsNoOlderThanTicket

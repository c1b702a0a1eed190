SPECIFICATION BoxSpec
CONSTANTS
  Staff = {a2, a3}
  OptionIds = {r1}
  Papers = {p1, p2}
  Snapshots = {v1}
  Undecided = none
  ClosesAt = 1
  MaxHour = 1
  MaxVotes = 2
INVARIANT OneValidatedVote
CHECK_DEADLOCK FALSE

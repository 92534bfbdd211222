\* A login beside a change of password.
CONSTANTS
  Sessions = {s1, s2}
  Logins = {l1}
  Actions = {a1}
  MaxPassword = 1
  MaxOpenings = 1
  MaxEvents = 1
SPECIFICATION Spec
INVARIANT ChangeEndsSessions

\* Two sessions, one login and one request at a time, one change of password, two dialogs
\* on a page and one close event on its way.
CONSTANTS
  Sessions = {s1, s2}
  Logins = {l1}
  Actions = {a1}
  MaxPassword = 1
  MaxOpenings = 2
  MaxEvents = 1
SPECIFICATION Spec
INVARIANTS OldPasswordsEnd NoSecondPrompt ConfirmedOnce OpenDialogAnswers
PROPERTIES CriticalNeedsPassword
SYMMETRY MCSymmetry

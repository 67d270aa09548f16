CONSTANTS
  Workers = {w1}
  Forcers = {f1}
  Logins = {l1}
  Operators = {o1}
  Rotates = TRUE
  Lossy = TRUE
  Restarts = TRUE  StoreFails = TRUE
  Life = 1        Lead = 0
  Interval = 1    MaxAttempts = 2
  Backoffs <- MCShortBackoffs
  Ladder <- MCShortLadder
  MaxIssued = 2
SPECIFICATION Spec
PROPERTIES TokensKept LadderWidens BurialEarned

CONSTANTS
  Workers = {w1}
  Forcers = {}
  Logins = {}
  Operators = {}
  Rotates = TRUE
  Lossy = FALSE
  Restarts = FALSE  StoreFails = TRUE
  Life = 4        Lead = 2
  Interval = 2    MaxAttempts = 3
  Backoffs <- MCBackoffs
  Ladder <- MCLadder
  MaxIssued = 4
SPECIFICATION FairSpec
PROPERTY RefreshSettles

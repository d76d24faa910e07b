CONSTANTS
    Accounts = {1, 2}
    Reuse = TRUE
    MaxChallenges = 1
    MaxStops = 1
SPECIFICATION FairSpec
INVARIANTS ChallengesCurrent NoReaderAfterClose
PROPERTIES OneCycle AccountsChecked

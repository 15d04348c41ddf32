SPECIFICATION FairSpec
CONSTANTS
    Scenes <- MCScenes
    Contacts = {c1, c2}
    MaxJobs = 2
    MaxSessions = 1
    MaxEvents = 3
INVARIANTS AccountsMeant KeysStored TwoApproved
PROPERTIES PasswordCurrent PollRecovers
CHECK_DEADLOCK FALSE

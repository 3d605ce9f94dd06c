SPECIFICATION Spec
CHECK_DEADLOCK FALSE
CONSTANTS
    Source = "en"
    Targets = {"ko"}
    MaxCommits = 5
INVARIANTS TypeOK RoomsShowWhatTheyKnow
PROPERTIES EveryCommitIsRelayed RoomsNeverGoBack

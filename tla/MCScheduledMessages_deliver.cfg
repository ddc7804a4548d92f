SPECIFICATION FairSpec
CONSTANTS
    edit1 = edit1
    edit2 = edit2
    run1 = run1
    run2 = run2
    Messages = {1, 2, 3}
    Reminders = {3}
    Poison = {1}
    Editors = {edit1}
    Deliverers = {run1, run2}
    Cutoff = 0
    MaxTime = 3
    MaxSaves = 2
    MaxCrashes = 1
CHECK_DEADLOCK FALSE
INVARIANTS DeliveredIffSent
PROPERTIES SendsWhatIsSaved DeletedIsNotSent DueIsDecided

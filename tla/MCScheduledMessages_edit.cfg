SPECIFICATION Spec
CONSTANTS
    edit1 = edit1
    edit2 = edit2
    run1 = run1
    run2 = run2
    Messages = {1}
    Reminders = {}
    Poison = {}
    Editors = {edit1}
    Deliverers = {run1}
    Cutoff = 0
    MaxTime = 3
    MaxSaves = 2
    MaxCrashes = 0
CHECK_DEADLOCK FALSE
PROPERTIES SentIsFinal

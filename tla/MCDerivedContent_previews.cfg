SPECIFICATION Spec
CONSTANTS
    hello = hello
    bye = bye
    note = note
    s1 = s1
    s2 = s2
    v1 = v1
    None = None
    Contents = {hello, bye, note}
    Sources = {s1, s2}
    Text <- MCText
    Paths = {v1}
    Voices <- MCVoices
    Linked = {hello}
    SendsHash = TRUE
    MaxTries = 1
    MaxEdits = 2
    MaxCrashes = 0
CHECK_DEADLOCK FALSE
PROPERTIES BlockKept

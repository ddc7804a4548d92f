SPECIFICATION FairSpec
CONSTANTS
    alice = alice
    bob = bob
    w1 = w1
    t1 = t1
    a1 = a1
    a2 = a2
    a3 = a3
    None = None
    FirstMembers <- EverywhereBoth
    FirstEmail <- FirstAddresses
    Workspaces <- OneWorkspace
    Humans <- TwoHumans
    Emails <- ThreeEmails
    Threads <- OneThread
    Profiles = {1, 2, 3, 4}
    MaxAttempts = 2
    MaxChanges = 2
    MaxFaults = 1
INVARIANTS ErasedIsGone
PROPERTIES MembershipSettles ProfileKept

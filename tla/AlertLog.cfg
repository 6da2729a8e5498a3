SPECIFICATION FairSpec
CONSTANTS
    a1 = a1  a2 = a2  pending = pending  firing = firing
    Inactive = Inactive  Broken = Broken
    Missing = Missing  Unparsed = Unparsed  Malformed = Malformed
    Alerts = {a1, a2}
    States = {pending, firing}
    MaxChanges = 3
    MaxKills = 2
    MaxFailures = 1
INVARIANTS TypeOK JournalMatches
PROPERTIES StaysWhole JournalFollows

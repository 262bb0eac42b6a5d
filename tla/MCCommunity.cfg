SPECIFICATION FairSpec
CONSTANTS
    good = good
    bad = bad
    channel = channel
    Communities = {good, bad}
    Feed = {channel}
    Refusing = {bad}
    KeepsOrder = {good}
    Forged = {2}
    MaxEvents <- MCMaxEvents
    MaxFaults = 2
INVARIANTS
    OneSubscription
    FailureIsContained
    NothingSlipsThrough
PROPERTIES
    StartEnds
    HealthyCommunityStarts
    FeedsComeBack
    NoEventIsMissed
CHECK_DEADLOCK FALSE

SPECIFICATION FairSpec
CONSTANT MaxEvents = 2
PROPERTY StopFollowsIoError

SPECIFICATION FairSpec
CONSTANT MaxEvents = 3
INVARIANTS TypeOK AbortOnlyStaleSuspend RebootFlagsAgree RestartedGuestIsReset
PROPERTIES SavedStateFinal IoErrorStops SuspendExits

SPECIFICATION FairSpec
CONSTANT Steps = 4
INVARIANTS LockstepInv AnswersOwnSample ComputedOnce NoPayloadRace
PROPERTIES StaysInStep FirmwareFollows HostsEnd RunSucceeds
\* Everyone ends.
CHECK_DEADLOCK FALSE

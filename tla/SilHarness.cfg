SPECIFICATION FairSpec
INVARIANTS SuccessIsEarned
PROPERTIES FailureEndsRun
\* main() returns.
CHECK_DEADLOCK FALSE

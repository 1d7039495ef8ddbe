\* Two commands, an ordinary one and cmd_Connect; the task gives up at the
\* third failure instead of the twenty-first.
CONSTANTS
  Commands = 2
  MaxFail = 2
SPECIFICATION FairSpec
INVARIANTS TypeOK AtModeQuiet DialsInDataMode SessionHasPpp ClosedOnReturn
PROPERTIES LostLinkIsRedialled DisconnectIsAnswered GivenUpIsFinal
\* A caller whose request meets no task waits for ever.
CHECK_DEADLOCK FALSE

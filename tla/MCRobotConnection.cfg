CONSTANTS
    Plans <- SomePlans
    MaxConns = 2
    InboundCap = 2
    MailboxCap = 2
    QueueSize = 2
    ControlCap = 2
    MaxIdle = 2
SPECIFICATION Spec
INVARIANTS CountedOnce AnswerIsOwn OwnerIsServed
PROPERTIES QuietOnceReleased EverythingEnds
CHECK_DEADLOCK FALSE

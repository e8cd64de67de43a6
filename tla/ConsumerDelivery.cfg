\* The bounds let the system come to rest: the consumer may have stopped and every
\* message and restart may be used up.
CHECK_DEADLOCK FALSE
SPECIFICATION FairLoopSpec
CONSTANTS
    Messages = {good, other, bad}
    Poison = {bad}
    MaxMessages = 3
    MaxRestarts = 2
INVARIANTS
    OneEffectPerRun
    EffectOrFailure
PROPERTIES
    DeliversAtLeastOnce
    TopicIsDrained

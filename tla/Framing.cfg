\* A whole session in pieces of any size.
SPECIFICATION FairSpec
CONSTANTS
    HEADER = 3
    Script <- MCScript
    PAYLOAD <- MCPayload
INVARIANTS
    TypeOK
    AnswerFitsRequest
PROPERTIES
    ImplementsChannel
    EveryWaitEnds

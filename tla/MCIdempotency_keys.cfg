CONSTANTS
    r1 = r1
    r2 = r2
    r3 = r3
    k1 = k1
    Null = Null
    MaxEpoch = 1
    Calls <- MCCalls
    RequestKeys <- MCKeys
    KeyOf <- MCKeyOf
    HashOf <- MCHashOf
SPECIFICATION IdempotencySpec
INVARIANTS AtMostOneSend AnswersSameRequest
CHECK_DEADLOCK FALSE

SPECIFICATION Spec
CONSTANTS
    u1 = u1
    u2 = u2
    p1 = p1
    p2 = p2
    p3 = p3
    p4 = p4
    p5 = p5
    Users = {u1, u2}
    Posts <- MCPosts
    userOf <- MCUserOf
INVARIANTS
    TypeOK
    OneWalletPerUser
    AnswersAreTrue
PROPERTIES
    UserServed
    EveryPostAnswered
CHECK_DEADLOCK FALSE

\* Three pipelined requests; controllers may end in any way.
SPECIFICATION FairSpec
CONSTANTS
    Requests = {r1, r2, r3}
    Outcomes = {"returns", "returnsNull", "throws", "throwsNoMessage"}
INVARIANTS
    RequestOutlivesItsRead
PROPERTIES
    ImplementsConversation
    ClosesAfterWrite
    NobodyIsLeftWaiting

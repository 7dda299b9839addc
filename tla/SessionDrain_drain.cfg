SPECIFICATION FairSpec
CONSTANTS
    p = p  q = q  s1 = s1  s2 = s2  s3 = s3  r1 = r1  k1 = k1  k2 = k2  none = none
    Prompts = {p, q}
    None = none
    Senders = {s1, s2, s3}
    Sends <- Kinds
    Resumers = {r1}
    Stoppers = {k1, k2}
    Steps = 2
    MaxEntries = 4
    MaxFaults = 1
INVARIANTS OneDrain NoPromptForgotten SteersReachTheTurn NoIdleProviderCall AnswersAgree
PROPERTIES ImplementsInbox EveryoneIsServed
CHECK_DEADLOCK FALSE

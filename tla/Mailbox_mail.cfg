SPECIFICATION FairSpec
CONSTANTS
    m1 = m1  r1 = r1  r2 = r2
    Mail = {m1}
    Readers = {r1, r2}
    MaxFiles = 2
    MaxFaults = 1
    SweepsFail = FALSE
INVARIANTS AtMostOnce AnswersAreTrue
PROPERTIES ImplementsKeptMail MailIsRead
CONSTRAINT FewReaders
ACTION_CONSTRAINT DrainsInOrder
CHECK_DEADLOCK FALSE

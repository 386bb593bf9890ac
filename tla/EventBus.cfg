CONSTANTS
    s1 = s1
    s2 = s2
    control = control
    voice = voice
    Publishers = {p1, p2}
    Subs = {s1, s2}
    EventTypes = {control, voice}
    Filter <- MCFilter
    Buffer = 1
    MaxDrops = 2
    MaxSeq = 4
SPECIFICATION FairSpec
INVARIANTS SequenceOrder NoSendOnClosed GapsAreDrops SlowIsEvicted
PROPERTIES PublishTerminates
CHECK_DEADLOCK FALSE

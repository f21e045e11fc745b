\* Cancellation of the Start context: what the drain leaves behind.
SPECIFICATION Spec
CONSTANTS
    w1 = w1  w2 = w2
    p1 = p1  p2 = p2
    k1 = k1
    NoWork = NoWork
    Works = {w1, w2}
    GroupWorks = {w2}
    Peers = {p1, p2}
    Keys = {k1}
    KeyOf <- MCKeyOf
    Affected <- MCAffected
    QueueCap = 1
INVARIANT ExitDrainsQueue

\* The threshold the mount uses; the engine is the only subscriber.
CONSTANTS
    p1 = p1
    p2 = p2
    Subs = {"engine"}
    Paths = {p1}
    Prompt = FALSE
    Threshold = 3
    MaxFailures = 3
SPECIFICATION Spec
PROPERTIES
    LinkImplemented
    DeadLinkReported
    LinkRecovery
    StopReturns

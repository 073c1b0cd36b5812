\* The engine alone, one failure declares OFFLINE: the shortest histories.
CONSTANTS
    p1 = p1
    p2 = p2
    Subs = {"engine"}
    Paths = {p1}
    Prompt = TRUE
    Threshold = 1
    MaxFailures = 1
SPECIFICATION Spec
PROPERTIES
    EngineResumes

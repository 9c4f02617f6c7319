SPECIFICATION Spec
CONSTANTS
    BlockCces = 4
    CceCounts = {3, 5}
    Formats = {0, 4}
    None = None
    Target = target
    Paging = paging
    Others = {a}
    MaxDci = 2
    MaxEvents = 4
INVARIANTS TypeOK NoOverlap ReportedDecoded TargetReported RepeatedTaken

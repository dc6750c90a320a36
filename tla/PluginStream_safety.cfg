\* Safety and refinement: two connections, a ring of two, a transport that
\* blocks on the second unread frame, four events.
SPECIFICATION Spec
CONSTANTS
    p1 = p1
    p2 = p2
    Plugins <- Two
    Readers <- Two
    Capacity = 2
    PipeFrames = 1
    MaxEvents = 4
SYMMETRY Symmetry
CHECK_DEADLOCK FALSE
INVARIANTS ContiguousStream ReadyMeansSubscribed AnnouncedEnd

CONSTANTS
    Devices = {d1, d2}
    MaxLen = 2
    Depth = 4
    Settings = {0, 1}
    Masked = TRUE
    Regs = {r1, r2}
    MaxBytes = 2
    Frames = {m1, m2}
    Elements = 2
    Pages = {p}
    Words = {w1, w2}
    Values = {v1, v2}
    Last = 1
    Bits = 3
SPECIFICATION MCSpec
INVARIANTS DriversTypeOK OwnBytes OneSelected QuietWhenFree
           Truthful Undisturbed EdgesKept WiresRight
PROPERTIES LineQuiet Progress FramesInOrder

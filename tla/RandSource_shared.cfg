\* Two goroutines drawing from the shared generator.
CONSTANTS
    Goroutines = {g1, g2}
    RngLen = 10
    RngTap = 3
    Ints = {0, 1}
    MaxLen = 2
SPECIFICATION Spec
INVARIANTS IndexInRange

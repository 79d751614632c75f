\* The bootloader as the committed configuration builds it.
SPECIFICATION Spec
CONSTANTS
    Good = {g1, g2}
    Bad = {b1}
    Factory = g1
    Partial = Partial
    Tasks = {t1, t2}
    Rollback = FALSE
SYMMETRY Symmetry
INVARIANT UnprovenStartsOnce

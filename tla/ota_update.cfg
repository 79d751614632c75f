\* Commands may overlap; the bootloader supports rollback.
SPECIFICATION Spec
CONSTANTS
    Good = {g1, g2}
    Bad = {b1}
    Factory = g1
    Partial = Partial
    Tasks = {t1, t2}
    Rollback = TRUE
SYMMETRY Symmetry
INVARIANTS
    TypeOK
    GoodImageKept
    UnprovenStartsOnce
    SelectedIsWhole
    UpdatingShownAlone
PROPERTY UpdateKeepsPromise

\* riscv64: two harts move between two spaces and change pages of both
SPECIFICATION LiveSpec
CONSTANTS
    Cpus = {c1, c2}
    Spaces = {s1, s2}
    Pages = {v1}
    Translations = {t1}
    None = None
    HandlerChecks = TRUE
    MaxChanges = 2
    MaxSwitches = 3
    MaxWakeups = 1
INVARIANT NoStaleTranslation
PROPERTY ChangeCompletes
CHECK_DEADLOCK FALSE

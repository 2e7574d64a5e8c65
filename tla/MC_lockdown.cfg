SPECIFICATION Spec
CONSTANTS
    Lists = {l1, l2}
    None = None
    Budget <- TwoOfEach
INVARIANTS LockdownHolds TablePersists SplitExcluded OffCleans RefreshTakes

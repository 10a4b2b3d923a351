SPECIFICATION Spec
CONSTANTS
    Objects = {"box", "point"}
    ZSets <- MCZSets
    MaxCopies = 5
INVARIANTS
    DeletedOnce
    ReferencesUsable
    NothingLeaks

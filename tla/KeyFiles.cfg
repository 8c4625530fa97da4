SPECIFICATION Spec
CONSTANTS
    MaxStarts = 3
    MaxEdits = 1
    MaxTexts = 2
INVARIANTS
    SavedAll
    CutOnlyByFault
    SteadyVerdict
    NeverStale

CONSTANTS
    N = 4
    MaxLevel = 3
    Scores <- ThreeScores
    Absent = Absent
SPECIFICATION Spec
INVARIANTS TypeOK IndexesAgree SpansRight ReadsRight

SPECIFICATION Spec
CONSTANTS
    w1 = w1
    w2 = w2
    Writers <- MCWriters
    MaxSteps = 2
    MaxSequence = 7
INVARIANTS
    TypeOK
    StartedOnce
    EffectsInOrder
    DoubtIsPending
PROPERTIES
    EndedIsFinal
    KeepsPromise

\* Three events, with any overlap of flushes, resets, readers and restarts.
SPECIFICATION Spec
CONSTANT MaxEvents = 3
INVARIANT ReadingSound
INVARIANT ResetForgets
PROPERTY ImplementsEventTotal

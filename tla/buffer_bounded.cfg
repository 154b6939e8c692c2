SPECIFICATION Spec
CONSTANTS
  Topics = {t1, t2}
  Sizes = {0, 1, 2, 5}
  PerTopic = 2
  MaxBytes = 4
  Word = 16
  MaxMessages = 5
SYMMETRY TopicSymmetry
INVARIANTS BytesExact MemoryBound ReplayExact
 
CHECK_DEADLOCK FALSE

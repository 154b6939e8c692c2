SPECIFICATION Spec
CONSTANTS
  Subs = {s1}
  Topics = {t1}
  Peers = {}
  Endpoints = {}
  Hashes = {}
  Sequences = {0, 1, 2, 3}
  Publishers = {p1, p2}
  Callers = {c1, c2}
  Interests = {{t1}}
  Retaining = {t1}
  Modes = {"NONE", "RETAINED_ONLY", "REPLAY_BUFFER"}
  Teams <- Crews
  PerTopic = 1
  MaxStreams = 2
SYMMETRY ThreadSymmetry
INVARIANTS  ActiveXorPaused RegistryMatchesStreams  
 
CHECK_DEADLOCK FALSE

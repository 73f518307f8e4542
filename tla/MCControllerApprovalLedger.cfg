\* Two calls at once, one restart, a challenge that expires.
CONSTANTS
  Callers = {c1, c2}
  NoKind = NoKind
  ChallengeTtl = 1
  MaxEpochs = 2
  MaxTime = 1
SPECIFICATION Spec
SYMMETRY MCSymmetry
INVARIANTS
  OneGrant
  AnsweredIsKept
  NoCallIsStuck
PROPERTIES
  GrantFromCurrentAuthority

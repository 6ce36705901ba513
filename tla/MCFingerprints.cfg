CONSTANTS
  Mode <- MCMode
  Content <- MCContent
  Ino <- MCIno
  Size <- MCSize
  NoFingerprint = NoFingerprint
  Quiet = TRUE
SPECIFICATION Spec
CONSTRAINT Bounded
INVARIANTS
  MatchIsSound

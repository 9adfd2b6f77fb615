SPECIFICATION Spec
CONSTANTS
  Requests = {r1, r2, r3}
  Stages = {2, 4}
  Notes = {note}
  Results <- TwoResults
  Nothing = Nothing
INVARIANTS
  JudgedByEvidence
  OncePerArming
PROPERTIES
  NotesAreKept
  ShotIsTold

\* Three requests of an operator, a project that exists and those the
\* requests create, two names.
SPECIFICATION Spec
CONSTANTS
  Requests = {r1, r2, r3}
  Founded = {p1}
  Names = {m1, m2}
  NoProject = NoProject
  Malformed = Malformed
SYMMETRY RequestSymmetry
INVARIANTS
  RegTypeOK
  OneAgentPerName
  NothingDangles
  CreatedIsComplete
  AnnouncedIsRegistered
PROPERTIES
  ImplementsRegistry

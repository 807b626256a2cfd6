\* One registration that fails.
SPECIFICATION Spec
CONSTANTS
  Requests = {r1, r2}
  Founded = {p1}
  Names = {m1}
  NoProject = NoProject
  Malformed = Malformed
INVARIANT CredentialReturned

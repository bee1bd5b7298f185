CONSTANTS
  s1 = s1  s2 = s2
  Sessions = {s1, s2}
  User = User
  Home = Home
  Main = Main
  None = None
  Worlds = {{}, {"crash", "commit"}, {"user_edits", "conflict", "checkout", "commit"}, {"tools"}, {"linked", "overlap", "user_edits", "tools"}, {"crash", "user_edits", "conflict", "checkout"}}
SYMMETRY Symmetry
SPECIFICATION Spec
INVARIANTS UserWorkSound VerdictsApplied Returned
CHECK_DEADLOCK FALSE

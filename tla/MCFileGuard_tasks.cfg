SPECIFICATION Spec
CONSTANTS
  a = a
  b = b
  c = c
  x = x
  Tasks <- MCTasks
  Confined <- MCConfined
  Others <- MCOthers
  MaxElsewhere = 2
  Missing = Missing
  Unseen = Unseen
  Nobody = Nobody
SYMMETRY Alike
INVARIANTS ReadsSound NoLostUpdate NoFalseAlarm

SPECIFICATION Spec
CONSTANTS
  t1 = t1
  t2 = t2
  w1 = w1
  Tasks <- MCTasks
  Workers <- MCWorkers
  MaxEvents = 2
  Nobody = Nobody
INVARIANTS WorkersSound DoneOnce
PROPERTIES TasksEnd WorkerComesBack

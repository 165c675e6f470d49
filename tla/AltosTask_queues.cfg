CONSTANTS
  t1 = t1
  t2 = t2
  t3 = t3
  NoTask = NoTask
  NoChan = NoChan
  Tasks = {t1, t2, t3}
  BootOrder <- BootThree
  NumTasks = 3
  Chans = {a}
  IrqChans = {a}
  Timeouts = {1, 2}
  TickMod = 8
  ShortMod = 8
  WindowTicks = 1
SPECIFICATION Spec
INVARIANT NoTaskLost
INVARIANT AlarmSet
INVARIANT TimeoutPending
INVARIANT AlarmQueueOrder
INVARIANT AlarmOnTime

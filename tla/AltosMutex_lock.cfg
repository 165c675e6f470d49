CONSTANTS
  t1 = t1
  t2 = t2
  NoTask = NoTask
  NoChan = NoChan
  Tasks = {t1, t2}
  BootOrder <- BootTwo
  NumTasks = 2
  Chans = {m1, a}
  IrqChans = {a}
  Mutexes = {m1}
  Timeouts = {1}
  TickMod = 4
  ShortMod = 4
  WindowTicks = 1
SPECIFICATION FairMutexSpec
INVARIANT MutualExclusion
INVARIANT NoSleeperOnFreeMutex
PROPERTY ImplementsLock
PROPERTY RunnableRuns
PROPERTY TimedSleepReturns

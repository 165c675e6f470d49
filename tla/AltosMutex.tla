------------------------------ MODULE AltosMutex -----------------------------
(***************************************************************************)
(* The mutexes of kernel/ao_mutex.c on the scheduler of AltosTask: a mutex *)
(* is a byte that holds the id of its owner and, as an address, the        *)
(* channel its waiters sleep on.                                           *)
(***************************************************************************)
EXTENDS AltosTask

CONSTANT Mutexes

ASSUME MutexAssumption == Mutexes \subseteq Chans

VARIABLES
  mutex,    \* the owner of each mutex, NoTask for 0
  wants,    \* the mutex whose wait loop in ao_mutex_get a task is in
  held      \* the mutexes each program believes it owns: those that
            \* ao_mutex_get or ao_mutex_try have given it

mutexVars == <<mutex, wants, held>>
allVars == <<vars, mutexVars>>

MutexInit ==
  /\ Init
  /\ mutex = [m \in Mutexes |-> NoTask]
  /\ wants = [t \in Tasks |-> NoChan]
  /\ held = [t \in Tasks |-> {}]

(* The byte becomes the id of the task.                                    *)
Take(t, m) ==
  /\ mutex' = [mutex EXCEPT ![m] = t]
  /\ held' = [held EXCEPT ![t] = @ \union {m}]

(* ao_mutex_get of a free mutex.  A task that owns it already panics.      *)
MutexGet(t, m) ==
  /\ At(t, "user") /\ wants[t] = NoChan
  /\ mutex[m] = NoTask
  /\ Take(t, m)
  /\ UNCHANGED <<vars, wants>>

(* ao_mutex_get of a mutex another task owns: sleep on it, interrupts      *)
(* blocked.                                                                *)
MutexWait(t, m) ==
  /\ wants[t] = NoChan
  /\ mutex[m] \notin {NoTask, t}
  /\ Sleep(t, m, TRUE)
  /\ wants' = [wants EXCEPT ![t] = m]
  /\ UNCHANGED <<mutex, held>>

(* A mistake: the mutex is taken after the first wake-up, without a test.  *)
MutexRetryOnce(t) ==
  /\ wants[t] # NoChan
  /\ Mask(t, FALSE)
  /\ Take(t, wants[t])
  /\ wants' = [wants EXCEPT ![t] = NoChan]

(* The wait loop tests the mutex again each time ao_sleep returns.         *)
MutexRetry(t) ==
  /\ wants[t] # NoChan
  /\ IF mutex[wants[t]] # NoTask
       THEN /\ Sleep(t, wants[t], TRUE)
            /\ UNCHANGED mutexVars
       ELSE /\ Mask(t, FALSE)
            /\ Take(t, wants[t])
            /\ wants' = [wants EXCEPT ![t] = NoChan]

(* ao_mutex_try; when another task owns the mutex it changes nothing.      *)
MutexTry(t, m) == MutexGet(t, m)

(* A mistake: nobody is woken.                                             *)
MutexPutSilent(t, m) ==
  /\ At(t, "user") /\ wants[t] = NoChan
  /\ mutex[m] = t
  /\ mutex' = [mutex EXCEPT ![m] = NoTask]
  /\ held' = [held EXCEPT ![t] = @ \ {m}]
  /\ UNCHANGED <<vars, wants>>

(* ao_mutex_put: the owner frees the mutex and wakes all who wait for it.  *)
MutexPut(t, m) ==
  /\ wants[t] = NoChan
  /\ mutex[m] = t
  /\ mutex' = [mutex EXCEPT ![m] = NoTask]
  /\ held' = [held EXCEPT ![t] = @ \ {m}]
  /\ Wakeup(t, m)
  /\ UNCHANGED wants

(* Everything else a program does.  It signals no mutex itself, and exits  *)
(* with none.                                                              *)
ProgramStep(t) ==
  /\ wants[t] = NoChan
  /\ \/ Yield(t)
     \/ \E c \in Chans \ Mutexes, critical \in BOOLEAN : Sleep(t, c, critical)
     \/ \E c \in Chans \ Mutexes : Wakeup(t, c)
     \/ \E c \in Chans \ Mutexes, n \in Timeouts : SleepFor(t, c, n)
     \/ \E blocked \in BOOLEAN : Mask(t, blocked)
     \/ \E u \in Tasks : AddTask(t, u)
     \/ held[t] = {} /\ Exit(t)
  /\ UNCHANGED mutexVars

MutexStep(t) ==
  \/ \E m \in Mutexes : \/ MutexGet(t, m) \/ MutexWait(t, m)
                        \/ MutexTry(t, m) \/ MutexPut(t, m)
  \/ MutexRetry(t)

OtherStep ==
  /\ \/ \E t \in Tasks : KernelStep(t)
     \/ IdleDispatch
     \/ Tick
     \/ \E c \in IrqChans \ Mutexes : IrqWakeup(c)
  /\ UNCHANGED mutexVars

MutexNext ==
  \/ \E t \in Tasks : ProgramStep(t) \/ MutexStep(t)
  \/ OtherStep

MutexSpec == MutexInit /\ [][MutexNext]_allVars

(* The fairness of the scheduler, and of the wait loop: a task that runs   *)
(* with the mutex free does not stay in front of the test.                 *)
MutexFairness ==
  /\ \A t \in Tasks : /\ SF_allVars(Yield(t) /\ UNCHANGED mutexVars)
                      /\ WF_allVars(KernelStep(t) /\ UNCHANGED mutexVars)
                      /\ WF_allVars(MutexRetry(t))
                      /\ SF_allVars(ProgramStep(t) /\ Mask(t, FALSE))
  /\ WF_allVars(IdleDispatch /\ UNCHANGED mutexVars)
  /\ SF_allVars(Tick /\ UNCHANGED mutexVars)

FairMutexSpec == MutexSpec /\ MutexFairness

-----------------------------------------------------------------------------
(* Each variable of the mutexes has the values the code can give it.       *)
MutexTypeOK ==
  /\ mutex \in [Mutexes -> Tasks \union {NoTask}]
  /\ wants \in [Tasks -> Mutexes \union {NoChan}]
  /\ held \in [Tasks -> SUBSET Mutexes]

(* At most one program believes it owns a mutex, the mutex says so, and    *)
(* what it says is always such a program: the byte never names a task that *)
(* did not take it or that has exited.                                     *)
MutualExclusion ==
  \A m \in Mutexes, t \in Tasks : m \in held[t] <=> mutex[m] = t

(* No task sleeps on a free mutex: the test in ao_mutex_get and the        *)
(* wake-up in ao_mutex_put cannot miss each other.                         *)
NoSleeperOnFreeMutex ==
  \A m \in Mutexes : mutex[m] = NoTask => ao_sleep_queue[m] = << >>

(* The abstract lock.                                                      *)
Lock == INSTANCE AltosLock WITH
  owner <- mutex,
  waiting <- [m \in Mutexes |-> {t \in Tasks : wants[t] = m}]

(* Every step of the mutexes is a step of the abstract lock or no step: a  *)
(* task waits only for another owner, takes only a free mutex, and frees   *)
(* only its own.                                                           *)
StepsAsLock == Lock!LockSafety

(* The mutexes keep every promise of the abstract lock: a free mutex that  *)
(* tasks wait for is taken again.                                          *)
ImplementsLock == Lock!LockSpec
=============================================================================

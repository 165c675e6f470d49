------------------------------ MODULE AltosTask ------------------------------
(***************************************************************************)
(* The AltOS scheduler: kernel/ao_task.c with the system tick interrupt of *)
(* stm/ao_timer.c.  Tasks are cooperative, interrupts are not: a task step *)
(* is the code between two points where interrupts are open, and the two   *)
(* interrupt actions (Tick, IrqWakeup) run at those points only.           *)
(*                                                                         *)
(* The hashed sleep queues are kept per wait channel: only ao_wakeup walks *)
(* one, and it skips the tasks of other channels that share the bucket.    *)
(***************************************************************************)
EXTENDS Integers, FiniteSets, AltosList

CONSTANTS
  Tasks,        \* the task structures of the program
  BootOrder,    \* those added before ao_start_scheduler, in order
  NumTasks,     \* AO_NUM_TASKS
  NoTask,       \* ao_cur_task = NULL
  Chans,        \* the addresses tasks sleep on
  NoChan,       \* wchan = NULL
  IrqChans,     \* the channels interrupt handlers wake
  Timeouts,     \* the timeouts given to ao_sleep_for (0 is a plain ao_sleep)
  TickMod,      \* 2^32, the range of AO_TICK_TYPE
  ShortMod,     \* 2^16, the range of the cast in _ao_task_to_alarm_queue
  WindowTicks   \* ticks that may arrive between the two critical sections
                \* at the start of ao_sleep_for

ASSUME TaskAssumption ==
  /\ NoTask \notin Tasks
  /\ NoChan \notin Chans
  /\ IrqChans \subseteq Chans
  /\ BootOrder \in Seq(Tasks)
  /\ TickMod \in Nat /\ TickMod > 1
  /\ ShortMod \in Nat \ {0}
  /\ Timeouts \subseteq Nat \ {0}
  /\ NumTasks \in Nat
  /\ WindowTicks \in Nat

VARIABLES
  ao_tasks,           \* the set of tasks in the table
  run_queue,
  alarm_queue,
  ao_sleep_queue,     \* the sleeping tasks, per channel
  wchan,
  alarm,              \* 0 when none is set
  ao_tick_count,
  ao_task_alarm_tick,
  ao_cur_task,
  idle,               \* the CPU waits for an interrupt in ao_yield
  pc,                 \* where in the kernel each task stands
  goal,               \* the channel a call of ao_sleep_for was given
  masked,             \* the task's saved interrupt mask
  window,             \* ticks seen since the running task set its alarm
  left                \* ticks the running ao_sleep_for still has to wait:
                      \* a countdown kept for the properties only

queues  == <<run_queue, alarm_queue, ao_sleep_queue>>
clock   == <<ao_tick_count, ao_task_alarm_tick>>
vars == <<ao_tasks, run_queue, alarm_queue, ao_sleep_queue, wchan, alarm,
          ao_tick_count, ao_task_alarm_tick, ao_cur_task, idle, pc, goal,
          masked, window, left>>

(* off: not in ao_tasks.  user: the task's own code (or ao_yield called    *)
(* from it).  armed: ao_sleep_for has set the alarm and not yet slept.     *)
(* queued: ao_sleep has queued the task and not yet yielded.  switched: in *)
(* ao_yield below ao_sleep.  woken: ao_sleep has returned to ao_sleep_for. *)
Locations == {"off", "user", "armed", "queued", "switched", "woken"}

Running(t) == ao_cur_task = t /\ ~idle
At(t, loc) == Running(t) /\ pc[t] = loc

(* The C cast of a difference to a signed type of range w.                 *)
Signed(x, w) == LET r == x % w IN IF 2 * r >= w THEN r - w ELSE r

FirstAlarm(q, al) == IF q = << >> THEN 0 ELSE al[q[1]]

(* A mistake the properties must catch: the insertion loop finds no later  *)
(* alarm and the task is not appended.                                     *)
AlarmInsertNoAppend(q, al, t) ==
  LET later == {i \in DOMAIN q : Signed(al[q[i]] - al[t], ShortMod) >= 0}
  IN  IF later = {} THEN q
      ELSE ListInsert(q, CHOOSE i \in later : \A j \in later : i <= j, t)

(* Another: the queue is kept in the order of the calls.                   *)
AlarmInsertLast(q, al, t) == Append(q, t)

(* The alarm queue with t inserted before the first task whose alarm does  *)
(* not come before t's, compared in 16 bits.                               *)
AlarmInsert(q, al, t) ==
  LET later == {i \in DOMAIN q : Signed(al[q[i]] - al[t], ShortMod) >= 0}
      place == IF later = {} THEN Len(q) + 1
               ELSE CHOOSE i \in later : \A j \in later : i <= j
  IN  ListInsert(q, place, t)

(* A mistake: ticks are compared as they are, not modulo their width.      *)
DueTasksUnwrapped(q, al, now) ==
  {q[i] : i \in {i \in DOMAIN q : \A j \in 1 .. i : now >= al[q[j]]}}

(* The tasks ao_task_alarm(now) wakes: the walk stops at the first alarm   *)
(* still to come.                                                          *)
DueTasks(q, al, now) ==
  {q[i] : i \in {i \in DOMAIN q :
                   \A j \in 1 .. i : Signed(now - al[q[j]], TickMod) >= 0}}

-----------------------------------------------------------------------------
Init ==
  /\ ao_tasks = Range(BootOrder)
  /\ run_queue = BootOrder
  /\ alarm_queue = << >>
  /\ ao_sleep_queue = [c \in Chans |-> << >>]
  /\ wchan = [t \in Tasks |-> NoChan]
  /\ alarm = [t \in Tasks |-> 0]
  /\ ao_tick_count = 0
  /\ ao_task_alarm_tick = 0
  /\ ao_cur_task = NoTask
  /\ idle = TRUE
  /\ pc = [t \in Tasks |-> IF t \in Range(BootOrder) THEN "user" ELSE "off"]
  /\ goal = [t \in Tasks |-> NoChan]
  /\ masked = [t \in Tasks |-> FALSE]
  /\ window = 0
  /\ left = [t \in Tasks |-> 0]

(* The end of ao_yield: the head of the run queue runs; when there is none *)
(* the CPU waits, with cur still in ao_cur_task.                           *)
Dispatch(queue, cur) ==
  /\ run_queue' = queue
  /\ idle' = (queue = << >>)
  /\ ao_cur_task' = IF queue = << >> THEN cur ELSE Head(queue)

(* The wait loop of ao_yield finds a task after an interrupt.              *)
IdleDispatch ==
  /\ idle
  /\ run_queue # << >>
  /\ Dispatch(run_queue, ao_cur_task)
  /\ UNCHANGED <<ao_tasks, alarm_queue, ao_sleep_queue, wchan, alarm, clock,
                 pc, goal, masked, window, left>>

(* Two mistakes: the running task stays at the head of the queue; it goes  *)
(* to the end even when it waits.                                          *)
RequeuedFirst(t) ==
  IF wchan[t] = NoChan THEN <<t>> \o ListDel(run_queue, {t}) ELSE run_queue
RequeuedAlways(t) == Append(ListDel(run_queue, {t}), t)

(* The start of ao_yield: a task that does not wait goes to the end of the *)
(* run queue.                                                              *)
Requeued(t) ==
  IF wchan[t] = NoChan THEN Append(ListDel(run_queue, {t}), t) ELSE run_queue

(* A task gives the others a turn.                                         *)
Yield(t) ==
  /\ At(t, "user") /\ ~masked[t]
  /\ Dispatch(Requeued(t), t)
  /\ UNCHANGED <<ao_tasks, alarm_queue, ao_sleep_queue, wchan, alarm, clock,
                 pc, goal, masked, window, left>>

(* Two mistakes: the alarm is not rounded up to the next tick, or takes    *)
(* the value that means no alarm.                                          *)
WakeTickNoRound(n) == LET due == (ao_tick_count + n) % TickMod
                      IN  IF due = 0 THEN 1 ELSE due
WakeTickZero(n) == (ao_tick_count + n + 1) % TickMod

(* The alarm of ao_sleep_for(c, n): at least n whole ticks from now, and   *)
(* never 0.                                                                *)
WakeTick(n) == LET due == (ao_tick_count + n + 1) % TickMod
               IN  IF due = 0 THEN 1 ELSE due

(* The first critical section of ao_sleep_for(c, n).                       *)
SleepFor(t, c, n) ==
  /\ At(t, "user")
  /\ alarm' = [alarm EXCEPT ![t] = WakeTick(n)]
  /\ alarm_queue' = AlarmInsert(alarm_queue, alarm', t)
  /\ ao_task_alarm_tick' = FirstAlarm(alarm_queue', alarm')
  /\ pc' = [pc EXCEPT ![t] = "armed"]
  /\ goal' = [goal EXCEPT ![t] = c]
  /\ window' = 0
  /\ left' = [left EXCEPT ![t] = n + 1]
  /\ UNCHANGED <<ao_tasks, run_queue, ao_sleep_queue, wchan, ao_tick_count,
                 ao_cur_task, idle, masked>>

(* The critical section of ao_sleep(c), called by the program or by        *)
(* ao_sleep_for.                                                           *)
Queue(t, c) ==
  /\ wchan' = [wchan EXCEPT ![t] = c]
  /\ run_queue' = ListDel(run_queue, {t})
  /\ ao_sleep_queue' =
       [d \in Chans |-> LET rest == ListDel(ao_sleep_queue[d], {t})
                        IN  IF d = c THEN Append(rest, t) ELSE rest]
  /\ pc' = [pc EXCEPT ![t] = "queued"]
  /\ UNCHANGED <<ao_tasks, alarm_queue, alarm, clock, ao_cur_task, idle,
                 goal, left>>

(* A program that enters ao_arch_critical to test its condition and sleeps *)
(* there keeps interrupts blocked until ao_yield waits for one or switches *)
(* to a task that has them open; it finds them blocked again when it wakes. *)
Sleep(t, c, critical) ==
  /\ At(t, "user")
  /\ Queue(t, c)
  /\ masked' = [masked EXCEPT ![t] = @ \/ critical]
  /\ UNCHANGED window

SleepArmed(t) ==
  /\ At(t, "armed")
  /\ Queue(t, goal[t])
  /\ window' = 0
  /\ UNCHANGED masked

(* The ao_yield of ao_sleep.  A task woken since it was queued goes to the *)
(* end of the run queue; one whose alarm went off is already there.        *)
Switch(t) ==
  /\ At(t, "queued")
  /\ Dispatch(Requeued(t), t)
  /\ pc' = [pc EXCEPT ![t] = "switched"]
  /\ UNCHANGED <<ao_tasks, alarm_queue, ao_sleep_queue, wchan, alarm, clock,
                 goal, masked, window, left>>

(* The rest of ao_sleep: a channel still set means the alarm woke it.      *)
SleepReturn(t) ==
  /\ At(t, "switched")
  /\ IF wchan[t] # NoChan
       THEN /\ wchan' = [wchan EXCEPT ![t] = NoChan]
            /\ alarm' = [alarm EXCEPT ![t] = 0]
       ELSE UNCHANGED <<wchan, alarm>>
  /\ pc' = [pc EXCEPT ![t] = IF goal[t] = NoChan THEN "user" ELSE "woken"]
  /\ UNCHANGED <<ao_tasks, queues, clock, ao_cur_task, idle, goal, masked,
                 window, left>>

(* The last critical section of ao_sleep_for.                              *)
ClearAlarm(t) ==
  /\ At(t, "woken")
  /\ alarm' = [alarm EXCEPT ![t] = 0]
  /\ alarm_queue' = ListDel(alarm_queue, {t})
  /\ ao_task_alarm_tick' = FirstAlarm(alarm_queue', alarm)
  /\ pc' = [pc EXCEPT ![t] = "user"]
  /\ goal' = [goal EXCEPT ![t] = NoChan]
  /\ left' = [left EXCEPT ![t] = 0]
  /\ UNCHANGED <<ao_tasks, run_queue, ao_sleep_queue, wchan, ao_tick_count,
                 ao_cur_task, idle, masked, window>>

(* ao_wakeup(c): every task on the channel becomes runnable, in order.     *)
ao_wakeup(c) ==
  /\ wchan' = [t \in Tasks |-> IF t \in Range(ao_sleep_queue[c])
                               THEN NoChan ELSE wchan[t]]
  /\ run_queue' = run_queue \o ao_sleep_queue[c]
  /\ ao_sleep_queue' = [ao_sleep_queue EXCEPT ![c] = << >>]
  /\ UNCHANGED <<ao_tasks, alarm_queue, alarm, clock, ao_cur_task, idle, pc,
                 goal, window, left>>

Wakeup(t, c) == At(t, "user") /\ ao_wakeup(c) /\ UNCHANGED masked

(* ao_arch_irqsave and ao_arch_irqrestore in a task's own code.            *)
Mask(t, blocked) ==
  /\ At(t, "user") /\ masked[t] # blocked
  /\ masked' = [masked EXCEPT ![t] = blocked]
  /\ UNCHANGED <<ao_tasks, queues, wchan, alarm, clock, ao_cur_task, idle,
                 pc, goal, window, left>>

(* ao_add_task from a running task; a full table panics, which no caller   *)
(* comes back from.  The alarm of a structure used before is not cleared.  *)
AddTask(t, u) ==
  /\ At(t, "user")
  /\ u \notin ao_tasks
  /\ Cardinality(ao_tasks) < NumTasks
  /\ ao_tasks' = ao_tasks \union {u}
  /\ wchan' = [wchan EXCEPT ![u] = NoChan]
  /\ run_queue' = Append(run_queue, u)
  /\ pc' = [pc EXCEPT ![u] = "user"]
  /\ UNCHANGED <<alarm_queue, ao_sleep_queue, alarm, clock, ao_cur_task,
                 idle, goal, masked, window, left>>

(* ao_exit: the task leaves its queues and the table, and another runs.    *)
Exit(t) ==
  /\ At(t, "user") /\ ~masked[t]
  /\ ao_tasks' = ao_tasks \ {t}
  /\ alarm_queue' = ListDel(alarm_queue, {t})
  /\ Dispatch(ListDel(run_queue, {t}), NoTask)
  /\ pc' = [pc EXCEPT ![t] = "off"]
  /\ UNCHANGED <<ao_sleep_queue, wchan, alarm, clock, goal, masked, window,
                 left>>

-----------------------------------------------------------------------------
(* Interrupts are taken while the CPU waits in ao_yield, or between the    *)
(* critical sections of the running task.                                  *)
InterruptsOpen ==
  \/ idle
  \/ ao_cur_task # NoTask /\ ~masked[ao_cur_task]

(* ao_task_alarm: the due tasks leave the queue they are on and become     *)
(* runnable, their channel left set.                                       *)
ao_task_alarm(now) ==
  LET due == DueTasks(alarm_queue, alarm, now)
  IN  /\ alarm' = [t \in Tasks |-> IF t \in due THEN 0 ELSE alarm[t]]
      /\ alarm_queue' = ListDel(alarm_queue, due)
      /\ run_queue' = ListDel(run_queue, due)
                        \o ListDel(alarm_queue, Range(alarm_queue) \ due)
      /\ ao_sleep_queue' =
           [c \in Chans |-> ListDel(ao_sleep_queue[c], due)]
      /\ ao_task_alarm_tick' = IF due = {} THEN ao_task_alarm_tick
                               ELSE FirstAlarm(alarm_queue', alarm')

(* The system tick interrupt.  The code between the two critical sections  *)
(* of ao_sleep_for takes less than WindowTicks + 1 ticks.                  *)
Tick ==
  /\ InterruptsOpen
  /\ IF ~idle /\ pc[ao_cur_task] = "armed"
       THEN window < WindowTicks /\ window' = window + 1
       ELSE UNCHANGED window
  /\ ao_tick_count' = (ao_tick_count + 1) % TickMod
  /\ IF Signed(ao_tick_count' - ao_task_alarm_tick, TickMod) >= 0
       THEN ao_task_alarm(ao_tick_count')
       ELSE UNCHANGED <<queues, alarm, ao_task_alarm_tick>>
  /\ left' = [t \in Tasks |-> IF goal[t] # NoChan /\ left[t] > -1
                              THEN left[t] - 1 ELSE left[t]]
  /\ UNCHANGED <<ao_tasks, wchan, ao_cur_task, idle, pc, goal, masked>>

(* Any other interrupt handler that wakes a channel.                       *)
IrqWakeup(c) == InterruptsOpen /\ ao_wakeup(c) /\ UNCHANGED masked

-----------------------------------------------------------------------------
UserStep(t) ==
  \/ Yield(t)
  \/ \E c \in Chans, critical \in BOOLEAN : Sleep(t, c, critical)
  \/ \E c \in Chans : Wakeup(t, c)
  \/ \E c \in Chans, n \in Timeouts : SleepFor(t, c, n)
  \/ \E blocked \in BOOLEAN : Mask(t, blocked)
  \/ \E u \in Tasks : AddTask(t, u)
  \/ Exit(t)

KernelStep(t) ==
  SleepArmed(t) \/ Switch(t) \/ SleepReturn(t) \/ ClearAlarm(t)

Next ==
  \/ \E t \in Tasks : UserStep(t) \/ KernelStep(t)
  \/ IdleDispatch
  \/ Tick
  \/ \E c \in IrqChans : IrqWakeup(c)

Spec == Init /\ [][Next]_vars

(* Every task keeps giving up the processor and leaves the critical        *)
(* sections it enters; an interrupt that is pending when they are left is  *)
(* taken.                                                                  *)
Fairness ==
  /\ \A t \in Tasks : /\ SF_vars(Yield(t))
                      /\ WF_vars(KernelStep(t))
                      /\ SF_vars(Mask(t, FALSE))
  /\ WF_vars(IdleDispatch)
  /\ SF_vars(Tick)

FairSpec == Spec /\ Fairness

-----------------------------------------------------------------------------
(* Each variable has the values the code can give it.                      *)
TypeOK ==
  /\ ao_tasks \subseteq Tasks
  /\ run_queue \in Seq(Tasks)
  /\ alarm_queue \in Seq(Tasks)
  /\ ao_sleep_queue \in [Chans -> Seq(Tasks)]
  /\ wchan \in [Tasks -> Chans \union {NoChan}]
  /\ alarm \in [Tasks -> 0 .. TickMod-1]
  /\ ao_tick_count \in 0 .. TickMod-1
  /\ ao_task_alarm_tick \in 0 .. TickMod-1
  /\ ao_cur_task \in Tasks \union {NoTask}
  /\ idle \in BOOLEAN
  /\ pc \in [Tasks -> Locations]
  /\ goal \in [Tasks -> Chans \union {NoChan}]
  /\ masked \in [Tasks -> BOOLEAN]
  /\ window \in Nat
  /\ left \in [Tasks -> Int]

Runnable(t) == t \in Range(run_queue)
Asleep(t, c) == t \in Range(ao_sleep_queue[c])

(* A task of the table is linked on exactly one list, the one that the     *)
(* code which has to find it walks: the run queue, or the sleep queue of   *)
(* the channel it waits for.  A task still marked as waiting but runnable  *)
(* was woken by its alarm.  An exited task is linked nowhere, and the      *)
(* running task is one of the table.                                       *)
NoTaskLost ==
  /\ \A t \in ao_tasks : Runnable(t) <=> \A c \in Chans : ~Asleep(t, c)
  /\ \A t \in Tasks, c \in Chans : Asleep(t, c) => t \in ao_tasks /\ wchan[t] = c
  /\ \A t \in Tasks : Runnable(t) => t \in ao_tasks
  /\ \A t \in Tasks : Runnable(t) /\ wchan[t] # NoChan => alarm[t] = 0
  /\ ~idle => ao_cur_task \in ao_tasks

(* A task has an alarm set exactly while it is on the alarm queue, and     *)
(* then it is a task of the table inside ao_sleep_for (panics 2 and 3 of   *)
(* ao_task_validate_alarm_queue).                                          *)
AlarmSet ==
  \A t \in Tasks :
    /\ t \in Range(alarm_queue) <=> alarm[t] # 0
    /\ alarm[t] # 0 => t \in ao_tasks /\ goal[t] # NoChan

(* The alarm queue is in alarm order and ao_task_alarm_tick is the first   *)
(* alarm (panics 1 and 4 of ao_task_validate_alarm_queue), so the tick     *)
(* interrupt need not look behind the first alarm that is still to come.   *)
AlarmQueueOrder ==
  /\ \A i, j \in DOMAIN alarm_queue : i < j =>
       /\ alarm_queue[i] # alarm_queue[j]
       /\ Signed(alarm[alarm_queue[j]] - alarm[alarm_queue[i]], ShortMod) >= 0
  /\ ao_task_alarm_tick = FirstAlarm(alarm_queue, alarm)

(* What the place of a task in the kernel says of the rest of its state.   *)
Control ==
  /\ \A t \in Tasks :
       /\ t \in ao_tasks <=> pc[t] # "off"
       /\ pc[t] \in {"off", "user", "armed", "woken"} => wchan[t] = NoChan
       /\ pc[t] \in {"off", "user"} => goal[t] = NoChan
       /\ pc[t] \in {"armed", "woken"} => goal[t] # NoChan
  /\ ~idle /\ pc[ao_cur_task] # "queued" => Runnable(ao_cur_task)

(* The inductive invariant of the scheduler.                               *)
Inv == TypeOK /\ NoTaskLost /\ AlarmSet /\ Control

(* A task that sleeps in ao_sleep_for still has its alarm: nothing can     *)
(* consume the timeout and leave the task asleep.                          *)
TimeoutPending ==
  \A t \in Tasks : goal[t] # NoChan /\ Asleep(t, goal[t]) => alarm[t] # 0

(* The alarm of ao_sleep_for goes off neither before timeout + 1 ticks     *)
(* have passed nor later, although it is compared modulo the width of the  *)
(* tick counter; an alarm that would be 0 is one tick late.                *)
AlarmOnTime ==
  \A t \in Tasks : goal[t] # NoChan =>
    /\ alarm[t] = 0 => left[t] <= 0
    /\ alarm[t] # 0 => left[t] > 0 \/ (left[t] = 0 /\ alarm[t] = 1)

(* Round robin: a task that is runnable runs, whatever the others and the  *)
(* alarms that move tasks on the run queue do.                             *)
RunnableRuns ==
  \A t \in Tasks : Runnable(t) ~> (Running(t) \/ t \notin ao_tasks)

(* A call of ao_sleep_for returns, even if its channel is never signalled. *)
TimedSleepReturns ==
  \A t \in Tasks : goal[t] # NoChan ~> goal[t] = NoChan
=============================================================================

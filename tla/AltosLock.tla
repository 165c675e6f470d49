------------------------------ MODULE AltosLock ------------------------------
(***************************************************************************)
(* What kernel/ao_mutex.c promises its callers: a mutex has one owner, the *)
(* owner keeps it until it puts it back, and a mutex somebody waits for    *)
(* does not stay free.  Nothing is promised about who gets it.             *)
(***************************************************************************)
CONSTANTS Tasks, NoTask, Mutexes

VARIABLES owner, waiting

lockVars == <<owner, waiting>>

LockInit ==
  /\ owner = [m \in Mutexes |-> NoTask]
  /\ waiting = [m \in Mutexes |-> {}]

(* t waits while another task owns m.                                      *)
Wait(t, m) ==
  /\ owner[m] \notin {NoTask, t}
  /\ waiting' = [waiting EXCEPT ![m] = @ \union {t}]
  /\ UNCHANGED owner

(* t, a waiter or a newcomer, becomes the owner.                           *)
Acquire(t, m) ==
  /\ owner[m] = NoTask
  /\ owner' = [owner EXCEPT ![m] = t]
  /\ waiting' = [waiting EXCEPT ![m] = @ \ {t}]

Release(t, m) ==
  /\ owner[m] = t
  /\ owner' = [owner EXCEPT ![m] = NoTask]
  /\ UNCHANGED waiting

LockNext ==
  \E t \in Tasks, m \in Mutexes : Wait(t, m) \/ Acquire(t, m) \/ Release(t, m)

(* A free mutex with waiters is given to some task.                        *)
Grant(m) == waiting[m] # {} /\ \E t \in Tasks : Acquire(t, m)

LockSafety == LockInit /\ [][LockNext]_lockVars

LockSpec == LockSafety /\ \A m \in Mutexes : WF_lockVars(Grant(m))
=============================================================================

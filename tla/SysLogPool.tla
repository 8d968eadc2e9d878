----------------------------- MODULE SysLogPool -----------------------------
(***************************************************************************)
(* The operation log of the stage application: saveSysLog of SysLogContext *)
(* hands an entry to the task executor of spring-tonghu-stage-application, *)
(* whose threads insert it into sys_log.                                   *)
(*                                                                         *)
(* The executor is a ThreadPoolExecutor (external) with Core threads, a    *)
(* queue of Room entries, at most Most threads, and CallerRunsPolicy: when *)
(* all are taken, the request's own thread inserts the row, and when the   *)
(* executor has been shut down, which drops the queue, nobody does.        *)
(***************************************************************************)
EXTENDS Naturals, Sequences, FiniteSets, SequencesExt

CONSTANTS
  Core, Room, Most   \* corePoolSize, queueCapacity, maxPoolSize

ASSUME PoolConstants ==
  Core \in Nat /\ Room \in Nat /\ Most \in Nat /\ Core <= Most

VARIABLES
  up,           \* the executor has not been shut down
  workers,      \* its threads
  queue,        \* entries that wait
  running,      \* entries a thread is inserting
  sysLog,       \* table sys_log
  lost          \* history: <<entry, why>> for entries that never get there

poolVars == <<up, workers, queue, running, sysLog, lost>>

PoolInit ==
  /\ up = TRUE /\ workers = 0 /\ queue = <<>>
  /\ running = {} /\ sysLog = {} /\ lost = {}

CallersTurn == up /\ workers = Most /\ Len(queue) = Room

(* poolTaskExecutor.execute, when the pool takes the entry: a thread of    *)
(* the core, else a place in the queue, else one more thread.              *)
TakenByPool(e) ==
  /\ up /\ UNCHANGED <<up, sysLog, lost>>
  /\ \/ /\ workers < Core \/ (Len(queue) = Room /\ workers < Most)
        /\ workers' = workers + 1 /\ running' = running \cup {e}
        /\ UNCHANGED queue
     \/ /\ workers >= Core /\ Len(queue) < Room
        /\ queue' = Append(queue, e)
        /\ UNCHANGED <<workers, running>>

(* CallerRunsPolicy: the caller inserts the row, unless the executor has   *)
(* been shut down.                                                         *)
DoneByCaller(e) ==
  /\ CallersTurn
  /\ sysLog' = sysLog \cup {e}
  /\ UNCHANGED <<up, workers, queue, running, lost>>

DroppedAfterStop(e) ==
  /\ ~up
  /\ lost' = lost \cup {<<e, "stop">>}
  /\ UNCHANGED <<up, workers, queue, running, sysLog>>

(* The insert throws in the request's thread.                              *)
FailsInCaller(e) ==
  /\ CallersTurn
  /\ lost' = lost \cup {<<e, "write">>}
  /\ UNCHANGED <<up, workers, queue, running, sysLog>>

-----------------------------------------------------------------------------
WorkerTakes ==
  /\ queue # <<>> /\ Cardinality(running) < workers
  /\ queue' = Tail(queue) /\ running' = running \cup {Head(queue)}
  /\ UNCHANGED <<up, workers, sysLog, lost>>

(* SysLogTask.run: a thread that dies of an exception is replaced.         *)
WorkerInserts(e) ==
  /\ e \in running
  /\ running' = running \ {e}
  /\ \/ sysLog' = sysLog \cup {e} /\ UNCHANGED lost
     \/ lost' = lost \cup {<<e, "write">>} /\ UNCHANGED sysLog
  /\ UNCHANGED <<up, workers, queue>>

(* keepAliveSeconds without work.                                          *)
WorkerLeaves ==
  /\ queue = <<>> /\ Cardinality(running) < workers /\ workers > Core
  /\ workers' = workers - 1
  /\ UNCHANGED <<up, queue, running, sysLog, lost>>

(* The application stops: ThreadPoolTaskExecutor.destroy, without waiting  *)
(* for what is in the queue.                                               *)
StopPool ==
  /\ up
  /\ up' = FALSE
  /\ queue' = <<>>
  /\ lost' = lost \cup {<<e, "stop">> : e \in ToSet(queue)}
  /\ UNCHANGED <<workers, running, sysLog>>

PoolNext ==
  \/ WorkerTakes \/ WorkerLeaves \/ StopPool
  \/ \E e \in running : WorkerInserts(e)

Pending == running \cup ToSet(queue)
=============================================================================

----------------------------- MODULE BrokerSpawn -----------------------------
(***************************************************************************)
(* How sessions find or start the one broker of a user                     *)
(* (pi-custom/src/intercom/broker/spawn.ts, paths.ts and the start and the *)
(* shutdown of broker.ts): a spawn lock, a socket and a pid file, all three *)
(* removed by name.                                                        *)
(*                                                                         *)
(* Every process is a program of its own: a step is one operation on a     *)
(* file, or one on a process, and steps of all processes interleave.       *)
(***************************************************************************)
CONSTANTS
  Spawners,               \* sessions that call spawnBrokerIfNeeded
  Brokers,                \* broker processes, used again once forgotten
  Faults,                 \* of crash, slow: what may go wrong besides killed brokers
  Nobody

ASSUME SpawnAssumption ==
  /\ Faults \subseteq {"crash", "slow"}
  /\ Nobody \notin Spawners \cup Brokers

VARIABLES
  step,                   \* per session: where it is in spawnBrokerIfNeeded
  child,                  \* per session: the broker it has spawned and awaits
  process,                \* per broker process: how far it is
  lock, aged,             \* the owner in the spawn lock; the lock is older than 10 s
  bound,                  \* who made the socket at the path
  pidfile,                \* who wrote the pid file
  upset                   \* history: a process was too slow, or ended half-way

files == <<lock, aged, bound, pidfile>>
spawnVars == <<step, child, process, files, upset>>

Steps == {"idle", "probing", "locking", "judging", "stealing", "probing again", "awaiting",
          "waiting", "releasing", "connected", "crashed"}
ProcessStages == {"gone", "started", "replacing", "binding", "bound", "serving",
           "leaving", "unlinked"}

SpawnInit ==
  /\ step = [s \in Spawners |-> "idle"] /\ child = [s \in Spawners |-> Nobody]
  /\ process = [b \in Brokers |-> "gone"]
  /\ lock = Nobody /\ aged = FALSE /\ bound = Nobody /\ pidfile = Nobody
  /\ upset = FALSE

Alive(b) == b # Nobody /\ process[b] # "gone"

\* checkSocketConnectable: somebody answers at the path; a slow broker may do so too late
BrokerAnswers == bound # Nobody /\ process[bound] = "serving"

\* something takes longer than the code waits for it
Late == "slow" \in Faults /\ upset' = TRUE
InTime == UNCHANGED upset
NoAnswer == IF BrokerAnswers THEN Late ELSE InTime

Goes(s, next) == step' = [step EXCEPT ![s] = next]
Becomes(b, next) == process' = [process EXCEPT ![b] = next]

-----------------------------------------------------------------------------
(* spawnBrokerIfNeeded.                                                    *)

Seeks(s) ==
  /\ step[s] = "idle" /\ Goes(s, "probing")
  /\ UNCHANGED <<child, process, files, upset>>

\* isBrokerRunning before the lock, and again with it
Finds(s) ==
  /\ step[s] \in {"probing", "probing again"} /\ BrokerAnswers
  /\ Goes(s, IF step[s] = "probing" THEN "connected" ELSE "releasing")
  /\ UNCHANGED <<child, process, files, upset>>

FindsNone(s) ==
  /\ step[s] = "probing" /\ NoAnswer /\ Goes(s, "locking")
  /\ UNCHANGED <<child, process, files>>

\* acquireSpawnLock: the exclusive create
CreatesAnyway(s) == TRUE                                              \* mutant
Creates(s) == lock = Nobody

Locks(s) ==
  /\ step[s] = "locking"
  /\ IF Creates(s)
     THEN lock' = s /\ aged' = FALSE /\ Goes(s, "probing again")
     ELSE Goes(s, "judging") /\ UNCHANGED <<lock, aged>>
  /\ UNCHANGED <<child, process, bound, pidfile, upset>>

\* isSpawnLockStale: its owner is gone, or it is too old
Judges(s) ==
  /\ step[s] = "judging"
  /\ Goes(s, IF lock # Nobody /\ (aged \/ step[lock] = "crashed") THEN "stealing" ELSE "waiting")
  /\ UNCHANGED <<child, process, files, upset>>

Steals(s) ==
  /\ step[s] = "stealing" /\ lock' = Nobody /\ Goes(s, "locking")
  /\ UNCHANGED <<child, process, aged, bound, pidfile, upset>>

\* a detached process
Spawns(s, b) ==
  /\ step[s] = "probing again" /\ NoAnswer
  /\ process[b] = "gone" /\ \A t \in Spawners : child[t] # b
  /\ b \notin {bound, pidfile}
  /\ Becomes(b, "started") /\ child' = [child EXCEPT ![s] = b] /\ Goes(s, "awaiting")
  /\ UNCHANGED files

\* waitForBroker answers, or the child exits, or neither within five seconds
Awaited(s) ==
  /\ step[s] = "awaiting"
  /\ IF BrokerAnswers \/ ~Alive(child[s]) THEN InTime ELSE Late
  /\ child' = [child EXCEPT ![s] = Nobody] /\ Goes(s, "releasing")
  /\ UNCHANGED <<process, files>>

\* without the lock: somebody else's broker answers, or the call fails
Waited(s) ==
  /\ step[s] = "waiting" /\ Goes(s, IF BrokerAnswers THEN "connected" ELSE "idle")
  /\ UNCHANGED <<child, process, files, upset>>

\* releaseSpawnLock: whoever's it is
Releases(s) ==
  /\ step[s] = "releasing" /\ lock' = Nobody
  /\ Goes(s, IF BrokerAnswers THEN "connected" ELSE "idle")
  /\ UNCHANGED <<child, process, aged, bound, pidfile, upset>>

\* the connection is lost: the session tries again
Disconnects(s) ==
  /\ step[s] = "connected" /\ ~BrokerAnswers /\ Goes(s, "idle")
  /\ UNCHANGED <<child, process, files, upset>>

-----------------------------------------------------------------------------
(* A broker process.                                                       *)

\* assertNoLiveBroker
Refuses(b) == Alive(pidfile)

Asserts(b) ==
  /\ process[b] = "started"
  /\ Becomes(b, IF Refuses(b) THEN "gone" ELSE "replacing")
  /\ UNCHANGED <<step, child, files, upset>>

\* the constructor removes the socket that it takes for stale
Replaces(b) ==
  /\ process[b] = "replacing" /\ bound' = Nobody /\ Becomes(b, "binding")
  /\ UNCHANGED <<step, child, lock, aged, pidfile, upset>>

\* listen: an address in use ends the process
Binds(b) ==
  /\ process[b] = "binding"
  /\ IF bound = Nobody
     THEN bound' = b /\ Becomes(b, "bound") ELSE Becomes(b, "gone") /\ UNCHANGED bound
  /\ UNCHANGED <<step, child, lock, aged, pidfile, upset>>

\* the callback of listen, before it answers anybody
Listens(b) ==
  /\ process[b] = "bound" /\ pidfile' = b /\ Becomes(b, "serving")
  /\ UNCHANGED <<step, child, lock, aged, bound, upset>>

\* shutdown, by the idle timer or a signal: the socket, the pid file, the process
Leaves(b) ==
  /\ process[b] \in {"bound", "serving"}
  /\ Becomes(b, "leaving")
  /\ UNCHANGED <<step, child, files, upset>>

Removes(b) ==
  \/ /\ process[b] = "leaving" /\ Becomes(b, "unlinked")
     /\ bound' = Nobody /\ UNCHANGED pidfile
  \/ /\ process[b] = "unlinked" /\ Becomes(b, "gone")
     /\ pidfile' = Nobody /\ UNCHANGED bound

BrokerLeaves(b) == Removes(b) /\ UNCHANGED <<step, child, lock, aged, upset>>

-----------------------------------------------------------------------------
(* Faults.                                                                 *)

\* a broker is killed and leaves its files
Killed(b) ==
  /\ process[b] # "gone" /\ Becomes(b, "gone")
  /\ UNCHANGED <<step, child, files, upset>>

\* a session ends in the middle, its child lives on; or starts again
Crashes(s) ==
  /\ "crash" \in Faults /\ step[s] \notin {"idle", "connected", "crashed"}
  /\ Goes(s, "crashed") /\ child' = [child EXCEPT ![s] = Nobody]
  /\ upset' = TRUE
  /\ UNCHANGED <<process, files>>
Revives(s) ==
  /\ step[s] = "crashed" /\ lock # s /\ Goes(s, "idle")
  /\ UNCHANGED <<child, process, files, upset>>

\* more than ten seconds since the lock was made
LockAges ==
  /\ lock # Nobody /\ ~aged /\ aged' = TRUE /\ Late
  /\ UNCHANGED <<step, child, process, lock, bound, pidfile>>

SpawnNext ==
  \/ \E s \in Spawners :
       \/ Seeks(s) \/ Finds(s) \/ FindsNone(s) \/ Locks(s) \/ Judges(s) \/ Steals(s)
       \/ \E b \in Brokers : Spawns(s, b)
       \/ Awaited(s) \/ Waited(s) \/ Releases(s) \/ Disconnects(s)
       \/ Crashes(s) \/ Revives(s)
  \/ \E b \in Brokers :
       Asserts(b) \/ Replaces(b) \/ Binds(b) \/ Listens(b) \/ Leaves(b) \/ BrokerLeaves(b)
       \/ Killed(b)
  \/ LockAges

SpawnSpec == SpawnInit /\ [][SpawnNext]_spawnVars

-----------------------------------------------------------------------------
SpawnTypeOK ==
  /\ step \in [Spawners -> Steps] /\ child \in [Spawners -> Brokers \cup {Nobody}]
  /\ process \in [Brokers -> ProcessStages]
  /\ lock \in Spawners \cup {Nobody} /\ aged \in BOOLEAN
  /\ bound \in Brokers \cup {Nobody} /\ pidfile \in Brokers \cup {Nobody}
  /\ upset \in BOOLEAN

\* What spawn.ts says of the lock: concurrent sessions start only one broker.  No two broker
\* processes listen at the same time.
OneBroker ==
  \A b, c \in Brokers : process[b] = "serving" /\ process[c] = "serving" => b = c

\* It is so while every process is in time, however often brokers leave or are killed.
OneBrokerInTime == upset \/ OneBroker

\* What it rests on while every process is in time: who holds the lock, that a process which
\* does not serve yet is awaited by the holder, that the one which serves or leaves is in the pid
\* file, or still awaited, and that one process at most has passed assertNoLiveBroker.
Past(b) == process[b] \notin {"gone", "started"}
Awaits(b) == \E s \in Spawners : child[s] = b
HolderIsInside ==
  /\ ~aged
  /\ \A s \in Spawners :
       /\ step[s] \notin {"stealing", "crashed"}
       /\ lock = s <=> step[s] \in {"probing again", "awaiting", "releasing"}
       /\ child[s] # Nobody <=> step[s] = "awaiting"
StartingIsAwaited ==
  \A b \in Brokers :
    /\ process[b] \in {"started", "replacing", "binding", "bound"} => Awaits(b)
    /\ process[b] = "started" => \A c \in Brokers : process[c] # "serving"
ServingIsKnown ==
  \A b \in Brokers :
    /\ process[b] \in {"bound", "serving"} => bound = b
    /\ process[b] = "serving" => pidfile = b
    /\ process[b] \in {"leaving", "unlinked"} => Awaits(b) \/ pidfile = b
OnePast == \A b, c \in Brokers : Past(b) /\ Past(c) => b = c
Timely == HolderIsInside /\ StartingIsAwaited /\ ServingIsKnown /\ OnePast
SpawnInv == SpawnTypeOK /\ (upset \/ Timely)
=============================================================================

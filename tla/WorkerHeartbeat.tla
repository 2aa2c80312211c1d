--------------------------- MODULE WorkerHeartbeat ---------------------------
(***************************************************************************)
(* worker-heartbeat.service.ts: every worker process writes the time into  *)
(* its row, a starting one deletes rows that nobody wrote for long, and    *)
(* the API tells from the newest row whether a worker is up.               *)
(*                                                                         *)
(* Time is counted in heartbeats: in each unit a worker writes once, or    *)
(* fails to.  All clocks agree.  A process whose host name and pid come    *)
(* back, as in a restarted container, takes over the row.                  *)
(***************************************************************************)
EXTENDS Integers, FiniteSets

CONSTANTS
    WorkerIds,       \* host name and pid
    BeatTimeout,     \* WORKER_HEARTBEAT_TIMEOUT_MS, in heartbeats
    BeatRetention,   \* PRUNE_RETENTION_MS, in heartbeats
    MaxBeats         \* bound on the time

VARIABLES
    time,
    alive,       \* workers with a running process
    due,         \* those that have not written yet in this unit
    lastSeenAt,  \* the rows; Unwritten where there is none
    missed,      \* writes of the process that failed since the last that went well
    lastAlive    \* when a process of this worker last ran

ASSUME HeartbeatAssumption ==
    /\ {BeatTimeout, BeatRetention} \subseteq Nat \ {0}
    /\ BeatTimeout <= BeatRetention   \* settings-catalog.ts:731, at most an hour

heartVars == <<time, alive, due, lastSeenAt, missed, lastAlive>>

Unwritten == -1

HeartInit ==
    /\ time = 0 /\ alive = {} /\ due = {}
    /\ lastSeenAt = [w \in WorkerIds |-> Unwritten]
    /\ missed = [w \in WorkerIds |-> BeatTimeout]
    /\ lastAlive = [w \in WorkerIds |-> Unwritten]

\* Broken variant: whatever was not written in this unit.
OrphanAtOnce(w) == lastSeenAt[w] # Unwritten /\ lastSeenAt[w] < time

Orphan(w) == lastSeenAt[w] # Unwritten /\ lastSeenAt[w] < time - BeatRetention

\* start: the rows are deleted, or that failed, while the first heartbeat is on its way.
StartWorker(w) ==
    /\ w \notin alive
    /\ alive' = alive \cup {w} /\ due' = due \cup {w}
    /\ lastAlive' = [lastAlive EXCEPT ![w] = time]
    /\ missed' = [missed EXCEPT ![w] = BeatTimeout]   \* it has written nothing yet
    /\ \/ lastSeenAt' = [v \in WorkerIds |-> IF Orphan(v) THEN Unwritten ELSE lastSeenAt[v]]
       \/ UNCHANGED lastSeenAt
    /\ UNCHANGED time

WriteHeartbeat(w) ==
    /\ w \in due
    /\ due' = due \ {w}
    /\ \/ /\ lastSeenAt' = [lastSeenAt EXCEPT ![w] = time]
          /\ missed' = [missed EXCEPT ![w] = 0]
       \/ /\ missed' = [missed EXCEPT ![w] = IF @ < BeatTimeout THEN @ + 1 ELSE @]
          /\ UNCHANGED lastSeenAt
    /\ UNCHANGED <<time, alive, lastAlive>>

StopWorker(w) ==
    /\ w \in alive
    /\ alive' = alive \ {w} /\ due' = due \ {w}
    /\ UNCHANGED <<time, lastSeenAt, missed, lastAlive>>

\* The interval: whoever is alive is to write again.
Beat ==
    /\ time < MaxBeats /\ due = {}
    /\ time' = time + 1
    /\ due' = alive
    /\ lastAlive' = [w \in WorkerIds |-> IF w \in alive THEN time + 1 ELSE lastAlive[w]]
    /\ UNCHANGED <<alive, lastSeenAt, missed>>

HeartNext ==
    \/ Beat
    \/ \E w \in WorkerIds : StartWorker(w) \/ WriteHeartbeat(w) \/ StopWorker(w)

HeartSpec == HeartInit /\ [][HeartNext]_heartVars

-----------------------------------------------------------------------------
Beats == {lastSeenAt[w] : w \in WorkerIds} \ {Unwritten}
Newest == CHOOSE t \in Beats : \A u \in Beats : u <= t

\* Broken variant: a heartbeat as old as the timeout is stale.
StatusStrict ==
    IF Beats = {} THEN "unknown" ELSE IF time - Newest >= BeatTimeout THEN "down" ELSE "up"

\* getStatus, which GET /ready shows.
Status ==
    IF Beats = {} THEN "unknown" ELSE IF time - Newest > BeatTimeout THEN "down" ELSE "up"

HeartTypeOK ==
    /\ due \subseteq alive /\ alive \subseteq WorkerIds
    /\ lastSeenAt \in [WorkerIds -> {Unwritten} \cup 0..time]

(* What GET /ready says of the worker is so: one that has written since it *)
(* started is up as long as fewer heartbeats in a row failed than the      *)
(* timeout is long, whatever other workers start and delete meanwhile; and *)
(* "up" means that some worker ran within the timeout.                     *)
HeartbeatTrue ==
    /\ (\E w \in alive : missed[w] < BeatTimeout) => Status = "up"
    /\ Status = "up" => \E w \in WorkerIds : lastAlive[w] # Unwritten
                                              /\ time - lastAlive[w] <= BeatTimeout

=============================================================================

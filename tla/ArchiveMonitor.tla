--------------------------- MODULE ArchiveMonitor ---------------------------
(***************************************************************************)
(* ArchiveMonitorRequest: the monitor of a client in the archive server,   *)
(* with the thread in which its command adds results, and the queue from   *)
(* which pvAccess takes them after each monitorEvent.                      *)
(*                                                                         *)
(* The commands are plugged in by users of the library: one adds as many   *)
(* results as it likes, and returns.  epicsThread and the monitor          *)
(* requester of pvAccess are external: a thread that is asked to exit      *)
(* before it runs does not run, and the requester makes one poll for each  *)
(* event, in a thread of its own.                                          *)
(***************************************************************************)
EXTENDS Naturals, Sequences

CONSTANTS
    Client,      \* the clients of the server
    MaxResults   \* bound for the results of a monitor

ASSUME MonitorAssumption == MaxResults \in Nat

VARIABLE mon     \* the monitor of each client

(***************************************************************************)
(*   thread  "none" without a monitor; "new", "begin" when it was started, *)
(*           "run" in the command, "notify" in addResult after the lock    *)
(*           was released, "ended"                                         *)
(*   added   how many results the command has added: 1, 2, ...             *)
(*   queue   m_monElements                                                 *)
(*   events  the calls of monitorEvent for which poll was not called yet   *)
(*   got     the results the client has got                                *)
(*   stop    "no", "waits" in exitWait, "done"                             *)
(***************************************************************************)
NoMonitor == [thread |-> "none", added |-> 0, queue |-> <<>>, events |-> 0,
              got |-> <<>>, stop |-> "no"]

MonitorInit == mon = [c \in Client |-> NoMonitor]

\* The constructor makes the thread, which waits until it is started.
NewMonitor == [NoMonitor EXCEPT !.thread = "new"]

\* start(): the command gets a shared pointer to its monitor, and the thread begins.
Start(c) ==
    /\ mon[c].thread = "new" /\ mon[c].stop = "no"
    /\ mon' = [mon EXCEPT ![c].thread = "begin"]

\* epicsThread: the thread calls run() of the command, if it may still do so.
Begin(c) ==
    /\ mon[c].thread = "begin"
    /\ mon' = [mon EXCEPT ![c].thread = IF mon[c].stop = "no" THEN "run" ELSE "ended"]

\* epicsThread: a thread that was not started is asked to exit.
Cancel(c) ==
    /\ mon[c].thread = "new" /\ mon[c].stop = "waits"
    /\ mon' = [mon EXCEPT ![c].thread = "ended"]

\* addResult(): the element is put into the queue, with the lock, ...
AddResult(c) ==
    /\ mon[c].thread = "run" /\ mon[c].added < MaxResults
    /\ mon' = [mon EXCEPT ![c].thread = "notify",
                          ![c].added = @ + 1,
                          ![c].queue = Append(@, mon[c].added + 1)]

\* Mutant of Notify: the requester is only told of the first element in the queue.
NotifyOfFirst(c) ==
    /\ mon[c].thread = "notify"
    /\ mon' = [mon EXCEPT ![c].thread = "run",
                          ![c].events = IF Len(mon[c].queue) = 1 THEN @ + 1 ELSE @]

\* ... and the requester is told, without the lock.
Notify(c) ==
    /\ mon[c].thread = "notify"
    /\ mon' = [mon EXCEPT ![c].thread = "run", ![c].events = @ + 1]

\* The command returns, with all results added or before.  It is not told of a
\* stop(): it cannot see m_active.
Return(c) ==
    /\ mon[c].thread = "run"
    /\ mon' = [mon EXCEPT ![c].thread = "ended"]

\* Mutant of Poll: the element stays in the queue.
PollFront(c) ==
    /\ mon[c].events > 0
    /\ mon' = IF mon[c].queue = <<>> THEN [mon EXCEPT ![c].events = @ - 1]
              ELSE [mon EXCEPT ![c].events = @ - 1,
                               ![c].got = Append(@, Head(mon[c].queue))]

\* poll() and release(): the requester takes the first element, if there is one.
Poll(c) ==
    /\ mon[c].events > 0
    /\ mon' = IF mon[c].queue = <<>> THEN [mon EXCEPT ![c].events = @ - 1]
              ELSE [mon EXCEPT ![c].events = @ - 1,
                               ![c].queue = Tail(@),
                               ![c].got = Append(@, Head(mon[c].queue))]

\* stop() and destroy(): the caller waits for the end of the thread.
Stop(c) ==
    /\ mon[c].thread # "none" /\ mon[c].stop = "no"
    /\ mon' = [mon EXCEPT ![c].stop = "waits"]

Stopped(c) ==
    /\ mon[c].thread = "ended" /\ mon[c].stop = "waits"
    /\ mon' = [mon EXCEPT ![c].stop = "done"]

MonitorThread(c) == Begin(c) \/ Cancel(c) \/ AddResult(c) \/ Notify(c) \/ Return(c)

MonitorNext(c) == Start(c) \/ MonitorThread(c) \/ Poll(c) \/ Stop(c) \/ Stopped(c)

-----------------------------------------------------------------------------
\* The client gets the results in the order in which they were added, each once,
\* and none stays behind without an event that makes the requester come for it,
\* although element and event are given separately.
NoneLost ==
    \A c \in Client :
        LET m == mon[c]
        IN  /\ m.got \o m.queue = [i \in 1..m.added |-> i]
            /\ Len(m.queue) <= m.events + (IF m.thread = "notify" THEN 1 ELSE 0)

\* Every result that was added is given to the client, and a stop() returns: the
\* thread always comes to its end.
MonitorLive ==
    \A c \in Client :
        /\ \A n \in 1..MaxResults :
              mon[c].added = n ~> Len(mon[c].got) >= n \/ mon[c] = NoMonitor
        /\ mon[c].stop = "waits" ~> mon[c].stop = "done" \/ mon[c] = NoMonitor
=============================================================================

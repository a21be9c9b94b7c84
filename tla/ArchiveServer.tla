---------------------------- MODULE ArchiveServer ----------------------------
(***************************************************************************)
(* An archive server and its clients: ArchiveChannelProvider, which makes  *)
(* channels for the services that are registered, ArchiveRPCChannel and    *)
(* ArchiveMonitorChannel, which make the requests, ArchiveRPCRequest, and  *)
(* ArchiveMonitorClient, which waits for its channel with a timeout.       *)
(*                                                                         *)
(* The transport, which is pvAccess, is external: it makes the channel of  *)
(* a client on the server, now or later, tells the client's requester, and *)
(* makes the channel again when the server was restarted.                  *)
(***************************************************************************)
EXTENDS ArchiveMonitor

CONSTANT Services   \* the services that are registered: subset of {"rpc", "monitor"}

ASSUME ServerAssumption == Services \subseteq {"rpc", "monitor"}

VARIABLES
    up,      \* the server runs
    client   \* the state of each client

serverVars == <<up, client, mon>>

(***************************************************************************)
(*   wants    the service whose channel name the client uses               *)
(*   conn     "idle", "waits" in waitUntilConnected, "connected" when      *)
(*            m_connected is true, "failed" after an exception             *)
(*   event    the event of the client's ArchiveChannelRequester            *)
(*   channel  the client's channel on the server: "none", "asked" for,     *)
(*            "open", "lost" with the server, "refused", or "destroyed"    *)
(*   signal   the client's requester will be told that this is connected   *)
(*   late     the same for a channel that was given up                     *)
(*   request  "none", "running", "done", "denied"                          *)
(***************************************************************************)
Clients == [wants : {"rpc", "monitor", "other"},
            conn : {"idle", "waits", "connected", "failed"},
            event : BOOLEAN,
            channel : {"none", "asked", "open", "lost", "refused", "destroyed"},
            signal : BOOLEAN, late : BOOLEAN,
            request : {"none", "running", "done", "denied"}]

ServerInit ==
    /\ up = TRUE
    /\ client \in [Client -> {k \in Clients :
                      /\ k.conn = "idle" /\ ~k.event /\ ~k.signal /\ ~k.late
                      /\ k.channel = "none" /\ k.request = "none"}]
    /\ MonitorInit

Becomes(c, k) == client' = [client EXCEPT ![c] = k] /\ UNCHANGED up

-----------------------------------------------------------------------------
\* connect(): init() makes a requester with its event, and a channel.
Connect(c) ==
    /\ client[c].conn \in {"idle", "failed"}
    /\ Becomes(c, [client[c] EXCEPT !.conn = "waits", !.event = FALSE,
                                    !.channel = "asked", !.signal = FALSE])
    /\ UNCHANGED mon

\* createChannel() of the provider: the service is registered and has the name,
\* or "no such channel".
CreateChannel(c) ==
    /\ up /\ client[c].channel \in {"asked", "lost"}
    /\ LET found == client[c].wants \in Services
       IN  Becomes(c, [client[c] EXCEPT !.channel = IF found THEN "open" ELSE "refused",
                                        !.signal = found])
    /\ UNCHANGED mon

\* channelStateChange(): the event of this channel's requester is signalled.
ChannelStateChange(c) ==
    /\ client[c].signal
    /\ Becomes(c, [client[c] EXCEPT !.signal = FALSE, !.event = TRUE])
    /\ UNCHANGED mon

\* Mutant of LateStateChange: there is one requester for all channels.
LateForSame(c) ==
    /\ client[c].late
    /\ Becomes(c, [client[c] EXCEPT !.late = FALSE, !.event = TRUE])
    /\ UNCHANGED mon

\* The connection of a channel that was given up is told to its own requester,
\* which nobody waits for.
LateStateChange(c) ==
    /\ client[c].late
    /\ Becomes(c, [client[c] EXCEPT !.late = FALSE])
    /\ UNCHANGED mon

\* waitUntilConnected() returns true.
Connected(c) ==
    /\ client[c].conn = "waits" /\ client[c].event
    /\ Becomes(c, [client[c] EXCEPT !.conn = "connected", !.event = FALSE])
    /\ UNCHANGED mon

\* It times out: the channel is destroyed, and an exception tells the caller, who
\* may try again.
ConnectionTimeout(c) ==
    /\ client[c].conn = "waits" /\ ~client[c].event
    /\ Becomes(c, [client[c] EXCEPT !.conn = "failed", !.channel = "destroyed",
                      !.signal = FALSE,
                      !.late = @ \/ client[c].signal
                                  \/ client[c].channel \in {"asked", "lost"}])
    /\ UNCHANGED mon

\* destroy() of the channel, by the transport for a client that went away.
DestroyChannel(c) ==
    /\ client[c].channel = "open" /\ client[c].conn = "connected"
    /\ Becomes(c, [client[c] EXCEPT !.channel = "destroyed", !.signal = FALSE])
    /\ UNCHANGED mon

-----------------------------------------------------------------------------
\* A request of a connected client reaches its channel.
MayRequest(c) == up /\ client[c].conn = "connected" /\ client[c].request # "running"

\* createMonitor() and createChannelRPC(): requests of the other kind are not
\* supported, and a destroyed channel makes none.
Deny(c) ==
    /\ MayRequest(c)
    /\ \/ client[c].channel = "destroyed"
       \/ client[c].channel = "open"   \* for the other service
    /\ Becomes(c, [client[c] EXCEPT !.request = "denied"])
    /\ UNCHANGED mon

\* createMonitor(): the monitor and its thread are made, with a known command.  A
\* client makes one monitor at most in a run of the server.
CreateMonitor(c) ==
    /\ MayRequest(c) /\ client[c].channel = "open" /\ client[c].wants = "monitor"
    /\ mon[c] = NoMonitor
    /\ mon' = [mon EXCEPT ![c] = NewMonitor]
    /\ Becomes(c, [client[c] EXCEPT !.request = "done"])

\* createChannelRPC() and request(): the command runs in the thread of the call.
RequestRPC(c) ==
    /\ MayRequest(c) /\ client[c].channel = "open" /\ client[c].wants = "rpc"
    /\ Becomes(c, [client[c] EXCEPT !.request = "running"])
    /\ UNCHANGED mon

\* run(): the result, or the status of an exception, is given to the requester.
RequestDone(c) ==
    /\ up /\ client[c].request = "running"
    /\ Becomes(c, [client[c] EXCEPT !.request = "done"])
    /\ UNCHANGED mon

\* The server ends: requests get no answer, and pvAccess asks for the channels
\* again when it is restarted.
Lost(k) ==
    [k EXCEPT !.channel = IF k.channel = "open" THEN "lost" ELSE @,
              !.request = IF k.request = "running" THEN "denied" ELSE @,
              !.signal = FALSE]

Ends ==
    /\ up' = FALSE
    /\ client' = [c \in Client |-> Lost(client[c])]
    /\ mon' = [c \in Client |-> NoMonitor]

\* With the name of an unknown command, there is no command to create one from.
UnknownCommand(c) ==
    /\ MayRequest(c) /\ client[c].channel = "open"
    /\ Ends

\* run(seconds) of ArchiveServer returns, and it is destroyed.
Destroy == up /\ Ends

RestartServer == ~up /\ up' = TRUE /\ UNCHANGED <<client, mon>>

MonitorStep(c) == MonitorNext(c) /\ UNCHANGED <<up, client>>

ServerStep(c) ==
    \/ Connect(c) \/ CreateChannel(c) \/ ChannelStateChange(c) \/ LateStateChange(c)
    \/ Connected(c) \/ ConnectionTimeout(c) \/ DestroyChannel(c)
    \/ Deny(c) \/ CreateMonitor(c) \/ RequestRPC(c) \/ RequestDone(c)
    \/ UnknownCommand(c)

ServerNext == Destroy \/ RestartServer \/ \E c \in Client : ServerStep(c) \/ MonitorStep(c)

\* The threads of the monitors run, and end; the requester polls for each event,
\* the command of a request returns, and waiters are woken.
ServerFairness ==
    /\ \A c \in Client :
          /\ WF_serverVars(MonitorThread(c) /\ UNCHANGED <<up, client>>)
          /\ WF_serverVars(Poll(c) /\ UNCHANGED <<up, client>>)
          /\ WF_serverVars(Stopped(c) /\ UNCHANGED <<up, client>>)
          /\ WF_serverVars(RequestDone(c))

ServerSpec == ServerInit /\ [][ServerNext]_serverVars /\ ServerFairness

-----------------------------------------------------------------------------
\* A client that has waited for its channel without a timeout has one: the server
\* made it, and may have lost it since.  The connection of an earlier channel, given up
\* after a timeout, is not taken for that of the current one.
ConnectedOwn ==
    [][\A c \in Client :
          client[c].conn = "waits" /\ client'[c].conn = "connected"
            => client[c].channel \in {"open", "lost"}]_serverVars
=============================================================================

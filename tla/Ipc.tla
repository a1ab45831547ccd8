--------------------------------- MODULE Ipc ---------------------------------
(* The IPC of RDKShell: processes that use RdkShellClient, one TCP            *)
(* connection each, and the SocketHandler of the server, which RDKShell's     *)
(* main loop polls (rdkshell.cpp update()).                                   *)
(*                                                                            *)
(* A request is sent as a header and a payload; the server, once select() has *)
(* reported the connection, waits for the whole of it.  A query is answered   *)
(* by its handler; a command is answered only if it fails.  The client sends  *)
(* the same id (mMessageId, never changed) with every request and takes the   *)
(* next message, whatever it is, for the answer to its call.                  *)
(*                                                                            *)
(* Operators named Bug... are deliberate mistakes used to test that the       *)
(* properties can fail; no specification uses them.                           *)
EXTENDS Naturals, Sequences, FiniteSets

CONSTANTS
    Users,        \* the processes that use RdkShellClient
    MaxCalls,     \* bound: MaxCalls[u] is the number of calls u makes
    MaxEvents,    \* bound: events that the server sends
    None

\* A query is getBounds or getScale, any other method a command.
Call == [user : Users, number : Nat \ {0}, query : BOOLEAN]

ASSUME IpcAssumption ==
    /\ MaxCalls \in [Users -> Nat]
    /\ MaxEvents \in Nat
    /\ None \notin Call

VARIABLES
    \* RdkShellClient
    user,               \* user[u]: what the process is doing
    call,               \* call[u]: its latest call
    result,             \* result[u]: whose answer its responseData was filled from
    \* the connections
    toServer,           \* toServer[u]: the requests not read yet
    partial,            \* partial[u]: the last of them has no payload yet
    toUser,             \* toUser[u]: the messages not read yet
    backlog,            \* connections not accepted yet
    \* SocketHandler
    active,             \* mActive
    mClients,
    sActiveRequestMap,
    sMessageId,
    sClientsToRemove,
    ready,              \* those select() reported, not looked at yet
    polling,            \* process() is between select() and its return
    \* for the properties
    answered,           \* answered[u]: the calls answered to u, in order
    alone,              \* alone[u]: nothing was on its way to u when it called
    events              \* events sent

userVars   == <<user, call, result, alone>>
serverVars == <<active, mClients, sActiveRequestMap, sMessageId, sClientsToRemove, ready, polling>>
vars == <<userVars, toServer, partial, toUser, backlog, serverVars, answered, events>>

Message == [type : {"response", "error"}, call : Call] \cup [type : {"event"}]

NoRequests == [id \in {} |-> None]

TypeOK ==
    /\ user \in [Users -> {"started", "idle", "sending", "calling", "waiting", "gone"}]
    /\ call \in [Users -> Call \cup {None}]
    /\ result \in [Users -> Call \cup {None}]
    /\ toServer \in [Users -> Seq(Call)]
    /\ partial \in [Users -> BOOLEAN]
    /\ toUser \in [Users -> Seq(Message)]
    /\ backlog \subseteq Users
    /\ active \in BOOLEAN
    /\ mClients \subseteq Users
    /\ sMessageId \in Nat
    /\ sActiveRequestMap = [id \in DOMAIN sActiveRequestMap |-> sActiveRequestMap[id]]
    /\ \A id \in DOMAIN sActiveRequestMap :
          id \in Nat /\ id < sMessageId /\ sActiveRequestMap[id] \in [fd : Users, call : Call]
    /\ sClientsToRemove \subseteq Users
    /\ ready \subseteq Users
    /\ polling \in BOOLEAN
    /\ answered \in [Users -> Seq(Call)]
    /\ alone \in [Users -> BOOLEAN]
    /\ events \in 0..MaxEvents

Init ==
    /\ user = [u \in Users |-> "started"]
    /\ call = [u \in Users |-> None]
    /\ result = [u \in Users |-> None]
    /\ toServer = [u \in Users |-> <<>>]
    /\ partial = [u \in Users |-> FALSE]
    /\ toUser = [u \in Users |-> <<>>]
    /\ backlog = {}
    /\ active = TRUE
    /\ mClients = {}
    /\ sActiveRequestMap = NoRequests
    /\ sMessageId = 0
    /\ sClientsToRemove = {}
    /\ ready = {}
    /\ polling = FALSE
    /\ answered = [u \in Users |-> <<>>]
    /\ alone = [u \in Users |-> FALSE]
    /\ events = 0

-----------------------------------------------------------------------------
(* The client.                                                               *)

\* SocketHandler::initialize() of a client, when the server listens
Connect(u) ==
    /\ user[u] = "started"
    /\ active
    /\ user' = [user EXCEPT ![u] = "idle"]
    /\ backlog' = backlog \cup {u}
    /\ UNCHANGED <<call, result, alone, toServer, partial, toUser, serverVars, answered, events>>

Number(u) == IF call[u] = None THEN 1 ELSE call[u].number + 1

\* callMethod() and callMethodWithResult(), up to the header of the request.
\* (Without a server a call changes nothing and returns false or no result.)
Begin(u, query, withResult) ==
    /\ user[u] = "idle"
    /\ active
    /\ Number(u) <= MaxCalls[u]
    /\ LET new == [user |-> u, number |-> Number(u), query |-> query]
       IN  /\ call' = [call EXCEPT ![u] = new]
           /\ toServer' = [toServer EXCEPT ![u] = Append(@, new)]
    /\ user' = [user EXCEPT ![u] = IF withResult THEN "calling" ELSE "sending"]
    /\ result' = [result EXCEPT ![u] = None]
    /\ partial' = [partial EXCEPT ![u] = TRUE]
    /\ alone' = [alone EXCEPT ![u] = toServer[u] = <<>> /\ toUser[u] = <<>>]
    /\ UNCHANGED <<toUser, backlog, serverVars, answered, events>>

\* the payload; callMethod() returns, callMethodWithResult() waits
SendPayload(u) ==
    /\ user[u] \in {"sending", "calling"}
    /\ user' = [user EXCEPT ![u] = IF @ = "calling" THEN "waiting" ELSE "idle"]
    /\ partial' = [partial EXCEPT ![u] = FALSE]
    /\ UNCHANGED <<call, result, alone, toServer, toUser, backlog, serverVars, answered, events>>

\* Only a response to a query fills in responseData.
ResultOf(message) == IF message.type = "response" THEN message.call ELSE None

\* processMessages(mResponseTimeout, result) reads one message.
TakeMessage(u) ==
    /\ user[u] = "waiting"
    /\ toUser[u] # <<>>
    /\ result' = [result EXCEPT ![u] = ResultOf(Head(toUser[u]))]
    /\ toUser' = [toUser EXCEPT ![u] = Tail(@)]
    /\ user' = [user EXCEPT ![u] = "idle"]
    /\ UNCHANGED <<call, alone, toServer, partial, backlog, serverVars, answered, events>>

\* select() gives up, or the server has closed the connection: the call
\* returns true with an empty result
GiveUp(u) ==
    /\ user[u] = "waiting"
    /\ toUser[u] = <<>>
    /\ user' = [user EXCEPT ![u] = "idle"]
    /\ UNCHANGED <<call, result, alone, toServer, partial, toUser, backlog, serverVars, answered, events>>

\* processMessages(): one message, given to the event handlers or dropped
ProcessMessages(u) ==
    /\ user[u] = "idle"
    /\ toUser[u] # <<>>
    /\ toUser' = [toUser EXCEPT ![u] = Tail(@)]
    /\ UNCHANGED <<userVars, toServer, partial, backlog, serverVars, answered, events>>

\* the process ends, wherever it is; what it has not read is lost
Exit(u) ==
    /\ user[u] \notin {"started", "gone"}
    /\ user' = [user EXCEPT ![u] = "gone"]
    /\ call' = [call EXCEPT ![u] = None]
    /\ result' = [result EXCEPT ![u] = None]
    /\ alone' = [alone EXCEPT ![u] = FALSE]
    /\ toUser' = [toUser EXCEPT ![u] = <<>>]
    /\ UNCHANGED <<toServer, partial, backlog, serverVars, answered, events>>

-----------------------------------------------------------------------------
(* The server: SocketHandler::process(), one readData() per step.  The order *)
(* in which a pass goes through mClients is left open.                       *)

BugReadable(u) == toServer[u] # <<>>

Readable(u) == toServer[u] # <<>> \/ user[u] = "gone"

\* A connection to accept is all that process() looks at in that pass.
AcceptClient(u) ==
    /\ active /\ ~polling
    /\ u \in backlog
    /\ mClients' = mClients \cup {u}
    /\ backlog' = backlog \ {u}
    /\ UNCHANGED <<userVars, toServer, partial, toUser, active, sActiveRequestMap,
                   sMessageId, sClientsToRemove, ready, polling, answered, events>>

Select ==
    /\ active /\ ~polling
    /\ backlog = {}
    /\ ready' = {u \in mClients : Readable(u)}
    /\ ready' # {}
    /\ polling' = TRUE
    /\ UNCHANGED <<userVars, toServer, partial, toUser, backlog, active, mClients,
                   sActiveRequestMap, sMessageId, sClientsToRemove, answered, events>>

\* The connection is closed and empty.
ReadEnd(u) ==
    /\ u \in ready
    /\ toServer[u] = <<>>
    /\ sClientsToRemove' = sClientsToRemove \cup {u}
    /\ ready' = ready \ {u}
    /\ UNCHANGED <<userVars, toServer, partial, toUser, backlog, active, mClients,
                   sActiveRequestMap, sMessageId, polling, answered, events>>

\* sendToNetwork() to each of us; what is sent to a process that ended is lost
SendTo(us, message) ==
    toUser' = [u \in Users |-> IF u \in us /\ user[u] # "gone" THEN Append(toUser[u], message)
                              ELSE toUser[u]]

BugAnswers(new, success) == IF new.query THEN success ELSE ~success

\* ServerMessageHandler answers a query, also when there is no such display,
\* and a command that failed.
Answers(new, success) == new.query \/ ~success

\* The client's id, which every request has, is taken for the server's: the
\* oldest request is the one that is found.
BugOldest(map, id, type) ==
    LET oldest == CHOOSE i \in DOMAIN map : \A j \in DOMAIN map : i <= j
    IN  /\ sActiveRequestMap' = [i \in DOMAIN map \ {oldest} |-> map[i]]
        /\ SendTo({map[oldest].fd}, [type |-> type, call |-> map[oldest].call])
        /\ answered' = [answered EXCEPT ![map[oldest].fd] = Append(@, map[oldest].call)]

\* Every client is sent the answer.
BugEveryone(map, id, type) ==
    /\ sActiveRequestMap' = [i \in DOMAIN map \ {id} |-> map[i]]
    /\ SendTo(mClients, [type |-> type, call |-> map[id].call])
    /\ answered' = [u \in Users |-> IF u \in mClients THEN Append(answered[u], map[id].call)
                                    ELSE answered[u]]

\* SocketHandler::sendMessage() for a request in map, which forgets it.
Reply(map, id, type) ==
    /\ sActiveRequestMap' = [i \in DOMAIN map \ {id} |-> map[i]]
    /\ SendTo({map[id].fd}, [type |-> type, call |-> map[id].call])
    /\ answered' = [answered EXCEPT ![map[id].fd] = Append(@, map[id].call)]

\* A whole request is read and onMessageReceived() runs its handler.
ReadRequest(u, success) ==
    /\ u \in ready
    /\ toServer[u] # <<>>
    /\ partial[u] => Len(toServer[u]) > 1
    /\ toServer' = [toServer EXCEPT ![u] = Tail(@)]
    /\ LET new == Head(toServer[u])
           map == [id \in DOMAIN sActiveRequestMap \cup {sMessageId} |->
                      IF id = sMessageId THEN [fd |-> u, call |-> new]
                      ELSE sActiveRequestMap[id]]
       IN  \/ /\ Answers(new, success)
              /\ Reply(map, sMessageId, IF success THEN "response" ELSE "error")
           \/ /\ ~Answers(new, success)
              /\ sActiveRequestMap' = map
              /\ UNCHANGED <<toUser, answered>>
    /\ sMessageId' = sMessageId + 1
    /\ ready' = ready \ {u}
    /\ UNCHANGED <<userVars, partial, backlog, active, mClients, sClientsToRemove, polling, events>>

RemoveInactiveClients ==
    /\ polling
    /\ ready = {}
    /\ mClients' = mClients \ sClientsToRemove
    /\ sClientsToRemove' = {}
    /\ polling' = FALSE
    /\ UNCHANGED <<userVars, toServer, partial, toUser, backlog, active,
                   sActiveRequestMap, sMessageId, ready, answered, events>>

\* ServerMessageHandler::onAnimation(), from update(): to every client.
SendEvent ==
    /\ active /\ ~polling
    /\ mClients # {}
    /\ events < MaxEvents
    /\ SendTo(mClients, [type |-> "event"])
    /\ events' = events + 1
    /\ UNCHANGED <<userVars, toServer, partial, backlog, serverVars, answered>>

\* ServerMessageHandler::stop(); what the server has not read is lost
Stop ==
    /\ active /\ ~polling
    /\ active' = FALSE
    /\ mClients' = {}
    /\ backlog' = {}
    /\ toServer' = [u \in Users |-> <<>>]
    /\ partial' = [u \in Users |-> FALSE]
    /\ UNCHANGED <<userVars, toUser, sActiveRequestMap, sMessageId,
                   sClientsToRemove, ready, polling, answered, events>>

-----------------------------------------------------------------------------
Process ==
    \/ Select
    \/ RemoveInactiveClients
    \/ \E u \in Users :
          \/ AcceptClient(u)
          \/ ReadEnd(u)
          \/ \E success \in BOOLEAN : ReadRequest(u, success)

User(u) ==
    \/ Connect(u)
    \/ \E query, withResult \in BOOLEAN : Begin(u, query, withResult)
    \/ SendPayload(u)
    \/ TakeMessage(u)
    \/ GiveUp(u)
    \/ ProcessMessages(u)
    \/ Exit(u)

Next == Process \/ SendEvent \/ Stop \/ \E u \in Users : User(u)

Spec == Init /\ [][Next]_vars

\* update() polls in every iteration of the main loop, and a process that has
\* sent a header sends the payload or ends.
FairSpec == Spec /\ WF_vars(Process) /\ \A u \in Users : WF_vars(SendPayload(u))

-----------------------------------------------------------------------------
(* Properties.                                                               *)

\* A process is answered its own calls only, each at most once, in the order
\* in which it made them (sActiveRequestMap takes an answer back to its caller).
AnswersInOrder ==
    \A u \in Users :
        /\ \A i \in DOMAIN answered[u] : answered[u][i].user = u
        /\ \A i, j \in DOMAIN answered[u] :
              i < j => answered[u][i].number < answered[u][j].number

\* Every request that the server has read is either answered or still in
\* sActiveRequestMap, and what stays there for good is commands that
\* succeeded: no query is ever left without its answer.
RequestsAccounted ==
    /\ sMessageId = Cardinality(DOMAIN sActiveRequestMap)
                      + Cardinality(UNION {{u} \X DOMAIN answered[u] : u \in Users})
    /\ \A id \in DOMAIN sActiveRequestMap : ~sActiveRequestMap[id].call.query

\* The client matches no ids, so a call may return another message.  Its result
\* is its own if nothing was on its way from or to the process when it called;
\* an event that comes first is taken for the answer, and leaves no result.
OwnResult ==
    \A u \in Users : alone[u] /\ result[u] # None => result[u] = call[u]

\* A process that ends between a header and its payload keeps readData() in
\* its loop for the payload.
BrokenOff == \E u \in Users : user[u] = "gone" /\ partial[u]

\* A process that waits for the answer to a query is sent one, whatever the
\* others do: they may come, call, be slow or end, and a command that succeeds
\* is answered nothing.
QueriesAnswered ==
    \A u \in Users :
        user[u] = "waiting" /\ call[u].query
          ~> (user[u] # "waiting" \/ toUser[u] # <<>> \/ ~active \/ BrokenOff)

\* The server lets go of a process that ended, even one that ended before its
\* connection was accepted.
EndedAreForgotten ==
    \A u \in Users :
        user[u] = "gone" ~> (u \notin backlog \cup mClients \/ BrokenOff)

=============================================================================

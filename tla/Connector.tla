----------------------------- MODULE Connector -----------------------------
(***************************************************************************)
(* A connector: websocket connections in pooled objects, their sessions,   *)
(* and the way of a client's messages through workers to a node and of the *)
(* answers and session values back: framework/net, framework/remote and    *)
(* framework/node.                                                         *)
(*                                                                         *)
(* Close gives an object back to the pool after 100 ms.  The model takes   *)
(* that time to be enough for every goroutine that is not in a call of a   *)
(* database: of the handlers that hold a connection only Entry is.         *)
(*                                                                         *)
(* A session's user is the one of the token that Entry looked at last.     *)
(*                                                                         *)
(* Left out: the limiter (it may refuse any connection), packets, pushes   *)
(* to other users, the values shared by all sessions, the choice of a node *)
(* and Close of the manager (the process ends after it).                   *)
(***************************************************************************)
EXTENDS Integers, FiniteSets, Sequences, SequencesExt

CONSTANTS
    Cids,             \* bound: the connections that are ever made
    Objects,          \* bound: the WsConnections of the pool
    Workers,
    WorkerOf,         \* fnv32(Cid) % workerCount
    Uids,             \* bound: the users of the tokens
    None,
    MaxConnections,
    QueueSize,        \* 256 in the code
    MaxMessages,      \* bound: messages of each connection
    MaxLost           \* bound: messages between servers that are lost

ASSUME ConnectorAssumption ==
    /\ WorkerOf \in [Cids -> Workers]
    /\ None \notin Cids \cup Objects \cup Workers \cup Uids
    /\ MaxConnections \in Nat \ {0}
    /\ QueueSize \in Nat /\ MaxMessages \in [Cids -> Nat] /\ MaxLost \in Nat

VARIABLES
    conn,      \* what each connection's goroutines do, and its session
    holder,    \* the connection each object is of
    clients,   \* the Cids in the buckets
    slots,     \* taken from connSemaphore
    count,     \* currentConnections
    queue,     \* clientWorkers
    spilled,   \* messages that found their queue full
    tasks,     \* answers on their way to SendMessage
    node,      \* requests at the node
    back,      \* answers and session values on the way to the connector
    down,      \* the process ended by a panic
    hist       \* what happened, for the properties

vars == <<conn, holder, clients, slots, count, queue, spilled, tasks, node, back,
          down, hist>>
messages == <<queue, spilled, tasks, node, back>>
members == <<holder, clients, slots, count>>

-----------------------------------------------------------------------------

\* Of requests "entry" (answered here) and "enter" (by the node), and of what
\* the node sends "answer" and "session"; n numbers a connection's requests,
\* and is the roomId that its handler puts.  uid is the user of the token of an
\* "entry", until the session has it, and of the session when it sent the others.
Msg(g, n, kind, uid) == [cid |-> g, n |-> n, kind |-> kind, uid |-> uid]

Away == [stage |-> "away",     \* then "checked", "slot", "up"
         obj |-> None,
         closed |-> FALSE,      \* closeChan and the socket
         reader |-> "off",      \* or "on", "removing"
         writer |-> "off",      \* or "on"; it closes WriteChan when it stops
         asked |-> 0,
         uid |-> None, room |-> 0]  \* of the session

Init ==
    /\ conn = [g \in Cids |-> Away]
    /\ holder = [o \in Objects |-> None]
    /\ clients = {} /\ slots = 0 /\ count = 0
    /\ queue = [w \in Workers |-> <<>>] /\ spilled = {} /\ tasks = {}
    /\ node = {} /\ back = {}
    /\ down = FALSE
    /\ hist = [last |-> [g \in Cids |-> 0],     \* the message handled last
               overtaken |-> {},                \* connections with one handled before an earlier one
               spilt |-> {},                    \* connections with one that found its queue full
               put |-> [g \in Cids |-> 0],      \* the roomId put last
               mixed |-> {},                    \* connections whose session values met, were lost
                                                \* or are of another user than the session
               stray |-> FALSE,                 \* an answer went to another connection
               lost |-> 0, outlived |-> FALSE]  \* a handler outlived its connection

-----------------------------------------------------------------------------
(* Connections. *)

\* serveWS looks at the number of connections long before it takes a slot.
Check(g) ==
    /\ conn[g].stage = "away" /\ count < MaxConnections
    /\ conn' = [conn EXCEPT ![g].stage = "checked"]
    /\ UNCHANGED <<members, messages, hist>>

\* NewWsConnection and the slot of addClient; a connection without a slot is
\* closed, and runs nevertheless.
AddClient(g) ==
    /\ conn[g].stage = "checked"
    /\ \E o \in Objects :
          /\ holder[o] = None
          /\ holder' = [holder EXCEPT ![o] = g]
          /\ \/ /\ slots < MaxConnections
                /\ slots' = slots + 1
                /\ conn' = [conn EXCEPT ![g].stage = "slot", ![g].obj = o]
             \/ /\ slots = MaxConnections
                /\ conn' = [conn EXCEPT ![g] = [@ EXCEPT
                       !.stage = "up", !.obj = o, !.closed = TRUE,
                       !.reader = "on", !.writer = "on"]]
                /\ UNCHANGED slots
    /\ UNCHANGED <<clients, count, messages, hist>>

Run(g) ==
    /\ conn[g].stage = "slot"
    /\ conn' = [conn EXCEPT ![g] = [@ EXCEPT
                    !.stage = "up", !.reader = "on", !.writer = "on"]]
    /\ clients' = clients \cup {g} /\ count' = count + 1
    /\ UNCHANGED <<holder, slots, messages, hist>>

\* Close happens once; it empties the session, whose user stays.
Close(g) == [conn EXCEPT ![g] = [@ EXCEPT !.closed = TRUE, !.room = 0]]

PingFails(g) ==
    /\ conn[g].writer = "on" /\ ~conn[g].closed
    /\ conn' = Close(g)
    /\ UNCHANGED <<members, messages, hist>>

WriterStops(g) ==
    /\ conn[g].writer = "on" /\ conn[g].closed
    /\ conn' = [conn EXCEPT ![g].writer = "off"]
    /\ UNCHANGED <<members, messages, hist>>

\* The reader ends when the client goes away or the connection was closed.
\* Mutant: a slot is given back whether or not the client was there.
ReaderStopsAlways(g) ==
    /\ conn[g].reader = "on"
    /\ conn' = [conn EXCEPT ![g].reader = "removing"]
    /\ clients' = clients \ {g}
    /\ UNCHANGED <<holder, slots, count, messages, hist>>

ReaderStops(g) ==
    /\ conn[g].reader = "on"
    /\ conn' = [conn EXCEPT ![g].reader = IF g \in clients THEN "removing" ELSE "off"]
    /\ clients' = clients \ {g}
    /\ UNCHANGED <<holder, slots, count, messages, hist>>

RemoveClient(g) ==
    /\ conn[g].reader = "removing"
    /\ conn' = [Close(g) EXCEPT ![g].reader = "off"]
    /\ slots' = slots - 1 /\ count' = count - 1
    /\ UNCHANGED <<holder, clients, messages, hist>>

\* Who still holds an object: answers from the node are never in a database.
Holders(o) == {t \in tasks : t.obj = o}

\* Mutant: Close gives the object back at once.
PutAtOnce(g) ==
    LET o == conn[g].obj
    IN /\ conn[g].closed /\ o # None /\ holder[o] = g /\ conn[g].reader = "off"
       /\ holder' = [holder EXCEPT ![o] = None]
       /\ hist' = [hist EXCEPT !.outlived = @ \/ \E t \in Holders(o) : t.msg.kind = "entry"]
       /\ UNCHANGED <<conn, clients, slots, count, messages>>

Put(g) ==
    LET o == conn[g].obj
    IN /\ conn[g].closed /\ o # None /\ holder[o] = g
       /\ conn[g].stage = "up" /\ conn[g].reader = "off" /\ conn[g].writer = "off"
       /\ \A t \in Holders(o) : t.msg.kind = "entry"
       /\ holder' = [holder EXCEPT ![o] = None]
       /\ hist' = [hist EXCEPT !.outlived = @ \/ Holders(o) # {}]
       /\ UNCHANGED <<conn, clients, slots, count, messages>>

-----------------------------------------------------------------------------
(* A message on its way to the node. *)

Dispatch(g, m, w) ==
    \/ Len(queue[w]) < QueueSize /\ queue' = [queue EXCEPT ![w] = Append(@, m)]
       /\ UNCHANGED <<spilled, hist>>
    \/ Len(queue[w]) = QueueSize /\ spilled' = spilled \cup {m}
       /\ hist' = [hist EXCEPT !.spilt = @ \cup {g}] /\ UNCHANGED queue

Reads(g) == conn[g].reader = "on" /\ ~conn[g].closed /\ conn[g].asked < MaxMessages[g]

\* What a client may say next.
Said(g) == {Msg(g, conn[g].asked + 1, "entry", u) : u \in Uids}
             \cup {Msg(g, conn[g].asked + 1, "enter", None)}

\* Mutant: any worker may handle any message.
ReadMessageAny(g) ==
    /\ Reads(g)
    /\ conn' = [conn EXCEPT ![g].asked = @ + 1]
    /\ \E m \in Said(g), w \in Workers : Dispatch(g, m, w)
    /\ UNCHANGED <<members, tasks, node, back>>

\* readMessage and clientReadChanHandler.
ReadMessage(g) ==
    /\ Reads(g)
    /\ conn' = [conn EXCEPT ![g].asked = @ + 1]
    /\ \E m \in Said(g) : Dispatch(g, m, WorkerOf[g])
    /\ UNCHANGED <<members, tasks, node, back>>

InFlight(g) ==
    {m \in node : m.cid = g} \cup {m \in back : m.cid = g /\ m.kind = "session"}

\* routeEvent and MessageHandler: Entry answers here, after calls of a
\* database; what enters or leaves a room is sent to the node, with the user
\* that the session has now.
RouteEvent(m, by) ==
    LET g == m.cid
        seen == [hist EXCEPT !.last[g] = m.n,
                             !.overtaken = IF m.n < hist.last[g] THEN @ \cup {g} ELSE @]
    IN \/ g \notin clients /\ UNCHANGED <<tasks, node, hist>>
       \/ /\ g \in clients /\ m.kind = "entry"
          /\ tasks' = tasks \cup {[msg |-> m, obj |-> conn[g].obj, by |-> by]}
          /\ hist' = seen /\ UNCHANGED node
       \/ /\ g \in clients /\ m.kind = "enter"
          /\ node' = node \cup {[m EXCEPT !.uid = conn[g].uid]}
          /\ hist' = IF InFlight(g) = {} THEN seen ELSE [seen EXCEPT !.mixed = @ \cup {g}]
          /\ UNCHANGED tasks

WorkerHandles(w) ==
    /\ queue[w] # <<>> /\ \A t \in tasks : t.by # w
    /\ queue' = [queue EXCEPT ![w] = Tail(@)]
    /\ RouteEvent(Head(queue[w]), w)
    /\ UNCHANGED <<conn, members, spilled, back>>

SpilledHandles(m) ==
    /\ m \in spilled
    /\ spilled' = spilled \ {m}
    /\ RouteEvent(m, None)
    /\ UNCHANGED <<conn, members, queue, back>>

\* Entry found the user of the token.  (A token that is refused, and a call
\* of a database that fails, are answered without it.)
SetUid(t) ==
    LET g == t.msg.cid
        u == t.msg.uid
    IN /\ t.msg.kind = "entry" /\ u # None
       /\ conn' = [conn EXCEPT ![g].uid = u]
       /\ tasks' = (tasks \ {t}) \cup {[t EXCEPT !.msg = [@ EXCEPT !.uid = None]]}
       /\ hist' = IF u = conn[g].uid \/ InFlight(g) = {} THEN hist
                  ELSE [hist EXCEPT !.mixed = @ \cup {g}]
       /\ UNCHANGED <<members, queue, spilled, node, back>>

\* SendMessage on the channel the object has now: of a connection that is
\* closing it ends the process, of an object in the pool it waits for ever.
Receiver(t) == holder[t.obj]
Leaving(g) == conn[g].stage = "up" /\ conn[g].writer = "off"

SendMessage(t) ==
    /\ Receiver(t) # None /\ ~Leaving(Receiver(t))
    /\ tasks' = tasks \ {t}
    /\ hist' = [hist EXCEPT !.stray = @ \/ t.msg.cid # Receiver(t)]
    /\ UNCHANGED <<conn, members, queue, spilled, node, back>>

\* A panic ends the process, with all it has in memory.
SendPanics(t) ==
    /\ Receiver(t) # None /\ Leaving(Receiver(t))
    /\ down' = TRUE
    /\ conn' = [g \in Cids |-> Away] /\ holder' = [o \in Objects |-> None]
    /\ clients' = {} /\ slots' = 0 /\ count' = 0
    /\ queue' = [w \in Workers |-> <<>>] /\ spilled' = {} /\ tasks' = {}
    /\ UNCHANGED <<node, back, hist>>

-----------------------------------------------------------------------------
(* The node, and the way back: each message in a goroutine of its own. *)

\* Mutant: the session value is sent before it is set.
NodeHandlesOld(m) ==
    /\ m \in node
    /\ node' = node \ {m}
    /\ back' = back \cup {Msg(m.cid, m.n, "answer", m.uid)}
                    \cup (IF m.uid = None THEN {}
                          ELSE {Msg(m.cid, conn[m.cid].room, "session", m.uid)})
    /\ hist' = IF m.uid = None THEN hist ELSE [hist EXCEPT !.put[m.cid] = m.n]
    /\ UNCHANGED <<conn, members, queue, spilled, tasks>>

\* A request without a user is refused.
NodeHandles(m) ==
    /\ m \in node
    /\ node' = node \ {m}
    /\ back' = back \cup {Msg(m.cid, m.n, "answer", m.uid)}
                    \cup (IF m.uid = None THEN {} ELSE {Msg(m.cid, m.n, "session", m.uid)})
    /\ hist' = IF m.uid = None THEN hist ELSE [hist EXCEPT !.put[m.cid] = m.n]
    /\ UNCHANGED <<conn, members, queue, spilled, tasks>>

\* Response, up to SendMessage.
Response(m) ==
    /\ m \in back /\ m.kind = "answer"
    /\ back' = back \ {m}
    /\ tasks' = IF m.cid \in clients
                THEN tasks \cup {[msg |-> m, obj |-> conn[m.cid].obj, by |-> None]}
                ELSE tasks
    /\ UNCHANGED <<conn, members, queue, spilled, node, hist>>

\* SetData keeps the values of the session's own user only.
SetSessionData(m) ==
    /\ m \in back /\ m.kind = "session"
    /\ back' = back \ {m}
    /\ conn' = IF m.cid \in clients /\ conn[m.cid].uid = m.uid THEN [conn EXCEPT ![m.cid].room = m.n] ELSE conn
    /\ UNCHANGED <<members, queue, spilled, tasks, node, hist>>

\* NATS does not store a message.
Lose ==
    /\ hist.lost < MaxLost
    /\ \E m \in node \cup back :
          /\ node' = node \ {m} /\ back' = back \ {m}
          /\ hist' = [hist EXCEPT !.lost = @ + 1, !.mixed = @ \cup {m.cid}]
    /\ UNCHANGED <<conn, members, queue, spilled, tasks>>

-----------------------------------------------------------------------------

Ended == conn' = conn /\ UNCHANGED <<members, messages, down, hist>>

\* Nothing is left to do, or the process has ended.
AtRest ==
    \/ down
    \/ /\ \A g \in Cids : conn[g].stage \in {"away", "up"} /\ conn[g].reader = "off"
       /\ spilled = {} /\ node = {} /\ back = {}

Up(step) == ~down /\ step /\ UNCHANGED down

Next ==
    \/ \E g \in Cids : Up(Check(g)) \/ Up(AddClient(g)) \/ Up(Run(g)) \/ Up(PingFails(g))
                       \/ Up(WriterStops(g)) \/ Up(ReaderStops(g)) \/ Up(RemoveClient(g))
                       \/ Up(Put(g)) \/ Up(ReadMessage(g))
    \/ \E w \in Workers : Up(WorkerHandles(w))
    \/ \E m \in spilled : Up(SpilledHandles(m))
    \/ \E t \in tasks : Up(SetUid(t)) \/ Up(SendMessage(t)) \/ SendPanics(t)
    \/ \E m \in node : Up(NodeHandles(m))
    \/ \E m \in back : Up(Response(m)) \/ Up(SetSessionData(m))
    \/ Up(Lose)
    \/ AtRest /\ Ended

Spec == Init /\ [][Next]_vars

-----------------------------------------------------------------------------
(* Properties. *)

\* A slot is taken by each connection that is being added, is in a bucket or
\* is being removed, and by no other; the counter is of those in a bucket or
\* being removed (addClient, removeClient).
SlotsAreOwned ==
    LET adding == {g \in Cids : conn[g].stage = "slot"}
        removing == {g \in Cids : conn[g].reader = "removing"}
    IN /\ slots = Cardinality(adding \cup clients \cup removing)
       /\ count = Cardinality(clients \cup removing)
       /\ slots <= MaxConnections

\* The messages of a connection are handled in their order, unless one of
\* them found the queue of its worker full (clientReadChanHandler).
OrderKept == hist.overtaken \subseteq hist.spilt

\* An answer goes to the connection that asked, and no worker waits for ever
\* on an object of the pool, unless a handler that was in a database outlived
\* its connection (Close, reset, SendMessage).
AnswersReachOwner ==
    hist.stray \/ (\E t \in tasks : Receiver(t) = None) => hist.outlived

\* An open connection without requests and values on the way has the roomId
\* that was put last, unless two of its requests met, one was lost or an Entry
\* with another token overtook one.
RoomIdIsNewest ==
    \A g \in clients :
        conn[g].closed \/ g \in hist.mixed \/ InFlight(g) # {} \/ conn[g].room = hist.put[g]
=============================================================================

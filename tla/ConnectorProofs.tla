-------------------------- MODULE ConnectorProofs --------------------------
(***************************************************************************)
(* What is proved of a connector, for any connections, objects, workers    *)
(* and bounds.                                                             *)
(*                                                                         *)
(* The inductive invariant has a part for each promise: where a connection *)
(* stands, what the slots are counted by, which messages wait in which     *)
(* order, whose object an answer holds, and what a node has still to say   *)
(* about a session.  Each part is carried over the steps by itself.        *)
(***************************************************************************)
EXTENDS Connector, FiniteSetTheorems, TLAPS

Message == [
    cid : Cids, n : Nat, kind : {"entry", "enter", "answer", "session"},
    uid : Uids \cup {None}]
Task == [msg : Message, obj : Objects, by : Workers \cup {None}]
Connection == [
    stage : {"away", "checked", "slot", "up"}, obj : Objects \cup {None},
    closed : BOOLEAN, reader : {"off", "on", "removing"}, writer : {"off", "on"},
    asked : Nat, uid : Uids \cup {None}, room : Nat]
History == [
    last : [Cids -> Nat], overtaken : SUBSET Cids, spilt : SUBSET Cids,
    put : [Cids -> Nat], mixed : SUBSET Cids, stray : BOOLEAN,
    lost : Nat, outlived : BOOLEAN]

Typed ==
    /\ conn \in [Cids -> Connection]
    /\ holder \in [Objects -> Cids \cup {None}]
    /\ clients \in SUBSET Cids /\ slots \in Int /\ count \in Int
    /\ queue \in [Workers -> Seq(Message)]
    /\ spilled \in SUBSET Message /\ tasks \in SUBSET Task
    /\ node \in SUBSET Message /\ back \in SUBSET Message
    /\ down \in BOOLEAN /\ hist \in History

\* A connection reads only when it is up, and a client reads; one that is being
\* added or is a client has an object, which is of no other connection.
Placed ==
    /\ \A g \in Cids : conn[g].reader # "off" => conn[g].stage = "up"
    /\ \A g \in clients : conn[g].reader = "on"
    /\ \A g \in Cids : g \in clients \/ conn[g].stage = "slot" =>
          conn[g].obj \in Objects /\ holder[conn[g].obj] = g

Adding == {g \in Cids : conn[g].stage = "slot"}
Removing == {g \in Cids : conn[g].reader = "removing"}

\* SlotsAreOwned, of finitely many connections at any time.
Counted ==
    /\ IsFiniteSet(Adding \cup clients \cup Removing)
    /\ slots = Cardinality(Adding \cup clients \cup Removing)
    /\ count = Cardinality(clients \cup Removing)
    /\ slots <= MaxConnections

\* No message of g was spilled; those that wait do so with its worker, in
\* their order, after the one that was handled last.
InOrder(g) ==
    /\ \A m \in spilled : m.cid # g
    /\ \A w \in Workers : \A i \in 1 .. Len(queue[w]) :
          queue[w][i].cid = g =>
             /\ w = WorkerOf[g]
             /\ hist.last[g] < queue[w][i].n /\ queue[w][i].n <= conn[g].asked
             /\ \A j \in 1 .. (i - 1) : queue[w][j].cid = g => queue[w][j].n < queue[w][i].n
    /\ ~down => hist.last[g] <= conn[g].asked

Ordered ==
    /\ hist.overtaken \subseteq hist.spilt
    /\ \A g \in Cids \ hist.spilt : InOrder(g)

\* Until a handler outlives its connection, an answer holds the object of the
\* connection that asked.
Held ==
    /\ hist.stray => hist.outlived
    /\ ~hist.outlived => \A t \in tasks : holder[t.obj] = t.msg.cid

\* The roomIds on their way to the session of g.
Values(g) == {m \in back : m.cid = g /\ m.kind = "session"}

\* One request or value of g is on the way at most, of the session's user; the
\* value is the one put last, and when none is on the way the session has it.
Alone(g) ==
    /\ \A a, b \in InFlight(g) : a = b
    /\ ~down => \A m \in InFlight(g) : m.uid = conn[g].uid
    /\ \A m \in Values(g) : m.n = hist.put[g]
    /\ (g \in clients /\ ~conn[g].closed /\ Values(g) = {}) => conn[g].room = hist.put[g]

\* Nothing is known of a connection that is not up yet.
Fresh(g) == conn[g].stage # "up" => InFlight(g) = {} /\ hist.put[g] = 0 /\ conn[g].room = 0

Newest ==
    /\ \A m \in node : m.kind = "enter"
    /\ \A g \in Cids \ hist.mixed : Alone(g)
    /\ ~down => \A g \in Cids : Fresh(g)

ConnInv == Typed /\ Placed /\ Counted /\ Ordered /\ Held /\ Newest

-----------------------------------------------------------------------------
(* Types. *)

\* What a step makes of one connection.
Becomes(g, r) ==
    /\ r \in Connection /\ conn' \in [Cids -> Connection]
    /\ conn'[g] = r /\ \A h \in Cids \ {g} : conn'[h] = conn[h]

\* One connection is changed.
LEMMA OneBecomes ==
    ASSUME Typed, NEW g \in Cids, NEW r \in Connection, conn' = [conn EXCEPT ![g] = r]
    PROVE  Becomes(g, r)
  BY DEF Typed, Becomes

\* The steps of a connection's goroutines change the connection so.
LEMMA ConnectionSteps ==
    ASSUME Typed, NEW g \in Cids
    PROVE  /\ Check(g) => Becomes(g, [conn[g] EXCEPT !.stage = "checked"])
           /\ Run(g) => Becomes(g, [conn[g] EXCEPT !.stage = "up", !.reader = "on", !.writer = "on"])
           /\ PingFails(g) => Becomes(g, [conn[g] EXCEPT !.closed = TRUE, !.room = 0])
           /\ WriterStops(g) => Becomes(g, [conn[g] EXCEPT !.writer = "off"])
           /\ ReaderStops(g) =>
                Becomes(g, [conn[g] EXCEPT !.reader = IF g \in clients THEN "removing" ELSE "off"])
           /\ RemoveClient(g) =>
                Becomes(g, [conn[g] EXCEPT !.closed = TRUE, !.room = 0, !.reader = "off"])
           /\ ReadMessage(g) => Becomes(g, [conn[g] EXCEPT !.asked = @ + 1])
  <1>1. conn[g] \in Connection
    BY DEF Typed
  <1>2. ASSUME Check(g)
        PROVE  Becomes(g, [conn[g] EXCEPT !.stage = "checked"])
    <2>1. [conn[g] EXCEPT !.stage = "checked"] \in Connection
      BY <1>1 DEF Connection
    <2>. QED  BY <1>2, <2>1, OneBecomes DEF Check
  <1>3. ASSUME Run(g)
        PROVE  Becomes(g, [conn[g] EXCEPT !.stage = "up", !.reader = "on", !.writer = "on"])
    <2>1. [conn[g] EXCEPT !.stage = "up", !.reader = "on", !.writer = "on"] \in Connection
      BY <1>1 DEF Connection
    <2>. QED  BY <1>3, <2>1, OneBecomes DEF Run, Typed
  <1>4. ASSUME PingFails(g)
        PROVE  Becomes(g, [conn[g] EXCEPT !.closed = TRUE, !.room = 0])
    <2>1. [conn[g] EXCEPT !.closed = TRUE, !.room = 0] \in Connection
      BY <1>1 DEF Connection
    <2>. QED  BY <1>4, <2>1, OneBecomes DEF PingFails, Close, Typed
  <1>5. ASSUME WriterStops(g)
        PROVE  Becomes(g, [conn[g] EXCEPT !.writer = "off"])
    <2>1. [conn[g] EXCEPT !.writer = "off"] \in Connection
      BY <1>1 DEF Connection
    <2>. QED  BY <1>5, <2>1, OneBecomes DEF WriterStops
  <1>6. ASSUME ReaderStops(g)
        PROVE  Becomes(g, [conn[g] EXCEPT !.reader = IF g \in clients THEN "removing" ELSE "off"])
    <2>1. [conn[g] EXCEPT !.reader = IF g \in clients THEN "removing" ELSE "off"] \in Connection
      BY <1>1 DEF Connection
    <2>. QED  BY <1>6, <2>1, OneBecomes DEF ReaderStops
  <1>7. ASSUME RemoveClient(g)
        PROVE  Becomes(g, [conn[g] EXCEPT !.closed = TRUE, !.room = 0, !.reader = "off"])
    <2>1. [conn[g] EXCEPT !.closed = TRUE, !.room = 0, !.reader = "off"] \in Connection
      BY <1>1 DEF Connection
    <2>. DEFINE r == [conn[g] EXCEPT !.closed = TRUE, !.room = 0]
    <2>2. conn' = [[conn EXCEPT ![g] = r] EXCEPT ![g].reader = "off"]
      BY <1>7 DEF RemoveClient, Close, Typed
    <2>3. conn' = [conn EXCEPT ![g] = [r EXCEPT !.reader = "off"]]
      BY <2>2 DEF Typed
    <2>. QED  BY <1>1, <2>1, <2>3, OneBecomes DEF Connection
  <1>8. ASSUME ReadMessage(g)
        PROVE  Becomes(g, [conn[g] EXCEPT !.asked = @ + 1])
    <2>1. [conn[g] EXCEPT !.asked = @ + 1] \in Connection
      BY <1>1 DEF Connection
    <2>. QED  BY <1>8, <2>1, OneBecomes DEF ReadMessage
  <1>. QED  BY <1>2, <1>3, <1>4, <1>5, <1>6, <1>7, <1>8

\* A connection that is made has a slot, or is closed and runs all the same.
LEMMA AddClientSteps ==
    ASSUME Typed, NEW g \in Cids, AddClient(g)
    PROVE  \E o \in Objects :
              /\ conn[g].stage = "checked" /\ holder[o] = None
              /\ holder' = [holder EXCEPT ![o] = g]
              /\ \/ /\ slots < MaxConnections /\ slots' = slots + 1
                    /\ Becomes(g, [conn[g] EXCEPT !.stage = "slot", !.obj = o])
                 \/ /\ slots' = slots
                    /\ Becomes(g, [conn[g] EXCEPT !.stage = "up", !.obj = o, !.closed = TRUE,
                                                  !.reader = "on", !.writer = "on"])
  <1>1. conn[g] \in Connection
    BY DEF Typed
  <1>2. PICK o \in Objects :
          /\ holder[o] = None /\ holder' = [holder EXCEPT ![o] = g]
          /\ \/ /\ slots < MaxConnections /\ slots' = slots + 1
                /\ conn' = [conn EXCEPT ![g].stage = "slot", ![g].obj = o]
             \/ /\ slots' = slots
                /\ conn' = [conn EXCEPT ![g] = [@ EXCEPT
                       !.stage = "up", !.obj = o, !.closed = TRUE,
                       !.reader = "on", !.writer = "on"]]
    BY DEF AddClient
  <1>. DEFINE r == [conn[g] EXCEPT !.stage = "slot", !.obj = o]
              q == [conn[g] EXCEPT !.stage = "up", !.obj = o, !.closed = TRUE,
                                   !.reader = "on", !.writer = "on"]
  <1>3. r \in Connection /\ q \in Connection
    BY <1>1 DEF Connection
  <1>4. ASSUME conn' = [conn EXCEPT ![g].stage = "slot", ![g].obj = o]
        PROVE  Becomes(g, r)
    <2>1. conn' = [conn EXCEPT ![g] = r]
      BY <1>4 DEF Typed
    <2>. QED  BY <1>3, <2>1, OneBecomes
  <1>5. ASSUME conn' = [conn EXCEPT ![g] = [@ EXCEPT !.stage = "up", !.obj = o,
                             !.closed = TRUE, !.reader = "on", !.writer = "on"]]
        PROVE  Becomes(g, q)
    <2>1. conn' = [conn EXCEPT ![g] = q]
      BY <1>5 DEF Typed
    <2>. QED  BY <1>3, <2>1, OneBecomes
  <1>6. conn[g].stage = "checked"
    BY DEF AddClient
  <1>. HIDE DEF r, q
  <1>7. \/ slots < MaxConnections /\ slots' = slots + 1 /\ Becomes(g, r)
        \/ slots' = slots /\ Becomes(g, q)
    BY <1>2, <1>4, <1>5
  <1>. QED  BY <1>2, <1>6, <1>7 DEF r, q

\* What a worker does with the head of its queue, or a goroutine with a
\* message that was spilled, keeps the types of what it may change.
LEMMA RouteTyped ==
    ASSUME Typed, Placed, NEW m \in Message, NEW by \in Workers \cup {None}, RouteEvent(m, by)
    PROVE  tasks' \in SUBSET Task /\ node' \in SUBSET Message /\ hist' \in History
  <1>. DEFINE g == m.cid
  <1>1. g \in Cids /\ m.n \in Nat
    BY DEF Message
  <1>2. g \in clients => conn[g].obj \in Objects
    BY <1>1 DEF Placed
  <1>3. CASE g \notin clients
    BY <1>3 DEF RouteEvent, Typed
  <1>4. CASE g \in clients
    <2>1. /\ tasks' = tasks \/ tasks' = tasks \cup {[msg |-> m, obj |-> conn[g].obj, by |-> by]}
          /\ node' = node \/ node' = node \cup {[m EXCEPT !.uid = conn[g].uid]}
      BY <1>4 DEF RouteEvent
    <2>5. [m EXCEPT !.uid = conn[g].uid] \in Message
      <3>1. conn[g].uid \in Uids \cup {None}
        BY <1>1 DEF Typed, Connection
      <3>. QED  BY <3>1 DEF Message
    <2>2. tasks' \in SUBSET Task /\ node' \in SUBSET Message
      BY <1>2, <1>4, <2>1, <2>5 DEF Task, Typed
    <2>3. PICK over \in {hist.overtaken, hist.overtaken \cup {g}},
               mix \in {hist.mixed, hist.mixed \cup {g}} :
               hist' = [hist EXCEPT !.last[g] = m.n, !.overtaken = over, !.mixed = mix]
      <3>. DEFINE seen == [hist EXCEPT !.last[g] = m.n,
                              !.overtaken = IF m.n < hist.last[g] THEN @ \cup {g} ELSE @]
                  over == IF m.n < hist.last[g] THEN hist.overtaken \cup {g} ELSE hist.overtaken
      <3>1. seen = [hist EXCEPT !.last[g] = m.n, !.overtaken = over, !.mixed = hist.mixed]
        BY DEF Typed, History
      <3>2. [seen EXCEPT !.mixed = @ \cup {g}]
              = [hist EXCEPT !.last[g] = m.n, !.overtaken = over, !.mixed = hist.mixed \cup {g}]
        BY DEF Typed, History
      <3>3. hist' = seen \/ hist' = [seen EXCEPT !.mixed = @ \cup {g}]
        BY <1>4 DEF RouteEvent
      <3>. HIDE DEF seen
      <3>. QED  BY <3>1, <3>2, <3>3
    <2>4. hist' \in History
      BY <1>1, <2>3 DEF Typed, History
    <2>. QED  BY <2>2, <2>4
  <1>. QED  BY <1>3, <1>4

\* A client says what comes next.
LEMMA SaidIs ==
    ASSUME Typed, NEW g \in Cids, NEW m \in Said(g)
    PROVE  m \in Message /\ m.cid = g /\ m.n = conn[g].asked + 1
  <1>1. conn[g].asked \in Nat
    BY DEF Typed, Connection
  <1>2. PICK kind \in {"entry", "enter"}, u \in Uids \cup {None} :
          m = Msg(g, conn[g].asked + 1, kind, u)
    BY DEF Said
  <1>. QED  BY <1>1, <1>2 DEF Msg, Message

\* Entry gives the session its user, and a request on the way that of another
\* is known.
LEMMA SetUidSteps ==
    ASSUME Typed, NEW t \in tasks, SetUid(t)
    PROVE  \E q \in Task, u \in Uids :
              /\ q.obj = t.obj /\ q.msg.cid = t.msg.cid /\ t.msg.cid \in Cids
              /\ tasks' = (tasks \ {t}) \cup {q}
              /\ Becomes(t.msg.cid, [conn[t.msg.cid] EXCEPT !.uid = u])
              /\ hist' \in History
              /\ UNCHANGED <<hist.last, hist.overtaken, hist.spilt, hist.put,
                             hist.stray, hist.outlived>>
              /\ hist'.mixed = IF u = conn[t.msg.cid].uid \/ InFlight(t.msg.cid) = {}
                               THEN hist.mixed ELSE hist.mixed \cup {t.msg.cid}
  <1>. DEFINE g == t.msg.cid
              u == t.msg.uid
              n == [t.msg EXCEPT !.uid = None]
              q == [t EXCEPT !.msg = n]
  <1>1. t \in Task /\ t.msg \in Message /\ g \in Cids
    BY DEF Typed, Task, Message
  <1>2. u \in Uids
    BY <1>1 DEF SetUid, Message
  <1>3. n \in Message /\ n.cid = g
    BY <1>1 DEF Message
  <1>4. q \in Task /\ q.obj = t.obj /\ q.msg = n
    <2>. HIDE DEF n
    <2>. QED  BY <1>1, <1>3 DEF Task
  <1>5. tasks' = (tasks \ {t}) \cup {q}
    BY DEF SetUid
  <1>6. Becomes(g, [conn[g] EXCEPT !.uid = u])
    <2>1. conn[g] \in Connection
      BY <1>1 DEF Typed
    <2>2. [conn[g] EXCEPT !.uid = u] \in Connection
      BY <1>2, <2>1 DEF Connection
    <2>3. conn' = [conn EXCEPT ![g] = [conn[g] EXCEPT !.uid = u]]
      BY <1>1 DEF SetUid, Typed
    <2>. QED  BY <1>1, <2>2, <2>3, OneBecomes
  <1>7. \/ hist' = hist /\ (u = conn[g].uid \/ InFlight(g) = {})
        \/ /\ hist' = [hist EXCEPT !.mixed = @ \cup {g}]
           /\ ~(u = conn[g].uid \/ InFlight(g) = {})
    BY DEF SetUid
  <1>8. hist \in History /\ hist.mixed \cup {g} \in SUBSET Cids
    BY <1>1 DEF Typed, History
  <1>. HIDE DEF g, u, q, n
  <1>9. /\ hist' \in History
        /\ UNCHANGED <<hist.last, hist.overtaken, hist.spilt, hist.put,
                       hist.stray, hist.outlived>>
        /\ hist'.mixed = IF u = conn[g].uid \/ InFlight(g) = {}
                         THEN hist.mixed ELSE hist.mixed \cup {g}
    BY <1>7, <1>8 DEF History
  <1>10. q.msg.cid = g
    BY <1>3, <1>4
  <1>. QED  BY <1>1, <1>2, <1>4, <1>5, <1>6, <1>9, <1>10 DEF g

\* Every step keeps the types.
LEMMA StepTyped ==
    ASSUME Typed, Placed, [Next]_vars
    PROVE  Typed'
  <1>. USE ConnectorAssumption
  <1>1. ASSUME NEW g \in Cids, Check(g), UNCHANGED down
        PROVE  Typed'
    <2>1. conn' \in [Cids -> Connection]
      BY <1>1, ConnectionSteps DEF Becomes
    <2>. QED  BY <1>1, <2>1 DEF Check, members, messages, Typed
  <1>2. ASSUME NEW g \in Cids, AddClient(g), UNCHANGED down
        PROVE  Typed'
    <2>1. PICK o \in Objects :
            /\ holder' = [holder EXCEPT ![o] = g]
            /\ slots' = slots \/ slots' = slots + 1
            /\ conn' \in [Cids -> Connection]
      BY <1>2, AddClientSteps DEF Becomes
    <2>2. holder' \in [Objects -> Cids \cup {None}] /\ slots' \in Int
      BY <2>1 DEF Typed
    <2>. QED  BY <1>2, <2>1, <2>2 DEF AddClient, messages, Typed
  <1>3. ASSUME NEW g \in Cids, Run(g), UNCHANGED down
        PROVE  Typed'
    <2>1. conn' \in [Cids -> Connection]
      BY <1>3, ConnectionSteps DEF Becomes
    <2>. QED  BY <1>3, <2>1 DEF Run, messages, Typed
  <1>4. ASSUME NEW g \in Cids, PingFails(g), UNCHANGED down
        PROVE  Typed'
    <2>1. conn' \in [Cids -> Connection]
      BY <1>4, ConnectionSteps DEF Becomes
    <2>. QED  BY <1>4, <2>1 DEF PingFails, members, messages, Typed
  <1>5. ASSUME NEW g \in Cids, WriterStops(g), UNCHANGED down
        PROVE  Typed'
    <2>1. conn' \in [Cids -> Connection]
      BY <1>5, ConnectionSteps DEF Becomes
    <2>. QED  BY <1>5, <2>1 DEF WriterStops, members, messages, Typed
  <1>6. ASSUME NEW g \in Cids, ReaderStops(g), UNCHANGED down
        PROVE  Typed'
    <2>1. conn' \in [Cids -> Connection]
      BY <1>6, ConnectionSteps DEF Becomes
    <2>. QED  BY <1>6, <2>1 DEF ReaderStops, messages, Typed
  <1>7. ASSUME NEW g \in Cids, RemoveClient(g), UNCHANGED down
        PROVE  Typed'
    <2>1. conn' \in [Cids -> Connection]
      BY <1>7, ConnectionSteps DEF Becomes
    <2>. QED  BY <1>7, <2>1 DEF RemoveClient, messages, Typed
  <1>8. ASSUME NEW g \in Cids, Put(g), UNCHANGED down
        PROVE  Typed'
    <2>1. hist' \in History /\ holder' \in [Objects -> Cids \cup {None}]
      BY <1>8 DEF Put, Typed, History
    <2>. QED  BY <1>8, <2>1 DEF Put, messages, Typed
  <1>9. ASSUME NEW g \in Cids, ReadMessage(g), UNCHANGED down
        PROVE  Typed'
    <2>1. PICK m \in Said(g) : Dispatch(g, m, WorkerOf[g])
      BY <1>9 DEF ReadMessage
    <2>2. m \in Message
      BY SaidIs
    <2>7. Dispatch(g, m, WorkerOf[g]) /\ WorkerOf[g] \in Workers
      BY <2>1
    <2>8. Append(queue[WorkerOf[g]], m) \in Seq(Message)
      BY <2>2, <2>7 DEF Typed
    <2>3. queue' \in [Workers -> Seq(Message)]
      BY <2>7, <2>8 DEF Dispatch, Typed
    <2>4. spilled' \in SUBSET Message
      BY <2>2, <2>7 DEF Dispatch, Typed
    <2>5. hist' \in History
      <3>1. hist' = hist \/ hist' = [hist EXCEPT !.spilt = @ \cup {g}]
        BY <2>7 DEF Dispatch
      <3>2. hist \in History /\ hist.spilt \cup {g} \in SUBSET Cids
        BY DEF Typed, History
      <3>. QED  BY <3>1, <3>2 DEF History
    <2>6. conn' \in [Cids -> Connection]
      BY <1>9, ConnectionSteps DEF Becomes
    <2>. QED  BY <1>9, <2>3, <2>4, <2>5, <2>6 DEF ReadMessage, members, Typed
  <1>10. ASSUME NEW w \in Workers, WorkerHandles(w), UNCHANGED down
         PROVE  Typed'
    <2>1. Head(queue[w]) \in Message /\ Tail(queue[w]) \in Seq(Message)
      BY <1>10 DEF WorkerHandles, Typed
    <2>. QED  BY <1>10, <2>1, RouteTyped DEF WorkerHandles, members, Typed
  <1>11. ASSUME NEW m \in spilled, SpilledHandles(m), UNCHANGED down
         PROVE  Typed'
    <2>1. m \in Message
      BY DEF Typed
    <2>. QED  BY <1>11, <2>1, RouteTyped DEF SpilledHandles, members, Typed
  <1>12. ASSUME NEW t \in tasks, SendMessage(t), UNCHANGED down
         PROVE  Typed'
    BY <1>12 DEF SendMessage, members, Typed, History
  <1>13. ASSUME NEW t \in tasks, SendPanics(t)
         PROVE  Typed'
    BY <1>13 DEF SendPanics, Away, Typed, Connection
  <1>14. ASSUME NEW m \in node, NodeHandles(m), UNCHANGED down
         PROVE  Typed'
    <2>1. m \in Message
      BY DEF Typed
    <2>2. /\ Msg(m.cid, m.n, "answer", m.uid) \in Message
          /\ Msg(m.cid, m.n, "session", m.uid) \in Message
      BY <2>1 DEF Msg, Message
    <2>3. back' \in SUBSET Message
      BY <1>14, <2>2 DEF NodeHandles, Typed
    <2>4. m.cid \in Cids /\ m.n \in Nat
      BY <2>1 DEF Message
    <2>5. hist' \in History
      BY <1>14, <2>4 DEF NodeHandles, Typed, History
    <2>. QED  BY <1>14, <2>3, <2>5 DEF NodeHandles, members, Typed
  <1>15. ASSUME NEW m \in back, Response(m), UNCHANGED down
         PROVE  Typed'
    <2>1. m \in Message /\ m.cid \in clients => conn[m.cid].obj \in Objects
      BY DEF Typed, Placed
    <2>. QED  BY <1>15, <2>1 DEF Response, members, Typed, Task
  <1>16. ASSUME NEW m \in back, SetSessionData(m), UNCHANGED down
         PROVE  Typed'
    <2>1. m.cid \in Cids /\ m.n \in Nat
      BY DEF Typed, Message
    <2>5. conn[m.cid] \in Connection
      BY <2>1 DEF Typed
    <2>2. [conn[m.cid] EXCEPT !.room = m.n] \in Connection
      BY <2>1, <2>5 DEF Connection
    <2>3. conn' = conn \/ conn' = [conn EXCEPT ![m.cid] = [conn[m.cid] EXCEPT !.room = m.n]]
      BY <1>16 DEF SetSessionData, Typed
    <2>4. conn' \in [Cids -> Connection]
      BY <2>1, <2>2, <2>3 DEF Typed
    <2>. QED  BY <1>16, <2>4 DEF SetSessionData, members, Typed
  <1>17. ASSUME Lose, UNCHANGED down
         PROVE  Typed'
    <2>1. PICK m \in node \cup back :
            /\ node' = node \ {m} /\ back' = back \ {m}
            /\ hist' = [hist EXCEPT !.lost = @ + 1, !.mixed = @ \cup {m.cid}]
      BY <1>17 DEF Lose
    <2>2. m.cid \in Cids
      BY DEF Typed, Message
    <2>3. hist' \in History
      <3>1. hist \in History /\ hist.lost + 1 \in Nat /\ hist.mixed \cup {m.cid} \in SUBSET Cids
        BY <2>2 DEF Typed, History
      <3>. QED  BY <2>1, <3>1 DEF History
    <2>. QED  BY <1>17, <2>1, <2>3 DEF Lose, members, Typed
  <1>18. ASSUME UNCHANGED vars \/ Ended
         PROVE  Typed'
    BY <1>18 DEF vars, Ended, members, messages, Typed
  <1>19. ASSUME NEW t \in tasks, SetUid(t), UNCHANGED down
         PROVE  Typed'
    <2>1. tasks' \in SUBSET Task /\ conn' \in [Cids -> Connection] /\ hist' \in History
      <3>1. PICK q \in Task :
              /\ tasks' = (tasks \ {t}) \cup {q}
              /\ conn' \in [Cids -> Connection] /\ hist' \in History
        BY <1>19, SetUidSteps DEF Becomes
      <3>. QED  BY <3>1 DEF Typed
    <2>. QED  BY <1>19, <2>1 DEF SetUid, members, Typed
  <1>. QED
    BY <1>1, <1>2, <1>3, <1>4, <1>5, <1>6, <1>7, <1>8, <1>9, <1>10, <1>11, <1>12, <1>13,
       <1>14, <1>15, <1>16, <1>17, <1>18, <1>19 DEF Next, Up

-----------------------------------------------------------------------------
(* Where connections stand, and the slots. *)

\* Nobody moves: every connection keeps its stage, its object and what its
\* reader does, and the pool, the buckets and the counters are as before.
Stands ==
    /\ UNCHANGED members
    /\ \A h \in Cids : /\ conn'[h].stage = conn[h].stage /\ conn'[h].obj = conn[h].obj
                       /\ conn'[h].reader = conn[h].reader

\* The steps that move a connection.
Moves ==
    \/ \E g \in Cids : \/ Check(g) \/ AddClient(g) \/ Run(g) \/ ReaderStops(g)
                       \/ RemoveClient(g) \/ Put(g)
    \/ \E t \in tasks : SendPanics(t)

\* Every other step leaves the connections where they stand.
LEMMA OthersStand ==
    ASSUME Typed, [Next]_vars
    PROVE  Moves \/ Stands
  <1>1. ASSUME NEW g \in Cids, PingFails(g) \/ WriterStops(g) \/ ReadMessage(g)
        PROVE  Stands
    <2>1. conn[g] \in Connection
      BY DEF Typed
    <2>2. PICK r \in Connection :
            /\ Becomes(g, r)
            /\ r.stage = conn[g].stage /\ r.obj = conn[g].obj /\ r.reader = conn[g].reader
      <3>1. CASE PingFails(g)
        <4>1. Becomes(g, [conn[g] EXCEPT !.closed = TRUE, !.room = 0])
          BY <3>1, ConnectionSteps
        <4>. QED  BY <2>1, <4>1 DEF Becomes, Connection
      <3>2. CASE WriterStops(g)
        <4>1. Becomes(g, [conn[g] EXCEPT !.writer = "off"])
          BY <3>2, ConnectionSteps
        <4>. QED  BY <2>1, <4>1 DEF Becomes, Connection
      <3>3. CASE ReadMessage(g)
        <4>1. Becomes(g, [conn[g] EXCEPT !.asked = @ + 1])
          BY <3>3, ConnectionSteps
        <4>. QED  BY <2>1, <4>1 DEF Becomes, Connection
      <3>. QED  BY <1>1, <3>1, <3>2, <3>3
    <2>3. UNCHANGED members
      BY <1>1 DEF PingFails, WriterStops, ReadMessage
    <2>. QED  BY <2>2, <2>3 DEF Stands, Becomes
  <1>2. ASSUME NEW m \in back, SetSessionData(m)
        PROVE  Stands
    <2>1. m.cid \in Cids
      BY DEF Typed, Message
    <2>2. \A h \in Cids : conn[h] \in Connection
      BY DEF Typed
    <2>3. /\ UNCHANGED members
          /\ conn' = conn \/ conn' = [conn EXCEPT ![m.cid] = [conn[m.cid] EXCEPT !.room = m.n]]
      BY <1>2 DEF SetSessionData, Typed
    <2>4. \A h \in Cids : /\ conn'[h].stage = conn[h].stage /\ conn'[h].obj = conn[h].obj
                          /\ conn'[h].reader = conn[h].reader
      <3>1. CASE conn' = conn
        BY <3>1
      <3>2. CASE conn' = [conn EXCEPT ![m.cid] = [conn[m.cid] EXCEPT !.room = m.n]]
        <4>. DEFINE r == [conn[m.cid] EXCEPT !.room = m.n]
        <4>1. r.stage = conn[m.cid].stage /\ r.obj = conn[m.cid].obj
              /\ r.reader = conn[m.cid].reader
          BY <2>1, <2>2 DEF Connection
        <4>. HIDE DEF r
        <4>2. conn' = [conn EXCEPT ![m.cid] = r]
          BY <3>2 DEF r
        <4>. QED  BY <2>1, <4>1, <4>2 DEF Typed
      <3>. QED  BY <2>3, <3>1, <3>2
    <2>. QED  BY <2>3, <2>4 DEF Stands
  <1>5. ASSUME NEW t \in tasks, SetUid(t)
        PROVE  Stands
    <2>1. PICK u \in Uids :
            t.msg.cid \in Cids /\ Becomes(t.msg.cid, [conn[t.msg.cid] EXCEPT !.uid = u])
      BY <1>5, SetUidSteps
    <2>2. conn[t.msg.cid] \in Connection /\ UNCHANGED members
      BY <1>5, <2>1 DEF SetUid, Typed
    <2>3. \A h \in Cids : /\ conn'[h].stage = conn[h].stage /\ conn'[h].obj = conn[h].obj
                          /\ conn'[h].reader = conn[h].reader
      BY <2>1, <2>2 DEF Becomes, Connection
    <2>. QED  BY <2>2, <2>3 DEF Stands
  <1>3. ASSUME conn' = conn, UNCHANGED members
        PROVE  Stands
    BY <1>3 DEF Stands
  <1>4. ASSUME \/ \E w \in Workers : WorkerHandles(w)
               \/ \E m \in spilled : SpilledHandles(m)
               \/ \E t \in tasks : SendMessage(t)
               \/ \E m \in node : NodeHandles(m)
               \/ \E m \in back : Response(m)
               \/ Lose \/ Ended \/ UNCHANGED vars
        PROVE  conn' = conn /\ UNCHANGED members
    BY <1>4 DEF WorkerHandles, SpilledHandles, SendMessage, NodeHandles, Response, Lose, Ended,
                vars, members
  <1>. QED  BY <1>1, <1>2, <1>3, <1>4, <1>5 DEF Next, Up, Moves

\* A step that moves g alone need only be right about g.
LEMMA OthersPlaced ==
    ASSUME Typed, Placed, NEW g \in Cids,
           clients' \subseteq clients \cup {g},
           \A h \in Cids \ {g} : conn'[h] = conn[h],
           \A h \in Cids \ {g} : \A p \in Objects : holder[p] = h => holder'[p] = h,
           conn'[g].reader # "off" => conn'[g].stage = "up",
           g \in clients' => conn'[g].reader = "on",
           g \in clients' \/ conn'[g].stage = "slot" =>
              conn'[g].obj \in Objects /\ holder'[conn'[g].obj] = g
    PROVE  Placed'
  <1>1. ASSUME NEW h \in Cids \ {g}
        PROVE  /\ conn'[h].reader # "off" => conn'[h].stage = "up"
               /\ h \in clients' => conn'[h].reader = "on"
               /\ h \in clients' \/ conn'[h].stage = "slot" =>
                     conn'[h].obj \in Objects /\ holder'[conn'[h].obj] = h
    BY <1>1 DEF Placed
  <1>2. clients' \subseteq Cids
    BY DEF Typed
  <1>. QED  BY <1>1, <1>2 DEF Placed

\* Every step keeps a connection where it belongs: the object of one that is
\* being added or is a client is never given back or away.
LEMMA StepPlaced ==
    ASSUME Typed, Placed, [Next]_vars
    PROVE  Placed'
  <1>. USE ConnectorAssumption
  <1>0. \A h \in Cids : conn[h] \in Connection
    BY DEF Typed
  <1>1. ASSUME Stands
        PROVE  Placed'
    <2>1. clients' = clients /\ holder' = holder /\ clients \subseteq Cids
      BY <1>1 DEF Stands, members, Typed
    <2>. QED  BY <1>1, <2>1 DEF Stands, Placed
  <1>2. ASSUME NEW g \in Cids, Check(g)
        PROVE  Placed'
    <2>1. Becomes(g, [conn[g] EXCEPT !.stage = "checked"])
      BY <1>2, ConnectionSteps
    <2>2. /\ conn'[g].stage = "checked" /\ conn'[g].reader = conn[g].reader
          /\ conn'[g].obj = conn[g].obj
      BY <1>0, <2>1 DEF Becomes, Connection
    <2>3. conn[g].stage = "away" /\ clients' = clients /\ holder' = holder
      BY <1>2 DEF Check, members
    <2>. QED  BY <2>1, <2>2, <2>3, OthersPlaced DEF Placed, Becomes
  <1>3. ASSUME NEW g \in Cids, AddClient(g)
        PROVE  Placed'
    <2>1. PICK o \in Objects :
            /\ conn[g].stage = "checked" /\ holder[o] = None
            /\ holder' = [holder EXCEPT ![o] = g]
            /\ \/ Becomes(g, [conn[g] EXCEPT !.stage = "slot", !.obj = o])
               \/ Becomes(g, [conn[g] EXCEPT !.stage = "up", !.obj = o, !.closed = TRUE,
                                             !.reader = "on", !.writer = "on"])
      BY <1>3, AddClientSteps
    <2>2. /\ conn'[g].obj = o
          /\ conn'[g].reader # "off" => conn'[g].stage = "up"
          /\ \A h \in Cids \ {g} : conn'[h] = conn[h]
      BY <1>0, <2>1 DEF Placed, Becomes, Connection
    <2>3. clients' = clients /\ g \notin clients
      BY <1>3, <2>1 DEF AddClient, Placed
    <2>4. holder'[o] = g /\ \A p \in Objects : holder[p] # None => holder'[p] = holder[p]
      BY <2>1 DEF Typed
    <2>5. \A h \in Cids \ {g} : \A p \in Objects : holder[p] = h => holder'[p] = h
      BY <2>4
    <2>. QED  BY <2>2, <2>3, <2>4, <2>5, OthersPlaced
  <1>4. ASSUME NEW g \in Cids, Run(g)
        PROVE  Placed'
    <2>1. Becomes(g, [conn[g] EXCEPT !.stage = "up", !.reader = "on", !.writer = "on"])
      BY <1>4, ConnectionSteps
    <2>2. conn'[g].stage = "up" /\ conn'[g].reader = "on" /\ conn'[g].obj = conn[g].obj
      BY <1>0, <2>1 DEF Becomes, Connection
    <2>3. conn[g].stage = "slot" /\ clients' = clients \cup {g} /\ holder' = holder
      BY <1>4 DEF Run
    <2>. QED  BY <2>1, <2>2, <2>3, OthersPlaced DEF Placed, Becomes
  <1>5. ASSUME NEW g \in Cids, ReaderStops(g)
        PROVE  Placed'
    <2>1. Becomes(g, [conn[g] EXCEPT !.reader = IF g \in clients THEN "removing" ELSE "off"])
      BY <1>5, ConnectionSteps
    <2>2. conn'[g].stage = conn[g].stage /\ conn'[g].obj = conn[g].obj
      BY <1>0, <2>1 DEF Becomes, Connection
    <2>3. conn[g].reader = "on" /\ clients' = clients \ {g} /\ holder' = holder
      BY <1>5 DEF ReaderStops
    <2>. QED  BY <2>1, <2>2, <2>3, OthersPlaced DEF Placed, Becomes
  <1>6. ASSUME NEW g \in Cids, RemoveClient(g)
        PROVE  Placed'
    <2>1. Becomes(g, [conn[g] EXCEPT !.closed = TRUE, !.room = 0, !.reader = "off"])
      BY <1>6, ConnectionSteps
    <2>2. /\ conn'[g].stage = conn[g].stage /\ conn'[g].obj = conn[g].obj
          /\ conn'[g].reader = "off"
      BY <1>0, <2>1 DEF Becomes, Connection
    <2>3. conn[g].reader = "removing" /\ clients' = clients /\ holder' = holder
      BY <1>6 DEF RemoveClient
    <2>. QED  BY <2>1, <2>2, <2>3, OthersPlaced DEF Placed, Becomes
  <1>7. ASSUME NEW g \in Cids, Put(g)
        PROVE  Placed'
    <2>1. /\ conn' = conn /\ clients' = clients
          /\ conn[g].stage = "up" /\ conn[g].reader = "off"
          /\ conn[g].obj # None /\ holder[conn[g].obj] = g
          /\ holder' = [holder EXCEPT ![conn[g].obj] = None]
      BY <1>7 DEF Put
    <2>2. \A h \in Cids \ {g} : \A p \in Objects : holder[p] = h => holder'[p] = h
      BY <1>0, <2>1 DEF Typed
    <2>. QED  BY <2>1, <2>2, OthersPlaced DEF Placed
  <1>8. ASSUME NEW t \in tasks, SendPanics(t)
        PROVE  Placed'
    <2>1. /\ clients' = {}
          /\ \A h \in Cids : conn'[h].reader = "off" /\ conn'[h].stage = "away"
      BY <1>8 DEF SendPanics, Away
    <2>. QED  BY <2>1 DEF Placed
  <1>. QED
    BY <1>1, <1>2, <1>3, <1>4, <1>5, <1>6, <1>7, <1>8, OthersStand DEF Moves

\* A connection is being added, a client or being removed, one at a time.
LEMMA OneAtATime ==
    ASSUME Placed
    PROVE  /\ Adding \cap clients = {} /\ Adding \cap Removing = {}
           /\ clients \cap Removing = {}
  BY DEF Placed, Adding, Removing

\* Of the connections, those that take part in the counters are finite.
LEMMA CountsAreNumbers ==
    ASSUME Counted
    PROVE  /\ IsFiniteSet(clients \cup Removing)
           /\ Cardinality(clients \cup Removing) \in Nat
           /\ Cardinality(Adding \cup clients \cup Removing) \in Nat
  <1>1. IsFiniteSet(Adding \cup clients \cup Removing)
    BY DEF Counted
  <1>2. clients \cup Removing \in SUBSET (Adding \cup clients \cup Removing)
    OBVIOUS
  <1>3. IsFiniteSet(clients \cup Removing)
    BY <1>1, <1>2, FS_Subset
  <1>. QED  BY <1>1, <1>3, FS_CardinalityType

\* A step that moves g alone lets it in or out, as it becomes.
LEMMA OneMoves ==
    ASSUME NEW g \in Cids, \A h \in Cids \ {g} : conn'[h] = conn[h]
    PROVE  /\ Adding' = IF conn'[g].stage = "slot" THEN Adding \cup {g} ELSE Adding \ {g}
           /\ Removing' = IF conn'[g].reader = "removing" THEN Removing \cup {g}
                                                           ELSE Removing \ {g}
  <1>1. ASSUME NEW h \in Cids
        PROVE  /\ h \in Adding' <=> IF h = g THEN conn'[g].stage = "slot" ELSE h \in Adding
               /\ h \in Removing' <=> IF h = g THEN conn'[g].reader = "removing"
                                                ELSE h \in Removing
    <2>1. CASE h = g
      BY <2>1 DEF Adding, Removing
    <2>2. CASE h # g
      BY <2>2 DEF Adding, Removing
    <2>. QED  BY <2>1, <2>2
  <1>2. /\ Adding \subseteq Cids /\ Removing \subseteq Cids
        /\ Adding' \subseteq Cids /\ Removing' \subseteq Cids
    BY DEF Adding, Removing
  <1>. QED  BY <1>1, <1>2

\* Every step keeps the slots and the counter right.
LEMMA StepCounted ==
    ASSUME Typed, Placed, Counted, [Next]_vars
    PROVE  Counted'
  <1>. USE ConnectorAssumption
  <1>. DEFINE S == Adding \cup clients \cup Removing
              C == clients \cup Removing
  <1>0. /\ \A h \in Cids : conn[h] \in Connection
        /\ clients \subseteq Cids
        /\ slots \in Int /\ count \in Int
    BY DEF Typed
  <1>a. /\ IsFiniteSet(S) /\ slots = Cardinality(S)
        /\ IsFiniteSet(C) /\ count = Cardinality(C)
        /\ slots <= MaxConnections
        /\ Cardinality(S) \in Nat /\ Cardinality(C) \in Nat
    BY CountsAreNumbers DEF Counted
  <1>1. ASSUME S' = S, C' = C, slots' = slots, count' = count
        PROVE  Counted'
    BY <1>1, <1>a DEF Counted
  <1>2. CASE Stands
    <2>1. Adding' = Adding /\ Removing' = Removing
      BY <1>2 DEF Stands, Adding, Removing
    <2>. QED  BY <1>1, <1>2, <2>1 DEF Stands, members
  <1>3. ASSUME NEW g \in Cids, Check(g)
        PROVE  Counted'
    <2>1. Becomes(g, [conn[g] EXCEPT !.stage = "checked"])
      BY <1>3, ConnectionSteps
    <2>2. conn'[g].stage = "checked" /\ conn'[g].reader = conn[g].reader
      BY <1>0, <2>1 DEF Becomes, Connection
    <2>3. conn[g].stage = "away" /\ UNCHANGED members
      BY <1>3 DEF Check
    <2>4. Adding' = Adding /\ Removing' = Removing
      <3>1. g \notin Adding /\ conn'[g].stage # "slot"
        BY <2>2, <2>3 DEF Adding
      <3>2. g \in Removing <=> conn'[g].reader = "removing"
        BY <2>2 DEF Removing
      <3>3. \A k \in Cids \ {g} : conn'[k] = conn[k]
        BY <2>1 DEF Becomes
      <3>4. Adding' = Adding \ {g}
        BY <3>1, <3>3, OneMoves
      <3>5. Removing' = IF g \in Removing THEN Removing \cup {g} ELSE Removing \ {g}
        BY <3>2, <3>3, OneMoves
      <3>. QED  BY <3>1, <3>4, <3>5
    <2>. QED  BY <1>1, <2>3, <2>4 DEF members
  <1>4. ASSUME NEW g \in Cids, AddClient(g)
        PROVE  Counted'
    <2>1. PICK o \in Objects :
            /\ conn[g].stage = "checked"
            /\ \/ /\ slots < MaxConnections /\ slots' = slots + 1
                  /\ Becomes(g, [conn[g] EXCEPT !.stage = "slot", !.obj = o])
               \/ /\ slots' = slots
                  /\ Becomes(g, [conn[g] EXCEPT !.stage = "up", !.obj = o, !.closed = TRUE,
                                                !.reader = "on", !.writer = "on"])
      BY <1>4, AddClientSteps
    <2>2. clients' = clients /\ count' = count
      BY <1>4 DEF AddClient
    <2>3. conn[g].reader = "off" /\ g \notin S
      BY <1>0, <2>1 DEF Placed, Connection, Adding, Removing
    <2>4. CASE /\ slots < MaxConnections /\ slots' = slots + 1
               /\ Becomes(g, [conn[g] EXCEPT !.stage = "slot", !.obj = o])
      <3>1. conn'[g].stage = "slot" /\ conn'[g].reader = "off"
        BY <1>0, <2>3, <2>4 DEF Becomes, Connection
      <3>2. Adding' = Adding \cup {g} /\ Removing' = Removing
        BY <2>3, <2>4, <3>1, OneMoves DEF Becomes, Adding, Removing
      <3>3. S' = S \cup {g} /\ C' = C
        BY <2>2, <3>2
      <3>4. IsFiniteSet(S \cup {g}) /\ Cardinality(S \cup {g}) = Cardinality(S) + 1
        BY <1>a, <2>3, FS_AddElement
      <3>5. slots + 1 <= MaxConnections
        BY <1>0, <2>4
      <3>6. IsFiniteSet(S') /\ slots' = Cardinality(S')
        BY <1>a, <2>4, <3>3, <3>4
      <3>7. count' = Cardinality(C')
        BY <1>a, <2>2, <3>3
      <3>. QED  BY <2>4, <3>5, <3>6, <3>7 DEF Counted
    <2>5. CASE /\ slots' = slots
               /\ Becomes(g, [conn[g] EXCEPT !.stage = "up", !.obj = o, !.closed = TRUE,
                                             !.reader = "on", !.writer = "on"])
      <3>1. conn'[g].stage = "up" /\ conn'[g].reader = "on"
        BY <1>0, <2>5 DEF Becomes, Connection
      <3>2. Adding' = Adding /\ Removing' = Removing
        BY <2>1, <2>3, <2>5, <3>1, OneMoves DEF Becomes, Adding, Removing
      <3>. QED  BY <1>1, <2>2, <2>5, <3>2
    <2>. QED  BY <2>1, <2>4, <2>5
  <1>5. ASSUME NEW g \in Cids, Run(g)
        PROVE  Counted'
    <2>1. Becomes(g, [conn[g] EXCEPT !.stage = "up", !.reader = "on", !.writer = "on"])
      BY <1>5, ConnectionSteps
    <2>2. conn'[g].stage = "up" /\ conn'[g].reader = "on"
      BY <1>0, <2>1 DEF Becomes, Connection
    <2>3. /\ conn[g].stage = "slot" /\ clients' = clients \cup {g}
          /\ slots' = slots /\ count' = count + 1
      BY <1>5 DEF Run
    <2>4. conn[g].reader = "off" /\ g \in Adding /\ g \notin C
      BY <1>0, <2>3, OneAtATime DEF Placed, Connection, Adding, Removing
    <2>5. Adding' = Adding \ {g} /\ Removing' = Removing
      BY <2>1, <2>2, <2>4, OneMoves DEF Becomes, Adding, Removing
    <2>6. S' = S /\ C' = C \cup {g}
      BY <2>3, <2>4, <2>5
    <2>7. Cardinality(C \cup {g}) = Cardinality(C) + 1
      BY <1>a, <2>4, FS_AddElement
    <2>8. IsFiniteSet(S') /\ slots' = Cardinality(S') /\ count' = Cardinality(C')
      BY <1>a, <2>3, <2>6, <2>7
    <2>. QED  BY <1>a, <2>3, <2>8 DEF Counted
  <1>6. ASSUME NEW g \in Cids, ReaderStops(g)
        PROVE  Counted'
    <2>1. Becomes(g, [conn[g] EXCEPT !.reader = IF g \in clients THEN "removing" ELSE "off"])
      BY <1>6, ConnectionSteps
    <2>2. /\ conn'[g].stage = conn[g].stage
          /\ conn'[g].reader = IF g \in clients THEN "removing" ELSE "off"
      BY <1>0, <2>1 DEF Becomes, Connection
    <2>3. /\ conn[g].reader = "on" /\ clients' = clients \ {g}
          /\ slots' = slots /\ count' = count
      BY <1>6 DEF ReaderStops
    <2>4. Adding' = Adding
      BY <2>1, <2>2 DEF Becomes, Adding
    <2>5. Removing' = IF g \in clients THEN Removing \cup {g} ELSE Removing
      BY <2>1, <2>2, <2>3 DEF Becomes, Removing
    <2>6. S' = S /\ C' = C
      BY <2>3, <2>4, <2>5
    <2>. QED  BY <1>1, <2>3, <2>6
  <1>7. ASSUME NEW g \in Cids, RemoveClient(g)
        PROVE  Counted'
    <2>1. Becomes(g, [conn[g] EXCEPT !.closed = TRUE, !.room = 0, !.reader = "off"])
      BY <1>7, ConnectionSteps
    <2>2. conn'[g].stage = conn[g].stage /\ conn'[g].reader = "off"
      BY <1>0, <2>1 DEF Becomes, Connection
    <2>3. /\ conn[g].reader = "removing" /\ clients' = clients
          /\ slots' = slots - 1 /\ count' = count - 1
      BY <1>7 DEF RemoveClient
    <2>4. g \in Removing /\ g \notin clients /\ g \notin Adding
      BY <2>3, OneAtATime DEF Removing
    <2>5. Adding' = Adding /\ Removing' = Removing \ {g}
      <3>1. conn'[g].stage # "slot" /\ conn'[g].reader # "removing"
        BY <2>2, <2>4 DEF Adding
      <3>2. \A k \in Cids \ {g} : conn'[k] = conn[k]
        BY <2>1 DEF Becomes
      <3>3. Adding' = Adding \ {g} /\ Removing' = Removing \ {g}
        BY <3>1, <3>2, OneMoves
      <3>. QED  BY <2>4, <3>3
    <2>6. S' = S \ {g} /\ C' = C \ {g}
      BY <2>3, <2>4, <2>5
    <2>7. /\ IsFiniteSet(S \ {g}) /\ Cardinality(S \ {g}) = Cardinality(S) - 1
          /\ Cardinality(C \ {g}) = Cardinality(C) - 1
      BY <1>a, <2>4, FS_RemoveElement
    <2>8. IsFiniteSet(S') /\ slots' = Cardinality(S') /\ count' = Cardinality(C')
      BY <1>a, <2>3, <2>6, <2>7
    <2>9. slots' <= MaxConnections
      BY <1>0, <1>a, <2>3
    <2>. QED  BY <2>8, <2>9 DEF Counted
  <1>8. ASSUME NEW g \in Cids, Put(g)
        PROVE  Counted'
    <2>1. UNCHANGED <<conn, clients, slots, count>>
      BY <1>8 DEF Put
    <2>. QED  BY <1>1, <2>1 DEF Adding, Removing
  <1>9. ASSUME NEW t \in tasks, SendPanics(t)
        PROVE  Counted'
    <2>1. clients' = {} /\ slots' = 0 /\ count' = 0 /\ conn' = [g \in Cids |-> Away]
      BY <1>9 DEF SendPanics
    <2>2. S' = {} /\ C' = {}
      BY <2>1 DEF Away, Adding, Removing
    <2>3. IsFiniteSet(S') /\ Cardinality(S') = 0 /\ Cardinality(C') = 0
      BY <2>2, FS_EmptySet
    <2>4. 0 <= MaxConnections
      OBVIOUS
    <2>. QED  BY <2>1, <2>3, <2>4 DEF Counted
  <1>. HIDE DEF S, C
  <1>. QED
    BY <1>2, <1>3, <1>4, <1>5, <1>6, <1>7, <1>8, <1>9, OthersStand DEF Moves

-----------------------------------------------------------------------------
(* What is handled, field by field. *)

\* A message that is not a client's is dropped; another is handled here or goes
\* to the node.
LEMMA RouteSteps ==
    ASSUME Typed, NEW m \in Message, NEW by \in Workers \cup {None}, RouteEvent(m, by)
    PROVE  \/ UNCHANGED <<tasks, node, hist>>
           \/ /\ m.cid \in clients
              /\ \/ /\ tasks' = tasks \cup {[msg |-> m, obj |-> conn[m.cid].obj, by |-> by]}
                    /\ node' = node /\ hist'.mixed = hist.mixed
                 \/ /\ m.kind = "enter" /\ tasks' = tasks
                    /\ node' = node \cup {[m EXCEPT !.uid = conn[m.cid].uid]}
                    /\ hist'.mixed = IF InFlight(m.cid) = {} THEN hist.mixed
                                                             ELSE hist.mixed \cup {m.cid}
              /\ hist'.last = [hist.last EXCEPT ![m.cid] = m.n]
              /\ hist'.overtaken = IF m.n < hist.last[m.cid] THEN hist.overtaken \cup {m.cid}
                                                             ELSE hist.overtaken
              /\ hist'.spilt = hist.spilt /\ hist'.put = hist.put
              /\ hist'.stray = hist.stray /\ hist'.outlived = hist.outlived
  <1>. DEFINE g == m.cid
              over == IF m.n < hist.last[g] THEN hist.overtaken \cup {g} ELSE hist.overtaken
              seen == [hist EXCEPT !.last[g] = m.n,
                          !.overtaken = IF m.n < hist.last[g] THEN @ \cup {g} ELSE @]
  <1>1. hist \in History
    BY DEF Typed
  <1>2. seen = [hist EXCEPT !.last = [hist.last EXCEPT ![g] = m.n], !.overtaken = over]
    BY <1>1 DEF History
  <1>. HIDE DEF over
  <1>3. /\ seen.last = [hist.last EXCEPT ![g] = m.n] /\ seen.overtaken = over
        /\ seen.spilt = hist.spilt /\ seen.put = hist.put /\ seen.mixed = hist.mixed
        /\ seen.stray = hist.stray /\ seen.outlived = hist.outlived
    BY <1>1, <1>2 DEF History
  <1>4. LET mixt == [seen EXCEPT !.mixed = @ \cup {g}]
        IN /\ mixt.last = seen.last /\ mixt.overtaken = seen.overtaken
           /\ mixt.spilt = seen.spilt /\ mixt.put = seen.put
           /\ mixt.mixed = seen.mixed \cup {g}
           /\ mixt.stray = seen.stray /\ mixt.outlived = seen.outlived
    BY <1>1, <1>2 DEF History
  <1>5. \/ UNCHANGED <<tasks, node, hist>>
        \/ /\ g \in clients /\ hist' = seen /\ node' = node
           /\ tasks' = tasks \cup {[msg |-> m, obj |-> conn[g].obj, by |-> by]}
        \/ /\ g \in clients /\ m.kind = "enter" /\ tasks' = tasks
           /\ node' = node \cup {[m EXCEPT !.uid = conn[g].uid]}
           /\ hist' = IF InFlight(g) = {} THEN seen ELSE [seen EXCEPT !.mixed = @ \cup {g}]
    BY DEF RouteEvent
  <1>. HIDE DEF seen
  <1>6. CASE /\ g \in clients /\ hist' = seen /\ node' = node
             /\ tasks' = tasks \cup {[msg |-> m, obj |-> conn[g].obj, by |-> by]}
    BY <1>3, <1>6 DEF over
  <1>7. CASE /\ g \in clients /\ m.kind = "enter" /\ tasks' = tasks
           /\ node' = node \cup {[m EXCEPT !.uid = conn[g].uid]}
             /\ hist' = IF InFlight(g) = {} THEN seen ELSE [seen EXCEPT !.mixed = @ \cup {g}]
    <2>1. CASE InFlight(g) = {}
      BY <1>3, <1>7, <2>1 DEF over
    <2>2. CASE InFlight(g) # {}
      BY <1>3, <1>4, <1>7, <2>2 DEF over
    <2>. QED  BY <2>1, <2>2
  <1>. QED  BY <1>5, <1>6, <1>7

\* What the other steps write down.
LEMMA StepsWrite ==
    ASSUME Typed
    PROVE  /\ \A g \in Cids : Put(g) =>
                /\ hist'.outlived = (hist.outlived \/ Holders(conn[g].obj) # {})
                /\ hist'.stray = hist.stray
                /\ UNCHANGED <<hist.last, hist.overtaken, hist.spilt, hist.put, hist.mixed>>
           /\ \A g \in Cids : ReadMessage(g) =>
                /\ hist.spilt \subseteq hist'.spilt
                /\ UNCHANGED <<hist.last, hist.overtaken, hist.put, hist.mixed,
                               hist.stray, hist.outlived>>
           /\ \A t \in tasks : SendMessage(t) =>
                /\ hist'.stray = (hist.stray \/ t.msg.cid # Receiver(t))
                /\ UNCHANGED <<hist.last, hist.overtaken, hist.spilt, hist.put, hist.mixed,
                               hist.outlived>>
           /\ \A m \in node : NodeHandles(m) =>
                /\ hist'.put = IF m.uid = None THEN hist.put ELSE [hist.put EXCEPT ![m.cid] = m.n]
                /\ UNCHANGED <<hist.last, hist.overtaken, hist.spilt, hist.mixed,
                               hist.stray, hist.outlived>>
           /\ Lose =>
                UNCHANGED <<hist.last, hist.overtaken, hist.spilt, hist.put,
                            hist.stray, hist.outlived>>
  <1>1. hist \in History
    BY DEF Typed
  <1>2. ASSUME NEW g \in Cids, Put(g)
        PROVE  /\ hist'.outlived = (hist.outlived \/ Holders(conn[g].obj) # {})
               /\ hist'.stray = hist.stray
               /\ UNCHANGED <<hist.last, hist.overtaken, hist.spilt, hist.put, hist.mixed>>
    <2>. DEFINE out == hist.outlived \/ Holders(conn[g].obj) # {}
    <2>1. hist' = [hist EXCEPT !.outlived = out]
      BY <1>2 DEF Put
    <2>. HIDE DEF out
    <2>2. /\ hist'.outlived = out /\ hist'.stray = hist.stray
          /\ UNCHANGED <<hist.last, hist.overtaken, hist.spilt, hist.put, hist.mixed>>
      BY <1>1, <2>1 DEF History
    <2>. QED  BY <2>2 DEF out
  <1>3. ASSUME NEW g \in Cids, ReadMessage(g)
        PROVE  /\ hist.spilt \subseteq hist'.spilt
               /\ UNCHANGED <<hist.last, hist.overtaken, hist.put, hist.mixed,
                              hist.stray, hist.outlived>>
    <2>1. hist' = hist \/ hist' = [hist EXCEPT !.spilt = @ \cup {g}]
      BY <1>3 DEF ReadMessage, Dispatch
    <2>. QED  BY <1>1, <2>1 DEF History
  <1>4. ASSUME NEW t \in tasks, SendMessage(t)
        PROVE  /\ hist'.stray = (hist.stray \/ t.msg.cid # Receiver(t))
               /\ UNCHANGED <<hist.last, hist.overtaken, hist.spilt, hist.put, hist.mixed,
                              hist.outlived>>
    <2>. DEFINE str == hist.stray \/ t.msg.cid # Receiver(t)
    <2>1. hist' = [hist EXCEPT !.stray = str]
      BY <1>4 DEF SendMessage
    <2>. HIDE DEF str
    <2>2. /\ hist'.stray = str
          /\ UNCHANGED <<hist.last, hist.overtaken, hist.spilt, hist.put, hist.mixed,
                         hist.outlived>>
      BY <1>1, <2>1 DEF History
    <2>. QED  BY <2>2 DEF str
  <1>5. ASSUME NEW m \in node, NodeHandles(m)
        PROVE  /\ hist'.put = IF m.uid = None THEN hist.put ELSE [hist.put EXCEPT ![m.cid] = m.n]
               /\ UNCHANGED <<hist.last, hist.overtaken, hist.spilt, hist.mixed,
                              hist.stray, hist.outlived>>
    BY <1>1, <1>5 DEF NodeHandles, History
  <1>6. ASSUME Lose
        PROVE  UNCHANGED <<hist.last, hist.overtaken, hist.spilt, hist.put,
                           hist.stray, hist.outlived>>
    BY <1>1, <1>6 DEF Lose, History
  <1>. QED  BY <1>2, <1>3, <1>4, <1>5, <1>6

-----------------------------------------------------------------------------
(* The objects that answers hold. *)

\* Every step keeps an answer with its own connection, as long as no handler
\* outlives the connection it serves.
LEMMA StepHeld ==
    ASSUME Typed, Placed, Held, [Next]_vars
    PROVE  Held'
  <1>. USE ConnectorAssumption
  <1>0. /\ \A t \in tasks : t.obj \in Objects /\ t.msg \in Message /\ t.msg.cid \in Cids
        /\ hist.stray \in BOOLEAN /\ hist.outlived \in BOOLEAN
    BY DEF Typed, Task, Message, History
  <1>1. ASSUME tasks' = tasks, holder' = holder, UNCHANGED <<hist.stray, hist.outlived>>
        PROVE  Held'
    BY <1>1 DEF Held
  <1>2. ASSUME NEW m \in Message, NEW by \in Workers \cup {None}, RouteEvent(m, by),
               holder' = holder
        PROVE  Held'
    <2>1. CASE UNCHANGED <<tasks, node, hist>>
      BY <1>1, <1>2, <2>1
    <2>2. CASE /\ m.cid \in clients
               /\ tasks' = tasks \cup {[msg |-> m, obj |-> conn[m.cid].obj, by |-> by]}
               /\ UNCHANGED <<hist.stray, hist.outlived>>
      BY <1>2, <2>2 DEF Held, Placed, Message
    <2>3. CASE tasks' = tasks /\ UNCHANGED <<hist.stray, hist.outlived>>
      BY <1>1, <1>2, <2>3
    <2>. QED  BY <1>2, <2>1, <2>2, <2>3, RouteSteps
  <1>3. ASSUME NEW g \in Cids, AddClient(g)
        PROVE  Held'
    <2>1. PICK o \in Objects : holder[o] = None /\ holder' = [holder EXCEPT ![o] = g]
      BY <1>3 DEF AddClient
    <2>2. tasks' = tasks /\ hist' = hist
      BY <1>3 DEF AddClient, messages
    <2>3. \A p \in Objects : holder[p] # None => holder'[p] = holder[p]
      BY <2>1 DEF Typed
    <2>. QED  BY <1>0, <2>2, <2>3 DEF Held
  <1>4. ASSUME NEW g \in Cids, Put(g)
        PROVE  Held'
    <2>1. /\ tasks' = tasks /\ holder' = [holder EXCEPT ![conn[g].obj] = None]
          /\ hist'.outlived = (hist.outlived \/ Holders(conn[g].obj) # {})
          /\ hist'.stray = hist.stray
      BY <1>4, StepsWrite DEF Put, messages
    <2>2. ASSUME ~hist'.outlived, NEW t \in tasks
          PROVE  holder'[t.obj] = t.msg.cid
      <3>1. ~hist.outlived /\ t.obj # conn[g].obj
        BY <2>1, <2>2 DEF Holders
      <3>. QED  BY <1>0, <2>1, <3>1 DEF Held, Typed
    <2>. QED  BY <2>1, <2>2 DEF Held
  <1>5. ASSUME NEW w \in Workers, WorkerHandles(w)
        PROVE  Held'
    <2>1. Head(queue[w]) \in Message
      BY <1>5 DEF WorkerHandles, Typed
    <2>. QED  BY <1>2, <1>5, <2>1 DEF WorkerHandles, members
  <1>6. ASSUME NEW m \in spilled, SpilledHandles(m)
        PROVE  Held'
    <2>1. m \in Message
      BY DEF Typed
    <2>. QED  BY <1>2, <1>6, <2>1 DEF SpilledHandles, members
  <1>7. ASSUME NEW t \in tasks, SendMessage(t)
        PROVE  Held'
    <2>1. /\ tasks' = tasks \ {t} /\ holder' = holder
          /\ hist'.outlived = hist.outlived
          /\ hist'.stray = (hist.stray \/ t.msg.cid # holder[t.obj])
      BY <1>7, StepsWrite DEF SendMessage, members, Receiver
    <2>. QED  BY <2>1 DEF Held
  <1>8. ASSUME NEW t \in tasks, SendPanics(t)
        PROVE  Held'
    BY <1>8 DEF SendPanics, Held
  <1>9. ASSUME NEW m \in back, Response(m)
        PROVE  Held'
    <2>1. m \in Message
      BY DEF Typed
    <2>2. /\ holder' = holder /\ hist' = hist
          /\ \/ tasks' = tasks
             \/ /\ m.cid \in clients
                /\ tasks' = tasks \cup {[msg |-> m, obj |-> conn[m.cid].obj, by |-> None]}
      BY <1>9 DEF Response, members
    <2>. QED  BY <2>1, <2>2 DEF Held, Placed, Message
  <1>10. ASSUME NEW g \in Cids, \/ Check(g) \/ Run(g) \/ PingFails(g) \/ WriterStops(g)
                                \/ ReaderStops(g) \/ RemoveClient(g)
         PROVE  Held'
    BY <1>1, <1>10 DEF Check, Run, PingFails, WriterStops, ReaderStops, RemoveClient,
                       members, messages
  <1>11. ASSUME \/ \E g \in Cids : ReadMessage(g)
                \/ \E m \in node : NodeHandles(m)
                \/ Lose
         PROVE  Held'
    <2>1. tasks' = tasks /\ holder' = holder
      BY <1>11 DEF ReadMessage, NodeHandles, Lose, members
    <2>2. UNCHANGED <<hist.stray, hist.outlived>>
      BY <1>11, StepsWrite
    <2>. QED  BY <1>1, <2>1, <2>2
  <1>12. ASSUME \/ \E m \in back : SetSessionData(m)
                \/ Ended \/ UNCHANGED vars
         PROVE  Held'
    BY <1>1, <1>12 DEF SetSessionData, Ended, vars, members, messages
  <1>13. ASSUME NEW t \in tasks, SetUid(t)
         PROVE  Held'
    <2>1. PICK q \in Task :
            /\ q.obj = t.obj /\ q.msg.cid = t.msg.cid
            /\ tasks' = (tasks \ {t}) \cup {q}
            /\ UNCHANGED <<hist.stray, hist.outlived>>
      BY <1>13, SetUidSteps
    <2>2. holder' = holder
      BY <1>13 DEF SetUid, members
    <2>. QED  BY <2>1, <2>2 DEF Held
  <1>. QED
    BY <1>3, <1>4, <1>5, <1>6, <1>7, <1>8, <1>9, <1>10, <1>11, <1>12, <1>13 DEF Next, Up

-----------------------------------------------------------------------------
(* What a node has still to say about a session. *)

\* All that is known of h, apart from its goroutines, is as before, or h is gone.
Unsaid(h) ==
    /\ InFlight(h)' = InFlight(h) /\ Values(h)' = Values(h)
    /\ hist'.put[h] = hist.put[h]

\* A connection that nobody hears of or moves is left as it was.
LEMMA OthersAlone ==
    ASSUME Newest, NEW h \in Cids, Unsaid(h), conn'[h] = conn[h],
           h \in clients' => h \in clients, hist.mixed \subseteq hist'.mixed,
           down' = down
    PROVE  /\ h \notin hist'.mixed => Alone(h)'
           /\ ~down => Fresh(h)'
  <1>1. ~down => Fresh(h)'
    BY DEF Newest, Fresh, Unsaid
  <1>2. ASSUME h \notin hist'.mixed
        PROVE  Alone(h)'
    <2>1. Alone(h)
      BY <1>2 DEF Newest
    <2>. QED  BY <2>1 DEF Alone, Unsaid
  <1>. QED  BY <1>1, <1>2

\* A step of a connection's own goroutines says nothing about the others.
LEMMA OwnSteps ==
    ASSUME Typed, Placed, Newest, ~down, down' = down, NEW g \in Cids,
           node' = node, back' = back, hist'.put = hist.put, hist'.mixed = hist.mixed,
           \A h \in Cids \ {g} : conn'[h] = conn[h], clients' \subseteq clients \cup {g},
           g \in clients' => conn'[g].closed \/ conn'[g].room = hist.put[g]
                             \/ Values(g) # {} \/ g \in hist.mixed,
           conn'[g].uid = conn[g].uid,
           conn'[g].stage # "up" => conn[g].stage # "up" /\ conn'[g].room = 0
    PROVE  Newest'
  <1>1. \A h \in Cids : Unsaid(h)
    BY DEF Unsaid, InFlight, Values
  <1>2. ASSUME NEW h \in Cids
        PROVE  (h \notin hist'.mixed => Alone(h)') /\ Fresh(h)'
    <2>1. CASE h # g
      BY <1>1, <2>1, OthersAlone
    <2>2. CASE h = g
      <3>1. InFlight(g)' = InFlight(g) /\ Values(g)' = Values(g)
        BY <1>1 DEF Unsaid
      <3>2. Fresh(g)'
        BY <3>1 DEF Newest, Fresh
      <3>3. ASSUME g \notin hist.mixed
            PROVE  Alone(g)'
        <4>1. Alone(g)
          BY <3>3 DEF Newest
        <4>. QED  BY <3>1, <3>3, <4>1 DEF Alone
      <3>. QED  BY <2>2, <3>2, <3>3
    <2>. QED  BY <2>1, <2>2
  <1>. QED  BY <1>2 DEF Newest

\* Every step keeps the session of a connection with what the node said last.
LEMMA StepNewest ==
    ASSUME Typed, Placed, Newest, [Next]_vars
    PROVE  Newest'
  <1>. USE ConnectorAssumption
  <1>0. /\ \A h \in Cids : conn[h] \in Connection
        /\ clients \subseteq Cids
        /\ hist.put \in [Cids -> Nat] /\ hist.mixed \subseteq Cids
        /\ \A m \in node \cup back : m \in Message /\ m.cid \in Cids /\ m.n \in Nat
    BY DEF Typed, History, Message
  <1>a. \A h \in clients : conn[h].reader = "on" /\ conn[h].stage = "up"
    BY <1>0 DEF Placed
  <1>b. \A g \in clients : conn[g].closed \/ conn[g].room = hist.put[g]
                             \/ Values(g) # {} \/ g \in hist.mixed
    BY <1>0 DEF Newest, Alone
  <1>c. ~down => \A h \in Cids : conn[h].stage # "up" => conn[h].room = 0
    BY DEF Newest, Fresh
  <1>1. ASSUME NEW g \in Cids, ~down, down' = down,
               \/ Check(g) \/ AddClient(g) \/ Run(g) \/ PingFails(g) \/ WriterStops(g)
               \/ ReaderStops(g) \/ RemoveClient(g) \/ Put(g) \/ ReadMessage(g)
        PROVE  Newest'
    <2>1. /\ node' = node /\ back' = back
          /\ hist'.put = hist.put /\ hist'.mixed = hist.mixed
      <3>1. node' = node /\ back' = back /\ (hist' = hist \/ Put(g) \/ ReadMessage(g))
        BY <1>1 DEF Check, AddClient, Run, PingFails, WriterStops, ReaderStops, RemoveClient,
                    Put, ReadMessage, messages
      <3>. QED  BY <3>1, StepsWrite
    <2>2. \A h \in Cids \ {g} : conn'[h] = conn[h]
      <3>1. AddClient(g) => \A h \in Cids \ {g} : conn'[h] = conn[h]
        BY AddClientSteps DEF Becomes
      <3>2. Put(g) => \A h \in Cids \ {g} : conn'[h] = conn[h]
        BY DEF Put
      <3>. QED  BY <1>1, <3>1, <3>2, ConnectionSteps DEF Becomes
    <2>3. clients' \subseteq clients \cup {g}
      BY <1>1 DEF Check, AddClient, Run, PingFails, WriterStops, ReaderStops, RemoveClient,
                  Put, ReadMessage, members
    <2>4. /\ g \in clients' => conn'[g].closed \/ conn'[g].room = hist.put[g]
                               \/ Values(g) # {} \/ g \in hist.mixed
          /\ conn'[g].uid = conn[g].uid
          /\ conn'[g].stage # "up" => conn[g].stage # "up" /\ conn'[g].room = 0
      <3>1. CASE Check(g)
        <4>1. Becomes(g, [conn[g] EXCEPT !.stage = "checked"])
          BY <3>1, ConnectionSteps
        <4>2. conn'[g].room = conn[g].room /\ conn'[g].uid = conn[g].uid
          BY <1>0, <4>1 DEF Becomes, Connection
        <4>3. conn[g].stage = "away" /\ clients' = clients
          BY <3>1 DEF Check, members
        <4>. QED  BY <1>1, <1>a, <1>c, <4>2, <4>3
      <3>2. CASE AddClient(g)
        <4>1. PICK o \in Objects :
                /\ conn[g].stage = "checked"
                /\ \/ Becomes(g, [conn[g] EXCEPT !.stage = "slot", !.obj = o])
                   \/ Becomes(g, [conn[g] EXCEPT !.stage = "up", !.obj = o, !.closed = TRUE,
                                                 !.reader = "on", !.writer = "on"])
          BY <3>2, AddClientSteps
        <4>2. conn'[g].room = conn[g].room /\ conn'[g].uid = conn[g].uid
          BY <1>0, <4>1 DEF Becomes, Connection
        <4>3. clients' = clients
          BY <3>2 DEF AddClient
        <4>. QED  BY <1>1, <1>a, <1>c, <4>1, <4>2, <4>3
      <3>3. CASE Run(g)
        <4>1. Becomes(g, [conn[g] EXCEPT !.stage = "up", !.reader = "on", !.writer = "on"])
          BY <3>3, ConnectionSteps
        <4>2. conn'[g].room = conn[g].room /\ conn'[g].stage = "up" /\ conn'[g].uid = conn[g].uid
          BY <1>0, <4>1 DEF Becomes, Connection
        <4>3. conn[g].stage = "slot"
          BY <3>3 DEF Run
        <4>4. hist.put[g] = 0 /\ conn[g].room = 0
          BY <1>1, <4>3 DEF Newest, Fresh
        <4>. QED  BY <4>2, <4>4
      <3>4. CASE PingFails(g)
        <4>1. Becomes(g, [conn[g] EXCEPT !.closed = TRUE, !.room = 0])
          BY <3>4, ConnectionSteps
        <4>2. /\ conn'[g].closed /\ conn'[g].room = 0
              /\ conn'[g].stage = conn[g].stage /\ conn'[g].uid = conn[g].uid
          BY <1>0, <4>1 DEF Becomes, Connection
        <4>. QED  BY <4>2
      <3>5. CASE RemoveClient(g)
        <4>1. Becomes(g, [conn[g] EXCEPT !.closed = TRUE, !.room = 0, !.reader = "off"])
          BY <3>5, ConnectionSteps
        <4>2. /\ conn'[g].closed /\ conn'[g].room = 0
              /\ conn'[g].stage = conn[g].stage /\ conn'[g].uid = conn[g].uid
          BY <1>0, <4>1 DEF Becomes, Connection
        <4>. QED  BY <4>2
      <3>6. CASE WriterStops(g) \/ ReaderStops(g) \/ Put(g) \/ ReadMessage(g)
        <4>1. /\ conn'[g].room = conn[g].room /\ conn'[g].stage = conn[g].stage
              /\ conn'[g].closed = conn[g].closed /\ conn'[g].uid = conn[g].uid
          <5>1. CASE WriterStops(g)
            <6>1. Becomes(g, [conn[g] EXCEPT !.writer = "off"])
              BY <5>1, ConnectionSteps
            <6>. QED  BY <1>0, <6>1 DEF Becomes, Connection
          <5>2. CASE ReaderStops(g)
            <6>1. Becomes(g, [conn[g] EXCEPT !.reader = IF g \in clients THEN "removing"
                                                                         ELSE "off"])
              BY <5>2, ConnectionSteps
            <6>. QED  BY <1>0, <6>1 DEF Becomes, Connection
          <5>3. CASE Put(g)
            BY <5>3 DEF Put
          <5>4. CASE ReadMessage(g)
            <6>1. Becomes(g, [conn[g] EXCEPT !.asked = @ + 1])
              BY <5>4, ConnectionSteps
            <6>. QED  BY <1>0, <6>1 DEF Becomes, Connection
          <5>. QED  BY <3>6, <5>1, <5>2, <5>3, <5>4
        <4>2. clients' \subseteq clients
          BY <3>6 DEF WriterStops, ReaderStops, Put, ReadMessage, members
        <4>. QED  BY <1>1, <1>b, <1>c, <4>1, <4>2
      <3>. QED  BY <1>1, <3>1, <3>2, <3>3, <3>4, <3>5, <3>6
    <2>. QED  BY <1>1, <2>1, <2>2, <2>3, <2>4, OwnSteps
  <1>2. ASSUME conn' = conn, clients' = clients, down' = down,
               \A m \in node' : m \in node,
               NEW g \in Cids,
               \A h \in Cids \ {g} : Unsaid(h), hist.mixed \subseteq hist'.mixed,
               g \notin hist'.mixed => Alone(g)', ~down => Fresh(g)'
        PROVE  Newest'
    <2>1. ASSUME NEW h \in Cids
          PROVE  (h \notin hist'.mixed => Alone(h)') /\ (~down => Fresh(h)')
      BY <1>2, OthersAlone
    <2>. QED  BY <1>2, <2>1 DEF Newest
  <1>3. ASSUME NEW m \in Message, NEW by \in Workers \cup {None}, RouteEvent(m, by),
               conn' = conn, clients' = clients, back' = back, down' = down
        PROVE  Newest'
    <2>1. CASE UNCHANGED <<tasks, node, hist>>
      BY <1>3, <2>1 DEF Newest, Alone, Fresh, InFlight, Values
    <2>2. CASE /\ node' = node
               /\ hist'.mixed = hist.mixed /\ hist'.put = hist.put
      BY <1>3, <2>2 DEF Newest, Alone, Fresh, InFlight, Values
    <2>3. CASE /\ m.cid \in clients /\ m.kind = "enter"
               /\ node' = node \cup {[m EXCEPT !.uid = conn[m.cid].uid]}
               /\ hist'.mixed = IF InFlight(m.cid) = {} THEN hist.mixed
                                                        ELSE hist.mixed \cup {m.cid}
               /\ hist'.put = hist.put
      <3>. DEFINE g == m.cid
                  e == [m EXCEPT !.uid = conn[g].uid]
      <3>7. /\ node' = node \cup {e}
            /\ e.cid = g /\ e.kind = "enter" /\ e.uid = conn[g].uid
        BY <2>3 DEF Message
      <3>8. \A h \in Cids : Values(h)' = Values(h)
        BY <1>3 DEF Values
      <3>1. /\ hist.mixed \subseteq hist'.mixed /\ g \in Cids
            /\ g \notin hist'.mixed => InFlight(g) = {} /\ g \notin hist.mixed
        BY <1>0, <2>3
      <3>2. \A h \in Cids \ {g} : Unsaid(h)
        <4>. HIDE DEF e
        <4>. QED  BY <1>3, <2>3, <3>7, <3>8 DEF Unsaid, InFlight
      <3>. HIDE DEF e
      <3>3. Fresh(g)'
        BY <1>3, <1>a, <2>3 DEF Fresh
      <3>4. ASSUME g \notin hist'.mixed
            PROVE  Alone(g)'
        <4>1. InFlight(g) = {} /\ Alone(g)
          BY <3>1, <3>4 DEF Newest
        <4>2. InFlight(g)' = {e}
          BY <1>3, <3>7, <4>1 DEF InFlight
        <4>3. conn' = conn /\ clients' = clients /\ hist'.put = hist.put
          BY <1>3, <2>3
        <4>4. Values(g)' = Values(g) /\ e.uid = conn[g].uid
          BY <3>1, <3>7, <3>8
        <4>. HIDE DEF g
        <4>. QED  BY <4>1, <4>2, <4>3, <4>4 DEF Alone
      <3>5. \A q \in node' : q \in node \/ q.kind = "enter"
        BY <3>7
      <3>6. ASSUME NEW h \in Cids
            PROVE  (h \notin hist'.mixed => Alone(h)') /\ (~down => Fresh(h)')
        BY <1>3, <3>1, <3>2, <3>3, <3>4, OthersAlone
      <3>. QED  BY <1>3, <3>5, <3>6 DEF Newest
    <2>. QED  BY <1>3, <2>1, <2>2, <2>3, RouteSteps
  <1>4. ASSUME NEW w \in Workers, WorkerHandles(w), down' = down
        PROVE  Newest'
    <2>1. Head(queue[w]) \in Message
      BY <1>4 DEF WorkerHandles, Typed
    <2>. QED  BY <1>3, <1>4, <2>1 DEF WorkerHandles, members
  <1>5. ASSUME NEW m \in spilled, SpilledHandles(m), down' = down
        PROVE  Newest'
    <2>1. m \in Message
      BY DEF Typed
    <2>. QED  BY <1>3, <1>5, <2>1 DEF SpilledHandles, members
  <1>6. ASSUME NEW t \in tasks, SendMessage(t), down' = down
        PROVE  Newest'
    <2>1. /\ conn' = conn /\ clients' = clients /\ node' = node /\ back' = back
          /\ hist'.put = hist.put /\ hist'.mixed = hist.mixed
      BY <1>6, StepsWrite DEF SendMessage, members
    <2>. QED  BY <1>6, <2>1 DEF Newest, Alone, Fresh, InFlight, Values
  <1>7. ASSUME NEW t \in tasks, SendPanics(t)
        PROVE  Newest'
    <2>1. node' = node /\ back' = back /\ hist' = hist /\ clients' = {} /\ down'
      BY <1>7 DEF SendPanics
    <2>2. \A g \in Cids : Alone(g) => Alone(g)'
      BY <2>1 DEF Alone, InFlight, Values
    <2>. QED  BY <2>1, <2>2 DEF Newest
  <1>8. ASSUME NEW m \in node, NodeHandles(m), down' = down
        PROVE  Newest'
    <2>. DEFINE g == m.cid
                a == Msg(g, m.n, "answer", m.uid)
                v == Msg(g, m.n, "session", m.uid)
    <2>1. /\ conn' = conn /\ clients' = clients /\ node' = node \ {m}
          /\ back' = back \cup {a} \cup (IF m.uid = None THEN {} ELSE {v})
          /\ hist'.put = IF m.uid = None THEN hist.put ELSE [hist.put EXCEPT ![g] = m.n]
          /\ hist'.mixed = hist.mixed
      BY <1>8, StepsWrite DEF NodeHandles, members
    <2>2. /\ a.cid = g /\ a.kind = "answer"
          /\ v.cid = g /\ v.n = m.n /\ v.kind = "session" /\ v.uid = m.uid
      BY DEF Msg
    <2>3. g \in Cids /\ m.n \in Nat /\ m \in InFlight(g) /\ m.kind = "enter"
      BY <1>0 DEF InFlight, Newest
    <2>. HIDE DEF a, v
    <2>9. /\ \A h \in Cids \ {g} : Values(h)' = Values(h)
          /\ Values(g)' = IF m.uid = None THEN Values(g) ELSE Values(g) \cup {v}
      BY <2>1, <2>2 DEF Values
    <2>10. \A h \in Cids : InFlight(h) = {b \in node : b.cid = h} \cup Values(h)
      BY DEF InFlight, Values
    <2>11. \A h \in Cids : InFlight(h)' = {b \in node \ {m} : b.cid = h} \cup Values(h)'
      BY <2>1 DEF InFlight, Values
    <2>4. ASSUME NEW h \in Cids \ {g}
          PROVE  Unsaid(h)
      <3>3. {b \in node \ {m} : b.cid = h} = {b \in node : b.cid = h}
        BY <2>4
      <3>1. InFlight(h)' = InFlight(h)
        BY <2>9, <2>10, <2>11, <3>3
      <3>2. hist'.put[h] = hist.put[h]
        BY <1>0, <2>1, <2>3
      <3>. QED  BY <2>9, <3>1, <3>2 DEF Unsaid
    <2>5. ~down => Fresh(g)'
      BY <2>1, <2>3 DEF Fresh, Newest
    <2>6. ASSUME g \notin hist'.mixed
          PROVE  Alone(g)'
      <3>1. Alone(g)
        BY <2>1, <2>3, <2>6 DEF Newest
      <3>2. \A b \in InFlight(g) : b = m
        BY <2>3, <3>1 DEF Alone
      <3>3. Values(g) = {}
        BY <2>3, <2>10, <3>2 DEF Values
      <3>4. {b \in node \ {m} : b.cid = g} = {}
        BY <2>3, <2>10, <3>2
      <3>5. CASE m.uid = None
        <4>1. InFlight(g)' = {} /\ Values(g)' = {}
          BY <2>3, <2>9, <2>11, <3>3, <3>4, <3>5
        <4>2. hist'.put[g] = hist.put[g]
          BY <2>1, <3>5
        <4>. QED  BY <2>1, <3>1, <3>3, <4>1, <4>2 DEF Alone
      <3>6. CASE m.uid # None
        <4>1. InFlight(g)' = {v} /\ Values(g)' = {v}
          BY <2>3, <2>9, <2>11, <3>3, <3>4, <3>6
        <4>2. hist'.put[g] = m.n
          BY <1>0, <2>1, <2>3, <3>6
        <4>3. ~down => m.uid = conn[g].uid
          BY <2>3, <3>1 DEF Alone
        <4>. QED  BY <1>8, <2>1, <2>2, <4>1, <4>2, <4>3 DEF Alone
      <3>. QED  BY <3>5, <3>6
    <2>7. \A q \in node' : q \in node
      BY <2>1
    <2>8. hist.mixed \subseteq hist'.mixed
      BY <2>1
    <2>. QED  BY <1>2, <1>8, <2>1, <2>3, <2>4, <2>5, <2>6, <2>7, <2>8
  <1>9. ASSUME NEW m \in back, Response(m), down' = down
        PROVE  Newest'
    <2>1. /\ conn' = conn /\ clients' = clients /\ node' = node /\ hist' = hist
          /\ back' = back \ {m} /\ m.kind = "answer"
      BY <1>9 DEF Response, members
    <2>2. \A h \in Cids : InFlight(h)' = InFlight(h) /\ Values(h)' = Values(h)
      BY <2>1 DEF InFlight, Values
    <2>. QED  BY <1>9, <2>1, <2>2 DEF Newest, Alone, Fresh
  <1>10. ASSUME NEW m \in back, SetSessionData(m), ~down, down' = down
         PROVE  Newest'
    <2>. DEFINE g == m.cid
    <2>1. /\ clients' = clients /\ node' = node /\ hist' = hist
          /\ back' = back \ {m} /\ m.kind = "session"
          /\ conn' = IF g \in clients /\ conn[g].uid = m.uid
                     THEN [conn EXCEPT ![g].room = m.n] ELSE conn
      BY <1>10 DEF SetSessionData, members
    <2>2. g \in Cids /\ m.n \in Nat /\ m \in InFlight(g)
      BY <1>0, <2>1 DEF InFlight
    <2>3. /\ \A h \in Cids \ {g} : conn'[h] = conn[h]
          /\ g \in clients /\ conn[g].uid = m.uid => conn'[g].room = m.n
          /\ conn'[g].stage = conn[g].stage
      BY <1>0, <2>1, <2>2 DEF Typed, Connection
    <2>4. \A h \in Cids \ {g} : Unsaid(h)
      BY <2>1 DEF Unsaid, InFlight, Values
    <2>5. ~down => Fresh(g)'
      BY <2>2, <2>3 DEF Newest, Fresh
    <2>6. ASSUME g \notin hist.mixed
          PROVE  Alone(g)'
      <3>1. Alone(g)
        BY <2>2, <2>6 DEF Newest
      <3>2. (\A b \in InFlight(g) : b = m) /\ m.n = hist.put[g] /\ m.uid = conn[g].uid
        <4>1. m \in Values(g)
          BY <2>1 DEF Values
        <4>. QED  BY <1>10, <2>2, <3>1, <4>1 DEF Alone
      <3>3. InFlight(g)' = {} /\ Values(g)' = {}
        <4>1. m \notin node
          BY <2>1 DEF Newest
        <4>2. \A b \in node : b.cid # g
          BY <3>2, <4>1 DEF InFlight
        <4>3. \A b \in back : b.cid = g /\ b.kind = "session" => b = m
          BY <3>2 DEF InFlight
        <4>. QED  BY <2>1, <4>2, <4>3 DEF InFlight, Values
      <3>. QED  BY <1>10, <2>1, <2>3, <3>1, <3>2, <3>3 DEF Alone
    <2>7. ASSUME NEW h \in Cids
          PROVE  (h \notin hist'.mixed => Alone(h)') /\ (~down => Fresh(h)')
      <3>1. CASE h = g
        BY <2>1, <2>5, <2>6, <3>1
      <3>2. CASE h # g
        BY <1>10, <2>1, <2>3, <2>4, <3>2, OthersAlone
      <3>. QED  BY <3>1, <3>2
    <2>. QED  BY <1>10, <2>1, <2>7 DEF Newest
  <1>11. ASSUME Lose, down' = down
         PROVE  Newest'
    <2>1. PICK m \in node \cup back :
            /\ node' = node \ {m} /\ back' = back \ {m}
            /\ hist' = [hist EXCEPT !.lost = @ + 1, !.mixed = @ \cup {m.cid}]
      BY <1>11 DEF Lose
    <2>. DEFINE g == m.cid
    <2>2. conn' = conn /\ clients' = clients /\ hist'.put = hist.put
      BY <1>11, StepsWrite DEF Lose, members
    <2>3. g \in Cids /\ hist'.mixed = hist.mixed \cup {g}
      BY <1>0, <2>1 DEF Typed, History
    <2>4. \A h \in Cids \ {g} : Unsaid(h)
      BY <2>1, <2>2 DEF Unsaid, InFlight, Values
    <2>5. InFlight(g)' \subseteq InFlight(g)
      BY <2>1 DEF InFlight
    <2>6. ~down => Fresh(g)'
      BY <2>2, <2>3, <2>5 DEF Newest, Fresh
    <2>7. \A q \in node' : q \in node
      BY <2>1
    <2>. QED  BY <1>2, <1>11, <2>2, <2>3, <2>4, <2>6, <2>7
  <1>12. ASSUME UNCHANGED vars \/ Ended
         PROVE  Newest'
    <2>1. UNCHANGED <<conn, clients, node, back, down, hist>>
      BY <1>12 DEF vars, Ended, members, messages
    <2>2. ASSUME NEW g \in Cids
          PROVE  /\ Alone(g)' <=> Alone(g)
                 /\ Fresh(g)' <=> Fresh(g)
      BY <2>1 DEF Alone, Fresh, InFlight, Values
    <2>. QED  BY <2>1, <2>2 DEF Newest
  <1>13. ASSUME NEW t \in tasks, SetUid(t), down' = down
         PROVE  Newest'
    <2>. DEFINE g == t.msg.cid
    <2>1. PICK u \in Uids :
            /\ g \in Cids /\ Becomes(g, [conn[g] EXCEPT !.uid = u])
            /\ hist'.put = hist.put
            /\ hist'.mixed = IF u = conn[g].uid \/ InFlight(g) = {}
                             THEN hist.mixed ELSE hist.mixed \cup {g}
      BY <1>13, SetUidSteps
    <2>2. node' = node /\ back' = back /\ clients' = clients
      BY <1>13 DEF SetUid, members
    <2>. HIDE DEF g
    <2>3. /\ \A h \in Cids \ {g} : conn'[h] = conn[h]
          /\ conn'[g].uid = u /\ conn'[g].stage = conn[g].stage
          /\ conn'[g].room = conn[g].room /\ conn'[g].closed = conn[g].closed
      BY <1>0, <2>1 DEF Becomes, Connection
    <2>4. \A h \in Cids : Unsaid(h)
      BY <2>1, <2>2 DEF Unsaid, InFlight, Values
    <2>5. ~down => Fresh(g)'
      BY <2>1, <2>3, <2>4 DEF Newest, Fresh, Unsaid
    <2>6. ASSUME g \notin hist'.mixed
          PROVE  Alone(g)'
      <3>1. Alone(g) /\ (u = conn[g].uid \/ InFlight(g) = {})
        BY <2>1, <2>6 DEF Newest
      <3>2. ~down' => \A m \in InFlight(g)' : m.uid = conn'[g].uid
        BY <1>13, <2>1, <2>3, <2>4, <3>1 DEF Alone, Unsaid
      <3>. QED  BY <2>1, <2>2, <2>3, <2>4, <3>1, <3>2 DEF Alone, Unsaid
    <2>7. ASSUME NEW h \in Cids
          PROVE  (h \notin hist'.mixed => Alone(h)') /\ (~down => Fresh(h)')
      <3>1. CASE h = g
        BY <2>5, <2>6, <3>1
      <3>2. CASE h # g
        <4>1. hist.mixed \subseteq hist'.mixed
          BY <2>1
        <4>. QED  BY <1>13, <2>2, <2>3, <2>4, <3>2, <4>1, OthersAlone
      <3>. QED  BY <3>1, <3>2
    <2>. QED  BY <1>13, <2>2, <2>7 DEF Newest
  <1>. QED
    BY <1>1, <1>13, <1>4, <1>5, <1>6, <1>7, <1>8, <1>9, <1>10, <1>11, <1>12 DEF Next, Up

-----------------------------------------------------------------------------
(* The order of messages. *)

\* Nothing of h is added anywhere, and what was handled and asked is as before.
LEMMA OthersInOrder ==
    ASSUME NEW h \in Cids, InOrder(h),
           \A m \in spilled' : m.cid = h => m \in spilled,
           queue' = queue, hist'.last[h] = hist.last[h],
           conn'[h].asked = conn[h].asked, down' = down
    PROVE  InOrder(h)'
  BY DEF InOrder

\* Only a message that is read is counted as asked.
LEMMA AskedKept ==
    ASSUME Typed,
           \/ \E g \in Cids : \/ Check(g) \/ AddClient(g) \/ Run(g) \/ PingFails(g)
                              \/ WriterStops(g) \/ ReaderStops(g) \/ RemoveClient(g) \/ Put(g)
           \/ \E t \in tasks : SetUid(t) \/ SendMessage(t)
           \/ \E m \in node : NodeHandles(m)
           \/ \E m \in back : Response(m) \/ SetSessionData(m)
           \/ Lose \/ Ended \/ UNCHANGED vars
    PROVE  /\ \A h \in Cids : conn'[h].asked = conn[h].asked
           /\ queue' = queue /\ spilled' = spilled
           /\ hist'.last = hist.last /\ hist'.overtaken = hist.overtaken
           /\ hist'.spilt = hist.spilt
  <1>0. \A h \in Cids : conn[h] \in Connection
    BY DEF Typed
  <1>1. ASSUME NEW g \in Cids, \/ Check(g) \/ AddClient(g) \/ Run(g) \/ PingFails(g)
                               \/ WriterStops(g) \/ ReaderStops(g) \/ RemoveClient(g)
        PROVE  \A h \in Cids : conn'[h].asked = conn[h].asked
    <2>1. PICK r \in Connection : Becomes(g, r) /\ r.asked = conn[g].asked
      <3>1. CASE Check(g)
        <4>1. Becomes(g, [conn[g] EXCEPT !.stage = "checked"])
          BY <3>1, ConnectionSteps
        <4>. QED  BY <1>0, <4>1 DEF Becomes, Connection
      <3>2. CASE AddClient(g)
        <4>1. PICK o \in Objects :
                \/ Becomes(g, [conn[g] EXCEPT !.stage = "slot", !.obj = o])
                \/ Becomes(g, [conn[g] EXCEPT !.stage = "up", !.obj = o, !.closed = TRUE,
                                              !.reader = "on", !.writer = "on"])
          BY <3>2, AddClientSteps
        <4>. QED  BY <1>0, <4>1 DEF Becomes, Connection
      <3>3. CASE Run(g)
        <4>1. Becomes(g, [conn[g] EXCEPT !.stage = "up", !.reader = "on", !.writer = "on"])
          BY <3>3, ConnectionSteps
        <4>. QED  BY <1>0, <4>1 DEF Becomes, Connection
      <3>4. CASE PingFails(g)
        <4>1. Becomes(g, [conn[g] EXCEPT !.closed = TRUE, !.room = 0])
          BY <3>4, ConnectionSteps
        <4>. QED  BY <1>0, <4>1 DEF Becomes, Connection
      <3>5. CASE WriterStops(g)
        <4>1. Becomes(g, [conn[g] EXCEPT !.writer = "off"])
          BY <3>5, ConnectionSteps
        <4>. QED  BY <1>0, <4>1 DEF Becomes, Connection
      <3>6. CASE ReaderStops(g)
        <4>1. Becomes(g, [conn[g] EXCEPT !.reader = IF g \in clients THEN "removing" ELSE "off"])
          BY <3>6, ConnectionSteps
        <4>. QED  BY <1>0, <4>1 DEF Becomes, Connection
      <3>7. CASE RemoveClient(g)
        <4>1. Becomes(g, [conn[g] EXCEPT !.closed = TRUE, !.room = 0, !.reader = "off"])
          BY <3>7, ConnectionSteps
        <4>. QED  BY <1>0, <4>1 DEF Becomes, Connection
      <3>. QED  BY <1>1, <3>1, <3>2, <3>3, <3>4, <3>5, <3>6, <3>7
    <2>. QED  BY <2>1 DEF Becomes
  <1>2. ASSUME NEW m \in back, SetSessionData(m)
        PROVE  \A h \in Cids : conn'[h].asked = conn[h].asked
    <2>1. m.cid \in Cids /\ m.n \in Nat
      BY DEF Typed, Message
    <2>2. conn' = conn \/ conn' = [conn EXCEPT ![m.cid] = [conn[m.cid] EXCEPT !.room = m.n]]
      BY <1>2 DEF SetSessionData, Typed
    <2>3. [conn[m.cid] EXCEPT !.room = m.n].asked = conn[m.cid].asked
      BY <1>0, <2>1 DEF Connection
    <2>. QED  BY <2>1, <2>2, <2>3 DEF Typed
  <1>7. ASSUME NEW t \in tasks, SetUid(t)
        PROVE  \A h \in Cids : conn'[h].asked = conn[h].asked
    <2>1. PICK u \in Uids :
            t.msg.cid \in Cids /\ Becomes(t.msg.cid, [conn[t.msg.cid] EXCEPT !.uid = u])
      BY <1>7, SetUidSteps
    <2>. QED  BY <1>0, <2>1 DEF Becomes, Connection
  <1>3. ASSUME \/ \E g \in Cids : Put(g)
               \/ \E t \in tasks : SendMessage(t)
               \/ \E m \in node : NodeHandles(m)
               \/ \E m \in back : Response(m)
               \/ Lose \/ Ended \/ UNCHANGED vars
        PROVE  conn' = conn
    BY <1>3 DEF Put, SendMessage, NodeHandles, Response, Lose, Ended, vars
  <1>4. queue' = queue /\ spilled' = spilled
    BY DEF Check, AddClient, Run, PingFails, WriterStops, ReaderStops, RemoveClient, Put,
           SetUid, SendMessage, NodeHandles, Response, SetSessionData, Lose, Ended, vars, messages
  <1>5. /\ hist'.last = hist.last /\ hist'.overtaken = hist.overtaken
        /\ hist'.spilt = hist.spilt
    <2>1. \/ hist' = hist
          \/ \E g \in Cids : Put(g)
          \/ \E t \in tasks : SetUid(t) \/ SendMessage(t)
          \/ \E m \in node : NodeHandles(m)
          \/ Lose
      BY DEF Check, AddClient, Run, PingFails, WriterStops, ReaderStops, RemoveClient,
             Response, SetSessionData, Ended, vars
    <2>. QED  BY <2>1, StepsWrite, SetUidSteps
  <1>6. \A h \in Cids : conn'[h].asked = conn[h].asked
    BY <1>1, <1>2, <1>3, <1>7
  <1>. QED  BY <1>4, <1>5, <1>6

\* A message that a worker takes was read before every other of its connection
\* that waits, and after the one that was handled last.
LEMMA WorkerOrdered ==
    ASSUME Typed, Ordered, NEW w \in Workers, WorkerHandles(w), ~down, down' = down
    PROVE  Ordered'
  <1>. DEFINE q == queue[w]
              m == Head(queue[w])
  <1>1. /\ q \in Seq(Message) /\ q # <<>> /\ m = q[1] /\ m \in Message /\ m.cid \in Cids
        /\ Len(q) \in Nat /\ 1 \in 1 .. Len(q)
        /\ Len(Tail(q)) = Len(q) - 1
        /\ \A i \in 1 .. (Len(q) - 1) : Tail(q)[i] = q[i + 1]
    <2>1. q \in Seq(Message) /\ q # <<>> /\ m = Head(q)
      BY DEF WorkerHandles, Typed
    <2>. HIDE DEF q, m
    <2>2. /\ Len(q) \in Nat /\ 1 \in 1 .. Len(q) /\ m = q[1]
          /\ Len(Tail(q)) = Len(q) - 1
      BY <2>1
    <2>3. m \in Message
      BY <2>1, <2>2
    <2>4. \A i \in 1 .. (Len(q) - 1) : Tail(q)[i] = q[i + 1]
      BY <2>1
    <2>. QED  BY <2>1, <2>2, <2>3, <2>4 DEF Message
  <1>2. /\ queue' = [queue EXCEPT ![w] = Tail(q)] /\ spilled' = spilled /\ conn' = conn
        /\ RouteEvent(m, w)
    BY DEF WorkerHandles
  <1>3. /\ hist'.spilt = hist.spilt
        /\ \A h \in Cids : h # m.cid => hist'.last[h] = hist.last[h]
        /\ hist'.last[m.cid] \in {hist.last[m.cid], m.n}
        /\ \/ hist'.overtaken = hist.overtaken
           \/ m.n < hist.last[m.cid] /\ hist'.overtaken = hist.overtaken \cup {m.cid}
    <2>1. hist.last \in [Cids -> Nat]
      BY DEF Typed, History
    <2>2. CASE hist' = hist
      BY <2>2
    <2>3. CASE /\ hist'.last = [hist.last EXCEPT ![m.cid] = m.n]
               /\ hist'.overtaken = IF m.n < hist.last[m.cid] THEN hist.overtaken \cup {m.cid}
                                                              ELSE hist.overtaken
               /\ hist'.spilt = hist.spilt
      BY <1>1, <2>1, <2>3
    <2>. HIDE DEF m
    <2>. QED  BY <1>1, <1>2, <2>2, <2>3, RouteSteps
  <1>. HIDE DEF q, m
  <1>4. \A v \in Workers : v # w => queue'[v] = queue[v]
    BY <1>2 DEF Typed
  <1>5. queue'[w] = Tail(q)
    BY <1>2 DEF Typed
  <1>6. \A h \in Cids \ hist.spilt : InOrder(h)
    BY DEF Ordered
  <1>7. m.cid \notin hist.spilt => /\ hist.last[m.cid] < m.n /\ m.n <= conn[m.cid].asked
                                   /\ w = WorkerOf[m.cid]
    BY <1>1, <1>6 DEF InOrder, q
  <1>8. hist'.overtaken \subseteq hist'.spilt
    <2>1. hist.last[m.cid] \in Nat /\ m.n \in Nat
      BY <1>1 DEF Typed, History, Message
    <2>. QED  BY <1>3, <1>7, <2>1 DEF Ordered
  <1>9. ASSUME NEW h \in Cids \ hist.spilt
        PROVE  InOrder(h)'
    <2>1. InOrder(h)
      BY <1>6
    <2>2. ASSUME NEW v \in Workers, NEW i \in 1 .. Len(queue'[v]), queue'[v][i].cid = h
          PROVE  /\ v = WorkerOf[h]
                 /\ hist'.last[h] < queue'[v][i].n /\ queue'[v][i].n <= conn[h].asked
                 /\ \A j \in 1 .. (i - 1) :
                       queue'[v][j].cid = h => queue'[v][j].n < queue'[v][i].n
      <3>1. CASE v # w
        <4>1. queue'[v] = queue[v]
          BY <1>4, <3>1
        <4>2. /\ v = WorkerOf[h]
              /\ hist.last[h] < queue[v][i].n /\ queue[v][i].n <= conn[h].asked
              /\ \A j \in 1 .. (i - 1) : queue[v][j].cid = h => queue[v][j].n < queue[v][i].n
          BY <2>1, <2>2, <4>1 DEF InOrder
        <4>3. h # m.cid
          BY <1>7, <3>1, <4>2
        <4>. QED  BY <1>3, <4>1, <4>2, <4>3
      <3>2. CASE v = w
        <4>1. i + 1 \in 1 .. Len(q) /\ queue'[v][i] = q[i + 1] /\ i \in 1 .. (Len(q) - 1)
          BY <1>1, <1>5, <2>2, <3>2
        <4>2. /\ w = WorkerOf[h]
              /\ hist.last[h] < q[i + 1].n /\ q[i + 1].n <= conn[h].asked
              /\ \A j \in 1 .. i : q[j].cid = h => q[j].n < q[i + 1].n
          <5>1. q[i + 1].cid = h
            BY <2>2, <4>1
          <5>. QED  BY <2>1, <4>1, <5>1 DEF InOrder, q
        <4>3. \A j \in 1 .. (i - 1) : queue'[v][j] = q[j + 1] /\ j + 1 \in 1 .. i
          BY <1>1, <1>5, <3>2, <4>1
        <4>4. hist'.last[h] < q[i + 1].n
          <5>1. CASE h # m.cid
            BY <1>3, <4>2, <5>1
          <5>2. CASE h = m.cid
            <6>1. m.n < q[i + 1].n
              <7>1. 1 \in 1 .. i
                BY <4>1
              <7>. QED  BY <1>1, <4>2, <5>2, <7>1
            <6>. QED  BY <1>3, <4>2, <5>2, <6>1
          <5>. QED  BY <5>1, <5>2
        <4>. QED  BY <3>2, <4>1, <4>2, <4>3, <4>4
      <3>. QED  BY <3>1, <3>2
    <2>3. hist'.last[h] <= conn[h].asked
      BY <1>3, <1>7, <2>1 DEF InOrder
    <2>. QED  BY <1>2, <2>1, <2>2, <2>3 DEF InOrder
  <1>. QED  BY <1>3, <1>8, <1>9 DEF Ordered

\* What was spilled is of a connection that is known to have spilled.
LEMMA SpilledOrdered ==
    ASSUME Typed, Ordered, NEW m \in spilled, SpilledHandles(m), down' = down
    PROVE  Ordered'
  <1>1. m \in Message /\ m.cid \in Cids
    BY DEF Typed, Message
  <1>2. m.cid \in hist.spilt
    BY <1>1 DEF Ordered, InOrder
  <1>3. queue' = queue /\ spilled' = spilled \ {m} /\ conn' = conn /\ RouteEvent(m, None)
    BY DEF SpilledHandles
  <1>4. /\ hist'.spilt = hist.spilt
        /\ \A h \in Cids : h # m.cid => hist'.last[h] = hist.last[h]
        /\ hist'.overtaken \subseteq hist.overtaken \cup {m.cid}
    <2>1. hist.last \in [Cids -> Nat]
      BY DEF Typed, History
    <2>2. CASE hist' = hist
      BY <2>2
    <2>3. CASE /\ hist'.last = [hist.last EXCEPT ![m.cid] = m.n]
               /\ hist'.overtaken = IF m.n < hist.last[m.cid] THEN hist.overtaken \cup {m.cid}
                                                              ELSE hist.overtaken
               /\ hist'.spilt = hist.spilt
      BY <1>1, <2>1, <2>3
    <2>. QED  BY <1>1, <1>3, <2>2, <2>3, RouteSteps
  <1>5. ASSUME NEW h \in Cids \ hist'.spilt
        PROVE  InOrder(h)'
    <2>1. h # m.cid /\ InOrder(h)
      BY <1>2, <1>4 DEF Ordered
    <2>. QED  BY <1>3, <1>4, <2>1, OthersInOrder
  <1>. QED  BY <1>2, <1>4, <1>5 DEF Ordered

\* A message is read after every other of its connection that waits or was
\* handled, and waits behind them.
LEMMA ReadOrdered ==
    ASSUME Typed, Ordered, NEW g \in Cids, ReadMessage(g), ~down, down' = down
    PROVE  Ordered'
  <1>. USE ConnectorAssumption
  <1>1. conn[g] \in Connection /\ conn[g].asked \in Nat
    BY DEF Typed, Connection
  <1>2. /\ conn'[g].asked = conn[g].asked + 1
        /\ \A h \in Cids \ {g} : conn'[h] = conn[h]
    <2>1. Becomes(g, [conn[g] EXCEPT !.asked = @ + 1])
      BY ConnectionSteps
    <2>. QED  BY <1>1, <2>1 DEF Becomes, Connection
  <1>3. PICK m \in Message :
          /\ m.cid = g /\ m.n = conn[g].asked + 1
          /\ Dispatch(g, m, WorkerOf[g])
    <2>1. PICK m \in Said(g) : Dispatch(g, m, WorkerOf[g])
      BY DEF ReadMessage
    <2>. QED  BY <2>1, SaidIs
  <1>4. UNCHANGED <<hist.last, hist.overtaken>> /\ hist.spilt \subseteq hist'.spilt
    BY StepsWrite
  <1>5. WorkerOf[g] \in Workers
    OBVIOUS
  <1>6. ASSUME NEW h \in Cids \ hist'.spilt, h # g
        PROVE  /\ InOrder(h)
               /\ conn'[h].asked = conn[h].asked
               /\ hist'.last[h] = hist.last[h]
    BY <1>2, <1>4, <1>6 DEF Ordered
  <1>7. CASE spilled' = spilled \cup {m} /\ hist' = [hist EXCEPT !.spilt = @ \cup {g}] /\ queue' = queue
    <2>1. g \in hist'.spilt
      BY <1>7 DEF Typed, History
    <2>2. ASSUME NEW h \in Cids \ hist'.spilt
          PROVE  InOrder(h)'
      BY <1>3, <1>6, <1>7, <2>1, OthersInOrder
    <2>. QED  BY <1>4, <2>2 DEF Ordered
  <1>8. CASE /\ queue' = [queue EXCEPT ![WorkerOf[g]] = Append(@, m)]
             /\ spilled' = spilled /\ hist' = hist
    <2>. DEFINE w == WorkerOf[g]
                q == queue[w]
    <2>1. q \in Seq(Message) /\ Len(q) \in Nat
      BY <1>5 DEF Typed
    <2>2. queue'[w] = Append(q, m) /\ \A v \in Workers : v # w => queue'[v] = queue[v]
      BY <1>5, <1>8 DEF Typed
    <2>. HIDE DEF q
    <2>3. /\ Len(queue'[w]) = Len(q) + 1 /\ queue'[w][Len(q) + 1] = m
          /\ \A i \in 1 .. Len(q) : queue'[w][i] = q[i]
      BY <2>1, <2>2
    <2>4. ASSUME NEW h \in Cids \ hist.spilt
          PROVE  InOrder(h)'
      <3>1. InOrder(h)
        BY DEF Ordered
      <3>2. /\ conn[h].asked \in Nat /\ hist.last[h] \in Nat
            /\ conn'[h].asked \in Nat /\ conn[h].asked <= conn'[h].asked
        <4>1. conn[h] \in Connection /\ hist.last[h] \in Nat
          BY DEF Typed, History
        <4>2. conn[h].asked \in Nat
          BY <4>1 DEF Connection
        <4>3. conn'[h].asked = conn[h].asked \/ conn'[h].asked = conn[h].asked + 1
          BY <1>2
        <4>. QED  BY <4>1, <4>2, <4>3
      <3>3. ASSUME NEW v \in Workers, NEW i \in 1 .. Len(queue'[v]), queue'[v][i].cid = h
            PROVE  /\ v = WorkerOf[h]
                   /\ hist.last[h] < queue'[v][i].n /\ queue'[v][i].n <= conn'[h].asked
                   /\ \A j \in 1 .. (i - 1) :
                         queue'[v][j].cid = h => queue'[v][j].n < queue'[v][i].n
        <4>1. CASE v # w
          <5>1. queue'[v] = queue[v] /\ queue[v] \in Seq(Message)
            BY <2>2, <4>1 DEF Typed
          <5>2. queue[v][i] \in Message
            BY <3>3, <5>1
          <5>3. /\ v = WorkerOf[h]
                /\ hist.last[h] < queue[v][i].n /\ queue[v][i].n <= conn[h].asked
                /\ \A j \in 1 .. (i - 1) : queue[v][j].cid = h => queue[v][j].n < queue[v][i].n
            BY <3>1, <3>3, <5>1 DEF InOrder
          <5>4. queue[v][i].n \in Nat
            BY <5>2 DEF Message
          <5>. QED  BY <3>2, <5>1, <5>3, <5>4
        <4>2. CASE v = w /\ i # Len(q) + 1
          <5>1. i \in 1 .. Len(q) /\ queue'[w][i] = q[i]
            BY <2>1, <2>3, <3>3, <4>2
          <5>2. q[i].n \in Nat
            <6>1. q[i] \in Message
              BY <2>1, <5>1
            <6>. QED  BY <6>1 DEF Message
          <5>3. /\ w = WorkerOf[h] /\ hist.last[h] < q[i].n /\ q[i].n <= conn[h].asked
                /\ \A j \in 1 .. (i - 1) : q[j].cid = h => q[j].n < q[i].n
            BY <1>5, <3>1, <3>3, <4>2, <5>1 DEF InOrder, q
          <5>4. ASSUME NEW j \in 1 .. (i - 1)
                PROVE  queue'[w][j] = q[j]
            <6>1. j \in 1 .. Len(q)
              BY <2>1, <5>1
            <6>. QED  BY <2>3, <6>1
          <5>5. queue'[v][i].n <= conn'[h].asked
            BY <3>2, <4>2, <5>1, <5>2, <5>3
          <5>6. \A j \in 1 .. (i - 1) : queue'[v][j].cid = h => queue'[v][j].n < queue'[v][i].n
            BY <4>2, <5>1, <5>3, <5>4
          <5>. QED  BY <4>2, <5>1, <5>3, <5>5, <5>6
        <4>3. CASE v = w /\ i = Len(q) + 1
          <5>1. h = g /\ queue'[v][i] = m
            BY <1>3, <2>3, <3>3, <4>3
          <5>2. hist.last[g] <= conn[g].asked
            BY <3>1, <5>1 DEF InOrder
          <5>3. ASSUME NEW j \in 1 .. (i - 1), queue'[v][j].cid = g
                PROVE  queue'[v][j].n < m.n
            <6>1. j \in 1 .. Len(q) /\ queue'[v][j] = q[j]
              BY <2>1, <2>3, <4>3, <5>3
            <6>2. q[j].n <= conn[g].asked
              BY <1>5, <3>1, <5>1, <5>3, <6>1 DEF InOrder, q
            <6>3. q[j].n \in Nat
              <7>1. q[j] \in Message
                BY <2>1, <6>1
              <7>. QED  BY <7>1 DEF Message
            <6>. QED  BY <1>1, <1>3, <6>1, <6>2, <6>3
          <5>. QED  BY <1>1, <1>2, <1>3, <3>2, <4>3, <5>1, <5>2, <5>3
        <4>. QED  BY <4>1, <4>2, <4>3
      <3>4. hist.last[h] <= conn'[h].asked
        BY <1>2, <3>1, <3>2 DEF InOrder
      <3>. QED  BY <1>8, <3>1, <3>3, <3>4 DEF InOrder
    <2>. QED  BY <1>8, <2>4 DEF Ordered
  <1>. QED  BY <1>3, <1>7, <1>8 DEF Dispatch

\* Every step keeps the messages of a connection in their order.
LEMMA StepOrdered ==
    ASSUME Typed, Ordered, [Next]_vars
    PROVE  Ordered'
  <1>1. ASSUME NEW w \in Workers, Up(WorkerHandles(w))
        PROVE  Ordered'
    BY <1>1, WorkerOrdered DEF Up
  <1>2. ASSUME NEW m \in spilled, Up(SpilledHandles(m))
        PROVE  Ordered'
    BY <1>2, SpilledOrdered DEF Up
  <1>3. ASSUME NEW g \in Cids, Up(ReadMessage(g))
        PROVE  Ordered'
    BY <1>3, ReadOrdered DEF Up
  <1>4. ASSUME NEW t \in tasks, SendPanics(t)
        PROVE  Ordered'
    <2>1. /\ queue' = [w \in Workers |-> <<>>] /\ spilled' = {} /\ hist' = hist /\ down'
      BY <1>4 DEF SendPanics
    <2>2. \A w \in Workers : Len(queue'[w]) = 0
      BY <2>1
    <2>3. \A g \in Cids : InOrder(g)'
      BY <2>1, <2>2 DEF InOrder
    <2>. QED  BY <2>1, <2>3 DEF Ordered
  <1>5. ASSUME down' = down,
               \/ \E g \in Cids : \/ Check(g) \/ AddClient(g) \/ Run(g) \/ PingFails(g)
                                  \/ WriterStops(g) \/ ReaderStops(g) \/ RemoveClient(g) \/ Put(g)
               \/ \E t \in tasks : SetUid(t) \/ SendMessage(t)
               \/ \E m \in node : NodeHandles(m)
               \/ \E m \in back : Response(m) \/ SetSessionData(m)
               \/ Lose \/ Ended \/ UNCHANGED vars
        PROVE  Ordered'
    <2>1. /\ \A h \in Cids : conn'[h].asked = conn[h].asked
          /\ queue' = queue /\ spilled' = spilled
          /\ hist'.last = hist.last /\ hist'.overtaken = hist.overtaken
          /\ hist'.spilt = hist.spilt
      BY <1>5, AskedKept
    <2>2. \A h \in Cids \ hist.spilt : InOrder(h)'
      BY <1>5, <2>1, OthersInOrder DEF Ordered
    <2>. QED  BY <2>1, <2>2 DEF Ordered
  <1>6. CASE UNCHANGED vars \/ Ended
    BY <1>5, <1>6 DEF vars, Ended
  <1>. QED  BY <1>1, <1>2, <1>3, <1>4, <1>5, <1>6 DEF Next, Up

-----------------------------------------------------------------------------
(* The theorems. *)

\* At the start no one is connected.
LEMMA InitConnInv ==
    ASSUME Init
    PROVE  ConnInv
  <1>. USE ConnectorAssumption
  <1>1. Away \in Connection
    BY DEF Away, Connection
  <1>2. Typed
    <2>1. conn \in [Cids -> Connection] /\ holder \in [Objects -> Cids \cup {None}]
      BY <1>1 DEF Init
    <2>2. <<>> \in Seq(Message)
      OBVIOUS
    <2>3. queue \in [Workers -> Seq(Message)]
      BY <2>2 DEF Init
    <2>4. hist \in History
      BY DEF Init, History
    <2>5. /\ clients = {} /\ slots = 0 /\ count = 0 /\ spilled = {} /\ tasks = {}
          /\ node = {} /\ back = {} /\ down = FALSE
      BY DEF Init
    <2>6. /\ clients \in SUBSET Cids /\ spilled \in SUBSET Message /\ tasks \in SUBSET Task
          /\ node \in SUBSET Message /\ back \in SUBSET Message /\ down \in BOOLEAN
      BY <2>5, Zenon
    <2>7. slots \in Int /\ count \in Int
      BY <2>5
    <2>. QED  BY <2>1, <2>3, <2>4, <2>6, <2>7, Zenon DEF Typed
  <1>3. \A g \in Cids : conn[g] = Away
    BY DEF Init
  <1>4. Adding = {} /\ Removing = {} /\ clients = {}
    BY <1>3 DEF Init, Adding, Removing, Away
  <1>5. Placed
    BY <1>3, <1>4 DEF Placed, Away
  <1>6. Counted
    <2>1. Adding \cup clients \cup Removing = {} /\ clients \cup Removing = {}
      BY <1>4
    <2>2. slots = 0 /\ count = 0 /\ 0 <= MaxConnections
      BY DEF Init
    <2>. QED  BY <2>1, <2>2, FS_EmptySet DEF Counted
  <1>7. \A w \in Workers : Len(queue[w]) = 0
    BY DEF Init
  <1>8. Ordered
    BY <1>3, <1>7 DEF Init, Ordered, InOrder, Away
  <1>9. Held
    BY DEF Init, Held
  <1>10. Newest
    BY <1>3 DEF Init, Newest, Alone, Fresh, InFlight, Values, Away
  <1>. QED  BY <1>2, <1>5, <1>6, <1>8, <1>9, <1>10 DEF ConnInv

\* A connector always has its connections, slots, messages, answers and
\* sessions where the invariant says (every handler of framework/net).
THEOREM ConnectorIsSound == Spec => []ConnInv
  <1>1. Init => ConnInv
    BY InitConnInv
  <1>2. ConnInv /\ [Next]_vars => ConnInv'
    BY StepTyped, StepPlaced, StepCounted, StepOrdered, StepHeld, StepNewest DEF ConnInv
  <1>. QED  BY <1>1, <1>2, PTL DEF Spec

\* A slot of connSemaphore is taken by the connections that are being added,
\* registered or removed and by no other, of any number of connections; so no
\* slot is given back twice or leaks (addClient, removeClient).
THEOREM SlotsAlwaysOwned == Spec => []SlotsAreOwned
  <1>1. ConnInv => SlotsAreOwned
    BY DEF ConnInv, Counted, Adding, Removing, SlotsAreOwned
  <1>. QED  BY <1>1, ConnectorIsSound, PTL

\* The messages of a connection are handled in their order, with any number of
\* workers and queues of any size, unless one of them was spilled
\* (clientReadChanHandler, clientWorkerRoutine).
THEOREM OrderAlwaysKept == Spec => []OrderKept
  <1>1. ConnInv => OrderKept
    BY DEF ConnInv, Ordered, OrderKept
  <1>. QED  BY <1>1, ConnectorIsSound, PTL

\* An answer reaches the connection that asked, however often the objects of
\* the pool change hands, unless a handler outlived its connection (Close,
\* reset, SendMessage).
THEOREM AnswersAlwaysReachOwner == Spec => []AnswersReachOwner
  <1>1. ASSUME Typed, Held
        PROVE  AnswersReachOwner
    <2>1. \A t \in tasks : t.msg.cid \in Cids
      BY <1>1 DEF Typed, Task, Message
    <2>. QED  BY <1>1, <2>1, ConnectorAssumption DEF Held, AnswersReachOwner, Receiver
  <1>. QED  BY <1>1, ConnectorIsSound, PTL DEF ConnInv

\* An open connection with nothing on the way has in its session the roomId
\* that a node put last, unless its requests met, one was lost or an Entry
\* with another token overtook one (setSessionData, Session.Put, SetData).
THEOREM RoomIdAlwaysNewest == Spec => []RoomIdIsNewest
  <1>1. ASSUME Typed, Newest
        PROVE  RoomIdIsNewest
    BY <1>1 DEF Typed, Newest, Alone, Values, InFlight, RoomIdIsNewest
  <1>. QED  BY <1>1, ConnectorIsSound, PTL DEF ConnInv
=============================================================================

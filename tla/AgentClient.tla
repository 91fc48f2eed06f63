---------------------------- MODULE AgentClient ----------------------------
(***************************************************************************)
(* The agent's side of the JSON-TS protocol (libtsagent/src/client.c,      *)
(* agent.c): threads that invoke commands on the server and block until    *)
(* the answer arrives, the connect thread, one receive thread for every    *)
(* connection, and the processing thread that delivers answers and runs    *)
(* the server's commands.  The server is the environment: it answers in    *)
(* any order (each command runs in an actor of its own), sends commands    *)
(* and closes connections.                                                 *)
(*                                                                         *)
(* The objects of the hash map are the cells of the handlers' cache.       *)
(* clnt_fini is not here: ts_finish never calls it, because no subsystem's *)
(* state becomes SS_OK.                                                    *)
(***************************************************************************)
EXTENDS HashMap, FiniteSets

CONSTANTS Invokers,        \* threads that call clnt_invoke, e.g. to report
          MaxCalls,        \* bound: calls of clnt_invoke
          MaxConns,        \* bound: connections
          MaxCommands,     \* bound: commands sent, on the first connection
          Mixes,           \* bound: how many calls and commands may go together
          MaxDisconnects,  \* CLNT_MAX_DISCONNECTS
          Tears            \* whether TCP may split a message

ASSUME ClientAssumption ==
  /\ MaxCalls \in Nat /\ MaxConns \in Nat /\ MaxCommands \in Nat
  /\ Mixes \subseteq Nat \X Nat /\ MaxDisconnects \in Nat /\ Tears \in BOOLEAN
  /\ IsFiniteSet(Invokers) /\ "connector" \notin Invokers
  /\ NObjects > Cardinality(Invokers)

Callers == Invokers \cup {"connector"}
Conns == 1 .. MaxConns
None == 0
Slots == Objects

VARIABLES
  link,       \* clnt_connected, the connection clnt_socket stands for,
              \* clnt_disconnects, clnt_msg_id
  net,        \* each connection: who closed it, messages under way, what
              \* the server is working on and which replies it has seen
  handler,    \* each cell: mh_msg_id, mh_response_type, mh_response (the id
              \* of the answered call)
  hdl_hashmap,
  caller,     \* each thread in clnt_invoke: place, cell, and its last result
  connector,  \* place of clnt_connect_thread
  recv,       \* place of each clnt_recv_thread
  queue,      \* proc_queue: messages with the connection they came from
  proc,       \* clnt_proc_thread: place, message, cell
  calm,       \* no connection was lost
  early,      \* the first call whose wait ended without a notification
  missed,     \* calls whose handler was in the map but was not found
  alive       \* the process was not killed or aborted

cells == <<handler, hdl_hashmap>>
vars == <<link, net, cells, caller, connector, recv, queue, proc, calm, early, missed, alive>>

(* Slips the runs must notice: a handler not taken out of the map, a walk  *)
(* that passes over the handlers, a message queued before others, an answer*)
(* delivered to any handler, a connect thread that is not notified.        *)
SlipUnmapped(s) == hdl_hashmap
SlipReleases(s) == FALSE
SlipPushed(m) == <<[conn |-> link.sock, msg |-> m]>> \o queue
SlipFound(start, id) == IF start # Null /\ Mapped(hdl_hashmap, start) THEN start ELSE Null
SlipConnectorSleeps == connector

Nothing == [pc |-> "pop", msg |-> <<None, None>>, cell |-> None]   \* for clnt_proc_thread
NewCell(id) == [id |-> id, type |-> "NOTHING", answer |-> None]

Init ==
  /\ link = [connected |-> FALSE, sock |-> None, disconnects |-> 0, next |-> 1]
  /\ net = [c \in Conns |-> [up |-> "none", to_agent |-> <<>>,
                             serving |-> {}, commands |-> 0, replies |-> <<>>]]
  /\ handler = [s \in Slots |-> NewCell(None)] /\ hdl_hashmap = hash_map_init
  /\ caller = [t \in Callers |-> [pc |-> "idle", cell |-> None, id |-> None,
                                  type |-> "NOTHING", answer |-> None]]
  /\ connector = "top"
  /\ recv = [c \in Conns |-> "off"]
  /\ queue = <<>>
  /\ proc = Nothing
  /\ calm = TRUE /\ early = MaxCalls + 1 /\ missed = {} /\ alive = TRUE

Open(c) == alive /\ c # None /\ net[c].up = "open"

(* ------------------------------ clnt_invoke --------------------------- *)
Ids == [s \in Slots |-> handler[s].id]
Used == {caller[t].cell : t \in {u \in Callers : caller[u].pc # "idle"}}

MsgId == link.next
Within(calls, commands) ==
  \A c \in Conns : \E mix \in Mixes :
    link.next - 1 + calls <= mix[1] /\ net[c].commands + commands <= mix[2]
Calling(t) == IF t = "connector" THEN connector = "hello"
              ELSE link.sock # None

(* clnt_create_msg: the id is atomic_inc'ed, the handler initialised and   *)
(* put into the hash map.                                                  *)
Create(t) ==
  /\ alive /\ caller[t].pc = "idle" /\ Calling(t) /\ link.next <= MaxCalls
  /\ Within(1, 0)
  /\ LET s == CHOOSE c \in Slots \ Used : \A d \in Slots \ Used : c <= d
         unlinked == [hdl_hashmap EXCEPT !.next[s] = Null]
     IN
       /\ handler' = [handler EXCEPT ![s] = NewCell(MsgId)]
       /\ hdl_hashmap' = hash_map_insert(unlinked, [Ids EXCEPT ![s] = MsgId], s)
       /\ caller' = [caller EXCEPT ![t].pc = "created", ![t].cell = s, ![t].id = MsgId]
  /\ link' = [link EXCEPT !.next = @ + 1]
  /\ UNCHANGED <<net, connector, recv, queue, proc, calm, early, missed, alive>>

(* clnt_send: nothing is sent when the client is not connected.  After the *)
(* test the message goes to whichever connection clnt_socket stands for;   *)
(* to a closed one it is lost, and SIGPIPE may end the process.            *)
plat_clnt_send(connection_with_message) ==
  LET c == link.sock
  IN IF Open(c) THEN /\ net' = [net EXCEPT ![c] = connection_with_message]
                     /\ UNCHANGED alive
     ELSE /\ UNCHANGED net
          /\ alive' \in {TRUE, net[c].up # "closed_by_peer"}

clnt_send(t) ==
  /\ alive /\ caller[t].pc = "created"
  /\ caller' = [caller EXCEPT ![t].pc = IF link.connected THEN "sending" ELSE "sent"]
  /\ UNCHANGED <<link, net, cells, connector, recv, queue, proc, calm, early, missed, alive>>

Send(t) ==
  /\ alive /\ caller[t].pc = "sending"
  /\ plat_clnt_send([net[link.sock] EXCEPT !.serving = @ \cup {caller[t].id}])
  /\ caller' = [caller EXCEPT ![t].pc = "sent"]
  /\ UNCHANGED <<link, cells, connector, recv, queue, proc, calm, early, missed>>

(* event_wait without a test: a notification given before is lost, ...     *)
Wait(t) ==
  /\ alive /\ caller[t].pc = "sent"
  /\ caller' = [caller EXCEPT ![t].pc = "waiting"]
  /\ UNCHANGED <<link, net, cells, connector, recv, queue, proc, calm, early, missed, alive>>

(* ... and pthread_cond_wait may return without one.                       *)
Spurious(t) ==
  /\ alive /\ caller[t].pc = "waiting"
  /\ caller' = [caller EXCEPT ![t].pc = "woken"]
  /\ early' = IF caller[t].id < early THEN caller[t].id ELSE early
  /\ UNCHANGED <<link, net, cells, connector, recv, queue, proc, calm, missed, alive>>

Notified(s) ==
  [t \in Callers |-> IF caller[t].pc = "waiting" /\ caller[t].cell = s
                     THEN [caller[t] EXCEPT !.pc = "woken"] ELSE caller[t]]

(* The response is read, the handler removed and its cell freed: the cell  *)
(* keeps its id and its link.                                              *)
Unmapped(s) == hash_map_remove(hdl_hashmap, Ids, s)
Return(t) ==
  /\ alive /\ caller[t].pc = "woken"
  /\ LET s == caller[t].cell
     IN /\ caller' = [caller EXCEPT ![t].pc = "idle", ![t].cell = None,
                        ![t].type = handler[s].type, ![t].answer = handler[s].answer]
        /\ handler' = [handler EXCEPT ![s] = NewCell(handler[s].id)]
        /\ hdl_hashmap' = Unmapped(s)
  /\ connector' = IF t = "connector" THEN "test" ELSE connector
  /\ UNCHANGED <<link, net, recv, queue, proc, calm, early, missed, alive>>

(* --------------------------- clnt_connect_thread ---------------------- *)
Connect ==
  /\ alive /\ connector = "top" /\ ~link.connected /\ link.sock < MaxConns
  /\ link' = [link EXCEPT !.sock = @ + 1]
  /\ net' = [net EXCEPT ![link.sock + 1].up = "open"]
  /\ connector' = "connected"
  /\ UNCHANGED <<cells, caller, recv, queue, proc, calm, early, missed, alive>>

StartReceiver ==
  /\ alive /\ connector = "connected"
  /\ link' = [link EXCEPT !.connected = TRUE]
  /\ recv' = [recv EXCEPT ![link.sock] = "poll"]
  /\ connector' = "hello"
  /\ UNCHANGED <<net, cells, caller, queue, proc, calm, early, missed, alive>>

(* "if(clnt_connected)" and event_wait are two steps.                      *)
TestConnected ==
  /\ alive
  /\ connector = "test" \/ (connector = "top" /\ link.connected)
  /\ connector' = IF link.connected THEN "sleepy" ELSE "top"
  /\ UNCHANGED <<link, net, cells, caller, recv, queue, proc, calm, early, missed, alive>>

SleepConnector ==
  /\ alive /\ connector = "sleepy"
  /\ connector' = "asleep"
  /\ UNCHANGED <<link, net, cells, caller, recv, queue, proc, calm, early, missed, alive>>

(* ---------------------------- clnt_recv_thread ------------------------ *)
(* A message is received and pushed.  One that TCP splits is parsed as two *)
(* broken halves and dropped.                                              *)
Pushed(m) == Append(queue, [conn |-> link.sock, msg |-> m])
Receive(c) ==
  LET s == link.sock
  IN /\ alive /\ recv[c] = "poll" /\ link.connected
     /\ net[s].up # "closed" /\ net[s].to_agent # <<>>
     /\ net' = [net EXCEPT ![s].to_agent = Tail(@)]
     /\ \E torn \in {FALSE, Tears} :
          queue' = IF torn THEN queue ELSE Pushed(Head(net[s].to_agent))
     /\ UNCHANGED <<link, cells, caller, connector, recv, proc, calm, early, missed, alive>>

(* The poll or recv fails: what was still under way is lost.               *)
LeaveLoop(c) ==
  /\ alive /\ recv[c] = "poll" /\ (~link.connected \/ ~Open(link.sock))
  /\ recv' = [recv EXCEPT ![c] = "lost"]
  /\ calm' = FALSE
  /\ UNCHANGED <<link, net, cells, caller, connector, queue, proc, early, missed, alive>>

(* clnt_on_disconnect, step by step: meanwhile the connect thread may have *)
(* opened the next connection.                                             *)
Disconnect(c) ==
  /\ alive /\ recv[c] = "lost"
  /\ link' = [link EXCEPT !.connected = FALSE]
  /\ recv' = [recv EXCEPT ![c] = "walk"]
  /\ UNCHANGED <<net, cells, caller, connector, queue, proc, calm, early, missed, alive>>

Releases(s) == Mapped(hdl_hashmap, s)
WalkHandlers(c) ==
  /\ alive /\ recv[c] = "walk"
  /\ handler' = [s \in Slots |-> IF Releases(s)
                   THEN [handler[s] EXCEPT !.type = "DISCONNECT"] ELSE handler[s]]
  /\ caller' = [t \in Callers |->
                  IF caller[t].pc = "waiting" /\ Releases(caller[t].cell)
                  THEN [caller[t] EXCEPT !.pc = "woken"] ELSE caller[t]]
  /\ recv' = [recv EXCEPT ![c] = "close"]
  /\ UNCHANGED <<hdl_hashmap, link, net, connector, queue, proc, calm, early, missed, alive>>

(* clnt_socket is closed, whichever connection it stands for by now.       *)
CloseSocket(c) ==
  /\ alive /\ recv[c] = "close"
  /\ net' = [net EXCEPT ![link.sock].up = "closed", ![link.sock].serving = {},
                        ![link.sock].to_agent = <<>>]
  /\ recv' = [recv EXCEPT ![c] = "notify"]
  /\ UNCHANGED <<link, cells, caller, connector, queue, proc, calm, early, missed, alive>>

ConnectorNotified == IF connector = "asleep" THEN "top" ELSE connector

(* After CLNT_MAX_DISCONNECTS the process aborts.  The thread frees its    *)
(* buffer, which is uninitialised if the connection never had data: that   *)
(* may end the process too.                                                *)
NotifyConnector(c) ==
  /\ alive /\ recv[c] = "notify"
  /\ connector' = ConnectorNotified
  /\ link' = [link EXCEPT !.disconnects = @ + 1]
  /\ alive' \in {FALSE, link'.disconnects <= MaxDisconnects}
  /\ recv' = [recv EXCEPT ![c] = "dead"]
  /\ UNCHANGED <<net, cells, caller, queue, proc, calm, early, missed>>

(* ---------------------------- clnt_proc_thread ------------------------ *)
IsCommand(m) == m[1] = "command"
Rest == Tail(queue)
Taken == <<Head(queue).conn, Head(queue).msg[2]>>
Found(start, id) == hash_map_find(hdl_hashmap, Ids, start, id)

(* hash_map_find reads the head of the chain before it locks the map, ...  *)
ReadHead ==
  /\ alive /\ proc.pc = "pop" /\ queue # <<>> /\ ~IsCommand(Head(queue).msg)
  /\ queue' = Rest
  /\ proc' = [pc |-> "find", msg |-> Taken, cell |-> hdl_hashmap.head[Hash(Taken[2])]]
  /\ UNCHANGED <<link, net, cells, caller, connector, recv, calm, early, missed, alive>>

(* ... and returns a cell that may be freed, and used for another call,    *)
(* before it is written (what is written to a free cell is lost:           *)
(* clnt_create_msg initialises it).                                        *)
FindHandler ==
  LET id == proc.msg[2]
      s == Found(proc.cell, id)
  IN /\ alive /\ proc.pc = "find"
     /\ proc' = IF s = Null THEN Nothing
                ELSE [proc EXCEPT !.pc = "found", !.cell = s]
     /\ missed' = IF s = Null /\ \E c \in Slots : Mapped(hdl_hashmap, c) /\ Ids[c] = id
                  THEN missed \cup {id} ELSE missed
     /\ UNCHANGED <<link, net, cells, caller, connector, recv, queue, calm, early, alive>>

WriteType ==
  /\ alive /\ proc.pc = "found"
  /\ handler' = [handler EXCEPT ![proc.cell].type =
                   IF Mapped(hdl_hashmap, proc.cell) THEN "RESPONSE" ELSE @]
  /\ proc' = [proc EXCEPT !.pc = "typed"]
  /\ UNCHANGED <<hdl_hashmap, link, net, caller, connector, recv, queue, calm, early, missed, alive>>

WriteResponse ==
  /\ alive /\ proc.pc = "typed"
  /\ handler' = [handler EXCEPT ![proc.cell].answer =
                   IF Mapped(hdl_hashmap, proc.cell) THEN proc.msg[2] ELSE @]
  /\ caller' = Notified(proc.cell)
  /\ proc' = Nothing
  /\ UNCHANGED <<hdl_hashmap, link, net, connector, recv, queue, calm, early, missed, alive>>

(* agent_process_command ends in a response or an error, then the reply is *)
(* sent on whatever connection there is.                                   *)
RunCommand ==
  /\ alive /\ proc.pc = "pop" /\ queue # <<>> /\ IsCommand(Head(queue).msg)
  /\ queue' = Rest
  /\ proc' = [pc |-> "reply", msg |-> Taken, cell |-> None]
  /\ UNCHANGED <<link, net, cells, caller, connector, recv, calm, early, missed, alive>>

TestReply ==
  /\ alive /\ proc.pc = "reply"
  /\ proc' = IF link.connected THEN [proc EXCEPT !.pc = "replying"] ELSE Nothing
  /\ UNCHANGED <<link, net, cells, caller, connector, recv, queue, calm, early, missed, alive>>

Reply ==
  /\ alive /\ proc.pc = "replying"
  /\ plat_clnt_send([net[link.sock] EXCEPT !.replies = Append(@, proc.msg)])
  /\ proc' = Nothing
  /\ UNCHANGED <<link, cells, caller, connector, recv, queue, calm, early, missed>>

Proc == ReadHead \/ FindHandler \/ WriteType \/ WriteResponse
        \/ RunCommand \/ TestReply \/ Reply

(* ------------------------------ the server ---------------------------- *)
ServerAnswers(c) ==
  /\ Open(c)
  /\ \E id \in net[c].serving :
       net' = [net EXCEPT ![c].serving = @ \ {id},
                          ![c].to_agent = Append(@, <<"answer", id>>)]
  /\ UNCHANGED <<link, cells, caller, connector, recv, queue, proc, calm, early, missed, alive>>

ServerCommands(c) ==
  /\ Open(c) /\ c = 1 /\ net[c].commands < MaxCommands /\ Within(0, 1)
  /\ net' = [net EXCEPT ![c].commands = @ + 1,
                        ![c].to_agent = Append(@, <<"command", net[c].commands + 1>>)]
  /\ UNCHANGED <<link, cells, caller, connector, recv, queue, proc, calm, early, missed, alive>>

ServerCloses(c) ==
  /\ Open(c)
  /\ net' = [net EXCEPT ![c].up = "closed_by_peer", ![c].serving = {}]
  /\ UNCHANGED <<link, cells, caller, connector, recv, queue, proc, calm, early, missed, alive>>

Caller(t) == Create(t) \/ clnt_send(t) \/ Send(t) \/ Wait(t) \/ Spurious(t) \/ Return(t)
Connector == Connect \/ StartReceiver \/ TestConnected \/ SleepConnector
Receiver(c) == Receive(c) \/ LeaveLoop(c) \/ Disconnect(c) \/ WalkHandlers(c)
               \/ CloseSocket(c) \/ NotifyConnector(c)

Next ==
  \/ \E t \in Callers : Caller(t)
  \/ Connector
  \/ \E c \in Conns : Receiver(c)
  \/ Proc
  \/ \E c \in Conns : ServerAnswers(c) \/ ServerCommands(c) \/ ServerCloses(c)

Spec == Init /\ [][Next]_vars

(* The agent's threads run; nothing forces the server or a new call.       *)
FairSpec ==
  /\ Spec
  /\ \A t \in Callers : WF_vars(clnt_send(t) \/ Send(t) \/ Wait(t) \/ Return(t))
  /\ WF_vars(Connector) /\ WF_vars(Proc)
  /\ \A c \in Conns : WF_vars(Receiver(c))
-----------------------------------------------------------------------------
Places == {"idle", "created", "sending", "sent", "waiting", "woken"}
Messages == ({"answer"} \X (1 .. MaxCalls)) \cup ({"command"} \X (1 .. MaxCommands))
Commands == Conns \X (1 .. MaxCommands)

TypeOK ==
  /\ link \in [connected : BOOLEAN, sock : 0 .. MaxConns,
               disconnects : 0 .. MaxConns, next : 1 .. MaxCalls + 1]
  /\ \A c \in Conns :
       /\ net[c].up \in {"none", "open", "closed_by_peer", "closed"}
       /\ net[c].serving \subseteq 1 .. MaxCalls
       /\ net[c].to_agent \in Seq(Messages) /\ net[c].replies \in Seq(Commands)
       /\ net[c].commands \in 0 .. MaxCommands
       /\ recv[c] \in {"off", "poll", "lost", "walk", "close", "notify", "dead"}
       /\ (recv[c] # "off") => (c <= link.sock)
  /\ handler \in [Slots -> [id : 0 .. MaxCalls, answer : 0 .. MaxCalls,
                            type : {"NOTHING", "RESPONSE", "DISCONNECT"}]]
  /\ caller \in [Callers -> [pc : Places, cell : Slots \cup {None}, id : 0 .. MaxCalls,
                             answer : 0 .. MaxCalls, type : {"NOTHING", "RESPONSE", "DISCONNECT"}]]
  /\ connector \in {"top", "connected", "hello", "test", "sleepy", "asleep"}
  /\ queue \in Seq([conn : Conns, msg : Messages])
  /\ missed \subseteq 1 .. MaxCalls
  /\ proc.pc \in {"pop", "find", "found", "typed", "reply", "replying"}
  /\ proc.cell \in Slots \cup {None} /\ proc.msg \in (Conns \cup {None}) \X Nat
  /\ calm \in BOOLEAN /\ early \in 1 .. MaxCalls + 1 /\ alive \in BOOLEAN

(* clnt_create_msg, clnt_delete_handler, hashmap.c: through disconnections *)
(* and reconnections the map holds exactly one handler for every call in   *)
(* progress, in the chain of the call's own id, and no chain loses or      *)
(* repeats one; ids are never given twice.  (The types are checked along.) *)
OneHandlerPerCall ==
  /\ TypeOK
  /\ \A t \in Callers : caller[t].pc # "idle" =>
       /\ handler[caller[t].cell].id = caller[t].id
       /\ Holds(hdl_hashmap, Hash(caller[t].id), caller[t].cell)
  /\ \A t, u \in Callers : (t # u /\ caller[t].id # None) => caller[t].id # caller[u].id
  /\ \A b \in DOMAIN hdl_hashmap.head :
       LET chain == Bucket(hdl_hashmap, b)
       IN \A j, k \in DOMAIN chain : chain[j] \in Used /\ (chain[j] = chain[k] => j = k)

(* clnt_invoke, clnt_process_response: a call never returns with the answer*)
(* to a later one.  Until the first lost connection it returns with the    *)
(* complete answer to itself, and every answer under way is for a call in  *)
(* progress that still waits for it.  A wait that ends without a           *)
(* notification harms that call and later ones (which may be given its     *)
(* cell, and so its answer), but none made before it.                      *)
AnswersMatchCalls ==
  LET Sent == {id \in 1 .. MaxCalls :
                 \/ \E c \in Conns : \E k \in DOMAIN net[c].to_agent :
                      net[c].to_agent[k] = <<"answer", id>>
                 \/ \E k \in DOMAIN queue : queue[k].msg = <<"answer", id>>}
  IN /\ \A t \in Callers : caller[t].pc = "idle" => caller[t].answer <= caller[t].id
     /\ calm =>
          /\ \A t \in Callers :
               (caller[t].pc = "idle" /\ caller[t].id # None /\ caller[t].id < early) =>
                 caller[t].type = "RESPONSE" /\ caller[t].answer = caller[t].id
          /\ \A id \in Sent : id < early =>
               \E t \in Callers : caller[t].id = id /\ caller[t].pc \in {"sent", "waiting"}

(* The single processing thread replies to every command at most once, and *)
(* to the commands of a connection in the order they were sent, also when  *)
(* the reply goes out on a later connection.                               *)
RepliesInOrder ==
  \A c, d \in Conns : \A j \in DOMAIN net[c].replies, k \in DOMAIN net[d].replies :
    LET r == net[c].replies[j]
        q == net[d].replies[k]
    IN (r[1] = q[1] /\ (c < d \/ (c = d /\ j < k))) => r[2] < q[2]

(* Who waits for an answer that has reached proc_queue, or when the        *)
(* connection is found lost, is released (the second with RT_DISCONNECT),  *)
(* unless hash_map_find misses its handler.  A caller that comes to wait   *)
(* only after that is not: see the README.                                 *)
WaitersReleased ==
  \A t \in Callers :
    (/\ caller[t].pc = "waiting"
     /\ \/ \E k \in DOMAIN queue : queue[k].msg = <<"answer", caller[t].id>>
        \/ \E c \in Conns : recv[c] \in {"lost", "walk"})
    ~> (caller[t].pc # "waiting" \/ caller[t].id \in missed \/ ~alive)

(* hashmap.c:168 "Find object in hash map by key": an answer whose handler *)
(* is in the map is delivered to it, if no connection was lost and no wait *)
(* ended early.                                                            *)
NoAnswerMissed == (calm /\ early > MaxCalls) => missed = {}

(* A connect thread that sleeps when the connection is lost wakes up and   *)
(* connects again.                                                         *)
Reconnects ==
  (/\ connector = "asleep"
   /\ \E c \in Conns : recv[c] \in {"lost", "walk", "close", "notify"})
    ~> (link.connected \/ link.sock = MaxConns \/ ~alive)
=============================================================================

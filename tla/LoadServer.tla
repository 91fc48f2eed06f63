----------------------------- MODULE LoadServer -----------------------------
(***************************************************************************)
(* The server's side of the JSON-TS protocol (tsserver/TSClient.scala,     *)
(* TSServer.scala, TSLoadServer.scala) and the registry of agents          *)
(* (agent/AgentService.scala).  Every connection has a receiver thread,    *)
(* which reassembles messages from chunks, and a processor actor, which    *)
(* starts an actor for each command and hands answers to the threads that  *)
(* wait for them.  The agents are the environment: they connect, say       *)
(* hello, answer commands, and close their connection or vanish.           *)
(***************************************************************************)
EXTENDS Naturals, Sequences, FiniteSets

CONSTANTS Hosts,
          Callers,    \* threads that invoke a command of an agent
          MaxConns    \* bound: connections accepted

Conns == 1 .. MaxConns
None == 0

ASSUME ServerAssumption ==
  MaxConns \in Nat /\ IsFiniteSet(Callers) /\ None \notin Hosts

VARIABLES
  conn,      \* each TSClient and its sender, receiver and processor
  hello,     \* each hello command's actor: place and the agent it found
  clients,   \* TSLoadServer.clients: agent -> connection, None if absent
  agents,    \* the database: sequence of [host, active]; an id is an index
  caller,    \* each thread in invoke: place, agent, connection, id, answer
  raced,     \* connections where two calls were in getMsgId at once
  unsettled  \* hosts with overlapping connections, with one that was closed
             \* before its hello was done, or one that was reset

vars == <<conn, hello, clients, agents, caller, raced, unsettled>>

(* Slips the runs must notice: a message decoded from what has arrived, an *)
(* agent left active, one listed under the newest record's id, a counter   *)
(* that stays.                                                             *)
SlipDecodes(buf) == Len(buf) > 0
SlipStays(a) == agents
SlipNewest(c) == Len(agents)
SlipKeepsId(n) == n

Init ==
  /\ conn = [c \in Conns |->
       [host |-> None, up |-> "none", id |-> None,
        in |-> <<>>, buf |-> <<>>, recv |-> "off",       \* TSClientReceiver
        mailbox |-> <<>>, processing |-> TRUE,           \* TSClientProcessor
        msg_id |-> 0, handlers |-> {}, serving |-> {},   \* TSClientSender
        sent |-> <<>>, decoded |-> <<>>]]
  /\ hello = [c \in Conns |-> [pc |-> "off", agent |-> None]]
  /\ clients = [a \in Conns |-> None]
  /\ agents = <<>>
  /\ caller = [k \in Callers |-> [pc |-> "idle", conn |-> None, id |-> None, answer |-> {}]]
  /\ raced = {} /\ unsettled = {}

(* ------------------------------- the agents --------------------------- *)
Working(c) == conn[c].recv \notin {"off", "done"} \/ hello[c].pc \notin {"off", "done"}
Overlaps(h) == \E c \in Conns : conn[c].host = h /\ Working(c)

(* TSServer.run: the connection is accepted and its receiver started.  An  *)
(* agent has one connection at a time, but the server may still work on    *)
(* the one before.                                                         *)
Accept(c, h) ==
  /\ conn[c].up = "none" /\ \A d \in 1 .. c - 1 : conn[d].up # "none"
  /\ \A d \in Conns : conn[d].host = h => conn[d].up # "open"
  /\ conn' = [conn EXCEPT ![c].host = h, ![c].up = "open", ![c].recv = "read"]
  /\ unsettled' = IF Overlaps(h) THEN unsettled \cup {h} ELSE unsettled
  /\ UNCHANGED <<hello, clients, agents, caller, raced>>

(* A message is two pieces on the wire, its text and the terminating NUL.  *)
Pieces(m) == <<<<m, "text">>, <<m, "nul">>>>
AgentSends(c, m) == [conn[c] EXCEPT !.in = @ \o Pieces(m), !.sent = Append(@, m)]

AgentSaysHello(c) ==
  /\ conn[c].up = "open" /\ conn[c].sent = <<>>
  /\ conn' = [conn EXCEPT ![c] = AgentSends(c, <<"hello">>)]
  /\ UNCHANGED <<hello, clients, agents, caller, raced, unsettled>>

(* The answer carries the id of the command; the calling thread is noted   *)
(* so that the model can tell whose answer it is.                          *)
AgentAnswers(c) ==
  /\ conn[c].up = "open"
  /\ \E s \in conn[c].serving :
       conn' = [conn EXCEPT ![c] = [AgentSends(c, <<"answer", s[1], s[2]>>)
                                    EXCEPT !.serving = @ \ {s}]]
  /\ UNCHANGED <<hello, clients, agents, caller, raced, unsettled>>

(* What was under way may be lost in part, also in the middle of a message.*)
AgentCloses(c) ==
  /\ conn[c].up = "open"
  /\ \E n \in 0 .. Len(conn[c].in), how \in {"closed", "reset"} :
       /\ conn' = [conn EXCEPT ![c].up = how, ![c].in = SubSeq(@, 1, n), ![c].serving = {}]
       /\ unsettled' = IF how = "reset" THEN unsettled \cup {conn[c].host} ELSE unsettled
  /\ UNCHANGED <<hello, clients, agents, caller, raced>>

(* --------------------------- TSClientReceiver ------------------------- *)
(* decodeByteBuffer decodes only when the buffer ends with a NUL; then     *)
(* every message in it is complete.  At the end of the stream it decodes   *)
(* the complete ones.                                                      *)
Decodes(buf) == buf[Len(buf)][2] = "nul"
Complete(buf) == SubSeq(buf, 1, 2 * (Len(buf) \div 2))
Texts(buf) == [k \in 1 .. (Len(buf) + 1) \div 2 |-> buf[2 * k - 1][1]]

Read(c) ==
  /\ conn[c].recv = "read" /\ conn[c].in # <<>>
  /\ \E n \in 1 .. Len(conn[c].in) :
       LET buf == conn[c].buf \o SubSeq(conn[c].in, 1, n)
           rest == SubSeq(conn[c].in, n + 1, Len(conn[c].in))
       IN conn' = IF Decodes(buf)
                  THEN [conn EXCEPT ![c].in = rest, ![c].buf = <<>>,
                                    ![c].mailbox = @ \o Texts(buf),
                                    ![c].decoded = @ \o Texts(buf)]
                  ELSE [conn EXCEPT ![c].in = rest, ![c].buf = buf]
  /\ UNCHANGED <<hello, clients, agents, caller, raced, unsettled>>

(* read returns -1: what is complete in the buffer is decoded, a message   *)
(* without its NUL dropped, and Stop sent behind them.  After a reset read *)
(* throws, and the thread ends without telling anybody.                    *)
EndOfStream(c) ==
  /\ conn[c].recv = "read" /\ conn[c].in = <<>> /\ conn[c].up \in {"closed", "reset"}
  /\ conn' = IF conn[c].up = "reset" THEN [conn EXCEPT ![c].recv = "done"]
             ELSE LET last == Texts(Complete(conn[c].buf))
                  IN [conn EXCEPT ![c].recv = "unlist", ![c].buf = <<>>,
                                  ![c].decoded = @ \o last,
                                  ![c].mailbox = Append(@ \o last, <<"stop">>)]
  /\ unsettled' = IF conn[c].up = "closed" /\ hello[c].pc # "done"
                  THEN unsettled \cup {conn[c].host} ELSE unsettled
  /\ UNCHANGED <<hello, clients, agents, caller, raced>>

(* processClientDisconnect: "clients -= client.id", whichever connection   *)
(* the entry stands for, then the agent is set inactive.                   *)
Unlisted(c) ==
  [a \in Conns |-> IF a = conn[c].id THEN None ELSE clients[a]]
Unlist(c) ==
  /\ conn[c].recv = "unlist"
  /\ clients' = Unlisted(c)
  /\ conn' = [conn EXCEPT ![c].recv = "deactivate"]
  /\ UNCHANGED <<hello, agents, caller, raced, unsettled>>

(* removeLoadAgent; without an id new ObjectId("") throws.                 *)
Deactivated(a) ==
  IF a = None THEN agents ELSE [agents EXCEPT ![a].active = FALSE]
Deactivate(c) ==
  /\ conn[c].recv = "deactivate"
  /\ agents' = Deactivated(conn[c].id)
  /\ conn' = [conn EXCEPT ![c].recv = "done"]
  /\ UNCHANGED <<hello, clients, caller, raced, unsettled>>

(* --------------------------- TSClientProcessor ------------------------ *)
Next_message(c) == Head(conn[c].mailbox)
Processes(c, kind) ==
  /\ conn[c].processing /\ conn[c].mailbox # <<>> /\ Next_message(c)[1] = kind

StartHello(c) ==
  /\ Processes(c, "hello")
  /\ conn' = [conn EXCEPT ![c].mailbox = Tail(@)]
  /\ hello' = [hello EXCEPT ![c].pc = "find"]
  /\ UNCHANGED <<clients, agents, caller, raced, unsettled>>

(* notify only wakes a thread that waits already.                          *)
Waker(k) == IF caller[k].pc = "waiting" THEN [caller[k] EXCEPT !.pc = "returned"]
            ELSE caller[k]

(* addResponse: the handler of the id gets the answer and is removed.  An  *)
(* unknown id is an exception that ends the actor.                         *)
AddResponse(c) ==
  /\ Processes(c, "answer")
  /\ LET id == Next_message(c)[2]
         found == {h \in conn[c].handlers : h[1] = id}
     IN IF found = {}
        THEN /\ conn' = [conn EXCEPT ![c].mailbox = Tail(@), ![c].processing = FALSE]
             /\ UNCHANGED caller
        ELSE \E h \in found :
               /\ conn' = [conn EXCEPT ![c].mailbox = Tail(@), ![c].handlers = @ \ {h}]
               /\ caller' = [caller EXCEPT ![h[2]] = [Waker(h[2]) EXCEPT
                                                      !.answer = {Next_message(c)[3]}]]
  /\ UNCHANGED <<hello, clients, agents, raced, unsettled>>

Stop(c) ==
  /\ Processes(c, "stop")
  /\ conn' = [conn EXCEPT ![c].mailbox = Tail(@), ![c].processing = FALSE]
  /\ UNCHANGED <<hello, clients, agents, caller, raced, unsettled>>

(* -------------------- hello and AgentService.addLoadAgent ------------- *)
Existing(h) == {a \in DOMAIN agents : agents[a].host = h}

FindAgent(c) ==
  /\ hello[c].pc = "find"
  /\ IF Existing(conn[c].host) = {} THEN hello' = [hello EXCEPT ![c].pc = "save"]
     ELSE \E a \in Existing(conn[c].host) :
            hello' = [hello EXCEPT ![c] = [pc |-> "save", agent |-> a]]
  /\ UNCHANGED <<conn, clients, agents, caller, raced, unsettled>>

SaveAgent(c) ==
  /\ hello[c].pc = "save"
  /\ LET a == hello[c].agent
     IN IF a # None
        THEN /\ agents' = [agents EXCEPT ![a].active = TRUE]
             /\ hello' = [hello EXCEPT ![c].pc = "name"]
        ELSE /\ agents' = Append(agents, [host |-> conn[c].host, active |-> TRUE])
             /\ hello' = [hello EXCEPT ![c] = [pc |-> "name", agent |-> Len(agents) + 1]]
  /\ UNCHANGED <<conn, clients, caller, raced, unsettled>>

NameClient(c) ==
  /\ hello[c].pc = "name"
  /\ conn' = [conn EXCEPT ![c].id = hello[c].agent]
  /\ hello' = [hello EXCEPT ![c].pc = "list"]
  /\ UNCHANGED <<clients, agents, caller, raced, unsettled>>

AgentId(c) == hello[c].agent
ListClient(c) ==
  /\ hello[c].pc = "list"
  /\ clients' = [clients EXCEPT ![AgentId(c)] = c]
  /\ hello' = [hello EXCEPT ![c].pc = "done"]
  /\ UNCHANGED <<conn, agents, caller, raced, unsettled>>

(* ---------------------------------- invoke ---------------------------- *)
At(k, place) == caller[k].pc = place
Goes(k, place) == caller' = [caller EXCEPT ![k].pc = place]

(* clientForId (bound: calls on the first connection only), then getMsgId: *)
(* "msgId += 1" reads and writes, and msgId is read again to be returned.  *)
Lookup(k) ==
  /\ At(k, "idle")
  /\ \E a \in Conns : clients[a] = 1 /\
       caller' = [caller EXCEPT ![k].pc = "read", ![k].conn = clients[a]]
  /\ UNCHANGED <<conn, hello, clients, agents, raced, unsettled>>

ReadMsgId(k) ==
  LET c == caller[k].conn
  IN /\ At(k, "read")
     /\ caller' = [caller EXCEPT ![k].pc = "write", ![k].id = conn[c].msg_id]
     /\ raced' = IF \E j \in Callers : caller[j].conn = c /\ caller[j].pc \in {"write", "get"}
                 THEN raced \cup {c} ELSE raced
     /\ UNCHANGED <<conn, hello, clients, agents, unsettled>>

NextId(n) == n + 1
WriteMsgId(k) ==
  /\ At(k, "write") /\ Goes(k, "get")
  /\ conn' = [conn EXCEPT ![caller[k].conn].msg_id = NextId(caller[k].id)]
  /\ UNCHANGED <<hello, clients, agents, raced, unsettled>>

GetMsgId(k) ==
  /\ At(k, "get")
  /\ caller' = [caller EXCEPT ![k].pc = "send", ![k].id = conn[caller[k].conn].msg_id]
  /\ UNCHANGED <<conn, hello, clients, agents, raced, unsettled>>

(* The handler is registered, replacing one of the same id, and the        *)
(* command sent.  Writing to a connection the agent closed may throw.      *)
Send(k) ==
  LET c == caller[k].conn
      own == <<caller[k].id, k>>
      open == conn[c].up = "open"
  IN /\ At(k, "send")
     /\ conn' = [conn EXCEPT
          ![c].handlers = {h \in @ : h[1] # own[1]} \cup {own},
          ![c].serving = IF open THEN @ \cup {own} ELSE @]
     /\ Goes(k, "sent") \/ (~open /\ Goes(k, "threw"))
     /\ UNCHANGED <<hello, clients, agents, raced, unsettled>>

(* msgHandler.wait() without a test whether the answer is there already.   *)
Wait(k) ==
  /\ At(k, "sent") /\ Goes(k, "waiting")
  /\ UNCHANGED <<conn, hello, clients, agents, raced, unsettled>>

Receiver(c) == Read(c) \/ EndOfStream(c) \/ Unlist(c) \/ Deactivate(c)
Processor(c) == StartHello(c) \/ AddResponse(c) \/ Stop(c)
Hello(c) == FindAgent(c) \/ SaveAgent(c) \/ NameClient(c) \/ ListClient(c)
Invoke(k) == ReadMsgId(k) \/ WriteMsgId(k) \/ GetMsgId(k) \/ Send(k) \/ Wait(k)

Next ==
  \/ \E c \in Conns, h \in Hosts : Accept(c, h)
  \/ \E c \in Conns : AgentSaysHello(c) \/ AgentAnswers(c) \/ AgentCloses(c)
  \/ \E c \in Conns : Receiver(c) \/ Processor(c) \/ Hello(c)
  \/ \E k \in Callers : Lookup(k) \/ Invoke(k)

Spec == Init /\ [][Next]_vars

-----------------------------------------------------------------------------
Place == {"idle", "read", "write", "get", "send", "sent", "waiting", "returned", "threw"}
Ids == 0 .. Cardinality(Callers)

TypeOK ==
  /\ \A c \in Conns :
       /\ conn[c].host \in Hosts \cup {None} /\ conn[c].id \in 0 .. Len(agents)
       /\ conn[c].up \in {"none", "open", "closed", "reset"}
       /\ conn[c].recv \in {"off", "read", "unlist", "deactivate", "done"}
       /\ conn[c].msg_id \in Ids
       /\ conn[c].handlers \subseteq Ids \X Callers
       /\ conn[c].serving \subseteq Ids \X Callers
       /\ Len(conn[c].buf) <= Len(Pieces(<<"hello">>)) * (Len(conn[c].sent))
       /\ hello[c].pc \in {"off", "find", "save", "name", "list", "done"}
       /\ hello[c].agent \in 0 .. Len(agents)
       /\ clients[c] \in Conns \cup {None}
  /\ \A k \in Callers :
       /\ caller[k].pc \in Place /\ caller[k].id \in Ids
       /\ caller[k].conn \in Conns \cup {None} /\ caller[k].answer \subseteq Callers
  /\ raced \subseteq Conns /\ unsettled \subseteq Hosts

(* TSClientReceiver: wherever the stream is cut into chunks, the processor *)
(* gets the messages of a connection whole, once and in order.             *)
MessagesWhole ==
  \A c \in Conns :
    /\ Len(conn[c].decoded) <= Len(conn[c].sent)
    /\ \A k \in DOMAIN conn[c].decoded : conn[c].decoded[k] = conn[c].sent[k]

(* AgentService and TSLoadServer.clients: once the server has nothing left *)
(* to do for a host, its agent is listed, under the connection it is       *)
(* listed for, and active exactly while it has a connection that said      *)
(* hello - unless connections of the host overlapped, one closed before    *)
(* its hello was done, or one was reset.                                   *)
Greeted(h) == {c \in Conns : conn[c].host = h /\ conn[c].up = "open" /\ hello[c].pc = "done"}
Quiet(h) ==
  \A c \in Conns : conn[c].host = h =>
    /\ hello[c].pc \in {"off", "done"} /\ conn[c].mailbox = <<>>
    /\ IF conn[c].up = "open" THEN conn[c].recv = "read" ELSE conn[c].recv = "done"
RegistryFollowsConnections ==
  \A h \in Hosts : (Quiet(h) /\ h \notin unsettled) =>
    /\ Cardinality(Existing(h)) <= 1
    /\ \A a \in Existing(h) : agents[a].active <=> Greeted(h) # {}
    /\ {c \in Conns : \E a \in Existing(h) : clients[a] = c} = Greeted(h)

(* TSLoadServer.hello: whatever overlaps, closes early or is reset, a      *)
(* listed connection has the id it is listed under, and that id is an      *)
(* agent of its own host.  (The types are checked along.)                  *)
ListedUnderOwnId ==
  /\ TypeOK
  /\ \A a \in Conns : clients[a] # None =>
       /\ a \in DOMAIN agents /\ conn[clients[a]].id = a
       /\ agents[a].host = conn[clients[a]].host

(* TSClientSender: a call gets the answer to its own command, unless two   *)
(* calls of its connection were in getMsgId at once.                       *)
OwnAnswer ==
  \A k \in Callers : caller[k].conn \notin raced => caller[k].answer \subseteq {k}

(* While the connection lasts and no two calls raced for an id, a waiting  *)
(* call still has its handler and its answer is on the way: at the agent,  *)
(* in the stream or with the processor.  Otherwise the answer came before  *)
(* the wait, and its notification was lost.                                *)
Pending(c, m) ==
  \/ <<m[2], m[3]>> \in conn[c].serving
  \/ \E n \in DOMAIN conn[c].mailbox : conn[c].mailbox[n] = m
  \/ \E n \in DOMAIN (conn[c].buf \o conn[c].in) :
       (conn[c].buf \o conn[c].in)[n] = <<m, "nul">>
WaitIsAccountedFor ==
  \A k \in Callers :
    LET c == caller[k].conn
    IN (At(k, "waiting") /\ conn[c].up = "open" /\ c \notin raced) =>
         \/ caller[k].answer = {k}
         \/ /\ <<caller[k].id, k>> \in conn[c].handlers
            /\ conn[c].processing
            /\ Pending(c, <<"answer", caller[k].id, k>>)
=============================================================================

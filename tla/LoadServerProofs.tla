-------------------------- MODULE LoadServerProofs --------------------------
(***************************************************************************)
(* Proofs about the server's side of the protocol for any number of        *)
(* hosts, connections and calling threads: messages arrive whole, calls    *)
(* get their own answers, and the registry follows the connections.        *)
(***************************************************************************)
EXTENDS LoadServer, FiniteSetTheorems, SequenceTheorems, TLAPS

(* The types of the variables.                                             *)
Message == {<<"hello">>} \cup ({"answer"} \X Ids \X Callers)
Piece == Message \X {"text", "nul"}
ConnType ==
  [host : Hosts \cup {None}, up : {"none", "open", "closed", "reset"}, id : Nat,
   in : Seq(Piece), buf : Seq(Piece),
   recv : {"off", "read", "unlist", "deactivate", "done"},
   mailbox : Seq(Message \cup {<<"stop">>}), processing : BOOLEAN, msg_id : Ids,
   handlers : SUBSET (Ids \X Callers), serving : SUBSET (Ids \X Callers),
   sent : Seq(Message), decoded : Seq(Message)]
HelloType == [pc : {"off", "find", "save", "name", "list", "done"}, agent : Nat]
CallerType ==
  [pc : Place, conn : Conns \cup {None}, id : Ids, answer : SUBSET Callers]

Types ==
  /\ conn \in [Conns -> ConnType] /\ hello \in [Conns -> HelloType]
  /\ clients \in [Conns -> Conns \cup {None}]
  /\ agents \in Seq([host : Hosts, active : BOOLEAN])
  /\ caller \in [Callers -> CallerType]
  /\ raced \subseteq Conns /\ unsettled \subseteq Hosts

(* What is in a connection: the messages decoded, the buffer and what is   *)
(* under way are consecutive parts of the messages sent, two pieces each.  *)
Cut(s, from, sent) ==
  \A p \in DOMAIN s, k \in DOMAIN sent :
    /\ from + p = 2 * k - 1 => s[p] = <<sent[k], "text">>
    /\ from + p = 2 * k => s[p] = <<sent[k], "nul">>
Reaches(decoded, buf, in) == 2 * Len(decoded) + Len(buf) + Len(in)
Stream(sent, decoded, buf, in) ==
  /\ Reaches(decoded, buf, in) <= 2 * Len(sent)
  /\ \A k \in DOMAIN decoded : decoded[k] = sent[k]
  /\ Cut(buf, 2 * Len(decoded), sent) /\ Cut(in, 2 * Len(decoded) + Len(buf), sent)

(* The processor has the rest of what was decoded; the agent says hello    *)
(* once and first.                                                         *)
Rest(mailbox, decoded) ==
  /\ Len(mailbox) <= Len(decoded)
  /\ \A n \in DOMAIN mailbox : mailbox[n] = decoded[Len(decoded) - Len(mailbox) + n]
Mail(mailbox, sent) ==
  /\ \A n \in DOMAIN mailbox :
       mailbox[n] = <<"stop">> \/ \E k \in DOMAIN sent : mailbox[n] = sent[k]
  /\ \A n \in DOMAIN mailbox : mailbox[n] = <<"hello">> => n = 1
HelloFirst(sent) == \A k \in DOMAIN sent : sent[k] = <<"hello">> => k = 1
UpOK(v) ==
  /\ v.up = "open" => v.recv = "read"
  /\ v.up = "none" <=> v.recv = "off"
  /\ v.up = "none" <=> v.host = None
  /\ v.up = "none" => v.sent = <<>> /\ v.mailbox = <<>> /\ v.processing
ConnOK(v) ==
  /\ Stream(v.sent, v.decoded, v.buf, v.in)
  /\ v.up = "open" => Reaches(v.decoded, v.buf, v.in) = 2 * Len(v.sent)
  /\ v.recv = "read" => Rest(v.mailbox, v.decoded)
  /\ Mail(v.mailbox, v.sent) /\ HelloFirst(v.sent) /\ UpOK(v)
Streams == \A c \in Conns : ConnOK(conn[c])

(* One hello of a connection is processed.                                 *)
Hellos ==
  \A c \in Conns : hello[c].pc # "off" =>
    /\ conn[c].up # "none"
    /\ conn[c].recv = "read" => conn[c].decoded # <<>>
    /\ \A n \in DOMAIN conn[c].mailbox : conn[c].mailbox[n] # <<"hello">>

(* An agent belongs to its host, and there are not more agents than        *)
(* connections that saved one.                                             *)
Saved == {c \in Conns : hello[c].pc \in {"name", "list", "done"}}
OfHost(a, h) == a \in DOMAIN agents /\ agents[a].host = h
Registry ==
  /\ \A c \in Conns :
       /\ conn[c].id # None => OfHost(conn[c].id, conn[c].host)
       /\ hello[c].agent # None => OfHost(hello[c].agent, conn[c].host)
       /\ hello[c].pc \in {"name", "list", "done"} => hello[c].agent # None
       /\ IF hello[c].pc \in {"list", "done"} THEN conn[c].id = hello[c].agent
          ELSE conn[c].id = None
  /\ \A a \in Conns : clients[a] # None =>
       conn[clients[a]].id = a /\ hello[clients[a]].pc = "done"
  /\ Len(agents) <= Cardinality(Saved)

(* A host whose connections did not overlap, were not reset and not closed *)
(* before the hello was done: one connection at a time is worked on.       *)
Lists(c, h) == \E a \in Existing(h) : clients[a] = c
Settled(h) ==
  /\ \A a, b \in Existing(h) : a = b
  /\ \A c, d \in Conns : conn[c].host = h /\ conn[d].host = h
                         /\ conn[c].recv # "done" /\ conn[d].recv # "done" => c = d
  /\ \A c \in Conns : conn[c].host = h =>
       /\ conn[c].recv # "read" => hello[c].pc = "done"
       /\ hello[c].pc = "save" /\ hello[c].agent = None => Existing(h) = {}
       /\ Lists(c, h) <=> hello[c].pc = "done" /\ conn[c].recv \in {"read", "unlist"}
  /\ \A a \in Existing(h) : agents[a].active <=>
       \E c \in Saved : conn[c].host = h /\ conn[c].recv # "done"
AllSettled ==
  /\ \A c \in Conns : conn[c].up = "reset" => conn[c].host \in unsettled
  /\ \A h \in Hosts \ unsettled : Settled(h)

(* Message ids count the calls that have written one.                      *)
After == {"send", "sent", "waiting", "returned", "threw"}
Wrote(c) == {k \in Callers : caller[k].conn = c /\ caller[k].pc \in After \cup {"get"}}
Counted ==
  /\ \A c \in Conns : conn[c].msg_id <= Cardinality(Wrote(c))
  /\ \A k \in Callers :
       /\ caller[k].pc # "idle" =>
            caller[k].conn \in Conns /\ conn[caller[k].conn].up # "none"
       /\ caller[k].pc = "idle" => caller[k].answer = {}
       /\ caller[k].pc = "write" => caller[k].id <= Cardinality(Wrote(caller[k].conn))

(* Handlers, commands and answers carry the id of the call that sent them. *)
Called(k, c, i) ==
  /\ caller[k].conn = c /\ caller[k].id = i
  /\ caller[k].pc \in {"sent", "waiting", "returned", "threw"}
Ours ==
  \A c \in Conns, i \in Ids, k \in Callers :
    /\ <<i, k>> \in conn[c].handlers \cup conn[c].serving => Called(k, c, i)
    /\ \A j \in DOMAIN conn[c].sent : conn[c].sent[j] = <<"answer", i, k>> => Called(k, c, i)

(* As long as no two calls were in getMsgId at once, ids are unique.       *)
Alone ==
  \A c \in Conns \ raced, j, k \in Callers :
    caller[j].conn = c /\ caller[k].conn = c =>
      /\ caller[j].pc \in {"write", "get"} /\ caller[k].pc \in {"write", "get"} => j = k
      /\ caller[j].pc = "write" => caller[j].id = conn[c].msg_id
      /\ caller[j].pc \in After => caller[j].id <= conn[c].msg_id
      /\ caller[j].pc \in After /\ caller[k].pc = "get" => caller[j].id < conn[c].msg_id
      /\ caller[j].pc \in After /\ caller[k].pc \in After /\ caller[j].id = caller[k].id => j = k

(* Then every call gets its own answer, and as long as the connection is   *)
(* open, its command is with the agent or its answer was sent, once; an    *)
(* answer that was not processed has its handler.                          *)
Processed(c) == Len(conn[c].decoded) - Len(conn[c].mailbox)
Answers(c, i, k) == {j \in DOMAIN conn[c].sent : conn[c].sent[j] = <<"answer", i, k>>}
OnItsWay(c, i, k) ==
  /\ Called(k, c, i) => <<i, k>> \in conn[c].serving \/ Answers(c, i, k) # {}
  /\ <<i, k>> \in conn[c].serving => <<i, k>> \in conn[c].handlers /\ Answers(c, i, k) = {}
  /\ \A j \in Answers(c, i, k) :
       /\ Answers(c, i, k) = {j}
       /\ IF j <= Processed(c) THEN caller[k].answer = {k} ELSE <<i, k>> \in conn[c].handlers
OwnOnly(c) == \A k \in Callers : caller[k].conn = c => caller[k].answer \subseteq {k}
Answered ==
  \A c \in Conns \ raced :
    /\ OwnOnly(c)
    /\ conn[c].up = "open" =>
         conn[c].processing /\ \A i \in Ids, k \in Callers : OnItsWay(c, i, k)

Inv ==
  /\ Types /\ Streams /\ Hellos /\ Registry /\ AllSettled
  /\ Counted /\ Ours /\ Alone /\ Answered
-----------------------------------------------------------------------------
(* Pieces of a stream.                                                     *)

(* A message sent does not change what earlier pieces are.                 *)
LEMMA CutStays ==
  ASSUME NEW s \in Seq(Piece), NEW from \in Nat, NEW sent \in Seq(Message), NEW m \in Message,
         Cut(s, from, sent), from + Len(s) <= 2 * Len(sent)
  PROVE  Cut(s, from, Append(sent, m))
<1>1. /\ Len(Append(sent, m)) = Len(sent) + 1 /\ DOMAIN sent = 1 .. Len(sent)
      /\ DOMAIN Append(sent, m) = 1 .. Len(sent) + 1 /\ DOMAIN s = 1 .. Len(s)
      /\ \A k \in DOMAIN sent : Append(sent, m)[k] = sent[k]
      /\ Len(sent) \in Nat /\ Len(s) \in Nat
  BY AppendProperties, LenProperties
<1>2. ASSUME NEW p \in DOMAIN s, NEW k \in DOMAIN Append(sent, m),
             from + p = 2 * k - 1 \/ from + p = 2 * k
      PROVE  k \in DOMAIN sent
  BY <1>1, <1>2
<1> QED BY <1>1, <1>2 DEF Cut

(* Two parts that follow each other are one.                               *)
LEMMA CutConcat ==
  ASSUME NEW s \in Seq(Piece), NEW t \in Seq(Piece), NEW from \in Nat,
         NEW sent \in Seq(Message), Cut(s, from, sent), Cut(t, from + Len(s), sent)
  PROVE  Cut(s \o t, from, sent)
<1>1. /\ DOMAIN (s \o t) = 1 .. Len(s) + Len(t) /\ DOMAIN s = 1 .. Len(s)
      /\ DOMAIN t = 1 .. Len(t) /\ Len(s) \in Nat /\ Len(t) \in Nat
      /\ \A i \in 1 .. Len(s) + Len(t) :
           (s \o t)[i] = IF i <= Len(s) THEN s[i] ELSE t[i - Len(s)]
      /\ DOMAIN sent \subseteq Nat
  BY ConcatProperties, LenProperties
<1> SUFFICES ASSUME NEW p \in DOMAIN (s \o t), NEW k \in DOMAIN sent
             PROVE  /\ from + p = 2 * k - 1 => (s \o t)[p] = <<sent[k], "text">>
                    /\ from + p = 2 * k => (s \o t)[p] = <<sent[k], "nul">>
  BY DEF Cut
<1>2. CASE p <= Len(s)
  <2>1. p \in DOMAIN s /\ (s \o t)[p] = s[p]
    BY <1>1, <1>2
  <2> QED BY <2>1 DEF Cut
<1>3. CASE p > Len(s)
  <2>1. p - Len(s) \in DOMAIN t /\ (s \o t)[p] = t[p - Len(s)]
        /\ (from + Len(s)) + (p - Len(s)) = from + p
    BY <1>1, <1>3
  <2> QED BY <2>1 DEF Cut
<1> QED BY SMTT(30), <1>1, <1>2, <1>3

(* The parts of a part.                                                    *)
LEMMA CutSplit ==
  ASSUME NEW s \in Seq(Piece), NEW from \in Nat, NEW sent \in Seq(Message),
         Cut(s, from, sent), NEW n \in 0 .. Len(s)
  PROVE  /\ SubSeq(s, 1, n) \in Seq(Piece) /\ Len(SubSeq(s, 1, n)) = n
         /\ Cut(SubSeq(s, 1, n), from, sent)
         /\ SubSeq(s, n + 1, Len(s)) \in Seq(Piece)
         /\ Len(SubSeq(s, n + 1, Len(s))) = Len(s) - n
         /\ Cut(SubSeq(s, n + 1, Len(s)), from + n, sent)
<1> DEFINE a == SubSeq(s, 1, n)
           b == SubSeq(s, n + 1, Len(s))
<1>1. Len(s) \in Nat /\ DOMAIN s = 1 .. Len(s) /\ \A p \in 1 .. Len(s) : s[p] \in Piece
  BY LenProperties, ElementOfSeq
<1>2. /\ a \in Seq(Piece) /\ Len(a) = n /\ \A p \in 1 .. n : a[p] = s[p]
      /\ b \in Seq(Piece) /\ Len(b) = Len(s) - n
      /\ \A p \in 1 .. Len(s) - n : b[p] = s[n + p]
  <2>1. a \in Seq(Piece) /\ Len(a) = n /\ \A p \in 1 .. n - 1 + 1 : a[p] = s[1 + p - 1]
    <3>1. \A p \in 1 .. n : s[p] \in Piece
      BY <1>1
    <3>2. /\ SubSeq(s, 1, n) \in Seq(Piece)
          /\ Len(SubSeq(s, 1, n)) = IF 1 <= n THEN n - 1 + 1 ELSE 0
          /\ \A p \in 1 .. n - 1 + 1 : SubSeq(s, 1, n)[p] = s[1 + p - 1]
      BY <3>1, SubSeqProperties
    <3> QED BY <3>2
  <2>2. /\ b \in Seq(Piece) /\ Len(b) = Len(s) - n
        /\ \A p \in 1 .. Len(s) - (n + 1) + 1 : b[p] = s[n + 1 + p - 1]
    <3>1. \A p \in n + 1 .. Len(s) : s[p] \in Piece
      BY <1>1
    <3>2. /\ SubSeq(s, n + 1, Len(s)) \in Seq(Piece)
          /\ Len(SubSeq(s, n + 1, Len(s))) =
               IF n + 1 <= Len(s) THEN Len(s) - (n + 1) + 1 ELSE 0
          /\ \A p \in 1 .. Len(s) - (n + 1) + 1 :
               SubSeq(s, n + 1, Len(s))[p] = s[n + 1 + p - 1]
      BY <1>1, <3>1, SubSeqProperties
    <3> QED BY <1>1, <3>2
  <2>3. ASSUME NEW p \in 1 .. n PROVE a[p] = s[p]
    <3>1. p \in 1 .. n - 1 + 1 /\ 1 + p - 1 = p
      OBVIOUS
    <3> QED BY <2>1, <3>1
  <2>4. ASSUME NEW p \in 1 .. Len(s) - n PROVE b[p] = s[n + p]
    <3>1. p \in 1 .. Len(s) - (n + 1) + 1 /\ n + 1 + p - 1 = n + p
      BY <1>1
    <3> QED BY <2>2, <3>1
  <2> QED BY <2>1, <2>2, <2>3, <2>4
<1> HIDE DEF a, b
<1>3. DOMAIN a = 1 .. n /\ DOMAIN b = 1 .. Len(s) - n
  BY <1>2, LenProperties
<1>4. Cut(a, from, sent)
  BY <1>1, <1>2, <1>3 DEF Cut
<1>5. Cut(b, from + n, sent)
  <2> SUFFICES ASSUME NEW p \in DOMAIN b, NEW k \in DOMAIN sent
               PROVE  /\ (from + n) + p = 2 * k - 1 => b[p] = <<sent[k], "text">>
                      /\ (from + n) + p = 2 * k => b[p] = <<sent[k], "nul">>
    BY DEF Cut
  <2>1. n + p \in DOMAIN s /\ b[p] = s[n + p] /\ (from + n) + p = from + (n + p)
    BY <1>1, <1>2, <1>3
  <2> QED BY <2>1 DEF Cut
<1> QED BY <1>2, <1>4, <1>5 DEF a, b

(* What decodeByteBuffer makes of whole messages.                          *)
Whole(s) == \E q \in Nat : Len(s) = 2 * q
(* It gives exactly their texts.                                           *)
LEMMA TextsOfWhole ==
  ASSUME NEW s \in Seq(Piece), NEW decoded \in Seq(Message), NEW sent \in Seq(Message),
         Cut(s, 2 * Len(decoded), sent), Whole(s), 2 * Len(decoded) + Len(s) <= 2 * Len(sent)
  PROVE  /\ Texts(s) \in Seq(Message) /\ 2 * Len(Texts(s)) = Len(s)
         /\ \A k \in 1 .. Len(Texts(s)) : Texts(s)[k] = sent[Len(decoded) + k]
<1>0. PICK d \in Nat, q \in Nat : d = Len(decoded) /\ Len(s) = 2 * q
  BY LenProperties DEF Whole
<1>1. (Len(s) + 1) \div 2 = q
  BY <1>0, Z3
<1>2. /\ DOMAIN s = 1 .. 2 * q /\ DOMAIN sent = 1 .. Len(sent) /\ Len(sent) \in Nat
      /\ d + q <= Len(sent) /\ \A k \in 1 .. Len(sent) : sent[k] \in Message
  BY <1>0, LenProperties, ElementOfSeq
<1>3. ASSUME NEW k \in 1 .. q PROVE s[2 * k - 1][1] = sent[d + k] /\ sent[d + k] \in Message
  <2>1. 2 * k - 1 \in DOMAIN s /\ d + k \in DOMAIN sent
        /\ 2 * d + (2 * k - 1) = 2 * (d + k) - 1
    BY <1>2
  <2>2. s[2 * k - 1] = <<sent[d + k], "text">>
    BY <1>0, <2>1 DEF Cut
  <2> QED BY <1>2, <2>1, <2>2
<1>4. Texts(s) = [k \in 1 .. q |-> s[2 * k - 1][1]]
  BY <1>1 DEF Texts
<1>5. Texts(s) \in [1 .. q -> Message]
  BY <1>3, <1>4
<1>6. Texts(s) \in Seq(Message) /\ Len(Texts(s)) = q
  BY <1>5
<1> QED BY <1>0, <1>3, <1>4, <1>6

(* A number is even or odd.                                                *)
LEMMA Halves ==
  ASSUME NEW n \in Nat
  PROVE  \E q \in Nat : q = n \div 2 /\ (n = 2 * q \/ n = 2 * q + 1)
OBVIOUS

(* A buffer that ends with a NUL holds whole messages.                     *)
LEMMA WholeIfNul ==
  ASSUME NEW s \in Seq(Piece), NEW d \in Nat, NEW sent \in Seq(Message),
         Cut(s, 2 * d, sent), s # <<>>, Decodes(s), 2 * d + Len(s) <= 2 * Len(sent)
  PROVE  Whole(s)
<1>1. Len(s) \in Nat \ {0} /\ Len(sent) \in Nat /\ DOMAIN sent = 1 .. Len(sent)
      /\ DOMAIN s = 1 .. Len(s)
  BY EmptySeq, LenProperties
<1>2. CASE \E q \in Nat : Len(s) = 2 * q
  BY <1>2 DEF Whole
<1>3. CASE \E q \in Nat : Len(s) = 2 * q + 1
  <2>1. PICK q \in Nat : Len(s) = 2 * q + 1
    BY <1>3
  <2>2. d + q + 1 \in DOMAIN sent /\ Len(s) \in DOMAIN s
        /\ 2 * d + Len(s) = 2 * (d + q + 1) - 1
    BY <1>1, <2>1
  <2>3. s[Len(s)] = <<sent[d + q + 1], "text">>
    BY <2>2 DEF Cut
  <2> QED BY <2>3 DEF Decodes
<1> QED BY <1>1, <1>2, <1>3, Halves
-----------------------------------------------------------------------------
(* What each operation on a connection makes of its stream and its mail.   *)

(* The two pieces of a message.                                            *)
LEMMA PiecesOf ==
  ASSUME NEW m \in Message
  PROVE  /\ Pieces(m) \in Seq(Piece) /\ Len(Pieces(m)) = 2
         /\ DOMAIN Pieces(m) = {1, 2}
         /\ Pieces(m)[1] = <<m, "text">> /\ Pieces(m)[2] = <<m, "nul">>
BY DEF Pieces, Piece

(* A message is sent.                                                      *)
LEMMA SendStream ==
  ASSUME NEW sent \in Seq(Message), NEW decoded \in Seq(Message), NEW buf \in Seq(Piece),
         NEW in \in Seq(Piece), NEW m \in Message,
         Stream(sent, decoded, buf, in), Reaches(decoded, buf, in) = 2 * Len(sent)
  PROVE  /\ Stream(Append(sent, m), decoded, buf, in \o Pieces(m))
         /\ Reaches(decoded, buf, in \o Pieces(m)) = 2 * Len(Append(sent, m))
<1> DEFINE s == Append(sent, m)
           i == in \o Pieces(m)
           from == 2 * Len(decoded) + Len(buf)
<1>1. /\ Len(sent) \in Nat /\ Len(in) \in Nat /\ Len(buf) \in Nat /\ Len(decoded) \in Nat
      /\ DOMAIN decoded = 1 .. Len(decoded) /\ DOMAIN sent = 1 .. Len(sent)
  BY LenProperties
<1>2. /\ s \in Seq(Message) /\ Len(s) = Len(sent) + 1 /\ DOMAIN s = 1 .. Len(sent) + 1
      /\ \A k \in DOMAIN sent : s[k] = sent[k]
      /\ s[Len(sent) + 1] = m
  BY <1>1, AppendProperties, LenProperties
<1>3. i \in Seq(Piece) /\ Len(i) = Len(in) + 2
  <2>1. Pieces(m) \in Seq(Piece) /\ Len(Pieces(m)) = 2
    BY PiecesOf
  <2>2. i \in Seq(Piece) /\ Len(i) = Len(in) + Len(Pieces(m))
    BY <2>1, ConcatProperties
  <2> QED BY <2>1, <2>2
<1>4. from \in Nat /\ from + Len(in) = 2 * Len(sent)
  BY <1>1 DEF Reaches
<1>5. Cut(buf, 2 * Len(decoded), s)
  <2>1. 2 * Len(decoded) \in Nat /\ 2 * Len(decoded) + Len(buf) <= 2 * Len(sent)
    BY <1>1, <1>4
  <2>2. Cut(buf, 2 * Len(decoded), sent)
    BY DEF Stream
  <2> QED BY <2>1, <2>2, CutStays
<1> HIDE DEF s, i
<1>6. Cut(i, from, s)
  <2>1. Cut(in, from, s)
    <3>1. Cut(in, from, sent) /\ from + Len(in) <= 2 * Len(sent)
      BY <1>1, <1>4 DEF Stream
    <3> HIDE DEF from
    <3> QED BY <1>4, <3>1, CutStays DEF s
  <2>2. Cut(Pieces(m), from + Len(in), s)
    <3>1. ASSUME NEW p \in {1, 2}, NEW k \in DOMAIN s
          PROVE  /\ from + Len(in) + p = 2 * k - 1 => p = 1 /\ k = Len(sent) + 1
                 /\ from + Len(in) + p = 2 * k => p = 2 /\ k = Len(sent) + 1
      BY <1>1, <1>2, <1>4
    <3> HIDE DEF from
    <3> SUFFICES ASSUME NEW p \in {1, 2}, NEW k \in DOMAIN s
                 PROVE  /\ from + Len(in) + p = 2 * k - 1 => Pieces(m)[p] = <<s[k], "text">>
                        /\ from + Len(in) + p = 2 * k => Pieces(m)[p] = <<s[k], "nul">>
      <4>1. DOMAIN Pieces(m) = {1, 2}
        BY PiecesOf
      <4> QED BY <4>1 DEF Cut
    <3> QED BY <1>2, <3>1, PiecesOf
  <2> HIDE DEF from
  <2> QED BY <1>2, <1>4, <2>1, <2>2, PiecesOf, CutConcat DEF i
<1>7. Reaches(decoded, buf, i) = 2 * Len(s)
  <2>1. Reaches(decoded, buf, i) = from + Len(i)
    BY DEF Reaches
  <2> HIDE DEF from
  <2>2. \A f, j, k \in Nat : f + j = 2 * k => f + (j + 2) = 2 * (k + 1)
    OBVIOUS
  <2>3. from + (Len(in) + 2) = 2 * (Len(sent) + 1)
    BY SMTT(30), <1>1, <1>4, <2>2
  <2>4. Len(i) = Len(in) + 2 /\ Len(s) = Len(sent) + 1
    BY <1>2, <1>3
  <2> QED BY <2>1, <2>3, <2>4
<1>8. \A k \in DOMAIN decoded : decoded[k] = s[k]
  <2>1. DOMAIN decoded \subseteq DOMAIN sent
    BY <1>1, <1>4
  <2> QED BY <1>2, <2>1 DEF Stream
<1>9. Stream(s, decoded, buf, i)
  <2>1. 2 * Len(s) \in Nat
    BY <1>1, <1>2
  <2>2. Reaches(decoded, buf, i) <= 2 * Len(s)
    BY <1>7, <2>1
  <2> QED BY <1>5, <1>6, <1>8, <2>2 DEF Stream
<1> QED BY <1>7, <1>9 DEF s, i

(* It is the hello if it is the first.                                     *)
LEMMA SendMail ==
  ASSUME NEW sent \in Seq(Message), NEW m \in Message, NEW mailbox, Mail(mailbox, sent),
         HelloFirst(sent), m = <<"hello">> => sent = <<>>
  PROVE  Mail(mailbox, Append(sent, m)) /\ HelloFirst(Append(sent, m))
<1> DEFINE s == Append(sent, m)
<1>1. /\ Len(sent) \in Nat /\ DOMAIN sent = 1 .. Len(sent)
      /\ s \in Seq(Message) /\ DOMAIN s = 1 .. Len(sent) + 1
      /\ \A k \in DOMAIN sent : s[k] = sent[k]
      /\ s[Len(sent) + 1] = m
  BY AppendProperties, LenProperties
<1>2. m = <<"hello">> => Len(sent) = 0
  OBVIOUS
<1> HIDE DEF s
<1>3. \A k \in DOMAIN s : k \in DOMAIN sent \/ k = Len(sent) + 1
  BY <1>1
<1>4. HelloFirst(s)
  <2> SUFFICES ASSUME NEW k \in DOMAIN s, s[k] = <<"hello">> PROVE k = 1
    BY DEF HelloFirst
  <2>1. CASE k \in DOMAIN sent
    BY <1>1, <2>1 DEF HelloFirst
  <2>2. CASE k = Len(sent) + 1
    <3>1. Len(sent) = 0
      BY <1>1, <1>2, <2>2
    <3> QED BY <2>2, <3>1
  <2> QED BY <1>3, <2>1, <2>2
<1>5. Mail(mailbox, s)
  <2>1. DOMAIN sent \subseteq DOMAIN s
    BY <1>1
  <2> QED BY <1>1, <2>1 DEF Mail
<1> QED BY <1>4, <1>5 DEF s

(* What was under way is lost in part.                                     *)
LEMMA CloseStream ==
  ASSUME NEW sent \in Seq(Message), NEW decoded \in Seq(Message), NEW buf \in Seq(Piece),
         NEW in \in Seq(Piece), NEW n \in 0 .. Len(in), Stream(sent, decoded, buf, in)
  PROVE  Stream(sent, decoded, buf, SubSeq(in, 1, n)) /\ SubSeq(in, 1, n) \in Seq(Piece)
<1> DEFINE from == 2 * Len(decoded) + Len(buf)
           i == SubSeq(in, 1, n)
<1>1. /\ Len(sent) \in Nat /\ Len(in) \in Nat /\ Len(buf) \in Nat /\ Len(decoded) \in Nat
  BY LenProperties
<1>2. from \in Nat
  BY <1>1
<1>3. i \in Seq(Piece) /\ Len(i) = n /\ Cut(i, from, sent)
  <2>1. Cut(in, from, sent)
    BY DEF Stream
  <2> HIDE DEF from
  <2> QED BY <1>2, <2>1, CutSplit
<1> HIDE DEF i
<1>4. Reaches(decoded, buf, i) <= 2 * Len(sent)
  BY <1>1, <1>3 DEF Stream, Reaches
<1>5. Stream(sent, decoded, buf, i)
  BY <1>3, <1>4 DEF Stream
<1> QED BY <1>3, <1>5 DEF i

(* A chunk is read into the buffer.                                        *)
LEMMA ReadStream ==
  ASSUME NEW sent \in Seq(Message), NEW decoded \in Seq(Message), NEW buf \in Seq(Piece),
         NEW in \in Seq(Piece), NEW n \in 0 .. Len(in), Stream(sent, decoded, buf, in)
  PROVE  /\ buf \o SubSeq(in, 1, n) \in Seq(Piece)
         /\ SubSeq(in, n + 1, Len(in)) \in Seq(Piece)
         /\ Stream(sent, decoded, buf \o SubSeq(in, 1, n), SubSeq(in, n + 1, Len(in)))
         /\ Reaches(decoded, buf \o SubSeq(in, 1, n), SubSeq(in, n + 1, Len(in)))
              = Reaches(decoded, buf, in)
         /\ Len(buf \o SubSeq(in, 1, n)) = Len(buf) + n
<1> DEFINE chunk == SubSeq(in, 1, n)
           b == buf \o chunk
           i == SubSeq(in, n + 1, Len(in))
           d == 2 * Len(decoded)
           from == d + Len(buf)
<1>1. /\ Len(sent) \in Nat /\ Len(in) \in Nat /\ Len(buf) \in Nat /\ d \in Nat
  BY LenProperties
<1>2. from \in Nat
  BY <1>1
<1>3. /\ chunk \in Seq(Piece) /\ Len(chunk) = n /\ Cut(chunk, from, sent)
      /\ i \in Seq(Piece) /\ Len(i) = Len(in) - n /\ Cut(i, from + n, sent)
  <2>1. Cut(in, from, sent)
    BY DEF Stream
  <2> HIDE DEF from
  <2> QED BY <1>2, <2>1, CutSplit
<1>4. Cut(buf, d, sent) /\ Cut(chunk, d + Len(buf), sent)
  BY <1>3 DEF Stream
<1> HIDE DEF chunk, i, d
<1>5. b \in Seq(Piece) /\ Len(b) = Len(buf) + n
  BY <1>1, <1>3, ConcatProperties
<1>6. Cut(b, d, sent)
  BY <1>1, <1>3, <1>4, CutConcat
<1>7. Reaches(decoded, b, i) = d + Len(b) + Len(i)
      /\ Reaches(decoded, buf, in) = d + Len(buf) + Len(in)
  BY DEF Reaches, d
<1>8. from + n = d + Len(b)
  BY <1>1, <1>5
<1> HIDE DEF b
<1>9. Reaches(decoded, b, i) = Reaches(decoded, buf, in)
  BY <1>1, <1>3, <1>5, <1>7
<1>10. Cut(i, 2 * Len(decoded) + Len(b), sent)
  BY <1>3, <1>8 DEF d
<1>11. Stream(sent, decoded, b, i)
  BY <1>6, <1>9, <1>10 DEF Stream, d
<1> QED BY <1>3, <1>5, <1>9, <1>11 DEF b, i, chunk

(* Whole messages are decoded: nothing of them stays in the buffer.        *)
LEMMA DecodeStream ==
  ASSUME NEW sent \in Seq(Message), NEW decoded \in Seq(Message), NEW buf \in Seq(Piece),
         NEW in \in Seq(Piece), Whole(buf), Stream(sent, decoded, buf, in)
  PROVE  /\ Texts(buf) \in Seq(Message) /\ decoded \o Texts(buf) \in Seq(Message)
         /\ Stream(sent, decoded \o Texts(buf), <<>>, in)
         /\ Reaches(decoded \o Texts(buf), <<>>, in) = Reaches(decoded, buf, in)
         /\ Len(decoded) + Len(Texts(buf)) <= Len(sent)
         /\ \A k \in 1 .. Len(Texts(buf)) : Texts(buf)[k] = sent[Len(decoded) + k]
<1> DEFINE x == Texts(buf)
           d == decoded \o x
<1> PICK q \in Nat : Len(buf) = 2 * q
  BY DEF Whole
<1>1. /\ Len(sent) \in Nat /\ Len(in) \in Nat /\ Len(decoded) \in Nat
      /\ DOMAIN decoded = 1 .. Len(decoded)
  BY LenProperties
<1>2. Len(decoded) + q <= Len(sent)
  BY <1>1 DEF Stream, Reaches
<1>3. /\ x \in Seq(Message) /\ Len(x) = q
      /\ \A k \in 1 .. q : x[k] = sent[Len(decoded) + k]
  <2>1. Cut(buf, 2 * Len(decoded), sent) /\ 2 * Len(decoded) + Len(buf) <= 2 * Len(sent)
    BY <1>1, <1>2 DEF Stream
  <2>2. /\ x \in Seq(Message) /\ 2 * Len(x) = Len(buf)
        /\ \A k \in 1 .. Len(x) : x[k] = sent[Len(decoded) + k]
    BY <2>1, TextsOfWhole
  <2> HIDE DEF x
  <2>3. Len(x) \in Nat
    BY <2>2, LenProperties
  <2>4. Len(x) = q
    BY <2>2, <2>3
  <2> QED BY <2>2, <2>4
<1> HIDE DEF x
<1>4. /\ d \in Seq(Message) /\ Len(d) = Len(decoded) + q
      /\ DOMAIN d = 1 .. Len(decoded) + q
      /\ \A k \in 1 .. Len(decoded) + q :
           d[k] = IF k <= Len(decoded) THEN decoded[k] ELSE x[k - Len(decoded)]
  <2>1. /\ d \in Seq(Message) /\ Len(d) = Len(decoded) + Len(x)
        /\ \A k \in 1 .. Len(decoded) + Len(x) :
             d[k] = IF k <= Len(decoded) THEN decoded[k] ELSE x[k - Len(decoded)]
    BY <1>3, ConcatProperties
  <2>2. DOMAIN d = 1 .. Len(d)
    BY <2>1, LenProperties
  <2> QED BY <1>3, <2>1, <2>2
<1> HIDE DEF d
<1>5. ASSUME NEW k \in DOMAIN d PROVE d[k] = sent[k]
  <2>1. CASE k <= Len(decoded)
    BY <1>1, <1>4, <2>1 DEF Stream
  <2>2. CASE k > Len(decoded)
    <3>1. k - Len(decoded) \in 1 .. q /\ Len(decoded) + (k - Len(decoded)) = k
      <4>1. k \in 1 .. Len(decoded) + q
        BY <1>4
      <4> QED BY <1>1, <2>2, <4>1
    <3> QED BY <1>3, <1>4, <2>2, <3>1
  <2> QED BY <1>1, <1>4, <2>1, <2>2
<1>6. 2 * Len(d) = 2 * Len(decoded) + Len(buf)
  BY <1>1, <1>4
<1>7. Reaches(d, <<>>, in) = Reaches(decoded, buf, in)
  <2>1. Reaches(d, <<>>, in) = 2 * Len(d) + 0 + Len(in)
        /\ Reaches(decoded, buf, in) = 2 * Len(decoded) + Len(buf) + Len(in)
    BY DEF Reaches
  <2> QED BY <1>1, <1>4, <2>1
<1>8. Cut(<<>>, 2 * Len(d), sent) /\ Cut(in, 2 * Len(d) + Len(<<>>), sent)
  <2>1. 2 * Len(d) + Len(<<>>) = 2 * Len(decoded) + Len(buf)
    BY <1>1, <1>4
  <2>2. Cut(in, 2 * Len(d) + Len(<<>>), sent)
    BY <2>1 DEF Stream
  <2> QED BY <2>2 DEF Cut
<1>9. Stream(sent, d, <<>>, in)
  BY <1>5, <1>7, <1>8 DEF Stream
<1> QED BY <1>1, <1>2, <1>3, <1>4, <1>7, <1>9 DEF d, x

(* They go to the processor.                                               *)
LEMMA DecodeMail ==
  ASSUME NEW sent \in Seq(Message), NEW decoded \in Seq(Message), NEW x \in Seq(Message),
         NEW mailbox \in Seq(Message \cup {<<"stop">>}),
         Rest(mailbox, decoded), Mail(mailbox, sent), HelloFirst(sent),
         Len(decoded) + Len(x) <= Len(sent),
         \A k \in 1 .. Len(x) : x[k] = sent[Len(decoded) + k]
  PROVE  /\ mailbox \o x \in Seq(Message \cup {<<"stop">>})
         /\ Rest(mailbox \o x, decoded \o x) /\ Mail(mailbox \o x, sent)
         /\ Len(mailbox \o x) - Len(mailbox) = Len(x)
         /\ \A n \in DOMAIN (mailbox \o x) : (mailbox \o x)[n] = <<"hello">> =>
              \/ n \in DOMAIN mailbox /\ mailbox[n] = <<"hello">>
              \/ decoded = <<>>
<1> DEFINE b == mailbox \o x
           d == decoded \o x
           M == Message \cup {<<"stop">>}
<1>1. /\ Len(sent) \in Nat /\ Len(x) \in Nat /\ Len(decoded) \in Nat /\ Len(mailbox) \in Nat
      /\ DOMAIN decoded = 1 .. Len(decoded) /\ DOMAIN mailbox = 1 .. Len(mailbox)
      /\ DOMAIN sent = 1 .. Len(sent)
  BY LenProperties
<1>2. /\ d \in Seq(Message) /\ Len(d) = Len(decoded) + Len(x)
      /\ \A k \in 1 .. Len(decoded) + Len(x) :
           d[k] = IF k <= Len(decoded) THEN decoded[k] ELSE x[k - Len(decoded)]
  BY ConcatProperties
<1>3. /\ b \in Seq(M) /\ Len(b) = Len(mailbox) + Len(x) /\ DOMAIN b = 1 .. Len(mailbox) + Len(x)
      /\ \A k \in 1 .. Len(mailbox) + Len(x) :
           b[k] = IF k <= Len(mailbox) THEN mailbox[k] ELSE x[k - Len(mailbox)]
  <2>1. x \in Seq(M)
    BY SeqMonotonic
  <2> HIDE DEF M
  <2> QED BY <2>1, ConcatProperties, LenProperties DEF M
<1> HIDE DEF b, d, M
<1>4. ASSUME NEW n \in DOMAIN b PROVE
        /\ b[n] = d[Len(d) - Len(b) + n]
        /\ b[n] = <<"stop">> \/ \E k \in DOMAIN sent : b[n] = sent[k]
        /\ b[n] = <<"hello">> => n = 1
        /\ b[n] = <<"hello">> => (n \in DOMAIN mailbox /\ mailbox[n] = <<"hello">>) \/ decoded = <<>>
  <2>1. Len(d) - Len(b) = Len(decoded) - Len(mailbox) /\ Len(mailbox) <= Len(decoded)
    BY <1>1, <1>2, <1>3 DEF Rest
  <2>2. CASE n <= Len(mailbox)
    <3>1. n \in DOMAIN mailbox /\ b[n] = mailbox[n]
      BY <1>1, <1>3, <2>2
    <3>2. /\ Len(decoded) - Len(mailbox) + n \in 1 .. Len(decoded) + Len(x)
          /\ Len(decoded) - Len(mailbox) + n <= Len(decoded)
      BY <1>1, <2>1, <3>1
    <3>3. d[Len(decoded) - Len(mailbox) + n] = decoded[Len(decoded) - Len(mailbox) + n]
      BY <1>2, <3>2
    <3>4. mailbox[n] = decoded[Len(decoded) - Len(mailbox) + n]
      BY <3>1 DEF Rest
    <3> QED BY <2>1, <3>1, <3>3, <3>4 DEF Mail
  <2>3. CASE n > Len(mailbox)
    <3> DEFINE k == n - Len(mailbox)
    <3>1. k \in 1 .. Len(x) /\ b[n] = x[k]
      BY <1>1, <1>3, <2>3
    <3>2. /\ Len(d) - Len(b) + n = Len(decoded) + k
          /\ Len(decoded) + k \in 1 .. Len(decoded) + Len(x)
          /\ ~(Len(decoded) + k <= Len(decoded)) /\ (Len(decoded) + k) - Len(decoded) = k
          /\ Len(decoded) + k \in DOMAIN sent
      <4>1. n \in Int
        BY <1>3
      <4>2. Len(d) - Len(b) + n = Len(decoded) + k
        <5>1. Len(d) - Len(b) + n = (Len(decoded) - Len(mailbox)) + n
          BY <2>1
        <5>2. (Len(decoded) - Len(mailbox)) + n = Len(decoded) + (n - Len(mailbox))
          BY <1>1, <4>1
        <5> QED BY <5>1, <5>2
      <4>3. k \in 1 .. Len(x)
        BY <3>1
      <4> HIDE DEF k
      <4>4. Len(decoded) + k \in 1 .. Len(decoded) + Len(x)
            /\ ~(Len(decoded) + k <= Len(decoded)) /\ (Len(decoded) + k) - Len(decoded) = k
        BY <1>1, <4>3
      <4>5. Len(decoded) + k \in DOMAIN sent
        BY <1>1, <4>4
      <4> QED BY <4>2, <4>4, <4>5
    <3>3. d[Len(decoded) + k] = x[k]
      BY <1>2, <3>2
    <3>4. b[n] = sent[Len(decoded) + k]
      BY <3>1
    <3>5. b[n] = <<"hello">> => Len(decoded) + k = 1
      BY <3>2, <3>4 DEF HelloFirst
    <3>6. Len(decoded) + k = 1 => Len(decoded) = 0 /\ n = 1
      BY <1>1, <2>1, <2>3, <3>1
    <3>7. Len(decoded) = 0 => decoded = <<>>
      BY EmptySeq
    <3> QED BY <3>1, <3>2, <3>3, <3>4, <3>5, <3>6, <3>7
  <2> QED BY <1>1, <1>3, <2>2, <2>3
<1>5. Rest(b, d)
  BY <1>1, <1>2, <1>3, <1>4 DEF Rest
<1>6. Mail(b, sent)
  BY <1>4 DEF Mail
<1>7. Len(b) - Len(mailbox) = Len(x)
  BY <1>1, <1>3
<1>8. \A n \in DOMAIN b : b[n] = <<"hello">> =>
        (n \in DOMAIN mailbox /\ mailbox[n] = <<"hello">>) \/ decoded = <<>>
  BY <1>4
<1> QED BY <1>3, <1>5, <1>6, <1>7, <1>8 DEF b, d, M

(* Both at once: what decoding does to a connection.                       *)
Decoded(sent, decoded, mailbox, buf, in, d, b) ==
  /\ d \in Seq(Message) /\ b \in Seq(Message \cup {<<"stop">>})
  /\ Stream(sent, d, <<>>, in) /\ Reaches(d, <<>>, in) = Reaches(decoded, buf, in)
  /\ Rest(b, d) /\ Mail(b, sent) /\ Len(d) - Len(b) = Len(decoded) - Len(mailbox)
  /\ \A j \in DOMAIN b : b[j] = <<"hello">> =>
       (j \in DOMAIN mailbox /\ mailbox[j] = <<"hello">>) \/ decoded = <<>>
  /\ decoded # <<>> => d # <<>>

(* What decoding a longer stream adds to what was decoded.                 *)
LEMMA Decoding ==
  ASSUME NEW sent \in Seq(Message), NEW decoded \in Seq(Message), NEW buf \in Seq(Piece),
         NEW in \in Seq(Piece), NEW mailbox \in Seq(Message \cup {<<"stop">>}),
         Whole(buf), Stream(sent, decoded, buf, in),
         Rest(mailbox, decoded), Mail(mailbox, sent), HelloFirst(sent)
  PROVE  Decoded(sent, decoded, mailbox, buf, in, decoded \o Texts(buf), mailbox \o Texts(buf))
<1> DEFINE x == Texts(buf)
           b == mailbox \o x
           d == decoded \o x
<1>1. /\ x \in Seq(Message) /\ d \in Seq(Message)
      /\ Stream(sent, d, <<>>, in) /\ Reaches(d, <<>>, in) = Reaches(decoded, buf, in)
      /\ Len(decoded) + Len(x) <= Len(sent)
      /\ \A k \in 1 .. Len(x) : x[k] = sent[Len(decoded) + k]
  BY DecodeStream
<1> HIDE DEF x
<1>2. /\ b \in Seq(Message \cup {<<"stop">>})
      /\ Rest(b, d) /\ Mail(b, sent) /\ Len(b) - Len(mailbox) = Len(x)
      /\ \A j \in DOMAIN b : b[j] = <<"hello">> =>
           (j \in DOMAIN mailbox /\ mailbox[j] = <<"hello">>) \/ decoded = <<>>
  BY <1>1, DecodeMail
<1>3. Len(d) = Len(decoded) + Len(x)
  BY <1>1, ConcatProperties
<1> HIDE DEF b, d
<1>4. Len(d) \in Nat /\ Len(b) \in Nat /\ Len(x) \in Nat /\ Len(decoded) \in Nat
      /\ Len(mailbox) \in Nat
  BY <1>1, <1>2, LenProperties
<1>5. Len(d) - Len(b) = Len(decoded) - Len(mailbox)
  <2>1. PICK i \in Nat, k \in Nat, l \in Nat, m \in Nat, n \in Nat :
          /\ i = Len(d) /\ k = Len(decoded) /\ l = Len(b) /\ m = Len(mailbox) /\ n = Len(x)
    BY <1>4
  <2>2. l - m = n /\ i = k + n
    BY <1>2, <1>3, <2>1
  <2>3. i - l = k - m
    BY <2>2
  <2> QED BY <2>1, <2>3
<1>6. decoded # <<>> => d # <<>>
  <2>1. decoded # <<>> => Len(decoded) # 0
    BY EmptySeq
  <2>2. decoded # <<>> => Len(d) # 0
    BY <1>3, <1>4, <2>1
  <2> QED BY <2>2
<1> QED BY <1>1, <1>2, <1>5, <1>6 DEF b, d, x, Decoded

(* A message is processed.                                                 *)
LEMMA TakeMail ==
  ASSUME NEW sent \in Seq(Message), NEW decoded \in Seq(Message),
         NEW mailbox \in Seq(Message \cup {<<"stop">>}), mailbox # <<>>, Mail(mailbox, sent)
  PROVE  /\ Head(mailbox) = mailbox[1] /\ 1 \in DOMAIN mailbox
         /\ Tail(mailbox) \in Seq(Message \cup {<<"stop">>}) /\ Mail(Tail(mailbox), sent)
         /\ Len(Tail(mailbox)) = Len(mailbox) - 1
         /\ \A n \in DOMAIN Tail(mailbox) : Tail(mailbox)[n] # <<"hello">>
         /\ Rest(mailbox, decoded) =>
              /\ Rest(Tail(mailbox), decoded)
              /\ Len(decoded) - Len(Tail(mailbox)) = Len(decoded) - Len(mailbox) + 1
              /\ Len(decoded) - Len(mailbox) + 1 \in DOMAIN decoded
              /\ mailbox[1] = decoded[Len(decoded) - Len(mailbox) + 1]
<1> DEFINE M == Message \cup {<<"stop">>}
           b == Tail(mailbox)
<1>1. /\ b \in Seq(M) /\ Len(b) = Len(mailbox) - 1
      /\ \A n \in 1 .. Len(b) : b[n] = mailbox[n + 1]
  BY HeadTailProperties
<1>2. /\ Len(mailbox) \in Nat \ {0} /\ DOMAIN mailbox = 1 .. Len(mailbox)
      /\ Head(mailbox) = mailbox[1] /\ DOMAIN b = 1 .. Len(mailbox) - 1
      /\ Len(decoded) \in Nat /\ DOMAIN decoded = 1 .. Len(decoded)
  BY <1>1, EmptySeq, LenProperties
<1> HIDE DEF b, M
<1>3. ASSUME NEW n \in DOMAIN b PROVE
        /\ n + 1 \in DOMAIN mailbox /\ b[n] = mailbox[n + 1] /\ n + 1 # 1
  BY <1>1, <1>2
<1>4. \A n \in DOMAIN b : b[n] # <<"hello">>
  BY <1>3 DEF Mail
<1>5. Mail(b, sent)
  BY <1>3, <1>4 DEF Mail
<1>6. ASSUME Rest(mailbox, decoded) PROVE
        /\ Rest(b, decoded)
        /\ Len(decoded) - Len(b) = Len(decoded) - Len(mailbox) + 1
        /\ Len(decoded) - Len(mailbox) + 1 \in DOMAIN decoded
        /\ mailbox[1] = decoded[Len(decoded) - Len(mailbox) + 1]
  <2>1. Len(mailbox) <= Len(decoded)
    BY <1>6 DEF Rest
  <2>2. Len(decoded) - Len(b) = Len(decoded) - Len(mailbox) + 1
        /\ Len(decoded) - Len(mailbox) + 1 \in DOMAIN decoded /\ Len(b) <= Len(decoded)
    BY <1>1, <1>2, <2>1
  <2>3. ASSUME NEW n \in DOMAIN b PROVE b[n] = decoded[Len(decoded) - Len(b) + n]
    <3>1. n \in Int
      BY <1>2
    <3>2. Len(decoded) - Len(b) + n = Len(decoded) - Len(mailbox) + (n + 1)
      BY <1>1, <1>2, <3>1
    <3>3. mailbox[n + 1] = decoded[Len(decoded) - Len(mailbox) + (n + 1)]
      BY <1>3, <1>6 DEF Rest
    <3> QED BY <1>3, <3>2, <3>3
  <2>4. mailbox[1] = decoded[Len(decoded) - Len(mailbox) + 1]
    BY <1>2, <1>6 DEF Rest
  <2> QED BY <2>2, <2>3, <2>4 DEF Rest
<1> QED BY <1>1, <1>2, <1>4, <1>5, <1>6 DEF b, M
-----------------------------------------------------------------------------
(* What a step leaves alone.                                               *)

(* A step on one connection.                                               *)
LEMMA ConnStep ==
  ASSUME Types, Streams, NEW c \in Conns, NEW v \in ConnType, ConnOK(v),
         conn' = [conn EXCEPT ![c] = v]
  PROVE  /\ conn' \in [Conns -> ConnType] /\ Streams'
         /\ conn'[c] = v /\ \A d \in Conns \ {c} : conn'[d] = conn[d]
<1>1. conn \in [Conns -> ConnType]
  BY DEF Types
<1>2. /\ conn' \in [Conns -> ConnType]
      /\ conn'[c] = v /\ \A d \in Conns \ {c} : conn'[d] = conn[d]
  BY <1>1
<1>3. \A d \in Conns : ConnOK(conn'[d])
  BY <1>2 DEF Streams
<1> QED BY <1>2, <1>3 DEF Streams

(* Nothing that the registry is about, except that a connection may be     *)
(* taken from the list and an agent set active or inactive.                *)
LEMMA RegistryKeeps ==
  ASSUME Types, Registry, hello' = hello, Len(agents') = Len(agents),
         \A a \in Conns : clients'[a] \in {clients[a], None},
         \A a, h : OfHost(a, h)' = OfHost(a, h),
         \A d \in Conns : conn'[d].id = conn[d].id /\ conn'[d].host = conn[d].host
  PROVE  Registry'
<1>1. Saved' = Saved
  BY DEF Saved
<1>2. \A a \in Conns : clients[a] # None => clients[a] \in Conns
  BY DEF Types
<1>3. ASSUME NEW d \in Conns PROVE
        /\ conn'[d].id # None => OfHost(conn[d].id, conn[d].host)'
        /\ hello'[d].agent # None => OfHost(hello[d].agent, conn[d].host)'
        /\ hello'[d].pc \in {"name", "list", "done"} => hello'[d].agent # None
        /\ IF hello'[d].pc \in {"list", "done"} THEN conn'[d].id = hello'[d].agent
           ELSE conn'[d].id = None
  <2>1. conn'[d].id = conn[d].id /\ conn'[d].host = conn[d].host
    OBVIOUS
  <2>2. conn'[d].id # None => OfHost(conn[d].id, conn[d].host)'
    <3>1. OfHost(conn[d].id, conn[d].host)' <=> conn'[d].id \in DOMAIN agents'
            /\ agents'[conn'[d].id].host = conn'[d].host
      BY DEF OfHost
    <3>2. \A a, h : (a \in DOMAIN agents' /\ agents'[a].host = h) <=> OfHost(a, h)
      BY DEF OfHost
    <3> QED BY <2>1, <3>1, <3>2 DEF Registry
  <2>3. hello'[d].agent # None => OfHost(hello[d].agent, conn[d].host)'
    <3>1. OfHost(hello[d].agent, conn[d].host)' <=> hello'[d].agent \in DOMAIN agents'
            /\ agents'[hello'[d].agent].host = conn'[d].host
      BY DEF OfHost
    <3>2. \A a, h : (a \in DOMAIN agents' /\ agents'[a].host = h) <=> OfHost(a, h)
      BY DEF OfHost
    <3> QED BY <2>1, <3>1, <3>2 DEF Registry
  <2>4. /\ hello'[d].pc \in {"name", "list", "done"} => hello'[d].agent # None
        /\ IF hello'[d].pc \in {"list", "done"} THEN conn'[d].id = hello'[d].agent
           ELSE conn'[d].id = None
    BY <2>1 DEF Registry
  <2> QED BY <2>2, <2>3, <2>4
<1>4. \A a \in Conns : clients'[a] # None =>
       conn'[clients'[a]].id = a /\ hello'[clients'[a]].pc = "done"
  BY <1>2 DEF Registry
<1>5. Len(agents') <= Cardinality(Saved')
  BY <1>1 DEF Registry
<1> QED BY <1>3, <1>4, <1>5 DEF Registry, OfHost

(* Nothing at all.                                                         *)
LEMMA RegistryStays ==
  ASSUME Types, Registry, hello' = hello, clients' = clients, agents' = agents,
         \A d \in Conns : conn'[d].id = conn[d].id /\ conn'[d].host = conn[d].host
  PROVE  Registry'
<1>1. \A a, h : OfHost(a, h)' = OfHost(a, h)
  BY DEF OfHost
<1>2. \A a \in Conns : clients'[a] \in {clients[a], None}
  OBVIOUS
<1> QED BY <1>1, <1>2, RegistryKeeps

(* An agent's host is one of the hosts.                                    *)
LEMMA AgentsHost ==
  ASSUME Types, NEW a, NEW h, OfHost(a, h)
  PROVE  h \in Hosts
<1>1. a \in 1 .. Len(agents) /\ agents[a].host = h
  BY LenProperties DEF Types, OfHost
<1>2. agents[a] \in [host : Hosts, active : BOOLEAN]
  BY <1>1, ElementOfSeq DEF Types
<1> QED BY <1>1, <1>2

(* There are not more agents than connections.                             *)
LEMMA AgentsAreFew ==
  ASSUME Types, Registry
  PROVE  DOMAIN agents \subseteq Conns /\ Len(agents) \in Nat /\ IsFiniteSet(Saved)
         /\ DOMAIN agents = 1 .. Len(agents)
<1>1. IsFiniteSet(Conns) /\ Cardinality(Conns) = MaxConns
  BY ServerAssumption, FS_Interval DEF Conns
<1>2. IsFiniteSet(Saved) /\ Cardinality(Saved) <= MaxConns
  BY <1>1, FS_Subset DEF Saved
<1>3. Cardinality(Saved) \in Nat /\ Len(agents) \in Nat /\ DOMAIN agents = 1 .. Len(agents)
  BY <1>2, FS_CardinalityType, LenProperties DEF Types
<1>4. Len(agents) <= MaxConns
  BY <1>2, <1>3, ServerAssumption DEF Registry
<1> QED BY <1>2, <1>3, <1>4, ServerAssumption DEF Conns

(* Nothing that says how far the server is with a host.                    *)
LEMMA HostStays ==
  ASSUME NEW h \in Hosts, Settled(h), hello' = hello, clients' = clients, agents' = agents,
         \A d \in Conns : conn'[d].recv = conn[d].recv /\ conn'[d].host = conn[d].host
  PROVE  Settled(h)'
<1>1. Existing(h)' = Existing(h) /\ Saved' = Saved /\ \A d : Lists(d, h)' = Lists(d, h)
  BY DEF Existing, Saved, Lists
<1> QED BY <1>1 DEF Settled, Saved, Lists, Existing

(* ... with any of the settled hosts.                                      *)
LEMMA SettledStays ==
  ASSUME AllSettled, hello' = hello, clients' = clients, agents' = agents,
         unsettled \subseteq unsettled',
         \A d \in Conns : conn'[d].recv = conn[d].recv /\ conn'[d].host = conn[d].host,
         \A d \in Conns : conn'[d].up = "reset" =>
           conn[d].up = "reset" \/ conn[d].host \in unsettled'
  PROVE  AllSettled'
<1>1. \A d \in Conns : conn'[d].up = "reset" => conn'[d].host \in unsettled'
  BY DEF AllSettled
<1>2. \A h \in Hosts \ unsettled' : Settled(h)'
  BY HostStays DEF AllSettled
<1> QED BY <1>1, <1>2 DEF AllSettled

(* Nothing that the calls are about.                                       *)
LEMMA CallsStay ==
  ASSUME Counted, Ours, Alone, caller' = caller, raced' = raced,
         \A d \in Conns :
           /\ conn'[d].msg_id = conn[d].msg_id /\ conn'[d].sent = conn[d].sent
           /\ conn[d].up # "none" => conn'[d].up # "none"
           /\ conn'[d].handlers \subseteq conn[d].handlers
           /\ conn'[d].serving \subseteq conn[d].serving
  PROVE  Counted' /\ Ours' /\ Alone'
<1>1. \A d : Wrote(d)' = Wrote(d) /\ \A i, k : Called(k, d, i)' = Called(k, d, i)
  BY DEF Wrote, Called
<1>2. Counted'
  BY <1>1 DEF Counted, Wrote
<1>3. Ours'
  <2> SUFFICES ASSUME NEW d \in Conns, NEW i \in Ids, NEW k \in Callers PROVE
        /\ <<i, k>> \in conn'[d].handlers \cup conn'[d].serving => Called(k, d, i)'
        /\ \A j \in DOMAIN conn'[d].sent :
             conn'[d].sent[j] = <<"answer", i, k>> => Called(k, d, i)'
    BY DEF Ours
  <2>1. Called(k, d, i)' = Called(k, d, i)
    BY <1>1
  <2> QED BY <2>1 DEF Ours
<1>4. Alone'
  BY DEF Alone
<1> QED BY <1>2, <1>3, <1>4

(* ... or a call that was sent is further.                                 *)
Sent == {"sent", "waiting", "returned", "threw"}
(* A step of a call, or none, keeps what is known of the ids and handlers.   *)
LEMMA CallsMove ==
  ASSUME Types, Counted, Ours, Alone, raced' = raced,
         \A k \in Callers :
           /\ caller'[k].conn = caller[k].conn /\ caller'[k].id = caller[k].id
           /\ caller'[k].pc = caller[k].pc \/ {caller'[k].pc, caller[k].pc} \subseteq Sent
           /\ caller[k].pc = "idle" => caller'[k].answer = caller[k].answer,
         \A d \in Conns :
           /\ conn'[d].msg_id = conn[d].msg_id /\ conn'[d].sent = conn[d].sent
           /\ conn[d].up # "none" => conn'[d].up # "none"
           /\ conn'[d].handlers \subseteq conn[d].handlers
           /\ conn'[d].serving \subseteq conn[d].serving
  PROVE  /\ Counted' /\ Ours' /\ Alone'
         /\ \A d, i, k : k \in Callers => Called(k, d, i)' = Called(k, d, i)
<1>1. \A k \in Callers :
        /\ caller'[k].pc \in Sent <=> caller[k].pc \in Sent
        /\ caller'[k].pc \in After <=> caller[k].pc \in After
        /\ \A p \in {"idle", "write", "get"} : caller'[k].pc = p <=> caller[k].pc = p
  BY DEF Sent, After
<1>2. \A d, i, k : k \in Callers => Called(k, d, i)' = Called(k, d, i)
  BY <1>1 DEF Called, Sent
<1>3. \A d : Wrote(d)' = Wrote(d)
  BY <1>1 DEF Wrote
<1>4. Counted'
  BY <1>1, <1>3 DEF Counted
<1>5. Ours'
  <2> SUFFICES ASSUME NEW d \in Conns, NEW i \in Ids, NEW k \in Callers PROVE
        /\ <<i, k>> \in conn'[d].handlers \cup conn'[d].serving => Called(k, d, i)'
        /\ \A j \in DOMAIN conn'[d].sent :
             conn'[d].sent[j] = <<"answer", i, k>> => Called(k, d, i)'
    BY DEF Ours
  <2>1. Called(k, d, i)' = Called(k, d, i)
    BY <1>2
  <2> QED BY <2>1 DEF Ours
<1>6. Alone'
  BY <1>1 DEF Alone
<1> QED BY <1>2, <1>4, <1>5, <1>6

(* ... or the answers on a connection.                                     *)
LEMMA WayStays ==
  ASSUME NEW d \in Conns, NEW i \in Ids, NEW k \in Callers, OnItsWay(d, i, k),
         caller' = caller, conn'[d].serving = conn[d].serving,
         conn'[d].handlers = conn[d].handlers, Processed(d)' = Processed(d),
         conn'[d].sent = conn[d].sent \/ Answers(d, i, k)' = Answers(d, i, k)
  PROVE  OnItsWay(d, i, k)'
<1>1. Answers(d, i, k)' = Answers(d, i, k)
  BY DEF Answers
<1> QED BY <1>1 DEF OnItsWay, Called

(* ... or on any connection that stays open.                               *)
LEMMA AnswersStay ==
  ASSUME Answered, caller' = caller, raced' = raced,
         \A d \in Conns : conn'[d].up = "open" =>
           /\ conn[d].up = "open" /\ conn'[d].sent = conn[d].sent
           /\ conn'[d].serving = conn[d].serving /\ conn'[d].handlers = conn[d].handlers
           /\ conn'[d].processing = conn[d].processing /\ Processed(d)' = Processed(d)
  PROVE  Answered'
<1> SUFFICES ASSUME NEW d \in Conns \ raced PROVE
      /\ OwnOnly(d)'
      /\ conn'[d].up = "open" =>
           conn'[d].processing /\ \A i \in Ids, k \in Callers : OnItsWay(d, i, k)'
  BY DEF Answered
<1>1. OwnOnly(d)'
  BY DEF Answered, OwnOnly
<1>2. CASE conn'[d].up = "open"
  BY <1>1, <1>2, WayStays DEF Answered
<1> QED BY <1>1, <1>2

-----------------------------------------------------------------------------
(* The agents.                                                             *)

(* A connection is accepted.                                               *)
LEMMA AcceptKeeps ==
  ASSUME Inv, NEW c \in Conns, NEW h \in Hosts, Accept(c, h)
  PROVE  Inv'
<1> DEFINE o == conn[c]
           v == [o EXCEPT !.host = h, !.up = "open", !.recv = "read"]
<1>1. /\ Types /\ Streams /\ Hellos /\ Registry /\ AllSettled /\ Counted /\ Ours /\ Alone
      /\ Answered /\ h # None /\ None \notin Hosts
  BY ServerAssumption DEF Inv
<1>2. /\ o \in ConnType /\ ConnOK(o) /\ o.up = "none" /\ o.recv = "off" /\ o.host = None
      /\ o.sent = <<>> /\ o.mailbox = <<>>
  BY <1>1 DEF Accept, Types, Streams, ConnOK, UpOK
<1>3. /\ v \in ConnType /\ v.host = h /\ v.up = "open" /\ v.recv = "read" /\ v.id = o.id
      /\ v.sent = o.sent /\ v.decoded = o.decoded /\ v.buf = o.buf /\ v.in = o.in
      /\ v.mailbox = o.mailbox /\ v.msg_id = o.msg_id /\ v.handlers = o.handlers
      /\ v.serving = o.serving /\ v.processing = o.processing
  BY <1>2 DEF ConnType
<1>4. conn' = [conn EXCEPT ![c] = v]
  BY <1>1, <1>2 DEF Accept, Types
<1>5. /\ hello' = hello /\ clients' = clients /\ agents' = agents /\ caller' = caller
      /\ raced' = raced /\ unsettled' = IF Overlaps(h) THEN unsettled \cup {h} ELSE unsettled
  BY DEF Accept
<1> HIDE DEF v
<1>6. ConnOK(v)
  <2>1. Reaches(v.decoded, v.buf, v.in) = 2 * Len(v.sent)
    <3>1. Len(v.decoded) \in Nat /\ Len(v.buf) \in Nat /\ Len(v.in) \in Nat /\ Len(v.sent) = 0
      BY <1>2, <1>3 DEF ConnType
    <3>2. Reaches(v.decoded, v.buf, v.in) <= 2 * Len(v.sent)
      BY <1>2, <1>3 DEF ConnOK, Stream
    <3>3. PICK i \in Nat, j \in Nat, k \in Nat :
            i = Len(v.decoded) /\ j = Len(v.buf) /\ k = Len(v.in)
      BY <3>1
    <3>4. 2 * i + j + k <= 0
      <4>1. Reaches(v.decoded, v.buf, v.in) = 2 * i + j + k
        BY <3>3 DEF Reaches
      <4> QED BY <3>1, <3>2, <4>1
    <3>5. i = 0 /\ j = 0 /\ k = 0
      BY <3>4
    <3> QED BY <3>1, <3>3, <3>5 DEF Reaches
  <2>2. Rest(v.mailbox, v.decoded)
    BY <1>2, <1>3 DEF Rest, ConnType
  <2> QED BY <1>1, <1>2, <1>3, <2>1, <2>2 DEF ConnOK, UpOK
<1>7. /\ conn' \in [Conns -> ConnType] /\ Streams'
      /\ conn'[c] = v /\ \A d \in Conns \ {c} : conn'[d] = conn[d]
  BY <1>1, <1>3, <1>4, <1>6, ConnStep
<1>8. Types'
  BY <1>1, <1>5, <1>7 DEF Types
<1>9. hello[c].pc = "off" /\ Hellos'
  BY <1>1, <1>2, <1>5, <1>7 DEF Hellos
<1>10. Registry'
  <2>1. o.id = None /\ hello[c].agent = None
    BY <1>1, <1>2, AgentsHost DEF Registry
  <2>2. Saved' = Saved /\ \A a, g : OfHost(a, g)' = OfHost(a, g)
    BY <1>5 DEF Saved, OfHost
  <2>3. ASSUME NEW d \in Conns PROVE
          /\ conn'[d].id # None => OfHost(conn[d].id, conn[d].host)'
          /\ hello'[d].agent # None => OfHost(hello[d].agent, conn[d].host)'
          /\ hello'[d].pc \in {"name", "list", "done"} => hello'[d].agent # None
          /\ IF hello'[d].pc \in {"list", "done"} THEN conn'[d].id = hello'[d].agent
             ELSE conn'[d].id = None
    <3>1. CASE d = c
      BY <1>3, <1>5, <1>7, <1>9, <2>1, <3>1
    <3>2. CASE d # c
      BY <1>1, <1>5, <1>7, <2>2, <3>2 DEF Registry, OfHost
    <3> QED BY <3>1, <3>2
  <2>4. \A a \in Conns : clients'[a] # None =>
          conn'[clients'[a]].id = a /\ hello'[clients'[a]].pc = "done"
    BY <1>1, <1>5, <1>7, <1>9 DEF Registry, Types
  <2>5. Len(agents') <= Cardinality(Saved')
    BY <1>1, <1>5, <2>2 DEF Registry
  <2> QED BY <2>3, <2>4, <2>5 DEF Registry
<1>11. AllSettled'
  <2>0. \A d \in Conns : conn'[d].up = "reset" => conn'[d].host \in unsettled'
    BY <1>1, <1>3, <1>5, <1>7 DEF AllSettled
  <2> SUFFICES ASSUME NEW g \in Hosts \ unsettled' PROVE Settled(g)'
    BY <2>0 DEF AllSettled
  <2>1. Settled(g) /\ (g = h => ~Overlaps(h))
    BY <1>1, <1>5 DEF AllSettled
  <2>2. Existing(g)' = Existing(g) /\ Saved' = Saved /\ \A d : Lists(d, g)' = Lists(d, g)
    BY <1>5 DEF Existing, Saved, Lists
  <2>3. c \notin Saved
    BY <1>9 DEF Saved
  <2>4. CASE g # h
    <3>1. /\ \A d \in Conns : conn'[d].host = g <=> conn[d].host = g
          /\ \A d \in Conns : conn[d].host = g => conn'[d] = conn[d]
      BY <1>1, <1>2, <1>3, <1>7, <2>4
    <3>2. \A a \in Existing(g) : agents'[a].active <=>
            \E d \in Saved : conn'[d].host = g /\ conn'[d].recv # "done"
      BY <1>5, <2>1, <3>1 DEF Settled, Saved
    <3> QED BY <1>5, <2>1, <2>2, <3>1, <3>2 DEF Settled
  <2>5. CASE g = h
    <3>1. \A d \in Conns \ {c} : conn[d].host = h => conn[d].recv = "done"
      <4> SUFFICES ASSUME NEW d \in Conns \ {c}, conn[d].host = h PROVE conn[d].recv = "done"
        OBVIOUS
      <4>1. ~Working(d)
        BY <2>1, <2>5 DEF Overlaps
      <4>2. conn[d].recv # "off"
        BY <1>1 DEF Streams, ConnOK, UpOK
      <4> QED BY <4>1, <4>2 DEF Working
    <3>2. ~Lists(c, h)
      <4> SUFFICES ASSUME NEW a \in Existing(h), clients[a] = c PROVE FALSE
        BY DEF Lists
      <4>1. a \in Conns
        BY <1>1, AgentsAreFew DEF Existing
      <4> QED BY <1>1, <1>9, <4>1 DEF Registry, Conns, None
    <3>3. \A d, e \in Conns : conn'[d].host = h /\ conn'[e].host = h
                              /\ conn'[d].recv # "done" /\ conn'[e].recv # "done" => d = e
      BY <1>7, <3>1
    <3>4. \A d \in Conns : conn'[d].host = h =>
            /\ conn'[d].recv # "read" => hello[d].pc = "done"
            /\ hello[d].pc = "save" /\ hello[d].agent = None => Existing(h) = {}
            /\ Lists(d, h) <=> hello[d].pc = "done" /\ conn'[d].recv \in {"read", "unlist"}
      BY <1>3, <1>7, <1>9, <2>1, <2>5, <3>2 DEF Settled
    <3>5. \A a \in Existing(h) : agents[a].active <=>
            \E d \in Saved : conn'[d].host = h /\ conn'[d].recv # "done"
      <4>1. \A d \in Saved : d \in Conns /\ d # c
        BY <2>3 DEF Saved
      <4> QED BY <1>7, <2>1, <2>5, <4>1 DEF Settled
    <3> QED BY <1>5, <2>1, <2>2, <2>5, <3>3, <3>4, <3>5 DEF Settled
  <2> QED BY <2>4, <2>5
<1>12. Counted' /\ Ours' /\ Alone'
  BY <1>1, <1>3, <1>5, <1>7, CallsStay
<1>13. Answered'
  <2>1. ASSUME NEW i \in Ids, NEW k \in Callers
        PROVE  ~Called(k, c, i) /\ ~Called(k, c, i)' /\ <<i, k>> \notin o.serving
    <3>1. ~Called(k, c, i)
      BY <1>1, <1>2 DEF Counted, Called
    <3>2. ~Called(k, c, i)'
      BY <1>5, <3>1 DEF Called
    <3> QED BY <1>1, <3>1, <3>2 DEF Ours
  <2>2. DOMAIN o.sent = {} /\ o.processing
    BY <1>2 DEF ConnOK, UpOK
  <2> SUFFICES ASSUME NEW d \in Conns \ raced PROVE
        /\ OwnOnly(d)'
        /\ conn'[d].up = "open" =>
             conn'[d].processing /\ \A i \in Ids, k \in Callers : OnItsWay(d, i, k)'
    BY <1>5 DEF Answered
  <2>3. OwnOnly(d)'
    BY <1>1, <1>5 DEF Answered, OwnOnly
  <2>4. CASE d = c
    <3>1. ASSUME NEW i \in Ids, NEW k \in Callers PROVE OnItsWay(c, i, k)'
      <4>1. Answers(c, i, k)' = {}
        BY <1>3, <1>7, <2>2 DEF Answers
      <4> QED BY <1>3, <1>7, <2>1, <4>1 DEF OnItsWay
    <3> QED BY <1>3, <1>7, <2>2, <2>3, <2>4, <3>1
  <2>5. CASE d # c
    <3>1. conn'[d] = conn[d] /\ Processed(d)' = Processed(d)
      BY <1>7, <2>5 DEF Processed
    <3> QED BY <1>1, <1>5, <2>3, <3>1, WayStays DEF Answered
  <2> QED BY <2>4, <2>5
<1> QED BY <1>7, <1>8, <1>9, <1>10, <1>11, <1>12, <1>13 DEF Inv

(* A message from the agent: what it does whatever it is.                  *)
LEMMA MessageSent ==
  ASSUME Inv, NEW c \in Conns, NEW v \in ConnType, NEW m \in Message,
         m = <<"hello">> => conn[c].sent = <<>>, conn[c].up = "open",
         conn' = [conn EXCEPT ![c] = v],
         v.in = conn[c].in \o Pieces(m), v.sent = Append(conn[c].sent, m),
         v.host = conn[c].host, v.up = conn[c].up, v.id = conn[c].id, v.buf = conn[c].buf,
         v.recv = conn[c].recv, v.mailbox = conn[c].mailbox, v.decoded = conn[c].decoded,
         v.processing = conn[c].processing, v.msg_id = conn[c].msg_id,
         v.handlers = conn[c].handlers,
         hello' = hello, clients' = clients, agents' = agents, caller' = caller,
         raced' = raced, unsettled' = unsettled
  PROVE  /\ Types' /\ Streams' /\ Hellos' /\ Registry' /\ AllSettled' /\ Counted' /\ Alone'
         /\ conn'[c] = v /\ \A d \in Conns \ {c} : conn'[d] = conn[d]
<1> DEFINE o == conn[c]
<1>1. /\ Types /\ Streams /\ Hellos /\ Registry /\ AllSettled /\ Counted /\ Alone
  BY DEF Inv
<1>2. o \in ConnType /\ ConnOK(o)
  BY <1>1 DEF Types, Streams
<1>3. /\ o.sent \in Seq(Message) /\ o.decoded \in Seq(Message) /\ o.buf \in Seq(Piece)
      /\ o.in \in Seq(Piece)
  BY <1>2 DEF ConnType
<1>4. ConnOK(v)
  <2>1. /\ Stream(v.sent, v.decoded, v.buf, v.in)
        /\ Reaches(v.decoded, v.buf, v.in) = 2 * Len(v.sent)
    <3>1. /\ Stream(o.sent, o.decoded, o.buf, o.in)
          /\ Reaches(o.decoded, o.buf, o.in) = 2 * Len(o.sent)
      BY <1>2 DEF ConnOK
    <3>2. /\ Stream(Append(o.sent, m), o.decoded, o.buf, o.in \o Pieces(m))
          /\ Reaches(o.decoded, o.buf, o.in \o Pieces(m)) = 2 * Len(Append(o.sent, m))
      BY <1>3, <3>1, SendStream
    <3> QED BY <3>2
  <2>2. Mail(v.mailbox, v.sent) /\ HelloFirst(v.sent)
    BY <1>2, <1>3, SendMail DEF ConnOK
  <2>3. UpOK(v)
    BY <1>2 DEF ConnOK, UpOK
  <2> QED BY <1>2, <2>1, <2>2, <2>3 DEF ConnOK
<1>5. /\ conn' \in [Conns -> ConnType] /\ Streams'
      /\ conn'[c] = v /\ \A d \in Conns \ {c} : conn'[d] = conn[d]
  BY <1>1, <1>4, ConnStep
<1>6. Types' /\ Hellos'
  <2>1. \A d \in Conns : conn'[d].up = conn[d].up /\ conn'[d].recv = conn[d].recv
          /\ conn'[d].decoded = conn[d].decoded /\ conn'[d].mailbox = conn[d].mailbox
    BY <1>5
  <2>2. Hellos'
    BY <1>1, <2>1 DEF Hellos
  <2> QED BY <1>1, <1>5, <2>2 DEF Types
<1>7. \A d \in Conns : conn'[d].id = conn[d].id /\ conn'[d].host = conn[d].host
        /\ conn'[d].recv = conn[d].recv /\ conn'[d].msg_id = conn[d].msg_id
        /\ conn'[d].up = conn[d].up
  BY <1>5
<1>8. Registry' /\ AllSettled'
  BY <1>1, <1>7, RegistryStays, SettledStays
<1>9. Counted' /\ Alone'
  <2>1. \A d : Wrote(d)' = Wrote(d)
    BY DEF Wrote
  <2>2. Counted'
    BY <1>1, <1>7, <2>1 DEF Counted
  <2>3. Alone'
    BY <1>1, <1>7 DEF Alone
  <2> QED BY <2>2, <2>3
<1> QED BY <1>5, <1>6, <1>8, <1>9

(* The agent's hello.                                                      *)
LEMMA AgentSaysHelloKeeps ==
  ASSUME Inv, NEW c \in Conns, AgentSaysHello(c)
  PROVE  Inv'
<1> DEFINE o == conn[c]
           m == <<"hello">>
           v == [o EXCEPT !.in = @ \o Pieces(m), !.sent = Append(@, m)]
<1>1. /\ Types /\ Ours /\ Answered /\ o \in ConnType /\ m \in Message
      /\ o.up = "open" /\ o.sent = <<>>
  BY DEF Inv, Types, AgentSaysHello, Message
<1>2. /\ v \in ConnType /\ v.in = o.in \o Pieces(m) /\ v.sent = Append(o.sent, m)
      /\ v.host = o.host /\ v.up = o.up /\ v.id = o.id /\ v.buf = o.buf
      /\ v.recv = o.recv /\ v.mailbox = o.mailbox /\ v.decoded = o.decoded
      /\ v.processing = o.processing /\ v.msg_id = o.msg_id /\ v.handlers = o.handlers
      /\ v.serving = o.serving
  <2>1. Append(o.sent, m) \in Seq(Message)
    BY <1>1, AppendProperties DEF ConnType
  <2>2. o.in \o Pieces(m) \in Seq(Piece)
    BY <1>1, PiecesOf, ConcatProperties DEF ConnType
  <2> HIDE DEF m
  <2> QED BY <1>1, <2>1, <2>2 DEF ConnType
<1>3. /\ conn' = [conn EXCEPT ![c] = v] /\ hello' = hello /\ clients' = clients
      /\ agents' = agents /\ caller' = caller /\ raced' = raced /\ unsettled' = unsettled
  BY DEF AgentSaysHello, AgentSends
<1> HIDE DEF v
<1>4. /\ Types' /\ Streams' /\ Hellos' /\ Registry' /\ AllSettled' /\ Counted' /\ Alone'
      /\ conn'[c] = v /\ \A d \in Conns \ {c} : conn'[d] = conn[d]
  BY <1>1, <1>2, <1>3, MessageSent
<1>5. \A i, k : Answers(c, i, k)' = {} /\ Answers(c, i, k) = {}
  <2>1. DOMAIN v.sent = {1} /\ v.sent[1] = m
    BY <1>1, <1>2
  <2>2. m[1] = "hello" /\ \A i, k : <<"answer", i, k>>[1] = "answer"
    OBVIOUS
  <2> HIDE DEF m
  <2>3. \A i, k : m # <<"answer", i, k>>
    BY <2>2
  <2>4. DOMAIN o.sent = {}
    BY <1>1
  <2>5. \A i, k : Answers(c, i, k) = {}
    BY <2>4 DEF Answers
  <2>6. \A i, k : Answers(c, i, k)' = {}
    BY <1>4, <2>1, <2>3 DEF Answers
  <2> QED BY <2>5, <2>6
<1>6. Ours'
  <2> SUFFICES ASSUME NEW d \in Conns, NEW i \in Ids, NEW k \in Callers PROVE
        /\ <<i, k>> \in conn'[d].handlers \cup conn'[d].serving => Called(k, d, i)'
        /\ \A j \in DOMAIN conn'[d].sent :
             conn'[d].sent[j] = <<"answer", i, k>> => Called(k, d, i)'
    BY DEF Ours
  <2>1. Called(k, d, i)' = Called(k, d, i)
    BY <1>3 DEF Called
  <2>2. CASE d = c
    BY <1>1, <1>2, <1>4, <1>5, <2>1, <2>2 DEF Ours, Answers
  <2>3. CASE d # c
    BY <1>1, <1>4, <2>1, <2>3 DEF Ours
  <2> QED BY <2>2, <2>3
<1>7. Answered'
  <2> SUFFICES ASSUME NEW d \in Conns \ raced PROVE
        /\ OwnOnly(d)'
        /\ conn'[d].up = "open" =>
             conn'[d].processing /\ \A i \in Ids, k \in Callers : OnItsWay(d, i, k)'
    BY <1>3 DEF Answered
  <2>1. OwnOnly(d)'
    BY <1>1, <1>3 DEF Answered, OwnOnly
  <2>2. /\ Processed(d)' = Processed(d) /\ conn'[d].up = conn[d].up
        /\ conn'[d].processing = conn[d].processing
        /\ conn'[d].serving = conn[d].serving /\ conn'[d].handlers = conn[d].handlers
    BY <1>2, <1>4 DEF Processed
  <2>3. \A i, k : conn'[d].sent = conn[d].sent \/ Answers(d, i, k)' = Answers(d, i, k)
    BY <1>4, <1>5
  <2> QED BY <1>1, <1>3, <2>1, <2>2, <2>3, WayStays DEF Answered
<1> QED BY <1>4, <1>6, <1>7 DEF Inv

(* The agent's answer takes the place of the command.                      *)
LEMMA AgentAnswersKeeps ==
  ASSUME Inv, NEW c \in Conns, AgentAnswers(c)
  PROVE  Inv'
<1>1. PICK s \in conn[c].serving :
        conn' = [conn EXCEPT ![c] = [AgentSends(c, <<"answer", s[1], s[2]>>)
                                     EXCEPT !.serving = @ \ {s}]]
  BY DEF AgentAnswers
<1> DEFINE o == conn[c]
<1>2. Types /\ Ours /\ Answered /\ o \in ConnType /\ o.up = "open"
  BY DEF Inv, Types, AgentAnswers
<1>3. PICK i0 \in Ids, k0 \in Callers : s = <<i0, k0>>
  BY <1>2 DEF ConnType
<1> DEFINE m == <<"answer", i0, k0>>
           v == [o EXCEPT !.in = @ \o Pieces(m), !.sent = Append(@, m), !.serving = @ \ {s}]
<1>4. m \in Message /\ m # <<"hello">>
  BY DEF Message
<1>5. /\ v \in ConnType /\ v.in = o.in \o Pieces(m) /\ v.sent = Append(o.sent, m)
      /\ v.host = o.host /\ v.up = o.up /\ v.id = o.id /\ v.buf = o.buf
      /\ v.recv = o.recv /\ v.mailbox = o.mailbox /\ v.decoded = o.decoded
      /\ v.processing = o.processing /\ v.msg_id = o.msg_id /\ v.handlers = o.handlers
      /\ v.serving = o.serving \ {s}
  <2> HIDE DEF m
  <2>1. Append(o.sent, m) \in Seq(Message)
    BY <1>2, <1>4, AppendProperties DEF ConnType
  <2>2. o.in \o Pieces(m) \in Seq(Piece)
    BY <1>2, <1>4, PiecesOf, ConcatProperties DEF ConnType
  <2> QED BY <1>2, <2>1, <2>2 DEF ConnType
<1>6. /\ conn' = [conn EXCEPT ![c] = v] /\ hello' = hello /\ clients' = clients
      /\ agents' = agents /\ caller' = caller /\ raced' = raced /\ unsettled' = unsettled
  <2>1. s[1] = i0 /\ s[2] = k0
    BY <1>3
  <2>2. [AgentSends(c, m) EXCEPT !.serving = @ \ {s}] = v
    BY <1>2 DEF AgentSends, ConnType
  <2> QED BY <1>1, <2>1, <2>2 DEF AgentAnswers
<1> HIDE DEF v, m
<1>7. /\ Types' /\ Streams' /\ Hellos' /\ Registry' /\ AllSettled' /\ Counted' /\ Alone'
      /\ conn'[c] = v /\ \A d \in Conns \ {c} : conn'[d] = conn[d]
  BY <1>2, <1>4, <1>5, <1>6, MessageSent
<1>8. /\ DOMAIN v.sent = DOMAIN o.sent \cup {Len(o.sent) + 1} /\ Len(o.sent) + 1 \notin DOMAIN o.sent
      /\ v.sent[Len(o.sent) + 1] = m /\ \A j \in DOMAIN o.sent : v.sent[j] = o.sent[j]
      /\ Len(o.sent) \in Nat
  <2>1. o.sent \in Seq(Message)
    BY <1>2 DEF ConnType
  <2>2. /\ DOMAIN o.sent = 1 .. Len(o.sent) /\ Len(o.sent) \in Nat
        /\ v.sent \in Seq(Message) /\ Len(v.sent) = Len(o.sent) + 1
        /\ v.sent[Len(o.sent) + 1] = m /\ \A j \in 1 .. Len(o.sent) : v.sent[j] = o.sent[j]
    BY <1>4, <1>5, <2>1, AppendProperties, LenProperties
  <2>3. DOMAIN v.sent = 1 .. Len(o.sent) + 1
    BY <2>2, LenProperties
  <2> QED BY <2>2, <2>3
<1>9. ASSUME NEW i \in Ids, NEW k \in Callers PROVE
        Answers(c, i, k)' = IF <<i, k>> = s THEN Answers(c, i, k) \cup {Len(o.sent) + 1}
                            ELSE Answers(c, i, k)
  <2>1. m = <<"answer", i, k>> <=> <<i, k>> = s
    BY <1>3 DEF m
  <2> QED BY <1>7, <1>8, <2>1 DEF Answers
<1>10. Ours'
  <2> SUFFICES ASSUME NEW d \in Conns, NEW i \in Ids, NEW k \in Callers PROVE
        /\ <<i, k>> \in conn'[d].handlers \cup conn'[d].serving => Called(k, d, i)'
        /\ \A j \in DOMAIN conn'[d].sent :
             conn'[d].sent[j] = <<"answer", i, k>> => Called(k, d, i)'
    BY DEF Ours
  <2>1. Called(k, d, i)' = Called(k, d, i)
    BY <1>6 DEF Called
  <2>2. CASE d = c
    <3>1. <<i, k>> = s => Called(k, c, i)
      BY <1>2 DEF Ours
    <3>2. \A j \in DOMAIN conn'[c].sent :
            conn'[c].sent[j] = <<"answer", i, k>> => j \in Answers(c, i, k)'
      BY DEF Answers
    <3>3. Answers(c, i, k) # {} => Called(k, c, i)
      BY <1>2 DEF Ours, Answers
    <3> QED BY <1>2, <1>5, <1>7, <1>9, <2>1, <2>2, <3>1, <3>2, <3>3 DEF Ours
  <2>3. CASE d # c
    BY <1>2, <1>7, <2>1, <2>3 DEF Ours
  <2> QED BY <2>2, <2>3
<1>11. Answered'
  <2> SUFFICES ASSUME NEW d \in Conns \ raced PROVE
        /\ OwnOnly(d)'
        /\ conn'[d].up = "open" =>
             conn'[d].processing /\ \A i \in Ids, k \in Callers : OnItsWay(d, i, k)'
    BY <1>6 DEF Answered
  <2>1. OwnOnly(d)'
    BY <1>2, <1>6 DEF Answered, OwnOnly
  <2>2. /\ Processed(d)' = Processed(d) /\ conn'[d].up = conn[d].up
        /\ conn'[d].processing = conn[d].processing /\ conn'[d].handlers = conn[d].handlers
    BY <1>5, <1>7 DEF Processed
  <2>3. CASE d # c
    BY <1>2, <1>6, <1>7, <2>1, <2>2, <2>3, WayStays DEF Answered
  <2>4. CASE d = c
    <3>1. ASSUME NEW i \in Ids, NEW k \in Callers, OnItsWay(c, i, k) PROVE OnItsWay(c, i, k)'
      <4>1. Called(k, c, i)' = Called(k, c, i)
        BY <1>6 DEF Called
      <4>2. CASE <<i, k>> # s
        BY <1>5, <1>6, <1>7, <1>9, <2>2, <2>4, <3>1, <4>1, <4>2 DEF OnItsWay
      <4>3. CASE <<i, k>> = s
        <5>1. <<i, k>> \in o.handlers /\ Answers(c, i, k)' = {Len(o.sent) + 1}
              /\ <<i, k>> \notin conn'[c].serving
          BY <1>5, <1>7, <1>9, <3>1, <4>3 DEF OnItsWay
        <5>2. ~(Len(o.sent) + 1 <= Processed(c)')
          <6>1. o.decoded \in Seq(Message) /\ o.mailbox \in Seq(Message \cup {<<"stop">>})
            BY <1>2 DEF ConnType
          <6>2. PICK ld \in Nat, lm \in Nat, ls \in Nat, lb \in Nat, li \in Nat :
                  /\ ld = Len(o.decoded) /\ lm = Len(o.mailbox) /\ ls = Len(o.sent)
                  /\ lb = Len(o.buf) /\ li = Len(o.in)
            BY <1>2, <1>8, <6>1, LenProperties DEF ConnType
          <6>3. 2 * ld + lb + li = 2 * ls
            <7>1. ConnOK(o)
              BY DEF Inv, Streams
            <7> QED BY <1>2, <6>2, <7>1 DEF ConnOK, Reaches
          <6>4. Processed(c) = ld - lm
            BY <6>2 DEF Processed
          <6>5. ~(ls + 1 <= ld - lm)
            BY <6>3
          <6> QED BY <2>2, <2>4, <6>2, <6>4, <6>5
        <5> QED BY <1>5, <1>7, <5>1, <5>2 DEF OnItsWay
      <4> QED BY <4>2, <4>3
    <3> QED BY <1>2, <2>1, <2>2, <2>4, <3>1 DEF Answered
  <2> QED BY <2>3, <2>4
<1> QED BY <1>7, <1>10, <1>11 DEF Inv

(* What was under way is lost in part, and the agent's work with it.       *)
LEMMA AgentClosesKeeps ==
  ASSUME Inv, NEW c \in Conns, AgentCloses(c)
  PROVE  Inv'
<1> DEFINE o == conn[c]
<1>1. /\ Types /\ Streams /\ Hellos /\ Registry /\ AllSettled /\ Counted /\ Ours /\ Alone
      /\ Answered /\ o \in ConnType /\ ConnOK(o) /\ o.up = "open"
  BY DEF Inv, Types, Streams, AgentCloses
<1>2. PICK n \in 0 .. Len(o.in), how \in {"closed", "reset"} :
        /\ conn' = [conn EXCEPT ![c].up = how, ![c].in = SubSeq(@, 1, n), ![c].serving = {}]
        /\ unsettled' = IF how = "reset" THEN unsettled \cup {o.host} ELSE unsettled
  BY DEF AgentCloses
<1> DEFINE v == [o EXCEPT !.up = how, !.in = SubSeq(@, 1, n), !.serving = {}]
<1>3. Stream(o.sent, o.decoded, o.buf, SubSeq(o.in, 1, n)) /\ SubSeq(o.in, 1, n) \in Seq(Piece)
  <2>1. o.sent \in Seq(Message) /\ o.decoded \in Seq(Message) /\ o.buf \in Seq(Piece)
        /\ o.in \in Seq(Piece) /\ Stream(o.sent, o.decoded, o.buf, o.in)
    BY <1>1 DEF ConnType, ConnOK
  <2> QED BY <2>1, CloseStream
<1>4. /\ v \in ConnType /\ v.host = o.host /\ v.up = how /\ v.recv = o.recv /\ v.id = o.id
      /\ v.sent = o.sent /\ v.decoded = o.decoded /\ v.buf = o.buf /\ v.in = SubSeq(o.in, 1, n)
      /\ v.mailbox = o.mailbox /\ v.msg_id = o.msg_id /\ v.handlers = o.handlers
      /\ v.serving = {} /\ v.processing = o.processing
  BY <1>1, <1>3 DEF ConnType
<1>5. /\ conn' = [conn EXCEPT ![c] = v] /\ hello' = hello /\ clients' = clients
      /\ agents' = agents /\ caller' = caller /\ raced' = raced
  BY <1>1, <1>2 DEF AgentCloses, Types
<1> HIDE DEF v
<1>6. ConnOK(v)
  BY <1>1, <1>3, <1>4 DEF ConnOK, UpOK
<1>7. /\ conn' \in [Conns -> ConnType] /\ Streams'
      /\ conn'[c] = v /\ \A d \in Conns \ {c} : conn'[d] = conn[d]
  BY <1>1, <1>4, <1>5, <1>6, ConnStep
<1>8. unsettled \subseteq unsettled' /\ unsettled' \subseteq Hosts
  <2>1. o.host \in Hosts
    BY <1>1 DEF ConnOK, UpOK, ConnType
  <2> QED BY <1>1, <1>2, <2>1 DEF Types
<1>9. Types' /\ Hellos'
  BY <1>1, <1>4, <1>5, <1>7, <1>8 DEF Types, Hellos
<1>10. \A d \in Conns : conn'[d].id = conn[d].id /\ conn'[d].host = conn[d].host
         /\ conn'[d].recv = conn[d].recv /\ conn'[d].msg_id = conn[d].msg_id
         /\ conn'[d].sent = conn[d].sent /\ conn'[d].handlers = conn[d].handlers
         /\ conn'[d].serving \subseteq conn[d].serving
         /\ (conn[d].up # "none" => conn'[d].up # "none")
  BY <1>1, <1>4, <1>7
<1>11. Registry' /\ AllSettled' /\ Counted' /\ Ours' /\ Alone'
  <2>1. Registry' /\ AllSettled'
    <3>1. \A d \in Conns : conn'[d].up = "reset" =>
            conn[d].up = "reset" \/ conn[d].host \in unsettled'
      BY <1>2, <1>4, <1>7
    <3> QED BY <1>1, <1>5, <1>8, <1>10, <3>1, RegistryStays, SettledStays
  <2>2. \A d \in Conns : conn'[d].handlers \subseteq conn[d].handlers
    BY <1>10
  <2> QED BY <1>1, <1>5, <1>10, <2>1, <2>2, CallsStay
<1>12. Answered'
  <2>1. \A d \in Conns : conn'[d].up = "open" => conn'[d] = conn[d]
    BY <1>2, <1>4, <1>7
  <2>2. \A d \in Conns : conn'[d] = conn[d] => Processed(d)' = Processed(d)
    BY DEF Processed
  <2> QED BY <1>1, <1>5, <2>1, <2>2, AnswersStay
<1> QED BY <1>7, <1>9, <1>11, <1>12 DEF Inv
-----------------------------------------------------------------------------
(* TSClientReceiver.                                                       *)

(* A chunk is read, and decoded if it ends with a NUL.                     *)
LEMMA ReadKeeps ==
  ASSUME Inv, NEW c \in Conns, Read(c)
  PROVE  Inv'
<1> DEFINE o == conn[c]
<1>1. /\ Types /\ Streams /\ Hellos /\ Registry /\ AllSettled /\ Counted /\ Ours /\ Alone
      /\ Answered /\ o \in ConnType /\ ConnOK(o) /\ o.recv = "read"
  BY DEF Inv, Types, Streams, Read
<1>2. PICK n \in 1 .. Len(o.in) :
       LET buf == o.buf \o SubSeq(o.in, 1, n)
           rest == SubSeq(o.in, n + 1, Len(o.in))
       IN conn' = IF Decodes(buf)
                  THEN [conn EXCEPT ![c].in = rest, ![c].buf = <<>>,
                                    ![c].mailbox = @ \o Texts(buf),
                                    ![c].decoded = @ \o Texts(buf)]
                  ELSE [conn EXCEPT ![c].in = rest, ![c].buf = buf]
  BY DEF Read
<1> DEFINE b == o.buf \o SubSeq(o.in, 1, n)
           r == SubSeq(o.in, n + 1, Len(o.in))
           x == Texts(b)
           v == IF Decodes(b)
                THEN [o EXCEPT !.in = r, !.buf = <<>>, !.mailbox = @ \o x, !.decoded = @ \o x]
                ELSE [o EXCEPT !.in = r, !.buf = b]
<1>3. /\ hello' = hello /\ clients' = clients /\ agents' = agents /\ caller' = caller
      /\ raced' = raced /\ unsettled' = unsettled
  BY DEF Read
<1>4. conn' = [conn EXCEPT ![c] = v]
  <2> HIDE DEF b, r, x
  <2>1. conn' = IF Decodes(b)
                  THEN [conn EXCEPT ![c].in = r, ![c].buf = <<>>,
                                    ![c].mailbox = @ \o x, ![c].decoded = @ \o x]
                  ELSE [conn EXCEPT ![c].in = r, ![c].buf = b]
    BY <1>2 DEF b, r, x
  <2> QED BY <1>1, <2>1 DEF Types
<1>5. /\ o.sent \in Seq(Message) /\ o.decoded \in Seq(Message) /\ o.buf \in Seq(Piece)
      /\ o.in \in Seq(Piece) /\ Stream(o.sent, o.decoded, o.buf, o.in)
      /\ o.mailbox \in Seq(Message \cup {<<"stop">>}) /\ Rest(o.mailbox, o.decoded)
      /\ Mail(o.mailbox, o.sent) /\ HelloFirst(o.sent) /\ UpOK(o)
  BY <1>1 DEF ConnType, ConnOK
<1>6. /\ b \in Seq(Piece) /\ r \in Seq(Piece) /\ Stream(o.sent, o.decoded, b, r)
      /\ Reaches(o.decoded, b, r) = Reaches(o.decoded, o.buf, o.in)
      /\ Len(b) = Len(o.buf) + n
  <2>1. n \in 0 .. Len(o.in)
    OBVIOUS
  <2> QED BY <1>5, <2>1, ReadStream
<1> HIDE DEF b, r
<1>7. ASSUME Decodes(b)
      PROVE  Decoded(o.sent, o.decoded, o.mailbox, b, r, o.decoded \o x, o.mailbox \o x)
  <2>1. Cut(b, 2 * Len(o.decoded), o.sent) /\ Len(o.decoded) \in Nat
        /\ 2 * Len(o.decoded) + Len(b) <= 2 * Len(o.sent) /\ b # <<>>
    <3>1. PICK ld \in Nat, lb \in Nat, lr \in Nat, ls \in Nat, l \in Nat :
            ld = Len(o.decoded) /\ lb = Len(b) /\ lr = Len(r) /\ ls = Len(o.sent)
            /\ l = Len(o.buf)
      BY <1>5, <1>6, LenProperties
    <3>2. 2 * ld + lb + lr <= 2 * ls /\ lb = l + n
      BY <1>6, <3>1 DEF Stream, Reaches
    <3>3. 2 * ld + lb <= 2 * ls /\ lb # 0
      BY <3>2
    <3>4. b # <<>>
      BY <3>1, <3>3
    <3> QED BY <1>6, <3>1, <3>3, <3>4 DEF Stream
  <2>2. Whole(b)
    BY <1>5, <1>6, <1>7, <2>1, WholeIfNul
  <2>3. /\ o.sent \in Seq(Message) /\ o.decoded \in Seq(Message) /\ b \in Seq(Piece)
        /\ r \in Seq(Piece) /\ o.mailbox \in Seq(Message \cup {<<"stop">>})
        /\ Whole(b) /\ Stream(o.sent, o.decoded, b, r)
        /\ Rest(o.mailbox, o.decoded) /\ Mail(o.mailbox, o.sent) /\ HelloFirst(o.sent)
    BY <1>5, <1>6, <2>2
  <2> HIDE DEF o
  <2> QED BY <2>3, Decoding
<1> HIDE DEF x
<1>8. /\ v \in ConnType /\ v.host = o.host /\ v.up = o.up /\ v.recv = o.recv /\ v.id = o.id
      /\ v.sent = o.sent /\ v.msg_id = o.msg_id /\ v.handlers = o.handlers
      /\ v.serving = o.serving /\ v.processing = o.processing /\ v.in = r
  <2>1. <<>> \in Seq(Piece)
    OBVIOUS
  <2>2. CASE Decodes(b)
    BY <1>1, <1>6, <1>7, <2>1, <2>2 DEF ConnType, Decoded
  <2>3. CASE ~Decodes(b)
    BY <1>1, <1>6, <2>3 DEF ConnType
  <2> QED BY <2>2, <2>3
<1>9. /\ Decodes(b) => v.buf = <<>> /\ v.mailbox = o.mailbox \o x /\ v.decoded = o.decoded \o x
      /\ ~Decodes(b) => v.buf = b /\ v.mailbox = o.mailbox /\ v.decoded = o.decoded
  BY <1>1 DEF ConnType
<1> HIDE DEF v
<1>10. ConnOK(v)
  <2>1. UpOK(v)
    BY <1>1, <1>5, <1>8 DEF UpOK
  <2>2. Stream(v.sent, v.decoded, v.buf, v.in)
        /\ Reaches(v.decoded, v.buf, v.in) = Reaches(o.decoded, o.buf, o.in)
        /\ Rest(v.mailbox, v.decoded) /\ Mail(v.mailbox, v.sent)
    BY <1>5, <1>6, <1>7, <1>8, <1>9 DEF Decoded
  <2> QED BY <1>1, <1>5, <1>8, <2>1, <2>2 DEF ConnOK
<1>11. /\ conn' \in [Conns -> ConnType] /\ Streams'
       /\ conn'[c] = v /\ \A d \in Conns \ {c} : conn'[d] = conn[d]
  BY <1>1, <1>4, <1>8, <1>10, ConnStep
<1>12. Types'
  BY <1>1, <1>3, <1>11 DEF Types
<1>13. Hellos'
  <2>1. ASSUME hello[c].pc # "off"
        PROVE  /\ v.decoded # <<>> /\ v.up # "none"
               /\ \A j \in DOMAIN v.mailbox : v.mailbox[j] # <<"hello">>
    <3>1. /\ o.decoded # <<>> /\ o.up # "none"
          /\ \A j \in DOMAIN o.mailbox : o.mailbox[j] # <<"hello">>
      BY <1>1, <2>1 DEF Hellos
    <3> QED BY <1>7, <1>8, <1>9, <3>1 DEF Decoded
  <2> QED BY <1>1, <1>3, <1>11, <2>1 DEF Hellos
<1>14. \A d \in Conns : conn'[d].id = conn[d].id /\ conn'[d].host = conn[d].host
         /\ conn'[d].recv = conn[d].recv /\ conn'[d].msg_id = conn[d].msg_id
         /\ conn'[d].sent = conn[d].sent /\ conn'[d].handlers = conn[d].handlers
         /\ conn'[d].serving = conn[d].serving /\ conn'[d].up = conn[d].up
         /\ conn'[d].processing = conn[d].processing
  BY <1>8, <1>11
<1>15. Registry' /\ AllSettled' /\ Counted' /\ Ours' /\ Alone'
  BY <1>1, <1>3, <1>14, RegistryStays, SettledStays, CallsStay
<1>16. \A d \in Conns : Processed(d)' = Processed(d)
  <2>1. Len(v.decoded) - Len(v.mailbox) = Len(o.decoded) - Len(o.mailbox)
    BY <1>7, <1>9 DEF Decoded
  <2> QED BY <1>11, <2>1 DEF Processed
<1>17. Answered'
  BY <1>1, <1>3, <1>14, <1>16, AnswersStay
<1> QED BY <1>11, <1>12, <1>13, <1>15, <1>17 DEF Inv

(* Stop behind the mail.                                                   *)
LEMMA StopMail ==
  ASSUME NEW b \in Seq(Message \cup {<<"stop">>}), NEW sent, Mail(b, sent)
  PROVE  /\ Append(b, <<"stop">>) \in Seq(Message \cup {<<"stop">>})
         /\ Mail(Append(b, <<"stop">>), sent)
         /\ \A j \in DOMAIN Append(b, <<"stop">>) :
              Append(b, <<"stop">>)[j] = <<"hello">> => j \in DOMAIN b /\ b[j] = <<"hello">>
<1> DEFINE stop == <<"stop">>
           s == Append(b, stop)
           M == Message \cup {<<"stop">>}
<1>1. stop \in M /\ stop # <<"hello">>
  <2>1. stop[1] # <<"hello">>[1]
    OBVIOUS
  <2> QED BY <2>1
<1>2. /\ s \in Seq(M) /\ DOMAIN s = 1 .. Len(b) + 1 /\ DOMAIN b = 1 .. Len(b) /\ Len(b) \in Nat
      /\ \A j \in 1 .. Len(b) : s[j] = b[j]
      /\ s[Len(b) + 1] = stop
  <2> HIDE DEF stop, M
  <2>1. s \in Seq(M) /\ Len(s) = Len(b) + 1 /\ (\A j \in 1 .. Len(b) : s[j] = b[j])
        /\ s[Len(b) + 1] = stop
    BY <1>1, AppendProperties DEF M
  <2>2. DOMAIN s = 1 .. Len(s) /\ DOMAIN b = 1 .. Len(b) /\ Len(b) \in Nat
    BY <2>1, LenProperties DEF M
  <2> QED BY <2>1, <2>2
<1> HIDE DEF s
<1>3. \A j \in DOMAIN s : (j \in DOMAIN b /\ s[j] = b[j]) \/ s[j] = stop
  BY <1>2
<1>4. \A j \in DOMAIN s : s[j] = <<"hello">> => j \in DOMAIN b /\ b[j] = <<"hello">>
  BY <1>1, <1>3
<1>5. Mail(s, sent)
  BY <1>3, <1>4 DEF Mail
<1> QED BY <1>2, <1>4, <1>5 DEF s

(* The complete messages of a buffer.                                      *)
LEMMA CompleteStream ==
  ASSUME NEW sent \in Seq(Message), NEW decoded \in Seq(Message), NEW buf \in Seq(Piece),
         Stream(sent, decoded, buf, <<>>)
  PROVE  /\ Complete(buf) \in Seq(Piece) /\ Whole(Complete(buf))
         /\ Stream(sent, decoded, Complete(buf), <<>>)
<1>1. PICK q \in Nat : q = Len(buf) \div 2 /\ (Len(buf) = 2 * q \/ Len(buf) = 2 * q + 1)
  BY Halves, LenProperties
<1>2. Complete(buf) = SubSeq(buf, 1, 2 * q) /\ 2 * q \in 0 .. Len(buf)
  BY <1>1 DEF Complete
<1>3. /\ Complete(buf) \in Seq(Piece) /\ Len(Complete(buf)) = 2 * q
      /\ Cut(Complete(buf), 2 * Len(decoded), sent)
  <2>1. Cut(buf, 2 * Len(decoded), sent) /\ 2 * Len(decoded) \in Nat
    BY LenProperties DEF Stream
  <2> QED BY <1>2, <2>1, CutSplit
<1>4. Reaches(decoded, Complete(buf), <<>>) <= 2 * Len(sent)
  <2>1. PICK ld \in Nat, lb \in Nat, ls \in Nat :
          ld = Len(decoded) /\ lb = Len(buf) /\ ls = Len(sent)
    BY LenProperties
  <2>2. 2 * ld + lb <= 2 * ls
    BY <2>1 DEF Stream, Reaches
  <2>3. 2 * ld + 2 * q <= 2 * ls
    BY <1>1, <2>1, <2>2
  <2> QED BY <1>3, <2>1, <2>3 DEF Reaches
<1>5. Cut(<<>>, 2 * Len(decoded) + Len(Complete(buf)), sent)
  BY DEF Cut
<1>6. Stream(sent, decoded, Complete(buf), <<>>)
  BY <1>3, <1>4, <1>5 DEF Stream
<1> QED BY <1>3, <1>6 DEF Whole

(* The stream ends.                                                        *)
LEMMA EndOfStreamKeeps ==
  ASSUME Inv, NEW c \in Conns, EndOfStream(c)
  PROVE  Inv'
<1> DEFINE o == conn[c]
           x == Texts(Complete(o.buf))
           v == IF o.up = "reset" THEN [o EXCEPT !.recv = "done"]
                ELSE [o EXCEPT !.recv = "unlist", !.buf = <<>>, !.decoded = @ \o x,
                               !.mailbox = Append(@ \o x, <<"stop">>)]
<1>1. /\ Types /\ Streams /\ Hellos /\ Registry /\ AllSettled /\ Counted /\ Ours /\ Alone
      /\ Answered /\ o \in ConnType /\ ConnOK(o) /\ o.recv = "read" /\ o.in = <<>>
      /\ o.up \in {"closed", "reset"}
  BY DEF Inv, Types, Streams, EndOfStream
<1>2. /\ hello' = hello /\ clients' = clients /\ agents' = agents /\ caller' = caller
      /\ raced' = raced
      /\ unsettled' = IF o.up = "closed" /\ hello[c].pc # "done"
                      THEN unsettled \cup {o.host} ELSE unsettled
  BY DEF EndOfStream
<1>3. conn' = [conn EXCEPT ![c] = v]
  <2>1. conn' = IF o.up = "reset" THEN [conn EXCEPT ![c].recv = "done"]
                ELSE [conn EXCEPT ![c].recv = "unlist", ![c].buf = <<>>, ![c].decoded = @ \o x,
                                  ![c].mailbox = Append(@ \o x, <<"stop">>)]
    BY DEF EndOfStream
  <2> HIDE DEF x
  <2> QED BY <1>1, <2>1 DEF Types
<1>4. /\ o.sent \in Seq(Message) /\ o.decoded \in Seq(Message) /\ o.buf \in Seq(Piece)
      /\ o.in \in Seq(Piece) /\ Stream(o.sent, o.decoded, o.buf, <<>>)
      /\ o.mailbox \in Seq(Message \cup {<<"stop">>}) /\ Rest(o.mailbox, o.decoded)
      /\ Mail(o.mailbox, o.sent) /\ HelloFirst(o.sent) /\ UpOK(o)
  BY <1>1 DEF ConnType, ConnOK
<1>5. Decoded(o.sent, o.decoded, o.mailbox, Complete(o.buf), <<>>,
              o.decoded \o x, o.mailbox \o x)
  <2>1. /\ o.sent \in Seq(Message) /\ o.decoded \in Seq(Message)
        /\ o.mailbox \in Seq(Message \cup {<<"stop">>}) /\ <<>> \in Seq(Piece)
        /\ Complete(o.buf) \in Seq(Piece) /\ Whole(Complete(o.buf))
        /\ Stream(o.sent, o.decoded, Complete(o.buf), <<>>)
        /\ Rest(o.mailbox, o.decoded) /\ Mail(o.mailbox, o.sent) /\ HelloFirst(o.sent)
    BY <1>4, CompleteStream
  <2> HIDE DEF o
  <2> QED BY <2>1, Decoding
<1> HIDE DEF x
<1> DEFINE mail == Append(o.mailbox \o x, <<"stop">>)
<1>6. /\ mail \in Seq(Message \cup {<<"stop">>}) /\ Mail(mail, o.sent)
      /\ \A j \in DOMAIN mail : mail[j] = <<"hello">> =>
           j \in DOMAIN (o.mailbox \o x) /\ (o.mailbox \o x)[j] = <<"hello">>
  <2>1. o.mailbox \o x \in Seq(Message \cup {<<"stop">>}) /\ Mail(o.mailbox \o x, o.sent)
    BY <1>5 DEF Decoded
  <2> QED BY <2>1, StopMail
<1>7. /\ v \in ConnType /\ v.host = o.host /\ v.up = o.up /\ v.id = o.id
      /\ v.sent = o.sent /\ v.msg_id = o.msg_id /\ v.handlers = o.handlers
      /\ v.serving = o.serving /\ v.processing = o.processing /\ v.in = o.in
      /\ o.up = "reset" => v.recv = "done" /\ v.buf = o.buf /\ v.mailbox = o.mailbox
                           /\ v.decoded = o.decoded
      /\ o.up = "closed" => v.recv = "unlist" /\ v.buf = <<>> /\ v.mailbox = mail
                            /\ v.decoded = o.decoded \o x
  <2>1. <<>> \in Seq(Piece) /\ o.decoded \o x \in Seq(Message)
    BY <1>5 DEF Decoded
  <2>2. CASE o.up = "reset"
    BY <1>1, <2>2 DEF ConnType
  <2>3. CASE o.up = "closed"
    <3> HIDE DEF mail
    <3>1. v = [o EXCEPT !.recv = "unlist", !.buf = <<>>, !.decoded = o.decoded \o x,
                        !.mailbox = mail]
      BY <2>3 DEF mail
    <3> QED BY ZenonT(60), <1>1, <1>6, <2>1, <2>3, <3>1 DEF ConnType
  <2> QED BY <1>1, <2>2, <2>3
<1> HIDE DEF v, mail
<1>8. ConnOK(v)
  <2>1. UpOK(v)
    BY <1>1, <1>4, <1>7 DEF UpOK
  <2>2. Stream(v.sent, v.decoded, v.buf, v.in) /\ Mail(v.mailbox, v.sent)
    <3>1. CASE o.up = "reset"
      BY <1>1, <1>4, <1>7, <3>1
    <3>2. CASE o.up = "closed"
      BY <1>1, <1>5, <1>6, <1>7, <3>2 DEF Decoded
    <3> QED BY <1>1, <3>1, <3>2
  <2>3. v.up # "open" /\ v.recv # "read"
    BY <1>1, <1>7
  <2> QED BY <1>4, <1>7, <2>1, <2>2, <2>3 DEF ConnOK
<1>9. /\ conn' \in [Conns -> ConnType] /\ Streams'
      /\ conn'[c] = v /\ \A d \in Conns \ {c} : conn'[d] = conn[d]
  BY <1>1, <1>3, <1>7, <1>8, ConnStep
<1>10. Types' /\ unsettled \subseteq unsettled'
  <2>1. o.host \in Hosts
    BY <1>1, <1>4 DEF UpOK, ConnType
  <2> QED BY <1>1, <1>2, <1>9, <2>1 DEF Types
<1>11. Hellos'
  <2>1. ASSUME hello[c].pc # "off"
        PROVE  /\ v.decoded # <<>> /\ v.up # "none"
               /\ \A j \in DOMAIN v.mailbox : v.mailbox[j] # <<"hello">>
    <3>1. /\ o.decoded # <<>> /\ o.up # "none"
          /\ \A j \in DOMAIN o.mailbox : o.mailbox[j] # <<"hello">>
      BY <1>1, <2>1 DEF Hellos
    <3>2. CASE o.up = "reset"
      BY <1>7, <3>1, <3>2
    <3>3. CASE o.up = "closed"
      BY <1>5, <1>6, <1>7, <3>1, <3>3 DEF Decoded
    <3> QED BY <1>1, <3>2, <3>3
  <2> QED BY <1>1, <1>2, <1>9, <2>1 DEF Hellos
<1>12. \A d \in Conns : conn'[d].id = conn[d].id /\ conn'[d].host = conn[d].host
         /\ conn'[d].msg_id = conn[d].msg_id /\ conn'[d].up = conn[d].up
         /\ conn'[d].sent = conn[d].sent /\ conn'[d].handlers = conn[d].handlers
         /\ conn'[d].serving = conn[d].serving
  BY <1>7, <1>9
<1>13. Registry' /\ Counted' /\ Ours' /\ Alone'
  BY <1>1, <1>2, <1>12, RegistryStays, CallsStay
<1>14. AllSettled'
  <2>1. \A d \in Conns : conn'[d].up = "reset" => conn'[d].host \in unsettled'
    BY <1>1, <1>10, <1>12 DEF AllSettled
  <2> SUFFICES ASSUME NEW h \in Hosts \ unsettled' PROVE Settled(h)'
    BY <2>1 DEF AllSettled
  <2>2. Settled(h)
    BY <1>1, <1>10 DEF AllSettled
  <2>3. Existing(h)' = Existing(h) /\ Saved' = Saved /\ \A d : Lists(d, h)' = Lists(d, h)
    BY <1>2 DEF Existing, Saved, Lists
  <2>4. o.host = h => o.up = "closed" /\ hello[c].pc = "done" /\ conn'[c].recv = "unlist"
    BY <1>1, <1>2, <1>7, <1>9 DEF AllSettled
  <2>5. \A d \in Conns : conn[d].host = h =>
          /\ conn'[d].recv = "done" <=> conn[d].recv = "done"
          /\ conn'[d].recv # "read" => hello[d].pc = "done"
          /\ conn'[d].recv \in {"read", "unlist"} <=> conn[d].recv \in {"read", "unlist"}
    BY <1>1, <1>9, <2>2, <2>4 DEF Settled
  <2>6. \A a \in Existing(h) : agents'[a].active <=>
          \E d \in Saved : conn'[d].host = h /\ conn'[d].recv # "done"
    BY <1>2, <1>12, <2>2, <2>5 DEF Settled, Saved
  <2>7. \A d \in Conns : conn'[d].host = h =>
          /\ conn'[d].recv # "read" => hello[d].pc = "done"
          /\ hello[d].pc = "save" /\ hello[d].agent = None => Existing(h) = {}
          /\ Lists(d, h) <=> hello[d].pc = "done" /\ conn'[d].recv \in {"read", "unlist"}
    BY <1>12, <2>2, <2>5 DEF Settled
  <2>8. \A d, e \in Conns : conn'[d].host = h /\ conn'[e].host = h
                            /\ conn'[d].recv # "done" /\ conn'[e].recv # "done" => d = e
    BY <1>12, <2>2, <2>5 DEF Settled
  <2> QED BY <1>2, <2>2, <2>3, <2>6, <2>7, <2>8 DEF Settled
<1>15. Answered'
  <2>1. \A d \in Conns : conn'[d].up = "open" => conn'[d] = conn[d]
    BY <1>1, <1>7, <1>9
  <2>2. \A d \in Conns : conn'[d] = conn[d] => Processed(d)' = Processed(d)
    BY DEF Processed
  <2> QED BY <1>1, <1>2, <2>1, <2>2, AnswersStay
<1> QED BY <1>9, <1>10, <1>11, <1>13, <1>14, <1>15 DEF Inv

(* What a step of the receiver that ends changes of a connection.          *)
LEMMA RecvStep ==
  ASSUME Types, Streams, Hellos, NEW c \in Conns, NEW place,
         place \in {"deactivate", "done"}, conn[c].recv \in {"unlist", "deactivate"},
         conn' = [conn EXCEPT ![c].recv = place], hello' = hello
  PROVE  /\ conn' \in [Conns -> ConnType] /\ Streams' /\ Hellos'
         /\ conn'[c].recv = place
         /\ \A d \in Conns \ {c} : conn'[d] = conn[d]
         /\ \A d \in Conns : /\ conn'[d].id = conn[d].id /\ conn'[d].host = conn[d].host
              /\ conn'[d].msg_id = conn[d].msg_id /\ conn'[d].up = conn[d].up
              /\ conn'[d].sent = conn[d].sent /\ conn'[d].handlers = conn[d].handlers
              /\ conn'[d].serving = conn[d].serving /\ conn'[d].mailbox = conn[d].mailbox
              /\ conn'[d].decoded = conn[d].decoded
              /\ conn'[d].processing = conn[d].processing
         /\ conn[c].host \in Hosts
<1> DEFINE o == conn[c]
           v == [o EXCEPT !.recv = place]
<1>1. o \in ConnType /\ ConnOK(o)
  BY DEF Types, Streams
<1>2. /\ v \in ConnType /\ v.host = o.host /\ v.up = o.up /\ v.recv = place /\ v.id = o.id
      /\ v.sent = o.sent /\ v.decoded = o.decoded /\ v.buf = o.buf /\ v.in = o.in
      /\ v.mailbox = o.mailbox /\ v.msg_id = o.msg_id /\ v.handlers = o.handlers
      /\ v.serving = o.serving /\ v.processing = o.processing
  BY <1>1 DEF ConnType
<1>3. conn' = [conn EXCEPT ![c] = v]
  BY DEF Types
<1> HIDE DEF v
<1>4. ConnOK(v)
  BY <1>1, <1>2 DEF ConnOK, UpOK
<1>5. /\ conn' \in [Conns -> ConnType] /\ Streams'
      /\ conn'[c] = v /\ \A d \in Conns \ {c} : conn'[d] = conn[d]
  BY <1>2, <1>3, <1>4, ConnStep
<1>6. Hellos'
  BY <1>2, <1>5 DEF Hellos
<1>7. conn[c].host \in Hosts
  BY <1>1 DEF ConnOK, UpOK, ConnType
<1> QED BY <1>2, <1>5, <1>6, <1>7

(* The connection is taken from the list.                                  *)
LEMMA UnlistKeeps ==
  ASSUME Inv, NEW c \in Conns, Unlist(c)
  PROVE  Inv'
<1>1. /\ Types /\ Streams /\ Hellos /\ Registry /\ AllSettled /\ Counted /\ Ours /\ Alone
      /\ Answered /\ conn[c].recv = "unlist"
  BY DEF Inv, Unlist
<1>2. /\ conn' = [conn EXCEPT ![c].recv = "deactivate"]
      /\ hello' = hello /\ agents' = agents /\ caller' = caller
      /\ raced' = raced /\ unsettled' = unsettled
      /\ clients' = [a \in Conns |-> IF a = conn[c].id THEN None ELSE clients[a]]
  BY DEF Unlist, Unlisted
<1>3. /\ conn' \in [Conns -> ConnType] /\ Streams' /\ Hellos'
      /\ conn'[c].recv = "deactivate"
      /\ \A d \in Conns \ {c} : conn'[d] = conn[d]
      /\ \A d \in Conns : /\ conn'[d].id = conn[d].id /\ conn'[d].host = conn[d].host
           /\ conn'[d].msg_id = conn[d].msg_id /\ conn'[d].up = conn[d].up
           /\ conn'[d].sent = conn[d].sent /\ conn'[d].handlers = conn[d].handlers
           /\ conn'[d].serving = conn[d].serving /\ conn'[d].mailbox = conn[d].mailbox
           /\ conn'[d].decoded = conn[d].decoded
           /\ conn'[d].processing = conn[d].processing
      /\ conn[c].host \in Hosts
  BY <1>1, <1>2, RecvStep
<1>4. Types'
  BY <1>1, <1>2, <1>3 DEF Types
<1>5. Registry'
  <2>1. \A a, h : OfHost(a, h)' = OfHost(a, h)
    BY <1>2 DEF OfHost
  <2>2. \A a \in Conns : clients'[a] \in {clients[a], None}
    BY <1>2
  <2> QED BY <1>1, <1>2, <1>3, <2>1, <2>2, RegistryKeeps
<1>6. Counted' /\ Ours' /\ Alone'
  BY <1>1, <1>2, <1>3, CallsStay
<1>7. Answered'
  <2>1. \A d \in Conns : Processed(d)' = Processed(d)
    BY <1>3 DEF Processed
  <2> QED BY <1>1, <1>2, <1>3, <2>1, AnswersStay
<1>8. AllSettled'
  <2>1. \A d \in Conns : conn'[d].up = "reset" => conn'[d].host \in unsettled'
    BY <1>1, <1>2, <1>3 DEF AllSettled
  <2> SUFFICES ASSUME NEW h \in Hosts \ unsettled' PROVE Settled(h)'
    BY <2>1 DEF AllSettled
  <2>2. Settled(h)
    BY <1>1, <1>2 DEF AllSettled
  <2>3. /\ Existing(h)' = Existing(h) /\ Saved' = Saved
        /\ Existing(h) \subseteq Conns
    BY <1>1, <1>2, AgentsAreFew DEF Existing, Saved
  <2>4. CASE conn[c].host # h
    <3>1. \A d \in Conns : conn[d].host = h => conn'[d].recv = conn[d].recv
      BY <1>3, <2>4
    <3>2. \A a \in Existing(h) : clients'[a] = clients[a]
      <4>1. conn[c].id # None => OfHost(conn[c].id, conn[c].host)
        BY <1>1 DEF Registry
      <4>2. conn[c].id = None \/ conn[c].id \notin Existing(h)
        BY <2>4, <4>1 DEF OfHost, Existing
      <4>3. None \notin Conns
        BY DEF None, Conns
      <4> QED BY <1>2, <2>3, <4>2, <4>3
    <3>3. \A d : Lists(d, h)' = Lists(d, h)
      BY <2>3, <3>2 DEF Lists
    <3>4. \A a \in Existing(h) : agents'[a].active <=>
            \E d \in Saved : conn'[d].host = h /\ conn'[d].recv # "done"
      BY <1>2, <1>3, <2>2, <3>1 DEF Settled, Saved
    <3> QED BY <1>2, <1>3, <2>2, <2>3, <3>1, <3>3, <3>4 DEF Settled
  <2>5. CASE conn[c].host = h
    <3>1. /\ hello[c].pc = "done" /\ conn[c].id \in Existing(h)
          /\ \A d \in Conns \ {c} : conn[d].host = h => conn[d].recv = "done"
      <4>1. hello[c].pc = "done"
        BY <1>1, <2>2, <2>5 DEF Settled
      <4>2. conn[c].id # None /\ OfHost(conn[c].id, h)
        BY <1>1, <2>5, <4>1 DEF Registry
      <4>3. \A d \in Conns \ {c} : conn[d].host = h => conn[d].recv = "done"
        BY <1>1, <2>2, <2>5 DEF Settled
      <4> QED BY <4>1, <4>2, <4>3 DEF Existing, OfHost
    <3>2. \A a \in Existing(h) : clients'[a] = None
      <4>1. \A a \in Existing(h) : a = conn[c].id
        BY <2>2, <3>1 DEF Settled
      <4> QED BY <1>2, <2>3, <4>1
    <3>3. \A d \in Conns : ~Lists(d, h)'
      BY <2>3, <3>2 DEF Lists, None, Conns
    <3>4. \A d \in Conns : conn[d].host = h =>
            /\ conn'[d].recv = "done" <=> conn[d].recv = "done"
            /\ conn'[d].recv \notin {"read", "unlist"}
      BY <1>1, <1>3, <3>1
    <3>5. \A a \in Existing(h) : agents'[a].active <=>
            \E d \in Saved : conn'[d].host = h /\ conn'[d].recv # "done"
      BY <1>2, <1>3, <2>2, <3>4 DEF Settled, Saved
    <3>6. \A d \in Conns : conn'[d].host = h =>
            /\ conn'[d].recv # "read" => hello[d].pc = "done"
            /\ hello[d].pc = "save" /\ hello[d].agent = None => Existing(h) = {}
            /\ Lists(d, h)' <=> hello[d].pc = "done" /\ conn'[d].recv \in {"read", "unlist"}
      BY <1>3, <2>2, <3>1, <3>3, <3>4 DEF Settled
    <3>7. \A d, e \in Conns : conn'[d].host = h /\ conn'[e].host = h
                              /\ conn'[d].recv # "done" /\ conn'[e].recv # "done" => d = e
      BY <1>3, <2>2, <3>4 DEF Settled
    <3> QED BY <1>2, <2>2, <2>3, <3>5, <3>6, <3>7 DEF Settled
  <2> QED BY <2>4, <2>5
<1> QED BY <1>3, <1>4, <1>5, <1>6, <1>7, <1>8 DEF Inv

(* The agent is set inactive.                                              *)
LEMMA DeactivateKeeps ==
  ASSUME Inv, NEW c \in Conns, Deactivate(c)
  PROVE  Inv'
<1>1. /\ Types /\ Streams /\ Hellos /\ Registry /\ AllSettled /\ Counted /\ Ours /\ Alone
      /\ Answered /\ conn[c].recv = "deactivate"
  BY DEF Inv, Deactivate
<1>2. /\ conn' = [conn EXCEPT ![c].recv = "done"]
      /\ hello' = hello /\ clients' = clients /\ caller' = caller
      /\ raced' = raced /\ unsettled' = unsettled
      /\ agents' = IF conn[c].id = None THEN agents
                   ELSE [agents EXCEPT ![conn[c].id].active = FALSE]
  BY DEF Deactivate, Deactivated
<1>3. /\ conn' \in [Conns -> ConnType] /\ Streams' /\ Hellos'
      /\ conn'[c].recv = "done"
      /\ \A d \in Conns \ {c} : conn'[d] = conn[d]
      /\ \A d \in Conns : /\ conn'[d].id = conn[d].id /\ conn'[d].host = conn[d].host
           /\ conn'[d].msg_id = conn[d].msg_id /\ conn'[d].up = conn[d].up
           /\ conn'[d].sent = conn[d].sent /\ conn'[d].handlers = conn[d].handlers
           /\ conn'[d].serving = conn[d].serving /\ conn'[d].mailbox = conn[d].mailbox
           /\ conn'[d].decoded = conn[d].decoded
           /\ conn'[d].processing = conn[d].processing
      /\ conn[c].host \in Hosts
  BY <1>1, <1>2, RecvStep
<1>4. /\ conn[c].id # None => OfHost(conn[c].id, conn[c].host)
      /\ agents \in Seq([host : Hosts, active : BOOLEAN])
  BY <1>1 DEF Registry, Types
<1>5. /\ agents' \in Seq([host : Hosts, active : BOOLEAN]) /\ Len(agents') = Len(agents)
      /\ DOMAIN agents' = DOMAIN agents
      /\ \A a \in DOMAIN agents : agents'[a].host = agents[a].host
      /\ \A a \in DOMAIN agents \ {conn[c].id} : agents'[a] = agents[a]
      /\ conn[c].id # None => ~agents'[conn[c].id].active
  <2>1. CASE conn[c].id = None
    BY <1>2, <1>4, <2>1
  <2>2. CASE conn[c].id # None
    <3>1. PICK a \in DOMAIN agents : a = conn[c].id
      BY <1>4, <2>2 DEF OfHost
    <3>2. agents[a] \in [host : Hosts, active : BOOLEAN] /\ a \in 1 .. Len(agents)
      BY <1>4, ElementOfSeq, LenProperties
    <3> DEFINE r == [agents[a] EXCEPT !.active = FALSE]
    <3>3. r \in [host : Hosts, active : BOOLEAN] /\ r.host = agents[a].host /\ ~r.active
      BY <3>2
    <3>4. agents' = [agents EXCEPT ![a] = r]
      BY <1>2, <2>2, <3>1
    <3> HIDE DEF r
    <3>5. /\ agents' \in Seq([host : Hosts, active : BOOLEAN]) /\ Len(agents') = Len(agents)
          /\ agents'[a] = r /\ \A b \in 1 .. Len(agents) \ {a} : agents'[b] = agents[b]
      BY <1>4, <3>2, <3>3, <3>4, ExceptSeq
    <3>6. DOMAIN agents' = DOMAIN agents /\ DOMAIN agents = 1 .. Len(agents)
      BY <1>4, <3>5, LenProperties
    <3> QED BY <2>2, <3>1, <3>3, <3>5, <3>6
  <2> QED BY <2>1, <2>2
<1>6. Types'
  BY <1>1, <1>2, <1>3, <1>5 DEF Types
<1>7. \A a, h : OfHost(a, h)' = OfHost(a, h)
  BY <1>5 DEF OfHost
<1>8. Registry'
  <2>2. \A a \in Conns : clients'[a] \in {clients[a], None}
    BY <1>2
  <2> QED BY <1>1, <1>2, <1>3, <1>5, <1>7, <2>2, RegistryKeeps
<1>9. Counted' /\ Ours' /\ Alone'
  BY <1>1, <1>2, <1>3, CallsStay
<1>10. Answered'
  <2>1. \A d \in Conns : Processed(d)' = Processed(d)
    BY <1>3 DEF Processed
  <2> QED BY <1>1, <1>2, <1>3, <2>1, AnswersStay
<1>11. AllSettled'
  <2>1. \A d \in Conns : conn'[d].up = "reset" => conn'[d].host \in unsettled'
    BY <1>1, <1>2, <1>3 DEF AllSettled
  <2> SUFFICES ASSUME NEW h \in Hosts \ unsettled' PROVE Settled(h)'
    BY <2>1 DEF AllSettled
  <2>2. Settled(h)
    BY <1>1, <1>2 DEF AllSettled
  <2>3. Existing(h)' = Existing(h) /\ Saved' = Saved /\ \A d : Lists(d, h)' = Lists(d, h)
    <3>1. Existing(h)' = Existing(h)
      BY <1>5 DEF Existing
    <3> QED BY <1>2, <3>1 DEF Saved, Lists
  <2>4. CASE conn[c].host # h
    <3>1. \A d \in Conns : conn[d].host = h => conn'[d].recv = conn[d].recv
      BY <1>3, <2>4
    <3>2. \A a \in Existing(h) : agents'[a] = agents[a]
      <4>1. conn[c].id = None \/ conn[c].id \notin Existing(h)
        BY <1>4, <2>4 DEF OfHost, Existing
      <4>2. None \notin DOMAIN agents
        BY <1>4, LenProperties DEF None
      <4> QED BY <1>5, <4>1, <4>2 DEF Existing
    <3>3. \A a \in Existing(h) : agents'[a].active <=>
            \E d \in Saved : conn'[d].host = h /\ conn'[d].recv # "done"
      BY <1>3, <2>2, <3>1, <3>2 DEF Settled, Saved
    <3> QED BY <1>2, <1>3, <2>2, <2>3, <3>1, <3>3 DEF Settled
  <2>5. CASE conn[c].host = h
    <3>1. /\ hello[c].pc = "done" /\ conn[c].id \in Existing(h) /\ conn[c].id # None
          /\ \A d \in Conns \ {c} : conn[d].host = h => conn[d].recv = "done"
      <4>1. hello[c].pc = "done"
        BY <1>1, <2>2, <2>5 DEF Settled
      <4>2. conn[c].id # None /\ OfHost(conn[c].id, h)
        BY <1>1, <2>5, <4>1 DEF Registry
      <4>3. \A d \in Conns \ {c} : conn[d].host = h => conn[d].recv = "done"
        BY <1>1, <2>2, <2>5 DEF Settled
      <4> QED BY <4>1, <4>2, <4>3 DEF Existing, OfHost
    <3>2. \A d \in Conns : conn'[d].host = h => conn'[d].recv = "done"
      BY <1>3, <3>1
    <3>3. \A a \in Existing(h) : ~agents'[a].active
      <4>1. \A a \in Existing(h) : a = conn[c].id
        BY <2>2, <3>1 DEF Settled
      <4> QED BY <1>5, <3>1, <4>1
    <3>4. \A a \in Existing(h) : agents'[a].active <=>
            \E d \in Saved : conn'[d].host = h /\ conn'[d].recv # "done"
      BY <3>2, <3>3 DEF Saved
    <3>5. \A d \in Conns : conn'[d].host = h =>
            /\ conn'[d].recv # "read" => hello[d].pc = "done"
            /\ hello[d].pc = "save" /\ hello[d].agent = None => Existing(h) = {}
            /\ Lists(d, h) <=> hello[d].pc = "done" /\ conn'[d].recv \in {"read", "unlist"}
      BY <1>1, <1>3, <2>2, <3>1, <3>2 DEF Settled
    <3>6. \A d, e \in Conns : conn'[d].host = h /\ conn'[e].host = h
                              /\ conn'[d].recv # "done" /\ conn'[e].recv # "done" => d = e
      BY <3>2
    <3> QED BY <1>2, <2>2, <2>3, <3>4, <3>5, <3>6 DEF Settled
  <2> QED BY <2>4, <2>5
<1> QED BY <1>3, <1>6, <1>8, <1>9, <1>10, <1>11 DEF Inv
-----------------------------------------------------------------------------
(* TSClientProcessor.                                                      *)

(* The first of a message says what it is.                                 *)
LEMMA Kinds ==
  ASSUME NEW m \in Message \cup {<<"stop">>}
  PROVE  /\ m[1] = "hello" => m = <<"hello">>
         /\ m[1] = "stop" => m = <<"stop">>
         /\ m[1] = "answer" => \E i \in Ids, k \in Callers : m = <<"answer", i, k>>
<1>1. CASE m = <<"hello">>
  <2>1. m[1] = "hello"
    BY <1>1
  <2> QED BY <1>1, <2>1
<1>2. CASE m = <<"stop">>
  <2>1. m[1] = "stop"
    BY <1>2
  <2> QED BY <1>2, <2>1
<1>3. CASE m \in {"answer"} \X Ids \X Callers
  <2>1. PICK i \in Ids, k \in Callers : m = <<"answer", i, k>>
    BY <1>3
  <2>2. m[1] = "answer"
    BY <2>1
  <2> QED BY <2>1, <2>2
<1> QED BY <1>1, <1>2, <1>3 DEF Message

(* A message is taken from the mailbox of a connection.                    *)
LEMMA TakeStep ==
  ASSUME Types, Streams, NEW c \in Conns, NEW v \in ConnType, conn[c].mailbox # <<>>,
         conn' = [conn EXCEPT ![c] = v], v.mailbox = Tail(conn[c].mailbox),
         v.host = conn[c].host, v.up = conn[c].up, v.recv = conn[c].recv,
         v.sent = conn[c].sent, v.decoded = conn[c].decoded, v.buf = conn[c].buf,
         v.in = conn[c].in
  PROVE  /\ conn' \in [Conns -> ConnType] /\ Streams'
         /\ conn'[c] = v /\ \A d \in Conns \ {c} : conn'[d] = conn[d]
         /\ Next_message(c) \in Message \cup {<<"stop">>}
         /\ Next_message(c) = conn[c].mailbox[1] /\ 1 \in DOMAIN conn[c].mailbox
         /\ Next_message(c) = <<"stop">> \/ \E j \in DOMAIN v.sent : v.sent[j] = Next_message(c)
         /\ \A n \in DOMAIN v.mailbox : v.mailbox[n] # <<"hello">>
         /\ conn[c].up # "none"
         /\ conn[c].recv = "read" =>
              /\ v.decoded # <<>> /\ Processed(c)' = Processed(c) + 1 /\ Processed(c) \in Nat
              /\ Processed(c) + 1 \in DOMAIN v.sent
              /\ v.sent[Processed(c) + 1] = Next_message(c)
              /\ Next_message(c) # <<"stop">>
<1> DEFINE o == conn[c]
<1>1. o \in ConnType /\ ConnOK(o) /\ o.mailbox \in Seq(Message \cup {<<"stop">>})
      /\ o.sent \in Seq(Message) /\ o.decoded \in Seq(Message) /\ Mail(o.mailbox, o.sent)
      /\ o.mailbox # <<>>
  BY DEF Types, Streams, ConnType, ConnOK
<1>2. /\ Head(o.mailbox) = o.mailbox[1] /\ 1 \in DOMAIN o.mailbox
      /\ Tail(o.mailbox) \in Seq(Message \cup {<<"stop">>}) /\ Mail(Tail(o.mailbox), o.sent)
      /\ Len(Tail(o.mailbox)) = Len(o.mailbox) - 1
      /\ \A n \in DOMAIN Tail(o.mailbox) : Tail(o.mailbox)[n] # <<"hello">>
      /\ Rest(o.mailbox, o.decoded) =>
           /\ Rest(Tail(o.mailbox), o.decoded)
           /\ Len(o.decoded) - Len(Tail(o.mailbox)) = Len(o.decoded) - Len(o.mailbox) + 1
           /\ Len(o.decoded) - Len(o.mailbox) + 1 \in DOMAIN o.decoded
           /\ o.mailbox[1] = o.decoded[Len(o.decoded) - Len(o.mailbox) + 1]
  <2> HIDE DEF o
  <2> QED BY <1>1, TakeMail
<1>3. o.up # "none"
  BY <1>1 DEF ConnOK, UpOK
<1>4. ConnOK(v)
  <2>1. UpOK(v)
    BY <1>1, <1>3 DEF ConnOK, UpOK
  <2> QED BY <1>1, <1>2, <2>1 DEF ConnOK
<1>5. /\ conn' \in [Conns -> ConnType] /\ Streams'
      /\ conn'[c] = v /\ \A d \in Conns \ {c} : conn'[d] = conn[d]
  BY <1>4, ConnStep
<1>6. Next_message(c) \in Message \cup {<<"stop">>} /\ Next_message(c) = o.mailbox[1]
  <2>1. o.mailbox[1] \in Message \cup {<<"stop">>}
    BY <1>1, <1>2, ElementOfSeq, LenProperties
  <2> QED BY <1>2, <2>1 DEF Next_message
<1>7. Next_message(c) = <<"stop">> \/ \E j \in DOMAIN v.sent : v.sent[j] = Next_message(c)
  BY <1>1, <1>2, <1>6 DEF Mail
<1>8. ASSUME o.recv = "read" PROVE
        /\ v.decoded # <<>> /\ Processed(c)' = Processed(c) + 1 /\ Processed(c) \in Nat
        /\ Processed(c) + 1 \in DOMAIN v.sent
        /\ v.sent[Processed(c) + 1] = Next_message(c)
        /\ Next_message(c) # <<"stop">>
  <2>1. Rest(o.mailbox, o.decoded)
    BY <1>1, <1>8 DEF ConnOK
  <2>2. /\ Processed(c)' = Processed(c) + 1 /\ Processed(c) + 1 \in DOMAIN o.decoded
        /\ Next_message(c) = o.decoded[Processed(c) + 1]
    BY <1>2, <1>5, <1>6, <2>1 DEF Processed
  <2>3. Processed(c) \in Nat
    <3>1. Len(o.decoded) \in Nat /\ Len(o.mailbox) \in Nat /\ Len(o.mailbox) <= Len(o.decoded)
      BY <1>1, <2>1, LenProperties DEF Rest
    <3> QED BY <3>1 DEF Processed
  <2>4. DOMAIN o.decoded \subseteq DOMAIN o.sent
    <3>1. PICK ld \in Nat, lb \in Nat, li \in Nat, ls \in Nat :
            ld = Len(o.decoded) /\ lb = Len(o.buf) /\ li = Len(o.in) /\ ls = Len(o.sent)
      BY <1>1, LenProperties DEF ConnType
    <3>2. 2 * ld + lb + li <= 2 * ls
      BY <1>1, <3>1 DEF ConnOK, Stream, Reaches
    <3>3. ld <= ls
      BY <3>2
    <3>4. DOMAIN o.decoded = 1 .. ld /\ DOMAIN o.sent = 1 .. ls
      BY <1>1, <3>1, LenProperties
    <3> QED BY <3>3, <3>4
  <2>5. o.decoded[Processed(c) + 1] = o.sent[Processed(c) + 1]
    BY <1>1, <2>2 DEF ConnOK, Stream
  <2>6. o.decoded[Processed(c) + 1] \in Message
    BY <1>1, <2>2, ElementOfSeq, LenProperties
  <2>7. <<"stop">> \notin Message
    <3>1. <<"stop">>[1] = "stop" /\ <<"hello">>[1] = "hello"
      OBVIOUS
    <3>2. \A m \in {"answer"} \X Ids \X Callers : m[1] = "answer"
      OBVIOUS
    <3> QED BY <3>1, <3>2 DEF Message
  <2>8. o.decoded # <<>>
    BY <2>2
  <2> QED BY <2>2, <2>3, <2>4, <2>5, <2>6, <2>7, <2>8
<1> QED BY <1>2, <1>3, <1>5, <1>6, <1>7, <1>8

(* A hello starts its actor.                                               *)
LEMMA StartHelloKeeps ==
  ASSUME Inv, NEW c \in Conns, StartHello(c)
  PROVE  Inv'
<1> DEFINE o == conn[c]
           v == [o EXCEPT !.mailbox = Tail(@)]
<1>1. /\ Types /\ Streams /\ Hellos /\ Registry /\ AllSettled /\ Counted /\ Ours /\ Alone
      /\ Answered /\ o \in ConnType /\ o.mailbox # <<>> /\ Next_message(c)[1] = "hello"
  BY DEF Inv, Types, StartHello, Processes
<1>2. /\ hello' = [hello EXCEPT ![c].pc = "find"] /\ clients' = clients /\ agents' = agents
      /\ caller' = caller /\ raced' = raced /\ unsettled' = unsettled
      /\ conn' = [conn EXCEPT ![c] = v]
  BY <1>1 DEF StartHello, Types
<1>3. /\ v \in ConnType /\ v.mailbox = Tail(o.mailbox)
      /\ v.host = o.host /\ v.up = o.up /\ v.recv = o.recv /\ v.id = o.id
      /\ v.sent = o.sent /\ v.decoded = o.decoded /\ v.buf = o.buf /\ v.in = o.in
      /\ v.msg_id = o.msg_id /\ v.handlers = o.handlers
      /\ v.serving = o.serving /\ v.processing = o.processing
  <2>1. Tail(o.mailbox) \in Seq(Message \cup {<<"stop">>})
    BY <1>1, HeadTailProperties DEF ConnType
  <2> QED BY <1>1, <2>1 DEF ConnType
<1> HIDE DEF v
<1>4. /\ conn' \in [Conns -> ConnType] /\ Streams'
      /\ conn'[c] = v /\ \A d \in Conns \ {c} : conn'[d] = conn[d]
      /\ Next_message(c) \in Message \cup {<<"stop">>}
      /\ Next_message(c) = o.mailbox[1] /\ 1 \in DOMAIN o.mailbox
      /\ \A n \in DOMAIN v.mailbox : v.mailbox[n] # <<"hello">>
      /\ o.up # "none"
      /\ o.recv = "read" =>
           /\ v.decoded # <<>> /\ Processed(c)' = Processed(c) + 1 /\ Processed(c) \in Nat
           /\ v.sent[Processed(c) + 1] = Next_message(c)
  <2> HIDE DEF o
  <2> QED BY <1>1, <1>2, <1>3, TakeStep DEF o
<1>5. Next_message(c) = <<"hello">>
  BY <1>1, <1>4, Kinds
<1>6. hello[c].pc = "off"
  BY <1>1, <1>4, <1>5 DEF Hellos
<1>7. /\ hello' \in [Conns -> HelloType] /\ hello'[c].pc = "find"
      /\ hello'[c].agent = hello[c].agent /\ \A d \in Conns \ {c} : hello'[d] = hello[d]
  <2>1. hello[c] \in HelloType
    BY <1>1 DEF Types
  <2>2. [hello[c] EXCEPT !.pc = "find"] \in HelloType
    BY <2>1 DEF HelloType
  <2>3. hello' = [hello EXCEPT ![c] = [hello[c] EXCEPT !.pc = "find"]]
    BY <1>1, <1>2 DEF Types
  <2> QED BY <1>1, <2>1, <2>2, <2>3 DEF Types, HelloType
<1>8. Types'
  BY <1>1, <1>2, <1>4, <1>7 DEF Types
<1>9. Hellos'
  <2>1. /\ conn'[c].up # "none" /\ (conn'[c].recv = "read" => conn'[c].decoded # <<>>)
        /\ \A n \in DOMAIN conn'[c].mailbox : conn'[c].mailbox[n] # <<"hello">>
    BY <1>3, <1>4
  <2>2. \A d \in Conns \ {c} : conn'[d] = conn[d] /\ hello'[d] = hello[d]
    BY <1>4, <1>7
  <2> QED BY <1>1, <2>1, <2>2 DEF Hellos
<1>10. \A d \in Conns : conn'[d].id = conn[d].id /\ conn'[d].host = conn[d].host
         /\ conn'[d].recv = conn[d].recv /\ conn'[d].msg_id = conn[d].msg_id
         /\ conn'[d].sent = conn[d].sent /\ conn'[d].handlers = conn[d].handlers
         /\ conn'[d].serving = conn[d].serving /\ conn'[d].up = conn[d].up
         /\ conn'[d].processing = conn[d].processing
  BY <1>3, <1>4
<1>11. /\ Saved' = Saved /\ \A d \in Conns : hello'[d].agent = hello[d].agent
       /\ \A d \in Conns : hello'[d].pc # hello[d].pc =>
            d = c /\ hello[d].pc = "off" /\ hello'[d].pc = "find"
  BY <1>6, <1>7 DEF Saved
<1>12. Registry'
  <2>1. ASSUME NEW d \in Conns PROVE
          /\ conn'[d].id # None => conn'[d].id \in DOMAIN agents'
                                   /\ agents'[conn'[d].id].host = conn'[d].host
          /\ hello'[d].agent # None => hello'[d].agent \in DOMAIN agents'
                                       /\ agents'[hello'[d].agent].host = conn'[d].host
          /\ hello'[d].pc \in {"name", "list", "done"} => hello'[d].agent # None
          /\ IF hello'[d].pc \in {"list", "done"} THEN conn'[d].id = hello'[d].agent
             ELSE conn'[d].id = None
    BY <1>1, <1>2, <1>10, <1>11 DEF Registry, OfHost
  <2>2. \A a \in Conns : clients'[a] # None =>
          conn'[clients'[a]].id = a /\ hello'[clients'[a]].pc = "done"
    BY <1>1, <1>2, <1>10, <1>11 DEF Registry, Types
  <2>3. Len(agents') <= Cardinality(Saved')
    BY <1>1, <1>2, <1>11 DEF Registry
  <2> QED BY <2>1, <2>2, <2>3 DEF Registry, OfHost
<1>13. AllSettled'
  <2>1. \A d \in Conns : conn'[d].up = "reset" => conn'[d].host \in unsettled'
    BY <1>1, <1>2, <1>10 DEF AllSettled
  <2> SUFFICES ASSUME NEW h \in Hosts \ unsettled' PROVE Settled(h)'
    BY <2>1 DEF AllSettled
  <2>2. Settled(h)
    BY <1>1, <1>2 DEF AllSettled
  <2>3. Existing(h)' = Existing(h) /\ \A d : Lists(d, h)' = Lists(d, h)
    BY <1>2 DEF Existing, Lists
  <2>4. \A d \in Conns : conn'[d].host = h =>
          /\ conn'[d].recv # "read" => hello'[d].pc = "done"
          /\ hello'[d].pc = "save" /\ hello'[d].agent = None => Existing(h) = {}
          /\ Lists(d, h) <=> hello'[d].pc = "done" /\ conn'[d].recv \in {"read", "unlist"}
    BY <1>10, <1>11, <2>2 DEF Settled
  <2>5. \A d, e \in Conns : conn'[d].host = h /\ conn'[e].host = h
                            /\ conn'[d].recv # "done" /\ conn'[e].recv # "done" => d = e
    BY <1>10, <2>2 DEF Settled
  <2>6. \A a \in Existing(h) : agents'[a].active <=>
          \E d \in Saved : conn'[d].host = h /\ conn'[d].recv # "done"
    BY <1>2, <1>10, <2>2 DEF Settled, Saved
  <2> QED BY <1>2, <1>11, <2>2, <2>3, <2>4, <2>5, <2>6 DEF Settled
<1>14. Counted' /\ Ours' /\ Alone'
  BY <1>1, <1>2, <1>10, CallsStay
<1>15. Answered'
  <2> SUFFICES ASSUME NEW d \in Conns \ raced PROVE
        /\ OwnOnly(d)'
        /\ conn'[d].up = "open" =>
             conn'[d].processing /\ \A i \in Ids, k \in Callers : OnItsWay(d, i, k)'
    BY <1>2 DEF Answered
  <2>1. OwnOnly(d)'
    BY <1>1, <1>2 DEF Answered, OwnOnly
  <2>2. CASE d # c
    <3>1. Processed(d)' = Processed(d)
      BY <1>4, <2>2 DEF Processed
    <3> QED BY <1>1, <1>2, <1>10, <2>1, <3>1, WayStays DEF Answered
  <2>3. CASE d = c /\ conn'[d].up = "open"
    <3>1. ASSUME NEW i \in Ids, NEW k \in Callers, OnItsWay(c, i, k) PROVE OnItsWay(c, i, k)'
      <4>1. o.recv = "read"
        BY <1>1, <1>10, <2>3 DEF Streams, ConnOK, UpOK
      <4>2. /\ Processed(c)' = Processed(c) + 1 /\ Processed(c) \in Nat
            /\ o.sent[Processed(c) + 1] = <<"hello">>
        BY <1>3, <1>4, <1>5, <4>1
      <4>3. Answers(c, i, k)' = Answers(c, i, k)
        BY <1>10 DEF Answers
      <4>4. \A j \in Answers(c, i, k) : j \in Nat /\ j # Processed(c) + 1
        <5>1. <<"hello">>[1] = "hello" /\ <<"answer", i, k>>[1] = "answer"
          OBVIOUS
        <5>2. DOMAIN o.sent \subseteq Nat
          BY <1>1, LenProperties DEF ConnType
        <5> QED BY <4>2, <5>1, <5>2 DEF Answers
      <4>5. \A j \in Answers(c, i, k) : j <= Processed(c)' <=> j <= Processed(c)
        BY <4>2, <4>4
      <4>6. Called(k, c, i)' = Called(k, c, i)
        BY <1>2 DEF Called
      <4> QED BY <1>2, <1>10, <3>1, <4>3, <4>5, <4>6 DEF OnItsWay
    <3> QED BY <1>1, <1>10, <2>1, <2>3, <3>1 DEF Answered
  <2> QED BY <2>1, <2>2, <2>3
<1> QED BY <1>4, <1>8, <1>9, <1>12, <1>13, <1>14, <1>15 DEF Inv

(* Stop ends the processor.                                                *)
LEMMA StopKeeps ==
  ASSUME Inv, NEW c \in Conns, Stop(c)
  PROVE  Inv'
<1> DEFINE o == conn[c]
           v == [o EXCEPT !.mailbox = Tail(@), !.processing = FALSE]
<1>1. /\ Types /\ Streams /\ Hellos /\ Registry /\ AllSettled /\ Counted /\ Ours /\ Alone
      /\ Answered /\ o \in ConnType /\ o.mailbox # <<>> /\ Next_message(c)[1] = "stop"
  BY DEF Inv, Types, Stop, Processes
<1>2. /\ hello' = hello /\ clients' = clients /\ agents' = agents
      /\ caller' = caller /\ raced' = raced /\ unsettled' = unsettled
      /\ conn' = [conn EXCEPT ![c] = v]
  BY <1>1 DEF Stop, Types
<1>3. /\ v \in ConnType /\ v.mailbox = Tail(o.mailbox)
      /\ v.host = o.host /\ v.up = o.up /\ v.recv = o.recv /\ v.id = o.id
      /\ v.sent = o.sent /\ v.decoded = o.decoded /\ v.buf = o.buf /\ v.in = o.in
      /\ v.msg_id = o.msg_id /\ v.handlers = o.handlers
      /\ v.serving = o.serving
  <2>1. Tail(o.mailbox) \in Seq(Message \cup {<<"stop">>})
    BY <1>1, HeadTailProperties DEF ConnType
  <2> QED BY <1>1, <2>1 DEF ConnType
<1> HIDE DEF v
<1>4. /\ conn' \in [Conns -> ConnType] /\ Streams'
      /\ conn'[c] = v /\ \A d \in Conns \ {c} : conn'[d] = conn[d]
      /\ Next_message(c) \in Message \cup {<<"stop">>}
      /\ \A n \in DOMAIN v.mailbox : v.mailbox[n] # <<"hello">>
      /\ o.recv = "read" => Next_message(c) # <<"stop">>
  <2> HIDE DEF o
  <2> QED BY <1>1, <1>2, <1>3, TakeStep DEF o
<1>5. o.up # "open"
  <2>1. o.recv # "read"
    BY <1>1, <1>4, Kinds
  <2> QED BY <1>1, <2>1 DEF Streams, ConnOK, UpOK
<1>6. \A d \in Conns : conn'[d].id = conn[d].id /\ conn'[d].host = conn[d].host
         /\ conn'[d].recv = conn[d].recv /\ conn'[d].msg_id = conn[d].msg_id
         /\ conn'[d].sent = conn[d].sent /\ conn'[d].handlers = conn[d].handlers
         /\ conn'[d].serving = conn[d].serving /\ conn'[d].up = conn[d].up
  BY <1>3, <1>4
<1>7. Types' /\ Hellos'
  <2>1. Hellos'
    BY ZenonT(60), <1>1, <1>2, <1>3, <1>4 DEF Hellos
  <2> QED BY <1>1, <1>2, <1>4, <2>1 DEF Types
<1>8. Registry' /\ AllSettled' /\ Counted' /\ Ours' /\ Alone'
  BY <1>1, <1>2, <1>6, RegistryStays, SettledStays, CallsStay
<1>9. Answered'
  <2>1. \A d \in Conns : conn'[d].up = "open" => conn'[d] = conn[d]
    BY <1>3, <1>4, <1>5
  <2>2. \A d \in Conns : conn'[d] = conn[d] => Processed(d)' = Processed(d)
    BY DEF Processed
  <2> QED BY <1>1, <1>2, <2>1, <2>2, AnswersStay
<1> QED BY <1>4, <1>7, <1>8, <1>9 DEF Inv

(* The handler of an answer.                                               *)
LEMMA HandlerFound ==
  ASSUME Inv, NEW c \in Conns \ raced, NEW i \in Ids, NEW k \in Callers, NEW j \in DOMAIN conn[c].sent,
         conn[c].sent[j] = <<"answer", i, k>>
  PROVE  \A h \in conn[c].handlers : h[1] = i => h = <<i, k>>
<1>1. Types /\ Ours /\ Alone /\ conn[c] \in ConnType
  BY DEF Inv, Types
<1> SUFFICES ASSUME NEW h \in conn[c].handlers, h[1] = i PROVE h = <<i, k>>
  OBVIOUS
<1>2. PICK l \in Callers : h = <<i, l>>
  BY <1>1 DEF ConnType
<1>3. Called(l, c, i) /\ Called(k, c, i)
  BY <1>1, <1>2 DEF Ours
<1>4. l = k
  BY <1>1, <1>3 DEF Alone, Called, After
<1> QED BY <1>2, <1>4

(* An answer goes to the thread of its handler.                            *)
LEMMA AddResponseKeeps ==
  ASSUME Inv, NEW c \in Conns, AddResponse(c)
  PROVE  Inv'
<1> DEFINE o == conn[c]
           m == Next_message(c)
<1>1. /\ Types /\ Streams /\ Hellos /\ Registry /\ AllSettled /\ Counted /\ Ours /\ Alone
      /\ Answered /\ o \in ConnType /\ o.mailbox # <<>> /\ m[1] = "answer" /\ o.processing
  BY DEF Inv, Types, AddResponse, Processes
<1>2. /\ hello' = hello /\ clients' = clients /\ agents' = agents
      /\ raced' = raced /\ unsettled' = unsettled
  BY DEF AddResponse
<1>3. PICK v \in ConnType :
        /\ conn' = [conn EXCEPT ![c] = v] /\ v.mailbox = Tail(o.mailbox)
        /\ v.host = o.host /\ v.up = o.up /\ v.recv = o.recv /\ v.id = o.id
        /\ v.sent = o.sent /\ v.decoded = o.decoded /\ v.buf = o.buf /\ v.in = o.in
        /\ v.msg_id = o.msg_id /\ v.serving = o.serving /\ v.handlers \subseteq o.handlers
        /\ \/ /\ {h \in o.handlers : h[1] = m[2]} = {} /\ v.processing = FALSE
              /\ v.handlers = o.handlers /\ caller' = caller
           \/ \E h \in o.handlers :
                /\ h[1] = m[2] /\ v.processing = TRUE /\ v.handlers = o.handlers \ {h}
                /\ caller' = [caller EXCEPT ![h[2]] =
                     [Waker(h[2]) EXCEPT !.answer = {m[3]}]]
  <2>1. Tail(o.mailbox) \in Seq(Message \cup {<<"stop">>})
    BY <1>1, HeadTailProperties DEF ConnType
  <2>2. CASE {h \in o.handlers : h[1] = m[2]} = {}
    <3> DEFINE v == [o EXCEPT !.mailbox = Tail(@), !.processing = FALSE]
    <3>1. conn' = [conn EXCEPT ![c] = v] /\ caller' = caller
      BY <1>1, <2>2 DEF AddResponse, Types
    <3>2. /\ v \in ConnType /\ v.mailbox = Tail(o.mailbox)
          /\ v.host = o.host /\ v.up = o.up /\ v.recv = o.recv /\ v.id = o.id
          /\ v.sent = o.sent /\ v.decoded = o.decoded /\ v.buf = o.buf /\ v.in = o.in
          /\ v.msg_id = o.msg_id /\ v.serving = o.serving /\ v.handlers = o.handlers
          /\ v.processing = FALSE
      BY <1>1, <2>1 DEF ConnType
    <3> HIDE DEF v
    <3> QED BY <2>2, <3>1, <3>2
  <2>3. CASE {h \in o.handlers : h[1] = m[2]} # {}
    <3>1. PICK h \in o.handlers :
            /\ h[1] = m[2]
            /\ conn' = [conn EXCEPT ![c].mailbox = Tail(@), ![c].handlers = @ \ {h}]
            /\ caller' = [caller EXCEPT ![h[2]] = [Waker(h[2]) EXCEPT !.answer = {m[3]}]]
      BY <2>3 DEF AddResponse
    <3> DEFINE v == [o EXCEPT !.mailbox = Tail(@), !.handlers = @ \ {h}]
    <3>2. conn' = [conn EXCEPT ![c] = v]
      BY <1>1, <3>1 DEF Types
    <3>3. /\ v \in ConnType /\ v.mailbox = Tail(o.mailbox)
          /\ v.host = o.host /\ v.up = o.up /\ v.recv = o.recv /\ v.id = o.id
          /\ v.sent = o.sent /\ v.decoded = o.decoded /\ v.buf = o.buf /\ v.in = o.in
          /\ v.msg_id = o.msg_id /\ v.serving = o.serving /\ v.handlers = o.handlers \ {h}
          /\ v.processing = TRUE
      BY <1>1, <2>1 DEF ConnType
    <3> HIDE DEF v, m
    <3>4. v.handlers \subseteq o.handlers
      BY <3>3
    <3> QED BY <3>1, <3>2, <3>3, <3>4
  <2> QED BY <2>2, <2>3
<1>4. /\ conn' \in [Conns -> ConnType] /\ Streams'
      /\ conn'[c] = v /\ \A d \in Conns \ {c} : conn'[d] = conn[d]
      /\ m \in Message \cup {<<"stop">>}
      /\ m = <<"stop">> \/ \E j \in DOMAIN v.sent : v.sent[j] = m
      /\ \A n \in DOMAIN v.mailbox : v.mailbox[n] # <<"hello">>
      /\ o.up # "none"
      /\ o.recv = "read" =>
           /\ v.decoded # <<>> /\ Processed(c)' = Processed(c) + 1 /\ Processed(c) \in Nat
           /\ Processed(c) + 1 \in DOMAIN v.sent
           /\ v.sent[Processed(c) + 1] = m
  <2> HIDE DEF o
  <2> QED BY <1>1, <1>3, TakeStep DEF o
<1>5. PICK i \in Ids, k \in Callers : m = <<"answer", i, k>>
  BY <1>1, <1>4, Kinds
<1> HIDE DEF m
<1>6. m[2] = i /\ m[3] = k /\ \E j \in DOMAIN o.sent : o.sent[j] = m
  <2>1. m[1] # <<"stop">>[1]
    BY <1>1
  <2> QED BY <1>3, <1>4, <1>5, <2>1
<1>7. /\ caller' \in [Callers -> CallerType]
      /\ \A l \in Callers :
           /\ caller'[l].conn = caller[l].conn /\ caller'[l].id = caller[l].id
           /\ caller'[l].pc = caller[l].pc \/ {caller'[l].pc, caller[l].pc} \subseteq Sent
           /\ caller[l].pc = "idle" => caller'[l].answer = caller[l].answer
           /\ caller'[l].answer # caller[l].answer =>
                /\ <<i, l>> \in o.handlers /\ caller'[l].answer = {k}
                /\ v.handlers = o.handlers \ {<<i, l>>} /\ v.processing = TRUE
  <2>1. CASE caller' = caller
    BY <1>1, <2>1 DEF Types
  <2>2. CASE \E h \in o.handlers :
               /\ h[1] = m[2] /\ v.processing = TRUE /\ v.handlers = o.handlers \ {h}
               /\ caller' = [caller EXCEPT ![h[2]] = [Waker(h[2]) EXCEPT !.answer = {m[3]}]]
    <3>1. PICK h \in o.handlers :
               /\ h[1] = m[2] /\ v.processing = TRUE /\ v.handlers = o.handlers \ {h}
               /\ caller' = [caller EXCEPT ![h[2]] = [Waker(h[2]) EXCEPT !.answer = {m[3]}]]
      BY <2>2
    <3>2. PICK w \in Callers : h = <<i, w>>
      BY <1>1, <1>6, <3>1 DEF ConnType
    <3> DEFINE r == [Waker(w) EXCEPT !.answer = {k}]
    <3>3. h[2] = w /\ caller' = [caller EXCEPT ![w] = r]
      BY <1>6, <3>1, <3>2
    <3>4. caller[w] \in CallerType /\ Called(w, c, i)
      BY <1>1, <3>2 DEF Types, Ours
    <3>5. /\ r \in CallerType /\ r.conn = caller[w].conn /\ r.id = caller[w].id
          /\ r.pc = caller[w].pc \/ {r.pc, caller[w].pc} \subseteq Sent
          /\ r.answer = {k} /\ caller[w].pc # "idle"
      <4>1. CASE caller[w].pc = "waiting"
        BY <3>4, <4>1 DEF CallerType, Waker, Sent, Place
      <4>2. CASE caller[w].pc # "waiting"
        BY <3>4, <4>2 DEF CallerType, Waker, Called
      <4> QED BY <4>1, <4>2
    <3> HIDE DEF r
    <3>6. /\ caller' \in [Callers -> CallerType] /\ caller'[w] = r
          /\ \A l \in Callers \ {w} : caller'[l] = caller[l]
      BY <1>1, <3>3, <3>5 DEF Types
    <3> QED BY ZenonT(60), <3>1, <3>2, <3>5, <3>6
  <2> QED BY <1>3, <2>1, <2>2
<1>8. Types' /\ Hellos'
  <2>1. Hellos'
    <3>1. /\ conn'[c].up # "none" /\ (conn'[c].recv = "read" => conn'[c].decoded # <<>>)
          /\ \A n \in DOMAIN conn'[c].mailbox : conn'[c].mailbox[n] # <<"hello">>
      BY <1>3, <1>4
    <3> QED BY <1>1, <1>2, <1>4, <3>1 DEF Hellos
  <2> QED BY <1>1, <1>2, <1>4, <1>7, <2>1 DEF Types
<1>9. \A d \in Conns : conn'[d].id = conn[d].id /\ conn'[d].host = conn[d].host
         /\ conn'[d].recv = conn[d].recv /\ conn'[d].msg_id = conn[d].msg_id
         /\ conn'[d].sent = conn[d].sent /\ conn'[d].handlers \subseteq conn[d].handlers
         /\ conn'[d].serving = conn[d].serving /\ conn'[d].up = conn[d].up
  BY <1>3, <1>4
<1>10. Registry' /\ AllSettled'
  BY <1>1, <1>2, <1>9, RegistryStays, SettledStays
<1>11. /\ Counted' /\ Ours' /\ Alone'
       /\ \A d, j, l : l \in Callers => Called(l, d, j)' = Called(l, d, j)
  BY <1>1, <1>2, <1>7, <1>9, CallsMove
<1>12. c \notin raced => \A h \in o.handlers : h[1] = i => h = <<i, k>>
  BY <1>5, <1>6, HandlerFound
<1>13. Answered'
  <2> SUFFICES ASSUME NEW d \in Conns \ raced PROVE
        /\ OwnOnly(d)'
        /\ conn'[d].up = "open" =>
             conn'[d].processing /\ \A j \in Ids, l \in Callers : OnItsWay(d, j, l)'
    BY <1>2 DEF Answered
  <2>1. \A l \in Callers : caller'[l].answer # caller[l].answer =>
           /\ Called(l, c, i) /\ caller'[l].answer = {k}
           /\ v.handlers = o.handlers \ {<<i, l>>} /\ (c \notin raced => l = k)
    <3>1. ASSUME NEW l \in Callers, caller'[l].answer # caller[l].answer
          PROVE  /\ Called(l, c, i) /\ caller'[l].answer = {k}
                 /\ v.handlers = o.handlers \ {<<i, l>>}
                 /\ (c \notin raced => l = k)
      <4>1. <<i, l>> \in o.handlers /\ caller'[l].answer = {k}
            /\ v.handlers = o.handlers \ {<<i, l>>}
        BY <1>7, <3>1
      <4>2. c \notin raced => l = k
        BY <1>12, <4>1
      <4> QED BY <1>1, <4>1, <4>2 DEF Ours
    <3> QED BY <3>1
  <2>2. OwnOnly(d)'
    <3> SUFFICES ASSUME NEW l \in Callers, caller'[l].conn = d
                 PROVE  caller'[l].answer \subseteq {l}
      BY DEF OwnOnly
    <3>1. CASE caller'[l].answer = caller[l].answer
      BY <1>1, <1>7, <3>1 DEF Answered, OwnOnly
    <3>2. CASE caller'[l].answer # caller[l].answer
      <4>1. d = c
        BY <1>7, <2>1, <3>2 DEF Called
      <4> QED BY <2>1, <3>2, <4>1
    <3> QED BY <3>1, <3>2
  <2>3. ASSUME d # c, conn'[d].up = "open", NEW j \in Ids, NEW l \in Callers
        PROVE  OnItsWay(d, j, l)'
    <3>1. conn'[d] = conn[d] /\ OnItsWay(d, j, l)
      BY <1>1, <1>4, <2>3 DEF Answered
    <3>2. Answers(d, j, l)' = Answers(d, j, l) /\ Processed(d)' = Processed(d)
          /\ Called(l, d, j)' = Called(l, d, j)
      BY <1>11, <3>1 DEF Answers, Processed
    <3>3. Answers(d, j, l) # {} => caller'[l].answer = caller[l].answer
      <4>1. Answers(d, j, l) # {} => Called(l, d, j)
        BY <1>1 DEF Ours, Answers
      <4> QED BY <2>1, <2>3, <4>1 DEF Called
    <3> QED BY <3>1, <3>2, <3>3 DEF OnItsWay
  <2>4. ASSUME d = c, conn'[d].up = "open"
        PROVE  conn'[d].processing /\ \A j \in Ids, l \in Callers : OnItsWay(d, j, l)'
    <3> DEFINE p == Processed(c) + 1
    <3>1. /\ p \in DOMAIN o.sent /\ o.sent[p] = m /\ Processed(c)' = p /\ Processed(c) \in Nat
          /\ o.processing /\ (\A j \in Ids, l \in Callers : OnItsWay(c, j, l))
      <4>1. o.recv = "read" /\ o.up = "open"
        BY <1>1, <1>9, <2>4 DEF Streams, ConnOK, UpOK
      <4> QED BY <1>1, <1>3, <1>4, <2>4, <4>1 DEF Answered
    <3>2. p \in Answers(c, i, k) /\ Answers(c, i, k) = {p} /\ <<i, k>> \in o.handlers
          /\ <<i, k>> \notin o.serving
      <4>1. p \in Answers(c, i, k) /\ ~(p <= Processed(c))
        BY <1>5, <3>1 DEF Answers
      <4>2. OnItsWay(c, i, k)
        BY <3>1
      <4> QED BY <4>1, <4>2 DEF OnItsWay
    <3>3. /\ v.processing = TRUE /\ v.handlers = o.handlers \ {<<i, k>>}
          /\ caller'[k].answer = {k}
          /\ \A l \in Callers \ {k} : caller'[l].answer = caller[l].answer
      <4>1. <<i, k>>[1] = i
        OBVIOUS
      <4>2. PICK h \in o.handlers :
              /\ h[1] = m[2] /\ v.processing = TRUE /\ v.handlers = o.handlers \ {h}
              /\ caller' = [caller EXCEPT ![h[2]] = [Waker(h[2]) EXCEPT !.answer = {m[3]}]]
        BY <1>3, <1>6, <3>2, <4>1
      <4>3. h = <<i, k>> /\ h[2] = k
        BY <1>6, <1>12, <2>4, <4>2
      <4>4. caller'[k] = [Waker(k) EXCEPT !.answer = {k}]
        BY <1>1, <1>6, <4>2, <4>3 DEF Types
      <4>5. caller[k] \in CallerType
        BY <1>1 DEF Types
      <4>6. caller'[k].answer = {k}
        BY <4>4, <4>5 DEF Waker, CallerType
      <4>7. \A l \in Callers \ {k} : caller'[l].answer = caller[l].answer
        BY <2>1, <2>4
      <4> QED BY <4>2, <4>3, <4>6, <4>7
    <3>4. ASSUME NEW j \in Ids, NEW l \in Callers PROVE OnItsWay(c, j, l)'
      <4>1. OnItsWay(c, j, l) /\ Called(l, c, j)' = Called(l, c, j)
        BY <1>11, <3>1
      <4>2. Answers(c, j, l)' = Answers(c, j, l) /\ conn'[c].serving = o.serving
            /\ conn'[c].handlers = o.handlers \ {<<i, k>>}
        BY <1>3, <1>4, <1>9, <3>3 DEF Answers
      <4>3. CASE j = i /\ l = k
        BY <3>1, <3>2, <3>3, <4>1, <4>2, <4>3 DEF OnItsWay
      <4>4. CASE ~(j = i /\ l = k)
        <5>1. <<j, l>> # <<i, k>>
          BY <4>4
        <5>2. \A n \in Answers(c, j, l) : n \in Nat /\ n # p
          <6>1. m # <<"answer", j, l>>
            BY <1>5, <4>4
          <6>2. DOMAIN o.sent \subseteq Nat
            BY SMTT(30), <1>1, LenProperties DEF ConnType
          <6> QED BY <3>1, <6>1, <6>2 DEF Answers
        <5>3. \A n \in Answers(c, j, l) : n <= p <=> n <= Processed(c)
          BY <3>1, <5>2
        <5>4. Answers(c, j, l) # {} => caller'[l].answer = caller[l].answer
          <6>1. Answers(c, j, l) # {} => Called(l, c, j)
            BY <1>1 DEF Ours, Answers
          <6>2. Called(k, c, i)
            BY <1>1, <3>2 DEF Ours
          <6> QED BY <3>3, <4>4, <6>1, <6>2 DEF Called
        <5> HIDE DEF p
        <5> QED BY <3>1, <4>1, <4>2, <5>1, <5>3, <5>4 DEF OnItsWay
      <4> QED BY <4>3, <4>4
    <3> QED BY <1>3, <1>4, <2>4, <3>3, <3>4
  <2>5. d # c => conn'[d] = conn[d]
    BY <1>4
  <2> QED BY <1>1, <1>9, <2>2, <2>3, <2>4, <2>5 DEF Answered
<1> QED BY <1>4, <1>8, <1>10, <1>11, <1>13 DEF Inv
-----------------------------------------------------------------------------
(* hello and AgentService.addLoadAgent.                                    *)

(* A step of a hello's actor: nothing but the registry changes.            *)
LEMMA HelloStep ==
  ASSUME Inv, NEW c \in Conns, NEW w \in HelloType, hello[c].pc # "off", w.pc # "off",
         hello' = [hello EXCEPT ![c] = w], caller' = caller, raced' = raced,
         conn' \in [Conns -> ConnType],
         \A d \in Conns : /\ conn'[d].msg_id = conn[d].msg_id /\ conn'[d].up = conn[d].up
           /\ conn'[d].sent = conn[d].sent /\ conn'[d].handlers = conn[d].handlers
           /\ conn'[d].serving = conn[d].serving /\ conn'[d].mailbox = conn[d].mailbox
           /\ conn'[d].decoded = conn[d].decoded /\ conn'[d].recv = conn[d].recv
           /\ conn'[d].processing = conn[d].processing
  PROVE  /\ hello' \in [Conns -> HelloType] /\ hello'[c] = w
         /\ \A d \in Conns \ {c} : hello'[d] = hello[d]
         /\ Hellos' /\ Counted' /\ Ours' /\ Alone' /\ Answered'
<1>1. Types /\ Hellos /\ Counted /\ Ours /\ Alone /\ Answered
  BY DEF Inv
<1>2. /\ hello' \in [Conns -> HelloType] /\ hello'[c] = w
      /\ \A d \in Conns \ {c} : hello'[d] = hello[d]
  BY <1>1 DEF Types
<1>3. Hellos'
  <2>1. \A d \in Conns : hello'[d].pc # "off" => hello[d].pc # "off"
    BY <1>2
  <2> QED BY <1>1, <2>1 DEF Hellos
<1>4. Counted' /\ Ours' /\ Alone'
  BY <1>1, CallsStay
<1>5. Answered'
  <2>1. \A d \in Conns : Processed(d)' = Processed(d)
    BY DEF Processed
  <2> QED BY <1>1, <2>1, AnswersStay
<1> QED BY <1>2, <1>3, <1>4, <1>5

(* The agent of the host is looked up.                                     *)
LEMMA FindAgentKeeps ==
  ASSUME Inv, NEW c \in Conns, FindAgent(c)
  PROVE  Inv'
<1>1. /\ Types /\ Streams /\ Hellos /\ Registry /\ AllSettled /\ hello[c] \in HelloType
      /\ hello[c].pc = "find"
  BY DEF Inv, Types, FindAgent
<1>2. /\ conn' = conn /\ clients' = clients /\ agents' = agents
      /\ caller' = caller /\ raced' = raced /\ unsettled' = unsettled
  BY DEF FindAgent
<1>3. PICK w \in HelloType :
        /\ hello' = [hello EXCEPT ![c] = w] /\ w.pc = "save"
        /\ w.agent # None => OfHost(w.agent, conn[c].host)
        /\ w.agent = None => Existing(conn[c].host) = {}
  <2>1. CASE Existing(conn[c].host) = {}
    <3> DEFINE w == [hello[c] EXCEPT !.pc = "save"]
    <3>1. hello' = [hello EXCEPT ![c] = w]
      BY <1>1, <2>1 DEF FindAgent, Types
    <3>2. w \in HelloType /\ w.pc = "save" /\ w.agent = hello[c].agent
      BY <1>1 DEF HelloType
    <3> HIDE DEF w
    <3>3. w.agent # None => OfHost(w.agent, conn[c].host)
      BY <1>1, <3>2 DEF Registry
    <3> QED BY <2>1, <3>1, <3>2, <3>3
  <2>2. CASE Existing(conn[c].host) # {}
    <3>1. PICK a \in Existing(conn[c].host) :
            hello' = [hello EXCEPT ![c] = [pc |-> "save", agent |-> a]]
      BY <2>2 DEF FindAgent
    <3>2. OfHost(a, conn[c].host) /\ a \in Nat /\ a # None
      BY <1>1, LenProperties DEF Existing, OfHost, Types, None
    <3> DEFINE w == [pc |-> "save", agent |-> a]
    <3>3. w \in HelloType /\ w.pc = "save" /\ w.agent = a
      BY <3>2 DEF HelloType
    <3> HIDE DEF w
    <3> QED BY <3>1, <3>2, <3>3 DEF w
  <2> QED BY <2>1, <2>2
<1>4. /\ hello' \in [Conns -> HelloType] /\ hello'[c] = w
      /\ \A d \in Conns \ {c} : hello'[d] = hello[d]
      /\ Hellos' /\ Counted' /\ Ours' /\ Alone' /\ Answered'
  <2>1. conn' \in [Conns -> ConnType] /\ hello[c].pc # "off" /\ w.pc # "off"
    BY <1>1, <1>2, <1>3 DEF Types
  <2> QED BY <1>2, <1>3, <2>1, HelloStep
<1>5. Types' /\ Streams'
  BY <1>1, <1>2, <1>4 DEF Types, Streams
<1>6. Saved' = Saved
  BY <1>1, <1>3, <1>4 DEF Saved
<1>7. Registry'
  <2>1. ASSUME NEW d \in Conns PROVE
          /\ conn'[d].id # None => conn'[d].id \in DOMAIN agents'
                                   /\ agents'[conn'[d].id].host = conn'[d].host
          /\ hello'[d].agent # None => hello'[d].agent \in DOMAIN agents'
                                       /\ agents'[hello'[d].agent].host = conn'[d].host
          /\ hello'[d].pc \in {"name", "list", "done"} => hello'[d].agent # None
          /\ IF hello'[d].pc \in {"list", "done"} THEN conn'[d].id = hello'[d].agent
             ELSE conn'[d].id = None
    BY <1>1, <1>2, <1>3, <1>4 DEF Registry, OfHost
  <2>2. \A a \in Conns : clients'[a] # None =>
          conn'[clients'[a]].id = a /\ hello'[clients'[a]].pc = "done"
    <3>1. \A a \in Conns : clients[a] # None => clients[a] \in Conns \ {c}
      BY <1>1 DEF Registry, Types
    <3> QED BY <1>1, <1>2, <1>4, <3>1 DEF Registry
  <2>3. Len(agents') <= Cardinality(Saved')
    BY <1>1, <1>2, <1>6 DEF Registry
  <2> QED BY <2>1, <2>2, <2>3 DEF Registry, OfHost
<1>8. AllSettled'
  <2>1. \A d \in Conns : conn'[d].up = "reset" => conn'[d].host \in unsettled'
    BY <1>1, <1>2 DEF AllSettled
  <2> SUFFICES ASSUME NEW h \in Hosts \ unsettled' PROVE Settled(h)'
    BY <2>1 DEF AllSettled
  <2>2. Settled(h)
    BY <1>1, <1>2 DEF AllSettled
  <2>3. Existing(h)' = Existing(h) /\ \A d : Lists(d, h)' = Lists(d, h)
    BY <1>2 DEF Existing, Lists
  <2>4. ASSUME NEW d \in Conns, conn[d].host = h PROVE
          /\ conn'[d].recv # "read" => hello'[d].pc = "done"
          /\ hello'[d].pc = "save" /\ hello'[d].agent = None => Existing(h) = {}
          /\ Lists(d, h) <=> hello'[d].pc = "done" /\ conn'[d].recv \in {"read", "unlist"}
    <3>1. CASE d = c
      BY <1>1, <1>2, <1>3, <1>4, <2>2, <2>4, <3>1 DEF Settled
    <3>2. CASE d # c
      BY <1>2, <1>4, <2>2, <2>4, <3>2 DEF Settled
    <3> QED BY <3>1, <3>2
  <2>5. \A d, e \in Conns : conn'[d].host = h /\ conn'[e].host = h
                            /\ conn'[d].recv # "done" /\ conn'[e].recv # "done" => d = e
    BY <1>2, <2>2 DEF Settled
  <2>6. \A a \in Existing(h) : agents'[a].active <=>
          \E d \in Saved : conn'[d].host = h /\ conn'[d].recv # "done"
    BY <1>2, <2>2 DEF Settled
  <2> QED BY <1>2, <1>6, <2>2, <2>3, <2>4, <2>5, <2>6 DEF Settled
<1> QED BY <1>4, <1>5, <1>7, <1>8 DEF Inv

(* The connection gets its id.                                             *)
LEMMA NameClientKeeps ==
  ASSUME Inv, NEW c \in Conns, NameClient(c)
  PROVE  Inv'
<1> DEFINE o == conn[c]
           v == [o EXCEPT !.id = hello[c].agent]
           w == [hello[c] EXCEPT !.pc = "list"]
<1>1. /\ Types /\ Streams /\ Hellos /\ Registry /\ AllSettled /\ hello[c] \in HelloType
      /\ hello[c].pc = "name" /\ o \in ConnType /\ ConnOK(o)
  BY DEF Inv, Types, Streams, NameClient
<1>2. /\ conn' = [conn EXCEPT ![c] = v] /\ hello' = [hello EXCEPT ![c] = w]
      /\ clients' = clients /\ agents' = agents
      /\ caller' = caller /\ raced' = raced /\ unsettled' = unsettled
  BY <1>1 DEF NameClient, Types
<1>3. /\ v \in ConnType /\ v.id = hello[c].agent
      /\ v.host = o.host /\ v.up = o.up /\ v.recv = o.recv /\ v.mailbox = o.mailbox
      /\ v.sent = o.sent /\ v.decoded = o.decoded /\ v.buf = o.buf /\ v.in = o.in
      /\ v.msg_id = o.msg_id /\ v.handlers = o.handlers
      /\ v.serving = o.serving /\ v.processing = o.processing
      /\ w \in HelloType /\ w.pc = "list" /\ w.agent = hello[c].agent
  BY <1>1 DEF ConnType, HelloType
<1> HIDE DEF v, w
<1>4. ConnOK(v)
  BY <1>1, <1>3 DEF ConnOK, UpOK
<1>5. /\ conn' \in [Conns -> ConnType] /\ Streams'
      /\ conn'[c] = v /\ \A d \in Conns \ {c} : conn'[d] = conn[d]
  BY <1>1, <1>2, <1>3, <1>4, ConnStep
<1>6. \A d \in Conns : /\ conn'[d].msg_id = conn[d].msg_id /\ conn'[d].up = conn[d].up
           /\ conn'[d].sent = conn[d].sent /\ conn'[d].handlers = conn[d].handlers
           /\ conn'[d].serving = conn[d].serving /\ conn'[d].mailbox = conn[d].mailbox
           /\ conn'[d].decoded = conn[d].decoded /\ conn'[d].recv = conn[d].recv
           /\ conn'[d].processing = conn[d].processing /\ conn'[d].host = conn[d].host
  BY <1>3, <1>5
<1>7. /\ hello' \in [Conns -> HelloType] /\ hello'[c] = w
      /\ \A d \in Conns \ {c} : hello'[d] = hello[d]
      /\ Hellos' /\ Counted' /\ Ours' /\ Alone' /\ Answered'
  BY <1>1, <1>2, <1>3, <1>5, <1>6, HelloStep
<1>8. Types'
  BY <1>1, <1>2, <1>5, <1>7 DEF Types
<1>9. Saved' = Saved
  BY <1>1, <1>3, <1>7 DEF Saved
<1>10. Registry'
  <2>1. ASSUME NEW d \in Conns PROVE
          /\ conn'[d].id # None => conn'[d].id \in DOMAIN agents'
                                   /\ agents'[conn'[d].id].host = conn'[d].host
          /\ hello'[d].agent # None => hello'[d].agent \in DOMAIN agents'
                                       /\ agents'[hello'[d].agent].host = conn'[d].host
          /\ hello'[d].pc \in {"name", "list", "done"} => hello'[d].agent # None
          /\ IF hello'[d].pc \in {"list", "done"} THEN conn'[d].id = hello'[d].agent
             ELSE conn'[d].id = None
    BY <1>1, <1>2, <1>3, <1>5, <1>7 DEF Registry, OfHost
  <2>2. \A a \in Conns : clients'[a] # None =>
          conn'[clients'[a]].id = a /\ hello'[clients'[a]].pc = "done"
    <3>1. \A a \in Conns : clients[a] # None => clients[a] \in Conns \ {c}
      BY <1>1 DEF Registry, Types
    <3> QED BY <1>1, <1>2, <1>5, <1>7, <3>1 DEF Registry
  <2>3. Len(agents') <= Cardinality(Saved')
    BY <1>1, <1>2, <1>9 DEF Registry
  <2> QED BY <2>1, <2>2, <2>3 DEF Registry, OfHost
<1>11. AllSettled'
  <2>1. \A d \in Conns : conn'[d].up = "reset" => conn'[d].host \in unsettled'
    BY <1>1, <1>2, <1>6 DEF AllSettled
  <2> SUFFICES ASSUME NEW h \in Hosts \ unsettled' PROVE Settled(h)'
    BY <2>1 DEF AllSettled
  <2>2. Settled(h)
    BY <1>1, <1>2 DEF AllSettled
  <2>3. Existing(h)' = Existing(h) /\ \A d : Lists(d, h)' = Lists(d, h)
    BY <1>2 DEF Existing, Lists
  <2>4. ASSUME NEW d \in Conns, conn[d].host = h PROVE
          /\ conn'[d].recv # "read" => hello'[d].pc = "done"
          /\ hello'[d].pc = "save" /\ hello'[d].agent = None => Existing(h) = {}
          /\ Lists(d, h) <=> hello'[d].pc = "done" /\ conn'[d].recv \in {"read", "unlist"}
    <3>1. CASE d = c
      BY <1>1, <1>6, <1>3, <1>7, <2>2, <2>4, <3>1 DEF Settled
    <3>2. CASE d # c
      BY <1>6, <1>7, <2>2, <2>4, <3>2 DEF Settled
    <3> QED BY <3>1, <3>2
  <2>5. \A d, e \in Conns : conn'[d].host = h /\ conn'[e].host = h
                            /\ conn'[d].recv # "done" /\ conn'[e].recv # "done" => d = e
    BY <1>6, <2>2 DEF Settled
  <2>6. \A a \in Existing(h) : agents'[a].active <=>
          \E d \in Saved : conn'[d].host = h /\ conn'[d].recv # "done"
    BY <1>2, <1>6, <2>2 DEF Settled, Saved
  <2> QED BY <1>2, <1>6, <1>9, <2>2, <2>3, <2>4, <2>5, <2>6 DEF Settled
<1> QED BY <1>5, <1>7, <1>8, <1>10, <1>11 DEF Inv

(* The connection is listed.                                               *)
LEMMA ListClientKeeps ==
  ASSUME Inv, NEW c \in Conns, ListClient(c)
  PROVE  Inv'
<1> DEFINE w == [hello[c] EXCEPT !.pc = "done"]
           a == hello[c].agent
<1>1. /\ Types /\ Streams /\ Hellos /\ Registry /\ AllSettled /\ hello[c] \in HelloType
      /\ hello[c].pc = "list"
  BY DEF Inv, Types, ListClient
<1>2. /\ conn' = conn /\ agents' = agents /\ clients' = [clients EXCEPT ![a] = c]
      /\ caller' = caller /\ raced' = raced /\ unsettled' = unsettled
      /\ hello' = [hello EXCEPT ![c] = w]
  BY <1>1 DEF ListClient, AgentId, Types
<1>3. w \in HelloType /\ w.pc = "done" /\ w.agent = a
  BY <1>1 DEF HelloType
<1>4. /\ a # None /\ OfHost(a, conn[c].host) /\ conn[c].id = a /\ a \in Conns
  BY <1>1, AgentsAreFew DEF Registry, OfHost
<1> HIDE DEF w, a
<1>5. /\ hello' \in [Conns -> HelloType] /\ hello'[c] = w
      /\ \A d \in Conns \ {c} : hello'[d] = hello[d]
      /\ Hellos' /\ Counted' /\ Ours' /\ Alone' /\ Answered'
  <2>1. conn' \in [Conns -> ConnType] /\ hello[c].pc # "off" /\ w.pc # "off"
    BY <1>1, <1>2, <1>3 DEF Types
  <2> QED BY <1>2, <1>3, <2>1, HelloStep
<1>6. /\ clients' \in [Conns -> Conns \cup {None}] /\ clients'[a] = c
      /\ \A b \in Conns \ {a} : clients'[b] = clients[b]
  BY <1>1, <1>2, <1>4 DEF Types
<1>7. Types' /\ Streams'
  BY <1>1, <1>2, <1>5, <1>6 DEF Types, Streams
<1>8. Saved' = Saved
  BY <1>1, <1>3, <1>5 DEF Saved
<1>9. Registry'
  <2>1. ASSUME NEW d \in Conns PROVE
          /\ conn'[d].id # None => conn'[d].id \in DOMAIN agents'
                                   /\ agents'[conn'[d].id].host = conn'[d].host
          /\ hello'[d].agent # None => hello'[d].agent \in DOMAIN agents'
                                       /\ agents'[hello'[d].agent].host = conn'[d].host
          /\ hello'[d].pc \in {"name", "list", "done"} => hello'[d].agent # None
          /\ IF hello'[d].pc \in {"list", "done"} THEN conn'[d].id = hello'[d].agent
             ELSE conn'[d].id = None
    BY <1>1, <1>2, <1>3, <1>4, <1>5 DEF Registry, OfHost
  <2>2. \A b \in Conns : clients'[b] # None =>
          conn'[clients'[b]].id = b /\ hello'[clients'[b]].pc = "done"
    <3>1. \A b \in Conns : clients[b] # None => clients[b] \in Conns \ {c}
      BY <1>1 DEF Registry, Types
    <3> QED BY <1>1, <1>2, <1>3, <1>4, <1>5, <1>6, <3>1 DEF Registry
  <2>3. Len(agents') <= Cardinality(Saved')
    BY <1>1, <1>2, <1>8 DEF Registry
  <2> QED BY <2>1, <2>2, <2>3 DEF Registry, OfHost
<1>10. AllSettled'
  <2>1. \A d \in Conns : conn'[d].up = "reset" => conn'[d].host \in unsettled'
    BY <1>1, <1>2 DEF AllSettled
  <2> SUFFICES ASSUME NEW h \in Hosts \ unsettled' PROVE Settled(h)'
    BY <2>1 DEF AllSettled
  <2>2. Settled(h)
    BY <1>1, <1>2 DEF AllSettled
  <2>3. Existing(h)' = Existing(h) /\ Existing(h) \subseteq Conns
    BY <1>1, <1>2, AgentsAreFew DEF Existing
  <2>4. ASSUME NEW d \in Conns, conn[d].host = h PROVE
          /\ conn'[d].recv # "read" => hello'[d].pc = "done"
          /\ hello'[d].pc = "save" /\ hello'[d].agent = None => Existing(h) = {}
          /\ Lists(d, h)' <=> hello'[d].pc = "done" /\ conn'[d].recv \in {"read", "unlist"}
    <3>1. CASE conn[c].host = h
      <4>1. /\ \A b \in Existing(h) : b = a
            /\ a \in Existing(h) /\ conn[c].recv = "read"
        BY <1>1, <1>4, <2>2, <3>1 DEF Settled, Existing, OfHost
      <4>2. Lists(d, h)' <=> d = c
        BY <1>6, <2>3, <4>1 DEF Lists
      <4>3. d # c => conn[d].recv = "done"
        BY <2>2, <2>4, <3>1, <4>1 DEF Settled
      <4>4. CASE d = c
        BY <1>2, <1>3, <1>5, <4>1, <4>2, <4>4
      <4>5. CASE d # c
        BY <1>2, <1>5, <2>2, <2>4, <4>2, <4>3, <4>5 DEF Settled
      <4> QED BY <4>4, <4>5
    <3>2. CASE conn[c].host # h
      <4>1. a \notin Existing(h) /\ d # c
        BY <1>4, <2>4, <3>2 DEF OfHost, Existing
      <4>2. Lists(d, h)' <=> Lists(d, h)
        BY <1>6, <2>3, <4>1 DEF Lists
      <4> QED BY <1>2, <1>5, <2>2, <2>4, <4>1, <4>2 DEF Settled
    <3> QED BY <3>1, <3>2
  <2>5. \A d, e \in Conns : conn'[d].host = h /\ conn'[e].host = h
                            /\ conn'[d].recv # "done" /\ conn'[e].recv # "done" => d = e
    BY <1>2, <2>2 DEF Settled
  <2>6. \A b \in Existing(h) : agents'[b].active <=>
          \E d \in Saved : conn'[d].host = h /\ conn'[d].recv # "done"
    BY <1>2, <2>2 DEF Settled
  <2>7. \A b, d \in Existing(h) : b = d
    BY <2>2 DEF Settled
  <2> QED BY <1>2, <1>8, <2>3, <2>4, <2>5, <2>6, <2>7 DEF Settled
<1> QED BY <1>5, <1>7, <1>9, <1>10 DEF Inv

(* The agent is saved: one the host had is set active, or a new one made.  *)
LEMMA SaveAgentKeeps ==
  ASSUME Inv, NEW c \in Conns, SaveAgent(c)
  PROVE  Inv'
<1> DEFINE host == conn[c].host
           AgentType == [host : Hosts, active : BOOLEAN]
<1>1. /\ Types /\ Streams /\ Hellos /\ Registry /\ AllSettled /\ hello[c] \in HelloType
      /\ hello[c].pc = "save" /\ agents \in Seq(AgentType)
  BY DEF Inv, Types, SaveAgent
<1>2. /\ conn' = conn /\ clients' = clients
      /\ caller' = caller /\ raced' = raced /\ unsettled' = unsettled
  BY DEF SaveAgent
<1>3. /\ host \in Hosts /\ DOMAIN agents = 1 .. Len(agents) /\ Len(agents) \in Nat
      /\ IsFiniteSet(Saved) /\ Cardinality(Saved) \in Nat /\ c \notin Saved
      /\ hello[c].agent # None => OfHost(hello[c].agent, host)
  <2>1. host \in Hosts
    BY <1>1 DEF Hellos, Streams, ConnOK, UpOK, Types, ConnType
  <2>2. IsFiniteSet(Saved) /\ Cardinality(Saved) \in Nat
    BY <1>1, AgentsAreFew, FS_CardinalityType
  <2> QED BY <1>1, <2>1, <2>2, LenProperties DEF Saved, Registry
<1>4. PICK a \in Nat, w \in HelloType :
        /\ hello' = [hello EXCEPT ![c] = w] /\ w.pc = "name" /\ w.agent = a
        /\ \/ a = hello[c].agent /\ a # None /\ agents' = [agents EXCEPT ![a].active = TRUE]
           \/ /\ a = Len(agents) + 1 /\ hello[c].agent = None
              /\ agents' = Append(agents, [host |-> host, active |-> TRUE])
  <2>1. CASE hello[c].agent # None
    <3> DEFINE w == [hello[c] EXCEPT !.pc = "name"]
    <3>1. hello' = [hello EXCEPT ![c] = w]
      BY <1>1, <2>1 DEF SaveAgent, Types
    <3>2. w \in HelloType /\ w.pc = "name" /\ w.agent = hello[c].agent /\ w.agent \in Nat
      BY <1>1 DEF HelloType
    <3> HIDE DEF w
    <3>3. agents' = [agents EXCEPT ![hello[c].agent].active = TRUE]
      BY <2>1 DEF SaveAgent
    <3> QED BY <2>1, <3>1, <3>2, <3>3
  <2>2. CASE hello[c].agent = None
    <3> DEFINE w == [pc |-> "name", agent |-> Len(agents) + 1]
    <3>1. w \in HelloType /\ w.pc = "name" /\ w.agent = Len(agents) + 1
      BY <1>3 DEF HelloType
    <3>2. hello' = [hello EXCEPT ![c] = w]
          /\ agents' = Append(agents, [host |-> host, active |-> TRUE])
      BY <2>2 DEF SaveAgent
    <3> HIDE DEF w
    <3>3. Len(agents) + 1 \in Nat
      BY <1>3
    <3> QED BY <2>2, <3>1, <3>2, <3>3
  <2> QED BY <2>1, <2>2
<1>5. /\ hello' \in [Conns -> HelloType] /\ hello'[c] = w
      /\ \A d \in Conns \ {c} : hello'[d] = hello[d]
      /\ Hellos' /\ Counted' /\ Ours' /\ Alone' /\ Answered'
  <2>1. conn' \in [Conns -> ConnType] /\ hello[c].pc # "off" /\ w.pc # "off"
    BY <1>1, <1>2, <1>4 DEF Types
  <2> QED BY <1>2, <1>4, <2>1, HelloStep
<1>6. /\ agents' \in Seq(AgentType) /\ DOMAIN agents' = DOMAIN agents \cup {a}
      /\ agents'[a].host = host /\ agents'[a].active = TRUE
      /\ \A b \in DOMAIN agents \ {a} : agents'[b] = agents[b]
      /\ a # None
      /\ \/ a \in DOMAIN agents /\ hello[c].agent = a /\ Len(agents') = Len(agents)
         \/ a \notin DOMAIN agents /\ hello[c].agent = None
            /\ a = Len(agents) + 1 /\ Len(agents') = a
  <2>1. CASE a = hello[c].agent /\ a # None /\ agents' = [agents EXCEPT ![a].active = TRUE]
    <3>1. agents[a] \in AgentType /\ a \in 1 .. Len(agents) /\ agents[a].host = host
      BY <1>1, <1>3, <2>1, ElementOfSeq DEF OfHost
    <3> DEFINE r == [agents[a] EXCEPT !.active = TRUE]
    <3>2. r \in AgentType /\ r.host = host /\ r.active = TRUE
      BY <3>1
    <3>3. agents' = [agents EXCEPT ![a] = r]
      BY <2>1
    <3> HIDE DEF r, AgentType, host
    <3>4. /\ agents' \in Seq(AgentType) /\ Len(agents') = Len(agents)
          /\ agents'[a] = r /\ \A b \in 1 .. Len(agents) \ {a} : agents'[b] = agents[b]
      BY <1>1, <3>1, <3>2, <3>3, ExceptSeq
    <3>5. DOMAIN agents' = DOMAIN agents /\ DOMAIN agents = 1 .. Len(agents)
      BY <1>1, <3>4, LenProperties
    <3> QED BY <2>1, <3>1, <3>2, <3>4, <3>5
  <2>2. CASE /\ a = Len(agents) + 1 /\ hello[c].agent = None
             /\ agents' = Append(agents, [host |-> host, active |-> TRUE])
    <3> DEFINE r == [host |-> host, active |-> TRUE]
    <3>1. r \in AgentType /\ r.host = host /\ r.active = TRUE
      BY <1>3
    <3> HIDE DEF AgentType
    <3>2. agents' = Append(agents, r)
      BY <2>2
    <3> HIDE DEF r
    <3>3. /\ agents' \in Seq(AgentType) /\ Len(agents') = Len(agents) + 1
          /\ \A b \in 1 .. Len(agents) : agents'[b] = agents[b]
          /\ agents'[Len(agents) + 1] = r
      BY <1>1, <3>1, <3>2, AppendProperties
    <3>4. DOMAIN agents' = 1 .. Len(agents) + 1
      BY <1>3, <3>3, LenProperties
    <3>5. DOMAIN agents' = DOMAIN agents \cup {a} /\ a \notin DOMAIN agents /\ a # None
      BY <1>3, <2>2, <3>4 DEF None
    <3> QED BY <1>3, <2>2, <3>1, <3>3, <3>5
  <2> QED BY <1>4, <2>1, <2>2
<1>7. Types' /\ Streams'
  BY <1>1, <1>2, <1>5, <1>6 DEF Types, Streams
<1>8. Saved' = Saved \cup {c}
  BY <1>1, <1>4, <1>5 DEF Saved
<1>9. Len(agents') <= Cardinality(Saved') /\ Len(agents') \in Nat
      /\ Cardinality(Saved') <= MaxConns /\ Cardinality(Saved') \in Nat
  <2>1. IsFiniteSet(Saved') /\ Cardinality(Saved') = Cardinality(Saved) + 1
    BY <1>3, <1>8, FS_AddElement
  <2>2. Cardinality(Saved') <= MaxConns
    <3>1. IsFiniteSet(Conns) /\ Cardinality(Conns) = MaxConns
      BY ServerAssumption, FS_Interval DEF Conns
    <3>2. Saved' \subseteq Conns
      BY DEF Saved
    <3> QED BY <3>1, <3>2, FS_Subset
  <2>3. Len(agents) <= Cardinality(Saved)
    BY <1>1 DEF Registry
  <2>4. Len(agents') = Len(agents) \/ Len(agents') = Len(agents) + 1
    BY <1>6
  <2>5. Len(agents') <= Len(agents) + 1 /\ Len(agents') \in Nat
    BY <1>3, <2>4
  <2> QED BY <1>3, <2>1, <2>2, <2>3, <2>5
<1>10. \A b, h : OfHost(b, h) => b \in DOMAIN agents' /\ agents'[b].host = h
  <2>1. \A b, h : OfHost(b, h) => b \in DOMAIN agents /\ agents[b].host = h
    BY DEF OfHost
  <2>2. a \in DOMAIN agents => agents[a].host = host
    BY <1>3, <1>6 DEF OfHost
  <2> QED BY <1>6, <2>1, <2>2
<1>11. Registry'
  <2>1. ASSUME NEW d \in Conns PROVE
          /\ conn'[d].id # None => conn'[d].id \in DOMAIN agents'
                                   /\ agents'[conn'[d].id].host = conn'[d].host
          /\ hello'[d].agent # None => hello'[d].agent \in DOMAIN agents'
                                       /\ agents'[hello'[d].agent].host = conn'[d].host
          /\ hello'[d].pc \in {"name", "list", "done"} => hello'[d].agent # None
          /\ IF hello'[d].pc \in {"list", "done"} THEN conn'[d].id = hello'[d].agent
             ELSE conn'[d].id = None
    <3>1. conn[d].id # None => OfHost(conn[d].id, conn[d].host)
      BY <1>1 DEF Registry
    <3>2. hello[d].agent # None => OfHost(hello[d].agent, conn[d].host)
      BY <1>1 DEF Registry
    <3>3. CASE d = c
      BY <1>1, <1>2, <1>4, <1>5, <1>6, <3>3 DEF Registry
    <3>4. CASE d # c
      BY <1>1, <1>2, <1>5, <1>10, <3>1, <3>2, <3>4 DEF Registry
    <3> QED BY <3>3, <3>4
  <2>2. \A b \in Conns : clients'[b] # None =>
          conn'[clients'[b]].id = b /\ hello'[clients'[b]].pc = "done"
    <3>1. \A b \in Conns : clients[b] # None => clients[b] \in Conns \ {c}
      BY <1>1 DEF Registry, Types
    <3> QED BY <1>1, <1>2, <1>5, <3>1 DEF Registry
  <2> QED BY <1>9, <2>1, <2>2 DEF Registry, OfHost
<1>12. AllSettled'
  <2>1. \A d \in Conns : conn'[d].up = "reset" => conn'[d].host \in unsettled'
    BY <1>1, <1>2 DEF AllSettled
  <2> SUFFICES ASSUME NEW h \in Hosts \ unsettled' PROVE Settled(h)'
    BY <2>1 DEF AllSettled
  <2>2. Settled(h)
    BY <1>1, <1>2 DEF AllSettled
  <2>3. \A d, e \in Conns : conn'[d].host = h /\ conn'[e].host = h
                            /\ conn'[d].recv # "done" /\ conn'[e].recv # "done" => d = e
    BY <1>2, <2>2 DEF Settled
  <2>4. CASE host # h
    <3>1. Existing(h)' = Existing(h) /\ a \notin Existing(h)
      <4>1. a \notin Existing(h)
        BY <1>3, <1>6, <2>4 DEF Existing, OfHost
      <4>2. ASSUME NEW b PROVE b \in Existing(h)' <=> b \in Existing(h)
        <5>1. CASE b = a
          BY <1>6, <2>4, <4>1, <5>1 DEF Existing
        <5>2. CASE b # a
          BY <1>6, <5>2 DEF Existing
        <5> QED BY <5>1, <5>2
      <4> QED BY <4>1, <4>2
    <3>2. \A d : Lists(d, h)' = Lists(d, h)
      BY <1>2, <3>1 DEF Lists
    <3>3. \A d \in Conns : conn[d].host = h => hello'[d] = hello[d]
      BY <1>5, <2>4
    <3>4. \A b \in Existing(h) : agents'[b] = agents[b]
      BY <1>6, <3>1 DEF Existing
    <3>5. \A b \in Existing(h) : agents'[b].active <=>
            \E d \in Saved' : conn'[d].host = h /\ conn'[d].recv # "done"
      <4>1. \A d \in Saved' : conn[d].host = h <=> d \in Saved /\ conn[d].host = h
        BY <1>8, <2>4
      <4>2. \A b \in Existing(h) : agents[b].active <=>
              \E d \in Saved : conn[d].host = h /\ conn[d].recv # "done"
        BY <2>2 DEF Settled
      <4> QED BY <1>2, <1>8, <3>4, <4>1, <4>2
    <3>6. \A d \in Conns : conn'[d].host = h =>
            /\ conn'[d].recv # "read" => hello'[d].pc = "done"
            /\ hello'[d].pc = "save" /\ hello'[d].agent = None => Existing(h)' = {}
            /\ Lists(d, h)' <=> hello'[d].pc = "done" /\ conn'[d].recv \in {"read", "unlist"}
      BY <1>2, <2>2, <3>1, <3>2, <3>3 DEF Settled
    <3>7. \A b, d \in Existing(h)' : b = d
      BY <2>2, <3>1 DEF Settled
    <3> QED BY <2>3, <3>1, <3>5, <3>6, <3>7 DEF Settled
  <2>5. CASE host = h
    <3>1. conn[c].recv = "read"
          /\ \A d \in Conns \ {c} : conn[d].host = h => conn[d].recv = "done"
      BY <1>1, <2>2, <2>5 DEF Settled
    <3>2. Existing(h)' = {a}
      <4>1. Existing(h) \subseteq {a}
        <5>1. CASE a \in DOMAIN agents
          BY <1>3, <1>6, <2>2, <2>5, <5>1 DEF Settled, Existing, OfHost
        <5>2. CASE a \notin DOMAIN agents
          BY <1>1, <1>6, <2>2, <2>5, <5>2 DEF Settled
        <5> QED BY <5>1, <5>2
      <4>2. ASSUME NEW b PROVE b \in Existing(h)' <=> b = a
        <5>1. CASE b = a
          BY <1>6, <2>5, <5>1 DEF Existing
        <5>2. CASE b # a
          BY <1>6, <4>1, <5>2 DEF Existing
        <5> QED BY <5>1, <5>2
      <4> QED BY <4>2
    <3>3. agents'[a].active /\ c \in Saved' /\ conn'[c].host = h /\ conn'[c].recv # "done"
      BY <1>2, <1>6, <1>8, <2>5, <3>1
    <3>4. \A d \in Conns : conn[d].host = h => (Lists(d, h)' <=> Lists(d, h))
      <4>1. CASE a \in DOMAIN agents
        <5>1. Existing(h) = {a}
          <6>1. \A b \in Existing(h) : b = a
            BY <1>3, <1>6, <2>2, <2>5, <4>1 DEF Settled, Existing, OfHost
          <6>2. a \in Existing(h)
            BY <1>3, <1>6, <2>5, <4>1 DEF Existing, OfHost
          <6> QED BY <6>1, <6>2
        <5> QED BY <1>2, <3>2, <5>1 DEF Lists
      <4>2. CASE a \notin DOMAIN agents
        <5>1. Existing(h) = {} /\ a = Len(agents) + 1 /\ Len(agents') = a
          BY <1>1, <1>6, <2>2, <2>5, <4>2 DEF Settled
        <5>2. a \in Conns
          <6>1. a <= MaxConns /\ 1 <= a
            BY <1>3, <1>9, <5>1, ServerAssumption
          <6> QED BY <6>1 DEF Conns
        <5>3. clients[a] = None
          <6>1. clients[a] # None => clients[a] \in Conns /\ conn[clients[a]].id = a
            BY <1>1, <5>2 DEF Registry, Types
          <6>2. clients[a] # None => OfHost(a, conn[clients[a]].host)
            BY <1>1, <1>6, <6>1 DEF Registry
          <6> QED BY <4>2, <6>2 DEF OfHost
        <5>4. None \notin Conns
          BY DEF None, Conns
        <5> QED BY <1>2, <3>2, <5>1, <5>3, <5>4 DEF Lists
      <4> QED BY <4>1, <4>2
    <3>5. \A d \in Conns : conn'[d].host = h =>
            /\ conn'[d].recv # "read" => hello'[d].pc = "done"
            /\ hello'[d].pc = "save" /\ hello'[d].agent = None => Existing(h)' = {}
            /\ Lists(d, h)' <=> hello'[d].pc = "done" /\ conn'[d].recv \in {"read", "unlist"}
      <4> SUFFICES ASSUME NEW d \in Conns, conn[d].host = h PROVE
            /\ conn'[d].recv # "read" => hello'[d].pc = "done"
            /\ ~(hello'[d].pc = "save" /\ hello'[d].agent = None)
            /\ Lists(d, h)' <=> hello'[d].pc = "done" /\ conn'[d].recv \in {"read", "unlist"}
        BY <1>2
      <4>1. CASE d = c
        BY <1>1, <1>2, <1>4, <1>5, <2>2, <2>5, <3>1, <3>4, <4>1 DEF Settled
      <4>2. CASE d # c
        <5>1. hello[d].pc = "done"
          BY <2>2, <3>1, <4>2 DEF Settled
        <5> QED BY <1>2, <1>5, <2>2, <3>4, <4>2, <5>1 DEF Settled
      <4> QED BY <4>1, <4>2
    <3>6. \A b \in Existing(h)' : agents'[b].active <=>
            \E d \in Saved' : conn'[d].host = h /\ conn'[d].recv # "done"
      BY <3>2, <3>3
    <3>7. \A b, d \in Existing(h)' : b = d
      BY <3>2
    <3> QED BY <2>3, <3>5, <3>6, <3>7 DEF Settled
  <2> QED BY <2>4, <2>5
<1> QED BY <1>5, <1>7, <1>11, <1>12 DEF Inv
-----------------------------------------------------------------------------
(* invoke.                                                                 *)

(* A step of a caller leaves the streams and the registry alone.           *)
LEMMA ServerStays ==
  ASSUME Inv, hello' = hello, clients' = clients, agents' = agents, unsettled' = unsettled,
         raced' \subseteq Conns, caller' \in [Callers -> CallerType],
         conn' \in [Conns -> ConnType],
         \A d \in Conns : /\ conn'[d].id = conn[d].id /\ conn'[d].host = conn[d].host
           /\ conn'[d].up = conn[d].up /\ conn'[d].recv = conn[d].recv
           /\ conn'[d].sent = conn[d].sent /\ conn'[d].decoded = conn[d].decoded
           /\ conn'[d].buf = conn[d].buf /\ conn'[d].in = conn[d].in
           /\ conn'[d].mailbox = conn[d].mailbox /\ conn'[d].processing = conn[d].processing
  PROVE  Types' /\ Streams' /\ Hellos' /\ Registry' /\ AllSettled'
<1>1. Types /\ Streams /\ Hellos /\ Registry /\ AllSettled
  BY DEF Inv
<1>2. Types'
  BY <1>1 DEF Types
<1>3. Streams'
  <2> SUFFICES ASSUME NEW d \in Conns PROVE ConnOK(conn'[d])
    BY DEF Streams
  <2>1. ConnOK(conn[d])
    BY <1>1 DEF Streams
  <2> QED BY <2>1 DEF ConnOK, UpOK
<1>4. Hellos'
  BY <1>1 DEF Hellos
<1>5. Registry' /\ AllSettled'
  BY <1>1, RegistryStays, SettledStays
<1> QED BY <1>2, <1>3, <1>4, <1>5

(* A step before the command is sent leaves handlers and answers alone.    *)
LEMMA BeforeSending ==
  ASSUME Inv, NEW k \in Callers, NEW r \in CallerType, caller' = [caller EXCEPT ![k] = r],
         caller[k].pc \notin Sent, r.pc \notin Sent, r.answer = caller[k].answer,
         r.conn = caller[k].conn \/ r.answer = {}, raced \subseteq raced',
         \A d \in Conns : /\ conn'[d].up = conn[d].up /\ conn'[d].sent = conn[d].sent
           /\ conn'[d].decoded = conn[d].decoded /\ conn'[d].mailbox = conn[d].mailbox
           /\ conn'[d].handlers = conn[d].handlers /\ conn'[d].serving = conn[d].serving
           /\ conn'[d].processing = conn[d].processing
  PROVE  /\ caller' \in [Callers -> CallerType] /\ caller'[k] = r
         /\ \A l \in Callers \ {k} : caller'[l] = caller[l]
         /\ Ours' /\ Answered'
<1>1. Types /\ Ours /\ Answered
  BY DEF Inv
<1>2. /\ caller' \in [Callers -> CallerType] /\ caller'[k] = r
      /\ \A l \in Callers \ {k} : caller'[l] = caller[l]
  BY <1>1 DEF Types
<1>3. ASSUME NEW d, NEW i, NEW l \in Callers PROVE Called(l, d, i)' <=> Called(l, d, i)
  <2>1. CASE l = k
    BY <1>2, <2>1 DEF Called, Sent
  <2>2. CASE l # k
    BY <1>2, <2>2 DEF Called
  <2> QED BY <2>1, <2>2
<1>4. Ours'
  <2> SUFFICES ASSUME NEW d \in Conns, NEW i \in Ids, NEW l \in Callers PROVE
        /\ <<i, l>> \in conn'[d].handlers \cup conn'[d].serving => Called(l, d, i)'
        /\ \A j \in DOMAIN conn'[d].sent :
             conn'[d].sent[j] = <<"answer", i, l>> => Called(l, d, i)'
    BY DEF Ours
  <2> QED BY <1>1, <1>3 DEF Ours
<1>5. Answered'
  <2> SUFFICES ASSUME NEW d \in Conns \ raced' PROVE
        /\ OwnOnly(d)'
        /\ conn'[d].up = "open" =>
             conn'[d].processing /\ \A i \in Ids, l \in Callers : OnItsWay(d, i, l)'
    BY DEF Answered
  <2>1. OwnOnly(d)'
    <3> SUFFICES ASSUME NEW l \in Callers, caller'[l].conn = d
                 PROVE  caller'[l].answer \subseteq {l}
      BY DEF OwnOnly
    <3>1. OwnOnly(d)
      BY <1>1 DEF Answered
    <3>2. CASE l = k
      BY <1>2, <3>1, <3>2 DEF OwnOnly
    <3>3. CASE l # k
      BY <1>2, <3>1, <3>3 DEF OwnOnly
    <3> QED BY <3>2, <3>3
  <2>2. ASSUME conn'[d].up = "open", NEW i \in Ids, NEW l \in Callers PROVE OnItsWay(d, i, l)'
    <3>1. OnItsWay(d, i, l)
      BY <1>1, <2>2 DEF Answered
    <3>2. Answers(d, i, l)' = Answers(d, i, l) /\ Processed(d)' = Processed(d)
      BY DEF Answers, Processed
    <3>3. caller'[l].answer = caller[l].answer
      BY <1>2
    <3> QED BY <1>3, <3>1, <3>2, <3>3 DEF OnItsWay
  <2> QED BY <1>1, <2>1, <2>2 DEF Answered
<1> QED BY <1>2, <1>4, <1>5

(* The connection of an agent is looked up.                                *)
LEMMA LookupKeeps ==
  ASSUME Inv, NEW k \in Callers, Lookup(k)
  PROVE  Inv'
<1>1. /\ Types /\ Hellos /\ Registry /\ Counted /\ Ours /\ Alone
      /\ caller[k] \in CallerType /\ caller[k].pc = "idle"
  BY DEF Inv, Types, Lookup, At
<1>2. /\ conn' = conn /\ hello' = hello /\ clients' = clients /\ agents' = agents
      /\ raced' = raced /\ unsettled' = unsettled
  BY DEF Lookup
<1>3. PICK a \in Conns : /\ clients[a] = 1
        /\ caller' = [caller EXCEPT ![k].pc = "read", ![k].conn = clients[a]]
  BY DEF Lookup
<1>4. clients[a] \in Conns /\ conn[clients[a]].up # "none"
  BY <1>1, <1>3 DEF Types, Registry, Hellos, None
<1> DEFINE r == [caller[k] EXCEPT !.pc = "read", !.conn = clients[a]]
<1>5. /\ r \in CallerType /\ r.pc = "read" /\ r.conn = clients[a] /\ r.id = caller[k].id
      /\ r.answer = caller[k].answer /\ r.answer = {}
  BY <1>1, <1>4 DEF CallerType, Place, Counted
<1>6. caller' = [caller EXCEPT ![k] = r]
  BY <1>1, <1>3 DEF Types
<1> HIDE DEF r
<1>7. /\ caller' \in [Callers -> CallerType] /\ caller'[k] = r
      /\ \A l \in Callers \ {k} : caller'[l] = caller[l]
      /\ Ours' /\ Answered'
  <2>1. caller[k].pc \notin Sent /\ r.pc \notin Sent /\ raced \subseteq raced'
    BY <1>1, <1>2, <1>5 DEF Sent
  <2> QED BY <1>2, <1>5, <1>6, <2>1, BeforeSending
<1>8. Types' /\ Streams' /\ Hellos' /\ Registry' /\ AllSettled'
  <2>1. conn' \in [Conns -> ConnType] /\ raced' \subseteq Conns
    BY <1>1, <1>2 DEF Types
  <2> QED BY <1>2, <1>7, <2>1, ServerStays
<1>9. \A d : Wrote(d)' = Wrote(d)
  BY <1>1, <1>5, <1>7 DEF Wrote, After
<1>10. Counted'
  <2>1. \A d \in Conns : conn'[d].msg_id <= Cardinality(Wrote(d)')
    BY <1>1, <1>2, <1>9 DEF Counted
  <2>2. ASSUME NEW l \in Callers PROVE
          /\ caller'[l].pc # "idle" =>
               caller'[l].conn \in Conns /\ conn'[caller'[l].conn].up # "none"
          /\ caller'[l].pc = "idle" => caller'[l].answer = {}
          /\ caller'[l].pc = "write" => caller'[l].id <= Cardinality(Wrote(caller'[l].conn))
    BY <1>1, <1>2, <1>4, <1>5, <1>7 DEF Counted
  <2> QED BY <1>9, <2>1, <2>2 DEF Counted, Wrote
<1>11. Alone'
  <2>1. r.pc \notin After /\ r.pc \notin {"write", "get"}
    BY <1>5 DEF After
  <2> QED BY <1>1, <1>2, <1>7, <2>1 DEF Alone
<1> QED BY <1>7, <1>8, <1>10, <1>11 DEF Inv

(* msgId is read to be increased.                                          *)
LEMMA ReadMsgIdKeeps ==
  ASSUME Inv, NEW k \in Callers, ReadMsgId(k)
  PROVE  Inv'
<1> DEFINE c == caller[k].conn
           r == [caller[k] EXCEPT !.pc = "write", !.id = conn[c].msg_id]
<1>1. /\ Types /\ Counted /\ Ours /\ Alone /\ caller[k] \in CallerType
      /\ caller[k].pc = "read"
  BY DEF Inv, Types, ReadMsgId, At
<1>2. /\ conn' = conn /\ hello' = hello /\ clients' = clients /\ agents' = agents
      /\ unsettled' = unsettled
      /\ raced' = IF \E j \in Callers : caller[j].conn = c /\ caller[j].pc \in {"write", "get"}
                  THEN raced \cup {c} ELSE raced
  BY DEF ReadMsgId
<1>3. c \in Conns /\ conn[c] \in ConnType
  BY <1>1 DEF Counted, Types
<1>4. /\ r \in CallerType /\ r.pc = "write" /\ r.conn = c /\ r.id = conn[c].msg_id
      /\ r.answer = caller[k].answer
  BY <1>1, <1>3 DEF CallerType, Place, ConnType
<1>5. caller' = [caller EXCEPT ![k] = r]
  BY <1>1 DEF Types, ReadMsgId
<1> HIDE DEF r, c
<1>6. /\ caller' \in [Callers -> CallerType] /\ caller'[k] = r
      /\ \A l \in Callers \ {k} : caller'[l] = caller[l]
      /\ Ours' /\ Answered'
  <2>1. caller[k].pc \notin Sent /\ r.pc \notin Sent /\ raced \subseteq raced'
    BY <1>1, <1>2, <1>4 DEF Sent
  <2>2. r.conn = caller[k].conn
    BY <1>4 DEF c
  <2> QED BY <1>2, <1>4, <1>5, <2>1, <2>2, BeforeSending
<1>7. Types' /\ Streams' /\ Hellos' /\ Registry' /\ AllSettled'
  <2>1. conn' \in [Conns -> ConnType] /\ raced' \subseteq Conns
    BY <1>1, <1>2, <1>3 DEF Types
  <2> QED BY <1>2, <1>6, <2>1, ServerStays
<1>8. \A d : Wrote(d)' = Wrote(d)
  BY <1>1, <1>4, <1>6 DEF Wrote, After
<1>9. Counted'
  <2>1. \A d \in Conns : conn'[d].msg_id <= Cardinality(Wrote(d)')
    BY <1>1, <1>2, <1>8 DEF Counted
  <2>2. ASSUME NEW l \in Callers PROVE
          /\ caller'[l].pc # "idle" =>
               caller'[l].conn \in Conns /\ conn'[caller'[l].conn].up # "none"
          /\ caller'[l].pc = "idle" => caller'[l].answer = {}
          /\ caller'[l].pc = "write" => caller'[l].id <= Cardinality(Wrote(caller'[l].conn))
    <3>1. CASE l = k
      <4>1. conn[c].up # "none" /\ conn[c].msg_id <= Cardinality(Wrote(c))
        BY <1>1, <1>3 DEF Counted, c
      <4> QED BY <1>2, <1>3, <1>4, <1>6, <3>1, <4>1
    <3>2. CASE l # k
      BY <1>1, <1>2, <1>6, <3>2 DEF Counted
    <3> QED BY <3>1, <3>2
  <2> QED BY <1>8, <2>1, <2>2 DEF Counted, Wrote
<1>10. Alone'
  <2>1. r.pc \notin After
    BY <1>4 DEF After
  <2> SUFFICES ASSUME NEW d \in Conns \ raced', NEW j \in Callers, NEW l \in Callers,
                      caller'[j].conn = d, caller'[l].conn = d
               PROVE
      /\ caller'[j].pc \in {"write", "get"} /\ caller'[l].pc \in {"write", "get"} => j = l
      /\ caller'[j].pc = "write" => caller'[j].id = conn[d].msg_id
      /\ caller'[j].pc \in After => caller'[j].id <= conn[d].msg_id
      /\ caller'[j].pc \in After /\ caller'[l].pc = "get" => caller'[j].id < conn[d].msg_id
      /\ caller'[j].pc \in After /\ caller'[l].pc \in After /\ caller'[j].id = caller'[l].id
           => j = l
    BY <1>2 DEF Alone
  <2>2. d \notin raced
    BY <1>2
  <2>3. CASE j # k /\ l # k
    BY <1>1, <1>6, <2>2, <2>3 DEF Alone
  <2>4. CASE j = k \/ l = k
    <3>1. d = c
      BY <1>4, <1>6, <2>4
    <3>2. \A n \in Callers : ~(caller[n].conn = c /\ caller[n].pc \in {"write", "get"})
      BY <1>2, <3>1
    <3>3. CASE j = k
      BY <1>4, <1>6, <2>1, <3>1, <3>2, <3>3
    <3>4. CASE l = k /\ j # k
      <4>1. /\ caller'[j] = caller[j] /\ caller'[l] = r
            /\ caller[j].pc \notin {"write", "get"}
            /\ caller[j].pc \in After => caller[j].id <= conn[d].msg_id
        BY <1>1, <1>6, <2>2, <3>1, <3>2, <3>4 DEF Alone
      <4> QED BY <1>4, <2>1, <4>1
    <3> QED BY <2>4, <3>3, <3>4
  <2> QED BY <2>3, <2>4
<1> QED BY <1>6, <1>7, <1>9, <1>10 DEF Inv

(* msgId is written, increased.                                            *)
LEMMA WriteMsgIdKeeps ==
  ASSUME Inv, NEW k \in Callers, WriteMsgId(k)
  PROVE  Inv'
<1> DEFINE c == caller[k].conn
           r == [caller[k] EXCEPT !.pc = "get"]
           n == caller[k].id + 1
           v == [conn[c] EXCEPT !.msg_id = n]
<1>1. /\ Types /\ Streams /\ Counted /\ Ours /\ Alone /\ caller[k] \in CallerType
      /\ caller[k].pc = "write"
  BY DEF Inv, Types, WriteMsgId, At
<1>2. /\ hello' = hello /\ clients' = clients /\ agents' = agents
      /\ unsettled' = unsettled /\ raced' = raced
  BY DEF WriteMsgId
<1>3. c \in Conns /\ conn[c] \in ConnType
  BY <1>1 DEF Counted, Types
<1>4. /\ r \in CallerType /\ r.pc = "get" /\ r.conn = c /\ r.id = caller[k].id
      /\ r.answer = caller[k].answer
  BY <1>1 DEF CallerType, Place
<1>5. caller' = [caller EXCEPT ![k] = r]
  BY <1>1 DEF Types, WriteMsgId, Goes
<1>6. /\ k \notin Wrote(c) /\ IsFiniteSet(Wrote(c)) /\ Cardinality(Wrote(c)) \in Nat
      /\ IsFiniteSet(Wrote(c) \cup {k})
      /\ Cardinality(Wrote(c) \cup {k}) = Cardinality(Wrote(c)) + 1
      /\ Cardinality(Wrote(c) \cup {k}) <= Cardinality(Callers)
      /\ caller[k].id \in Nat /\ caller[k].id <= Cardinality(Wrote(c))
      /\ Cardinality(Callers) \in Nat
  <2>1. k \notin Wrote(c)
    BY <1>1 DEF Wrote, After
  <2>2. IsFiniteSet(Wrote(c)) /\ Wrote(c) \cup {k} \subseteq Callers
    BY ServerAssumption, FS_Subset DEF Wrote
  <2>3. Cardinality(Wrote(c)) \in Nat /\ Cardinality(Callers) \in Nat
    BY <2>2, ServerAssumption, FS_CardinalityType
  <2>4. /\ IsFiniteSet(Wrote(c) \cup {k})
        /\ Cardinality(Wrote(c) \cup {k}) = Cardinality(Wrote(c)) + 1
    BY <2>1, <2>2, FS_AddElement
  <2>5. Cardinality(Wrote(c) \cup {k}) <= Cardinality(Callers)
    BY <2>2, ServerAssumption, FS_Subset
  <2>6. caller[k].id \in Nat /\ caller[k].id <= Cardinality(Wrote(c))
    <3>1. caller[k].id \in Ids
      BY <1>1 DEF CallerType
    <3> QED BY <1>1, <2>3, <3>1 DEF Counted, Ids
  <2> QED BY <2>1, <2>2, <2>3, <2>4, <2>5, <2>6
<1> HIDE DEF r, c
<1>7. n \in Ids /\ n <= Cardinality(Wrote(c) \cup {k})
  BY <1>6 DEF Ids
<1> HIDE DEF n
<1>8. /\ v \in ConnType /\ v.msg_id = n
      /\ v.host = conn[c].host /\ v.up = conn[c].up /\ v.recv = conn[c].recv
      /\ v.mailbox = conn[c].mailbox /\ v.id = conn[c].id
      /\ v.sent = conn[c].sent /\ v.decoded = conn[c].decoded /\ v.buf = conn[c].buf
      /\ v.in = conn[c].in /\ v.handlers = conn[c].handlers
      /\ v.serving = conn[c].serving /\ v.processing = conn[c].processing
  BY <1>3, <1>7 DEF ConnType
<1>9. conn' = [conn EXCEPT ![c] = v]
  BY <1>1 DEF Types, WriteMsgId, NextId, c, n
<1> HIDE DEF v
<1>10. /\ conn' \in [Conns -> ConnType]
       /\ conn'[c] = v /\ \A d \in Conns \ {c} : conn'[d] = conn[d]
  BY <1>1, <1>3, <1>8, <1>9 DEF Types
<1>11. \A d \in Conns : /\ conn'[d].id = conn[d].id /\ conn'[d].host = conn[d].host
           /\ conn'[d].up = conn[d].up /\ conn'[d].recv = conn[d].recv
           /\ conn'[d].sent = conn[d].sent /\ conn'[d].decoded = conn[d].decoded
           /\ conn'[d].buf = conn[d].buf /\ conn'[d].in = conn[d].in
           /\ conn'[d].mailbox = conn[d].mailbox /\ conn'[d].processing = conn[d].processing
           /\ conn'[d].handlers = conn[d].handlers /\ conn'[d].serving = conn[d].serving
  BY <1>8, <1>10
<1>12. /\ caller' \in [Callers -> CallerType] /\ caller'[k] = r
       /\ \A l \in Callers \ {k} : caller'[l] = caller[l]
       /\ Ours' /\ Answered'
  <2>1. caller[k].pc \notin Sent /\ r.pc \notin Sent /\ raced \subseteq raced'
    BY <1>1, <1>2, <1>4 DEF Sent
  <2>2. r.conn = caller[k].conn
    BY <1>4 DEF c
  <2> QED BY <1>4, <1>5, <1>11, <2>1, <2>2, BeforeSending
<1>13. Types' /\ Streams' /\ Hellos' /\ Registry' /\ AllSettled'
  <2>1. raced' \subseteq Conns
    BY <1>1, <1>2 DEF Types
  <2> QED BY <1>2, <1>10, <1>11, <1>12, <2>1, ServerStays
<1>14. \A d \in Conns \ {c} : Wrote(d)' = Wrote(d)
  <2>1. \A d, l : d # c /\ l \in Callers =>
          (caller'[l].conn = d /\ caller'[l].pc \in After \cup {"get"}
             <=> caller[l].conn = d /\ caller[l].pc \in After \cup {"get"})
    BY <1>4, <1>12 DEF c
  <2> QED BY <2>1 DEF Wrote
<1>15. Counted'
  <2>1. ASSUME NEW d \in Conns PROVE
          /\ conn'[d].msg_id <= Cardinality(Wrote(d)')
          /\ \A i \in Ids : i <= Cardinality(Wrote(d)) => i <= Cardinality(Wrote(d)')
    <3>1. CASE d = c
      <4>1. Wrote(d)' = Wrote(c) \cup {k}
        <5>1. Wrote(d)' = {l \in Callers : caller'[l].conn = d
                                           /\ caller'[l].pc \in After \cup {"get"}}
          BY DEF Wrote
        <5>2. {l \in Callers : caller'[l].conn = c /\ caller'[l].pc \in After \cup {"get"}}
                = Wrote(c) \cup {k}
          BY <1>4, <1>12 DEF Wrote
        <5> QED BY <3>1, <5>1, <5>2
      <4>2. \A i \in Ids : i <= Cardinality(Wrote(c)) => i <= Cardinality(Wrote(c) \cup {k})
        BY <1>6 DEF Ids
      <4> QED BY <1>7, <1>8, <1>10, <3>1, <4>1, <4>2
    <3>2. CASE d # c
      BY <1>1, <1>10, <1>14, <3>2 DEF Counted
    <3> QED BY <3>1, <3>2
  <2>2. ASSUME NEW l \in Callers PROVE
          /\ caller'[l].pc # "idle" =>
               caller'[l].conn \in Conns /\ conn'[caller'[l].conn].up # "none"
          /\ caller'[l].pc = "idle" => caller'[l].answer = {}
          /\ caller'[l].pc = "write" => caller'[l].conn \in Conns /\ caller'[l].id \in Ids
               /\ caller'[l].id <= Cardinality(Wrote(caller'[l].conn))
    <3>1. CASE l = k
      <4>1. conn[c].up # "none"
        BY <1>1 DEF Counted, c
      <4> QED BY <1>3, <1>4, <1>11, <1>12, <3>1, <4>1
    <3>2. CASE l # k
      <4>1. caller[l].id \in Ids
        BY <1>1 DEF Types, CallerType
      <4> QED BY <1>1, <1>11, <1>12, <3>2, <4>1 DEF Counted
    <3> QED BY <3>1, <3>2
  <2>3. ASSUME NEW l \in Callers, caller'[l].pc = "write"
        PROVE  caller'[l].id <= Cardinality(Wrote(caller[l].conn)')
    <3>1. PICK d \in Conns : d = caller'[l].conn
      BY <2>2, <2>3
    <3>2. caller'[l].id <= Cardinality(Wrote(d)')
      BY <2>1, <2>2, <2>3, <3>1
    <3>3. Wrote(d)' = Wrote(caller[l].conn)'
      BY <3>1 DEF Wrote
    <3> QED BY <3>2, <3>3
  <2> QED BY <2>1, <2>2, <2>3 DEF Counted, Wrote
<1>16. Alone'
  <2>1. r.pc \notin After
    BY <1>4 DEF After
  <2> SUFFICES ASSUME NEW d \in Conns \ raced, NEW j \in Callers, NEW l \in Callers,
                      caller'[j].conn = d, caller'[l].conn = d
               PROVE
      /\ caller'[j].pc \in {"write", "get"} /\ caller'[l].pc \in {"write", "get"} => j = l
      /\ caller'[j].pc = "write" => caller'[j].id = conn'[d].msg_id
      /\ caller'[j].pc \in After => caller'[j].id <= conn'[d].msg_id
      /\ caller'[j].pc \in After /\ caller'[l].pc = "get" => caller'[j].id < conn'[d].msg_id
      /\ caller'[j].pc \in After /\ caller'[l].pc \in After /\ caller'[j].id = caller'[l].id
           => j = l
    BY <1>2 DEF Alone
  <2>2. caller[j].conn = d /\ caller[l].conn = d
    BY <1>4, <1>12 DEF c
  <2>3. CASE d # c
    <3>1. j # k /\ l # k
      BY <2>2, <2>3 DEF c
    <3> QED BY <1>1, <1>10, <1>12, <2>2, <2>3, <3>1 DEF Alone
  <2>4. CASE d = c
    <3>1. /\ conn[d].msg_id = caller[k].id /\ conn'[d].msg_id = caller[k].id + 1
          /\ caller[k].id \in Nat
      BY <1>1, <1>6, <1>8, <1>10, <2>4 DEF Alone, c, n
    <3>2. \A m \in Callers \ {k} : caller[m].conn = c => caller[m].pc \notin {"write", "get"}
      BY <1>1, <2>4 DEF Alone, c
    <3>3. caller[j].id \in Nat
      BY <1>1 DEF Types, CallerType, Ids
    <3>4. caller[j].pc \in After => caller[j].id <= caller[k].id
      BY <1>1, <2>2, <3>1 DEF Alone
    <3>5. caller[j].pc \in After => caller[j].id < conn'[d].msg_id
      BY <3>1, <3>3, <3>4
    <3>6. CASE j = k
      BY <1>4, <1>12, <2>1, <2>2, <2>4, <3>2, <3>6
    <3>7. CASE j # k
      <4>1. caller'[j] = caller[j] /\ caller[j].pc \notin {"write", "get"}
        BY <1>12, <2>2, <2>4, <3>2, <3>7
      <4>2. caller[j].pc \in After => caller[j].id <= conn'[d].msg_id
        BY <3>1, <3>3, <3>5
      <4>3. caller'[j].pc \in After /\ caller'[l].pc \in After /\ caller'[j].id = caller'[l].id
              => j = l
        <5>1. CASE l = k
          BY <1>12, <2>1, <5>1
        <5>2. CASE l # k
          BY <1>1, <1>12, <2>2, <4>1, <5>2 DEF Alone
        <5> QED BY <5>1, <5>2
      <4> QED BY <3>5, <4>1, <4>2, <4>3
    <3> QED BY <3>6, <3>7
  <2> QED BY <2>3, <2>4
<1> QED BY <1>12, <1>13, <1>15, <1>16 DEF Inv

(* msgId is read again.                                                    *)
LEMMA GetMsgIdKeeps ==
  ASSUME Inv, NEW k \in Callers, GetMsgId(k)
  PROVE  Inv'
<1> DEFINE c == caller[k].conn
           r == [caller[k] EXCEPT !.pc = "send", !.id = conn[c].msg_id]
<1>1. /\ Types /\ Counted /\ Ours /\ Alone /\ caller[k] \in CallerType
      /\ caller[k].pc = "get"
  BY DEF Inv, Types, GetMsgId, At
<1>2. /\ conn' = conn /\ hello' = hello /\ clients' = clients /\ agents' = agents
      /\ unsettled' = unsettled /\ raced' = raced
  BY DEF GetMsgId
<1>3. c \in Conns /\ conn[c] \in ConnType
  BY <1>1 DEF Counted, Types
<1>4. /\ r \in CallerType /\ r.pc = "send" /\ r.conn = c /\ r.id = conn[c].msg_id
      /\ r.answer = caller[k].answer /\ conn[c].msg_id \in Nat
  <2>1. conn[c].msg_id \in Ids
    BY <1>3 DEF ConnType
  <2>2. conn[c].msg_id \in Nat
    BY <2>1 DEF Ids
  <2> QED BY <1>1, <2>1, <2>2 DEF CallerType, Place
<1>5. caller' = [caller EXCEPT ![k] = r]
  BY <1>1 DEF Types, GetMsgId
<1> HIDE DEF r, c
<1>6. /\ caller' \in [Callers -> CallerType] /\ caller'[k] = r
      /\ \A l \in Callers \ {k} : caller'[l] = caller[l]
      /\ Ours' /\ Answered'
  <2>1. caller[k].pc \notin Sent /\ r.pc \notin Sent /\ raced \subseteq raced'
    BY <1>1, <1>2, <1>4 DEF Sent
  <2>2. r.conn = caller[k].conn
    BY <1>4 DEF c
  <2> QED BY <1>2, <1>4, <1>5, <2>1, <2>2, BeforeSending
<1>7. Types' /\ Streams' /\ Hellos' /\ Registry' /\ AllSettled'
  <2>1. conn' \in [Conns -> ConnType] /\ raced' \subseteq Conns
    BY <1>1, <1>2 DEF Types
  <2> QED BY <1>2, <1>6, <2>1, ServerStays
<1>8. \A d : Wrote(d)' = Wrote(d)
  <2>1. \A d, l : l \in Callers =>
          (caller'[l].conn = d /\ caller'[l].pc \in After \cup {"get"}
             <=> caller[l].conn = d /\ caller[l].pc \in After \cup {"get"})
    BY <1>1, <1>4, <1>6 DEF After, c
  <2> QED BY <2>1 DEF Wrote
<1>9. Counted'
  <2>1. \A d \in Conns : conn'[d].msg_id <= Cardinality(Wrote(d)')
    BY <1>1, <1>2, <1>8 DEF Counted
  <2>2. ASSUME NEW l \in Callers PROVE
          /\ caller'[l].pc # "idle" =>
               caller'[l].conn \in Conns /\ conn'[caller'[l].conn].up # "none"
          /\ caller'[l].pc = "idle" => caller'[l].answer = {}
          /\ caller'[l].pc = "write" => caller'[l].id <= Cardinality(Wrote(caller'[l].conn))
    <3>1. CASE l = k
      <4>1. conn[c].up # "none"
        BY <1>1 DEF Counted, c
      <4> QED BY <1>2, <1>3, <1>4, <1>6, <3>1, <4>1
    <3>2. CASE l # k
      BY <1>1, <1>2, <1>6, <3>2 DEF Counted
    <3> QED BY <3>1, <3>2
  <2> QED BY <1>8, <2>1, <2>2 DEF Counted, Wrote
<1>10. Alone'
  <2> SUFFICES ASSUME NEW d \in Conns \ raced, NEW j \in Callers, NEW l \in Callers,
                      caller'[j].conn = d, caller'[l].conn = d
               PROVE
      /\ caller'[j].pc \in {"write", "get"} /\ caller'[l].pc \in {"write", "get"} => j = l
      /\ caller'[j].pc = "write" => caller'[j].id = conn[d].msg_id
      /\ caller'[j].pc \in After => caller'[j].id <= conn[d].msg_id
      /\ caller'[j].pc \in After /\ caller'[l].pc = "get" => caller'[j].id < conn[d].msg_id
      /\ caller'[j].pc \in After /\ caller'[l].pc \in After /\ caller'[j].id = caller'[l].id
           => j = l
    BY <1>2 DEF Alone
  <2>1. caller[j].conn = d /\ caller[l].conn = d
    BY <1>4, <1>6 DEF c
  <2>2. CASE j # k /\ l # k
    BY <1>1, <1>6, <2>1, <2>2 DEF Alone
  <2>3. CASE j = k \/ l = k
    <3>1. d = c
      BY <1>4, <1>6, <2>3
    <3>2. \A m \in Callers \ {k} : caller[m].conn = c =>
            /\ caller[m].pc \notin {"write", "get"}
            /\ caller[m].pc \in After => caller[m].id < conn[c].msg_id
      BY <1>1, <3>1 DEF Alone, c
    <3>3. CASE j = k /\ l = k
      BY <1>4, <1>6, <3>1, <3>3
    <3>4. CASE j = k /\ l # k
      <4>1. /\ caller'[j] = r /\ caller'[l] = caller[l]
            /\ caller[l].pc \notin {"write", "get"}
            /\ caller[l].pc \in After => caller[l].id < conn[c].msg_id
        BY <1>6, <2>1, <3>1, <3>2, <3>4
      <4>2. caller[l].id \in Nat
        BY <1>1 DEF Types, CallerType, Ids
      <4> QED BY <1>4, <3>1, <4>1, <4>2
    <3>5. CASE j # k /\ l = k
      <4>1. /\ caller'[l] = r /\ caller'[j] = caller[j]
            /\ caller[j].pc \notin {"write", "get"}
            /\ caller[j].pc \in After => caller[j].id < conn[c].msg_id
        BY <1>6, <2>1, <3>1, <3>2, <3>5
      <4>2. caller[j].id \in Nat
        BY <1>1 DEF Types, CallerType, Ids
      <4>3. caller[j].pc \in After => caller[j].id <= conn[c].msg_id /\ caller[j].id # conn[c].msg_id
        BY <1>4, <4>1, <4>2
      <4> QED BY <1>4, <3>1, <4>1, <4>3
    <3> QED BY <2>3, <3>3, <3>4, <3>5
  <2> QED BY <2>2, <2>3
<1> QED BY <1>6, <1>7, <1>9, <1>10 DEF Inv

(* The command is sent.                                                    *)
LEMMA SendKeeps ==
  ASSUME Inv, NEW k \in Callers, Send(k)
  PROVE  Inv'
<1> DEFINE c == caller[k].conn
           i == caller[k].id
           own == <<i, k>>
           o == conn[c]
<1>1. /\ Types /\ Streams /\ Counted /\ Ours /\ Alone /\ Answered
      /\ caller[k] \in CallerType /\ caller[k].pc = "send"
  BY DEF Inv, Types, Send, At
<1>2. /\ hello' = hello /\ clients' = clients /\ agents' = agents
      /\ unsettled' = unsettled /\ raced' = raced
  BY DEF Send
<1>3. c \in Conns /\ o \in ConnType /\ i \in Ids /\ own \in Ids \X Callers
  BY <1>1 DEF Counted, Types, CallerType
<1>4. PICK p \in {"sent", "threw"} : caller' = [caller EXCEPT ![k].pc = p]
  BY DEF Send, Goes
<1> DEFINE v == [o EXCEPT !.handlers = {h \in @ : h[1] # own[1]} \cup {own},
                          !.serving = IF o.up = "open" THEN @ \cup {own} ELSE @]
           r == [caller[k] EXCEPT !.pc = p]
<1>5. conn' = [conn EXCEPT ![c] = v] /\ caller' = [caller EXCEPT ![k] = r]
  BY <1>1, <1>3, <1>4 DEF Types, Send
<1>6. /\ r \in CallerType /\ r.pc = p /\ r.conn = c /\ r.id = i /\ r.answer = caller[k].answer
  BY <1>1, <1>4 DEF CallerType, Place
<1>7. /\ v \in ConnType /\ v.msg_id = o.msg_id
      /\ v.host = o.host /\ v.up = o.up /\ v.recv = o.recv
      /\ v.mailbox = o.mailbox /\ v.id = o.id
      /\ v.sent = o.sent /\ v.decoded = o.decoded /\ v.buf = o.buf
      /\ v.in = o.in /\ v.processing = o.processing
      /\ v.handlers = {h \in o.handlers : h[1] # i} \cup {own}
      /\ v.serving = IF o.up = "open" THEN o.serving \cup {own} ELSE o.serving
  <2>1. own[1] = i
    OBVIOUS
  <2> HIDE DEF own
  <2>2. {h \in o.handlers : h[1] # own[1]} \cup {own} \in SUBSET (Ids \X Callers)
    BY <1>3 DEF ConnType
  <2>3. (IF o.up = "open" THEN o.serving \cup {own} ELSE o.serving) \in SUBSET (Ids \X Callers)
    BY <1>3 DEF ConnType
  <2> QED BY ZenonT(60), <1>3, <2>1, <2>2, <2>3 DEF ConnType
<1> HIDE DEF v, r
<1>8. /\ caller' \in [Callers -> CallerType] /\ caller'[k] = r
      /\ \A l \in Callers \ {k} : caller'[l] = caller[l]
      /\ conn' \in [Conns -> ConnType]
      /\ conn'[c] = v /\ \A d \in Conns \ {c} : conn'[d] = conn[d]
  BY <1>1, <1>3, <1>5, <1>6, <1>7 DEF Types
<1>9. \A d \in Conns : /\ conn'[d].id = conn[d].id /\ conn'[d].host = conn[d].host
           /\ conn'[d].up = conn[d].up /\ conn'[d].recv = conn[d].recv
           /\ conn'[d].sent = conn[d].sent /\ conn'[d].decoded = conn[d].decoded
           /\ conn'[d].buf = conn[d].buf /\ conn'[d].in = conn[d].in
           /\ conn'[d].mailbox = conn[d].mailbox /\ conn'[d].processing = conn[d].processing
           /\ conn'[d].msg_id = conn[d].msg_id
  BY <1>7, <1>8
<1>10. Types' /\ Streams' /\ Hellos' /\ Registry' /\ AllSettled'
  <2>1. raced' \subseteq Conns
    BY <1>1, <1>2 DEF Types
  <2> QED BY <1>2, <1>8, <1>9, <2>1, ServerStays
<1>11. /\ \A l \in Callers : caller'[l].conn = caller[l].conn /\ caller'[l].id = caller[l].id
            /\ caller'[l].answer = caller[l].answer
            /\ (caller'[l].pc \in After <=> caller[l].pc \in After)
            /\ \A q \in {"idle", "write", "get"} : caller'[l].pc = q <=> caller[l].pc = q
       /\ \A l \in Callers : \A d, j : Called(l, d, j)' <=> Called(l, d, j) \/ (l = k /\ d = c /\ j = i)
       /\ \A d, j : ~Called(k, d, j)
  <2>1. /\ caller'[k].conn = c /\ caller'[k].id = i /\ caller'[k].answer = caller[k].answer
        /\ caller'[k].pc \in {"sent", "threw"} /\ caller[k].pc = "send"
    BY <1>1, <1>6, <1>8
  <2>2. \A l \in Callers : caller'[l].conn = caller[l].conn /\ caller'[l].id = caller[l].id
            /\ caller'[l].answer = caller[l].answer
            /\ (caller'[l].pc \in After <=> caller[l].pc \in After)
            /\ \A q \in {"idle", "write", "get"} : caller'[l].pc = q <=> caller[l].pc = q
    BY <1>8, <2>1 DEF After
  <2>3. ASSUME NEW l \in Callers, NEW d, NEW j
        PROVE  Called(l, d, j)' <=> Called(l, d, j) \/ (l = k /\ d = c /\ j = i)
    <3>1. CASE l = k
      BY <2>1, <3>1 DEF Called
    <3>2. CASE l # k
      BY <1>8, <3>2 DEF Called
    <3> QED BY <3>1, <3>2
  <2> QED BY <1>1, <2>2, <2>3 DEF Called
<1>12. Counted' /\ Alone'
  <2>1. \A d : Wrote(d)' = Wrote(d)
    BY <1>11 DEF Wrote
  <2>2. Counted'
    BY <1>1, <1>9, <1>11, <2>1 DEF Counted
  <2>3. Alone'
    BY <1>1, <1>2, <1>9, <1>11 DEF Alone
  <2> QED BY <2>2, <2>3
<1>13. \A j, l : <<j, l>> = own <=> j = i /\ l = k
  OBVIOUS
<1>14. \A j, l : <<j, l>>[1] = j
  OBVIOUS
<1> HIDE DEF own
<1>15. Ours'
  <2> SUFFICES ASSUME NEW d \in Conns, NEW j \in Ids, NEW l \in Callers PROVE
        /\ <<j, l>> \in conn'[d].handlers \cup conn'[d].serving => Called(l, d, j)'
        /\ \A n \in DOMAIN conn'[d].sent :
             conn'[d].sent[n] = <<"answer", j, l>> => Called(l, d, j)'
    BY DEF Ours
  <2>1. <<j, l>> \in conn'[d].handlers \cup conn'[d].serving =>
          <<j, l>> \in conn[d].handlers \cup conn[d].serving \/ (d = c /\ <<j, l>> = own)
    <3>1. CASE d = c
      BY <1>7, <1>8, <3>1
    <3>2. CASE d # c
      BY <1>8, <3>2
    <3> QED BY <3>1, <3>2
  <2>2. <<j, l>> \in conn[d].handlers \cup conn[d].serving => Called(l, d, j)
    BY <1>1 DEF Ours
  <2>3. \A n \in DOMAIN conn[d].sent :
          conn[d].sent[n] = <<"answer", j, l>> => Called(l, d, j)
    BY <1>1 DEF Ours
  <2> QED BY <1>9, <1>11, <1>13, <2>1, <2>2, <2>3
<1>16. Answered'
  <2> SUFFICES ASSUME NEW d \in Conns \ raced PROVE
        /\ OwnOnly(d)'
        /\ conn'[d].up = "open" =>
             conn'[d].processing /\ \A j \in Ids, l \in Callers : OnItsWay(d, j, l)'
    BY <1>2 DEF Answered
  <2>1. OwnOnly(d)'
    BY <1>1, <1>11 DEF Answered, OwnOnly
  <2>2. ASSUME conn'[d].up = "open", NEW j \in Ids, NEW l \in Callers PROVE OnItsWay(d, j, l)'
    <3>1. OnItsWay(d, j, l)
      BY <1>1, <1>9, <2>2 DEF Answered
    <3>2. Answers(d, j, l)' = Answers(d, j, l) /\ Processed(d)' = Processed(d)
      BY <1>9 DEF Answers, Processed
    <3>3. Answers(d, j, l) # {} => Called(l, d, j)
      BY <1>1 DEF Ours, Answers
    <3>4. CASE d # c
      BY <1>8, <1>11, <3>1, <3>2, <3>4 DEF OnItsWay
    <3>5. CASE d = c
      <4>1. /\ o.up = "open"
            /\ conn'[d].handlers = {h \in o.handlers : h[1] # i} \cup {own}
            /\ conn'[d].serving = o.serving \cup {own}
        BY <1>7, <1>8, <1>9, <2>2, <3>5
      <4>2. CASE j = i /\ l = k
        <5>1. Answers(d, j, l) = {} /\ <<j, l>> = own
          BY <1>11, <1>13, <3>3, <4>2
        <5> QED BY <3>2, <4>1, <5>1 DEF OnItsWay
      <4>3. CASE ~(j = i /\ l = k)
        <5>1. <<j, l>> # own /\ (Called(l, d, j)' <=> Called(l, d, j))
          BY <1>11, <1>13, <4>3
        <5>2. <<j, l>> \in conn[d].handlers => <<j, l>> \in conn'[d].handlers
          <6> SUFFICES ASSUME <<j, l>> \in conn[d].handlers, j = i PROVE FALSE
            BY <1>14, <3>5, <4>1
          <6>1. Called(l, c, i) /\ l # k
            BY <1>1, <1>11, <3>5 DEF Ours
          <6> QED BY <1>1, <3>5, <6>1 DEF Alone, Called, After
        <5>3. <<j, l>> \in conn'[d].serving <=> <<j, l>> \in conn[d].serving
          BY <3>5, <4>1, <5>1
        <5> QED BY <1>11, <3>1, <3>2, <5>1, <5>2, <5>3 DEF OnItsWay
      <4> QED BY <4>2, <4>3
    <3> QED BY <3>4, <3>5
  <2> QED BY <1>1, <1>9, <2>1, <2>2 DEF Answered
<1> QED BY <1>10, <1>12, <1>15, <1>16 DEF Inv

(* The caller waits.                                                       *)
LEMMA WaitKeeps ==
  ASSUME Inv, NEW k \in Callers, Wait(k)
  PROVE  Inv'
<1> DEFINE r == [caller[k] EXCEPT !.pc = "waiting"]
<1>1. /\ Types /\ Counted /\ Ours /\ Alone /\ Answered
      /\ caller[k] \in CallerType /\ caller[k].pc = "sent"
  BY DEF Inv, Types, Wait, At
<1>2. /\ conn' = conn /\ hello' = hello /\ clients' = clients /\ agents' = agents
      /\ unsettled' = unsettled /\ raced' = raced
  BY DEF Wait
<1>3. /\ r \in CallerType /\ r.pc = "waiting" /\ r.conn = caller[k].conn /\ r.id = caller[k].id
      /\ r.answer = caller[k].answer
  BY <1>1 DEF CallerType, Place
<1>4. caller' = [caller EXCEPT ![k] = r]
  BY <1>1 DEF Types, Wait, Goes
<1> HIDE DEF r
<1>5. /\ caller' \in [Callers -> CallerType] /\ caller'[k] = r
      /\ \A l \in Callers \ {k} : caller'[l] = caller[l]
  BY <1>1, <1>3, <1>4 DEF Types
<1>6. Types' /\ Streams' /\ Hellos' /\ Registry' /\ AllSettled'
  <2>1. raced' \subseteq Conns /\ conn' \in [Conns -> ConnType]
    BY <1>1, <1>2 DEF Types
  <2> QED BY <1>2, <1>5, <2>1, ServerStays
<1>7. \A l \in Callers :
           /\ caller'[l].conn = caller[l].conn /\ caller'[l].id = caller[l].id
           /\ caller'[l].pc = caller[l].pc \/ {caller'[l].pc, caller[l].pc} \subseteq Sent
           /\ caller'[l].answer = caller[l].answer
  BY <1>1, <1>3, <1>5 DEF Sent
<1>8. /\ Counted' /\ Ours' /\ Alone'
      /\ \A d, i, l : l \in Callers => Called(l, d, i)' = Called(l, d, i)
  BY <1>1, <1>2, <1>7, CallsMove
<1>9. Answered'
  <2> SUFFICES ASSUME NEW d \in Conns \ raced PROVE
        /\ OwnOnly(d)'
        /\ conn'[d].up = "open" =>
             conn'[d].processing /\ \A j \in Ids, l \in Callers : OnItsWay(d, j, l)'
    BY <1>2 DEF Answered
  <2>1. OwnOnly(d)'
    BY <1>1, <1>7 DEF Answered, OwnOnly
  <2>2. ASSUME conn'[d].up = "open", NEW j \in Ids, NEW l \in Callers PROVE OnItsWay(d, j, l)'
    <3>1. OnItsWay(d, j, l)
      BY <1>1, <1>2, <2>2 DEF Answered
    <3>2. Answers(d, j, l)' = Answers(d, j, l) /\ Processed(d)' = Processed(d)
      BY <1>2 DEF Answers, Processed
    <3> QED BY <1>2, <1>7, <1>8, <3>1, <3>2 DEF OnItsWay
  <2> QED BY <1>1, <1>2, <2>1, <2>2 DEF Answered
<1> QED BY <1>6, <1>8, <1>9 DEF Inv
-----------------------------------------------------------------------------
(* The invariant.                                                          *)

(* It holds initially.                                                     *)
LEMMA InvInit ==
  Init => Inv
<1> SUFFICES ASSUME Init PROVE Inv
  OBVIOUS
<1> DEFINE o == [host |-> None, up |-> "none", id |-> None,
        in |-> <<>>, buf |-> <<>>, recv |-> "off",
        mailbox |-> <<>>, processing |-> TRUE,
        msg_id |-> 0, handlers |-> {}, serving |-> {},
        sent |-> <<>>, decoded |-> <<>>]
           e == [pc |-> "idle", conn |-> None, id |-> None, answer |-> {}]
           w == [pc |-> "off", agent |-> None]
<1>1. /\ conn = [c \in Conns |-> o] /\ hello = [c \in Conns |-> w]
      /\ clients = [a \in Conns |-> None] /\ agents = <<>>
      /\ caller = [k \in Callers |-> e] /\ raced = {} /\ unsettled = {}
  BY DEF Init
<1>2. 0 \in Ids
  BY ServerAssumption, FS_CardinalityType DEF Ids
<1>3. o \in ConnType /\ w \in HelloType /\ e \in CallerType
  <2>1. <<>> \in Seq(Piece) /\ <<>> \in Seq(Message) /\ <<>> \in Seq(Message \cup {<<"stop">>})
    OBVIOUS
  <2> QED BY <1>2, <2>1 DEF ConnType, HelloType, CallerType, Place, None
<1>4. Types
  BY <1>1, <1>3 DEF Types
<1>5. ConnOK(o)
  <2>1. Stream(<<>>, <<>>, <<>>, <<>>)
    BY DEF Stream, Reaches, Cut
  <2>2. Rest(<<>>, <<>>) /\ Mail(<<>>, <<>>) /\ HelloFirst(<<>>)
    BY DEF Rest, Mail, HelloFirst
  <2> QED BY <2>1, <2>2 DEF ConnOK, UpOK
<1>6. /\ o.up = "none" /\ o.recv = "off" /\ o.host = None /\ o.id = None /\ o.mailbox = <<>>
      /\ o.msg_id = 0 /\ o.handlers = {} /\ o.serving = {} /\ o.sent = <<>>
      /\ w.pc = "off" /\ w.agent = None
      /\ e.pc = "idle" /\ e.conn = None /\ e.id = 0 /\ e.answer = {}
  BY DEF None
<1> HIDE DEF o, w, e
<1>7. Streams /\ Hellos
  BY <1>1, <1>5, <1>6 DEF Streams, Hellos
<1>8. Registry
  <2>1. IsFiniteSet(Saved) /\ Cardinality(Saved) = 0
    <3>1. Saved = {}
      BY <1>1, <1>6 DEF Saved
    <3> QED BY <3>1, FS_EmptySet
  <2>2. Len(agents) <= Cardinality(Saved)
    BY <1>1, <2>1
  <2> QED BY <1>1, <1>6, <2>2 DEF Registry
<1>9. AllSettled
  <2> SUFFICES ASSUME NEW h \in Hosts PROVE Settled(h)
    BY <1>1, <1>6 DEF AllSettled
  <2>1. Existing(h) = {}
    BY <1>1 DEF Existing
  <2>2. \A c \in Conns : conn[c].host # h
    BY <1>1, <1>6, ServerAssumption
  <2> QED BY <2>1, <2>2 DEF Settled
<1>10. Counted
  <2>1. \A c \in Conns : Cardinality(Wrote(c)) \in Nat
    <3>1. \A c \in Conns : IsFiniteSet(Wrote(c))
      BY ServerAssumption, FS_Subset DEF Wrote
    <3> QED BY <3>1, FS_CardinalityType
  <2> QED BY <1>1, <1>6, <2>1 DEF Counted
<1>11. Ours /\ Alone
  <2>1. DOMAIN <<>> = {}
    OBVIOUS
  <2>2. Ours
    BY <1>1, <1>6, <2>1 DEF Ours
  <2>3. Alone
    BY <1>1, <1>6 DEF Alone, After
  <2> QED BY <2>2, <2>3
<1>12. Answered
  BY <1>1, <1>6 DEF Answered, OwnOnly
<1> QED BY <1>4, <1>7, <1>8, <1>9, <1>10, <1>11, <1>12 DEF Inv

(* Every step keeps it.                                                    *)
LEMMA InvNext ==
  Inv /\ [Next]_vars => Inv'
<1> SUFFICES ASSUME Inv, [Next]_vars PROVE Inv'
  OBVIOUS
<1>1. CASE \E c \in Conns, h \in Hosts : Accept(c, h)
  BY <1>1, AcceptKeeps
<1>2. CASE \E c \in Conns : AgentSaysHello(c) \/ AgentAnswers(c) \/ AgentCloses(c)
  BY <1>2, AgentSaysHelloKeeps, AgentAnswersKeeps, AgentClosesKeeps
<1>3. CASE \E c \in Conns : Receiver(c)
  BY <1>3, ReadKeeps, EndOfStreamKeeps, UnlistKeeps, DeactivateKeeps DEF Receiver
<1>4. CASE \E c \in Conns : Processor(c)
  BY <1>4, StartHelloKeeps, AddResponseKeeps, StopKeeps DEF Processor
<1>5. CASE \E c \in Conns : Hello(c)
  BY <1>5, FindAgentKeeps, SaveAgentKeeps, NameClientKeeps, ListClientKeeps DEF Hello
<1>6. CASE \E k \in Callers : Lookup(k) \/ Invoke(k)
  BY <1>6, LookupKeeps, ReadMsgIdKeeps, WriteMsgIdKeeps, GetMsgIdKeeps, SendKeeps, WaitKeeps
     DEF Invoke
<1>7. CASE UNCHANGED vars
  <2>1. /\ conn' = conn /\ hello' = hello /\ clients' = clients /\ agents' = agents
        /\ caller' = caller /\ raced' = raced /\ unsettled' = unsettled
    BY <1>7 DEF vars
  <2>2. /\ Types /\ Streams /\ Hellos /\ Registry /\ AllSettled /\ Counted /\ Ours /\ Alone
        /\ Answered
    BY DEF Inv
  <2>3. Types' /\ Streams' /\ Hellos'
    BY <2>1, <2>2 DEF Types, Streams, Hellos
  <2>4. Registry' /\ AllSettled' /\ Counted' /\ Ours' /\ Alone'
    BY <2>1, <2>2, RegistryStays, SettledStays, CallsStay
  <2>5. \A d \in Conns : Processed(d)' = Processed(d)
    BY <2>1 DEF Processed
  <2>6. Answered'
    BY <2>1, <2>2, <2>5, AnswersStay
  <2> QED BY <2>3, <2>4, <2>6 DEF Inv
<1> QED BY <1>1, <1>2, <1>3, <1>4, <1>5, <1>6, <1>7 DEF Next
-----------------------------------------------------------------------------
(* What the invariant says of each property.                               *)

(* The parts of a connection have their types.                             *)
LEMMA ConnFacts ==
  ASSUME Inv, NEW c \in Conns
  PROVE  /\ conn[c] \in ConnType /\ ConnOK(conn[c])
         /\ conn[c].sent \in Seq(Message) /\ conn[c].decoded \in Seq(Message)
         /\ conn[c].buf \in Seq(Piece) /\ conn[c].in \in Seq(Piece)
         /\ conn[c].mailbox \in Seq(Message \cup {<<"stop">>})
<1>1. conn[c] \in ConnType /\ ConnOK(conn[c])
  BY DEF Inv, Types, Streams
<1> QED BY <1>1 DEF ConnType

(* Of a buffer and what was decoded before it, the agent sent the whole.   *)
LEMMA SentFirst ==
  ASSUME NEW sent \in Seq(Message), NEW decoded \in Seq(Message), NEW buf \in Seq(Piece),
         NEW in \in Seq(Piece), Stream(sent, decoded, buf, in)
  PROVE  Len(decoded) <= Len(sent) /\ Len(buf) <= 2 * Len(sent)
<1>1. /\ Len(sent) \in Nat /\ Len(decoded) \in Nat /\ Len(buf) \in Nat /\ Len(in) \in Nat
      /\ 2 * Len(decoded) + Len(buf) + Len(in) <= 2 * Len(sent)
  BY LenProperties DEF Stream, Reaches
<1> QED BY <1>1

(* The invariant has the messages whole.                                   *)
LEMMA WholeFromInv ==
  Inv => MessagesWhole
<1> SUFFICES ASSUME Inv, NEW c \in Conns
             PROVE  /\ Len(conn[c].decoded) <= Len(conn[c].sent)
                    /\ \A k \in DOMAIN conn[c].decoded :
                         conn[c].decoded[k] = conn[c].sent[k]
  BY DEF MessagesWhole
<1>1. Stream(conn[c].sent, conn[c].decoded, conn[c].buf, conn[c].in)
  BY ConnFacts DEF ConnOK
<1>2. Len(conn[c].decoded) <= Len(conn[c].sent)
  BY <1>1, ConnFacts, SentFirst
<1> QED BY <1>1, <1>2 DEF Stream

(* A call that is not idle has a connection of its own.                    *)
LEMMA CallerConn ==
  ASSUME Inv, NEW k \in Callers, caller[k].pc # "idle"
  PROVE  caller[k].conn \in Conns
BY DEF Inv, Counted

(* The invariant gives calls their own answers.                            *)
LEMMA OwnFromInv ==
  Inv => OwnAnswer
<1> SUFFICES ASSUME Inv, NEW k \in Callers, caller[k].conn \notin raced
             PROVE  caller[k].answer \subseteq {k}
  BY DEF OwnAnswer
<1>1. CASE caller[k].pc = "idle"
  BY <1>1 DEF Inv, Counted
<1>2. CASE caller[k].pc # "idle"
  <2>1. caller[k].conn \in Conns \ raced
    BY <1>2, CallerConn
  <2> QED BY <2>1 DEF Inv, Answered, OwnOnly
<1> QED BY <1>1, <1>2

(* On an open connection a message is processed, with the processor, or    *)
(* its end is in the stream.                                               *)
Ahead(mailbox, stream, m) ==
  \/ \E n \in DOMAIN mailbox : mailbox[n] = m
  \/ \E n \in DOMAIN stream : stream[n] = <<m, "nul">>
(* So it is not lost before the processor has dealt with it.               *)
LEMMA UnderWay ==
  ASSUME NEW sent \in Seq(Message), NEW decoded \in Seq(Message), NEW buf \in Seq(Piece),
         NEW in \in Seq(Piece), NEW mailbox \in Seq(Message \cup {<<"stop">>}),
         Stream(sent, decoded, buf, in), Reaches(decoded, buf, in) = 2 * Len(sent),
         Rest(mailbox, decoded), NEW j \in DOMAIN sent,
         ~(j <= Len(decoded) - Len(mailbox))
  PROVE  Ahead(mailbox, buf \o in, sent[j])
<1>0. PICK s \in Nat, d \in Nat, b \in Nat, i \in Nat, m \in Nat :
        s = Len(sent) /\ d = Len(decoded) /\ b = Len(buf) /\ i = Len(in) /\ m = Len(mailbox)
  BY LenProperties
<1>1. /\ DOMAIN sent = 1 .. s /\ DOMAIN decoded = 1 .. d /\ DOMAIN mailbox = 1 .. m
      /\ DOMAIN (buf \o in) = 1 .. b + i
  BY <1>0, LenProperties, ConcatProperties
<1>2. 2 * d + b + i = 2 * s /\ m <= d /\ ~(j <= d - m) /\ j \in 1 .. s
  BY <1>0, <1>1 DEF Reaches, Rest
<1>3. CASE j <= d
  <2>1. PICK n \in 1 .. m : d - m + n = j
    <3>1. j - (d - m) \in 1 .. m /\ d - m + (j - (d - m)) = j
      BY <1>2, <1>3
    <3> QED BY <3>1
  <2>2. mailbox[n] = decoded[j]
    BY <1>0, <1>1, <2>1 DEF Rest
  <2>3. decoded[j] = sent[j]
    <3>1. j \in DOMAIN decoded
      BY <1>1, <1>2, <1>3
    <3> QED BY <3>1 DEF Stream
  <2> QED BY <1>1, <2>1, <2>2, <2>3 DEF Ahead
<1>4. CASE ~(j <= d)
  <2>1. Cut(buf \o in, 2 * Len(decoded), sent)
    <3>1. 2 * Len(decoded) \in Nat
      BY <1>0
    <3>2. Cut(buf, 2 * Len(decoded), sent) /\ Cut(in, 2 * Len(decoded) + Len(buf), sent)
      BY DEF Stream
    <3> QED BY <3>1, <3>2, CutConcat
  <2>2. PICK p \in 1 .. b + i : 2 * d + p = 2 * j
    <3>1. 2 * j - 2 * d \in 1 .. b + i /\ 2 * d + (2 * j - 2 * d) = 2 * j
      BY SMTT(30), <1>2, <1>4
    <3> QED BY <3>1
  <2>3. (buf \o in)[p] = <<sent[j], "nul">>
    BY <1>0, <1>1, <2>1, <2>2 DEF Cut
  <2> QED BY <1>1, <2>2, <2>3 DEF Ahead
<1> QED BY <1>3, <1>4

(* The invariant accounts for every wait.                                  *)
LEMMA WaitFromInv ==
  Inv => WaitIsAccountedFor
<1> SUFFICES ASSUME Inv, NEW k \in Callers, At(k, "waiting"),
                    conn[caller[k].conn].up = "open", caller[k].conn \notin raced
             PROVE  \/ caller[k].answer = {k}
                    \/ /\ <<caller[k].id, k>> \in conn[caller[k].conn].handlers
                       /\ conn[caller[k].conn].processing
                       /\ Pending(caller[k].conn, <<"answer", caller[k].id, k>>)
  BY DEF WaitIsAccountedFor
<1>1. PICK c \in Conns : c = caller[k].conn
  BY CallerConn DEF At
<1>2. PICK i \in Ids : i = caller[k].id
  BY DEF Inv, Types, CallerType
<1>3. conn[c].processing /\ OnItsWay(c, i, k)
  BY <1>1 DEF Inv, Answered
<1>4. Called(k, c, i)
  BY <1>1, <1>2 DEF Called, At
<1>5. CASE <<i, k>> \in conn[c].serving
  <2>1. <<i, k>> \in conn[c].handlers
    BY <1>3, <1>5 DEF OnItsWay
  <2>2. Pending(c, <<"answer", i, k>>)
    BY <1>5 DEF Pending
  <2> QED BY <1>1, <1>2, <1>3, <2>1, <2>2
<1>6. CASE <<i, k>> \notin conn[c].serving
  <2>1. PICK j \in DOMAIN conn[c].sent : conn[c].sent[j] = <<"answer", i, k>>
    BY <1>3, <1>4, <1>6 DEF OnItsWay, Answers
  <2>2. IF j <= Processed(c) THEN caller[k].answer = {k} ELSE <<i, k>> \in conn[c].handlers
    BY <1>3, <2>1 DEF OnItsWay, Answers
  <2>3. CASE j <= Processed(c)
    BY <2>2, <2>3
  <2>4. CASE ~(j <= Processed(c))
    <3>1. <<i, k>> \in conn[c].handlers
      BY <2>2, <2>4
    <3>2. /\ Stream(conn[c].sent, conn[c].decoded, conn[c].buf, conn[c].in)
          /\ Reaches(conn[c].decoded, conn[c].buf, conn[c].in) = 2 * Len(conn[c].sent)
          /\ Rest(conn[c].mailbox, conn[c].decoded)
      <4>1. ConnOK(conn[c]) /\ conn[c].up = "open"
        BY <1>1, ConnFacts
      <4> QED BY <4>1 DEF ConnOK, UpOK
    <3>3. Ahead(conn[c].mailbox, conn[c].buf \o conn[c].in, conn[c].sent[j])
      <4> DEFINE o == conn[c]
      <4>1. /\ o.sent \in Seq(Message) /\ o.decoded \in Seq(Message)
            /\ o.buf \in Seq(Piece) /\ o.in \in Seq(Piece)
            /\ o.mailbox \in Seq(Message \cup {<<"stop">>})
            /\ Stream(o.sent, o.decoded, o.buf, o.in)
            /\ Reaches(o.decoded, o.buf, o.in) = 2 * Len(o.sent)
            /\ Rest(o.mailbox, o.decoded) /\ j \in DOMAIN o.sent
            /\ ~(j <= Len(o.decoded) - Len(o.mailbox))
        BY <2>1, <2>4, <3>2, ConnFacts DEF Processed
      <4> HIDE DEF o
      <4>2. Ahead(o.mailbox, o.buf \o o.in, o.sent[j])
        BY <4>1, UnderWay
      <4> QED BY <4>2 DEF o
    <3>4. Pending(c, <<"answer", i, k>>)
      BY <2>1, <3>3 DEF Pending, Ahead
    <3> QED BY <1>1, <1>2, <1>3, <3>1, <3>4
  <2> QED BY <2>3, <2>4
<1> QED BY <1>5, <1>6

(* The invariant types the variables.                                      *)
LEMMA TypesFromInv ==
  Inv => TypeOK
<1> SUFFICES ASSUME Inv PROVE TypeOK
  OBVIOUS
<1>1. /\ conn \in [Conns -> ConnType] /\ hello \in [Conns -> HelloType]
      /\ clients \in [Conns -> Conns \cup {None}] /\ caller \in [Callers -> CallerType]
      /\ agents \in Seq([host : Hosts, active : BOOLEAN])
      /\ raced \subseteq Conns /\ unsettled \subseteq Hosts
  BY DEF Inv, Types
<1>2. ASSUME NEW c \in Conns
      PROVE  conn[c].id \in 0 .. Len(agents) /\ hello[c].agent \in 0 .. Len(agents)
  <2>1. DOMAIN agents = 1 .. Len(agents) /\ Len(agents) \in Nat
    BY <1>1, LenProperties
  <2>2. /\ conn[c].id # None => OfHost(conn[c].id, conn[c].host)
        /\ hello[c].agent # None => OfHost(hello[c].agent, conn[c].host)
    BY DEF Inv, Registry
  <2> QED BY <2>1, <2>2 DEF OfHost, None
<1>3. ASSUME NEW c \in Conns
      PROVE  Len(conn[c].buf) <= Len(Pieces(<<"hello">>)) * (Len(conn[c].sent))
  <2>1. Stream(conn[c].sent, conn[c].decoded, conn[c].buf, conn[c].in)
    BY ConnFacts DEF ConnOK
  <2>2. Len(conn[c].buf) <= 2 * Len(conn[c].sent)
    BY <2>1, ConnFacts, SentFirst
  <2>3. Len(Pieces(<<"hello">>)) = 2
    BY DEF Pieces
  <2> QED BY <2>2, <2>3
<1>4. ASSUME NEW c \in Conns
      PROVE  /\ conn[c].host \in Hosts \cup {None}
             /\ conn[c].up \in {"none", "open", "closed", "reset"}
             /\ conn[c].recv \in {"off", "read", "unlist", "deactivate", "done"}
             /\ conn[c].msg_id \in Ids
             /\ conn[c].handlers \subseteq Ids \X Callers
             /\ conn[c].serving \subseteq Ids \X Callers
  <2>1. conn[c] \in ConnType
    BY <1>1
  <2> QED BY <2>1 DEF ConnType
<1>5. ASSUME NEW c \in Conns
      PROVE  /\ hello[c].pc \in {"off", "find", "save", "name", "list", "done"}
             /\ clients[c] \in Conns \cup {None}
  BY <1>1 DEF HelloType
<1>6. ASSUME NEW k \in Callers
      PROVE  /\ caller[k].pc \in Place /\ caller[k].id \in Ids
             /\ caller[k].conn \in Conns \cup {None} /\ caller[k].answer \subseteq Callers
  <2>1. caller[k] \in CallerType
    BY <1>1
  <2> QED BY <2>1 DEF CallerType
<1> QED BY <1>1, <1>2, <1>3, <1>4, <1>5, <1>6 DEF TypeOK

(* The invariant lists connections under their own ids.                    *)
LEMMA ListedFromInv ==
  Inv => ListedUnderOwnId
<1> SUFFICES ASSUME Inv, NEW a \in Conns, clients[a] # None
             PROVE  /\ a \in DOMAIN agents /\ conn[clients[a]].id = a
                    /\ agents[a].host = conn[clients[a]].host
  BY TypesFromInv DEF ListedUnderOwnId
<1>1. PICK c \in Conns : c = clients[a]
  BY DEF Inv, Types
<1>2. conn[c].id = a
  BY <1>1 DEF Inv, Registry
<1>3. a # None
  BY DEF Conns, None
<1>4. OfHost(a, conn[c].host)
  BY <1>2, <1>3 DEF Inv, Registry
<1> QED BY <1>1, <1>2, <1>4 DEF OfHost

(* The invariant has the registry follow the connections.                  *)
LEMMA RegistryFromInv ==
  Inv => RegistryFollowsConnections
<1> SUFFICES ASSUME Inv, NEW h \in Hosts, Quiet(h), h \notin unsettled
             PROVE  /\ Cardinality(Existing(h)) <= 1
                    /\ \A a \in Existing(h) : agents[a].active <=> Greeted(h) # {}
                    /\ {c \in Conns : \E a \in Existing(h) : clients[a] = c} = Greeted(h)
  BY DEF RegistryFollowsConnections
<1>1. Settled(h)
  BY DEF Inv, AllSettled
<1>2. ASSUME NEW c \in Conns
      PROVE  conn[c].up = "open" => conn[c].recv = "read"
  BY ConnFacts DEF ConnOK, UpOK
<1>3. Cardinality(Existing(h)) <= 1
  <2>1. CASE Existing(h) = {}
    BY <2>1, FS_EmptySet
  <2>2. CASE Existing(h) # {}
    <3>1. PICK a : a \in Existing(h)
      BY <2>2
    <3>2. Existing(h) = {a}
      BY <1>1, <3>1 DEF Settled
    <3>3. Cardinality({a}) = 1
      BY FS_Singleton, Zenon
    <3> QED BY <3>2, <3>3
  <2> QED BY <2>1, <2>2
<1>4. ASSUME NEW a \in Existing(h)
      PROVE  agents[a].active <=> Greeted(h) # {}
  <2>1. agents[a].active <=> \E c \in Saved : conn[c].host = h /\ conn[c].recv # "done"
    BY <1>1 DEF Settled
  <2>2. ASSUME NEW c \in Saved, conn[c].host = h, conn[c].recv # "done"
        PROVE  c \in Greeted(h)
    <3>1. c \in Conns /\ hello[c].pc \in {"name", "list", "done"}
      BY DEF Saved
    <3> QED BY <2>2, <3>1 DEF Quiet, Greeted
  <2>3. ASSUME NEW c \in Greeted(h)
        PROVE  c \in Saved /\ conn[c].host = h /\ conn[c].recv # "done"
    BY <1>2 DEF Greeted, Saved
  <2> QED BY <2>1, <2>2, <2>3
<1>5. ASSUME NEW c \in Conns
      PROVE  Lists(c, h) <=> c \in Greeted(h)
  <2>1. CASE conn[c].host = h
    <3>1. Lists(c, h) <=> hello[c].pc = "done" /\ conn[c].recv \in {"read", "unlist"}
      BY <1>1, <2>1 DEF Settled
    <3>2. IF conn[c].up = "open" THEN conn[c].recv = "read" ELSE conn[c].recv = "done"
      BY <2>1 DEF Quiet
    <3> QED BY <2>1, <3>1, <3>2 DEF Greeted
  <2>2. CASE conn[c].host # h
    <3>1. c \notin Greeted(h)
      BY <2>2 DEF Greeted
    <3>2. ASSUME NEW a \in Existing(h), clients[a] = c PROVE FALSE
      <4>1. a \in Conns
        BY AgentsAreFew DEF Inv, Existing
      <4>2. c # None
        BY DEF Conns, None
      <4>3. agents[a].host = conn[c].host
        BY <3>2, <4>1, <4>2, ListedFromInv DEF ListedUnderOwnId
      <4> QED BY <2>2, <4>3 DEF Existing
    <3> QED BY <3>1, <3>2 DEF Lists
  <2> QED BY <2>1, <2>2
<1>6. {c \in Conns : \E a \in Existing(h) : clients[a] = c} = Greeted(h)
  BY <1>5 DEF Lists, Greeted
<1> QED BY <1>3, <1>4, <1>6
-----------------------------------------------------------------------------
(* The theorems.                                                           *)

(* The invariant holds of the specification.                               *)
LEMMA InvHolds == Spec => []Inv
BY InvInit, InvNext, PTL DEF Spec

(* Wherever the stream is cut into chunks, whatever is lost when the agent *)
(* goes away: what TSClientReceiver decodes is the messages the agent      *)
(* sent, whole, once each and in order.                                    *)
THEOREM DecodedWhole == Spec => []MessagesWhole
<1>1. Inv => MessagesWhole
  BY WholeFromInv
<1> QED BY <1>1, InvHolds, PTL

(* The variables keep their types, and a connection in                     *)
(* TSLoadServer.clients has the id it is listed under, the id of an agent  *)
(* of its own host.                                                        *)
THEOREM ListedRight == Spec => []ListedUnderOwnId
<1>1. Inv => ListedUnderOwnId
  BY ListedFromInv
<1> QED BY <1>1, InvHolds, PTL

(* When the server has nothing left to do for a host whose connections     *)
(* neither overlapped nor were reset or closed early, the registry says of *)
(* its agent what its connections say.                                     *)
THEOREM RegistryRight == Spec => []RegistryFollowsConnections
<1>1. Inv => RegistryFollowsConnections
  BY RegistryFromInv
<1> QED BY <1>1, InvHolds, PTL

(* A thread in TSClientSender.invoke gets the answer to its own command as *)
(* long as no two calls of its connection were in getMsgId at once.        *)
THEOREM OwnAnswers == Spec => []OwnAnswer
<1>1. Inv => OwnAnswer
  BY OwnFromInv
<1> QED BY <1>1, InvHolds, PTL

(* Then, while the connection is open, a call that waits has its answer    *)
(* already or has its handler and its answer on the way.                   *)
THEOREM WaitsAccountedFor == Spec => []WaitIsAccountedFor
<1>1. Inv => WaitIsAccountedFor
  BY WaitFromInv
<1> QED BY <1>1, InvHolds, PTL
=============================================================================

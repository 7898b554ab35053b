-------------------------- MODULE KVProtocolProofs --------------------------
(***************************************************************************)
(* The two ends of every connection agree (KVClientLibrary.hpp:40-157,     *)
(* KVServer.cpp:152-244): a client and the worker that serves it, if one   *)
(* does, are at places of the protocol that fit, with exactly the pieces   *)
(* between them that make up for the difference, and the one KVMessage of  *)
(* the worker holds so much of this client's request as it has read        *)
(* (Exact).  A client that left before its request was whole, or whose     *)
(* connection is reset, may have made the worker go on with what the       *)
(* message held before; nothing more of it is to be read (Lost).  From     *)
(* this come InStep, TypeOK, AppliesWhatWasSent and, when nobody changes   *)
(* the keys of another, AnswersExpected: what a client knows of its keys   *)
(* is what the map holds, up to the request on its way (Agreed).           *)
(***************************************************************************)
EXTENDS KVServiceProofs

(* A request as far as it has been read into it. *)
Messages == [op : Codes \cup {"none"}, key : Keys, value : MaybeValue]
Results  == [status : Pieced \cup {"none"}, value : Pieced]
Maps     == [Keys -> MaybeValue]

TalkTypes ==
  /\ dict \in Maps
  /\ message \in [Workers -> Messages]
  /\ \A w \in Workers : pc[w] \in {"value", "call"} => message[w].op \in Codes
  /\ \A c \in Clients : conn[c].up \in Seq(Pieced) /\ conn[c].down \in Seq(Pieced)
  /\ \A c \in Clients : conn[c].reset => conn[c].end \in {"closed", "over"}
  /\ req \in [Clients -> Requests] /\ asked \in [Clients -> Nat]
  /\ result \in [Clients -> Results] /\ known \in [Clients -> Maps]
  /\ listening <=> phase \notin {"exited", "killed"}
  /\ handler \in Workers \cup {Main, None} /\ cleaned <= poolSize

Serves(w, c) == pc[w] \in {"key", "value", "call"} /\ Fd(w) = c

(* Nobody has begun to read what c has sent: these pieces.                 *)
Unread(c, pieces) == conn[c].up = pieces /\ \A w \in Workers : ~Serves(w, c)

(* A worker is at there with the request of c, and these pieces are left.  *)
HasRead(w, c) ==
  /\ message[w].op = Meant(c).op
  /\ pc[w] \in {"value", "call"} => message[w].key = Meant(c).key
  /\ pc[w] = "call" /\ Meant(c).op = "PUT" => message[w].value = Meant(c).value

Reading(c, there, pieces) ==
  /\ conn[c].up = pieces
  /\ \E w \in Workers : Serves(w, c) /\ pc[w] = there /\ HasRead(w, c)

(* So much of its request c has sent, and it has no answer yet.            *)
Asking(c) ==
  LET op == Meant(c).op  k == Meant(c).key  v == Meant(c).value
  IN /\ conn[c].down = <<>> /\ req[c] \in RequestsOf[c]
     /\ place[c] = "key" => Unread(c, <<op>>) \/ Reading(c, "key", <<>>)
     /\ place[c] = "value" =>
          /\ op = "PUT"
          /\ \/ Unread(c, <<op, k>>)
             \/ Reading(c, "key", <<k>>)
             \/ Reading(c, "value", <<>>)
     /\ place[c] = "status" /\ op = "PUT" =>
          \/ Unread(c, <<op, k, v>>)
          \/ Reading(c, "key", <<k, v>>)
          \/ Reading(c, "value", <<v>>)
          \/ Reading(c, "call", <<>>)
     /\ place[c] = "status" /\ op # "PUT" =>
          \/ Unread(c, <<op, k>>)
          \/ Reading(c, "key", <<k>>)
          \/ Reading(c, "call", <<>>)

(* An answer is on its way to c, or what is left of it.                    *)
Replied(c) ==
  /\ Unread(c, <<>>) /\ req[c] \in RequestsOf[c]
  /\ place[c] = "text" /\ Open(c) => \E v : conn[c].down = <<v>>
  /\ place[c] = "status" /\ Open(c) =>
       \E a \in Answers : /\ conn[c].down = Pieces(req[c].op, a)
                          /\ req[c].op = "PUT" => a.ok

Quietly(c) == Unread(c, <<>>) /\ conn[c].down = <<>>

Exact(c) ==
  /\ place[c] \in {"out", "next", "failed", "done"} => Quietly(c)
  /\ place[c] \in {"key", "value"} => Asking(c)
  /\ place[c] = "status" => Asking(c) \/ Replied(c)
  /\ place[c] = "text" => Replied(c)

(* c has left the server with a part of a request, or with an error.       *)
Lost(c) == ~Open(c) /\ conn[c].up = <<>> /\ (CutOff(c) \/ conn[c].reset)

Protocol == listening => \A c \in Clients : Exact(c) \/ Lost(c)

InProtocol == Accounted /\ TalkTypes /\ Protocol

-----------------------------------------------------------------------------
(* Requests, messages and answers. *)
LEMMA Meanings ==
  ASSUME NEW c \in Clients, req[c] \in Requests
  PROVE  /\ Meant(c) \in Requests /\ Meant(c).op = req[c].op /\ Meant(c).value = req[c].value
         /\ Meant(c).key = Nulled[req[c].key] /\ Meant(c).key \in Keys /\ Meant(c).op \in Codes
         /\ Meant(c).value \in MaybeValue
BY ClientAssumption DEF Meant, Requests, Codes, MaybeValue

LEMMA Effects ==
  ASSUME NEW d \in Maps, NEW r, r.op \in Codes, r.key \in Keys, r.value \in MaybeValue
  PROVE  /\ Effect(d, r) \in Maps /\ Outcome(d, r) \in Answers
         /\ Outcome(d, r).ok \in BOOLEAN /\ Outcome(d, r).value \in MaybeValue
         /\ r.op = "PUT" => Outcome(d, r).ok
<1>1. CASE r.op = "GET"
      <2>1. d[r.key] \in MaybeValue /\ (d[r.key] # NoValue) \in BOOLEAN
            BY DEF Maps
      <2>2. Effect(d, r) = [d EXCEPT ![r.key] = d[r.key]]
            BY <1>1 DEF Effect
      <2>3. Outcome(d, r) = [ok |-> d[r.key] # NoValue, value |-> d[r.key]]
            BY <1>1 DEF Outcome, Answer
      <2> QED BY <1>1, <2>1, <2>2, <2>3 DEF Maps, Answers
<1>2. CASE r.op = "PUT"
      <2>1. NoValue \in MaybeValue
            BY DEF MaybeValue
      <2>2. Effect(d, r) = [d EXCEPT ![r.key] = r.value]
            BY <1>2 DEF Effect
      <2>3. Outcome(d, r) = [ok |-> TRUE, value |-> NoValue]
            BY <1>2 DEF Outcome, Answer
      <2> QED BY <1>2, <2>1, <2>2, <2>3 DEF Maps, Answers
<1>3. CASE r.op = "DELETE"
      <2>1. NoValue \in MaybeValue /\ (d[r.key] # NoValue) \in BOOLEAN
            BY DEF MaybeValue
      <2>2. Effect(d, r) = [d EXCEPT ![r.key] = NoValue]
            BY <1>3 DEF Effect
      <2>3. Outcome(d, r) = [ok |-> d[r.key] # NoValue, value |-> NoValue]
            BY <1>3 DEF Outcome, Answer
      <2> QED BY <1>3, <2>1, <2>2, <2>3 DEF Maps, Answers
<1> QED BY <1>1, <1>2, <1>3 DEF Codes

(* What a request does depends on its value only for PUT. *)
LEMMA SameRequest ==
  ASSUME NEW d, NEW r, NEW s, r.op = s.op, r.key = s.key, r.op \in Codes,
         r.op = "PUT" => r.value = s.value
  PROVE  Effect(d, r) = Effect(d, s) /\ Outcome(d, r) = Outcome(d, s)
BY DEF Effect, Outcome, Codes

(* Sequences of one, two and three pieces. *)
LEMMA Joined == \A x, y : <<x>> \o <<y>> = <<x, y>> /\ Append(<<x>>, y) = <<x, y>>
<1> SUFFICES ASSUME NEW x, NEW y PROVE <<x>> \o <<y>> = <<x, y>> /\ Append(<<x>>, y) = <<x, y>>
    OBVIOUS
<1> DEFINE S == {x, y}
<1>1. <<x>> \in Seq(S) /\ <<y>> \in Seq(S) /\ <<x, y>> \in Seq(S) /\ x \in S /\ y \in S
      OBVIOUS
<1> HIDE DEF S
<1>2. Len(<<x>>) = 1 /\ Len(<<y>>) = 1 /\ Len(<<x, y>>) = 2
      OBVIOUS
<1>3. <<x>>[1] = x /\ <<y>>[1] = y /\ <<x, y>>[1] = x /\ <<x, y>>[2] = y
      OBVIOUS
<1>4. <<x>> \o <<y>> = <<x, y>>
      <2> DEFINE t == <<x>> \o <<y>>
      <2>1. t \in Seq(S) /\ Len(t) = 2 /\ t[1] = x /\ t[2] = y
            BY <1>1, <1>2, <1>3, ConcatProperties
      <2> HIDE DEF t
      <2>2. \A i \in 1..Len(t) : t[i] = <<x, y>>[i]
            BY <1>3, <2>1
      <2>3. t = <<x, y>>
            BY <1>1, <1>2, <2>1, <2>2, SeqEqual
      <2> QED BY <2>3 DEF t
<1>5. Append(<<x>>, y) = <<x, y>>
      BY <1>1, <1>4, AppendIsConcat
<1> QED BY <1>4, <1>5

LEMMA JoinedThree == \A x, y, z : Append(<<x, y>>, z) = <<x, y, z>>
<1> SUFFICES ASSUME NEW x, NEW y, NEW z PROVE Append(<<x, y>>, z) = <<x, y, z>>
    OBVIOUS
<1> DEFINE S == {x, y, z}
           t == Append(<<x, y>>, z)
<1>1. <<x, y>> \in Seq(S) /\ <<x, y, z>> \in Seq(S) /\ z \in S
      OBVIOUS
<1> HIDE DEF S
<1>2. Len(<<x, y>>) = 2 /\ Len(<<x, y, z>>) = 3 /\ <<x, y>>[1] = x /\ <<x, y>>[2] = y
      OBVIOUS
<1>3. <<x, y, z>>[1] = x /\ <<x, y, z>>[2] = y /\ <<x, y, z>>[3] = z
      OBVIOUS
<1>4. t \in Seq(S) /\ Len(t) = 3 /\ t[1] = x /\ t[2] = y /\ t[3] = z
      BY <1>1, <1>2, AppendProperties
<1> HIDE DEF t
<1>5. \A i \in 1..Len(t) : t[i] = <<x, y, z>>[i]
      BY <1>3, <1>4
<1>6. t = <<x, y, z>>
      BY <1>1, <1>2, <1>4, <1>5, SeqEqual
<1> QED BY <1>6 DEF t

(* The messages of the protocol have one piece or two. *)
LEMMA PiecesOf ==
  ASSUME NEW op, NEW a \in Answers
  PROVE  /\ op = "GET" \/ ~a.ok =>
              Pieces(op, a) = <<IF a.ok THEN "SUCCESS" ELSE "ERROR", a.value>>
         /\ ~(op = "GET" \/ ~a.ok) => Pieces(op, a) = <<"SUCCESS">>
         /\ Pieces(op, a) \in Seq(Pieced) /\ Pieces(op, a) # <<>>
<1>1. \A x, y : <<x>> \o <<y>> = <<x, y>>
      BY Joined
<1>2. \A x : <<x>> \o <<>> = <<x>>
      OBVIOUS
<1>3. \A x, y \in Pieced : <<x>> \in Seq(Pieced) /\ <<x, y>> \in Seq(Pieced)
      OBVIOUS
<1>4. \A x, y : <<x>> # <<>> /\ <<x, y>> # <<>>
      OBVIOUS
<1>5. "SUCCESS" \in Pieced /\ "ERROR" \in Pieced /\ a.value \in Pieced
      BY DEF Pieced, Answers
<1>6. CASE op = "GET" \/ ~a.ok
      <2>1. Pieces(op, a) = <<IF a.ok THEN "SUCCESS" ELSE "ERROR", a.value>>
            BY <1>1, <1>6 DEF Pieces
      <2> QED BY <1>3, <1>4, <1>5, <1>6, <2>1
<1>7. CASE ~(op = "GET" \/ ~a.ok)
      <2>1. Pieces(op, a) = <<"SUCCESS">>
            BY <1>2, <1>7 DEF Pieces
      <2> QED BY <1>3, <1>4, <1>5, <1>7, <2>1
<1> QED BY <1>6, <1>7

LEMMA Tuples ==
  /\ \A a : Head(<<a>>) = a /\ Tail(<<a>>) = <<>> /\ Append(<<>>, a) = <<a>> /\ <<a>> # <<>>
  /\ \A a, b : /\ Head(<<a, b>>) = a /\ Tail(<<a, b>>) = <<b>> /\ Append(<<a>>, b) = <<a, b>>
               /\ <<a, b>> # <<>>
  /\ \A a, b, e : /\ Head(<<a, b, e>>) = a /\ Tail(<<a, b, e>>) = <<b, e>>
                  /\ Append(<<a, b>>, e) = <<a, b, e>> /\ <<a, b, e>> # <<>>
<1>1. \A a : Head(<<a>>) = a /\ Tail(<<a>>) = <<>> /\ Append(<<>>, a) = <<a>> /\ <<a>> # <<>>
      OBVIOUS
<1>2. \A a, b : /\ Head(<<a, b>>) = a /\ Tail(<<a, b>>) = <<b>> /\ Append(<<a>>, b) = <<a, b>>
                /\ <<a, b>> # <<>>
      <2>1. \A a, b : Head(<<a, b>>) = a /\ Tail(<<a, b>>) = <<b>> /\ <<a, b>> # <<>>
            OBVIOUS
      <2> QED BY <2>1, Joined
<1>3. \A a, b, e : Head(<<a, b, e>>) = a /\ <<a, b, e>> # <<>>
      OBVIOUS
<1>4. \A a, b, e : Tail(<<a, b, e>>) = <<b, e>>
      OBVIOUS
<1>5. \A a, b, e : Append(<<a, b>>, e) = <<a, b, e>>
      BY JoinedThree
<1> QED BY <1>1, <1>2, <1>3, <1>4, <1>5

-----------------------------------------------------------------------------
(* The invariant of c is about c and about the worker that serves it. *)
SameTalk(c) ==
  /\ conn'[c].up = conn[c].up /\ conn'[c].down = conn[c].down
  /\ Open(c)' => Open(c)
  /\ conn[c].reset => conn'[c].reset
  /\ place'[c] = place[c] /\ req'[c] = req[c]

SameService(c) ==
  /\ \A w \in Workers : Serves(w, c)' <=> Serves(w, c)
  /\ \A w \in Workers : Serves(w, c) => pc'[w] = pc[w] /\ message'[w] = message[w]

LEMMA SameMeaning == ASSUME NEW c \in Clients, req'[c] = req[c] PROVE Meant(c)' = Meant(c)
BY DEF Meant

LEMMA ReadingStill ==
  ASSUME NEW c \in Clients, SameService(c), req'[c] = req[c], conn'[c].up = conn[c].up
  PROVE  /\ \A pieces : Unread(c, pieces) => Unread(c, pieces)'
         /\ \A there, pieces : Reading(c, there, pieces) => Reading(c, there, pieces)'
BY SameMeaning DEF SameService, Unread, Reading, HasRead

LEMMA ExactStill ==
  ASSUME NEW c \in Clients, SameService(c), SameTalk(c), Exact(c)
  PROVE  Exact(c)'
<1>1. /\ \A pieces : Unread(c, pieces) => Unread(c, pieces)'
      /\ \A there, pieces : Reading(c, there, pieces) => Reading(c, there, pieces)'
      /\ Meant(c)' = Meant(c)
      BY ReadingStill, SameMeaning DEF SameTalk
<1>2. Quietly(c) => Quietly(c)'
      BY <1>1 DEF Quietly, SameTalk
<1>3. Asking(c) => Asking(c)'
      BY <1>1 DEF Asking, SameTalk
<1>4. Replied(c) => Replied(c)'
      BY <1>1 DEF Replied, SameTalk
<1> QED BY <1>2, <1>3, <1>4 DEF Exact, SameTalk

LEMMA LostStill ==
  ASSUME NEW c \in Clients, conn'[c].up = conn[c].up, Open(c)' => Open(c),
         conn[c].reset => conn'[c].reset, place'[c] = place[c], Lost(c)
  PROVE  Lost(c)'
BY DEF Lost, CutOff

(* At most one worker serves c: the one that has it in its epoll set. *)
LEMMA OneServes ==
  ASSUME Accounted, NEW c \in Clients, NEW v \in Workers, NEW w \in Workers,
         Serves(v, c), events[w] # <<>> /\ Fd(w) = c
  PROVE  v = w
<1>1. events[v] # <<>>
      BY DEF Accounted, Accounts, EventsWatched, Watching, Serves
<1>2. c \in Fds(v) /\ c \in Fds(w)
      BY <1>1, EventInService DEF Accounted, Serves, Fds
<1> QED BY <1>2 DEF Accounted, Accounts, OneHome

LEMMA ServedHere ==
  ASSUME Accounted, NEW c \in Clients, NEW w \in Workers, Serves(w, c)
  PROVE  /\ events[w] # <<>> /\ Fd(w) = c
         /\ \A pieces : ~Unread(c, pieces)
         /\ \A there, pieces : Reading(c, there, pieces) =>
              pc[w] = there /\ HasRead(w, c) /\ conn[c].up = pieces
<1>1. events[w] # <<>> /\ Fd(w) = c
      BY DEF Accounted, Accounts, EventsWatched, Watching, Serves
<1>2. \A v \in Workers : Serves(v, c) => v = w
      BY <1>1, OneServes
<1> QED BY <1>1, <1>2 DEF Unread, Reading

LEMMA NobodyElseServes ==
  ASSUME Accounted, NEW c \in Clients, NEW w \in Workers, events[w] # <<>>, Fd(w) = c,
         pc[w] = "serve"
  PROVE  /\ \A v \in Workers : ~Serves(v, c)
         /\ \A there, pieces : ~Reading(c, there, pieces)
<1>1. \A v \in Workers : ~Serves(v, c)
      <2> SUFFICES ASSUME NEW v \in Workers, Serves(v, c) PROVE FALSE
          OBVIOUS
      <2>1. v = w
            BY OneServes
      <2> QED BY <2>1 DEF Serves
<1> QED BY <1>1 DEF Reading

-----------------------------------------------------------------------------
LEMMA TalkInit == Init => TalkTypes /\ Protocol
<1> SUFFICES ASSUME Init PROVE TalkTypes /\ Protocol
    OBVIOUS
<1>1. \A c \in Clients : /\ conn[c] = Unconnected /\ place[c] = "out"
      BY DEF Init, SockInit, ClientInit
<1>2. Unconnected.up = <<>> /\ Unconnected.down = <<>> /\ Unconnected.end = "unused" /\ ~Unconnected.reset
      BY DEF Unconnected
<1>3. \A w \in Workers : pc[w] \in {"wait", "unborn"}
      BY DEF Init, ServerInit
<1>4. NoRequest \in Requests
      <2>1. [op |-> "GET", key |-> BlankKey, value |-> NoValue] \in Requests
            BY ServerAssumption DEF Requests
      <2> QED BY <2>1 DEF NoRequest
<1>5. NoValue \in MaybeValue /\ NoValue \in Pieced
      BY DEF MaybeValue, Pieced
<1>6. message \in [Workers -> Messages]
      <2>1. [op |-> "none", key |-> BlankKey, value |-> NoValue] \in Messages
            BY <1>5, ServerAssumption DEF Messages
      <2> QED BY <2>1 DEF Init, ServerInit
<1>7. result \in [Clients -> Results]
      <2>1. NoResult \in Results
            BY <1>5 DEF Results, NoResult
      <2> QED BY <2>1 DEF Init, ClientInit
<1>8. dict \in Maps /\ known \in [Clients -> Maps]
      BY <1>5 DEF Init, ServerInit, ClientInit, Maps
<1>9. req \in [Clients -> Requests] /\ asked \in [Clients -> Nat]
      BY <1>4 DEF Init, ClientInit
<1>10. \A c \in Clients : conn[c].up \in Seq(Pieced) /\ conn[c].down \in Seq(Pieced)
       BY <1>1, <1>2, EmptySeq
<1>11. /\ listening <=> phase \notin {"exited", "killed"}
       /\ handler \in Workers \cup {Main, None} /\ cleaned <= poolSize
       BY ServerAssumption DEF Init, SockInit, ServerInit
<1>12. TalkTypes
       BY <1>1, <1>2, <1>3, <1>6, <1>7, <1>8, <1>9, <1>10, <1>11 DEF TalkTypes
<1>13. \A c \in Clients : Exact(c)
       BY <1>1, <1>2, <1>3 DEF Exact, Quietly, Unread, Serves
<1> QED BY <1>12, <1>13 DEF Protocol

-----------------------------------------------------------------------------
(* What the operations on connections leave of every field. *)
LEMMA AfterSent ==
  ASSUME AccountTypes, NEW c \in Clients, NEW piece, conn' = Sent(c, piece)
  PROVE  \A d \in Clients :
           /\ conn'[d].up = IF d = c THEN Append(conn[c].up, piece) ELSE conn[d].up
           /\ conn'[d].down = conn[d].down
           /\ conn'[d].end = conn[d].end /\ conn'[d].reset = conn[d].reset
<1>1. "up" \in Fields /\ "down" \in Fields /\ "end" \in Fields /\ "reset" \in Fields
      BY DEF Fields
<1>2. DOMAIN conn = Clients /\ \A d \in Clients : DOMAIN conn[d] = Fields
      BY DEF AccountTypes
<1> QED BY <1>1, <1>2 DEF Sent

LEMMA AfterTaken ==
  ASSUME AccountTypes, NEW c \in Clients, conn' = Taken(c)
  PROVE  \A d \in Clients :
           /\ conn'[d].up = IF d = c THEN Tail(conn[c].up) ELSE conn[d].up
           /\ conn'[d].down = conn[d].down
           /\ conn'[d].end = conn[d].end /\ conn'[d].reset = conn[d].reset
<1>1. "up" \in Fields /\ "down" \in Fields /\ "end" \in Fields /\ "reset" \in Fields
      BY DEF Fields
<1>2. DOMAIN conn = Clients /\ \A d \in Clients : DOMAIN conn[d] = Fields
      BY DEF AccountTypes
<1> QED BY <1>1, <1>2 DEF Taken

LEMMA AfterFetched ==
  ASSUME AccountTypes, NEW c \in Clients, conn' = Fetched(c)
  PROVE  \A d \in Clients :
           /\ conn'[d].down = IF d = c THEN Tail(conn[c].down) ELSE conn[d].down
           /\ conn'[d].up = conn[d].up
           /\ conn'[d].end = conn[d].end /\ conn'[d].reset = conn[d].reset
<1>1. "up" \in Fields /\ "down" \in Fields /\ "end" \in Fields /\ "reset" \in Fields
      BY DEF Fields
<1>2. DOMAIN conn = Clients /\ \A d \in Clients : DOMAIN conn[d] = Fields
      BY DEF AccountTypes
<1> QED BY <1>1, <1>2 DEF Fetched

LEMMA AfterWritten ==
  ASSUME AccountTypes, NEW c \in Clients, NEW pieces, conn' = Written(c, pieces)
  PROVE  \A d \in Clients :
           /\ conn'[d].down = IF d = c /\ Open(c) THEN conn[c].down \o pieces ELSE conn[d].down
           /\ conn'[d].up = conn[d].up
           /\ conn'[d].end = conn[d].end /\ conn'[d].reset = conn[d].reset
<1>1. "up" \in Fields /\ "down" \in Fields /\ "end" \in Fields /\ "reset" \in Fields
      BY DEF Fields
<1>2. DOMAIN conn = Clients /\ \A d \in Clients : DOMAIN conn[d] = Fields
      BY DEF AccountTypes
<1> QED BY <1>1, <1>2 DEF Written

LEMMA AfterClosed ==
  ASSUME AccountTypes, NEW c \in Clients, conn' = Closed(c)
  PROVE  \A d \in Clients :
           /\ conn'[d].down = IF d = c THEN <<>> ELSE conn[d].down
           /\ conn'[d].up = conn[d].up
           /\ conn'[d].end = IF d = c THEN "closed" ELSE conn[d].end
           /\ conn'[d].reset = conn[d].reset
<1>1. "up" \in Fields /\ "down" \in Fields /\ "end" \in Fields /\ "reset" \in Fields
      BY DEF Fields
<1>2. DOMAIN conn = Clients /\ \A d \in Clients : DOMAIN conn[d] = Fields
      BY DEF AccountTypes
<1>3. conn' = [[conn EXCEPT ![c].end = "closed"] EXCEPT ![c].down = <<>>]
      BY DEF Closed
<1> QED BY <1>1, <1>2, <1>3

-----------------------------------------------------------------------------
(* The clients.  A step of one leaves what is said about the others. *)
Good(c) == Exact(c) \/ Lost(c)

LEMMA GoodStill ==
  ASSUME NEW c \in Clients, SameService(c), SameTalk(c), Good(c)
  PROVE  Good(c)'
BY ExactStill, LostStill DEF Good, SameTalk

LEMMA ServiceRests ==
  ASSUME UNCHANGED <<pc, events, message>> PROVE \A c \in Clients : SameService(c)
BY DEF SameService, Serves, Fd, Event

(* A client that is there has lost nothing. *)
LEMMA OpenIsExact ==
  ASSUME InProtocol, listening, NEW c \in Clients, Open(c) PROVE Exact(c)
BY DEF InProtocol, Protocol, Lost

TalkersTypes ==
  /\ \A c \in Clients : conn'[c].up \in Seq(Pieced) /\ conn'[c].down \in Seq(Pieced)
  /\ \A c \in Clients : conn'[c].reset => conn'[c].end \in {"closed", "over"}
  /\ req' \in [Clients -> Requests] /\ asked' \in [Clients -> Nat]
  /\ result' \in [Clients -> Results] /\ known' \in [Clients -> Maps]

LEMMA TalkTypesOfClients ==
  ASSUME TalkTypes, TalkersTypes, UNCHANGED <<listening, serverVars>> PROVE TalkTypes'
BY DEF TalkTypes, TalkersTypes, serverVars, mainVars, workerVars, signalVars

(* A step of client c. *)
LEMMA TalkStep ==
  ASSUME InProtocol, TalkersTypes, UNCHANGED <<listening, serverVars>>,
         NEW c \in Clients, \A d \in Clients \ {c} : SameTalk(d),
         listening => Good(c)'
  PROVE  TalkTypes' /\ Protocol'
<1>1. UNCHANGED <<pc, events, message>>
      BY DEF serverVars, workerVars
<1>2. ASSUME listening, NEW d \in Clients \ {c} PROVE Good(d)'
      BY <1>1, <1>2, ServiceRests, GoodStill DEF InProtocol, Protocol, Good
<1>3. Protocol'
      BY <1>2 DEF Protocol, Good
<1> QED BY <1>3, TalkTypesOfClients DEF InProtocol

LEMMA TalkConnect ==
  ASSUME NEW c \in Clients, InProtocol, Connect(c), UNCHANGED serverVars
  PROVE  TalkTypes' /\ Protocol'
<1>1. /\ place[c] = "out" /\ conn' = [conn EXCEPT ![c]["end"] = "open"]
      /\ place' = [place EXCEPT ![c] = "next"]
      /\ UNCHANGED <<listening, req, asked, result, known>>
      /\ UNCHANGED <<pc, events, message>>
      BY DEF Connect, Connected, Move, serverVars, workerVars
<1>2. \A d \in Clients : /\ conn'[d].up = conn[d].up /\ conn'[d].down = conn[d].down
                         /\ conn'[d].reset = conn[d].reset
                         /\ conn'[d].end = IF d = c THEN "open" ELSE conn[d].end
      <2>1. "up" \in Fields /\ "down" \in Fields /\ "end" \in Fields /\ "reset" \in Fields
            BY DEF Fields
      <2>2. \A d \in Clients : \A g \in Fields :
              conn'[d][g] = IF d = c /\ g = "end" THEN "open" ELSE conn[d][g]
            BY <1>1, <2>1, FieldSet DEF InProtocol, Accounted, Accounts
      <2> QED BY <2>1, <2>2
<1>3. conn[c].end = "unused"
      BY <1>1 DEF InProtocol, Accounted, Accounts, Somewhere
<1>4. place'[c] = "next" /\ \A d \in Clients \ {c} : place'[d] = place[d]
      BY <1>1 DEF InProtocol, Accounted, Accounts, AccountTypes
<1>5. TalkersTypes
      BY <1>1, <1>2, <1>3 DEF TalkersTypes, InProtocol, TalkTypes
<1>6. \A d \in Clients \ {c} : SameTalk(d)
      BY <1>1, <1>2, <1>4 DEF SameTalk, Open
<1>7. ASSUME listening PROVE Good(c)'
      <2>1. ~conn[c].reset
            BY <1>3 DEF InProtocol, TalkTypes
      <2>2. Exact(c)
            BY <2>1, <1>1, <1>7 DEF InProtocol, Protocol, Lost, CutOff
      <2>3. Quietly(c)
            BY <2>2, <1>1 DEF Exact
      <2>4. Quietly(c)'
            BY <2>3, <1>1, <1>2, ServiceRests, ReadingStill DEF Quietly
      <2> QED BY <2>4, <1>4 DEF Exact, Good
<1> QED BY <1>1, <1>5, <1>6, <1>7, TalkStep

LEMMA TalkAsk ==
  ASSUME NEW c \in Clients, InProtocol, Ask(c), UNCHANGED serverVars
  PROVE  TalkTypes' /\ Protocol'
<1>1. PICK r \in RequestsOf[c] : req' = [req EXCEPT ![c] = r] /\ conn' = Sent(c, r.op)
      BY DEF Ask
<1>2. /\ Open(c) /\ place[c] = "next" /\ place' = [place EXCEPT ![c] = "key"]
      /\ asked' = [asked EXCEPT ![c] = @ + 1]
      /\ UNCHANGED <<listening, result, known>>
      /\ UNCHANGED <<pc, events, message>>
      BY DEF Ask, Lives, Move, serverVars, workerVars
<1>3. r \in Requests /\ r.op \in Pieced
      BY ClientAssumption DEF Requests, Pieced
<1>4. \A d \in Clients :
        /\ conn'[d].up = IF d = c THEN Append(conn[c].up, r.op) ELSE conn[d].up
        /\ conn'[d].down = conn[d].down
        /\ conn'[d].end = conn[d].end /\ conn'[d].reset = conn[d].reset
      BY <1>1, AfterSent DEF InProtocol, Accounted, Accounts
<1>5. /\ place'[c] = "key" /\ req'[c] = r
      /\ \A d \in Clients \ {c} : place'[d] = place[d] /\ req'[d] = req[d]
      BY <1>1, <1>2 DEF InProtocol, Accounted, Accounts, AccountTypes, TalkTypes
<1>6. TalkersTypes
      <2>1. conn'[c].up \in Seq(Pieced)
            <3>1. conn[c].up \in Seq(Pieced) /\ conn'[c].up = Append(conn[c].up, r.op)
                  BY <1>4 DEF InProtocol, TalkTypes
            <3> QED BY <3>1, <1>3, AppendProperties
      <2>2. req' \in [Clients -> Requests] /\ asked' \in [Clients -> Nat]
            BY <1>1, <1>2, <1>3 DEF InProtocol, TalkTypes
      <2> QED BY <2>1, <2>2, <1>2, <1>4 DEF TalkersTypes, InProtocol, TalkTypes
<1>7. \A d \in Clients \ {c} : SameTalk(d)
      BY <1>4, <1>5 DEF SameTalk, Open
<1>8. ASSUME listening PROVE Good(c)'
      <2>1. Quietly(c)
            BY <1>2, <1>8, OpenIsExact DEF Exact
      <2>2. conn'[c].up = <<r.op>> /\ conn'[c].down = <<>>
            BY <2>1, <1>4, Tuples DEF Quietly, Unread
      <2>3. Meant(c)'.op = r.op
            BY <1>5, <1>3 DEF Meant, Requests
      <2>4. \A w \in Workers : ~Serves(w, c)'
            BY <2>1, <1>2 DEF Quietly, Unread, Serves, Fd, Event
      <2>5. Asking(c)'
            BY <2>2, <2>3, <2>4, <1>5 DEF Asking, Unread
      <2> QED BY <2>5, <1>5 DEF Exact, Good
<1> QED BY <1>2, <1>6, <1>7, <1>8, TalkStep

(* One more piece of the request is on its way. *)
LEMMA ReadingMore ==
  ASSUME NEW c \in Clients, NEW piece, SameService(c), req'[c] = req[c],
         conn'[c].up = Append(conn[c].up, piece)
  PROVE  /\ \A pieces : Unread(c, pieces) => Unread(c, Append(pieces, piece))'
         /\ \A there, pieces :
              Reading(c, there, pieces) => Reading(c, there, Append(pieces, piece))'
BY SameMeaning DEF SameService, Unread, Reading, HasRead

LEMMA TalkSend ==
  ASSUME NEW c \in Clients, InProtocol, SendKey(c) \/ SendValue(c), UNCHANGED serverVars
  PROVE  TalkTypes' /\ Protocol'
<1>0. PICK op, k, v : op = Meant(c).op /\ k = Meant(c).key /\ v = Meant(c).value
      OBVIOUS
<1>1. /\ req[c] \in Requests /\ req[c].op = op /\ Nulled[req[c].key] = k /\ req[c].value = v
      /\ k \in Pieced /\ v \in Pieced
      <2>1. req[c] \in Requests
            BY DEF InProtocol, TalkTypes
      <2> QED BY <1>0, <2>1, Meanings DEF Pieced
<1>2. PICK piece, there :
        /\ conn' = Sent(c, piece) /\ place' = [place EXCEPT ![c] = there]
        /\ \/ place[c] = "key" /\ piece = k /\ there = IF op = "PUT" THEN "value" ELSE "status"
           \/ place[c] = "value" /\ piece = v /\ there = "status"
      BY <1>1 DEF SendKey, SendValue, Lives, Move, fix_key_nulling
<1>3. /\ Open(c) /\ UNCHANGED <<listening, req, asked, result, known>>
      /\ UNCHANGED <<pc, events, message>>
      BY DEF SendKey, SendValue, Lives, serverVars, workerVars
<1>4. \A d \in Clients :
        /\ conn'[d].up = IF d = c THEN Append(conn[c].up, piece) ELSE conn[d].up
        /\ conn'[d].down = conn[d].down
        /\ conn'[d].end = conn[d].end /\ conn'[d].reset = conn[d].reset
      BY <1>2, AfterSent DEF InProtocol, Accounted, Accounts
<1>5. place'[c] = there /\ \A d \in Clients \ {c} : place'[d] = place[d]
      BY <1>2 DEF InProtocol, Accounted, Accounts, AccountTypes
<1>6. TalkersTypes
      <2>1. conn'[c].up \in Seq(Pieced)
            <3>1. piece \in Pieced
                  BY <1>1, <1>2
            <3>2. conn[c].up \in Seq(Pieced) /\ conn'[c].up = Append(conn[c].up, piece)
                  BY <1>4 DEF InProtocol, TalkTypes
            <3> QED BY <3>1, <3>2, AppendProperties
      <2> QED BY <2>1, <1>3, <1>4 DEF TalkersTypes, InProtocol, TalkTypes
<1>7. \A d \in Clients \ {c} : SameTalk(d)
      BY <1>3, <1>4, <1>5 DEF SameTalk, Open
<1>8. ASSUME listening PROVE Good(c)'
      <2>1. Asking(c)
            BY <1>2, <1>3, <1>8, OpenIsExact DEF Exact
      <2>2. Meant(c)' = Meant(c) /\ req'[c] = req[c] /\ conn'[c].down = conn[c].down
            BY <1>3, <1>4, SameMeaning
      <2>3. /\ \A pieces : Unread(c, pieces) => Unread(c, Append(pieces, piece))'
            /\ \A at, pieces : Reading(c, at, pieces) => Reading(c, at, Append(pieces, piece))'
            BY <1>3, <1>4, ServiceRests, ReadingMore
      <2>4. CASE place[c] = "key" /\ op = "PUT"
            <3>1. Unread(c, <<op, k>>)' \/ Reading(c, "key", <<k>>)'
                  <4>1. Unread(c, <<op>>) \/ Reading(c, "key", <<>>)
                        BY <1>0, <2>1, <2>4 DEF Asking
                  <4>2. Append(<<op>>, piece) = <<op, k>> /\ Append(<<>>, piece) = <<k>>
                        BY <1>2, <2>4, Tuples
                  <4>3. Unread(c, Append(<<op>>, piece))' \/ Reading(c, "key", Append(<<>>, piece))'
                        BY <2>3, <4>1
                  <4> QED BY <4>2, <4>3
            <3>2. place'[c] = "value"
                  BY <1>2, <1>5, <2>4
            <3>3. Asking(c)'
                  BY <1>0, <3>1, <3>2, <2>1, <2>2, <2>4 DEF Asking
            <3> QED BY <3>2, <3>3 DEF Good, Exact
      <2>5. CASE place[c] = "key" /\ op # "PUT"
            <3>1. Unread(c, <<op, k>>)' \/ Reading(c, "key", <<k>>)'
                  <4>1. Unread(c, <<op>>) \/ Reading(c, "key", <<>>)
                        BY <1>0, <2>1, <2>5 DEF Asking
                  <4>2. Append(<<op>>, piece) = <<op, k>> /\ Append(<<>>, piece) = <<k>>
                        BY <1>2, <2>5, Tuples
                  <4>3. Unread(c, Append(<<op>>, piece))' \/ Reading(c, "key", Append(<<>>, piece))'
                        BY <2>3, <4>1
                  <4> QED BY <4>2, <4>3
            <3>2. place'[c] = "status"
                  BY <1>2, <1>5, <2>5
            <3>3. Asking(c)'
                  BY <1>0, <3>1, <3>2, <2>1, <2>2, <2>5 DEF Asking
            <3> QED BY <3>2, <3>3 DEF Good, Exact
      <2>6. CASE place[c] = "value"
            <3>1. op = "PUT"
                  BY <1>0, <2>1, <2>6 DEF Asking
            <3>2. \/ Unread(c, <<op, k, v>>)' \/ Reading(c, "key", <<k, v>>)'
                  \/ Reading(c, "value", <<v>>)'
                  <4>1. \/ Unread(c, <<op, k>>) \/ Reading(c, "key", <<k>>)
                        \/ Reading(c, "value", <<>>)
                        BY <1>0, <2>1, <2>6 DEF Asking
                  <4>2. /\ Append(<<op, k>>, piece) = <<op, k, v>> /\ Append(<<k>>, piece) = <<k, v>>
                        /\ Append(<<>>, piece) = <<v>>
                        BY <1>2, <2>6, Tuples
                  <4>3. \/ Unread(c, Append(<<op, k>>, piece))'
                        \/ Reading(c, "key", Append(<<k>>, piece))'
                        \/ Reading(c, "value", Append(<<>>, piece))'
                        BY <2>3, <4>1
                  <4> QED BY <4>2, <4>3
            <3>3. place'[c] = "status"
                  BY <1>2, <1>5, <2>6
            <3>4. Asking(c)'
                  BY <1>0, <3>1, <3>2, <3>3, <2>1, <2>2 DEF Asking
            <3> QED BY <3>3, <3>4 DEF Good, Exact
      <2> QED BY <1>2, <2>4, <2>5, <2>6
<1> QED BY <1>3, <1>6, <1>7, <1>8, TalkStep

(* The library returns from a read. *)
LEMMA Received ==
  ASSUME InProtocol, NEW c \in Clients, ReadStatus(c) \/ ReadText(c), UNCHANGED serverVars
  PROVE  /\ Open(c) /\ UNCHANGED <<listening, req, asked>> /\ UNCHANGED <<pc, events, message>>
         /\ \/ Arrived(c) /\ conn' = Fetched(c)
            \/ ~listening /\ UNCHANGED conn
         /\ result' \in [Clients -> Results] /\ known' \in [Clients -> Maps]
         /\ \E there \in {"text", "next", "failed"} : place' = [place EXCEPT ![c] = there]
<1>1. /\ Open(c) /\ UNCHANGED <<listening, req, asked>> /\ UNCHANGED <<pc, events, message>>
      BY DEF ReadStatus, ReadText, Lives, serverVars, workerVars
<1>2. \/ Arrived(c) /\ conn' = Fetched(c)
      \/ ~listening /\ UNCHANGED conn
      BY DEF ReadStatus, ReadText, Receive, CutShort
<1>3. result[c] \in Results /\ result \in [Clients -> Results]
      BY DEF InProtocol, TalkTypes
<1>4. Arrived(c) => Head(conn[c].down) \in Pieced
      <2>1. conn[c].down \in Seq(Pieced)
            BY DEF InProtocol, TalkTypes
      <2> QED BY <2>1, HeadTailProperties DEF Arrived
<1>5. \A x \in Pieced : /\ [result[c] EXCEPT !.status = x] \in Results
                        /\ [result[c] EXCEPT !.value = x] \in Results
      BY <1>3 DEF Results
<1>6. result' \in [Clients -> Results]
      <2>1. PICK res \in Results : result' = [result EXCEPT ![c] = res]
            BY <1>3, <1>4, <1>5 DEF ReadStatus, ReadText, Receive
      <2> QED BY <1>3, <2>1
<1>7. /\ known' \in [Clients -> Maps]
      /\ \E there \in {"text", "next", "failed"} : place' = [place EXCEPT ![c] = there]
      <2>1. \A res : Return(c, res) =>
              /\ known' \in [Clients -> Maps]
              /\ \E there \in {"next", "failed"} : place' = [place EXCEPT ![c] = there]
            <3>1. known \in [Clients -> Maps] /\ req[c] \in Requests
                  BY DEF InProtocol, TalkTypes
            <3>2. Effect(known[c], Meant(c)) \in Maps
                  BY <3>1, Meanings, Effects
            <3>3. [known EXCEPT ![c] = Effect(known[c], Meant(c))] \in [Clients -> Maps]
                  BY <3>1, <3>2
            <3> QED BY <3>1, <3>3 DEF Return, Move
      <2>2. CASE ReadText(c)
            BY <2>1, <2>2 DEF ReadText
      <2>3. CASE ReadStatus(c)
            <3>1. CASE HasText(c, result'[c].status)
                  BY <2>3, <3>1 DEF ReadStatus, Move, InProtocol, TalkTypes
            <3>2. CASE ~HasText(c, result'[c].status)
                  BY <2>1, <2>3, <3>2 DEF ReadStatus
            <3> QED BY <3>1, <3>2
      <2> QED BY <2>2, <2>3
<1> QED BY <1>1, <1>2, <1>6, <1>7

(* What has come for c, and what is left when its first piece is read. *)
LEMMA StatusRead ==
  ASSUME InProtocol, listening, NEW c \in Clients, ReadStatus(c),
         NEW a \in Answers, conn[c].down = Pieces(req[c].op, a), req[c].op = "PUT" => a.ok
  PROVE  /\ result'[c].status = IF a.ok THEN "SUCCESS" ELSE "ERROR"
         /\ IF req[c].op = "GET" \/ ~a.ok
              THEN Tail(conn[c].down) = <<a.value>> /\ Move(c, "text") /\ UNCHANGED known
              ELSE Tail(conn[c].down) = <<>> /\ Return(c, result'[c])
<1>1. result' = [result EXCEPT ![c] = [result[c] EXCEPT !.status = Head(conn[c].down)]]
      BY DEF ReadStatus, Lives, Receive, CutShort
<1>2. result'[c].status = Head(conn[c].down)
      BY <1>1 DEF InProtocol, TalkTypes, Results
<1>3. req[c].op \in Codes
      <2>1. req[c] \in Requests
            BY DEF InProtocol, TalkTypes
      <2> QED BY <2>1, Meanings
<1>4. CASE req[c].op = "GET" \/ ~a.ok
      <2>1. conn[c].down = <<IF a.ok THEN "SUCCESS" ELSE "ERROR", a.value>>
            BY <1>4, PiecesOf
      <2>2. /\ Head(conn[c].down) = IF a.ok THEN "SUCCESS" ELSE "ERROR"
            /\ Tail(conn[c].down) = <<a.value>>
            BY <2>1, Tuples
      <2>3. HasText(c, result'[c].status)
            BY <1>2, <1>3, <1>4, <2>2 DEF HasText, Codes
      <2> QED BY <1>2, <1>4, <2>2, <2>3 DEF ReadStatus
<1>5. CASE ~(req[c].op = "GET" \/ ~a.ok)
      <2>1. conn[c].down = <<"SUCCESS">>
            BY <1>5, PiecesOf
      <2>2. Head(conn[c].down) = "SUCCESS" /\ Tail(conn[c].down) = <<>>
            BY <2>1, Tuples
      <2>3. ~HasText(c, result'[c].status)
            BY <1>2, <1>5, <2>2 DEF HasText
      <2> QED BY <1>2, <1>5, <2>2, <2>3 DEF ReadStatus
<1> QED BY <1>4, <1>5

LEMMA StatusComes ==
  ASSUME InProtocol, listening, NEW c \in Clients, ReadStatus(c)
  PROVE  \E a \in Answers :
           /\ Unread(c, <<>>) /\ req[c] \in RequestsOf[c]
           /\ conn[c].down = Pieces(req[c].op, a) /\ (req[c].op = "PUT" => a.ok)
           /\ IF req[c].op = "GET" \/ ~a.ok
                THEN Tail(conn[c].down) = <<a.value>> /\ Move(c, "text") /\ UNCHANGED known
                ELSE Tail(conn[c].down) = <<>> /\ Return(c, result'[c])
<1>1. Open(c) /\ place[c] = "status" /\ Arrived(c)
      BY DEF ReadStatus, Lives, Receive, CutShort
<1>2. Exact(c) /\ ~Asking(c)
      BY <1>1, OpenIsExact DEF Asking, Arrived
<1>3. Unread(c, <<>>) /\ req[c] \in RequestsOf[c]
      BY <1>1, <1>2 DEF Exact, Replied
<1>4. PICK a \in Answers : conn[c].down = Pieces(req[c].op, a) /\ (req[c].op = "PUT" => a.ok)
      BY <1>1, <1>2 DEF Exact, Replied
<1>5. IF req[c].op = "GET" \/ ~a.ok
        THEN Tail(conn[c].down) = <<a.value>> /\ Move(c, "text") /\ UNCHANGED known
        ELSE Tail(conn[c].down) = <<>> /\ Return(c, result'[c])
      BY <1>4, StatusRead
<1> QED BY <1>3, <1>4, <1>5

LEMMA TalkReceive ==
  ASSUME NEW c \in Clients, InProtocol, ReadStatus(c) \/ ReadText(c), UNCHANGED serverVars
  PROVE  TalkTypes' /\ Protocol'
<1>1. /\ Open(c) /\ UNCHANGED <<listening, req, asked>> /\ UNCHANGED <<pc, events, message>>
      /\ \/ Arrived(c) /\ conn' = Fetched(c)
         \/ ~listening /\ UNCHANGED conn
      /\ result' \in [Clients -> Results] /\ known' \in [Clients -> Maps]
      BY Received
<1>2. PICK there \in {"text", "next", "failed"} : place' = [place EXCEPT ![c] = there]
      BY Received
<1>3. place'[c] = there /\ \A d \in Clients \ {c} : place'[d] = place[d]
      BY <1>2 DEF InProtocol, Accounted, Accounts, AccountTypes
<1>4. \A d \in Clients :
        /\ conn'[d].down = IF d = c /\ conn' # conn THEN Tail(conn[c].down) ELSE conn[d].down
        /\ conn'[d].up = conn[d].up
        /\ conn'[d].end = conn[d].end /\ conn'[d].reset = conn[d].reset
      BY <1>1, AfterFetched DEF InProtocol, Accounted, Accounts
<1>5. \A d \in Clients \ {c} : SameTalk(d)
      BY <1>1, <1>3, <1>4 DEF SameTalk, Open
<1>6. TalkersTypes
      <2>1. conn'[c].down \in Seq(Pieced)
            <3>1. conn[c].down \in Seq(Pieced)
                  BY DEF InProtocol, TalkTypes
            <3> QED BY <1>1, <1>4, <3>1, HeadTailProperties DEF Arrived
      <2> QED BY <2>1, <1>1, <1>4 DEF TalkersTypes, InProtocol, TalkTypes
<1>7. ASSUME listening PROVE Good(c)'
      <2>1. conn' = Fetched(c) /\ Arrived(c)
            BY <1>1, <1>7
      <2>2. conn'[c].down = Tail(conn[c].down)
            BY <2>1, AfterFetched DEF InProtocol, Accounted, Accounts
      <2>3. Unread(c, <<>>) => Unread(c, <<>>)'
            BY <1>1, <1>4, ServiceRests, ReadingStill
      <2>4. CASE ReadStatus(c)
            <3>1. PICK a \in Answers :
                    /\ Unread(c, <<>>) /\ req[c] \in RequestsOf[c]
                    /\ IF req[c].op = "GET" \/ ~a.ok
                         THEN Tail(conn[c].down) = <<a.value>> /\ Move(c, "text")
                         ELSE Tail(conn[c].down) = <<>> /\ Return(c, result'[c])
                  BY <1>7, <2>4, StatusComes
            <3>2. CASE req[c].op = "GET" \/ ~a.ok
                  <4>1. place'[c] = "text"
                        BY <3>1, <3>2 DEF Move, InProtocol, Accounted, Accounts, AccountTypes
                  <4>2. Replied(c)'
                        BY <3>1, <3>2, <2>2, <2>3, <4>1, <1>1 DEF Replied
                  <4> QED BY <4>1, <4>2 DEF Good, Exact
            <3>3. CASE ~(req[c].op = "GET" \/ ~a.ok)
                  <4>1. place'[c] \in {"next", "failed"}
                        BY <3>1, <3>3 DEF Return, Move, InProtocol, Accounted, Accounts, AccountTypes
                  <4>2. Quietly(c)'
                        BY <3>1, <3>3, <2>2, <2>3 DEF Quietly
                  <4> QED BY <4>1, <4>2 DEF Good, Exact
            <3> QED BY <3>2, <3>3
      <2>5. CASE ReadText(c)
            <3>1. place[c] = "text" /\ Replied(c)
                  BY <1>1, <1>7, <2>5, OpenIsExact DEF ReadText, Lives, Exact
            <3>2. PICK v : conn[c].down = <<v>>
                  BY <1>1, <3>1 DEF Replied
            <3>3. conn'[c].down = <<>>
                  BY <2>2, <3>2, Tuples
            <3>4. Quietly(c)'
                  BY <2>3, <3>1, <3>3 DEF Quietly, Replied
            <3>5. place'[c] \in {"next", "failed"}
                  BY <2>5 DEF ReadText, Return, Move, InProtocol, Accounted, Accounts, AccountTypes
            <3> QED BY <3>4, <3>5 DEF Good, Exact
      <2> QED BY <2>4, <2>5
<1> QED BY <1>1, <1>5, <1>6, <1>7, TalkStep

LEMMA TalkLeave ==
  ASSUME NEW c \in Clients, InProtocol, Leave(c) \/ Die(c), UNCHANGED serverVars
  PROVE  TalkTypes' /\ Protocol'
<1>1. /\ Open(c) /\ UNCHANGED <<listening, req, asked, result, known>>
      /\ UNCHANGED <<pc, events, message>> /\ conn' = Closed(c)
      /\ place[c] = "next" \/ UNCHANGED place
      /\ UNCHANGED place \/ place' = [place EXCEPT ![c] = "done"]
      <2>1. place = [place EXCEPT ![c] = place[c]]
            BY DEF InProtocol, Accounted, Accounts, AccountTypes
      <2> QED BY <2>1 DEF Leave, Die, Lives, clientVars, serverVars, workerVars
<1>2. \A d \in Clients :
        /\ conn'[d].down = IF d = c THEN <<>> ELSE conn[d].down
        /\ conn'[d].up = conn[d].up
        /\ conn'[d].end = IF d = c THEN "closed" ELSE conn[d].end
        /\ conn'[d].reset = conn[d].reset
      BY <1>1, AfterClosed DEF InProtocol, Accounted, Accounts
<1>3. /\ place'[c] = place[c] \/ (place[c] = "next" /\ place'[c] = "done")
      /\ \A d \in Clients \ {c} : place'[d] = place[d]
      BY <1>1 DEF InProtocol, Accounted, Accounts, AccountTypes
<1>4. \A d \in Clients \ {c} : SameTalk(d)
      BY <1>1, <1>2, <1>3 DEF SameTalk, Open
<1>5. TalkersTypes
      BY <1>1, <1>2, EmptySeq DEF TalkersTypes, InProtocol, TalkTypes
<1>6. ASSUME listening PROVE Good(c)'
      <2>1. Exact(c)
            BY <1>1, <1>6, OpenIsExact
      <2>2. /\ \A pieces : Unread(c, pieces) => Unread(c, pieces)'
            /\ \A there, pieces : Reading(c, there, pieces) => Reading(c, there, pieces)'
            /\ Meant(c)' = Meant(c) /\ req'[c] = req[c] /\ conn'[c].down = <<>> /\ ~Open(c)'
            BY <1>1, <1>2, ServiceRests, ReadingStill, SameMeaning DEF Open
      <2>3. Quietly(c) => Quietly(c)'
            BY <2>2 DEF Quietly
      <2>4. Asking(c) /\ place'[c] = place[c] => Asking(c)'
            BY <2>2 DEF Asking
      <2>5. Replied(c) => Replied(c)'
            BY <2>2 DEF Replied
      <2> QED BY <1>3, <2>1, <2>3, <2>4, <2>5 DEF Exact, Good
<1> QED BY <1>1, <1>4, <1>5, <1>6, TalkStep

LEMMA TalkReset ==
  ASSUME NEW c \in Clients, InProtocol, Reset(c), UNCHANGED <<serverVars, clientVars>>
  PROVE  TalkTypes' /\ Protocol'
<1>1. /\ conn[c].end = "closed" /\ conn' = [conn EXCEPT ![c]["reset"] = TRUE]
      /\ UNCHANGED <<listening, place, req, asked, result, known>>
      /\ UNCHANGED <<pc, events, message>>
      BY DEF Reset, Gone, clientVars, serverVars, workerVars
<1>2. \A d \in Clients : /\ conn'[d].up = conn[d].up /\ conn'[d].down = conn[d].down
                         /\ conn'[d].end = conn[d].end
                         /\ conn[d].reset => conn'[d].reset
                         /\ conn'[d].reset => conn[d].reset \/ d = c
      <2>1. "up" \in Fields /\ "down" \in Fields /\ "end" \in Fields /\ "reset" \in Fields
            BY DEF Fields
      <2>2. \A d \in Clients : \A g \in Fields :
              conn'[d][g] = IF d = c /\ g = "reset" THEN TRUE ELSE conn[d][g]
            BY <1>1, <2>1, FieldSet DEF InProtocol, Accounted, Accounts
      <2>3. \A d \in Clients : conn'[d]["reset"] = IF d = c THEN TRUE ELSE conn[d]["reset"]
            BY <2>1, <2>2
      <2> QED BY <2>1, <2>2, <2>3
<1>3. TalkersTypes
      BY <1>1, <1>2 DEF TalkersTypes, InProtocol, TalkTypes
<1>4. \A d \in Clients : SameTalk(d)
      BY <1>1, <1>2 DEF SameTalk, Open
<1>5. listening => Good(c)'
      BY <1>1, <1>4, ServiceRests, GoodStill DEF InProtocol, Protocol, Good
<1> QED BY <1>1, <1>3, <1>4, <1>5, TalkStep

LEMMA TalkClient ==
  ASSUME NEW c \in Clients, InProtocol, ClientStep(c), UNCHANGED serverVars
  PROVE  TalkTypes' /\ Protocol'
BY TalkConnect, TalkAsk, TalkSend, TalkReceive, TalkLeave DEF ClientStep, Talk

-----------------------------------------------------------------------------
(* The server.  Steps that neither read nor write. *)
Busy == {"key", "value", "call"}

LEMMA ServiceStill ==
  ASSUME UNCHANGED message,
         \A v \in Workers : pc[v] \in Busy \/ pc'[v] \in Busy => pc'[v] = pc[v] /\ events'[v] = events[v]
  PROVE  \A c \in Clients : SameService(c)
BY DEF SameService, Serves, Fd, Event, Busy

(* Only the one it serves notices what a worker does. *)
LEMMA OthersService ==
  ASSUME NEW w \in Workers, NEW c \in Clients, c # Fd(w),
         \A v \in Workers \ {w} : pc'[v] = pc[v] /\ events'[v] = events[v] /\ message'[v] = message[v],
         pc'[w] \in Busy => events'[w] = events[w]
  PROVE  SameService(c)
BY DEF SameService, Serves, Fd, Event, Busy

LEMMA TalkRests ==
  ASSUME InProtocol, UNCHANGED <<dict, message, clientVars>>,
         \A v \in Workers : pc[v] \in Busy \/ pc'[v] \in Busy => pc'[v] = pc[v] /\ events'[v] = events[v],
         \A c \in Clients : /\ conn'[c].up = conn[c].up /\ conn'[c].down = conn[c].down
                            /\ conn'[c].reset = conn[c].reset
                            /\ Open(c)' => Open(c)
                            /\ conn[c].end \in {"closed", "over"} => conn'[c].end \in {"closed", "over"},
         listening' => listening, listening' <=> phase' \notin {"exited", "killed"},
         handler' \in Workers \cup {Main, None}, cleaned' <= poolSize'
  PROVE  TalkTypes' /\ Protocol'
<1>1. TalkTypes'
      BY DEF InProtocol, TalkTypes, Busy, clientVars
<1>2. \A c \in Clients : SameService(c)
      BY ServiceStill
<1>3. \A c \in Clients : SameTalk(c)
      BY DEF SameTalk, clientVars
<1>4. Protocol'
      BY <1>2, <1>3, GoodStill DEF InProtocol, Protocol, Good
<1> QED BY <1>1, <1>4

LEMMA PoolGrows ==
  ASSUME InProtocol, poolSize' = poolSize \/ poolSize' = poolSize + NewWorkers, cleaned' = cleaned
  PROVE  cleaned' <= poolSize'
<1>1. poolSize \in Nat /\ cleaned \in Nat /\ cleaned <= poolSize
      BY DEF InProtocol, TalkTypes, Accounted, Quiet, ShutdownTypes
<1> QED BY <1>1, Growing

LEMMA TalkMain ==
  ASSUME InProtocol, MainStep, UNCHANGED clientVars PROVE TalkTypes' /\ Protocol'
<1>1. /\ UNCHANGED <<listening, conn, dict, message, events>> /\ UNCHANGED signalVars
      /\ poolSize' = poolSize \/ poolSize' = poolSize + NewWorkers
      BY DEF MainStep, Accept, Assign, TryNext, Grow, sockVars, workerVars, signalVars
<1>2. \A v \in Workers : pc[v] \in Busy \/ pc'[v] \in Busy => pc'[v] = pc[v]
      <2>1. CASE UNCHANGED pc
            BY <2>1
      <2>2. CASE Grow
            <3>1. pc' = [pc EXCEPT ![poolSize + 1] = "wait"]
                  BY <2>2 DEF Grow, Started
            <3>2. poolSize + 1 \in Workers => pc[poolSize + 1] = "unborn"
                  BY DEF InProtocol, Accounted, Quiet, NobodyBehind, ShutdownTypes
            <3> QED BY <3>1, <3>2 DEF Busy, InProtocol, Accounted, Quiet, ShutdownTypes
      <2> QED BY <2>1, <2>2 DEF MainStep, Accept, Assign, TryNext, workerVars
<1>3. /\ listening' <=> phase' \notin {"exited", "killed"}
      /\ handler' \in Workers \cup {Main, None}
      BY <1>1 DEF signalVars, InProtocol, TalkTypes
<1>4. cleaned' <= poolSize'
      BY <1>1, PoolGrows DEF signalVars
<1>5. \A c \in Clients : Open(c)' => Open(c)
      BY <1>1 DEF Open
<1> QED BY <1>1, <1>2, <1>3, <1>4, <1>5, TalkRests

LEMMA TalkSignal ==
  ASSUME InProtocol, HandlerStep \/ \E t \in SignalTargets : Signal(t), UNCHANGED clientVars
  PROVE  TalkTypes' /\ Protocol'
<1>1. UNCHANGED <<conn, dict, message, events, pc, poolSize>>
      BY DEF HandlerStep, HandlerLock, HandlerClean, HandlerExit, Signal, sockVars, mainVars, workerVars
<1>2. listening' => listening
      BY DEF HandlerStep, HandlerLock, HandlerClean, HandlerExit, Signal, sockVars
<1>3. listening' <=> phase' \notin {"exited", "killed"}
      BY DEF HandlerStep, HandlerLock, HandlerClean, HandlerExit, Signal, sockVars, InProtocol, TalkTypes
<1>4. handler' \in Workers \cup {Main, None}
      BY ServerAssumption
         DEF HandlerStep, HandlerLock, HandlerClean, HandlerExit, Signal, InProtocol, TalkTypes
<1>5. cleaned' <= poolSize'
      <2>1. poolSize \in Nat /\ cleaned \in Nat /\ cleaned <= poolSize
            BY DEF InProtocol, TalkTypes, Accounted, Quiet, ShutdownTypes
      <2> QED BY <1>1, <2>1 DEF HandlerStep, HandlerLock, HandlerClean, HandlerExit, Signal
<1>6. \A c \in Clients : Open(c)' => Open(c)
      BY <1>1 DEF Open
<1> QED BY <1>1, <1>2, <1>3, <1>4, <1>5, <1>6, TalkRests

LEMMA TalkIdleWorker ==
  ASSUME NEW w \in Workers, InProtocol, UNCHANGED clientVars,
         Wait(w) \/ Enter(w) \/ DropEvents(w) \/ Close(w) \/ TakeOverAll(w) \/ TakeOverFails(w)
  PROVE  TalkTypes' /\ Protocol'
<1>1. /\ UNCHANGED <<listening, dict, message, poolSize>> /\ UNCHANGED signalVars
      BY DEF Wait, Enter, DropEvents, Close, TakeOverAll, TakeOverFails, TakeOver, sockVars, mainVars
<1>2. /\ pc[w] \notin Busy /\ pc'[w] \notin Busy
      /\ \A v \in Workers \ {w} : pc'[v] = pc[v] /\ events'[v] = events[v]
      <2>1. pc \in [Workers -> Places] /\ events \in [Workers -> Seq(Reported)]
            BY DEF InProtocol, Accounted, Quiet, ShutdownTypes, Accounts, AccountTypes
      <2>2. CASE Wait(w)
            BY <2>1, <2>2 DEF Wait, Report, At, Goto, Busy
      <2>3. CASE Enter(w)
            BY <2>1, <2>3 DEF Enter, At, Goto, Busy
      <2>4. CASE DropEvents(w)
            BY <2>1, <2>4 DEF DropEvents, Serving, At, Busy
      <2>5. CASE Close(w)
            BY <2>1, <2>5 DEF Close, NextEvent, Serving, At, Goto, Busy
      <2>6. CASE TakeOverAll(w) \/ TakeOverFails(w)
            <3>1. /\ \E n : TakeOver(w, n)
                  /\ \E there \in {"wait", "ended"} : pc' = [pc EXCEPT ![w] = there]
                  BY <2>6 DEF TakeOverAll, TakeOverFails, Goto
            <3> QED BY <2>1, <3>1 DEF TakeOver, TimedOut, Served, At, Busy
      <2> QED BY <2>2, <2>3, <2>4, <2>5, <2>6
<1>3. \A v \in Workers : pc[v] \in Busy \/ pc'[v] \in Busy => pc'[v] = pc[v] /\ events'[v] = events[v]
      BY <1>2
<1>4. /\ listening' <=> phase' \notin {"exited", "killed"}
      /\ handler' \in Workers \cup {Main, None} /\ cleaned' <= poolSize'
      BY <1>1 DEF signalVars, InProtocol, TalkTypes
<1>5. \A c \in Clients : /\ conn'[c].up = conn[c].up /\ conn'[c].down = conn[c].down
                         /\ conn'[c].reset = conn[c].reset
                         /\ Open(c)' => Open(c)
                         /\ conn[c].end \in {"closed", "over"} => conn'[c].end \in {"closed", "over"}
      <2>1. CASE UNCHANGED conn
            BY <2>1 DEF Open
      <2>2. CASE Close(w)
            <3>1. PICK c \in Clients : c = Fd(w)
                  BY <2>2, EventInService DEF Close, Serving, InProtocol, Accounted
            <3>2. conn' = [conn EXCEPT ![c]["end"] = "over"]
                  BY <2>2, <3>1 DEF Close, Over
            <3>3. "up" \in Fields /\ "down" \in Fields /\ "end" \in Fields /\ "reset" \in Fields
                  BY DEF Fields
            <3>4. \A d \in Clients : \A g \in Fields :
                    conn'[d][g] = IF d = c /\ g = "end" THEN "over" ELSE conn[d][g]
                  BY <3>2, <3>3, FieldSet, ZenonT(40) DEF InProtocol, Accounted, Accounts
            <3> QED BY <3>3, <3>4 DEF Open
      <2> QED BY <2>1, <2>2 DEF Wait, Enter, DropEvents, TakeOverAll, TakeOverFails, TakeOver, sockVars
<1> QED BY <1>1, <1>3, <1>4, <1>5, TalkRests

(* Steps that read from c or write to c. *)
LEMMA TalkServes ==
  ASSUME NEW w \in Workers, NEW c \in Clients, InProtocol, Fd(w) = c,
         UNCHANGED <<poolSize, handler, cleaned, clientVars>>,
         \A v \in Workers \ {w} : pc'[v] = pc[v] /\ events'[v] = events[v] /\ message'[v] = message[v],
         pc'[w] \in Busy => events'[w] = events[w],
         \A d \in Clients : conn'[d].end = conn[d].end /\ conn'[d].reset = conn[d].reset,
         \A d \in Clients \ {c} : conn'[d].up = conn[d].up /\ conn'[d].down = conn[d].down,
         conn'[c].up \in Seq(Pieced), conn'[c].down \in Seq(Pieced),
         listening' => listening, listening' <=> phase' \notin {"exited", "killed"},
         dict' \in Maps, message' \in [Workers -> Messages],
         pc'[w] \in {"value", "call"} => message'[w].op \in Codes,
         listening' => Good(c)'
  PROVE  TalkTypes' /\ Protocol'
<1>1. TalkTypes'
      <2>1. \A v \in Workers : pc'[v] \in {"value", "call"} => message'[v].op \in Codes
            BY DEF InProtocol, TalkTypes
      <2>2. \A d \in Clients : conn'[d].up \in Seq(Pieced) /\ conn'[d].down \in Seq(Pieced)
            BY DEF InProtocol, TalkTypes
      <2> QED BY <2>1, <2>2 DEF InProtocol, TalkTypes, clientVars
<1>2. ASSUME NEW d \in Clients \ {c}, listening' PROVE Good(d)'
      <2>1. SameService(d)
            BY <1>2, OthersService
      <2>2. SameTalk(d)
            BY <1>2 DEF SameTalk, Open, clientVars
      <2> QED BY <1>2, <2>1, <2>2, GoodStill DEF InProtocol, Protocol, Good
<1> QED BY <1>1, <1>2 DEF Protocol, Good

(* A worker in service has an event in service, and the process lives. *)
LEMMA InService ==
  ASSUME InProtocol, NEW w \in Workers, At(w, "key") \/ At(w, "value") \/ At(w, "call") \/ Serving(w)
  PROVE  /\ listening /\ phase \notin {"exited", "killed"} /\ events[w] # <<>> /\ Fd(w) \in Clients
         /\ ~Serving(w) => Serves(w, Fd(w))
<1>1. events[w] # <<>>
      BY DEF Serving, At, InProtocol, Accounted, Accounts, EventsWatched, Watching
<1>2. Fd(w) \in Clients
      BY <1>1, EventInService DEF InProtocol, Accounted
<1>3. listening /\ phase \notin {"exited", "killed"}
      BY DEF Serving, At, Runs, InProtocol, TalkTypes
<1> QED BY <1>1, <1>2, <1>3 DEF Serves, At

(* The frame of a read into a field of the message. *)
LEMMA TalkReads ==
  ASSUME NEW w \in Workers, NEW c \in Clients, InProtocol, Fd(w) = c, listening,
         NEW field \in {"op", "key", "value"}, ReadInto(w, field),
         NEW there \in Busy, pc' = [pc EXCEPT ![w] = there],
         UNCHANGED <<listening, dict, events, mainVars, signalVars, clientVars>>,
         HasData(c) => [message[w] EXCEPT ![field] = Head(conn[c].up)] \in Messages,
         there \in {"value", "call"} => message'[w].op \in Codes,
         Good(c)'
  PROVE  TalkTypes' /\ Protocol'
<1>1. pc'[w] = there /\ \A v \in Workers \ {w} : pc'[v] = pc[v]
      BY DEF InProtocol, Accounted, Quiet, ShutdownTypes
<1>2. /\ message' \in [Workers -> Messages]
      /\ \A v \in Workers \ {w} : message'[v] = message[v]
      <2>1. message \in [Workers -> Messages]
            BY DEF InProtocol, TalkTypes
      <2>2. CASE UNCHANGED message
            BY <2>1, <2>2
      <2>3. CASE HasData(c) /\ message' = [message EXCEPT ![w][field] = Head(conn[c].up)]
            <3>1. message' = [message EXCEPT ![w] = [message[w] EXCEPT ![field] = Head(conn[c].up)]]
                  BY <2>1, <2>3
            <3> QED BY <2>1, <2>3, <3>1
      <2> QED BY <2>2, <2>3 DEF ReadInto
<1>3. /\ \A d \in Clients : conn'[d].end = conn[d].end /\ conn'[d].reset = conn[d].reset
      /\ \A d \in Clients \ {c} : conn'[d].up = conn[d].up /\ conn'[d].down = conn[d].down
      /\ conn'[c].up \in Seq(Pieced) /\ conn'[c].down \in Seq(Pieced)
      <2>1. conn[c].up \in Seq(Pieced) /\ conn[c].down \in Seq(Pieced)
            BY DEF InProtocol, TalkTypes
      <2>2. CASE UNCHANGED conn
            BY <2>1, <2>2
      <2>3. CASE HasData(c) /\ conn' = Taken(c)
            <3>1. \A d \in Clients :
                    /\ conn'[d].up = IF d = c THEN Tail(conn[c].up) ELSE conn[d].up
                    /\ conn'[d].down = conn[d].down
                    /\ conn'[d].end = conn[d].end /\ conn'[d].reset = conn[d].reset
                  BY <2>3, AfterTaken DEF InProtocol, Accounted, Accounts
            <3>2. Tail(conn[c].up) \in Seq(Pieced)
                  BY <2>1, <2>3, HeadTailProperties DEF HasData
            <3> QED BY <2>1, <3>1, <3>2
      <2> QED BY <2>2, <2>3 DEF ReadInto
<1>4. dict' \in Maps /\ (listening' <=> phase' \notin {"exited", "killed"})
      BY DEF InProtocol, TalkTypes, signalVars
<1> QED BY <1>1, <1>2, <1>3, <1>4, TalkServes DEF mainVars, signalVars

(* What the worker and the connection are like after the read. *)
LEMMA AfterRead ==
  ASSUME NEW w \in Workers, NEW c \in Clients, InProtocol, Fd(w) = c,
         NEW field \in {"op", "key", "value"}, HasData(c),
         message' = [message EXCEPT ![w][field] = Head(conn[c].up)], conn' = Taken(c),
         NEW there \in Busy, pc' = [pc EXCEPT ![w] = there], UNCHANGED <<events, clientVars>>
  PROVE  /\ Serves(w, c)' /\ pc'[w] = there
         /\ message'[w][field] = Head(conn[c].up)
         /\ \A g \in {"op", "key", "value"} \ {field} : message'[w][g] = message[w][g]
         /\ conn'[c].up = Tail(conn[c].up) /\ conn'[c].down = conn[c].down
         /\ Meant(c)' = Meant(c) /\ place'[c] = place[c] /\ req'[c] = req[c]
<1>1. pc'[w] = there
      BY DEF InProtocol, Accounted, Quiet, ShutdownTypes
<1>2. Serves(w, c)'
      BY <1>1 DEF Serves, Fd, Event, Busy
<1>3. /\ message'[w][field] = Head(conn[c].up)
      /\ \A g \in {"op", "key", "value"} \ {field} : message'[w][g] = message[w][g]
      BY DEF InProtocol, TalkTypes, Messages
<1>4. conn'[c].up = Tail(conn[c].up) /\ conn'[c].down = conn[c].down
      BY AfterTaken DEF InProtocol, Accounted, Accounts
<1>5. Meant(c)' = Meant(c) /\ place'[c] = place[c] /\ req'[c] = req[c]
      BY SameMeaning DEF clientVars
<1> QED BY <1>1, <1>2, <1>3, <1>4, <1>5

(* What has been read is lost on nobody who is still there. *)
LEMMA DataIsExact ==
  ASSUME InProtocol, listening, NEW c \in Clients, HasData(c)
  PROVE  Exact(c) /\ place[c] \in {"key", "value", "status"} /\ Asking(c)
<1>1. Exact(c)
      BY DEF InProtocol, Protocol, Lost, HasData
<1>2. ~Quietly(c) /\ ~Replied(c)
      BY DEF Quietly, Replied, Unread, HasData
<1>3. place[c] \in Stages
      BY DEF InProtocol, Accounted, Accounts, AccountTypes
<1> QED BY <1>1, <1>2, <1>3 DEF Exact, Stages

(* A read that gets nothing: the client has left in the middle. *)
LEMMA NothingRead ==
  ASSUME NEW c \in Clients, Good(c), ~HasData(c), UNCHANGED <<conn, clientVars>>, ~Open(c),
         Exact(c) => CutOff(c) \/ conn[c].reset
  PROVE  Good(c)'
BY DEF Good, Lost, CutOff, HasData, Open, clientVars

(* What is left of the request of c when nobody has begun to read it, and  *)
(* when a worker has come to a place. *)
LeftUnread(c, up) ==
  LET op == Meant(c).op  k == Meant(c).key  v == Meant(c).value
  IN \/ place[c] = "key" /\ up = <<op>>
     \/ place[c] = "value" /\ op = "PUT" /\ up = <<op, k>>
     \/ place[c] = "status" /\ op = "PUT" /\ up = <<op, k, v>>
     \/ place[c] = "status" /\ op # "PUT" /\ up = <<op, k>>

LeftAtKey(c, up) ==
  LET op == Meant(c).op  k == Meant(c).key  v == Meant(c).value
  IN \/ place[c] = "key" /\ up = <<>>
     \/ place[c] = "value" /\ op = "PUT" /\ up = <<k>>
     \/ place[c] = "status" /\ op = "PUT" /\ up = <<k, v>>
     \/ place[c] = "status" /\ op # "PUT" /\ up = <<k>>

LeftAtValue(c, up) ==
  /\ Meant(c).op = "PUT"
  /\ \/ place[c] = "value" /\ up = <<>>
     \/ place[c] = "status" /\ up = <<Meant(c).value>>

LeftAtCall(c, up) == place[c] = "status" /\ up = <<>>

LEMMA Left ==
  ASSUME NEW c \in Clients, Asking(c), place[c] \in {"key", "value", "status"}
  PROVE  /\ (\A there, pieces : ~Reading(c, there, pieces)) => LeftUnread(c, conn[c].up)
         /\ (\A pieces : ~Unread(c, pieces)) =>
              \/ LeftAtKey(c, conn[c].up) /\ Reading(c, "key", conn[c].up)
              \/ LeftAtValue(c, conn[c].up) /\ Reading(c, "value", conn[c].up)
              \/ LeftAtCall(c, conn[c].up) /\ Reading(c, "call", conn[c].up)
<1>1. ASSUME \A there, pieces : ~Reading(c, there, pieces) PROVE LeftUnread(c, conn[c].up)
      BY <1>1 DEF Asking, Unread, LeftUnread
<1>2. ASSUME \A pieces : ~Unread(c, pieces)
      PROVE  \/ LeftAtKey(c, conn[c].up) /\ Reading(c, "key", conn[c].up)
             \/ LeftAtValue(c, conn[c].up) /\ Reading(c, "value", conn[c].up)
             \/ LeftAtCall(c, conn[c].up) /\ Reading(c, "call", conn[c].up)
      <2>1. \A there, pieces : Reading(c, there, pieces) => conn[c].up = pieces
            BY DEF Reading
      <2> QED BY <1>2, <2>1 DEF Asking, LeftAtKey, LeftAtValue, LeftAtCall
<1> QED BY <1>1, <1>2

LEMMA StillAsking ==
  ASSUME NEW c \in Clients, Asking(c), UNCHANGED clientVars, conn'[c].down = conn[c].down,
         NEW rest,
         \/ LeftAtKey(c, rest) /\ Reading(c, "key", rest)'
         \/ LeftAtValue(c, rest) /\ Reading(c, "value", rest)'
         \/ LeftAtCall(c, rest) /\ Reading(c, "call", rest)'
  PROVE  Good(c)'
<1>1. Meant(c)' = Meant(c) /\ req'[c] = req[c] /\ place'[c] = place[c]
      BY SameMeaning DEF clientVars
<1>2. Asking(c)' /\ place[c] \in {"key", "value", "status"}
      <2>1. CASE LeftAtKey(c, rest) /\ Reading(c, "key", rest)'
            BY <1>1, <2>1 DEF Asking, LeftAtKey
      <2>2. CASE LeftAtValue(c, rest) /\ Reading(c, "value", rest)'
            BY <1>1, <2>2 DEF Asking, LeftAtValue
      <2>3. CASE LeftAtCall(c, rest) /\ Reading(c, "call", rest)'
            BY <1>1, <2>3 DEF Asking, LeftAtCall
      <2> QED BY <2>1, <2>2, <2>3
<1> QED BY <1>1, <1>2 DEF Good, Exact

LEMMA NextLeft ==
  ASSUME NEW c, NEW up
  PROVE  /\ LeftUnread(c, up) =>
              up # <<>> /\ Head(up) = Meant(c).op /\ LeftAtKey(c, Tail(up))
         /\ LeftAtKey(c, up) /\ up # <<>> =>
              /\ Head(up) = Meant(c).key
              /\ IF Meant(c).op = "PUT" THEN LeftAtValue(c, Tail(up)) ELSE LeftAtCall(c, Tail(up))
         /\ LeftAtValue(c, up) /\ up # <<>> =>
              Head(up) = Meant(c).value /\ LeftAtCall(c, Tail(up))
<1> DEFINE op == Meant(c).op  k == Meant(c).key  v == Meant(c).value
<1>1. /\ Head(<<op>>) = op /\ Tail(<<op>>) = <<>> /\ <<op>> # <<>>
      /\ Head(<<op, k>>) = op /\ Tail(<<op, k>>) = <<k>> /\ <<op, k>> # <<>>
      /\ Head(<<op, k, v>>) = op /\ Tail(<<op, k, v>>) = <<k, v>> /\ <<op, k, v>> # <<>>
      BY Tuples
<1>2. /\ Head(<<k>>) = k /\ Tail(<<k>>) = <<>>
      /\ Head(<<k, v>>) = k /\ Tail(<<k, v>>) = <<v>>
      /\ Head(<<v>>) = v /\ Tail(<<v>>) = <<>>
      BY Tuples
<1>3. LeftUnread(c, up) => up # <<>> /\ Head(up) = op /\ LeftAtKey(c, Tail(up))
      BY <1>1 DEF LeftUnread, LeftAtKey
<1>4. ASSUME LeftAtKey(c, up), up # <<>>
      PROVE  Head(up) = k /\ IF op = "PUT" THEN LeftAtValue(c, Tail(up)) ELSE LeftAtCall(c, Tail(up))
      <2>1. CASE op = "PUT"
            BY <1>2, <1>4, <2>1 DEF LeftAtKey, LeftAtValue
      <2>2. CASE op # "PUT"
            BY <1>2, <1>4, <2>2 DEF LeftAtKey, LeftAtCall
      <2> QED BY <2>1, <2>2
<1>5. LeftAtValue(c, up) /\ up # <<>> => Head(up) = v /\ LeftAtCall(c, Tail(up))
      BY <1>2 DEF LeftAtValue, LeftAtCall
<1> QED BY <1>3, <1>4, <1>5

(* A read that gets a piece of the request of c. *)
LEMMA ReadOn ==
  ASSUME NEW w \in Workers, NEW c \in Clients, InProtocol, listening, Fd(w) = c,
         NEW field \in {"op", "key", "value"}, HasData(c),
         message' = [message EXCEPT ![w][field] = Head(conn[c].up)], conn' = Taken(c),
         NEW there \in Busy, pc' = [pc EXCEPT ![w] = there], UNCHANGED <<events, clientVars>>,
         HasRead(w, c)',
         \/ LeftAtKey(c, Tail(conn[c].up)) /\ there = "key"
         \/ LeftAtValue(c, Tail(conn[c].up)) /\ there = "value"
         \/ LeftAtCall(c, Tail(conn[c].up)) /\ there = "call"
  PROVE  Good(c)'
<1>1. PICK rest : rest = Tail(conn[c].up)
      OBVIOUS
<1>2. Serves(w, c)' /\ pc'[w] = there /\ conn'[c].up = rest /\ conn'[c].down = conn[c].down
      BY <1>1, AfterRead
<1>3. Reading(c, there, rest)'
      BY <1>2 DEF Reading
<1>4. Asking(c)
      BY DataIsExact
<1>5. \/ LeftAtKey(c, rest) /\ there = "key"
      \/ LeftAtValue(c, rest) /\ there = "value"
      \/ LeftAtCall(c, rest) /\ there = "call"
      BY <1>1
<1> QED BY <1>2, <1>3, <1>4, <1>5, StillAsking

LEMMA TalkReadCode ==
  ASSUME NEW w \in Workers, InProtocol, ReadCode(w), UNCHANGED clientVars
  PROVE  TalkTypes' /\ Protocol'
<1>0. PICK c : c = Fd(w)
      OBVIOUS
<1>1. /\ Serving(w) /\ pc[w] = "serve" /\ (HasData(c) \/ Failed(c)) /\ ReadInto(w, "op")
      /\ pc' = [pc EXCEPT ![w] = "key"]
      /\ UNCHANGED <<listening, dict, events, mainVars, signalVars>>
      BY <1>0 DEF ReadCode, Serving, At, Goto
<1>2. c \in Clients /\ listening /\ events[w] # <<>>
      BY <1>0, <1>1, InService DEF Serving, At
<1>3. \A there, pieces : ~Reading(c, there, pieces)
      <2>1. Accounted /\ Fd(w) = c /\ pc[w] = "serve"
            BY <1>0, <1>1 DEF InProtocol
      <2> QED BY <1>2, <2>1, NobodyElseServes
<1>4. CASE HasData(c)
      <2>1. conn' = Taken(c) /\ message' = [message EXCEPT ![w]["op"] = Head(conn[c].up)]
            BY <1>0, <1>4 DEF ReadCode, ReadInto, Ended
      <2>2. LeftUnread(c, conn[c].up)
            BY <1>2, <1>3, <1>4, DataIsExact, Left
      <2>3. Head(conn[c].up) = Meant(c).op /\ LeftAtKey(c, Tail(conn[c].up))
            BY <2>2, NextLeft
      <2>4. HasRead(w, c)'
            <3>1. message'[w].op = Head(conn[c].up) /\ pc'[w] = "key" /\ Meant(c)' = Meant(c)
                  BY <1>0, <1>1, <1>2, <1>4, <2>1, AfterRead DEF Busy
            <3> QED BY <2>3, <3>1 DEF HasRead
      <2>5. Good(c)'
            BY <1>0, <1>1, <1>2, <1>4, <2>1, <2>3, <2>4, ReadOn DEF Busy
      <2>6. [message[w] EXCEPT !["op"] = Head(conn[c].up)] \in Messages
            <3>1. Meant(c).op \in Codes /\ message[w] \in Messages
                  BY <1>2, Meanings DEF InProtocol, TalkTypes
            <3> QED BY <2>3, <3>1 DEF Messages
      <2> QED BY <1>0, <1>1, <1>2, <2>5, <2>6, TalkReads DEF Busy, ReadCode
<1>5. CASE ~HasData(c)
      <2>1. Failed(c) /\ UNCHANGED <<conn, message>>
            BY <1>0, <1>1, <1>5 DEF ReadCode, ReadInto
      <2>2. ~Open(c) /\ conn[c].reset
            BY <2>1 DEF Failed, Ended, Gone, Open
      <2>3. Good(c)'
            BY <1>2, <1>5, <2>1, <2>2, NothingRead DEF InProtocol, Protocol, Good
      <2> QED BY <1>0, <1>1, <1>2, <1>5, <2>3, TalkReads DEF Busy, ReadCode
<1> QED BY <1>4, <1>5

LEMMA TalkReadKey ==
  ASSUME NEW w \in Workers, InProtocol, ReadKey(w), UNCHANGED clientVars
  PROVE  TalkTypes' /\ Protocol'
<1>0. PICK c, there : c = Fd(w) /\ there = IF message[w].op = "PUT" THEN "value" ELSE "call"
      OBVIOUS
<1>1. /\ pc[w] = "key" /\ At(w, "key") /\ message[w].op \in Codes /\ ReadInto(w, "key")
      /\ pc' = [pc EXCEPT ![w] = there] /\ there \in {"value", "call"}
      /\ UNCHANGED <<listening, dict, events, mainVars, signalVars>>
      BY <1>0 DEF ReadKey, At, Goto, ValidCode, AfterKey
<1>2. c \in Clients /\ listening /\ events[w] # <<>> /\ Serves(w, c)
      BY <1>0, <1>1, InService DEF Serving, At
<1>3. /\ \A pieces : ~Unread(c, pieces)
      /\ \A at, pieces : Reading(c, at, pieces) => at = "key" /\ HasRead(w, c)
      BY <1>1, <1>2, ServedHere DEF InProtocol
<1>4. CASE HasData(c)
      <2>1. conn' = Taken(c) /\ message' = [message EXCEPT ![w]["key"] = Head(conn[c].up)]
            BY <1>0, <1>4 DEF ReadKey, ReadInto, Ended
      <2>2. LeftAtKey(c, conn[c].up) /\ HasRead(w, c)
            BY <1>2, <1>3, <1>4, DataIsExact, Left
      <2>3. /\ Head(conn[c].up) = Meant(c).key
            /\ IF Meant(c).op = "PUT" THEN LeftAtValue(c, Tail(conn[c].up))
                                      ELSE LeftAtCall(c, Tail(conn[c].up))
            BY <1>4, <2>2, NextLeft DEF HasData
      <2>4. /\ message'[w].key = Head(conn[c].up) /\ message'[w].op = message[w].op
            /\ pc'[w] = there /\ Meant(c)' = Meant(c)
            <3>1. /\ \A g \in {"op", "key", "value"} \ {"key"} : message'[w][g] = message[w][g]
                  /\ message'[w]["key"] = Head(conn[c].up)
                  /\ pc'[w] = there /\ Meant(c)' = Meant(c)
                  <4>1. there \in Busy /\ Fd(w) = c
                        BY <1>0, <1>1 DEF Busy
                  <4> QED BY <1>1, <1>2, <1>4, <2>1, <4>1, AfterRead
            <3> QED BY <3>1
      <2>5. message[w].op = Meant(c).op /\ (there = "value" <=> Meant(c).op = "PUT")
            BY <1>0, <2>2 DEF HasRead
      <2>6. HasRead(w, c)'
            BY <2>3, <2>4, <2>5 DEF HasRead
      <2>7. \/ LeftAtValue(c, Tail(conn[c].up)) /\ there = "value"
            \/ LeftAtCall(c, Tail(conn[c].up)) /\ there = "call"
            BY <1>1, <2>3, <2>5
      <2>8. Good(c)'
            BY <1>0, <1>1, <1>2, <1>4, <2>1, <2>6, <2>7, ReadOn DEF Busy
      <2>9. [message[w] EXCEPT !["key"] = Head(conn[c].up)] \in Messages
            <3>1. Meant(c).key \in Keys /\ message[w] \in Messages
                  BY <1>2, Meanings DEF InProtocol, TalkTypes
            <3> QED BY <2>3, <3>1 DEF Messages
      <2>10. ReadInto(w, "key") /\ there \in Busy /\ message'[w].op \in Codes
            BY <1>1, <2>4 DEF Busy
      <2> QED BY <1>0, <1>1, <1>2, <2>8, <2>9, <2>10, TalkReads
<1>5. CASE ~HasData(c)
      <2>1. Ended(c) /\ UNCHANGED <<conn, message>>
            BY <1>0, <1>1, <1>5 DEF ReadInto
      <2>2. ~Open(c)
            BY <2>1 DEF Ended, Gone, Open
      <2>3. Exact(c) => CutOff(c)
            <3> SUFFICES ASSUME Exact(c) PROVE CutOff(c)
                OBVIOUS
            <3>1. place[c] \in {"key", "value", "status"} /\ Asking(c)
                  <4>1. ~Quietly(c) /\ ~Replied(c) /\ place[c] \in Stages
                        BY <1>2, <1>3 DEF Quietly, Replied, InProtocol, Accounted, Accounts, AccountTypes
                  <4> QED BY <4>1 DEF Exact, Stages
            <3>2. LeftAtKey(c, conn[c].up)
                  BY <1>2, <1>3, <3>1, Left
            <3>3. conn[c].up = <<>>
                  BY <1>5 DEF HasData
            <3>4. <<Meant(c).key, Meant(c).value>> # <<>> /\ <<Meant(c).key>> # <<>>
                  BY Tuples
            <3> QED BY <2>2, <3>2, <3>3, <3>4 DEF LeftAtKey, CutOff
      <2>4. Good(c)'
            BY <1>2, <1>5, <2>1, <2>2, <2>3, NothingRead DEF InProtocol, Protocol, Good
      <2>5. ReadInto(w, "key") /\ there \in Busy /\ message'[w].op \in Codes
            BY <1>1, <2>1 DEF Busy
      <2> QED BY <1>0, <1>1, <1>2, <1>5, <2>4, <2>5, TalkReads
<1> QED BY <1>4, <1>5

LEMMA TalkReadValue ==
  ASSUME NEW w \in Workers, InProtocol, ReadValue(w), UNCHANGED clientVars
  PROVE  TalkTypes' /\ Protocol'
<1>0. PICK c : c = Fd(w)
      OBVIOUS
<1>1. /\ pc[w] = "value" /\ At(w, "value") /\ message[w].op \in Codes /\ ReadInto(w, "value")
      /\ pc' = [pc EXCEPT ![w] = "call"]
      /\ UNCHANGED <<listening, dict, events, mainVars, signalVars>>
      BY <1>0 DEF ReadValue, At, Goto, InProtocol, TalkTypes
<1>2. c \in Clients /\ listening /\ events[w] # <<>> /\ Serves(w, c)
      BY <1>0, <1>1, InService DEF Serving, At
<1>3. /\ \A pieces : ~Unread(c, pieces)
      /\ \A at, pieces : Reading(c, at, pieces) => at = "value" /\ HasRead(w, c)
      BY <1>1, <1>2, ServedHere DEF InProtocol
<1>4. CASE HasData(c)
      <2>1. conn' = Taken(c) /\ message' = [message EXCEPT ![w]["value"] = Head(conn[c].up)]
            BY <1>0, <1>4 DEF ReadValue, ReadInto, Ended
      <2>2. LeftAtValue(c, conn[c].up) /\ HasRead(w, c)
            BY <1>2, <1>3, <1>4, DataIsExact, Left
      <2>3. Head(conn[c].up) = Meant(c).value /\ LeftAtCall(c, Tail(conn[c].up))
            BY <1>4, <2>2, NextLeft DEF HasData
      <2>4. /\ message'[w].value = Head(conn[c].up) /\ message'[w].op = message[w].op
            /\ message'[w].key = message[w].key
            /\ pc'[w] = "call" /\ Meant(c)' = Meant(c)
            <3>1. /\ \A g \in {"op", "key", "value"} \ {"value"} : message'[w][g] = message[w][g]
                  /\ message'[w]["value"] = Head(conn[c].up)
                  /\ pc'[w] = "call" /\ Meant(c)' = Meant(c)
                  BY <1>0, <1>1, <1>2, <1>4, <2>1, AfterRead DEF Busy
            <3> QED BY <3>1
      <2>5. HasRead(w, c)'
            BY <1>1, <2>2, <2>3, <2>4 DEF HasRead
      <2>6. Good(c)'
            BY <1>0, <1>1, <1>2, <1>4, <2>1, <2>3, <2>5, ReadOn DEF Busy
      <2>7. [message[w] EXCEPT !["value"] = Head(conn[c].up)] \in Messages
            <3>1. Meant(c).value \in MaybeValue /\ message[w] \in Messages
                  BY <1>2, Meanings DEF InProtocol, TalkTypes
            <3> QED BY <2>3, <3>1 DEF Messages
      <2>8. ReadInto(w, "value") /\ "call" \in Busy /\ message'[w].op \in Codes
            BY <1>1, <2>4 DEF Busy
      <2> QED BY <1>0, <1>1, <1>2, <2>6, <2>7, <2>8, TalkReads
<1>5. CASE ~HasData(c)
      <2>1. Ended(c) /\ UNCHANGED <<conn, message>>
            BY <1>0, <1>1, <1>5 DEF ReadInto
      <2>2. ~Open(c)
            BY <2>1 DEF Ended, Gone, Open
      <2>3. Exact(c) => CutOff(c)
            <3> SUFFICES ASSUME Exact(c) PROVE CutOff(c)
                OBVIOUS
            <3>1. place[c] \in {"key", "value", "status"} /\ Asking(c)
                  <4>1. ~Quietly(c) /\ ~Replied(c) /\ place[c] \in Stages
                        BY <1>2, <1>3 DEF Quietly, Replied, InProtocol, Accounted, Accounts, AccountTypes
                  <4> QED BY <4>1 DEF Exact, Stages
            <3>2. LeftAtValue(c, conn[c].up)
                  BY <1>2, <1>3, <3>1, Left
            <3>3. conn[c].up = <<>>
                  BY <1>5 DEF HasData
            <3>4. <<Meant(c).value>> # <<>>
                  BY Tuples
            <3> QED BY <2>2, <3>2, <3>3, <3>4 DEF LeftAtValue, CutOff
      <2>4. Good(c)'
            BY <1>2, <1>5, <2>1, <2>2, <2>3, NothingRead DEF InProtocol, Protocol, Good
      <2>5. ReadInto(w, "value") /\ "call" \in Busy /\ message'[w].op \in Codes
            BY <1>1, <2>1 DEF Busy
      <2> QED BY <1>0, <1>1, <1>2, <1>5, <2>4, <2>5, TalkReads
<1> QED BY <1>4, <1>5

(* A worker that serves c is as far as the request of c is sent. *)
LEMMA ServedIsAsking ==
  ASSUME InProtocol, NEW w \in Workers, NEW c \in Clients, Serves(w, c), Exact(c)
  PROVE  /\ Asking(c) /\ HasRead(w, c)
         /\ \/ LeftAtKey(c, conn[c].up) /\ pc[w] = "key"
            \/ LeftAtValue(c, conn[c].up) /\ pc[w] = "value"
            \/ LeftAtCall(c, conn[c].up) /\ pc[w] = "call"
<1>1. /\ \A pieces : ~Unread(c, pieces)
      /\ \A there, pieces : Reading(c, there, pieces) => pc[w] = there /\ HasRead(w, c)
      BY ServedHere DEF InProtocol
<1>2. ~Quietly(c) /\ ~Replied(c) /\ place[c] \in Stages
      BY <1>1 DEF Quietly, Replied, InProtocol, Accounted, Accounts, AccountTypes
<1>3. place[c] \in {"key", "value", "status"} /\ Asking(c)
      BY <1>2 DEF Exact, Stages
<1> QED BY <1>1, <1>3, Left

(* The frame of an answer. *)
LEMMA TalkReplies ==
  ASSUME NEW w \in Workers, NEW c \in Clients, InProtocol, Fd(w) = c, listening,
         phase \notin {"exited", "killed"},
         NEW pieces \in Seq(Pieced), Reply(w, pieces), NextEvent(w),
         UNCHANGED <<mainVars, handler, cleaned, clientVars>>,
         dict' \in Maps, message' \in [Workers -> Messages],
         \A v \in Workers \ {w} : message'[v] = message[v],
         listening' => Good(c)'
  PROVE  TalkTypes' /\ Protocol'
<1>1. /\ pc'[w] = "serve" /\ \A v \in Workers \ {w} : pc'[v] = pc[v] /\ events'[v] = events[v]
      BY DEF NextEvent, Goto, InProtocol, Accounted, Quiet, ShutdownTypes, Accounts, AccountTypes
<1>2. conn' = Written(c, pieces)
      BY DEF Reply
<1>3. \A d \in Clients :
        /\ conn'[d].down = IF d = c /\ Open(c) THEN conn[c].down \o pieces ELSE conn[d].down
        /\ conn'[d].up = conn[d].up
        /\ conn'[d].end = conn[d].end /\ conn'[d].reset = conn[d].reset
      BY <1>2, AfterWritten DEF InProtocol, Accounted, Accounts
<1>4. conn'[c].up \in Seq(Pieced) /\ conn'[c].down \in Seq(Pieced)
      <2>1. conn[c].up \in Seq(Pieced) /\ conn[c].down \in Seq(Pieced)
            BY DEF InProtocol, TalkTypes
      <2>2. conn[c].down \o pieces \in Seq(Pieced)
            BY <2>1, ConcatProperties
      <2> QED BY <1>3, <2>1, <2>2
<1>5. listening' <=> phase' \notin {"exited", "killed"}
      BY DEF Reply
<1> QED BY <1>1, <1>3, <1>4, <1>5, TalkServes DEF mainVars, Busy

(* An answer to one who has left goes nowhere. *)
LEMMA LostAnswer ==
  ASSUME NEW w \in Workers, NEW c \in Clients, Fd(w) = c, NEW pieces, Reply(w, pieces), Lost(c),
         UNCHANGED clientVars
  PROVE  Good(c)'
<1>1. conn' = conn
      BY DEF Reply, Written, Lost
<1>2. Open(c)' => Open(c)
      BY <1>1 DEF Open
<1> QED BY <1>1, <1>2, LostStill DEF Good, clientVars

LEMMA TalkRefuse ==
  ASSUME NEW w \in Workers, InProtocol, Refuse(w), UNCHANGED clientVars
  PROVE  TalkTypes' /\ Protocol'
<1>0. PICK c : c = Fd(w)
      OBVIOUS
<1>1. /\ At(w, "key") /\ message[w].op \notin Codes /\ Reply(w, <<"ERROR">>) /\ NextEvent(w)
      /\ UNCHANGED <<dict, mainVars, message, handler, cleaned>>
      BY DEF Refuse, ValidCode
<1>2. c \in Clients /\ listening /\ phase \notin {"exited", "killed"} /\ Serves(w, c)
      BY <1>0, <1>1, InService DEF Serving, At
<1>3. ~Exact(c)
      <2> SUFFICES ASSUME Exact(c) PROVE FALSE
          OBVIOUS
      <2>1. message[w].op = Meant(c).op
            BY <1>2, ServedIsAsking DEF HasRead
      <2>2. Meant(c).op \in Codes
            BY <1>2, Meanings DEF InProtocol, TalkTypes
      <2> QED BY <1>1, <2>1, <2>2
<1>4. Good(c)'
      BY <1>0, <1>1, <1>2, <1>3, LostAnswer DEF InProtocol, Protocol
<1>5. <<"ERROR">> \in Seq(Pieced)
      <2>1. "ERROR" \in Pieced
            BY DEF Pieced
      <2> QED BY <2>1
<1>6. dict' \in Maps /\ message' \in [Workers -> Messages]
      BY <1>1 DEF InProtocol, TalkTypes
<1> QED BY <1>0, <1>1, <1>2, <1>4, <1>5, <1>6, TalkReplies

(* What the worker calls is what c means. *)
LEMMA CallIsMeant ==
  ASSUME InProtocol, NEW w \in Workers, NEW c \in Clients, Serves(w, c), pc[w] = "call", Exact(c)
  PROVE  /\ Asking(c) /\ place[c] = "status" /\ conn[c].up = <<>>
         /\ message[w].op = req[c].op
         /\ Effect(dict, message[w]) = Effect(dict, Meant(c))
         /\ Outcome(dict, message[w]) = Outcome(dict, Meant(c))
<1>1. Asking(c) /\ HasRead(w, c) /\ place[c] = "status" /\ conn[c].up = <<>>
      BY ServedIsAsking DEF LeftAtCall
<1>2. Meant(c).op = req[c].op /\ Meant(c).op \in Codes
      BY Meanings DEF InProtocol, TalkTypes
<1>3. /\ message[w].op = Meant(c).op /\ message[w].key = Meant(c).key
      /\ message[w].op = "PUT" => message[w].value = Meant(c).value
      BY <1>1 DEF HasRead
<1> QED BY <1>1, <1>2, <1>3, SameRequest

LEMMA TalkCall ==
  ASSUME NEW w \in Workers, InProtocol, Call(w), UNCHANGED clientVars
  PROVE  TalkTypes' /\ Protocol'
<1>0. PICK c, answer, pieces : /\ c = Fd(w) /\ answer = Outcome(dict, message[w])
                               /\ pieces = Pieces(message[w].op, answer)
      OBVIOUS
<1>1. /\ At(w, "call") /\ pc[w] = "call" /\ dict' = Effect(dict, message[w])
      /\ message' = IF message[w].op = "GET" /\ answer.ok
                      THEN [message EXCEPT ![w].value = answer.value] ELSE message
      /\ Reply(w, pieces) /\ NextEvent(w)
      /\ UNCHANGED <<mainVars, handler, cleaned>>
      BY <1>0 DEF Call, At
<1>2. c \in Clients /\ listening /\ phase \notin {"exited", "killed"} /\ Serves(w, c)
      BY <1>0, <1>1, InService DEF Serving, At
<1>3. message[w] \in Messages /\ message[w].op \in Codes
      BY <1>1 DEF InProtocol, TalkTypes
<1>4. /\ dict' \in Maps /\ answer \in Answers /\ answer.value \in MaybeValue
      /\ message[w].op = "PUT" => answer.ok
      BY <1>0, <1>1, <1>3, Effects DEF InProtocol, TalkTypes, Messages
<1>5. /\ message' \in [Workers -> Messages]
      /\ \A v \in Workers \ {w} : message'[v] = message[v]
      <2>1. message \in [Workers -> Messages]
            BY DEF InProtocol, TalkTypes
      <2>2. [message[w] EXCEPT !.value = answer.value] \in Messages
            BY <1>3, <1>4 DEF Messages
      <2>3. [message EXCEPT ![w].value = answer.value]
              = [message EXCEPT ![w] = [message[w] EXCEPT !.value = answer.value]]
            BY <2>1
      <2> QED BY <1>1, <2>1, <2>2, <2>3
<1>6. pieces \in Seq(Pieced)
      BY <1>0, <1>4, PiecesOf
<1>7. Good(c)'
      <2>1. CASE Lost(c)
            BY <1>0, <1>1, <1>2, <2>1, LostAnswer
      <2>2. CASE Exact(c)
            <3>1. /\ Asking(c) /\ place[c] = "status" /\ conn[c].up = <<>>
                  /\ message[w].op = req[c].op
                  BY <1>1, <1>2, <2>2, CallIsMeant
            <3>2. conn'[c].up = conn[c].up /\ (Open(c) => conn'[c].down = conn[c].down \o pieces)
                  /\ (Open(c)' => Open(c))
                  <4>1. conn' = Written(c, pieces)
                        BY <1>0, <1>1 DEF Reply
                  <4> QED BY <1>2, <4>1, AfterWritten DEF InProtocol, Accounted, Accounts, Open
            <3>3. Open(c) => conn'[c].down = pieces
                  <4>1. conn[c].down = <<>> /\ <<>> \o pieces = pieces
                        BY <3>1, <1>6 DEF Asking
                  <4> QED BY <3>2, <4>1
            <3>4. \A v \in Workers : ~Serves(v, c)'
                  <4>1. /\ pc'[w] = "serve"
                        /\ \A v \in Workers \ {w} : pc'[v] = pc[v] /\ events'[v] = events[v]
                        BY <1>1 DEF NextEvent, Goto, InProtocol, Accounted, Quiet, ShutdownTypes,
                                    Accounts, AccountTypes
                  <4>2. \A v \in Workers \ {w} : ~Serves(v, c)
                        BY <1>0, <1>2, ServedHere, OneServes DEF InProtocol
                  <4> QED BY <4>1, <4>2 DEF Serves, Fd, Event
            <3>5. place'[c] = "status" /\ req'[c] = req[c]
                  BY <3>1 DEF clientVars
            <3>6. Replied(c)'
                  <4>1. Unread(c, <<>>)' /\ req'[c] \in RequestsOf[c]
                        BY <3>1, <3>2, <3>4, <3>5 DEF Unread, Asking
                  <4>2. Open(c)' => conn'[c].down = Pieces(req'[c].op, answer)
                        BY <1>0, <3>1, <3>2, <3>3, <3>5
                  <4>3. req'[c].op = "PUT" => answer.ok
                        BY <1>4, <3>1, <3>5
                  <4> QED BY <1>4, <3>5, <4>1, <4>2, <4>3 DEF Replied
            <3> QED BY <3>5, <3>6 DEF Good, Exact
      <2> QED BY <1>2, <2>1, <2>2 DEF InProtocol, Protocol
<1> QED BY <1>0, <1>1, <1>2, <1>4, <1>5, <1>6, <1>7, TalkReplies

-----------------------------------------------------------------------------
LEMMA InProtocolNext == InProtocol /\ [Next]_vars => InProtocol'
<1> SUFFICES ASSUME InProtocol, [Next]_vars PROVE InProtocol'
    OBVIOUS
<1>1. Accounted'
      BY AccountedNext DEF InProtocol
<1>2. TalkTypes' /\ Protocol'
      <2>1. CASE UNCHANGED vars
            BY <2>1, TalkRests DEF vars, sockVars, serverVars, mainVars, workerVars, signalVars,
                                   clientVars, InProtocol, TalkTypes, Open
      <2>2. ASSUME UNCHANGED clientVars, NEW w \in Workers, WorkerStep(w)
            PROVE  TalkTypes' /\ Protocol'
            BY <2>2, TalkIdleWorker, TalkReadCode, TalkReadKey, TalkReadValue, TalkRefuse, TalkCall
               DEF WorkerStep
      <2>3. CASE ServerNext /\ UNCHANGED clientVars
            BY <2>2, <2>3, TalkMain, TalkSignal DEF ServerNext
      <2>4. CASE (\E c \in Clients : ClientStep(c)) /\ UNCHANGED serverVars
            BY <2>4, TalkClient
      <2>5. CASE (\E c \in Clients : Reset(c)) /\ UNCHANGED <<serverVars, clientVars>>
            BY <2>5, TalkReset
      <2> QED BY <2>1, <2>3, <2>4, <2>5 DEF Next
<1> QED BY <1>1, <1>2 DEF InProtocol

LEMMA InProtocolAlways == Spec => []InProtocol
<1>1. Init => InProtocol
      BY TalkInit, AccountsInit, QuietInit DEF InProtocol, Accounted
<1> QED BY <1>1, InProtocolNext, PTL DEF Spec

-----------------------------------------------------------------------------
LEMMA InProtocolImpliesInStep == InProtocol => InStep
<1> SUFFICES ASSUME InProtocol, NEW c \in Clients, Open(c), listening
    PROVE  /\ place[c] \in {"next", "failed"} => conn[c].up = <<>> /\ conn[c].down = <<>>
           /\ place[c] = "text" => Len(conn[c].down) = 1 /\ conn[c].up = <<>>
    BY DEF InStep
<1>1. Exact(c)
      BY OpenIsExact
<1>2. ASSUME place[c] \in {"next", "failed"} PROVE conn[c].up = <<>> /\ conn[c].down = <<>>
      BY <1>1, <1>2 DEF Exact, Quietly, Unread
<1>3. ASSUME place[c] = "text" PROVE Len(conn[c].down) = 1 /\ conn[c].up = <<>>
      <2>1. Unread(c, <<>>) /\ \E v : conn[c].down = <<v>>
            BY <1>1, <1>3 DEF Exact, Replied
      <2>2. PICK v : conn[c].down = <<v>>
            BY <2>1
      <2>3. Len(<<v>>) = 1
            OBVIOUS
      <2> QED BY <2>1, <2>2, <2>3 DEF Unread
<1> QED BY <1>2, <1>3

(* Between two requests nothing is left in the stream, and where a text is *)
(* read exactly the text is there: for any clients, requests and workers,  *)
(* and though clients die, connections are reset and threads end.          *)
THEOREM StreamsInStep == Spec => []InStep
BY InProtocolAlways, InProtocolImpliesInStep, PTL

LEMMA PiecesOfSequence == \A S : \A s \in Seq(S) : Range(s) \subseteq S
<1> SUFFICES ASSUME NEW S, NEW s \in Seq(S) PROVE Range(s) \subseteq S
    OBVIOUS
<1>1. DOMAIN s = 1..Len(s) /\ \A i \in 1..Len(s) : s[i] \in S
      BY LenProperties
<1> QED BY <1>1 DEF Range

LEMMA InProtocolImpliesTypes == InProtocol => TypeOK
<1> SUFFICES ASSUME InProtocol PROVE TypeOK
    OBVIOUS
<1>1. Accounts /\ AccountTypes /\ Quiet /\ ShutdownTypes /\ TalkTypes
      BY DEF InProtocol, Accounted, Accounts, Quiet
<1>2. Range(backlog) \cup {hand} \subseteq Clients \cup {None}
      <2>1. Range(backlog) \subseteq Clients /\ hand \in Clients \cup {None}
            BY <1>1, PiecesOfSequence DEF AccountTypes
      <2> QED BY <2>1
<1>3. \A c \in Clients : Range(conn[c].up) \cup Range(conn[c].down) \subseteq Pieced
      <2> SUFFICES ASSUME NEW c \in Clients
                   PROVE  Range(conn[c].up) \subseteq Pieced /\ Range(conn[c].down) \subseteq Pieced
          OBVIOUS
      <2>1. conn[c].up \in Seq(Pieced) /\ conn[c].down \in Seq(Pieced)
            BY <1>1 DEF TalkTypes
      <2> QED BY <2>1, PiecesOfSequence
<1>4. dict \in [Keys -> MaybeValue] /\ message \in [Workers -> Messages]
      BY <1>1 DEF TalkTypes, Maps
<1>5. poolSize \in Workers /\ listIter \in 1..(poolSize + 1) /\ tried \in 0..poolSize
      BY <1>1, PoolFits DEF AccountTypes
<1>6. \A w \in Workers : watched[w] \cup Range(newFds[w]) \subseteq Clients
      <2> SUFFICES ASSUME NEW w \in Workers
                   PROVE  watched[w] \subseteq Clients /\ Range(newFds[w]) \subseteq Clients
          OBVIOUS
      <2>1. watched[w] \in SUBSET Clients /\ newFds[w] \in Seq(Clients)
            BY <1>1 DEF AccountTypes
      <2> QED BY <2>1, PiecesOfSequence
<1>7. count \in [Workers -> 0..Cardinality(Clients)]
      <2>1. count \in [Workers -> Nat]
            BY <1>1 DEF AccountTypes
      <2>2. ASSUME NEW w \in Workers PROVE count[w] \in 0..Cardinality(Clients)
            <3>1. watched[w] \in SUBSET Clients /\ count[w] = Cardinality(watched[w])
                  BY <1>1 DEF AccountTypes, Accounts, Counted
            <3>2. /\ Cardinality(watched[w]) \in Nat
                  /\ Cardinality(watched[w]) <= Cardinality(Clients)
                  /\ Cardinality(Clients) \in Nat
                  BY <3>1, HandedAreClients
            <3> QED BY <3>1, <3>2
      <2> QED BY <2>1, <2>2
<1>8. pc \in [Workers -> Places] /\ serving \in [Workers -> {"nobody", "worker", "handler"}]
      BY <1>1 DEF ShutdownTypes
<1>9. handler \in Workers \cup {Main, None} /\ cleaned \in 0..poolSize
      <2>1. cleaned \in Nat /\ poolSize \in Nat /\ cleaned <= poolSize
            BY <1>1 DEF ShutdownTypes, TalkTypes
      <2> QED BY <1>1, <2>1 DEF TalkTypes
<1> QED BY <1>2, <1>3, <1>4, <1>5, <1>6, <1>7, <1>8, <1>9 DEF TypeOK, Messages

(* Every variable keeps its type: the pool and the round robin through it  *)
(* stay within the list of workers, however many clients come and whatever *)
(* the growth, and what is read and answered consists of pieces.           *)
THEOREM ServiceTypes == Spec => []TypeOK
BY InProtocolAlways, InProtocolImpliesTypes, PTL

-----------------------------------------------------------------------------
Undisturbed(c) ==
  /\ conn'[c].down = conn[c].down /\ conn'[c].reset = conn[c].reset
  /\ Open(c)' => Open(c)

(* The server changes what c has to read by an answer only. *)
LEMMA OnlyAnswers ==
  ASSUME InProtocol, ServerNext, UNCHANGED clientVars, NEW c \in Clients
  PROVE  \/ Undisturbed(c)
         \/ \E w \in Workers : Fd(w) = c /\ (Refuse(w) \/ Call(w))
<1> USE DEF InProtocol, Accounted, Accounts
<1>1. UNCHANGED conn => Undisturbed(c)
      BY DEF Undisturbed, Open
<1>2. CASE MainStep \/ HandlerStep \/ \E t \in SignalTargets : Signal(t)
      <2>1. UNCHANGED conn
            BY <1>2 DEF MainStep, Accept, Assign, TryNext, Grow, HandlerStep, HandlerLock,
                        HandlerClean, HandlerExit, Signal, sockVars
      <2> QED BY <1>1, <2>1
<1>3. ASSUME NEW w \in Workers, WorkerStep(w)
      PROVE  \/ Undisturbed(c)
             \/ Fd(w) = c /\ (Refuse(w) \/ Call(w))
      <2>1. CASE Wait(w) \/ Enter(w) \/ DropEvents(w) \/ TakeOverAll(w) \/ TakeOverFails(w)
            <3>1. UNCHANGED conn
                  BY <2>1 DEF Wait, Enter, DropEvents, TakeOverAll, TakeOverFails, TakeOver, sockVars
            <3> QED BY <1>1, <3>1
      <2>2. CASE Close(w)
            <3>1. PICK d \in Clients : d = Fd(w)
                  BY <2>2, EventInService DEF Close, Serving
            <3>2. conn' = [conn EXCEPT ![d]["end"] = "over"]
                  BY <2>2, <3>1 DEF Close, Over
            <3>3. "end" \in Fields /\ "down" \in Fields /\ "reset" \in Fields /\ AccountTypes
                  BY DEF Fields
            <3>4. \A e \in Clients : \A f \in Fields :
                    conn'[e][f] = IF e = d /\ f = "end" THEN "over" ELSE conn[e][f]
                  BY <3>2, <3>3, FieldSet, ZenonT(40)
            <3>5. /\ conn'[c]["down"] = conn[c]["down"]
                  /\ conn'[c]["reset"] = conn[c]["reset"]
                  /\ conn'[c]["end"] = IF c = d THEN "over" ELSE conn[c]["end"]
                  BY <3>3, <3>4
            <3> QED BY <3>5 DEF Undisturbed, Open
      <2>3. CASE ReadCode(w) \/ ReadKey(w) \/ ReadValue(w)
            <3>1. At(w, "key") \/ At(w, "value") \/ Serving(w)
                  BY <2>3 DEF ReadCode, ReadKey, ReadValue
            <3>2. PICK d \in Clients : d = Fd(w)
                  BY <3>1, InService
            <3>3. UNCHANGED conn \/ conn' = Taken(d)
                  BY <2>3, <3>2 DEF ReadCode, ReadKey, ReadValue, ReadInto
            <3> QED BY <1>1, <3>2, <3>3, AfterTaken DEF Undisturbed, Open
      <2>4. CASE Refuse(w) \/ Call(w)
            <3>1. At(w, "key") \/ At(w, "call")
                  BY <2>4 DEF Refuse, Call
            <3>2. PICK d \in Clients : d = Fd(w)
                  BY <3>1, InService
            <3>3. \E pieces : conn' = Written(d, pieces)
                  BY <2>4, <3>2 DEF Refuse, Call, Reply
            <3>4. d # c => Undisturbed(c)
                  BY <3>2, <3>3, AfterWritten DEF Undisturbed, Open
            <3> QED BY <2>4, <3>2, <3>4
      <2> QED BY <1>3, <2>1, <2>2, <2>3, <2>4 DEF WorkerStep
<1> QED BY <1>2, <1>3 DEF ServerNext

(* A client never has more to read after a step of its own or of another.  *)
LEMMA ClientsOnlyRead ==
  ASSUME InProtocol, NEW d \in Clients, ClientStep(d) \/ Reset(d), NEW c \in Clients,
         conn[c].down = <<>>
  PROVE  conn'[c].down = <<>>
<1> USE DEF InProtocol, Accounted, Accounts
<1>1. CASE Connect(d) \/ Reset(d)
      <2>1. /\ "end" \in Fields /\ "reset" \in Fields /\ "down" \in Fields /\ AccountTypes
            /\ "down" # "end" /\ "down" # "reset"
            BY DEF Fields
      <2>2. CASE Connect(d)
            <3>1. conn' = [conn EXCEPT ![d]["end"] = "open"]
                  BY <2>2 DEF Connect, Connected
            <3>2. \A e \in Clients : \A f \in Fields :
                    conn'[e][f] = IF e = d /\ f = "end" THEN "open" ELSE conn[e][f]
                  BY <2>1, <3>1, FieldSet, ZenonT(40)
            <3>3. conn'[c]["down"] = conn[c]["down"]
                  BY <2>1, <3>2
            <3> QED BY <3>3
      <2>3. CASE Reset(d)
            <3>1. conn' = [conn EXCEPT ![d]["reset"] = TRUE]
                  BY <2>3 DEF Reset
            <3>2. \A e \in Clients : \A f \in Fields :
                    conn'[e][f] = IF e = d /\ f = "reset" THEN TRUE ELSE conn[e][f]
                  BY <2>1, <3>1, FieldSet, ZenonT(40)
            <3>3. conn'[c]["down"] = conn[c]["down"]
                  BY <2>1, <3>2
            <3> QED BY <3>3
      <2> QED BY <1>1, <2>2, <2>3
<1>2. CASE Ask(d) \/ SendKey(d) \/ SendValue(d)
      <2>1. PICK piece : conn' = Sent(d, piece)
            BY <1>2 DEF Ask, SendKey, SendValue
      <2> QED BY <2>1, AfterSent
<1>3. CASE ReadStatus(d) \/ ReadText(d)
      <2>1. UNCHANGED conn \/ (Arrived(d) /\ conn' = Fetched(d))
            BY <1>3 DEF ReadStatus, ReadText, Receive
      <2> QED BY <2>1, AfterFetched DEF Arrived
<1>4. CASE Leave(d) \/ Die(d)
      <2>1. conn' = Closed(d)
            BY <1>4 DEF Leave, Die
      <2> QED BY <2>1, AfterClosed
<1> QED BY <1>1, <1>2, <1>3, <1>4 DEF ClientStep, Talk

LEMMA OnlyCalls ==
  ASSUME [Next]_vars, dict' # dict
  PROVE  \E w \in Workers : Call(w) /\ UNCHANGED clientVars
<1>1. ASSUME ServerNext PROVE \E w \in Workers : Call(w)
      BY <1>1 DEF ServerNext, MainStep, Accept, Assign, TryNext, Grow, HandlerStep, HandlerLock,
                  HandlerClean, HandlerExit, Signal, WorkerStep, Wait, Enter, DropEvents, ReadCode,
                  Close, Refuse, ReadKey, ReadValue, TakeOverAll, TakeOverFails, TakeOver
<1> QED BY <1>1 DEF Next, vars, serverVars

(* A client that keeps to the protocol is answered as it means. *)
LEMMA AnswerIsMeant ==
  ASSUME InProtocol, NEW w \in Workers, Refuse(w) \/ Call(w), UNCHANGED clientVars, Whole',
         NEW c \in Clients, c = Fd(w)
  PROVE  /\ Call(w) /\ place[c] = "status" /\ dict' = Effect(dict, Meant(c))
         /\ conn[c].down = <<>> =>
              \/ conn'[c].down = <<>>
              \/ conn'[c].down = Pieces(req[c].op, Outcome(dict, Meant(c)))
<1>1. At(w, "key") \/ At(w, "call")
      BY DEF Refuse, Call, At
<1>2. listening /\ Serves(w, c)
      BY <1>1, InService DEF Serving, At
<1>3. \E pieces : conn' = Written(c, pieces)
      BY DEF Refuse, Call, Reply
<1>4. conn'[c].end = conn[c].end /\ conn'[c].reset = conn[c].reset
      BY <1>3, AfterWritten DEF InProtocol, Accounted, Accounts
<1>5. Exact(c)
      <2>1. ~Lost(c)
            BY <1>4 DEF Whole, Lost, CutOff, Open, clientVars
      <2> QED BY <1>2, <2>1 DEF InProtocol, Protocol
<1>6. Call(w)
      <2>1. Meant(c).op \in Codes
            BY Meanings DEF InProtocol, TalkTypes
      <2>2. message[w].op = Meant(c).op
            BY <1>2, <1>5, ServedIsAsking DEF HasRead
      <2> QED BY <2>1, <2>2 DEF Refuse, ValidCode
<1>7. pc[w] = "call"
      BY <1>6 DEF Call, At
<1>8. /\ place[c] = "status" /\ message[w].op = req[c].op
      /\ Effect(dict, message[w]) = Effect(dict, Meant(c))
      /\ Outcome(dict, message[w]) = Outcome(dict, Meant(c))
      BY <1>2, <1>5, <1>7, CallIsMeant
<1>9. PICK pieces : pieces = Pieces(req[c].op, Outcome(dict, Meant(c)))
      OBVIOUS
<1>10. dict' = Effect(dict, Meant(c)) /\ conn' = Written(c, pieces)
       BY <1>6, <1>8, <1>9 DEF Call, Reply
<1>11. pieces \in Seq(Pieced)
       <2>1. Outcome(dict, Meant(c)) \in Answers
             BY Meanings, Effects DEF InProtocol, TalkTypes
       <2> QED BY <1>9, <2>1, PiecesOf
<1>12. conn[c].down = <<>> => conn'[c].down = <<>> \/ conn'[c].down = pieces
       <2>1. <<>> \o pieces = pieces
             BY <1>11
       <2>2. conn'[c].down = IF Open(c) THEN conn[c].down \o pieces ELSE conn[c].down
             BY <1>10, AfterWritten DEF InProtocol, Accounted, Accounts
       <2> QED BY <2>1, <2>2
<1> QED BY <1>6, <1>8, <1>9, <1>10, <1>12

(* The map changes only as a client means that waits for it, and what goes *)
(* back is its answer at that instant, while no request has been cut off   *)
(* and no connection reset: however the pieces of the requests arrive,     *)
(* whichever worker reads them, and with whatever its one message held.    *)
THEOREM RequestsAreApplied == Spec => AppliesWhatWasSent
<1> DEFINE Applied ==
      Whole' =>
        /\ dict' # dict => \E c \in Clients : place[c] = "status" /\ dict' = Effect(dict, Meant(c))
        /\ \A c \in Clients : conn[c].down = <<>> /\ conn'[c].down # <<>> =>
              /\ place[c] = "status"
              /\ dict' = Effect(dict, Meant(c))
              /\ conn'[c].down = Pieces(req[c].op, Outcome(dict, Meant(c)))
<1>1. ASSUME InProtocol, [Next]_vars PROVE [Applied]_vars
      <2> SUFFICES ASSUME Whole' PROVE Applied
          OBVIOUS
      <2>1. ASSUME dict' # dict
            PROVE  \E c \in Clients : place[c] = "status" /\ dict' = Effect(dict, Meant(c))
            <3>1. PICK w \in Workers : Call(w) /\ UNCHANGED clientVars
                  BY <1>1, <2>1, OnlyCalls
            <3>2. PICK c \in Clients : c = Fd(w)
                  BY <1>1, <3>1, InService DEF Call
            <3> QED BY <1>1, <3>1, <3>2, AnswerIsMeant
      <2>2. ASSUME NEW c \in Clients, conn[c].down = <<>>, conn'[c].down # <<>>
            PROVE  /\ place[c] = "status"
                   /\ dict' = Effect(dict, Meant(c))
                   /\ conn'[c].down = Pieces(req[c].op, Outcome(dict, Meant(c)))
            <3>1. ServerNext /\ UNCHANGED clientVars
                  BY <1>1, <2>2, ClientsOnlyRead DEF Next, vars, sockVars
            <3>2. PICK w \in Workers : Fd(w) = c /\ (Refuse(w) \/ Call(w))
                  BY <1>1, <2>2, <3>1, OnlyAnswers DEF Undisturbed
            <3> QED BY <1>1, <2>2, <3>1, <3>2, AnswerIsMeant
      <2> QED BY <2>1, <2>2
<1> QED BY <1>1, InProtocolAlways, PTL DEF Spec, AppliesWhatWasSent

-----------------------------------------------------------------------------
(* What c knows of its keys, and what it is about to know.                 *)
KeysOf(c) == {Nulled[r.key] : r \in RequestsOf[c]}

AsKnown(c)    == \A k \in KeysOf(c) : dict[k] = known[c][k]
AsExpected(c) == \A k \in KeysOf(c) : dict[k] = Effect(known[c], Meant(c))[k]

Agreed(c) ==
  /\ place[c] # "failed"
  /\ place[c] = "out" \/ (Open(c) /\ place[c] \in {"next", "key", "value"}) => AsKnown(c)
  /\ Open(c) /\ place[c] = "status" =>
       \/ conn[c].down = <<>> /\ AsKnown(c)
       \/ conn[c].down = Pieces(req[c].op, Expected(c)) /\ AsExpected(c)
  /\ Open(c) /\ place[c] = "text" =>
       /\ AsExpected(c)
       /\ result[c].status = IF Expected(c).ok THEN "SUCCESS" ELSE "ERROR"
       /\ conn[c].down = <<Expected(c).value>>

AllAgreed == listening /\ Whole => \A c \in Clients : Agreed(c)

LEMMA AllAgreedInit == Init => AllAgreed
<1> SUFFICES ASSUME Init, NEW c \in Clients PROVE Agreed(c)
    BY DEF AllAgreed
<1>1. /\ place[c] = "out" /\ dict = [k \in Keys |-> NoValue] /\ known[c] = [k \in Keys |-> NoValue]
      BY DEF Init, ServerInit, ClientInit
<1>2. AsKnown(c)
      BY <1>1 DEF AsKnown
<1> QED BY <1>1, <1>2 DEF Agreed

LEMMA AgreedStill ==
  ASSUME NEW c \in Clients, Agreed(c), \A k \in KeysOf(c) : dict'[k] = dict[k],
         Open(c)' => Open(c), conn'[c].down = conn[c].down, place'[c] = place[c],
         req'[c] = req[c], result'[c] = result[c], known'[c] = known[c]
  PROVE  Agreed(c)'
<1>1. Meant(c)' = Meant(c) /\ KeysOf(c)' = KeysOf(c)
      BY SameMeaning DEF KeysOf
<1>2. Expected(c)' = Expected(c)
      BY <1>1 DEF Expected
<1>3. (AsKnown(c) => AsKnown(c)') /\ (AsExpected(c) => AsExpected(c)')
      BY <1>1 DEF AsKnown, AsExpected
<1> QED BY <1>2, <1>3 DEF Agreed

(* A request of c does to the map what it does to what c knows of it, and  *)
(* nothing to the keys of the others.                                      *)
LEMMA OnlyItsKey ==
  ASSUME NEW d \in Maps, NEW r, r.op \in Codes, r.key \in Keys, NEW k \in Keys
  PROVE  /\ k # r.key \/ r.op = "GET" => Effect(d, r)[k] = d[k]
         /\ Effect(d, r)[r.key] = CASE r.op = "GET" -> d[r.key]
                                    [] r.op = "PUT" -> r.value
                                    [] r.op = "DELETE" -> NoValue
BY DEF Effect, Codes, Maps

LEMMA SameOutcome ==
  ASSUME NEW d \in Maps, NEW e \in Maps, NEW r, r.op \in Codes, r.key \in Keys, d[r.key] = e[r.key]
  PROVE  /\ Outcome(d, r) = Outcome(e, r)
         /\ \A k \in Keys : d[k] = e[k] => Effect(d, r)[k] = Effect(e, r)[k]
<1>1. Outcome(d, r) = Outcome(e, r)
      BY DEF Outcome, Codes
<1>2. ASSUME NEW k \in Keys, d[k] = e[k] PROVE Effect(d, r)[k] = Effect(e, r)[k]
      <2>1. CASE k = r.key
            BY <2>1, OnlyItsKey DEF Codes
      <2>2. CASE k # r.key
            BY <1>2, <2>2, OnlyItsKey
      <2> QED BY <2>1, <2>2
<1> QED BY <1>1, <1>2

LEMMA OwnKey ==
  ASSUME InProtocol, NEW c \in Clients
  PROVE  /\ Meant(c).op \in Codes /\ Meant(c).op = req[c].op /\ Meant(c).key \in Keys
         /\ KeysOf(c) \subseteq Keys
         /\ req[c] \in RequestsOf[c] => Meant(c).key \in KeysOf(c)
         /\ dict \in Maps /\ known[c] \in Maps
         /\ Expected(c) \in Answers /\ (req[c].op = "PUT" => Expected(c).ok)
<1>1. req[c] \in Requests /\ dict \in Maps /\ known[c] \in Maps
      BY DEF InProtocol, TalkTypes
<1>2. /\ Meant(c).op \in Codes /\ Meant(c).op = req[c].op /\ Meant(c).key \in Keys
      /\ Meant(c).value \in MaybeValue /\ Meant(c).key = Nulled[req[c].key]
      BY <1>1, Meanings
<1>3. KeysOf(c) \subseteq Keys
      <2>1. \A r \in RequestsOf[c] : r.key \in Keys
            BY ClientAssumption DEF Requests
      <2> QED BY <2>1, ClientAssumption DEF KeysOf
<1>4. req[c] \in RequestsOf[c] => Meant(c).key \in KeysOf(c)
      BY <1>2 DEF KeysOf
<1>5. Expected(c) \in Answers /\ (req[c].op = "PUT" => Expected(c).ok)
      BY <1>1, <1>2, Effects DEF Expected
<1> QED BY <1>1, <1>2, <1>3, <1>4, <1>5

LEMMA NotOfOthers ==
  ASSUME KeysOfTheirOwn, InProtocol, NEW c \in Clients, NEW d \in Clients, c # d,
         req[c] \in RequestsOf[c], NEW k \in KeysOf(d)
  PROVE  Effect(dict, Meant(c))[k] = dict[k]
<1>1. PICK r \in RequestsOf[d] : k = Nulled[r.key]
      BY DEF KeysOf
<1>2. req[c].op # "GET" => k # Meant(c).key
      <2>1. Meant(c).key = Nulled[req[c].key]
            BY Meanings DEF InProtocol, TalkTypes
      <2> QED BY <1>1, <2>1 DEF KeysOfTheirOwn
<1> QED BY <1>2, OwnKey, OnlyItsKey

(* Where requests are whole nothing is lost. *)
LEMMA WholeIsExact ==
  ASSUME InProtocol, listening, Whole, NEW c \in Clients PROVE Exact(c)
BY DEF InProtocol, Protocol, Lost, Whole

LEMMA AgreedConnect ==
  ASSUME NEW c \in Clients, InProtocol, Agreed(c), Connect(c), UNCHANGED serverVars
  PROVE  Agreed(c)'
<1>1. place[c] = "out" /\ place' = [place EXCEPT ![c] = "next"] /\ UNCHANGED <<known, dict>>
      BY DEF Connect, Move, serverVars
<1>2. place'[c] = "next"
      BY <1>1 DEF InProtocol, Accounted, Accounts, AccountTypes
<1>3. AsKnown(c)'
      BY <1>1 DEF Agreed, AsKnown, KeysOf
<1> QED BY <1>2, <1>3 DEF Agreed

LEMMA AgreedAsk ==
  ASSUME NEW c \in Clients, InProtocol, listening, Whole, Agreed(c),
         Ask(c) \/ SendKey(c) \/ SendValue(c), UNCHANGED serverVars
  PROVE  Agreed(c)'
<1>1. PICK piece, there : /\ there \in {"key", "value", "status"}
                          /\ conn' = Sent(c, piece) /\ place' = [place EXCEPT ![c] = there]
      BY DEF Ask, SendKey, SendValue, Move
<1>2. /\ Open(c) /\ place[c] \in {"next", "key", "value"} /\ UNCHANGED <<known, dict>>
      BY DEF Ask, SendKey, SendValue, Lives, serverVars
<1>3. place'[c] = there
      BY <1>1 DEF InProtocol, Accounted, Accounts, AccountTypes
<1>4. AsKnown(c)'
      BY <1>2 DEF Agreed, AsKnown, KeysOf
<1>5. conn[c].down = <<>>
      BY <1>2, WholeIsExact DEF Exact, Quietly, Asking
<1>6. conn'[c].down = <<>>
      BY <1>1, <1>5, AfterSent DEF InProtocol, Accounted, Accounts
<1> QED BY <1>1, <1>3, <1>4, <1>6 DEF Agreed

(* The answer is what c expects, and it knows then what its keys hold.     *)
LEMMA ReturnsWell ==
  ASSUME NEW c \in Clients, InProtocol, AsExpected(c), NEW res, Return(c, res),
         res.status = IF Expected(c).ok THEN "SUCCESS" ELSE "ERROR",
         req[c].op = "GET" => res.value = Expected(c).value,
         UNCHANGED <<dict, req>>
  PROVE  Agreed(c)'
<1>1. Passes(c, res)
      BY DEF Passes
<1>2. place' = [place EXCEPT ![c] = "next"] /\ known' = [known EXCEPT ![c] = Effect(@, Meant(c))]
      BY <1>1 DEF Return, Move
<1>3. place'[c] = "next" /\ known'[c] = Effect(known[c], Meant(c))
      BY <1>2 DEF InProtocol, Accounted, Accounts, AccountTypes, TalkTypes
<1>4. AsKnown(c)'
      BY <1>3 DEF AsExpected, AsKnown, KeysOf
<1> QED BY <1>3, <1>4 DEF Agreed

LEMMA AgreedStatus ==
  ASSUME NEW c \in Clients, InProtocol, listening, Agreed(c), ReadStatus(c), UNCHANGED serverVars
  PROVE  Agreed(c)'
<1>1. /\ Open(c) /\ place[c] = "status" /\ Arrived(c) /\ conn' = Fetched(c)
      /\ UNCHANGED <<dict, req>>
      BY DEF ReadStatus, Lives, Receive, CutShort, serverVars
<1>2. conn[c].down = Pieces(req[c].op, Expected(c)) /\ AsExpected(c)
      BY <1>1 DEF Agreed, Arrived
<1>3. Expected(c) \in Answers /\ (req[c].op = "PUT" => Expected(c).ok)
      BY OwnKey
<1>4. /\ result'[c].status = IF Expected(c).ok THEN "SUCCESS" ELSE "ERROR"
      /\ IF req[c].op = "GET" \/ ~Expected(c).ok
           THEN Tail(conn[c].down) = <<Expected(c).value>> /\ Move(c, "text") /\ UNCHANGED known
           ELSE Tail(conn[c].down) = <<>> /\ Return(c, result'[c])
      BY <1>2, <1>3, StatusRead
<1>5. CASE req[c].op = "GET" \/ ~Expected(c).ok
      <2>1. place'[c] = "text"
            BY <1>4, <1>5 DEF Move, InProtocol, Accounted, Accounts, AccountTypes
      <2>2. conn'[c].down = <<Expected(c).value>>
            BY <1>1, <1>4, <1>5, AfterFetched DEF InProtocol, Accounted, Accounts
      <2>3. UNCHANGED known
            BY <1>4, <1>5
      <2>4. Meant(c)' = Meant(c)
            BY <1>1, SameMeaning
      <2>5. Expected(c)' = Expected(c)
            BY <2>3, <2>4 DEF Expected
      <2>6. AsExpected(c)'
            BY <1>1, <1>2, <2>3, <2>4 DEF AsExpected, KeysOf
      <2> QED BY <1>4, <2>1, <2>2, <2>5, <2>6 DEF Agreed
<1>6. CASE ~(req[c].op = "GET" \/ ~Expected(c).ok)
      <2>1. PICK res : res = result'[c]
            OBVIOUS
      <2> QED BY <1>1, <1>2, <1>4, <1>6, <2>1, ReturnsWell
<1> QED BY <1>5, <1>6

LEMMA AgreedText ==
  ASSUME NEW c \in Clients, InProtocol, listening, Agreed(c), ReadText(c), UNCHANGED serverVars
  PROVE  Agreed(c)'
<1>1. /\ Open(c) /\ place[c] = "text"
      /\ result' = [result EXCEPT ![c] = [result[c] EXCEPT !.value = Head(conn[c].down)]]
      /\ Return(c, result'[c]) /\ UNCHANGED <<dict, req>>
      BY DEF ReadText, Lives, Receive, CutShort, serverVars
<1>2. /\ AsExpected(c) /\ conn[c].down = <<Expected(c).value>>
      /\ result[c].status = IF Expected(c).ok THEN "SUCCESS" ELSE "ERROR"
      BY <1>1 DEF Agreed
<1>3. PICK res : res = result'[c]
      OBVIOUS
<1>4. res.value = Head(conn[c].down) /\ res.status = result[c].status
      BY <1>1, <1>3 DEF InProtocol, TalkTypes, Results
<1>5. res.value = Expected(c).value
      BY <1>2, <1>4, Tuples
<1> QED BY <1>1, <1>2, <1>3, <1>4, <1>5, ReturnsWell

LEMMA AgreedLeave ==
  ASSUME NEW c \in Clients, InProtocol, Agreed(c), Leave(c) \/ Die(c), UNCHANGED serverVars
  PROVE  Agreed(c)'
<1>1. /\ conn' = Closed(c) /\ place[c] # "failed" /\ place[c] # "out"
      /\ UNCHANGED place \/ place' = [place EXCEPT ![c] = "done"]
      <2>1. place = [place EXCEPT ![c] = place[c]]
            BY DEF InProtocol, Accounted, Accounts, AccountTypes
      <2> QED BY <2>1 DEF Leave, Die, Lives, clientVars, Agreed
<1>2. ~Open(c)'
      BY <1>1, AfterClosed DEF InProtocol, Accounted, Accounts, Open
<1>3. place'[c] # "failed" /\ place'[c] # "out"
      BY <1>1 DEF InProtocol, Accounted, Accounts, AccountTypes
<1> QED BY <1>2, <1>3 DEF Agreed

(* A step of one client is none of the others'. *)
LEMMA OthersTalk ==
  ASSUME NEW c \in Clients, NEW d \in Clients \ {c}, InProtocol, ClientStep(c), UNCHANGED serverVars
  PROVE  /\ UNCHANGED dict /\ Undisturbed(d)
         /\ place'[d] = place[d] /\ req'[d] = req[d]
         /\ result'[d] = result[d] /\ known'[d] = known[d]
<1> USE DEF InProtocol, Accounted, Accounts
<1>1. UNCHANGED dict
      BY DEF serverVars
<1>2. Undisturbed(d)
      <2>1. CASE Connect(c)
            <3>1. conn' = [conn EXCEPT ![c]["end"] = "open"]
                  BY <2>1 DEF Connect, Connected
            <3>2. "end" \in Fields /\ "down" \in Fields /\ "reset" \in Fields /\ AccountTypes
                  BY DEF Fields
            <3>3. \A e \in Clients : \A f \in Fields :
                    conn'[e][f] = IF e = c /\ f = "end" THEN "open" ELSE conn[e][f]
                  BY <3>1, <3>2, FieldSet, ZenonT(40)
            <3>4. conn'[d]["down"] = conn[d]["down"] /\ conn'[d]["end"] = conn[d]["end"]
                  BY <3>2, <3>3
            <3>5. conn'[d]["reset"] = conn[d]["reset"]
                  BY <3>2, <3>3
            <3> QED BY <3>4, <3>5 DEF Undisturbed, Open
      <2>2. CASE Ask(c) \/ SendKey(c) \/ SendValue(c)
            <3>1. PICK piece : conn' = Sent(c, piece)
                  BY <2>2 DEF Ask, SendKey, SendValue
            <3> QED BY <3>1, AfterSent DEF Undisturbed, Open
      <2>3. CASE ReadStatus(c) \/ ReadText(c)
            <3>1. UNCHANGED conn \/ conn' = Fetched(c)
                  BY <2>3 DEF ReadStatus, ReadText, Receive
            <3> QED BY <3>1, AfterFetched DEF Undisturbed, Open
      <2>4. CASE Leave(c) \/ Die(c)
            <3>1. conn' = Closed(c)
                  BY <2>4 DEF Leave, Die
            <3> QED BY <3>1, AfterClosed DEF Undisturbed, Open
      <2> QED BY <2>1, <2>2, <2>3, <2>4 DEF ClientStep, Talk
<1>3. /\ place \in [Clients -> Stages] /\ req \in [Clients -> Requests]
      /\ result \in [Clients -> Results] /\ known \in [Clients -> Maps]
      BY DEF AccountTypes, TalkTypes
<1>4. place'[d] = place[d] /\ req'[d] = req[d]
      BY <1>3 DEF ClientStep, Talk, Connect, Ask, SendKey, SendValue, ReadStatus, ReadText, Return,
                  Leave, Die, Move, clientVars
<1>5. result'[d] = result[d] /\ known'[d] = known[d]
      BY <1>3 DEF ClientStep, Talk, Connect, Ask, SendKey, SendValue, ReadStatus, ReadText, Return,
                  Receive, Leave, Die, Move, clientVars
<1> QED BY <1>1, <1>2, <1>4, <1>5

LEMMA AgreedClient ==
  ASSUME NEW c \in Clients, InProtocol, listening, Whole, \A d \in Clients : Agreed(d),
         ClientStep(c), UNCHANGED serverVars
  PROVE  \A d \in Clients : Agreed(d)'
<1>1. Agreed(c)'
      BY AgreedConnect, AgreedAsk, AgreedStatus, AgreedText, AgreedLeave DEF ClientStep, Talk
<1>2. ASSUME NEW d \in Clients \ {c} PROVE Agreed(d)'
      BY OthersTalk, AgreedStill DEF Undisturbed
<1> QED BY <1>1, <1>2

(* A call answers one client, and touches the keys of no other. *)
LEMMA AgreedCall ==
  ASSUME KeysOfTheirOwn, InProtocol, listening, Whole, Whole', NEW w \in Workers, Call(w),
         UNCHANGED clientVars, \A d \in Clients : Agreed(d)
  PROVE  \A d \in Clients : Agreed(d)'
<1>1. PICK c \in Clients : c = Fd(w)
      BY InService DEF Call
<1>2. /\ At(w, "call") /\ pc[w] = "call" /\ \E pieces : conn' = Written(c, pieces)
      BY <1>1 DEF Call, At, Reply
<1>3. Serves(w, c) /\ Exact(c)
      BY <1>1, <1>2, InService, WholeIsExact DEF Serving, At
<1>4. Asking(c) /\ place[c] = "status" /\ conn[c].down = <<>> /\ req[c] \in RequestsOf[c]
      BY <1>2, <1>3, CallIsMeant DEF Asking
<1>5. /\ dict' = Effect(dict, Meant(c))
      /\ \/ conn'[c].down = <<>>
         \/ conn'[c].down = Pieces(req[c].op, Outcome(dict, Meant(c)))
      BY <1>1, <1>4, AnswerIsMeant
<1>6. \A d \in Clients : /\ (Open(d)' => Open(d))
                         /\ d # c => conn'[d].down = conn[d].down
      BY <1>2, AfterWritten DEF InProtocol, Accounted, Accounts, Open
<1>7. ASSUME NEW d \in Clients \ {c} PROVE Agreed(d)'
      <2>1. \A k \in KeysOf(d) : dict'[k] = dict[k]
            BY <1>4, <1>5, NotOfOthers
      <2> QED BY <1>6, <2>1, AgreedStill DEF clientVars
<1>8. Agreed(c)'
      <2>1. place'[c] = "status" /\ UNCHANGED <<req, known>> /\ Meant(c)' = Meant(c)
            BY <1>4, SameMeaning DEF clientVars
      <2>2. CASE ~Open(c)
            BY <1>6, <2>1, <2>2 DEF Agreed
      <2>3. CASE Open(c)
            <3>1. AsKnown(c)
                  <4>1. Pieces(req[c].op, Expected(c)) # <<>>
                        BY OwnKey, PiecesOf
                  <4> QED BY <1>4, <2>3, <4>1 DEF Agreed
            <3>2. /\ dict \in Maps /\ known[c] \in Maps /\ Meant(c).op \in Codes /\ Meant(c).key \in Keys
                  /\ KeysOf(c) \subseteq Keys /\ dict[Meant(c).key] = known[c][Meant(c).key]
                  BY <1>4, <3>1, OwnKey DEF AsKnown
            <3>3. /\ Outcome(dict, Meant(c)) = Expected(c)
                  /\ \A k \in Keys : dict[k] = known[c][k] =>
                       Effect(dict, Meant(c))[k] = Effect(known[c], Meant(c))[k]
                  BY <3>2, SameOutcome DEF Expected
            <3>4. AsExpected(c)'
                  BY <1>5, <2>1, <3>1, <3>2, <3>3 DEF AsKnown, AsExpected, KeysOf
            <3>5. Expected(c)' = Expected(c)
                  BY <2>1 DEF Expected
            <3>6. conn'[c].down = Pieces(req[c].op, Expected(c))
                  <4>1. PICK pieces : pieces = Pieces(req[c].op, Expected(c))
                        OBVIOUS
                  <4>2. message[w].op = req[c].op /\ Outcome(dict, message[w]) = Outcome(dict, Meant(c))
                        BY <1>2, <1>3, CallIsMeant
                  <4>3. conn' = Written(c, pieces)
                        BY <1>1, <3>3, <4>1, <4>2 DEF Call, Reply
                  <4>4. conn'[c].down = conn[c].down \o pieces
                        BY <2>3, <4>3, AfterWritten DEF InProtocol, Accounted, Accounts
                  <4>5. pieces \in Seq(Pieced)
                        BY <4>1, OwnKey, PiecesOf
                  <4> QED BY <1>4, <4>1, <4>4, <4>5
            <3> QED BY <2>1, <3>4, <3>5, <3>6 DEF Agreed
      <2> QED BY <2>2, <2>3
<1> QED BY <1>7, <1>8

(* What has been cut off or reset stays so. *)
LEMMA WholeBefore ==
  ASSUME InProtocol, [Next]_vars, Whole', listening' PROVE Whole /\ listening
<1> USE DEF InProtocol, Accounted, Accounts
<1>1. listening
      BY DEF Next, vars, sockVars, ServerNext, MainStep, Accept, Assign, TryNext, Grow, HandlerStep,
             HandlerLock, HandlerClean, HandlerExit, Signal, WorkerStep, Wait, Enter, DropEvents,
             ReadCode, Close, Refuse, ReadKey, ReadValue, Call, Reply, TakeOverAll, TakeOverFails,
             TakeOver, ClientStep, Talk, Connect, Ask, SendKey, SendValue, ReadStatus, ReadText,
             Leave, Die, Reset
<1>2. ASSUME NEW c \in Clients, CutOff(c) \/ conn[c].reset PROVE FALSE
      <2>1. ~Open(c) /\ place[c] # "out"
            <3>1. conn[c].reset => conn[c].end \in {"closed", "over"}
                  BY DEF TalkTypes
            <3>2. place[c] = "out" <=> conn[c].end = "unused"
                  BY DEF Somewhere
            <3> QED BY <1>2, <3>1, <3>2 DEF CutOff, Open
      <2>2. ASSUME Undisturbed(c), place'[c] = place[c] PROVE FALSE
            BY <1>2, <2>2 DEF Undisturbed, CutOff, Whole
      <2>3. CASE UNCHANGED vars
            BY <2>2, <2>3 DEF vars, sockVars, clientVars, Undisturbed, Open
      <2>4. CASE ServerNext /\ UNCHANGED clientVars
            <3>1. CASE Undisturbed(c)
                  BY <2>2, <2>4, <3>1 DEF clientVars
            <3>2. CASE \E w \in Workers : Fd(w) = c /\ (Refuse(w) \/ Call(w))
                  <4>1. \E pieces : conn' = Written(c, pieces)
                        BY <3>2 DEF Refuse, Call, Reply
                  <4>2. UNCHANGED conn
                        BY <2>1, <4>1 DEF Written
                  <4> QED BY <2>2, <2>4, <4>2 DEF clientVars, Undisturbed, Open
            <3> QED BY <2>4, <3>1, <3>2, OnlyAnswers
      <2>5. ASSUME NEW d \in Clients, ClientStep(d), UNCHANGED serverVars PROVE FALSE
            <3>1. d # c
                  BY <2>1, <2>5 DEF ClientStep, Talk, Connect, Ask, SendKey, SendValue, ReadStatus,
                                    ReadText, Leave, Die, Lives
            <3> QED BY <2>2, <2>5, <3>1, OthersTalk
      <2>6. ASSUME NEW d \in Clients, Reset(d) PROVE FALSE
            <3>1. conn' = [conn EXCEPT ![d]["reset"] = TRUE]
                  BY <2>6 DEF Reset
            <3>2. "reset" \in Fields /\ AccountTypes
                  BY DEF Fields
            <3>3. conn'[d]["reset"] = TRUE
                  BY <3>1, <3>2, FieldSet
            <3> QED BY <3>3 DEF Whole
      <2> QED BY <2>3, <2>4, <2>5, <2>6 DEF Next
<1> QED BY <1>1, <1>2 DEF Whole

LEMMA AllAgreedNext ==
  ASSUME KeysOfTheirOwn, InProtocol, AllAgreed, [Next]_vars PROVE AllAgreed'
<1> SUFFICES ASSUME listening', Whole' PROVE \A c \in Clients : Agreed(c)'
    BY DEF AllAgreed
<1>1. listening /\ Whole
      BY WholeBefore
<1>2. \A c \in Clients : Agreed(c)
      BY <1>1 DEF AllAgreed
<1>3. ASSUME NEW c \in Clients, Undisturbed(c), UNCHANGED <<dict, clientVars>> PROVE Agreed(c)'
      BY <1>2, <1>3, AgreedStill DEF Undisturbed, clientVars
<1>4. CASE UNCHANGED vars
      BY <1>3, <1>4 DEF vars, sockVars, serverVars, Undisturbed, Open
<1>5. CASE ServerNext /\ UNCHANGED clientVars
      <2>1. CASE \E w \in Workers : Call(w)
            BY <1>1, <1>2, <1>5, <2>1, AgreedCall
      <2>2. CASE ~\E w \in Workers : Call(w)
            <3>1. UNCHANGED dict
                  BY <1>5, <2>2, OnlyCalls
            <3>2. \A c \in Clients : Undisturbed(c)
                  <4> SUFFICES ASSUME NEW c \in Clients, ~Undisturbed(c) PROVE FALSE
                      OBVIOUS
                  <4>1. PICK w \in Workers : Fd(w) = c /\ Refuse(w)
                        BY <1>5, <2>2, OnlyAnswers
                  <4>2. Call(w)
                        BY <1>5, <4>1, AnswerIsMeant
                  <4> QED BY <2>2, <4>2
            <3> QED BY <1>3, <1>5, <3>1, <3>2
      <2> QED BY <2>1, <2>2
<1>6. CASE (\E c \in Clients : ClientStep(c)) /\ UNCHANGED serverVars
      BY <1>1, <1>2, <1>6, AgreedClient
<1>7. ASSUME NEW d \in Clients, Reset(d) PROVE FALSE
      <2>1. conn' = [conn EXCEPT ![d]["reset"] = TRUE]
            BY <1>7 DEF Reset
      <2>2. "reset" \in Fields /\ AccountTypes
            BY DEF Fields, InProtocol, Accounted, Accounts
      <2>3. conn'[d]["reset"] = TRUE
            BY <2>1, <2>2, FieldSet
      <2> QED BY <2>3 DEF Whole
<1> QED BY <1>4, <1>5, <1>6, <1>7 DEF Next

(* auto_testing does not stop at a wrong answer: with keys nobody else      *)
(* changes every client gets the answers a lone client would, for any      *)
(* number of clients, workers and requests, while requests come whole and  *)
(* the server runs.                                                        *)
THEOREM AnswersAreExpected ==
  ASSUME KeysOfTheirOwn PROVE Spec => []AnswersExpected
<1>1. InProtocol /\ AllAgreed /\ [Next]_vars => (InProtocol /\ AllAgreed)'
      BY InProtocolNext, AllAgreedNext
<1>2. Init => InProtocol /\ AllAgreed
      BY TalkInit, AccountsInit, QuietInit, AllAgreedInit DEF InProtocol, Accounted
<1>3. AllAgreed => AnswersExpected
      BY DEF AllAgreed, Agreed, AnswersExpected
<1> QED BY <1>1, <1>2, <1>3, PTL DEF Spec
=============================================================================

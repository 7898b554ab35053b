----------------------------- MODULE KVClients -----------------------------
(***************************************************************************)
(* KVClientLibrary.hpp and KVClient.cpp: clients that send the requests of *)
(* a file one after the other over one connection each, and compare what   *)
(* the library hands out with the answers that are expected when nobody    *)
(* else uses their keys (auto_testing).                                    *)
(***************************************************************************)
EXTENDS Sockets, KVRequests

CONSTANTS RequestsOf,    \* RequestsOf[c]: the requests in the file of client c
          MaxRequests,   \* MaxRequests[c]: and how many there are at most
          Nulled         \* Nulled[k]: the key with zeros behind its first zero

ASSUME ClientAssumption == /\ RequestsOf \in [Clients -> SUBSET Requests]
                           /\ MaxRequests \in [Clients -> Nat]
                           /\ Nulled \in [Keys -> Keys]

VARIABLES place,         \* where client c is; "failed" after a wrong answer
          req,           \* the request it is busy with
          asked,         \* how many it has sent
          result,        \* resultStatusCode and resultValue of its connection
          known          \* what its keys hold, if all has gone well

clientVars == <<place, req, asked, result, known>>

NoResult == [status |-> "none", value |-> NoValue]
NoRequest == CHOOSE r \in Requests : TRUE

ClientInit == /\ place = [c \in Clients |-> "out"]
              /\ req = [c \in Clients |-> NoRequest]
              /\ asked = [c \in Clients |-> 0]
              /\ result = [c \in Clients |-> NoResult]
              /\ known = [c \in Clients |-> [k \in Keys |-> NoValue]]

Lives(c, there) == Open(c) /\ place[c] = there
Move(c, there)  == place' = [place EXCEPT ![c] = there]

Connect(c) == /\ place[c] = "out" /\ listening
              /\ conn' = Connected(c) /\ backlog' = Append(backlog, c)
              /\ Move(c, "next")
              /\ UNCHANGED <<listening, req, asked, result, known>>

(* The first write of GET, PUT and DELETE. *)
Ask(c) == /\ Lives(c, "next") /\ asked[c] < MaxRequests[c]
          /\ \E r \in RequestsOf[c] : req' = [req EXCEPT ![c] = r] /\ conn' = Sent(c, r.op)
          /\ asked' = [asked EXCEPT ![c] = @ + 1]
          /\ Move(c, "key")
          /\ UNCHANGED <<listening, backlog, result, known>>

fix_key_nulling_forgotten(k) == k
fix_key_nulling(k) == Nulled[k]

SendKey(c) == /\ Lives(c, "key")
              /\ conn' = Sent(c, fix_key_nulling(req[c].key))
              /\ Move(c, IF req[c].op = "PUT" THEN "value" ELSE "status")
              /\ UNCHANGED <<listening, backlog, req, asked, result, known>>

SendValue(c) == /\ Lives(c, "value")
                /\ conn' = Sent(c, req[c].value)
                /\ Move(c, "status")
                /\ UNCHANGED <<listening, backlog, req, asked, result, known>>

-----------------------------------------------------------------------------
(* The request as the file means it, and its outcome for a lone client.    *)
Meant(c)    == [req[c] EXCEPT !.key = Nulled[@]]
Expected(c) == Outcome(known[c], Meant(c))

(* What auto_testing lets pass. *)
Passes(c, res) ==
  \/ res.status = "SUCCESS" /\ (req[c].op = "GET" => res.value = Expected(c).value)
  \/ res.status = "ERROR" /\ ~Expected(c).ok

(* The library returns with res. *)
Return(c, res) ==
  IF Passes(c, res)
    THEN Move(c, "next") /\ known' = [known EXCEPT ![c] = Effect(@, Meant(c))]
    ELSE Move(c, "failed") /\ UNCHANGED known

(* A read of the library that gets nothing leaves the last result there. *)
Receive(c, old, new) ==
  \/ Arrived(c) /\ result' = [result EXCEPT ![c] = new] /\ conn' = Fetched(c)
  \/ CutShort(c) /\ result' = [result EXCEPT ![c] = old] /\ UNCHANGED conn

HasText(c, status) == req[c].op = "GET" \/ (req[c].op = "DELETE" /\ status = "ERROR")

ReadStatus(c) ==
  /\ Lives(c, "status")
  /\ Receive(c, result[c], [result[c] EXCEPT !.status = Head(conn[c].down)])
  /\ IF HasText(c, result'[c].status)
       THEN Move(c, "text") /\ UNCHANGED known
       ELSE Return(c, result'[c])
  /\ UNCHANGED <<listening, backlog, req, asked>>

ReadText(c) ==
  /\ Lives(c, "text")
  /\ Receive(c, result[c], [result[c] EXCEPT !.value = Head(conn[c].down)])
  /\ Return(c, result'[c])
  /\ UNCHANGED <<listening, backlog, req, asked>>

(* The end of the file, or exit(1) after a wrong answer. *)
Leave(c) == /\ Lives(c, "next") \/ Lives(c, "failed")
            /\ conn' = Closed(c)
            /\ place' = [place EXCEPT ![c] = IF @ = "next" THEN "done" ELSE @]
            /\ UNCHANGED <<listening, backlog, req, asked, result, known>>

(* The process is killed, for instance by SIGPIPE when it writes to a      *)
(* server that has gone.                                                   *)
Die(c) == /\ Open(c) /\ place[c] \in {"key", "value", "status", "text"}
          /\ c \in Frail \/ (~listening /\ place[c] \in {"key", "value"})
          /\ conn' = Closed(c)
          /\ UNCHANGED <<listening, backlog, clientVars>>

(* The middle of a request: the library goes on by itself. *)
Talk(c) == SendKey(c) \/ SendValue(c) \/ ReadStatus(c) \/ ReadText(c)

ClientStep(c) == Connect(c) \/ Ask(c) \/ Talk(c) \/ Leave(c) \/ Die(c)
=============================================================================

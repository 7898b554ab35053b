----------------------------- MODULE KVService -----------------------------
(***************************************************************************)
(* The server and its clients together: the threads of KVServer.cpp and    *)
(* the programs of KVClient.cpp, joined by the connections of Sockets, and *)
(* what they owe each other.                                               *)
(***************************************************************************)
EXTENDS KVServer, KVClients

vars == <<sockVars, serverVars, clientVars>>

Init == SockInit /\ ServerInit /\ ClientInit

Next == \/ ServerNext /\ UNCHANGED clientVars
        \/ (\E c \in Clients : ClientStep(c)) /\ UNCHANGED serverVars
        \/ (\E c \in Clients : Reset(c)) /\ UNCHANGED <<serverVars, clientVars>>

Spec == Init /\ [][Next]_vars

(* Every thread is scheduled, and a client in the middle of a request goes *)
(* on with it; clients need not ask, leave or die, nor the signal come.    *)
(* The handler's lock() is fair as mutexes are: a worker gives             *)
(* mutex_serving_clients back after each wakeup.                           *)
Fairness ==
  /\ WF_vars(MainStep /\ UNCHANGED clientVars)
  /\ WF_vars((HandlerClean \/ HandlerExit) /\ UNCHANGED clientVars)
  /\ SF_vars(HandlerLock /\ UNCHANGED clientVars)
  /\ \A w \in Workers : WF_vars(WorkerStep(w) /\ UNCHANGED clientVars)
  /\ \A c \in Clients : WF_vars(Talk(c) /\ UNCHANGED serverVars)

FairSpec == Spec /\ Fairness

-----------------------------------------------------------------------------
Pieced == {"GET", "PUT", "DELETE", "SUCCESS", "ERROR"} \cup Keys \cup MaybeValue

(* The one invariant about types: the round robin of main_thread           *)
(* (KVServer.cpp:378-417) never leaves the list of workers, and the rest   *)
(* of the state stays within its sets.                                     *)
TypeOK ==
  /\ Range(backlog) \cup {hand} \subseteq Clients \cup {None}
  /\ \A c \in Clients : Range(conn[c].up) \cup Range(conn[c].down) \subseteq Pieced
  /\ dict \in [Keys -> MaybeValue]
  /\ poolSize \in Workers /\ listIter \in 1..(poolSize + 1) /\ tried \in 0..poolSize
  /\ pc \in [Workers -> Places]
  /\ message \in [Workers -> [op : Codes \cup {"none"}, key : Keys, value : MaybeValue]]
  /\ \A w \in Workers : watched[w] \cup Range(newFds[w]) \subseteq Clients
  /\ count \in [Workers -> 0..Cardinality(Clients)]
  /\ serving \in [Workers -> {"nobody", "worker", "handler"}]
  /\ handler \in Workers \cup {Main, None} /\ cleaned \in 0..poolSize

(* The client died between the writes of one request. *)
CutOff(c) == ~Open(c) /\ place[c] \in {"key", "value"}

(* No request has been cut off, no connection reset: the server has read   *)
(* whole requests only.  It looks at the result of read() for the code     *)
(* alone and serves a request cut off with what the message still holds of *)
(* another client's.                                                       *)
Whole == \A c \in Clients : ~CutOff(c) /\ ~conn[c].reset

(* No client changes a key that another one uses. *)
KeysOfTheirOwn ==
  \A c, d \in Clients : c # d =>
    \A r \in RequestsOf[c], s \in RequestsOf[d] : s.op # "GET" => Nulled[r.key] # Nulled[s.key]

(* auto_testing (KVClient.cpp:95-173) never stops at a wrong answer while  *)
(* the server runs: with keys of its own and whole requests every client   *)
(* gets the answer a lone client would, whichever worker and message       *)
(* object serves it, with whatever the two held before, and also when the  *)
(* file names a key with bytes behind its first zero.                      *)
AnswersExpected == listening /\ Whole => \A c \in Clients : place[c] # "failed"

(* The map changes only by a request a client is waiting for, as that      *)
(* client means it, and what goes back is its answer at that instant: the  *)
(* one KVMessage of a worker (KVServer.cpp:152) never mixes the requests   *)
(* of two clients, and no request is applied twice or answered twice.      *)
AppliesWhatWasSent ==
  [][Whole' =>
      /\ dict' # dict => \E c \in Clients : place[c] = "status" /\ dict' = Effect(dict, Meant(c))
      /\ \A c \in Clients : conn[c].down = <<>> /\ conn'[c].down # <<>> =>
            /\ place[c] = "status"
            /\ dict' = Effect(dict, Meant(c))
            /\ conn'[c].down = Pieces(req[c].op, Outcome(dict, Meant(c)))]_vars

(* Both ends agree where one message ends and the next begins: between two *)
(* requests nothing is left in the stream in either direction, and where   *)
(* the library goes on to read a text (KVClientLibrary.hpp:96, 122)        *)
(* exactly the text is there to come.  Nothing in the protocol would       *)
(* resynchronise the two ends.                                             *)
InStep ==
  \A c \in Clients : Open(c) /\ listening =>
    /\ place[c] \in {"next", "failed"} => conn[c].up = <<>> /\ conn[c].down = <<>>
    /\ place[c] = "text" => Len(conn[c].down) = 1 /\ conn[c].up = <<>>

Queued(c) == c \in Range(backlog)
HandedTo(w, c) == c \in Range(newFds[w])
HomesOf(c) == {w \in Workers : HandedTo(w, c) \/ c \in watched[w]}
                \cup (IF c = hand THEN {Main} ELSE {})

(* A connection is in one place at a time, from accept() until the worker  *)
(* closes it (KVServer.cpp:365-417, 181, 248-265), and client_fds_count,   *)
(* which the main thread reads while the worker changes it without the     *)
(* mutex, is the number of connections in the worker's epoll set.          *)
ConnectionsAccounted ==
  /\ \A c \in Clients : Cardinality(HomesOf(c)) <= 1
  /\ \A c \in Clients : Open(c) /\ HomesOf(c) = {} => Queued(c)
  /\ \A w \in Workers : count[w] = Cardinality(watched[w])

Inside == {"serve", "key", "value", "call"}

(* Once the handler of SIGINT (KVServer.cpp:425-443) on the main thread    *)
(* cleans the cache and ends the process, no worker is serving a request:  *)
(* none is cut off, and none changes the cache behind cache_clean.  On     *)
(* another thread the main thread goes on and may start one more worker.   *)
QuietShutdown ==
  phase \in {"cleaning", "exited"} /\ handler = Main => \A w \in Workers : pc[w] \notin Inside

-----------------------------------------------------------------------------
Waiting(c) == c = hand \/ Queued(c) \/ \E w \in Workers : HandedTo(w, c)

(* The server is stopping or has ended, or epoll_ctl has failed. *)
Failing == phase # "serving" \/ \E w \in Workers : newLocked[w]

(* Every connection gets into the epoll set of a worker that runs          *)
(* (KVServer.cpp:361-417, 248-265), however the round robin, the limit of  *)
(* clients per thread and the growth of the pool interleave.               *)
TakenOver == \A c \in Clients : Waiting(c) ~> ~Waiting(c) \/ Failing

Unanswered(c) == Lives(c, "status") /\ conn[c].down = <<>>

(* Every request sent is answered (KVServer.cpp:159-244), if no connection *)
(* has been reset: one that has makes the worker drop the events behind it *)
(* at every wakeup (KVServer.cpp:165-169).                                 *)
Answered == \A c \in Clients :
  Unanswered(c) ~> ~Unanswered(c) \/ Failing \/ \E d \in Clients : conn[d].reset

(* A SIGINT on the main thread ends the process, whatever the workers are  *)
(* busy with, one that has ended with a mutex locked included              *)
(* (KVServer.cpp:425-443, 257).                                            *)
ShutdownEnds == phase = "stopping" /\ handler = Main ~> phase \in {"exited", "killed"}
=============================================================================

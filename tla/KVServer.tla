------------------------------ MODULE KVServer ------------------------------
(***************************************************************************)
(* KVServer.cpp: the main thread, which accepts connections and hands them *)
(* to workers round robin; the workers, which serve one request per event  *)
(* and take over the connections handed to them; and the handler of        *)
(* SIGINT, which runs on top of the thread it interrupts.  The cache is    *)
(* one map here.                                                           *)
(***************************************************************************)
EXTENDS Sockets, KVRequests, FiniteSets, Functions

CONSTANTS Main,
          None,              \* no connection, no thread
          BlankKey,          \* 256 zero bytes
          InitialWorkers,    \* thread_pool_size_initial
          Growth,            \* thread_pool_growth
          Limit,             \* clients_per_thread
          EpollMayFail,      \* may epoll_ctl fail?
          SignalTargets      \* the threads SIGINT may interrupt

VARIABLES dict,              \* what the cache and the files hold
          poolSize,          \* thread_pool.size()
          hand,              \* client_fd_new: accepted, not handed to a worker yet
          listIter,          \* the position in the list of workers
          tried,             \* rr_iter: workers that had no room for it
          pc,                \* where a worker is; "unborn" before start_thread
          events,            \* what epoll_wait reported, the event in service first
          message,           \* the KVMessage of a worker
          watched,           \* the connections in its epoll set
          due,               \* those that were ready before and have not been reported
          count,             \* client_fds_count
          newFds,            \* client_fds_new
          newLocked,         \* mutex_new_client_fds is held by a thread that ended
          serving,           \* who holds mutex_serving_clients
          phase,             \* of the process
          handler,           \* the thread the handler of SIGINT runs on
          cleaned            \* so many workers' mutexes it has

mainVars   == <<poolSize, hand, listIter, tried>>
fdVars     == <<watched, due, count>>
workerVars == <<pc, events, message, fdVars, newFds, newLocked, serving>>
signalVars == <<phase, handler, cleaned>>
serverVars == <<dict, mainVars, workerVars, signalVars>>

(* The pool grows once at most for a connection, and not for the first.    *)
NewWorkers == IF Growth > 1 THEN Growth ELSE 1
Workers    == 1..(InitialWorkers + NewWorkers * (Cardinality(Clients) - 1))
Codes      == {"GET", "PUT", "DELETE"}
Places     == {"unborn", "wait", "enter", "serve", "key", "value", "call", "ended"}

ASSUME ServerAssumption ==
  /\ InitialWorkers \in Nat \ {0} /\ Growth \in Nat /\ Limit \in Nat \ {0}
  /\ IsFiniteSet(Clients) /\ Clients # {}
  /\ None \notin Clients \cup Workers \cup {Main}
  /\ BlankKey \in Keys
  /\ EpollMayFail \in BOOLEAN
  /\ Main \notin Workers /\ SignalTargets \subseteq Workers \cup {Main}

ServerInit ==
  /\ dict = [k \in Keys |-> NoValue]
  /\ poolSize = InitialWorkers /\ listIter = 1 /\ tried = 0 /\ hand = None
  /\ pc = [w \in Workers |-> IF w <= InitialWorkers THEN "wait" ELSE "unborn"]
  /\ events = [w \in Workers |-> <<>>]
  /\ message = [w \in Workers |-> [op |-> "none", key |-> BlankKey, value |-> NoValue]]
  /\ watched = [w \in Workers |-> {}]
  /\ due = [w \in Workers |-> {}]
  /\ count = [w \in Workers |-> 0]
  /\ newFds = [w \in Workers |-> <<>>]
  /\ newLocked = [w \in Workers |-> FALSE]
  /\ serving = [w \in Workers |-> "nobody"]
  /\ phase = "serving" /\ handler = None /\ cleaned = 0

(* A thread runs unless the process has ended or the handler is on top.    *)
Runs(t) == phase \in {"serving", "stopping", "cleaning"} /\ handler # t

-----------------------------------------------------------------------------
(* The main thread: accept, and the round robin over the workers.          *)
Accept == /\ Runs(Main) /\ hand = None /\ backlog # <<>>
          /\ hand' = Head(backlog) /\ backlog' = Tail(backlog)
          /\ tried' = 0
          /\ UNCHANGED <<listening, conn, dict, poolSize, listIter, workerVars, signalVars>>

(* listIter may stand behind the last worker; every test wraps it first.   *)
Candidate_unwrapped == listIter
Candidate == IF listIter > poolSize THEN 1 ELSE listIter

HasRoom(w) == count[w] < Limit

(* mutex_new_client_fds is held from the test to the push_back.            *)
Trying == Runs(Main) /\ hand # None /\ tried < poolSize /\ ~newLocked[Candidate]

Assign == /\ Trying /\ HasRoom(Candidate)
          /\ newFds' = [newFds EXCEPT ![Candidate] = Append(@, hand)]
          /\ listIter' = Candidate + 1 /\ hand' = None
          /\ UNCHANGED <<sockVars, dict, poolSize, tried, pc, events, message, fdVars,
                         newLocked, serving, signalVars>>

TryNext == /\ Trying /\ ~HasRoom(Candidate)
           /\ listIter' = Candidate + 1 /\ tried' = tried + 1
           /\ UNCHANGED <<sockVars, dict, poolSize, hand, workerVars, signalVars>>

Started_forgotten(w) == pc
Started(w) == [pc EXCEPT ![w] = "wait"]

(* Nobody has room: of the new workers the first is started, with the      *)
(* connection; the others only join the list.                              *)
Grow == /\ Runs(Main) /\ hand # None /\ tried = poolSize
        /\ poolSize' = poolSize + NewWorkers
        /\ newFds' = [newFds EXCEPT ![poolSize + 1] = <<hand>>]
        /\ pc' = Started(poolSize + 1)
        /\ listIter' = 1 /\ hand' = None
        /\ UNCHANGED <<sockVars, dict, tried, events, message, fdVars, newLocked,
                       serving, signalVars>>

MainStep == Accept \/ Assign \/ TryNext \/ Grow

-----------------------------------------------------------------------------
(* A worker.  epoll_wait reports as many connections that are ready as     *)
(* there are, Limit of them at most; those that were ready and left out at *)
(* an earlier wakeup come before those that have become ready since.       *)
At(w, there) == Runs(w) /\ pc[w] = there
Goto(w, there) == pc' = [pc EXCEPT ![w] = there]

ReadyFds(w) == {c \in watched[w] : Ready(c)}

(* epoll_wait reports the connections of batch, in this order. *)
Report(w, batch) ==
  LET first == due[w] \cap ReadyFds(w)
      left  == IF first \subseteq Range(batch) THEN ReadyFds(w) ELSE first
  IN /\ Range(batch) \subseteq first \/ first \subseteq Range(batch)
     /\ events' = [events EXCEPT ![w] =
          [i \in DOMAIN batch |-> [fd |-> batch[i], err |-> conn[batch[i]].reset]]]
     /\ due' = [due EXCEPT ![w] = left \ Range(batch)]

Wait(w) ==
  LET ready == Cardinality(ReadyFds(w))
      size  == IF ready < Limit THEN ready ELSE Limit
  IN /\ At(w, "wait") /\ ReadyFds(w) # {}
     /\ \E batch \in [1..size -> ReadyFds(w)] : IsInjective(batch) /\ Report(w, batch)
     /\ Goto(w, "enter")
     /\ UNCHANGED <<sockVars, dict, mainVars, message, watched, count, newFds,
                    newLocked, serving, signalVars>>

Enter(w) == /\ At(w, "enter") /\ serving[w] = "nobody"
            /\ serving' = [serving EXCEPT ![w] = "worker"]
            /\ Goto(w, "serve")
            /\ UNCHANGED <<sockVars, dict, mainVars, events, message, fdVars, newFds,
                           newLocked, signalVars>>

Event(w)   == Head(events[w])
Fd(w)      == Event(w).fd
Serving(w) == At(w, "serve") /\ events[w] # <<>>
NextEvent(w) == Goto(w, "serve") /\ events' = [events EXCEPT ![w] = Tail(@)]

(* An event with an error ends the loop over the events. *)
DropEvents(w) ==
  /\ Serving(w) /\ Event(w).err
  /\ events' = [events EXCEPT ![w] = <<>>]
  /\ UNCHANGED <<sockVars, dict, mainVars, pc, message, fdVars, newFds, newLocked,
                 serving, signalVars>>

(* read() into a field of the message: the piece, or nothing when the      *)
(* stream has ended or failed.  Its result is looked at only for the code. *)
ReadInto(w, field) ==
  \/ /\ HasData(Fd(w))
     /\ message' = [message EXCEPT ![w][field] = Head(conn[Fd(w)].up)]
     /\ conn' = Taken(Fd(w))
  \/ /\ Ended(Fd(w))
     /\ UNCHANGED <<message, conn>>

ReadCode(w) == /\ Serving(w) /\ ~Event(w).err
               /\ HasData(Fd(w)) \/ Failed(Fd(w))
               /\ ReadInto(w, "op")
               /\ Goto(w, "key")
               /\ UNCHANGED <<listening, backlog, dict, mainVars, events, fdVars,
                              newFds, newLocked, serving, signalVars>>

OneLess_forgotten(w) == count
OneLess(w) == [count EXCEPT ![w] = @ - 1]

(* read() returned 0: the client has closed the connection. *)
Close(w) == /\ Serving(w) /\ ~Event(w).err /\ Ended(Fd(w))
            /\ watched' = [watched EXCEPT ![w] = @ \ {Fd(w)}]
            /\ count' = OneLess(w)
            /\ conn' = Over(Fd(w))
            /\ NextEvent(w)
            /\ UNCHANGED <<listening, backlog, dict, mainVars, message, due, newFds,
                           newLocked, serving, signalVars>>

ValidCode(w) == message[w].op \in Codes

(* write(): a client that is gone may cost the process its life. *)
Reply(w, pieces) ==
  /\ conn' = Written(Fd(w), pieces)
  /\ \/ UNCHANGED <<phase, listening>>
     \/ MayKill(Fd(w), pieces) /\ phase' = "killed" /\ listening' = FALSE

Refuse(w) == /\ At(w, "key") /\ ~ValidCode(w)
             /\ Reply(w, <<"ERROR">>)
             /\ NextEvent(w)
             /\ UNCHANGED <<backlog, dict, mainVars, message, fdVars, newFds,
                            newLocked, serving, handler, cleaned>>

AfterKey_no_value(op) == "call"
AfterKey(op) == IF op = "PUT" THEN "value" ELSE "call"

ReadKey(w) == /\ At(w, "key") /\ ValidCode(w)
              /\ ReadInto(w, "key")
              /\ Goto(w, AfterKey(message[w].op))
              /\ UNCHANGED <<listening, backlog, dict, mainVars, events, fdVars,
                             newFds, newLocked, serving, signalVars>>

ReadValue(w) == /\ At(w, "value")
                /\ ReadInto(w, "value")
                /\ Goto(w, "call")
                /\ UNCHANGED <<listening, backlog, dict, mainVars, events, fdVars,
                               newFds, newLocked, serving, signalVars>>

Pieces_bare_error(op, answer) ==
  IF answer.ok THEN <<"SUCCESS">> \o (IF op = "GET" THEN <<answer.value>> ELSE <<>>)
               ELSE <<"ERROR">>
Pieces_silent_error(op, answer) == IF answer.ok THEN <<"SUCCESS", answer.value>> ELSE <<>>

(* What goes back to the client; NoValue stands for ERROR_MESSAGE. *)
Pieces(op, answer) ==
  <<IF answer.ok THEN "SUCCESS" ELSE "ERROR">>
    \o (IF op = "GET" \/ ~answer.ok THEN <<answer.value>> ELSE <<>>)

(* A GET leaves the value it found in the message. *)
Call(w) ==
  LET answer == Outcome(dict, message[w])
  IN /\ At(w, "call")
     /\ dict' = Effect(dict, message[w])
     /\ message' = IF message[w].op = "GET" /\ answer.ok
                     THEN [message EXCEPT ![w].value = answer.value] ELSE message
     /\ Reply(w, Pieces(message[w].op, answer))
     /\ NextEvent(w)
     /\ UNCHANGED <<backlog, mainVars, fdVars, newFds, newLocked, serving, handler,
                    cleaned>>

Unlocked_forgotten(w) == serving
Unlocked(w) == [serving EXCEPT ![w] = "nobody"]

(* After three seconds without an event epoll_wait reports none: the       *)
(* worker locks mutex_serving_clients and finds nothing to do.             *)
TimedOut(w) == At(w, "wait") /\ ReadyFds(w) = {} /\ serving[w] = "nobody"
Served(w)   == At(w, "serve") /\ events[w] = <<>>

(* mutex_serving_clients is given back, and the first n of the connections *)
(* in client_fds_new join the epoll set.                                   *)
TakeOver(w, n) ==
  /\ TimedOut(w) \/ Served(w)
  /\ serving' = Unlocked(w)
  /\ watched' = [watched EXCEPT ![w] = @ \cup {newFds[w][i] : i \in 1..n}]
  /\ count' = [count EXCEPT ![w] = @ + n]
  /\ UNCHANGED <<sockVars, dict, mainVars, events, message, due, signalVars>>

Emptied_not(w) == newFds
Emptied(w) == [newFds EXCEPT ![w] = <<>>]

TakeOverAll(w) == /\ TakeOver(w, Len(newFds[w]))
                  /\ newFds' = Emptied(w)
                  /\ Goto(w, "wait")
                  /\ UNCHANGED newLocked

(* epoll_ctl fails: the thread ends, mutex_new_client_fds stays locked. *)
TakeOverFails(w) == /\ EpollMayFail
                    /\ \E n \in DOMAIN newFds[w] : TakeOver(w, n - 1)
                    /\ newLocked' = [newLocked EXCEPT ![w] = TRUE]
                    /\ Goto(w, "ended")
                    /\ UNCHANGED newFds

WorkerStep(w) ==
  \/ Wait(w) \/ Enter(w) \/ DropEvents(w) \/ ReadCode(w) \/ Close(w) \/ Refuse(w)
  \/ ReadKey(w) \/ ReadValue(w) \/ Call(w) \/ TakeOverAll(w) \/ TakeOverFails(w)

-----------------------------------------------------------------------------
(* SIGINT: the handler locks mutex_serving_clients of one worker after the *)
(* other, cleans the cache and ends the process.                           *)
Signal(t) == /\ phase = "serving"
             /\ t \in Workers => pc[t] \notin {"unborn", "ended"}
             /\ phase' = "stopping" /\ handler' = t
             /\ UNCHANGED <<sockVars, dict, mainVars, workerVars, cleaned>>

Free_to_handler(w) == serving[w] # "handler"
Free(w) == serving[w] = "nobody"

HandlerLock == /\ phase = "stopping" /\ cleaned < poolSize
               /\ Free(cleaned + 1)
               /\ serving' = [serving EXCEPT ![cleaned + 1] = "handler"]
               /\ cleaned' = cleaned + 1
               /\ UNCHANGED <<sockVars, dict, mainVars, pc, events, message, fdVars,
                              newFds, newLocked, phase, handler>>

HandlerClean == /\ phase = "stopping" /\ cleaned = poolSize
                /\ phase' = "cleaning"
                /\ UNCHANGED <<sockVars, dict, mainVars, workerVars, handler, cleaned>>

HandlerExit == /\ phase = "cleaning"
               /\ phase' = "exited" /\ listening' = FALSE
               /\ UNCHANGED <<backlog, conn, dict, mainVars, workerVars, handler, cleaned>>

HandlerStep == HandlerLock \/ HandlerClean \/ HandlerExit

ServerNext == \/ MainStep \/ HandlerStep
              \/ \E w \in Workers : WorkerStep(w)
              \/ \E t \in SignalTargets : Signal(t)
=============================================================================

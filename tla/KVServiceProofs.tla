-------------------------- MODULE KVServiceProofs --------------------------
(***************************************************************************)
(* QuietShutdown holds for any number of clients and workers.  The         *)
(* argument: mutex_serving_clients of a worker says where the worker is    *)
(* (InsideWithMutex); the handler of SIGINT holds the mutexes of the first *)
(* workers of the list (HandlerHolds); workers behind the list have not    *)
(* been started (NobodyBehind); so the handler, once it has them all, may  *)
(* rely on it as long as the list does not grow (ListStands).              *)
(*                                                                         *)
(* ConnectionsAccounted holds for any of them too.  A connection has one   *)
(* home (OneHome) from accept() to close (Somewhere); the events a worker  *)
(* goes through are of connections in its epoll set, each of them once     *)
(* (EventsWatched), so closing one takes it out of the set and leaves the  *)
(* later events alone; and the pool has grown only for connections that    *)
(* have been handed over (PoolBound), so the worker it grows by exists.    *)
(***************************************************************************)
EXTENDS KVService, TLAPS, FiniteSetTheorems, SequenceTheorems

ShutdownTypes == /\ pc \in [Workers -> Places]
                 /\ serving \in [Workers -> {"nobody", "worker", "handler"}]
                 /\ poolSize \in Nat /\ cleaned \in Nat

InsideWithMutex == \A w \in Workers : serving[w] = "worker" <=> pc[w] \in Inside
HandlerHolds == \A w \in Workers : serving[w] = "handler" <=> w <= cleaned
NobodyBehind == \A w \in Workers : poolSize < w => pc[w] = "unborn"
ListStands == phase \in {"cleaning", "exited"} /\ handler = Main => cleaned = poolSize

Quiet == ShutdownTypes /\ InsideWithMutex /\ HandlerHolds /\ NobodyBehind /\ ListStands

(* What Quiet is about. *)
quietVars == <<pc, serving, poolSize, cleaned, phase, handler>>

(* Workers are numbers from 1, and the pool grows by one worker at least. *)
LEMMA WorkerNumbers == \A w \in Workers : w \in Nat /\ w >= 1
BY SMT DEF Workers

LEMMA Growing == NewWorkers \in Nat /\ NewWorkers >= 1
BY ServerAssumption DEF NewWorkers

LEMMA QuietInit == Init => Quiet
BY ServerAssumption, WorkerNumbers
   DEF Init, ServerInit, Quiet, ShutdownTypes, Places, InsideWithMutex, Inside, HandlerHolds,
       NobodyBehind, ListStands

LEMMA QuietUnchanged == Quiet /\ UNCHANGED quietVars => Quiet'
BY DEF quietVars, Quiet, ShutdownTypes, InsideWithMutex, HandlerHolds, NobodyBehind, ListStands

LEMMA QuietImplies == Quiet => QuietShutdown
BY WorkerNumbers
   DEF Quiet, QuietShutdown, ShutdownTypes, InsideWithMutex, HandlerHolds, NobodyBehind,
       ListStands, Inside

-----------------------------------------------------------------------------
(* The main thread: only Grow touches what Quiet is about. *)
LEMMA QuietMain == Quiet /\ MainStep => Quiet'
<1> SUFFICES ASSUME Quiet, MainStep PROVE Quiet'
    OBVIOUS
<1>1. CASE Accept \/ Assign \/ TryNext
      <2>1. UNCHANGED quietVars
            BY <1>1 DEF Accept, Assign, TryNext, quietVars, workerVars, signalVars
      <2> QED BY <2>1, QuietUnchanged
<1>2. CASE Grow
      <2>1. /\ poolSize' = poolSize + NewWorkers
            /\ pc' = [pc EXCEPT ![poolSize + 1] = "wait"]
            /\ handler # Main
            /\ UNCHANGED <<serving, cleaned, phase, handler>>
            BY <1>2 DEF Grow, Runs, Started, signalVars
      <2>2. ShutdownTypes'
            <3>1. poolSize \in Nat /\ poolSize' \in Nat
                  BY <2>1, Growing DEF Quiet, ShutdownTypes
            <3>2. pc' \in [Workers -> Places]
                  BY <2>1 DEF Quiet, ShutdownTypes, Places
            <3> QED BY <2>1, <3>1, <3>2 DEF Quiet, ShutdownTypes
      <2>3. InsideWithMutex'
            <3> SUFFICES ASSUME NEW w \in Workers
                         PROVE  serving'[w] = "worker" <=> pc'[w] \in Inside
                BY DEF InsideWithMutex
            <3>1. CASE w = poolSize + 1
                  <4>1. pc[w] = "unborn"
                        BY <3>1 DEF Quiet, NobodyBehind, ShutdownTypes
                  <4> QED BY <2>1, <3>1, <4>1 DEF Quiet, InsideWithMutex, ShutdownTypes, Inside
            <3>2. CASE w # poolSize + 1
                  BY <2>1, <3>2 DEF Quiet, InsideWithMutex, ShutdownTypes
            <3> QED BY <3>1, <3>2
      <2>4. HandlerHolds'
            BY <2>1 DEF Quiet, HandlerHolds
      <2>5. NobodyBehind'
            BY <2>1, Growing, WorkerNumbers DEF Quiet, NobodyBehind, ShutdownTypes
      <2>6. ListStands'
            BY <2>1 DEF ListStands
      <2> QED BY <2>2, <2>3, <2>4, <2>5, <2>6 DEF Quiet
<1> QED BY <1>1, <1>2 DEF MainStep

-----------------------------------------------------------------------------
(* A worker that moves within the section of its mutex, or outside it. *)
Stays(w) == /\ \E there \in Places \ {"unborn"} :
                  pc' = [pc EXCEPT ![w] = there] /\ (there \in Inside <=> pc[w] \in Inside)
            /\ pc[w] # "unborn"
            /\ UNCHANGED <<serving, poolSize, cleaned, handler>>
            /\ phase' \in {phase, "killed"}

LEMMA QuietStays == ASSUME NEW w \in Workers, Quiet, Stays(w) PROVE Quiet'
<1>1. PICK there \in Places \ {"unborn"} :
        pc' = [pc EXCEPT ![w] = there] /\ (there \in Inside <=> pc[w] \in Inside)
      BY DEF Stays
<1>2. ShutdownTypes'
      BY <1>1 DEF Quiet, ShutdownTypes, Stays
<1>3. InsideWithMutex' /\ HandlerHolds'
      BY <1>1 DEF Quiet, ShutdownTypes, InsideWithMutex, HandlerHolds, Stays
<1>4. NobodyBehind' /\ ListStands'
      BY <1>1 DEF Quiet, ShutdownTypes, NobodyBehind, ListStands, Stays
<1> QED BY <1>2, <1>3, <1>4 DEF Quiet

(* A worker that takes its mutex, or gives it back. *)
LEMMA QuietEnter == ASSUME NEW w \in Workers, Quiet, Enter(w) PROVE Quiet'
<1>1. /\ pc[w] = "enter" /\ serving[w] = "nobody"
      /\ serving' = [serving EXCEPT ![w] = "worker"]
      /\ pc' = [pc EXCEPT ![w] = "serve"]
      /\ UNCHANGED <<poolSize, cleaned, phase, handler>>
      BY DEF Enter, At, Goto, mainVars, signalVars
<1>2. ShutdownTypes'
      BY <1>1 DEF Quiet, ShutdownTypes, Places
<1>3. InsideWithMutex' /\ HandlerHolds'
      BY <1>1 DEF Quiet, ShutdownTypes, InsideWithMutex, HandlerHolds, Inside
<1>4. NobodyBehind' /\ ListStands'
      BY <1>1 DEF Quiet, ShutdownTypes, NobodyBehind, ListStands
<1> QED BY <1>2, <1>3, <1>4 DEF Quiet

LEMMA QuietTakeOver ==
  ASSUME NEW w \in Workers, Quiet, TakeOverAll(w) \/ TakeOverFails(w) PROVE Quiet'
<1>1. PICK there \in {"wait", "ended"} : pc' = [pc EXCEPT ![w] = there]
      BY DEF TakeOverAll, TakeOverFails, Goto
<1>2. \E n : TakeOver(w, n)
      BY DEF TakeOverAll, TakeOverFails
<1>3. /\ TimedOut(w) \/ Served(w)
      /\ serving' = [serving EXCEPT ![w] = "nobody"]
      /\ UNCHANGED <<poolSize, cleaned, phase, handler>>
      BY <1>2 DEF TakeOver, Unlocked, mainVars, signalVars
<1>4. pc[w] # "unborn" /\ serving[w] # "handler"
      BY <1>3 DEF Quiet, TimedOut, Served, At, ShutdownTypes, InsideWithMutex, Inside
<1>5. ShutdownTypes'
      BY <1>1, <1>3 DEF Quiet, ShutdownTypes, Places
<1>6. InsideWithMutex' /\ HandlerHolds'
      BY <1>1, <1>3, <1>4 DEF Quiet, ShutdownTypes, InsideWithMutex, HandlerHolds, Inside
<1>7. NobodyBehind' /\ ListStands'
      BY <1>1, <1>3, <1>4 DEF Quiet, ShutdownTypes, NobodyBehind, ListStands
<1> QED BY <1>5, <1>6, <1>7 DEF Quiet

LEMMA QuietWorker == ASSUME NEW w \in Workers, Quiet, WorkerStep(w) PROVE Quiet'
<1>1. CASE Wait(w)
      <2>1. /\ pc[w] = "wait" /\ pc' = [pc EXCEPT ![w] = "enter"]
            /\ UNCHANGED <<serving, poolSize, cleaned, phase, handler>>
            BY <1>1 DEF Wait, At, Goto, mainVars, signalVars
      <2>2. Stays(w)
            <3>1. "enter" \in Places \ {"unborn"} /\ "enter" \notin Inside /\ pc[w] \notin Inside
                  BY <2>1 DEF Places, Inside
            <3> QED BY <2>1, <3>1 DEF Stays
      <2> QED BY <2>2, QuietStays
<1>2. CASE Enter(w)
      BY <1>2, QuietEnter
<1>3. CASE DropEvents(w)
      <2>1. UNCHANGED quietVars
            BY <1>3 DEF DropEvents, quietVars, mainVars, signalVars
      <2> QED BY <2>1, QuietUnchanged
<1>4. CASE ReadCode(w)
      <2>1. Stays(w)
            BY <1>4 DEF ReadCode, Serving, Stays, At, Goto, Places, Inside, mainVars, signalVars
      <2> QED BY <2>1, QuietStays
<1>5. CASE Close(w)
      <2>1. Stays(w)
            BY <1>5 DEF Close, NextEvent, Serving, Stays, At, Goto, Places, Inside, mainVars,
                        signalVars
      <2> QED BY <2>1, QuietStays
<1>6. CASE Refuse(w)
      <2>1. Stays(w)
            BY <1>6 DEF Refuse, Reply, NextEvent, Stays, At, Goto, Places, Inside, mainVars
      <2> QED BY <2>1, QuietStays
<1>7. CASE ReadKey(w)
      <2>1. Stays(w)
            BY <1>7 DEF ReadKey, AfterKey, Stays, At, Goto, Places, Inside, mainVars, signalVars
      <2> QED BY <2>1, QuietStays
<1>8. CASE ReadValue(w)
      <2>1. Stays(w)
            BY <1>8 DEF ReadValue, Stays, At, Goto, Places, Inside, mainVars, signalVars
      <2> QED BY <2>1, QuietStays
<1>9. CASE Call(w)
      <2>1. Stays(w)
            BY <1>9 DEF Call, Reply, NextEvent, Stays, At, Goto, Places, Inside, mainVars
      <2> QED BY <2>1, QuietStays
<1>10. CASE TakeOverAll(w) \/ TakeOverFails(w)
      BY <1>10, QuietTakeOver
<1> QED BY <1>1, <1>2, <1>3, <1>4, <1>5, <1>6, <1>7, <1>8, <1>9, <1>10 DEF WorkerStep

-----------------------------------------------------------------------------
(* The signal and its handler. *)
LEMMA QuietSignal == ASSUME NEW t, Quiet, Signal(t) PROVE Quiet'
BY DEF Signal, Quiet, ShutdownTypes, InsideWithMutex, HandlerHolds, NobodyBehind, ListStands,
       mainVars, workerVars

LEMMA QuietHandler == Quiet /\ HandlerStep => Quiet'
<1> SUFFICES ASSUME Quiet, HandlerStep PROVE Quiet'
    OBVIOUS
<1>1. CASE HandlerLock
      <2>1. /\ phase = "stopping" /\ serving[cleaned + 1] = "nobody"
            /\ serving' = [serving EXCEPT ![cleaned + 1] = "handler"]
            /\ cleaned' = cleaned + 1
            /\ UNCHANGED <<poolSize, pc, phase, handler>>
            BY <1>1 DEF HandlerLock, Free, mainVars
      <2>2. ShutdownTypes'
            <3>1. cleaned' \in Nat
                  BY <2>1 DEF Quiet, ShutdownTypes
            <3>2. serving' \in [Workers -> {"nobody", "worker", "handler"}]
                  BY <2>1 DEF Quiet, ShutdownTypes
            <3> QED BY <2>1, <3>1, <3>2 DEF Quiet, ShutdownTypes
      <2>3. NobodyBehind' /\ ListStands'
            BY <2>1 DEF Quiet, NobodyBehind, ListStands
      <2>4. InsideWithMutex'
            BY <2>1 DEF Quiet, ShutdownTypes, InsideWithMutex
      <2>5. HandlerHolds'
            BY <2>1, WorkerNumbers DEF Quiet, ShutdownTypes, HandlerHolds
      <2> QED BY <2>2, <2>3, <2>4, <2>5 DEF Quiet
<1>2. CASE HandlerClean
      BY <1>2 DEF HandlerClean, Quiet, ShutdownTypes, InsideWithMutex, HandlerHolds, NobodyBehind,
                  ListStands, mainVars, workerVars
<1>3. CASE HandlerExit
      BY <1>3 DEF HandlerExit, Quiet, ShutdownTypes, InsideWithMutex, HandlerHolds, NobodyBehind,
                  ListStands, mainVars, workerVars
<1> QED BY <1>1, <1>2, <1>3 DEF HandlerStep

(* Clients and their connections do not touch it. *)
LEMMA QuietNext == Quiet /\ [Next]_vars => Quiet'
<1> SUFFICES ASSUME Quiet, [Next]_vars PROVE Quiet'
    OBVIOUS
<1>1. CASE ServerNext
      BY <1>1, QuietMain, QuietWorker, QuietSignal, QuietHandler DEF ServerNext
<1>2. CASE UNCHANGED serverVars
      <2>1. UNCHANGED quietVars
            BY <1>2 DEF serverVars, quietVars, mainVars, workerVars, signalVars
      <2> QED BY <2>1, QuietUnchanged
<1> QED BY <1>1, <1>2 DEF Next, vars

-----------------------------------------------------------------------------
(* The handler of SIGINT on the main thread (KVServer.cpp:425-443) cleans  *)
(* the cache and ends the process only while no worker serves a request:   *)
(* for any number of clients, workers and whatever the pool grows by.      *)
THEOREM ShutdownIsQuiet == Spec => []QuietShutdown
<1>1. Init => Quiet
      BY QuietInit
<1>2. Quiet /\ [Next]_vars => Quiet'
      BY QuietNext
<1>3. Quiet => QuietShutdown
      BY QuietImplies
<1> QED BY <1>1, <1>2, <1>3, PTL DEF Spec

-----------------------------------------------------------------------------
(* Where the connections are. *)
Fields   == {"up", "down", "end", "reset"}
Ends     == {"unused", "open", "closed", "over"}
Reported == [fd : Clients, err : BOOLEAN]
Stages   == {"out", "next", "key", "value", "status", "text", "failed", "done"}

AccountTypes ==
  /\ DOMAIN conn = Clients
  /\ \A c \in Clients : /\ DOMAIN conn[c] = Fields
                        /\ conn[c].end \in Ends /\ conn[c].reset \in BOOLEAN
  /\ backlog \in Seq(Clients) /\ hand \in Clients \cup {None}
  /\ listIter \in 1..(poolSize + 1) /\ tried \in 0..poolSize
  /\ events \in [Workers -> Seq(Reported)]
  /\ watched \in [Workers -> SUBSET Clients] /\ count \in [Workers -> Nat]
  /\ newFds \in [Workers -> Seq(Clients)] /\ newLocked \in [Workers -> BOOLEAN]
  /\ place \in [Clients -> Stages]

(* The connections of a worker: in its epoll set, or handed to it. *)
Fds(w) == watched[w] \cup Range(newFds[w])

OneHome ==
  /\ IsInjective(backlog)
  /\ \A c \in Clients : Queued(c) => c # hand
  /\ \A c \in Clients, w \in Workers : Queued(c) \/ c = hand => c \notin Fds(w)
  /\ \A w \in Workers : IsInjective(newFds[w])
  /\ \A w \in Workers : watched[w] \cap Range(newFds[w]) = {} \/ newLocked[w]
  /\ \A v, w \in Workers : v # w => Fds(v) \cap Fds(w) = {}

Somewhere ==
  \A c \in Clients :
    LET here == Queued(c) \/ c = hand \/ \E w \in Workers : c \in Fds(w)
    IN /\ place[c] = "out" <=> conn[c].end = "unused"
       /\ conn[c].end = "unused" => ~here
       /\ conn[c].end \in {"open", "closed"} => here

Watching(w) ==
  /\ \A i, j \in DOMAIN events[w] :
       /\ events[w][i].fd \in watched[w]
       /\ events[w][i].fd = events[w][j].fd => i = j
  /\ pc[w] \in {"wait", "unborn", "ended"} => events[w] = <<>>
  /\ pc[w] \in {"key", "value", "call"} => events[w] # <<>>
  /\ newLocked[w] <=> pc[w] = "ended"
  /\ w > poolSize => newFds[w] = <<>>

EventsWatched == \A w \in Workers : Watching(w)

Counted == \A w \in Workers : count[w] = Cardinality(watched[w])

Handed == {c \in Clients : conn[c].end # "unused" /\ ~Queued(c) /\ c # hand}

PoolBound ==
  /\ poolSize >= InitialWorkers
  /\ IF Handed = {} THEN poolSize = InitialWorkers /\ tried = 0
                    ELSE poolSize <= InitialWorkers + NewWorkers * (Cardinality(Handed) - 1)

Accounts == AccountTypes /\ OneHome /\ Somewhere /\ EventsWatched /\ Counted /\ PoolBound
Accounted == Quiet /\ Accounts

accountVars == <<conn, backlog, hand, listIter, poolSize, tried, events, watched, count, newFds,
                 newLocked, place, pc>>

-----------------------------------------------------------------------------
(* Sequences without repetitions. *)
LEMMA RangeOfAppend ==
  ASSUME NEW S, NEW s \in Seq(S), NEW e \in S
  PROVE  /\ Range(Append(s, e)) = Range(s) \cup {e}
         /\ IsInjective(s) /\ e \notin Range(s) => IsInjective(Append(s, e))
<1> DEFINE t == Append(s, e)
<1>1. /\ t \in Seq(S) /\ Len(t) = Len(s) + 1 /\ Len(s) \in Nat
      /\ \A i \in 1..Len(s) : t[i] = s[i]
      /\ t[Len(s) + 1] = e
      BY AppendProperties, LenProperties
<1>2. DOMAIN s = 1..Len(s) /\ DOMAIN t = 1..(Len(s) + 1)
      BY <1>1, LenProperties
<1> HIDE DEF t
<1>3. Range(t) = Range(s) \cup {e}
      BY <1>1, <1>2 DEF Range
<1>4. IsInjective(s) /\ e \notin Range(s) => IsInjective(t)
      BY <1>1, <1>2 DEF Range, IsInjective
<1> QED BY <1>3, <1>4 DEF t

LEMMA RangeOfTail ==
  ASSUME NEW S, NEW s \in Seq(S), s # <<>>, IsInjective(s)
  PROVE  /\ Head(s) \in Range(s)
         /\ Range(Tail(s)) = Range(s) \ {Head(s)}
         /\ IsInjective(Tail(s))
<1> DEFINE t == Tail(s)
<1>1. /\ t \in Seq(S) /\ Len(t) = Len(s) - 1 /\ Len(s) \in Nat \ {0}
      /\ \A i \in 1..Len(t) : t[i] = s[i + 1]
      /\ Head(s) = s[1]
      BY HeadTailProperties, EmptySeq
<1>2. DOMAIN s = 1..Len(s) /\ DOMAIN t = 1..Len(t)
      BY <1>1, LenProperties
<1> HIDE DEF t
<1>3. Head(s) \in Range(s)
      BY <1>1, <1>2 DEF Range
<1>4. IsInjective(t)
      BY <1>1, <1>2 DEF IsInjective
<1>5. ASSUME NEW x PROVE x \in Range(t) <=> x \in Range(s) \ {Head(s)}
      <2>1. ASSUME x \in Range(t) PROVE x \in Range(s) \ {Head(s)}
            <3>1. PICK i \in 1..Len(t) : x = t[i]
                  BY <1>2, <2>1 DEF Range
            <3>2. x = s[i + 1] /\ i + 1 \in 1..Len(s) /\ i + 1 # 1
                  BY <1>1, <3>1
            <3> QED BY <3>2, <1>1, <1>2 DEF Range, IsInjective
      <2>2. ASSUME x \in Range(s) \ {Head(s)} PROVE x \in Range(t)
            <3>1. PICK i \in 1..Len(s) : x = s[i]
                  BY <1>2, <2>2 DEF Range
            <3>2. i - 1 \in 1..Len(t) /\ t[i - 1] = x
                  <4>1. i # 1
                        BY <1>1, <3>1, <2>2
                  <4>2. i - 1 \in 1..Len(t) /\ (i - 1) + 1 = i
                        BY <4>1, <1>1
                  <4> QED BY <4>2, <1>1, <3>1
            <3> QED BY <3>2, <1>2 DEF Range
      <2> QED BY <2>1, <2>2
<1> QED BY <1>3, <1>4, <1>5 DEF t

LEMMA RangeOfNone == Range(<<>>) = {} /\ IsInjective(<<>>)
<1>1. DOMAIN <<>> = {}
      OBVIOUS
<1> QED BY <1>1 DEF Range, IsInjective

LEMMA RangeOfOne == ASSUME NEW e PROVE Range(<<e>>) = {e} /\ IsInjective(<<e>>)
<1>1. DOMAIN <<e>> = {1} /\ <<e>>[1] = e
      OBVIOUS
<1> QED BY <1>1 DEF Range, IsInjective

(* The first n of a sequence without repetitions are n. *)
LEMMA FirstOnes ==
  ASSUME NEW S, NEW s \in Seq(S), IsInjective(s), NEW n \in 0..Len(s)
  PROVE  LET first == {s[i] : i \in 1..n}
         IN  IsFiniteSet(first) /\ Cardinality(first) = n /\ first \subseteq Range(s)
<1> DEFINE first == {s[i] : i \in 1..n}
           f == [i \in 1..n |-> s[i]]
<1>1. Len(s) \in Nat /\ DOMAIN s = 1..Len(s)
      BY LenProperties
<1>2. f \in Surjection(1..n, first)
      BY DEF Surjection
<1>3. f \in Injection(1..n, first)
      BY <1>1 DEF Injection, IsInjective
<1>4. IsFiniteSet(1..n) /\ Cardinality(1..n) = n
      BY <1>1, FS_Interval
<1>5. IsFiniteSet(first) /\ Cardinality(first) = n
      BY <1>2, <1>3, <1>4, FS_Surjection
<1>6. first \subseteq Range(s)
      BY <1>1 DEF Range
<1> QED BY <1>5, <1>6

-----------------------------------------------------------------------------
(* One field of one connection changes. *)
LEMMA FieldSet ==
  ASSUME AccountTypes, NEW c \in Clients, NEW f \in Fields, NEW x,
         conn' = [conn EXCEPT ![c][f] = x]
  PROVE  /\ DOMAIN conn' = Clients
         /\ \A d \in Clients : /\ DOMAIN conn'[d] = Fields
                               /\ \A g \in Fields :
                                    conn'[d][g] = IF d = c /\ g = f THEN x ELSE conn[d][g]
BY DEF AccountTypes

LEMMA AccountsInit == Init => Accounts
<1> SUFFICES ASSUME Init PROVE Accounts
    OBVIOUS
<1>1. AccountTypes
      <2>1. \A c \in Clients : conn[c] = Unconnected /\ DOMAIN Unconnected = Fields
            <3>1. DOMAIN Unconnected = Fields
                  BY DEF Unconnected, Fields
            <3>2. \A c \in Clients : conn[c] = Unconnected
                  BY DEF Init, SockInit
            <3> QED BY <3>1, <3>2
      <2>2. poolSize \in Nat /\ listIter = 1 /\ tried = 0
            BY ServerAssumption DEF Init, ServerInit
      <2>3. events \in [Workers -> Seq(Reported)] /\ newFds \in [Workers -> Seq(Clients)]
            BY EmptySeq DEF Init, ServerInit
      <2>4. /\ watched \in [Workers -> SUBSET Clients] /\ count \in [Workers -> Nat]
            /\ newLocked \in [Workers -> BOOLEAN] /\ hand = None
            BY DEF Init, ServerInit
      <2>5. place \in [Clients -> Stages]
            BY DEF Init, ClientInit, Stages
      <2>6. DOMAIN conn = Clients /\ backlog \in Seq(Clients)
            BY EmptySeq DEF Init, SockInit
      <2>7. \A c \in Clients : conn[c].end \in Ends /\ conn[c].reset \in BOOLEAN
            <3>1. Unconnected.end = "unused" /\ Unconnected.reset = FALSE
                  BY DEF Unconnected
            <3> QED BY <2>1, <3>1 DEF Ends
      <2> QED BY <2>1, <2>2, <2>3, <2>4, <2>5, <2>6, <2>7 DEF AccountTypes
<1>2. /\ backlog = <<>> /\ hand = None /\ Range(backlog) = {} /\ IsInjective(backlog)
      /\ \A w \in Workers : Fds(w) = {} /\ IsInjective(newFds[w]) /\ watched[w] = {}
      BY RangeOfNone DEF Init, SockInit, ServerInit, Fds
<1>3. \A c \in Clients : conn[c].end = "unused" /\ place[c] = "out"
      BY DEF Init, SockInit, Unconnected, ClientInit
<1>4. \A c \in Clients : ~Queued(c) /\ c # hand
      BY <1>2, ServerAssumption DEF Queued
<1>5. OneHome
      BY <1>2, <1>4 DEF OneHome
<1>6. Somewhere
      BY <1>2, <1>3, <1>4 DEF Somewhere
<1>7. EventsWatched
      <2> SUFFICES ASSUME NEW w \in Workers PROVE Watching(w)
          BY DEF EventsWatched
      <2>1. events[w] = <<>> /\ newFds[w] = <<>> /\ ~newLocked[w] /\ DOMAIN <<>> = {}
            BY DEF Init, ServerInit
      <2>2. pc[w] \in {"wait", "unborn"}
            BY DEF Init, ServerInit
      <2> QED BY <2>1, <2>2 DEF Watching
<1>8. Counted
      BY <1>2, FS_EmptySet DEF Counted, Init, ServerInit
<1>9. Handed = {}
      BY <1>3 DEF Handed
<1>10. PoolBound
      BY <1>9, ServerAssumption DEF PoolBound, Init, ServerInit
<1> QED BY <1>1, <1>5, <1>6, <1>7, <1>8, <1>10 DEF Accounts

LEMMA AccountsUnchanged == Accounts /\ UNCHANGED accountVars => Accounts'
BY DEF accountVars, Accounts, AccountTypes, OneHome, Somewhere, EventsWatched, Watching, Counted,
       PoolBound, Handed, Queued, Fds

-----------------------------------------------------------------------------
(* Connections change only inside, and clients may leave. *)
SameEnds == /\ DOMAIN conn' = Clients
            /\ \A c \in Clients :
                 /\ DOMAIN conn'[c] = Fields /\ conn'[c].reset \in BOOLEAN
                 /\ \/ conn'[c].end = conn[c].end
                    \/ conn[c].end = "open" /\ conn'[c].end = "closed"

SamePlaces == /\ place' \in [Clients -> Stages]
              /\ \A c \in Clients : place'[c] = "out" <=> place[c] = "out"

homeVars == <<backlog, hand, watched, newFds, newLocked>>

LEMMA HomesStill ==
  ASSUME Accounts, SameEnds, SamePlaces, UNCHANGED homeVars
  PROVE  /\ OneHome' /\ Somewhere' /\ Handed' = Handed
         /\ \A c \in Clients : conn'[c].end \in Ends
<1>1. \A c \in Clients : /\ Queued(c)' <=> Queued(c)
                         /\ c = hand' <=> c = hand
      BY DEF homeVars, Queued
<1>2. \A w \in Workers : Fds(w)' = Fds(w)
      BY DEF homeVars, Fds
<1>3. OneHome'
      BY <1>1, <1>2 DEF homeVars, Accounts, OneHome
<1>4. \A c \in Clients : /\ conn'[c].end = "unused" <=> conn[c].end = "unused"
                         /\ conn'[c].end \in {"open", "closed"} => conn[c].end \in {"open", "closed"}
                         /\ conn'[c].end \in Ends
      BY DEF SameEnds, Ends, Accounts, AccountTypes
<1>5. Somewhere'
      BY <1>1, <1>2, <1>4 DEF Accounts, Somewhere, SamePlaces
<1>6. Handed' = Handed
      BY <1>1, <1>4 DEF Handed
<1> QED BY <1>3, <1>4, <1>5, <1>6

LEMMA WatchStill ==
  ASSUME NEW v \in Workers, Watching(v), poolSize' = poolSize,
         events'[v] = events[v], pc'[v] = pc[v], watched'[v] = watched[v],
         newLocked'[v] = newLocked[v], newFds'[v] = newFds[v]
  PROVE  Watching(v)'
BY DEF Watching

mainAccountVars == <<backlog, hand, listIter, poolSize, tried>>

(* A worker that goes on without touching the sets of connections. *)
LEMMA AccountsServe ==
  ASSUME NEW w \in Workers, Accounts, SameEnds,
         UNCHANGED mainAccountVars, UNCHANGED <<watched, count, newFds, newLocked, place>>,
         events' \in [Workers -> Seq(Reported)],
         \A v \in Workers \ {w} : pc'[v] = pc[v] /\ events'[v] = events[v],
         Watching(w)'
  PROVE  Accounts'
<1>1. SamePlaces
      BY DEF SamePlaces, Accounts, AccountTypes
<1>2. /\ OneHome' /\ Somewhere' /\ Handed' = Handed
      /\ \A c \in Clients : conn'[c].end \in Ends
      BY <1>1, HomesStill DEF mainAccountVars, homeVars
<1>3. AccountTypes'
      BY <1>2 DEF AccountTypes, Accounts, SameEnds, mainAccountVars
<1>4. EventsWatched'
      <2> SUFFICES ASSUME NEW v \in Workers PROVE Watching(v)'
          BY DEF EventsWatched
      <2>1. CASE v = w
            BY <2>1
      <2>2. CASE v # w
            BY <2>2, WatchStill DEF Accounts, EventsWatched, mainAccountVars
      <2> QED BY <2>1, <2>2
<1>5. Counted' /\ PoolBound'
      BY <1>2 DEF Accounts, Counted, PoolBound, mainAccountVars
<1> QED BY <1>2, <1>3, <1>4, <1>5 DEF Accounts

-----------------------------------------------------------------------------
(* The operations on connections, but for accept and the server's close.   *)
LEMMA ReadsAndWrites ==
  ASSUME Accounts, NEW c \in Clients,
         \/ conn' = conn
         \/ conn' = Taken(c)
         \/ \E pieces : conn' = Written(c, pieces)
         \/ \E piece : conn' = Sent(c, piece)
         \/ conn' = Fetched(c)
  PROVE  /\ SameEnds
         /\ \A d \in Clients : conn'[d].end = conn[d].end /\ conn'[d].reset = conn[d].reset
         /\ \A d \in Clients \ {c} : conn'[d].up = conn[d].up /\ conn'[d].down = conn[d].down
<1>1. AccountTypes
      BY DEF Accounts
<1>2. \/ conn' = conn
      \/ \E x : conn' = [conn EXCEPT ![c]["up"] = x]
      \/ \E x : conn' = [conn EXCEPT ![c]["down"] = x]
      BY DEF Taken, Written, Sent, Fetched
<1>3. CASE conn' = conn
      BY <1>1, <1>3 DEF SameEnds, AccountTypes
<1>4. ASSUME NEW x, conn' = [conn EXCEPT ![c]["up"] = x]
      PROVE /\ DOMAIN conn' = Clients
            /\ \A d \in Clients : /\ DOMAIN conn'[d] = Fields
                                  /\ conn'[d]["end"] = conn[d]["end"]
                                  /\ conn'[d]["reset"] = conn[d]["reset"]
            /\ \A d \in Clients \ {c} :
                 conn'[d]["up"] = conn[d]["up"] /\ conn'[d]["down"] = conn[d]["down"]
      <2>1. "up" \in Fields
            BY DEF Fields
      <2>2. /\ DOMAIN conn' = Clients
            /\ \A d \in Clients : /\ DOMAIN conn'[d] = Fields
                                  /\ \A g \in Fields :
                                       conn'[d][g] = IF d = c /\ g = "up" THEN x ELSE conn[d][g]
            BY <1>1, <1>4, <2>1, FieldSet
      <2> QED BY <2>2 DEF Fields
<1>5. ASSUME NEW x, conn' = [conn EXCEPT ![c]["down"] = x]
      PROVE /\ DOMAIN conn' = Clients
            /\ \A d \in Clients : /\ DOMAIN conn'[d] = Fields
                                  /\ conn'[d]["end"] = conn[d]["end"]
                                  /\ conn'[d]["reset"] = conn[d]["reset"]
            /\ \A d \in Clients \ {c} :
                 conn'[d]["up"] = conn[d]["up"] /\ conn'[d]["down"] = conn[d]["down"]
      <2>1. "down" \in Fields
            BY DEF Fields
      <2>2. /\ DOMAIN conn' = Clients
            /\ \A d \in Clients : /\ DOMAIN conn'[d] = Fields
                                  /\ \A g \in Fields :
                                       conn'[d][g] = IF d = c /\ g = "down" THEN x ELSE conn[d][g]
            BY <1>1, <1>5, <2>1, FieldSet
      <2> QED BY <2>2 DEF Fields
<1>6. CASE conn' # conn
      BY <1>1, <1>2, <1>4, <1>5, <1>6 DEF SameEnds, AccountTypes
<1> QED BY <1>3, <1>6

-----------------------------------------------------------------------------
(* The steps of a worker. *)
LEMMA EventInService ==
  ASSUME NEW w \in Workers, Accounts, events[w] # <<>>
  PROVE  /\ Event(w) \in Reported /\ Fd(w) \in Clients /\ Fd(w) \in watched[w]
         /\ Tail(events[w]) \in Seq(Reported)
         /\ \A i \in DOMAIN Tail(events[w]) :
              /\ i \in Nat /\ i + 1 \in DOMAIN events[w] /\ i + 1 # 1
              /\ Tail(events[w])[i] = events[w][i + 1]
         /\ Event(w) = events[w][1] /\ 1 \in DOMAIN events[w]
<1>1. events[w] \in Seq(Reported)
      BY DEF Accounts, AccountTypes
<1>2. /\ Event(w) \in Reported /\ Tail(events[w]) \in Seq(Reported)
      /\ Len(events[w]) \in Nat \ {0} /\ Len(Tail(events[w])) = Len(events[w]) - 1
      /\ \A i \in 1..Len(Tail(events[w])) : Tail(events[w])[i] = events[w][i + 1]
      /\ Event(w) = events[w][1]
      BY <1>1, HeadTailProperties, EmptySeq DEF Event
<1>3. DOMAIN events[w] = 1..Len(events[w]) /\ DOMAIN Tail(events[w]) = 1..Len(Tail(events[w]))
      BY <1>1, <1>2, LenProperties
<1>4. 1 \in DOMAIN events[w]
      BY <1>2, <1>3
<1>5. Fd(w) \in watched[w] /\ Fd(w) \in Clients
      BY <1>2, <1>4 DEF Fd, Accounts, EventsWatched, Watching, AccountTypes
<1>6. \A i \in DOMAIN Tail(events[w]) :
        /\ i \in Nat /\ i + 1 \in DOMAIN events[w] /\ i + 1 # 1
        /\ Tail(events[w])[i] = events[w][i + 1]
      BY <1>2, <1>3
<1> QED BY <1>2, <1>4, <1>5, <1>6

(* The events behind the first are of other connections. *)
LEMMA LaterEvents ==
  ASSUME NEW w \in Workers, Accounts, events[w] # <<>>, NEW i \in DOMAIN Tail(events[w]),
         NEW j \in DOMAIN Tail(events[w])
  PROVE  /\ Tail(events[w])[i].fd \in watched[w] \ {Fd(w)}
         /\ Tail(events[w])[i].fd = Tail(events[w])[j].fd => i = j
<1>1. \A a, b \in DOMAIN events[w] : /\ events[w][a].fd \in watched[w]
                                     /\ events[w][a].fd = events[w][b].fd => a = b
      BY DEF Accounts, EventsWatched, Watching
<1> QED BY <1>1, EventInService DEF Fd

LEMMA AccountsWait == ASSUME NEW w \in Workers, Quiet, Accounts, Wait(w), UNCHANGED clientVars PROVE Accounts'
<1> DEFINE ready == Cardinality(ReadyFds(w))
           size  == IF ready < Limit THEN ready ELSE Limit
<1>1. PICK batch \in [1..size -> ReadyFds(w)] : IsInjective(batch) /\ Report(w, batch)
      BY DEF Wait
<1>2. /\ pc[w] = "wait" /\ pc' = [pc EXCEPT ![w] = "enter"]
      /\ UNCHANGED mainAccountVars
      /\ UNCHANGED <<watched, count, newFds, newLocked, place, conn>>
      BY DEF Wait, At, Goto, sockVars, mainVars, mainAccountVars, clientVars
<1>3. size \in Nat
      <2>1. ReadyFds(w) \subseteq Clients /\ IsFiniteSet(Clients)
            BY ServerAssumption DEF ReadyFds, Accounts, AccountTypes
      <2>2. ready \in Nat
            BY <2>1, FS_Subset, FS_CardinalityType
      <2> QED BY <2>2, ServerAssumption
<1> DEFINE news == [i \in 1..size |-> [fd |-> batch[i], err |-> conn[batch[i]].reset]]
<1> HIDE DEF size
<1>4. events' = [events EXCEPT ![w] = news]
      BY <1>1 DEF Report
<1>5. \A i \in 1..size : batch[i] \in watched[w] /\ batch[i] \in Clients
      BY <1>1 DEF ReadyFds, Accounts, AccountTypes
<1>6. \A i \in 1..size : [fd |-> batch[i], err |-> conn[batch[i]].reset] \in Reported
      <2> SUFFICES ASSUME NEW i \in 1..size
                   PROVE  [fd |-> batch[i], err |-> conn[batch[i]].reset] \in Reported
          OBVIOUS
      <2>1. conn[batch[i]].reset \in BOOLEAN /\ batch[i] \in Clients
            BY <1>5 DEF Accounts, AccountTypes
      <2> QED BY <2>1 DEF Reported
<1>7. news \in Seq(Reported)
      <2>1. news \in [1..size -> Reported]
            BY <1>6
      <2> HIDE DEF news
      <2> QED BY <2>1, <1>3
<1>8. events' \in [Workers -> Seq(Reported)]
      BY <1>4, <1>7 DEF Accounts, AccountTypes
<1>9. Watching(w)'
      <2>1. DOMAIN news = 1..size /\ \A i \in 1..size : news[i].fd = batch[i]
            OBVIOUS
      <2>2. events'[w] = news
            BY <1>4 DEF Accounts, AccountTypes
      <2> HIDE DEF news
      <2>3. \A i, j \in DOMAIN news : /\ news[i].fd \in watched[w]
                                      /\ news[i].fd = news[j].fd => i = j
            BY <2>1, <1>1, <1>5 DEF IsInjective
      <2>4. pc'[w] = "enter"
            BY <1>2 DEF Quiet, ShutdownTypes
      <2> QED BY <2>2, <2>3, <2>4, <1>2 DEF Accounts, EventsWatched, Watching, mainAccountVars
<1>10. SameEnds
      BY <1>2 DEF SameEnds, Accounts, AccountTypes
<1>11. \A v \in Workers \ {w} : pc'[v] = pc[v] /\ events'[v] = events[v]
      BY <1>2, <1>4 DEF Accounts, AccountTypes, Quiet, ShutdownTypes
<1> QED BY <1>2, <1>8, <1>9, <1>10, <1>11, AccountsServe

(* A worker that goes on with the event in service, with the next one, or  *)
(* with none. *)
Proceeds(w) ==
  /\ \E there \in {"serve", "key", "value", "call"} :
       /\ pc' = [pc EXCEPT ![w] = there]
       /\ there # "serve" => events[w] # <<>> /\ UNCHANGED events
  /\ pc[w] \in {"enter"} \cup Inside
  /\ \/ UNCHANGED events
     \/ events' = [events EXCEPT ![w] = <<>>]
     \/ events[w] # <<>> /\ events' = [events EXCEPT ![w] = Tail(@)]

LEMMA AccountsProceed ==
  ASSUME NEW w \in Workers, Quiet, Accounts, SameEnds, Proceeds(w),
         UNCHANGED mainAccountVars, UNCHANGED <<watched, count, newFds, newLocked, place>>
  PROVE  Accounts'
<1>1. PICK there \in {"serve", "key", "value", "call"} :
        /\ pc' = [pc EXCEPT ![w] = there]
        /\ there # "serve" => events[w] # <<>> /\ UNCHANGED events
      BY DEF Proceeds
<1>2. pc'[w] = there /\ \A v \in Workers \ {w} : pc'[v] = pc[v]
      BY <1>1 DEF Quiet, ShutdownTypes
<1>3. events[w] \in Seq(Reported) /\ events \in [Workers -> Seq(Reported)]
      BY DEF Accounts, AccountTypes
<1>4. ~newLocked'[w] /\ (w > poolSize' => newFds'[w] = <<>>)
      BY DEF Accounts, EventsWatched, Watching, Proceeds, Inside, mainAccountVars
<1>5. CASE UNCHANGED events
      <2>1. Watching(w)'
            BY <1>1, <1>2, <1>4, <1>5 DEF Accounts, EventsWatched, Watching
      <2> QED BY <1>2, <1>3, <1>5, <2>1, AccountsServe
<1>6. CASE events' = [events EXCEPT ![w] = <<>>] /\ events' # events
      <2>1. events' \in [Workers -> Seq(Reported)] /\ events'[w] = <<>> /\ DOMAIN <<>> = {}
            BY <1>3, <1>6, EmptySeq
      <2>2. Watching(w)'
            BY <1>1, <1>2, <1>4, <1>6, <2>1 DEF Watching
      <2> QED BY <1>2, <1>6, <2>1, <2>2, AccountsServe
<1>7. CASE events' = [events EXCEPT ![w] = Tail(@)] /\ events' # events /\ events[w] # <<>>
      <2>1. events' \in [Workers -> Seq(Reported)] /\ events'[w] = Tail(events[w])
            BY <1>3, <1>7, EventInService
      <2>2. Watching(w)'
            BY <1>1, <1>2, <1>4, <1>7, <2>1, LaterEvents DEF Watching
      <2> QED BY <1>2, <1>7, <2>1, <2>2, AccountsServe
<1> QED BY <1>5, <1>6, <1>7 DEF Proceeds

LEMMA AccountsClose ==
  ASSUME NEW w \in Workers, Quiet, Accounts, Close(w), UNCHANGED clientVars PROVE Accounts'
<1> DEFINE c == Fd(w)
<1>1. /\ pc[w] = "serve" /\ events[w] # <<>> /\ conn[c].end = "closed"
      /\ watched' = [watched EXCEPT ![w] = @ \ {c}]
      /\ count' = [count EXCEPT ![w] = @ - 1]
      /\ conn' = [conn EXCEPT ![c]["end"] = "over"]
      /\ pc' = [pc EXCEPT ![w] = "serve"]
      /\ events' = [events EXCEPT ![w] = Tail(@)]
      /\ UNCHANGED <<newFds, newLocked, place>>
      /\ UNCHANGED mainAccountVars
      BY DEF Close, Serving, At, Ended, Gone, OneLess, Over, NextEvent, Goto, mainVars,
             mainAccountVars, clientVars
<1>2. c \in Clients /\ c \in watched[w] /\ Tail(events[w]) \in Seq(Reported)
      BY <1>1, EventInService
<1> HIDE DEF c
<1>3. /\ DOMAIN conn' = Clients
      /\ \A d \in Clients : /\ DOMAIN conn'[d] = Fields
                            /\ conn'[d].reset = conn[d].reset
                            /\ conn'[d].end = IF d = c THEN "over" ELSE conn[d].end
      <2>1. "end" \in Fields /\ "reset" \in Fields
            BY DEF Fields
      <2>2. AccountTypes
            BY DEF Accounts
      <2>3. /\ DOMAIN conn' = Clients
            /\ \A d \in Clients : /\ DOMAIN conn'[d] = Fields
                                  /\ \A g \in Fields :
                                       conn'[d][g] = IF d = c /\ g = "end" THEN "over" ELSE conn[d][g]
            BY <1>1, <1>2, <2>1, <2>2, FieldSet
      <2> QED BY <2>1, <2>3
<1>4. /\ watched[w] \subseteq Clients /\ IsFiniteSet(watched[w])
      /\ count[w] = Cardinality(watched[w])
      BY ServerAssumption, FS_Subset DEF Accounts, AccountTypes, Counted
<1>5. /\ Cardinality(watched[w] \ {c}) = Cardinality(watched[w]) - 1
      /\ Cardinality(watched[w] \ {c}) \in Nat
      BY <1>2, <1>4, FS_RemoveElement, FS_CardinalityType
<1>6. /\ watched'[w] = watched[w] \ {c} /\ count'[w] = Cardinality(watched[w] \ {c})
      /\ watched' \in [Workers -> SUBSET Clients] /\ count' \in [Workers -> Nat]
      /\ \A v \in Workers \ {w} : watched'[v] = watched[v] /\ count'[v] = count[v]
      BY <1>1, <1>4, <1>5 DEF Accounts, AccountTypes
<1>7. /\ events' \in [Workers -> Seq(Reported)] /\ events'[w] = Tail(events[w])
      /\ pc'[w] = "serve"
      /\ \A v \in Workers \ {w} : events'[v] = events[v] /\ pc'[v] = pc[v]
      BY <1>1, <1>2 DEF Accounts, AccountTypes, Quiet, ShutdownTypes
<1>8. AccountTypes'
      BY <1>1, <1>3, <1>6, <1>7 DEF Accounts, AccountTypes, Ends, mainAccountVars
<1>9. Counted'
      BY <1>6 DEF Accounts, Counted
<1>10. EventsWatched'
      <2> SUFFICES ASSUME NEW v \in Workers PROVE Watching(v)'
          BY DEF EventsWatched
      <2>1. CASE v = w
            <3>1. ~newLocked'[w] /\ (w > poolSize' => newFds'[w] = <<>>)
                  BY <1>1 DEF Accounts, EventsWatched, Watching, mainAccountVars
            <3>2. \A i, j \in DOMAIN Tail(events[w]) :
                    /\ Tail(events[w])[i].fd \in watched[w] \ {c}
                    /\ Tail(events[w])[i].fd = Tail(events[w])[j].fd => i = j
                  BY <1>1, LaterEvents DEF c
            <3> QED BY <2>1, <3>1, <3>2, <1>6, <1>7 DEF Watching
      <2>2. CASE v # w
            BY <2>2, <1>1, <1>6, <1>7, WatchStill DEF Accounts, EventsWatched, mainAccountVars
      <2> QED BY <2>1, <2>2
<1>11. /\ \A d \in Clients : /\ Queued(d)' <=> Queued(d)
                             /\ d = hand' <=> d = hand
       /\ \A v \in Workers : Fds(v)' \subseteq Fds(v)
       /\ \A v \in Workers : \A d \in Clients \ {c} : d \in Fds(v) <=> d \in Fds(v)'
       BY <1>1, <1>6 DEF mainAccountVars, Queued, Fds
<1>12. OneHome'
       BY <1>1, <1>6, <1>11 DEF Accounts, OneHome, mainAccountVars
<1>13. Somewhere'
       BY <1>1, <1>3, <1>11 DEF Accounts, Somewhere, AccountTypes, Ends
<1>14. Handed' = Handed
       BY <1>1, <1>3, <1>11 DEF Handed
<1>15. PoolBound'
       BY <1>1, <1>14 DEF Accounts, PoolBound, mainAccountVars
<1> QED BY <1>8, <1>9, <1>10, <1>12, <1>13, <1>15 DEF Accounts

LEMMA AccountsTakeOver ==
  ASSUME NEW w \in Workers, Quiet, Accounts, TakeOverAll(w) \/ TakeOverFails(w),
         UNCHANGED clientVars
  PROVE  Accounts'
<1>1. PICK n \in 0..Len(newFds[w]), there \in {"wait", "ended"} :
        /\ TakeOver(w, n)
        /\ pc' = [pc EXCEPT ![w] = there]
        /\ \/ there = "wait" /\ n = Len(newFds[w]) /\ newFds' = [newFds EXCEPT ![w] = <<>>]
              /\ UNCHANGED newLocked
           \/ there = "ended" /\ newLocked' = [newLocked EXCEPT ![w] = TRUE] /\ UNCHANGED newFds
      <2>1. newFds[w] \in Seq(Clients) /\ Len(newFds[w]) \in Nat /\ DOMAIN newFds[w] = 1..Len(newFds[w])
            BY LenProperties DEF Accounts, AccountTypes
      <2>2. CASE TakeOverAll(w)
            <3>1. Len(newFds[w]) \in 0..Len(newFds[w])
                  BY <2>1
            <3> QED BY <2>2, <3>1 DEF TakeOverAll, Emptied, Goto
      <2>3. CASE TakeOverFails(w)
            <3>1. PICK n \in DOMAIN newFds[w] : TakeOver(w, n - 1)
                  BY <2>3 DEF TakeOverFails
            <3>2. n - 1 \in 0..Len(newFds[w])
                  BY <2>1
            <3> QED BY <2>3, <3>1, <3>2 DEF TakeOverFails, Goto
      <2> QED BY <2>2, <2>3
<1> DEFINE first == {newFds[w][i] : i \in 1..n}
<1>2. /\ pc[w] \in {"wait", "serve"} /\ events[w] = <<>>
      /\ watched' = [watched EXCEPT ![w] = @ \cup first]
      /\ count' = [count EXCEPT ![w] = @ + n]
      /\ UNCHANGED <<conn, events, place>>
      /\ UNCHANGED mainAccountVars
      BY <1>1 DEF TakeOver, TimedOut, Served, At, sockVars, mainVars, mainAccountVars, clientVars,
                  Accounts, EventsWatched, Watching
<1>3. /\ ~newLocked[w] /\ watched[w] \cap Range(newFds[w]) = {}
      /\ newFds[w] \in Seq(Clients) /\ IsInjective(newFds[w])
      BY <1>2 DEF Accounts, EventsWatched, Watching, OneHome, AccountTypes
<1>4. IsFiniteSet(first) /\ Cardinality(first) = n /\ first \subseteq Range(newFds[w])
      BY <1>3, FirstOnes
<1>5. Range(newFds[w]) \subseteq Clients
      BY <1>3, LenProperties DEF Range
<1>6. n = Len(newFds[w]) => first = Range(newFds[w])
      BY <1>3, LenProperties DEF Range
<1> HIDE DEF first
<1>7. /\ watched[w] \subseteq Clients /\ IsFiniteSet(watched[w])
      /\ count[w] = Cardinality(watched[w]) /\ count[w] \in Nat /\ n \in Nat
      BY ServerAssumption, FS_Subset, <1>3, LenProperties DEF Accounts, AccountTypes, Counted
<1>8. Cardinality(watched[w] \cup first) = count[w] + n
      <2>1. watched[w] \cap first = {} /\ Cardinality({}) = 0
            BY <1>3, <1>4, FS_EmptySet
      <2>2. Cardinality(watched[w] \cup first)
              = Cardinality(watched[w]) + Cardinality(first) - Cardinality(watched[w] \cap first)
            BY <1>4, <1>7, FS_Union
      <2>3. Cardinality(watched[w] \cap first) = 0
            BY <2>1
      <2> QED BY <1>4, <1>7, <2>2, <2>3
<1>9. /\ watched'[w] = watched[w] \cup first /\ count'[w] = Cardinality(watched'[w])
      /\ watched' \in [Workers -> SUBSET Clients] /\ count' \in [Workers -> Nat]
      /\ \A v \in Workers \ {w} : watched'[v] = watched[v] /\ count'[v] = count[v]
      BY <1>2, <1>4, <1>5, <1>7, <1>8 DEF Accounts, AccountTypes
<1>10. /\ newFds' \in [Workers -> Seq(Clients)] /\ newLocked' \in [Workers -> BOOLEAN]
       /\ \A v \in Workers \ {w} : newFds'[v] = newFds[v] /\ newLocked'[v] = newLocked[v]
       <2>1. <<>> \in Seq(Clients)
             BY EmptySeq
       <2>2. newFds' \in [Workers -> Seq(Clients)] /\ \A v \in Workers \ {w} : newFds'[v] = newFds[v]
             BY <1>1, <2>1 DEF Accounts, AccountTypes
       <2>3. newLocked' \in [Workers -> BOOLEAN]
             BY <1>1 DEF Accounts, AccountTypes
       <2>4. \A v \in Workers \ {w} : newLocked'[v] = newLocked[v]
             BY <1>1 DEF Accounts, AccountTypes
       <2> QED BY <2>2, <2>3, <2>4
<1>11. pc'[w] = there /\ \A v \in Workers \ {w} : pc'[v] = pc[v]
       BY <1>1 DEF Quiet, ShutdownTypes
<1>12. \/ newFds'[w] = <<>> /\ there = "wait" /\ newLocked'[w] = newLocked[w]
          /\ first = Range(newFds[w]) /\ Range(newFds'[w]) = {} /\ IsInjective(newFds'[w])
       \/ newFds'[w] = newFds[w] /\ there = "ended" /\ newLocked'[w]
       BY <1>1, <1>6, RangeOfNone DEF Accounts, AccountTypes
<1>13. AccountTypes'
       BY <1>2, <1>9, <1>10 DEF Accounts, AccountTypes, mainAccountVars
<1>14. Counted'
       BY <1>9 DEF Accounts, Counted
<1>15. EventsWatched'
      <2> SUFFICES ASSUME NEW v \in Workers PROVE Watching(v)'
          BY DEF EventsWatched
      <2>1. CASE v = w
            <3>1. events'[w] = <<>> /\ DOMAIN <<>> = {} /\ (w > poolSize' => newFds'[w] = <<>>)
                  BY <1>2, <1>12 DEF Accounts, EventsWatched, Watching, mainAccountVars
            <3> QED BY <2>1, <3>1, <1>3, <1>11, <1>12 DEF Watching
      <2>2. CASE v # w
            BY <2>2, <1>2, <1>9, <1>10, <1>11, WatchStill
               DEF Accounts, EventsWatched, mainAccountVars
      <2> QED BY <2>1, <2>2
<1>16. /\ \A d \in Clients : /\ Queued(d)' <=> Queued(d)
                             /\ d = hand' <=> d = hand
       BY <1>2 DEF mainAccountVars, Queued
<1>17. \A v \in Workers : Fds(v)' = Fds(v)
       <2> SUFFICES ASSUME NEW v \in Workers PROVE Fds(v)' = Fds(v)
           OBVIOUS
       <2>1. CASE v = w
             BY <2>1, <1>4, <1>9, <1>12 DEF Fds
       <2>2. CASE v # w
             BY <2>2, <1>9, <1>10 DEF Fds
       <2> QED BY <2>1, <2>2
<1>18. OneHome'
       <2>1. \A v \in Workers : IsInjective(newFds'[v])
             BY <1>10, <1>12 DEF Accounts, OneHome
       <2>2. \A v \in Workers : watched'[v] \cap Range(newFds'[v]) = {} \/ newLocked'[v]
             BY <1>9, <1>10, <1>12 DEF Accounts, OneHome
       <2> QED BY <1>2, <1>16, <1>17, <2>1, <2>2 DEF Accounts, OneHome, mainAccountVars
<1>19. Somewhere' /\ Handed' = Handed
       BY <1>2, <1>16, <1>17 DEF Accounts, Somewhere, Handed
<1>20. PoolBound'
       BY <1>2, <1>19 DEF Accounts, PoolBound, mainAccountVars
<1> QED BY <1>13, <1>14, <1>15, <1>18, <1>19, <1>20 DEF Accounts

-----------------------------------------------------------------------------
(* The main thread.  The pool never has more workers than Workers has.     *)
LEMMA MoreWorkers ==
  ASSUME NEW m \in Nat, NEW n \in Nat, m <= n
  PROVE  /\ NewWorkers * m \in Nat /\ NewWorkers * m <= NewWorkers * n
         /\ NewWorkers * (m + 1) = NewWorkers * m + NewWorkers
<1>1. \A a \in Nat : a * m \in Nat /\ a * m <= a * n /\ a * (m + 1) = a * m + a
      <2> SUFFICES ASSUME NEW a \in Nat
                   PROVE  a * m \in Nat /\ a * m <= a * n /\ a * (m + 1) = a * m + a
          OBVIOUS
      <2>1. a * n = a * m + a * (n - m)
            OBVIOUS
      <2>2. a * m \in Nat /\ a * (n - m) \in Nat
            OBVIOUS
      <2> QED BY <2>1, <2>2
<1> QED BY <1>1, Growing

LEMMA HandedAreClients ==
  /\ IsFiniteSet(Clients) /\ Cardinality(Clients) \in Nat \ {0}
  /\ \A S \in SUBSET Clients : /\ IsFiniteSet(S) /\ Cardinality(S) \in Nat
                               /\ Cardinality(S) <= Cardinality(Clients)
                               /\ Cardinality(S) = 0 <=> S = {}
<1>1. IsFiniteSet(Clients) /\ Clients # {}
      BY ServerAssumption
<1>2. \A S \in SUBSET Clients : /\ IsFiniteSet(S) /\ Cardinality(S) \in Nat
                                /\ Cardinality(S) <= Cardinality(Clients)
                                /\ Cardinality(S) = 0 <=> S = {}
      BY <1>1, FS_Subset, FS_CardinalityType, FS_EmptySet
<1> QED BY <1>1, <1>2

LEMMA PoolFits ==
  ASSUME Quiet, Accounts
  PROVE  /\ poolSize \in Workers /\ \A n \in 1..poolSize : n \in Workers
         /\ hand # None => \A n \in 1..(poolSize + NewWorkers) : Handed # {} => n \in Workers
<1> DEFINE C == Cardinality(Clients)
           H == Cardinality(Handed)
<1>1. /\ C \in Nat \ {0} /\ H \in Nat /\ H <= C
      /\ H = 0 <=> Handed = {}
      /\ hand # None => H + 1 <= C
      <2>1. Handed \subseteq Clients
            BY DEF Handed
      <2>2. hand # None => hand \in Clients \ Handed
            BY DEF Handed, Accounts, AccountTypes
      <2>3. ASSUME hand # None PROVE H + 1 <= C
            <3>1. Handed \cup {hand} \in SUBSET Clients
                  BY <2>1, <2>2, <2>3
            <3>2. Cardinality(Handed \cup {hand}) = H + 1
                  BY <2>1, <2>2, <2>3, HandedAreClients, FS_AddElement
            <3> QED BY <3>1, <3>2, HandedAreClients
      <2> QED BY <2>1, <2>3, HandedAreClients
<1> HIDE DEF C, H
<1>2. poolSize \in Nat /\ InitialWorkers \in Nat \ {0} /\ NewWorkers \in Nat /\ NewWorkers >= 1
      BY ServerAssumption, Growing DEF Quiet, ShutdownTypes
<1>3. Workers = 1..(InitialWorkers + NewWorkers * (C - 1))
      BY DEF Workers, C
<1>4. poolSize <= InitialWorkers + NewWorkers * (C - 1) /\ NewWorkers * (C - 1) \in Nat
      <2>1. NewWorkers * (C - 1) \in Nat
            <3>1. C - 1 \in Nat
                  BY <1>1
            <3> QED BY <3>1, MoreWorkers
      <2>2. CASE Handed = {}
            BY <2>1, <2>2, <1>2 DEF Accounts, PoolBound
      <2>3. CASE Handed # {}
            <3>1. poolSize <= InitialWorkers + NewWorkers * (H - 1)
                  BY <2>3 DEF Accounts, PoolBound, H
            <3>2. NewWorkers * (H - 1) <= NewWorkers * (C - 1) /\ NewWorkers * (H - 1) \in Nat
                  <4>1. H - 1 \in Nat /\ C - 1 \in Nat /\ H - 1 <= C - 1
                        BY <1>1, <2>3
                  <4> QED BY <4>1, MoreWorkers
            <3> QED BY <3>1, <3>2, <2>1, <1>2
      <2> QED BY <2>1, <2>2, <2>3
<1>5. poolSize >= InitialWorkers
      BY DEF Accounts, PoolBound
<1>6. ASSUME hand # None, Handed # {}
      PROVE  poolSize + NewWorkers <= InitialWorkers + NewWorkers * (C - 1)
      <2>1. poolSize <= InitialWorkers + NewWorkers * (H - 1)
            BY <1>6 DEF Accounts, PoolBound, H
      <2>2. H - 1 \in Nat /\ H \in Nat /\ C - 1 \in Nat /\ H <= C - 1 /\ (H - 1) + 1 = H
            BY <1>1, <1>6
      <2>3. NewWorkers * H = NewWorkers * (H - 1) + NewWorkers /\ NewWorkers * (H - 1) \in Nat
            <3>1. NewWorkers * ((H - 1) + 1) = NewWorkers * (H - 1) + NewWorkers
                  BY <2>2, MoreWorkers
            <3> QED BY <2>2, <3>1, MoreWorkers
      <2>4. NewWorkers * H <= NewWorkers * (C - 1)
            BY <2>2, MoreWorkers
      <2> QED BY <2>1, <2>3, <2>4, <1>2, <1>4
<1> QED BY <1>2, <1>3, <1>4, <1>5, <1>6

LEMMA AccountsAccept ==
  ASSUME Quiet, Accounts, Accept, UNCHANGED clientVars PROVE Accounts'
<1>1. /\ hand = None /\ backlog # <<>> /\ backlog \in Seq(Clients)
      /\ hand' = Head(backlog) /\ backlog' = Tail(backlog) /\ tried' = 0
      /\ UNCHANGED <<conn, poolSize, listIter, pc, events, watched, count, newFds, newLocked, place>>
      BY DEF Accept, workerVars, fdVars, clientVars, Accounts, AccountTypes
<1>2. /\ hand' \in Range(backlog) /\ Range(backlog') = Range(backlog) \ {hand'}
      /\ IsInjective(backlog') /\ hand' \in Clients /\ backlog' \in Seq(Clients)
      BY <1>1, RangeOfTail, HeadTailProperties DEF Accounts, OneHome
<1>3. \A c \in Clients : Queued(c)' <=> Queued(c) /\ c # hand'
      BY <1>2 DEF Queued
<1>4. \A c \in Clients : Queued(c) \/ c = hand <=> Queued(c)' \/ c = hand'
      BY <1>1, <1>2, <1>3, ServerAssumption DEF Queued
<1>5. \A w \in Workers : Fds(w)' = Fds(w)
      BY <1>1 DEF Fds
<1>6. AccountTypes'
      BY <1>1, <1>2 DEF Accounts, AccountTypes, Quiet, ShutdownTypes
<1>7. OneHome'
      BY <1>1, <1>2, <1>3, <1>4, <1>5 DEF Accounts, OneHome
<1>8. Somewhere'
      BY <1>1, <1>4, <1>5 DEF Accounts, Somewhere
<1>9. EventsWatched' /\ Counted'
      BY <1>1 DEF Accounts, EventsWatched, Watching, Counted
<1>10. Handed' = Handed
      BY <1>1, <1>4 DEF Handed
<1>11. PoolBound'
      BY <1>1, <1>10 DEF Accounts, PoolBound
<1> QED BY <1>6, <1>7, <1>8, <1>9, <1>11 DEF Accounts

LEMMA CandidateInPool ==
  ASSUME Quiet, Accounts, Trying
  PROVE  Candidate \in 1..poolSize /\ Candidate \in Workers /\ Candidate + 1 \in 1..(poolSize + 1)
<1>1. poolSize \in Nat /\ tried \in Nat /\ tried < poolSize /\ listIter \in 1..(poolSize + 1)
      BY DEF Trying, Quiet, ShutdownTypes, Accounts, AccountTypes
<1>2. Candidate \in 1..poolSize
      BY <1>1 DEF Candidate
<1> QED BY <1>1, <1>2, PoolFits

(* hand is a connection nobody has yet. *)
LEMMA HandIsFree ==
  ASSUME Accounts, hand # None
  PROVE  /\ hand \in Clients \ Handed /\ ~Queued(hand) /\ conn[hand].end # "unused"
         /\ \A w \in Workers : hand \notin Fds(w)
BY DEF Accounts, AccountTypes, OneHome, Somewhere, Handed

LEMMA HandingOver ==
  ASSUME Accounts, hand # None, hand' = None, UNCHANGED <<backlog, conn>>
  PROVE  /\ Handed' = Handed \cup {hand}
         /\ Cardinality(Handed') = Cardinality(Handed) + 1
         /\ Cardinality(Handed) \in Nat /\ (Cardinality(Handed) = 0 <=> Handed = {})
<1>1. Handed' = Handed \cup {hand}
      <2>1. \A c \in Clients : c # hand'
            BY ServerAssumption
      <2> QED BY <2>1, HandIsFree DEF Handed, Queued
<1>2. Handed \in SUBSET Clients
      BY DEF Handed
<1> QED BY <1>1, <1>2, HandIsFree, HandedAreClients, FS_AddElement

LEMMA AccountsAssign ==
  ASSUME Quiet, Accounts, Assign, UNCHANGED clientVars PROVE Accounts'
<1>0. PICK w \in Workers : w = Candidate /\ w \in 1..poolSize /\ w + 1 \in 1..(poolSize + 1)
      BY CandidateInPool DEF Assign
<1>1. /\ Trying /\ hand # None /\ ~newLocked[w]
      /\ newFds' = [newFds EXCEPT ![w] = Append(@, hand)]
      /\ listIter' = w + 1 /\ hand' = None
      /\ UNCHANGED <<conn, backlog, poolSize, tried, pc, events, watched, count, newLocked, place>>
      BY <1>0 DEF Assign, Trying, sockVars, fdVars, clientVars
<1>2. w \in 1..poolSize /\ w \in Workers /\ w + 1 \in 1..(poolSize + 1)
      BY <1>0
<1>3. /\ hand \in Clients \ Handed /\ ~Queued(hand) /\ conn[hand].end # "unused"
      /\ \A v \in Workers : hand \notin Fds(v)
      BY <1>1, HandIsFree
<1>4. newFds[w] \in Seq(Clients) /\ IsInjective(newFds[w])
      BY <1>2 DEF Accounts, AccountTypes, OneHome
<1>5. /\ Append(newFds[w], hand) \in Seq(Clients)
      /\ Range(Append(newFds[w], hand)) = Range(newFds[w]) \cup {hand}
      /\ IsInjective(Append(newFds[w], hand))
      BY <1>2, <1>3, <1>4, RangeOfAppend, AppendProperties DEF Fds
<1>6. /\ newFds' \in [Workers -> Seq(Clients)]
      /\ newFds'[w] = Append(newFds[w], hand)
      /\ \A v \in Workers \ {w} : newFds'[v] = newFds[v]
      BY <1>1, <1>2, <1>5 DEF Accounts, AccountTypes
<1>7. /\ Fds(w)' = Fds(w) \cup {hand}
      /\ \A v \in Workers \ {w} : Fds(v)' = Fds(v)
      BY <1>1, <1>5, <1>6 DEF Fds
<1>8. \A c \in Clients : /\ Queued(c)' <=> Queued(c)
                         /\ c # hand'
      BY <1>1, ServerAssumption DEF Queued
<1>9. AccountTypes'
      BY <1>1, <1>2, <1>6 DEF Accounts, AccountTypes
<1>10. OneHome'
       <2>1. IsInjective(backlog') /\ \A c \in Clients : Queued(c)' => c # hand'
             BY <1>1, <1>8 DEF Accounts, OneHome
       <2>2. \A c \in Clients, v \in Workers : Queued(c)' \/ c = hand' => c \notin Fds(v)'
             BY <1>3, <1>7, <1>8 DEF Accounts, OneHome
       <2>3. \A v \in Workers : IsInjective(newFds'[v])
             BY <1>5, <1>6 DEF Accounts, OneHome
       <2>4. \A v \in Workers : watched'[v] \cap Range(newFds'[v]) = {} \/ newLocked'[v]
             <3>1. hand \notin watched[w]
                   BY <1>2, <1>3 DEF Fds
             <3> QED BY <3>1, <1>1, <1>2, <1>5, <1>6 DEF Accounts, OneHome
       <2>5. \A u, v \in Workers : u # v => Fds(u)' \cap Fds(v)' = {}
             BY <1>3, <1>7 DEF Accounts, OneHome
       <2> QED BY <2>1, <2>2, <2>3, <2>4, <2>5 DEF OneHome
<1>11. Somewhere'
       <2>1. \A c \in Clients : (\E v \in Workers : c \in Fds(v)') <=> c = hand \/ \E v \in Workers : c \in Fds(v)
             BY <1>2, <1>7
       <2> QED BY <2>1, <1>1, <1>3, <1>8 DEF Accounts, Somewhere
<1>12. EventsWatched'
       <2> SUFFICES ASSUME NEW v \in Workers PROVE Watching(v)'
           BY DEF EventsWatched
       <2>1. v > poolSize => newFds'[v] = <<>>
             BY <1>2, <1>6, WorkerNumbers DEF Accounts, EventsWatched, Watching, Quiet, ShutdownTypes
       <2> QED BY <2>1, <1>1 DEF Accounts, EventsWatched, Watching
<1>13. Counted'
       BY <1>1 DEF Accounts, Counted
<1>14. PoolBound'
       <2> DEFINE H == Cardinality(Handed)
       <2>1. /\ Handed' = Handed \cup {hand} /\ Handed' # {}
             /\ Cardinality(Handed') = H + 1 /\ H \in Nat /\ (H = 0 <=> Handed = {})
             BY <1>1, HandingOver
       <2> HIDE DEF H
       <2>2. /\ poolSize \in Nat /\ InitialWorkers \in Nat /\ NewWorkers \in Nat
             /\ poolSize >= InitialWorkers
             BY ServerAssumption, Growing DEF Quiet, ShutdownTypes, Accounts, PoolBound
       <2>3. poolSize <= InitialWorkers + NewWorkers * ((H + 1) - 1)
             <3>1. (H + 1) - 1 = H /\ NewWorkers * H \in Nat
                   BY <2>1, MoreWorkers
             <3>2. CASE Handed = {}
                   BY <3>1, <3>2, <2>2 DEF Accounts, PoolBound
             <3>3. CASE Handed # {}
                   <4>1. H - 1 \in Nat /\ NewWorkers * (H - 1) \in Nat
                         /\ NewWorkers * (H - 1) <= NewWorkers * H
                         <5>1. H - 1 \in Nat /\ H - 1 <= H
                               BY <2>1, <3>3
                         <5> QED BY <2>1, <5>1, MoreWorkers
                   <4>2. poolSize <= InitialWorkers + NewWorkers * (H - 1)
                         BY <3>3 DEF Accounts, PoolBound, H
                   <4> QED BY <3>1, <4>1, <4>2, <2>2
             <3> QED BY <3>2, <3>3
       <2> QED BY <1>1, <2>1, <2>2, <2>3 DEF PoolBound
<1> QED BY <1>9, <1>10, <1>11, <1>12, <1>13, <1>14 DEF Accounts

(* Who has no room has connections, so the pool may grow from then on. *)
LEMMA AccountsTryNext ==
  ASSUME Quiet, Accounts, TryNext, UNCHANGED clientVars PROVE Accounts'
<1> DEFINE w == Candidate
<1>1. /\ Trying /\ hand # None /\ tried < poolSize /\ count[w] >= Limit
      /\ listIter' = w + 1 /\ tried' = tried + 1
      /\ UNCHANGED <<conn, backlog, hand, poolSize, pc, events, watched, count, newFds, newLocked, place>>
      <2>1. Trying /\ ~(count[w] < Limit)
            BY DEF TryNext, HasRoom
      <2>2. count[w] \in Nat /\ Limit \in Nat
            BY <2>1, CandidateInPool, ServerAssumption DEF Accounts, AccountTypes
      <2> QED BY <2>1, <2>2 DEF TryNext, Trying, sockVars, workerVars, fdVars, clientVars
<1>2. w \in 1..poolSize /\ w \in Workers /\ w + 1 \in 1..(poolSize + 1)
      BY <1>1, CandidateInPool
<1> HIDE DEF w
<1>3. Handed # {}
      <2>1. watched[w] # {} /\ watched[w] \subseteq Clients
            <3>1. count[w] = Cardinality(watched[w]) /\ Limit >= 1 /\ Limit \in Nat
                  BY <1>2, ServerAssumption DEF Accounts, Counted
            <3>2. watched[w] \in SUBSET Clients
                  BY <1>2 DEF Accounts, AccountTypes
            <3> QED BY <1>1, <3>1, <3>2, HandedAreClients
      <2>2. PICK c \in Clients : c \in watched[w]
            BY <2>1
      <2>3. c \in Fds(w)
            BY <2>2 DEF Fds
      <2>4. ~Queued(c) /\ c # hand /\ conn[c].end # "unused"
            BY <1>2, <2>3 DEF Accounts, OneHome, Somewhere
      <2> QED BY <2>4 DEF Handed
<1>4. AccountTypes'
      BY <1>1, <1>2 DEF Accounts, AccountTypes, Quiet, ShutdownTypes
<1>5. Handed' = Handed
      BY <1>1 DEF Handed, Queued
<1>6. PoolBound'
      BY <1>1, <1>3, <1>5 DEF Accounts, PoolBound
<1> QED BY <1>1, <1>4, <1>6
        DEF Accounts, OneHome, Somewhere, EventsWatched, Watching, Counted, Queued, Fds

LEMMA AccountsGrow ==
  ASSUME Quiet, Accounts, Grow, UNCHANGED clientVars PROVE Accounts'
<1>0. PICK w : w = poolSize + 1
      OBVIOUS
<1>1. /\ hand # None /\ tried = poolSize
      /\ poolSize' = poolSize + NewWorkers
      /\ newFds' = [newFds EXCEPT ![w] = <<hand>>]
      /\ pc' = [pc EXCEPT ![w] = "wait"]
      /\ listIter' = 1 /\ hand' = None
      /\ UNCHANGED <<conn, backlog, tried, events, watched, count, newLocked, place>>
      BY <1>0 DEF Grow, Started, sockVars, fdVars, clientVars
<1>2. /\ poolSize \in Nat /\ InitialWorkers \in Nat \ {0} /\ NewWorkers \in Nat /\ NewWorkers >= 1
      /\ poolSize >= InitialWorkers
      BY ServerAssumption, Growing DEF Quiet, ShutdownTypes, Accounts, PoolBound
<1>3. Handed # {}
      BY <1>1, <1>2 DEF Accounts, PoolBound
<1>4. w \in Workers /\ w > poolSize
      <2>1. w \in 1..(poolSize + NewWorkers) /\ w > poolSize
            BY <1>0, <1>2
      <2> QED BY <1>1, <1>2, <1>3, <2>1, PoolFits
<1>5. pc[w] = "unborn" /\ newFds[w] = <<>> /\ events[w] = <<>> /\ ~newLocked[w]
      BY <1>4, <1>2 DEF Quiet, NobodyBehind, Accounts, EventsWatched, Watching
<1>6. pc'[w] = "wait" /\ \A v \in Workers \ {w} : pc'[v] = pc[v]
      BY <1>1, <1>4 DEF Quiet, ShutdownTypes
<1>7. /\ hand \in Clients \ Handed /\ ~Queued(hand) /\ conn[hand].end # "unused"
      /\ \A v \in Workers : hand \notin Fds(v)
      BY <1>1, HandIsFree
<1>8. Range(<<hand>>) = {hand} /\ IsInjective(<<hand>>) /\ Range(newFds[w]) = {} /\ <<hand>> \in Seq(Clients)
      BY <1>5, <1>7, RangeOfOne, RangeOfNone
<1>9. /\ newFds' \in [Workers -> Seq(Clients)]
      /\ newFds'[w] = <<hand>>
      /\ \A v \in Workers \ {w} : newFds'[v] = newFds[v]
      BY <1>1, <1>4, <1>8 DEF Accounts, AccountTypes
<1>10. /\ Fds(w)' = Fds(w) \cup {hand}
       /\ \A v \in Workers \ {w} : Fds(v)' = Fds(v)
       BY <1>1, <1>8, <1>9 DEF Fds
<1>11. \A c \in Clients : /\ Queued(c)' <=> Queued(c)
                          /\ c # hand'
       BY <1>1, ServerAssumption DEF Queued
<1>12. AccountTypes'
       <2>1. 1 \in 1..(poolSize' + 1) /\ tried' \in 0..poolSize'
             BY <1>1, <1>2
       <2> QED BY <1>1, <1>9, <2>1 DEF Accounts, AccountTypes
<1>13. OneHome'
       <2>1. IsInjective(backlog') /\ \A c \in Clients : Queued(c)' => c # hand'
             BY <1>1, <1>11 DEF Accounts, OneHome
       <2>2. \A c \in Clients, v \in Workers : Queued(c)' \/ c = hand' => c \notin Fds(v)'
             BY <1>7, <1>10, <1>11 DEF Accounts, OneHome
       <2>3. \A v \in Workers : IsInjective(newFds'[v])
             BY <1>8, <1>9 DEF Accounts, OneHome
       <2>4. \A v \in Workers : watched'[v] \cap Range(newFds'[v]) = {} \/ newLocked'[v]
             <3>1. hand \notin watched[w]
                   BY <1>4, <1>7 DEF Fds
             <3> QED BY <3>1, <1>1, <1>4, <1>8, <1>9 DEF Accounts, OneHome
       <2>5. \A u, v \in Workers : u # v => Fds(u)' \cap Fds(v)' = {}
             BY <1>7, <1>10 DEF Accounts, OneHome
       <2> QED BY <2>1, <2>2, <2>3, <2>4, <2>5 DEF OneHome
<1>14. Somewhere'
       <2>1. \A c \in Clients : (\E v \in Workers : c \in Fds(v)') <=> c = hand \/ \E v \in Workers : c \in Fds(v)
             BY <1>4, <1>10
       <2> QED BY <2>1, <1>1, <1>7, <1>11 DEF Accounts, Somewhere
<1>15. EventsWatched'
       <2> SUFFICES ASSUME NEW v \in Workers PROVE Watching(v)'
           BY DEF EventsWatched
       <2>1. CASE v = w
             <3>1. events'[w] = <<>> /\ DOMAIN <<>> = {} /\ ~newLocked'[w]
                   BY <1>1, <1>5
             <3>2. ~(w > poolSize')
                   BY <1>0, <1>1, <1>2
             <3> QED BY <2>1, <3>1, <3>2, <1>6 DEF Watching
       <2>2. CASE v # w
             <3>1. v > poolSize' => v > poolSize
                   BY <1>1, <1>2, WorkerNumbers
             <3> QED BY <2>2, <3>1, <1>1, <1>6, <1>9 DEF Accounts, EventsWatched, Watching
       <2> QED BY <2>1, <2>2
<1>16. Counted'
       BY <1>1 DEF Accounts, Counted
<1>17. PoolBound'
       <2> DEFINE H == Cardinality(Handed)
       <2>1. /\ Handed' = Handed \cup {hand} /\ Handed' # {}
             /\ Cardinality(Handed') = H + 1 /\ H \in Nat /\ (H = 0 <=> Handed = {})
             BY <1>1, HandingOver
       <2>2. poolSize <= InitialWorkers + NewWorkers * (H - 1)
             BY <1>3 DEF Accounts, PoolBound
       <2> HIDE DEF H
       <2>3. H - 1 \in Nat /\ (H - 1) + 1 = H /\ (H + 1) - 1 = H
             BY <2>1, <1>3
       <2>4. NewWorkers * H = NewWorkers * (H - 1) + NewWorkers /\ NewWorkers * (H - 1) \in Nat
             <3>1. NewWorkers * ((H - 1) + 1) = NewWorkers * (H - 1) + NewWorkers
                   BY <2>3, MoreWorkers
             <3> QED BY <2>3, <3>1, MoreWorkers
       <2>5. poolSize' <= InitialWorkers + NewWorkers * ((H + 1) - 1)
             BY <2>2, <2>3, <2>4, <1>1, <1>2
       <2>6. poolSize' >= InitialWorkers
             BY <1>1, <1>2
       <2> QED BY <2>1, <2>5, <2>6 DEF PoolBound
<1> QED BY <1>12, <1>13, <1>14, <1>15, <1>16, <1>17 DEF Accounts

LEMMA AccountsMain ==
  ASSUME Quiet, Accounts, MainStep, UNCHANGED clientVars PROVE Accounts'
BY AccountsAccept, AccountsAssign, AccountsTryNext, AccountsGrow DEF MainStep

-----------------------------------------------------------------------------
LEMMA AccountsWorker ==
  ASSUME NEW w \in Workers, Quiet, Accounts, WorkerStep(w), UNCHANGED clientVars
  PROVE  Accounts'
<1> DEFINE Untouched == /\ UNCHANGED mainAccountVars
                        /\ UNCHANGED <<watched, count, newFds, newLocked, place>>
<1>1. CASE Wait(w)
      BY <1>1, AccountsWait
<1>2. CASE Enter(w) \/ DropEvents(w)
      <2>1. Untouched /\ UNCHANGED conn
            BY <1>2 DEF Enter, DropEvents, sockVars, mainVars, mainAccountVars, fdVars, clientVars
      <2>2. SameEnds
            BY <2>1 DEF SameEnds, Accounts, AccountTypes
      <2>3. Proceeds(w)
            <3>1. CASE Enter(w)
                  BY <3>1 DEF Enter, Proceeds, At, Goto
            <3>2. CASE DropEvents(w)
                  <4>1. pc' = [pc EXCEPT ![w] = "serve"]
                        BY <3>2 DEF DropEvents, Serving, At, Quiet, ShutdownTypes
                  <4> QED BY <3>2, <4>1 DEF DropEvents, Serving, Proceeds, At, Inside
            <3> QED BY <1>2, <3>1, <3>2
      <2> QED BY <2>1, <2>2, <2>3, AccountsProceed
<1>3. CASE ReadCode(w) \/ ReadKey(w) \/ ReadValue(w)
      <2>1. Untouched
            BY <1>3 DEF ReadCode, ReadKey, ReadValue, mainVars, mainAccountVars, fdVars, clientVars
      <2>2. events[w] # <<>>
            BY <1>3 DEF ReadCode, Serving, ReadKey, ReadValue, At, Accounts, EventsWatched, Watching
      <2>3. conn' = Taken(Fd(w)) \/ conn' = conn
            BY <1>3 DEF ReadCode, ReadKey, ReadValue, ReadInto
      <2>4. SameEnds
            BY <2>2, <2>3, EventInService, ReadsAndWrites
      <2>5. Proceeds(w)
            BY <1>3, <2>2 DEF ReadCode, Serving, ReadKey, ReadValue, AfterKey, At, Goto, Proceeds, Inside
      <2> QED BY <2>1, <2>4, <2>5, AccountsProceed
<1>4. CASE Refuse(w) \/ Call(w)
      <2>1. Untouched
            BY <1>4 DEF Refuse, Call, mainVars, mainAccountVars, fdVars, clientVars
      <2>2. events[w] # <<>>
            BY <1>4 DEF Refuse, Call, At, Accounts, EventsWatched, Watching
      <2>3. \E pieces : conn' = Written(Fd(w), pieces)
            BY <1>4 DEF Refuse, Call, Reply
      <2>4. SameEnds
            BY <2>2, <2>3, EventInService, ReadsAndWrites
      <2>5. Proceeds(w)
            BY <1>4, <2>2 DEF Refuse, Call, NextEvent, At, Goto, Proceeds, Inside
      <2> QED BY <2>1, <2>4, <2>5, AccountsProceed
<1>5. CASE Close(w)
      BY <1>5, AccountsClose
<1>6. CASE TakeOverAll(w) \/ TakeOverFails(w)
      BY <1>6, AccountsTakeOver
<1> QED BY <1>1, <1>2, <1>3, <1>4, <1>5, <1>6 DEF WorkerStep

LEMMA AccountsSignal ==
  ASSUME Accounts, HandlerStep \/ \E t : Signal(t), UNCHANGED clientVars
  PROVE  Accounts'
<1>1. UNCHANGED accountVars
      BY DEF HandlerStep, HandlerLock, HandlerClean, HandlerExit, Signal, accountVars, sockVars,
             mainVars, workerVars, fdVars, clientVars
<1> QED BY <1>1, AccountsUnchanged

-----------------------------------------------------------------------------
(* The clients. *)
LEMMA AccountsConnect ==
  ASSUME NEW c \in Clients, Quiet, Accounts, Connect(c), UNCHANGED serverVars
  PROVE  Accounts'
<1>1. /\ place[c] = "out" /\ backlog' = Append(backlog, c)
      /\ conn' = [conn EXCEPT ![c]["end"] = "open"]
      /\ place' = [place EXCEPT ![c] = "next"]
      /\ UNCHANGED <<hand, listIter, poolSize, tried, pc, events, watched, count, newFds, newLocked>>
      BY DEF Connect, Connected, Move, serverVars, mainVars, workerVars, fdVars
<1>2. /\ DOMAIN conn' = Clients
      /\ \A d \in Clients : /\ DOMAIN conn'[d] = Fields
                            /\ conn'[d].reset = conn[d].reset
                            /\ conn'[d].end = IF d = c THEN "open" ELSE conn[d].end
      <2>1. "end" \in Fields /\ "reset" \in Fields
            BY DEF Fields
      <2>2. AccountTypes
            BY DEF Accounts
      <2>3. /\ DOMAIN conn' = Clients
            /\ \A d \in Clients : /\ DOMAIN conn'[d] = Fields
                                  /\ \A g \in Fields :
                                       conn'[d][g] = IF d = c /\ g = "end" THEN "open" ELSE conn[d][g]
            BY <1>1, <2>1, <2>2, FieldSet
      <2> QED BY <2>1, <2>3
<1>3. /\ conn[c].end = "unused" /\ ~Queued(c) /\ c # hand
      /\ \A w \in Workers : c \notin Fds(w)
      BY <1>1 DEF Accounts, Somewhere
<1>4. /\ Range(backlog') = Range(backlog) \cup {c} /\ IsInjective(backlog')
      /\ backlog' \in Seq(Clients)
      BY <1>1, <1>3, RangeOfAppend, AppendProperties DEF Accounts, AccountTypes, OneHome, Queued
<1>5. \A d \in Clients : /\ Queued(d)' <=> Queued(d) \/ d = c
                         /\ d = hand' <=> d = hand
      BY <1>1, <1>4 DEF Queued
<1>6. \A w \in Workers : Fds(w)' = Fds(w)
      BY <1>1 DEF Fds
<1>7. /\ place' \in [Clients -> Stages] /\ place'[c] # "out"
      /\ \A d \in Clients \ {c} : place'[d] = place[d]
      BY <1>1 DEF Accounts, AccountTypes, Stages
<1>8. AccountTypes'
      BY <1>1, <1>2, <1>4, <1>7 DEF Accounts, AccountTypes, Ends
<1>9. OneHome'
      BY <1>1, <1>3, <1>4, <1>5, <1>6 DEF Accounts, OneHome
<1>10. Somewhere'
       BY <1>2, <1>5, <1>6, <1>7 DEF Accounts, Somewhere
<1>11. EventsWatched' /\ Counted'
       BY <1>1 DEF Accounts, EventsWatched, Watching, Counted
<1>12. Handed' = Handed
       BY <1>2, <1>3, <1>5 DEF Handed
<1>13. PoolBound'
       BY <1>1, <1>12 DEF Accounts, PoolBound
<1> QED BY <1>8, <1>9, <1>10, <1>11, <1>13 DEF Accounts

LEMMA AccountsTalk ==
  ASSUME Accounts, SameEnds, SamePlaces, UNCHANGED <<backlog, serverVars>> PROVE Accounts'
<1>1. /\ UNCHANGED <<hand, listIter, poolSize, tried, pc, events, watched, count, newFds, newLocked>>
      /\ UNCHANGED backlog
      BY DEF serverVars, mainVars, workerVars, fdVars
<1>2. /\ OneHome' /\ Somewhere' /\ Handed' = Handed
      /\ \A c \in Clients : conn'[c].end \in Ends
      BY <1>1, HomesStill DEF homeVars
<1>3. AccountTypes'
      BY <1>1, <1>2 DEF Accounts, AccountTypes, SameEnds, SamePlaces
<1>4. EventsWatched' /\ Counted' /\ PoolBound'
      BY <1>1, <1>2 DEF Accounts, EventsWatched, Watching, Counted, PoolBound
<1> QED BY <1>2, <1>3, <1>4 DEF Accounts

(* What a client that has connected does with its place. *)
LEMMA PlacesMove ==
  ASSUME Accounts, NEW c \in Clients, NEW there \in Stages \ {"out"}, conn[c].end = "open",
         place' = [place EXCEPT ![c] = there]
  PROVE  SamePlaces
<1>1. place[c] # "out"
      BY DEF Accounts, Somewhere
<1> QED BY <1>1 DEF SamePlaces, Accounts, AccountTypes

LEMMA AccountsClient ==
  ASSUME NEW c \in Clients, Quiet, Accounts, ClientStep(c), UNCHANGED serverVars
  PROVE  Accounts'
<1>1. CASE Connect(c)
      BY <1>1, AccountsConnect
<1>2. CASE Ask(c) \/ Talk(c)
      <2>1. conn[c].end = "open" /\ UNCHANGED backlog
            BY <1>2 DEF Ask, Talk, SendKey, SendValue, ReadStatus, ReadText, Lives, Open
      <2>2. \/ \E piece : conn' = Sent(c, piece)
            \/ conn' = Fetched(c)
            \/ conn' = conn
            BY <1>2 DEF Ask, Talk, SendKey, SendValue, ReadStatus, ReadText, Receive
      <2>3. \E there \in Stages \ {"out"} : place' = [place EXCEPT ![c] = there]
            <3>1. CASE Ask(c)
                  BY <3>1 DEF Ask, Move, Stages
            <3>2. CASE SendKey(c)
                  <4>1. \E there \in {"value", "status"} : place' = [place EXCEPT ![c] = there]
                        BY <3>2 DEF SendKey, Move
                  <4> QED BY <4>1 DEF Stages
            <3>3. CASE SendValue(c)
                  BY <3>3 DEF SendValue, Move, Stages
            <3>4. CASE ReadStatus(c)
                  BY <3>4 DEF ReadStatus, Return, Move, Stages
            <3>5. CASE ReadText(c)
                  BY <3>5 DEF ReadText, Return, Move, Stages
            <3> QED BY <1>2, <3>1, <3>2, <3>3, <3>4, <3>5 DEF Talk
      <2>4. SameEnds
            BY <2>2, ReadsAndWrites
      <2> QED BY <2>1, <2>3, <2>4, PlacesMove, AccountsTalk
<1>3. CASE Leave(c) \/ Die(c)
      <2>1. conn[c].end = "open" /\ UNCHANGED backlog
            BY <1>3 DEF Leave, Die, Lives, Open
      <2>2. SameEnds
            <3>1. conn' = Closed(c)
                  BY <1>3 DEF Leave, Die
            <3> QED BY <3>1, <2>1 DEF Closed, SameEnds, Accounts, AccountTypes, Fields
      <2>3. SamePlaces
            BY <1>3, <2>1 DEF Leave, Die, clientVars, SamePlaces, Accounts, AccountTypes, Somewhere, Stages
      <2> QED BY <2>1, <2>2, <2>3, AccountsTalk
<1> QED BY <1>1, <1>2, <1>3 DEF ClientStep

LEMMA AccountsReset ==
  ASSUME NEW c \in Clients, Quiet, Accounts, Reset(c), UNCHANGED <<serverVars, clientVars>>
  PROVE  Accounts'
<1>1. SameEnds
      <2>1. conn' = [conn EXCEPT ![c]["reset"] = TRUE] /\ AccountTypes
            BY DEF Reset, Accounts
      <2>2. "reset" \in Fields /\ "end" \in Fields
            BY DEF Fields
      <2>3. /\ DOMAIN conn' = Clients
            /\ \A d \in Clients : /\ DOMAIN conn'[d] = Fields
                                  /\ \A g \in Fields :
                                       conn'[d][g] = IF d = c /\ g = "reset" THEN TRUE ELSE conn[d][g]
            BY <2>1, <2>2, FieldSet
      <2>4. \A d \in Clients : conn'[d]["end"] = conn[d]["end"] /\ conn'[d]["reset"] \in BOOLEAN
            BY <2>1, <2>2, <2>3, ZenonT(40) DEF AccountTypes
      <2> QED BY <2>3, <2>4 DEF SameEnds
<1>2. SamePlaces
      BY DEF SamePlaces, clientVars, Accounts, AccountTypes
<1> QED BY <1>1, <1>2, AccountsTalk DEF Reset

LEMMA AccountedNext == Accounted /\ [Next]_vars => Accounted'
<1> SUFFICES ASSUME Accounted, [Next]_vars PROVE Accounted'
    OBVIOUS
<1>1. Quiet'
      BY QuietNext DEF Accounted
<1>2. ASSUME ServerNext, UNCHANGED clientVars PROVE Accounts'
      BY <1>2, AccountsMain, AccountsWorker, AccountsSignal DEF Accounted, ServerNext
<1>3. ASSUME \E c \in Clients : ClientStep(c), UNCHANGED serverVars PROVE Accounts'
      BY <1>3, AccountsClient DEF Accounted
<1>4. ASSUME \E c \in Clients : Reset(c), UNCHANGED <<serverVars, clientVars>> PROVE Accounts'
      BY <1>4, AccountsReset DEF Accounted
<1>5. ASSUME UNCHANGED vars PROVE Accounts'
      <2>1. UNCHANGED accountVars
            BY <1>5 DEF vars, accountVars, sockVars, serverVars, mainVars, workerVars, fdVars, clientVars
      <2> QED BY <2>1, AccountsUnchanged DEF Accounted
<1> QED BY <1>1, <1>2, <1>3, <1>4, <1>5 DEF Next, Accounted

LEMMA AccountedAlways == Spec => []Accounted
<1>1. Init => Accounted
      BY QuietInit, AccountsInit DEF Accounted
<1> QED BY <1>1, AccountedNext, PTL DEF Spec

LEMMA AccountedImplies == Accounted => ConnectionsAccounted
<1> SUFFICES ASSUME Accounted PROVE ConnectionsAccounted
    OBVIOUS
<1>1. \A c \in Clients : \A v \in Workers : HandedTo(v, c) \/ c \in watched[v] <=> c \in Fds(v)
      BY DEF HandedTo, Fds
<1>2. ASSUME NEW c \in Clients PROVE Cardinality(HomesOf(c)) <= 1
      <2>1. \A a, b \in HomesOf(c) : a = b
            BY <1>1 DEF HomesOf, Accounted, Accounts, OneHome
      <2>2. CASE HomesOf(c) = {}
            BY <2>2, FS_EmptySet
      <2>3. CASE HomesOf(c) # {}
            <3>1. PICK a : a \in HomesOf(c)
                  BY <2>3
            <3>2. HomesOf(c) = {a}
                  BY <2>1, <3>1
            <3>3. Cardinality({a}) = 1
                  BY FS_Singleton
            <3> QED BY <3>2, <3>3
      <2> QED BY <2>2, <2>3
<1>3. ASSUME NEW c \in Clients, Open(c), HomesOf(c) = {} PROVE Queued(c)
      <2>1. c # hand /\ \A w \in Workers : c \notin Fds(w)
            BY <1>1, <1>3 DEF HomesOf
      <2> QED BY <1>3, <2>1 DEF Open, Accounted, Accounts, Somewhere
<1> QED BY <1>2, <1>3 DEF ConnectionsAccounted, Accounted, Accounts, Counted

(* A connection is in one place at a time, from accept() until the worker  *)
(* closes it (KVServer.cpp:365-417, 181, 248-265), and client_fds_count is *)
(* the number of connections in the worker's epoll set: for any number of  *)
(* clients, any limit of clients per thread and any growth of the pool.    *)
THEOREM EveryConnectionHasAHome == Spec => []ConnectionsAccounted
<1>1. Spec => []Accounted
      BY AccountedAlways
<1>2. Accounted => ConnectionsAccounted
      BY AccountedImplies
<1> QED BY <1>1, <1>2, PTL
=============================================================================

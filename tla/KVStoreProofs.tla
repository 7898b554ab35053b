--------------------------- MODULE KVStoreProofs ---------------------------
(***************************************************************************)
(* The locks of the database files, for any number of threads, files and   *)
(* keys.  LocksMatchCalls ties the lock variables to the places of the     *)
(* calls; it is inductive together with the few types it needs             *)
(* (StoreShape).  What a step does to a call and its file's lock is one of *)
(* a handful of things, whichever of the three functions it belongs to, so *)
(* the proof goes by these (the lemmas Kept...) and then sorts the actions *)
(* among them.                                                             *)
(*                                                                         *)
(* Their contents: the types of what the calls hold (TypeOK), and that an  *)
(* entry with a key has a right link (KeysAreLinked), which holds through  *)
(* failing opens and deaths between two writes, because every single       *)
(* write puts down a blank entry or one with a right link.                 *)
(*                                                                         *)
(* And their rings (RingsWhole): of a file that a call writes the          *)
(* invariant says what is underway in it (Underway), given the place and   *)
(* the locals of that call, up to the contents it had before an entry was  *)
(* cleared; of every other file, that it is whole.                         *)
(*                                                                         *)
(* And that the files together are one map (StoreIsMap).  What the entries *)
(* of a whole file say of its keys is the map (Shows); what a file says    *)
(* that is being written is what it will say once the call is done         *)
(* (Means), where a PUT takes effect with the right link that makes its    *)
(* entry reachable and a DELETE with its last write.  Every write then     *)
(* keeps what its file means or is the one that takes effect (Tells).  The *)
(* bits of file_exists_status, which threads of different files change in  *)
(* one word, are the only thing between two files: as long as no two       *)
(* threads are inside its set() at once, none gets lost (BitInv).          *)
(***************************************************************************)
EXTENDS KVStoreViews, FiniteSetTheorems, SequenceTheorems, TLAPS

Creating == {"setbit", "create", "fill"}

(* The types the locks need, and that only write_to_db creates files: when *)
(* Fill comes to the slot, the call is none that reads.                    *)
StoreShape == /\ readers \in [Files -> SUBSET Workers]
              /\ writer \in [Files -> Workers \cup {NoWorker}]
              /\ DOMAIN disk = Files /\ DOMAIN pc = Workers /\ DOMAIN call = Workers
              /\ \A w \in Workers : /\ pc[w] # "idle" => call[w] \in Requests
                                    /\ pc[w] \in Creating => call[w].op = "PUT"

Locked == StoreShape /\ LocksMatchCalls

(* What Locked is about, but the files themselves. *)
lockedVars == <<readers, writer, pc, call, DOMAIN disk>>

LEMMA LockedInit == Init => Locked
BY StoreAssumption DEF Init, Locked, StoreShape, Creating, LocksMatchCalls, HoldsShared, HoldsExclusive

LEMMA LockedUnchanged == Locked /\ UNCHANGED lockedVars => Locked'
BY DEF Locked, StoreShape, Creating, LocksMatchCalls, HoldsShared, HoldsExclusive, File, lockedVars

LEMMA RequestHasFile == \A r \in Requests : r.key \in Keys /\ FileOf[r.key] \in Files
BY StoreAssumption DEF Requests

(* The file of a call that is under way. *)
LEMMA BusyHasFile == ASSUME NEW w \in Workers, StoreShape, pc[w] # "idle" PROVE File(w) \in Files
BY RequestHasFile DEF StoreShape, Creating, File

-----------------------------------------------------------------------------
(* What a step of w can do to its call and to the lock of its file. *)

(* It goes on under the lock it has. *)
GoesOn(w) == /\ \/ UNCHANGED pc
                \/ \E there :
                     /\ pc' = [pc EXCEPT ![w] = there]
                     /\ there \notin {"idle", "call"}
                     /\ there \in Creating => call[w].op = "PUT"
                     /\ there \in {"head", "walk"} /\ call[w].op = "GET"
                          <=> pc[w] \in {"head", "walk"} /\ call[w].op = "GET"
             /\ pc[w] \notin {"idle", "call"}
             /\ UNCHANGED <<readers, writer, call, DOMAIN disk>>

LEMMA KeptGoesOn == ASSUME NEW w \in Workers, Locked, GoesOn(w) PROVE Locked'
<1>1. CASE UNCHANGED pc
      <2>1. UNCHANGED lockedVars
            BY <1>1 DEF GoesOn, lockedVars
      <2> QED BY <2>1, LockedUnchanged
<1>2. CASE \E there :
             /\ pc' = [pc EXCEPT ![w] = there]
             /\ there \notin {"idle", "call"}
             /\ there \in Creating => call[w].op = "PUT"
             /\ there \in {"head", "walk"} /\ call[w].op = "GET"
                  <=> pc[w] \in {"head", "walk"} /\ call[w].op = "GET"
      <2>1. StoreShape'
            BY <1>2 DEF GoesOn, Locked, StoreShape, Creating
      <2>2. \A v \in Workers, f \in Files : /\ HoldsShared(v, f)' <=> HoldsShared(v, f)
                                            /\ HoldsExclusive(v, f)' <=> HoldsExclusive(v, f)
            BY <1>2 DEF GoesOn, Locked, StoreShape, Creating, HoldsShared, HoldsExclusive, File
      <2>3. UNCHANGED <<readers, writer>>
            BY DEF GoesOn
      <2>4. LocksMatchCalls'
            BY <2>2, <2>3 DEF Locked, LocksMatchCalls
      <2> QED BY <2>1, <2>4 DEF Locked
<1> QED BY <1>1, <1>2 DEF GoesOn

(* It begins, or ends without having had the lock. *)
WithoutLock(w) == /\ \/ pc[w] = "idle" /\ pc' = [pc EXCEPT ![w] = "call"]
                        /\ \E r \in Requests : call' = [call EXCEPT ![w] = r]
                     \/ pc[w] = "call" /\ pc' = [pc EXCEPT ![w] = "idle"]
                        /\ \E a : call' = [call EXCEPT ![w] = a]
                  /\ UNCHANGED <<readers, writer, DOMAIN disk>>

LEMMA KeptWithoutLock == ASSUME NEW w \in Workers, Locked, WithoutLock(w) PROVE Locked'
<1>1. StoreShape'
      BY DEF WithoutLock, Locked, StoreShape, Creating
<1>2. \A v \in Workers, f \in Files : /\ HoldsShared(v, f)' <=> HoldsShared(v, f)
                                      /\ HoldsExclusive(v, f)' <=> HoldsExclusive(v, f)
      BY DEF WithoutLock, Locked, StoreShape, Creating, HoldsShared, HoldsExclusive, File
<1>3. UNCHANGED <<readers, writer>>
      BY DEF WithoutLock
<1>4. LocksMatchCalls'
      BY <1>2, <1>3 DEF Locked, LocksMatchCalls
<1> QED BY <1>1, <1>4 DEF Locked

(* It takes the lock for reading. *)
TakesShared(w) == /\ pc[w] = "call" /\ call[w].op = "GET"
                  /\ writer[File(w)] = NoWorker
                  /\ pc' = [pc EXCEPT ![w] = "head"]
                  /\ readers' = [readers EXCEPT ![File(w)] = @ \cup {w}]
                  /\ UNCHANGED <<writer, call, DOMAIN disk>>

LEMMA KeptTakesShared == ASSUME NEW w \in Workers, Locked, TakesShared(w) PROVE Locked'
<1>1. File(w) \in Files
      BY BusyHasFile DEF TakesShared, Locked
<1>2. StoreShape'
      BY <1>1 DEF TakesShared, Locked, StoreShape, Creating
<1>3. \A v \in Workers, f \in Files :
        /\ HoldsShared(v, f)' <=> HoldsShared(v, f) \/ (v = w /\ f = File(w))
        /\ HoldsExclusive(v, f)' <=> HoldsExclusive(v, f)
      BY DEF TakesShared, Locked, StoreShape, Creating, HoldsShared, HoldsExclusive, File
<1>4. \A f \in Files : readers'[f] = IF f = File(w) THEN readers[f] \cup {w} ELSE readers[f]
      BY <1>1 DEF TakesShared, Locked, StoreShape, Creating
<1>5. writer' = writer /\ writer[File(w)] = NoWorker
      BY DEF TakesShared
<1>6. ASSUME NEW f \in Files
      PROVE  /\ readers'[f] = {v \in Workers : HoldsShared(v, f)'}
             /\ \A v \in Workers : writer'[f] = v <=> HoldsExclusive(v, f)'
             /\ writer'[f] = NoWorker \/ readers'[f] = {}
      <2>1. readers[f] = {v \in Workers : HoldsShared(v, f)}
            BY DEF Locked, LocksMatchCalls
      <2>2. readers'[f] = {v \in Workers : HoldsShared(v, f)'}
            BY <1>3, <1>4, <2>1
      <2>3. \A v \in Workers : writer'[f] = v <=> HoldsExclusive(v, f)'
            BY <1>3, <1>5 DEF Locked, LocksMatchCalls
      <2>4. writer'[f] = NoWorker \/ readers'[f] = {}
            BY <1>4, <1>5 DEF Locked, LocksMatchCalls
      <2> QED BY <2>2, <2>3, <2>4
<1>7. LocksMatchCalls'
      BY <1>6 DEF LocksMatchCalls
<1> QED BY <1>2, <1>7 DEF Locked

(* It takes the lock for writing. *)
TakesExclusive(w) == /\ pc[w] = "call" /\ call[w].op # "GET"
                     /\ writer[File(w)] = NoWorker /\ readers[File(w)] = {}
                     /\ \E there : /\ pc' = [pc EXCEPT ![w] = there]
                                   /\ there \notin {"idle", "call"}
                                   /\ there \in Creating => call[w].op = "PUT"
                     /\ writer' = [writer EXCEPT ![File(w)] = w]
                     /\ UNCHANGED <<readers, call, DOMAIN disk>>

LEMMA KeptTakesExclusive == ASSUME NEW w \in Workers, Locked, TakesExclusive(w) PROVE Locked'
<1>1. File(w) \in Files
      BY BusyHasFile DEF TakesExclusive, Locked
<1>2. StoreShape'
      BY <1>1 DEF TakesExclusive, Locked, StoreShape, Creating
<1>3. \A v \in Workers, f \in Files :
        /\ HoldsShared(v, f)' <=> HoldsShared(v, f)
        /\ HoldsExclusive(v, f)' <=> HoldsExclusive(v, f) \/ (v = w /\ f = File(w))
      BY DEF TakesExclusive, Locked, StoreShape, Creating, HoldsShared, HoldsExclusive, File
<1>4. \A f \in Files : writer'[f] = IF f = File(w) THEN w ELSE writer[f]
      BY <1>1 DEF TakesExclusive, Locked, StoreShape, Creating
<1>5. readers' = readers /\ writer[File(w)] = NoWorker /\ readers[File(w)] = {}
      BY DEF TakesExclusive
<1>6. LocksMatchCalls'
      BY <1>1, <1>3, <1>4, <1>5, StoreAssumption DEF Locked, LocksMatchCalls
<1> QED BY <1>2, <1>6 DEF Locked

(* It ends, and gives the lock back. *)
GivesBack(w) ==
  /\ pc[w] \notin {"idle", "call"}
  /\ pc' = [pc EXCEPT ![w] = "idle"]
  /\ \E a : call' = [call EXCEPT ![w] = a]
  /\ IF pc[w] \in {"head", "walk"} /\ call[w].op = "GET"
       THEN readers' = [readers EXCEPT ![File(w)] = @ \ {w}] /\ UNCHANGED writer
       ELSE writer' = [writer EXCEPT ![File(w)] = NoWorker] /\ UNCHANGED readers
  /\ UNCHANGED DOMAIN disk

LEMMA KeptGivesBack == ASSUME NEW w \in Workers, Locked, GivesBack(w) PROVE Locked'
<1>1. File(w) \in Files
      BY BusyHasFile DEF GivesBack, Locked
<1>2. StoreShape'
      BY <1>1 DEF GivesBack, Locked, StoreShape, Creating
<1>3. \A v \in Workers, f \in Files :
        /\ HoldsShared(v, f)' <=> HoldsShared(v, f) /\ v # w
        /\ HoldsExclusive(v, f)' <=> HoldsExclusive(v, f) /\ v # w
      BY DEF GivesBack, Locked, StoreShape, Creating, HoldsShared, HoldsExclusive, File
<1>4. CASE pc[w] \in {"head", "walk"} /\ call[w].op = "GET"
      <2>1. \A f \in Files : readers'[f] = IF f = File(w) THEN readers[f] \ {w} ELSE readers[f]
            BY <1>1, <1>4 DEF GivesBack, Locked, StoreShape, Creating
      <2>2. /\ writer' = writer
            /\ \A f \in Files : /\ ~HoldsExclusive(w, f)
                                /\ HoldsShared(w, f) <=> f = File(w)
            BY <1>4 DEF GivesBack, HoldsExclusive, HoldsShared
      <2>3. ASSUME NEW f \in Files
            PROVE  /\ readers'[f] = {v \in Workers : HoldsShared(v, f)'}
                   /\ \A v \in Workers : writer'[f] = v <=> HoldsExclusive(v, f)'
                   /\ writer'[f] = NoWorker \/ readers'[f] = {}
            <3>1. readers[f] = {v \in Workers : HoldsShared(v, f)}
                  BY DEF Locked, LocksMatchCalls
            <3>2. readers'[f] = {v \in Workers : HoldsShared(v, f)'}
                  BY <1>3, <2>1, <2>2, <3>1
            <3>3. \A v \in Workers : writer'[f] = v <=> HoldsExclusive(v, f)'
                  BY <1>3, <2>2 DEF Locked, LocksMatchCalls
            <3>4. writer'[f] = NoWorker \/ readers'[f] = {}
                  BY <2>1, <2>2 DEF Locked, LocksMatchCalls
            <3> QED BY <3>2, <3>3, <3>4
      <2>4. LocksMatchCalls'
            BY <2>3 DEF LocksMatchCalls
      <2> QED BY <1>2, <2>4 DEF Locked
<1>5. CASE ~(pc[w] \in {"head", "walk"} /\ call[w].op = "GET")
      <2>1. \A f \in Files : writer'[f] = IF f = File(w) THEN NoWorker ELSE writer[f]
            BY <1>1, <1>5 DEF GivesBack, Locked, StoreShape, Creating
      <2>2. /\ readers' = readers
            /\ \A f \in Files : /\ ~HoldsShared(w, f)
                                /\ HoldsExclusive(w, f) <=> f = File(w)
            BY <1>5 DEF GivesBack, HoldsExclusive, HoldsShared
      <2>3. LocksMatchCalls'
            BY <1>1, <1>3, <2>1, <2>2, StoreAssumption DEF Locked, LocksMatchCalls
      <2> QED BY <1>2, <2>3 DEF Locked
<1> QED BY <1>4, <1>5

LEMMA KeptCrash == Locked /\ Crash => Locked'
BY StoreAssumption
   DEF Crash, Locked, StoreShape, Creating, LocksMatchCalls, HoldsShared, HoldsExclusive

-----------------------------------------------------------------------------
(* Every action does one of these things. *)

Sorted(w) == \/ GoesOn(w) \/ WithoutLock(w) \/ TakesShared(w) \/ TakesExclusive(w)
             \/ GivesBack(w) \/ UNCHANGED lockedVars

LEMMA BeginSorted == ASSUME NEW w \in Workers, Begin(w) PROVE WithoutLock(w)
BY StoreAssumption DEF Begin, WithoutLock, Goto, fileVars, lockVars

LEMMA WalkSorted ==
  ASSUME NEW w \in Workers, Locked, WalkOn(w) \/ WalkAstray(w) \/ WalkBlind(w)
  PROVE  Sorted(w)
<1>1. CASE WalkOn(w)
      <2>1. GoesOn(w)
            BY <1>1 DEF WalkOn, AtEntry, GoesOn, Goto, Creating, fileVars, lockVars
      <2> QED BY <2>1 DEF Sorted
<1>2. CASE WalkAstray(w)
      <2>1. UNCHANGED lockedVars
            BY <1>2 DEF WalkAstray, lockedVars, vars, fileVars, lockVars
      <2> QED BY <2>1 DEF Sorted
<1>3. CASE WalkBlind(w)
      <2>1. GoesOn(w)
            BY <1>3 DEF WalkBlind, GoesOn, Goto, Creating, fileVars, lockVars
      <2> QED BY <2>1 DEF Sorted
<1> QED BY <1>1, <1>2, <1>3

LEMMA OpenSorted ==
  ASSUME NEW w \in Workers, Locked,
         UpdateOpen(w) \/ UpdateRefused(w) \/ ReadOpen(w) \/ DeleteNoFile(w)
  PROVE  Sorted(w)
<1>1. CASE UpdateOpen(w)
      <2>1. pc' = [pc EXCEPT ![w] = "head"] /\ "head" \notin {"idle", "call"} \cup Creating
            BY <1>1 DEF UpdateOpen, ToSlot, Goto, Creating
      <2>2. TakesExclusive(w)
            BY <1>1, <2>1 DEF UpdateOpen, LockExclusive, Unlocked, ToSlot, TakesExclusive, fileVars
      <2> QED BY <2>2 DEF Sorted
<1>2. CASE UpdateRefused(w)
      <2>1. WithoutLock(w)
            BY <1>2 DEF UpdateRefused, Return, WithoutLock, Goto, fileVars, lockVars
      <2> QED BY <2>1 DEF Sorted
<1>3. CASE ReadOpen(w)
      <2>1. CASE Return(w, FALSE, NoValue) /\ UNCHANGED lockVars
            <3>1. WithoutLock(w)
                  BY <1>3, <2>1 DEF ReadOpen, Return, WithoutLock, Goto, fileVars, lockVars
            <3> QED BY <3>1 DEF Sorted
      <2>2. CASE /\ ToSlot(w)
                 /\ readers' = [readers EXCEPT ![File(w)] = @ \cup {w}]
                 /\ UNCHANGED writer
            <3>1. TakesShared(w)
                  BY <1>3, <2>2 DEF ReadOpen, ToSlot, TakesShared, Goto, fileVars
            <3> QED BY <3>1 DEF Sorted
      <2> QED BY <1>3, <2>1, <2>2 DEF ReadOpen
<1>4. CASE DeleteNoFile(w)
      <2>1. WithoutLock(w)
            BY <1>4 DEF DeleteNoFile, Return, WithoutLock, Goto, fileVars, lockVars
      <2> QED BY <2>1 DEF Sorted
<1> QED BY <1>1, <1>2, <1>3, <1>4

LEMMA CreationSorted ==
  ASSUME NEW w \in Workers, Locked, Creation(w)
  PROVE  Sorted(w)
<1>1. CASE CreateBegin(w)
      <2>1. pc' = [pc EXCEPT ![w] = "setbit"] /\ "setbit" \notin {"idle", "call"}
            BY <1>1 DEF CreateBegin, Goto
      <2>2. TakesExclusive(w)
            BY <1>1, <2>1 DEF CreateBegin, LockExclusive, Unlocked, TakesExclusive, fileVars
      <2> QED BY <2>2 DEF Sorted
<1>2. CASE SetBit(w)
      <2>1. call[w].op = "PUT"
            BY <1>2 DEF SetBit, Locked, StoreShape, Creating
      <2>2. pc' = [pc EXCEPT ![w] = "create"] /\ "create" \notin {"idle", "call", "head", "walk"}
            BY <1>2 DEF SetBit, Goto
      <2>3. GoesOn(w)
            BY <1>2, <2>1, <2>2 DEF SetBit, GoesOn, lockVars, Locked, StoreShape
      <2> QED BY <2>3 DEF Sorted
<1>3. CASE Create(w)
      <2>1. call[w].op = "PUT"
            BY <1>3 DEF Create, Locked, StoreShape, Creating
      <2>2. pc' = [pc EXCEPT ![w] = "fill"] /\ "fill" \notin {"idle", "call", "head", "walk"}
            BY <1>3 DEF Create, Goto
      <2>3. GoesOn(w)
            BY <1>3, <2>1, <2>2 DEF Create, GoesOn, lockVars, Locked, StoreShape
      <2> QED BY <2>3 DEF Sorted
<1>4. CASE CreateRefused(w)
      <2>1. GivesBack(w)
            BY <1>4 DEF CreateRefused, Return, GivesBack, Goto, fileVars
      <2> QED BY <2>1 DEF Sorted
<1>5. CASE Fill(w)
      <2>1. call[w].op = "PUT" /\ pc[w] = "fill"
            BY <1>5 DEF Fill, Locked, StoreShape, Creating
      <2>2. GoesOn(w)
            BY <1>5, <2>1 DEF Fill, ToSlot, GoesOn, Goto, Creating, lockVars, Locked, StoreShape
      <2> QED BY <2>2 DEF Sorted
<1> QED BY <1>1, <1>2, <1>3, <1>4, <1>5 DEF Creation

(* The calls that end with their lock in their hands. *)
LEMMA SharedReturns ==
  ASSUME NEW w \in Workers, NEW ok, NEW v, Locked, ReturnShared(w, ok, v),
         pc[w] \in {"head", "walk"}, call[w].op = "GET", UNCHANGED fileVars
  PROVE  Sorted(w)
<1>1. GivesBack(w)
      BY DEF ReturnShared, Return, GivesBack, Goto, fileVars
<1> QED BY <1>1 DEF Sorted

LEMMA ExclusiveReturns ==
  ASSUME NEW w \in Workers, NEW ok, Locked, ReturnExclusive(w, ok),
         pc[w] \notin {"idle", "call"},
         pc[w] \in {"head", "walk"} => call[w].op # "GET",
         DOMAIN disk' = DOMAIN disk
  PROVE  Sorted(w)
<1>1. GivesBack(w)
      BY DEF ReturnExclusive, Return, GivesBack, Goto
<1> QED BY <1>1 DEF Sorted

(* A call that updates and goes on from one write to the next. *)
LEMMA WritesGoOn ==
  ASSUME NEW w \in Workers,
         NEW there \in {"link", "linkleft", "third", "copy", "unlinkright", "unlinkleft"},
         pc' = [pc EXCEPT ![w] = there],
         pc[w] \notin {"idle", "call"},
         pc[w] \in {"head", "walk"} => call[w].op # "GET",
         UNCHANGED <<readers, writer, call, DOMAIN disk>>
  PROVE  Sorted(w)
<1>1. GoesOn(w)
      BY DEF GoesOn, Creating
<1> QED BY <1>1 DEF Sorted

LEMMA ReadSorted ==
  ASSUME NEW w \in Workers, Locked, ReadFound(w) \/ ReadNone(w)
  PROVE  Sorted(w)
<1>1. pc[w] \in {"head", "walk"} /\ call[w].op = "GET" /\ UNCHANGED fileVars
      BY DEF ReadFound, ReadNone, Serves, Found, NotFound, AtEntry
<1>2. \E ok, v : ReturnShared(w, ok, v)
      BY DEF ReadFound, ReadNone
<1> QED BY <1>1, <1>2, SharedReturns

LEMMA WriteSorted ==
  ASSUME NEW w \in Workers, Locked,
         \/ WriteFound(w) \/ WriteFirst(w) \/ WriteAppend(w) \/ WriteNothing(w)
         \/ LinkBoth(w) \/ LinkRight(w) \/ LinkLeft(w)
  PROVE  Sorted(w)
<1>1. CASE WriteFound(w) \/ WriteFirst(w) \/ WriteNothing(w)
      <2>1. pc[w] \in {"head", "walk"} /\ call[w].op = "PUT"
            BY <1>1 DEF WriteFound, WriteFirst, WriteNothing, Serves, Found, AtEntry
      <2>2. ReturnExclusive(w, TRUE) /\ DOMAIN disk' = DOMAIN disk
            BY <1>1 DEF WriteFound, WriteFirst, WriteNothing, Write, fileVars
      <2> QED BY <2>1, <2>2, ExclusiveReturns
<1>2. CASE WriteAppend(w)
      <2>1. pc' = [pc EXCEPT ![w] = "link"] /\ pc[w] = "walk" /\ call[w].op = "PUT"
            BY <1>2 DEF WriteAppend, Serves, Goto
      <2>2. UNCHANGED <<readers, writer, call, DOMAIN disk>>
            BY <1>2 DEF WriteAppend, lockVars
      <2> QED BY <2>1, <2>2, WritesGoOn
<1>3. CASE LinkBoth(w) \/ LinkLeft(w)
      <2>1. pc[w] \notin {"idle", "call", "head", "walk"}
            BY <1>3 DEF LinkBoth, LinkLeft
      <2>2. ReturnExclusive(w, TRUE) /\ DOMAIN disk' = DOMAIN disk
            BY <1>3 DEF LinkBoth, LinkLeft, Write, ThenWrite
      <2> QED BY <2>1, <2>2, ExclusiveReturns
<1>4. CASE LinkRight(w)
      <2>1. pc' = [pc EXCEPT ![w] = "linkleft"] /\ pc[w] = "link"
            BY <1>4 DEF LinkRight, Goto
      <2>2. UNCHANGED <<readers, writer, call, DOMAIN disk>>
            BY <1>4 DEF LinkRight, Write, lockVars
      <2> QED BY <2>1, <2>2, WritesGoOn
<1> QED BY <1>1, <1>2, <1>3, <1>4

LEMMA DeleteSorted ==
  ASSUME NEW w \in Workers, Locked,
         \/ DeleteNone(w) \/ DeleteOnly(w)
         \/ DeleteHead(w) \/ RelinkThird(w) \/ CopySecond(w)
         \/ DeleteEntry(w) \/ UnlinkRight(w) \/ UnlinkLeft(w)
  PROVE  Sorted(w)
<1>1. CASE DeleteNone(w) \/ DeleteOnly(w)
      <2>1. pc[w] \in {"head", "walk"} /\ call[w].op = "DELETE"
            BY <1>1 DEF DeleteNone, DeleteOnly, Serves, NotFound
      <2>2. \E ok : ReturnExclusive(w, ok)
            BY <1>1 DEF DeleteNone, DeleteOnly
      <2>3. DOMAIN disk' = DOMAIN disk
            BY <1>1 DEF DeleteNone, DeleteOnly, Write, fileVars
      <2> QED BY <2>1, <2>2, <2>3, ExclusiveReturns
<1>2. CASE DeleteHead(w) \/ DeleteEntry(w)
      <2>1. pc[w] \in {"head", "walk"} /\ call[w].op = "DELETE"
            BY <1>2 DEF DeleteHead, DeleteEntry, Serves
      <2>2. \E there \in {"third", "unlinkright"} : pc' = [pc EXCEPT ![w] = there]
            BY <1>2 DEF DeleteHead, DeleteEntry, Goto
      <2>3. UNCHANGED <<readers, writer, call, DOMAIN disk>>
            BY <1>2 DEF DeleteHead, DeleteEntry, Write, lockVars
      <2> QED BY <2>1, <2>2, <2>3, WritesGoOn
<1>3. CASE RelinkThird(w)
      <2>1. pc[w] = "third"
            BY <1>3 DEF RelinkThird
      <2>2. CASE Goto(w, "copy") /\ UNCHANGED <<lockVars, call, DOMAIN disk>>
            <3>1. pc' = [pc EXCEPT ![w] = "copy"]
                  BY <2>2 DEF Goto
            <3> QED BY <2>1, <2>2, <3>1, WritesGoOn DEF lockVars
      <2>3. CASE ReturnExclusive(w, TRUE) /\ UNCHANGED disk
            BY <2>1, <2>3, ExclusiveReturns
      <2> QED BY <1>3, <2>2, <2>3 DEF RelinkThird, Write
<1>4. CASE CopySecond(w) \/ UnlinkLeft(w)
      <2>1. pc[w] \notin {"idle", "call", "head", "walk"}
            BY <1>4 DEF CopySecond, UnlinkLeft
      <2>2. ReturnExclusive(w, TRUE) /\ DOMAIN disk' = DOMAIN disk
            BY <1>4 DEF CopySecond, UnlinkLeft, Write, ThenWrite
      <2> QED BY <2>1, <2>2, ExclusiveReturns
<1>5. CASE UnlinkRight(w)
      <2>1. pc' = [pc EXCEPT ![w] = "unlinkleft"] /\ pc[w] = "unlinkright"
            BY <1>5 DEF UnlinkRight, Goto
      <2>2. UNCHANGED <<readers, writer, call, DOMAIN disk>>
            BY <1>5 DEF UnlinkRight, Write, lockVars
      <2> QED BY <2>1, <2>2, WritesGoOn
<1> QED BY <1>1, <1>2, <1>3, <1>4, <1>5

LEMMA StepSorted == ASSUME NEW w \in Workers, Locked, Step(w) PROVE Sorted(w)
BY WalkSorted, OpenSorted, CreationSorted, ReadSorted, WriteSorted, DeleteSorted
   DEF Step, Read, Update, Delete

LEMMA LockedNext == Locked /\ [Next]_vars => Locked'
<1> SUFFICES ASSUME Locked, [Next]_vars PROVE Locked'
    OBVIOUS
<1>1. CASE Crash
      BY <1>1, KeptCrash
<1>2. ASSUME NEW w \in Workers, Begin(w) PROVE Locked'
      BY <1>2, BeginSorted, KeptWithoutLock
<1>3. ASSUME NEW w \in Workers, Step(w) PROVE Locked'
      BY <1>3, StepSorted, KeptGoesOn, KeptWithoutLock, KeptTakesShared, KeptTakesExclusive,
         KeptGivesBack, LockedUnchanged DEF Sorted
<1>4. CASE UNCHANGED vars
      <2>1. UNCHANGED lockedVars
            BY <1>4 DEF vars, lockedVars, fileVars, lockVars
      <2> QED BY <2>1, LockedUnchanged
<1> QED BY <1>1, <1>2, <1>3, <1>4 DEF Next

(* In every behaviour of the store the locks of the files are held exactly *)
(* by the calls that are between their open and their return.              *)
THEOREM FilesAreLocked == Spec => []LocksMatchCalls
<1>1. Locked => LocksMatchCalls
      BY DEF Locked
<1> QED BY <1>1, LockedInit, LockedNext, PTL DEF Spec

-----------------------------------------------------------------------------
(* A step of w changes its own file at most, and only with its lock. *)

LEMMA WritesOwnFile ==
  ASSUME NEW w \in Workers, Locked, Step(w), NEW f \in Files,
         disk'[f] # disk[f] \/ f \in onDisk' \ onDisk
  PROVE  HoldsExclusive(w, f)
<1>1. ASSUME disk' # disk \/ onDisk' # onDisk
      PROVE  /\ pc[w] \notin {"idle", "call"}
             /\ pc[w] \in {"head", "walk"} => call[w].op # "GET"
             /\ \E d : disk' = [disk EXCEPT ![File(w)] = d]
             /\ onDisk' \subseteq onDisk \cup {File(w)}
      <2>1. CASE Create(w) \/ Fill(w)
            BY <2>1 DEF Create, Fill
      <2>2. CASE WriteFound(w) \/ WriteFirst(w) \/ WriteAppend(w)
            BY <2>2 DEF WriteFound, WriteFirst, WriteAppend, Write, Serves, Found, AtEntry
      <2>3. CASE LinkBoth(w) \/ LinkRight(w) \/ LinkLeft(w)
            BY <2>3 DEF LinkBoth, LinkRight, LinkLeft, Write, ThenWrite
      <2>4. CASE DeleteOnly(w) \/ DeleteHead(w) \/ DeleteEntry(w)
            BY <2>4 DEF DeleteOnly, DeleteHead, DeleteEntry, Write, Serves
      <2>5. CASE RelinkThird(w)
            BY <1>1, <2>5 DEF RelinkThird, Write
      <2>6. CASE CopySecond(w) \/ UnlinkRight(w) \/ UnlinkLeft(w)
            BY <2>6 DEF CopySecond, UnlinkRight, UnlinkLeft, Write, ThenWrite
      <2>7. CASE \/ UpdateOpen(w) \/ UpdateRefused(w) \/ WalkOn(w) \/ WalkAstray(w)
                 \/ WalkBlind(w) \/ Read(w)
            BY <1>1, <2>7 DEF UpdateOpen, UpdateRefused, WalkOn, WalkAstray, WalkBlind,
               Read, ReadOpen, ReadFound, ReadNone, fileVars, vars
      <2>8. CASE \/ CreateBegin(w) \/ SetBit(w) \/ CreateRefused(w) \/ WriteNothing(w)
                 \/ DeleteNoFile(w) \/ DeleteNone(w)
            BY <1>1, <2>8 DEF CreateBegin, SetBit, CreateRefused, WriteNothing,
               DeleteNoFile, DeleteNone, fileVars
      <2> QED BY <2>1, <2>2, <2>3, <2>4, <2>5, <2>6, <2>7, <2>8
              DEF Step, Update, Creation, Delete
<1>2. f = File(w)
      BY <1>1 DEF Locked, StoreShape
<1> QED BY <1>1, <1>2 DEF HoldsExclusive

(* A file of the store only changes, or comes to be, while one call has    *)
(* its lock exclusively and no call reads it.                              *)
THEOREM FilesChangeUnderLock == Spec => FilesGuarded
<1>1. ASSUME Locked, [Next]_vars, NEW f \in Files,
             disk'[f] # disk[f] \/ f \in onDisk' \ onDisk
      PROVE  writer[f] # NoWorker /\ readers[f] = {}
      <2>1. PICK w \in Workers : Step(w)
            BY <1>1 DEF Next, Crash, Begin, vars, fileVars
      <2>2. HoldsExclusive(w, f)
            BY <1>1, <2>1, WritesOwnFile
      <2>3. writer[f] = w
            BY <1>1, <2>2 DEF Locked, LocksMatchCalls
      <2> QED BY <1>1, <2>3, StoreAssumption DEF Locked, LocksMatchCalls
<1>2. Locked /\ [Next]_vars =>
        [\A f \in Files : disk'[f] # disk[f] \/ f \in onDisk' \ onDisk =>
                             writer[f] # NoWorker /\ readers[f] = {}]_vars
      BY <1>1
<1> QED BY <1>2, LockedInit, LockedNext, PTL DEF Spec, FilesGuarded
-----------------------------------------------------------------------------
(* The contents of the files.  Links never leave a file, and an entry with *)
(* a key has a right link and a value, torn or not; what a call has read   *)
(* and will write is fit for that, and stays so, since its file does not   *)
(* change under it.                                                        *)

Locals == [at : Nat, prev : Nat, hold : Entry, word : SUBSET Files]

(* An entry of a file with n entries. *)
ProperEntry(e, n) == /\ e \in Entry
                     /\ e.left <= n /\ e.right <= n
                     /\ e.key # NoKey => e.right # MaxIdx /\ e.value # NoValue

ProperFile(d) == d \in Seq(Entry) /\ \A i \in DOMAIN d : ProperEntry(d[i], Len(d))

(* At place p the locals l of a call r are fit for the contents d of its   *)
(* file.                                                                   *)
Fits(p, r, l, d) ==
  /\ p = "head" => l.at = SlotOf[r.key]
  /\ p = "walk" /\ r.op = "PUT" /\ SlotOf[r.key] <= Len(d) => l.prev <= Len(d)
  /\ p \in {"link", "linkleft"} => l.prev <= Len(d)
  /\ p \in {"third", "copy"} => SlotOf[r.key] <= Len(d)
  /\ p \in {"third", "copy", "unlinkright", "unlinkleft"} => ProperEntry(l.hold, Len(d))
  /\ p \in {"copy", "unlinkright", "unlinkleft"} => l.hold.right # MaxIdx

CallFits(w) == pc[w] # "idle" => Fits(pc[w], call[w], loc[w], Here(w))

Formed == /\ TypeOK
          /\ \A f \in Files : ProperFile(disk[f])
          /\ \A w \in Workers : CallFits(w)

LEMMA NoLocalsOK == NoLocals \in Locals /\ Blank \in Entry /\ \A n \in Nat : ProperEntry(Blank, n)
BY DEF NoLocals, Locals, Blank, MaxIdx, Entry, MaybeValue, ProperEntry

LEMMA ProperWrite ==
  ASSUME NEW d, ProperFile(d), NEW i, NEW e, i \in DOMAIN d => ProperEntry(e, Len(d))
  PROVE  ProperFile([d EXCEPT ![i] = e]) /\ Len([d EXCEPT ![i] = e]) = Len(d)
<1>1. CASE i \notin DOMAIN d
      <2>1. [d EXCEPT ![i] = e] = d
            BY <1>1 DEF ProperFile
      <2> QED BY <2>1
<1>2. CASE i \in DOMAIN d
      <2> DEFINE x == [d EXCEPT ![i] = e]
      <2>1. d \in Seq(Entry) /\ i \in 1..Len(d) /\ e \in Entry
            BY <1>2 DEF ProperFile, ProperEntry
      <2>2. x \in Seq(Entry) /\ Len(x) = Len(d)
            BY <2>1, ExceptSeq
      <2>3. \A j \in DOMAIN x : x[j] = IF j = i THEN e ELSE d[j]
            BY <2>1
      <2>4. DOMAIN x = DOMAIN d
            OBVIOUS
      <2>5. \A j \in DOMAIN x : ProperEntry(x[j], Len(x))
            BY <1>2, <2>2, <2>3, <2>4 DEF ProperFile
      <2> QED BY <2>2, <2>5 DEF ProperFile
<1> QED BY <1>1, <1>2

LEMMA ProperAppend ==
  ASSUME NEW d, ProperFile(d), NEW e, ProperEntry(e, Len(d) + 1)
  PROVE  ProperFile(Append(d, e)) /\ Len(Append(d, e)) = Len(d) + 1
<1>1. d \in Seq(Entry) /\ e \in Entry
      BY DEF ProperFile, ProperEntry
<1>2. Append(d, e) \in Seq(Entry) /\ Len(Append(d, e)) = Len(d) + 1
      BY <1>1
<1>3. ASSUME NEW j \in DOMAIN Append(d, e) PROVE ProperEntry(Append(d, e)[j], Len(d) + 1)
      <2>1. CASE j = Len(d) + 1
            BY <1>1, <2>1
      <2>2. CASE j \in 1..Len(d)
            <3>1. Append(d, e)[j] = d[j] /\ j \in DOMAIN d
                  BY <1>1, <2>2
            <3> QED BY <1>1, <3>1 DEF ProperFile, ProperEntry, Entry
      <2> QED BY <1>1, <1>2, <2>1, <2>2
<1> QED BY <1>2, <1>3 DEF ProperFile

LEMMA FormedInit == Init => Formed
<1> SUFFICES ASSUME Init PROVE Formed
    OBVIOUS
<1>1. /\ disk \in [Files -> Seq(Entry)]
      /\ \A f \in Files : ProperFile(disk[f])
      BY DEF Init, ProperFile
<1>2. /\ call \in [Workers -> Requests \cup Answers]
      /\ loc \in [Workers -> [at : Nat, prev : Nat, hold : Entry, word : SUBSET Files]]
      BY NoLocalsOK DEF Init, Locals, NoAnswer, Answer, Answers, MaybeValue
<1>3. /\ readers \in [Files -> SUBSET Workers]
      /\ writer \in [Files -> Workers \cup {NoWorker}]
      /\ onDisk \subseteq Files /\ exists \subseteq Files
      /\ \A w \in Workers : pc[w] = "idle"
      /\ torn \in BOOLEAN /\ refused \in BOOLEAN
      BY DEF Init
<1>4. crashes \in 0..MaxCrashes
      BY StoreAssumption DEF Init
<1>5. TypeOK
      BY <1>1, <1>2, <1>3, <1>4 DEF TypeOK
<1>6. \A w \in Workers : CallFits(w)
      BY DEF Init, CallFits
<1> QED BY <1>1, <1>5, <1>6 DEF Formed

(* A call that is under way comes to place p with request (or answer) r    *)
(* and locals l, and leaves its file with contents d.                      *)
Turns(w, p, r, l, d) ==
  /\ pc[w] # "idle"
  /\ \A v \in Workers : pc'[v] = IF v = w THEN p ELSE pc[v]
  /\ call' = [call EXCEPT ![w] = r]
  /\ loc' = [loc EXCEPT ![w] = l]
  /\ disk' = [disk EXCEPT ![File(w)] = d]
  /\ l \in Locals /\ ProperFile(d)
  /\ IF p = "idle" THEN r \in Answers ELSE r = call[w] /\ Fits(p, r, l, d)

(* What is known of a call that is under way. *)
LEMMA BusyFits ==
  ASSUME NEW w \in Workers, Formed, pc[w] # "idle"
  PROVE  /\ call[w] \in Requests /\ call[w].key \in Keys /\ call[w].value \in MaybeValue
         /\ File(w) \in Files /\ Slot(w) \in Nat /\ Slot(w) # MaxIdx
         /\ Here(w) \in Seq(Entry) /\ ProperFile(Here(w))
         /\ loc[w] \in Locals
         /\ Fits(pc[w], call[w], loc[w], Here(w))
         /\ disk = [disk EXCEPT ![File(w)] = Here(w)]
         /\ call = [call EXCEPT ![w] = call[w]] /\ loc = [loc EXCEPT ![w] = loc[w]]
<1>1. call[w] \in Requests
      BY DEF Formed, TypeOK
<1>2. call[w].key \in Keys /\ call[w].value \in MaybeValue
      BY <1>1 DEF Requests, MaybeValue
<1>3. File(w) \in Files /\ Slot(w) \in 1..TableLen
      BY <1>2, StoreAssumption DEF File, Slot
<1>4. Slot(w) \in Nat /\ Slot(w) # MaxIdx
      BY <1>3, StoreAssumption DEF MaxIdx
<1>5. Here(w) \in Seq(Entry) /\ ProperFile(Here(w)) /\ loc[w] \in Locals
      BY <1>3 DEF Formed, TypeOK, Here, Locals
<1>6. Fits(pc[w], call[w], loc[w], Here(w))
      BY DEF Formed, CallFits
<1>7. /\ disk = [disk EXCEPT ![File(w)] = Here(w)]
      /\ call = [call EXCEPT ![w] = call[w]] /\ loc = [loc EXCEPT ![w] = loc[w]]
      BY <1>3 DEF Formed, TypeOK, Here
<1> QED BY <1>1, <1>2, <1>3, <1>4, <1>5, <1>6, <1>7

(* Only the owner of a file's lock depends on its contents. *)
LEMMA OthersFit ==
  ASSUME NEW w \in Workers, NEW v \in Workers, v # w, Locked, Formed, Step(w),
         NEW p, NEW r, NEW l, NEW d, Turns(w, p, r, l, d)
  PROVE  CallFits(v)'
<1> SUFFICES ASSUME pc'[v] # "idle" PROVE CallFits(v)'
    BY DEF CallFits
<1>1. pc'[v] = pc[v] /\ call'[v] = call[v] /\ loc'[v] = loc[v] /\ File(v)' = File(v)
      BY DEF Turns, Formed, TypeOK, File
<1>2. File(v) \in Files /\ Fits(pc[v], call[v], loc[v], Here(v))
      BY <1>1, BusyFits
<1>3. CASE disk'[File(v)] = disk[File(v)]
      BY <1>1, <1>2, <1>3 DEF CallFits, Here
<1>4. CASE disk'[File(v)] # disk[File(v)]
      <2>1. HoldsExclusive(w, File(v))
            BY <1>2, <1>4, WritesOwnFile
      <2>2. ~HoldsExclusive(v, File(v))
            BY <1>2, <2>1 DEF Locked, LocksMatchCalls
      <2>3. pc[v] = "call" \/ (pc[v] \in {"head", "walk"} /\ call[v].op = "GET")
            BY <1>1, <2>2 DEF HoldsExclusive
      <2>4. Fits(pc[v], call[v], loc[v], Here(v)')
            BY <1>2, <2>3 DEF Fits
      <2> QED BY <1>1, <2>4 DEF CallFits
<1> QED BY <1>3, <1>4

LEMMA StepPast ==
  ASSUME NEW w \in Workers, Formed, Step(w)
  PROVE  /\ crashes' = crashes /\ torn' = torn /\ torn' \in BOOLEAN /\ refused' \in BOOLEAN
         /\ onDisk' \subseteq Files /\ exists' \subseteq Files
<1>1. /\ crashes' = crashes /\ torn' = torn
      /\ refused' = refused \/ refused' \in BOOLEAN
      /\ onDisk' = onDisk \/ (pc[w] # "idle" /\ onDisk' = onDisk \cup {File(w)})
      /\ exists' = exists \/ (pc[w] # "idle" /\ exists' = loc[w].word \cup {File(w)})
      <2>1. CASE UpdateOpen(w) \/ UpdateRefused(w) \/ ReadOpen(w) \/ DeleteNoFile(w)
            BY <2>1 DEF UpdateOpen, UpdateRefused, ReadOpen, DeleteNoFile, Open, fileVars, pastVars
      <2>2. CASE Creation(w)
            BY <2>2 DEF Creation, CreateBegin, SetBit, Create, CreateRefused, Fill, fileVars,
               pastVars
      <2>3. CASE WalkOn(w) \/ WalkAstray(w) \/ WalkBlind(w)
            BY <2>3 DEF WalkOn, WalkAstray, WalkBlind, vars, fileVars, pastVars
      <2>4. CASE ReadFound(w) \/ ReadNone(w) \/ WriteNothing(w) \/ DeleteNone(w)
            BY <2>4 DEF ReadFound, ReadNone, WriteNothing, DeleteNone, ReturnShared,
               ReturnExclusive, fileVars, pastVars
      <2>5. CASE \/ WriteFound(w) \/ WriteFirst(w) \/ WriteAppend(w) \/ LinkBoth(w)
                 \/ LinkRight(w) \/ LinkLeft(w)
            BY <2>5 DEF WriteFound, WriteFirst, WriteAppend, LinkBoth, LinkRight, LinkLeft,
               ReturnExclusive, pastVars
      <2>6. CASE \/ DeleteOnly(w) \/ DeleteHead(w) \/ RelinkThird(w) \/ CopySecond(w)
                 \/ DeleteEntry(w) \/ UnlinkRight(w) \/ UnlinkLeft(w)
            BY <2>6 DEF DeleteOnly, DeleteHead, RelinkThird, CopySecond, DeleteEntry,
               UnlinkRight, UnlinkLeft, ReturnExclusive, pastVars
      <2> QED BY <2>1, <2>2, <2>3, <2>4, <2>5, <2>6 DEF Step, Read, Update, Delete
<1>2. pc[w] # "idle" => File(w) \in Files /\ loc[w].word \subseteq Files
      BY BusyFits DEF Locals
<1> QED BY <1>1, <1>2 DEF Formed, TypeOK

(* A file that could not be opened is remembered. *)
LEMMA RefusedStays ==
  ASSUME NEW w \in Workers, Step(w), refused = TRUE
  PROVE  refused' = TRUE
<1>1. CASE UpdateOpen(w) \/ UpdateRefused(w)
      BY <1>1 DEF UpdateOpen, UpdateRefused, Open
<1>2. CASE ReadOpen(w) \/ DeleteNoFile(w)
      BY <1>2 DEF ReadOpen, DeleteNoFile, Open, pastVars
<1>3. CASE Creation(w)
      BY <1>3 DEF Creation, CreateBegin, SetBit, Create, CreateRefused, Fill, pastVars
<1>4. CASE WalkOn(w) \/ WalkAstray(w) \/ WalkBlind(w)
      BY <1>4 DEF WalkOn, WalkAstray, WalkBlind, vars, pastVars
<1>5. CASE ReadFound(w) \/ ReadNone(w) \/ WriteNothing(w) \/ DeleteNone(w)
      BY <1>5 DEF ReadFound, ReadNone, WriteNothing, DeleteNone, ReturnShared,
         ReturnExclusive, pastVars
<1>6. CASE \/ WriteFound(w) \/ WriteFirst(w) \/ WriteAppend(w) \/ LinkBoth(w)
           \/ LinkRight(w) \/ LinkLeft(w)
      BY <1>6 DEF WriteFound, WriteFirst, WriteAppend, LinkBoth, LinkRight, LinkLeft,
         ReturnExclusive, pastVars
<1>7. CASE \/ DeleteOnly(w) \/ DeleteHead(w) \/ RelinkThird(w) \/ CopySecond(w)
           \/ DeleteEntry(w) \/ UnlinkRight(w) \/ UnlinkLeft(w)
      BY <1>7 DEF DeleteOnly, DeleteHead, RelinkThird, CopySecond, DeleteEntry,
         UnlinkRight, UnlinkLeft, ReturnExclusive, pastVars
<1> QED BY <1>1, <1>2, <1>3, <1>4, <1>5, <1>6, <1>7 DEF Step, Read, Update, Delete

LEMMA FormedTurn ==
  ASSUME NEW w \in Workers, Locked, Locked', Formed, Step(w),
         NEW p, NEW r, NEW l, NEW d, Turns(w, p, r, l, d)
  PROVE  Formed'
<1>1. File(w) \in Files /\ call[w] \in Requests
      BY BusyFits DEF Turns
<1>2. disk' \in [Files -> Seq(Entry)] /\ \A f \in Files : ProperFile(disk'[f])
      BY <1>1 DEF Turns, Formed, TypeOK, ProperFile
<1>3. call' \in [Workers -> Requests \cup Answers]
      BY <1>1 DEF Turns, Formed, TypeOK
<1>4. loc' \in [Workers -> [at : Nat, prev : Nat, hold : Entry, word : SUBSET Files]]
      BY DEF Turns, Formed, TypeOK, Locals
<1>5. \A v \in Workers : pc'[v] # "idle" => call'[v] \in Requests
      BY DEF Locked, StoreShape
<1>6. crashes' \in 0..MaxCrashes
      BY StepPast DEF Formed, TypeOK
<1>7. TypeOK'
      BY <1>2, <1>3, <1>4, <1>5, <1>6, StepPast DEF TypeOK, Locked, StoreShape
<1>8. CallFits(w)'
      <2>1. CASE p = "idle"
            BY <2>1 DEF Turns, CallFits
      <2>2. CASE p # "idle"
            <3>1. pc'[w] = p /\ call'[w] = r /\ r = call[w] /\ loc'[w] = l
                  BY <2>2 DEF Turns, Formed, TypeOK
            <3>2. Here(w)' = d
                  BY <1>1, <3>1 DEF Turns, Formed, TypeOK, Here, File
            <3> QED BY <2>2, <3>1, <3>2 DEF Turns, CallFits
      <2> QED BY <2>1, <2>2
<1> QED BY <1>2, <1>7, <1>8, OthersFit DEF Formed

(* Every step of a call does that: it returns, or goes on.                 *)
Turning(w) == \E p, r, l, d : Turns(w, p, r, l, d)

LEMMA ReturnTurns ==
  ASSUME NEW w \in Workers, Locked, Formed, pc[w] # "idle",
         NEW ok \in BOOLEAN, NEW x \in MaybeValue, Return(w, ok, x),
         NEW d, ProperFile(d), disk' = [disk EXCEPT ![File(w)] = d]
  PROVE  Turning(w)
<1>1. Answer(ok, x) \in Answers
      BY DEF Answer, Answers
<1>2. \A v \in Workers : pc'[v] = IF v = w THEN "idle" ELSE pc[v]
      BY DEF Return, Goto, Locked, StoreShape
<1>3. Turns(w, "idle", Answer(ok, x), NoLocals, d)
      BY <1>1, <1>2, NoLocalsOK DEF Turns, Return
<1> QED BY <1>3 DEF Turning

LEMMA GoesOnTurns ==
  ASSUME NEW w \in Workers, Locked, Formed, pc[w] # "idle",
         NEW p, p # "idle", Goto(w, p) \/ (UNCHANGED pc /\ p = pc[w]), UNCHANGED call,
         NEW l \in Locals, loc' = [loc EXCEPT ![w] = l],
         NEW d, ProperFile(d), disk' = [disk EXCEPT ![File(w)] = d],
         Fits(p, call[w], l, d)
  PROVE  Turning(w)
<1>1. \A v \in Workers : pc'[v] = IF v = w THEN p ELSE pc[v]
      BY DEF Goto, Locked, StoreShape
<1>2. call' = [call EXCEPT ![w] = call[w]]
      BY BusyFits
<1>3. Turns(w, p, call[w], l, d)
      BY <1>1, <1>2 DEF Turns
<1> QED BY <1>3 DEF Turning

(* To the slot, with the file as it is or just filled. *)
LEMMA ToSlotTurns ==
  ASSUME NEW w \in Workers, Locked, Formed, pc[w] # "idle", ToSlot(w),
         NEW d, ProperFile(d), disk' = [disk EXCEPT ![File(w)] = d]
  PROVE  Turning(w)
<1> DEFINE l == [loc[w] EXCEPT !.at = Slot(w)]
<1>1. l \in Locals
      BY BusyFits DEF Locals
<1>2. Fits("head", call[w], l, d)
      BY <1>1, BusyFits DEF Fits, Slot, Locals
<1>3. Goto(w, "head") /\ UNCHANGED call /\ loc' = [loc EXCEPT ![w] = l]
      BY DEF ToSlot, Formed, TypeOK
<1> QED BY <1>1, <1>2, <1>3, GoesOnTurns

LEMMA OpenTurns ==
  ASSUME NEW w \in Workers, Locked, Formed,
         UpdateOpen(w) \/ UpdateRefused(w) \/ ReadOpen(w) \/ DeleteNoFile(w)
  PROVE  Turning(w)
<1>1. pc[w] # "idle" /\ UNCHANGED disk
      BY DEF UpdateOpen, UpdateRefused, ReadOpen, DeleteNoFile, fileVars
<1>2. ProperFile(Here(w)) /\ disk' = [disk EXCEPT ![File(w)] = Here(w)]
      BY <1>1, BusyFits
<1>3. CASE ToSlot(w)
      BY <1>1, <1>2, <1>3, ToSlotTurns
<1>4. CASE \E ok \in BOOLEAN : Return(w, ok, NoValue)
      BY <1>1, <1>2, <1>4, ReturnTurns DEF MaybeValue
<1> QED BY <1>3, <1>4 DEF UpdateOpen, UpdateRefused, ReadOpen, DeleteNoFile

LEMMA CreationTurns ==
  ASSUME NEW w \in Workers, Locked, Formed, Creation(w)
  PROVE  Turning(w)
<1>1. CASE CreateBegin(w) \/ SetBit(w)
      <2>1. /\ pc[w] # "idle" /\ UNCHANGED <<disk, call>>
            /\ \E p \in {"setbit", "create"} : Goto(w, p)
            BY <1>1 DEF CreateBegin, SetBit, fileVars
      <2>2. \E l \in Locals : loc' = [loc EXCEPT ![w] = l]
            <3>1. CASE CreateBegin(w)
                  <4>1. [loc[w] EXCEPT !.word = exists] \in Locals
                        BY <2>1, BusyFits, ZenonT(40) DEF Locals, Formed, TypeOK
                  <4> QED BY <3>1, <4>1 DEF CreateBegin, Formed, TypeOK
            <3>2. CASE SetBit(w)
                  BY <2>1, <3>2, BusyFits DEF SetBit
            <3> QED BY <1>1, <3>1, <3>2
      <2>3. \A p \in {"setbit", "create"} : \A l : Fits(p, call[w], l, Here(w))
            BY DEF Fits
      <2>4. ProperFile(Here(w)) /\ disk' = [disk EXCEPT ![File(w)] = Here(w)]
            BY <2>1, BusyFits
      <2> QED BY <2>1, <2>2, <2>3, <2>4, GoesOnTurns
<1>2. CASE Create(w)
      <2>1. /\ pc[w] # "idle" /\ Goto(w, "fill") /\ UNCHANGED call
            /\ disk' = [disk EXCEPT ![File(w)] = <<>>] /\ loc' = loc
            BY <1>2 DEF Create
      <2>2. ProperFile(<<>>) /\ Fits("fill", call[w], loc[w], <<>>)
            BY DEF ProperFile, Fits
      <2> QED BY <2>1, <2>2, BusyFits, GoesOnTurns
<1>3. CASE CreateRefused(w)
      <2>1. pc[w] # "idle" /\ UNCHANGED disk /\ Return(w, TRUE, NoValue)
            BY <1>3 DEF CreateRefused, fileVars
      <2> QED BY <2>1, BusyFits, ReturnTurns DEF MaybeValue
<1>4. CASE Fill(w)
      <2> DEFINE d == Append(Here(w), Blank)
      <2>1. pc[w] = "fill" /\ disk' = [disk EXCEPT ![File(w)] = d]
            BY <1>4 DEF Fill, Here, Formed, TypeOK
      <2>2. ProperFile(d)
            <3>1. Len(Here(w)) + 1 \in Nat
                  BY <2>1, BusyFits
            <3> QED BY <2>1, <3>1, BusyFits, NoLocalsOK, ProperAppend
      <2>3. CASE UNCHANGED <<pc, loc, call>>
            <3>1. Fits("fill", call[w], loc[w], d)
                  BY DEF Fits
            <3> QED BY <2>1, <2>2, <2>3, <3>1, BusyFits, GoesOnTurns
      <2>4. CASE ToSlot(w)
            BY <2>1, <2>2, <2>4, ToSlotTurns
      <2> QED BY <1>4, <2>3, <2>4 DEF Fill
<1> QED BY <1>1, <1>2, <1>3, <1>4 DEF Creation

(* The entry a call stands at. *)
LEMMA EntryHere ==
  ASSUME NEW w \in Workers, Formed, pc[w] # "idle", NEW i, i \in DOMAIN Here(w)
  PROVE  /\ Here(w)[i] \in Entry /\ ProperEntry(Here(w)[i], Len(Here(w)))
         /\ i \in Nat /\ i <= Len(Here(w)) /\ i # MaxIdx
<1>1. Here(w) \in Seq(Entry) /\ ProperFile(Here(w))
      BY BusyFits
<1>2. DOMAIN Here(w) = 1..Len(Here(w)) /\ Len(Here(w)) \in Nat
      BY <1>1
<1> QED BY <1>1, <1>2 DEF ProperFile, ProperEntry, MaxIdx

LEMMA WalkTurns ==
  ASSUME NEW w \in Workers, Locked, Formed, WalkOn(w) \/ WalkAstray(w) \/ WalkBlind(w)
  PROVE  Turning(w)
<1> DEFINE n == Len(Here(w))
<1>1. /\ pc[w] \in {"head", "walk"} /\ UNCHANGED <<disk, call>>
      BY DEF WalkOn, WalkAstray, WalkBlind, AtEntry, fileVars, vars
<1>2. /\ ProperFile(Here(w)) /\ disk' = [disk EXCEPT ![File(w)] = Here(w)]
      /\ loc[w] \in Locals /\ Slot(w) \in Nat /\ Here(w) \in Seq(Entry)
      /\ Fits(pc[w], call[w], loc[w], Here(w))
      BY <1>1, BusyFits
<1>3. CASE WalkOn(w)
      <2> DEFINE e == Here(w)[loc[w].at]
                 l == [loc[w] EXCEPT !.at = e.right,
                                     !.prev = IF pc[w] = "head" THEN e.left ELSE loc[w].at]
      <2>1. Goto(w, "walk") /\ loc' = [loc EXCEPT ![w] = l]
            BY <1>2, <1>3 DEF WalkOn, Formed, TypeOK, Locals
      <2>2. e \in Entry /\ ProperEntry(e, n) /\ loc[w].at \in Nat /\ loc[w].at <= n
            BY <1>1, <1>3, EntryHere DEF WalkOn, AtEntry
      <2>3. l \in Locals
            BY <1>2, <2>2 DEF Locals, Entry
      <2>4. l.prev <= n
            BY <1>2, <2>2 DEF Locals, ProperEntry
      <2>5. Fits("walk", call[w], l, Here(w))
            BY <2>4 DEF Fits
      <2> QED BY <1>1, <1>2, <2>1, <2>3, <2>5, GoesOnTurns
<1>4. CASE WalkAstray(w)
      BY <1>1, <1>2, <1>4, BusyFits, GoesOnTurns DEF WalkAstray, vars
<1>5. CASE WalkBlind(w)
      <2>1. PICK i \in RightUnread(w) : loc' = [loc EXCEPT ![w].at = i, ![w].prev = Slot(w)]
            BY <1>5 DEF WalkBlind
      <2> DEFINE l == [loc[w] EXCEPT !.at = i, !.prev = Slot(w)]
      <2>2. Goto(w, "walk") /\ loc' = [loc EXCEPT ![w] = l]
            BY <1>2, <1>5, <2>1 DEF WalkBlind, Formed, TypeOK, Locals
      <2>3. l \in Locals
            <3>1. i \in Nat
                  BY <1>2, <2>1 DEF RightUnread, MaxIdx
            <3> QED BY <1>2, <3>1 DEF Locals
      <2>4. Slot(w) \notin DOMAIN Here(w)
            BY <1>2, <1>5 DEF WalkBlind, AtEntry, Fits, Slot
      <2>5. ~(Slot(w) <= Len(Here(w)))
            <3>1. Slot(w) # 0
                  BY <1>1, BusyFits DEF MaxIdx
            <3> QED BY <1>2, <2>4, <3>1
      <2>6. Fits("walk", call[w], l, Here(w))
            BY <2>5 DEF Fits, Slot
      <2> QED BY <1>1, <1>2, <2>2, <2>3, <2>6, GoesOnTurns
<1> QED BY <1>3, <1>4, <1>5

LEMMA ReadTurns ==
  ASSUME NEW w \in Workers, Locked, Formed, ReadFound(w) \/ ReadNone(w)
  PROVE  Turning(w)
<1>1. pc[w] # "idle" /\ UNCHANGED disk
      BY DEF ReadFound, ReadNone, Serves, fileVars
<1>2. CASE ReadFound(w)
      <2>1. Here(w)[loc[w].at].value \in MaybeValue
            BY <1>1, <1>2, EntryHere DEF ReadFound, Found, AtEntry, Entry
      <2>2. Return(w, TRUE, Here(w)[loc[w].at].value)
            BY <1>2 DEF ReadFound, ReturnShared
      <2> QED BY <1>1, <2>1, <2>2, BusyFits, ReturnTurns
<1>3. CASE ReadNone(w)
      BY <1>1, <1>3, BusyFits, ReturnTurns DEF ReadNone, ReturnShared, MaybeValue
<1> QED BY <1>2, <1>3

(* A step that writes one entry of the file, or behind its end nothing.    *)
LEMMA WriteReturns ==
  ASSUME NEW w \in Workers, Locked, Formed, pc[w] # "idle",
         NEW ok \in BOOLEAN, ReturnExclusive(w, ok),
         NEW i, NEW e, i \in DOMAIN Here(w) => ProperEntry(e, Len(Here(w))), Write(w, i, e)
  PROVE  Turning(w)
<1> DEFINE d == [Here(w) EXCEPT ![i] = e]
<1>1. File(w) \in Files /\ ProperFile(Here(w))
      BY BusyFits
<1>2. disk' = [disk EXCEPT ![File(w)] = d]
      BY <1>1 DEF Write, Here, Formed, TypeOK
<1>3. ProperFile(d)
      BY <1>1, ProperWrite
<1> QED BY <1>2, <1>3, ReturnTurns DEF ReturnExclusive, MaybeValue

LEMMA WriteGoesOn ==
  ASSUME NEW w \in Workers, Locked, Formed, pc[w] # "idle",
         NEW p, p # "idle", Goto(w, p), UNCHANGED call,
         NEW l \in Locals, loc' = [loc EXCEPT ![w] = l],
         NEW i, NEW e, i \in DOMAIN Here(w) => ProperEntry(e, Len(Here(w))), Write(w, i, e),
         \A d : Len(d) = Len(Here(w)) => Fits(p, call[w], l, d)
  PROVE  Turning(w)
<1> DEFINE d == [Here(w) EXCEPT ![i] = e]
<1>1. File(w) \in Files /\ ProperFile(Here(w))
      BY BusyFits
<1>2. disk' = [disk EXCEPT ![File(w)] = d]
      BY <1>1 DEF Write, Here, Formed, TypeOK
<1>3. ProperFile(d) /\ Len(d) = Len(Here(w))
      BY <1>1, ProperWrite
<1> QED BY <1>2, <1>3, GoesOnTurns

LEMMA WriteTurns ==
  ASSUME NEW w \in Workers, Locked, Formed,
         WriteFound(w) \/ WriteFirst(w) \/ WriteAppend(w) \/ WriteNothing(w)
  PROVE  Turning(w)
<1> DEFINE n == Len(Here(w))
<1>1. pc[w] \in {"head", "walk"} /\ call[w].op = "PUT"
      BY DEF WriteFound, WriteFirst, WriteAppend, WriteNothing, Serves, Found, AtEntry
<1>2. /\ call[w].key \in Keys /\ call[w].value \in MaybeValue
      /\ Slot(w) \in Nat /\ Slot(w) # MaxIdx /\ n \in Nat
      /\ Here(w) \in Seq(Entry) /\ ProperFile(Here(w)) /\ loc[w] \in Locals
      /\ Fits(pc[w], call[w], loc[w], Here(w))
      /\ disk = [disk EXCEPT ![File(w)] = Here(w)] /\ loc = [loc EXCEPT ![w] = loc[w]]
      BY <1>1, BusyFits
<1>3. ASSUME NEW l \in Nat, NEW r \in Nat PROVE EntryFor(w, l, r) \in Entry
      BY <1>2 DEF EntryFor, Entry
<1>0. call[w].value # NoValue
      BY <1>1, BusyFits, ValueAssumption DEF Requests
<1>4. CASE WriteFound(w)
      <2> DEFINE e == [Here(w)[loc[w].at] EXCEPT !.value = call[w].value]
      <2>1. Write(w, loc[w].at, e) /\ ReturnExclusive(w, TRUE)
            BY <1>4 DEF WriteFound
      <2>2. loc[w].at \in DOMAIN Here(w) => ProperEntry(e, n)
            BY <1>0, <1>1, <1>2, EntryHere DEF ProperEntry, Entry
      <2> QED BY <1>1, <2>1, <2>2, WriteReturns
<1>5. CASE WriteFirst(w)
      <2>1. Write(w, Slot(w), EntryFor(w, Slot(w), Slot(w))) /\ ReturnExclusive(w, TRUE)
            BY <1>5 DEF WriteFirst
      <2>2. ASSUME Slot(w) \in DOMAIN Here(w)
            PROVE  ProperEntry(EntryFor(w, Slot(w), Slot(w)), n)
            <3>1. Slot(w) <= n
                  BY <1>2, <2>2
            <3> QED BY <1>0, <1>2, <1>3, <3>1 DEF ProperEntry, EntryFor
      <2> QED BY <1>1, <2>1, <2>2, WriteReturns
<1>6. CASE WriteAppend(w)
      <2> DEFINE e == EntryFor(w, loc[w].prev, Slot(w))
      <2> DEFINE d == Append(Here(w), e)
      <2>1. /\ disk' = [disk EXCEPT ![File(w)] = d] /\ Goto(w, "link")
            /\ UNCHANGED <<call, loc>>
            BY <1>6 DEF WriteAppend, Here, Formed, TypeOK
      <2>2. Slot(w) <= n
            BY <1>2, <1>6 DEF WriteAppend
      <2>3. loc[w].prev \in Nat /\ loc[w].prev <= n
            BY <1>1, <1>2, <1>6, <2>2 DEF WriteAppend, Fits, Locals, Slot
      <2>4. ProperEntry(e, n + 1)
            BY <1>0, <1>2, <1>3, <2>2, <2>3 DEF ProperEntry, EntryFor
      <2>5. ProperFile(d) /\ Len(d) = n + 1
            BY <1>2, <2>4, ProperAppend
      <2>6. Fits("link", call[w], loc[w], d)
            BY <1>2, <2>3, <2>5 DEF Fits
      <2> QED BY <1>1, <1>2, <2>1, <2>5, <2>6, GoesOnTurns
<1>7. CASE WriteNothing(w)
      <2>1. ReturnExclusive(w, TRUE) /\ UNCHANGED disk
            BY <1>7 DEF WriteNothing, fileVars
      <2> QED BY <1>1, <1>2, <2>1, ReturnTurns DEF ReturnExclusive, MaybeValue
<1> QED BY <1>4, <1>5, <1>6, <1>7

LEMMA LinkTurns ==
  ASSUME NEW w \in Workers, Locked, Formed, LinkBoth(w) \/ LinkRight(w) \/ LinkLeft(w)
  PROVE  Turning(w)
<1> DEFINE n == Len(Here(w))
<1>1. pc[w] \in {"link", "linkleft"}
      BY DEF LinkBoth, LinkRight, LinkLeft
<1>2. /\ n \in Nat /\ loc[w] \in Locals /\ loc = [loc EXCEPT ![w] = loc[w]]
      /\ ProperFile(Here(w)) /\ disk = [disk EXCEPT ![File(w)] = Here(w)]
      /\ Fits(pc[w], call[w], loc[w], Here(w))
      BY <1>1, BusyFits
<1>3. ASSUME NEW i, i \in DOMAIN Here(w)
      PROVE  /\ ProperEntry([Here(w)[i] EXCEPT !.left = n, !.right = n], n)
             /\ ProperEntry([Here(w)[i] EXCEPT !.right = n], n)
             /\ ProperEntry([Here(w)[i] EXCEPT !.left = n], n)
      <2>1. /\ Here(w)[i] \in Entry /\ ProperEntry(Here(w)[i], n)
            /\ i \in Nat /\ i <= n /\ i # MaxIdx
            BY <1>1, <1>3, EntryHere
      <2>2. n # MaxIdx
            BY <1>2, <2>1 DEF MaxIdx
      <2>3. /\ [Here(w)[i] EXCEPT !.left = n, !.right = n] \in Entry
            /\ [Here(w)[i] EXCEPT !.right = n] \in Entry
            /\ [Here(w)[i] EXCEPT !.left = n] \in Entry
            BY <1>2, <2>1 DEF Entry
      <2>4. ProperEntry([Here(w)[i] EXCEPT !.left = n, !.right = n], n)
            BY <1>2, <2>1, <2>2, <2>3 DEF ProperEntry, Entry
      <2>5. ProperEntry([Here(w)[i] EXCEPT !.right = n], n)
            BY <1>2, <2>1, <2>2, <2>3 DEF ProperEntry, Entry
      <2>6. ProperEntry([Here(w)[i] EXCEPT !.left = n], n)
            BY <1>2, <2>1, <2>2, <2>3 DEF ProperEntry, Entry
      <2> QED BY <2>4, <2>5, <2>6
<1>4. CASE LinkBoth(w)
      <2>1. /\ Write(w, Slot(w), [Here(w)[Slot(w)] EXCEPT !.left = n, !.right = n])
            /\ ReturnExclusive(w, TRUE)
            BY <1>4 DEF LinkBoth
      <2> QED BY <1>1, <1>3, <2>1, WriteReturns
<1>5. CASE LinkRight(w)
      <2>1. /\ Write(w, loc[w].prev, [Here(w)[loc[w].prev] EXCEPT !.right = n])
            /\ Goto(w, "linkleft") /\ UNCHANGED <<call, loc>> /\ pc[w] = "link"
            BY <1>5 DEF LinkRight
      <2>2. \A d : Len(d) = n => Fits("linkleft", call[w], loc[w], d)
            BY <1>2, <2>1 DEF Fits
      <2> QED BY <1>1, <1>2, <1>3, <2>1, <2>2, WriteGoesOn
<1>6. CASE LinkLeft(w)
      <2>1. UNCHANGED disk \/ Write(w, Slot(w), [Here(w)[Slot(w)] EXCEPT !.left = n])
            BY <1>6, Zenon DEF LinkLeft, ThenWrite
      <2>4. ReturnExclusive(w, TRUE)
            BY <1>6 DEF LinkLeft
      <2>2. CASE UNCHANGED disk
            BY <1>1, <1>2, <2>2, <2>4, ReturnTurns DEF ReturnExclusive, MaybeValue
      <2>3. CASE Write(w, Slot(w), [Here(w)[Slot(w)] EXCEPT !.left = n])
            BY <1>1, <1>3, <2>3, <2>4, WriteReturns
      <2> QED BY <2>1, <2>2, <2>3
<1> QED BY <1>4, <1>5, <1>6

LEMMA DeleteTurns ==
  ASSUME NEW w \in Workers, Locked, Formed,
         DeleteNone(w) \/ DeleteOnly(w) \/ DeleteHead(w) \/ DeleteEntry(w)
  PROVE  Turning(w)
<1> DEFINE n == Len(Here(w))
<1>1. pc[w] \in {"head", "walk"} /\ call[w].op = "DELETE"
      BY DEF DeleteNone, DeleteOnly, DeleteHead, DeleteEntry, Serves, NotFound
<1>2. /\ n \in Nat /\ loc[w] \in Locals /\ Slot(w) \in Nat /\ call[w].key \in Keys
      /\ Here(w) \in Seq(Entry) /\ ProperFile(Here(w))
      /\ disk = [disk EXCEPT ![File(w)] = Here(w)]
      /\ Fits(pc[w], call[w], loc[w], Here(w))
      BY <1>1, BusyFits
<1>3. ProperEntry(Blank, n)
      BY <1>2, NoLocalsOK
<1>4. CASE DeleteNone(w)
      <2>1. ReturnExclusive(w, FALSE) /\ UNCHANGED disk
            BY <1>4 DEF DeleteNone, fileVars
      <2> QED BY <1>1, <1>2, <2>1, ReturnTurns DEF ReturnExclusive, MaybeValue
<1>5. CASE DeleteOnly(w)
      <2>1. ReturnExclusive(w, TRUE) /\ Write(w, Slot(w), Blank)
            BY <1>5 DEF DeleteOnly
      <2> QED BY <1>1, <1>3, <2>1, WriteReturns
<1>6. CASE DeleteHead(w)
      <2> DEFINE e == Here(w)[Slot(w)]
                 l == [loc[w] EXCEPT !.hold = Here(w)[e.right]]
      <2>1. /\ Write(w, e.right, Blank) /\ Goto(w, "third") /\ UNCHANGED call
            /\ loc' = [loc EXCEPT ![w] = l]
            BY <1>2, <1>6 DEF DeleteHead, Formed, TypeOK, Locals
      <2>2. loc[w].at = Slot(w) /\ Slot(w) \in DOMAIN Here(w) /\ e.key = call[w].key
            BY <1>2, <1>6 DEF DeleteHead, Found, AtEntry, Fits, Slot
      <2>3. ProperEntry(e, n) /\ e \in Entry /\ Slot(w) <= n
            BY <1>1, <2>2, EntryHere
      <2>4. e.right # MaxIdx
            BY <1>2, <2>2, <2>3, StoreAssumption DEF ProperEntry
      <2>5. e.right \in DOMAIN Here(w)
            BY <1>2, <2>3, <2>4 DEF ProperEntry, Entry, MaxIdx
      <2>6. Here(w)[e.right] \in Entry /\ ProperEntry(Here(w)[e.right], n)
            BY <1>1, <2>5, EntryHere
      <2>7. l \in Locals
            BY <1>2, <2>6 DEF Locals
      <2>8. l.hold = Here(w)[e.right]
            BY <1>2 DEF Locals
      <2>9. \A d : Len(d) = n => Fits("third", call[w], l, d)
            BY <2>3, <2>6, <2>8 DEF Fits, Slot
      <2> QED BY <1>1, <1>3, <2>1, <2>7, <2>9, WriteGoesOn
<1>7. CASE DeleteEntry(w)
      <2> DEFINE e == Here(w)[loc[w].at]
                 l == [loc[w] EXCEPT !.hold = e]
      <2>1. /\ Write(w, loc[w].at, Blank) /\ Goto(w, "unlinkright") /\ UNCHANGED call
            /\ loc' = [loc EXCEPT ![w] = l]
            BY <1>2, <1>7 DEF DeleteEntry, Formed, TypeOK, Locals
      <2>2. loc[w].at \in DOMAIN Here(w) /\ e.key = call[w].key
            BY <1>7 DEF DeleteEntry, Found, AtEntry
      <2>3. ProperEntry(e, n) /\ e \in Entry
            BY <1>1, <2>2, EntryHere
      <2>4. e.right # MaxIdx
            BY <1>2, <2>2, <2>3, StoreAssumption DEF ProperEntry
      <2>5. l \in Locals
            BY <1>2, <2>3 DEF Locals
      <2>6. l.hold = e
            BY <1>2 DEF Locals
      <2>7. \A d : Len(d) = n => Fits("unlinkright", call[w], l, d)
            BY <2>3, <2>4, <2>6 DEF Fits
      <2> QED BY <1>1, <1>3, <2>1, <2>5, <2>7, WriteGoesOn
<1> QED BY <1>4, <1>5, <1>6, <1>7

LEMMA UnlinkTurns ==
  ASSUME NEW w \in Workers, Locked, Formed,
         RelinkThird(w) \/ CopySecond(w) \/ UnlinkRight(w) \/ UnlinkLeft(w)
  PROVE  Turning(w)
<1> DEFINE n == Len(Here(w))
           hold == loc[w].hold
<1>1. pc[w] \in {"third", "copy", "unlinkright", "unlinkleft"}
      BY DEF RelinkThird, CopySecond, UnlinkRight, UnlinkLeft
<1>2. /\ n \in Nat /\ loc[w] \in Locals /\ loc = [loc EXCEPT ![w] = loc[w]]
      /\ Here(w) \in Seq(Entry) /\ ProperFile(Here(w)) /\ Slot(w) \in Nat
      /\ disk = [disk EXCEPT ![File(w)] = Here(w)]
      /\ Fits(pc[w], call[w], loc[w], Here(w))
      BY <1>1, BusyFits
<1>3. hold \in Entry /\ ProperEntry(hold, n)
      BY <1>1, <1>2 DEF Fits, ProperEntry
<1>4. pc[w] \in {"third", "copy"} => Slot(w) <= n
      BY <1>2 DEF Fits, Slot
<1>5. pc[w] \in {"copy", "unlinkright", "unlinkleft"} => hold.right # MaxIdx
      BY <1>2 DEF Fits
<1>6. ASSUME NEW i, i \in DOMAIN Here(w)
      PROVE  Here(w)[i] \in Entry /\ ProperEntry(Here(w)[i], n)
      BY <1>1, <1>6, EntryHere
<1>7. CASE RelinkThird(w)
      <2> DEFINE third == hold.right
                 e == [Here(w)[third] EXCEPT !.left = Slot(w)]
      <2>1. CASE /\ third \in DOMAIN Here(w) /\ Write(w, third, e)
                 /\ Goto(w, "copy") /\ UNCHANGED <<call, loc>>
            <3>1. ProperEntry(e, n)
                  BY <1>2, <1>4, <1>6, <1>7, <2>1 DEF RelinkThird, ProperEntry, Entry
            <3>2. third # MaxIdx
                  BY <1>2, <2>1 DEF MaxIdx
            <3>3. \A d : Len(d) = n => Fits("copy", call[w], loc[w], d)
                  BY <1>3, <1>4, <1>7, <3>2 DEF RelinkThird, Fits, Slot
            <3> QED BY <1>1, <1>2, <2>1, <3>1, <3>3, WriteGoesOn
      <2>2. CASE ReturnExclusive(w, TRUE) /\ UNCHANGED disk
            BY <1>1, <1>2, <2>2, ReturnTurns DEF ReturnExclusive, MaybeValue
      <2> QED BY <1>7, <2>1, <2>2 DEF RelinkThird, lockVars
<1>8. CASE CopySecond(w)
      <2> DEFINE e == [hold EXCEPT !.left = Here(w)[Slot(w)].left]
      <2>1. Write(w, Slot(w), e) /\ ReturnExclusive(w, TRUE) /\ pc[w] = "copy"
            BY <1>8 DEF CopySecond
      <2>2. ASSUME Slot(w) \in DOMAIN Here(w) PROVE ProperEntry(e, n)
            BY <1>3, <1>5, <1>6, <2>1, <2>2 DEF ProperEntry, Entry
      <2> QED BY <1>1, <2>1, <2>2, WriteReturns
<1>9. CASE UnlinkRight(w)
      <2> DEFINE e == [Here(w)[hold.left] EXCEPT !.right = hold.right]
      <2>1. /\ Write(w, hold.left, e) /\ pc[w] = "unlinkright"
            /\ Goto(w, "unlinkleft") /\ UNCHANGED <<call, loc>>
            BY <1>9 DEF UnlinkRight
      <2>2. ASSUME hold.left \in DOMAIN Here(w) PROVE ProperEntry(e, n)
            BY <1>3, <1>5, <1>6, <2>1, <2>2 DEF ProperEntry, Entry
      <2>3. \A d : Len(d) = n => Fits("unlinkleft", call[w], loc[w], d)
            BY <1>3, <1>5, <2>1 DEF Fits
      <2> QED BY <1>1, <1>2, <2>1, <2>2, <2>3, WriteGoesOn
<1>10. CASE UnlinkLeft(w)
      <2> DEFINE e == [Here(w)[hold.right] EXCEPT !.left = hold.left]
      <2>1. UNCHANGED disk \/ Write(w, hold.right, e)
            BY <1>10, Zenon DEF UnlinkLeft, ThenWrite
      <2>2. ReturnExclusive(w, TRUE)
            BY <1>10 DEF UnlinkLeft
      <2>3. ASSUME hold.right \in DOMAIN Here(w) PROVE ProperEntry(e, n)
            BY <1>3, <1>6, <2>3 DEF ProperEntry, Entry
      <2>4. CASE UNCHANGED disk
            BY <1>1, <1>2, <2>2, <2>4, ReturnTurns DEF ReturnExclusive, MaybeValue
      <2>5. CASE Write(w, hold.right, e)
            BY <1>1, <2>2, <2>3, <2>5, WriteReturns
      <2> QED BY <2>1, <2>4, <2>5
<1> QED BY <1>7, <1>8, <1>9, <1>10

LEMMA StepTurns == ASSUME NEW w \in Workers, Locked, Formed, Step(w) PROVE Turning(w)
BY OpenTurns, CreationTurns, WalkTurns, ReadTurns, WriteTurns, LinkTurns, DeleteTurns,
   UnlinkTurns DEF Step, Read, Update, Delete

LEMMA FormedNext == Locked /\ Locked' /\ Formed /\ [Next]_vars => Formed'
<1> SUFFICES ASSUME Locked, Locked', Formed, [Next]_vars PROVE Formed'
    OBVIOUS
<1>1. CASE Crash
      <2>1. UNCHANGED disk /\ \A w \in Workers : pc'[w] = "idle"
            BY <1>1 DEF Crash
      <2>2. /\ call' \in [Workers -> Requests \cup Answers]
            /\ loc' \in [Workers -> [at : Nat, prev : Nat, hold : Entry, word : SUBSET Files]]
            BY <1>1, NoLocalsOK
               DEF Crash, Locals, NoAnswer, Answer, Answers, MaybeValue
      <2>3. crashes' \in 0..MaxCrashes
            BY <1>1, StoreAssumption DEF Crash, Formed, TypeOK
      <2>4. torn' \in BOOLEAN /\ refused' \in BOOLEAN /\ onDisk' \subseteq Files
            /\ exists' \subseteq Files
            BY <1>1 DEF Crash, Formed, TypeOK
      <2>5. TypeOK'
            BY <2>1, <2>2, <2>3, <2>4 DEF TypeOK, Formed, Locked, StoreShape
      <2> QED BY <2>1, <2>5 DEF Formed, CallFits
<1>2. ASSUME NEW w \in Workers, Begin(w) PROVE Formed'
      <2>1. PICK r \in RequestsOf[w] : call' = [call EXCEPT ![w] = r]
            BY <1>2 DEF Begin
      <2>2. r \in Requests
            BY StoreAssumption
      <2>3. /\ pc' = [pc EXCEPT ![w] = "call"]
            /\ UNCHANGED <<disk, onDisk, exists, loc, crashes, torn, refused>>
            BY <1>2 DEF Begin, Goto, fileVars, pastVars
      <2>4. call' \in [Workers -> Requests \cup Answers]
            BY <2>1, <2>2 DEF Formed, TypeOK
      <2>5. TypeOK'
            BY <2>3, <2>4 DEF TypeOK, Formed, Locked, StoreShape
      <2>6. ASSUME NEW v \in Workers PROVE CallFits(v)'
            <3>1. CASE v = w
                  BY <2>3, <3>1 DEF CallFits, Fits, Locked, StoreShape
            <3>2. CASE v # w
                  BY <2>1, <2>3, <3>2
                     DEF CallFits, Here, File, Formed, TypeOK, Locked, StoreShape
            <3> QED BY <3>1, <3>2
      <2> QED BY <2>3, <2>5, <2>6 DEF Formed
<1>3. ASSUME NEW w \in Workers, Step(w) PROVE Formed'
      BY <1>3, StepTurns, FormedTurn DEF Turning
<1>4. CASE UNCHANGED vars
      <2>1. UNCHANGED <<fileVars, lockVars, call, pc, loc, pastVars>>
            BY <1>4 DEF vars
      <2> QED BY <2>1 DEF fileVars, lockVars, pastVars, Formed, TypeOK, CallFits, Here, File
<1> QED BY <1>1, <1>2, <1>3, <1>4 DEF Next

LEMMA FormedAlways == Spec => []Formed
<1>1. Init => Locked /\ Formed
      BY LockedInit, FormedInit
<1>2. Locked /\ Formed /\ [Next]_vars => (Locked /\ Formed)'
      BY LockedNext, FormedNext
<1> QED BY <1>1, <1>2, PTL DEF Spec

(* The state of the store keeps its types, for any number of threads,      *)
(* files, keys and deaths of the process: no walk and no write of the      *)
(* three functions takes an entry from where the file has none.            *)
THEOREM StoreTypes == Spec => []TypeOK
<1>1. Formed => TypeOK
      BY DEF Formed
<1> QED BY <1>1, FormedAlways, PTL

(* However often a file has been torn, an entry with a key has a right     *)
(* link: delete_from_db never finds the first entry of a ring in the state *)
(* that "should have been handled earlier" (KVStore.hpp:371-374).          *)
THEOREM KeysHaveLinks == Spec => []KeysAreLinked
<1>1. Formed => KeysAreLinked
      <2> SUFFICES ASSUME Formed, NEW f \in Files, NEW i \in DOMAIN disk[f],
                          disk[f][i].key # NoKey
                   PROVE  disk[f][i].right # MaxIdx
          BY DEF KeysAreLinked
      <2> QED BY DEF Formed, ProperFile, ProperEntry
<1> QED BY <1>1, FormedAlways, PTL

-----------------------------------------------------------------------------
Counting == INSTANCE LinkedListsProofs WITH Nil <- MaxIdx

(* The rings of a file.  A ring is given by the sequence q of its entries, *)
(* from the slot on: the right links lead through q and back, the left     *)
(* links of the entries behind the slot lead back through q.  What the     *)
(* left link of the slot says matters only while it is alone: the first    *)
(* turn of the loop takes it for the entry before (write_to_db) or as the  *)
(* sign that there is no other (delete_from_db), and at other times        *)
(* nothing depends on it.                                                  *)

InRing(d, f, s, q, i) ==
  /\ i > 1 => q[i] > TableLen /\ d[q[i]].left = q[i - 1]
  /\ d[q[i]].right = IF i = Len(q) THEN s ELSE q[i + 1]
  /\ d[q[i]].key \in Keys /\ FileOf[d[q[i]].key] = f /\ SlotOf[d[q[i]].key] = s

IsRing(d, f, s, q) ==
  /\ q \in Seq(1..Len(d)) /\ Len(q) >= 1 /\ q[1] = s
  /\ \A i \in 1..Len(q) : InRing(d, f, s, q, i)
  /\ \A i, j \in 1..Len(q) : d[q[i]].key = d[q[j]].key => i = j
  /\ Len(q) = 1 => d[s].left = s

SlotWhole(d, f, s) == IsEmptySlot(d, s) \/ \E q : IsRing(d, f, s, q)

Whole(d, f) == Len(d) >= TableLen /\ \A s \in 1..TableLen : SlotWhole(d, f, s)

(* The place of an entry in its ring is the only one. *)
LEMMA PlacesDiffer ==
  ASSUME NEW d \in Seq(Entry), NEW f, NEW s, NEW q, IsRing(d, f, s, q),
         NEW i \in 1..Len(q), NEW j \in 1..Len(q), q[i] = q[j]
  PROVE  i = j
BY DEF IsRing

(* The entries of a ring are entries of the file, the slot the first.     *)
LEMMA RingTypes ==
  ASSUME NEW d \in Seq(Entry), NEW f, NEW s, NEW q, IsRing(d, f, s, q)
  PROVE  /\ Len(d) \in Nat /\ Len(q) \in Nat /\ Len(q) >= 1 /\ q[1] = s
         /\ q \in Seq(1..Len(d)) /\ \A i \in 1..Len(q) : q[i] \in 1..Len(d)
         /\ s \in 1..Len(d)
<1>1. /\ q \in Seq(1..Len(d)) /\ Len(q) >= 1 /\ q[1] = s
      BY DEF IsRing
<1>2. Len(d) \in Nat /\ Len(q) \in Nat /\ \A i \in 1..Len(q) : q[i] \in 1..Len(d)
      BY <1>1
<1> QED BY <1>1, <1>2

(* A ring depends on the links and the keys of its entries only. *)
LEMMA SameRing ==
  ASSUME NEW d \in Seq(Entry), NEW x \in Seq(Entry), NEW f, NEW s, NEW q,
         IsRing(d, f, s, q), Len(x) >= Len(d),
         \A i \in 1..Len(q) : /\ x[q[i]].left = d[q[i]].left
                              /\ x[q[i]].right = d[q[i]].right
                              /\ x[q[i]].key = d[q[i]].key
  PROVE  IsRing(x, f, s, q)
<1>1. /\ Len(d) \in Nat /\ Len(q) \in Nat /\ Len(q) >= 1 /\ q[1] = s
      /\ q \in Seq(1..Len(d)) /\ Len(x) \in Nat
      BY RingTypes
<1>2. q \in Seq(1..Len(x))
      BY <1>1
<1>3. ASSUME NEW i \in 1..Len(q) PROVE InRing(x, f, s, q, i)
      <2>1. /\ x[q[i]].left = d[q[i]].left
            /\ x[q[i]].right = d[q[i]].right
            /\ x[q[i]].key = d[q[i]].key
            OBVIOUS
      <2>2. InRing(d, f, s, q, i)
            BY DEF IsRing
      <2> QED BY <2>1, <2>2 DEF InRing
<1>4. \A i, j \in 1..Len(q) : x[q[i]].key = x[q[j]].key => i = j
      BY DEF IsRing
<1>5. Len(q) = 1 => x[s].left = s
      BY <1>1 DEF IsRing
<1> QED BY <1>1, <1>2, <1>3, <1>4, <1>5 DEF IsRing

(* What is written into the ring of one slot, and what is appended, leaves *)
(* the other slots as they are: the entries of a ring hash to its slot.    *)
OnlyRing(d, x, s) ==
  \A j \in 1..Len(d) : x[j] = d[j] \/ j = s \/ (j > TableLen /\ SlotOf[d[j].key] = s)

LEMMA OtherRings ==
  ASSUME NEW d \in Seq(Entry), NEW x \in Seq(Entry), NEW f, NEW s \in 1..TableLen,
         Whole(d, f), Len(x) >= Len(d), OnlyRing(d, x, s),
         NEW t \in 1..TableLen, t # s
  PROVE  /\ x[t] = d[t]
         /\ \A q : IsRing(d, f, t, q) => /\ IsRing(x, f, t, q)
                                         /\ \A i \in 1..Len(q) : x[q[i]] = d[q[i]]
<1>1. Len(d) \in Nat /\ Len(x) \in Nat /\ TableLen \in Nat /\ Len(d) >= TableLen
      BY StoreAssumption DEF Whole
<1>2. x[t] = d[t]
      BY <1>1 DEF OnlyRing
<1>3. ASSUME NEW q, IsRing(d, f, t, q)
      PROVE  IsRing(x, f, t, q) /\ \A i \in 1..Len(q) : x[q[i]] = d[q[i]]
      <2>1. ASSUME NEW i \in 1..Len(q) PROVE x[q[i]] = d[q[i]]
            <3>1. q[i] \in 1..Len(d) /\ Len(q) \in Nat
                  BY <1>3, RingTypes
            <3>2. InRing(d, f, t, q, i) /\ q[1] = t
                  BY <1>3 DEF IsRing
            <3>3. q[i] = t \/ q[i] > TableLen
                  BY <3>1, <3>2 DEF InRing
            <3>4. SlotOf[d[q[i]].key] # s
                  BY <3>2 DEF InRing
            <3>5. q[i] # s
                  BY <1>1, <3>1, <3>3
            <3> QED BY <3>1, <3>4, <3>5 DEF OnlyRing
      <2>2. IsRing(x, f, t, q)
            BY <1>3, <2>1, SameRing
      <2> QED BY <2>1, <2>2
<1> QED BY <1>2, <1>3

LEMMA OthersWhole ==
  ASSUME NEW d \in Seq(Entry), NEW x \in Seq(Entry), NEW f, NEW s \in 1..TableLen,
         Whole(d, f), Len(x) >= Len(d), SlotWhole(x, f, s), OnlyRing(d, x, s)
  PROVE  Whole(x, f)
<1>1. Len(d) \in Nat /\ Len(x) \in Nat /\ TableLen \in Nat /\ Len(d) >= TableLen
      BY StoreAssumption DEF Whole
<1>2. ASSUME NEW t \in 1..TableLen, t # s PROVE SlotWhole(x, f, t)
      <2>1. CASE IsEmptySlot(d, t)
            <3>1. x[t] = d[t]
                  BY <1>2, OtherRings
            <3> QED BY <2>1, <3>1 DEF IsEmptySlot, SlotWhole
      <2>2. ASSUME NEW q, IsRing(d, f, t, q) PROVE SlotWhole(x, f, t)
            <3>1. IsRing(x, f, t, q)
                  BY <1>2, <2>2, OtherRings
            <3> QED BY <3>1 DEF SlotWhole
      <2> QED BY <2>1, <2>2 DEF Whole, SlotWhole
<1> QED BY <1>1, <1>2 DEF Whole

(* The values of the entries are nothing to the rings. *)
LEMMA SameLinksWhole ==
  ASSUME NEW d \in Seq(Entry), NEW x \in Seq(Entry), NEW f, Whole(d, f), Len(x) = Len(d),
         \A j \in 1..Len(d) : x[j].left = d[j].left /\ x[j].right = d[j].right /\ x[j].key = d[j].key
  PROVE  Whole(x, f)
<1>1. Len(d) \in Nat /\ TableLen \in Nat /\ Len(d) >= TableLen
      BY StoreAssumption DEF Whole
<1>2. ASSUME NEW t \in 1..TableLen PROVE SlotWhole(x, f, t)
      <2>1. CASE IsEmptySlot(d, t)
            BY <1>1, <2>1 DEF IsEmptySlot, SlotWhole
      <2>2. ASSUME NEW q, IsRing(d, f, t, q) PROVE SlotWhole(x, f, t)
            <3>1. Len(x) >= Len(d)
                  BY <1>1
            <3>2. \A i \in 1..Len(q) : q[i] \in 1..Len(d)
                  BY <2>2, RingTypes
            <3>3. IsRing(x, f, t, q)
                  BY <2>2, <3>1, <3>2, SameRing
            <3> QED BY <3>3 DEF SlotWhole
      <2> QED BY <2>1, <2>2 DEF Whole, SlotWhole
<1> QED BY <1>1, <1>2 DEF Whole

(* A new file: all its slots are empty. *)
LEMMA BlankWhole ==
  ASSUME NEW d \in Seq(Entry), NEW f, Len(d) >= TableLen, \A i \in DOMAIN d : d[i] = Blank
  PROVE  Whole(d, f)
BY StoreAssumption DEF Whole, SlotWhole, IsEmptySlot, Blank

(* The first entry of a ring. *)
LEMMA FirstWhole ==
  ASSUME NEW d \in Seq(Entry), NEW x \in Seq(Entry), NEW f, NEW s \in 1..TableLen,
         Whole(d, f), Len(x) = Len(d),
         \A j \in 1..Len(d) : j # s => x[j] = d[j],
         x[s].left = s, x[s].right = s,
         x[s].key \in Keys, FileOf[x[s].key] = f, SlotOf[x[s].key] = s
  PROVE  Whole(x, f) /\ IsRing(x, f, s, <<s>>) /\ OnlyRing(d, x, s)
<1>1. Len(d) \in Nat /\ TableLen \in Nat /\ Len(d) >= TableLen
      BY StoreAssumption DEF Whole
<1> DEFINE q == <<s>>
<1>2. q \in Seq(1..Len(x)) /\ Len(q) = 1 /\ q[1] = s
      BY <1>1
<1> HIDE DEF q
<1>3. IsRing(x, f, s, q)
      BY <1>2 DEF IsRing, InRing
<1>4. SlotWhole(x, f, s)
      BY <1>3 DEF SlotWhole
<1>5. Len(x) >= Len(d)
      BY <1>1
<1>6. OnlyRing(d, x, s)
      BY DEF OnlyRing
<1>7. Whole(x, f)
      BY <1>4, <1>5, <1>6, OthersWhole
<1> QED BY <1>3, <1>6, <1>7 DEF q

(* An entry behind the end of the file is in no ring. *)
LEMMA AppendedWhole ==
  ASSUME NEW d \in Seq(Entry), NEW f, Whole(d, f), NEW e \in Entry
  PROVE  Whole(Append(d, e), f)
<1> DEFINE x == Append(d, e)
<1>1. /\ x \in Seq(Entry) /\ Len(x) = Len(d) + 1 /\ Len(d) \in Nat
      /\ \A j \in 1..Len(d) : x[j] = d[j]
      BY AppendProperties
<1> HIDE DEF x
<1>2. Len(d) >= TableLen /\ TableLen \in Nat
      BY StoreAssumption DEF Whole
<1>3. ASSUME NEW t \in 1..TableLen PROVE SlotWhole(x, f, t)
      <2>1. CASE IsEmptySlot(d, t)
            BY <1>1, <1>2, <2>1 DEF IsEmptySlot, SlotWhole
      <2>2. ASSUME NEW q, IsRing(d, f, t, q) PROVE SlotWhole(x, f, t)
            <3>1. Len(x) >= Len(d)
                  BY <1>1
            <3>2. \A i \in 1..Len(q) : q[i] \in 1..Len(d)
                  BY <2>2, RingTypes
            <3>3. IsRing(x, f, t, q)
                  BY <1>1, <2>2, <3>1, <3>2, SameRing
            <3> QED BY <3>3 DEF SlotWhole
      <2> QED BY <2>1, <2>2 DEF Whole, SlotWhole
<1>4. Whole(x, f)
      BY <1>1, <1>2, <1>3 DEF Whole
<1> QED BY <1>4 DEF x

(* While a ring has two entries the left link of its slot may be anything. *)
LEMMA SlotLeftWhole ==
  ASSUME NEW d \in Seq(Entry), NEW x \in Seq(Entry), NEW f, NEW s \in 1..TableLen,
         Whole(d, f), Len(x) = Len(d), NEW q, IsRing(d, f, s, q), Len(q) >= 2,
         \A j \in 1..Len(d) : j # s => x[j] = d[j],
         x[s].right = d[s].right, x[s].key = d[s].key
  PROVE  Whole(x, f) /\ IsRing(x, f, s, q) /\ OnlyRing(d, x, s)
<1>1. /\ Len(d) \in Nat /\ Len(q) \in Nat /\ q[1] = s /\ q \in Seq(1..Len(x))
      /\ \A i \in 1..Len(q) : q[i] \in 1..Len(d)
      BY RingTypes
<1>2. ASSUME NEW i \in 1..Len(q), i > 1 PROVE x[q[i]] = d[q[i]]
      <2>1. 1 \in 1..Len(q) /\ q[i] # q[1]
            BY <1>1, <1>2, PlacesDiffer
      <2> QED BY <1>1, <2>1
<1>3. \A i \in 1..Len(q) : x[q[i]].right = d[q[i]].right /\ x[q[i]].key = d[q[i]].key
      BY <1>1, <1>2
<1>4. ASSUME NEW i \in 1..Len(q) PROVE InRing(x, f, s, q, i)
      <2>1. InRing(d, f, s, q, i)
            BY DEF IsRing
      <2> QED BY <1>2, <1>3, <2>1 DEF InRing
<1>5. \A i, j \in 1..Len(q) : x[q[i]].key = x[q[j]].key => i = j
      BY <1>3 DEF IsRing
<1>6. IsRing(x, f, s, q)
      BY <1>1, <1>4, <1>5 DEF IsRing
<1>7. SlotWhole(x, f, s) /\ Len(x) >= Len(d)
      BY <1>1, <1>6 DEF SlotWhole
<1>8. OnlyRing(d, x, s)
      BY DEF OnlyRing
<1>9. Whole(x, f)
      BY <1>7, <1>8, OthersWhole
<1> QED BY <1>6, <1>8, <1>9

(* An entry that was appended is linked behind the last one of its ring.   *)
LEMMA LinkedWhole ==
  ASSUME NEW d \in Seq(Entry), NEW x \in Seq(Entry), NEW f, NEW s \in 1..TableLen,
         Whole(d, f), Len(x) = Len(d), NEW q, IsRing(d, f, s, q),
         NEW n \in 1..Len(d), n > TableLen,
         d[n].left = q[Len(q)], d[n].right = s,
         d[n].key \in Keys, FileOf[d[n].key] = f, SlotOf[d[n].key] = s,
         \A i \in 1..Len(q) : d[q[i]].key # d[n].key,
         \A j \in 1..Len(d) : j # q[Len(q)] => x[j] = d[j],
         x[q[Len(q)]].right = n, x[q[Len(q)]].key = d[q[Len(q)]].key,
         Len(q) > 1 => x[q[Len(q)]].left = d[q[Len(q)]].left,
         Len(q) = 1 => x[s].left = n
  PROVE  Whole(x, f) /\ IsRing(x, f, s, Append(q, n)) /\ OnlyRing(d, x, s)
<1> DEFINE m == Len(q)
           r == Append(q, n)
<1>1. /\ Len(d) \in Nat /\ m \in Nat /\ m >= 1 /\ q[1] = s /\ q \in Seq(1..Len(x))
      /\ \A i \in 1..m : q[i] \in 1..Len(d)
      BY RingTypes
<1>2. r \in Seq(1..Len(x)) /\ Len(r) = m + 1 /\ r[m + 1] = n /\ \A i \in 1..m : r[i] = q[i]
      BY <1>1, AppendProperties
<1>3. \A i \in 1..m : q[i] # n
      OBVIOUS
<1>4. m \in 1..m /\ q[m] \in 1..Len(d) /\ x[n] = d[n]
      BY <1>1, <1>3
<1>5. ASSUME NEW i \in 1..m
      PROVE  /\ x[q[i]].key = d[q[i]].key
             /\ i # m => x[q[i]] = d[q[i]]
             /\ i > 1 => x[q[i]].left = d[q[i]].left
      <2>1. i # m => q[i] # q[m]
            BY <1>4, PlacesDiffer
      <2> QED BY <1>1, <1>4, <2>1
<1> HIDE DEF r, m
<1>6. ASSUME NEW i \in 1..(m + 1) PROVE InRing(x, f, s, r, i)
      <2>1. CASE i = m + 1
            BY <1>1, <1>2, <1>4, <2>1 DEF InRing, m
      <2>2. CASE i \in 1..m
            <3>1. InRing(d, f, s, q, i)
                  BY <2>2 DEF IsRing, m
            <3>2. x[q[i]].right = IF i = m THEN n ELSE d[q[i]].right
                  BY <1>5, <2>2 DEF m
            <3>3. /\ r[i] = q[i] /\ (i > 1 => r[i - 1] = q[i - 1]) /\ i # m + 1
                  /\ i = m => r[i + 1] = n
                  /\ i # m => r[i + 1] = q[i + 1]
                  <4>1. (i > 1 => i - 1 \in 1..m) /\ i # m + 1 /\ (i # m => i + 1 \in 1..m)
                        <5>1. m \in Nat
                              BY <1>1
                        <5> QED BY <2>2, <5>1
                  <4> QED BY <1>2, <2>2, <4>1
            <3>4. x[r[i]].right = IF i = Len(r) THEN s ELSE r[i + 1]
                  BY <1>2, <3>1, <3>2, <3>3 DEF InRing, m
            <3> QED BY <1>5, <2>2, <3>1, <3>3, <3>4 DEF InRing
      <2> QED BY <1>1, <2>1, <2>2
<1>7. \A i, j \in 1..(m + 1) : x[r[i]].key = x[r[j]].key => i = j
      <2>1. \A i, j \in 1..m : x[q[i]].key = x[q[j]].key => i = j
            BY <1>5 DEF IsRing, m
      <2>2. \A i \in 1..m : x[q[i]].key # x[n].key
            BY <1>4, <1>5 DEF m
      <2>3. ASSUME NEW i \in 1..(m + 1), NEW j \in 1..(m + 1), x[r[i]].key = x[r[j]].key PROVE i = j
            <3>1. (i \in 1..m \/ i = m + 1) /\ (j \in 1..m \/ j = m + 1)
                  BY <1>1
            <3> QED BY <1>2, <2>1, <2>2, <2>3, <3>1
      <2> QED BY <2>3
<1>8. IsRing(x, f, s, r)
      BY <1>1, <1>2, <1>6, <1>7 DEF IsRing
<1>9. ASSUME NEW j \in 1..Len(d) PROVE x[j] = d[j] \/ j = s \/ (j > TableLen /\ SlotOf[d[j].key] = s)
      <2>1. InRing(d, f, s, q, m)
            BY <1>4 DEF IsRing, m
      <2> QED BY <1>1, <1>4, <2>1 DEF InRing, m
<1>10. Whole(x, f) /\ OnlyRing(d, x, s)
      <2>1. SlotWhole(x, f, s) /\ Len(x) >= Len(d)
            BY <1>1, <1>8 DEF SlotWhole
      <2>2. OnlyRing(d, x, s)
            BY <1>9 DEF OnlyRing
      <2> QED BY <2>1, <2>2, OthersWhole
<1> QED BY <1>8, <1>10 DEF r

(* A ring without its p-th entry. *)
LeftOut(q, p) == [i \in 1..(Len(q) - 1) |-> IF i < p THEN q[i] ELSE q[i + 1]]

(* A sequence without its p-th element. *)
LEMMA LeftOutSeq ==
  ASSUME NEW S, NEW q \in Seq(S), NEW p \in 2..Len(q)
  PROVE  /\ LeftOut(q, p) \in Seq(S) /\ Len(LeftOut(q, p)) = Len(q) - 1
         /\ \A i \in 1..(Len(q) - 1) : LeftOut(q, p)[i] = IF i < p THEN q[i] ELSE q[i + 1]
<1>1. Len(q) - 1 \in Nat /\ \A i \in 1..Len(q) : q[i] \in S
      OBVIOUS
<1>2. \A i \in 1..(Len(q) - 1) : i \in 1..Len(q) /\ i + 1 \in 1..Len(q)
      BY <1>1
<1>3. LeftOut(q, p) \in [1..(Len(q) - 1) -> S]
      BY <1>1, <1>2 DEF LeftOut
<1> QED BY <1>1, <1>3, IsASeq DEF LeftOut

(* An entry behind the slot has been taken out: it is cleared, and its     *)
(* neighbours are linked to each other.                                    *)
EntryIsOut(d, x, q, p, l, r) ==
  /\ l = d[q[p]].left /\ r = d[q[p]].right
  /\ \A j \in 1..Len(d) : j \notin {q[p], l, r} => x[j] = d[j]
  /\ x[l].key = d[l].key /\ x[r].key = d[r].key
  /\ x[l].value = d[l].value /\ x[r].value = d[r].value
  /\ x[l].right = r /\ x[r].left = l
  /\ l # r => x[l].left = d[l].left /\ x[r].right = d[r].right

LEMMA EntryOutWhole ==
  ASSUME NEW d \in Seq(Entry), NEW x \in Seq(Entry), NEW f, NEW s \in 1..TableLen,
         Whole(d, f), Len(x) = Len(d), NEW q, IsRing(d, f, s, q), NEW p \in 2..Len(q),
         NEW l, NEW r, EntryIsOut(d, x, q, p, l, r)
  PROVE  Whole(x, f) /\ IsRing(x, f, s, LeftOut(q, p)) /\ OnlyRing(d, x, s)
<1> l = d[q[p]].left /\ r = d[q[p]].right
    BY DEF EntryIsOut
<1> \A j \in 1..Len(d) : j \notin {q[p], l, r} => x[j] = d[j]
    BY DEF EntryIsOut
<1> x[l].key = d[l].key /\ x[r].key = d[r].key /\ x[l].right = r /\ x[r].left = l
    BY DEF EntryIsOut
<1> l # r => x[l].left = d[l].left /\ x[r].right = d[r].right
    BY DEF EntryIsOut
<1> DEFINE m == Len(q)
           t == LeftOut(q, p)
<1>0. m \in Nat /\ p \in Nat /\ p >= 2 /\ p <= m
      <2>1. Len(q) \in Nat
            BY RingTypes
      <2> QED BY <2>1
<1>1. /\ Len(d) \in Nat /\ m \in Nat /\ m >= 1 /\ q[1] = s /\ q \in Seq(1..Len(x))
      /\ \A i \in 1..m : q[i] \in 1..Len(d)
      /\ p \in 1..m /\ p > 1 /\ p - 1 \in 1..m
      BY <1>0, RingTypes
<1>2. t \in Seq(1..Len(x)) /\ Len(t) = m - 1
      /\ \A i \in 1..(m - 1) : t[i] = IF i < p THEN q[i] ELSE q[i + 1]
      BY <1>1, LeftOutSeq
<1>3. l = q[p - 1] /\ r = IF p = m THEN s ELSE q[p + 1]
      <2>1. InRing(d, f, s, q, p)
            BY <1>1 DEF IsRing
      <2> QED BY <1>1, <2>1 DEF InRing
<1> HIDE DEF t, m
<1>4. ASSUME NEW i \in 1..m, i # p
      PROVE  /\ x[q[i]].key = d[q[i]].key
             /\ x[q[i]].right = IF i = p - 1 THEN r ELSE d[q[i]].right
             /\ i > 1 => x[q[i]].left = IF i = p + 1 THEN l ELSE d[q[i]].left
      <2>1. q[i] # q[p]
            <3>1. p \in 1..m
                  BY <1>0
            <3>2. q[i] = q[p] => i = p
                  BY <3>1, PlacesDiffer DEF m
            <3> QED BY <1>4, <3>2
      <2>2. i # p - 1 => q[i] # l
            BY <1>1, <1>3, PlacesDiffer DEF m
      <2>3. i > 1 /\ i # p + 1 => q[i] # r
            <3>1. CASE p = m
                  <4>1. 1 \in 1..m /\ r = q[1]
                        BY <1>0, <1>1, <1>3, <3>1
                  <4> QED BY <4>1, PlacesDiffer DEF m
            <3>2. CASE p # m
                  <4>1. p + 1 \in 1..m
                        BY <1>0, <3>2
                  <4>2. r = q[p + 1]
                        BY <1>3, <3>2
                  <4> QED BY <4>1, <4>2, PlacesDiffer DEF m
            <3> QED BY <3>1, <3>2
      <2>4. i = p + 1 => q[i] = r
            BY <1>1, <1>3
      <2>5. q[i] \in 1..Len(d)
            BY <1>1
      <2>6. x[q[i]] = d[q[i]] \/ q[i] = l \/ q[i] = r
            BY <2>1, <2>5
      <2> QED BY <1>1, <1>3, <2>2, <2>3, <2>4, <2>6
<1>5. ASSUME NEW i \in 1..(m - 1) PROVE InRing(x, f, s, t, i)
      <2>1. CASE i < p - 1
            <3>1. i \in 1..m /\ i # p /\ i + 1 < p /\ i # p - 1 /\ i # p + 1 /\ i # m
                  BY <1>0, <2>1
            <3>2. InRing(d, f, s, q, i)
                  BY <3>1 DEF IsRing, m
            <3>3. t[i] = q[i] /\ t[i + 1] = q[i + 1] /\ (i > 1 => t[i - 1] = q[i - 1]) /\ i # m - 1
                  <4>1. i \in 1..(m - 1) /\ i + 1 \in 1..(m - 1) /\ (i > 1 => i - 1 \in 1..(m - 1))
                        /\ i < p /\ i + 1 < p /\ i - 1 < p /\ i # m - 1
                        BY <1>0, <2>1
                  <4> QED BY <1>2, <4>1
            <3> QED BY <1>2, <1>4, <3>1, <3>2, <3>3 DEF InRing, m
      <2>2. CASE i = p - 1
            <3>1. i \in 1..m /\ i # p /\ i # p + 1 /\ i # m
                  BY <1>0, <2>2
            <3>2. InRing(d, f, s, q, i)
                  BY <3>1 DEF IsRing, m
            <3>3. t[i] = q[i] /\ (i > 1 => t[i - 1] = q[i - 1])
                  <4>1. i \in 1..(m - 1) /\ (i > 1 => i - 1 \in 1..(m - 1)) /\ i < p /\ i - 1 < p
                        BY <1>0, <2>2
                  <4> QED BY <1>2, <4>1
            <3>4. r = IF i = m - 1 THEN s ELSE t[i + 1]
                  <4>1. i # m - 1 => i + 1 \in 1..(m - 1) /\ ~(i + 1 < p) /\ i + 1 = p
                        BY <1>0, <2>2
                  <4>2. i = m - 1 <=> p = m
                        BY <1>0, <2>2
                  <4> QED BY <1>2, <1>3, <4>1, <4>2
            <3> QED BY <1>2, <1>4, <2>2, <3>1, <3>2, <3>3, <3>4 DEF InRing, m
      <2>3. CASE i >= p
            <3>1. i + 1 \in 1..m /\ i + 1 # p /\ i + 1 # p - 1 /\ i > 1
                  BY <1>0, <2>3
            <3>2. InRing(d, f, s, q, i + 1)
                  BY <3>1 DEF IsRing, m
            <3>3. t[i] = q[i + 1] /\ (i # m - 1 => t[i + 1] = q[i + 2])
                  <4>1. i \in 1..(m - 1) /\ ~(i < p) /\ ~(i + 1 < p)
                        /\ (i # m - 1 => i + 1 \in 1..(m - 1)) /\ (i + 1) + 1 = i + 2
                        BY <1>0, <2>3
                  <4> QED BY <1>2, <4>1
            <3>4. IF i = p THEN t[i - 1] = l ELSE t[i - 1] = q[i]
                  <4>1. i - 1 \in 1..(m - 1) /\ (i - 1) + 1 = i /\ (i - 1 < p <=> i = p)
                        BY <1>0, <2>3
                  <4> QED BY <1>2, <1>3, <4>1
            <3>5. /\ q[i + 1] > TableLen
                  /\ d[q[i + 1]].left = q[i]
                  /\ d[q[i + 1]].right = IF i = m - 1 THEN s ELSE q[i + 2]
                  BY <1>1, <3>1, <3>2 DEF InRing, m
            <3>6. /\ x[q[i + 1]].key = d[q[i + 1]].key
                  /\ x[q[i + 1]].right = d[q[i + 1]].right
                  /\ x[q[i + 1]].left = IF i = p THEN l ELSE d[q[i + 1]].left
                  <4>1. i + 1 > 1 /\ (i + 1 = p + 1 <=> i = p)
                        BY <1>0, <2>3
                  <4> QED BY <1>4, <3>1, <4>1
            <3>7. x[t[i]].left = t[i - 1]
                  BY <3>3, <3>4, <3>5, <3>6
            <3>8. x[t[i]].right = IF i = m - 1 THEN s ELSE t[i + 1]
                  BY <3>3, <3>5, <3>6
            <3> QED BY <1>2, <3>1, <3>2, <3>3, <3>5, <3>6, <3>7, <3>8 DEF InRing
      <2> QED BY <1>1, <2>1, <2>2, <2>3
<1>6. \A i, j \in 1..(m - 1) : x[t[i]].key = x[t[j]].key => i = j
      <2>1. \A i, j \in 1..m : i # p /\ j # p /\ x[q[i]].key = x[q[j]].key => i = j
            BY <1>4 DEF IsRing, m
      <2>2. ASSUME NEW i \in 1..(m - 1), NEW j \in 1..(m - 1), x[t[i]].key = x[t[j]].key PROVE i = j
            <3> DEFINE a == IF i < p THEN i ELSE i + 1
                       b == IF j < p THEN j ELSE j + 1
            <3>1. a \in 1..m /\ b \in 1..m /\ a # p /\ b # p /\ t[i] = q[a] /\ t[j] = q[b]
                  <4>1. i \in 1..m /\ j \in 1..m /\ i + 1 \in 1..m /\ j + 1 \in 1..m
                        BY <1>0
                  <4>2. (i >= p => i + 1 # p) /\ (j >= p => j + 1 # p)
                        BY <1>0
                  <4>3. (i < p \/ i >= p) /\ (j < p \/ j >= p)
                        BY <1>0
                  <4>4. /\ t[i] = IF i < p THEN q[i] ELSE q[i + 1]
                        /\ t[j] = IF j < p THEN q[j] ELSE q[j + 1]
                        BY <1>2
                  <4>5. p \in Nat /\ i \in Nat /\ j \in Nat
                        BY <1>0
                  <4>6. a \in 1..m /\ a # p /\ t[i] = q[a]
                        BY <4>1, <4>2, <4>3, <4>4, <4>5
                  <4>7. b \in 1..m /\ b # p /\ t[j] = q[b]
                        BY <4>1, <4>2, <4>3, <4>4, <4>5
                  <4> HIDE DEF a, b
                  <4> QED BY <4>6, <4>7
            <3>2. a = b
                  BY <2>1, <2>2, <3>1
            <3> QED BY <1>0, <3>2
      <2> QED BY <2>2
<1>7. t[1] = s /\ m - 1 >= 1
      <2>1. 1 \in 1..(m - 1) /\ 1 < p /\ m - 1 >= 1
            BY <1>0
      <2> QED BY <1>1, <1>2, <2>1
<1>8. m - 1 = 1 => x[s].left = s
      BY <1>1, <1>3
<1>9. IsRing(x, f, s, t)
      BY <1>2, <1>5, <1>6, <1>7, <1>8 DEF IsRing
<1>10. ASSUME NEW j \in 1..Len(d)
       PROVE  x[j] = d[j] \/ j = s \/ (j > TableLen /\ SlotOf[d[j].key] = s)
      <2>1. \A i \in 1..m : q[i] = s \/ (q[i] > TableLen /\ SlotOf[d[q[i]].key] = s)
            <3>1. ASSUME NEW i \in 1..m PROVE q[i] = s \/ (q[i] > TableLen /\ SlotOf[d[q[i]].key] = s)
                  <4>1. InRing(d, f, s, q, i)
                        BY DEF IsRing, m
                  <4> QED BY <1>1, <4>1 DEF InRing
            <3> QED BY <3>1
      <2>2. \E i \in 1..m : q[i] = l
            BY <1>1, <1>3
      <2>3. r = s \/ \E i \in 1..m : q[i] = r
            <3>1. p # m => p + 1 \in 1..m
                  BY <1>0
            <3> QED BY <1>3, <3>1
      <2>4. q[p] > TableLen /\ SlotOf[d[q[p]].key] = s
            BY <1>1 DEF IsRing, InRing
      <2>5. j = l \/ j = r \/ j = q[p] \/ x[j] = d[j]
            OBVIOUS
      <2> QED BY <2>1, <2>2, <2>3, <2>4, <2>5
<1>11. SlotWhole(x, f, s) /\ Len(x) >= Len(d)
      BY <1>1, <1>9 DEF SlotWhole
<1>12. OnlyRing(d, x, s)
       BY <1>10 DEF OnlyRing
<1>13. Whole(x, f)
       BY <1>11, <1>12, OthersWhole
<1> QED BY <1>9, <1>12, <1>13 DEF t

(* The first entry has been taken out: the second is cleared, the third,   *)
(* or the slot, linked to the slot, and the second written into the slot.  *)
HeadIsOut(d, x, s, q, r) ==
  /\ r = d[q[2]].right
  /\ \A j \in 1..Len(d) : j \notin {q[2], r, s} => x[j] = d[j]
  /\ r # s => /\ x[r].key = d[r].key /\ x[r].value = d[r].value
              /\ x[r].right = d[r].right /\ x[r].left = s
  /\ r = s => x[s].left = s
  /\ x[s].key = d[q[2]].key /\ x[s].value = d[q[2]].value /\ x[s].right = r

LEMMA HeadOutWhole ==
  ASSUME NEW d \in Seq(Entry), NEW x \in Seq(Entry), NEW f, NEW s \in 1..TableLen,
         Whole(d, f), Len(x) = Len(d), NEW q, IsRing(d, f, s, q), Len(q) >= 2,
         NEW r, HeadIsOut(d, x, s, q, r)
  PROVE  Whole(x, f) /\ IsRing(x, f, s, LeftOut(q, 2)) /\ OnlyRing(d, x, s)
<1> USE DEF HeadIsOut
<1> DEFINE m == Len(q)
           t == LeftOut(q, 2)
<1>0. m \in Nat /\ m >= 2
      BY RingTypes
<1>1. /\ q[1] = s /\ q \in Seq(1..Len(x)) /\ Len(d) \in Nat
      /\ \A i \in 1..m : q[i] \in 1..Len(d)
      BY RingTypes
<1>2. t \in Seq(1..Len(x)) /\ Len(t) = m - 1
      /\ \A i \in 1..(m - 1) : t[i] = IF i < 2 THEN q[i] ELSE q[i + 1]
      <2>1. 2 \in 2..Len(q)
            BY <1>0
      <2> QED BY <1>1, <2>1, LeftOutSeq
<1> HIDE DEF t, m
<1>3. 1 \in 1..m /\ 2 \in 1..m
      BY <1>0
<1>4. r = IF m = 2 THEN s ELSE q[3]
      <2>1. InRing(d, f, s, q, 2)
            BY <1>3 DEF IsRing, m
      <2> QED BY <2>1 DEF InRing, m
<1>5. ASSUME NEW i \in 3..m
      PROVE  /\ x[q[i]].key = d[q[i]].key
             /\ x[q[i]].right = d[q[i]].right
             /\ x[q[i]].left = IF i = 3 THEN s ELSE d[q[i]].left
      <2>1. i \in 1..m /\ i # 1 /\ i # 2
            BY <1>0
      <2>2. q[i] # s /\ q[i] # q[2]
            BY <1>1, <1>3, <2>1, PlacesDiffer DEF m
      <2>3. CASE i = 3
            <3>1. r = q[i] /\ r # s
                  BY <1>0, <1>4, <2>2, <2>3
            <3> QED BY <2>3, <3>1
      <2>4. CASE i # 3
            <3>1. m # 2 /\ 3 \in 1..m
                  BY <1>0
            <3>2. q[i] # r
                  BY <1>4, <2>1, <2>4, <3>1, PlacesDiffer DEF m
            <3>3. x[q[i]] = d[q[i]]
                  BY <1>1, <2>1, <2>2, <3>2
            <3> QED BY <2>4, <3>3
      <2> QED BY <2>3, <2>4
<1>6. t[1] = s
      <2>1. 1 \in 1..(m - 1)
            BY <1>0
      <2> QED BY <1>1, <1>2, <2>1
<1>7. ASSUME NEW i \in 2..(m - 1) PROVE t[i] = q[i + 1] /\ i + 1 \in 3..m /\ i \in 1..(m - 1)
      <2>1. i \in 1..(m - 1) /\ ~(i < 2) /\ i + 1 \in 3..m
            BY <1>0
      <2> QED BY <1>2, <2>1
<1>8. ASSUME NEW i \in 1..(m - 1) PROVE InRing(x, f, s, t, i)
      <2>1. CASE i = 1
            <3>1. InRing(d, f, s, q, 2)
                  BY <1>3 DEF IsRing, m
            <3>2. x[t[1]].right = IF 1 = m - 1 THEN s ELSE t[2]
                  <4>1. CASE m = 2
                        BY <1>4, <1>6, <4>1
                  <4>2. CASE m # 2
                        <5>1. 2 \in 2..(m - 1) /\ 1 # m - 1 /\ 2 + 1 = 3
                              BY <1>0, <4>2
                        <5>2. t[2] = q[3]
                              BY <1>7, <5>1
                        <5> QED BY <1>4, <1>6, <4>2, <5>1, <5>2
                  <4> QED BY <4>1, <4>2
            <3>3. /\ x[t[1]].key \in Keys /\ FileOf[x[t[1]].key] = f /\ SlotOf[x[t[1]].key] = s
                  BY <1>6, <3>1 DEF InRing
            <3> QED BY <1>2, <2>1, <3>2, <3>3 DEF InRing
      <2>2. CASE i # 1
            <3>1. i \in 2..(m - 1) /\ i + 1 \in 1..m /\ i + 1 > 1 /\ (i + 1 = m <=> i = m - 1)
                  BY <1>0, <2>2
            <3>2. t[i] = q[i + 1] /\ i + 1 \in 3..m
                  BY <1>7, <3>1
            <3>3. InRing(d, f, s, q, i + 1)
                  BY <3>1 DEF IsRing, m
            <3>4. x[t[i]].right = IF i = m - 1 THEN s ELSE t[i + 1]
                  <4>1. i # m - 1 => i + 1 \in 2..(m - 1)
                        BY <1>0, <3>1
                  <4>2. i # m - 1 => t[i + 1] = q[(i + 1) + 1]
                        BY <1>7, <4>1
                  <4>3. d[q[i + 1]].right = IF i = m - 1 THEN s ELSE q[(i + 1) + 1]
                        BY <3>1, <3>3 DEF InRing, m
                  <4> QED BY <1>5, <3>2, <4>2, <4>3
            <3>5. x[t[i]].left = t[i - 1]
                  <4>1. CASE i = 2
                        BY <1>5, <1>6, <3>2, <4>1
                  <4>2. CASE i # 2
                        <5>1. i - 1 \in 2..(m - 1) /\ (i - 1) + 1 = i /\ (i + 1) - 1 = i /\ i + 1 # 3
                              <6>1. i \in 2..(m - 1)
                                    BY <3>1
                              <6>2. i \in Int /\ 2 <= i /\ i <= m - 1 /\ m - 1 \in Int
                                    BY <1>0, <6>1
                              <6> QED BY <4>2, <6>2
                        <5>2. t[i - 1] = q[i]
                              BY <1>7, <5>1
                        <5>3. d[q[i + 1]].left = q[i]
                              BY <3>1, <3>3, <5>1 DEF InRing
                        <5> QED BY <1>5, <3>2, <5>1, <5>2, <5>3
                  <4> QED BY <4>1, <4>2
            <3>6. q[i + 1] > TableLen /\ x[q[i + 1]].key = d[q[i + 1]].key
                  BY <1>5, <3>1, <3>2, <3>3 DEF InRing
            <3> QED BY <1>2, <3>2, <3>3, <3>4, <3>5, <3>6 DEF InRing
      <2> QED BY <2>1, <2>2
<1>9. \A i, j \in 1..(m - 1) : x[t[i]].key = x[t[j]].key => i = j
      <2>1. ASSUME NEW i \in 1..(m - 1) PROVE i + 1 \in 1..m /\ x[t[i]].key = d[q[i + 1]].key
            <3>1. i + 1 \in 1..m /\ (i = 1 \/ i \in 2..(m - 1))
                  BY <1>0
            <3> QED BY <1>5, <1>6, <1>7, <3>1
      <2>2. ASSUME NEW i \in 1..(m - 1), NEW j \in 1..(m - 1), x[t[i]].key = x[t[j]].key PROVE i = j
            <3>1. i + 1 \in 1..m /\ j + 1 \in 1..m /\ d[q[i + 1]].key = d[q[j + 1]].key
                  BY <2>1, <2>2
            <3>2. i + 1 = j + 1
                  BY <3>1 DEF IsRing, m
            <3> QED BY <1>0, <3>2
      <2> QED BY <2>2
<1>10. m - 1 >= 1 /\ (m - 1 = 1 => x[s].left = s)
      BY <1>0, <1>4
<1>11. IsRing(x, f, s, t)
      BY <1>2, <1>6, <1>8, <1>9, <1>10 DEF IsRing
<1>12. ASSUME NEW j \in 1..Len(d)
       PROVE  x[j] = d[j] \/ j = s \/ (j > TableLen /\ SlotOf[d[j].key] = s)
      <2>1. ASSUME NEW i \in 1..m PROVE q[i] = s \/ (q[i] > TableLen /\ SlotOf[d[q[i]].key] = s)
            <3>1. InRing(d, f, s, q, i)
                  BY DEF IsRing, m
            <3> QED BY <1>1, <3>1 DEF InRing
      <2>2. m # 2 => 3 \in 1..m
            BY <1>0
      <2>3. r = s \/ (r > TableLen /\ SlotOf[d[r].key] = s)
            BY <1>4, <2>1, <2>2
      <2>4. q[2] = s \/ (q[2] > TableLen /\ SlotOf[d[q[2]].key] = s)
            BY <1>3, <2>1
      <2>5. j = r \/ j = q[2] \/ j = s \/ x[j] = d[j]
            OBVIOUS
      <2> QED BY <2>3, <2>4, <2>5
<1>13. SlotWhole(x, f, s) /\ Len(x) >= Len(d)
      BY <1>1, <1>11 DEF SlotWhole
<1>14. OnlyRing(d, x, s)
       BY <1>12 DEF OnlyRing
<1>15. Whole(x, f)
       BY <1>13, <1>14, OthersWhole
<1> QED BY <1>11, <1>14, <1>15 DEF t

(* The only entry of a ring has been taken out. *)
LEMMA OnlyOutWhole ==
  ASSUME NEW d \in Seq(Entry), NEW x \in Seq(Entry), NEW f, NEW s \in 1..TableLen,
         Whole(d, f), Len(x) = Len(d),
         \A j \in 1..Len(d) : j # s => x[j] = d[j], x[s] = Blank
  PROVE  Whole(x, f) /\ OnlyRing(d, x, s)
<1>1. SlotWhole(x, f, s)
      BY DEF SlotWhole, IsEmptySlot, Blank
<1>2. Len(x) >= Len(d)
      OBVIOUS
<1>3. OnlyRing(d, x, s)
      BY DEF OnlyRing
<1> QED BY <1>1, <1>2, <1>3, OthersWhole
-----------------------------------------------------------------------------
(* The rings are the proper rings of RingsWhole: what follows the right    *)
(* links from the slot is the sequence.                                    *)

NextOn(d, i) == IF i \in DOMAIN d THEN d[i].right ELSE MaxIdx

IsChain(at, d, i, k) == at = [n \in 0..k |-> IF n = 0 THEN i ELSE NextOn(d, at[n - 1])]

(* A chain of any length is a function that exists: it can be lengthened.  *)
LEMMA ChainExists == ASSUME NEW d, NEW i PROVE \A k \in Nat : \E at : IsChain(at, d, i, k)
<1> DEFINE S == {k \in Nat : \E at : IsChain(at, d, i, k)}
<1>1. 0 \in S
      <2> DEFINE at == [n \in 0..0 |-> i]
      <2>1. IsChain(at, d, i, 0)
            BY DEF IsChain
      <2> QED BY <2>1
<1>2. ASSUME NEW k \in Nat, k \in S PROVE k + 1 \in S
      <2>1. PICK at : IsChain(at, d, i, k)
            BY <1>2
      <2> DEFINE g == [n \in 0..(k + 1) |-> IF n <= k THEN at[n] ELSE NextOn(d, at[k])]
                 h == [n \in 0..(k + 1) |-> IF n = 0 THEN i ELSE NextOn(d, g[n - 1])]
      <2>2. ASSUME NEW n \in 0..(k + 1) PROVE g[n] = h[n]
            <3>1. CASE n = 0
                  BY <2>1, <3>1 DEF IsChain
            <3>2. CASE n \in 1..k
                  <4>1. g[n] = at[n] /\ g[n - 1] = at[n - 1]
                        BY <3>2
                  <4>2. h[n] = NextOn(d, g[n - 1])
                        BY <3>2
                  <4> HIDE DEF g, h
                  <4> QED BY <2>1, <3>2, <4>1, <4>2 DEF IsChain
            <3>3. CASE n = k + 1
                  <4>1. g[n] = NextOn(d, at[k]) /\ g[n - 1] = at[k] /\ n # 0
                        BY <3>3
                  <4> QED BY <4>1
            <3> QED BY <3>1, <3>2, <3>3
      <2>3. g = h
            BY <2>2
      <2> HIDE DEF g
      <2> QED BY <2>3 DEF IsChain
<1> HIDE DEF S
<1> QED BY <1>1, <1>2, Counting!Induction DEF S

(* It starts at i and goes on to the right.                               *)
LEMMA ChainUnfolds ==
  ASSUME NEW d \in Seq(Entry), NEW i
  PROVE  /\ Chain(d, i)[0] = i
         /\ \A n \in 1..Len(d) : Chain(d, i)[n] = NextOn(d, Chain(d, i)[n - 1])
<1>1. Len(d) \in Nat
      OBVIOUS
<1>2. Chain(d, i) = CHOOSE at : IsChain(at, d, i, Len(d))
      BY DEF Chain, IsChain, NextOn
<1>3. IsChain(Chain(d, i), d, i, Len(d))
      BY <1>1, <1>2, ChainExists
<1> QED BY <1>1, <1>3 DEF IsChain

(* A ring has no more entries than its file. *)
LEMMA RingIsShort ==
  ASSUME NEW d \in Seq(Entry), NEW f, NEW s, NEW q, IsRing(d, f, s, q)
  PROVE  Len(q) <= Len(d)
<1>1. Len(d) \in Nat /\ Len(q) \in Nat /\ q \in [1..Len(q) -> 1..Len(d)]
      BY RingTypes
<1>2. ASSUME NEW n \in Nat PROVE IsFiniteSet(1..n) /\ Cardinality(1..n) = n
      <2>1. 1 \in Int /\ n \in Int
            OBVIOUS
      <2>2. IsFiniteSet(1..n) /\ Cardinality(1..n) = IF 1 > n THEN 0 ELSE n - 1 + 1
            BY <2>1, FS_Interval
      <2> QED BY <2>2
<1>3. \A i, j \in 1..Len(q) : q[i] = q[j] => i = j
      BY PlacesDiffer
<1>4. q \in Injection(1..Len(q), 1..Len(d))
      BY <1>1, <1>3 DEF Injection, IsInjective
<1>5. Cardinality(1..Len(q)) <= Cardinality(1..Len(d))
      BY <1>1, <1>2, <1>4, FS_Injection
<1> QED BY <1>1, <1>2, <1>5

(* The chain from the slot goes through the ring, place by place, and back *)
(* to the slot; it never leaves it.                                        *)
LEMMA ChainIsRing ==
  ASSUME NEW d \in Seq(Entry), NEW f, NEW s, NEW q, IsRing(d, f, s, q)
  PROVE  /\ \A n \in 0..Len(d) : \E i \in 1..Len(q) : Chain(d, s)[n] = q[i]
         /\ \A i \in 1..Len(q) : \E n \in 0..Len(d) : Chain(d, s)[n] = q[i]
         /\ \E n \in 1..Len(d) : Chain(d, s)[n] = s
<1> DEFINE m == Len(q)
           at == Chain(d, s)
<1>1. /\ Len(d) \in Nat /\ m \in Nat /\ m >= 1 /\ q[1] = s /\ m <= Len(d)
      /\ \A i \in 1..m : q[i] \in 1..Len(d)
      BY RingTypes, RingIsShort
<1>2. ASSUME NEW i \in 1..m PROVE NextOn(d, q[i]) = IF i = m THEN s ELSE q[i + 1]
      <2>1. InRing(d, f, s, q, i) /\ q[i] \in DOMAIN d
            BY <1>1 DEF IsRing
      <2> QED BY <2>1 DEF InRing, NextOn
<1>3. at[0] = s /\ \A n \in 1..Len(d) : at[n] = NextOn(d, at[n - 1])
      BY ChainUnfolds
<1> HIDE DEF m, at
<1> DEFINE S == {n \in Nat : n <= Len(d) => \E i \in 1..m : at[n] = q[i]}
           T == {n \in Nat : n < m => at[n] = q[n + 1]}
<1>4. Nat \subseteq S
      <2>1. 0 \in S
            <3>1. 1 \in 1..m
                  BY <1>1
            <3> QED BY <1>1, <1>3, <3>1
      <2>2. ASSUME NEW n \in Nat, n \in S PROVE n + 1 \in S
            <3> SUFFICES ASSUME n + 1 <= Len(d) PROVE \E i \in 1..m : at[n + 1] = q[i]
                OBVIOUS
            <3>1. n <= Len(d) /\ n + 1 \in 1..Len(d) /\ (n + 1) - 1 = n
                  BY <1>1
            <3>2. PICK i \in 1..m : at[n] = q[i]
                  BY <2>2, <3>1
            <3>3. at[n + 1] = IF i = m THEN s ELSE q[i + 1]
                  BY <1>2, <1>3, <3>1, <3>2
            <3>4. (i # m => i + 1 \in 1..m) /\ 1 \in 1..m
                  BY <1>1
            <3> QED BY <1>1, <3>3, <3>4
      <2> HIDE DEF S
      <2> QED BY <2>1, <2>2, Counting!Induction
<1>5. Nat \subseteq T
      <2>1. 0 \in T
            BY <1>1, <1>3
      <2>2. ASSUME NEW n \in Nat, n \in T PROVE n + 1 \in T
            <3> SUFFICES ASSUME n + 1 < m PROVE at[n + 1] = q[(n + 1) + 1]
                OBVIOUS
            <3>1. n < m /\ n + 1 \in 1..Len(d) /\ (n + 1) - 1 = n /\ n + 1 \in 1..m /\ n + 1 # m
                  BY <1>1
            <3>2. at[n] = q[n + 1]
                  BY <2>2, <3>1
            <3> QED BY <1>2, <1>3, <3>1, <3>2
      <2> HIDE DEF T
      <2> QED BY <2>1, <2>2, Counting!Induction
<1>6. \A n \in 0..Len(d) : \E i \in 1..m : at[n] = q[i]
      BY <1>1, <1>4
<1>7. m \in 1..Len(d) /\ at[m] = s
      <2>1. m - 1 \in Nat /\ m - 1 < m /\ m \in 1..Len(d) /\ (m - 1) + 1 = m /\ m \in 1..m
            BY <1>1
      <2>2. at[m - 1] = q[m]
            BY <1>5, <2>1
      <2> QED BY <1>2, <1>3, <2>1, <2>2
<1>8. ASSUME NEW i \in 1..m PROVE \E n \in 0..Len(d) : at[n] = q[i]
      <2>1. i - 1 \in Nat /\ i - 1 < m /\ (i - 1) + 1 = i /\ i - 1 \in 0..Len(d)
            BY <1>1
      <2>2. at[i - 1] = q[i]
            BY <1>5, <2>1
      <2> QED BY <2>1, <2>2
<1> QED BY <1>6, <1>7, <1>8 DEF m, at

(* So the entries it leads through are those of the ring. *)
LEMMA RingEntries ==
  ASSUME NEW d \in Seq(Entry), NEW f, NEW s, NEW q, IsRing(d, f, s, q)
  PROVE  /\ \A i \in Ring(d, s) : \E j \in 1..Len(q) : i = q[j]
         /\ \A j \in 1..Len(q) : q[j] \in Ring(d, s)
<1>1. \A n \in 0..Len(d) : \E i \in 1..Len(q) : Chain(d, s)[n] = q[i]
      BY ChainIsRing
<1>2. \A i \in 1..Len(q) : \E n \in 0..Len(d) : Chain(d, s)[n] = q[i]
      BY ChainIsRing
<1>3. Ring(d, s) = {Chain(d, s)[n] : n \in 0..Len(d)} \ {MaxIdx}
      BY DEF Ring
<1>4. \A j \in 1..Len(q) : q[j] # MaxIdx
      <2>1. \A j \in 1..Len(q) : q[j] \in 1..Len(d)
            BY RingTypes
      <2> QED BY <2>1 DEF MaxIdx
<1>5. ASSUME NEW i \in Ring(d, s) PROVE \E j \in 1..Len(q) : i = q[j]
      BY <1>1, <1>3
<1>6. ASSUME NEW j \in 1..Len(q) PROVE q[j] \in Ring(d, s)
      BY <1>2, <1>3, <1>4
<1> QED BY <1>5, <1>6

(* A ring in this sense is a proper one in that of KVStoreViews.           *)
LEMMA RingIsProper ==
  ASSUME NEW d \in Seq(Entry), NEW f, NEW s, NEW q, IsRing(d, f, s, q)
  PROVE  ProperRing(d, f, s)
<1>1. \E n \in 1..Len(d) : Chain(d, s)[n] = s
      <2>1. /\ \A n \in 0..Len(d) : \E i \in 1..Len(q) : Chain(d, s)[n] = q[i]
            /\ \A i \in 1..Len(q) : \E n \in 0..Len(d) : Chain(d, s)[n] = q[i]
            /\ \E n \in 1..Len(d) : Chain(d, s)[n] = s
            BY ChainIsRing
      <2> QED BY <2>1
<1>2. \A i \in Ring(d, s) : \E j \in 1..Len(q) : i = q[j]
      BY RingEntries
<1>3. /\ Len(d) \in Nat /\ Len(q) \in Nat /\ q[1] = s
      /\ \A i \in 1..Len(q) : q[i] \in 1..Len(d)
      BY RingTypes
<1>4. ASSUME NEW i \in 1..Len(q)
      PROVE  /\ q[i] = s \/ q[i] > TableLen
             /\ d[q[i]].key \in Keys /\ FileOf[d[q[i]].key] = f /\ SlotOf[d[q[i]].key] = s
             /\ d[q[i]].right # s => d[d[q[i]].right].left = q[i]
      <2>1. InRing(d, f, s, q, i)
            BY DEF IsRing
      <2>2. i # Len(q) => InRing(d, f, s, q, i + 1) /\ i + 1 > 1 /\ (i + 1) - 1 = i
            BY <1>3 DEF IsRing
      <2>3. d[q[i]].right # s => d[d[q[i]].right].left = q[i]
            BY <2>1, <2>2 DEF InRing
      <2>4. q[i] = s \/ q[i] > TableLen
            BY <1>3, <2>1 DEF InRing
      <2> QED BY <2>1, <2>3, <2>4 DEF InRing
<1>5. \A i, j \in 1..Len(q) : d[q[i]].key = d[q[j]].key => i = j
      BY DEF IsRing
<1>6. ASSUME NEW i \in Ring(d, s)
      PROVE  /\ i = s \/ i > TableLen
             /\ d[i].key \in Keys /\ FileOf[d[i].key] = f /\ SlotOf[d[i].key] = s
             /\ d[i].right # s => d[d[i].right].left = i
             /\ \A j \in Ring(d, s) : d[i].key = d[j].key => i = j
      <2>1. PICK a \in 1..Len(q) : i = q[a]
            BY <1>2
      <2>2. ASSUME NEW j \in Ring(d, s), d[i].key = d[j].key PROVE i = j
            <3>1. PICK b \in 1..Len(q) : j = q[b]
                  BY <1>2
            <3> QED BY <1>5, <2>1, <2>2, <3>1
      <2> QED BY <1>4, <2>1, <2>2
<1> QED BY <1>1, <1>6 DEF ProperRing

(* So a whole file is what RingsWhole asks for. *)
LEMMA WholeIsProper ==
  ASSUME NEW d \in Seq(Entry), NEW f, Whole(d, f)
  PROVE  /\ Len(d) >= TableLen
         /\ \A s \in 1..TableLen : IsEmptySlot(d, s) \/ ProperRing(d, f, s)
BY RingIsProper DEF Whole, SlotWhole
-----------------------------------------------------------------------------
(* What a call that has the lock of file f for itself, at place p with     *)
(* request r and locals l, leaves of the contents d of the file before it  *)
(* takes its next step.                                                    *)

(* The walk has come from the i-th entry of the ring, and none up to it    *)
(* had the key.                                                            *)
Walking(r, l, d, f) ==
  \E q : /\ IsRing(d, f, SlotOf[r.key], q)
         /\ \E i \in 1..Len(q) :
              /\ l.at = d[q[i]].right
              /\ l.prev = IF i = 1 THEN d[SlotOf[r.key]].left ELSE q[i]
              /\ \A j \in 1..i : d[q[j]].key # r.key

(* The new entry is at the end of the file, and its key in no ring.        *)
Linking(r, l, d, f) ==
  /\ Len(d) > TableLen
  /\ d[Len(d)].left = l.prev /\ d[Len(d)].right = SlotOf[r.key] /\ d[Len(d)].key = r.key
  /\ \E q : /\ IsRing(d, f, SlotOf[r.key], q)
            /\ l.prev = q[Len(q)]
            /\ \A i \in 1..Len(q) : d[q[i]].key # r.key

Cleared(d, i) == [d EXCEPT ![i] = Blank]

(* The entry behind i, cleared, is linked to the slot s. *)
ThirdLinked(d, s, i) ==
  LET r == d[i].right
  IN [Cleared(d, i) EXCEPT ![r] = [Cleared(d, i)[r] EXCEPT !.left = s]]

(* The entry before i, cleared, is linked to the one behind. *)
RightUnlinked(d, i) ==
  LET l == d[i].left
  IN [Cleared(d, i) EXCEPT ![l] = [Cleared(d, i)[l] EXCEPT !.right = d[i].right]]

(* What they come to: the entry i is copied to the slot s, and the entry   *)
(* behind i is linked to the one before it.                                *)
Copied(d, s, i) ==
  LET y == ThirdLinked(d, s, i)
  IN [y EXCEPT ![s] = [d[i] EXCEPT !.left = y[s].left]]

LeftUnlinked(d, i) ==
  LET y == RightUnlinked(d, i)
      r == d[i].right
  IN [y EXCEPT ![r] = [y[r] EXCEPT !.left = d[i].left]]

(* The second entry of a ring of the contents d0 is being moved.           *)
MovingUp(p, r, l, d, f) ==
  \E d0 \in Seq(Entry) : \E q :
     /\ Whole(d0, f) /\ IsRing(d0, f, SlotOf[r.key], q) /\ Len(q) >= 2
     /\ l.hold = d0[q[2]]
     /\ d = IF p = "third" THEN Cleared(d0, q[2]) ELSE ThirdLinked(d0, SlotOf[r.key], q[2])

(* An entry of a ring of the contents d0, behind its slot, is taken out.   *)
TakingOut(p, r, l, d, f) ==
  \E d0 \in Seq(Entry) : \E q : \E i \in 2..Len(q) :
     /\ Whole(d0, f) /\ IsRing(d0, f, SlotOf[r.key], q)
     /\ l.hold = d0[q[i]]
     /\ d = IF p = "unlinkright" THEN Cleared(d0, q[i]) ELSE RightUnlinked(d0, q[i])

Underway(p, r, l, d, f) ==
  /\ p \notin {"fill", "third", "copy", "unlinkright", "unlinkleft"} => Whole(d, f)
  /\ p = "fill" => Len(d) < TableLen /\ \A i \in DOMAIN d : d[i] = Blank
  /\ p = "walk" => Walking(r, l, d, f)
  /\ p = "link" => Linking(r, l, d, f)
  /\ p = "linkleft" => \E q : IsRing(d, f, SlotOf[r.key], q) /\ Len(q) >= 2
  /\ p \in {"third", "copy"} => MovingUp(p, r, l, d, f)
  /\ p \in {"unlinkright", "unlinkleft"} => TakingOut(p, r, l, d, f)

(* A file that nobody writes is whole; one that is written, and if it is   *)
(* written, is what its writer takes it for.                               *)
FileWell(f) == IF writer[f] = NoWorker
               THEN Whole(disk[f], f)
               ELSE Underway(pc[writer[f]], call[writer[f]], loc[writer[f]], disk[f], f)

RingInv == ~torn => \A f \in onDisk : FileWell(f)

-----------------------------------------------------------------------------
(* What a step of w leaves of its file. *)

UnderwayHere(w) == Underway(pc[w], call[w], loc[w], Here(w), File(w))

Leaves(w) == IF pc'[w] = "idle"
             THEN Whole(disk'[File(w)], File(w))
             ELSE Underway(pc'[w], call[w], loc'[w], disk'[File(w)], File(w))

(* The facts the steps share. *)
LEMMA StepFacts ==
  ASSUME NEW w \in Workers, Locked, Formed, pc[w] # "idle"
  PROVE  /\ Here(w) \in Seq(Entry) /\ Len(Here(w)) \in Nat /\ DOMAIN Here(w) = 1..Len(Here(w))
         /\ call[w].key \in Keys /\ FileOf[call[w].key] = File(w) /\ SlotOf[call[w].key] = Slot(w)
         /\ Slot(w) \in 1..TableLen /\ TableLen \in Nat /\ File(w) \in Files
         /\ call[w].value \in MaybeValue
         /\ \A p : Goto(w, p) => pc'[w] = p
         /\ \A ok : ReturnExclusive(w, ok) => pc'[w] = "idle"
         /\ UNCHANGED disk => disk'[File(w)] = Here(w)
         /\ \A i, e : Write(w, i, e) => disk'[File(w)] = [Here(w) EXCEPT ![i] = e]
         /\ \A d : disk' = [disk EXCEPT ![File(w)] = d] => disk'[File(w)] = d
         /\ loc[w] \in Locals
<1>1. /\ Here(w) \in Seq(Entry) /\ call[w].key \in Keys /\ File(w) \in Files
      /\ call[w].value \in MaybeValue /\ loc[w] \in Locals
      BY BusyFits
<1>2. /\ Len(Here(w)) \in Nat /\ DOMAIN Here(w) = 1..Len(Here(w))
      BY <1>1
<1>3. /\ FileOf[call[w].key] = File(w) /\ SlotOf[call[w].key] = Slot(w)
      /\ Slot(w) \in 1..TableLen /\ TableLen \in Nat
      BY <1>1, StoreAssumption DEF File, Slot
<1>4. \A p : Goto(w, p) => pc'[w] = p
      BY DEF Goto, Locked, StoreShape
<1>5. \A ok : ReturnExclusive(w, ok) => pc'[w] = "idle"
      BY <1>4 DEF ReturnExclusive, Return
<1>6. DOMAIN disk = Files
      BY DEF Locked, StoreShape
<1>7. /\ UNCHANGED disk => disk'[File(w)] = Here(w)
      /\ \A i, e : Write(w, i, e) => disk'[File(w)] = [Here(w) EXCEPT ![i] = e]
      /\ \A d : disk' = [disk EXCEPT ![File(w)] = d] => disk'[File(w)] = d
      BY <1>1, <1>6 DEF Here, Write
<1> QED BY <1>1, <1>2, <1>3, <1>4, <1>5, <1>7

(* A write to the own file, and a return of the exclusive lock. *)
LEMMA Written ==
  ASSUME NEW w \in Workers, Locked, Formed, pc[w] # "idle", NEW i, NEW e, Write(w, i, e)
  PROVE  disk'[File(w)] = [Here(w) EXCEPT ![i] = e]
<1>1. DOMAIN disk = Files /\ File(w) \in Files
      BY StepFacts DEF Locked, StoreShape
<1> QED BY <1>1 DEF Write, Here

LEMMA Returned ==
  ASSUME NEW w \in Workers, Locked, NEW ok, ReturnExclusive(w, ok)
  PROVE  pc'[w] = "idle"
BY DEF ReturnExclusive, Return, Goto, Locked, StoreShape

(* An entry in the place of another. *)
LEMMA EntryWritten ==
  ASSUME NEW d \in Seq(Entry), NEW i \in 1..Len(d), NEW e \in Entry
  PROVE  /\ [d EXCEPT ![i] = e] \in Seq(Entry) /\ Len([d EXCEPT ![i] = e]) = Len(d)
         /\ [d EXCEPT ![i] = e][i] = e
         /\ \A j \in 1..Len(d) : j # i => [d EXCEPT ![i] = e][j] = d[j]
BY ExceptSeq

(* Opening the file, and creating it. *)
LEMMA OpenLeaves ==
  ASSUME NEW w \in Workers, Locked, Formed, UpdateOpen(w) \/ CreateBegin(w),
         Whole(Here(w), File(w))
  PROVE  Leaves(w)
<1>1. pc[w] # "idle"
      BY DEF UpdateOpen, CreateBegin
<1>2. pc'[w] \in {"head", "setbit"} /\ UNCHANGED disk
      BY <1>1, StepFacts DEF UpdateOpen, CreateBegin, ToSlot, fileVars
<1>3. disk'[File(w)] = Here(w)
      BY <1>1, <1>2, StepFacts
<1> QED BY <1>2, <1>3 DEF Leaves, Underway

(* While it is created the file has blank entries only; then it is whole.  *)
LEMMA CreationLeaves ==
  ASSUME NEW w \in Workers, Locked, Formed,
         SetBit(w) \/ Create(w) \/ CreateRefused(w) \/ Fill(w),
         Create(w) \/ UnderwayHere(w)
  PROVE  Leaves(w)
<1>1. pc[w] # "idle"
      BY DEF SetBit, Create, CreateRefused, Fill
<1>2. CASE SetBit(w)
      <2>1. pc[w] = "setbit" /\ pc'[w] = "create" /\ disk'[File(w)] = Here(w)
            BY <1>1, <1>2, StepFacts DEF SetBit
      <2>2. ~Create(w)
            BY <2>1 DEF Create
      <2> QED BY <2>1, <2>2 DEF Leaves, Underway, UnderwayHere
<1>3. CASE CreateRefused(w) /\ ~Create(w)
      <2>1. pc[w] = "create" /\ pc'[w] = "idle" /\ disk'[File(w)] = Here(w)
            BY <1>1, <1>3, StepFacts DEF CreateRefused, Return, fileVars
      <2> QED BY <1>3, <2>1 DEF Leaves, Underway, UnderwayHere
<1>4. CASE Create(w)
      <2>1. pc'[w] = "fill" /\ disk'[File(w)] = <<>>
            BY <1>1, <1>4, StepFacts DEF Create
      <2>2. Len(<<>>) < TableLen /\ DOMAIN <<>> = {}
            BY StoreAssumption
      <2> QED BY <2>1, <2>2 DEF Leaves, Underway
<1>5. CASE Fill(w)
      <2> DEFINE x == Append(Here(w), Blank)
      <2>1. pc[w] = "fill" /\ disk'[File(w)] = x
            BY <1>1, <1>5, StepFacts DEF Fill, Here
      <2>2. ~Create(w)
            BY <2>1 DEF Create
      <2>3. Len(Here(w)) < TableLen /\ \A i \in DOMAIN Here(w) : Here(w)[i] = Blank
            BY <2>1, <2>2 DEF Underway, UnderwayHere
      <2>4. /\ x \in Seq(Entry) /\ Len(x) = Len(Here(w)) + 1 /\ x[Len(Here(w)) + 1] = Blank
            /\ \A i \in 1..Len(Here(w)) : x[i] = Here(w)[i]
            BY <1>1, StepFacts, NoLocalsOK, AppendProperties
      <2>5. /\ DOMAIN x = 1..(Len(Here(w)) + 1) /\ DOMAIN Here(w) = 1..Len(Here(w))
            /\ Len(Here(w)) \in Nat /\ TableLen \in Nat
            BY <1>1, <2>4, StepFacts
      <2> HIDE DEF x
      <2>6. \A i \in DOMAIN x : x[i] = Blank
            BY <2>3, <2>4, <2>5
      <2>7. CASE Len(x) < TableLen
            <3>1. pc'[w] = "fill"
                  BY <1>5, <2>1, <2>7 DEF Fill
            <3> QED BY <2>1, <2>6, <2>7, <3>1 DEF Leaves, Underway
      <2>8. CASE ~(Len(x) < TableLen)
            <3>1. pc'[w] = "head"
                  BY <1>1, <1>5, <2>1, <2>8, StepFacts DEF Fill, ToSlot
            <3>2. Len(x) >= TableLen
                  BY <2>4, <2>5, <2>8
            <3>3. Whole(x, File(w))
                  BY <2>4, <2>6, <3>2, BlankWhole
            <3> QED BY <2>1, <3>1, <3>3 DEF Leaves, Underway
      <2> QED BY <2>7, <2>8
<1> QED BY <1>2, <1>3, <1>4, <1>5

(* Where the walk can be: at the slot again, behind the last entry, or at  *)
(* the next one.                                                           *)
LEMMA WalkIsHome ==
  ASSUME NEW d \in Seq(Entry), NEW f, NEW s, NEW q, IsRing(d, f, s, q),
         NEW i \in 1..Len(q), d[q[i]].right = s
  PROVE  i = Len(q)
<1>1. Len(q) \in Nat /\ q[1] = s
      BY RingTypes
<1>2. InRing(d, f, s, q, i)
      BY DEF IsRing
<1>3. ASSUME i # Len(q) PROVE FALSE
      <2>1. i + 1 \in 1..Len(q) /\ 1 \in 1..Len(q) /\ i + 1 # 1
            BY <1>1, <1>3
      <2>2. q[i + 1] = q[1]
            BY <1>1, <1>2, <1>3 DEF InRing
      <2> QED BY <2>1, <2>2, PlacesDiffer
<1> QED BY <1>3

LEMMA WalkIsAtNext ==
  ASSUME NEW d \in Seq(Entry), NEW f, NEW s, NEW q, IsRing(d, f, s, q),
         NEW i \in 1..Len(q), d[q[i]].right # s
  PROVE  i + 1 \in 1..Len(q) /\ d[q[i]].right = q[i + 1]
<1>1. Len(q) \in Nat
      BY RingTypes
<1>2. InRing(d, f, s, q, i)
      BY DEF IsRing
<1>3. i # Len(q)
      BY <1>2 DEF InRing
<1> QED BY <1>1, <1>2, <1>3 DEF InRing

(* A slot that is not empty has a ring; so has one with a key.             *)
LEMMA SlotHasRing ==
  ASSUME NEW w \in Workers, Locked, Formed, pc[w] # "idle", Whole(Here(w), File(w)),
         ~IsEmptySlot(Here(w), Slot(w)) \/ Here(w)[Slot(w)].key # NoKey
  PROVE  \E q : IsRing(Here(w), File(w), Slot(w), q)
<1>1. Slot(w) \in 1..TableLen /\ Slot(w) \in DOMAIN Here(w)
      BY StepFacts DEF Whole
<1>2. ProperEntry(Here(w)[Slot(w)], Len(Here(w)))
      BY <1>1, EntryHere
<1>3. ~IsEmptySlot(Here(w), Slot(w))
      BY <1>2 DEF ProperEntry, IsEmptySlot
<1> QED BY <1>1, <1>3 DEF Whole, SlotWhole

(* The walk only reads: it stays in the ring, and never goes astray.       *)
LEMMA WalkLeaves ==
  ASSUME NEW w \in Workers, Locked, Formed, WalkOn(w) \/ WalkAstray(w) \/ WalkBlind(w),
         UnderwayHere(w)
  PROVE  Leaves(w)
<1> DEFINE d == Here(w)
           s == Slot(w)
           f == File(w)
<1>1. pc[w] # "idle" /\ pc[w] \in {"head", "walk"}
      BY DEF WalkOn, WalkAstray, WalkBlind, AtEntry
<1>2. UNCHANGED disk
      BY DEF WalkOn, WalkAstray, WalkBlind, fileVars, vars
<1>3. /\ d \in Seq(Entry) /\ disk'[f] = d /\ s \in 1..TableLen /\ SlotOf[call[w].key] = s
      /\ loc[w] \in Locals /\ s \in DOMAIN d
      /\ Whole(d, f)
      BY <1>1, <1>2, StepFacts DEF UnderwayHere, Underway, Whole
<1>4. pc[w] = "head" => loc[w].at = s
      BY <1>1, BusyFits DEF Fits, Slot
<1>5. CASE WalkAstray(w)
      <2>1. pc'[w] = pc[w] /\ loc'[w] = loc[w]
            BY <1>5 DEF WalkAstray, vars
      <2> QED BY <1>1, <1>3, <2>1 DEF Leaves, UnderwayHere
<1>6. ~WalkBlind(w)
      BY <1>3, <1>4 DEF WalkBlind, AtEntry
<1>7. CASE WalkOn(w)
      <2> DEFINE e == d[loc[w].at]
      <2>1. /\ pc'[w] = "walk"
            /\ loc'[w].at = e.right
            /\ loc'[w].prev = IF pc[w] = "head" THEN e.left ELSE loc[w].at
            BY <1>1, <1>3, <1>7, StepFacts DEF WalkOn, Formed, TypeOK, Locals
      <2>2. e.key # call[w].key /\ AtEntry(w) /\ ~NotFound(w)
            BY <1>7 DEF WalkOn, Found
      <2>3. CASE pc[w] = "head"
            <3>1. ~IsEmptySlot(d, s)
                  BY <2>2, <2>3 DEF NotFound, is_file_entry_empty, IsEmptySlot
            <3>2. PICK q : IsRing(d, f, s, q)
                  BY <1>1, <1>3, <3>1, SlotHasRing
            <3>3. 1 \in 1..Len(q) /\ q[1] = s
                  BY <1>3, <3>2, RingTypes
            <3>4. /\ loc'[w].at = d[q[1]].right /\ loc'[w].prev = d[s].left
                  /\ \A j \in 1..1 : d[q[j]].key # call[w].key
                  BY <1>4, <2>1, <2>2, <2>3, <3>3
            <3> HIDE DEF d, s, f
            <3>5. Walking(call[w], loc'[w], d, f)
                  BY <1>3, <3>2, <3>3, <3>4 DEF Walking
            <3> QED BY <1>3, <2>1, <3>5 DEF Leaves, Underway, f
      <2>4. CASE pc[w] = "walk"
            <3>1. loc[w].at # s
                  BY <2>2, <2>4 DEF AtEntry
            <3>2. Walking(call[w], loc[w], d, f)
                  BY <2>4 DEF UnderwayHere, Underway
            <3>3. PICK q : /\ IsRing(d, f, s, q)
                           /\ \E i \in 1..Len(q) :
                                /\ loc[w].at = d[q[i]].right
                                /\ \A j \in 1..i : d[q[j]].key # call[w].key
                  BY <1>3, <3>2 DEF Walking
            <3>4. PICK i \in 1..Len(q) : /\ loc[w].at = d[q[i]].right
                                         /\ \A j \in 1..i : d[q[j]].key # call[w].key
                  BY <3>3
            <3>5. i + 1 \in 1..Len(q) /\ loc[w].at = q[i + 1] /\ i + 1 # 1
                  BY <1>3, <3>1, <3>3, <3>4, WalkIsAtNext
            <3>6. \A j \in 1..(i + 1) : d[q[j]].key # call[w].key
                  BY <2>2, <3>4, <3>5
            <3>7. loc'[w].at = d[q[i + 1]].right /\ loc'[w].prev = q[i + 1]
                  BY <2>1, <2>4, <3>5
            <3> HIDE DEF d, s, f
            <3>8. Walking(call[w], loc'[w], d, f)
                  BY <1>3, <3>3, <3>5, <3>6, <3>7 DEF Walking
            <3> QED BY <1>3, <2>1, <3>8 DEF Leaves, Underway, f
      <2> QED BY <1>1, <2>3, <2>4
<1> QED BY <1>5, <1>6, <1>7

(* What an updating walk that has found its key stands at. *)
LEMMA FoundInRing ==
  ASSUME NEW w \in Workers, Locked, Formed, Found(w), UnderwayHere(w)
  PROVE  \E q : /\ IsRing(Here(w), File(w), Slot(w), q)
                /\ \E i \in 1..Len(q) : /\ loc[w].at = q[i]
                                        /\ pc[w] = "head" <=> i = 1
<1> DEFINE d == Here(w)
           s == Slot(w)
           f == File(w)
<1>1. pc[w] # "idle" /\ pc[w] \in {"head", "walk"} /\ d[loc[w].at].key = call[w].key /\ AtEntry(w)
      BY DEF Found, AtEntry
<1>2. /\ d \in Seq(Entry) /\ SlotOf[call[w].key] = s /\ call[w].key \in Keys
      /\ Whole(d, f)
      BY <1>1, StepFacts DEF UnderwayHere, Underway
<1>3. CASE pc[w] = "head"
      <2>1. loc[w].at = s
            BY <1>1, <1>3, BusyFits DEF Fits, Slot
      <2>2. d[s].key # NoKey
            BY <1>1, <1>2, <2>1, StoreAssumption
      <2>3. PICK q : IsRing(d, f, s, q)
            BY <1>1, <1>2, <2>2, SlotHasRing
      <2>4. 1 \in 1..Len(q) /\ q[1] = s
            BY <1>2, <2>3, RingTypes
      <2> QED BY <1>3, <2>1, <2>3, <2>4
<1>4. CASE pc[w] = "walk"
      <2>1. loc[w].at # s
            BY <1>1, <1>4 DEF AtEntry
      <2>2. Walking(call[w], loc[w], d, f)
            BY <1>4 DEF UnderwayHere, Underway
      <2>3. PICK q : /\ IsRing(d, f, s, q)
                     /\ \E i \in 1..Len(q) : loc[w].at = d[q[i]].right
            BY <1>2, <2>2 DEF Walking
      <2>4. PICK i \in 1..Len(q) : loc[w].at = d[q[i]].right
            BY <2>3
      <2>5. i + 1 \in 1..Len(q) /\ loc[w].at = q[i + 1] /\ i + 1 # 1
            BY <1>2, <2>1, <2>3, <2>4, WalkIsAtNext
      <2> QED BY <1>4, <2>3, <2>5
<1> QED BY <1>1, <1>3, <1>4

(* And one that is back at its slot without. *)
LEMMA HomeWithout ==
  ASSUME NEW w \in Workers, Locked, Formed, pc[w] = "walk", NotFound(w), UnderwayHere(w)
  PROVE  \E q : /\ IsRing(Here(w), File(w), Slot(w), q)
                /\ loc[w].prev = q[Len(q)]
                /\ \A i \in 1..Len(q) : Here(w)[q[i]].key # call[w].key
<1> DEFINE d == Here(w)
           s == Slot(w)
           f == File(w)
<1>1. pc[w] # "idle" /\ loc[w].at = s
      BY DEF NotFound
<1>2. d \in Seq(Entry) /\ SlotOf[call[w].key] = s
      BY <1>1, StepFacts
<1>3. Walking(call[w], loc[w], d, f)
      BY DEF UnderwayHere, Underway
<1>4. PICK q : /\ IsRing(d, f, s, q)
               /\ \E i \in 1..Len(q) : /\ s = d[q[i]].right
                                       /\ loc[w].prev = IF i = 1 THEN d[s].left ELSE q[i]
                                       /\ \A j \in 1..i : d[q[j]].key # call[w].key
      BY <1>1, <1>2, <1>3 DEF Walking
<1>5. PICK i \in 1..Len(q) : /\ s = d[q[i]].right
                             /\ loc[w].prev = IF i = 1 THEN d[s].left ELSE q[i]
                             /\ \A j \in 1..i : d[q[j]].key # call[w].key
      BY <1>4
<1>6. i = Len(q)
      BY <1>2, <1>4, <1>5, WalkIsHome
<1>7. i = 1 => d[s].left = s /\ q[1] = s
      BY <1>4, <1>6 DEF IsRing
<1> QED BY <1>4, <1>5, <1>6, <1>7

(* A found entry keeps its links, an empty slot gets a ring of one, and a  *)
(* new entry at the end is in no ring yet.                                 *)
LEMMA WriteLeaves ==
  ASSUME NEW w \in Workers, Locked, Formed,
         WriteFound(w) \/ WriteFirst(w) \/ WriteAppend(w) \/ WriteNothing(w),
         UnderwayHere(w)
  PROVE  Leaves(w)
<1> DEFINE d == Here(w)
           s == Slot(w)
           f == File(w)
<1>1. pc[w] # "idle" /\ pc[w] \in {"head", "walk"}
      BY DEF WriteFound, WriteFirst, WriteAppend, WriteNothing, Found, AtEntry, NotFound
<1>2. /\ d \in Seq(Entry) /\ Len(d) \in Nat /\ DOMAIN d = 1..Len(d)
      /\ s \in 1..TableLen /\ SlotOf[call[w].key] = s /\ s \in 1..Len(d)
      /\ call[w].key \in Keys /\ FileOf[call[w].key] = f
      /\ call[w].value \in MaybeValue /\ TableLen \in Nat
      /\ loc[w] \in Locals
      /\ Whole(d, f)
      BY <1>1, StepFacts DEF UnderwayHere, Underway, Whole
<1>3. ASSUME NEW l \in Nat, NEW r \in Nat
      PROVE  /\ EntryFor(w, l, r) \in Entry
             /\ EntryFor(w, l, r).left = l /\ EntryFor(w, l, r).right = r
             /\ EntryFor(w, l, r).key = call[w].key
      BY <1>2 DEF EntryFor, Entry
<1>4. CASE WriteFound(w)
      <2> DEFINE e == [d[loc[w].at] EXCEPT !.value = call[w].value]
                 x == [d EXCEPT ![loc[w].at] = e]
      <2>1. pc'[w] = "idle" /\ disk'[f] = x
            <3>1. Write(w, loc[w].at, e) /\ ReturnExclusive(w, TRUE)
                  BY <1>4 DEF WriteFound
            <3>2. pc'[w] = "idle"
                  BY <3>1, Returned
            <3> HIDE DEF e
            <3>3. disk'[f] = x
                  BY <1>1, <3>1, Written
            <3> QED BY <3>2, <3>3
      <2>2. loc[w].at \in 1..Len(d) /\ d[loc[w].at] \in Entry
            BY <1>2, <1>4 DEF WriteFound, Found, AtEntry
      <2>3. /\ e \in Entry /\ e.left = d[loc[w].at].left /\ e.right = d[loc[w].at].right
            /\ e.key = d[loc[w].at].key
            BY <1>2, <2>2 DEF Entry
      <2> HIDE DEF e, d
      <2>4. /\ x \in Seq(Entry) /\ Len(x) = Len(d) /\ x[loc[w].at] = e
            /\ \A j \in 1..Len(d) : j # loc[w].at => x[j] = d[j]
            BY <1>2, <2>2, <2>3, EntryWritten
      <2> HIDE DEF x
      <2>5. \A j \in 1..Len(d) : x[j].left = d[j].left /\ x[j].right = d[j].right /\ x[j].key = d[j].key
            BY <2>3, <2>4
      <2>6. Whole(x, f)
            BY <1>2, <2>4, <2>5, SameLinksWhole
      <2> QED BY <2>1, <2>6 DEF Leaves
<1>5. CASE WriteFirst(w)
      <2> DEFINE e == EntryFor(w, s, s)
                 x == [d EXCEPT ![s] = e]
      <2>1. pc'[w] = "idle" /\ disk'[f] = x
            <3>1. Write(w, s, e) /\ ReturnExclusive(w, TRUE)
                  BY <1>5 DEF WriteFirst
            <3>2. pc'[w] = "idle"
                  BY <3>1, Returned
            <3> HIDE DEF e
            <3>3. disk'[f] = x
                  BY <1>1, <3>1, Written
            <3> QED BY <3>1, <3>2, <3>3
      <2>2. e \in Entry /\ e.left = s /\ e.right = s /\ e.key = call[w].key
            BY <1>2, <1>3
      <2> HIDE DEF e, d
      <2>3. /\ x \in Seq(Entry) /\ Len(x) = Len(d) /\ x[s] = e
            /\ \A j \in 1..Len(d) : j # s => x[j] = d[j]
            BY <1>2, <2>2, EntryWritten
      <2> HIDE DEF x
      <2>4. Whole(x, f)
            BY <1>2, <2>2, <2>3, FirstWhole
      <2> QED BY <2>1, <2>4 DEF Leaves
<1>6. CASE WriteNothing(w)
      BY <1>2, <1>6 DEF WriteNothing
<1>7. CASE WriteAppend(w)
      <2> DEFINE e == EntryFor(w, loc[w].prev, s)
                 x == Append(d, e)
                 n == Len(d) + 1
      <2>1. pc[w] = "walk" /\ NotFound(w) /\ pc'[w] = "link" /\ disk'[f] = x /\ loc'[w] = loc[w]
            BY <1>1, <1>7, StepFacts DEF WriteAppend, Here
      <2>2. PICK q : /\ IsRing(d, f, s, q)
                     /\ loc[w].prev = q[Len(q)]
                     /\ \A i \in 1..Len(q) : d[q[i]].key # call[w].key
            BY <2>1, HomeWithout
      <2>3. /\ e \in Entry /\ e.left = loc[w].prev /\ e.right = s /\ e.key = call[w].key
            BY <1>2, <1>3 DEF Locals
      <2> HIDE DEF e, d
      <2>4. /\ x \in Seq(Entry) /\ Len(x) = n /\ x[n] = e
            /\ \A i \in 1..Len(d) : x[i] = d[i]
            BY <1>2, <2>3, AppendProperties
      <2>5. Whole(x, f)
            BY <1>2, <2>3, AppendedWhole
      <2> HIDE DEF x
      <2>6. \A i \in 1..Len(q) : q[i] \in 1..Len(d)
            BY <1>2, <2>2, RingTypes
      <2>7. Len(x) >= Len(d) /\ Len(x) > TableLen
            BY <1>2, <2>4 DEF Whole
      <2>8. IsRing(x, f, s, q)
            BY <1>2, <2>2, <2>4, <2>6, <2>7, SameRing
      <2>9. \A i \in 1..Len(q) : x[q[i]].key # call[w].key
            BY <2>2, <2>4, <2>6
      <2>10. Linking(call[w], loc[w], x, f)
            BY <1>2, <2>2, <2>3, <2>4, <2>7, <2>8, <2>9 DEF Linking
      <2> QED BY <2>1, <2>5, <2>10 DEF Leaves, Underway
<1> QED BY <1>4, <1>5, <1>6, <1>7

(* The links of write_to_db put the new entry behind the last of the ring. *)
LEMMA LinkLeaves ==
  ASSUME NEW w \in Workers, Locked, Formed, LinkBoth(w) \/ LinkRight(w) \/ LinkLeft(w),
         UnderwayHere(w)
  PROVE  Leaves(w)
<1> DEFINE d == Here(w)
           s == Slot(w)
           f == File(w)
           n == Len(d)
           p == loc[w].prev
<1>1. pc[w] # "idle" /\ pc[w] \in {"link", "linkleft"}
      BY DEF LinkBoth, LinkRight, LinkLeft
<1>2. /\ d \in Seq(Entry) /\ n \in Nat /\ DOMAIN d = 1..n
      /\ s \in 1..TableLen /\ SlotOf[call[w].key] = s /\ s \in 1..n
      /\ call[w].key \in Keys /\ FileOf[call[w].key] = f
      /\ TableLen \in Nat
      /\ Whole(d, f)
      BY <1>1, StepFacts DEF UnderwayHere, Underway, Whole
<1>3. ASSUME pc[w] = "link"
      PROVE  \E q : /\ IsRing(d, f, s, q)
                    /\ p = q[Len(q)]
                    /\ \A i \in 1..Len(q) : d[q[i]].key # call[w].key
      BY <1>2, <1>3 DEF UnderwayHere, Underway, Linking
<1>4. ASSUME pc[w] = "link"
      PROVE  n > TableLen /\ d[n].left = p /\ d[n].right = s /\ d[n].key = call[w].key
      BY <1>2, <1>4 DEF UnderwayHere, Underway, Linking
<1>5. ASSUME NEW i \in 1..n, NEW e, e \in {[d[i] EXCEPT !.left = n, !.right = n],
                                           [d[i] EXCEPT !.left = n], [d[i] EXCEPT !.right = n]}
      PROVE  /\ e \in Entry /\ e.key = d[i].key
             /\ e = [d[i] EXCEPT !.left = n, !.right = n] => e.left = n /\ e.right = n
             /\ e = [d[i] EXCEPT !.left = n] => e.left = n /\ e.right = d[i].right
             /\ e = [d[i] EXCEPT !.right = n] => e.left = d[i].left /\ e.right = n
      <2>1. d[i] \in Entry
            BY <1>2
      <2> HIDE DEF d, n
      <2> QED BY <1>2, <1>5, <2>1 DEF Entry
<1>6. CASE LinkBoth(w)
      <2> DEFINE e == [d[s] EXCEPT !.left = n, !.right = n]
                 x == [d EXCEPT ![s] = e]
      <2>1. pc[w] = "link" /\ p = s /\ pc'[w] = "idle" /\ disk'[f] = x
            <3>1. Write(w, s, e) /\ ReturnExclusive(w, TRUE) /\ pc[w] = "link" /\ p = s
                  BY <1>6 DEF LinkBoth
            <3>2. pc'[w] = "idle"
                  BY <3>1, Returned
            <3> HIDE DEF e
            <3>3. disk'[f] = x
                  BY <1>1, <3>1, Written
            <3> QED BY <3>1, <3>2, <3>3
      <2>2. e \in Entry /\ e.key = d[s].key /\ e.left = n /\ e.right = n
            BY <1>2, <1>5
      <2> HIDE DEF e
      <2>3. /\ x \in Seq(Entry) /\ Len(x) = n /\ x[s] = e
            /\ \A j \in 1..n : j # s => x[j] = d[j]
            BY <1>2, <2>2, EntryWritten
      <2> HIDE DEF x
      <2>4. PICK q : /\ IsRing(d, f, s, q)
                     /\ p = q[Len(q)]
                     /\ \A i \in 1..Len(q) : d[q[i]].key # call[w].key
            BY <1>3, <2>1
      <2>5. Len(q) = 1
            <3>1. Len(q) \in 1..Len(q) /\ 1 \in 1..Len(q) /\ q[1] = s
                  BY <1>2, <2>4, RingTypes
            <3>2. q[Len(q)] = q[1]
                  BY <2>1, <2>4, <3>1
            <3>3. d \in Seq(Entry) /\ IsRing(d, f, s, q)
                  BY <1>2, <2>4
            <3> HIDE DEF d, f, s
            <3> QED BY <3>1, <3>2, <3>3, PlacesDiffer
      <2>6. n \in 1..n
            BY <1>2
      <2> HIDE DEF d, n, p, s, f
      <2>7. Whole(x, f)
            <3>1. /\ d[n].left = q[Len(q)] /\ d[n].right = s /\ n > TableLen
                  /\ d[n].key \in Keys /\ FileOf[d[n].key] = f /\ SlotOf[d[n].key] = s
                  /\ \A i \in 1..Len(q) : d[q[i]].key # d[n].key
                  BY <1>2, <1>4, <2>1, <2>4
            <3>2. /\ \A j \in 1..n : j # q[Len(q)] => x[j] = d[j]
                  /\ x[q[Len(q)]].right = n /\ x[q[Len(q)]].key = d[q[Len(q)]].key
                  /\ Len(q) > 1 => x[q[Len(q)]].left = d[q[Len(q)]].left
                  /\ Len(q) = 1 => x[s].left = n
                  BY <2>1, <2>2, <2>3, <2>4, <2>5
            <3>3. /\ d \in Seq(Entry) /\ x \in Seq(Entry) /\ s \in 1..TableLen /\ Whole(d, f)
                  /\ Len(x) = Len(d) /\ IsRing(d, f, s, q) /\ n \in 1..Len(d) /\ n = Len(d)
                  BY <1>2, <2>3, <2>4, <2>6 DEF n
            <3>4. Whole(x, f) /\ IsRing(x, f, s, Append(q, n)) /\ OnlyRing(d, x, s)
                  BY <3>1, <3>2, <3>3, LinkedWhole
            <3> QED BY <3>4
      <2> QED BY <2>1, <2>7 DEF Leaves, f
<1>7. CASE LinkRight(w)
      <2> DEFINE e == [d[p] EXCEPT !.right = n]
                 x == [d EXCEPT ![p] = e]
      <2>1. pc[w] = "link" /\ p # s /\ pc'[w] = "linkleft" /\ disk'[f] = x
            <3>1. Write(w, p, e) /\ Goto(w, "linkleft") /\ pc[w] = "link" /\ p # s
                  BY <1>7 DEF LinkRight
            <3>2. pc'[w] = "linkleft"
                  BY <1>1, <3>1, StepFacts
            <3> HIDE DEF e
            <3>3. disk'[f] = x
                  BY <1>1, <3>1, Written
            <3> QED BY <3>1, <3>2, <3>3
      <2>2. PICK q : /\ IsRing(d, f, s, q)
                     /\ p = q[Len(q)]
                     /\ \A i \in 1..Len(q) : d[q[i]].key # call[w].key
            BY <1>3, <2>1
      <2>3. Len(q) \in Nat /\ Len(q) >= 1 /\ q[1] = s /\ p \in 1..n /\ q \in Seq(1..n)
            <3>1. /\ Len(q) \in Nat /\ Len(q) >= 1 /\ q[1] = s /\ q \in Seq(1..n)
                  /\ \A i \in 1..Len(q) : q[i] \in 1..n
                  BY <1>2, <2>2, RingTypes
            <3>2. Len(q) \in 1..Len(q)
                  BY <3>1
            <3> QED BY <2>2, <3>1, <3>2
      <2>4. Len(q) # 1
            BY <2>1, <2>2, <2>3
      <2>5. e \in Entry /\ e.key = d[p].key /\ e.left = d[p].left /\ e.right = n
            BY <1>5, <2>3
      <2> HIDE DEF e
      <2>6. /\ x \in Seq(Entry) /\ Len(x) = n /\ x[p] = e
            /\ \A j \in 1..n : j # p => x[j] = d[j]
            BY <1>2, <2>3, <2>5, EntryWritten
      <2> HIDE DEF x
      <2>7. n \in 1..n
            BY <1>2
      <2> HIDE DEF d, n, p, s, f
      <2>8. Whole(x, f) /\ IsRing(x, f, s, Append(q, n))
            <3>1. /\ d[n].left = q[Len(q)] /\ d[n].right = s /\ n > TableLen
                  /\ d[n].key \in Keys /\ FileOf[d[n].key] = f /\ SlotOf[d[n].key] = s
                  /\ \A i \in 1..Len(q) : d[q[i]].key # d[n].key
                  BY <1>2, <1>4, <2>1, <2>2
            <3>2. /\ \A j \in 1..n : j # q[Len(q)] => x[j] = d[j]
                  /\ x[q[Len(q)]].right = n /\ x[q[Len(q)]].key = d[q[Len(q)]].key
                  /\ Len(q) > 1 => x[q[Len(q)]].left = d[q[Len(q)]].left
                  /\ Len(q) = 1 => x[s].left = n
                  BY <2>2, <2>4, <2>5, <2>6
            <3>3. /\ d \in Seq(Entry) /\ x \in Seq(Entry) /\ s \in 1..TableLen /\ Whole(d, f)
                  /\ Len(x) = Len(d) /\ IsRing(d, f, s, q) /\ n \in 1..Len(d) /\ n = Len(d)
                  BY <1>2, <2>2, <2>6, <2>7 DEF n
            <3> QED BY <3>1, <3>2, <3>3, LinkedWhole
      <2>9. Len(Append(q, n)) >= 2
            <3>1. Len(Append(q, n)) = Len(q) + 1
                  BY <2>3, AppendProperties
            <3> QED BY <2>3, <3>1
      <2> QED BY <1>2, <2>1, <2>8, <2>9 DEF Leaves, Underway, f
<1>8. CASE LinkLeft(w)
      <2> DEFINE e == [d[s] EXCEPT !.left = n]
                 x == [d EXCEPT ![s] = e]
      <2>1. pc[w] = "linkleft" /\ pc'[w] = "idle" /\ (disk'[f] = x \/ disk'[f] = d)
            <3>1. (Write(w, s, e) \/ UNCHANGED disk) /\ ReturnExclusive(w, TRUE) /\ pc[w] = "linkleft"
                  BY <1>8 DEF LinkLeft, ThenWrite
            <3>2. pc'[w] = "idle"
                  BY <3>1, Returned
            <3> HIDE DEF e
            <3>3. ASSUME Write(w, s, e) PROVE disk'[f] = x
                  BY <1>1, <3>3, Written
            <3>4. ASSUME UNCHANGED disk PROVE disk'[f] = d
                  BY <1>1, <3>4, StepFacts
            <3> QED BY <3>1, <3>2, <3>3, <3>4
      <2>2. PICK q : IsRing(d, f, s, q) /\ Len(q) >= 2
            BY <1>2, <2>1 DEF UnderwayHere, Underway
      <2>3. e \in Entry /\ e.key = d[s].key /\ e.right = d[s].right
            BY <1>2, <1>5
      <2> HIDE DEF e
      <2>4. /\ x \in Seq(Entry) /\ Len(x) = n /\ x[s] = e
            /\ \A j \in 1..n : j # s => x[j] = d[j]
            BY <1>2, <2>3, EntryWritten
      <2> HIDE DEF x
      <2> HIDE DEF d, s, f
      <2>5. Whole(x, f)
            BY <1>2, <2>2, <2>3, <2>4, SlotLeftWhole DEF d
      <2> QED BY <1>2, <2>1, <2>5 DEF Leaves, f
<1> QED BY <1>6, <1>7, <1>8

(* The neighbours of an entry behind the slot, and the slot, are other     *)
(* entries of the ring.                                                    *)
LEMMA Neighbours ==
  ASSUME NEW d \in Seq(Entry), NEW f, NEW s, NEW q, IsRing(d, f, s, q), NEW i \in 2..Len(q)
  PROVE  /\ q[i] \in 1..Len(d) /\ s \in 1..Len(d) /\ q[i] # s
         /\ d[q[i]].right \in 1..Len(d) /\ d[q[i]].right # q[i]
         /\ d[q[i]].left \in 1..Len(d) /\ d[q[i]].left # q[i]
<1>1. /\ Len(q) \in Nat /\ q[1] = s /\ s \in 1..Len(d)
      /\ \A j \in 1..Len(q) : q[j] \in 1..Len(d)
      BY RingTypes
<1>2. i \in 1..Len(q) /\ i > 1 /\ i - 1 \in 1..Len(q) /\ 1 \in 1..Len(q) /\ i # 1 /\ i - 1 # i
      BY <1>1
<1>3. InRing(d, f, s, q, i)
      BY <1>2 DEF IsRing
<1>4. i # Len(q) => i + 1 \in 1..Len(q) /\ i + 1 # i
      BY <1>1
<1>5. q[i] # q[1] /\ q[i - 1] # q[i] /\ (i # Len(q) => q[i + 1] # q[i])
      BY <1>2, <1>4, PlacesDiffer
<1> QED BY <1>1, <1>2, <1>3, <1>4, <1>5 DEF InRing

(* What taking out the first entry of a ring comes to. *)
LEMMA MovedUp ==
  ASSUME NEW d \in Seq(Entry), NEW f, NEW s \in 1..TableLen,
         Whole(d, f), NEW q, IsRing(d, f, s, q), Len(q) >= 2
  PROVE  /\ Copied(d, s, q[2]) \in Seq(Entry) /\ Len(Copied(d, s, q[2])) = Len(d)
         /\ Whole(Copied(d, s, q[2]), f)
         /\ IsRing(Copied(d, s, q[2]), f, s, LeftOut(q, 2))
         /\ OnlyRing(d, Copied(d, s, q[2]), s)
         /\ HeadIsOut(d, Copied(d, s, q[2]), s, q, d[q[2]].right)
<1> DEFINE x == Copied(d, s, q[2])
           y == ThirdLinked(d, s, q[2])
           i == q[2]
           r == d[q[2]].right
           c == Cleared(d, q[2])
           e1 == [c[r] EXCEPT !.left = s]
           e2 == [d[i] EXCEPT !.left = y[s].left]
<1>1. /\ i \in 1..Len(d) /\ s \in 1..Len(d) /\ i # s
      /\ r \in 1..Len(d) /\ r # i
      <2>1. 2 \in 2..Len(q)
            BY RingTypes
      <2> QED BY <2>1, Neighbours
<1>2. /\ c \in Seq(Entry) /\ Len(c) = Len(d) /\ c[i] = Blank
      /\ \A j \in 1..Len(d) : j # i => c[j] = d[j]
      BY <1>1, NoLocalsOK, EntryWritten DEF Cleared
<1>3. y = [c EXCEPT ![r] = e1]
      BY DEF ThirdLinked
<1> HIDE DEF i, r, c, y
<1>4. c[r] \in Entry /\ d[i] \in Entry /\ s \in Nat
      BY <1>1, <1>2
<1>5. /\ e1 \in Entry /\ e1.left = s /\ e1.right = c[r].right /\ e1.key = c[r].key
      /\ e1.value = c[r].value
      BY <1>4 DEF Entry
<1> HIDE DEF e1
<1>6. /\ y \in Seq(Entry) /\ Len(y) = Len(d) /\ y[r] = e1
      /\ \A j \in 1..Len(d) : j # r => y[j] = c[j]
      BY <1>1, <1>2, <1>3, <1>5, EntryWritten
<1>7. y[s] \in Entry
      BY <1>1, <1>6
<1>8. /\ e2 \in Entry /\ e2.left = y[s].left /\ e2.right = d[i].right /\ e2.key = d[i].key
      /\ e2.value = d[i].value
      BY <1>4, <1>7 DEF Entry
<1>9. x = [y EXCEPT ![s] = e2]
      BY DEF i, y, Copied
<1> HIDE DEF e2, x
<1>10. /\ x \in Seq(Entry) /\ Len(x) = Len(d) /\ x[s] = e2
       /\ \A j \in 1..Len(d) : j # s => x[j] = y[j]
      BY <1>1, <1>6, <1>8, <1>9, EntryWritten
<1>11. \A j \in 1..Len(d) : j \notin {q[2], r, s} => x[j] = d[j]
      BY <1>2, <1>6, <1>10 DEF i
<1>12. r # s => /\ x[r].key = d[r].key /\ x[r].value = d[r].value
                /\ x[r].right = d[r].right /\ x[r].left = s
      BY <1>1, <1>2, <1>5, <1>6, <1>10
<1>13. r = s => x[s].left = s
      BY <1>5, <1>6, <1>8, <1>10
<1>14. /\ x[s].key = d[q[2]].key /\ x[s].value = d[q[2]].value
       /\ x[s].right = r /\ r = d[q[2]].right
      BY <1>8, <1>10 DEF i, r
<1>15. x \in Seq(Entry) /\ Len(x) = Len(d)
       BY <1>10
<1>16. HeadIsOut(d, x, s, q, r)
       BY <1>11, <1>12, <1>13, <1>14 DEF HeadIsOut
<1>17. Whole(x, f) /\ IsRing(x, f, s, LeftOut(q, 2)) /\ OnlyRing(d, x, s)
       BY <1>15, <1>16, HeadOutWhole
<1> QED BY <1>14, <1>15, <1>16, <1>17 DEF x

(* And taking out an entry behind the slot. *)
LEMMA TakenOut ==
  ASSUME NEW d \in Seq(Entry), NEW f, NEW s \in 1..TableLen,
         Whole(d, f), NEW q, IsRing(d, f, s, q), NEW p \in 2..Len(q)
  PROVE  /\ LeftUnlinked(d, q[p]) \in Seq(Entry) /\ Len(LeftUnlinked(d, q[p])) = Len(d)
         /\ Whole(LeftUnlinked(d, q[p]), f)
         /\ IsRing(LeftUnlinked(d, q[p]), f, s, LeftOut(q, p))
         /\ OnlyRing(d, LeftUnlinked(d, q[p]), s)
         /\ EntryIsOut(d, LeftUnlinked(d, q[p]), q, p, d[q[p]].left, d[q[p]].right)
<1> DEFINE x == LeftUnlinked(d, q[p])
           y == RightUnlinked(d, q[p])
           l == d[q[p]].left
           r == d[q[p]].right
           i == q[p]
           c == Cleared(d, q[p])
           e1 == [c[l] EXCEPT !.right = r]
           e2 == [y[r] EXCEPT !.left = l]
<1>1. /\ i \in 1..Len(d)
      /\ r \in 1..Len(d) /\ r # i
      /\ l \in 1..Len(d) /\ l # i
      BY Neighbours
<1>2. /\ c \in Seq(Entry) /\ Len(c) = Len(d) /\ c[i] = Blank
      /\ \A j \in 1..Len(d) : j # i => c[j] = d[j]
      BY <1>1, NoLocalsOK, EntryWritten DEF Cleared
<1>3. y = [c EXCEPT ![l] = e1]
      BY DEF RightUnlinked
<1> HIDE DEF i, c
<1>4. c[l] \in Entry /\ r \in Nat /\ l \in Nat
      BY <1>1, <1>2
<1>5. /\ e1 \in Entry /\ e1.left = c[l].left /\ e1.right = r /\ e1.key = c[l].key
      /\ e1.value = c[l].value
      BY <1>4 DEF Entry
<1> HIDE DEF e1
<1>6. /\ y \in Seq(Entry) /\ Len(y) = Len(d) /\ y[l] = e1
      /\ \A j \in 1..Len(d) : j # l => y[j] = c[j]
      BY <1>1, <1>2, <1>3, <1>5, EntryWritten
<1>7. y[r] \in Entry
      BY <1>1, <1>6
<1>8. /\ e2 \in Entry /\ e2.left = l /\ e2.right = y[r].right /\ e2.key = y[r].key
      /\ e2.value = y[r].value
      BY <1>4, <1>7 DEF Entry
<1>9. x = [y EXCEPT ![r] = e2]
      BY DEF LeftUnlinked
<1>0. l = d[q[p]].left /\ r = d[q[p]].right
      OBVIOUS
<1> HIDE DEF e2, x, y, l, r
<1>10. /\ x \in Seq(Entry) /\ Len(x) = Len(d) /\ x[r] = e2
       /\ \A j \in 1..Len(d) : j # r => x[j] = y[j]
      BY <1>1, <1>6, <1>8, <1>9, EntryWritten
<1>11. \A j \in 1..Len(d) : j \notin {q[p], l, r} => x[j] = d[j]
      BY <1>2, <1>6, <1>10 DEF i
<1>12. c[l] = d[l] /\ c[r] = d[r]
      BY <1>1, <1>2
<1>13. /\ x[l].key = d[l].key /\ x[r].key = d[r].key
       /\ x[l].value = d[l].value /\ x[r].value = d[r].value
       /\ x[l].right = r /\ x[r].left = l
      BY <1>1, <1>5, <1>6, <1>8, <1>10, <1>12
<1>14. l # r => x[l].left = d[l].left /\ x[r].right = d[r].right
      BY <1>1, <1>5, <1>6, <1>8, <1>10, <1>12
<1>15. x \in Seq(Entry) /\ Len(x) = Len(d)
       BY <1>10
<1>16. EntryIsOut(d, x, q, p, l, r)
       BY <1>0, <1>11, <1>13, <1>14 DEF EntryIsOut
<1>17. Whole(x, f) /\ IsRing(x, f, s, LeftOut(q, p)) /\ OnlyRing(d, x, s)
       BY <1>15, <1>16, EntryOutWhole
<1> QED BY <1>15, <1>16, <1>17 DEF x, l, r

(* A deletion that goes on has cleared an entry of a file that was whole.  *)
LEMMA DeleteLeaves ==
  ASSUME NEW w \in Workers, Locked, Formed,
         DeleteNone(w) \/ DeleteOnly(w) \/ DeleteHead(w) \/ DeleteEntry(w),
         UnderwayHere(w)
  PROVE  Leaves(w)
<1> DEFINE d == Here(w)
           s == Slot(w)
           f == File(w)
<1>1. pc[w] # "idle" /\ pc[w] \in {"head", "walk"}
      BY DEF DeleteNone, DeleteOnly, DeleteHead, DeleteEntry, NotFound
<1>2. /\ d \in Seq(Entry) /\ s \in 1..TableLen /\ SlotOf[call[w].key] = s /\ s \in 1..Len(d)
      /\ Whole(d, f)
      BY <1>1, StepFacts DEF UnderwayHere, Underway, Whole
<1>3. CASE DeleteNone(w)
      <2>1. pc'[w] = "idle"
            BY <1>3, Returned DEF DeleteNone
      <2>2. disk'[f] = d
            BY <1>1, <1>3, StepFacts DEF DeleteNone, fileVars
      <2> QED BY <1>2, <2>1, <2>2 DEF Leaves
<1>4. CASE DeleteOnly(w)
      <2> DEFINE x == [d EXCEPT ![s] = Blank]
      <2>1. Write(w, s, Blank) /\ ReturnExclusive(w, TRUE)
            BY <1>4 DEF DeleteOnly
      <2>2. pc'[w] = "idle"
            BY <2>1, Returned
      <2>3. disk'[f] = x
            BY <1>1, <2>1, Written
      <2> HIDE DEF d
      <2>4. /\ x \in Seq(Entry) /\ Len(x) = Len(d) /\ x[s] = Blank
            /\ \A j \in 1..Len(d) : j # s => x[j] = d[j]
            BY <1>2, NoLocalsOK, EntryWritten
      <2> HIDE DEF x
      <2>5. Whole(x, f)
            BY <1>2, <2>4, OnlyOutWhole
      <2> QED BY <2>2, <2>3, <2>5 DEF Leaves
<1>5. CASE DeleteHead(w)
      <2> DEFINE second == d[s].right
                 x == [d EXCEPT ![second] = Blank]
      <2>1. /\ Write(w, second, Blank) /\ Goto(w, "third") /\ Found(w) /\ pc[w] = "head"
            /\ ~AloneInRing(w) /\ loc' = [loc EXCEPT ![w].hold = d[second]]
            BY <1>5 DEF DeleteHead
      <2>2. pc'[w] = "third"
            BY <1>1, <2>1, StepFacts
      <2>3. disk'[f] = x
            BY <1>1, <2>1, Written
      <2>4. loc'[w].hold = d[second]
            BY <2>1 DEF Formed, TypeOK
      <2>5. PICK q : IsRing(d, f, s, q)
            BY <2>1, FoundInRing
      <2>6. /\ Len(q) \in Nat /\ Len(q) >= 1 /\ q[1] = s /\ 1 \in 1..Len(q)
            BY <1>2, <2>5, RingTypes
      <2>7. InRing(d, f, s, q, 1) /\ (Len(q) = 1 => d[s].left = s)
            BY <2>5, <2>6 DEF IsRing
      <2>8. Len(q) # 1
            <3>1. Len(q) = 1 => d[s].right = s
                  BY <2>6, <2>7 DEF InRing
            <3> QED BY <2>1, <2>7, <3>1 DEF AloneInRing
      <2>9. second = q[2]
            BY <2>6, <2>7, <2>8 DEF InRing
      <2>10. Len(q) >= 2
            BY <2>6, <2>8
      <2>11. x = Cleared(d, q[2]) /\ loc'[w].hold = d[q[2]]
            BY <2>4, <2>9 DEF Cleared
      <2> HIDE DEF d, s, f, x
      <2>12. MovingUp("third", call[w], loc'[w], x, f)
            BY <1>2, <2>5, <2>10, <2>11 DEF MovingUp
      <2> QED BY <2>2, <2>3, <2>12 DEF Leaves, Underway, f
<1>6. CASE DeleteEntry(w)
      <2> DEFINE a == loc[w].at
                 x == [d EXCEPT ![a] = Blank]
      <2>1. /\ Write(w, a, Blank) /\ Goto(w, "unlinkright") /\ Found(w) /\ pc[w] = "walk"
            /\ loc' = [loc EXCEPT ![w].hold = d[a]]
            BY <1>6 DEF DeleteEntry
      <2>2. pc'[w] = "unlinkright"
            BY <1>1, <2>1, StepFacts
      <2>3. disk'[f] = x
            BY <1>1, <2>1, Written
      <2>4. loc'[w].hold = d[a]
            BY <2>1 DEF Formed, TypeOK
      <2>5. PICK q : IsRing(d, f, s, q) /\ \E i \in 1..Len(q) : a = q[i] /\ i # 1
            BY <2>1, FoundInRing
      <2>6. PICK i \in 1..Len(q) : a = q[i] /\ i # 1
            BY <2>5
      <2>7. i \in 2..Len(q)
            BY <2>6
      <2>8. x = Cleared(d, q[i]) /\ loc'[w].hold = d[q[i]]
            BY <2>4, <2>6 DEF Cleared
      <2> HIDE DEF d, s, f, x
      <2>9. TakingOut("unlinkright", call[w], loc'[w], x, f)
            BY <1>2, <2>5, <2>7, <2>8 DEF TakingOut
      <2> QED BY <2>2, <2>3, <2>9 DEF Leaves, Underway, f
<1> QED BY <1>3, <1>4, <1>5, <1>6

(* And links what is left to a ring without it.                            *)
LEMMA UnlinkLeaves ==
  ASSUME NEW w \in Workers, Locked, Formed,
         RelinkThird(w) \/ CopySecond(w) \/ UnlinkRight(w) \/ UnlinkLeft(w),
         UnderwayHere(w)
  PROVE  Leaves(w)
<1> DEFINE d == Here(w)
           s == Slot(w)
           f == File(w)
           h == loc[w].hold
<1>1. pc[w] # "idle" /\ pc[w] \in {"third", "copy", "unlinkright", "unlinkleft"}
      BY DEF RelinkThird, CopySecond, UnlinkRight, UnlinkLeft
<1>2. /\ d \in Seq(Entry) /\ s \in 1..TableLen /\ SlotOf[call[w].key] = s /\ DOMAIN d = 1..Len(d)
      BY <1>1, StepFacts
<1>3. ASSUME pc[w] \in {"third", "copy"}
      PROVE  \E d0 \in Seq(Entry) : \E q :
                /\ Whole(d0, f) /\ IsRing(d0, f, s, q) /\ Len(q) >= 2
                /\ h = d0[q[2]]
                /\ d = IF pc[w] = "third" THEN Cleared(d0, q[2]) ELSE ThirdLinked(d0, s, q[2])
      BY <1>2, <1>3 DEF UnderwayHere, Underway, MovingUp
<1>4. ASSUME pc[w] \in {"unlinkright", "unlinkleft"}
      PROVE  \E d0 \in Seq(Entry) : \E q : \E i \in 2..Len(q) :
                /\ Whole(d0, f) /\ IsRing(d0, f, s, q)
                /\ h = d0[q[i]]
                /\ d = IF pc[w] = "unlinkright" THEN Cleared(d0, q[i]) ELSE RightUnlinked(d0, q[i])
      BY <1>2, <1>4 DEF UnderwayHere, Underway, TakingOut
<1>5. CASE RelinkThird(w)
      <2> DEFINE e == [d[h.right] EXCEPT !.left = s]
                 x == [d EXCEPT ![h.right] = e]
      <2>1. pc[w] = "third"
            BY <1>5 DEF RelinkThird
      <2>2. PICK d0 \in Seq(Entry) : \E q :
                /\ Whole(d0, f) /\ IsRing(d0, f, s, q) /\ Len(q) >= 2
                /\ h = d0[q[2]] /\ d = Cleared(d0, q[2])
            BY <1>3, <2>1
      <2>3. PICK q : /\ Whole(d0, f) /\ IsRing(d0, f, s, q) /\ Len(q) >= 2
                     /\ h = d0[q[2]] /\ d = Cleared(d0, q[2])
            BY <2>2
      <2>4. h.right \in DOMAIN d
            <3>1. 2 \in 2..Len(q)
                  BY <2>3, RingTypes
            <3>2. h.right \in 1..Len(d0)
                  BY <2>3, <3>1, Neighbours
            <3>3. DOMAIN d = DOMAIN d0 /\ DOMAIN d0 = 1..Len(d0)
                  BY <2>3 DEF Cleared
            <3> QED BY <3>2, <3>3
      <2>5. Write(w, h.right, e) /\ Goto(w, "copy") /\ UNCHANGED loc
            BY <1>5, <2>4 DEF RelinkThird
      <2>6. pc'[w] = "copy" /\ loc'[w] = loc[w]
            BY <1>1, <2>5, StepFacts
      <2>7. disk'[f] = x
            <3> HIDE DEF e
            <3> QED BY <1>1, <2>5, Written
      <2>8. x = ThirdLinked(d0, s, q[2])
            <3> HIDE DEF d, s, h
            <3> QED BY <2>3 DEF ThirdLinked
      <2> HIDE DEF d, s, f, x
      <2>9. MovingUp("copy", call[w], loc[w], x, f)
            BY <1>2, <2>3, <2>8 DEF MovingUp
      <2> QED BY <2>6, <2>7, <2>9 DEF Leaves, Underway, f
<1>6. CASE CopySecond(w)
      <2> DEFINE e == [h EXCEPT !.left = d[s].left]
                 x == [d EXCEPT ![s] = e]
      <2>1. pc[w] = "copy" /\ Write(w, s, e) /\ ReturnExclusive(w, TRUE)
            BY <1>6 DEF CopySecond
      <2>2. PICK d0 \in Seq(Entry) : \E q :
                /\ Whole(d0, f) /\ IsRing(d0, f, s, q) /\ Len(q) >= 2
                /\ h = d0[q[2]] /\ d = ThirdLinked(d0, s, q[2])
            BY <1>3, <2>1
      <2>3. PICK q : /\ Whole(d0, f) /\ IsRing(d0, f, s, q) /\ Len(q) >= 2
                     /\ h = d0[q[2]] /\ d = ThirdLinked(d0, s, q[2])
            BY <2>2
      <2>4. pc'[w] = "idle"
            BY <2>1, Returned
      <2>5. disk'[f] = x
            <3> HIDE DEF e
            <3> QED BY <1>1, <2>1, Written
      <2>6. x = Copied(d0, s, q[2])
            BY <2>3 DEF Copied
      <2> HIDE DEF d, s, f, x, h
      <2>7. Whole(x, f)
            BY <1>2, <2>3, <2>6, MovedUp
      <2> QED BY <2>4, <2>5, <2>7 DEF Leaves, f
<1>7. CASE UnlinkRight(w)
      <2> DEFINE e == [d[h.left] EXCEPT !.right = h.right]
                 x == [d EXCEPT ![h.left] = e]
      <2>1. pc[w] = "unlinkright" /\ Write(w, h.left, e) /\ Goto(w, "unlinkleft") /\ UNCHANGED loc
            BY <1>7 DEF UnlinkRight
      <2>2. PICK d0 \in Seq(Entry) : \E q : \E i \in 2..Len(q) :
                /\ Whole(d0, f) /\ IsRing(d0, f, s, q)
                /\ h = d0[q[i]] /\ d = Cleared(d0, q[i])
            BY <1>4, <2>1
      <2>3. PICK q : \E i \in 2..Len(q) : /\ Whole(d0, f) /\ IsRing(d0, f, s, q)
                                          /\ h = d0[q[i]] /\ d = Cleared(d0, q[i])
            BY <2>2
      <2>4. PICK i \in 2..Len(q) : /\ Whole(d0, f) /\ IsRing(d0, f, s, q)
                                   /\ h = d0[q[i]] /\ d = Cleared(d0, q[i])
            BY <2>3
      <2>5. pc'[w] = "unlinkleft" /\ loc'[w] = loc[w]
            BY <1>1, <2>1, StepFacts
      <2>6. disk'[f] = x
            <3> HIDE DEF e
            <3> QED BY <1>1, <2>1, Written
      <2>7. x = RightUnlinked(d0, q[i])
            <3> HIDE DEF d, h
            <3> QED BY <2>4 DEF RightUnlinked
      <2> HIDE DEF d, s, f, x
      <2>8. TakingOut("unlinkleft", call[w], loc[w], x, f)
            BY <1>2, <2>4, <2>7 DEF TakingOut
      <2> QED BY <2>5, <2>6, <2>8 DEF Leaves, Underway, f
<1>8. CASE UnlinkLeft(w)
      <2> DEFINE e == [d[h.right] EXCEPT !.left = h.left]
                 x == [d EXCEPT ![h.right] = e]
      <2>1. pc[w] = "unlinkleft" /\ ThenWrite(w, h.left, h.right, e) /\ ReturnExclusive(w, TRUE)
            BY <1>8 DEF UnlinkLeft
      <2>2. PICK d0 \in Seq(Entry) : \E q : \E i \in 2..Len(q) :
                /\ Whole(d0, f) /\ IsRing(d0, f, s, q)
                /\ h = d0[q[i]] /\ d = RightUnlinked(d0, q[i])
            BY <1>4, <2>1
      <2>3. PICK q : \E i \in 2..Len(q) : /\ Whole(d0, f) /\ IsRing(d0, f, s, q)
                                          /\ h = d0[q[i]] /\ d = RightUnlinked(d0, q[i])
            BY <2>2
      <2>4. PICK i \in 2..Len(q) : /\ Whole(d0, f) /\ IsRing(d0, f, s, q)
                                   /\ h = d0[q[i]] /\ d = RightUnlinked(d0, q[i])
            BY <2>3
      <2>5. h.left \in 1..Len(d0)
            BY <2>4, Neighbours
      <2>6. h.left # MaxIdx
            BY <2>5 DEF MaxIdx
      <2>7. pc'[w] = "idle"
            BY <2>1, Returned
      <2>8. disk'[f] = x
            <3>1. Write(w, h.right, e)
                  BY <2>1, <2>6 DEF ThenWrite
            <3> HIDE DEF e
            <3> QED BY <1>1, <3>1, Written
      <2>9. x = LeftUnlinked(d0, q[i])
            <3> HIDE DEF d, h
            <3> QED BY <2>4 DEF LeftUnlinked
      <2> HIDE DEF d, s, f, x
      <2>10. Whole(x, f)
             BY <1>2, <2>4, <2>9, TakenOut
      <2> QED BY <2>7, <2>8, <2>10 DEF Leaves, f
<1> QED BY <1>5, <1>6, <1>7, <1>8

-----------------------------------------------------------------------------
(* Whose step it is. *)

(* What a call that has not opened its file can do, if it does not read. *)
LEMMA CallStarts ==
  ASSUME NEW w \in Workers, Step(w), pc[w] = "call", call[w].op # "GET"
  PROVE  UpdateOpen(w) \/ CreateBegin(w) \/ UpdateRefused(w) \/ DeleteNoFile(w)
<1>1. ~(WalkOn(w) \/ WalkAstray(w) \/ WalkBlind(w))
      BY DEF WalkOn, WalkAstray, WalkBlind, AtEntry
<1>2. ~Read(w)
      BY DEF Read, ReadOpen, ReadFound, ReadNone, Serves
<1>3. ~(SetBit(w) \/ Create(w) \/ CreateRefused(w) \/ Fill(w))
      BY DEF SetBit, Create, CreateRefused, Fill
<1>4. ~(WriteFound(w) \/ WriteFirst(w) \/ WriteAppend(w) \/ WriteNothing(w))
      BY DEF WriteFound, WriteFirst, WriteAppend, WriteNothing, Found, AtEntry
<1>5. ~(LinkBoth(w) \/ LinkRight(w) \/ LinkLeft(w))
      BY DEF LinkBoth, LinkRight, LinkLeft
<1>6. ~(DeleteNone(w) \/ DeleteOnly(w) \/ DeleteHead(w) \/ DeleteEntry(w))
      BY DEF DeleteNone, DeleteOnly, DeleteHead, DeleteEntry, NotFound
<1>7. ~(RelinkThird(w) \/ CopySecond(w) \/ UnlinkRight(w) \/ UnlinkLeft(w))
      BY DEF RelinkThird, CopySecond, UnlinkRight, UnlinkLeft
<1> QED BY <1>1, <1>2, <1>3, <1>4, <1>5, <1>6, <1>7 DEF Step, Update, Creation, Delete

(* And the owner of the lock. *)
LEMMA OwnerDoes ==
  ASSUME NEW w \in Workers, Step(w), HoldsExclusive(w, File(w))
  PROVE  \/ SetBit(w) \/ Create(w) \/ CreateRefused(w) \/ Fill(w)
         \/ WalkOn(w) \/ WalkAstray(w) \/ WalkBlind(w)
         \/ WriteFound(w) \/ WriteFirst(w) \/ WriteAppend(w) \/ WriteNothing(w)
         \/ LinkBoth(w) \/ LinkRight(w) \/ LinkLeft(w)
         \/ DeleteNone(w) \/ DeleteOnly(w) \/ DeleteHead(w) \/ DeleteEntry(w)
         \/ RelinkThird(w) \/ CopySecond(w) \/ UnlinkRight(w) \/ UnlinkLeft(w)
<1>1. pc[w] # "call" /\ (pc[w] \in {"head", "walk"} => call[w].op # "GET")
      BY DEF HoldsExclusive
<1>2. ~(UpdateOpen(w) \/ CreateBegin(w) \/ UpdateRefused(w) \/ DeleteNoFile(w))
      BY <1>1 DEF UpdateOpen, CreateBegin, UpdateRefused, DeleteNoFile
<1>3. ~Read(w)
      BY <1>1 DEF Read, ReadOpen, ReadFound, ReadNone, Serves, Found, NotFound, AtEntry
<1> QED BY <1>2, <1>3 DEF Step, Update, Creation, Delete

(* Only one step makes a file. *)
LEMMA OnlyCreateAdds ==
  ASSUME NEW w \in Workers, Step(w), ~Create(w)
  PROVE  onDisk' = onDisk
<1>1. CASE UpdateOpen(w) \/ UpdateRefused(w) \/ DeleteNoFile(w)
      BY <1>1 DEF UpdateOpen, UpdateRefused, DeleteNoFile, fileVars
<1>2. CASE CreateBegin(w) \/ SetBit(w) \/ CreateRefused(w) \/ Fill(w)
      BY <1>2 DEF CreateBegin, SetBit, CreateRefused, Fill, fileVars
<1>3. CASE WalkOn(w) \/ WalkAstray(w) \/ WalkBlind(w)
      BY <1>3 DEF WalkOn, WalkAstray, WalkBlind, vars, fileVars
<1>4. CASE Read(w)
      BY <1>4 DEF Read, ReadOpen, ReadFound, ReadNone, fileVars
<1>5. CASE WriteFound(w) \/ WriteFirst(w) \/ WriteAppend(w) \/ WriteNothing(w)
      BY <1>5 DEF WriteFound, WriteFirst, WriteAppend, WriteNothing, fileVars
<1>6. CASE LinkBoth(w) \/ LinkRight(w) \/ LinkLeft(w)
      BY <1>6 DEF LinkBoth, LinkRight, LinkLeft
<1>7. CASE DeleteNone(w) \/ DeleteOnly(w) \/ DeleteHead(w) \/ DeleteEntry(w)
      BY <1>7 DEF DeleteNone, DeleteOnly, DeleteHead, DeleteEntry, fileVars
<1>8. CASE RelinkThird(w) \/ CopySecond(w) \/ UnlinkRight(w) \/ UnlinkLeft(w)
      BY <1>8 DEF RelinkThird, CopySecond, UnlinkRight, UnlinkLeft
<1> QED BY <1>1, <1>2, <1>3, <1>4, <1>5, <1>6, <1>7, <1>8 DEF Step, Update, Creation, Delete

(* The step of a call that has the lock of f, or has it then, is a step    *)
(* under the lock or one that takes it.                                    *)
LEMMA OwnerSteps ==
  ASSUME NEW w \in Workers, Locked, Step(w), NEW f \in Files, writer[f] = w \/ writer'[f] = w
  PROVE  f = File(w) /\ (HoldsExclusive(w, f) \/ UpdateOpen(w) \/ CreateBegin(w))
<1>1. CASE writer[f] = w
      BY <1>1 DEF Locked, LocksMatchCalls, HoldsExclusive
<1>2. CASE writer[f] # w
      <2>1. writer'[f] = w
            BY <1>2
      <2>2. w # NoWorker
            BY StoreAssumption
      <2>3. TakesExclusive(w)
            BY <1>2, <2>1, <2>2, StepSorted
               DEF Sorted, GoesOn, WithoutLock, TakesShared, GivesBack, Locked, StoreShape,
               lockedVars
      <2>4. f = File(w)
            BY <1>2, <2>1, <2>3 DEF TakesExclusive, Locked, StoreShape
      <2>5. pc[w] = "call" /\ call[w].op # "GET" /\ pc'[w] # "idle"
            BY <2>3 DEF TakesExclusive, Locked, StoreShape
      <2>6. \/ UpdateOpen(w) \/ CreateBegin(w) \/ UpdateRefused(w) \/ DeleteNoFile(w)
            BY <2>5, CallStarts
      <2>7. ~UpdateRefused(w) /\ ~DeleteNoFile(w)
            BY <2>5 DEF UpdateRefused, DeleteNoFile, Return, Goto, Locked, StoreShape
      <2> QED BY <2>4, <2>6, <2>7
<1> QED BY <1>1, <1>2

(* What a step of the owner of a file's lock leaves of it. *)
LEMMA StepLeaves ==
  ASSUME NEW w \in Workers, Locked, Formed, Step(w),
         HoldsExclusive(w, File(w)) \/ UpdateOpen(w) \/ CreateBegin(w),
         File(w) \in onDisk',
         File(w) \in onDisk => FileWell(File(w))
  PROVE  Leaves(w)
<1>1. pc[w] # "idle" /\ File(w) \in Files
      <2>1. pc[w] # "idle"
            BY DEF HoldsExclusive, UpdateOpen, CreateBegin
      <2> QED BY <2>1, StepFacts
<1>2. CASE UpdateOpen(w) \/ CreateBegin(w)
      <2>1. File(w) \in onDisk /\ writer[File(w)] = NoWorker
            BY <1>2 DEF UpdateOpen, CreateBegin, LockExclusive, Unlocked, fileVars
      <2>2. Whole(Here(w), File(w))
            BY <2>1 DEF FileWell, Here
      <2> QED BY <1>2, <2>2, OpenLeaves
<1>3. CASE HoldsExclusive(w, File(w))
      <2>1. writer[File(w)] = w /\ w # NoWorker
            BY <1>1, <1>3, StoreAssumption DEF Locked, LocksMatchCalls
      <2>2. File(w) \in onDisk => UnderwayHere(w)
            BY <2>1 DEF FileWell, UnderwayHere, Here
      <2>3. Create(w) \/ File(w) \in onDisk
            BY OnlyCreateAdds
      <2>4. Create(w) \/ UnderwayHere(w)
            BY <2>2, <2>3
      <2>5. \/ SetBit(w) \/ Create(w) \/ CreateRefused(w) \/ Fill(w)
            \/ WalkOn(w) \/ WalkAstray(w) \/ WalkBlind(w)
            \/ WriteFound(w) \/ WriteFirst(w) \/ WriteAppend(w) \/ WriteNothing(w)
            \/ LinkBoth(w) \/ LinkRight(w) \/ LinkLeft(w)
            \/ DeleteNone(w) \/ DeleteOnly(w) \/ DeleteHead(w) \/ DeleteEntry(w)
            \/ RelinkThird(w) \/ CopySecond(w) \/ UnlinkRight(w) \/ UnlinkLeft(w)
            BY <1>3, OwnerDoes
      <2>6. CASE Create(w)
            BY <2>6, CreationLeaves
      <2>7. CASE UnderwayHere(w)
            BY <2>5, <2>7, CreationLeaves, WalkLeaves, WriteLeaves, LinkLeaves, DeleteLeaves,
               UnlinkLeaves
      <2> QED BY <2>4, <2>6, <2>7
<1> QED BY <1>2, <1>3

-----------------------------------------------------------------------------
(* The invariant. *)

(* A step of w leaves the files alone whose lock w neither has nor takes.  *)
LEMMA OtherFilesKeep ==
  ASSUME NEW w \in Workers, Locked, Formed, Step(w), NEW f \in Files,
         writer[f] # w, writer'[f] # w
  PROVE  /\ writer'[f] = writer[f] /\ disk'[f] = disk[f] /\ (f \in onDisk' => f \in onDisk)
         /\ \A v \in Workers : v # w => pc'[v] = pc[v] /\ call'[v] = call[v] /\ loc'[v] = loc[v]
<1>1. ~HoldsExclusive(w, f)
      BY DEF Locked, LocksMatchCalls
<1>2. disk'[f] = disk[f] /\ (f \in onDisk' => f \in onDisk)
      BY <1>1, WritesOwnFile
<1>3. writer'[f] = writer[f]
      <2>1. CASE GoesOn(w) \/ WithoutLock(w) \/ TakesShared(w) \/ UNCHANGED lockedVars
            BY <2>1 DEF GoesOn, WithoutLock, TakesShared, lockedVars
      <2>2. CASE TakesExclusive(w)
            <3>1. writer' = [writer EXCEPT ![File(w)] = w]
                  BY <2>2 DEF TakesExclusive
            <3> QED BY <3>1 DEF Locked, StoreShape
      <2>3. CASE GivesBack(w)
            <3>1. pc[w] \notin {"idle", "call"}
                  BY <2>3 DEF GivesBack
            <3>2. CASE pc[w] \in {"head", "walk"} /\ call[w].op = "GET"
                  BY <2>3, <3>2 DEF GivesBack
            <3>3. CASE ~(pc[w] \in {"head", "walk"} /\ call[w].op = "GET")
                  <4>1. HoldsExclusive(w, File(w))
                        BY <3>1, <3>3 DEF HoldsExclusive
                  <4>2. f # File(w)
                        BY <1>1, <4>1
                  <4>3. writer' = [writer EXCEPT ![File(w)] = NoWorker]
                        BY <2>3, <3>3 DEF GivesBack
                  <4> QED BY <4>2, <4>3 DEF Locked, StoreShape
            <3> QED BY <3>2, <3>3
      <2> QED BY <2>1, <2>2, <2>3, StepSorted DEF Sorted
<1>4. PICK p, r, l, d : Turns(w, p, r, l, d)
      BY StepTurns DEF Turning
<1>5. \A v \in Workers : v # w => pc'[v] = pc[v] /\ call'[v] = call[v] /\ loc'[v] = loc[v]
      BY <1>4 DEF Turns, Formed, TypeOK
<1> QED BY <1>2, <1>3, <1>5

(* So what the owner of such a file takes it for stays so. *)
LEMMA OtherFilesWell ==
  ASSUME NEW w \in Workers, Locked, Formed, Step(w), NEW f \in Files,
         writer[f] # w, writer'[f] # w, FileWell(f)
  PROVE  FileWell(f)'
<1>1. /\ writer'[f] = writer[f] /\ disk'[f] = disk[f]
      /\ \A v \in Workers : v # w => pc'[v] = pc[v] /\ call'[v] = call[v] /\ loc'[v] = loc[v]
      BY OtherFilesKeep
<1>2. CASE writer[f] = NoWorker
      BY <1>1, <1>2 DEF FileWell
<1>3. CASE writer[f] # NoWorker
      <2>1. writer[f] \in Workers /\ writer[f] # w
            BY <1>3 DEF Locked, StoreShape
      <2>2. /\ pc'[writer[f]] = pc[writer[f]] /\ call'[writer[f]] = call[writer[f]]
            /\ loc'[writer[f]] = loc[writer[f]]
            BY <1>1, <2>1
      <2> QED BY <1>1, <1>3, <2>2 DEF FileWell
<1> QED BY <1>2, <1>3

(* And the file of w itself is what w takes it for, or whole. *)
LEMMA OwnFileWell ==
  ASSUME NEW w \in Workers, Locked, Locked', Formed, Step(w), NEW f \in Files,
         writer[f] = w \/ writer'[f] = w, f \in onDisk', f \in onDisk => FileWell(f)
  PROVE  FileWell(f)'
<1>1. f = File(w) /\ (HoldsExclusive(w, f) \/ UpdateOpen(w) \/ CreateBegin(w))
      BY OwnerSteps
<1>2. Leaves(w)
      BY <1>1, StepLeaves
<1>3. w # NoWorker
      BY StoreAssumption
<1>4. PICK p, r, l, d : Turns(w, p, r, l, d)
      BY StepTurns DEF Turning
<1>5. pc'[w] = p
      BY <1>4 DEF Turns
<1>6. CASE writer'[f] = w
      <2>1. pc'[w] # "idle"
            BY <1>6 DEF Locked, LocksMatchCalls, HoldsExclusive
      <2>2. call'[w] = call[w]
            BY <1>4, <1>5, <2>1 DEF Turns, Formed, TypeOK
      <2>3. Underway(pc'[w], call'[w], loc'[w], disk'[f], f)
            BY <1>1, <1>2, <2>1, <2>2 DEF Leaves
      <2> QED BY <1>3, <1>6, <2>3 DEF FileWell
<1>7. CASE writer'[f] # w
      <2>1. writer[f] = w
            BY <1>7
      <2>2. GivesBack(w)
            <3>1. pc[w] # "call"
                  BY <2>1 DEF Locked, LocksMatchCalls, HoldsExclusive
            <3> QED BY <1>7, <2>1, <3>1, StepSorted
                    DEF Sorted, GoesOn, WithoutLock, TakesShared, TakesExclusive, lockedVars
      <2>3. pc'[w] = "idle"
            BY <2>2 DEF GivesBack, Locked, StoreShape
      <2>4. writer'[f] = NoWorker
            BY <1>1, <1>7, <2>1, <2>2 DEF GivesBack, Locked, StoreShape
      <2>5. Whole(disk'[f], f)
            BY <1>1, <1>2, <2>3 DEF Leaves
      <2> QED BY <2>4, <2>5 DEF FileWell
<1> QED BY <1>6, <1>7

(* A step keeps the invariant; so do a death and a new call.               *)
LEMMA RingStep ==
  ASSUME NEW w \in Workers, Locked, Locked', Formed, RingInv, Step(w)
  PROVE  RingInv'
<1> SUFFICES ASSUME ~torn', NEW f \in onDisk' PROVE FileWell(f)'
    BY DEF RingInv
<1>1. ~torn /\ f \in Files
      BY StepPast
<1>2. f \in onDisk => FileWell(f)
      BY <1>1 DEF RingInv
<1>3. CASE writer[f] = w \/ writer'[f] = w
      BY <1>1, <1>2, <1>3, OwnFileWell
<1>4. CASE writer[f] # w /\ writer'[f] # w
      <2>1. f \in onDisk
            BY <1>1, <1>4, OtherFilesKeep
      <2> QED BY <1>1, <1>2, <1>4, <2>1, OtherFilesWell
<1> QED BY <1>3, <1>4

(* Where the process dies without tearing a file, every file is whole.     *)
LEMMA RingCrash ==
  ASSUME Locked, Formed, RingInv, Crash
  PROVE  RingInv'
<1> SUFFICES ASSUME ~torn', NEW f \in onDisk' PROVE FileWell(f)'
    BY DEF RingInv
<1>1. /\ ~torn /\ f \in onDisk /\ \A w \in Workers : pc[w] \notin TearingPlaces
      /\ disk' = disk
      BY DEF Crash
<1>2. FileWell(f) /\ f \in Files
      BY <1>1 DEF RingInv, Formed, TypeOK
<1>3. writer'[f] = NoWorker
      BY <1>2 DEF Crash
<1>4. CASE writer[f] = NoWorker
      BY <1>1, <1>2, <1>3, <1>4 DEF FileWell
<1>5. CASE writer[f] # NoWorker
      <2>1. writer[f] \in Workers
            BY <1>2, <1>5 DEF Locked, StoreShape
      <2>2. Underway(pc[writer[f]], call[writer[f]], loc[writer[f]], disk[f], f)
            BY <1>2, <1>5 DEF FileWell
      <2>3. pc[writer[f]] \notin TearingPlaces
            BY <1>1, <2>1
      <2>4. Whole(disk[f], f)
            BY <2>2, <2>3 DEF Underway, TearingPlaces
      <2> QED BY <1>1, <1>3, <2>4 DEF FileWell
<1> QED BY <1>4, <1>5

LEMMA RingBegin ==
  ASSUME NEW w \in Workers, Locked, Formed, RingInv, Begin(w)
  PROVE  RingInv'
<1> SUFFICES ASSUME ~torn', NEW f \in onDisk' PROVE FileWell(f)'
    BY DEF RingInv
<1>1. pc[w] = "idle" /\ UNCHANGED <<disk, onDisk, writer, loc, torn>>
      BY DEF Begin, fileVars, lockVars, pastVars
<1>2. \A v \in Workers : v # w => pc'[v] = pc[v] /\ call'[v] = call[v]
      BY DEF Begin, Goto, Formed, TypeOK, Locked, StoreShape
<1>3. FileWell(f) /\ f \in Files
      BY <1>1 DEF RingInv, Formed, TypeOK
<1>4. CASE writer[f] = NoWorker
      BY <1>1, <1>3, <1>4 DEF FileWell
<1>5. CASE writer[f] # NoWorker
      <2>1. writer[f] \in Workers
            BY <1>3, <1>5 DEF Locked, StoreShape
      <2>2. writer[f] # w
            BY <1>1, <1>3 DEF Locked, LocksMatchCalls, HoldsExclusive
      <2>3. pc'[writer[f]] = pc[writer[f]] /\ call'[writer[f]] = call[writer[f]]
            BY <1>2, <2>1, <2>2
      <2> QED BY <1>1, <1>3, <1>5, <2>3 DEF FileWell
<1> QED BY <1>4, <1>5

LEMMA RingInit == Init => RingInv
BY DEF Init, RingInv

(* The invariant is inductive, given the locks and the types.              *)
LEMMA RingNext == Locked /\ Locked' /\ Formed /\ RingInv /\ [Next]_vars => RingInv'
<1> SUFFICES ASSUME Locked, Locked', Formed, RingInv, [Next]_vars PROVE RingInv'
    OBVIOUS
<1>1. CASE Crash
      BY <1>1, RingCrash
<1>2. ASSUME NEW w \in Workers, Begin(w) PROVE RingInv'
      BY <1>2, RingBegin
<1>3. ASSUME NEW w \in Workers, Step(w) PROVE RingInv'
      BY <1>3, RingStep
<1>4. CASE UNCHANGED vars
      BY <1>4 DEF vars, fileVars, lockVars, pastVars, RingInv, FileWell
<1> QED BY <1>1, <1>2, <1>3, <1>4 DEF Next

(* Unless the process has died between two writes of one call, a file that *)
(* nobody writes is a table of slots that are empty or hold a proper ring, *)
(* for any number of threads, files, slots and keys.                       *)
THEOREM RingsStayWhole == Spec => []RingsWhole
<1>1. Formed /\ RingInv => RingsWhole
      <2> SUFFICES ASSUME Formed, RingInv, ~torn, NEW f \in onDisk, writer[f] = NoWorker
                   PROVE  /\ Len(disk[f]) >= TableLen
                          /\ \A s \in 1..TableLen :
                               IsEmptySlot(disk[f], s) \/ ProperRing(disk[f], f, s)
          BY DEF RingsWhole
      <2>1. Whole(disk[f], f)
            BY DEF RingInv, FileWell
      <2>2. disk[f] \in Seq(Entry)
            BY DEF Formed, TypeOK
      <2> QED BY <2>1, <2>2, WholeIsProper
<1>2. Init => Locked /\ Formed /\ RingInv
      BY LockedInit, FormedInit, RingInit
<1>3. Locked /\ Formed /\ RingInv /\ [Next]_vars => (Locked /\ Formed /\ RingInv)'
      BY LockedNext, FormedNext, RingNext
<1> QED BY <1>1, <1>2, <1>3, PTL DEF Spec

-----------------------------------------------------------------------------
(* What a file says of a key, by the ring of its slot.                     *)

LEMMA LookupFound ==
  ASSUME NEW d \in Seq(Entry), NEW f, NEW s, NEW q, IsRing(d, f, s, q),
         NEW i \in 1..Len(q)
  PROVE  Lookup(d, s, d[q[i]].key) = d[q[i]].value
<1> DEFINE hits == {j \in Ring(d, s) \cap DOMAIN d : d[j].key = d[q[i]].key}
<1>1. q[i] \in Ring(d, s) /\ q[i] \in DOMAIN d
      <2>1. q[i] \in Ring(d, s)
            BY RingEntries
      <2>2. q[i] \in 1..Len(d)
            BY RingTypes
      <2> QED BY <2>1, <2>2
<1>2. ASSUME NEW j \in hits PROVE j = q[i]
      <2>1. PICK a \in 1..Len(q) : j = q[a]
            BY <1>2, RingEntries
      <2> QED BY <1>2, <2>1 DEF IsRing
<1>3. hits = {q[i]}
      BY <1>1, <1>2
<1>4. (CHOOSE j \in hits : TRUE) = q[i] /\ hits # {}
      BY <1>3
<1> QED BY <1>4 DEF Lookup

LEMMA LookupNone ==
  ASSUME NEW d, NEW s, NEW k, \A i \in Ring(d, s) \cap DOMAIN d : d[i].key # k
  PROVE  Lookup(d, s, k) = NoValue
BY DEF Lookup

LEMMA LookupAbsent ==
  ASSUME NEW d \in Seq(Entry), NEW f, NEW s, NEW q, IsRing(d, f, s, q),
         NEW k, \A i \in 1..Len(q) : d[q[i]].key # k
  PROVE  Lookup(d, s, k) = NoValue
<1>1. \A i \in Ring(d, s) : \E j \in 1..Len(q) : i = q[j]
      BY RingEntries
<1>2. \A i \in Ring(d, s) \cap DOMAIN d : d[i].key # k
      BY <1>1
<1> QED BY <1>2, LookupNone

LEMMA LookupSlot ==
  ASSUME NEW d \in Seq(Entry), NEW s \in 1..Len(d), IsEmptySlot(d, s), NEW k
  PROVE  Lookup(d, s, k) = IF d[s].key = k THEN d[s].value ELSE NoValue
<1> DEFINE at == Chain(d, s)
           S == {n \in Nat : n + 1 <= Len(d) => at[n + 1] = MaxIdx}
<1>1. Len(d) \in Nat /\ DOMAIN d = 1..Len(d) /\ Len(d) >= 1 /\ s # MaxIdx /\ MaxIdx \notin DOMAIN d
      BY DEF MaxIdx
<1>2. at[0] = s /\ \A n \in 1..Len(d) : at[n] = NextOn(d, at[n - 1])
      BY ChainUnfolds
<1>3. NextOn(d, s) = MaxIdx /\ NextOn(d, MaxIdx) = MaxIdx
      BY <1>1 DEF NextOn, IsEmptySlot
<1>4. Ring(d, s) = {at[n] : n \in 0..Len(d)} \ {MaxIdx}
      BY DEF Ring
<1> HIDE DEF at
<1>5. 0 \in S
      <2>1. 1 \in 1..Len(d) /\ 1 - 1 = 0 /\ 0 + 1 = 1
            BY <1>1
      <2>2. at[1] = MaxIdx
            BY <1>2, <1>3, <2>1
      <2> QED BY <2>1, <2>2
<1>6. ASSUME NEW n \in Nat, n \in S PROVE n + 1 \in S
      <2> SUFFICES ASSUME (n + 1) + 1 <= Len(d) PROVE at[(n + 1) + 1] = MaxIdx
          OBVIOUS
      <2>1. n + 1 <= Len(d) /\ (n + 1) + 1 \in 1..Len(d) /\ ((n + 1) + 1) - 1 = n + 1
            BY <1>1
      <2>2. at[n + 1] = MaxIdx
            BY <1>6, <2>1
      <2> QED BY <1>2, <1>3, <2>1, <2>2
<1>7. Nat \subseteq S
      <2> HIDE DEF S
      <2> QED BY <1>5, <1>6, Counting!Induction
<1>8. ASSUME NEW n \in 0..Len(d) PROVE at[n] = s \/ at[n] = MaxIdx
      <2>1. CASE n = 0
            BY <1>2, <2>1
      <2>2. CASE n # 0
            <3>1. n - 1 \in Nat /\ (n - 1) + 1 = n /\ n <= Len(d)
                  BY <1>1, <2>2
            <3>2. n - 1 \in S
                  BY <1>7, <3>1
            <3> QED BY <3>1, <3>2
      <2> QED BY <2>1, <2>2
<1>9. Ring(d, s) = {s}
      <2>1. 0 \in 0..Len(d)
            BY <1>1
      <2> QED BY <1>1, <1>2, <1>4, <1>8, <2>1
<1> HIDE DEF S
<1>10. CASE d[s].key # k
       <2>1. \A i \in Ring(d, s) \cap DOMAIN d : d[i].key # k
             BY <1>9, <1>10
       <2> QED BY <1>10, <2>1, LookupNone
<1>11. CASE d[s].key = k
       <2> DEFINE hits == {j \in Ring(d, s) \cap DOMAIN d : d[j].key = k}
       <2>1. hits = {s}
             BY <1>1, <1>9, <1>11
       <2>2. (CHOOSE j \in hits : TRUE) = s /\ hits # {}
             BY <2>1
       <2> QED BY <1>11, <2>2 DEF Lookup
<1> QED BY <1>10, <1>11

(* An entry of the ring q holds v for k. *)
Holds(d, q, k, v) == \E i \in 1..Len(q) : d[q[i]].key = k /\ d[q[i]].value = v

LEMMA LookupSame ==
  ASSUME NEW d \in Seq(Entry), NEW x \in Seq(Entry), NEW f, NEW s, NEW q, NEW r,
         IsRing(d, f, s, q), IsRing(x, f, s, r),
         NEW k, \A v : Holds(d, q, k, v) <=> Holds(x, r, k, v)
  PROVE  Lookup(x, s, k) = Lookup(d, s, k)
<1>1. CASE \E i \in 1..Len(q) : d[q[i]].key = k
      <2>1. PICK i \in 1..Len(q) : d[q[i]].key = k
            BY <1>1
      <2>2. Holds(x, r, k, d[q[i]].value)
            BY <2>1 DEF Holds
      <2>3. PICK j \in 1..Len(r) : x[r[j]].key = k /\ x[r[j]].value = d[q[i]].value
            BY <2>2 DEF Holds
      <2>4. Lookup(d, s, k) = d[q[i]].value
            BY <2>1, LookupFound
      <2>5. Lookup(x, s, k) = x[r[j]].value
            BY <2>3, LookupFound
      <2> QED BY <2>3, <2>4, <2>5
<1>2. CASE \A i \in 1..Len(q) : d[q[i]].key # k
      <2>1. ASSUME NEW j \in 1..Len(r), x[r[j]].key = k PROVE FALSE
            <3>1. Holds(d, q, k, x[r[j]].value)
                  BY <2>1 DEF Holds
            <3> QED BY <1>2, <3>1 DEF Holds
      <2>2. Lookup(d, s, k) = NoValue
            BY <1>2, LookupAbsent
      <2>3. Lookup(x, s, k) = NoValue
            BY <2>1, LookupAbsent
      <2> QED BY <2>2, <2>3
<1> QED BY <1>1, <1>2

LEMMA LookupOther ==
  ASSUME NEW d \in Seq(Entry), NEW x \in Seq(Entry), NEW f, NEW s \in 1..TableLen,
         Whole(d, f), Len(x) >= Len(d), OnlyRing(d, x, s),
         NEW t \in 1..TableLen, t # s, NEW k
  PROVE  Lookup(x, t, k) = Lookup(d, t, k)
<1>1. x[t] = d[t]
      BY OtherRings
<1>2. CASE IsEmptySlot(d, t)
      <2>1. t \in 1..Len(d) /\ t \in 1..Len(x)
            BY StoreAssumption DEF Whole
      <2>2. IsEmptySlot(x, t)
            BY <1>1, <1>2 DEF IsEmptySlot
      <2>3. Lookup(d, t, k) = IF d[t].key = k THEN d[t].value ELSE NoValue
            BY <1>2, <2>1, LookupSlot
      <2>4. Lookup(x, t, k) = IF x[t].key = k THEN x[t].value ELSE NoValue
            BY <2>1, <2>2, LookupSlot
      <2> QED BY <1>1, <2>3, <2>4
<1>3. CASE ~IsEmptySlot(d, t)
      <2>1. PICK q : IsRing(d, f, t, q)
            BY <1>3 DEF Whole, SlotWhole
      <2>2. IsRing(x, f, t, q) /\ \A i \in 1..Len(q) : x[q[i]] = d[q[i]]
            BY <2>1, OtherRings
      <2>3. \A v : Holds(d, q, k, v) <=> Holds(x, q, k, v)
            BY <2>2 DEF Holds
      <2> QED BY <2>1, <2>2, <2>3, LookupSame
<1> QED BY <1>2, <1>3

(* The map m agrees with what file f says of its keys. *)
Shows(d, f, m) == \A k \in Keys : FileOf[k] = f => m[k] = Lookup(d, SlotOf[k], k)

(* The map n is m but for what it has at key j. *)
Alike(m, n, j) == \A k \in Keys : k # j => n[k] = m[k]

LEMMA ShowsChange ==
  ASSUME NEW d \in Seq(Entry), NEW x \in Seq(Entry), NEW f, NEW s \in 1..TableLen,
         Whole(d, f), Len(x) >= Len(d), OnlyRing(d, x, s),
         NEW j, NEW m, NEW n, Shows(d, f, m), Alike(m, n, j),
         n[j] = Lookup(x, s, j), SlotOf[j] = s,
         \A k \in Keys : k # j => Lookup(x, s, k) = Lookup(d, s, k)
  PROVE  Shows(x, f, n)
<1> SUFFICES ASSUME NEW k \in Keys, FileOf[k] = f PROVE n[k] = Lookup(x, SlotOf[k], k)
    BY DEF Shows
<1>1. SlotOf[k] \in 1..TableLen
      BY StoreAssumption
<1>2. CASE k = j
      BY <1>2
<1>3. CASE k # j
      <2>1. n[k] = Lookup(d, SlotOf[k], k)
            BY <1>3 DEF Alike, Shows
      <2>2. CASE SlotOf[k] = s
            BY <1>3, <2>1, <2>2
      <2>3. CASE SlotOf[k] # s
            BY <1>1, <2>1, <2>3, LookupOther
      <2> QED BY <2>2, <2>3
<1> QED BY <1>2, <1>3

LEMMA EffectIs ==
  ASSUME NEW m, DOMAIN m = Keys, NEW r \in Requests
  PROVE  /\ DOMAIN Effect(m, r) = Keys /\ r.key \in Keys
         /\ Alike(m, Effect(m, r), r.key)
         /\ r.op = "GET" => Effect(m, r)[r.key] = m[r.key]
         /\ r.op = "PUT" => Effect(m, r)[r.key] = r.value
         /\ r.op = "DELETE" => Effect(m, r)[r.key] = NoValue
         /\ r.op \in {"GET", "PUT", "DELETE"}
<1>1. r.key \in Keys /\ r.op \in {"GET", "PUT", "DELETE"}
      BY DEF Requests
<1> QED BY <1>1 DEF Effect, Alike

(* A ring in which what is held for another key than j is as before. *)
LEMMA RingShows ==
  ASSUME NEW d \in Seq(Entry), NEW x \in Seq(Entry), NEW f, NEW s \in 1..TableLen,
         Whole(d, f), Len(x) >= Len(d), OnlyRing(d, x, s),
         NEW q, NEW t, IsRing(d, f, s, q), IsRing(x, f, s, t),
         NEW j, NEW m, NEW n, Shows(d, f, m), Alike(m, n, j),
         n[j] = Lookup(x, s, j), SlotOf[j] = s,
         \A k \in Keys : k # j => \A v : Holds(d, q, k, v) <=> Holds(x, t, k, v)
  PROVE  Shows(x, f, n)
<1>1. \A k \in Keys : k # j => Lookup(x, s, k) = Lookup(d, s, k)
      BY LookupSame
<1> QED BY <1>1, ShowsChange

(* A new value for the i-th entry of a ring. *)
LEMMA FoundShows ==
  ASSUME NEW d \in Seq(Entry), NEW x \in Seq(Entry), NEW f, NEW s \in 1..TableLen,
         Whole(d, f), Len(x) = Len(d), NEW q, IsRing(d, f, s, q), NEW i \in 1..Len(q),
         \A j \in 1..Len(d) : j # q[i] => x[j] = d[j],
         x[q[i]].left = d[q[i]].left, x[q[i]].right = d[q[i]].right,
         x[q[i]].key = d[q[i]].key,
         NEW m, NEW n, Shows(d, f, m), Alike(m, n, d[q[i]].key),
         n[d[q[i]].key] = x[q[i]].value
  PROVE  Shows(x, f, n)
<1>1. /\ Len(d) \in Nat /\ TableLen \in Nat /\ Len(q) \in Nat /\ q[1] = s
      /\ \A j \in 1..Len(q) : q[j] \in 1..Len(d)
      BY RingTypes, StoreAssumption
<1>2. Len(x) >= Len(d)
      BY <1>1
<1>3. \A j \in 1..Len(q) : /\ x[q[j]].left = d[q[j]].left
                           /\ x[q[j]].right = d[q[j]].right
                           /\ x[q[j]].key = d[q[j]].key
      BY <1>1
<1>4. IsRing(x, f, s, q)
      BY <1>2, <1>3, SameRing
<1>5. InRing(d, f, s, q, i)
      BY DEF IsRing
<1>6. q[i] = s \/ (q[i] > TableLen /\ SlotOf[d[q[i]].key] = s)
      BY <1>1, <1>5 DEF InRing
<1>7. OnlyRing(d, x, s)
      BY <1>6 DEF OnlyRing
<1>8. Lookup(x, s, x[q[i]].key) = x[q[i]].value
      BY <1>4, LookupFound
<1>9. ASSUME NEW k \in Keys, k # d[q[i]].key
      PROVE  \A v : Holds(d, q, k, v) <=> Holds(x, q, k, v)
      <2>1. ASSUME NEW a \in 1..Len(q), d[q[a]].key = k \/ x[q[a]].key = k
            PROVE  x[q[a]] = d[q[a]]
            <3>1. d[q[a]].key # d[q[i]].key
                  BY <1>3, <1>9, <2>1
            <3>2. q[a] # q[i]
                  BY <3>1
            <3> QED BY <1>1, <3>2
      <2> QED BY <2>1 DEF Holds
<1>10. SlotOf[d[q[i]].key] = s
       BY <1>5 DEF InRing
<1> QED BY <1>2, <1>4, <1>7, <1>8, <1>9, <1>10, RingShows

(* The first entry of a ring. *)
LEMMA FirstShows ==
  ASSUME NEW d \in Seq(Entry), NEW x \in Seq(Entry), NEW f, NEW s \in 1..TableLen,
         Whole(d, f), Len(x) = Len(d), IsEmptySlot(d, s), d[s].key \notin Keys,
         IsRing(x, f, s, <<s>>), OnlyRing(d, x, s), x[s].key \in Keys, SlotOf[x[s].key] = s,
         NEW m, NEW n, Shows(d, f, m), Alike(m, n, x[s].key), n[x[s].key] = x[s].value
  PROVE  Shows(x, f, n)
<1> DEFINE q == <<s>>
<1>1. Len(q) = 1 /\ q[1] = s
      OBVIOUS
<1>2. Len(d) \in Nat /\ s \in 1..Len(d) /\ Len(x) >= Len(d)
      BY StoreAssumption DEF Whole
<1>3. IsRing(x, f, s, q)
      OBVIOUS
<1> HIDE DEF q
<1>4. 1 \in 1..Len(q)
      BY <1>1
<1>5. Lookup(x, s, x[s].key) = x[s].value
      <2>1. Lookup(x, s, x[q[1]].key) = x[q[1]].value
            BY <1>3, <1>4, LookupFound
      <2> QED BY <1>1, <2>1
<1>6. ASSUME NEW k \in Keys, k # x[s].key PROVE Lookup(x, s, k) = Lookup(d, s, k)
      <2>1. \A i \in 1..Len(q) : x[q[i]].key # k
            BY <1>1, <1>6
      <2>2. Lookup(x, s, k) = NoValue
            BY <1>3, <2>1, LookupAbsent
      <2>3. Lookup(d, s, k) = NoValue
            BY <1>2, LookupSlot
      <2> QED BY <2>2, <2>3
<1> QED BY <1>2, <1>5, <1>6, ShowsChange

(* The only entry of a ring has been taken out. *)
LEMMA OnlyShows ==
  ASSUME NEW d \in Seq(Entry), NEW x \in Seq(Entry), NEW f, NEW s \in 1..TableLen,
         Whole(d, f), Len(x) = Len(d), NEW q, IsRing(d, f, s, q), Len(q) = 1,
         x[s] = Blank, OnlyRing(d, x, s),
         NEW m, NEW n, Shows(d, f, m), Alike(m, n, d[s].key), n[d[s].key] = NoValue
  PROVE  Shows(x, f, n)
<1>1. Len(d) \in Nat /\ s \in 1..Len(x) /\ Len(x) >= Len(d)
      BY StoreAssumption DEF Whole
<1>2. IsEmptySlot(x, s) /\ x[s].key = NoKey /\ x[s].value = NoValue
      BY DEF IsEmptySlot, Blank
<1>3. \A k : Lookup(x, s, k) = NoValue
      BY <1>1, <1>2, LookupSlot
<1>4. ASSUME NEW k \in Keys, k # d[s].key PROVE Lookup(d, s, k) = NoValue
      <2>1. q[1] = s
            BY RingTypes
      <2>2. \A i \in 1..Len(q) : d[q[i]].key # k
            BY <1>4, <2>1
      <2> QED BY <2>2, LookupAbsent
<1>5. SlotOf[d[s].key] = s
      <2>1. 1 \in 1..Len(q) /\ q[1] = s
            BY RingTypes
      <2>2. InRing(d, f, s, q, 1)
            BY <2>1 DEF IsRing
      <2> QED BY <2>1, <2>2 DEF InRing
<1> QED BY <1>1, <1>3, <1>4, <1>5, ShowsChange

(* The ring t of x is the ring q of d without its e-th entry. *)
Drops(d, x, q, t, e) ==
  /\ \A i \in 1..Len(t) : \E j \in 1..Len(q) :
       j # e /\ x[t[i]].key = d[q[j]].key /\ x[t[i]].value = d[q[j]].value
  /\ \A j \in 1..Len(q) : j # e => \E i \in 1..Len(t) :
       x[t[i]].key = d[q[j]].key /\ x[t[i]].value = d[q[j]].value

LEMMA DropsHolds ==
  ASSUME NEW d \in Seq(Entry), NEW x \in Seq(Entry), NEW f, NEW s, NEW q, NEW t,
         IsRing(d, f, s, q), NEW e \in 1..Len(q), Drops(d, x, q, t, e)
  PROVE  /\ \A i \in 1..Len(t) : x[t[i]].key # d[q[e]].key
         /\ \A k : k # d[q[e]].key => \A v : Holds(d, q, k, v) <=> Holds(x, t, k, v)
<1>1. \A i, j \in 1..Len(q) : d[q[i]].key = d[q[j]].key => i = j
      BY DEF IsRing
<1>2. ASSUME NEW i \in 1..Len(t) PROVE x[t[i]].key # d[q[e]].key
      BY <1>1 DEF Drops
<1>3. ASSUME NEW k, k # d[q[e]].key, NEW v, Holds(d, q, k, v) PROVE Holds(x, t, k, v)
      <2>1. PICK j \in 1..Len(q) : d[q[j]].key = k /\ d[q[j]].value = v
            BY <1>3 DEF Holds
      <2>2. j # e
            BY <1>3, <2>1
      <2>3. PICK i \in 1..Len(t) : x[t[i]].key = d[q[j]].key /\ x[t[i]].value = d[q[j]].value
            BY <2>2 DEF Drops
      <2> QED BY <2>1, <2>3 DEF Holds
<1>4. ASSUME NEW k, NEW v, Holds(x, t, k, v) PROVE Holds(d, q, k, v)
      <2>1. PICK i \in 1..Len(t) : x[t[i]].key = k /\ x[t[i]].value = v
            BY <1>4 DEF Holds
      <2>2. PICK j \in 1..Len(q) : x[t[i]].key = d[q[j]].key /\ x[t[i]].value = d[q[j]].value
            BY DEF Drops
      <2> QED BY <2>1, <2>2 DEF Holds
<1> QED BY <1>2, <1>3, <1>4

(* An entry has been linked, the last of the ring t of x.                  *)
LEMMA LinkedShows ==
  ASSUME NEW d \in Seq(Entry), NEW x \in Seq(Entry), NEW f, NEW s \in 1..TableLen,
         Whole(d, f), Len(x) = Len(d), NEW q, IsRing(d, f, s, q),
         NEW a \in 1..Len(d), IsRing(x, f, s, Append(q, a)), OnlyRing(d, x, s),
         \A j \in 1..Len(d) : x[j].key = d[j].key /\ x[j].value = d[j].value,
         NEW m, NEW n, Shows(d, f, m), Alike(m, n, d[a].key), n[d[a].key] = d[a].value
  PROVE  Shows(x, f, n)
<1> DEFINE t == Append(q, a)
           e == Len(q) + 1
<1>1. /\ Len(d) \in Nat /\ Len(q) \in Nat /\ q \in Seq(1..Len(d)) /\ Len(x) >= Len(d)
      /\ \A j \in 1..Len(q) : q[j] \in 1..Len(d)
      BY RingTypes
<1>2. t \in Seq(1..Len(d)) /\ Len(t) = e /\ t[e] = a /\ \A j \in 1..Len(q) : t[j] = q[j]
      BY <1>1, AppendProperties
<1>3. IsRing(x, f, s, t)
      OBVIOUS
<1> HIDE DEF t
<1>4. e \in 1..Len(t) /\ \A j \in 1..Len(t) : j # e => j \in 1..Len(q)
      BY <1>1, <1>2
<1>5. \A j \in 1..Len(q) : j \in 1..Len(t) /\ j # e
      BY <1>1, <1>2
<1> HIDE DEF e
<1>6. Drops(x, d, t, q, e)
      <2>1. ASSUME NEW i \in 1..Len(q)
            PROVE  i \in 1..Len(t) /\ i # e /\ d[q[i]].key = x[t[i]].key /\ d[q[i]].value = x[t[i]].value
            BY <1>1, <1>2, <1>5
      <2>2. ASSUME NEW j \in 1..Len(t), j # e
            PROVE  j \in 1..Len(q) /\ d[q[j]].key = x[t[j]].key /\ d[q[j]].value = x[t[j]].value
            BY <1>4, <2>1, <2>2
      <2> QED BY <2>1, <2>2 DEF Drops
<1>7. x[t[e]].key = d[a].key /\ x[t[e]].value = d[a].value
      BY <1>2
<1>8. \A k : k # d[a].key => \A v : Holds(x, t, k, v) <=> Holds(d, q, k, v)
      BY <1>3, <1>4, <1>6, <1>7, DropsHolds
<1>9. Lookup(x, s, d[a].key) = d[a].value
      BY <1>3, <1>4, <1>7, LookupFound
<1>10. SlotOf[d[a].key] = s
       <2>1. InRing(x, f, s, t, e)
             BY <1>3, <1>4 DEF IsRing
       <2> QED BY <1>7, <2>1 DEF InRing
<1> QED BY <1>1, <1>3, <1>8, <1>9, <1>10, RingShows

(* An entry has left its ring.                                             *)
LEMMA DroppedShows ==
  ASSUME NEW d \in Seq(Entry), NEW x \in Seq(Entry), NEW f, NEW s \in 1..TableLen,
         Whole(d, f), Len(x) = Len(d), NEW q, IsRing(d, f, s, q),
         NEW t, IsRing(x, f, s, t), OnlyRing(d, x, s),
         NEW e \in 1..Len(q), Drops(d, x, q, t, e),
         NEW m, NEW n, Shows(d, f, m), Alike(m, n, d[q[e]].key), n[d[q[e]].key] = NoValue
  PROVE  Shows(x, f, n)
<1>1. Len(x) >= Len(d)
      BY RingTypes
<1>2. \A k : k # d[q[e]].key => \A v : Holds(d, q, k, v) <=> Holds(x, t, k, v)
      BY DropsHolds
<1>3. \A i \in 1..Len(t) : x[t[i]].key # d[q[e]].key
      BY DropsHolds
<1>4. Lookup(x, s, d[q[e]].key) = NoValue
      BY <1>3, LookupAbsent
<1>5. SlotOf[d[q[e]].key] = s
      <2>1. InRing(d, f, s, q, e)
            BY DEF IsRing
      <2> QED BY <2>1 DEF InRing
<1> QED BY <1>1, <1>2, <1>4, <1>5, RingShows

(* The first entry has left, and the second is in its place. *)
LEMMA MovedShows ==
  ASSUME NEW d \in Seq(Entry), NEW f, NEW s \in 1..TableLen,
         Whole(d, f), NEW q, IsRing(d, f, s, q), Len(q) >= 2,
         NEW m, NEW n, Shows(d, f, m), Alike(m, n, d[s].key), n[d[s].key] = NoValue
  PROVE  Shows(Copied(d, s, q[2]), f, n)
<1> DEFINE x == Copied(d, s, q[2])
           t == LeftOut(q, 2)
           r == d[q[2]].right
<1>1. /\ Len(q) \in Nat /\ q \in Seq(1..Len(d)) /\ q[1] = s
      /\ \A j \in 1..Len(q) : q[j] \in 1..Len(d)
      BY RingTypes
<1>2. 2 \in 2..Len(q) /\ 1 \in 1..Len(q)
      BY <1>1
<1>3. /\ x \in Seq(Entry) /\ Len(x) = Len(d) /\ IsRing(x, f, s, t)
      /\ OnlyRing(d, x, s) /\ HeadIsOut(d, x, s, q, r)
      BY MovedUp
<1>4. /\ Len(t) = Len(q) - 1
      /\ \A i \in 1..(Len(q) - 1) : t[i] = IF i < 2 THEN q[i] ELSE q[i + 1]
      BY <1>1, <1>2, LeftOutSeq
<1> HIDE DEF x, t
<1>5. /\ \A j \in 1..Len(d) : j \notin {q[2], s} => x[j].key = d[j].key /\ x[j].value = d[j].value
      /\ x[s].key = d[q[2]].key /\ x[s].value = d[q[2]].value
      BY <1>3 DEF HeadIsOut
<1>6. ASSUME NEW i \in 1..Len(t)
      PROVE  i + 1 \in 1..Len(q) /\ i + 1 # 1 /\ x[t[i]].key = d[q[i + 1]].key /\ x[t[i]].value = d[q[i + 1]].value
      <2>1. i \in Nat /\ i + 1 \in 1..Len(q) /\ i + 1 # 1 /\ i \in 1..(Len(q) - 1)
            BY <1>1, <1>4
      <2>2. CASE i = 1
            <3>1. t[i] = s /\ q[i + 1] = q[2]
                  BY <1>1, <1>4, <2>1, <2>2
            <3> QED BY <1>5, <2>1, <3>1
      <2>3. CASE i # 1
            <3>1. t[i] = q[i + 1] /\ i + 1 # 2
                  BY <1>4, <2>1, <2>3
            <3>2. q[i + 1] # q[2] /\ q[i + 1] # q[1]
                  BY <1>2, <2>1, <3>1, PlacesDiffer
            <3> QED BY <1>1, <1>5, <2>1, <3>1, <3>2
      <2> QED BY <2>2, <2>3
<1>7. ASSUME NEW j \in 1..Len(q), j # 1
      PROVE  j - 1 \in 1..Len(t) /\ (j - 1) + 1 = j
      BY <1>1, <1>4, <1>7
<1>8. Drops(d, x, q, t, 1)
      <2>1. ASSUME NEW j \in 1..Len(q), j # 1
            PROVE  \E i \in 1..Len(t) : x[t[i]].key = d[q[j]].key /\ x[t[i]].value = d[q[j]].value
            <3>1. j - 1 \in 1..Len(t) /\ (j - 1) + 1 = j
                  BY <1>7, <2>1
            <3>2. x[t[j - 1]].key = d[q[j]].key /\ x[t[j - 1]].value = d[q[j]].value
                  BY <1>6, <3>1
            <3> QED BY <3>1, <3>2
      <2>2. ASSUME NEW i \in 1..Len(t)
            PROVE  \E j \in 1..Len(q) :
                     j # 1 /\ x[t[i]].key = d[q[j]].key /\ x[t[i]].value = d[q[j]].value
            BY <1>6
      <2> QED BY <2>1, <2>2 DEF Drops
<1>9. Shows(x, f, n)
      BY <1>1, <1>2, <1>3, <1>8, DroppedShows
<1> QED BY <1>9 DEF x

(* An entry behind the slot has left.                                      *)
LEMMA TakenShows ==
  ASSUME NEW d \in Seq(Entry), NEW f, NEW s \in 1..TableLen,
         Whole(d, f), NEW q, IsRing(d, f, s, q), NEW p \in 2..Len(q),
         NEW m, NEW n, Shows(d, f, m), Alike(m, n, d[q[p]].key), n[d[q[p]].key] = NoValue
  PROVE  Shows(LeftUnlinked(d, q[p]), f, n)
<1> DEFINE x == LeftUnlinked(d, q[p])
           t == LeftOut(q, p)
<1>1. /\ Len(q) \in Nat /\ q \in Seq(1..Len(d))
      /\ \A j \in 1..Len(q) : q[j] \in 1..Len(d)
      BY RingTypes
<1>2. p \in 1..Len(q) /\ p \in Nat
      BY <1>1
<1>3. /\ x \in Seq(Entry) /\ Len(x) = Len(d) /\ IsRing(x, f, s, t)
      /\ OnlyRing(d, x, s) /\ EntryIsOut(d, x, q, p, d[q[p]].left, d[q[p]].right)
      BY TakenOut
<1>4. /\ Len(t) = Len(q) - 1
      /\ \A i \in 1..(Len(q) - 1) : t[i] = IF i < p THEN q[i] ELSE q[i + 1]
      BY <1>1, LeftOutSeq
<1> HIDE DEF x, t
<1>5. \A j \in 1..Len(d) : j # q[p] => x[j].key = d[j].key /\ x[j].value = d[j].value
      BY <1>3 DEF EntryIsOut
<1>6. ASSUME NEW j \in 1..Len(q), j # p
      PROVE  x[q[j]].key = d[q[j]].key /\ x[q[j]].value = d[q[j]].value
      <2>1. q[j] # q[p]
            BY <1>2, <1>6, PlacesDiffer
      <2> QED BY <1>1, <1>5, <2>1
<1>7. ASSUME NEW i \in 1..Len(t)
      PROVE  \E j \in 1..Len(q) : j # p /\ t[i] = q[j]
      <2>1. i \in 1..(Len(q) - 1) /\ i \in 1..Len(q) /\ i + 1 \in 1..Len(q)
            BY <1>1, <1>4
      <2>2. CASE i < p
            BY <1>2, <1>4, <2>1, <2>2
      <2>3. CASE ~(i < p)
            <3>1. i + 1 # p /\ t[i] = q[i + 1]
                  BY <1>2, <1>4, <2>1, <2>3
            <3> QED BY <2>1, <3>1
      <2> QED BY <2>2, <2>3
<1>8. ASSUME NEW j \in 1..Len(q), j # p
      PROVE  \E i \in 1..Len(t) : t[i] = q[j]
      <2>1. CASE j < p
            <3>1. j \in 1..(Len(q) - 1) /\ j \in 1..Len(t) /\ t[j] = q[j]
                  BY <1>1, <1>2, <1>4, <2>1
            <3> QED BY <3>1
      <2>2. CASE ~(j < p)
            <3> DEFINE i == j - 1
            <3>1. i \in 1..(Len(q) - 1) /\ i \in 1..Len(t) /\ ~(i < p) /\ i + 1 = j
                  BY <1>1, <1>2, <1>4, <1>8, <2>2
            <3>2. t[i] = q[i + 1]
                  BY <1>4, <3>1
            <3> QED BY <3>1, <3>2
      <2> QED BY <2>1, <2>2
<1>9. Drops(d, x, q, t, p)
      <2>1. ASSUME NEW i \in 1..Len(t)
            PROVE  \E j \in 1..Len(q) :
                     j # p /\ x[t[i]].key = d[q[j]].key /\ x[t[i]].value = d[q[j]].value
            <3>1. PICK j \in 1..Len(q) : j # p /\ t[i] = q[j]
                  BY <1>7
            <3>2. x[q[j]].key = d[q[j]].key /\ x[q[j]].value = d[q[j]].value
                  BY <1>6, <3>1
            <3> QED BY <3>1, <3>2
      <2>2. ASSUME NEW j \in 1..Len(q), j # p
            PROVE  \E i \in 1..Len(t) : x[t[i]].key = d[q[j]].key /\ x[t[i]].value = d[q[j]].value
            BY <1>6, <1>8, <2>2
      <2> QED BY <2>1, <2>2 DEF Drops
<1>10. Shows(x, f, n)
       BY <1>2, <1>3, <1>9, DroppedShows
<1> QED BY <1>10 DEF x

-----------------------------------------------------------------------------
(* What the last two writes of a deletion will make of its file. *)
RelinkedThird(r, l, d) ==
  [d EXCEPT ![l.hold.right] = [d[l.hold.right] EXCEPT !.left = SlotOf[r.key]]]
CopiedSecond(r, l, d) ==
  [d EXCEPT ![SlotOf[r.key]] = [l.hold EXCEPT !.left = d[SlotOf[r.key]].left]]
UnlinkedRight(l, d) ==
  [d EXCEPT ![l.hold.left] = [d[l.hold.left] EXCEPT !.right = l.hold.right]]
UnlinkedLeft(l, d) ==
  [d EXCEPT ![l.hold.right] = [d[l.hold.right] EXCEPT !.left = l.hold.left]]

Rest(p, r, l, d) == CASE p = "third"       -> CopiedSecond(r, l, RelinkedThird(r, l, d))
                      [] p = "copy"        -> CopiedSecond(r, l, d)
                      [] p = "unlinkright" -> UnlinkedLeft(l, UnlinkedRight(l, d))
                      [] p = "unlinkleft"  -> UnlinkedLeft(l, d)

Deleting == {"third", "copy", "unlinkright", "unlinkleft"}

(* What the contents d of file f, which a call at place p with request r   *)
(* and locals l is writing, mean, if the map is m: a PUT takes effect when *)
(* the right link to its entry is written, a DELETE when it is done.       *)
Means(p, r, l, d, f, m) ==
  /\ p \notin Deleting \cup {"linkleft"} => Shows(d, f, m)
  /\ p = "link" => r.op = "PUT" /\ d[Len(d)].value = r.value
  /\ p = "linkleft" => r.op = "PUT" /\ Shows(d, f, Effect(m, r))
  /\ p \in Deleting => /\ r.op = "DELETE" /\ m[r.key] # NoValue
                       /\ Shows(Rest(p, r, l, d), f, Effect(m, r))

MeansHere(w) == Means(pc[w], call[w], loc[w], Here(w), File(w), settled)

ShowsHere(w) == Shows(Here(w), File(w), settled)

(* A step of w comes to that, or to the answer of the map.                 *)
Tells(w) == IF pc'[w] = "idle"
            THEN /\ Shows(disk'[File(w)], File(w), Effect(settled, call[w]))
                 /\ call'[w] = Outcome(settled, call[w])
            ELSE Means(pc'[w], call[w], loc'[w], disk'[File(w)], File(w), settled)

SettledOK == settled \in [Keys -> MaybeValue]

LEMMA OutcomeIs ==
  ASSUME NEW m, NEW r \in Requests
  PROVE  /\ r.op = "PUT" => Outcome(m, r) = Answer(TRUE, NoValue)
         /\ r.op = "DELETE" /\ m[r.key] # NoValue => Outcome(m, r) = Answer(TRUE, NoValue)
         /\ r.op = "DELETE" /\ m[r.key] = NoValue => Outcome(m, r) = Answer(FALSE, NoValue)
         /\ r.op = "GET" /\ m[r.key] # NoValue => Outcome(m, r) = Answer(TRUE, m[r.key])
         /\ r.op = "GET" /\ m[r.key] = NoValue => Outcome(m, r) = Answer(FALSE, NoValue)
<1>1. CASE r.op = "PUT"
      BY <1>1 DEF Outcome
<1>2. CASE r.op = "DELETE"
      <2>1. Outcome(m, r) = Answer(m[r.key] # NoValue, NoValue)
            BY <1>2 DEF Outcome
      <2> QED BY <1>2, <2>1 DEF Answer
<1>3. CASE r.op = "GET"
      <2>1. Outcome(m, r) = Answer(m[r.key] # NoValue, m[r.key])
            BY <1>3 DEF Outcome
      <2> QED BY <1>3, <2>1 DEF Answer
<1> QED BY <1>1, <1>2, <1>3 DEF Requests

LEMMA Answered ==
  ASSUME NEW w \in Workers, Locked, NEW ok, NEW v, Return(w, ok, v)
  PROVE  pc'[w] = "idle" /\ call'[w] = Answer(ok, v)
BY DEF Return, Goto, Locked, StoreShape

(* What a call that is under way has to do with its key.                   *)
LEMMA CallFacts ==
  ASSUME NEW w \in Workers, Locked, Formed, SettledOK, pc[w] # "idle"
  PROVE  /\ call[w] \in Requests /\ call[w].key \in Keys
         /\ FileOf[call[w].key] = File(w) /\ SlotOf[call[w].key] = Slot(w)
         /\ Slot(w) \in 1..TableLen /\ File(w) \in Files
         /\ Here(w) \in Seq(Entry) /\ ProperFile(Here(w)) /\ loc[w] \in Locals
         /\ DOMAIN settled = Keys
         /\ Alike(settled, Effect(settled, call[w]), call[w].key)
         /\ call[w].op = "GET" => Effect(settled, call[w])[call[w].key] = settled[call[w].key]
         /\ call[w].op = "PUT" => Effect(settled, call[w])[call[w].key] = call[w].value
         /\ call[w].op = "DELETE" => Effect(settled, call[w])[call[w].key] = NoValue
         /\ ShowsHere(w) => settled[call[w].key] = Lookup(Here(w), Slot(w), call[w].key)
<1>1. /\ call[w] \in Requests /\ call[w].key \in Keys /\ ProperFile(Here(w))
      /\ loc[w] \in Locals
      BY BusyFits
<1>2. /\ FileOf[call[w].key] = File(w) /\ SlotOf[call[w].key] = Slot(w)
      /\ Slot(w) \in 1..TableLen /\ File(w) \in Files /\ Here(w) \in Seq(Entry)
      BY StepFacts
<1>3. DOMAIN settled = Keys
      BY DEF SettledOK
<1>4. ShowsHere(w) => settled[call[w].key] = Lookup(Here(w), Slot(w), call[w].key)
      BY <1>1, <1>2 DEF ShowsHere, Shows
<1>5. /\ Alike(settled, Effect(settled, call[w]), call[w].key)
      /\ call[w].op = "GET" => Effect(settled, call[w])[call[w].key] = settled[call[w].key]
      /\ call[w].op = "PUT" => Effect(settled, call[w])[call[w].key] = call[w].value
      /\ call[w].op = "DELETE" => Effect(settled, call[w])[call[w].key] = NoValue
      BY <1>1, <1>3, EffectIs
<1> QED BY <1>1, <1>2, <1>3, <1>4, <1>5

(* A step that leaves the map and the file.                                *)
LEMMA SameEffect ==
  ASSUME NEW m, NEW n, DOMAIN m = Keys, NEW d, NEW f, Shows(d, f, m), NEW j,
         Alike(m, n, j), n[j] = m[j]
  PROVE  Shows(d, f, n)
BY DEF Shows, Alike

(* The walk that has found its key has its value, and there is one.        *)
LEMMA FoundTells ==
  ASSUME NEW w \in Workers, Locked, Formed, SettledOK, Found(w), UnderwayHere(w), ShowsHere(w)
  PROVE  /\ settled[call[w].key] = Here(w)[loc[w].at].value
         /\ settled[call[w].key] # NoValue
<1>1. pc[w] # "idle" /\ Here(w)[loc[w].at].key = call[w].key /\ loc[w].at \in DOMAIN Here(w)
      BY DEF Found, AtEntry
<1>2. Here(w) \in Seq(Entry) /\ call[w].key \in Keys /\ ProperFile(Here(w))
      BY <1>1, CallFacts
<1>3. PICK q : IsRing(Here(w), File(w), Slot(w), q) /\ \E i \in 1..Len(q) : loc[w].at = q[i]
      BY FoundInRing
<1>4. Lookup(Here(w), Slot(w), call[w].key) = Here(w)[loc[w].at].value
      BY <1>1, <1>2, <1>3, LookupFound
<1>5. settled[call[w].key] = Here(w)[loc[w].at].value
      BY <1>1, <1>4, CallFacts
<1>6. ProperEntry(Here(w)[loc[w].at], Len(Here(w)))
      BY <1>1, <1>2 DEF ProperFile
<1> QED BY <1>1, <1>2, <1>5, <1>6, StoreAssumption DEF ProperEntry

(* And the one that has not found it has nothing.                          *)
LEMMA NotFoundTells ==
  ASSUME NEW w \in Workers, Locked, Formed, SettledOK, NotFound(w), UnderwayHere(w), ShowsHere(w)
  PROVE  settled[call[w].key] = NoValue
<1>1. pc[w] # "idle"
      BY DEF NotFound
<1>2. /\ Here(w) \in Seq(Entry) /\ call[w].key \in Keys /\ ProperFile(Here(w))
      /\ settled[call[w].key] = Lookup(Here(w), Slot(w), call[w].key)
      /\ Slot(w) \in 1..TableLen
      BY <1>1, CallFacts
<1>3. CASE pc[w] = "walk"
      <2>1. PICK q : /\ IsRing(Here(w), File(w), Slot(w), q)
                     /\ \A i \in 1..Len(q) : Here(w)[q[i]].key # call[w].key
            BY <1>3, HomeWithout
      <2> QED BY <1>2, <2>1, LookupAbsent
<1>4. CASE pc[w] = "head"
      <2>1. IsEmptySlot(Here(w), Slot(w))
            BY <1>4 DEF NotFound, is_file_entry_empty, IsEmptySlot
      <2>2. Slot(w) \in 1..Len(Here(w))
            BY <1>2, <1>4, StoreAssumption DEF UnderwayHere, Underway, Whole
      <2>3. Here(w)[Slot(w)].key = NoKey
            BY <1>2, <2>1, <2>2 DEF IsEmptySlot, ProperFile, ProperEntry
      <2>4. Here(w)[Slot(w)].key # call[w].key
            BY <1>2, <2>3, StoreAssumption
      <2> QED BY <1>2, <2>1, <2>2, <2>4, LookupSlot
<1> QED BY <1>3, <1>4 DEF NotFound

(* A file with no keys shows that they have no value.                      *)
LEMMA NoKeysShows ==
  ASSUME NEW d, NEW f, \A i \in DOMAIN d : d[i].key = NoKey
  PROVE  \A s : \A k \in Keys : Lookup(d, s, k) = NoValue
<1> SUFFICES ASSUME NEW s, NEW k \in Keys PROVE Lookup(d, s, k) = NoValue
    OBVIOUS
<1>1. \A i \in Ring(d, s) \cap DOMAIN d : d[i].key # k
      BY StoreAssumption
<1> QED BY <1>1, LookupNone

-----------------------------------------------------------------------------
(* Opening and creating a file, and walking through it, do not touch what  *)
(* it shows.                                                               *)
LEMMA OpenTells ==
  ASSUME NEW w \in Workers, Locked, Formed, UpdateOpen(w) \/ CreateBegin(w), ShowsHere(w)
  PROVE  Tells(w)
<1>1. pc[w] # "idle"
      BY DEF UpdateOpen, CreateBegin
<1>2. pc'[w] \in {"head", "setbit"} /\ UNCHANGED disk
      BY <1>1, StepFacts DEF UpdateOpen, CreateBegin, ToSlot, fileVars
<1>3. disk'[File(w)] = Here(w)
      BY <1>1, <1>2, StepFacts
<1> QED BY <1>2, <1>3 DEF Tells, Means, Deleting, ShowsHere

LEMMA CreationTells ==
  ASSUME NEW w \in Workers, Locked, Formed, SetBit(w) \/ Create(w) \/ Fill(w),
         Create(w) => Here(w) = <<>>, Fill(w) => UnderwayHere(w), MeansHere(w)
  PROVE  Tells(w)
<1>1. pc[w] \in {"setbit", "create", "fill"} /\ pc[w] # "idle"
      BY DEF SetBit, Create, Fill
<1>2. ShowsHere(w)
      BY <1>1 DEF MeansHere, Means, Deleting, ShowsHere
<1>3. CASE SetBit(w)
      <2>1. pc'[w] = "create" /\ disk'[File(w)] = Here(w)
            BY <1>1, <1>3, StepFacts DEF SetBit
      <2> QED BY <1>2, <2>1 DEF Tells, Means, Deleting, ShowsHere
<1>4. CASE Create(w)
      <2>1. pc'[w] = "fill" /\ disk'[File(w)] = <<>>
            BY <1>1, <1>4, StepFacts DEF Create
      <2> QED BY <1>2, <1>4, <2>1 DEF Tells, Means, Deleting, ShowsHere
<1>5. CASE Fill(w)
      <2> DEFINE d == Here(w)
                 x == Append(d, Blank)
      <2>1. pc[w] = "fill" /\ disk'[File(w)] = x
            BY <1>1, <1>5, StepFacts DEF Fill, Here
      <2>2. \A i \in DOMAIN d : d[i] = Blank
            BY <1>5, <2>1 DEF Underway, UnderwayHere
      <2>3. d \in Seq(Entry) /\ Len(d) \in Nat
            BY <1>1, StepFacts
      <2>4. /\ x \in Seq(Entry) /\ Len(x) = Len(d) + 1 /\ x[Len(d) + 1] = Blank
            /\ \A i \in 1..Len(d) : x[i] = d[i]
            BY <2>3, NoLocalsOK, AppendProperties
      <2>5. DOMAIN x = 1..(Len(d) + 1) /\ DOMAIN d = 1..Len(d)
            BY <2>3, <2>4
      <2>6. pc'[w] \in {"fill", "head"}
            BY <1>1, <1>5, <2>1, StepFacts DEF Fill, ToSlot
      <2> HIDE DEF x, d
      <2>7. \A i \in DOMAIN x : x[i] = Blank
            BY <2>2, <2>3, <2>4, <2>5
      <2>8. /\ \A s : \A k \in Keys : Lookup(x, s, k) = NoValue
            /\ \A s : \A k \in Keys : Lookup(d, s, k) = NoValue
            BY <2>2, <2>7, NoKeysShows DEF Blank
      <2>9. Shows(x, File(w), settled)
            BY <1>2, <2>8 DEF ShowsHere, Shows, d
      <2> QED BY <2>1, <2>6, <2>9 DEF Tells, Means, Deleting
<1> QED BY <1>3, <1>4, <1>5

LEMMA WalkTells ==
  ASSUME NEW w \in Workers, Locked, Formed, WalkOn(w) \/ WalkAstray(w) \/ WalkBlind(w),
         MeansHere(w)
  PROVE  Tells(w)
<1>1. pc[w] \in {"head", "walk"} /\ pc[w] # "idle"
      BY DEF WalkOn, WalkAstray, WalkBlind, AtEntry
<1>2. ShowsHere(w)
      BY <1>1 DEF MeansHere, Means, Deleting, ShowsHere
<1>3. pc'[w] \in {"head", "walk"} /\ UNCHANGED disk
      BY <1>1, StepFacts DEF WalkOn, WalkAstray, WalkBlind, fileVars, vars
<1>4. disk'[File(w)] = Here(w)
      BY <1>1, <1>3, StepFacts
<1> QED BY <1>2, <1>3, <1>4 DEF Tells, Means, Deleting, ShowsHere

(* write_to_db. *)
LEMMA WriteFoundTells ==
  ASSUME NEW w \in Workers, Locked, Formed, SettledOK, WriteFound(w),
         UnderwayHere(w), MeansHere(w)
  PROVE  Tells(w)
<1> DEFINE d == Here(w)
           s == Slot(w)
           f == File(w)
           a == loc[w].at
           e == [d[a] EXCEPT !.value = call[w].value]
           x == [d EXCEPT ![a] = e]
           m == Effect(settled, call[w])
<1>1. /\ pc[w] # "idle" /\ pc[w] \in {"head", "walk"} /\ Found(w) /\ call[w].op = "PUT"
      /\ Write(w, a, e) /\ ReturnExclusive(w, TRUE) /\ d[a].key = call[w].key
      BY DEF WriteFound, Found, AtEntry, Serves
<1>2. pc'[w] = "idle" /\ call'[w] = Answer(TRUE, NoValue)
      BY <1>1, Answered DEF ReturnExclusive
<1>3. call'[w] = Outcome(settled, call[w])
      BY <1>1, <1>2, CallFacts, OutcomeIs
<1>4. disk'[f] = x
      <2> HIDE DEF e
      <2> QED BY <1>1, Written
<1>5. Shows(d, f, settled) /\ Whole(d, f)
      BY <1>1 DEF MeansHere, Means, Deleting, UnderwayHere, Underway
<1>6. PICK q : IsRing(d, f, s, q) /\ \E i \in 1..Len(q) : a = q[i]
      BY <1>1, FoundInRing
<1>7. PICK i \in 1..Len(q) : a = q[i]
      BY <1>6
<1>8. /\ d \in Seq(Entry) /\ s \in 1..TableLen /\ call[w].value \in MaybeValue
      /\ Alike(settled, m, call[w].key) /\ m[call[w].key] = call[w].value
      BY <1>1, CallFacts, StepFacts
<1>9. a \in 1..Len(d) /\ d[a] \in Entry
      BY <1>6, <1>7, <1>8, RingTypes
<1>10. /\ e \in Entry /\ e.left = d[a].left /\ e.right = d[a].right
       /\ e.key = d[a].key /\ e.value = call[w].value
       BY <1>8, <1>9 DEF Entry
<1> HIDE DEF d, e, m, s, f, a
<1>11. /\ x \in Seq(Entry) /\ Len(x) = Len(d) /\ x[a] = e
       /\ \A j \in 1..Len(d) : j # a => x[j] = d[j]
       BY <1>8, <1>9, <1>10, EntryWritten
<1> HIDE DEF x
<1>12. /\ \A j \in 1..Len(d) : j # q[i] => x[j] = d[j]
       /\ x[q[i]].left = d[q[i]].left /\ x[q[i]].right = d[q[i]].right
       /\ x[q[i]].key = d[q[i]].key
       BY <1>7, <1>10, <1>11
<1>13. Alike(settled, m, d[q[i]].key) /\ m[d[q[i]].key] = x[q[i]].value
       BY <1>1, <1>7, <1>8, <1>10, <1>11
<1>14. Shows(x, f, m)
       BY <1>5, <1>6, <1>8, <1>11, <1>12, <1>13, FoundShows
<1> QED BY <1>2, <1>3, <1>4, <1>14 DEF Tells, f, m

LEMMA WriteFirstTells ==
  ASSUME NEW w \in Workers, Locked, Formed, SettledOK, WriteFirst(w),
         UnderwayHere(w), MeansHere(w)
  PROVE  Tells(w)
<1> DEFINE d == Here(w)
           s == Slot(w)
           f == File(w)
           e == EntryFor(w, s, s)
           x == [d EXCEPT ![s] = e]
           m == Effect(settled, call[w])
<1>1. /\ pc[w] # "idle" /\ pc[w] = "head" /\ NotFound(w) /\ call[w].op = "PUT"
      /\ Write(w, s, e) /\ ReturnExclusive(w, TRUE)
      BY DEF WriteFirst, Serves
<1>2. pc'[w] = "idle" /\ call'[w] = Answer(TRUE, NoValue)
      BY <1>1, Answered DEF ReturnExclusive
<1>3. call'[w] = Outcome(settled, call[w])
      BY <1>1, <1>2, CallFacts, OutcomeIs
<1>4. disk'[f] = x
      <2> HIDE DEF e
      <2> QED BY <1>1, Written
<1>5. Shows(d, f, settled) /\ Whole(d, f)
      BY <1>1 DEF MeansHere, Means, Deleting, UnderwayHere, Underway
<1>6. IsEmptySlot(d, s)
      BY <1>1 DEF NotFound, is_file_entry_empty, IsEmptySlot
<1>7. /\ d \in Seq(Entry) /\ s \in 1..TableLen /\ s \in 1..Len(d)
      /\ call[w].key \in Keys /\ SlotOf[call[w].key] = s /\ FileOf[call[w].key] = f
      /\ call[w].value \in MaybeValue
      /\ Alike(settled, m, call[w].key) /\ m[call[w].key] = call[w].value
      BY <1>1, <1>5, CallFacts, StepFacts DEF Whole
<1>8. d[s].key \notin Keys
      <2>1. ProperEntry(d[s], Len(d))
            BY <1>1, <1>7, EntryHere
      <2> QED BY <1>6, <2>1, StoreAssumption DEF IsEmptySlot, ProperEntry
<1>9. /\ e \in Entry /\ e.left = s /\ e.right = s /\ e.key = call[w].key
      /\ e.value = call[w].value
      BY <1>7 DEF EntryFor, Entry
<1> HIDE DEF d, e, m, s, f
<1>10. /\ x \in Seq(Entry) /\ Len(x) = Len(d) /\ x[s] = e
       /\ \A j \in 1..Len(d) : j # s => x[j] = d[j]
       BY <1>7, <1>9, EntryWritten
<1> HIDE DEF x
<1>11. IsRing(x, f, s, <<s>>) /\ OnlyRing(d, x, s)
       BY <1>5, <1>7, <1>9, <1>10, FirstWhole
<1>12. /\ x[s].key \in Keys /\ SlotOf[x[s].key] = s
       /\ Alike(settled, m, x[s].key) /\ m[x[s].key] = x[s].value
       BY <1>7, <1>9, <1>10
<1>13. Shows(x, f, m)
       BY <1>5, <1>6, <1>7, <1>8, <1>10, <1>11, <1>12, FirstShows
<1> QED BY <1>2, <1>3, <1>4, <1>13 DEF Tells, f, m

LEMMA WriteAppendTells ==
  ASSUME NEW w \in Workers, Locked, Formed, SettledOK, WriteAppend(w),
         UnderwayHere(w), MeansHere(w)
  PROVE  Tells(w)
<1> DEFINE d == Here(w)
           s == Slot(w)
           f == File(w)
           e == EntryFor(w, loc[w].prev, s)
           x == Append(d, e)
<1>1. /\ pc[w] # "idle" /\ pc[w] = "walk" /\ NotFound(w) /\ call[w].op = "PUT"
      /\ pc'[w] = "link" /\ disk'[f] = x
      <2>1. pc[w] = "walk" /\ NotFound(w) /\ call[w].op = "PUT"
            BY DEF WriteAppend, Serves
      <2> QED BY <2>1, StepFacts DEF WriteAppend, Here
<1>2. Shows(d, f, settled) /\ Whole(d, f)
      BY <1>1 DEF MeansHere, Means, Deleting, UnderwayHere, Underway
<1>3. PICK q : IsRing(d, f, s, q)
      BY <1>1, HomeWithout
<1>4. /\ d \in Seq(Entry) /\ s \in 1..TableLen /\ call[w].key \in Keys
      /\ call[w].value \in MaybeValue /\ loc[w] \in Locals /\ Len(d) \in Nat
      /\ TableLen \in Nat
      BY <1>1, CallFacts, StepFacts
<1>5. e \in Entry /\ e.value = call[w].value
      BY <1>4 DEF EntryFor, Entry, Locals
<1> HIDE DEF d, e, s, f
<1>6. /\ x \in Seq(Entry) /\ Len(x) = Len(d) + 1 /\ x[Len(d) + 1] = e
      /\ \A i \in 1..Len(d) : x[i] = d[i]
      BY <1>4, <1>5, AppendProperties
<1> HIDE DEF x
<1>7. OnlyRing(d, x, s) /\ Len(x) >= Len(d)
      BY <1>4, <1>6 DEF OnlyRing
<1>8. \A i \in 1..Len(q) : q[i] \in 1..Len(d)
      BY <1>3, <1>4, RingTypes
<1>9. IsRing(x, f, s, q)
      BY <1>3, <1>4, <1>6, <1>7, <1>8, SameRing
<1>10. \A k, v : Holds(d, q, k, v) <=> Holds(x, q, k, v)
       BY <1>6, <1>8 DEF Holds
<1>11. \A k : Lookup(x, s, k) = Lookup(d, s, k)
       BY <1>3, <1>4, <1>6, <1>9, <1>10, LookupSame
<1>12. Shows(x, f, settled)
       <2> SUFFICES ASSUME NEW k \in Keys, FileOf[k] = f
                    PROVE  settled[k] = Lookup(x, SlotOf[k], k)
           BY DEF Shows
       <2>1. settled[k] = Lookup(d, SlotOf[k], k) /\ SlotOf[k] \in 1..TableLen
             BY <1>2, StoreAssumption DEF Shows
       <2>2. CASE SlotOf[k] = s
             BY <1>11, <2>1, <2>2
       <2>3. CASE SlotOf[k] # s
             BY <1>2, <1>4, <1>6, <1>7, <2>1, <2>3, LookupOther
       <2> QED BY <2>2, <2>3
<1>13. x[Len(x)].value = call[w].value
       BY <1>5, <1>6
<1> QED BY <1>1, <1>12, <1>13 DEF Tells, Means, Deleting, f

(* The walk back at its slot finds its file with the table.                *)
LEMMA WriteNothingNever ==
  ASSUME NEW w \in Workers, Locked, Formed, WriteNothing(w), UnderwayHere(w)
  PROVE  FALSE
<1>1. pc[w] # "idle" /\ pc[w] = "walk" /\ Slot(w) \notin DOMAIN Here(w)
      BY DEF WriteNothing
<1>2. Whole(Here(w), File(w))
      BY <1>1 DEF UnderwayHere, Underway
<1> QED BY <1>1, <1>2, StepFacts DEF Whole

-----------------------------------------------------------------------------
(* Another left link of the slot is of no consequence. *)
LeftRelinked(d, x, s) ==
  /\ \A j \in 1..Len(d) : j # s => x[j] = d[j]
  /\ x[s].right = d[s].right /\ x[s].key = d[s].key /\ x[s].value = d[s].value

LEMMA SlotLeftShows ==
  ASSUME NEW d \in Seq(Entry), NEW x \in Seq(Entry), NEW f, NEW s \in 1..TableLen,
         Whole(d, f), Len(x) = Len(d), NEW q, IsRing(d, f, s, q), Len(q) >= 2,
         LeftRelinked(d, x, s),
         NEW m, Shows(d, f, m), NEW k \in Keys, FileOf[k] = f, SlotOf[k] = s
  PROVE  Shows(x, f, m)
<1>1. IsRing(x, f, s, q) /\ OnlyRing(d, x, s)
      BY SlotLeftWhole DEF LeftRelinked
<1>2. \A i \in 1..Len(q) : q[i] \in 1..Len(d)
      BY RingTypes
<1>3. \A i \in 1..Len(q) : x[q[i]].key = d[q[i]].key /\ x[q[i]].value = d[q[i]].value
      BY <1>2 DEF LeftRelinked
<1>4. \A j, v : Holds(d, q, j, v) <=> Holds(x, q, j, v)
      BY <1>3 DEF Holds
<1>5. Lookup(x, s, k) = Lookup(d, s, k)
      BY <1>1, <1>4, LookupSame
<1>6. Alike(m, m, k) /\ m[k] = Lookup(x, s, k) /\ Len(x) >= Len(d)
      <2>1. Len(d) \in Nat
            OBVIOUS
      <2> QED BY <1>5, <2>1 DEF Alike, Shows
<1> QED BY <1>1, <1>4, <1>6, RingShows

(* The right link to its entry, the n-th, makes a PUT take effect.         *)
NewEntry(d, f, s, q, n) ==
  /\ n > TableLen /\ d[n].left = q[Len(q)] /\ d[n].right = s
  /\ d[n].key \in Keys /\ FileOf[d[n].key] = f /\ SlotOf[d[n].key] = s
  /\ \A i \in 1..Len(q) : d[q[i]].key # d[n].key

RightLinked(d, x, s, q, n) ==
  /\ \A j \in 1..Len(d) : j # q[Len(q)] => x[j] = d[j]
  /\ x[q[Len(q)]].right = n
  /\ x[q[Len(q)]].key = d[q[Len(q)]].key /\ x[q[Len(q)]].value = d[q[Len(q)]].value
  /\ Len(q) > 1 => x[q[Len(q)]].left = d[q[Len(q)]].left
  /\ Len(q) = 1 => x[s].left = n

LEMMA RightLinkShows ==
  ASSUME NEW d \in Seq(Entry), NEW x \in Seq(Entry), NEW f, NEW s \in 1..TableLen,
         Whole(d, f), Len(x) = Len(d), NEW q, IsRing(d, f, s, q),
         NEW n \in 1..Len(d), NewEntry(d, f, s, q, n), RightLinked(d, x, s, q, n),
         NEW m, NEW e, Shows(d, f, m), Alike(m, e, d[n].key), e[d[n].key] = d[n].value
  PROVE  Shows(x, f, e)
<1>1. /\ n > TableLen /\ d[n].left = q[Len(q)] /\ d[n].right = s
      /\ d[n].key \in Keys /\ FileOf[d[n].key] = f /\ SlotOf[d[n].key] = s
      /\ \A i \in 1..Len(q) : d[q[i]].key # d[n].key
      BY DEF NewEntry
<1>2. /\ \A j \in 1..Len(d) : j # q[Len(q)] => x[j] = d[j]
      /\ x[q[Len(q)]].right = n /\ x[q[Len(q)]].key = d[q[Len(q)]].key
      /\ Len(q) > 1 => x[q[Len(q)]].left = d[q[Len(q)]].left
      /\ Len(q) = 1 => x[s].left = n
      BY DEF RightLinked
<1>3. Whole(x, f) /\ IsRing(x, f, s, Append(q, n)) /\ OnlyRing(d, x, s)
      BY <1>1, <1>2, LinkedWhole, SMTT(60)
<1>4. \A j \in 1..Len(d) : x[j].key = d[j].key /\ x[j].value = d[j].value
      BY DEF RightLinked
<1> QED BY <1>1, <1>3, <1>4, LinkedShows

LEMMA LinkingFacts ==
  ASSUME NEW w \in Workers, Locked, Formed, SettledOK, pc[w] = "link",
         UnderwayHere(w), MeansHere(w)
  PROVE  /\ Here(w) \in Seq(Entry) /\ Slot(w) \in 1..TableLen /\ Whole(Here(w), File(w))
         /\ Len(Here(w)) \in 1..Len(Here(w))
         /\ Shows(Here(w), File(w), settled) /\ call[w].op = "PUT"
         /\ LET a == Here(w)[Len(Here(w))]
                m == Effect(settled, call[w])
            IN /\ Alike(settled, m, a.key) /\ m[a.key] = a.value
               /\ \E q : /\ IsRing(Here(w), File(w), Slot(w), q)
                         /\ loc[w].prev = q[Len(q)] /\ q[Len(q)] \in 1..Len(Here(w))
                         /\ NewEntry(Here(w), File(w), Slot(w), q, Len(Here(w)))
<1> DEFINE d == Here(w)
           f == File(w)
           s == Slot(w)
<1>1. /\ Whole(d, f) /\ Shows(d, f, settled) /\ call[w].op = "PUT"
      /\ Linking(call[w], loc[w], d, f) /\ d[Len(d)].value = call[w].value
      BY DEF MeansHere, Means, Deleting, UnderwayHere, Underway
<1>2. /\ d \in Seq(Entry) /\ s \in 1..TableLen /\ call[w].key \in Keys
      /\ FileOf[call[w].key] = f /\ SlotOf[call[w].key] = s
      /\ Alike(settled, Effect(settled, call[w]), call[w].key)
      /\ Effect(settled, call[w])[call[w].key] = call[w].value
      BY <1>1, CallFacts
<1>3. Len(d) > TableLen /\ Len(d) \in 1..Len(d)
      <2>1. Len(d) > TableLen
            BY <1>1 DEF Linking
      <2> QED BY <1>2, <2>1, StoreAssumption
<1>4. d[Len(d)].left = loc[w].prev /\ d[Len(d)].right = s /\ d[Len(d)].key = call[w].key
      BY <1>1, <1>2 DEF Linking
<1>5. PICK q : /\ IsRing(d, f, s, q)
               /\ loc[w].prev = q[Len(q)]
               /\ \A i \in 1..Len(q) : d[q[i]].key # call[w].key
      BY <1>1, <1>2 DEF Linking
<1>6. Len(q) \in 1..Len(q) /\ q[Len(q)] \in 1..Len(d)
      <2>1. Len(q) \in 1..Len(q)
            BY <1>2, <1>5, RingTypes
      <2> QED BY <1>2, <1>5, <2>1, RingTypes
<1> HIDE DEF d, f, s
<1>7. /\ Alike(settled, Effect(settled, call[w]), d[Len(d)].key)
      /\ Effect(settled, call[w])[d[Len(d)].key] = d[Len(d)].value
      BY <1>1, <1>2, <1>4
<1>8. NewEntry(d, f, s, q, Len(d))
      BY <1>2, <1>3, <1>4, <1>5 DEF NewEntry
<1>9. \E t : /\ IsRing(d, f, s, t)
             /\ loc[w].prev = t[Len(t)] /\ t[Len(t)] \in 1..Len(d)
             /\ NewEntry(d, f, s, t, Len(d))
      BY <1>5, <1>6, <1>8
<1> QED BY <1>1, <1>2, <1>3, <1>7, <1>9 DEF d, f, s

LEMMA LinkBothTells ==
  ASSUME NEW w \in Workers, Locked, Formed, SettledOK, LinkBoth(w),
         UnderwayHere(w), MeansHere(w)
  PROVE  Tells(w)
<1> DEFINE d == Here(w)
           s == Slot(w)
           f == File(w)
           n == Len(d)
           e == [d[s] EXCEPT !.left = n, !.right = n]
           x == [d EXCEPT ![s] = e]
           m == Effect(settled, call[w])
<1>1. /\ pc[w] # "idle" /\ pc[w] = "link" /\ loc[w].prev = s
      /\ Write(w, s, e) /\ ReturnExclusive(w, TRUE)
      BY DEF LinkBoth
<1>2. /\ d \in Seq(Entry) /\ s \in 1..TableLen /\ Whole(d, f) /\ n \in 1..Len(d)
      /\ Shows(d, f, settled) /\ call[w].op = "PUT"
      /\ Alike(settled, m, d[n].key) /\ m[d[n].key] = d[n].value
      BY <1>1, LinkingFacts
<1>3. PICK q : /\ IsRing(d, f, s, q)
               /\ loc[w].prev = q[Len(q)] /\ q[Len(q)] \in 1..Len(d)
               /\ NewEntry(d, f, s, q, n)
      BY <1>1, LinkingFacts
<1>4. pc'[w] = "idle" /\ call'[w] = Answer(TRUE, NoValue)
      BY <1>1, Answered DEF ReturnExclusive
<1>5. call'[w] = Outcome(settled, call[w])
      BY <1>1, <1>2, <1>4, CallFacts, OutcomeIs
<1>6. disk'[f] = x
      <2> HIDE DEF e
      <2> QED BY <1>1, Written
<1>7. Len(q) = 1
      <2>1. Len(q) \in 1..Len(q) /\ 1 \in 1..Len(q) /\ q[1] = s
            BY <1>2, <1>3, RingTypes
      <2>2. q[Len(q)] = q[1]
            BY <1>1, <1>3, <2>1
      <2>3. d \in Seq(Entry) /\ IsRing(d, f, s, q)
            BY <1>2, <1>3
      <2> HIDE DEF d, f, s, e, x, n, m
      <2> QED BY <2>1, <2>2, <2>3, PlacesDiffer
<1>8. d[s] \in Entry /\ n \in Nat /\ s \in 1..Len(d)
      BY <1>1, <1>2, <1>3
<1>9. /\ e \in Entry /\ e.left = n /\ e.right = n /\ e.key = d[s].key /\ e.value = d[s].value
      <2> HIDE DEF d, s, n
      <2> QED BY <1>8 DEF Entry
<1> HIDE DEF e
<1>10. /\ x \in Seq(Entry) /\ Len(x) = Len(d) /\ x[s] = e
       /\ \A j \in 1..Len(d) : j # s => x[j] = d[j]
       BY <1>2, <1>8, <1>9, EntryWritten
<1> HIDE DEF x, d, n, s, f, m
<1>11. RightLinked(d, x, s, q, n)
       BY <1>1, <1>3, <1>7, <1>9, <1>10 DEF RightLinked
<1>12. Shows(x, f, m)
       BY <1>2, <1>3, <1>10, <1>11, RightLinkShows
<1> QED BY <1>4, <1>5, <1>6, <1>12 DEF Tells, f, m

LEMMA LinkRightTells ==
  ASSUME NEW w \in Workers, Locked, Formed, SettledOK, LinkRight(w),
         UnderwayHere(w), MeansHere(w)
  PROVE  Tells(w)
<1> DEFINE d == Here(w)
           s == Slot(w)
           f == File(w)
           n == Len(d)
           p == loc[w].prev
           e == [d[p] EXCEPT !.right = n]
           x == [d EXCEPT ![p] = e]
           m == Effect(settled, call[w])
<1>1. /\ pc[w] # "idle" /\ pc[w] = "link" /\ p # s
      /\ Write(w, p, e) /\ Goto(w, "linkleft")
      BY DEF LinkRight
<1>2. /\ d \in Seq(Entry) /\ s \in 1..TableLen /\ Whole(d, f) /\ n \in 1..Len(d)
      /\ Shows(d, f, settled) /\ call[w].op = "PUT"
      /\ Alike(settled, m, d[n].key) /\ m[d[n].key] = d[n].value
      BY <1>1, LinkingFacts
<1>3. PICK q : /\ IsRing(d, f, s, q)
               /\ p = q[Len(q)] /\ q[Len(q)] \in 1..Len(d)
               /\ NewEntry(d, f, s, q, n)
      BY <1>1, LinkingFacts
<1>4. pc'[w] = "linkleft"
      BY <1>1, StepFacts
<1>5. disk'[f] = x
      <2> HIDE DEF e
      <2> QED BY <1>1, Written
<1>6. Len(q) # 1
      <2>1. q[1] = s
            BY <1>2, <1>3, RingTypes
      <2> QED BY <1>1, <1>3, <2>1
<1>7. d[p] \in Entry /\ n \in Nat /\ p \in 1..Len(d)
      BY <1>2, <1>3
<1>8. /\ e \in Entry /\ e.left = d[p].left /\ e.right = n /\ e.key = d[p].key /\ e.value = d[p].value
      <2> HIDE DEF d, p, n
      <2> QED BY <1>7 DEF Entry
<1> HIDE DEF e
<1>9. /\ x \in Seq(Entry) /\ Len(x) = Len(d) /\ x[p] = e
      /\ \A j \in 1..Len(d) : j # p => x[j] = d[j]
      BY <1>2, <1>7, <1>8, EntryWritten
<1> HIDE DEF x, d, n, s, f, m, p
<1>10. RightLinked(d, x, s, q, n)
       BY <1>3, <1>6, <1>8, <1>9 DEF RightLinked
<1>11. Shows(x, f, m)
       BY <1>2, <1>3, <1>9, <1>10, RightLinkShows
<1> QED BY <1>2, <1>4, <1>5, <1>11 DEF Tells, Means, Deleting, f, m

LEMMA LinkLeftTells ==
  ASSUME NEW w \in Workers, Locked, Formed, SettledOK, LinkLeft(w),
         UnderwayHere(w), MeansHere(w)
  PROVE  Tells(w)
<1> DEFINE d == Here(w)
           s == Slot(w)
           f == File(w)
           n == Len(d)
           e == [d[s] EXCEPT !.left = n]
           x == [d EXCEPT ![s] = e]
           m == Effect(settled, call[w])
<1>1. /\ pc[w] # "idle" /\ pc[w] = "linkleft"
      /\ Write(w, s, e) \/ UNCHANGED disk
      /\ ReturnExclusive(w, TRUE)
      BY DEF LinkLeft, ThenWrite
<1>2. call[w].op = "PUT" /\ Shows(d, f, m) /\ Whole(d, f)
      BY <1>1 DEF MeansHere, Means, Deleting, UnderwayHere, Underway
<1>3. pc'[w] = "idle" /\ call'[w] = Answer(TRUE, NoValue)
      BY <1>1, Answered DEF ReturnExclusive
<1>4. call'[w] = Outcome(settled, call[w])
      BY <1>1, <1>2, <1>3, CallFacts, OutcomeIs
<1>5. CASE UNCHANGED disk
      <2>1. disk'[f] = d
            BY <1>1, <1>5, StepFacts
      <2> QED BY <1>2, <1>3, <1>4, <2>1 DEF Tells
<1>6. CASE Write(w, s, e)
      <2>1. disk'[f] = x
            <3> HIDE DEF e
            <3> QED BY <1>1, <1>6, Written
      <2>2. /\ d \in Seq(Entry) /\ s \in 1..TableLen /\ s \in 1..Len(d) /\ SlotOf[call[w].key] = s
            /\ FileOf[call[w].key] = f /\ call[w].key \in Keys
            BY <1>1, <1>2, CallFacts, StoreAssumption DEF Whole
      <2>3. PICK q : IsRing(d, f, s, q) /\ Len(q) >= 2
            BY <1>1, <2>2 DEF UnderwayHere, Underway
      <2>4. d[s] \in Entry /\ n \in Nat
            BY <2>2
      <2>5. e \in Entry /\ e.right = d[s].right /\ e.key = d[s].key /\ e.value = d[s].value
            <3> HIDE DEF d, s, n
            <3> QED BY <2>4 DEF Entry
      <2> HIDE DEF e
      <2>6. /\ x \in Seq(Entry) /\ Len(x) = Len(d) /\ x[s] = e
            /\ \A j \in 1..Len(d) : j # s => x[j] = d[j]
            BY <2>2, <2>5, EntryWritten
      <2> HIDE DEF x, d, s, f, m
      <2>7. LeftRelinked(d, x, s)
            BY <2>5, <2>6 DEF LeftRelinked
      <2>8. Shows(x, f, m)
            BY <1>2, <2>2, <2>3, <2>6, <2>7, SlotLeftShows
      <2> QED BY <1>3, <1>4, <2>1, <2>8 DEF Tells, f, m
<1> QED BY <1>1, <1>5, <1>6

-----------------------------------------------------------------------------
(* delete_from_db. *)
LEMMA DeleteNoneTells ==
  ASSUME NEW w \in Workers, Locked, Formed, SettledOK, DeleteNone(w),
         UnderwayHere(w), MeansHere(w)
  PROVE  Tells(w)
<1> DEFINE m == Effect(settled, call[w])
<1>1. /\ pc[w] # "idle" /\ pc[w] \in {"head", "walk"} /\ NotFound(w) /\ call[w].op = "DELETE"
      /\ ReturnExclusive(w, FALSE) /\ UNCHANGED disk
      BY DEF DeleteNone, NotFound, Serves, fileVars
<1>2. ShowsHere(w)
      BY <1>1 DEF MeansHere, Means, Deleting, ShowsHere
<1>3. settled[call[w].key] = NoValue
      BY <1>1, <1>2, NotFoundTells
<1>4. pc'[w] = "idle" /\ call'[w] = Answer(FALSE, NoValue)
      BY <1>1, Answered DEF ReturnExclusive
<1>5. call'[w] = Outcome(settled, call[w])
      BY <1>1, <1>3, <1>4, CallFacts, OutcomeIs
<1>6. disk'[File(w)] = Here(w)
      BY <1>1, StepFacts
<1>7. /\ DOMAIN settled = Keys /\ Alike(settled, m, call[w].key)
      /\ m[call[w].key] = settled[call[w].key]
      BY <1>1, <1>3, CallFacts
<1> HIDE DEF m
<1>8. Shows(Here(w), File(w), m)
      BY <1>2, <1>7, SameEffect DEF ShowsHere
<1> QED BY <1>4, <1>5, <1>6, <1>8 DEF Tells, m

LEMMA DeleteOnlyTells ==
  ASSUME NEW w \in Workers, Locked, Formed, SettledOK, DeleteOnly(w),
         UnderwayHere(w), MeansHere(w)
  PROVE  Tells(w)
<1> DEFINE d == Here(w)
           s == Slot(w)
           f == File(w)
           x == [d EXCEPT ![s] = Blank]
           m == Effect(settled, call[w])
<1>1. /\ pc[w] # "idle" /\ pc[w] = "head" /\ Found(w) /\ call[w].op = "DELETE"
      /\ AloneInRing(w) /\ Write(w, s, Blank) /\ ReturnExclusive(w, TRUE)
      BY DEF DeleteOnly, Serves
<1>2. ShowsHere(w) /\ Shows(d, f, settled) /\ Whole(d, f)
      BY <1>1 DEF MeansHere, Means, Deleting, ShowsHere, UnderwayHere, Underway
<1>3. settled[call[w].key] # NoValue
      BY <1>1, <1>2, FoundTells
<1>4. pc'[w] = "idle" /\ call'[w] = Answer(TRUE, NoValue)
      BY <1>1, Answered DEF ReturnExclusive
<1>5. call'[w] = Outcome(settled, call[w])
      BY <1>1, <1>3, <1>4, CallFacts, OutcomeIs
<1>6. disk'[f] = x
      BY <1>1, Written
<1>7. PICK q : IsRing(d, f, s, q) /\ \E i \in 1..Len(q) : loc[w].at = q[i] /\ i = 1
      BY <1>1, FoundInRing
<1>8. /\ d \in Seq(Entry) /\ s \in 1..TableLen /\ s \in 1..Len(d)
      /\ Alike(settled, m, call[w].key) /\ m[call[w].key] = NoValue
      BY <1>1, <1>2, CallFacts, StoreAssumption DEF Whole
<1>9. q[1] = s /\ 1 \in 1..Len(q) /\ d[loc[w].at].key = call[w].key /\ d[s].right = s
      BY <1>1, <1>7, <1>8, RingTypes DEF Found, AloneInRing
<1>10. d[s].key = call[w].key /\ d[q[1]].right = s
       BY <1>7, <1>9
<1> HIDE DEF d, s, f, m
<1>11. 1 = Len(q)
       <2>1. PICK i \in 1..Len(q) : i = 1
             BY <1>9
       <2>2. d[q[i]].right = s
             BY <1>10, <2>1
       <2>3. i = Len(q)
             BY <1>7, <1>8, <2>2, WalkIsHome
       <2> QED BY <2>1, <2>3
<1>12. /\ x \in Seq(Entry) /\ Len(x) = Len(d) /\ x[s] = Blank
       /\ \A j \in 1..Len(d) : j # s => x[j] = d[j]
       BY <1>8, NoLocalsOK, EntryWritten
<1> HIDE DEF x
<1>13. OnlyRing(d, x, s)
       BY <1>2, <1>8, <1>12, OnlyOutWhole
<1>14. Len(q) = 1 /\ Alike(settled, m, d[s].key) /\ m[d[s].key] = NoValue
       BY <1>8, <1>10, <1>11
<1>15. Shows(x, f, m)
       BY <1>2, <1>7, <1>8, <1>12, <1>13, <1>14, OnlyShows
<1> QED BY <1>4, <1>5, <1>6, <1>15 DEF Tells, f, m

LEMMA DeleteHeadTells ==
  ASSUME NEW w \in Workers, Locked, Formed, SettledOK, DeleteHead(w),
         UnderwayHere(w), MeansHere(w)
  PROVE  Tells(w)
<1> DEFINE d == Here(w)
           s == Slot(w)
           f == File(w)
           second == d[s].right
           x == [d EXCEPT ![second] = Blank]
           m == Effect(settled, call[w])
           l == loc'[w]
<1>1. /\ pc[w] # "idle" /\ pc[w] = "head" /\ Found(w) /\ call[w].op = "DELETE"
      /\ ~AloneInRing(w) /\ Write(w, second, Blank) /\ Goto(w, "third")
      /\ loc' = [loc EXCEPT ![w].hold = d[second]]
      BY DEF DeleteHead, Serves
<1>2. ShowsHere(w) /\ Shows(d, f, settled) /\ Whole(d, f)
      BY <1>1 DEF MeansHere, Means, Deleting, ShowsHere, UnderwayHere, Underway
<1>3. settled[call[w].key] # NoValue
      BY <1>1, <1>2, FoundTells
<1>4. pc'[w] = "third"
      BY <1>1, StepFacts
<1>5. disk'[f] = x
      BY <1>1, Written
<1>6. l.hold = d[second]
      BY <1>1 DEF Formed, TypeOK
<1>7. PICK q : IsRing(d, f, s, q) /\ \E i \in 1..Len(q) : loc[w].at = q[i] /\ i = 1
      BY <1>1, FoundInRing
<1>8. /\ d \in Seq(Entry) /\ s \in 1..TableLen /\ SlotOf[call[w].key] = s
      /\ Alike(settled, m, call[w].key) /\ m[call[w].key] = NoValue
      BY <1>1, CallFacts
<1>9. Len(q) \in Nat /\ q[1] = s /\ 1 \in 1..Len(q)
      BY <1>7, <1>8, RingTypes
<1>10. d[s].key = call[w].key
       BY <1>1, <1>7, <1>9 DEF Found
<1>11. InRing(d, f, s, q, 1) /\ (Len(q) = 1 => d[s].left = s)
       BY <1>7, <1>9 DEF IsRing
<1>12. Len(q) # 1
       <2>1. Len(q) = 1 => d[s].right = s
             BY <1>9, <1>11 DEF InRing
       <2> QED BY <1>1, <1>11, <2>1 DEF AloneInRing
<1>13. second = q[2] /\ Len(q) >= 2
       <2>1. second = q[2]
             BY <1>9, <1>11, <1>12 DEF InRing
       <2>2. Len(q) >= 2
             BY <1>9, <1>12
       <2> QED BY <2>1, <2>2
<1>14. x = Cleared(d, q[2]) /\ l.hold = d[q[2]]
       BY <1>6, <1>13 DEF Cleared
<1> HIDE DEF d, s, f, m, x, l, second
<1>15. Rest("third", call[w], l, x) = Copied(d, s, q[2])
       BY <1>8, <1>14 DEF Rest, CopiedSecond, RelinkedThird, Copied, ThirdLinked
<1>16. Shows(Copied(d, s, q[2]), f, m)
       <2>1. Alike(settled, m, d[s].key) /\ m[d[s].key] = NoValue
             BY <1>8, <1>10
       <2> QED BY <1>2, <1>7, <1>8, <1>13, <2>1, MovedShows
<1>17. Shows(Rest("third", call[w], l, x), f, m)
       BY <1>15, <1>16
<1> QED BY <1>1, <1>3, <1>4, <1>5, <1>17 DEF Tells, Means, Deleting, f, m, l

LEMMA DeleteEntryTells ==
  ASSUME NEW w \in Workers, Locked, Formed, SettledOK, DeleteEntry(w),
         UnderwayHere(w), MeansHere(w)
  PROVE  Tells(w)
<1> DEFINE d == Here(w)
           s == Slot(w)
           f == File(w)
           a == loc[w].at
           x == [d EXCEPT ![a] = Blank]
           m == Effect(settled, call[w])
           l == loc'[w]
<1>1. /\ pc[w] # "idle" /\ pc[w] = "walk" /\ Found(w) /\ call[w].op = "DELETE"
      /\ Write(w, a, Blank) /\ Goto(w, "unlinkright")
      /\ loc' = [loc EXCEPT ![w].hold = d[a]]
      BY DEF DeleteEntry, Serves
<1>2. ShowsHere(w) /\ Shows(d, f, settled) /\ Whole(d, f)
      BY <1>1 DEF MeansHere, Means, Deleting, ShowsHere, UnderwayHere, Underway
<1>3. settled[call[w].key] # NoValue
      BY <1>1, <1>2, FoundTells
<1>4. pc'[w] = "unlinkright"
      BY <1>1, StepFacts
<1>5. disk'[f] = x
      <2>1. pc[w] # "idle" /\ Write(w, a, Blank)
            BY <1>1
      <2>2. disk'[File(w)] = [Here(w) EXCEPT ![a] = Blank]
            BY <2>1, Written
      <2> QED BY <2>2
<1>6. l.hold = d[a]
      BY <1>1 DEF Formed, TypeOK
<1>7. PICK q : IsRing(d, f, s, q) /\ \E i \in 1..Len(q) : a = q[i] /\ i # 1
      BY <1>1, FoundInRing
<1>8. PICK i \in 1..Len(q) : a = q[i] /\ i # 1
      BY <1>7
<1>9. /\ d \in Seq(Entry) /\ s \in 1..TableLen
      /\ Alike(settled, m, call[w].key) /\ m[call[w].key] = NoValue
      BY <1>1, CallFacts
<1>10. i \in 2..Len(q) /\ d[q[i]].key = call[w].key
       BY <1>1, <1>8 DEF Found
<1>11. x = Cleared(d, q[i]) /\ l.hold = d[q[i]]
       BY <1>6, <1>8 DEF Cleared
<1> HIDE DEF d, s, f, m, x, l, a
<1>12. Rest("unlinkright", call[w], l, x) = LeftUnlinked(d, q[i])
       BY <1>11 DEF Rest, UnlinkedLeft, UnlinkedRight, LeftUnlinked, RightUnlinked
<1>13. Shows(LeftUnlinked(d, q[i]), f, m)
       <2>1. Alike(settled, m, d[q[i]].key) /\ m[d[q[i]].key] = NoValue
             BY <1>9, <1>10
       <2> QED BY <1>2, <1>7, <1>9, <1>10, <2>1, TakenShows
<1>14. Shows(Rest("unlinkright", call[w], l, x), f, m)
       BY <1>12, <1>13
<1> QED BY <1>1, <1>3, <1>4, <1>5, <1>14 DEF Tells, Means, Deleting, f, m, l

(* The writes that are left come to what was said they would.              *)
LEMMA RelinkThirdTells ==
  ASSUME NEW w \in Workers, Locked, Formed, RelinkThird(w), UnderwayHere(w), MeansHere(w)
  PROVE  Tells(w)
<1> DEFINE d == Here(w)
           h == loc[w].hold
           e == [d[h.right] EXCEPT !.left = Slot(w)]
           x == [d EXCEPT ![h.right] = e]
<1>1. pc[w] # "idle" /\ pc[w] = "third"
      BY DEF RelinkThird
<1>2. SlotOf[call[w].key] = Slot(w)
      BY <1>1, StepFacts
<1>3. h.right \in DOMAIN d
      <2>1. MovingUp("third", call[w], loc[w], d, File(w))
            BY <1>1 DEF UnderwayHere, Underway
      <2>2. PICK d0 \in Seq(Entry) : \E q :
                /\ IsRing(d0, File(w), Slot(w), q) /\ Len(q) >= 2
                /\ h = d0[q[2]] /\ d = Cleared(d0, q[2])
            BY <1>2, <2>1 DEF MovingUp
      <2>3. PICK q : /\ IsRing(d0, File(w), Slot(w), q) /\ Len(q) >= 2
                     /\ h = d0[q[2]] /\ d = Cleared(d0, q[2])
            BY <2>2
      <2>4. 2 \in 2..Len(q)
            BY <2>3, RingTypes
      <2>5. h.right \in 1..Len(d0)
            BY <2>3, <2>4, Neighbours
      <2>6. DOMAIN d = DOMAIN d0 /\ DOMAIN d0 = 1..Len(d0)
            BY <2>3 DEF Cleared
      <2> QED BY <2>5, <2>6
<1>4. Write(w, h.right, e) /\ Goto(w, "copy") /\ UNCHANGED loc
      BY <1>3 DEF RelinkThird
<1>5. pc'[w] = "copy" /\ loc'[w] = loc[w]
      BY <1>1, <1>4, StepFacts
<1>6. disk'[File(w)] = x
      <2> HIDE DEF e
      <2> QED BY <1>1, <1>4, Written
<1>7. Rest("copy", call[w], loc[w], x) = Rest("third", call[w], loc[w], d)
      <2>1. x = RelinkedThird(call[w], loc[w], d)
            BY <1>2 DEF RelinkedThird
      <2> HIDE DEF x, d
      <2> QED BY <2>1 DEF Rest
<1>8. /\ call[w].op = "DELETE" /\ settled[call[w].key] # NoValue
      /\ Shows(Rest("third", call[w], loc[w], d), File(w), Effect(settled, call[w]))
      BY <1>1 DEF MeansHere, Means, Deleting
<1> HIDE DEF x, d
<1> QED BY <1>5, <1>6, <1>7, <1>8 DEF Tells, Means, Deleting

LEMMA CopySecondTells ==
  ASSUME NEW w \in Workers, Locked, Formed, SettledOK, CopySecond(w), MeansHere(w)
  PROVE  Tells(w)
<1> DEFINE d == Here(w)
           h == loc[w].hold
           e == [h EXCEPT !.left = d[Slot(w)].left]
           x == [d EXCEPT ![Slot(w)] = e]
<1>1. pc[w] # "idle" /\ pc[w] = "copy" /\ Write(w, Slot(w), e) /\ ReturnExclusive(w, TRUE)
      BY DEF CopySecond
<1>2. SlotOf[call[w].key] = Slot(w)
      BY <1>1, StepFacts
<1>3. pc'[w] = "idle" /\ call'[w] = Answer(TRUE, NoValue)
      BY <1>1, Answered DEF ReturnExclusive
<1>4. disk'[File(w)] = x
      <2> HIDE DEF e
      <2> QED BY <1>1, Written
<1>5. Rest("copy", call[w], loc[w], d) = x
      BY <1>2 DEF Rest, CopiedSecond
<1>6. /\ call[w].op = "DELETE" /\ settled[call[w].key] # NoValue
      /\ Shows(Rest("copy", call[w], loc[w], d), File(w), Effect(settled, call[w]))
      BY <1>1 DEF MeansHere, Means, Deleting
<1>7. call'[w] = Outcome(settled, call[w])
      BY <1>1, <1>3, <1>6, CallFacts, OutcomeIs
<1> HIDE DEF x, d
<1> QED BY <1>3, <1>4, <1>5, <1>6, <1>7 DEF Tells

LEMMA UnlinkRightTells ==
  ASSUME NEW w \in Workers, Locked, Formed, UnlinkRight(w), MeansHere(w)
  PROVE  Tells(w)
<1> DEFINE d == Here(w)
           h == loc[w].hold
           e == [d[h.left] EXCEPT !.right = h.right]
           x == [d EXCEPT ![h.left] = e]
<1>1. /\ pc[w] # "idle" /\ pc[w] = "unlinkright" /\ Write(w, h.left, e)
      /\ Goto(w, "unlinkleft") /\ UNCHANGED loc
      BY DEF UnlinkRight
<1>2. pc'[w] = "unlinkleft" /\ loc'[w] = loc[w]
      BY <1>1, StepFacts
<1>3. disk'[File(w)] = x
      <2> HIDE DEF e
      <2> QED BY <1>1, Written
<1>4. Rest("unlinkleft", call[w], loc[w], x) = Rest("unlinkright", call[w], loc[w], d)
      <2>1. x = UnlinkedRight(loc[w], d)
            BY DEF UnlinkedRight
      <2> HIDE DEF x, d
      <2> QED BY <2>1 DEF Rest
<1>5. /\ call[w].op = "DELETE" /\ settled[call[w].key] # NoValue
      /\ Shows(Rest("unlinkright", call[w], loc[w], d), File(w), Effect(settled, call[w]))
      BY <1>1 DEF MeansHere, Means, Deleting
<1> HIDE DEF x, d
<1> QED BY <1>2, <1>3, <1>4, <1>5 DEF Tells, Means, Deleting

LEMMA UnlinkLeftTells ==
  ASSUME NEW w \in Workers, Locked, Formed, SettledOK, UnlinkLeft(w),
         UnderwayHere(w), MeansHere(w)
  PROVE  Tells(w)
<1> DEFINE d == Here(w)
           h == loc[w].hold
           e == [d[h.right] EXCEPT !.left = h.left]
           x == [d EXCEPT ![h.right] = e]
<1>1. /\ pc[w] # "idle" /\ pc[w] = "unlinkleft" /\ ThenWrite(w, h.left, h.right, e)
      /\ ReturnExclusive(w, TRUE)
      BY DEF UnlinkLeft
<1>2. pc'[w] = "idle" /\ call'[w] = Answer(TRUE, NoValue)
      BY <1>1, Answered DEF ReturnExclusive
<1>3. h.left # MaxIdx
      <2>1. TakingOut("unlinkleft", call[w], loc[w], d, File(w))
            BY <1>1 DEF UnderwayHere, Underway
      <2>2. PICK d0 \in Seq(Entry) : \E q : \E i \in 2..Len(q) :
                IsRing(d0, File(w), SlotOf[call[w].key], q) /\ h = d0[q[i]]
            BY <2>1 DEF TakingOut
      <2>3. PICK q : \E i \in 2..Len(q) :
                IsRing(d0, File(w), SlotOf[call[w].key], q) /\ h = d0[q[i]]
            BY <2>2
      <2>4. PICK i \in 2..Len(q) :
                IsRing(d0, File(w), SlotOf[call[w].key], q) /\ h = d0[q[i]]
            BY <2>3
      <2>5. h.left \in 1..Len(d0)
            BY <2>4, Neighbours
      <2> QED BY <2>5 DEF MaxIdx
<1>4. disk'[File(w)] = x
      <2>1. Write(w, h.right, e)
            BY <1>1, <1>3 DEF ThenWrite
      <2> HIDE DEF e
      <2> QED BY <1>1, <2>1, Written
<1>5. Rest("unlinkleft", call[w], loc[w], d) = x
      BY DEF Rest, UnlinkedLeft
<1>6. /\ call[w].op = "DELETE" /\ settled[call[w].key] # NoValue
      /\ Shows(Rest("unlinkleft", call[w], loc[w], d), File(w), Effect(settled, call[w]))
      BY <1>1 DEF MeansHere, Means, Deleting
<1>7. call'[w] = Outcome(settled, call[w])
      BY <1>1, <1>2, <1>6, CallFacts, OutcomeIs
<1> HIDE DEF x, d
<1> QED BY <1>2, <1>4, <1>5, <1>6, <1>7 DEF Tells

-----------------------------------------------------------------------------
BitsKept == onDisk \subseteq exists

(* A file that is not there has no contents; it is there once a call has   *)
(* opened or created it, and not before.                                   *)
Opened(p) == p \notin {"idle", "call", "setbit", "create"}

FilesThere ==
  /\ \A f \in Files : f \notin onDisk => disk[f] = <<>>
  /\ \A w \in Workers : pc[w] \in {"setbit", "create"} => File(w) \notin onDisk
  /\ \A w \in Workers : Opened(pc[w]) => File(w) \in onDisk

LEMMA FilesThereInit == Init => FilesThere
BY DEF Init, FilesThere, Opened

LEMMA FilesThereCrash == FilesThere /\ Crash => FilesThere'
BY DEF Crash, FilesThere, Opened

(* How a step gets to its place. *)
LEMMA StepComes ==
  ASSUME NEW w \in Workers, Locked, Formed, Step(w)
  PROVE  \/ pc'[w] = "idle"
         \/ pc'[w] = "head" /\ pc[w] = "call" /\ File(w) \in onDisk
         \/ CreateBegin(w) \/ SetBit(w) \/ Create(w)
         \/ Opened(pc[w]) /\ Opened(pc'[w])
<1>1. pc[w] # "idle"
      BY StepTurns DEF Turning, Turns
<1>2. \A p : Goto(w, p) => pc'[w] = p
      BY <1>1, StepFacts
<1>3. CASE UpdateOpen(w) \/ UpdateRefused(w) \/ ReadOpen(w) \/ DeleteNoFile(w)
      BY <1>2, <1>3 DEF UpdateOpen, UpdateRefused, ReadOpen, DeleteNoFile, Open, ToSlot, Return
<1>4. CASE Creation(w)
      BY <1>2, <1>4 DEF Creation, CreateRefused, Fill, ToSlot, Return, Opened
<1>5. CASE WalkOn(w) \/ WalkAstray(w) \/ WalkBlind(w)
      BY <1>2, <1>5 DEF WalkOn, WalkAstray, WalkBlind, AtEntry, vars, Opened
<1>6. CASE ReadFound(w) \/ ReadNone(w) \/ WriteNothing(w) \/ DeleteNone(w)
      BY <1>2, <1>6 DEF ReadFound, ReadNone, WriteNothing, DeleteNone, ReturnShared,
         ReturnExclusive, Return
<1>7. CASE \/ WriteFound(w) \/ WriteFirst(w) \/ WriteAppend(w) \/ LinkBoth(w)
           \/ LinkRight(w) \/ LinkLeft(w)
      BY <1>2, <1>7 DEF WriteFound, WriteFirst, WriteAppend, LinkBoth, LinkRight, LinkLeft,
         ReturnExclusive, Return, NotFound, Opened
<1>8. CASE \/ DeleteOnly(w) \/ DeleteHead(w) \/ RelinkThird(w) \/ CopySecond(w)
           \/ DeleteEntry(w) \/ UnlinkRight(w) \/ UnlinkLeft(w)
      BY <1>2, <1>8 DEF DeleteOnly, DeleteHead, RelinkThird, CopySecond, DeleteEntry,
         UnlinkRight, UnlinkLeft, ReturnExclusive, Return, Opened
<1> QED BY <1>3, <1>4, <1>5, <1>6, <1>7, <1>8 DEF Step, Read, Update, Delete

(* Files only come to be. *)
LEMMA FilesStay ==
  ASSUME NEW w \in Workers, Step(w)
  PROVE  onDisk \subseteq onDisk'
<1>1. CASE Create(w)
      BY <1>1 DEF Create
<1>2. CASE ~Create(w)
      BY <1>2, OnlyCreateAdds
<1> QED BY <1>1, <1>2

LEMMA OthersKeep ==
  ASSUME NEW w \in Workers, Formed, Locked, Step(w), NEW v \in Workers, v # w
  PROVE  pc'[v] = pc[v] /\ call'[v] = call[v] /\ loc'[v] = loc[v] /\ File(v)' = File(v)
<1>1. PICK p, r, l, d : Turns(w, p, r, l, d)
      BY StepTurns DEF Turning
<1>2. pc'[v] = pc[v] /\ call'[v] = call[v] /\ loc'[v] = loc[v]
      BY <1>1 DEF Turns, Formed, TypeOK
<1> QED BY <1>2 DEF File

(* The request stays until it is answered. *)
LEMMA OwnKeeps ==
  ASSUME NEW w \in Workers, Formed, Locked, Step(w)
  PROVE  /\ pc[w] # "idle"
         /\ pc'[w] # "idle" => call'[w] = call[w] /\ File(w)' = File(w)
         /\ pc'[w] = "idle" => call'[w] \in Answers
         /\ call' = [call EXCEPT ![w] = call'[w]]
<1>1. PICK p, r, l, d : Turns(w, p, r, l, d)
      BY StepTurns DEF Turning
<1>2. pc[w] # "idle" /\ pc'[w] = p /\ call'[w] = r /\ call' = [call EXCEPT ![w] = r]
      BY <1>1 DEF Turns, Formed, TypeOK
<1>3. IF p = "idle" THEN r \in Answers ELSE r = call[w]
      BY <1>1 DEF Turns
<1> QED BY <1>2, <1>3 DEF File

LEMMA FilesThereStep ==
  ASSUME NEW w \in Workers, Locked, Formed, FilesThere, BitsKept, Step(w)
  PROVE  FilesThere'
<1>1. pc[w] # "idle" /\ (pc'[w] # "idle" => File(w)' = File(w)) /\ File(w) \in Files
      BY OwnKeeps, StepFacts
<1>2. ASSUME NEW f \in Files, f \notin onDisk' PROVE disk'[f] = <<>>
      <2>1. f \notin onDisk /\ disk[f] = <<>>
            BY <1>2, FilesStay DEF FilesThere
      <2>2. ASSUME disk'[f] # disk[f] PROVE FALSE
            <3>1. HoldsExclusive(w, f)
                  BY <2>2, WritesOwnFile
            <3>2. File(w) = f /\ pc[w] \notin {"idle", "call"}
                  BY <3>1 DEF HoldsExclusive
            <3>3. pc[w] \in {"setbit", "create"}
                  BY <2>1, <3>2 DEF FilesThere, Opened
            <3>4. \/ SetBit(w) \/ Create(w) \/ CreateRefused(w) \/ Fill(w)
                  \/ WalkOn(w) \/ WalkAstray(w) \/ WalkBlind(w)
                  \/ WriteFound(w) \/ WriteFirst(w) \/ WriteAppend(w) \/ WriteNothing(w)
                  \/ LinkBoth(w) \/ LinkRight(w) \/ LinkLeft(w)
                  \/ DeleteNone(w) \/ DeleteOnly(w) \/ DeleteHead(w) \/ DeleteEntry(w)
                  \/ RelinkThird(w) \/ CopySecond(w) \/ UnlinkRight(w) \/ UnlinkLeft(w)
                  BY <3>1, <3>2, OwnerDoes
            <3>5. SetBit(w) \/ Create(w) \/ CreateRefused(w)
                  BY <3>3, <3>4 DEF Fill, WalkOn, WalkAstray, WalkBlind, AtEntry, WriteFound,
                     WriteFirst, WriteAppend, WriteNothing, Found, LinkBoth, LinkRight, LinkLeft,
                     DeleteNone, DeleteOnly, DeleteHead, DeleteEntry, NotFound,
                     RelinkThird, CopySecond, UnlinkRight, UnlinkLeft
            <3>6. CASE SetBit(w) \/ CreateRefused(w)
                  BY <2>2, <3>6 DEF SetBit, CreateRefused, fileVars
            <3>7. CASE Create(w)
                  BY <1>2, <3>2, <3>7 DEF Create
            <3> QED BY <3>5, <3>6, <3>7
      <2> QED BY <2>1, <2>2
<1>3. ASSUME NEW v \in Workers, v # w
      PROVE  /\ pc'[v] \in {"setbit", "create"} => File(v)' \notin onDisk'
             /\ Opened(pc'[v]) => File(v)' \in onDisk'
      <2>1. pc'[v] = pc[v] /\ File(v)' = File(v)
            BY <1>3, OthersKeep
      <2>2. Opened(pc'[v]) => File(v)' \in onDisk'
            BY <2>1, FilesStay DEF FilesThere
      <2>3. ASSUME pc'[v] \in {"setbit", "create"}, File(v)' \in onDisk' PROVE FALSE
            <3>1. File(v) \notin onDisk /\ File(v) \in onDisk' /\ pc[v] \in {"setbit", "create"}
                  BY <2>1, <2>3 DEF FilesThere
            <3>2. File(v) \in Files
                  BY <3>1, StepFacts
            <3>3. HoldsExclusive(w, File(v))
                  BY <3>1, <3>2, WritesOwnFile
            <3>4. HoldsExclusive(v, File(v))
                  BY <3>1 DEF HoldsExclusive
            <3> QED BY <1>3, <3>2, <3>3, <3>4 DEF Locked, LocksMatchCalls
      <2> QED BY <2>2, <2>3
<1>4. /\ pc'[w] \in {"setbit", "create"} => File(w)' \notin onDisk'
      /\ Opened(pc'[w]) => File(w)' \in onDisk'
      <2>1. \A p : Goto(w, p) => pc'[w] = p
            BY <1>1, StepFacts
      <2>2. CASE pc'[w] = "idle"
            BY <2>2 DEF Opened
      <2>3. CASE pc'[w] = "head" /\ pc[w] = "call" /\ File(w) \in onDisk
            BY <1>1, <2>3, FilesStay
      <2>4. CASE CreateBegin(w)
            <3>1. pc'[w] = "setbit" /\ File(w) \notin exists /\ onDisk' = onDisk
                  BY <2>1, <2>4 DEF CreateBegin, fileVars
            <3> QED BY <1>1, <3>1 DEF BitsKept, Opened
      <2>5. CASE SetBit(w)
            <3>1. pc'[w] = "create" /\ pc[w] = "setbit" /\ onDisk' = onDisk
                  BY <2>1, <2>5 DEF SetBit
            <3> QED BY <1>1, <3>1 DEF FilesThere, Opened
      <2>6. CASE Create(w)
            <3>1. pc'[w] = "fill" /\ onDisk' = onDisk \cup {File(w)}
                  BY <2>1, <2>6 DEF Create
            <3> QED BY <1>1, <3>1
      <2>7. CASE Opened(pc[w]) /\ Opened(pc'[w])
            <3>1. File(w) \in onDisk' /\ pc'[w] # "idle" /\ pc'[w] \notin {"setbit", "create"}
                  BY <2>7, FilesStay DEF FilesThere, Opened
            <3> QED BY <1>1, <3>1
      <2> QED BY <2>2, <2>3, <2>4, <2>5, <2>6, <2>7, StepComes
<1> QED BY <1>2, <1>3, <1>4 DEF FilesThere

LEMMA FilesThereBegin ==
  ASSUME NEW w \in Workers, Formed, Locked, FilesThere, Begin(w)
  PROVE  FilesThere'
<1>1. /\ pc' = [pc EXCEPT ![w] = "call"] /\ UNCHANGED <<disk, onDisk>>
      /\ \A v \in Workers : v # w => call'[v] = call[v]
      BY DEF Begin, Goto, fileVars, Formed, TypeOK
<1>2. /\ pc'[w] = "call"
      /\ \A v \in Workers : v # w => pc'[v] = pc[v] /\ File(v)' = File(v)
      BY <1>1 DEF Locked, StoreShape, File
<1>3. \A f \in Files : f \notin onDisk' => disk'[f] = <<>>
      BY <1>1 DEF FilesThere
<1>4. \A v \in Workers : /\ pc'[v] \in {"setbit", "create"} => File(v)' \notin onDisk'
                         /\ Opened(pc'[v]) => File(v)' \in onDisk'
      BY <1>1, <1>2 DEF FilesThere, Opened
<1> QED BY <1>3, <1>4 DEF FilesThere

-----------------------------------------------------------------------------
(* Calls that read find the file they walk in as the walk takes it to be.  *)
Reads(w) == HoldsShared(w, File(w))

ReadersWell == ~torn => \A w \in Workers : Reads(w) => UnderwayHere(w)

LEMMA ReadersInit == Init => ReadersWell
BY DEF Init, ReadersWell, Reads, HoldsShared

LEMMA ReadersCrash == Crash => ReadersWell'
BY DEF Crash, ReadersWell, Reads, HoldsShared

LEMMA ReadersBegin ==
  ASSUME NEW w \in Workers, Formed, Locked, ReadersWell, Begin(w)
  PROVE  ReadersWell'
<1>1. /\ pc' = [pc EXCEPT ![w] = "call"] /\ UNCHANGED <<disk, loc, torn>>
      /\ \A v \in Workers : v # w => call'[v] = call[v]
      BY DEF Begin, Goto, fileVars, pastVars, Formed, TypeOK
<1>2. /\ pc'[w] = "call"
      /\ \A v \in Workers : v # w => pc'[v] = pc[v]
      BY <1>1 DEF Locked, StoreShape
<1> SUFFICES ASSUME ~torn', NEW v \in Workers, Reads(v)' PROVE UnderwayHere(v)'
    BY DEF ReadersWell
<1>3. v # w
      BY <1>2 DEF Reads, HoldsShared
<1>4. pc'[v] = pc[v] /\ call'[v] = call[v] /\ loc'[v] = loc[v] /\ disk' = disk
      BY <1>1, <1>2, <1>3
<1>5. UnderwayHere(v)
      BY <1>1, <1>4 DEF ReadersWell, Reads, HoldsShared, File
<1> QED BY <1>4, <1>5 DEF UnderwayHere, Here, File

LEMMA ReadersStep ==
  ASSUME NEW w \in Workers, Formed, Locked, Locked', RingInv, FilesThere, ReadersWell, Step(w)
  PROVE  ReadersWell'
<1> SUFFICES ASSUME ~torn', NEW v \in Workers, Reads(v)' PROVE UnderwayHere(v)'
    BY DEF ReadersWell
<1>1. ~torn
      BY StepPast
<1>2. CASE v # w
      <2>1. /\ pc'[v] = pc[v] /\ call'[v] = call[v] /\ loc'[v] = loc[v] /\ File(v)' = File(v)
            BY <1>2, OthersKeep
      <2>2. Reads(v)
            BY <2>1 DEF Reads, HoldsShared
      <2>3. UnderwayHere(v) /\ pc[v] # "idle"
            BY <1>1, <2>2 DEF ReadersWell, Reads, HoldsShared
      <2>4. File(v) \in Files
            BY <2>3, StepFacts
      <2>5. v \in readers[File(v)]
            BY <2>2, <2>4 DEF Locked, LocksMatchCalls, Reads
      <2>6. ~HoldsExclusive(w, File(v))
            BY <2>4, <2>5, StoreAssumption DEF Locked, LocksMatchCalls
      <2>7. disk'[File(v)] = disk[File(v)]
            BY <2>4, <2>6, WritesOwnFile
      <2> QED BY <2>1, <2>3, <2>7 DEF UnderwayHere, Here
<1>3. CASE v = w
      <2>1. pc'[w] \in {"head", "walk"} /\ pc'[w] # "idle" /\ call'[w].op = "GET"
            BY <1>3 DEF Reads, HoldsShared
      <2>2. pc[w] # "idle" /\ call'[w] = call[w] /\ File(w)' = File(w) /\ File(w) \in Files
            BY <2>1, OwnKeeps, StepFacts
      <2>3. call[w].op = "GET"
            BY <2>1, <2>2
      <2>4. CASE pc[w] = "call"
            <3>1. ReadOpen(w)
                  <4>1. ~(UpdateOpen(w) \/ UpdateRefused(w) \/ DeleteNoFile(w) \/ CreateBegin(w))
                        BY <2>3 DEF UpdateOpen, UpdateRefused, DeleteNoFile, CreateBegin
                  <4> QED BY <2>1, <2>4, <4>1 DEF Step, Read, Update, Delete, Creation, SetBit, Create, Fill,
                        CreateRefused, WalkOn, WalkAstray, WalkBlind, ReadFound, ReadNone,
                        WriteFound, WriteFirst, WriteAppend, WriteNothing, LinkBoth, LinkRight,
                        LinkLeft, DeleteNone, DeleteOnly, DeleteHead, DeleteEntry, RelinkThird,
                        CopySecond, UnlinkRight, UnlinkLeft, Found, NotFound, AtEntry
            <3>2. \A p : Goto(w, p) => pc'[w] = p
                  BY <2>2, StepFacts
            <3>3. writer[File(w)] = NoWorker /\ UNCHANGED disk /\ pc'[w] = "head" /\ File(w) \in onDisk
                  BY <2>1, <3>1, <3>2 DEF ReadOpen, Return, Open, fileVars, ToSlot
            <3>4. Whole(Here(w), File(w))
                  BY <1>1, <3>3 DEF RingInv, FileWell, Here
            <3>5. disk'[File(w)] = Here(w)
                  BY <3>3 DEF Here
            <3> QED BY <1>3, <2>2, <3>3, <3>4, <3>5 DEF UnderwayHere, Underway, Here
      <2>5. CASE pc[w] # "call"
            <3>1. Reads(w)
                  <4>1. ~HoldsExclusive(w, File(w))'
                        BY <2>1 DEF HoldsExclusive
                  <4>2. pc[w] \in {"head", "walk"}
                        <5>1. CASE GoesOn(w)
                              BY <2>1, <2>3, <5>1 DEF GoesOn, Locked, StoreShape
                        <5>2. CASE WithoutLock(w)
                              BY <2>1, <2>2, <2>5, <5>2 DEF WithoutLock
                        <5>3. CASE TakesShared(w) \/ TakesExclusive(w)
                              BY <2>5, <5>3 DEF TakesShared, TakesExclusive
                        <5>4. CASE GivesBack(w)
                              BY <2>1, <5>4 DEF GivesBack, Locked, StoreShape
                        <5>5. CASE UNCHANGED lockedVars
                              BY <2>1, <5>5 DEF lockedVars
                        <5> QED BY <5>1, <5>2, <5>3, <5>4, <5>5, StepSorted DEF Sorted
                  <4> QED BY <2>3, <4>2 DEF Reads, HoldsShared
            <3>2. UnderwayHere(w) /\ pc[w] \in {"head", "walk"}
                  BY <1>1, <3>1 DEF ReadersWell, Reads, HoldsShared
            <3>3. WalkOn(w) \/ WalkAstray(w) \/ WalkBlind(w)
                  <4>1. ~(ReadFound(w) \/ ReadNone(w))
                        <5>1. \A ok, x : ReturnShared(w, ok, x) => pc'[w] = "idle"
                              BY DEF ReturnShared, Return, Goto, Locked, StoreShape
                        <5> QED BY <2>1, <5>1 DEF ReadFound, ReadNone
                  <4>2. ~(UpdateOpen(w) \/ UpdateRefused(w) \/ ReadOpen(w) \/ Creation(w))
                        BY <3>2 DEF UpdateOpen, UpdateRefused, ReadOpen, Creation, CreateBegin,
                           SetBit, Create, CreateRefused, Fill
                  <4>3. ~(WriteFound(w) \/ WriteFirst(w) \/ WriteAppend(w) \/ WriteNothing(w)
                          \/ LinkBoth(w) \/ LinkRight(w) \/ LinkLeft(w))
                        BY <2>3, <3>2 DEF WriteFound, WriteFirst, WriteAppend, WriteNothing, Serves,
                           LinkBoth, LinkRight, LinkLeft
                  <4>4. ~Delete(w)
                        BY <2>3, <3>2 DEF Delete, DeleteNoFile, DeleteNone, DeleteOnly, DeleteHead,
                           DeleteEntry, Serves, RelinkThird, CopySecond, UnlinkRight, UnlinkLeft
                  <4> QED BY <4>1, <4>2, <4>3, <4>4 DEF Step, Read, Update
            <3>4. Leaves(w)
                  BY <3>2, <3>3, WalkLeaves
            <3> QED BY <1>3, <2>1, <2>2, <3>4 DEF Leaves, UnderwayHere, Here
      <2> QED BY <2>4, <2>5
<1> QED BY <1>2, <1>3

-----------------------------------------------------------------------------
(* The map agrees with a file nobody writes, and with what the file will   *)
(* mean when its writer is done.                                           *)
FileTells(f) == IF writer[f] = NoWorker
                THEN Shows(disk[f], f, settled)
                ELSE Means(pc[writer[f]], call[writer[f]], loc[writer[f]], disk[f], f, settled)

MapTold == ~torn /\ ~refused => \A f \in Files : FileTells(f)

Answering == \A w \in Workers : pc[w] = "idle" => call[w] \in Answers

(* What the step of the owner of a lock comes to. *)
LEMMA OwnerTells ==
  ASSUME NEW w \in Workers, Locked, Formed, SettledOK, FilesThere, Step(w),
         HoldsExclusive(w, File(w)) \/ UpdateOpen(w) \/ CreateBegin(w),
         ~refused', File(w) \in onDisk => FileWell(File(w)), FileTells(File(w))
  PROVE  Tells(w)
<1>1. pc[w] # "idle" /\ File(w) \in Files
      <2>1. pc[w] # "idle"
            BY DEF HoldsExclusive, UpdateOpen, CreateBegin
      <2> QED BY <2>1, StepFacts
<1>2. CASE UpdateOpen(w) \/ CreateBegin(w)
      <2>1. writer[File(w)] = NoWorker
            BY <1>2 DEF UpdateOpen, CreateBegin, LockExclusive, Unlocked
      <2>2. ShowsHere(w)
            BY <2>1 DEF FileTells, ShowsHere, Here
      <2> QED BY <1>2, <2>2, OpenTells
<1>3. CASE HoldsExclusive(w, File(w))
      <2>1. writer[File(w)] = w /\ w # NoWorker
            BY <1>1, <1>3, StoreAssumption DEF Locked, LocksMatchCalls
      <2>2. MeansHere(w)
            BY <2>1 DEF FileTells, MeansHere, Here
      <2>3. pc[w] \in {"setbit", "create"} \/ UnderwayHere(w)
            <3>1. CASE Opened(pc[w])
                  <4>1. FileWell(File(w))
                        BY <3>1 DEF FilesThere
                  <4> QED BY <2>1, <4>1 DEF FileWell, UnderwayHere, Here
            <3>2. CASE ~Opened(pc[w])
                  BY <1>3, <3>2 DEF Opened, HoldsExclusive
            <3> QED BY <3>1, <3>2
      <2>4. \/ SetBit(w) \/ Create(w) \/ CreateRefused(w) \/ Fill(w)
            \/ WalkOn(w) \/ WalkAstray(w) \/ WalkBlind(w)
            \/ WriteFound(w) \/ WriteFirst(w) \/ WriteAppend(w) \/ WriteNothing(w)
            \/ LinkBoth(w) \/ LinkRight(w) \/ LinkLeft(w)
            \/ DeleteNone(w) \/ DeleteOnly(w) \/ DeleteHead(w) \/ DeleteEntry(w)
            \/ RelinkThird(w) \/ CopySecond(w) \/ UnlinkRight(w) \/ UnlinkLeft(w)
            BY <1>3, OwnerDoes
      <2>5. ~CreateRefused(w)
            BY DEF CreateRefused
      <2>6. Create(w) => Here(w) = <<>>
            <3>1. ASSUME Create(w) PROVE Here(w) = <<>>
                  <4>1. File(w) \notin onDisk
                        BY <3>1 DEF Create, FilesThere
                  <4> QED BY <1>1, <4>1 DEF FilesThere, Here
            <3> QED BY <3>1
      <2>7. CASE pc[w] \in {"setbit", "create"}
            <3>1. SetBit(w) \/ Create(w)
                  BY <2>4, <2>5, <2>7 DEF Fill, WalkOn, WalkAstray, WalkBlind, AtEntry, WriteFound,
                     WriteFirst, WriteAppend, WriteNothing, Found, LinkBoth, LinkRight, LinkLeft,
                     DeleteNone, DeleteOnly, DeleteHead, DeleteEntry, NotFound,
                     RelinkThird, CopySecond, UnlinkRight, UnlinkLeft
            <3>2. ~Fill(w)
                  BY <2>7 DEF Fill
            <3> QED BY <2>2, <2>6, <3>1, <3>2, CreationTells
      <2>8. CASE UnderwayHere(w)
            <3>1. CASE SetBit(w) \/ Create(w) \/ Fill(w)
                  BY <2>2, <2>6, <2>8, <3>1, CreationTells
            <3>2. CASE WalkOn(w) \/ WalkAstray(w) \/ WalkBlind(w)
                  BY <2>2, <3>2, WalkTells
            <3>3. CASE WriteFound(w) \/ WriteFirst(w) \/ WriteAppend(w) \/ WriteNothing(w)
                  BY <2>2, <2>8, <3>3, WriteFoundTells, WriteFirstTells, WriteAppendTells,
                     WriteNothingNever
            <3>4. CASE LinkBoth(w) \/ LinkRight(w) \/ LinkLeft(w)
                  BY <2>2, <2>8, <3>4, LinkBothTells, LinkRightTells, LinkLeftTells
            <3>5. CASE DeleteNone(w) \/ DeleteOnly(w) \/ DeleteHead(w) \/ DeleteEntry(w)
                  BY <2>2, <2>8, <3>5, DeleteNoneTells, DeleteOnlyTells, DeleteHeadTells,
                     DeleteEntryTells
            <3>6. CASE RelinkThird(w) \/ CopySecond(w) \/ UnlinkRight(w) \/ UnlinkLeft(w)
                  BY <2>2, <2>8, <3>6, RelinkThirdTells, CopySecondTells, UnlinkRightTells,
                     UnlinkLeftTells
            <3> QED BY <2>4, <2>5, <3>1, <3>2, <3>3, <3>4, <3>5, <3>6
      <2> QED BY <2>3, <2>7, <2>8
<1> QED BY <1>2, <1>3

-----------------------------------------------------------------------------
(* How the history goes on. *)
SettledNext ==
  settled' = [k \in Keys |-> IF Released(FileOf[k]) THEN ValueOf(k)' ELSE settled[k]]

LEMMA SettledKeeps ==
  ASSUME SettledOK, SettledNext, \A f \in Files : ~Released(f)
  PROVE  settled' = settled
BY StoreAssumption DEF SettledOK, SettledNext

(* Agreement depends on the keys of the file only. *)
LEMMA ShowsSame ==
  ASSUME NEW d, NEW f, NEW m, NEW n, \A k \in Keys : FileOf[k] = f => n[k] = m[k]
  PROVE  Shows(d, f, m) <=> Shows(d, f, n)
BY DEF Shows

LEMMA MeansSame ==
  ASSUME NEW p, NEW r \in Requests, NEW l, NEW d, NEW f, NEW m, NEW n,
         DOMAIN m = Keys, DOMAIN n = Keys, FileOf[r.key] = f,
         \A k \in Keys : FileOf[k] = f => n[k] = m[k], Means(p, r, l, d, f, m)
  PROVE  Means(p, r, l, d, f, n)
<1>1. \A x : Shows(x, f, m) <=> Shows(x, f, n)
      BY ShowsSame
<1>2. r.key \in Keys /\ n[r.key] = m[r.key] /\ r.op \in {"GET", "PUT", "DELETE"}
      BY DEF Requests
<1>3. \A k \in Keys : FileOf[k] = f => Effect(n, r)[k] = Effect(m, r)[k]
      BY <1>2 DEF Effect
<1>4. \A x : Shows(x, f, Effect(m, r)) <=> Shows(x, f, Effect(n, r))
      BY <1>3, ShowsSame
<1> QED BY <1>1, <1>2, <1>4 DEF Means

(* A file that a step leaves alone, and of which the map keeps the values. *)
LEMMA TellsOn ==
  ASSUME NEW f \in Files, Locked, Formed, SettledOK, SettledOK', FileTells(f),
         writer'[f] = writer[f], disk'[f] = disk[f],
         \A k \in Keys : FileOf[k] = f => settled'[k] = settled[k],
         \A v \in Workers : v = writer[f] =>
            pc'[v] = pc[v] /\ call'[v] = call[v] /\ loc'[v] = loc[v]
  PROVE  FileTells(f)'
<1> DEFINE m == settled
           n == settled'
<1>1. DOMAIN m = Keys /\ DOMAIN n = Keys /\ \A k \in Keys : FileOf[k] = f => n[k] = m[k]
      BY DEF SettledOK
<1>2. CASE writer[f] = NoWorker
      <2>1. Shows(disk[f], f, m)
            BY <1>2 DEF FileTells
      <2> HIDE DEF m, n
      <2>2. Shows(disk[f], f, n)
            BY <1>1, <2>1, ShowsSame
      <2> QED BY <1>2, <2>2 DEF FileTells, n
<1>3. CASE writer[f] # NoWorker
      <2> DEFINE v == writer[f]
      <2>1. v \in Workers
            BY <1>3 DEF Locked, StoreShape
      <2>2. pc[v] # "idle" /\ File(v) = f
            BY <2>1 DEF Locked, LocksMatchCalls, HoldsExclusive
      <2>3. call[v] \in Requests /\ FileOf[call[v].key] = f
            BY <2>1, <2>2, BusyFits, StepFacts
      <2>4. Means(pc[v], call[v], loc[v], disk[f], f, m)
            BY <1>3 DEF FileTells
      <2>5. pc'[v] = pc[v] /\ call'[v] = call[v] /\ loc'[v] = loc[v]
            BY <2>1
      <2> HIDE DEF m, n, v
      <2>6. Means(pc[v], call[v], loc[v], disk[f], f, n)
            BY <1>1, <2>3, <2>4, MeansSame
      <2>7. Means(pc'[v], call'[v], loc'[v], disk'[f], f, n)
            BY <2>5, <2>6
      <2> QED BY <1>3, <2>7 DEF FileTells, n, v
<1> QED BY <1>2, <1>3

(* The history keeps its type. *)
LEMMA LookupTypes ==
  ASSUME NEW d \in Seq(Entry), NEW s, NEW k
  PROVE  Lookup(d, s, k) \in MaybeValue
<1> DEFINE hits == {i \in Ring(d, s) \cap DOMAIN d : d[i].key = k}
<1>1. hits # {} => (CHOOSE i \in hits : TRUE) \in hits
      OBVIOUS
<1>2. \A i \in hits : d[i].value \in MaybeValue
      <2> SUFFICES ASSUME NEW i \in hits PROVE d[i].value \in MaybeValue
          OBVIOUS
      <2>1. d[i] \in Entry
            OBVIOUS
      <2> QED BY <2>1 DEF Entry
<1>3. NoValue \in MaybeValue
      BY DEF MaybeValue
<1>4. Lookup(d, s, k) = IF hits = {} THEN NoValue ELSE d[CHOOSE i \in hits : TRUE].value
      BY DEF Lookup
<1> HIDE DEF hits
<1> QED BY <1>1, <1>2, <1>3, <1>4

LEMMA SettledType ==
  ASSUME SettledOK, Formed', SettledNext
  PROVE  SettledOK'
<1>1. \A k \in Keys : ValueOf(k)' \in MaybeValue
      <2> SUFFICES ASSUME NEW k \in Keys PROVE ValueOf(k)' \in MaybeValue
          OBVIOUS
      <2>1. disk'[FileOf[k]] \in Seq(Entry)
            BY StoreAssumption DEF Formed, TypeOK
      <2>2. Lookup(disk'[FileOf[k]], SlotOf[k], k) \in MaybeValue
            BY <2>1, LookupTypes
      <2> QED BY <2>2 DEF ValueOf
<1> QED BY <1>1 DEF SettledOK, SettledNext

-----------------------------------------------------------------------------
(* A step that is none of the map, one that serves the call of w, and one  *)
(* that sends its next.                                                    *)
MapStep == Map!Next \/ UNCHANGED Map!vars

LEMMA ServesMap ==
  ASSUME NEW w \in Workers, call[w] \in Requests, settled' = Effect(settled, call[w]),
         call' = [call EXCEPT ![w] = Outcome(settled, call[w])]
  PROVE  MapStep
<1>1. Effect(settled, call[w]) = Map!Effect(settled, call[w])
      BY DEF Effect, Map!Effect
<1>2. Outcome(settled, call[w]) = Map!Outcome(settled, call[w])
      BY DEF Outcome, Map!Outcome, Answer, Map!Answer
<1>3. call[w] \in Map!Requests
      BY DEF Requests, Map!Requests
<1>4. Map!Serve(w)
      BY <1>1, <1>2, <1>3 DEF Map!Serve
<1> QED BY <1>4 DEF MapStep, Map!Next

LEMMA SendsMap ==
  ASSUME NEW w \in Workers, NEW r \in RequestsOf[w], call[w] \in Answers, UNCHANGED settled,
         call' = [call EXCEPT ![w] = r]
  PROVE  MapStep
<1>1. call[w] \in Map!Answers
      BY DEF Answers, Map!Answers, MaybeValue, Map!MaybeValue
<1>2. Map!Send(w, r)
      BY <1>1 DEF Map!Send
<1> QED BY <1>2 DEF MapStep, Map!Next

LEMMA StutterMap == ASSUME UNCHANGED <<settled, call>> PROVE MapStep
BY DEF MapStep, Map!vars

(* A request changes a map into a map. *)
LEMMA EffectMap ==
  ASSUME NEW m, m = [k \in Keys |-> m[k]], NEW r \in Requests
  PROVE  Effect(m, r) = [k \in Keys |-> Effect(m, r)[k]]
<1>1. DOMAIN m = Keys
      OBVIOUS
<1>2. ASSUME NEW v PROVE [m EXCEPT ![r.key] = v] = [k \in Keys |-> [m EXCEPT ![r.key] = v][k]]
      BY <1>1
<1>3. CASE r.op = "GET"
      BY <1>2, <1>3 DEF Effect
<1>4. CASE r.op = "PUT"
      BY <1>2, <1>4 DEF Effect
<1>5. CASE r.op = "DELETE"
      BY <1>2, <1>5 DEF Effect
<1> QED BY <1>3, <1>4, <1>5 DEF Requests

(* A step of a call that has, or takes, the exclusive lock of a file.      *)
LEMMA OwnerMaps ==
  ASSUME NEW w \in Workers, Locked, Locked', Formed, Formed', SettledOK, SettledOK',
         RingInv, FilesThere, MapTold, Step(w), SettledNext, ~torn, ~refused, ~refused',
         NEW f \in Files, writer[f] = w \/ writer'[f] = w
  PROVE  MapStep /\ \A g \in Files : FileTells(g)'
<1>1. f = File(w) /\ (HoldsExclusive(w, f) \/ UpdateOpen(w) \/ CreateBegin(w))
      BY OwnerSteps
<1>2. FileTells(f) /\ (f \in onDisk => FileWell(f))
      BY DEF MapTold, RingInv
<1>3. Tells(w)
      BY <1>1, <1>2, OwnerTells
<1>4. /\ pc[w] # "idle" /\ w # NoWorker /\ call[w] \in Requests
      /\ pc'[w] # "idle" => call'[w] = call[w]
      /\ call' = [call EXCEPT ![w] = call'[w]]
      BY OwnKeeps, BusyFits, StoreAssumption
<1>5. ASSUME NEW g \in Files, g # f
      PROVE  writer[g] # w /\ writer'[g] # w
      BY <1>1, <1>5, OwnerSteps
<1>6. ASSUME NEW g \in Files, g # f
      PROVE  /\ writer'[g] = writer[g] /\ disk'[g] = disk[g]
             /\ \A v \in Workers : v = writer[g] =>
                  pc'[v] = pc[v] /\ call'[v] = call[v] /\ loc'[v] = loc[v]
      BY <1>5, <1>6, OtherFilesKeep
<1>7. \A g \in Files : g # f => ~Released(g)
      BY <1>6 DEF Released
<1>8. CASE pc'[w] = "idle"
      <2> DEFINE m == Effect(settled, call[w])
      <2>1. /\ Shows(disk'[f], f, m)
            /\ call'[w] = Outcome(settled, call[w])
            BY <1>1, <1>3, <1>8 DEF Tells
      <2>2. HoldsExclusive(w, f)
            <3>1. ~UpdateOpen(w) /\ ~CreateBegin(w)
                  BY <1>4, <1>8, StepFacts DEF UpdateOpen, CreateBegin, ToSlot
            <3> QED BY <1>1, <3>1
      <2>3. writer[f] = w
            BY <2>2 DEF Locked, LocksMatchCalls
      <2>4. writer'[f] = NoWorker
            <3>1. writer'[f] # w
                  BY <1>8 DEF Locked, LocksMatchCalls, HoldsExclusive
            <3>2. pc[w] \notin {"idle", "call"}
                  BY <2>2 DEF HoldsExclusive
            <3>3. GivesBack(w)
                  BY <2>3, <3>1, <3>2, StepSorted
                     DEF Sorted, GoesOn, WithoutLock, TakesShared, TakesExclusive, lockedVars
            <3> QED BY <1>1, <2>3, <3>1, <3>3 DEF GivesBack, Locked, StoreShape
      <2>5. Released(f)
            BY <1>4, <2>3, <2>4 DEF Released
      <2>6. /\ call[w].key \in Keys /\ FileOf[call[w].key] = f
            /\ DOMAIN settled = Keys /\ DOMAIN m = Keys
            /\ Alike(settled, m, call[w].key)
            <3>1. call[w].key \in Keys /\ FileOf[call[w].key] = f /\ DOMAIN settled = Keys
                  BY <1>1, <1>4, CallFacts
            <3>2. DOMAIN m = Keys /\ Alike(settled, m, call[w].key)
                  BY <1>4, <3>1, EffectIs
            <3> QED BY <3>1, <3>2
      <2> HIDE DEF m
      <2>7. ASSUME NEW k \in Keys PROVE settled'[k] = m[k]
            <3>1. CASE FileOf[k] = f
                  <4>1. settled'[k] = Lookup(disk'[FileOf[k]], SlotOf[k], k)
                        BY <2>5, <3>1 DEF SettledNext, ValueOf
                  <4>2. m[k] = Lookup(disk'[f], SlotOf[k], k)
                        BY <2>1, <3>1 DEF Shows
                  <4> QED BY <3>1, <4>1, <4>2
            <3>2. CASE FileOf[k] # f
                  <4>1. ~Released(FileOf[k])
                        BY <1>7, <3>2, StoreAssumption
                  <4>2. settled'[k] = settled[k]
                        BY <4>1 DEF SettledNext
                  <4> QED BY <2>6, <3>2, <4>2 DEF Alike
            <3> QED BY <3>1, <3>2
      <2>8. settled' = m
            <3>1. settled' = [k \in Keys |-> settled'[k]] /\ m = [k \in Keys |-> m[k]]
                  <4>1. settled' = [k \in Keys |-> settled'[k]]
                        BY DEF SettledOK
                  <4>2. m = [k \in Keys |-> m[k]]
                        <5>1. settled = [k \in Keys |-> settled[k]]
                              BY DEF SettledOK
                        <5> QED BY <1>4, <5>1, EffectMap DEF m
                  <4> QED BY <4>1, <4>2
            <3> QED BY <2>7, <3>1
      <2>9. MapStep
            BY <1>4, <2>1, <2>8, ServesMap DEF m
      <2>10. FileTells(f)'
             BY <2>1, <2>4, <2>8 DEF FileTells
      <2>11. ASSUME NEW g \in Files, g # f PROVE FileTells(g)'
             <3>1. \A k \in Keys : FileOf[k] = g => settled'[k] = settled[k]
                   BY <2>6, <2>7, <2>11 DEF Alike
             <3>2. FileTells(g)
                   BY DEF MapTold
             <3>3. /\ writer'[g] = writer[g] /\ disk'[g] = disk[g]
                   /\ \A v \in Workers : v = writer[g] =>
                        pc'[v] = pc[v] /\ call'[v] = call[v] /\ loc'[v] = loc[v]
                   BY <1>6, <2>11
             <3> QED BY <3>1, <3>2, <3>3, TellsOn
      <2> QED BY <2>9, <2>10, <2>11
<1>9. CASE pc'[w] # "idle"
      <2>1. Means(pc'[w], call[w], loc'[w], disk'[f], f, settled)
            BY <1>1, <1>3, <1>9 DEF Tells
      <2>2. HoldsExclusive(w, f)'
            <3>1. CASE writer'[f] = w
                  BY <3>1 DEF Locked, LocksMatchCalls
            <3>2. CASE writer'[f] # w
                  <4>1. writer[f] = w
                        BY <3>2
                  <4>2. pc[w] \notin {"idle", "call"}
                        BY <4>1 DEF Locked, LocksMatchCalls, HoldsExclusive
                  <4>3. GivesBack(w)
                        BY <4>1, <3>2, <4>2, StepSorted
                           DEF Sorted, GoesOn, WithoutLock, TakesShared, TakesExclusive, lockedVars
                  <4> QED BY <1>9, <4>3 DEF GivesBack, Locked, StoreShape
            <3> QED BY <3>1, <3>2
      <2>3. writer'[f] = w
            BY <2>2 DEF Locked, LocksMatchCalls
      <2>4. \A g \in Files : ~Released(g)
            <3>1. ~Released(f)
                  BY <1>4, <2>3 DEF Released
            <3> QED BY <1>7, <3>1
      <2>5. settled' = settled
            BY <2>4, SettledKeeps
      <2>6. call'[w] = call[w] /\ call' = call
            <3>1. call'[w] = call[w]
                  BY <1>4, <1>9
            <3>2. call' = [call EXCEPT ![w] = call[w]]
                  BY <1>4, <3>1
            <3> QED BY <3>1, <3>2 DEF Formed, TypeOK
      <2>7. MapStep
            BY <2>5, <2>6, StutterMap
      <2>8. FileTells(f)'
            <3>1. Means(pc'[w], call'[w], loc'[w], disk'[f], f, settled')
                  BY <2>1, <2>5, <2>6
            <3> QED BY <1>4, <2>3, <3>1 DEF FileTells
      <2>9. ASSUME NEW g \in Files, g # f PROVE FileTells(g)'
            <3>1. \A k \in Keys : FileOf[k] = g => settled'[k] = settled[k]
                  BY <2>5
            <3>2. FileTells(g)
                  BY DEF MapTold
            <3>3. /\ writer'[g] = writer[g] /\ disk'[g] = disk[g]
                  /\ \A v \in Workers : v = writer[g] =>
                       pc'[v] = pc[v] /\ call'[v] = call[v] /\ loc'[v] = loc[v]
                  BY <1>6, <2>9
            <3> QED BY <3>1, <3>2, <3>3, TellsOn
      <2> QED BY <2>7, <2>8, <2>9
<1> QED BY <1>8, <1>9

(* A request that leaves its key leaves the map. *)
LEMMA NothingChanges ==
  ASSUME NEW m, m = [k \in Keys |-> m[k]], NEW r \in Requests, Effect(m, r)[r.key] = m[r.key]
  PROVE  Effect(m, r) = m
<1>1. DOMAIN m = Keys
      OBVIOUS
<1>2. Effect(m, r) = [k \in Keys |-> Effect(m, r)[k]]
      BY EffectMap
<1>3. \A k \in Keys : Effect(m, r)[k] = m[k]
      BY <1>1, EffectIs DEF Alike
<1> QED BY <1>2, <1>3

(* The answer of a call that has no exclusive lock is that of the map.     *)
LEMMA OtherAnswers ==
  ASSUME NEW w \in Workers, Locked, Locked', Formed, SettledOK, BitsKept, FilesThere, ReadersWell,
         MapTold, Step(w), ~torn, ~refused, ~refused',
         \A f \in Files : writer[f] # w /\ writer'[f] # w, pc'[w] = "idle"
  PROVE  /\ call'[w] = Outcome(settled, call[w])
         /\ Effect(settled, call[w]) = settled
<1>1. pc[w] # "idle" /\ File(w) \in Files /\ call[w] \in Requests
      BY OwnKeeps, StepFacts, BusyFits
<1>2. ~HoldsExclusive(w, File(w))
      BY <1>1 DEF Locked, LocksMatchCalls
<1>3. writer[File(w)] = NoWorker => ShowsHere(w)
      BY <1>1 DEF MapTold, FileTells, ShowsHere, Here
<1>4. \A ok, v : Return(w, ok, v) => call'[w] = Answer(ok, v)
      BY Answered
<1>5. CASE pc[w] = "call"
      <2>1. \/ ReadOpen(w) \/ UpdateOpen(w) \/ CreateBegin(w) \/ UpdateRefused(w) \/ DeleteNoFile(w)
            BY <1>5, CallStarts DEF Step, Read, Update, Delete, Creation, SetBit, Create, Fill,
               CreateRefused, WalkOn, WalkAstray, WalkBlind, ReadFound, ReadNone,
               WriteFound, WriteFirst, WriteAppend, WriteNothing, LinkBoth, LinkRight,
               LinkLeft, DeleteNone, DeleteOnly, DeleteHead, DeleteEntry, RelinkThird,
               CopySecond, UnlinkRight, UnlinkLeft, Found, NotFound, AtEntry
      <2>2. ~UpdateOpen(w) /\ ~CreateBegin(w)
            <3>1. UpdateOpen(w) \/ CreateBegin(w) => writer'[File(w)] = w
                  BY <1>1 DEF UpdateOpen, CreateBegin, LockExclusive, Locked, StoreShape
            <3> QED BY <1>1, <3>1
      <2>3. ~UpdateRefused(w)
            BY DEF UpdateRefused, Open
      <2>4. writer[File(w)] = NoWorker /\ File(w) \notin exists /\ Return(w, FALSE, NoValue)
            /\ call[w].op \in {"GET", "DELETE"}
            <3>1. CASE DeleteNoFile(w)
                  BY <3>1 DEF DeleteNoFile, Unlocked
            <3>2. CASE ReadOpen(w)
                  <4>1. ~ToSlot(w)
                        BY <1>1, StepFacts DEF ToSlot
                  <4>2. ~Open(w, FALSE)
                        BY DEF Open
                  <4> QED BY <3>2, <4>1, <4>2 DEF ReadOpen
            <3> QED BY <2>1, <2>2, <2>3, <3>1, <3>2
      <2>5. File(w) \notin onDisk
            BY <2>4 DEF BitsKept
      <2>6. Here(w) = <<>>
            BY <1>1, <2>5 DEF FilesThere, Here
      <2>7. settled[call[w].key] = NoValue
            <3>1. settled[call[w].key] = Lookup(Here(w), Slot(w), call[w].key) /\ call[w].key \in Keys
                  BY <1>1, <1>3, <2>4, CallFacts
            <3>2. \A i \in DOMAIN Here(w) : Here(w)[i].key = NoKey
                  BY <2>6
            <3> HIDE DEF Here
            <3>3. \A s : \A k \in Keys : Lookup(Here(w), s, k) = NoValue
                  BY <3>2, NoKeysShows
            <3> QED BY <3>1, <3>3
      <2>8. call'[w] = Outcome(settled, call[w])
            BY <1>1, <1>4, <2>4, <2>7, OutcomeIs
      <2>9. Effect(settled, call[w])[call[w].key] = settled[call[w].key]
            BY <1>1, <2>4, <2>7, CallFacts
      <2>10. settled = [k \in Keys |-> settled[k]]
             BY DEF SettledOK
      <2>11. Effect(settled, call[w]) = settled
             BY <1>1, <2>9, <2>10, NothingChanges
      <2> QED BY <2>8, <2>11
<1>6. CASE pc[w] # "call"
      <2>1. Reads(w)
            BY <1>1, <1>2, <1>6 DEF Reads, HoldsShared, HoldsExclusive
      <2>2. /\ pc[w] \in {"head", "walk"} /\ call[w].op = "GET" /\ UnderwayHere(w)
            BY <2>1 DEF ReadersWell, Reads, HoldsShared
      <2>3. writer[File(w)] = NoWorker
            <3>1. w \in readers[File(w)]
                  BY <1>1, <2>1 DEF Locked, LocksMatchCalls, Reads
            <3> QED BY <1>1, <3>1 DEF Locked, LocksMatchCalls
      <2>4. ShowsHere(w)
            BY <1>3, <2>3
      <2>5. ReadFound(w) \/ ReadNone(w)
            <3>1. ~(WalkOn(w) \/ WalkAstray(w) \/ WalkBlind(w))
                  <4>1. WalkOn(w) \/ WalkBlind(w) => pc'[w] = "walk"
                        BY <1>1, StepFacts DEF WalkOn, WalkBlind
                  <4>2. WalkAstray(w) => pc'[w] = pc[w]
                        BY DEF WalkAstray, vars
                  <4> QED BY <1>1, <4>1, <4>2
            <3>2. ~(UpdateOpen(w) \/ UpdateRefused(w) \/ ReadOpen(w) \/ Creation(w))
                  BY <2>2 DEF UpdateOpen, UpdateRefused, ReadOpen, Creation, CreateBegin,
                     SetBit, Create, CreateRefused, Fill
            <3>3. ~(WriteFound(w) \/ WriteFirst(w) \/ WriteAppend(w) \/ WriteNothing(w)
                    \/ LinkBoth(w) \/ LinkRight(w) \/ LinkLeft(w))
                  BY <2>2 DEF WriteFound, WriteFirst, WriteAppend, WriteNothing, Serves,
                     LinkBoth, LinkRight, LinkLeft
            <3>4. ~Delete(w)
                  BY <2>2 DEF Delete, DeleteNoFile, DeleteNone, DeleteOnly, DeleteHead,
                     DeleteEntry, Serves, RelinkThird, CopySecond, UnlinkRight, UnlinkLeft
            <3> QED BY <3>1, <3>2, <3>3, <3>4 DEF Step, Read, Update
      <2>6. ASSUME ReadFound(w) PROVE call'[w] = Outcome(settled, call[w])
            <3>1. Found(w) /\ Return(w, TRUE, Here(w)[loc[w].at].value)
                  BY <2>6 DEF ReadFound, ReturnShared
            <3>2. /\ settled[call[w].key] = Here(w)[loc[w].at].value
                  /\ settled[call[w].key] # NoValue
                  BY <2>2, <2>4, <3>1, FoundTells
            <3>3. call'[w] = Answer(TRUE, settled[call[w].key])
                  BY <1>4, <3>1, <3>2
            <3> QED BY <1>1, <2>2, <3>2, <3>3, OutcomeIs
      <2>7. ASSUME ReadNone(w) PROVE call'[w] = Outcome(settled, call[w])
            <3>1. NotFound(w) /\ Return(w, FALSE, NoValue)
                  BY <2>7 DEF ReadNone, ReturnShared
            <3>2. settled[call[w].key] = NoValue
                  BY <2>2, <2>4, <3>1, NotFoundTells
            <3>3. call'[w] = Answer(FALSE, NoValue)
                  BY <1>4, <3>1
            <3> QED BY <1>1, <2>2, <3>2, <3>3, OutcomeIs
      <2>8. Effect(settled, call[w])[call[w].key] = settled[call[w].key]
            BY <1>1, <2>2, CallFacts
      <2>9. settled = [k \in Keys |-> settled[k]]
            BY DEF SettledOK
      <2>10. Effect(settled, call[w]) = settled
             BY <1>1, <2>8, <2>9, NothingChanges
      <2> QED BY <2>5, <2>6, <2>7, <2>10
<1> QED BY <1>5, <1>6

-----------------------------------------------------------------------------
(* So what it does is a step of the map, or none.                          *)
LEMMA OtherMaps ==
  ASSUME NEW w \in Workers, Locked, Locked', Formed, SettledOK, SettledOK', BitsKept, FilesThere,
         ReadersWell, MapTold, Step(w), SettledNext, ~torn, ~refused, ~refused',
         \A f \in Files : writer[f] # w /\ writer'[f] # w
  PROVE  MapStep /\ \A g \in Files : FileTells(g)'
<1>1. /\ pc[w] # "idle" /\ call[w] \in Requests
      /\ pc'[w] # "idle" => call'[w] = call[w]
      /\ call' = [call EXCEPT ![w] = call'[w]]
      BY OwnKeeps, BusyFits
<1>2. ASSUME NEW g \in Files
      PROVE  /\ writer'[g] = writer[g] /\ disk'[g] = disk[g]
             /\ \A v \in Workers : v = writer[g] =>
                  pc'[v] = pc[v] /\ call'[v] = call[v] /\ loc'[v] = loc[v]
      BY OtherFilesKeep
<1>3. settled' = settled
      <2>1. \A g \in Files : ~Released(g)
            BY <1>2 DEF Released
      <2> QED BY <2>1, SettledKeeps
<1>4. ASSUME NEW g \in Files PROVE FileTells(g)'
      <2>1. \A k \in Keys : FileOf[k] = g => settled'[k] = settled[k]
            BY <1>3
      <2>2. FileTells(g)
            BY DEF MapTold
      <2>3. /\ writer'[g] = writer[g] /\ disk'[g] = disk[g]
            /\ \A v \in Workers : v = writer[g] =>
                 pc'[v] = pc[v] /\ call'[v] = call[v] /\ loc'[v] = loc[v]
            BY <1>2
      <2> QED BY <2>1, <2>2, <2>3, TellsOn
<1>5. CASE pc'[w] = "idle"
      <2>1. call'[w] = Outcome(settled, call[w]) /\ Effect(settled, call[w]) = settled
            BY <1>5, OtherAnswers
      <2>2. MapStep
            BY <1>1, <1>3, <2>1, ServesMap
      <2> QED BY <1>4, <2>2
<1>6. CASE pc'[w] # "idle"
      <2>1. call' = [call EXCEPT ![w] = call[w]]
            BY <1>1, <1>6
      <2>2. call' = call
            BY <2>1 DEF Formed, TypeOK
      <2>3. MapStep
            BY <1>3, <2>2, StutterMap
      <2> QED BY <1>4, <2>3
<1> QED BY <1>5, <1>6

-----------------------------------------------------------------------------
(* The invariant. *)
Told == /\ Locked /\ Formed /\ RingInv /\ FilesThere /\ ReadersWell
        /\ SettledOK /\ Answering /\ MapTold

StepOfMap == \/ torn' \/ refused'
             \/ IF crashes' # crashes THEN Recovered ELSE MapStep

LEMMA MapToldStep ==
  ASSUME NEW w \in Workers, Told, Locked', Formed', SettledOK', BitsKept, Step(w), SettledNext
  PROVE  MapTold' /\ StepOfMap
<1>1. crashes' = crashes /\ torn' = torn /\ (refused = TRUE => refused' = TRUE)
      BY StepPast, RefusedStays DEF Told
<1>2. ASSUME ~torn', ~refused'
      PROVE  MapStep /\ \A g \in Files : FileTells(g)'
      <2>1. ~torn /\ ~refused
            BY <1>1, <1>2 DEF Told, Formed, TypeOK
      <2>2. CASE \E f \in Files : writer[f] = w \/ writer'[f] = w
            BY <1>2, <2>1, <2>2, OwnerMaps DEF Told
      <2>3. CASE \A f \in Files : writer[f] # w /\ writer'[f] # w
            BY <1>2, <2>1, <2>3, OtherMaps DEF Told
      <2> QED BY <2>2, <2>3
<1> QED BY <1>1, <1>2 DEF MapTold, StepOfMap

LEMMA MapToldBegin ==
  ASSUME NEW w \in Workers, Told, Locked', Formed', SettledOK', Begin(w), SettledNext
  PROVE  MapTold' /\ StepOfMap
<1>1. /\ UNCHANGED <<disk, writer, loc, torn, refused, crashes>>
      /\ pc[w] = "idle" /\ pc' = [pc EXCEPT ![w] = "call"]
      BY DEF Begin, Goto, fileVars, lockVars, pastVars
<1>2. PICK r \in RequestsOf[w] : call' = [call EXCEPT ![w] = r]
      BY DEF Begin
<1>3. settled' = settled
      <2>1. \A f \in Files : ~Released(f)
            BY <1>1 DEF Released
      <2> QED BY <2>1, SettledKeeps DEF Told
<1>4. MapStep
      BY <1>1, <1>2, <1>3, SendsMap DEF Told, Answering
<1>5. ASSUME NEW f \in Files, FileTells(f) PROVE FileTells(f)'
      <2>1. ASSUME NEW v \in Workers, v = writer[f]
            PROVE  pc'[v] = pc[v] /\ call'[v] = call[v] /\ loc'[v] = loc[v]
            <3>1. v # w
                  BY <1>1, <2>1 DEF Told, Locked, LocksMatchCalls, HoldsExclusive
            <3> QED BY <1>1, <1>2, <3>1 DEF Told, Formed, TypeOK, Locked, StoreShape
      <2>2. writer'[f] = writer[f] /\ disk'[f] = disk[f]
            BY <1>1
      <2>3. \A k \in Keys : FileOf[k] = f => settled'[k] = settled[k]
            BY <1>3
      <2> QED BY <1>5, <2>1, <2>2, <2>3, TellsOn DEF Told
<1>6. MapTold'
      BY <1>1, <1>5 DEF MapTold, Told
<1> QED BY <1>1, <1>4, <1>6 DEF StepOfMap

(* Where the process dies without tearing a file, each file shows the map  *)
(* with or without what its writer was asked for.                          *)
LEMMA MapToldCrash ==
  ASSUME Told, SettledOK', Crash, SettledNext
  PROVE  MapTold' /\ StepOfMap
<1>1. /\ disk' = disk /\ crashes' # crashes /\ refused' = refused
      /\ call' = [v \in Workers |-> NoAnswer] /\ writer' = [f \in Files |-> NoWorker]
      BY DEF Crash, Told, Formed, TypeOK
<1> SUFFICES ASSUME ~torn', ~refused'
             PROVE  (\A f \in Files : FileTells(f)') /\ Recovered
    BY <1>1 DEF MapTold, StepOfMap
<1>2. /\ \A f \in Files : FileTells(f)
      /\ \A v \in Workers : pc[v] \notin TearingPlaces
      <2>1. torn' = (torn \/ \E v \in Workers : pc[v] \in TearingPlaces)
            BY DEF Crash
      <2>2. ~torn /\ ~refused /\ \A v \in Workers : pc[v] \notin TearingPlaces
            BY <1>1, <2>1
      <2> QED BY <2>2 DEF Told, MapTold
<1>3. ASSUME NEW k \in Keys
      PROVE  /\ settled'[k] = IF writer[FileOf[k]] # NoWorker
                              THEN Lookup(disk[FileOf[k]], SlotOf[k], k) ELSE settled[k]
      <2>1. FileOf[k] \in Files
            BY StoreAssumption
      <2>2. Released(FileOf[k]) <=> writer[FileOf[k]] # NoWorker
            BY <1>1, <2>1 DEF Released
      <2>3. ValueOf(k)' = Lookup(disk[FileOf[k]], SlotOf[k], k)
            BY <1>1 DEF ValueOf
      <2> QED BY <2>2, <2>3 DEF SettledNext
<1>4. ASSUME NEW f \in Files PROVE FileTells(f)'
      <2>1. writer'[f] = NoWorker
            BY <1>1
      <2>2. CASE writer[f] = NoWorker
            <3>1. Shows(disk[f], f, settled)
                  BY <1>2, <2>2 DEF FileTells
            <3>2. \A k \in Keys : FileOf[k] = f => settled'[k] = settled[k]
                  BY <1>3, <2>2
            <3>3. Shows(disk[f], f, settled')
                  BY <3>1, <3>2 DEF Shows
            <3> QED BY <1>1, <2>1, <3>3 DEF FileTells
      <2>3. CASE writer[f] # NoWorker
            <3>1. Shows(disk[f], f, settled')
                  BY <1>3, <2>3 DEF Shows
            <3> QED BY <1>1, <2>1, <3>1 DEF FileTells
      <2> QED BY <2>2, <2>3
<1>5. ASSUME NEW k \in Keys
      PROVE  \/ settled'[k] = settled[k]
             \/ \E w \in Workers : /\ pc[w] # "idle"
                                   /\ settled'[k] = Effect(settled, call[w])[k]
      <2> DEFINE f == FileOf[k]
                 v == writer[f]
      <2>1. CASE v = NoWorker
            BY <1>3, <2>1
      <2>2. CASE v # NoWorker
            <3>1. f \in Files /\ v \in Workers
                  BY <2>2, StoreAssumption DEF Told, Locked, StoreShape
            <3>2. pc[v] # "idle"
                  BY <3>1 DEF Told, Locked, LocksMatchCalls, HoldsExclusive
            <3>3. Means(pc[v], call[v], loc[v], disk[f], f, settled)
                  BY <1>2, <2>2, <3>1 DEF FileTells
            <3>4. pc[v] \notin Deleting
                  BY <1>2, <3>1 DEF Deleting, TearingPlaces
            <3>5. settled'[k] = Lookup(disk[f], SlotOf[k], k)
                  BY <1>3, <2>2
            <3>6. CASE pc[v] = "linkleft"
                  <4>1. Shows(disk[f], f, Effect(settled, call[v]))
                        BY <3>3, <3>6 DEF Means
                  <4>2. Effect(settled, call[v])[k] = Lookup(disk[f], SlotOf[k], k)
                        BY <4>1 DEF Shows
                  <4> QED BY <3>1, <3>2, <3>5, <4>2
            <3>7. CASE pc[v] # "linkleft"
                  <4>1. Shows(disk[f], f, settled)
                        BY <3>3, <3>4, <3>7 DEF Means
                  <4>2. settled[k] = Lookup(disk[f], SlotOf[k], k)
                        BY <4>1 DEF Shows
                  <4> QED BY <3>5, <4>2
            <3> QED BY <3>6, <3>7
      <2> QED BY <2>1, <2>2
<1>6. \A w \in Workers : call'[w] = NoAnswer
      BY <1>1
<1> QED BY <1>4, <1>5, <1>6 DEF Recovered

(* A call that is over has its answer.                                     *)
LEMMA AnsweringNext ==
  ASSUME Told, Next
  PROVE  Answering'
<1>1. CASE Crash
      <2>1. NoAnswer \in Answers
            BY DEF NoAnswer, Answer, Answers, MaybeValue
      <2> QED BY <1>1, <2>1 DEF Crash, Answering
<1>2. ASSUME NEW w \in Workers, Begin(w) PROVE Answering'
      <2>1. /\ pc' = [pc EXCEPT ![w] = "call"]
            /\ \A v \in Workers : v # w => call'[v] = call[v]
            BY <1>2 DEF Begin, Goto, Told, Formed, TypeOK
      <2>2. pc'[w] = "call" /\ \A v \in Workers : v # w => pc'[v] = pc[v]
            BY <2>1 DEF Told, Locked, StoreShape
      <2> QED BY <2>1, <2>2 DEF Answering, Told
<1>3. ASSUME NEW w \in Workers, Step(w) PROVE Answering'
      <2>1. pc'[w] = "idle" => call'[w] \in Answers
            BY <1>3, OwnKeeps DEF Told
      <2>2. \A v \in Workers : v # w => pc'[v] = pc[v] /\ call'[v] = call[v]
            BY <1>3, OthersKeep DEF Told
      <2> QED BY <2>1, <2>2 DEF Answering, Told
<1> QED BY <1>1, <1>2, <1>3 DEF Next

LEMMA ToldInit == HistoryInit => Told /\ Map!Init
<1> SUFFICES ASSUME HistoryInit PROVE Told /\ Map!Init
    OBVIOUS
<1>1. /\ Init /\ settled = [k \in Keys |-> NoValue] /\ NoValue \in MaybeValue
      /\ NoAnswer \in Answers
      BY DEF HistoryInit, MaybeValue, NoAnswer, Answer, Answers
<1>2. Locked /\ Formed /\ RingInv /\ FilesThere /\ ReadersWell
      BY <1>1, LockedInit, FormedInit, RingInit, FilesThereInit, ReadersInit
<1>3. SettledOK /\ Answering
      BY <1>1 DEF SettledOK, Answering, Init
<1>4. MapTold
      <2> SUFFICES ASSUME NEW f \in Files PROVE FileTells(f)
          BY DEF MapTold
      <2>1. disk[f] = <<>> /\ writer[f] = NoWorker
            BY <1>1 DEF Init
      <2>2. \A i \in DOMAIN disk[f] : disk[f][i].key = NoKey
            BY <2>1
      <2>3. \A s : \A k \in Keys : Lookup(disk[f], s, k) = NoValue
            BY <2>2, NoKeysShows
      <2>4. Shows(disk[f], f, settled)
            BY <1>1, <2>3 DEF Shows
      <2> QED BY <2>1, <2>4 DEF FileTells
<1>5. Map!Init
      BY <1>1 DEF Map!Init, Init, NoAnswer, Answer, Map!Answer, MaybeValue, Map!MaybeValue
<1> QED BY <1>2, <1>3, <1>4, <1>5 DEF Told

LEMMA ToldNext ==
  Told /\ BitsKept /\ [HistoryNext]_historyVars => Told' /\ (StepOfMap \/ UNCHANGED Map!vars)
<1> SUFFICES ASSUME Told, BitsKept, [HistoryNext]_historyVars
             PROVE  Told' /\ (StepOfMap \/ UNCHANGED Map!vars)
    OBVIOUS
<1>1. [Next]_vars
      BY DEF HistoryNext, historyVars
<1>2. Locked' /\ Formed' /\ RingInv'
      <2>1. Locked'
            BY <1>1, LockedNext DEF Told
      <2>2. Formed'
            BY <1>1, <2>1, FormedNext DEF Told
      <2>3. RingInv'
            BY <1>1, <2>1, RingNext DEF Told
      <2> QED BY <2>1, <2>2, <2>3
<1>3. CASE UNCHANGED historyVars
      <2>1. UNCHANGED vars /\ UNCHANGED settled
            BY <1>3 DEF historyVars
      <2>2. FilesThere' /\ ReadersWell' /\ SettledOK' /\ Answering' /\ MapTold'
            <3>1. /\ UNCHANGED <<disk, onDisk, exists, readers, writer, call, pc, loc, torn, refused>>
                  /\ \A w \in Workers : File(w)' = File(w)
                  BY <2>1 DEF vars, fileVars, lockVars, pastVars, File
            <3>2. FilesThere'
                  BY <3>1 DEF Told, FilesThere
            <3>3. ReadersWell'
                  BY <3>1 DEF Told, ReadersWell, Reads, HoldsShared, UnderwayHere, Here, File
            <3>4. SettledOK' /\ Answering'
                  BY <2>1, <3>1 DEF Told, SettledOK, Answering
            <3>5. MapTold'
                  BY <2>1, <3>1 DEF Told, MapTold, FileTells
            <3> QED BY <3>2, <3>3, <3>4, <3>5
      <2>3. UNCHANGED Map!vars
            BY <2>1 DEF vars, Map!vars
      <2> QED BY <1>2, <2>2, <2>3 DEF Told
<1>4. CASE HistoryNext
      <2>1. Next /\ SettledNext
            BY <1>4 DEF HistoryNext, SettledNext
      <2>2. SettledOK'
            BY <1>2, <2>1, SettledType DEF Told
      <2>3. Answering'
            BY <2>1, AnsweringNext
      <2>4. CASE Crash
            <3>1. FilesThere' /\ ReadersWell'
                  BY <2>4, FilesThereCrash, ReadersCrash DEF Told
            <3>2. MapTold' /\ StepOfMap
                  BY <2>1, <2>2, <2>4, MapToldCrash
            <3> QED BY <1>2, <2>2, <2>3, <3>1, <3>2 DEF Told
      <2>5. ASSUME NEW w \in Workers, Begin(w)
            PROVE  Told' /\ (StepOfMap \/ UNCHANGED Map!vars)
            <3>1. FilesThere' /\ ReadersWell'
                  BY <2>5, FilesThereBegin, ReadersBegin DEF Told
            <3>2. MapTold' /\ StepOfMap
                  BY <1>2, <2>1, <2>2, <2>5, MapToldBegin
            <3> QED BY <1>2, <2>2, <2>3, <3>1, <3>2 DEF Told
      <2>6. ASSUME NEW w \in Workers, Step(w)
            PROVE  Told' /\ (StepOfMap \/ UNCHANGED Map!vars)
            <3>1. FilesThere' /\ ReadersWell'
                  BY <1>2, <2>6, FilesThereStep, ReadersStep DEF Told
            <3>2. MapTold' /\ StepOfMap
                  BY <1>2, <2>1, <2>2, <2>6, MapToldStep
            <3> QED BY <1>2, <2>2, <2>3, <3>1, <3>2 DEF Told
      <2> QED BY <2>1, <2>4, <2>5, <2>6 DEF Next
<1> QED BY <1>3, <1>4

(* Where every file has its bit the store is the map. *)
LEMMA BitsMakeAMap == HistorySpec /\ []BitsKept => StoreIsMap
<1>1. StepOfMap \/ UNCHANGED Map!vars
        => [torn' \/ refused' \/ (IF crashes' # crashes THEN Recovered ELSE Map!Next)]_Map!vars
      BY DEF StepOfMap, MapStep
<1>2. HistoryInit => Told /\ Map!Init
      BY ToldInit
<1>3. Told /\ BitsKept /\ [HistoryNext]_historyVars => Told' /\ (StepOfMap \/ UNCHANGED Map!vars)
      BY ToldNext
<1> QED BY <1>1, <1>2, <1>3, PTL DEF HistorySpec, StoreIsMap

-----------------------------------------------------------------------------
(* And every file has its bit as long as one thread at a time is inside    *)
(* set(), between its load of the word and its store.                      *)
SetsApart == \A v, w \in Workers : pc[v] = "setbit" /\ pc[w] = "setbit" => v = w

BitInv == /\ BitsKept
          /\ \A w \in Workers : pc[w] = "create" => File(w) \in exists
          /\ \A w \in Workers : pc[w] = "setbit" => loc[w].word = exists

(* Only one step of a call sets a bit. *)
LEMMA OnlySetBitSets ==
  ASSUME NEW w \in Workers, Step(w), ~SetBit(w)
  PROVE  exists' = exists
<1>1. CASE UpdateOpen(w) \/ UpdateRefused(w) \/ DeleteNoFile(w)
      BY <1>1 DEF UpdateOpen, UpdateRefused, DeleteNoFile, fileVars
<1>2. CASE CreateBegin(w) \/ Create(w) \/ CreateRefused(w) \/ Fill(w)
      BY <1>2 DEF CreateBegin, Create, CreateRefused, Fill, fileVars
<1>3. CASE WalkOn(w) \/ WalkAstray(w) \/ WalkBlind(w)
      BY <1>3 DEF WalkOn, WalkAstray, WalkBlind, vars, fileVars
<1>4. CASE Read(w)
      BY <1>4 DEF Read, ReadOpen, ReadFound, ReadNone, fileVars
<1>5. CASE WriteFound(w) \/ WriteFirst(w) \/ WriteAppend(w) \/ WriteNothing(w)
      BY <1>5 DEF WriteFound, WriteFirst, WriteAppend, WriteNothing, fileVars
<1>6. CASE LinkBoth(w) \/ LinkRight(w) \/ LinkLeft(w)
      BY <1>6 DEF LinkBoth, LinkRight, LinkLeft
<1>7. CASE DeleteNone(w) \/ DeleteOnly(w) \/ DeleteHead(w) \/ DeleteEntry(w)
      BY <1>7 DEF DeleteNone, DeleteOnly, DeleteHead, DeleteEntry, fileVars
<1>8. CASE RelinkThird(w) \/ CopySecond(w) \/ UnlinkRight(w) \/ UnlinkLeft(w)
      BY <1>8 DEF RelinkThird, CopySecond, UnlinkRight, UnlinkLeft
<1> QED BY <1>1, <1>2, <1>3, <1>4, <1>5, <1>6, <1>7, <1>8 DEF Step, Update, Creation, Delete

LEMMA BitStep ==
  ASSUME NEW w \in Workers, Locked, Formed, BitInv, SetsApart, Step(w)
  PROVE  BitInv'
<1>1. /\ pc[w] # "idle" /\ File(w) \in Files
      /\ \A p : Goto(w, p) => pc'[w] = p
      BY OwnKeeps, StepFacts
<1>2. exists \subseteq exists'
      <2>1. CASE SetBit(w)
            BY <2>1 DEF SetBit, BitInv
      <2>2. CASE ~SetBit(w)
            BY <2>2, OnlySetBitSets
      <2> QED BY <2>1, <2>2
<1>3. onDisk' \subseteq exists'
      <2>1. CASE Create(w)
            BY <1>2, <2>1 DEF Create, BitInv, BitsKept
      <2>2. CASE ~Create(w)
            <3>1. onDisk' = onDisk
                  BY <2>2, OnlyCreateAdds
            <3> QED BY <1>2, <3>1 DEF BitInv, BitsKept
      <2> QED BY <2>1, <2>2
<1>4. ASSUME NEW v \in Workers, v # w
      PROVE  /\ pc'[v] = "create" => File(v)' \in exists'
             /\ pc'[v] = "setbit" => loc'[v].word = exists'
      <2>1. pc'[v] = pc[v] /\ File(v)' = File(v) /\ loc'[v] = loc[v]
            BY <1>4, OthersKeep
      <2>2. pc'[v] = "create" => File(v)' \in exists'
            BY <1>2, <2>1 DEF BitInv
      <2>3. ASSUME pc'[v] = "setbit" PROVE loc'[v].word = exists'
            <3>1. pc[w] # "setbit"
                  BY <1>4, <2>1, <2>3 DEF SetsApart
            <3>2. exists' = exists
                  BY <3>1, OnlySetBitSets DEF SetBit
            <3> QED BY <2>1, <2>3, <3>2 DEF BitInv
      <2> QED BY <2>2, <2>3
<1>5. /\ pc'[w] = "create" => File(w)' \in exists'
      /\ pc'[w] = "setbit" => loc'[w].word = exists'
      <2>1. ASSUME pc'[w] = "create" PROVE File(w)' \in exists'
            <3>1. SetBit(w)
                  <4>1. ~Opened(pc'[w])
                        BY <2>1 DEF Opened
                  <4> QED BY <1>1, <2>1, <4>1, StepComes DEF CreateBegin, Create
            <3>2. File(w) \in exists'
                  BY <3>1 DEF SetBit
            <3> QED BY <2>1, <3>2, OwnKeeps
      <2>2. ASSUME pc'[w] = "setbit" PROVE loc'[w].word = exists'
            <3>1. CreateBegin(w)
                  <4>1. ~Opened(pc'[w])
                        BY <2>2 DEF Opened
                  <4> QED BY <1>1, <2>2, <4>1, StepComes DEF SetBit, Create
            <3> QED BY <3>1 DEF CreateBegin, fileVars, Formed, TypeOK
      <2> QED BY <2>1, <2>2
<1> QED BY <1>3, <1>4, <1>5 DEF BitInv, BitsKept

LEMMA BitNext == Locked /\ Formed /\ BitInv /\ SetsApart /\ [Next]_vars => BitInv'
<1> SUFFICES ASSUME Locked, Formed, BitInv, SetsApart, [Next]_vars PROVE BitInv'
    OBVIOUS
<1>1. CASE Crash
      BY <1>1 DEF Crash, BitInv, BitsKept
<1>2. ASSUME NEW w \in Workers, Begin(w) PROVE BitInv'
      <2>1. /\ pc' = [pc EXCEPT ![w] = "call"] /\ UNCHANGED <<onDisk, exists, loc>>
            /\ \A v \in Workers : v # w => call'[v] = call[v]
            BY <1>2 DEF Begin, Goto, fileVars, Formed, TypeOK
      <2>2. pc'[w] = "call" /\ \A v \in Workers : v # w => pc'[v] = pc[v] /\ File(v)' = File(v)
            BY <2>1 DEF Locked, StoreShape, File
      <2> QED BY <2>1, <2>2 DEF BitInv, BitsKept
<1>3. ASSUME NEW w \in Workers, Step(w) PROVE BitInv'
      BY <1>3, BitStep
<1>4. CASE UNCHANGED vars
      BY <1>4 DEF vars, fileVars, BitInv, BitsKept, File
<1> QED BY <1>1, <1>2, <1>3, <1>4 DEF Next

(* The files are one map on which every call takes effect at one instant,  *)
(* and which survives the death of the process between any two writes that *)
(* tear no file, for any number of threads, files, slots and keys, as long *)
(* as no two threads are inside set() of file_exists_status at once.       *)
THEOREM FilesAreAMap == HistorySpec /\ []SetsApart => StoreIsMap
<1>1. HistoryInit => Locked /\ Formed /\ BitInv
      BY LockedInit, FormedInit DEF HistoryInit, Init, BitInv, BitsKept
<1>2. [HistoryNext]_historyVars => [Next]_vars
      BY DEF HistoryNext, historyVars
<1>3. Locked /\ [Next]_vars => Locked'
      BY LockedNext
<1>4. Locked /\ Locked' /\ Formed /\ [Next]_vars => Formed'
      BY FormedNext
<1>5. Locked /\ Formed /\ BitInv /\ SetsApart /\ [Next]_vars => BitInv'
      BY BitNext
<1>6. BitInv => BitsKept
      BY DEF BitInv
<1>7. HistorySpec /\ []BitsKept => StoreIsMap
      BY BitsMakeAMap
<1> QED BY <1>1, <1>2, <1>3, <1>4, <1>5, <1>6, <1>7, PTL DEF HistorySpec

(* With one file its lock, which write_to_db holds exclusively from its    *)
(* first look at the bits, keeps threads apart in set(): no condition is   *)
(* left, and any number of them sees the file as one map.                  *)
THEOREM OneFileIsAMap == ASSUME NEW f, Files = {f} PROVE HistorySpec => StoreIsMap
<1>1. Locked => SetsApart
      <2> SUFFICES ASSUME Locked, NEW v \in Workers, NEW w \in Workers,
                          pc[v] = "setbit", pc[w] = "setbit"
                   PROVE  v = w
          BY DEF SetsApart
      <2>1. File(v) \in Files /\ File(w) \in Files
            BY BusyHasFile DEF Locked
      <2>2. HoldsExclusive(v, f) /\ HoldsExclusive(w, f)
            BY <2>1 DEF HoldsExclusive
      <2> QED BY <2>2 DEF Locked, LocksMatchCalls
<1>2. HistoryInit => Locked
      BY LockedInit DEF HistoryInit
<1>3. [HistoryNext]_historyVars => [Next]_vars
      BY DEF HistoryNext, historyVars
<1>4. Locked /\ [Next]_vars => Locked'
      BY LockedNext
<1>5. HistorySpec /\ []SetsApart => StoreIsMap
      BY FilesAreAMap
<1> QED BY <1>1, <1>2, <1>3, <1>4, <1>5, PTL DEF HistorySpec

(* And one thread is never inside set() twice: whatever it puts, gets and  *)
(* deletes in any files, read_from_db answers with what write_to_db and    *)
(* delete_from_db left, also after the process died between two writes.    *)
THEOREM OneThreadIsAMap == ASSUME NEW w, Workers = {w} PROVE HistorySpec => StoreIsMap
<1>1. SetsApart
      BY DEF SetsApart
<1>2. HistorySpec /\ []SetsApart => StoreIsMap
      BY FilesAreAMap
<1> QED BY <1>1, <1>2, PTL
=============================================================================

------------------------------- MODULE KVStore -------------------------------
(***************************************************************************)
(* Persistent storage (KVStore.hpp): read_from_db, write_to_db and         *)
(* delete_from_db on the database files, by any number of threads.         *)
(*                                                                         *)
(* A file is a table of entries.  Its first TableLen entries are slots;    *)
(* the keys that hash to one slot form a ring that starts and ends there   *)
(* and continues in entries appended behind the table.                     *)
(*                                                                         *)
(* A step ends where the process can die with different contents of the    *)
(* file: the stream hands what was written to the system at the next seek, *)
(* so each group of writes between two seeks is one step.  An index is one *)
(* higher than in the code.                                                *)
(***************************************************************************)
EXTENDS KVRequests, Naturals, Sequences

CONSTANTS Workers,       \* the threads that use the store
          Files,         \* indices of kvStoreFileNames
          TableLen,      \* FILE_TABLE_LEN
          FileOf,        \* hash1 % HASH_TABLE_LEN of a key
          SlotOf,        \* hash1 % FILE_TABLE_LEN of a key
          NoKey,         \* the key of an entry whose hashes are MAX_UINT64
          NoWorker,
          RequestsOf,    \* RequestsOf[w]: the calls w makes
          OpenOutcomes,  \* whether opening a file may succeed, may fail
          MaxEntries,    \* bound: no PUT into a file with this many entries
          MaxCrashes     \* bound: how often the process dies

ASSUME StoreAssumption ==
  /\ NoWorker \notin Workers /\ NoKey \notin Keys
  /\ TableLen \in Nat \ {0} /\ MaxEntries \in Nat /\ MaxCrashes \in Nat
  /\ FileOf \in [Keys -> Files] /\ SlotOf \in [Keys -> 1..TableLen]
  /\ RequestsOf \in [Workers -> SUBSET Requests]
  /\ OpenOutcomes \subseteq BOOLEAN

MaxIdx == 0              \* MAX_UINT64: no entry is there, seeking it fails

VARIABLES
  disk,                  \* disk[f]: the entries of file f
  onDisk,                \* the files that exist
  exists,                \* file_exists_status: the files whose bit is set
  readers, writer,       \* file_locks: shared and exclusive owners
  call, pc, loc,         \* per thread: request or answer, place, locals
  crashes,               \* how often the process has died
  torn,                  \* it died where a file is not whole
  refused                \* some file could not be opened

lockVars == <<readers, writer>>
fileVars == <<disk, onDisk, exists>>
pastVars == <<crashes, torn, refused>>
vars == <<fileVars, lockVars, call, pc, loc, pastVars>>

Entry == [left : Nat, right : Nat, key : Keys \cup {NoKey}, value : MaybeValue]
Blank == [left |-> MaxIdx, right |-> MaxIdx, key |-> NoKey, value |-> NoValue]

(* The locals of one call.  at: current_file_idx; prev: leftIdx of         *)
(* write_to_db; hold: the entry delete_from_db has read and cleared;       *)
(* word: the word of the bitset that set() is about to write back.         *)
NoLocals == [at |-> MaxIdx, prev |-> MaxIdx, hold |-> Blank, word |-> {}]

NoAnswer == Answer(FALSE, NoValue)

(* The first start, in an empty directory. *)
Init == /\ disk = [f \in Files |-> <<>>]
        /\ onDisk = {} /\ exists = {}
        /\ readers = [f \in Files |-> {}]
        /\ writer = [f \in Files |-> NoWorker]
        /\ call = [w \in Workers |-> NoAnswer]
        /\ pc = [w \in Workers |-> "idle"]
        /\ loc = [w \in Workers |-> NoLocals]
        /\ crashes = 0 /\ torn = FALSE /\ refused = FALSE

-----------------------------------------------------------------------------
File(w) == FileOf[call[w].key]
Slot(w) == SlotOf[call[w].key]
Here(w) == disk[File(w)]

Serves(w, op) == pc[w] # "idle" /\ call[w].op = op

(* A new entry for the request of w. *)
EntryFor(w, l, r) ==
  [left |-> l, right |-> r, key |-> call[w].key, value |-> call[w].value]

is_file_entry_empty(e) == e.left = MaxIdx /\ e.right = MaxIdx

Goto(w, there) == pc' = [pc EXCEPT ![w] = there]

Write(w, i, e) == disk' = [disk EXCEPT ![File(w)] = [@ EXCEPT ![i] = e]]

(* The write behind that of entry "first": the stream has failed, and      *)
(* writes nothing more, if that was MaxIdx.                                *)
ThenWrite(w, first, i, e) == IF first = MaxIdx THEN UNCHANGED disk ELSE Write(w, i, e)

(* A variant with a mistake: the answer is set, but the function goes on.  *)
Return_forgotten(w, ok, v) == /\ call' = [call EXCEPT ![w] = Answer(ok, v)]
                              /\ UNCHANGED <<pc, loc>>

(* The call ends, and gives back its lock. *)
Return(w, ok, v) == /\ call' = [call EXCEPT ![w] = Answer(ok, v)]
                    /\ Goto(w, "idle")
                    /\ loc' = [loc EXCEPT ![w] = NoLocals]

(* A variant with a mistake: the shared lock stays behind. *)
ReturnShared_locked(w, ok, v) == Return(w, ok, v) /\ UNCHANGED <<lockVars, pastVars>>

ReturnShared(w, ok, v) == /\ Return(w, ok, v)
                          /\ readers' = [readers EXCEPT ![File(w)] = @ \ {w}]
                          /\ UNCHANGED <<writer, pastVars>>

ReturnExclusive(w, ok) == /\ Return(w, ok, NoValue)
                          /\ writer' = [writer EXCEPT ![File(w)] = NoWorker]
                          /\ UNCHANGED <<readers, pastVars>>

(* Opening w's file turns out as ok: a file that is not there never opens. *)
Open(w, ok) == /\ ok \in OpenOutcomes \cup {FALSE}
               /\ ok => File(w) \in onDisk
               /\ ~ok => FALSE \in OpenOutcomes \/ File(w) \notin onDisk
               /\ refused' = (refused \/ ~ok)
               /\ UNCHANGED <<crashes, torn>>

(* With its file open and locked w stands at its slot. *)
ToSlot(w) == /\ Goto(w, "head")
             /\ loc' = [loc EXCEPT ![w].at = Slot(w)]
             /\ UNCHANGED call

-----------------------------------------------------------------------------
(* Mistakes that would be easy to make, as variants of actions below that  *)
(* no specification uses: with one of them in place of the action it is    *)
(* named after, the properties of the store must fail.                     *)

(* The first entry of a ring is written with the links that were read. *)
WriteFirst_unlinked(w) ==
  /\ Serves(w, "PUT") /\ pc[w] = "head" /\ loc[w].at \in DOMAIN Here(w)
  /\ is_file_entry_empty(Here(w)[Slot(w)])
  /\ Write(w, Slot(w), EntryFor(w, MaxIdx, MaxIdx))
  /\ ReturnExclusive(w, TRUE)
  /\ UNCHANGED <<onDisk, exists>>

(* The third entry goes on pointing at where the second one was. *)
RelinkThird_forgotten(w) ==
  /\ pc[w] = "third"
  /\ Goto(w, "copy")
  /\ UNCHANGED <<fileVars, lockVars, call, loc, pastVars>>

(* The value of the second entry is not copied. *)
CopySecond_key(w) ==
  /\ pc[w] = "copy"
  /\ Write(w, Slot(w), [Here(w)[Slot(w)] EXCEPT !.key = loc[w].hold.key,
                                               !.right = loc[w].hold.right])
  /\ ReturnExclusive(w, TRUE)
  /\ UNCHANGED <<onDisk, exists>>

(* The entry before the deleted one goes on pointing at it. *)
UnlinkRight_forgotten(w) ==
  /\ pc[w] = "unlinkright"
  /\ Goto(w, "unlinkleft")
  /\ UNCHANGED <<fileVars, lockVars, call, loc, pastVars>>

-----------------------------------------------------------------------------
(* A caller of the store makes its next call. *)
Begin(w) ==
  /\ pc[w] = "idle"
  /\ \E r \in RequestsOf[w] :
       /\ r.op = "PUT" => Len(disk[FileOf[r.key]]) < MaxEntries
       /\ call' = [call EXCEPT ![w] = r]
  /\ Goto(w, "call")
  /\ UNCHANGED <<fileVars, lockVars, loc, pastVars>>

(* read_from_db takes the shared lock, looks at the bit, opens the file. *)
ReadOpen(w) ==
  /\ pc[w] = "call" /\ call[w].op = "GET"
  /\ writer[File(w)] = NoWorker
  /\ \/ /\ File(w) \notin exists
        /\ Return(w, FALSE, NoValue)
        /\ UNCHANGED <<lockVars, pastVars>>
     \/ /\ File(w) \in exists /\ Open(w, FALSE)
        /\ Return(w, FALSE, NoValue)
        /\ UNCHANGED lockVars
     \/ /\ File(w) \in exists /\ Open(w, TRUE)
        /\ ToSlot(w)
        /\ readers' = [readers EXCEPT ![File(w)] = @ \cup {w}]
        /\ UNCHANGED writer
  /\ UNCHANGED fileVars

(* A variant with a mistake: a lock that only keeps writers apart. *)
Unlocked_by_writer(w) == writer[File(w)] = NoWorker
Unlocked(w) == writer[File(w)] = NoWorker /\ readers[File(w)] = {}

LockExclusive(w) == /\ Unlocked(w)
                    /\ writer' = [writer EXCEPT ![File(w)] = w]
                    /\ UNCHANGED readers

(* write_to_db and delete_from_db find the file and open it. *)
UpdateOpen(w) ==
  /\ pc[w] = "call" /\ call[w].op \in {"PUT", "DELETE"}
  /\ File(w) \in exists
  /\ Open(w, TRUE)
  /\ LockExclusive(w)
  /\ ToSlot(w)
  /\ UNCHANGED fileVars

(* The file cannot be opened: write_to_db has no way to tell its caller. *)
UpdateRefused(w) ==
  /\ pc[w] = "call" /\ call[w].op \in {"PUT", "DELETE"}
  /\ Unlocked(w)
  /\ File(w) \in exists
  /\ Open(w, FALSE)
  /\ Return(w, call[w].op = "PUT", NoValue)
  /\ UNCHANGED <<fileVars, lockVars>>

(* delete_from_db: without a file there is nothing to delete. *)
DeleteNoFile(w) ==
  /\ pc[w] = "call" /\ call[w].op = "DELETE"
  /\ Unlocked(w)
  /\ File(w) \notin exists
  /\ Return(w, FALSE, NoValue)
  /\ UNCHANGED <<fileVars, lockVars, pastVars>>

-----------------------------------------------------------------------------
(* write_to_db creates the file.  set() loads the word that holds its bit  *)
(* and stores it again; the words are shared by files under other locks.   *)
CreateBegin(w) ==
  /\ pc[w] = "call" /\ call[w].op = "PUT"
  /\ File(w) \notin exists
  /\ LockExclusive(w)
  /\ loc' = [loc EXCEPT ![w].word = exists]
  /\ Goto(w, "setbit")
  /\ UNCHANGED <<fileVars, call, pastVars>>

SetBit(w) ==
  /\ pc[w] = "setbit"
  /\ exists' = loc[w].word \cup {File(w)}
  /\ Goto(w, "create")
  /\ UNCHANGED <<disk, onDisk, lockVars, call, loc, pastVars>>

Create(w) ==
  /\ pc[w] = "create"
  /\ TRUE \in OpenOutcomes
  /\ disk' = [disk EXCEPT ![File(w)] = <<>>]
  /\ onDisk' = onDisk \cup {File(w)}
  /\ Goto(w, "fill")
  /\ UNCHANGED <<exists, lockVars, call, loc, pastVars>>

CreateRefused(w) ==
  /\ pc[w] = "create"
  /\ FALSE \in OpenOutcomes
  /\ refused' = TRUE
  /\ Return(w, TRUE, NoValue)
  /\ writer' = [writer EXCEPT ![File(w)] = NoWorker]
  /\ UNCHANGED <<fileVars, readers, crashes, torn>>

(* The blank entries reach the file one after the other. *)
Fill(w) ==
  /\ pc[w] = "fill"
  /\ disk' = [disk EXCEPT ![File(w)] = Append(@, Blank)]
  /\ IF Len(disk'[File(w)]) < TableLen THEN UNCHANGED <<pc, loc, call>> ELSE ToSlot(w)
  /\ UNCHANGED <<onDisk, exists, lockVars, pastVars>>

-----------------------------------------------------------------------------
(* The loop through a ring, the same in the three functions.  What the     *)
(* links are after a failed read depends on the function: write_to_db has  *)
(* initialized rightIdx to 0, in the others it is whatever was there.      *)

RightUnread(w) == IF call[w].op = "PUT" THEN {IF Slot(w) = 1 THEN 1 ELSE MaxIdx}
                                        ELSE {Slot(w), MaxIdx}

AtEntry(w) == /\ pc[w] \in {"head", "walk"}
              /\ pc[w] = "walk" => loc[w].at # Slot(w)
              /\ loc[w].at \in DOMAIN Here(w)

Found(w) == AtEntry(w) /\ Here(w)[loc[w].at].key = call[w].key

(* The slot is empty, or the ring is back at it: the key is not there. *)
NotFound(w) == \/ pc[w] = "head" /\ AtEntry(w) /\ is_file_entry_empty(Here(w)[Slot(w)])
               \/ pc[w] = "walk" /\ loc[w].at = Slot(w)

(* One entry further.  leftIdx of write_to_db is what the slot says until  *)
(* the first turn of the loop, and then the entry just left.               *)
WalkOn(w) ==
  /\ AtEntry(w) /\ ~Found(w) /\ ~NotFound(w)
  /\ LET e == Here(w)[loc[w].at]
     IN loc' = [loc EXCEPT ![w].at = e.right,
                           ![w].prev = IF pc[w] = "head" THEN e.left ELSE loc[w].at]
  /\ Goto(w, "walk")
  /\ UNCHANGED <<fileVars, lockVars, call, pastVars>>

(* A walk that is sent to MaxIdx has a failed stream: it reads nothing     *)
(* more and turns on the spot for ever.                                    *)
WalkAstray(w) ==
  /\ pc[w] = "walk" /\ ~AtEntry(w) /\ ~NotFound(w)
  /\ UNCHANGED vars

(* The slot is behind the end of a file that is too short. *)
WalkBlind(w) ==
  /\ pc[w] = "head" /\ ~AtEntry(w)
  /\ \E i \in RightUnread(w) : loc' = [loc EXCEPT ![w].at = i, ![w].prev = Slot(w)]
  /\ Goto(w, "walk")
  /\ UNCHANGED <<fileVars, lockVars, call, pastVars>>

ReadFound(w) ==
  /\ Serves(w, "GET") /\ Found(w)
  /\ ReturnShared(w, TRUE, Here(w)[loc[w].at].value)
  /\ UNCHANGED fileVars

ReadNone(w) ==
  /\ Serves(w, "GET") /\ NotFound(w)
  /\ ReturnShared(w, FALSE, NoValue)
  /\ UNCHANGED fileVars

-----------------------------------------------------------------------------
(* write_to_db: a new value for an old entry, the first entry of a ring,   *)
(* or an entry behind the end of the file and then the links to it.        *)
WriteFound(w) ==
  /\ Serves(w, "PUT") /\ Found(w)
  /\ Write(w, loc[w].at, [Here(w)[loc[w].at] EXCEPT !.value = call[w].value])
  /\ ReturnExclusive(w, TRUE)
  /\ UNCHANGED <<onDisk, exists>>

WriteFirst(w) ==
  /\ Serves(w, "PUT") /\ pc[w] = "head" /\ NotFound(w)
  /\ Write(w, Slot(w), EntryFor(w, Slot(w), Slot(w)))
  /\ ReturnExclusive(w, TRUE)
  /\ UNCHANGED <<onDisk, exists>>

WriteAppend(w) ==
  /\ Serves(w, "PUT") /\ pc[w] = "walk" /\ NotFound(w)
  /\ Slot(w) \in DOMAIN Here(w)
  /\ disk' = [disk EXCEPT ![File(w)] = Append(@, EntryFor(w, loc[w].prev, Slot(w)))]
  /\ Goto(w, "link")
  /\ UNCHANGED <<onDisk, exists, lockVars, call, loc, pastVars>>

(* The stream has failed: nothing is written, and nobody is told. *)
WriteNothing(w) ==
  /\ Serves(w, "PUT") /\ pc[w] = "walk" /\ NotFound(w)
  /\ Slot(w) \notin DOMAIN Here(w)
  /\ ReturnExclusive(w, TRUE)
  /\ UNCHANGED fileVars

(* The second entry of a ring: both links of the slot in one write. *)
LinkBoth(w) ==
  /\ pc[w] = "link" /\ loc[w].prev = Slot(w)
  /\ LET new == Len(Here(w))
     IN Write(w, Slot(w), [Here(w)[Slot(w)] EXCEPT !.left = new, !.right = new])
  /\ ReturnExclusive(w, TRUE)
  /\ UNCHANGED <<onDisk, exists>>

LinkRight(w) ==
  /\ pc[w] = "link" /\ loc[w].prev # Slot(w)
  /\ Write(w, loc[w].prev, [Here(w)[loc[w].prev] EXCEPT !.right = Len(Here(w))])
  /\ Goto(w, "linkleft")
  /\ UNCHANGED <<onDisk, exists, lockVars, call, loc, pastVars>>

LinkLeft(w) ==
  /\ pc[w] = "linkleft"
  /\ ThenWrite(w, loc[w].prev, Slot(w), [Here(w)[Slot(w)] EXCEPT !.left = Len(Here(w))])
  /\ ReturnExclusive(w, TRUE)
  /\ UNCHANGED <<onDisk, exists>>

-----------------------------------------------------------------------------
(* delete_from_db.  The test for a slot with a right link of MAX_UINT64    *)
(* only (371-374) is left out: KeysAreLinked says it never succeeds.       *)
DeleteNone(w) ==
  /\ Serves(w, "DELETE") /\ NotFound(w)
  /\ ReturnExclusive(w, FALSE)
  /\ UNCHANGED fileVars

AloneInRing(w) == Here(w)[Slot(w)].left = Slot(w) /\ Here(w)[Slot(w)].right = Slot(w)

DeleteOnly(w) ==
  /\ Serves(w, "DELETE") /\ pc[w] = "head" /\ Found(w)
  /\ AloneInRing(w)
  /\ Write(w, Slot(w), Blank)
  /\ ReturnExclusive(w, TRUE)
  /\ UNCHANGED <<onDisk, exists>>

(* The entry in the slot: the second entry is read and cleared, the third  *)
(* linked to the slot, and the second written into the slot.               *)
DeleteHead(w) ==
  /\ Serves(w, "DELETE") /\ pc[w] = "head" /\ Found(w)
  /\ ~AloneInRing(w)
  /\ LET second == Here(w)[Slot(w)].right
     IN /\ loc' = [loc EXCEPT ![w].hold = Here(w)[second]]
        /\ Write(w, second, Blank)
  /\ Goto(w, "third")
  /\ UNCHANGED <<onDisk, exists, lockVars, call, pastVars>>

RelinkThird(w) ==
  /\ pc[w] = "third"
  /\ LET third == loc[w].hold.right
     IN \/ /\ third \in DOMAIN Here(w)
           /\ Write(w, third, [Here(w)[third] EXCEPT !.left = Slot(w)])
           /\ Goto(w, "copy")
           /\ UNCHANGED <<lockVars, call, loc, pastVars>>
        \/ /\ third \notin DOMAIN Here(w)      \* the seek fails, nothing is written
           /\ ReturnExclusive(w, TRUE)
           /\ UNCHANGED disk
  /\ UNCHANGED <<onDisk, exists>>

CopySecond(w) ==
  /\ pc[w] = "copy"
  /\ Write(w, Slot(w), [loc[w].hold EXCEPT !.left = Here(w)[Slot(w)].left])
  /\ ReturnExclusive(w, TRUE)
  /\ UNCHANGED <<onDisk, exists>>

(* An entry behind the slot: it is cleared, then its neighbours linked. *)
DeleteEntry(w) ==
  /\ Serves(w, "DELETE") /\ pc[w] = "walk" /\ Found(w)
  /\ loc' = [loc EXCEPT ![w].hold = Here(w)[loc[w].at]]
  /\ Write(w, loc[w].at, Blank)
  /\ Goto(w, "unlinkright")
  /\ UNCHANGED <<onDisk, exists, lockVars, call, pastVars>>

UnlinkRight(w) ==
  /\ pc[w] = "unlinkright"
  /\ LET l == loc[w].hold.left
     IN Write(w, l, [Here(w)[l] EXCEPT !.right = loc[w].hold.right])
  /\ Goto(w, "unlinkleft")
  /\ UNCHANGED <<onDisk, exists, lockVars, call, loc, pastVars>>

UnlinkLeft(w) ==
  /\ pc[w] = "unlinkleft"
  /\ LET r == loc[w].hold.right
     IN ThenWrite(w, loc[w].hold.left, r, [Here(w)[r] EXCEPT !.left = loc[w].hold.left])
  /\ ReturnExclusive(w, TRUE)
  /\ UNCHANGED <<onDisk, exists>>

-----------------------------------------------------------------------------
(* Where a file is not whole between two writes. *)
TearingPlaces == {"fill", "third", "copy", "unlinkright", "unlinkleft"}

(* The process is killed and started again: init_kvstore asks the          *)
(* directory which files there are.                                        *)
Crash ==
  /\ crashes < MaxCrashes
  /\ crashes' = crashes + 1
  /\ torn' = (torn \/ \E w \in Workers : pc[w] \in TearingPlaces)
  /\ exists' = onDisk
  /\ readers' = [f \in Files |-> {}]
  /\ writer' = [f \in Files |-> NoWorker]
  /\ call' = [w \in Workers |-> NoAnswer]
  /\ pc' = [w \in Workers |-> "idle"]
  /\ loc' = [w \in Workers |-> NoLocals]
  /\ UNCHANGED <<disk, onDisk, refused>>

Read(w)   == ReadOpen(w) \/ ReadFound(w) \/ ReadNone(w)
Creation(w) == CreateBegin(w) \/ SetBit(w) \/ Create(w) \/ CreateRefused(w) \/ Fill(w)
Update(w) == \/ Creation(w)
             \/ WriteFound(w) \/ WriteFirst(w) \/ WriteAppend(w) \/ WriteNothing(w)
             \/ LinkBoth(w) \/ LinkRight(w) \/ LinkLeft(w)
Delete(w) == \/ DeleteNoFile(w) \/ DeleteNone(w) \/ DeleteOnly(w)
             \/ DeleteHead(w) \/ RelinkThird(w) \/ CopySecond(w)
             \/ DeleteEntry(w) \/ UnlinkRight(w) \/ UnlinkLeft(w)

Step(w) == \/ UpdateOpen(w) \/ UpdateRefused(w) \/ WalkOn(w) \/ WalkAstray(w) \/ WalkBlind(w)
           \/ Read(w) \/ Update(w) \/ Delete(w)

Next == Crash \/ \E w \in Workers : Begin(w) \/ Step(w)

Spec == Init /\ [][Next]_vars

(* The operating system runs every thread that can run. *)
Fairness == \A w \in Workers : WF_vars(Step(w))

FairSpec == Spec /\ Fairness
=============================================================================

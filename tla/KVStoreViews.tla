---------------------------- MODULE KVStoreViews ----------------------------
(***************************************************************************)
(* What the database files mean: the map they hold, and the shape of their *)
(* rings.  "settled" is a history variable: the value of each key when the *)
(* last writer of its file let go of it, or died.                          *)
(***************************************************************************)
EXTENDS KVStore

VARIABLE settled

TypeOK ==
  /\ disk \in [Files -> Seq(Entry)]
  /\ onDisk \subseteq Files /\ exists \subseteq Files
  /\ readers \in [Files -> SUBSET Workers]
  /\ writer \in [Files -> Workers \cup {NoWorker}]
  /\ call \in [Workers -> Requests \cup Answers]
  /\ \A w \in Workers : pc[w] # "idle" => call[w] \in Requests
  /\ loc \in [Workers -> [at : Nat, prev : Nat, hold : Entry, word : SUBSET Files]]
  /\ crashes \in 0..MaxCrashes /\ torn \in BOOLEAN /\ refused \in BOOLEAN

-----------------------------------------------------------------------------
(* The locks of the files. *)

HoldsShared(w, f) == pc[w] \in {"head", "walk"} /\ call[w].op = "GET" /\ File(w) = f

HoldsExclusive(w, f) == /\ pc[w] \notin {"idle", "call"}
                        /\ pc[w] \in {"head", "walk"} => call[w].op # "GET"
                        /\ File(w) = f

(* A file's lock (file_locks, KVStore.hpp:68, 165, 324) is held exactly by *)
(* the calls that are between their open and their return, shared by those *)
(* of read_from_db and exclusively by the others, on every way through and *)
(* out of the three functions.                                             *)
LocksMatchCalls ==
  \A f \in Files :
     /\ readers[f] = {w \in Workers : HoldsShared(w, f)}
     /\ \A w \in Workers : writer[f] = w <=> HoldsExclusive(w, f)
     /\ writer[f] = NoWorker \/ readers[f] = {}

(* A file only changes, or comes to be, while one call has its lock        *)
(* exclusively and no call reads it: what a call has read of a file is     *)
(* still so when it writes.                                                *)
FilesGuarded ==
  [][\A f \in Files : disk'[f] # disk[f] \/ f \in onDisk' \ onDisk =>
                        writer[f] # NoWorker /\ readers[f] = {}]_vars

-----------------------------------------------------------------------------
(* The rings of one file d. *)

(* The entry n links to the right of i. *)
Chain(d, i) ==
  LET at[n \in 0..Len(d)] ==
        IF n = 0 THEN i
        ELSE LET last == at[n - 1]
             IN IF last \in DOMAIN d THEN d[last].right ELSE MaxIdx
  IN at

Ring(d, s) == LET at == Chain(d, s) IN {at[n] : n \in 0..Len(d)} \ {MaxIdx}

Lookup(d, s, k) ==
  LET hits == {i \in Ring(d, s) \cap DOMAIN d : d[i].key = k}
  IN IF hits = {} THEN NoValue ELSE d[CHOOSE i \in hits : TRUE].value

ValueOf(k) == Lookup(disk[FileOf[k]], SlotOf[k], k)

IsEmptySlot(d, s) == d[s].left = MaxIdx /\ d[s].right = MaxIdx

(* Following the right links from slot s leads back to it, every entry on  *)
(* the way is the left neighbour of the next one behind the slot, and      *)
(* holds a key of its own that hashes to s.                                *)
ProperRing(d, f, s) ==
  LET at   == Chain(d, s)
      ring == Ring(d, s)
  IN /\ \E n \in 1..Len(d) : at[n] = s
     /\ \A i \in ring :
          /\ i = s \/ i > TableLen
          /\ d[i].key \in Keys /\ FileOf[d[i].key] = f /\ SlotOf[d[i].key] = s
          /\ d[i].right # s => d[d[i].right].left = i
          /\ \A j \in ring : d[i].key = d[j].key => i = j

-----------------------------------------------------------------------------
HistoryInit == Init /\ settled = [k \in Keys |-> NoValue]

Released(f) == writer[f] # NoWorker /\ writer'[f] = NoWorker

HistoryNext ==
  /\ Next
  /\ settled' = [k \in Keys |-> IF Released(FileOf[k]) THEN ValueOf(k)' ELSE settled[k]]

historyVars == <<vars, settled>>

HistorySpec == HistoryInit /\ [][HistoryNext]_historyVars /\ Fairness

Map == INSTANCE KVMap WITH Clients <- Workers, dict <- settled

(* A call that was cut off by the death of the process has taken effect or *)
(* it has not; no other key is touched.                                    *)
Recovered ==
  /\ \A w \in Workers : call'[w] = NoAnswer
  /\ \A k \in Keys : \/ settled'[k] = settled[k]
                     \/ \E w \in Workers : /\ pc[w] # "idle"
                                           /\ settled'[k] = Effect(settled, call[w])[k]

(* The files are one map on which every call takes effect at one instant,  *)
(* and which survives the death of the process between any two writes --   *)
(* as long as it did not die where a DELETE or the creation of a file has  *)
(* torn one, and every file that is there could be opened.                 *)
StoreIsMap ==
  /\ Map!Init
  /\ [][torn' \/ refused' \/ (IF crashes' # crashes THEN Recovered ELSE Map!Next)]_Map!vars

(* Unless a crash has torn it, a file nobody writes is a table of slots    *)
(* that are empty or hold a proper ring, whatever was put, deleted, cut    *)
(* off or refused before.                                                  *)
RingsWhole ==
  ~torn => \A f \in onDisk : writer[f] = NoWorker =>
             /\ Len(disk[f]) >= TableLen
             /\ \A s \in 1..TableLen :
                  IsEmptySlot(disk[f], s) \/ ProperRing(disk[f], f, s)

(* An entry that holds a key has a right link, torn or not: the branch of  *)
(* delete_from_db that "should have been handled earlier" (371-374), for a *)
(* first entry with the key but no right link, is never taken.  (The left  *)
(* link a file torn more than once may lack.)                              *)
KeysAreLinked ==
  \A f \in Files : \A i \in DOMAIN disk[f] :
     disk[f][i].key # NoKey => disk[f][i].right # MaxIdx

(* A call that has the lock of its file gives it back: no walk leaves its  *)
(* ring and goes on for ever, unless a crash has torn the file.            *)
LockGivenBack ==
  \A w \in Workers : pc[w] \notin {"idle", "call"} ~> pc[w] = "idle" \/ torn
=============================================================================

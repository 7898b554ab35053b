-------------------------- MODULE KVCacheMapProofs --------------------------
(***************************************************************************)
(* The cache, the eviction and the files together implement KVMap, proved  *)
(* for every number of workers, keys, values, nodes, buckets and LRU queues,*)
(* as long as calls do not overlap.                                        *)
(*                                                                         *)
(* Shows(k, x) says without walking a list that x is the value a client    *)
(* would be answered for k.  Each step is shown to keep what is shown, or, *)
(* at the last step of a call, to change it as the request asks.  The last *)
(* part is about the LRU queues: each lists its keys in the order of use.  *)
(***************************************************************************)
EXTENDS KVCacheListProofs, KVCacheLRU

(* What a client can see.                                                 *)

(* x is what the cache and the files say of key k. *)
Shows(k, x) ==
  LET linked == {n \in InBucket(BucketOf[k]) : entry[n].key = k}
      leaving == {t \in Threads : pc[t] = "writeback" /\ entry[loc[t].slot].key = k}
  IN /\ \A n \in linked : x = ValueIn(n)
     /\ linked = {} => \A t \in leaving : x = ValueIn(loc[t].slot)
     /\ linked = {} /\ leaving = {} => x = db[k]

(* At most one thread is busy, cache_clean's included. *)
LEMMA OneVictim ==
  ASSUME Quiet, OneAtATime, NEW s \in Threads, NEW t \in Threads, pc[s] # "idle", pc[t] # "idle"
  PROVE  s = t
<1>1. At(s, pc[s])
      BY DEF Quiet, At
<1> QED BY <1>1, BusyAlone DEF Working

(* What Visible finds by walking the bucket is what is shown. *)
LEMMA VisibleShows ==
  MapInv /\ OneAtATime /\ phase # "stopped" => \A k \in Keys : Shows(k, Visible(k))
<1> SUFFICES ASSUME MapInv, OneAtATime, phase # "stopped", NEW k \in Keys
             PROVE  Shows(k, Visible(k))
    OBVIOUS
<1> DEFINE b       == BucketOf[k]
           walk    == Walk(ht, b, NodeCount)
           hits    == {i \in 0..NodeCount : walk[i] # Nil /\ entry[walk[i]].key = k}
           victims == {loc[t].slot : t \in {t \in Threads : pc[t] = "writeback"}}
           leaving == {n \in victims : entry[n].key = k}
           first   == CHOOSE i \in hits : \A j \in hits : i <= j
<1>1. b \in Buckets /\ NodeCount \in Nat
      BY CacheAssumption, CountOfNodes
<1>2. Visible(k) = IF hits # {} THEN ValueIn(walk[first])
                   ELSE IF leaving # {} THEN ValueIn(CHOOSE n \in leaving : TRUE) ELSE db[k]
      BY DEF MapInv, Quiet, Visible
<1>3. \A n : n \in InBucket(b) <=> n # Nil /\ \E i \in 0..NodeCount : n = walk[i]
      BY DEF InBucket, Members
<1> HIDE DEF walk
<1>4. \A n \in InBucket(b) : entry[n].key = k => \E i \in hits : n = walk[i]
      BY <1>3
<1>5. \A i \in hits : walk[i] \in InBucket(b) /\ entry[walk[i]].key = k
      BY <1>3
<1>6. \A m, n \in InBucket(b) : entry[m].key = k /\ entry[n].key = k => m = n
      BY <1>1, KeysAreUnique DEF OneNodePerKey
<1>7. hits # {} => first \in hits
      <2> SUFFICES ASSUME hits # {} PROVE first \in hits
          OBVIOUS
      <2>1. hits \in SUBSET Nat
            BY <1>1
      <2>2. \E i \in hits : \A j \in hits : i <= j
            BY <2>1, LeastOf
      <2> QED BY <2>2
<1> HIDE DEF hits, first, b
<1>8. \A s, t \in Threads : pc[s] = "writeback" /\ pc[t] = "writeback" => s = t
      BY OneVictim DEF MapInv
<1>9. ASSUME NEW t \in Threads, pc[t] = "writeback", entry[loc[t].slot].key = k
      PROVE  leaving # {} /\ (CHOOSE n \in leaving : TRUE) = loc[t].slot
      <2>1. loc[t].slot \in leaving
            BY <1>9
      <2>2. \A n \in leaving : n = loc[t].slot
            BY <1>8, <1>9
      <2> QED BY <2>1, <2>2
<1>10. leaving # {} => \E t \in Threads : pc[t] = "writeback" /\ entry[loc[t].slot].key = k
      OBVIOUS
<1> HIDE DEF leaving, victims
<1>11. CASE hits # {}
      <2>1. /\ Visible(k) = ValueIn(walk[first]) /\ walk[first] \in InBucket(b)
            /\ entry[walk[first]].key = k
            BY <1>2, <1>5, <1>7, <1>11
      <2>2. \A n \in InBucket(b) : entry[n].key = k => n = walk[first]
            BY <1>6, <2>1
      <2> QED BY <2>1, <2>2 DEF Shows, b
<1>12. CASE hits = {}
      <2>1. \A n \in InBucket(b) : entry[n].key # k
            BY <1>4, <1>12
      <2>2. CASE \E t \in Threads : pc[t] = "writeback" /\ entry[loc[t].slot].key = k
            <3>1. \A t \in Threads : pc[t] = "writeback" /\ entry[loc[t].slot].key = k
                     => Visible(k) = ValueIn(loc[t].slot)
                  BY <1>2, <1>9, <1>12
            <3> QED BY <2>1, <2>2, <3>1 DEF Shows, b
      <2>3. CASE ~ \E t \in Threads : pc[t] = "writeback" /\ entry[loc[t].slot].key = k
            <3>1. Visible(k) = db[k]
                  BY <1>2, <1>10, <1>12, <2>3
            <3> QED BY <2>1, <2>3, <3>1 DEF Shows, b
      <2> QED BY <2>2, <2>3
<1> QED BY <1>11, <1>12

(* Only one value is shown. *)
LEMMA ShownOnce ==
  ASSUME (\A k \in Keys : Shows(k, Visible(k)))', NEW k \in Keys, NEW x, Shows(k, x)'
  PROVE  Visible(k)' = x
<1>1. Shows(k, Visible(k))'
      OBVIOUS
<1> QED BY <1>1 DEF Shows

(* In the steps of one thread no other is at a write-back. *)
LEMMA VictimOfStep ==
  ASSUME NEW t \in Threads, NEW bt, NEW qu, Ready(t, bt, qu), Step(t)
  PROVE  /\ \A s \in Threads : pc[s] = "writeback" => s = t
         /\ \A s \in Threads : pc'[s] = "writeback" => s = t
         /\ \A b \in Buckets : InBucket(b) = Range(bt[b])
         /\ \A b \in Buckets : InBucket(b) \subseteq Node
<1>1. \A s \in Threads \ {t} : pc[s] = "idle" /\ pc'[s] = "idle"
      BY ReadyTypes, StepAlone DEF Ready, Working
<1>2. \A b \in Buckets : InBucket(b) = Range(bt[b])
      BY ReadyTypes, OrderedIsShort DEF InBucket
<1>3. \A b \in Buckets : Range(bt[b]) \subseteq Node
      BY ReadyTypes, OrderedNodes
<1> QED BY <1>1, <1>2, <1>3

(* A step that changes neither nodes nor files changes nothing shown. *)
LEMMA LooksShow ==
  ASSUME NEW t \in Threads, NEW bt, NEW qu, Ready(t, bt, qu), Step(t),
         UNCHANGED <<ht, entry, db>>, pc[t] # "writeback", pc'[t] # "writeback",
         NEW k \in Keys, NEW x, Shows(k, x)
  PROVE  Shows(k, x)'
<1>1. \A s \in Threads : pc[s] # "writeback" /\ pc'[s] # "writeback"
      BY VictimOfStep
<1>2. InBucket(BucketOf[k])' = InBucket(BucketOf[k])
      BY DEF InBucket
<1> QED BY <1>1, <1>2 DEF Shows, ValueIn

(* Neither does filling a node that is not linked. *)
LEMMA FillShow ==
  ASSUME NEW t \in Threads, NEW bt, NEW qu, Ready(t, bt, qu), Fill(t),
         NEW k \in Keys, NEW x, Shows(k, x)
  PROVE  Shows(k, x)'
<1> DEFINE n == loc[t].slot
<1>0. Step(t) /\ pc \in [Threads -> Places] /\ entry \in [Node -> Entries] /\ ht \in ListFamily(Buckets, Node)
      BY ReadyTypes DEF Step, PutNew, TypeOK
<1>1. /\ pc[t] = "fill" /\ pc'[t] = "publish" /\ db' = db
      /\ entry' = [entry EXCEPT ![n] = SetAll(req[t], insertIdx)]
      /\ ht' = ForgetLinks(ht, n)
      BY <1>0 DEF Fill, At, Goto
<1>2. BucketOf[k] \in Buckets
      BY CacheAssumption
<1>3. n \in Node /\ Loose(bt, qu, n)
      BY <1>1, HeldNode
<1> HIDE DEF n
<1>4. \A s \in Threads : pc[s] # "writeback" /\ pc'[s] # "writeback"
      BY <1>0, <1>1, VictimOfStep
<1>5. InBucket(BucketOf[k]) = Range(bt[BucketOf[k]]) /\ InBucket(BucketOf[k]) \subseteq Node
      BY <1>0, <1>2, VictimOfStep
<1>6. InBucket(BucketOf[k])' = Range(bt[BucketOf[k]])
      <2>1. InOrder(ForgetLinks(ht, n), Buckets, Node, bt)
            BY <1>3, ReadyTypes, ForgetLinksKeepsOrder DEF Loose
      <2> QED BY <1>1, <1>2, <2>1, OrderedIsShort DEF InBucket
<1>7. \A m \in InBucket(BucketOf[k]) : entry'[m] = entry[m]
      BY <1>0, <1>1, <1>2, <1>3, <1>5 DEF Loose
<1> QED BY <1>1, <1>4, <1>5, <1>6, <1>7 DEF Shows, ValueIn

(* A call that writes to the linked node of its key. *)
LEMMA NodeShows ==
  ASSUME NEW t \in Threads, NEW bt, NEW qu, Ready(t, bt, qu), Step(t), Found(t, bt),
         UNCHANGED <<ht, db>>, pc[t] # "writeback", pc'[t] # "writeback",
         NEW n, n = loc[t].node, NEW v, ValueIn(n)' = v, entry'[n].key = entry[n].key,
         \A m \in Node \ {n} : entry'[m] = entry[m],
         NEW k \in Keys, NEW x, Shows(k, x), NEW y, y = IF k = req[t].key THEN v ELSE x
  PROVE  Shows(k, y)'
<1>1. \A s \in Threads : pc[s] # "writeback" /\ pc'[s] # "writeback"
      BY VictimOfStep
<1>2. /\ InBucket(BucketOf[k])' = InBucket(BucketOf[k]) /\ BucketOf[k] \in Buckets
      /\ InBucket(BucketOf[k]) = Range(bt[BucketOf[k]]) /\ InBucket(BucketOf[k]) \subseteq Node
      BY VictimOfStep, CacheAssumption DEF InBucket
<1>3. n \in Range(bt[Bucket(t)]) /\ entry[n].key = req[t].key
      BY DEF Found
<1>4. CASE k = req[t].key
      <2>1. n \in InBucket(BucketOf[k])'
            BY <1>2, <1>3, <1>4 DEF Bucket
      <2>2. \A m \in InBucket(BucketOf[k]) : entry[m].key = k => m = n
            BY <1>2, <1>3, <1>4 DEF Ready, Sound, Shelved, Bucket
      <2>3. \A m \in InBucket(BucketOf[k])' : entry'[m].key = k => m = n
            BY <1>2, <2>2
      <2>4. y = v /\ entry'[n].key = k
            BY <1>3, <1>4
      <2> QED BY <2>1, <2>3, <2>4 DEF Shows
<1>5. CASE k # req[t].key
      <2>1. \A m \in InBucket(BucketOf[k]) : entry'[m].key = entry[m].key
            BY <1>2
      <2>2. \A m \in InBucket(BucketOf[k]) : entry[m].key = k => entry'[m] = entry[m]
            BY <1>2, <1>3, <1>5
      <2>3. y = x
            BY <1>5
      <2> QED BY <1>1, <1>2, <2>1, <2>2, <2>3 DEF Shows, ValueIn
<1> QED BY <1>4, <1>5

(* cache_PUT to a linked node. *)
LEMMA PutShow ==
  ASSUME NEW t \in Threads, NEW bt, NEW qu, Ready(t, bt, qu), PutUpdate(t),
         NEW k \in Keys, NEW x, Shows(k, x), NEW y, y = IF k = req[t].key THEN req[t].value ELSE x
  PROVE  Shows(k, y)'
<1> PICK n, v : n = loc[t].node /\ v = req[t].value
    OBVIOUS
<1>0. /\ TypeOK /\ pc \in [Threads -> Places] /\ entry \in [Node -> Entries] /\ Step(t)
      BY ReadyTypes DEF TypeOK, Step, Put
<1>1. pc[t] = "update" /\ pc'[t] = "idle" /\ UNCHANGED <<ht, db>> /\ Found(t, bt)
      BY <1>0 DEF PutUpdate, At, Finish, Goto, Ready, AtWork
<1>2. n \in Node /\ Filled(n)
      BY <1>0, <1>1, LinkedNode, ReadyTypes DEF Found, Ready
<1>3. entry[n] \in Entries
      BY <1>0, <1>2
<1>4. entry' = [entry EXCEPT ![n] = [entry[n] EXCEPT !.dirty = DirtyAfterPut(entry[n], v),
                                                     !.value = v]]
      BY <1>0, <1>2 DEF PutUpdate, Entries
<1>5. /\ entry'[n].key = entry[n].key /\ entry'[n].value = v
      /\ entry'[n].dirty = DirtyAfterPut(entry[n], v)
      BY <1>0, <1>2, <1>3, <1>4 DEF Entries
<1>6. DirtyAfterPut(entry[n], v) = "DIRTY"
      BY <1>2 DEF DirtyAfterPut, Filled
<1>7. ValueIn(n)' = v
      BY <1>5, <1>6 DEF ValueIn
<1>8. \A m \in Node \ {n} : entry'[m] = entry[m]
      BY <1>0, <1>4
<1> QED BY <1>0, <1>1, <1>5, <1>7, <1>8, NodeShows

(* cache_DELETE of a linked node. *)
LEMMA MarkShow ==
  ASSUME NEW t \in Threads, NEW bt, NEW qu, Ready(t, bt, qu), DeleteMark(t),
         NEW k \in Keys, NEW x, Shows(k, x), NEW y, y = IF k = req[t].key THEN NoValue ELSE x
  PROVE  Shows(k, y)'
<1> PICK n : n = loc[t].node
    OBVIOUS
<1>0. /\ TypeOK /\ pc \in [Threads -> Places] /\ entry \in [Node -> Entries] /\ Step(t)
      BY ReadyTypes DEF TypeOK, Step, Delete
<1>1. /\ pc[t] = "update" /\ pc'[t] = "idle" /\ UNCHANGED <<ht, db>> /\ Found(t, bt)
      /\ req[t].op = "DELETE"
      BY <1>0 DEF DeleteMark, At, Finish, Goto, Ready, AtWork
<1>2. n \in Node /\ entry[n].dirty # "TODELETE"
      BY <1>0, <1>1, LinkedNode, ReadyTypes DEF Found, Ready
<1>3. entry[n] \in Entries
      BY <1>0, <1>2
<1>4. entry' = [entry EXCEPT ![n].dirty = "TODELETE"]
      BY <1>2 DEF DeleteMark
<1>5. entry'[n].key = entry[n].key /\ entry'[n].dirty = "TODELETE"
      BY <1>0, <1>2, <1>3, <1>4 DEF Entries
<1>6. ValueIn(n)' = NoValue
      BY <1>5 DEF ValueIn
<1>7. \A m \in Node \ {n} : entry'[m] = entry[m]
      BY <1>0, <1>4
<1> QED BY <1>0, <1>1, <1>5, <1>6, <1>7, NodeShows

(* cache_DELETE of a key that is not cached goes to the file. *)
LEMMA MissShow ==
  ASSUME NEW t \in Threads, NEW bt, NEW qu, Ready(t, bt, qu), DeleteMiss(t),
         NEW k \in Keys, NEW x, Shows(k, x), NEW y, y = IF k = req[t].key THEN NoValue ELSE x
  PROVE  Shows(k, y)'
<1>0. /\ TypeOK /\ pc \in [Threads -> Places] /\ db \in [Keys -> MaybeValue] /\ Step(t)
      BY ReadyTypes DEF TypeOK, Step, Delete
<1>1. /\ pc[t] = "walk" /\ pc'[t] = "idle" /\ UNCHANGED <<ht, entry>>
      /\ db' = [db EXCEPT ![req[t].key] = NoValue] /\ Absent(bt, req[t].key)
      BY <1>0, MissIsAbsent DEF DeleteMiss, Miss, At, Finish, Goto
<1>2. \A s \in Threads : pc[s] # "writeback" /\ pc'[s] # "writeback"
      BY <1>0, <1>1, VictimOfStep
<1>3. /\ InBucket(BucketOf[k])' = InBucket(BucketOf[k]) /\ BucketOf[k] \in Buckets
      /\ InBucket(BucketOf[k]) = Range(bt[BucketOf[k]])
      BY <1>0, <1>1, VictimOfStep, CacheAssumption DEF InBucket
<1>4. CASE k = req[t].key
      <2>1. db'[k] = NoValue /\ y = NoValue
            BY <1>0, <1>1, <1>4
      <2>2. \A m \in InBucket(BucketOf[k])' : entry'[m].key # k
            BY <1>1, <1>3, <1>4 DEF Absent
      <2> QED BY <1>2, <2>1, <2>2 DEF Shows
<1>5. CASE k # req[t].key
      <2>1. db'[k] = db[k] /\ y = x
            BY <1>0, <1>1, <1>5
      <2> QED BY <1>1, <1>2, <1>3, <2>1 DEF Shows, ValueIn
<1> QED BY <1>4, <1>5

(* What an unlinked key, not on its way to the file, shows is the file's. *)
LEMMA ShownAbsent ==
  ASSUME NEW t \in Threads, NEW bt, NEW qu, Ready(t, bt, qu), Step(t), pc[t] # "writeback",
         NEW k \in Keys, NEW x, Shows(k, x), Absent(bt, k)
  PROVE  x = db[k]
<1>1. \A s \in Threads : pc[s] # "writeback"
      BY VictimOfStep
<1>2. BucketOf[k] \in Buckets /\ InBucket(BucketOf[k]) = Range(bt[BucketOf[k]])
      BY VictimOfStep, CacheAssumption
<1>3. \A m \in InBucket(BucketOf[k]) : entry[m].key # k
      BY <1>2 DEF Absent
<1> QED BY <1>1, <1>3 DEF Shows

(* Linking the filled node: its value is shown from then on. *)
LEMMA InsertShow ==
  ASSUME NEW t \in Threads, NEW bt, NEW qu, Ready(t, bt, qu), Insert(t),
         NEW k \in Keys, NEW x, Shows(k, x), NEW y, y = IF k = req[t].key THEN req[t].value ELSE x
  PROVE  Shows(k, y)'
<1> PICK n, c : n = loc[t].slot /\ c = loc[t].bucket
    OBVIOUS
<1>0. /\ TypeOK /\ pc \in [Threads -> Places] /\ loc[t] \in Locals /\ Step(t)
      /\ InOrder(ht, Buckets, Node, bt)
      BY ReadyTypes DEF TypeOK, Step, PutNew
<1>1. pc[t] = "insert" /\ pc'[t] = "idle" /\ UNCHANGED <<entry, db>> /\ ht' = PushFront(ht, c, n)
      BY <1>0 DEF Insert, insert_to_head_HT, At, Finish, Goto
<1>2. n \in Node /\ Loose(bt, qu, n) /\ c \in Buckets
      BY <1>0, <1>1, HeldNode DEF Locals
<1>3. /\ entry[n] = SetAll(req[t], loc[t].queue) /\ c = BucketOf[req[t].key]
      /\ Absent(bt, req[t].key)
      BY <1>1 DEF Ready, AtWork, Making, Bucket
<1>4. entry[n].key = req[t].key /\ ValueIn(n) = req[t].value
      BY <1>3 DEF SetAll, ValueIn
<1>5. PICK B : InOrder(ht', Buckets, Node, B) /\ With(Buckets, bt, B, c, n)
      BY <1>0, <1>1, <1>2, Pushed DEF Loose, Nowhere
<1>6. \A s \in Threads : pc[s] # "writeback" /\ pc'[s] # "writeback"
      BY <1>0, <1>1, VictimOfStep
<1>7. BucketOf[k] \in Buckets
      BY CacheAssumption
<1>8. InBucket(BucketOf[k]) = Range(bt[BucketOf[k]])
      BY <1>0, <1>7, VictimOfStep
<1>9. InBucket(BucketOf[k])' = Range(B[BucketOf[k]])
      BY <1>5, <1>7, OrderedIsShort DEF InBucket
<1>10. \A m : m \in InBucket(BucketOf[k])' <=>
              m \in InBucket(BucketOf[k]) \/ (BucketOf[k] = c /\ m = n)
      BY <1>5, <1>7, <1>8, <1>9 DEF With
<1>11. \A m : ValueIn(m)' = ValueIn(m)
      BY <1>1 DEF ValueIn
<1>12. CASE k = req[t].key
      <2>1. \A m \in InBucket(BucketOf[k]) : entry[m].key # k
            BY <1>3, <1>7, <1>8, <1>12 DEF Absent
      <2>2. \A m \in InBucket(BucketOf[k])' : entry'[m].key = k => m = n
            BY <1>1, <1>10, <2>1
      <2>3. n \in InBucket(BucketOf[k])' /\ entry'[n].key = k
            BY <1>1, <1>3, <1>4, <1>10, <1>12
      <2>4. y = ValueIn(n)'
            BY <1>4, <1>11, <1>12
      <2> QED BY <2>2, <2>3, <2>4 DEF Shows
<1>13. CASE k # req[t].key
      <2>1. {m \in InBucket(BucketOf[k])' : entry'[m].key = k}
              = {m \in InBucket(BucketOf[k]) : entry[m].key = k}
            BY <1>1, <1>4, <1>10, <1>13
      <2>2. y = x
            BY <1>13
      <2> QED BY <1>1, <1>6, <1>11, <2>1, <2>2 DEF Shows
<1> QED BY <1>12, <1>13

(* Unlinking the victim: it is still shown, by its thread's hands. *)
LEMMA UnlinkShow ==
  ASSUME NEW t \in Threads, NEW bt, NEW qu, Ready(t, bt, qu), UnlinkVictim(t),
         NEW k \in Keys, NEW x, Shows(k, x)
  PROVE  Shows(k, x)'
<1> PICK v, c : v = lru.tail[loc[t].queue] /\ c = loc[t].bucket
    OBVIOUS
<1>0. /\ TypeOK /\ pc \in [Threads -> Places] /\ loc \in [Threads -> Locals] /\ Step(t)
      /\ InOrder(ht, Buckets, Node, bt) /\ Shelved(bt, qu)
      BY ReadyTypes DEF TypeOK, Step, Eviction, Ready, Sound
<1>1. pc[t] = "unlink"
      BY DEF UnlinkVictim, At
<1>2. v # Nil /\ v \in Node /\ c \in Buckets /\ v \in Range(bt[c]) /\ Home(v) = c
      BY <1>1, VictimFacts
<1>3. /\ UNCHANGED <<entry, db>> /\ pc'[t] = "writeback"
      /\ ht' = Unlink(ht, c, v) /\ loc' = [loc EXCEPT ![t].slot = v]
      BY <1>0, <1>2 DEF UnlinkVictim, remove_from_dll_HT, Goto
<1>4. loc'[t].slot = v
      BY <1>0, <1>3 DEF Locals
<1>5. PICK B : InOrder(ht', Buckets, Node, B) /\ Minus(Buckets, bt, B, v)
      BY <1>0, <1>2, <1>3, Taken
<1>6. /\ \A s \in Threads : pc[s] # "writeback"
      /\ \A s \in Threads : pc'[s] = "writeback" <=> s = t
      BY <1>0, <1>1, <1>3, VictimOfStep
<1>7. BucketOf[k] \in Buckets
      BY CacheAssumption
<1>8. InBucket(BucketOf[k]) = Range(bt[BucketOf[k]])
      BY <1>0, <1>7, VictimOfStep
<1>9. InBucket(BucketOf[k])' = Range(B[BucketOf[k]])
      BY <1>5, <1>7, OrderedIsShort DEF InBucket
<1>10. \A m : m \in InBucket(BucketOf[k])' <=> m \in InBucket(BucketOf[k]) /\ m # v
      BY <1>5, <1>7, <1>8, <1>9 DEF Minus
<1>11. \A m : ValueIn(m)' = ValueIn(m)
      BY <1>3 DEF ValueIn
<1>12. CASE k = entry[v].key
      <2>1. v \in InBucket(BucketOf[k]) /\ BucketOf[k] = c
            BY <1>2, <1>8, <1>12 DEF Home
      <2>2. x = ValueIn(v)
            BY <1>12, <2>1 DEF Shows
      <2>3. \A m \in InBucket(BucketOf[k]) : entry[m].key = k => m = v
            BY <1>0, <1>2, <1>8, <1>12, <2>1 DEF Shelved
      <2>4. \A m \in InBucket(BucketOf[k])' : entry'[m].key # k
            BY <1>3, <1>10, <2>3
      <2>5. x = ValueIn(loc[t].slot)' /\ entry'[loc'[t].slot].key = k
            BY <1>3, <1>4, <1>12, <2>2 DEF ValueIn
      <2> QED BY <1>6, <2>4, <2>5 DEF Shows
<1>13. CASE k # entry[v].key
      <2>1. {m \in InBucket(BucketOf[k])' : entry'[m].key = k}
              = {m \in InBucket(BucketOf[k]) : entry[m].key = k}
            BY <1>3, <1>10, <1>13
      <2>2. \A s \in Threads : pc'[s] = "writeback" => entry'[loc'[s].slot].key # k
            BY <1>3, <1>4, <1>6, <1>13
      <2> QED BY <1>3, <1>6, <1>11, <2>1, <2>2 DEF Shows
<1> QED BY <1>12, <1>13

(* Writing it back: the file shows from then on what the victim showed. *)
LEMMA WriteBackShow ==
  ASSUME NEW t \in Threads, NEW bt, NEW qu, Ready(t, bt, qu), WriteBack(t),
         NEW k \in Keys, NEW x, Shows(k, x)
  PROVE  Shows(k, x)'
<1> PICK v : v = loc[t].slot
    OBVIOUS
<1>0. /\ TypeOK /\ pc \in [Threads -> Places] /\ db \in [Keys -> MaybeValue] /\ Step(t)
      BY ReadyTypes DEF TypeOK, Step, Eviction
<1>1. /\ pc[t] = "writeback" /\ pc'[t] # "writeback" /\ UNCHANGED <<ht, entry, loc>>
      /\ db' = Flushed(db, entry[v])
      BY <1>0 DEF WriteBack, At, Goto
<1>2. Filled(v) /\ Absent(bt, entry[v].key)
      BY <1>1 DEF Ready, AtWork
<1>3. /\ \A s \in Threads : pc[s] = "writeback" <=> s = t
      /\ \A s \in Threads : pc'[s] # "writeback"
      BY <1>0, <1>1, VictimOfStep
<1>4. /\ InBucket(BucketOf[k])' = InBucket(BucketOf[k]) /\ BucketOf[k] \in Buckets
      /\ InBucket(BucketOf[k]) = Range(bt[BucketOf[k]])
      BY <1>0, <1>1, VictimOfStep, CacheAssumption DEF InBucket
<1>5. \A m : ValueIn(m)' = ValueIn(m)
      BY <1>1 DEF ValueIn
<1>6. CASE k = entry[v].key
      <2>1. \A m \in InBucket(BucketOf[k]) : entry[m].key # k
            BY <1>2, <1>4, <1>6 DEF Absent
      <2>2. x = ValueIn(v)
            BY <1>3, <1>6, <2>1 DEF Shows
      <2>3. db'[k] = ValueIn(v)
            BY <1>0, <1>1, <1>2, <1>6 DEF Flushed, Filled, ValueIn
      <2>4. \A m \in InBucket(BucketOf[k])' : entry'[m].key # k
            BY <1>1, <1>4, <2>1
      <2> QED BY <1>3, <2>2, <2>3, <2>4 DEF Shows
<1>7. CASE k # entry[v].key
      <2>1. db'[k] = db[k]
            BY <1>0, <1>1, <1>7 DEF Flushed
      <2>2. \A s \in Threads : pc[s] = "writeback" => entry[loc[s].slot].key # k
            BY <1>3, <1>7
      <2> QED BY <1>1, <1>3, <1>4, <1>5, <2>1, <2>2 DEF Shows
<1> QED BY <1>6, <1>7

(* The steps of a call that a client cannot see. *)
Hidden(t) == \/ Search(t) \/ GetHit(t) \/ GetMissFound(t) \/ PutHit(t) \/ PutMiss(t)
             \/ DeleteHit(t) \/ Relock(t) \/ NewEntry(t) \/ Acquire(t) \/ Fill(t)
             \/ LockForInsert(t)
             \/ EvictBegin(t) \/ ScanOn(t) \/ ScanFound(t) \/ Peek(t) \/ LockVictimBucket(t)
             \/ UnlinkVictim(t) \/ WriteBack(t)

(* The steps at which a call takes effect, the last it takes. *)
Returning(t) == \/ GetTouch(t) \/ GetMissAbsent(t) \/ PutUpdate(t) \/ DeleteHitDeleted(t)
           \/ DeleteMark(t) \/ DeleteMiss(t) \/ Insert(t)

(* Every step is one of these, or the end of a scan. *)
LEMMA StepKinds ==
  ASSUME NEW t \in Threads
  PROVE  Step(t) <=> Hidden(t) \/ Returning(t) \/ ScanNothing(t)
BY DEF Step, Hidden, Returning, Get, Put, Delete, PutNew, Eviction

(* A step of one thread changes no other's answer. *)
LEMMA AnswersAlone ==
  ASSUME TypeOK, NEW t \in Threads, Step(t)
  PROVE  \A s \in Threads \ {t} : ret'[s] = ret[s]
<1>0. ret \in [Threads -> Answers]
      BY DEF TypeOK
<1>1. CASE Search(t) \/ Get(t)
      BY <1>0, <1>1 DEF Search, Get, LockForSearch, WalkOn, GetHit, GetTouch, GetMissFound,
                        GetMissAbsent, Finish
<1>2. CASE Put(t) \/ Delete(t) \/ Relock(t)
      BY <1>0, <1>2 DEF Put, Delete, Relock, PutHit, PutUpdate, PutMiss, DeleteHitDeleted,
                        DeleteHit, DeleteMark, DeleteMiss, Finish
<1>3. CASE PutNew(t)
      BY <1>0, <1>3 DEF PutNew, NewEntry, Acquire, Fill, LockForInsert, Insert, Crash,
                        Finish, threadVars
<1>4. CASE Eviction(t)
      BY <1>0, <1>4 DEF Eviction, EvictBegin, ScanOn, ScanFound, ScanNothing, Peek,
                        LockVictimBucket, UnlinkVictim, WriteBack, Crash, threadVars
<1> QED BY <1>1, <1>2, <1>3, <1>4 DEF Step

(* No step of one thread shows in the call of another. *)
LEMMA CallsAlone ==
  ASSUME NEW t \in Threads, NEW bt, NEW qu, Ready(t, bt, qu), Step(t)
  PROVE  \A w \in Workers \ {t} : CallOf(w)' = CallOf(w)
BY ReadyTypes, StepAlone, RequestsAlone, AnswersAlone DEF CallOf, Threads

(* A hidden step leaves the call as its client sees it, *)
LEMMA HiddenCall ==
  ASSUME NEW t \in Workers, NEW bt, NEW qu, Ready(t, bt, qu), Hidden(t)
  PROVE  CallOf(t)' = CallOf(t)
<1>0. /\ TypeOK /\ pc \in [Threads -> Places] /\ req \in [Threads -> Messages] /\ t \in Threads
      /\ pc[t] # "idle" /\ t # Main /\ req[t] \in Messages
      BY ReadyTypes, CacheAssumption DEF Threads, Ready, Working
<1>1. CASE GetHit(t) \/ GetMissFound(t)
      <2>1. PICK v : /\ req' = [req EXCEPT ![t].value = v] /\ req[t].op = "GET"
                     /\ pc'[t] # "idle"
            BY <1>0, <1>1 DEF GetHit, GetMissFound, Hit, Miss, Goto
      <2>2. req[t] \in [op : {"GET", "PUT", "DELETE"}, key : Keys, value : MaybeValue]
            BY <1>0, <2>1 DEF Messages, NoMessage
      <2>3. req'[t] = [req[t] EXCEPT !.value = v]
            BY <1>0, <2>1
      <2>4. [req'[t] EXCEPT !.value = NoValue] = [req[t] EXCEPT !.value = NoValue]
            BY <2>2, <2>3
      <2>5. req'[t].op = "GET"
            BY <2>1, <2>2, <2>3
      <2> QED BY <1>0, <2>1, <2>4, <2>5 DEF CallOf
<1>2. CASE \/ Search(t) \/ PutHit(t) \/ PutMiss(t) \/ DeleteHit(t) \/ Relock(t)
      <2>1. UNCHANGED <<req, ret>> /\ pc'[t] # "idle"
            BY <1>0, <1>2 DEF Search, LockForSearch, WalkOn, PutHit, PutMiss, DeleteHit, Relock, Goto
      <2> QED BY <1>0, <2>1 DEF CallOf
<1>3. CASE NewEntry(t) \/ Acquire(t) \/ Fill(t) \/ LockForInsert(t)
      <2>1. UNCHANGED <<req, ret>> /\ pc'[t] # "idle"
            BY <1>0, <1>3 DEF NewEntry, Acquire, Fill, LockForInsert, Goto, Crash, threadVars
      <2> QED BY <1>0, <2>1 DEF CallOf
<1>4. CASE \/ EvictBegin(t) \/ ScanOn(t) \/ ScanFound(t) \/ Peek(t) \/ LockVictimBucket(t)
           \/ UnlinkVictim(t) \/ WriteBack(t)
      <2>1. UNCHANGED <<req, ret>> /\ pc'[t] # "idle"
            BY <1>0, <1>4 DEF EvictBegin, ScanOn, ScanFound, Peek, LockVictimBucket,
               UnlinkVictim, WriteBack, Goto, Crash, threadVars
      <2> QED BY <1>0, <2>1 DEF CallOf
<1> QED BY <1>1, <1>2, <1>3, <1>4 DEF Hidden

(* and what is shown. *)
LEMMA HiddenShow ==
  ASSUME NEW t \in Threads, NEW bt, NEW qu, Ready(t, bt, qu), Hidden(t),
         NEW k \in Keys, NEW x, Shows(k, x)
  PROVE  Shows(k, x)'
<1>0. pc \in [Threads -> Places] /\ Step(t)
      BY ReadyTypes, StepKinds
<1>1. CASE \/ Search(t) \/ GetHit(t) \/ GetMissFound(t) \/ PutHit(t) \/ PutMiss(t)
           \/ DeleteHit(t) \/ Relock(t)
      <2>1. UNCHANGED <<ht, entry, db>> /\ pc[t] # "writeback" /\ pc'[t] # "writeback"
            BY <1>0, <1>1 DEF Search, LockForSearch, WalkOn, GetHit, GetMissFound, PutHit, PutMiss,
               DeleteHit, Relock, Hit, Miss, At, Goto, htVars
      <2> QED BY <1>0, <2>1, LooksShow
<1>2. CASE NewEntry(t) \/ Acquire(t) \/ LockForInsert(t)
      <2>1. UNCHANGED <<ht, entry, db>> /\ pc[t] # "writeback" /\ pc'[t] # "writeback"
            BY <1>0, <1>2 DEF NewEntry, Acquire, LockForInsert, Crash, At, Goto, htVars, threadVars
      <2> QED BY <1>0, <2>1, LooksShow
<1>3. CASE EvictBegin(t) \/ ScanOn(t) \/ ScanFound(t) \/ Peek(t) \/ LockVictimBucket(t)
      <2>1. UNCHANGED <<ht, entry, db>> /\ pc[t] # "writeback" /\ pc'[t] # "writeback"
            BY <1>0, <1>3 DEF EvictBegin, ScanOn, ScanFound, Peek, LockVictimBucket, Crash, At, Goto,
               htVars, threadVars
      <2> QED BY <1>0, <2>1, LooksShow
<1> QED BY <1>1, <1>2, <1>3, FillShow, UnlinkShow, WriteBackShow DEF Hidden

(* A worker's call, as its client sees it, is the request it sent. *)
LEMMA CallIsRequest ==
  ASSUME NEW t \in Workers, NEW bt, NEW qu, Ready(t, bt, qu)
  PROVE  /\ CallOf(t) \in Requests
         /\ CallOf(t).op = req[t].op /\ CallOf(t).key = req[t].key /\ req[t].key \in Keys
         /\ req[t].op = "PUT" => CallOf(t).value = req[t].value
<1>0. /\ req[t] \in Messages /\ t \in Threads /\ pc[t] # "idle"
      BY ReadyTypes DEF Threads, Ready, Working
<1>1. Asked(t)
      BY <1>0 DEF Ready, AtWork
<1>2. req[t] \in [op : {"GET", "PUT", "DELETE"}, key : Keys, value : MaybeValue]
      BY <1>0, <1>1 DEF Messages, NoMessage, Asked
<1>3. CASE req[t].op = "PUT"
      <2>1. CallOf(t) = req[t]
            BY <1>0, <1>2, <1>3 DEF CallOf
      <2>2. req[t].value \in Values
            BY <1>1, <1>3 DEF Asked
      <2>3. req[t] \in [op : {"PUT"}, key : Keys, value : Values]
            BY <1>2, <1>3, <2>2
      <2> QED BY <1>1, <2>1, <2>3 DEF Requests, Asked
<1>4. CASE req[t].op # "PUT"
      <2>1. CallOf(t) = [req[t] EXCEPT !.value = NoValue]
            BY <1>0, <1>4 DEF CallOf
      <2>2. /\ CallOf(t) \in [op : {"GET", "DELETE"}, key : Keys, value : {NoValue}]
            /\ CallOf(t).op = req[t].op /\ CallOf(t).key = req[t].key
            BY <1>2, <1>4, <2>1
      <2> QED BY <1>1, <1>4, <2>2 DEF Requests, Asked
<1> QED BY <1>3, <1>4

(* At its last step a call takes effect on what is shown, d, all at once. *)
LEMMA ReturnAnswers ==
  ASSUME NEW t \in Threads, NEW bt, NEW qu, Ready(t, bt, qu), NEW ok, NEW v, Finish(t, ok, v)
  PROVE  CallOf(t)' = Answer(ok, v)
BY ReadyTypes DEF Finish, Goto, CallOf, TypeOK

(* Only workers return from calls. *)
LEMMA ReturningWorks ==
  ASSUME NEW t \in Threads, NEW bt, NEW qu, Ready(t, bt, qu), Returning(t)
  PROVE  t \in Workers
<1>1. pc[t] \in {"walk", "touch", "update", "insert"}
      BY DEF Returning, GetTouch, GetMissAbsent, PutUpdate, DeleteHitDeleted, DeleteMark,
             DeleteMiss, Insert, Hit, Miss, At
<1> QED BY <1>1 DEF Ready, Quiet, Evicting, Threads

(* The linked node of its key is all that a call sees of it. *)
LEMMA ShownByNode ==
  ASSUME NEW t \in Threads, NEW bt, NEW qu, Ready(t, bt, qu), Step(t),
         NEW n \in Range(bt[Bucket(t)]), entry[n].key = req[t].key,
         NEW x, Shows(req[t].key, x), Bucket(t) \in Buckets
  PROVE  x = ValueIn(n) /\ Filled(n)
<1>1. n \in InBucket(BucketOf[req[t].key])
      BY VictimOfStep DEF Bucket
<1>2. Filled(n)
      BY LinkedNode, ReadyTypes DEF Ready
<1> QED BY <1>1, <1>2 DEF Shows

(* So the answer is right, and the request takes effect, and nothing else. *)
LEMMA ReturningServes ==
  ASSUME NEW t \in Threads, NEW bt, NEW qu, Ready(t, bt, qu), Returning(t),
         NEW d, d = [k \in Keys |-> d[k]], \A k \in Keys : Shows(k, d[k]),
         NEW e, e = Effect(d, CallOf(t))
  PROVE  CallOf(t)' = Outcome(d, CallOf(t)) /\ \A k \in Keys : Shows(k, e[k])'
<1> DEFINE r == CallOf(t)
           c == req[t].key
           x == d[c]
<1>0. /\ TypeOK /\ pc \in [Threads -> Places] /\ Step(t) /\ t \in Workers
      /\ Bucket(t) \in Buckets
      BY ReadyTypes, StepKinds, ReturningWorks
<1>1. /\ r.op = req[t].op /\ r.key = c /\ c \in Keys
      /\ req[t].op = "PUT" => r.value = req[t].value
      BY <1>0, CallIsRequest
<1>2. Shows(c, x)
      BY <1>1
<1>3. ASSUME req[t].op = "GET", NEW k \in Keys PROVE e[k] = d[k]
      BY <1>1, <1>3 DEF Effect
<1>4. ASSUME req[t].op = "PUT", NEW k \in Keys
      PROVE e[k] = IF k = req[t].key THEN req[t].value ELSE d[k]
      BY <1>1, <1>4 DEF Effect
<1>5. ASSUME req[t].op = "DELETE", NEW k \in Keys
      PROVE e[k] = IF k = req[t].key THEN NoValue ELSE d[k]
      BY <1>1, <1>5 DEF Effect
<1>6. /\ req[t].op = "GET" => Outcome(d, r) = Answer(x # NoValue, x)
      /\ req[t].op = "PUT" => Outcome(d, r) = Answer(TRUE, NoValue)
      /\ req[t].op = "DELETE" => Outcome(d, r) = Answer(x # NoValue, NoValue)
      BY <1>1 DEF Outcome
<1> HIDE DEF r, c, x
<1>7. CASE GetTouch(t)
      <2> PICK n : n = loc[t].node
          OBVIOUS
      <2>1. Found(t, bt) /\ pc[t] = "touch" /\ pc'[t] = "idle" /\ UNCHANGED <<ht, entry, db>>
            BY <1>0, <1>7 DEF GetTouch, At, Ready, AtWork, Finish, Goto
      <2>2. /\ n \in Range(bt[Bucket(t)]) /\ entry[n].key = req[t].key /\ req[t].op = "GET"
            /\ entry[n].dirty # "TODELETE" => req[t].value = entry[n].value
            BY <2>1 DEF Found
      <2>3. x = ValueIn(n) /\ Filled(n)
            BY <1>0, <1>1, <1>2, <2>2, ShownByNode DEF c
      <2>4. IF entry[n].dirty = "TODELETE" THEN Finish(t, FALSE, NoValue)
                                           ELSE Finish(t, TRUE, req[t].value)
            BY <1>7 DEF GetTouch
      <2>5. CallOf(t)' = Answer(x # NoValue, x)
            BY <2>2, <2>3, <2>4, ReturnAnswers DEF ValueIn, Filled
      <2>6. \A k \in Keys : Shows(k, d[k])'
            BY <1>0, <2>1, LooksShow
      <2> QED BY <1>3, <1>6, <2>2, <2>5, <2>6 DEF r
<1>8. CASE GetMissAbsent(t)
      <2>1. /\ Absent(bt, c) /\ pc[t] = "walk" /\ pc'[t] = "idle" /\ req[t].op = "GET"
            /\ UNCHANGED <<ht, entry, db>> /\ db[c] = NoValue
            BY <1>0, <1>8, MissIsAbsent DEF GetMissAbsent, Finish, Goto, c
      <2>2. x = NoValue
            BY <1>0, <1>1, <1>2, <2>1, ShownAbsent
      <2>3. CallOf(t)' = Answer(FALSE, NoValue)
            BY <1>8, ReturnAnswers DEF GetMissAbsent
      <2>4. \A k \in Keys : Shows(k, d[k])'
            BY <1>0, <2>1, LooksShow
      <2> QED BY <1>3, <1>6, <2>1, <2>2, <2>3, <2>4 DEF r
<1>9. CASE PutUpdate(t)
      <2>1. req[t].op = "PUT" /\ CallOf(t)' = Answer(TRUE, NoValue)
            BY <1>9, ReturnAnswers DEF PutUpdate
      <2>2. ASSUME NEW k \in Keys PROVE Shows(k, e[k])'
            BY <1>4, <1>9, <2>1, PutShow
      <2> QED BY <1>6, <2>1, <2>2 DEF r
<1>10. CASE DeleteHitDeleted(t)
      <2> PICK n : n = loc[t].node
          OBVIOUS
      <2>1. /\ n \in Range(bt[Bucket(t)]) /\ entry[n].key = req[t].key /\ req[t].op = "DELETE"
            /\ pc[t] = "walk" /\ entry[n].dirty = "TODELETE"
            /\ Finish(t, FALSE, NoValue) /\ UNCHANGED <<ht, entry, db>>
            BY <1>10, HitIsFound DEF DeleteHitDeleted
      <2>2. x = NoValue
            BY <1>0, <1>1, <1>2, <2>1, ShownByNode DEF c, ValueIn
      <2>3. pc'[t] = "idle" /\ CallOf(t)' = Answer(FALSE, NoValue)
            BY <1>0, <2>1, ReturnAnswers DEF Finish, Goto
      <2>4. \A k \in Keys : Shows(k, d[k])'
            BY <1>0, <2>1, <2>3, LooksShow
      <2>5. \A k \in Keys : e[k] = d[k]
            BY <1>5, <2>1, <2>2 DEF c, x
      <2> QED BY <1>6, <2>1, <2>2, <2>3, <2>4, <2>5 DEF r
<1>11. CASE DeleteMark(t)
      <2> PICK n : n = loc[t].node
          OBVIOUS
      <2>1. Found(t, bt) /\ pc[t] = "update" /\ req[t].op = "DELETE"
            BY <1>11 DEF DeleteMark, At, Ready, AtWork
      <2>2. /\ n \in Range(bt[Bucket(t)]) /\ entry[n].key = req[t].key
            /\ entry[n].dirty # "TODELETE"
            BY <2>1 DEF Found
      <2>3. x = ValueIn(n) /\ Filled(n)
            BY <1>0, <1>1, <1>2, <2>2, ShownByNode DEF c
      <2>4. x # NoValue
            BY <2>2, <2>3 DEF ValueIn, Filled
      <2>5. CallOf(t)' = Answer(TRUE, NoValue)
            BY <1>11, <2>2, ReturnAnswers, ZenonT(40) DEF DeleteMark
      <2>6. ASSUME NEW k \in Keys PROVE Shows(k, e[k])'
            BY <1>5, <1>11, <2>1, MarkShow
      <2> QED BY <1>6, <2>1, <2>4, <2>5, <2>6 DEF r
<1>12. CASE DeleteMiss(t)
      <2>1. Absent(bt, c) /\ pc[t] = "walk" /\ req[t].op = "DELETE"
            BY <1>12, MissIsAbsent DEF DeleteMiss, c
      <2>2. x = db[c]
            BY <1>0, <1>1, <1>2, <2>1, ShownAbsent
      <2>3. CallOf(t)' = Answer(x # NoValue, NoValue)
            BY <1>12, <2>2, ReturnAnswers DEF DeleteMiss, c
      <2>4. ASSUME NEW k \in Keys PROVE Shows(k, e[k])'
            BY <1>5, <1>12, <2>1, MissShow
      <2> QED BY <1>6, <2>1, <2>3, <2>4 DEF r
<1>13. CASE Insert(t)
      <2>1. pc[t] = "insert"
            BY <1>13 DEF Insert, At
      <2>2. /\ Absent(bt, c) /\ req[t].op \in {"GET", "PUT"}
            /\ req[t].op = "GET" => req[t].value = db[c] /\ req[t].value # NoValue
            BY <1>0, <2>1 DEF Ready, AtWork, Making, c
      <2>3. x = db[c]
            BY <1>0, <1>1, <1>2, <2>1, <2>2, ShownAbsent
      <2>4. CallOf(t)' = Answer(TRUE, IF req[t].op = "GET" THEN req[t].value ELSE NoValue)
            BY <1>13, ReturnAnswers DEF Insert
      <2>5. ASSUME NEW k \in Keys PROVE e[k] = IF k = req[t].key THEN req[t].value ELSE d[k]
            BY <1>3, <1>4, <2>2, <2>3 DEF c, x
      <2>6. ASSUME NEW k \in Keys PROVE Shows(k, e[k])'
            BY <1>13, <2>5, InsertShow
      <2>7. CallOf(t)' = Outcome(d, r)
            BY <1>6, <2>2, <2>3, <2>4
      <2> QED BY <2>6, <2>7 DEF r
<1> QED BY <1>7, <1>8, <1>9, <1>10, <1>11, <1>12, <1>13 DEF Returning

(* When the scan of cache_clean has seen every queue empty, nothing is     *)
(* linked any more.                                                        *)
LEMMA ScanEndsEmpty ==
  ASSUME NEW t \in Threads, NEW bt, NEW qu, Ready(t, bt, qu), ScanNothing(t)
  PROVE  \A k : Absent(bt, k)
<1>1. pc[t] = "scan" /\ lru.head[loc[t].queue] = Nil /\ loc[t].scans = TableLen
      BY DEF ScanNothing, At
<1>2. TableLen \in Nat /\ NumQueues \in Nat \ {0} /\ TableLen >= NumQueues
      BY CacheAssumption
<1>3. PICK start \in Queue :
        \A i \in 0..(TableLen - 1) : lru.head[(start + i) % NumQueues] = Nil
      BY <1>1 DEF Ready, AtWork, Scanned
<1>4. ASSUME NEW q \in Queue PROVE lru.head[q] = Nil
      <2>1. PICK i \in 0..(NumQueues - 1) : (start + i) % NumQueues = q
            BY RoundMeetsAll
      <2>2. i \in 0..(TableLen - 1)
            BY <1>2
      <2> QED BY <1>3, <2>1, <2>2
<1>5. \A q \in Queue : Range(qu[q]) = {}
      BY <1>4, OrderedEnds, ReadyTypes
<1>6. Sound(bt, qu) /\ TypeOK
      BY ReadyTypes DEF Ready
<1>7. ASSUME NEW b \in Buckets, NEW n \in Range(bt[b]) PROVE FALSE
      <2>1. entry[n].lruIdx \in Queue /\ n \in Range(qu[entry[n].lruIdx])
            BY <1>6, LinkedNode
      <2> QED BY <1>5, <2>1
<1> QED BY <1>7 DEF Absent

Dict == [k \in Keys |-> Visible(k)]

(* What shows after a step is what a client sees then. *)
LEMMA SeenAfter ==
  ASSUME MapInv', OneAtATime', phase' # "stopped", NEW e, \A k \in Keys : Shows(k, e[k])'
  PROVE  \A k \in Keys : Visible(k)' = e[k]
<1>1. (MapInv /\ OneAtATime /\ phase # "stopped" => \A k \in Keys : Shows(k, Visible(k)))'
      BY VisibleShows, PTL
<1>2. (\A k \in Keys : Shows(k, Visible(k)))'
      BY <1>1
<1> QED BY <1>2, ShownOnce

(* What a client sees before a step is what is shown then. *)
LEMMA SeenBefore ==
  ASSUME MapInv, OneAtATime, phase # "stopped", NEW d, d = Dict
  PROVE  d = [k \in Keys |-> d[k]] /\ \A k \in Keys : Shows(k, d[k])
<1>1. \A k \in Keys : Shows(k, Visible(k))
      BY VisibleShows
<1>2. \A k \in Keys : d[k] = Visible(k)
      BY DEF Dict
<1> QED BY <1>1, <1>2 DEF Dict

(* Of a process that has stopped the files are all there is. *)
LEMMA StoppedShows == phase = "stopped" => \A c \in Keys : Visible(c) = db[c]
BY DEF Visible

(* The end of cache_clean: what was seen is in the files. *)
LEMMA EndShow ==
  ASSUME NEW t \in Threads, NEW bt, NEW qu, Ready(t, bt, qu), ScanNothing(t),
         NEW k \in Keys, NEW x, Shows(k, x)
  PROVE  Visible(k)' = x
<1>1. Step(t) /\ pc[t] = "scan" /\ t = Main
      BY ScanSucceeds DEF Step, Eviction, ScanNothing, At
<1>2. x = db[k]
      BY <1>1, ScanEndsEmpty, ShownAbsent
<1>3. phase' = "stopped" /\ db' = db
      BY <1>1 DEF ScanNothing
<1> QED BY <1>2, <1>3 DEF Visible

(* The end of cache_clean is no worker's. *)
LEMMA EndCalls ==
  ASSUME NEW t \in Threads, NEW bt, NEW qu, Ready(t, bt, qu), ScanNothing(t)
  PROVE  \A w \in Workers : CallOf(w)' = CallOf(w)
<1>1. Step(t) /\ t = Main
      BY ScanSucceeds DEF Step, Eviction
<1> QED BY <1>1, CallsAlone, CacheAssumption DEF Threads

(* A step that changes neither nodes nor files, and no write-back. *)
LEMMA IdleShow ==
  ASSUME UNCHANGED <<ht, entry, db, loc>>,
         \A t \in Threads : pc'[t] = "writeback" <=> pc[t] = "writeback",
         NEW k \in Keys, NEW x, Shows(k, x)
  PROVE  Shows(k, x)'
<1>1. InBucket(BucketOf[k])' = InBucket(BucketOf[k])
      BY DEF InBucket
<1> QED BY <1>1 DEF Shows, ValueIn

(* A new process finds in the files what the last one was seen to hold. *)
LEMMA FreshShow ==
  ASSUME Fresh, NEW k \in Keys
  PROVE  Shows(k, db[k])
<1>1. PICK bt : InOrder(ht, Buckets, Node, bt) /\ \A b \in Buckets : Range(bt[b]) = {}
      BY EmptyListsInOrder, CacheAssumption DEF Fresh
<1>2. BucketOf[k] \in Buckets
      BY CacheAssumption
<1>3. InBucket(BucketOf[k]) = {}
      BY <1>1, <1>2, OrderedIsShort DEF InBucket
<1>4. \A t \in Threads : pc[t] # "writeback"
      BY DEF Fresh
<1> QED BY <1>3, <1>4 DEF Shows

-----------------------------------------------------------------------------
(* What every step does to the map.                                       *)

Same == (\A k \in Keys : Visible(k)' = Visible(k)) /\ \A w \in Workers : CallOf(w)' = CallOf(w)

(* Every step starts from what its thread relies on. *)
LEMMA StepReady ==
  ASSUME LockInv, OneAtATime, MapInv, NEW t \in Threads, Step(t)
  PROVE  \E bt, qu : Ready(t, bt, qu)
<1>1. At(t, pc[t]) /\ pc[t] # "idle" /\ Working(t)
      BY StepIsAtWork, BusyAlone DEF MapInv
<1> QED BY <1>1 DEF Ready, MapInv, Good, Sound

(* Only the end of a scan stops the process. *)
LEMMA HiddenRuns ==
  ASSUME NEW t \in Threads, phase # "stopped", Hidden(t) \/ Returning(t)
  PROVE  phase' # "stopped"
<1>1. CASE \/ Search(t) \/ GetHit(t) \/ GetMissFound(t) \/ PutHit(t) \/ PutMiss(t)
           \/ DeleteHit(t) \/ Relock(t)
      BY <1>1 DEF Search, LockForSearch, WalkOn, GetHit, GetMissFound, PutHit, PutMiss,
                  DeleteHit, Relock
<1>2. CASE NewEntry(t) \/ Acquire(t) \/ Fill(t) \/ LockForInsert(t)
      BY <1>2 DEF NewEntry, Acquire, Fill, LockForInsert, Crash
<1>3. CASE \/ EvictBegin(t) \/ ScanOn(t) \/ ScanFound(t) \/ Peek(t) \/ LockVictimBucket(t)
           \/ UnlinkVictim(t) \/ WriteBack(t)
      BY <1>3 DEF EvictBegin, ScanOn, ScanFound, Peek, LockVictimBucket, UnlinkVictim,
                  WriteBack, Crash
<1>4. CASE Returning(t)
      BY <1>4 DEF Returning, GetTouch, GetMissAbsent, PutUpdate, DeleteHitDeleted, DeleteMark,
                  DeleteMiss, Insert
<1> QED BY <1>1, <1>2, <1>3, <1>4 DEF Hidden

(* The hidden steps and the end of cache_clean change nothing visible. *)
LEMMA StepSame ==
  ASSUME LockInv, OneAtATime, MapInv, MapInv', OneAtATime', NEW t \in Threads,
         Hidden(t) \/ ScanNothing(t)
  PROVE  Same
<1>1. Step(t)
      BY StepKinds
<1>2. PICK bt, qu : Ready(t, bt, qu)
      BY <1>1, StepReady
<1>3. phase # "stopped"
      BY <1>2 DEF Ready, Working, At
<1> PICK d : d = Dict
    OBVIOUS
<1>4. /\ d = [k \in Keys |-> d[k]] /\ \A k \in Keys : Shows(k, d[k])
      /\ \A k \in Keys : Visible(k) = d[k]
      BY <1>3, SeenBefore DEF Dict
<1>5. CASE Hidden(t)
      <2>1. \A k \in Keys : Shows(k, d[k])'
            BY <1>2, <1>4, <1>5, HiddenShow
      <2>2. phase' # "stopped"
            BY <1>2, <1>3, <1>5, HiddenRuns
      <2>3. \A k \in Keys : Visible(k)' = d[k]
            BY <2>1, <2>2, SeenAfter
      <2>4. \A w \in Workers : CallOf(w)' = CallOf(w)
            BY <1>1, <1>2, <1>5, CallsAlone, HiddenCall
      <2> QED BY <1>4, <2>3, <2>4 DEF Same
<1>6. CASE ScanNothing(t)
      <2>1. \A k \in Keys : Visible(k)' = d[k]
            BY <1>2, <1>4, <1>6, EndShow
      <2> QED BY <1>2, <1>4, <1>6, <2>1, EndCalls DEF Same
<1> QED BY <1>5, <1>6

(* A request leaves a map with the same keys. *)
LEMMA EffectIsMap ==
  ASSUME NEW d, d = [k \in Keys |-> d[k]], NEW r
  PROVE  Effect(d, r) = [k \in Keys |-> Effect(d, r)[k]]
<1> DEFINE c == CASE r.op = "GET"    -> d[r.key]
                  [] r.op = "PUT"    -> r.value
                  [] r.op = "DELETE" -> NoValue
<1>1. Effect(d, r) = [d EXCEPT ![r.key] = c]
      BY DEF Effect
<1> HIDE DEF c
<1> QED BY <1>1

(* The last step of a call is KVMap's Serve. *)
LEMMA StepServes ==
  ASSUME LockInv, OneAtATime, MapInv, MapInv', OneAtATime', NEW t \in Threads, Returning(t),
         NEW d, d = Dict
  PROVE  /\ t \in Workers /\ CallOf(t) \in Requests
         /\ CallOf(t)' = Outcome(d, CallOf(t))
         /\ Dict' = Effect(d, CallOf(t))
         /\ \A w \in Workers \ {t} : CallOf(w)' = CallOf(w)
<1>1. Step(t)
      BY StepKinds
<1>2. PICK bt, qu : Ready(t, bt, qu)
      BY <1>1, StepReady
<1>3. phase # "stopped"
      BY <1>2 DEF Ready, Working, At
<1>4. d = [k \in Keys |-> d[k]] /\ \A k \in Keys : Shows(k, d[k])
      BY <1>3, SeenBefore
<1> PICK e : e = Effect(d, CallOf(t))
    OBVIOUS
<1>5. CallOf(t)' = Outcome(d, CallOf(t)) /\ \A k \in Keys : Shows(k, e[k])'
      BY <1>2, <1>4, ReturningServes
<1>6. t \in Workers /\ CallOf(t) \in Requests
      BY <1>2, ReturningWorks, CallIsRequest
<1>7. phase' # "stopped"
      BY <1>3, HiddenRuns
<1>8. \A k \in Keys : Visible(k)' = e[k]
      BY <1>5, <1>7, SeenAfter
<1>9. e = [k \in Keys |-> e[k]]
      BY <1>4, EffectIsMap
<1>10. Dict' = e
      BY <1>8, <1>9 DEF Dict
<1> QED BY <1>1, <1>2, <1>5, <1>6, <1>10, CallsAlone

(* A request that reaches a worker is KVMap's Send. *)
LEMMA BeginSends ==
  ASSUME LockInv, OneAtATime, MapInv, MapInv', OneAtATime',
         NEW w \in Workers, NEW r \in RequestsOf[w], Begin(w, r)
  PROVE  /\ CallOf(w) \in Answers /\ CallOf(w)' = r
         /\ \A k \in Keys : Visible(k)' = Visible(k)
         /\ \A v \in Workers \ {w} : CallOf(v)' = CallOf(v)
<1>0. /\ pc \in [Threads -> Places] /\ req \in [Threads -> Messages] /\ ret \in [Threads -> Answers]
      /\ w \in Threads /\ w # Main
      BY CacheAssumption DEF LockInv, TypeOK, Threads
<1>1. /\ pc[w] = "idle" /\ phase = "serving" /\ UNCHANGED <<ht, entry, db, loc, phase>>
      /\ req' = [req EXCEPT ![w] = r] /\ pc' = [pc EXCEPT ![w] = "lookup"]
      /\ ret' = [ret EXCEPT ![w] = NoAnswer]
      BY <1>0 DEF Begin, At, Goto, htVars
<1>2. CallOf(w) \in Answers
      BY <1>0, <1>1 DEF CallOf
<1>3. CallOf(w)' = r
      <2>1. r \in Requests
            BY CacheAssumption
      <2>2. pc'[w] = "lookup" /\ req'[w] = r
            BY <1>0, <1>1
      <2>3. r = [r EXCEPT !.value = IF r.op = "PUT" THEN @ ELSE NoValue]
            BY <2>1 DEF Requests
      <2> QED BY <2>2, <2>3 DEF CallOf
<1>4. \A v \in Workers \ {w} : CallOf(v)' = CallOf(v)
      BY <1>0, <1>1 DEF CallOf, Threads
<1> PICK d : d = Dict
    OBVIOUS
<1>5. /\ \A k \in Keys : Shows(k, d[k])
      /\ \A k \in Keys : Visible(k) = d[k]
      BY <1>1, SeenBefore DEF Dict
<1>6. \A t \in Threads : pc'[t] = "writeback" <=> pc[t] = "writeback"
      BY <1>0, <1>1
<1>7. \A k \in Keys : Shows(k, d[k])'
      BY <1>1, <1>5, <1>6, IdleShow
<1>8. \A k \in Keys : Visible(k)' = d[k]
      BY <1>1, <1>7, SeenAfter
<1> QED BY <1>2, <1>3, <1>4, <1>5, <1>8

(* The signal changes nothing visible. *)
LEMMA CleaningSame ==
  ASSUME LockInv, OneAtATime, MapInv, MapInv', OneAtATime', StartCleaning
  PROVE  Same
<1>0. pc \in [Threads -> Places] /\ Main \in Threads /\ Main \notin Workers
      BY CacheAssumption DEF LockInv, TypeOK, Threads
<1>1. /\ phase = "serving" /\ phase' = "cleaning" /\ UNCHANGED <<ht, entry, db, loc, req, ret>>
      /\ pc' = [pc EXCEPT ![Main] = "evict"]
      BY DEF StartCleaning, Goto, htVars
<1>2. \A w \in Workers : CallOf(w)' = CallOf(w)
      BY <1>0, <1>1 DEF CallOf, Threads
<1> PICK d : d = Dict
    OBVIOUS
<1>3. /\ \A k \in Keys : Shows(k, d[k])
      /\ \A k \in Keys : Visible(k) = d[k]
      BY <1>1, SeenBefore DEF Dict
<1>4. \A t \in Threads : pc'[t] = "writeback" <=> pc[t] = "writeback"
      <2>1. pc[Main] = "idle"
            BY <1>0, <1>1 DEF MapInv, Quiet
      <2> QED BY <1>0, <1>1, <2>1
<1>5. \A k \in Keys : Shows(k, d[k])'
      BY <1>1, <1>3, <1>4, IdleShow
<1>6. \A k \in Keys : Visible(k)' = d[k]
      BY <1>1, <1>5, SeenAfter
<1> QED BY <1>2, <1>3, <1>6 DEF Same

(* The same of every key. *)
LEMMA FreshShows == Fresh => \A k \in Keys : Shows(k, db[k])
BY FreshShow

(* Nor does a restart, on the files cache_clean has left. *)
LEMMA RestartSame ==
  ASSUME MapInv, MapInv', OneAtATime', Restart
  PROVE  Same
<1>1. phase = "stopped" /\ Fresh' /\ phase' # "stopped"
      BY DEF MapInv, Quiet, Restart, Fresh
<1> PICK d : d = db
    OBVIOUS
<1>2. d = db /\ d = db'
      BY DEF Restart
<1>3. \A k \in Keys : Visible(k) = d[k]
      BY <1>1, <1>2, StoppedShows
<1>4. (Fresh => \A k \in Keys : Shows(k, db[k]))'
      BY FreshShows, PTL
<1>5. \A k \in Keys : Shows(k, d[k])'
      BY <1>1, <1>2, <1>4
<1>6. \A k \in Keys : Visible(k)' = d[k]
      BY <1>1, <1>5, SeenAfter
<1>7. \A w \in Workers : CallOf(w)' = CallOf(w)
      <2>1. \A w \in Workers : pc[w] = "idle" /\ pc'[w] = "idle"
            BY <1>1, CacheAssumption DEF MapInv, Quiet, Restart, Threads
      <2> QED BY <2>1 DEF CallOf, Restart
<1> QED BY <1>3, <1>6, <1>7 DEF Same

(* Nor does a step that is none. *)
LEMMA StutterSame ==
  ASSUME UNCHANGED vars
  PROVE  Same
<1>1. /\ UNCHANGED <<db, entry, ht, pc, req, ret, loc, phase>>
      BY DEF vars, htVars, threadVars
<1>2. \A b : InBucket(b)' = InBucket(b)
      BY <1>1 DEF InBucket
<1>3. \A k \in Keys : Visible(k)' = Visible(k)
      BY <1>1 DEF Visible, ValueIn
<1> QED BY <1>1, <1>3 DEF Same, CallOf

Calls == [w \in Workers |-> CallOf(w)]

(* What changes nothing visible is a stuttering step of KVMap. *)
LEMMA SameIsStutter == Same => UNCHANGED <<Dict, Calls>>
BY DEF Same, Dict, Calls

(* cache_clean and what it leaves: nothing a client can see changes. *)
LEMMA CleaningStep ==
  ASSUME LockInv, OneAtATime, MapInv, MapInv', OneAtATime', [Next]_vars, phase = "cleaning"
  PROVE  \A k \in Keys : Visible(k)' = Visible(k)
<1> SUFFICES Same
    BY DEF Same
<1>1. ASSUME NEW w \in Workers, NEW r \in RequestsOf[w], Begin(w, r) PROVE FALSE
      BY <1>1, CacheAssumption DEF Begin, At
<1>2. ASSUME NEW t \in Threads, Step(t) PROVE Same
      <2>1. PICK bt, qu : Ready(t, bt, qu)
            BY <1>2, StepReady
      <2>2. t = Main
            BY <2>1 DEF Ready, Working, At
      <2>3. ~Returning(t)
            BY <2>1, <2>2, ReturningWorks, CacheAssumption
      <2> QED BY <1>2, <2>3, StepKinds, StepSame
<1>3. CASE UNCHANGED vars
      BY <1>3, StutterSame
<1>4. ~StartCleaning /\ ~Restart
      BY DEF StartCleaning, Restart
<1> QED BY <1>1, <1>2, <1>3, <1>4 DEF Next

(* No step of cache_clean changes the value of a key, and what it leaves   *)
(* in the files is what was last put, as long as calls did not overlap.    *)
THEOREM CleaningKeeps == Spec /\ []OneAtATime => CleaningKeepsValues
<1>1. /\ LockInv /\ OneAtATime /\ MapInv /\ (MapInv /\ OneAtATime)' /\ [Next]_vars
      => [phase = "cleaning" => \A k \in Keys : Visible(k)' = Visible(k)]_vars
      BY CleaningStep
<1> QED BY <1>1, MapInvariant, LockInvariant, PTL DEF Spec, CleaningKeepsValues

-----------------------------------------------------------------------------
(* A first start is one of KVMap: its map is what the files hold. *)
LEMMA StartsAsMap == Init => Map!Init
<1> SUFFICES ASSUME Init PROVE Map!Init
    OBVIOUS
<1>1. Fresh /\ db \in [Keys -> MaybeValue] /\ ret = [t \in Threads |-> NoAnswer]
      BY CacheAssumption DEF Init, Fresh
<1>2. MapInv /\ OneAtATime /\ phase # "stopped"
      BY <1>1, FreshMapInv DEF Fresh, OneAtATime, Threads
<1>3. \A k \in Keys : Visible(k) = db[k]
      <2>1. ASSUME NEW k \in Keys, NEW x, Shows(k, x), NEW y, Shows(k, y) PROVE x = y
            BY <2>1 DEF Shows
      <2>2. \A k \in Keys : Shows(k, Visible(k)) /\ Shows(k, db[k])
            BY <1>1, <1>2, FreshShow, VisibleShows
      <2> QED BY <2>1, <2>2
<1>4. Dict \in [Keys -> MaybeValue]
      BY <1>1, <1>3 DEF Dict
<1>5. \A w \in Workers : CallOf(w) = Answer(FALSE, NoValue)
      BY <1>1 DEF CallOf, Fresh, Threads, NoAnswer
<1> QED BY <1>4, <1>5 DEF Map!Init, Dict, Map!MaybeValue, MaybeValue, Map!Answer, Answer

(* Every step is one of KVMap's or changes nothing of it. *)
LEMMA StepsAsMap ==
  ASSUME LockInv, OneAtATime, MapInv, MapInv', OneAtATime', [Next]_vars
  PROVE  Map!Next \/ UNCHANGED <<Dict, Calls>>
<1>1. ASSUME NEW w \in Workers, NEW r \in RequestsOf[w], Begin(w, r) PROVE Map!Next
      <2>1. /\ CallOf(w) \in Answers /\ CallOf(w)' = r
            /\ \A k \in Keys : Visible(k)' = Visible(k)
            /\ \A v \in Workers \ {w} : CallOf(v)' = CallOf(v)
            BY <1>1, BeginSends
      <2>2. Calls' = [Calls EXCEPT ![w] = r] /\ Calls[w] \in Answers
            BY <2>1 DEF Calls
      <2>3. Dict' = Dict
            BY <2>1 DEF Dict
      <2>4. Map!Send(w, r)
            BY <2>2, <2>3 DEF Map!Send, Dict, Calls, Map!Answers, Answers, Map!MaybeValue, MaybeValue
      <2> QED BY <2>4 DEF Map!Next
<1>2. ASSUME NEW t \in Threads, Returning(t) PROVE Map!Next
      <2> PICK d : d = Dict
          OBVIOUS
      <2>1. /\ t \in Workers /\ CallOf(t) \in Requests
            /\ CallOf(t)' = Outcome(d, CallOf(t))
            /\ Dict' = Effect(d, CallOf(t))
            /\ \A w \in Workers \ {t} : CallOf(w)' = CallOf(w)
            BY <1>2, StepServes
      <2>2. /\ Calls[t] = CallOf(t)
            /\ Calls' = [Calls EXCEPT ![t] = Outcome(Dict, CallOf(t))]
            BY <2>1 DEF Calls
      <2>3. Map!Requests = Requests
            BY DEF Map!Requests, Requests
      <2>4. /\ Map!Effect(Dict, Calls[t]) = Effect(Dict, Calls[t])
            /\ Map!Outcome(Dict, Calls[t]) = Outcome(Dict, Calls[t])
            BY DEF Map!Effect, Effect, Map!Outcome, Outcome, Map!Answer, Answer
      <2>5. /\ Calls[t] \in Map!Requests /\ Dict' = Map!Effect(Dict, Calls[t])
            /\ Calls' = [Calls EXCEPT ![t] = Map!Outcome(Dict, Calls[t])]
            BY <2>1, <2>2, <2>3, <2>4
      <2>6. Map!Serve(t)
            BY <2>5 DEF Map!Serve, Dict, Calls
      <2> QED BY <2>1, <2>6 DEF Map!Next
<1>3. ASSUME NEW t \in Threads, Step(t) PROVE Map!Next \/ Same
      BY <1>2, <1>3, StepKinds, StepSame
<1> QED BY <1>1, <1>3, CleaningSame, RestartSame, StutterSame, SameIsStutter DEF Next

(* On calls that do not overlap the cache, the eviction and the files are  *)
(* together one map, on which every request takes effect at one instant:   *)
(* the last step of its call.                                              *)
THEOREM WorksLikeAMap == Spec /\ []OneAtATime => ImplementsMap
<1>1. /\ LockInv /\ OneAtATime /\ MapInv /\ (MapInv /\ OneAtATime)' /\ [Next]_vars
      => [Map!Next]_<<Dict, Calls>>
      BY StepsAsMap
<1>2. [Map!Next]_<<Dict, Calls>> => [Map!Next]_Map!vars
      BY DEF Map!vars, Dict, Calls
<1> QED BY <1>1, <1>2, StartsAsMap, MapInvariant, LockInvariant, PTL
        DEF Spec, ImplementsMap, Map!Spec

(* With one worker calls cannot overlap: such a server keeps its lists,    *)
(* loses no node, follows no null pointer and works like a map without any *)
(* further condition.                                                      *)
THEOREM OneWorkerIsAMap ==
  ASSUME NEW w, Workers = {w}
  PROVE  /\ Spec => [](ListsProper /\ NodesAccounted /\ OneNodePerKey /\ NeverCrashes)
         /\ Spec => CleaningKeepsValues
         /\ Spec => ImplementsMap
<1>1. OneAtATime
      BY DEF OneAtATime
<1>2. []OneAtATime
      BY <1>1, PTL
<1> QED BY <1>2, ListsStayProper, EveryNodeHasOnePlace, KeysStayUnique, NoNullPointer,
           CleaningKeeps, WorksLikeAMap, PTL

-----------------------------------------------------------------------------
(* The order of use.                                                      *)

(* The queues list their keys in the order r. *)
Sorted(qu, r) ==
  \A q \in Queue : \A i, j \in 1..Len(qu[q]) :
     i < j => <<entry[qu[q][i]].key, entry[qu[q][j]].key>> \in r

(* The invariant: whatever is linked is sorted. *)
UseInv == \A qu : InOrder(lru, Queue, Node, qu) => Sorted(qu, recency)

(* What Sorted says of the sequences S it says, after a step, of T, when   *)
(* what came to the front is what was used.                                *)
LEMMA UseSorts ==
  ASSUME NEW S, NEW T, NEW n, NEW U, NEW r, NEW s, Reordered(Queue, S, T, n),
         InOrder(lru', Queue, Node, T),
         Sorted(S, r), s = After(U, r),
         \A q \in Queue : n \in Range(T[q]) => entry'[n].key \in U,
         \A q \in Queue : \A m \in Range(T[q]) \ {n} :
            entry'[m].key = entry[m].key /\ entry[m].key \in Keys \ U
  PROVE  \A q \in Queue : \A i, j \in 1..Len(T[q]) :
            i < j => <<entry'[T[q][i]].key, entry'[T[q][j]].key>> \in s
<1> SUFFICES ASSUME NEW q \in Queue, NEW i \in 1..Len(T[q]), NEW j \in 1..Len(T[q]), i < j
             PROVE  <<entry'[T[q][i]].key, entry'[T[q][j]].key>> \in s
    OBVIOUS
<1>1. T[q][i] \in Range(T[q]) /\ T[q][j] \in Range(T[q])
      BY OrderedNodes
<1>2. /\ T[q][j] # n
      /\ \/ T[q][i] = n
         \/ \E a, b \in 1..Len(S[q]) : a < b /\ S[q][a] = T[q][i] /\ S[q][b] = T[q][j]
      BY DEF Reordered
<1>3. entry'[T[q][j]].key = entry[T[q][j]].key /\ entry[T[q][j]].key \in Keys \ U
      BY <1>1, <1>2
<1>4. CASE T[q][i] = n
      <2>1. entry'[n].key \in U
            BY <1>1, <1>4
      <2> QED BY <1>3, <1>4, <2>1 DEF After
<1>5. CASE T[q][i] # n
      <2>1. entry'[T[q][i]].key = entry[T[q][i]].key
            BY <1>1, <1>5
      <2>2. <<entry[T[q][i]].key, entry[T[q][j]].key>> \in r
            BY <1>2, <1>5 DEF Sorted
      <2> QED BY <1>3, <2>1, <2>2 DEF After
<1> QED BY <1>4, <1>5

(* The same of the invariant. *)
LEMMA UseKeeps ==
  ASSUME NEW S, NEW n, NEW U, InOrder(lru, Queue, Node, S), UseInv, recency' = After(U, recency),
         NEW T, InOrder(lru', Queue, Node, T), Reordered(Queue, S, T, n),
         \A q \in Queue : n \in Range(T[q]) => entry'[n].key \in U,
         \A q \in Queue : \A m \in Range(T[q]) \ {n} :
            entry'[m].key = entry[m].key /\ entry[m].key \in Keys \ U
  PROVE  Sorted(T, recency)'
<1>1. Sorted(S, recency)
      BY DEF UseInv
<1>2. PICK r, s : r = recency /\ s = recency'
      OBVIOUS
<1>3. \A q \in Queue : \A i, j \in 1..Len(T[q]) :
            i < j => <<entry'[T[q][i]].key, entry'[T[q][j]].key>> \in s
      BY <1>1, <1>2, UseSorts
<1> QED BY <1>2, <1>3 DEF Sorted

(* The queues are as they were, and no key of theirs is used. *)
LEMMA LooksSort ==
  ASSUME NEW qu, NEW U, UseInv, recency' = After(U, recency),
         InOrder(lru, Queue, Node, qu), InOrder(lru', Queue, Node, qu),
         \A q \in Queue : \A m \in Range(qu[q]) :
            entry'[m].key = entry[m].key /\ entry[m].key \in Keys \ U
  PROVE  UseInv'
<1> SUFFICES ASSUME NEW T, InOrder(lru', Queue, Node, T)
             PROVE  Sorted(T, recency)'
    BY DEF UseInv
<1>1. T = qu
      BY OrderIsUnique
<1>2. PICK n : n = Nil
      OBVIOUS
<1>3. \A q \in Queue : n \notin Range(qu[q])
      BY <1>2, OrderedNodes, CacheAssumption
<1>4. Reordered(Queue, qu, T, n)
      <2>1. \A q \in Queue : \A k \in 1..Len(qu[q]) : qu[q][k] \in Range(qu[q])
            BY OrderedNodes
      <2> QED BY <1>1, <1>3, <2>1 DEF Reordered
<1> QED BY <1>1, <1>3, <1>4, UseKeeps

(* A hidden step, and the end of a scan, answers nobody. *)
LEMMA HiddenUses ==
  ASSUME NEW t \in Threads, NEW bt, NEW qu, Ready(t, bt, qu), Hidden(t) \/ ScanNothing(t)
  PROVE  UsedKeys = {}
<1>0. pc \in [Threads -> Places] /\ Step(t) /\ Workers \subseteq Threads
      BY ReadyTypes, StepKinds DEF Threads
<1>1. \A w \in Workers \ {t} : ~Answering(w)
      BY <1>0, StepAlone, ReadyTypes DEF Answering
<1>2. CASE Hidden(t)
      <2>1. ~Answering(t)
            <3>1. CASE GetHit(t) \/ GetMissFound(t)
                  BY <1>0, <3>1 DEF GetHit, GetMissFound, Goto, Answering
            <3>2. CASE \/ Search(t) \/ PutHit(t) \/ PutMiss(t) \/ DeleteHit(t) \/ Relock(t)
                  BY <1>0, <3>2 DEF Search, LockForSearch, WalkOn, PutHit, PutMiss, DeleteHit,
                     Relock, Goto, Answering
            <3>3. CASE NewEntry(t) \/ Acquire(t) \/ Fill(t) \/ LockForInsert(t)
                  BY <1>0, <3>3 DEF NewEntry, Acquire, Fill, LockForInsert, Goto, Crash,
                     threadVars, Answering
            <3>4. CASE \/ EvictBegin(t) \/ ScanOn(t) \/ ScanFound(t) \/ Peek(t)
                       \/ LockVictimBucket(t) \/ UnlinkVictim(t) \/ WriteBack(t)
                  BY <1>0, <3>4 DEF EvictBegin, ScanOn, ScanFound, Peek, LockVictimBucket,
                     UnlinkVictim, WriteBack, Goto, Crash, threadVars, Answering
            <3> QED BY <1>2, <3>1, <3>2, <3>3, <3>4 DEF Hidden
      <2> QED BY <1>1, <2>1 DEF UsedKeys
<1>3. CASE ScanNothing(t)
      <2>1. t \notin Workers
            BY <1>3, ScanSucceeds, CacheAssumption
      <2> QED BY <1>1, <2>1 DEF UsedKeys
<1> QED BY <1>2, <1>3

(* The last step of a call uses its key, unless it is a DELETE that finds  *)
(* nothing.                                                                *)
LEMMA ReturningUses ==
  ASSUME NEW t \in Threads, NEW bt, NEW qu, Ready(t, bt, qu), Returning(t)
  PROVE  UsedKeys = IF UsesEntry(t) THEN {req[t].key} ELSE {}
<1>0. pc \in [Threads -> Places] /\ Step(t) /\ Workers \subseteq Threads /\ t \in Workers
      BY ReadyTypes, StepKinds, ReturningWorks DEF Threads
<1>1. \A w \in Workers \ {t} : ~Answering(w)
      BY <1>0, StepAlone, ReadyTypes DEF Answering
<1>2. \E ok, v : Finish(t, ok, v)
      BY DEF Returning, GetTouch, GetMissAbsent, PutUpdate, DeleteHitDeleted, DeleteMark,
             DeleteMiss, Insert
<1>3. Answering(t)
      BY <1>0, <1>2 DEF Finish, Goto, Answering, Ready, Working
<1> QED BY <1>0, <1>1, <1>3 DEF UsedKeys

(* What is queued has keys. *)
LEMMA QueuedKeys ==
  ASSUME NEW t \in Threads, NEW bt, NEW qu, Ready(t, bt, qu)
  PROVE  /\ \A q \in Queue : \A n \in Range(qu[q]) : entry[n].key \in Keys /\ n \in Node
         /\ \A k : Absent(bt, k) =>
              \A q \in Queue : \A n \in Range(qu[q]) : entry[n].key # k
<1>1. \A q \in Queue : \A n \in Range(qu[q]) :
         n \in Node /\ Home(n) \in Buckets /\ n \in Range(bt[Home(n)])
      BY QueuedNode, ReadyTypes DEF Ready
<1>2. \A b \in Buckets : \A n \in Range(bt[b]) : entry[n].key \in Keys
      BY DEF Ready, Sound, Shelved, Filled
<1> QED BY <1>1, <1>2 DEF Absent

(* Moving the node of the key that is used. *)
LEMMA MoveSorts ==
  ASSUME NEW t \in Threads, NEW bt, NEW qu, Ready(t, bt, qu), Found(t, bt), UseInv,
         recency' = After({req[t].key}, recency),
         NEW n, n = loc[t].node, lru' = move_to_head_LRU(lru, entry[n].lruIdx, n),
         \A m \in Node : entry'[m].key = entry[m].key
  PROVE  UseInv'
<1> SUFFICES ASSUME NEW T, InOrder(lru', Queue, Node, T)
             PROVE  Sorted(T, recency)'
    BY DEF UseInv
<1>0. TypeOK /\ Sound(bt, qu) /\ InOrder(lru, Queue, Node, qu) /\ Bucket(t) \in Buckets
      BY ReadyTypes DEF Ready
<1>1. n \in Range(bt[Bucket(t)]) /\ entry[n].key = req[t].key
      BY DEF Found
<1>2. entry[n].lruIdx \in Queue /\ n \in Range(qu[entry[n].lruIdx]) /\ n \in Node
      BY <1>0, <1>1, LinkedNode
<1>3. PICK q : q = entry[n].lruIdx
      OBVIOUS
<1>4. InOrder(MoveToFront(lru, q, n), Queue, Node, T)
      BY <1>3 DEF move_to_head_LRU
<1>5. Reordered(Queue, qu, T, n)
      BY <1>0, <1>2, <1>3, <1>4, MoveToFrontReorders
<1>6. \A r \in Queue : Range(T[r]) = Range(qu[r])
      BY <1>0, <1>2, <1>3, <1>4, MoveToFrontNodes
<1>7. ASSUME NEW r \in Queue, NEW m \in Range(T[r]) \ {n}
      PROVE  entry'[m].key = entry[m].key /\ entry[m].key \in Keys \ {req[t].key}
      <2>1. m \in Range(qu[r]) /\ m \in Node /\ entry[m].key \in Keys
            BY <1>6, QueuedKeys
      <2>2. m \in Range(bt[Home(m)]) /\ Home(m) \in Buckets
            BY <1>0, <2>1, QueuedNode
      <2>3. entry[m].key # req[t].key
            BY <1>0, <1>1, <2>2 DEF Sound, Shelved, Home, Bucket
      <2> QED BY <2>1, <2>3
<1>8. entry'[n].key \in {req[t].key}
      BY <1>1, <1>2
<1> QED BY <1>0, <1>5, <1>7, <1>8, UseKeeps

(* The three steps that move the node of their key. *)
LEMMA TouchSorts ==
  ASSUME NEW t \in Threads, NEW bt, NEW qu, Ready(t, bt, qu), UseInv,
         GetTouch(t) \/ PutUpdate(t) \/ DeleteMark(t),
         recency' = After({req[t].key}, recency)
  PROVE  UseInv'
<1> PICK n : n = loc[t].node
    OBVIOUS
<1>0. entry \in [Node -> Entries] /\ Bucket(t) \in Buckets /\ TypeOK
      BY ReadyTypes DEF TypeOK
<1>1. Found(t, bt) /\ pc[t] \in {"touch", "update"}
      BY DEF GetTouch, PutUpdate, DeleteMark, At, Ready, AtWork
<1>2. n \in Node /\ entry[n].key = req[t].key
      BY <1>0, <1>1, LinkedNode DEF Found, Ready
<1>3. lru' = move_to_head_LRU(lru, entry[n].lruIdx, n)
      <2>1. CASE GetTouch(t)
            BY <2>1 DEF GetTouch
      <2>2. CASE PutUpdate(t)
            BY <2>2 DEF PutUpdate
      <2>3. CASE DeleteMark(t)
            <3>1. entry[n].dirty # "TODELETE"
                  BY <1>1, <2>3 DEF DeleteMark, At, Found
            <3> QED BY <2>3, <3>1 DEF DeleteMark
      <2> QED BY <2>1, <2>2, <2>3
<1>4. \A m \in Node : entry'[m].key = entry[m].key
      <2>1. CASE GetTouch(t)
            BY <2>1 DEF GetTouch
      <2>2. CASE PutUpdate(t)
            <3>1. PICK d, v : entry' = [entry EXCEPT ![n].dirty = d, ![n].value = v]
                  BY <2>2 DEF PutUpdate
            <3> QED BY <1>0, <3>1 DEF Entries
      <2>3. CASE DeleteMark(t)
            <3>1. entry' = entry \/ entry' = [entry EXCEPT ![n].dirty = "TODELETE"]
                  BY <2>3 DEF DeleteMark
            <3> QED BY <1>0, <3>1 DEF Entries
      <2> QED BY <2>1, <2>2, <2>3
<1> QED BY <1>1, <1>3, <1>4, MoveSorts

(* Linking a new node in front of its queue. *)
LEMMA InsertSorts ==
  ASSUME NEW t \in Threads, NEW bt, NEW qu, Ready(t, bt, qu), UseInv, Insert(t),
         recency' = After({req[t].key}, recency)
  PROVE  UseInv'
<1> SUFFICES ASSUME NEW T, InOrder(lru', Queue, Node, T)
             PROVE  Sorted(T, recency)'
    BY DEF UseInv
<1> PICK n, q : n = loc[t].slot /\ q = loc[t].queue
    OBVIOUS
<1>0. InOrder(lru, Queue, Node, qu) /\ q \in Queue
      BY ReadyTypes DEF Locals
<1>1. pc[t] = "insert" /\ entry' = entry /\ lru' = PushFront(lru, q, n)
      BY DEF Insert, At, insert_to_head_LRU
<1>2. n \in Node /\ \A r \in Queue : n \notin Range(qu[r])
      BY <1>1, HeldNode DEF Loose
<1>3. entry[n].key = req[t].key /\ Absent(bt, req[t].key)
      BY <1>1 DEF Ready, AtWork, Making, SetAll
<1>4. InOrder(PushFront(lru, q, n), Queue, Node, T)
      BY <1>1
<1>5. /\ Reordered(Queue, qu, T, n)
      /\ \A r \in Queue : Range(T[r]) \subseteq Range(qu[r]) \cup {n}
      <2>1. Reordered(Queue, qu, T, n)
            BY <1>0, <1>2, <1>4, PushFrontReorders
      <2>2. \A r \in Queue : Range(T[r]) \subseteq Range(qu[r]) \cup {n}
            <3>1. \A V : InOrder(PushFront(lru, q, n), Queue, Node, V)
                           => \A r \in Queue : Range(V[r]) \subseteq Range(qu[r]) \cup {n}
                  BY <1>0, <1>2, PushFrontNodes
            <3> QED BY <1>4, <3>1
      <2> QED BY <2>1, <2>2
<1>6. \A r \in Queue : \A m \in Range(qu[r]) : entry[m].key \in Keys \ {req[t].key}
      BY <1>3, QueuedKeys
<1>7. entry'[n].key \in {req[t].key}
      BY <1>1, <1>3
<1>8. \A r \in Queue : \A m \in Range(T[r]) \ {n} :
         entry'[m].key = entry[m].key /\ entry[m].key \in Keys \ {req[t].key}
      BY <1>1, <1>5, <1>6
<1> QED BY <1>0, <1>5, <1>7, <1>8, UseKeeps

(* Taking the victim out of its queue. *)
LEMMA UnlinkSorts ==
  ASSUME NEW t \in Threads, NEW bt, NEW qu, Ready(t, bt, qu), UseInv, UnlinkVictim(t),
         recency' = After({}, recency)
  PROVE  UseInv'
<1> SUFFICES ASSUME NEW T, InOrder(lru', Queue, Node, T)
             PROVE  Sorted(T, recency)'
    BY DEF UseInv
<1> PICK n, q : q = loc[t].queue /\ n = lru.tail[q]
    OBVIOUS
<1>0. InOrder(lru, Queue, Node, qu)
      BY ReadyTypes
<1>1. n # Nil /\ q \in Queue /\ n \in Range(qu[q])
      BY VictimFacts DEF UnlinkVictim, At
<1>2. entry' = entry /\ lru' = Unlink(lru, q, n)
      BY <1>1 DEF UnlinkVictim, remove_from_dll_LRU
<1>3. InOrder(Unlink(lru, q, n), Queue, Node, T)
      BY <1>2
<1>4. Reordered(Queue, qu, T, n)
      BY <1>0, <1>1, <1>3, UnlinkReorders
<1>5. \A r \in Queue : Range(T[r]) \subseteq Range(qu[r]) /\ n \notin Range(T[r])
      BY <1>0, <1>1, <1>3, UnlinkNodes
<1>6. \A r \in Queue : \A m \in Range(qu[r]) : entry[m].key \in Keys \ {}
      BY QueuedKeys
<1>7. \A r \in Queue : \A m \in Range(T[r]) \ {n} :
         entry'[m].key = entry[m].key /\ entry[m].key \in Keys \ {}
      BY <1>2, <1>5, <1>6
<1>8. \A r \in Queue : n \in Range(T[r]) => entry'[n].key \in {}
      BY <1>5
<1> QED BY <1>0, <1>4, <1>7, <1>8, UseKeeps

(* The other steps leave the queues as they are. *)
LEMMA HiddenSorts ==
  ASSUME NEW t \in Threads, NEW bt, NEW qu, Ready(t, bt, qu), UseInv, Hidden(t) \/ ScanNothing(t),
         recency' = After({}, recency)
  PROVE  UseInv'
<1>0. /\ InOrder(lru, Queue, Node, qu) /\ entry \in [Node -> Entries] /\ Step(t)
      BY ReadyTypes, StepKinds DEF TypeOK
<1>1. \A q \in Queue : \A m \in Range(qu[q]) : entry[m].key \in Keys \ {} /\ m \in Node
      BY QueuedKeys
<1>2. CASE Fill(t)
      <2> PICK n : n = loc[t].slot
          OBVIOUS
      <2>1. n \in Node /\ Loose(bt, qu, n)
            BY <1>2, HeldNode DEF Fill, At
      <2>2. lru' = ForgetLinks(lru, n) /\ \A m \in Node \ {n} : entry'[m] = entry[m]
            BY <1>0, <1>2 DEF Fill
      <2>3. InOrder(lru', Queue, Node, qu)
            BY <1>0, <2>1, <2>2, ForgetLinksKeepsOrder DEF Loose
      <2>4. \A q \in Queue : \A m \in Range(qu[q]) : m # n
            BY <2>1 DEF Loose
      <2> QED BY <1>0, <1>1, <2>2, <2>3, <2>4, LooksSort
<1>3. ASSUME UNCHANGED <<lru, entry>> PROVE UseInv'
      BY <1>0, <1>1, <1>3, LooksSort
<1>4. CASE \/ Search(t) \/ GetHit(t) \/ GetMissFound(t) \/ PutHit(t) \/ PutMiss(t)
           \/ DeleteHit(t) \/ Relock(t)
      BY <1>3, <1>4 DEF Search, LockForSearch, WalkOn, GetHit, GetMissFound, PutHit, PutMiss,
               DeleteHit, Relock, lruVars
<1>5. CASE NewEntry(t) \/ Acquire(t) \/ LockForInsert(t)
      BY <1>3, <1>5 DEF NewEntry, Acquire, LockForInsert, Crash, lruVars
<1>6. CASE EvictBegin(t) \/ ScanOn(t) \/ ScanFound(t) \/ ScanNothing(t) \/ Peek(t)
      BY <1>3, <1>6 DEF EvictBegin, ScanOn, ScanFound, ScanNothing, Peek, Crash, lruVars
<1>7. CASE LockVictimBucket(t) \/ WriteBack(t)
      BY <1>3, <1>7 DEF LockVictimBucket, WriteBack, lruVars
<1> QED BY <1>2, <1>4, <1>5, <1>6, <1>7, UnlinkSorts DEF Hidden

(* The last step of a call uses its key. *)
LEMMA ReturningSorts ==
  ASSUME NEW t \in Threads, NEW bt, NEW qu, Ready(t, bt, qu), UseInv, Returning(t),
         recency' = After(UsedKeys, recency)
  PROVE  UseInv'
<1>0. /\ InOrder(lru, Queue, Node, qu) /\ TypeOK /\ ret \in [Threads -> Answers]
      BY ReadyTypes DEF TypeOK
<1>1. \A q \in Queue : \A m \in Range(qu[q]) : entry[m].key \in Keys
      BY QueuedKeys
<1>2. UsedKeys = IF UsesEntry(t) THEN {req[t].key} ELSE {}
      BY ReturningUses
<1>3. CASE GetMissAbsent(t) \/ DeleteMiss(t)
      <2>1. Absent(bt, req[t].key)
            BY <1>3, MissIsAbsent DEF GetMissAbsent, DeleteMiss
      <2>2. \A q \in Queue : \A m \in Range(qu[q]) : entry[m].key \in Keys \ UsedKeys
            BY <1>1, <1>2, <2>1, QueuedKeys
      <2>3. UNCHANGED <<lru, entry>>
            BY <1>3 DEF GetMissAbsent, DeleteMiss, lruVars
      <2> QED BY <1>0, <2>2, <2>3, LooksSort
<1>4. CASE DeleteHitDeleted(t)
      <2>1. ret' = [ret EXCEPT ![t] = Answer(FALSE, NoValue)] /\ req[t].op = "DELETE"
            BY <1>4 DEF DeleteHitDeleted, Hit, Finish
      <2>2. ~UsesEntry(t)
            BY <1>0, <2>1 DEF UsesEntry, Answer
      <2>3. UNCHANGED <<lru, entry>>
            BY <1>4 DEF DeleteHitDeleted, lruVars
      <2> QED BY <1>0, <1>1, <1>2, <2>2, <2>3, LooksSort
<1>5. CASE GetTouch(t) \/ PutUpdate(t) \/ Insert(t)
      <2>1. req[t].op # "DELETE"
            <3>1. CASE GetTouch(t)
                  BY <3>1 DEF GetTouch, At, Ready, AtWork, Found
            <3>2. CASE PutUpdate(t)
                  BY <3>2 DEF PutUpdate
            <3>3. CASE Insert(t)
                  <4>1. pc[t] = "insert"
                        BY <3>3 DEF Insert, At
                  <4>2. req[t].op \in {"GET", "PUT"}
                        BY <4>1, ReturningWorks DEF Ready, AtWork, Making
                  <4> QED BY <4>2
            <3> QED BY <1>5, <3>1, <3>2, <3>3
      <2>2. UsesEntry(t)
            BY <2>1 DEF UsesEntry
      <2> QED BY <1>2, <1>5, <2>2, TouchSorts, InsertSorts
<1>6. CASE DeleteMark(t)
      <2>1. entry[loc[t].node].dirty # "TODELETE"
            BY <1>6 DEF DeleteMark, At, Ready, AtWork, Found
      <2>2. ret' = [ret EXCEPT ![t] = Answer(TRUE, NoValue)]
            BY <1>6, <2>1 DEF DeleteMark, Finish
      <2>3. UsesEntry(t)
            BY <1>0, <2>2 DEF UsesEntry, Answer
      <2> QED BY <1>2, <1>6, <2>3, TouchSorts
<1> QED BY <1>3, <1>4, <1>5, <1>6 DEF Returning

(* Empty queues are in any order. *)
LEMMA EmptySorts ==
  ASSUME lru = EmptyLists(Queue, Node)
  PROVE  UseInv
<1>1. PICK qu : InOrder(lru, Queue, Node, qu) /\ \A q \in Queue : Range(qu[q]) = {}
      BY EmptyListsInOrder, CacheAssumption
<1>2. ASSUME NEW T, InOrder(lru, Queue, Node, T), NEW q \in Queue, NEW i \in 1..Len(T[q])
      PROVE  FALSE
      <2>1. T = qu
            BY <1>1, <1>2, OrderIsUnique
      <2> QED BY <1>1, <1>2, <2>1, OrderedNodes
<1> QED BY <1>2 DEF UseInv, Sorted

(* The same of the queues of a new process. *)
LEMMA EmptyQueuesSort == lru = EmptyLists(Queue, Node) => UseInv
BY EmptySorts

(* Every step keeps the invariant. *)
LEMMA UseInvStep ==
  ASSUME LockInv, OneAtATime, MapInv, UseInv, Next, RecencyNext
  PROVE  UseInv'
<1>0. pc \in [Threads -> Places]
      BY DEF LockInv, TypeOK
<1>1. ASSUME NEW t \in Threads, Step(t) PROVE UseInv'
      <2>1. PICK bt, qu : Ready(t, bt, qu)
            BY <1>1, StepReady
      <2>2. phase # "stopped"
            BY <2>1 DEF Ready, Working, At
      <2>3. recency' = After(UsedKeys, recency)
            BY <2>2 DEF RecencyNext
      <2>4. CASE Returning(t)
            BY <2>1, <2>3, <2>4, ReturningSorts
      <2>5. CASE Hidden(t) \/ ScanNothing(t)
            <3>1. UsedKeys = {}
                  BY <2>1, <2>5, HiddenUses
            <3> QED BY <2>1, <2>3, <2>5, <3>1, HiddenSorts
      <2> QED BY <1>1, <2>4, <2>5, StepKinds
<1>2. CASE (\E w \in Workers : \E r \in RequestsOf[w] : Begin(w, r)) \/ StartCleaning
      <2>1. UNCHANGED <<lru, entry>> /\ phase = "serving"
            BY <1>2, CacheAssumption DEF Begin, At, StartCleaning, lruVars
      <2>2. UsedKeys = {}
            <3>1. \A w \in Workers : ~Answering(w)
                  <4>1. CASE StartCleaning
                        BY <4>1 DEF StartCleaning, Answering
                  <4>2. ASSUME NEW w \in Workers, NEW r \in RequestsOf[w], Begin(w, r),
                               NEW v \in Workers
                        PROVE  ~Answering(v)
                        BY <1>0, <4>2 DEF Begin, Goto, Answering, Threads
                  <4> QED BY <1>2, <4>1, <4>2
            <3> QED BY <3>1 DEF UsedKeys
      <2>3. recency' = After({}, recency)
            BY <2>1, <2>2 DEF RecencyNext
      <2>4. ASSUME NEW qu, Sorted(qu, recency), NEW bt, Good(bt, qu) PROVE UseInv'
            <3>1. InOrder(lru, Queue, Node, qu) /\ TypeOK /\ Sound(bt, qu)
                  BY <2>4 DEF Good, Shape, LockInv, Sound
            <3>2. \A q \in Queue : \A m \in Range(qu[q]) : entry[m].key \in Keys \ {}
                  BY <3>1, QueuedNode DEF Sound, Shelved, Filled
            <3> QED BY <2>1, <2>3, <3>1, <3>2, LooksSort
      <2> QED BY <2>4 DEF MapInv, UseInv, Good, Shape
<1>3. CASE Restart
      <2>1. (lru = EmptyLists(Queue, Node))'
            BY <1>3 DEF Restart
      <2>2. (lru = EmptyLists(Queue, Node) => UseInv)'
            BY EmptyQueuesSort, PTL
      <2> QED BY <2>1, <2>2
<1> QED BY <1>1, <1>2, <1>3 DEF Next

(* What is sorted is in the order of use. *)
LEMMA SortedIsInOrder == LockInv /\ MapInv /\ UseInv => InOrderOfUse
<1> SUFFICES ASSUME LockInv, MapInv, UseInv, NEW q \in Queue
             PROVE  LET walk == Walk(lru, q, NodeCount)
                    IN \A i, j \in 0..NodeCount :
                         i < j /\ walk[j] # Nil
                           => <<entry[walk[i]].key, entry[walk[j]].key>> \in recency
    BY DEF InOrderOfUse
<1> DEFINE walk == Walk(lru, q, NodeCount)
<1>1. PICK bt, qu : Good(bt, qu)
      BY DEF MapInv
<1>2. InOrder(lru, Queue, Node, qu) /\ NodeCount \in Nat
      BY <1>1, CountOfNodes DEF Good, Shape
<1>3. Sorted(qu, recency)
      BY <1>2 DEF UseInv
<1>4. \A i \in 0..NodeCount : walk[i] = IF i < Len(qu[q]) THEN qu[q][i + 1] ELSE Nil
      BY <1>2, WalkInOrder
<1>5. Len(qu[q]) \in Nat
      BY <1>2 DEF InOrder
<1> HIDE DEF walk
<1>6. ASSUME NEW i \in 0..NodeCount, NEW j \in 0..NodeCount, i < j, walk[j] # Nil
      PROVE  <<entry[walk[i]].key, entry[walk[j]].key>> \in recency
      <2>1. j < Len(qu[q])
            BY <1>4, <1>6
      <2>2. i < Len(qu[q])
            BY <1>2, <1>5, <1>6, <2>1
      <2>3. walk[i] = qu[q][i + 1] /\ walk[j] = qu[q][j + 1]
            BY <1>4, <2>1, <2>2
      <2>4. i + 1 \in 1..Len(qu[q]) /\ j + 1 \in 1..Len(qu[q]) /\ i + 1 < j + 1
            BY <1>2, <1>5, <1>6, <2>1, <2>2
      <2> QED BY <1>3, <2>3, <2>4 DEF Sorted
<1> QED BY <1>6 DEF walk

(* As long as calls do not overlap, every LRU queue lists its keys in the   *)
(* order in which they were last used: what an eviction takes from the     *)
(* tail is the least recently used key of its queue.                       *)
THEOREM QueuesAreInOrderOfUse == LRUSpec /\ []OneAtATime => []InOrderOfUse
<1>1. LRUSpec => Spec
      <2>1. [Next /\ RecencyNext]_<<vars, recency>> => [Next]_vars
            BY DEF vars
      <2> QED BY <2>1, PTL DEF LRUSpec, Spec
<1>2. LRUSpec => UseInv
      BY EmptySorts DEF LRUSpec, Init
<1>3. LockInv /\ OneAtATime /\ MapInv /\ UseInv /\ [Next /\ RecencyNext]_<<vars, recency>> => UseInv'
      <2>1. ASSUME UseInv, UNCHANGED <<vars, recency>> PROVE UseInv'
            BY <2>1 DEF UseInv, Sorted, vars, lruVars
      <2> QED BY <2>1, UseInvStep
<1> QED BY <1>1, <1>2, <1>3, LockInvariant, MapInvariant, SortedIsInOrder, PTL DEF LRUSpec

(* With one worker they always are. *)
THEOREM OneWorkerKeepsOrder ==
  ASSUME NEW w, Workers = {w}
  PROVE  LRUSpec => []InOrderOfUse
<1>1. OneAtATime
      BY DEF OneAtATime
<1>2. []OneAtATime
      BY <1>1, PTL
<1> QED BY <1>2, QueuesAreInOrderOfUse, PTL
=============================================================================

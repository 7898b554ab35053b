------------------------- MODULE LinkedListsProofs --------------------------
(***************************************************************************)
(* What the list operations do, for any queues and nodes: no operation, in *)
(* whatever state the lists are, makes a pointer lead anywhere but to a    *)
(* node that was put on a list; and on proper lists, given by the sequences*)
(* of their nodes, each does what its name says and leaves proper lists.   *)
(***************************************************************************)
EXTENDS LinkedLists, TLAPS, FiniteSetTheorems, SequenceTheorems

(* The lists of a family over nodes N whose pointers all lead into S. *)
ListsInto(Q, N, S) == [head : [Q -> S \cup {Nil}], tail : [Q -> S \cup {Nil}],
                       prev : [N -> S \cup {Nil}], next : [N -> S \cup {Nil}]]

(* Empty lists lead nowhere. *)
LEMMA EmptyListsInto ==
  ASSUME NEW Q, NEW N, NEW S
  PROVE  EmptyLists(Q, N) \in ListsInto(Q, N, S)
BY DEF EmptyLists, ListsInto

(* Taking a node out leads no pointer to a new place, whether or not the   *)
(* node is on the list it is taken from.                                   *)
LEMMA UnlinkInto ==
  ASSUME NEW Q, NEW N, NEW S, S \subseteq N,
         NEW L \in ListsInto(Q, N, S), NEW q \in Q, NEW n \in N
  PROVE  Unlink(L, q, n) \in ListsInto(Q, N, S)
BY DEF Unlink, ListsInto

(* Putting n in front adds n to what pointers lead to. *)
LEMMA PushFrontInto ==
  ASSUME NEW Q, NEW N, NEW S, S \subseteq N,
         NEW L \in ListsInto(Q, N, S), NEW q \in Q, NEW n \in S
  PROVE  PushFront(L, q, n) \in ListsInto(Q, N, S)
BY DEF PushFront, ListsInto

(* So does moving it to the front, from wherever it is. *)
LEMMA MoveToFrontInto ==
  ASSUME NEW Q, NEW N, NEW S, S \subseteq N,
         NEW L \in ListsInto(Q, N, S), NEW q \in Q, NEW n \in S
  PROVE  MoveToFront(L, q, n) \in ListsInto(Q, N, S)
BY UnlinkInto, PushFrontInto DEF MoveToFront

(* Clearing the links of a node takes pointers away. *)
LEMMA ForgetLinksInto ==
  ASSUME NEW Q, NEW N, NEW S,
         NEW L \in ListsInto(Q, N, S), NEW n \in N
  PROVE  ForgetLinks(L, n) \in ListsInto(Q, N, S)
BY DEF ForgetLinks, ListsInto

(* A list family is one whose pointers lead to any node. *)
LEMMA ListFamilyIsInto ==
  ASSUME NEW Q, NEW N
  PROVE  ListFamily(Q, N) = ListsInto(Q, N, N)
BY DEF ListFamily, ListsInto

-----------------------------------------------------------------------------
(* Counting up, and the least of what is counted. *)

(* A set of natural numbers that is not empty has a least one. *)
LEMMA LeastOf ==
  ASSUME NEW T \in SUBSET Nat, T # {}
  PROVE  \E n \in T : \A m \in T : n <= m
<1> DEFINE U == {0..n : n \in T}
           R == StrictSubsetOrdering(Nat)
<1>1. U \subseteq FiniteSubsetsOf(Nat)
      <2> SUFFICES ASSUME NEW n \in T PROVE 0..n \in FiniteSubsetsOf(Nat)
          OBVIOUS
      <2> QED BY FS_Interval DEF FiniteSubsetsOf
<1>2. U # {}
      OBVIOUS
<1>3. IsWellFoundedOn(R, FiniteSubsetsOf(Nat))
      BY FS_StrictSubsetOrderingWellFounded
<1> HIDE DEF U, R
<1>4. PICK u \in U : \A v \in U : <<v, u>> \notin R
      BY <1>1, <1>2, <1>3, WFMin
<1>5. PICK n \in T : u = 0..n
      BY DEF U
<1>6. ASSUME NEW m \in T, m < n PROVE FALSE
      <2>1. 0..m \in U /\ <<0..m, u>> \notin R
            BY <1>4 DEF U
      <2>2. 0..m \subseteq 0..n /\ 0..m # 0..n /\ 0..m \subseteq Nat /\ 0..n \subseteq Nat
            BY <1>6
      <2> QED BY <1>5, <2>1, <2>2 DEF R, StrictSubsetOrdering
<1> QED BY <1>6

(* What holds of 0, and of n + 1 with n, holds of every natural number. *)
LEMMA Induction ==
  ASSUME NEW S, 0 \in S, \A n \in Nat : n \in S => n + 1 \in S
  PROVE  Nat \subseteq S
<1> SUFFICES ASSUME Nat \ S # {} PROVE FALSE
    OBVIOUS
<1>1. PICK n \in Nat \ S : \A m \in Nat \ S : n <= m
      BY LeastOf
<1>2. n # 0 /\ n - 1 \in Nat /\ n - 1 \in S
      BY <1>1
<1> QED BY <1>2

IsWalk(f, L, q, k) ==
  f = [i \in 0..k |-> IF i = 0 THEN L.head[q]
                      ELSE IF f[i - 1] = Nil THEN Nil
                      ELSE L.next[f[i - 1]]]

(* A walk of any length is a function that exists: it can be lengthened. *)
LEMMA WalkExists == ASSUME NEW L, NEW q PROVE \A k \in Nat : \E f : IsWalk(f, L, q, k)
<1> DEFINE S == {k \in Nat : \E f : IsWalk(f, L, q, k)}
<1>1. 0 \in S
      <2> DEFINE f == [i \in 0..0 |-> L.head[q]]
      <2>1. IsWalk(f, L, q, 0)
            BY DEF IsWalk
      <2> QED BY <2>1
<1>2. ASSUME NEW k \in Nat, k \in S PROVE k + 1 \in S
      <2>1. PICK f : IsWalk(f, L, q, k)
            BY <1>2
      <2> DEFINE onward == IF f[k] = Nil THEN Nil ELSE L.next[f[k]]
                 g == [i \in 0..(k + 1) |-> IF i <= k THEN f[i] ELSE onward]
                 h == [i \in 0..(k + 1) |-> IF i = 0 THEN L.head[q]
                                            ELSE IF g[i - 1] = Nil THEN Nil
                                            ELSE L.next[g[i - 1]]]
      <2>2. ASSUME NEW i \in 0..(k + 1) PROVE g[i] = h[i]
            <3>1. CASE i = 0
                  BY <2>1, <3>1 DEF IsWalk
            <3>2. CASE i \in 1..k
                  <4>1. g[i] = f[i] /\ g[i - 1] = f[i - 1]
                        BY <3>2
                  <4>2. h[i] = IF g[i - 1] = Nil THEN Nil ELSE L.next[g[i - 1]]
                        BY <3>2
                  <4> HIDE DEF g, h
                  <4> QED BY <2>1, <3>2, <4>1, <4>2 DEF IsWalk
            <3>3. CASE i = k + 1
                  <4>1. g[i] = onward /\ g[i - 1] = f[k] /\ i # 0
                        BY <3>3
                  <4> QED BY <4>1
            <3> QED BY <3>1, <3>2, <3>3
      <2>3. g = h
            BY <2>2
      <2> HIDE DEF g
      <2> QED BY <2>3 DEF IsWalk
<1> HIDE DEF S
<1> QED BY <1>1, <1>2, Induction DEF S

(* So Walk is one that satisfies its recursive definition. *)
LEMMA WalkUnfolds ==
  ASSUME NEW L, NEW q, NEW k \in Nat
  PROVE  IsWalk(Walk(L, q, k), L, q, k)
<1>1. Walk(L, q, k) = CHOOSE f : IsWalk(f, L, q, k)
      BY DEF Walk, IsWalk
<1> QED BY <1>1, WalkExists

-----------------------------------------------------------------------------
(* q is the list of the nodes of the sequence s: its ends are those of s,  *)
(* and the links of each node lead to its neighbours in s.                 *)
IsList(L, q, s) ==
  /\ L.head[q] = IF s = <<>> THEN Nil ELSE s[1]
  /\ L.tail[q] = IF s = <<>> THEN Nil ELSE s[Len(s)]
  /\ \A i \in 1..Len(s) : /\ L.prev[s[i]] = IF i = 1 THEN Nil ELSE s[i - 1]
                          /\ L.next[s[i]] = IF i = Len(s) THEN Nil ELSE s[i + 1]

(* No node is at two places of the sequences S. *)
Apart(Q, S) ==
  \A q, r \in Q : \A i \in 1..Len(S[q]), j \in 1..Len(S[r]) :
     S[q][i] = S[r][j] => q = r /\ i = j

InOrder(L, Q, N, S) == /\ Nil \notin N
                       /\ L \in ListFamily(Q, N) /\ S \in [Q -> Seq(N)]
                       /\ \A q \in Q : IsList(L, q, S[q])
                       /\ Apart(Q, S)

(* s without its j-th, and with n in front. *)
Without(s, j) == [i \in 1..(Len(s) - 1) |-> IF i < j THEN s[i] ELSE s[i + 1]]
InFront(n, s) == [i \in 1..(Len(s) + 1) |-> IF i = 1 THEN n ELSE s[i - 1]]

(* What is where in a sequence one element was taken out of. *)
LEMMA WithoutFacts ==
  ASSUME NEW N, NEW s \in Seq(N), NEW j \in 1..Len(s)
  PROVE  /\ Without(s, j) \in Seq(N) /\ Len(Without(s, j)) = Len(s) - 1
         /\ Without(s, j) = <<>> <=> Len(s) = 1
         /\ \A i \in 1..(Len(s) - 1) :
              Without(s, j)[i] = IF i < j THEN s[i] ELSE s[i + 1]
<1>1. Len(s) \in Nat /\ Len(s) >= 1
      OBVIOUS
<1>2. \A i \in 1..(Len(s) - 1) : s[i] \in N /\ s[i + 1] \in N
      BY <1>1
<1>3. /\ Without(s, j) \in Seq(N) /\ Len(Without(s, j)) = Len(s) - 1
      /\ \A i \in 1..(Len(s) - 1) : Without(s, j)[i] = IF i < j THEN s[i] ELSE s[i + 1]
      BY <1>1, <1>2 DEF Without
<1>4. Without(s, j) = <<>> <=> Len(Without(s, j)) = 0
      BY <1>3, EmptySeq
<1> QED BY <1>1, <1>3, <1>4

(* What is where in a sequence with one more element in front. *)
LEMMA InFrontFacts ==
  ASSUME NEW N, NEW s \in Seq(N), NEW n \in N
  PROVE  /\ InFront(n, s) \in Seq(N) /\ Len(InFront(n, s)) = Len(s) + 1
         /\ InFront(n, s)[1] = n /\ InFront(n, s) # <<>>
         /\ \A i \in 1..Len(s) : InFront(n, s)[i + 1] = s[i]
<1>1. Len(s) \in Nat
      OBVIOUS
<1>2. \A i \in 2..(Len(s) + 1) : i - 1 \in 1..Len(s) /\ s[i - 1] \in N
      BY <1>1
<1>3. /\ InFront(n, s) \in Seq(N) /\ Len(InFront(n, s)) = Len(s) + 1
      /\ InFront(n, s)[1] = n
      /\ \A i \in 1..Len(s) : InFront(n, s)[i + 1] = s[i]
      BY <1>1, <1>2 DEF InFront
<1> QED BY <1>1, <1>3, EmptySeq

(* Taking a node out of its list takes it out of the sequence. *)
LEMMA UnlinkInOrder ==
  ASSUME NEW Q, NEW N, NEW L, NEW S, InOrder(L, Q, N, S),
         NEW q \in Q, NEW j \in 1..Len(S[q])
  PROVE  InOrder(Unlink(L, q, S[q][j]), Q, N, [S EXCEPT ![q] = Without(S[q], j)])
<1> DEFINE s == S[q]
           n == s[j]
           m == Len(s)
           M == Unlink(L, q, n)
           t == Without(s, j)
           T == [S EXCEPT ![q] = t]
<1>1. /\ L \in ListFamily(Q, N) /\ s \in Seq(N) /\ m \in Nat /\ n \in N /\ j \in 1..m
      /\ \A i \in 1..m : s[i] \in N /\ s[i] # Nil
      BY DEF InOrder
<1>2. IsList(L, q, s)
      BY DEF InOrder
<1>3. /\ t \in Seq(N) /\ Len(t) = m - 1
      /\ \A i \in 1..(m - 1) : t[i] = IF i < j THEN s[i] ELSE s[i + 1]
      BY <1>1, WithoutFacts
<1>3a. t = <<>> <=> m = 1
      BY <1>1, WithoutFacts
<1>4. \A i, k \in 1..m : s[i] = s[k] => i = k
      BY DEF InOrder, Apart
<1>5. T \in [Q -> Seq(N)] /\ T[q] = t /\ \A r \in Q \ {q} : T[r] = S[r]
      BY <1>3 DEF InOrder
<1> DEFINE p == IF j = 1 THEN Nil ELSE s[j - 1]
           x == IF j = m THEN Nil ELSE s[j + 1]
<1>6. p = L.prev[n] /\ x = L.next[n] /\ (p = Nil <=> j = 1) /\ (x = Nil <=> j = m)
      <2>1. j # 1 => s[j - 1] # Nil
            BY <1>1
      <2>2. j # m => s[j + 1] # Nil
            BY <1>1
      <2> QED BY <1>1, <1>2, <2>1, <2>2 DEF IsList
<1>7. M = [head |-> IF j = 1 THEN [L.head EXCEPT ![q] = x] ELSE L.head,
           tail |-> IF j = m THEN [L.tail EXCEPT ![q] = p] ELSE L.tail,
           prev |-> IF j = m THEN L.prev ELSE [L.prev EXCEPT ![x] = p],
           next |-> IF j = 1 THEN L.next ELSE [L.next EXCEPT ![p] = x]]
      BY <1>6 DEF Unlink
<1>8. p \in N \cup {Nil} /\ x \in N \cup {Nil}
      <2>1. j # 1 => j - 1 \in 1..m
            BY <1>1
      <2>2. j # m => j + 1 \in 1..m
            BY <1>1
      <2> QED BY <1>1, <2>1, <2>2
<1>9. M \in ListFamily(Q, N)
      BY <1>1, <1>6, <1>7, <1>8 DEF ListFamily
<1>10. IsList(M, q, t)
      <2>1. M.head[q] = IF t = <<>> THEN Nil ELSE t[1]
            <3>1. t = <<>> <=> m = 1
                  BY <1>3a
            <3>2. L.head[q] = s[1]
                  BY <1>1, <1>2 DEF IsList
            <3>3. CASE j = 1
                  <4>1. M.head[q] = x
                        BY <1>1, <1>7, <3>3 DEF ListFamily
                  <4>2. m # 1 => t[1] = s[2]
                        <5> HIDE DEF m
                        <5>1. m # 1 => 1 \in 1..(m - 1) /\ ~(1 < j)
                              BY <1>1, <3>3
                        <5> QED BY <1>3, <5>1
                  <4> QED BY <3>1, <3>3, <4>1, <4>2
            <3>4. CASE j # 1
                  <4>1. M.head[q] = s[1] /\ m # 1
                        BY <1>1, <1>7, <3>2, <3>4
                  <4>2. t[1] = s[1]
                        BY <1>1, <1>3, <3>4
                  <4> QED BY <3>1, <4>1, <4>2
            <3> QED BY <3>3, <3>4
      <2>2. M.tail[q] = IF t = <<>> THEN Nil ELSE t[Len(t)]
            <3>1. t = <<>> <=> m = 1
                  BY <1>3a
            <3>2. L.tail[q] = s[m]
                  BY <1>1, <1>2 DEF IsList
            <3>3. CASE j = m
                  <4>1. M.tail[q] = p
                        BY <1>1, <1>7, <3>3 DEF ListFamily
                  <4>2. m # 1 => t[m - 1] = s[m - 1]
                        <5> HIDE DEF m
                        <5>1. m # 1 => m - 1 \in 1..(m - 1) /\ m - 1 < j
                              BY <1>1, <3>3
                        <5> QED BY <1>3, <5>1
                  <4> QED BY <1>3, <3>1, <3>3, <4>1, <4>2
            <3>4. CASE j # m
                  <4>1. M.tail[q] = s[m] /\ m # 1
                        BY <1>1, <1>7, <3>2, <3>4
                  <4>2. t[m - 1] = s[m]
                        BY <1>1, <1>3, <3>4
                  <4> QED BY <1>3, <3>1, <4>1, <4>2
            <3> QED BY <3>3, <3>4
      <2>3. ASSUME NEW i \in 1..Len(t)
            PROVE  M.prev[t[i]] = IF i = 1 THEN Nil ELSE t[i - 1]
            <3>1. i \in Nat /\ 1 <= i /\ i < m
                  BY <1>1, <1>3
            <3>2. CASE i < j
                  <4>1. t[i] = s[i] /\ (i # 1 => t[i - 1] = s[i - 1])
                        BY <1>1, <1>3, <3>1, <3>2
                  <4>2. L.prev[s[i]] = IF i = 1 THEN Nil ELSE s[i - 1]
                        BY <1>1, <1>2, <3>1 DEF IsList
                  <4>3. j # m => s[i] # s[j + 1]
                        BY <1>1, <1>4, <3>1, <3>2
                  <4>4. M.prev[s[i]] = L.prev[s[i]]
                        BY <1>1, <1>7, <4>3 DEF ListFamily
                  <4> QED BY <4>1, <4>2, <4>4
            <3>3. CASE i = j
                  <4>1. t[i] = s[j + 1] /\ j # m /\ (i # 1 => t[i - 1] = s[j - 1])
                        BY <1>1, <1>3, <3>1, <3>3
                  <4>2. x \in N /\ M.prev[x] = p
                        BY <1>1, <1>6, <1>7, <1>8, <4>1 DEF ListFamily
                  <4> QED BY <3>3, <4>1, <4>2
            <3>4. CASE i > j
                  <4>1. t[i] = s[i + 1] /\ t[i - 1] = s[i] /\ i # 1 /\ i + 1 \in 1..m
                        BY <1>1, <1>3, <3>1, <3>4
                  <4>2. L.prev[s[i + 1]] = s[i]
                        BY <1>2, <3>1, <4>1 DEF IsList
                  <4>3. j # m => s[i + 1] # s[j + 1]
                        BY <1>1, <1>4, <3>1, <3>4
                  <4>4. M.prev[s[i + 1]] = L.prev[s[i + 1]]
                        BY <1>1, <1>7, <4>1, <4>3 DEF ListFamily
                  <4> QED BY <4>1, <4>2, <4>4
            <3> QED BY <1>1, <3>1, <3>2, <3>3, <3>4
      <2>4. ASSUME NEW i \in 1..Len(t)
            PROVE  M.next[t[i]] = IF i = Len(t) THEN Nil ELSE t[i + 1]
            <3>1. i \in Nat /\ 1 <= i /\ i < m
                  BY <1>1, <1>3
            <3>2. CASE i < j - 1
                  <4>1. t[i] = s[i] /\ t[i + 1] = s[i + 1] /\ i # m - 1
                        BY <1>1, <1>3, <3>1, <3>2
                  <4>2. L.next[s[i]] = s[i + 1]
                        BY <1>1, <1>2, <3>1 DEF IsList
                  <4>3. j # 1 => s[i] # s[j - 1]
                        BY <1>1, <1>4, <3>1, <3>2
                  <4>4. M.next[s[i]] = L.next[s[i]]
                        BY <1>1, <1>7, <3>1, <4>3 DEF ListFamily
                  <4> QED BY <1>3, <4>1, <4>2, <4>4
            <3>3. CASE i = j - 1
                  <4>1. t[i] = s[j - 1] /\ j # 1 /\ (i # m - 1 <=> j # m)
                        BY <1>1, <1>3, <3>1, <3>3
                  <4>2. p \in N /\ M.next[p] = x
                        BY <1>1, <1>6, <1>7, <1>8, <4>1 DEF ListFamily
                  <4>3. j # m => t[i + 1] = s[j + 1]
                        <5> SUFFICES ASSUME j # m PROVE t[i + 1] = s[j + 1]
                            OBVIOUS
                        <5>1. i + 1 = j /\ i + 1 \in 1..(m - 1) /\ ~(i + 1 < j)
                              BY <1>1, <3>1, <3>3
                        <5>2. t[i + 1] = s[(i + 1) + 1]
                              BY <1>3, <5>1
                        <5> QED BY <5>1, <5>2
                  <4> QED BY <1>3, <3>3, <4>1, <4>2, <4>3
            <3>4. CASE i > j - 1
                  <4>1. t[i] = s[i + 1] /\ i + 1 \in 1..m
                        BY <1>1, <1>3, <3>1, <3>4
                  <4>2. i # m - 1 => t[i + 1] = s[i + 2]
                        BY <1>1, <1>3, <3>1, <3>4
                  <4>3. L.next[s[i + 1]] = IF i + 1 = m THEN Nil ELSE s[i + 2]
                        BY <1>2, <3>1, <4>1 DEF IsList
                  <4>4. j # 1 => s[i + 1] # s[j - 1]
                        BY <1>1, <1>4, <3>1, <3>4
                  <4>5. M.next[s[i + 1]] = L.next[s[i + 1]]
                        BY <1>1, <1>7, <4>1, <4>4 DEF ListFamily
                  <4> QED BY <1>1, <1>3, <3>1, <4>1, <4>2, <4>3, <4>5
            <3> QED BY <1>1, <3>1, <3>2, <3>3, <3>4
      <2> HIDE DEF M, t
      <2> QED BY <2>1, <2>2, <2>3, <2>4 DEF IsList
<1>11. ASSUME NEW r \in Q \ {q}
      PROVE  IsList(M, r, S[r])
      <2>1. IsList(L, r, S[r]) /\ \A i \in 1..Len(S[r]) : S[r][i] \in N
            BY DEF InOrder
      <2>2. M.head[r] = L.head[r] /\ M.tail[r] = L.tail[r]
            BY <1>1, <1>7 DEF ListFamily
      <2>3. ASSUME NEW i \in 1..Len(S[r])
            PROVE  M.prev[S[r][i]] = L.prev[S[r][i]] /\ M.next[S[r][i]] = L.next[S[r][i]]
            <3>1. \A k \in 1..m : S[r][i] # s[k]
                  BY DEF InOrder, Apart
            <3>2. (j # m => S[r][i] # x) /\ (j # 1 => S[r][i] # p)
                  BY <1>1, <3>1
            <3> QED BY <1>1, <1>7, <2>1, <3>2 DEF ListFamily
      <2> HIDE DEF M
      <2> QED BY <2>1, <2>2, <2>3 DEF IsList
<1>12. Apart(Q, T)
      <2> SUFFICES ASSUME NEW a \in Q, NEW b \in Q, NEW i \in 1..Len(T[a]), NEW k \in 1..Len(T[b]),
                          T[a][i] = T[b][k]
                   PROVE  a = b /\ i = k
          BY DEF Apart
      <2>1. ASSUME NEW r \in Q, NEW h \in 1..Len(T[r])
            PROVE  \E g \in 1..Len(S[r]) :
                     /\ T[r][h] = S[r][g]
                     /\ g = IF r = q /\ h >= j THEN h + 1 ELSE h
            <3>1. CASE r = q
                  <4>1. h \in 1..(m - 1) /\ T[r][h] = IF h < j THEN s[h] ELSE s[h + 1]
                        BY <1>3, <1>5, <3>1
                  <4> QED BY <1>1, <3>1, <4>1
            <3>2. CASE r # q
                  BY <1>5, <3>2
            <3> QED BY <3>1, <3>2
      <2>2. PICK f \in 1..Len(S[a]) : T[a][i] = S[a][f] /\ f = IF a = q /\ i >= j THEN i + 1 ELSE i
            BY <2>1
      <2>3. PICK g \in 1..Len(S[b]) : T[b][k] = S[b][g] /\ g = IF b = q /\ k >= j THEN k + 1 ELSE k
            BY <2>1
      <2>4. a = b /\ f = g
            BY <2>2, <2>3 DEF InOrder, Apart
      <2>5. i \in Nat /\ k \in Nat /\ j \in Nat
            BY <1>1, <1>3, <1>5 DEF InOrder
      <2> QED BY <2>2, <2>3, <2>4, <2>5
<1> HIDE DEF M, T, t
<1>13. \A r \in Q : IsList(M, r, T[r])
      BY <1>5, <1>10, <1>11
<1>14. Nil \notin N
      BY DEF InOrder
<1> QED BY <1>5, <1>9, <1>12, <1>13, <1>14 DEF InOrder, M, T, t

(* Putting in front a node that is in no list puts it in front of the      *)
(* sequence.                                                               *)
LEMMA PushFrontInOrder ==
  ASSUME NEW Q, NEW N, NEW L, NEW S, InOrder(L, Q, N, S),
         NEW q \in Q, NEW n \in N,
         \A r \in Q : \A i \in 1..Len(S[r]) : S[r][i] # n
  PROVE  InOrder(PushFront(L, q, n), Q, N, [S EXCEPT ![q] = InFront(n, S[q])])
<1> DEFINE s == S[q]
           m == Len(s)
           h == L.head[q]
           M == PushFront(L, q, n)
           t == InFront(n, s)
           T == [S EXCEPT ![q] = t]
<1>1. /\ L \in ListFamily(Q, N) /\ s \in Seq(N) /\ m \in Nat
      /\ \A i \in 1..m : s[i] \in N /\ s[i] # Nil /\ s[i] # n
      BY DEF InOrder
<1>2. IsList(L, q, s)
      BY DEF InOrder
<1>3. /\ t \in Seq(N) /\ Len(t) = m + 1 /\ t[1] = n /\ t # <<>>
      /\ \A i \in 1..m : t[i + 1] = s[i]
      <2> HIDE DEF s
      <2>1. s \in Seq(N) /\ n \in N
            BY <1>1
      <2>2. /\ InFront(n, s) \in Seq(N) /\ Len(InFront(n, s)) = Len(s) + 1
            /\ InFront(n, s)[1] = n /\ InFront(n, s) # <<>>
            /\ \A i \in 1..Len(s) : InFront(n, s)[i + 1] = s[i]
            BY <2>1, InFrontFacts
      <2> QED BY <2>2
<1>4. \A i, k \in 1..m : s[i] = s[k] => i = k
      BY DEF InOrder, Apart
<1>5. T \in [Q -> Seq(N)] /\ T[q] = t /\ \A r \in Q \ {q} : T[r] = S[r]
      BY <1>3 DEF InOrder
<1>6. /\ h \in N \cup {Nil} /\ h # n /\ (h = Nil <=> m = 0) /\ (m # 0 => h = s[1])
      <2>1. s = <<>> <=> m = 0
            BY <1>1, EmptySeq
      <2>2. m # 0 => 1 \in 1..m
            BY <1>1
      <2>3. h = IF s = <<>> THEN Nil ELSE s[1]
            BY <1>2 DEF IsList
      <2> QED BY <1>1, <2>1, <2>2, <2>3 DEF InOrder
<1>7. M = [head |-> [L.head EXCEPT ![q] = n],
           tail |-> IF m = 0 THEN [L.tail EXCEPT ![q] = n] ELSE L.tail,
           prev |-> IF m = 0 THEN [L.prev EXCEPT ![n] = Nil]
                             ELSE [L.prev EXCEPT ![n] = Nil, ![h] = n],
           next |-> [L.next EXCEPT ![n] = h]]
      BY <1>6 DEF PushFront
<1>8. M \in ListFamily(Q, N)
      BY <1>1, <1>6, <1>7 DEF ListFamily
<1>9. /\ M.next[n] = h /\ M.prev[n] = Nil /\ (m # 0 => M.prev[h] = n)
      /\ \A k \in N \ {n} : M.next[k] = L.next[k]
      /\ \A k \in N \ {n, h} : M.prev[k] = L.prev[k]
      /\ M.head[q] = n /\ M.tail[q] = IF m = 0 THEN n ELSE L.tail[q]
      /\ \A r \in Q \ {q} : M.head[r] = L.head[r] /\ M.tail[r] = L.tail[r]
      BY <1>1, <1>6, <1>7 DEF ListFamily
<1> HIDE DEF M, t, T, m, s
<1>10. IsList(M, q, t)
      <2>1. M.tail[q] = t[Len(t)]
            <3>1. CASE m = 0
                  BY <1>3, <1>9, <3>1
            <3>2. CASE m # 0
                  <4>1. L.tail[q] = s[m]
                        BY <1>1, <1>2, <3>2, EmptySeq DEF IsList, m
                  <4>2. t[m + 1] = s[m]
                        BY <1>1, <1>3, <3>2
                  <4> QED BY <1>3, <1>9, <3>2, <4>1, <4>2
            <3> QED BY <3>1, <3>2
      <2>2. ASSUME NEW i \in 1..Len(t)
            PROVE  /\ M.prev[t[i]] = IF i = 1 THEN Nil ELSE t[i - 1]
                   /\ M.next[t[i]] = IF i = Len(t) THEN Nil ELSE t[i + 1]
            <3>1. CASE i = 1
                  <4>1. m # 0 => t[2] = s[1]
                        <5>1. m # 0 => 1 \in 1..m
                              BY <1>1
                        <5> QED BY <1>3, <5>1
                  <4> QED BY <1>1, <1>3, <1>6, <1>9, <3>1, <4>1
            <3>2. CASE i # 1
                  <4> DEFINE k == i - 1
                  <4>1. k \in 1..m /\ i = k + 1
                        BY <1>1, <1>3, <3>2
                  <4> HIDE DEF k
                  <4>2. /\ L.prev[s[k]] = IF k = 1 THEN Nil ELSE s[k - 1]
                        /\ L.next[s[k]] = IF k = m THEN Nil ELSE s[k + 1]
                        BY <1>2, <4>1 DEF IsList, m
                  <4>3. t[i] = s[k] /\ s[k] \in N /\ s[k] # n
                        BY <1>1, <1>3, <4>1
                  <4>4. M.next[s[k]] = IF i = m + 1 THEN Nil ELSE t[i + 1]
                        <5>1. k # m => t[i + 1] = s[k + 1]
                              BY <1>1, <1>3, <4>1
                        <5> QED BY <1>1, <1>9, <4>1, <4>2, <4>3, <5>1
                  <4>5. M.prev[s[k]] = t[k]
                        <5>1. CASE k = 1
                              BY <1>3, <1>6, <1>9, <4>1, <5>1, <1>1
                        <5>2. CASE k # 1
                              <6>1. s[k] # h
                                    BY <1>1, <1>4, <1>6, <4>1, <5>2
                              <6>2. t[k] = s[k - 1]
                                    <7>1. k - 1 \in 1..m /\ (k - 1) + 1 = k
                                          BY <1>1, <4>1, <5>2
                                    <7> QED BY <1>3, <7>1
                              <6> QED BY <1>9, <4>2, <4>3, <5>2, <6>1, <6>2
                        <5> QED BY <5>1, <5>2
                  <4>6. i - 1 = k
                        BY <1>1, <4>1
                  <4> QED BY <1>3, <3>2, <4>3, <4>4, <4>5, <4>6
            <3> QED BY <3>1, <3>2
      <2> QED BY <1>3, <1>9, <2>1, <2>2 DEF IsList
<1>11. ASSUME NEW r \in Q \ {q}
      PROVE  IsList(M, r, S[r])
      <2>1. IsList(L, r, S[r]) /\ \A i \in 1..Len(S[r]) : S[r][i] \in N /\ S[r][i] # n
            BY DEF InOrder
      <2>2. ASSUME NEW i \in 1..Len(S[r])
            PROVE  M.prev[S[r][i]] = L.prev[S[r][i]] /\ M.next[S[r][i]] = L.next[S[r][i]]
            <3>1. \A k \in 1..m : S[r][i] # s[k]
                  BY DEF InOrder, Apart, m, s
            <3>2. S[r][i] # h
                  <4>1. m # 0 => 1 \in 1..m
                        BY <1>1
                  <4>2. S[r][i] # Nil
                        BY <2>1 DEF InOrder
                  <4> QED BY <1>6, <3>1, <4>1, <4>2
            <3> QED BY <1>9, <2>1, <3>2
      <2> QED BY <1>9, <2>1, <2>2 DEF IsList
<1>12. Apart(Q, T)
      <2> SUFFICES ASSUME NEW a \in Q, NEW b \in Q, NEW i \in 1..Len(T[a]), NEW k \in 1..Len(T[b]),
                          T[a][i] = T[b][k]
                   PROVE  a = b /\ i = k
          BY DEF Apart
      <2>1. ASSUME NEW r \in Q, NEW g \in 1..Len(T[r])
            PROVE  \/ r = q /\ g = 1 /\ T[r][g] = n
                   \/ \E f \in 1..Len(S[r]) : /\ T[r][g] = S[r][f] /\ S[r][f] # n
                                              /\ g = IF r = q THEN f + 1 ELSE f
            <3>1. CASE r = q /\ g = 1
                  BY <1>3, <1>5, <3>1
            <3>2. CASE r = q /\ g # 1
                  <4>1. g - 1 \in 1..m /\ (g - 1) + 1 = g
                        BY <1>1, <1>3, <1>5, <3>2
                  <4>2. T[r][g] = s[g - 1]
                        BY <1>3, <1>5, <3>2, <4>1
                  <4> QED BY <1>1, <3>2, <4>1, <4>2 DEF m, s
            <3>3. CASE r # q
                  BY <1>5, <3>3
            <3> QED BY <3>1, <3>2, <3>3
      <2>2. CASE T[a][i] = n
            <3>1. a = q /\ i = 1
                  BY <2>1, <2>2
            <3>2. T[b][k] = n
                  BY <2>2
            <3>3. b = q /\ k = 1
                  BY <2>1, <3>2
            <3> QED BY <3>1, <3>3
      <2>3. CASE T[a][i] # n
            <3>1. PICK f \in 1..Len(S[a]) : T[a][i] = S[a][f] /\ i = IF a = q THEN f + 1 ELSE f
                  BY <2>1, <2>3
            <3>2. PICK g \in 1..Len(S[b]) : T[b][k] = S[b][g] /\ k = IF b = q THEN g + 1 ELSE g
                  BY <2>1, <2>3
            <3>3. S[a][f] = S[b][g]
                  BY <3>1, <3>2
            <3>4. a = b /\ f = g
                  BY <3>3 DEF InOrder, Apart
            <3> QED BY <3>1, <3>2, <3>4
      <2> QED BY <2>2, <2>3
<1>13. \A r \in Q : IsList(M, r, T[r])
      BY <1>5, <1>10, <1>11
<1>14. Nil \notin N
      BY DEF InOrder
<1> QED BY <1>5, <1>8, <1>12, <1>13, <1>14 DEF InOrder, M, T, t, s

-----------------------------------------------------------------------------
(* The nodes of a sequence without its j-th, and with one more in front. *)
LEMMA RangeWithout ==
  ASSUME NEW N, NEW s \in Seq(N), NEW j \in 1..Len(s),
         \A i, k \in 1..Len(s) : s[i] = s[k] => i = k
  PROVE  Range(Without(s, j)) = Range(s) \ {s[j]}
<1> DEFINE t == Without(s, j)
<1>1. /\ Len(s) \in Nat /\ DOMAIN s = 1..Len(s)
      /\ DOMAIN t = 1..(Len(s) - 1)
      /\ \A i \in 1..(Len(s) - 1) : t[i] = IF i < j THEN s[i] ELSE s[i + 1]
      BY WithoutFacts, LenProperties DEF Without
<1> HIDE DEF t
<1>2. ASSUME NEW i \in 1..(Len(s) - 1) PROVE t[i] \in Range(s) \ {s[j]}
      <2>1. PICK k \in 1..Len(s) : k # j /\ t[i] = s[k]
            <3>1. CASE i < j
                  BY <1>1, <3>1
            <3>2. CASE i >= j
                  <4>1. i + 1 \in 1..Len(s) /\ i + 1 # j /\ ~(i < j)
                        BY <1>1, <3>2
                  <4> QED BY <1>1, <4>1
            <3> QED BY <1>1, <3>1, <3>2
      <2> QED BY <1>1, <2>1 DEF Range
<1>3. ASSUME NEW k \in 1..Len(s), k # j PROVE s[k] \in Range(t)
      <2>1. CASE k < j
            <3>1. k \in 1..(Len(s) - 1)
                  BY <1>1, <2>1
            <3> QED BY <1>1, <2>1, <3>1 DEF Range
      <2>2. CASE k > j
            <3>1. k - 1 \in 1..(Len(s) - 1) /\ ~(k - 1 < j) /\ (k - 1) + 1 = k
                  BY <1>1, <2>2
            <3> QED BY <1>1, <3>1 DEF Range
      <2> QED BY <1>1, <1>3, <2>1, <2>2
<1>4. Range(t) \subseteq Range(s) \ {s[j]}
      BY <1>1, <1>2 DEF Range
<1>5. Range(s) \ {s[j]} \subseteq Range(t)
      BY <1>1, <1>3 DEF Range
<1> QED BY <1>4, <1>5 DEF t

(* A sequence with one more element in front has one more element. *)
LEMMA RangeInFront ==
  ASSUME NEW N, NEW s \in Seq(N), NEW n \in N
  PROVE  Range(InFront(n, s)) = Range(s) \cup {n}
<1> DEFINE t == InFront(n, s)
<1>1. /\ Len(s) \in Nat /\ DOMAIN s = 1..Len(s)
      /\ DOMAIN t = 1..(Len(s) + 1)
      /\ t[1] = n /\ \A i \in 1..Len(s) : t[i + 1] = s[i]
      BY InFrontFacts, LenProperties DEF InFront
<1> HIDE DEF t
<1>2. ASSUME NEW i \in 1..(Len(s) + 1) PROVE t[i] \in Range(s) \cup {n}
      <2>1. CASE i # 1
            <3>1. i - 1 \in 1..Len(s) /\ (i - 1) + 1 = i
                  BY <1>1, <2>1
            <3> QED BY <1>1, <3>1 DEF Range
      <2> QED BY <1>1, <2>1
<1>3. ASSUME NEW i \in 1..Len(s) PROVE s[i] \in Range(t)
      <2>1. i + 1 \in 1..(Len(s) + 1)
            BY <1>1
      <2> QED BY <1>1, <2>1 DEF Range
<1>4. n \in Range(t)
      <2>1. 1 \in 1..(Len(s) + 1)
            BY <1>1
      <2> QED BY <1>1, <2>1 DEF Range
<1>5. Range(t) \subseteq Range(s) \cup {n}
      BY <1>1, <1>2 DEF Range
<1>6. Range(s) \cup {n} \subseteq Range(t)
      BY <1>1, <1>3, <1>4 DEF Range
<1> QED BY <1>5, <1>6 DEF t

(* The nodes of lists in order. *)
LEMMA OrderedNodes ==
  ASSUME NEW Q, NEW N, NEW L, NEW S, InOrder(L, Q, N, S), NEW q \in Q
  PROVE  /\ Range(S[q]) \subseteq N
         /\ \A i \in 1..Len(S[q]) : S[q][i] \in Range(S[q])
         /\ \A n \in Range(S[q]) : \E i \in 1..Len(S[q]) : n = S[q][i]
<1>1. S[q] \in Seq(N)
      BY DEF InOrder
<1>2. DOMAIN S[q] = 1..Len(S[q])
      BY <1>1, LenProperties
<1>3. /\ \A i \in 1..Len(S[q]) : S[q][i] \in Range(S[q])
      /\ \A n \in Range(S[q]) : \E i \in 1..Len(S[q]) : n = S[q][i]
      BY <1>2 DEF Range
<1>4. Range(S[q]) \subseteq N
      BY <1>1, <1>3
<1> QED BY <1>3, <1>4

(* No node is in two lists. *)
LEMMA OrderedApart ==
  ASSUME NEW Q, NEW N, NEW L, NEW S, InOrder(L, Q, N, S),
         NEW q \in Q, NEW r \in Q, NEW n \in Range(S[q]), n \in Range(S[r])
  PROVE  q = r
<1>0. DOMAIN S[q] = 1..Len(S[q]) /\ DOMAIN S[r] = 1..Len(S[r])
      BY LenProperties DEF InOrder
<1>1. PICK i \in 1..Len(S[q]) : n = S[q][i]
      BY <1>0 DEF Range
<1>2. PICK j \in 1..Len(S[r]) : n = S[r][j]
      BY <1>0 DEF Range
<1> QED BY <1>1, <1>2 DEF InOrder, Apart

(* The ends of a list. *)
LEMMA OrderedEnds ==
  ASSUME NEW Q, NEW N, NEW L, NEW S, InOrder(L, Q, N, S), NEW q \in Q
  PROVE  /\ L.head[q] = Nil <=> Range(S[q]) = {}
         /\ L.tail[q] = Nil <=> Range(S[q]) = {}
         /\ L.tail[q] # Nil => L.tail[q] \in Range(S[q])
<1>1. S[q] \in Seq(N) /\ IsList(L, q, S[q]) /\ Len(S[q]) \in Nat
      BY DEF InOrder
<1>3. /\ \A i \in 1..Len(S[q]) : S[q][i] \in Range(S[q])
      /\ \A n \in Range(S[q]) : \E i \in 1..Len(S[q]) : n = S[q][i]
      BY OrderedNodes
<1>4. Range(S[q]) \subseteq N /\ Nil \notin N
      BY OrderedNodes DEF InOrder
<1>5. S[q] = <<>> <=> Len(S[q]) = 0
      BY <1>1, EmptySeq
<1>7. CASE Len(S[q]) = 0
      <2>1. L.head[q] = Nil /\ L.tail[q] = Nil
            BY <1>1, <1>5, <1>7 DEF IsList
      <2>2. Range(S[q]) = {}
            BY <1>3, <1>7
      <2> QED BY <2>1, <2>2
<1>8. CASE Len(S[q]) # 0
      <2>1. 1 \in 1..Len(S[q]) /\ Len(S[q]) \in 1..Len(S[q])
            BY <1>1, <1>8
      <2>2. L.head[q] = S[q][1] /\ L.tail[q] = S[q][Len(S[q])]
            BY <1>1, <1>5, <1>8 DEF IsList
      <2>3. L.head[q] \in Range(S[q]) /\ L.tail[q] \in Range(S[q])
            BY <1>3, <2>1, <2>2
      <2>4. L.head[q] # Nil /\ L.tail[q] # Nil /\ Range(S[q]) # {}
            BY <1>4, <2>3
      <2> QED BY <2>1, <2>2, <2>3, <2>4
<1> QED BY <1>7, <1>8

(* Its first node. *)
LEMMA OrderedHead ==
  ASSUME NEW Q, NEW N, NEW L, NEW S, InOrder(L, Q, N, S), NEW q \in Q, L.head[q] # Nil
  PROVE  1 \in 1..Len(S[q]) /\ L.head[q] = S[q][1]
<1>1. S[q] \in Seq(N) /\ IsList(L, q, S[q]) /\ Len(S[q]) \in Nat
      BY DEF InOrder
<1>2. S[q] = <<>> <=> Len(S[q]) = 0
      BY <1>1, EmptySeq
<1> QED BY <1>1, <1>2 DEF IsList

(* What Unlink, PushFront and MoveToFront make of lists in order. *)
LEMMA UnlinkKeepsOrder ==
  ASSUME NEW Q, NEW N, NEW L, NEW S, InOrder(L, Q, N, S),
         NEW q \in Q, NEW n \in Range(S[q])
  PROVE  \E T : /\ InOrder(Unlink(L, q, n), Q, N, T)
                /\ \A r \in Q : Range(T[r]) = Range(S[r]) \ {n}
<1>1. PICK j \in 1..Len(S[q]) : n = S[q][j]
      BY OrderedNodes
<1> DEFINE T == [S EXCEPT ![q] = Without(S[q], j)]
<1>2. InOrder(Unlink(L, q, n), Q, N, T)
      BY <1>1, UnlinkInOrder
<1>3. T[q] = Without(S[q], j) /\ \A r \in Q \ {q} : T[r] = S[r]
      BY DEF InOrder
<1>4. Range(T[q]) = Range(S[q]) \ {n}
      <2>1. S[q] \in Seq(N) /\ \A i, k \in 1..Len(S[q]) : S[q][i] = S[q][k] => i = k
            BY DEF InOrder, Apart
      <2> QED BY <1>1, <1>3, <2>1, RangeWithout
<1>5. \A r \in Q \ {q} : Range(T[r]) = Range(S[r]) \ {n}
      <2>1. \A r \in Q \ {q} : n \notin Range(S[r])
            BY OrderedApart
      <2> QED BY <1>3, <2>1
<1> HIDE DEF T
<1> QED BY <1>2, <1>4, <1>5

(* Putting a node in front, in terms of which nodes are on which list. *)
LEMMA PushFrontKeepsOrder ==
  ASSUME NEW Q, NEW N, NEW L, NEW S, InOrder(L, Q, N, S),
         NEW q \in Q, NEW n \in N, \A r \in Q : n \notin Range(S[r])
  PROVE  \E T : /\ InOrder(PushFront(L, q, n), Q, N, T)
                /\ T[q] = InFront(n, S[q])
                /\ \A r \in Q \ {q} : T[r] = S[r]
                /\ Range(T[q]) = Range(S[q]) \cup {n}
<1> DEFINE T == [S EXCEPT ![q] = InFront(n, S[q])]
<1>1. ASSUME NEW r \in Q, NEW i \in 1..Len(S[r]) PROVE S[r][i] # n
      <2>1. S[r][i] \in Range(S[r])
            BY OrderedNodes
      <2> QED BY <2>1
<1>2. InOrder(PushFront(L, q, n), Q, N, T)
      BY <1>1, PushFrontInOrder
<1>3. T[q] = InFront(n, S[q]) /\ \A r \in Q \ {q} : T[r] = S[r]
      BY DEF InOrder
<1>4. Range(T[q]) = Range(S[q]) \cup {n}
      <2>1. S[q] \in Seq(N)
            BY DEF InOrder
      <2> QED BY <1>3, <2>1, RangeInFront
<1> HIDE DEF T
<1> QED BY <1>2, <1>3, <1>4

(* Moving a node to the front leaves every node on its list. *)
LEMMA MoveToFrontKeepsOrder ==
  ASSUME NEW Q, NEW N, NEW L, NEW S, InOrder(L, Q, N, S),
         NEW q \in Q, NEW n \in Range(S[q])
  PROVE  \E T : /\ InOrder(MoveToFront(L, q, n), Q, N, T)
                /\ \A r \in Q : Range(T[r]) = Range(S[r])
<1>1. CASE L.head[q] = n
      BY <1>1 DEF MoveToFront
<1>2. CASE L.head[q] # n
      <2>1. PICK T : /\ InOrder(Unlink(L, q, n), Q, N, T)
                     /\ \A r \in Q : Range(T[r]) = Range(S[r]) \ {n}
            BY UnlinkKeepsOrder
      <2>2. n \in N /\ \A r \in Q : n \notin Range(T[r])
            <3>1. Range(S[q]) \subseteq N
                  BY OrderedNodes
            <3> QED BY <2>1, <3>1
      <2> DEFINE M == Unlink(L, q, n)
      <2>2a. InOrder(M, Q, N, T)
            BY <2>1
      <2> HIDE DEF M
      <2>3. PICK U : /\ InOrder(PushFront(M, q, n), Q, N, U)
                     /\ U[q] = InFront(n, T[q])
                     /\ \A r \in Q \ {q} : U[r] = T[r]
                     /\ Range(U[q]) = Range(T[q]) \cup {n}
            BY <2>2a, <2>2, PushFrontKeepsOrder
      <2>4. ASSUME NEW r \in Q PROVE Range(U[r]) = Range(S[r])
            <3>1. CASE r = q
                  BY <2>1, <2>3, <3>1
            <3>2. CASE r # q
                  <4>1. n \notin Range(S[r])
                        BY <3>2, OrderedApart
                  <4> QED BY <2>1, <2>3, <3>2, <4>1
            <3> QED BY <3>1, <3>2
      <2>5. MoveToFront(L, q, n) = PushFront(Unlink(L, q, n), q, n)
            BY <1>2 DEF MoveToFront
      <2> QED BY <2>3, <2>4, <2>5 DEF M
<1> QED BY <1>1, <1>2

(* Clearing the links of a node that is in no list changes no list. *)
LEMMA ForgetLinksKeepsOrder ==
  ASSUME NEW Q, NEW N, NEW L, NEW S, InOrder(L, Q, N, S),
         NEW n \in N, \A r \in Q : n \notin Range(S[r])
  PROVE  InOrder(ForgetLinks(L, n), Q, N, S)
<1> DEFINE M == ForgetLinks(L, n)
<1>1. M \in ListFamily(Q, N)
      BY DEF ForgetLinks, InOrder, ListFamily
<1>2. /\ M.head = L.head /\ M.tail = L.tail
      /\ \A k \in N \ {n} : M.prev[k] = L.prev[k] /\ M.next[k] = L.next[k]
      BY DEF ForgetLinks, InOrder, ListFamily
<1> HIDE DEF M
<1>3. ASSUME NEW q \in Q PROVE IsList(M, q, S[q])
      <2>1. ASSUME NEW i \in 1..Len(S[q]) PROVE S[q][i] \in N \ {n}
            <3>1. S[q][i] \in Range(S[q]) /\ Range(S[q]) \subseteq N
                  BY OrderedNodes
            <3> QED BY <3>1
      <2>2. IsList(L, q, S[q])
            BY DEF InOrder
      <2> QED BY <1>2, <2>1, <2>2 DEF IsList
<1> QED BY <1>1, <1>3 DEF InOrder, M

(* Empty lists are lists, of no node. *)
LEMMA EmptyListsInOrder ==
  ASSUME NEW Q, NEW N, Nil \notin N
  PROVE  \E S : InOrder(EmptyLists(Q, N), Q, N, S) /\ \A q \in Q : Range(S[q]) = {}
<1> DEFINE S == [q \in Q |-> <<>>]
<1>1. EmptyLists(Q, N) \in ListFamily(Q, N) /\ S \in [Q -> Seq(N)]
      BY EmptySeq DEF EmptyLists, ListFamily
<1>2. \A q \in Q : S[q] = <<>> /\ Len(S[q]) = 0 /\ 1..Len(S[q]) = {} /\ DOMAIN S[q] = {}
      BY EmptySeq
<1>3. \A q \in Q : IsList(EmptyLists(Q, N), q, S[q])
      BY <1>2 DEF IsList, EmptyLists
<1>4. Apart(Q, S) /\ \A q \in Q : Range(S[q]) = {}
      BY <1>2 DEF Apart, Range
<1> HIDE DEF S
<1> QED BY <1>1, <1>3, <1>4 DEF InOrder

(* A walk along a list meets its nodes one after the other. *)
LEMMA WalkInOrder ==
  ASSUME NEW Q, NEW N, NEW L, NEW S, InOrder(L, Q, N, S),
         NEW q \in Q, NEW k \in Nat
  PROVE  \A i \in 0..k : Walk(L, q, k)[i] = IF i < Len(S[q]) THEN S[q][i + 1] ELSE Nil
<1> DEFINE w == Walk(L, q, k)
           s == S[q]
           m == Len(s)
           P(i) == i \in 0..k => w[i] = IF i < m THEN s[i + 1] ELSE Nil
           A == {i \in Nat : P(i)}
<1>1. /\ s \in Seq(N) /\ m \in Nat /\ IsList(L, q, s)
      /\ \A i \in 1..m : s[i] \in N /\ s[i] # Nil
      BY DEF InOrder
<1>2. \A i \in 0..k : w[i] = IF i = 0 THEN L.head[q]
                             ELSE IF w[i - 1] = Nil THEN Nil ELSE L.next[w[i - 1]]
      BY WalkUnfolds DEF IsWalk
<1>3. s = <<>> <=> m = 0
      BY <1>1, EmptySeq
<1> HIDE DEF w, s, m
<1>4. 0 \in A
      <2>1. w[0] = IF s = <<>> THEN Nil ELSE s[1]
            BY <1>1, <1>2 DEF IsList
      <2> QED BY <1>1, <1>3, <2>1
<1>5. ASSUME NEW i \in Nat, i \in A PROVE i + 1 \in A
      <2> SUFFICES ASSUME i + 1 \in 0..k PROVE w[i + 1] = IF i + 1 < m THEN s[i + 2] ELSE Nil
          OBVIOUS
      <2>1. w[i] = IF i < m THEN s[i + 1] ELSE Nil
            BY <1>5
      <2>2. w[i + 1] = IF w[i] = Nil THEN Nil ELSE L.next[w[i]]
            BY <1>2
      <2>3. CASE i < m
            <3>1. i + 1 \in 1..m /\ s[i + 1] # Nil
                  BY <1>1, <2>3
            <3>2. L.next[s[i + 1]] = IF i + 1 = m THEN Nil ELSE s[i + 2]
                  BY <1>1, <3>1 DEF IsList, m
            <3> QED BY <1>1, <2>1, <2>2, <2>3, <3>1, <3>2
      <2>4. CASE ~(i < m)
            BY <1>1, <2>1, <2>2, <2>4
      <2> QED BY <2>3, <2>4
<1> HIDE DEF A
<1>6. Nat \subseteq A
      BY <1>4, <1>5, Induction
<1> QED BY <1>6 DEF A, w, s, m

(* So a list in order is proper, and the nodes met are its nodes, as long  *)
(* as the walk is long enough.                                             *)
LEMMA ListInOrder ==
  ASSUME NEW Q, NEW N, NEW L, NEW S, InOrder(L, Q, N, S),
         NEW q \in Q, NEW k \in Nat, Len(S[q]) <= k
  PROVE  Members(L, q, k) = Range(S[q]) /\ ProperList(L, q, k)
<1> DEFINE w == Walk(L, q, k)
           s == S[q]
           m == Len(s)
<1>1. /\ s \in Seq(N) /\ m \in Nat /\ m <= k
      /\ \A i \in 1..m : s[i] \in N /\ s[i] # Nil
      BY DEF InOrder
<1>2. \A i \in 0..k : w[i] = IF i < m THEN s[i + 1] ELSE Nil
      BY WalkInOrder
<1>3. /\ \A i \in 1..m : s[i] \in Range(s)
      /\ \A n \in Range(s) : \E i \in 1..m : n = s[i]
      BY OrderedNodes, SMTT(30)
<1>4. IsList(L, q, s) /\ (s = <<>> <=> m = 0)
      BY <1>1, EmptySeq DEF InOrder
<1> HIDE DEF w, s, m
<1>5. Members(L, q, k) = {w[i] : i \in 0..k} \ {Nil}
      BY DEF Members, w
<1>6. ASSUME NEW i \in 0..k, w[i] # Nil PROVE w[i] \in Range(s)
      <2>1. i < m /\ w[i] = s[i + 1] /\ i + 1 \in 1..m
            BY <1>1, <1>2, <1>6
      <2> QED BY <1>3, <2>1
<1>7. ASSUME NEW i \in 1..m PROVE s[i] \in {w[j] : j \in 0..k} \ {Nil}
      <2>1. i - 1 \in 0..k /\ i - 1 < m /\ (i - 1) + 1 = i
            BY <1>1
      <2>2. w[i - 1] = s[i]
            BY <1>2, <2>1
      <2> QED BY <1>1, <2>1, <2>2
<1>8. Members(L, q, k) = Range(s)
      BY <1>3, <1>5, <1>6, <1>7
<1>9. ProperList(L, q, k)
      <2>1. w[k] = Nil
            BY <1>1, <1>2
      <2>2. L.head[q] = Nil <=> L.tail[q] = Nil
            BY OrderedEnds
      <2>3. ASSUME L.head[q] # Nil PROVE L.prev[L.head[q]] = Nil
            <3>1. 1 \in 1..m /\ L.head[q] = s[1]
                  BY <1>1, <1>4, <2>3 DEF IsList
            <3> QED BY <1>4, <3>1 DEF IsList, m
      <2>4. ASSUME L.tail[q] # Nil PROVE L.next[L.tail[q]] = Nil /\ L.tail[q] \in Range(s)
            <3>1. m \in 1..m /\ L.tail[q] = s[m]
                  BY <1>1, <1>4, <2>4 DEF IsList, m
            <3> QED BY <1>3, <1>4, <3>1 DEF IsList, m
      <2>5. ASSUME NEW n \in Range(s), L.next[n] # Nil PROVE L.prev[L.next[n]] = n
            <3>1. PICK i \in 1..m : n = s[i]
                  BY <1>3
            <3>2. i # m /\ L.next[n] = s[i + 1]
                  BY <1>4, <2>5, <3>1 DEF IsList, m
            <3>3. i + 1 \in 1..m /\ i + 1 # 1 /\ (i + 1) - 1 = i
                  BY <1>1, <3>2
            <3>4. L.prev[s[i + 1]] = s[(i + 1) - 1]
                  BY <1>4, <3>3 DEF IsList, m
            <3> QED BY <3>1, <3>2, <3>3, <3>4
      <2> QED BY <1>8, <2>1, <2>2, <2>3, <2>4, <2>5 DEF ProperList, w
<1> QED BY <1>8, <1>9 DEF s

(* The lists determine their sequences. *)
LEMMA OrderIsUnique ==
  ASSUME NEW Q, NEW N, NEW L, NEW S, NEW T, InOrder(L, Q, N, S), InOrder(L, Q, N, T)
  PROVE  S = T
<1>1. ASSUME NEW q \in Q PROVE S[q] = T[q]
      <2> DEFINE s == S[q]
                 t == T[q]
                 k == Len(s) + Len(t)
                 w == Walk(L, q, k)
      <2>1. /\ s \in Seq(N) /\ t \in Seq(N) /\ Len(s) \in Nat /\ Len(t) \in Nat /\ k \in Nat
            /\ \A i \in 1..Len(s) : s[i] \in N /\ s[i] # Nil
            /\ \A i \in 1..Len(t) : t[i] \in N /\ t[i] # Nil
            BY DEF InOrder
      <2>2. /\ \A i \in 0..k : w[i] = IF i < Len(s) THEN s[i + 1] ELSE Nil
            /\ \A i \in 0..k : w[i] = IF i < Len(t) THEN t[i + 1] ELSE Nil
            <3>1. k \in Nat
                  BY <2>1
            <3> HIDE DEF k
            <3>2. \A i \in 0..k : w[i] = IF i < Len(s) THEN s[i + 1] ELSE Nil
                  BY <3>1, WalkInOrder
            <3>3. \A i \in 0..k : w[i] = IF i < Len(t) THEN t[i + 1] ELSE Nil
                  BY <3>1, WalkInOrder
            <3> QED BY <3>2, <3>3
      <2>k. k = Len(s) + Len(t)
            OBVIOUS
      <2> HIDE DEF s, t, k, w
      <2>3. ASSUME NEW i \in 0..k PROVE i < Len(s) <=> i < Len(t)
            <3>1. i < Len(s) => i + 1 \in 1..Len(s)
                  BY <2>1
            <3>2. i < Len(t) => i + 1 \in 1..Len(t)
                  BY <2>1
            <3> QED BY <2>1, <2>2, <3>1, <3>2
      <2>4. Len(s) = Len(t)
            <3>1. Len(s) \in 0..k /\ Len(t) \in 0..k
                  BY <2>1, <2>k
            <3>2. ~(Len(s) < Len(t)) /\ ~(Len(t) < Len(s))
                  BY <2>1, <2>3, <3>1
            <3> QED BY <2>1, <3>2
      <2>5. ASSUME NEW i \in 1..Len(s) PROVE s[i] = t[i]
            <3>1. i - 1 \in 0..k /\ i - 1 < Len(s) /\ i - 1 < Len(t) /\ (i - 1) + 1 = i
                  BY <2>1, <2>k, <2>4
            <3> QED BY <2>2, <3>1
      <2> QED BY <2>1, <2>4, <2>5, SeqEqual DEF s, t
<1>2. S \in [Q -> Seq(N)] /\ T \in [Q -> Seq(N)]
      BY DEF InOrder
<1> QED BY <1>1, <1>2

(* In T the nodes are in the order they have in S, except that n, if it is *)
(* there, comes first in its list.                                         *)
Reordered(Q, S, T, n) ==
  \A q \in Q : \A i, j \in 1..Len(T[q]) :
     i < j => /\ T[q][j] # n
              /\ \/ T[q][i] = n
                 \/ \E a, b \in 1..Len(S[q]) : a < b /\ S[q][a] = T[q][i] /\ S[q][b] = T[q][j]

(* Which nodes are left when one is taken out, put in, moved. *)
LEMMA UnlinkNodes ==
  ASSUME NEW Q, NEW N, NEW L, NEW S, InOrder(L, Q, N, S), NEW q \in Q, NEW n \in Range(S[q])
  PROVE  \A T : InOrder(Unlink(L, q, n), Q, N, T)
                  => \A r \in Q : Range(T[r]) \subseteq Range(S[r]) /\ n \notin Range(T[r])
<1>1. PICK V : /\ InOrder(Unlink(L, q, n), Q, N, V)
               /\ \A r \in Q : Range(V[r]) = Range(S[r]) \ {n}
      BY UnlinkKeepsOrder
<1>2. ASSUME NEW T, InOrder(Unlink(L, q, n), Q, N, T) PROVE T = V
      BY <1>1, <1>2, OrderIsUnique
<1> QED BY <1>1, <1>2

LEMMA PushFrontNodes ==
  ASSUME NEW Q, NEW N, NEW L, NEW S, InOrder(L, Q, N, S),
         NEW q \in Q, NEW n \in N, \A r \in Q : n \notin Range(S[r])
  PROVE  \A T : InOrder(PushFront(L, q, n), Q, N, T) =>
            /\ T[q] = InFront(n, S[q]) /\ \A r \in Q \ {q} : T[r] = S[r]
            /\ \A r \in Q : Range(T[r]) \subseteq Range(S[r]) \cup {n}
<1>1. PICK V : /\ InOrder(PushFront(L, q, n), Q, N, V)
               /\ V[q] = InFront(n, S[q]) /\ \A r \in Q \ {q} : V[r] = S[r]
               /\ Range(V[q]) = Range(S[q]) \cup {n}
      BY PushFrontKeepsOrder
<1>2. ASSUME NEW T, InOrder(PushFront(L, q, n), Q, N, T) PROVE T = V
      BY <1>1, <1>2, OrderIsUnique
<1>3. \A r \in Q : Range(V[r]) \subseteq Range(S[r]) \cup {n}
      BY <1>1
<1> QED BY <1>1, <1>2, <1>3

LEMMA MoveToFrontNodes ==
  ASSUME NEW Q, NEW N, NEW L, NEW S, InOrder(L, Q, N, S), NEW q \in Q, NEW n \in Range(S[q])
  PROVE  \A T : InOrder(MoveToFront(L, q, n), Q, N, T) => \A r \in Q : Range(T[r]) = Range(S[r])
<1>1. PICK V : /\ InOrder(MoveToFront(L, q, n), Q, N, V)
               /\ \A r \in Q : Range(V[r]) = Range(S[r])
      BY MoveToFrontKeepsOrder
<1>2. ASSUME NEW T, InOrder(MoveToFront(L, q, n), Q, N, T) PROVE T = V
      BY <1>1, <1>2, OrderIsUnique
<1> QED BY <1>1, <1>2

(* Taking a node out leaves the others in their order. *)
LEMMA UnlinkReorders ==
  ASSUME NEW Q, NEW N, NEW L, NEW S, InOrder(L, Q, N, S), NEW q \in Q, NEW n \in Range(S[q]),
         NEW T, InOrder(Unlink(L, q, n), Q, N, T)
  PROVE  Reordered(Q, S, T, n)
<1>1. PICK j \in 1..Len(S[q]) : n = S[q][j]
      BY OrderedNodes
<1>2. T = [S EXCEPT ![q] = Without(S[q], j)]
      BY <1>1, UnlinkInOrder, OrderIsUnique
<1>3. \A r \in Q : \A k \in 1..Len(T[r]) : T[r][k] # n
      <2>1. \A r \in Q : n \notin Range(T[r])
            BY UnlinkNodes
      <2>2. \A r \in Q : \A k \in 1..Len(T[r]) : T[r][k] \in Range(T[r])
            BY OrderedNodes
      <2> QED BY <2>1, <2>2
<1>4. ASSUME NEW r \in Q, NEW i \in 1..Len(T[r]), NEW k \in 1..Len(T[r]), i < k
      PROVE  \E a, b \in 1..Len(S[r]) : a < b /\ S[r][a] = T[r][i] /\ S[r][b] = T[r][k]
      <2>2. CASE r # q
            <3>1. T[r] = S[r]
                  BY <1>2, <2>2 DEF InOrder
            <3> QED BY <1>4, <3>1
      <2>3. CASE r = q
            <3> DEFINE s == S[q]
                       m == Len(s)
            <3>1. s \in Seq(N) /\ m \in Nat /\ T[r] = Without(s, j) /\ j \in 1..m
                  BY <1>1, <1>2, <2>3 DEF InOrder
            <3>2. /\ Len(T[r]) = m - 1
                  /\ \A x \in 1..(m - 1) : T[r][x] = IF x < j THEN s[x] ELSE s[x + 1]
                  BY <3>1, WithoutFacts
            <3> HIDE DEF s, m
            <3> DEFINE a == IF i < j THEN i ELSE i + 1
                       b == IF k < j THEN k ELSE k + 1
            <3>3. /\ a \in 1..m /\ b \in 1..m /\ a < b
                  /\ T[r][i] = s[a] /\ T[r][k] = s[b]
                  BY <1>4, <3>1, <3>2
            <3> HIDE DEF a, b
            <3> QED BY <2>3, <3>3 DEF s, m
      <2> QED BY <2>2, <2>3
<1> QED BY <1>3, <1>4 DEF Reordered

(* Putting a node in front leaves the others in their order. *)
LEMMA PushFrontReorders ==
  ASSUME NEW Q, NEW N, NEW L, NEW S, InOrder(L, Q, N, S),
         NEW q \in Q, NEW n \in N, \A r \in Q : n \notin Range(S[r]),
         NEW T, InOrder(PushFront(L, q, n), Q, N, T)
  PROVE  Reordered(Q, S, T, n)
<1>1. T[q] = InFront(n, S[q]) /\ \A r \in Q \ {q} : T[r] = S[r]
      BY PushFrontNodes
<1>2. \A r \in Q : \A k \in 1..Len(S[r]) : S[r][k] # n
      <2>1. \A r \in Q : \A k \in 1..Len(S[r]) : S[r][k] \in Range(S[r])
            BY OrderedNodes
      <2> QED BY <2>1
<1>3. ASSUME NEW r \in Q, NEW i \in 1..Len(T[r]), NEW k \in 1..Len(T[r]), i < k
      PROVE  /\ T[r][k] # n
             /\ \/ T[r][i] = n
                \/ \E a, b \in 1..Len(S[r]) : a < b /\ S[r][a] = T[r][i] /\ S[r][b] = T[r][k]
      <2>1. CASE r # q
            <3>1. T[r] = S[r]
                  BY <1>1, <2>1
            <3> QED BY <1>2, <1>3, <3>1
      <2>2. CASE r = q
            <3> DEFINE s == S[q]
                       m == Len(s)
                       t == T[r]
            <3>1. s \in Seq(N) /\ m \in Nat /\ t = InFront(n, s)
                  BY <1>1, <2>2 DEF InOrder
            <3>2. /\ Len(t) = m + 1 /\ t[1] = n
                  /\ \A x \in 1..m : t[x + 1] = s[x]
                  <4> HIDE DEF s, m, t
                  <4>1. s \in Seq(N) /\ n \in N
                        BY <3>1
                  <4>2. /\ Len(InFront(n, s)) = Len(s) + 1 /\ InFront(n, s)[1] = n
                        /\ \A x \in 1..Len(s) : InFront(n, s)[x + 1] = s[x]
                        BY <4>1, InFrontFacts
                  <4>3. m = Len(s)
                        BY DEF m
                  <4> QED BY <3>1, <4>2, <4>3
            <3>3. i \in 1..Len(t) /\ k \in 1..Len(t) /\ i < k
                  BY <1>3
            <3>4. \A x \in 1..m : s[x] # n
                  BY <1>2
            <3> HIDE DEF s, m, t
            <3>5. k - 1 \in 1..m /\ t[k] = s[k - 1]
                  <4>1. k - 1 \in 1..m /\ (k - 1) + 1 = k
                        BY <3>1, <3>2, <3>3
                  <4> QED BY <3>2, <4>1
            <3>6. CASE i = 1
                  BY <3>2, <3>4, <3>5, <3>6 DEF t
            <3>7. CASE i # 1
                  <4>1. i - 1 \in 1..m /\ (i - 1) + 1 = i /\ i - 1 < k - 1
                        BY <3>1, <3>2, <3>3, <3>7
                  <4>2. t[i] = s[i - 1]
                        BY <3>2, <4>1
                  <4> QED BY <2>2, <3>4, <3>5, <4>1, <4>2 DEF t, s, m
            <3> QED BY <3>6, <3>7
      <2> QED BY <2>1, <2>2
<1> QED BY <1>3 DEF Reordered

(* So does moving it to the front. *)
LEMMA MoveToFrontReorders ==
  ASSUME NEW Q, NEW N, NEW L, NEW S, InOrder(L, Q, N, S), NEW q \in Q, NEW n \in Range(S[q]),
         NEW T, InOrder(MoveToFront(L, q, n), Q, N, T)
  PROVE  Reordered(Q, S, T, n)
<1>1. ASSUME L.head[q] = n PROVE Reordered(Q, S, T, n)
      <2>1. T = S
            BY <1>1, OrderIsUnique DEF MoveToFront
      <2>2. 1 \in 1..Len(S[q]) /\ S[q][1] = n
            <3>1. S[q] \in Seq(N) /\ IsList(L, q, S[q]) /\ n # Nil
                  <4>1. Range(S[q]) \subseteq N
                        BY OrderedNodes
                  <4> QED BY <4>1 DEF InOrder
            <3>2. S[q] # <<>>
                  BY <1>1, <3>1 DEF IsList
            <3> QED BY <1>1, <3>1, <3>2, EmptySeq DEF IsList
      <2>3. ASSUME NEW r \in Q, NEW i \in 1..Len(S[r]), NEW k \in 1..Len(S[r]), i < k
            PROVE  S[r][k] # n
            <3>1. S[r][k] = S[q][1] => k = 1
                  BY <2>2 DEF InOrder, Apart
            <3> QED BY <2>2, <2>3, <3>1
      <2> QED BY <2>1, <2>3 DEF Reordered
<1>2. ASSUME L.head[q] # n PROVE Reordered(Q, S, T, n)
      <2> DEFINE M == Unlink(L, q, n)
      <2>1. PICK U : InOrder(M, Q, N, U)
            BY UnlinkKeepsOrder
      <2>2. Reordered(Q, S, U, n) /\ \A r \in Q : n \notin Range(U[r])
            <3>1. \A r \in Q : n \notin Range(U[r])
                  BY <2>1, UnlinkNodes
            <3> QED BY <2>1, <3>1, UnlinkReorders
      <2>3. n \in N
            BY OrderedNodes
      <2>4. InOrder(PushFront(M, q, n), Q, N, T)
            BY <1>2 DEF MoveToFront
      <2> HIDE DEF M
      <2>5. Reordered(Q, U, T, n)
            BY <2>1, <2>2, <2>3, <2>4, PushFrontReorders
      <2>6. \A r \in Q : \A k \in 1..Len(U[r]) : U[r][k] # n
            <3>1. \A r \in Q : \A k \in 1..Len(U[r]) : U[r][k] \in Range(U[r])
                  BY <2>1, OrderedNodes
            <3> QED BY <2>2, <3>1
      <2>7. ASSUME NEW r \in Q, NEW i \in 1..Len(T[r]), NEW k \in 1..Len(T[r]), i < k
            PROVE  /\ T[r][k] # n
                   /\ \/ T[r][i] = n
                      \/ \E a, b \in 1..Len(S[r]) : a < b /\ S[r][a] = T[r][i] /\ S[r][b] = T[r][k]
            <3>1. /\ T[r][k] # n
                  /\ \/ T[r][i] = n
                     \/ \E a, b \in 1..Len(U[r]) : a < b /\ U[r][a] = T[r][i] /\ U[r][b] = T[r][k]
                  BY <2>5, <2>7 DEF Reordered
            <3>2. CASE T[r][i] = n
                  BY <3>1, <3>2
            <3>3. CASE T[r][i] # n
                  <4>1. PICK a, b \in 1..Len(U[r]) : a < b /\ U[r][a] = T[r][i] /\ U[r][b] = T[r][k]
                        BY <3>1, <3>3
                  <4>2. \E c, d \in 1..Len(S[r]) : c < d /\ S[r][c] = U[r][a] /\ S[r][d] = U[r][b]
                        BY <2>2, <2>6, <4>1 DEF Reordered
                  <4> QED BY <3>1, <4>1, <4>2
            <3> QED BY <3>2, <3>3
      <2> QED BY <2>7 DEF Reordered
<1> QED BY <1>1, <1>2

=============================================================================

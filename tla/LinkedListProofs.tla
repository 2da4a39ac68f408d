-------------------------- MODULE LinkedListProofs --------------------------
(***************************************************************************)
(* LinkedList, for any number of nodes, sockets and names: the pointers    *)
(* always form one list that reads the same in both directions, and it is  *)
(* the sequence that the server works with.                                *)
(***************************************************************************)
EXTENDS LinkedList, NumberLemmas, SequenceTheorems

(* The i-th address, NULL before the first and behind the last.            *)
At(s, i) == IF i \in 1 .. Len(s) THEN s[i] ELSE NULL

Pointer == Addr \cup {NULL}

Client == [data : Data, handle : Handle, prev : Pointer, next : Pointer]

(* s lists the nodes of a heap, each once; first and last are its ends; a   *)
(* node points to those beside it; and no two are of one socket.           *)
Lists(s, heap, start, end) ==
    /\ s \in Seq(Addr)
    /\ \A i, j \in 1 .. Len(s) : s[i] = s[j] => i = j
    /\ DOMAIN heap = {s[i] : i \in 1 .. Len(s)}
    /\ start = At(s, 1)
    /\ end = At(s, Len(s))
    /\ \A i \in 1 .. Len(s) :
          /\ heap[s[i]] \in Client
          /\ heap[s[i]].next = At(s, i + 1)
          /\ heap[s[i]].prev = At(s, i - 1)
    /\ \A i, j \in 1 .. Len(s) : heap[s[i]].data = heap[s[j]].data => i = j

(* The inductive invariant: the addresses met from first on list the nodes. *)
IInv ==
    /\ node = [a \in DOMAIN node |-> node[a]]
    /\ Lists(Forward, node, first, last)
    /\ NumClient = Len(Forward)

-----------------------------------------------------------------------------
(* The helpers that recurse along a link meet what the list has.           *)

(* What one of them has met.                                               *)
Steps(met, start, link) ==
    met = [k \in 1 .. MaxNode + 1 |->
             IF k = 1 THEN start
             ELSE LET a == met[k - 1]
                  IN  IF a \in DOMAIN link THEN link[a] ELSE NULL]

LEMMA StepsOnce ==
    ASSUME NEW g, NEW start, NEW link, Steps(g, start, link),
           NEW f, Steps(f, start, link)
    PROVE  f = g
<1> DEFINE S == {k \in 0 .. MaxNode : f[k + 1] = g[k + 1]}
<1>1. MaxNode \in Nat
  BY MaxNodeAssumption
<1>2. 0 \in S
  <2>1. 0 \in 0 .. MaxNode /\ 0 + 1 = 1 /\ 1 \in 1 .. MaxNode + 1
    BY SMT, <1>1
  <2>2. f[1] = start /\ g[1] = start
    BY <2>1 DEF Steps
  <2> QED BY <2>1, <2>2
<1>3. ASSUME NEW k \in 0 .. MaxNode - 1, k \in S PROVE k + 1 \in S
  <2>1. /\ k + 1 \in 0 .. MaxNode /\ (k + 1) + 1 \in 1 .. MaxNode + 1
        /\ (k + 1) + 1 # 1 /\ ((k + 1) + 1) - 1 = k + 1
    BY SMT, <1>1
  <2>2. f[k + 1] = g[k + 1]
    BY <1>3
  <2>3. PICK m : m = (k + 1) + 1
    OBVIOUS
  <2>4. m \in 1 .. MaxNode + 1 /\ m # 1 /\ m - 1 = k + 1
    BY <2>1, <2>3
  <2>5. f[m] = IF f[m - 1] \in DOMAIN link THEN link[f[m - 1]] ELSE NULL
    BY <2>4 DEF Steps
  <2>6. g[m] = IF g[m - 1] \in DOMAIN link THEN link[g[m - 1]] ELSE NULL
    BY <2>4 DEF Steps
  <2>7. f[m] = g[m]
    BY <2>2, <2>4, <2>5, <2>6
  <2> QED BY <2>1, <2>3, <2>7
<1>4. S = 0 .. MaxNode
  <2>1. S \in SUBSET (0 .. MaxNode)
    OBVIOUS
  <2> HIDE DEF S
  <2> QED BY <1>1, <1>2, <1>3, <2>1, UpTo
<1>5. ASSUME NEW k \in 1 .. MaxNode + 1 PROVE f[k] = g[k]
  <2>1. k - 1 \in 0 .. MaxNode /\ (k - 1) + 1 = k
    BY SMT, <1>1
  <2>2. k - 1 \in S
    BY <1>4, <2>1
  <2> QED BY <2>1, <2>2
<1>6. f = [k \in 1 .. MaxNode + 1 |-> f[k]] /\ g = [k \in 1 .. MaxNode + 1 |-> g[k]]
  BY DEF Steps
<1> QED BY <1>5, <1>6

LEMMA WalkIs ==
    ASSUME NEW s \in Seq(Addr), NEW link, Len(s) <= MaxNode,
           DOMAIN link = {s[i] : i \in 1 .. Len(s)},
           \A i \in 1 .. Len(s) : link[s[i]] = At(s, i + 1)
    PROVE  Walk(At(s, 1), link) = s
<1> DEFINE g == [k \in 1 .. MaxNode + 1 |-> At(s, k)]
<1>1. MaxNode \in Nat /\ Len(s) \in Nat
  BY MaxNodeAssumption, LenProperties
<1>2. \A i \in 1 .. Len(s) : s[i] \in Addr
  BY ElementOfSeq
<1>3. NULL \notin Addr
  BY SMT, <1>1 DEF Addr, NULL
<1>4. NULL \notin DOMAIN link
  BY <1>2, <1>3
<1>5. Steps(g, At(s, 1), link)
  <2>1. ASSUME NEW k \in 1 .. MaxNode + 1, k # 1
        PROVE  At(s, k) = IF At(s, k - 1) \in DOMAIN link THEN link[At(s, k - 1)] ELSE NULL
    <3>1. CASE k - 1 \in 1 .. Len(s)
      <4>1. At(s, k - 1) = s[k - 1] /\ s[k - 1] \in DOMAIN link
        BY <3>1 DEF At
      <4>2. (k - 1) + 1 = k
        BY SMT
      <4> QED BY <3>1, <4>1, <4>2
    <3>2. CASE k - 1 \notin 1 .. Len(s)
      <4>1. k \notin 1 .. Len(s)
        BY SMT, <1>1, <2>1, <3>2
      <4> QED BY <1>4, <3>2, <4>1 DEF At
    <3> QED BY <3>1, <3>2
  <2>2. \A k \in 1 .. MaxNode + 1 : k # 1 => k - 1 \in 1 .. MaxNode + 1
    BY SMT, <1>1
  <2>3. ASSUME NEW k \in 1 .. MaxNode + 1
        PROVE  g[k] = IF k = 1 THEN At(s, 1)
                      ELSE LET a == g[k - 1]
                           IN  IF a \in DOMAIN link THEN link[a] ELSE NULL
    <3>1. CASE k = 1
      BY <3>1
    <3>2. CASE k # 1
      <4>1. g[k] = At(s, k) /\ g[k - 1] = At(s, k - 1)
        BY <2>2, <3>2
      <4> HIDE DEF g
      <4> QED BY <2>1, <3>2, <4>1
    <3> QED BY <3>1, <3>2
  <2>4. g = [k \in 1 .. MaxNode + 1 |-> g[k]]
    OBVIOUS
  <2> HIDE DEF g
  <2> QED BY <2>3, <2>4 DEF Steps
<1>6. (CHOOSE f : Steps(f, At(s, 1), link)) = g
  <2> HIDE DEF g
  <2>1. \A f : Steps(f, At(s, 1), link) => f = g
    BY <1>5, StepsOnce
  <2> QED BY <1>5, <2>1
<1>7. {k \in 1 .. MaxNode + 1 : g[k] # NULL} = 1 .. Len(s)
  <2>1. \A k \in 1 .. Len(s) : k \in 1 .. MaxNode + 1
    BY SMT, <1>1
  <2>2. \A k \in 1 .. MaxNode + 1 : g[k] # NULL <=> k \in 1 .. Len(s)
    BY <1>2, <1>3 DEF At
  <2> HIDE DEF g
  <2> QED BY <2>1, <2>2
<1>8. Cardinality(1 .. Len(s)) = Len(s)
  <2>1. Cardinality(1 .. Len(s)) = IF 1 > Len(s) THEN 0 ELSE Len(s) - 1 + 1
    <3>1. 1 \in Int /\ Len(s) \in Int
      BY SMT, <1>1
    <3> QED BY <3>1, FS_Interval
  <2> QED BY SMT, <1>1, <2>1
<1>9. Walk(At(s, 1), link) = [k \in 1 .. Len(s) |-> g[k]]
  <2>1. Walk(At(s, 1), link) =
           LET f == CHOOSE f : Steps(f, At(s, 1), link)
           IN  [k \in 1 .. Cardinality({k \in 1 .. MaxNode + 1 : f[k] # NULL}) |-> f[k]]
    BY DEF Walk, Steps
  <2> HIDE DEF g
  <2> QED BY <1>6, <1>7, <1>8, <2>1
<1>10. \A k \in 1 .. Len(s) : g[k] = s[k]
  <2>1. \A k \in 1 .. Len(s) : k \in 1 .. MaxNode + 1
    BY SMT, <1>1
  <2> QED BY <2>1 DEF At
<1>11. s = [k \in 1 .. Len(s) |-> s[k]]
  BY SMT
<1> HIDE DEF g
<1> QED BY <1>9, <1>10, <1>11

(* A list is no longer than the heap.                                      *)
LEMMA Fits ==
    ASSUME NEW s \in Seq(Addr), \A i, j \in 1 .. Len(s) : s[i] = s[j] => i = j
    PROVE  Len(s) <= MaxNode
<1>1. MaxNode \in Nat /\ Len(s) \in Nat /\ s \in [1 .. Len(s) -> Addr]
  BY MaxNodeAssumption, LenProperties
<1>2. s \in Injection(1 .. Len(s), Addr)
  BY <1>1 DEF Injection, IsInjective
<1>3. IsFiniteSet(1 .. Len(s)) /\ Cardinality(1 .. Len(s)) = Len(s)
  <2>1. /\ IsFiniteSet(1 .. Len(s))
        /\ Cardinality(1 .. Len(s)) = IF 1 > Len(s) THEN 0 ELSE Len(s) - 1 + 1
    <3>1. 1 \in Int /\ Len(s) \in Int
      BY SMT, <1>1
    <3> QED BY <3>1, FS_Interval
  <2>2. (IF 1 > Len(s) THEN 0 ELSE Len(s) - 1 + 1) = Len(s)
    BY SMT, <1>1
  <2> QED BY <2>1, <2>2
<1>4. IsFiniteSet(Addr) /\ Cardinality(Addr) = MaxNode
  <2>1. /\ IsFiniteSet(1 .. MaxNode)
        /\ Cardinality(1 .. MaxNode) = IF 1 > MaxNode THEN 0 ELSE MaxNode - 1 + 1
    <3>1. 1 \in Int /\ MaxNode \in Int
      BY SMT, <1>1
    <3> QED BY <3>1, FS_Interval
  <2>2. (IF 1 > MaxNode THEN 0 ELSE MaxNode - 1 + 1) = MaxNode
    BY SMT, <1>1
  <2> QED BY <2>1, <2>2 DEF Addr
<1>5. Cardinality(1 .. Len(s)) <= Cardinality(Addr)
  BY <1>2, <1>4, FS_Injection
<1> QED BY <1>3, <1>4, <1>5

(* Reversed, a list is one whose links are prev.                           *)
LEMMA Reversed ==
    ASSUME NEW s \in Seq(Addr)
    PROVE  /\ Reverse(s) \in Seq(Addr) /\ Len(Reverse(s)) = Len(s)
           /\ \A i \in 1 .. Len(s) : Len(s) - i + 1 \in 1 .. Len(s)
           /\ \A i \in 1 .. Len(s) : Reverse(s)[i] = s[Len(s) - i + 1]
           /\ \A i \in 1 .. Len(s) : At(Reverse(s), i + 1) = At(s, (Len(s) - i + 1) - 1)
           /\ At(Reverse(s), 1) = At(s, Len(s))
<1> DEFINE n == Len(s)
           r == Reverse(s)
<1>1. n \in Nat /\ s \in [1 .. n -> Addr]
  BY LenProperties
<1>2. \A i \in 1 .. n : n - i + 1 \in 1 .. n
  BY SMT, <1>1
<1>3. r = [i \in 1 .. n |-> s[(n - i) + 1]]
  BY DEF Reverse
<1>4. r \in [1 .. n -> Addr]
  BY <1>1, <1>2, <1>3
<1>5. r \in Seq(Addr) /\ Len(r) = n
  BY SMT, <1>1, <1>4
<1> HIDE DEF n, r
<1>6. \A i \in 1 .. n : r[i] = s[n - i + 1]
  BY <1>3
<1>7. ASSUME NEW i \in 0 .. n PROVE At(r, i + 1) = At(s, (n - i + 1) - 1)
  <2>1. CASE i = n
    <3>1. i + 1 \notin 1 .. n /\ (n - i + 1) - 1 \notin 1 .. n
      BY SMT, <1>1, <2>1
    <3> QED BY <1>5, <3>1 DEF At, n
  <2>2. CASE i # n
    <3>1. i + 1 \in 1 .. n /\ (n - i + 1) - 1 \in 1 .. n /\ n - (i + 1) + 1 = (n - i + 1) - 1
      BY SMT, <1>1, <2>2
    <3>2. r[i + 1] = s[(n - i + 1) - 1]
      BY <1>6, <3>1
    <3> QED BY <1>5, <3>1, <3>2 DEF At, n
  <2> QED BY <2>1, <2>2
<1>8. At(r, 1) = At(s, n)
  <2>1. 0 \in 0 .. n /\ 0 + 1 = 1 /\ (n - 0 + 1) - 1 = n
    BY SMT, <1>1
  <2>2. At(r, 0 + 1) = At(s, (n - 0 + 1) - 1)
    BY <1>7, <2>1
  <2> QED BY <2>1, <2>2
<1>9. \A i \in 1 .. n : i \in 0 .. n
  BY SMT, <1>1
<1> QED BY <1>2, <1>5, <1>6, <1>7, <1>8, <1>9 DEF n, r

(* Two sets with the same elements.                                        *)
LEMMA SameElements ==
    ASSUME NEW A, NEW B, \A x \in A : x \in B, \A x \in B : x \in A
    PROVE  A = B
  OBVIOUS

(* What lists the nodes is what is met from either end.                    *)
LEMMA ListIsWalked ==
    ASSUME NEW s, NEW heap, NEW start, NEW end, Lists(s, heap, start, end)
    PROVE  /\ Walk(start, [a \in DOMAIN heap |-> heap[a].next]) = s
           /\ Walk(end, [a \in DOMAIN heap |-> heap[a].prev]) = Reverse(s)
<1> DEFINE next == [a \in DOMAIN heap |-> heap[a].next]
           prev == [a \in DOMAIN heap |-> heap[a].prev]
           r == Reverse(s)
<1>0. Len(s) \in Nat
  <2>1. s \in Seq(Addr)
    BY DEF Lists
  <2>2. PICK n : n = Len(s)
    OBVIOUS
  <2>3. n \in Nat
    BY ONLY <2>1, <2>2, LenProperties
  <2> QED BY <2>2, <2>3
<1>1. s \in Seq(Addr) /\ Len(s) <= MaxNode
  BY Fits DEF Lists
<1>2. DOMAIN next = {s[i] : i \in 1 .. Len(s)} /\ start = At(s, 1) /\ end = At(s, Len(s))
  BY DEF Lists
<1>3. \A i \in 1 .. Len(s) : next[s[i]] = At(s, i + 1) /\ prev[s[i]] = At(s, i - 1)
  BY <1>2 DEF Lists
<1>4. Walk(start, next) = s
  <2> HIDE DEF next
  <2> QED BY <1>1, <1>2, <1>3, WalkIs
<1>5. /\ r \in Seq(Addr) /\ Len(r) = Len(s)
      /\ \A i \in 1 .. Len(s) : Len(s) - i + 1 \in 1 .. Len(s)
      /\ \A i \in 1 .. Len(s) : r[i] = s[Len(s) - i + 1]
      /\ \A i \in 1 .. Len(s) : At(r, i + 1) = At(s, (Len(s) - i + 1) - 1)
      /\ At(r, 1) = At(s, Len(s))
  BY <1>1, Reversed
<1>6. {r[i] : i \in 1 .. Len(r)} = {s[i] : i \in 1 .. Len(s)}
  <2>1. \A i \in 1 .. Len(s) : Len(s) - (Len(s) - i + 1) + 1 = i
    BY SMT, <1>0
  <2> HIDE DEF r
  <2>2. \A i \in 1 .. Len(s) : s[i] = r[Len(s) - i + 1]
    BY <1>5, <2>1
  <2>3. \A i \in 1 .. Len(s) : \E j \in 1 .. Len(r) : s[i] = r[j]
    BY <1>5, <2>2
  <2>4. \A j \in 1 .. Len(r) : \E i \in 1 .. Len(s) : s[i] = r[j]
    BY <1>5
  <2>5. \A x \in {r[i] : i \in 1 .. Len(r)} : x \in {s[i] : i \in 1 .. Len(s)}
    BY ONLY <2>4
  <2>6. \A x \in {s[i] : i \in 1 .. Len(s)} : x \in {r[i] : i \in 1 .. Len(r)}
    BY ONLY <2>3
  <2> QED BY ONLY <2>5, <2>6, SameElements
<1>7. \A i \in 1 .. Len(r) : prev[r[i]] = At(r, i + 1)
  <2> HIDE DEF r, prev
  <2> QED BY <1>3, <1>5
<1>8. DOMAIN prev = {r[i] : i \in 1 .. Len(r)}
  BY <1>2, <1>6
<1>9. Walk(end, prev) = r
  <2> HIDE DEF r, prev
  <2>1. end = At(r, 1) /\ Len(r) <= MaxNode
    BY <1>1, <1>2, <1>5
  <2> QED BY <1>5, <1>7, <1>8, <2>1, WalkIs
<1> QED BY <1>4, <1>9

-----------------------------------------------------------------------------
(* insertList.                                                             *)

Inserted(d, h) ==
    [data |-> d, handle |-> h, next |-> NULL,
     prev |-> IF first = NULL THEN NULL ELSE last]

(* What Append does.                                                       *)
LEMMA Appended ==
    ASSUME NEW S, NEW s \in Seq(S), NEW e \in S
    PROVE  /\ Append(s, e) \in Seq(S) /\ Len(Append(s, e)) = Len(s) + 1
           /\ \A i \in 1 .. Len(s) : Append(s, e)[i] = s[i]
           /\ Append(s, e)[Len(s) + 1] = e
  BY SMT

(* A node at an address that was free, for a socket that had none, is the   *)
(* new last node of the list.                                              *)
LEMMA InsertKeeps ==
    ASSUME NEW s, Lists(s, node, first, last),
           NEW a \in Addr, a \notin DOMAIN node, NEW d \in Data, NEW h \in Handle,
           \A i \in 1 .. Len(s) : node[s[i]].data # d
    PROVE  Lists(Append(s, a), Linked(a, Inserted(d, h)),
                 IF first = NULL THEN a ELSE first, a)
<1>1. s \in Seq(Addr)
  BY DEF Lists
<1>2. PICK n : n = Len(s)
  OBVIOUS
<1>3. n \in Nat
  BY ONLY <1>1, <1>2, LenProperties
<1>4. PICK t : t = Append(s, a)
  OBVIOUS
<1>5. /\ t \in Seq(Addr) /\ Len(t) = n + 1
      /\ \A i \in 1 .. n : t[i] = s[i]
      /\ t[n + 1] = a
  BY <1>1, <1>2, <1>4, Appended
<1>6. \A i \in 1 .. n : s[i] \in Addr
  BY <1>1, <1>2, ElementOfSeq
<1>7. NULL \notin Addr
  BY SMT DEF Addr, NULL
<1>8. /\ \A i, j \in 1 .. n : s[i] = s[j] => i = j
      /\ DOMAIN node = {s[i] : i \in 1 .. n}
      /\ first = At(s, 1) /\ last = At(s, n)
  BY <1>2 DEF Lists
<1>9. \A i \in 1 .. n : /\ node[s[i]] \in Client
                        /\ node[s[i]].next = At(s, i + 1)
                        /\ node[s[i]].prev = At(s, i - 1)
  BY <1>2 DEF Lists
<1>10. \A i, j \in 1 .. n : node[s[i]].data = node[s[j]].data => i = j
  BY <1>2 DEF Lists
<1>11. /\ \A i \in 1 .. n + 1 : i \in 1 .. n \/ i = n + 1
       /\ \A i \in 1 .. n : i \in 1 .. n + 1 /\ i # n + 1
       /\ n + 1 \in 1 .. n + 1 /\ n + 1 \notin 1 .. n /\ (n + 1) - 1 = n
  BY SMT, <1>3
<1>12. \A i \in 0 .. n : At(t, i) = At(s, i)
  <2>1. \A i \in 0 .. n : i \in 1 .. n + 1 <=> i \in 1 .. n
    BY SMT, <1>3
  <2> QED BY <1>2, <1>5, <2>1 DEF At
<1>13. At(t, n + 1) = a /\ At(t, (n + 1) + 1) = NULL
  <2>1. (n + 1) + 1 \notin 1 .. n + 1
    BY SMT, <1>3
  <2> QED BY <1>5, <1>11, <2>1 DEF At
<1>14. first = NULL <=> n = 0
  <2>1. 1 \in 1 .. n <=> n # 0
    BY SMT, <1>3
  <2> QED BY <1>2, <1>6, <1>7, <1>8, <2>1 DEF At
<1>15. PICK heap, client : heap = Linked(a, client) /\ client = Inserted(d, h)
  OBVIOUS
<1>16. DOMAIN heap = DOMAIN node \cup {a}
  BY <1>15 DEF Linked
<1>17. heap[a] = client
  BY <1>15 DEF Linked
<1>18. ASSUME NEW i \in 1 .. n
       PROVE  heap[s[i]] = IF i = n THEN [node[s[i]] EXCEPT !.next = a] ELSE node[s[i]]
  <2>1. s[i] \in DOMAIN node /\ s[i] # a
    BY <1>8
  <2>2. n \in 1 .. n /\ n # 0
    BY SMT, <1>3
  <2>3. first # NULL /\ last = s[n]
    BY <1>2, <1>8, <1>14, <2>2 DEF At
  <2>4. s[i] = last <=> i = n
    BY <1>8, <2>2, <2>3
  <2> QED BY <1>15, <2>1, <2>3, <2>4 DEF Linked
<1>19. /\ client.data = d /\ client.next = NULL /\ client.prev = At(s, n)
       /\ client \in Client
  <2>1. (IF first = NULL THEN NULL ELSE last) = At(s, n)
    <3>1. n = 0 => n \notin 1 .. n
      BY SMT, <1>3
    <3> QED BY <1>2, <1>8, <1>14, <3>1 DEF At
  <2>2. At(s, n) \in Pointer
    BY <1>2, <1>6 DEF At, Pointer
  <2> QED BY <1>15, <2>1, <2>2 DEF Inserted, Client, Pointer
<1>20. ASSUME NEW i \in 1 .. n
       PROVE  /\ heap[s[i]] \in Client /\ heap[s[i]].data = node[s[i]].data
              /\ heap[s[i]].next = At(t, i + 1)
              /\ heap[s[i]].prev = At(t, i - 1)
  <2>1. i - 1 \in 0 .. n
    BY SMT, <1>3
  <2>2. PICK m : m = node[s[i]]
    OBVIOUS
  <2>3. m \in Client /\ m.next = At(s, i + 1) /\ m.prev = At(t, i - 1)
    BY <1>9, <1>12, <2>1, <2>2
  <2>4. CASE i = n
    <3>1. heap[s[i]] = [m EXCEPT !.next = a]
      BY <1>18, <2>2, <2>4
    <3>2. /\ [m EXCEPT !.next = a] \in Client
          /\ [m EXCEPT !.next = a].data = m.data
          /\ [m EXCEPT !.next = a].prev = m.prev
          /\ [m EXCEPT !.next = a].next = a
      BY <2>3 DEF Client, Pointer
    <3> QED BY <1>13, <2>2, <2>3, <2>4, <3>1, <3>2
  <2>5. CASE i # n
    <3>1. i + 1 \in 0 .. n
      BY SMT, <1>3, <2>5
    <3> QED BY <1>12, <1>18, <2>2, <2>3, <2>5, <3>1
  <2> QED BY <2>4, <2>5
<1>21. \A i, j \in 1 .. n + 1 : t[i] = t[j] => i = j
  BY <1>5, <1>8, <1>11
<1>22. DOMAIN heap = {t[i] : i \in 1 .. n + 1}
  <2>1. \A i \in 1 .. n : \E j \in 1 .. n + 1 : s[i] = t[j]
    BY <1>5, <1>11
  <2>2. \A e \in {a} : \E j \in 1 .. n + 1 : e = t[j]
    BY <1>5, <1>11
  <2>3. \A j \in 1 .. n + 1 : t[j] \in {a} \/ \E i \in 1 .. n : s[i] = t[j]
    BY <1>5, <1>11
  <2>4. \A x \in {s[i] : i \in 1 .. n} \cup {a} : x \in {t[j] : j \in 1 .. n + 1}
    BY ONLY <2>1, <2>2
  <2>5. \A x \in {t[j] : j \in 1 .. n + 1} : x \in {s[i] : i \in 1 .. n} \cup {a}
    BY ONLY <2>3
  <2>6. {s[i] : i \in 1 .. n} \cup {a} = {t[j] : j \in 1 .. n + 1}
    BY ONLY <2>4, <2>5, SameElements
  <2> QED BY <1>8, <1>16, <2>6
<1>23. (IF first = NULL THEN a ELSE first) = At(t, 1)
  <2>1. CASE n = 0
    BY <1>13, <1>14, <2>1
  <2>2. CASE n # 0
    <3>1. 1 \in 0 .. n
      BY SMT, <1>3, <2>2
    <3> QED BY <1>8, <1>12, <1>14, <2>2, <3>1
  <2> QED BY <2>1, <2>2
<1>24. ASSUME NEW i \in 1 .. n + 1
       PROVE  /\ heap[t[i]] \in Client
              /\ heap[t[i]].next = At(t, i + 1)
              /\ heap[t[i]].prev = At(t, i - 1)
  <2>1. CASE i \in 1 .. n
    BY <1>5, <1>20, <2>1
  <2>2. CASE i = n + 1
    <3>1. n \in 0 .. n
      BY SMT, <1>3
    <3>2. heap[t[i]] = client /\ At(t, i - 1) = At(s, n) /\ At(t, i + 1) = NULL
      BY <1>5, <1>11, <1>12, <1>13, <1>17, <2>2, <3>1
    <3> QED BY <1>19, <3>2
  <2> QED BY <1>11, <2>1, <2>2
<1>25. \A i, j \in 1 .. n + 1 : heap[t[i]].data = heap[t[j]].data => i = j
  <2>1. \A i \in 1 .. n : heap[t[i]].data = node[s[i]].data /\ heap[t[i]].data # d
    BY <1>2, <1>5, <1>20
  <2>2. heap[t[n + 1]].data = d
    BY <1>5, <1>17, <1>19
  <2> QED BY <1>10, <1>11, <2>1, <2>2
<1>26. Lists(t, heap, IF first = NULL THEN a ELSE first, a)
  BY <1>5, <1>13, <1>21, <1>22, <1>23, <1>24, <1>25 DEF Lists
<1> QED BY <1>4, <1>15, <1>26

-----------------------------------------------------------------------------
(* removeList.                                                             *)

(* What RemoveAt does.                                                     *)
LEMMA RemovedAt ==
    ASSUME NEW S, NEW s \in Seq(S), NEW k \in 1 .. Len(s)
    PROVE  /\ RemoveAt(s, k) \in Seq(S) /\ Len(RemoveAt(s, k)) = Len(s) - 1
           /\ \A i \in 1 .. Len(s) - 1 :
                 RemoveAt(s, k)[i] = IF i < k THEN s[i] ELSE s[i + 1]
<1>1. PICK n, a, b : n = Len(s) /\ a = SubSeq(s, 1, k - 1) /\ b = SubSeq(s, k + 1, n)
  OBVIOUS
<1>2. n \in Nat /\ k \in 1 .. n /\ \A i \in 1 .. n : s[i] \in S
  BY <1>1, LenProperties, ElementOfSeq
<1>3. /\ 1 \in Int /\ k - 1 \in Int /\ k + 1 \in Int /\ n \in Int
      /\ \A i \in 1 .. k - 1 : i \in 1 .. n
      /\ \A i \in k + 1 .. n : i \in 1 .. n
  BY SMT, <1>2
<1>4. /\ a \in Seq(S) /\ Len(a) = (IF 1 <= k - 1 THEN k - 1 - 1 + 1 ELSE 0)
      /\ \A i \in 1 .. k - 1 - 1 + 1 : a[i] = s[1 + i - 1]
  <2>1. \A i \in 1 .. k - 1 : s[i] \in S
    BY <1>2, <1>3
  <2> QED BY <1>1, <1>3, <2>1, SubSeqProperties
<1>5. /\ b \in Seq(S) /\ Len(b) = (IF k + 1 <= n THEN n - (k + 1) + 1 ELSE 0)
      /\ \A i \in 1 .. n - (k + 1) + 1 : b[i] = s[(k + 1) + i - 1]
  <2>1. \A i \in k + 1 .. n : s[i] \in S
    BY <1>2, <1>3
  <2> QED BY <1>1, <1>3, <2>1, SubSeqProperties
<1>6. Len(a) = k - 1 /\ Len(b) = n - k
  BY SMT, <1>2, <1>4, <1>5
<1>7. /\ a \o b \in Seq(S) /\ Len(a \o b) = Len(a) + Len(b)
      /\ \A i \in 1 .. Len(a) + Len(b) :
            (a \o b)[i] = IF i <= Len(a) THEN a[i] ELSE b[i - Len(a)]
  BY <1>4, <1>5, ConcatProperties
<1>8. Len(a) + Len(b) = n - 1
  BY SMT, <1>2, <1>6
<1>9. ASSUME NEW i \in 1 .. n - 1
      PROVE  (a \o b)[i] = IF i < k THEN s[i] ELSE s[i + 1]
  <2>1. (a \o b)[i] = IF i <= k - 1 THEN a[i] ELSE b[i - (k - 1)]
    BY <1>6, <1>7, <1>8
  <2>2. CASE i < k
    <3>1. i <= k - 1 /\ i \in 1 .. k - 1 - 1 + 1 /\ 1 + i - 1 = i
      BY SMT, <1>2, <2>2
    <3> QED BY <1>4, <2>1, <2>2, <3>1
  <2>3. CASE ~ (i < k)
    <3>1. /\ ~ (i <= k - 1) /\ i - (k - 1) \in 1 .. n - (k + 1) + 1
          /\ (k + 1) + (i - (k - 1)) - 1 = i + 1
      BY SMT, <1>2, <2>3
    <3> QED BY <1>5, <2>1, <2>3, <3>1
  <2> QED BY <2>2, <2>3
<1>10. RemoveAt(s, k) = a \o b
  BY <1>1 DEF RemoveAt
<1> QED BY <1>1, <1>7, <1>8, <1>9, <1>10

(* Where the i-th node was before the k-th was removed.                    *)
Before(k, i) == IF i < k THEN i ELSE i + 1

(* Without the k-th node, its neighbours are linked and the list is one.    *)
LEMMA RemoveKeeps ==
    ASSUME NEW s, Lists(s, node, first, last), NEW k \in 1 .. Len(s), removeNode(s[k])
    PROVE  Lists(RemoveAt(s, k), node', first', last')
<1>1. s \in Seq(Addr)
  BY DEF Lists
<1>2. PICK n : n = Len(s)
  OBVIOUS
<1>3. n \in Nat
  BY ONLY <1>1, <1>2, LenProperties
<1>4. k \in 1 .. n
  BY <1>2
<1>5. PICK t : t = RemoveAt(s, k)
  OBVIOUS
<1>6. /\ t \in Seq(Addr) /\ Len(t) = n - 1
      /\ \A i \in 1 .. n - 1 : t[i] = IF i < k THEN s[i] ELSE s[i + 1]
  BY <1>1, <1>2, <1>5, RemovedAt
<1>7. \A i \in 1 .. n : s[i] \in Addr
  BY <1>1, <1>2, ElementOfSeq
<1>8. NULL \notin Addr
  BY SMT DEF Addr, NULL
<1>9. /\ \A i, j \in 1 .. n : s[i] = s[j] => i = j
      /\ DOMAIN node = {s[i] : i \in 1 .. n}
      /\ first = At(s, 1) /\ last = At(s, n)
  BY <1>2 DEF Lists
<1>10. \A i \in 1 .. n : /\ node[s[i]] \in Client
                         /\ node[s[i]].next = At(s, i + 1)
                         /\ node[s[i]].prev = At(s, i - 1)
  BY <1>2 DEF Lists
<1>11. \A i, j \in 1 .. n : node[s[i]].data = node[s[j]].data => i = j
  BY <1>2 DEF Lists
<1>12. PICK heap : heap = node'
  OBVIOUS
<1>13. PICK next, prev : next = At(s, k + 1) /\ prev = At(s, k - 1)
  OBVIOUS
<1>14. heap = [a \in DOMAIN node \ {s[k]} |->
                 IF a = prev THEN [node[a] EXCEPT !.next = next]
                 ELSE IF a = next THEN [node[a] EXCEPT !.prev = prev]
                 ELSE node[a]]
  BY <1>4, <1>10, <1>12, <1>13 DEF removeNode
<1>15. next \in Pointer /\ prev \in Pointer
  BY <1>2, <1>7, <1>13 DEF At, Pointer
<1>16. \A i \in 1 .. n : s[i] = prev <=> i = k - 1
  BY <1>2, <1>7, <1>8, <1>9, <1>13 DEF At
<1>17. \A i \in 1 .. n : s[i] = next <=> i = k + 1
  BY <1>2, <1>7, <1>8, <1>9, <1>13 DEF At
<1>18. ASSUME NEW i \in 1 .. n, i # k
       PROVE  /\ s[i] \in DOMAIN heap /\ heap[s[i]] \in Client
              /\ heap[s[i]].data = node[s[i]].data
              /\ heap[s[i]].next = At(s, IF i = k - 1 THEN k + 1 ELSE i + 1)
              /\ heap[s[i]].prev = At(s, IF i = k + 1 THEN k - 1 ELSE i - 1)
  <2>1. PICK m : m = node[s[i]]
    OBVIOUS
  <2>2. m \in Client /\ m.next = At(s, i + 1) /\ m.prev = At(s, i - 1)
    BY <1>10, <2>1
  <2>3. s[i] \in DOMAIN node \ {s[k]}
    BY <1>4, <1>9, <1>18
  <2>4. heap[s[i]] = IF i = k - 1 THEN [m EXCEPT !.next = next]
                     ELSE IF i = k + 1 THEN [m EXCEPT !.prev = prev] ELSE m
    BY <1>14, <1>16, <1>17, <2>1, <2>3
  <2>5. s[i] \in DOMAIN heap
    BY <1>14, <2>3
  <2>6. /\ [m EXCEPT !.next = next] \in Client
        /\ [m EXCEPT !.next = next].data = m.data
        /\ [m EXCEPT !.next = next].prev = m.prev
        /\ [m EXCEPT !.next = next].next = next
    BY <1>15, <2>2 DEF Client
  <2>7. /\ [m EXCEPT !.prev = prev] \in Client
        /\ [m EXCEPT !.prev = prev].data = m.data
        /\ [m EXCEPT !.prev = prev].next = m.next
        /\ [m EXCEPT !.prev = prev].prev = prev
    BY <1>15, <2>2 DEF Client
  <2>8. i = k - 1 => i # k + 1
    BY SMT, <1>4
  <2>9. CASE i = k - 1
    BY <1>13, <2>1, <2>2, <2>4, <2>5, <2>6, <2>8, <2>9
  <2>10. CASE i # k - 1 /\ i = k + 1
    BY <1>13, <2>1, <2>2, <2>4, <2>5, <2>7, <2>10
  <2>11. CASE i # k - 1 /\ i # k + 1
    BY <2>1, <2>2, <2>4, <2>5, <2>11
  <2> QED BY <2>9, <2>10, <2>11
<1>19. \A i \in 1 .. n - 1 : /\ Before(k, i) \in 1 .. n /\ Before(k, i) # k
                              /\ t[i] = s[Before(k, i)]
  <2>1. \A i \in 1 .. n - 1 : Before(k, i) \in 1 .. n /\ Before(k, i) # k
    BY SMT, <1>3, <1>4 DEF Before
  <2> QED BY <1>6, <2>1 DEF Before
<1>20. \A i \in 0 .. n : At(t, i) = At(s, Before(k, i))
  <2>1. \A i \in 0 .. n : i \in 1 .. n - 1 <=> Before(k, i) \in 1 .. n
    BY SMT, <1>3, <1>4 DEF Before
  <2> QED BY <1>2, <1>6, <1>19, <2>1 DEF At
<1>21. \A i, j \in 1 .. n - 1 : Before(k, i) = Before(k, j) => i = j
  BY SMT, <1>3, <1>4 DEF Before
<1>22. \A i \in 1 .. n : i # k => \E j \in 1 .. n - 1 : i = Before(k, j)
  <2>1. ASSUME NEW i \in 1 .. n, i # k
        PROVE  \E j \in 1 .. n - 1 : i = Before(k, j)
    <3>1. CASE i < k
      <4>1. i \in 1 .. n - 1 /\ i = Before(k, i)
        BY SMT, <1>3, <1>4, <3>1 DEF Before
      <4> QED BY <4>1
    <3>2. CASE ~ (i < k)
      <4>1. i - 1 \in 1 .. n - 1 /\ i = Before(k, i - 1)
        BY SMT, <1>3, <1>4, <2>1, <3>2 DEF Before
      <4> QED BY <4>1
    <3> QED BY <3>1, <3>2
  <2> QED BY <2>1
<1>23. \A i, j \in 1 .. n - 1 : t[i] = t[j] => i = j
  BY <1>9, <1>19, <1>21
<1>24. DOMAIN heap = {t[i] : i \in 1 .. n - 1}
  <2>1. DOMAIN heap = DOMAIN node \ {s[k]}
    BY <1>14
  <2>2. \A i \in 1 .. n : i # k => \E j \in 1 .. n - 1 : s[i] = t[j]
    BY <1>19, <1>22
  <2>3. \A x \in DOMAIN heap : \E j \in 1 .. n - 1 : x = t[j]
    BY <1>9, <2>1, <2>2
  <2>4. \A x \in DOMAIN heap : x \in {t[i] : i \in 1 .. n - 1}
    BY ONLY <2>3
  <2>5. \A i \in 1 .. n - 1 : t[i] \in DOMAIN heap
    BY <1>18, <1>19
  <2>6. \A x \in {t[i] : i \in 1 .. n - 1} : x \in DOMAIN heap
    BY ONLY <2>5
  <2> QED BY ONLY <2>4, <2>6, SameElements
<1>25. ASSUME NEW i \in 1 .. n - 1
       PROVE  /\ heap[t[i]] \in Client
              /\ heap[t[i]].next = At(t, i + 1)
              /\ heap[t[i]].prev = At(t, i - 1)
  <2>1. PICK j : j = Before(k, i)
    OBVIOUS
  <2>2. j \in 1 .. n /\ j # k /\ t[i] = s[j]
    BY <1>19, <2>1
  <2>3. /\ i + 1 \in 0 .. n /\ (IF j = k - 1 THEN k + 1 ELSE j + 1) = Before(k, i + 1)
        /\ i - 1 \in 0 .. n /\ (IF j = k + 1 THEN k - 1 ELSE j - 1) = Before(k, i - 1)
    BY SMT, <1>3, <1>4, <2>1 DEF Before
  <2>4. At(t, i + 1) = At(s, Before(k, i + 1)) /\ At(t, i - 1) = At(s, Before(k, i - 1))
    BY <1>20, <2>3
  <2>5. /\ heap[s[j]] \in Client
        /\ heap[s[j]].next = At(s, IF j = k - 1 THEN k + 1 ELSE j + 1)
        /\ heap[s[j]].prev = At(s, IF j = k + 1 THEN k - 1 ELSE j - 1)
    BY <1>18, <2>2
  <2> QED BY <2>2, <2>3, <2>4, <2>5
<1>26. \A i, j \in 1 .. n - 1 : heap[t[i]].data = heap[t[j]].data => i = j
  <2>1. \A i \in 1 .. n - 1 : heap[t[i]].data = node[s[Before(k, i)]].data
    BY <1>18, <1>19
  <2> QED BY <1>11, <1>19, <1>21, <2>1
<1>27. 1 \in 1 .. n /\ n \in 1 .. n
  BY SMT, <1>3, <1>4
<1>28. first = s[1] /\ last = s[n]
  BY <1>2, <1>9, <1>27 DEF At
<1>29. first' = At(t, 1)
  <2>1. first' = IF k = 1 THEN next ELSE first
    BY <1>4, <1>10, <1>11, <1>13, <1>27, <1>28 DEF removeNode
  <2>2. 1 \in 0 .. n /\ Before(k, 1) = IF k = 1 THEN k + 1 ELSE 1
    BY SMT, <1>3, <1>4 DEF Before
  <2> QED BY <1>9, <1>13, <1>20, <2>1, <2>2
<1>30. last' = At(t, n - 1)
  <2>1. last' = IF k = n THEN prev ELSE last
    BY <1>4, <1>10, <1>11, <1>13, <1>27, <1>28 DEF removeNode
  <2>2. n - 1 \in 0 .. n /\ Before(k, n - 1) = IF k = n THEN k - 1 ELSE n
    BY SMT, <1>3, <1>4 DEF Before
  <2> QED BY <1>9, <1>13, <1>20, <2>1, <2>2
<1>31. Lists(t, heap, first', last')
  BY <1>6, <1>23, <1>24, <1>25, <1>26, <1>29, <1>30 DEF Lists
<1> QED BY <1>5, <1>12, <1>31

-----------------------------------------------------------------------------
(* Every step keeps the list, and does to its sequence of sockets and names *)
(* what the server's operations do.                                        *)

Entry(n) == [data |-> n.data, handle |-> n.handle]

(* getClientSocket finds a node of that socket, or there is none.          *)
LEMMA FoundSocket ==
    ASSUME NEW list \in Seq(Node(Data, Handle)), NEW d
    PROVE  LET i == getClientSocket(list, d)
           IN  /\ i = NULL => \A j \in 1 .. Len(list) : list[j].data # d
               /\ i # NULL => i \in 1 .. Len(list) /\ list[i].data = d
<1> DEFINE I == {i \in 1 .. Len(list) : list[i].data = d}
           i == getClientSocket(list, d)
<1>1. i = IF I # {} THEN Min(I) ELSE 0
  BY DEF getClientSocket, SelectInSeq
<1>2. Len(list) \in Nat
  BY LenProperties
<1>3. I \in SUBSET Nat
  BY SMT, <1>2
<1>4. CASE I = {}
  <2>1. i = NULL
    BY <1>1, <1>4 DEF NULL
  <2> QED BY <1>4, <2>1
<1>5. CASE I # {}
  <2>1. i \in I
    BY <1>1, <1>3, <1>5, Least
  <2>2. i # NULL
    BY SMT, <1>2, <2>1 DEF NULL
  <2> QED BY <2>1, <2>2
<1> QED BY <1>4, <1>5

(* Contents, of a list.                                                    *)
LEMMA ContentsIs ==
    ASSUME NEW s, Lists(s, node, first, last), s = Forward
    PROVE  /\ Contents \in Seq(Node(Data, Handle)) /\ Len(Contents) = Len(s)
           /\ \A i \in 1 .. Len(s) : Contents[i] = Entry(node[s[i]])
<1>1. s \in Seq(Addr) /\ \A i \in 1 .. Len(s) : node[s[i]] \in Client
  BY DEF Lists
<1>2. PICK n : n = Len(s)
  OBVIOUS
<1>3. n \in Nat /\ DOMAIN s = 1 .. n
  BY <1>1, <1>2, LenProperties
<1>4. PICK c : c = Contents
  OBVIOUS
<1>5. c = [i \in 1 .. n |-> Entry(node[s[i]])]
  BY <1>3, <1>4 DEF Contents, Entry
<1>6. \A i \in 1 .. n : Entry(node[s[i]]) \in Node(Data, Handle)
  BY <1>1, <1>2 DEF Client, Entry, Node
<1>7. c \in [1 .. n -> Node(Data, Handle)]
  BY <1>5, <1>6
<1>8. c \in Seq(Node(Data, Handle)) /\ Len(c) = n
  BY SMT, <1>3, <1>7
<1>9. \A i \in 1 .. n : c[i] = Entry(node[s[i]])
  BY <1>5
<1> QED BY <1>2, <1>4, <1>8, <1>9

(* A step after which s lists the nodes.                                   *)
LEMMA Relisted ==
    ASSUME NEW s, Lists(s, node', first', last'), NumClient' = Len(s),
           node' = [a \in DOMAIN node' |-> node'[a]]
    PROVE  /\ IInv' /\ s = Forward'
           /\ Contents' \in Seq(Node(Data, Handle)) /\ Len(Contents') = Len(s)
           /\ \A i \in 1 .. Len(s) : Contents'[i] = Entry(node'[s[i]])
<1>1. Walk(first', [a \in DOMAIN node' |-> node'[a].next]) = s
  BY ListIsWalked
<1>2. s = Forward'
  BY <1>1 DEF Forward
<1>3. IInv'
  BY <1>2 DEF IInv
<1>4. /\ Contents' \in Seq(Node(Data, Handle)) /\ Len(Contents') = Len(s)
      /\ \A i \in 1 .. Len(s) : Contents'[i] = Entry(node'[s[i]])
  <2>1. s \in Seq(Addr) /\ \A i \in 1 .. Len(s) : node'[s[i]] \in Client
    BY DEF Lists
  <2>2. PICK n : n = Len(s)
    OBVIOUS
  <2>3. n \in Nat /\ DOMAIN s = 1 .. n
    BY <2>1, <2>2, LenProperties
  <2>4. PICK c : c = Contents'
    OBVIOUS
  <2>5. c = [i \in 1 .. n |-> Entry(node'[s[i]])]
    BY <1>2, <2>3, <2>4 DEF Contents, Entry
  <2>6. \A i \in 1 .. n : Entry(node'[s[i]]) \in Node(Data, Handle)
    BY <2>1, <2>2 DEF Client, Entry, Node
  <2>7. c \in [1 .. n -> Node(Data, Handle)]
    BY <2>5, <2>6
  <2>8. c \in Seq(Node(Data, Handle)) /\ Len(c) = n
    BY SMT, <2>3, <2>7
  <2>9. \A i \in 1 .. n : c[i] = Entry(node'[s[i]])
    BY <2>5
  <2> QED BY <2>2, <2>4, <2>8, <2>9
<1> QED BY <1>2, <1>3, <1>4

LEMMA InsertStep ==
    ASSUME IInv, NEW d \in Data, NEW h \in Handle, InsertSocket(d, h)
    PROVE  IInv' /\ Contents' = insertList(Contents, d, h)
<1>1. PICK s : s = Forward
  OBVIOUS
<1>2. Lists(s, node, first, last) /\ NumClient = Len(s)
  BY <1>1 DEF IInv
<1>3. s \in Seq(Addr)
  BY <1>2 DEF Lists
<1>4. PICK n : n = Len(s)
  OBVIOUS
<1>5. n \in Nat
  BY ONLY <1>3, <1>4, LenProperties
<1>6. PICK c : c = Contents
  OBVIOUS
<1>7. /\ c \in Seq(Node(Data, Handle)) /\ Len(c) = n
      /\ \A i \in 1 .. n : c[i] = Entry(node[s[i]])
  BY <1>1, <1>2, <1>4, <1>6, ContentsIs
<1>8. PICK a \in Addr : a \notin DOMAIN node /\ insertNode(a, d, h)
  BY DEF InsertSocket
<1>9. \A i \in 1 .. n : node[s[i]].data # d
  <2>1. \A i \in 1 .. n : c[i].data # d
    BY <1>6, <1>7, FoundSocket DEF InsertSocket
  <2> QED BY <1>7, <2>1 DEF Entry
<1>10. /\ node' = Linked(a, Inserted(d, h)) /\ NumClient' = NumClient + 1
       /\ first' = (IF first = NULL THEN a ELSE first) /\ last' = a
  BY <1>8 DEF insertNode, Inserted
<1>11. PICK t : t = Append(s, a)
  OBVIOUS
<1>12. /\ Len(t) = n + 1 /\ t[n + 1] = a
       /\ \A i \in 1 .. n : t[i] = s[i]
  BY <1>3, <1>4, <1>11, Appended
<1>13. Lists(t, node', first', last')
  <2>1. \A i \in 1 .. Len(s) : node[s[i]].data # d
    BY <1>4, <1>9
  <2>2. Lists(Append(s, a), Linked(a, Inserted(d, h)), IF first = NULL THEN a ELSE first, a)
    BY <1>2, <1>8, <2>1, InsertKeeps
  <2> QED BY <1>10, <1>11, <2>2
<1>14. node' = [b \in DOMAIN node' |-> node'[b]]
  BY <1>10 DEF Linked
<1>15. NumClient' = Len(t)
  BY <1>2, <1>4, <1>10, <1>12
<1>16. PICK e : e = Contents'
  OBVIOUS
<1>17. /\ IInv' /\ e \in Seq(Node(Data, Handle)) /\ Len(e) = n + 1
       /\ \A i \in 1 .. n + 1 : e[i] = Entry(node'[t[i]])
  BY <1>12, <1>13, <1>14, <1>15, <1>16, Relisted
<1>18. ASSUME NEW i \in 1 .. n PROVE Entry(node'[s[i]]) = Entry(node[s[i]])
  <2>1. s[i] \in DOMAIN node /\ s[i] # a /\ node[s[i]] \in Client
    BY <1>2, <1>4, <1>8 DEF Lists
  <2>2. PICK m : m = node[s[i]]
    OBVIOUS
  <2>3. node'[s[i]] = m \/ node'[s[i]] = [m EXCEPT !.next = a]
    BY <1>10, <2>1, <2>2 DEF Linked
  <2>4. [m EXCEPT !.next = a].data = m.data /\ [m EXCEPT !.next = a].handle = m.handle
    BY <2>1, <2>2 DEF Client
  <2> QED BY <2>2, <2>3, <2>4 DEF Entry
<1>19. Entry(node'[a]) = [data |-> d, handle |-> h]
  BY <1>10 DEF Entry, Linked, Inserted
<1>20. PICK x : x = [data |-> d, handle |-> h]
  OBVIOUS
<1>21. x \in Node(Data, Handle)
  BY <1>20 DEF Node
<1>22. PICK g : g = Append(c, x)
  OBVIOUS
<1>23. /\ g \in Seq(Node(Data, Handle)) /\ Len(g) = n + 1 /\ g[n + 1] = x
       /\ \A i \in 1 .. n : g[i] = c[i]
  BY <1>7, <1>21, <1>22, Appended
<1>24. \A i \in 1 .. n + 1 : i \in 1 .. n \/ i = n + 1
  BY SMT, <1>5
<1>25. n + 1 \in 1 .. n + 1 /\ \A i \in 1 .. n : i \in 1 .. n + 1
  BY SMT, <1>5
<1>26. \A i \in 1 .. n + 1 : e[i] = g[i]
  BY <1>7, <1>12, <1>17, <1>18, <1>19, <1>20, <1>23, <1>24, <1>25
<1>27. e = g
  BY <1>17, <1>23, <1>26, SeqEqual
<1> QED BY <1>6, <1>16, <1>17, <1>20, <1>22, <1>27 DEF insertList

LEMMA RemoveStep ==
    ASSUME IInv, NEW d \in Data, RemoveSocket(d)
    PROVE  IInv' /\ Contents' = removeList(Contents, d)
<1>1. PICK s : s = Forward
  OBVIOUS
<1>2. Lists(s, node, first, last) /\ NumClient = Len(s)
  BY <1>1 DEF IInv
<1>3. s \in Seq(Addr)
  BY <1>2 DEF Lists
<1>4. PICK n : n = Len(s)
  OBVIOUS
<1>5. n \in Nat
  BY ONLY <1>3, <1>4, LenProperties
<1>6. PICK c : c = Contents
  OBVIOUS
<1>7. /\ c \in Seq(Node(Data, Handle)) /\ Len(c) = n
      /\ \A i \in 1 .. n : c[i] = Entry(node[s[i]])
  BY <1>1, <1>2, <1>4, <1>6, ContentsIs
<1>8. PICK k : k = getClientSocket(c, d)
  OBVIOUS
<1>9. k # NULL /\ removeNode(s[k])
  BY <1>1, <1>6, <1>8 DEF RemoveSocket
<1>10. k \in 1 .. n
  BY <1>7, <1>8, <1>9, FoundSocket
<1>11. PICK t : t = RemoveAt(s, k)
  OBVIOUS
<1>12. /\ Len(t) = n - 1
       /\ \A i \in 1 .. n - 1 : t[i] = s[Before(k, i)]
  BY <1>3, <1>4, <1>10, <1>11, RemovedAt DEF Before
<1>13. Lists(t, node', first', last')
  BY <1>2, <1>4, <1>9, <1>10, <1>11, RemoveKeeps
<1>14. node' = [b \in DOMAIN node' |-> node'[b]]
  BY <1>9 DEF removeNode
<1>15. NumClient' = Len(t)
  BY <1>2, <1>4, <1>9, <1>12 DEF removeNode
<1>16. PICK e : e = Contents'
  OBVIOUS
<1>17. /\ IInv' /\ e \in Seq(Node(Data, Handle)) /\ Len(e) = n - 1
       /\ \A i \in 1 .. n - 1 : e[i] = Entry(node'[t[i]])
  BY <1>12, <1>13, <1>14, <1>15, <1>16, Relisted
<1>18. ASSUME NEW i \in 1 .. n, i # k PROVE Entry(node'[s[i]]) = Entry(node[s[i]])
  <2>1. s[i] \in DOMAIN node \ {s[k]} /\ node[s[i]] \in Client
    BY <1>2, <1>4, <1>10, <1>18 DEF Lists
  <2>2. PICK m, p, q : m = node[s[i]] /\ p = node[s[k]].prev /\ q = node[s[k]].next
    OBVIOUS
  <2>3. \/ node'[s[i]] = m
        \/ node'[s[i]] = [m EXCEPT !.next = q]
        \/ node'[s[i]] = [m EXCEPT !.prev = p]
    BY <1>9, <2>1, <2>2 DEF removeNode
  <2>4. /\ [m EXCEPT !.next = q].data = m.data /\ [m EXCEPT !.next = q].handle = m.handle
        /\ [m EXCEPT !.prev = p].data = m.data /\ [m EXCEPT !.prev = p].handle = m.handle
    BY <2>1, <2>2 DEF Client
  <2> QED BY <2>2, <2>3, <2>4 DEF Entry
<1>19. \A i \in 1 .. n - 1 : Before(k, i) \in 1 .. n /\ Before(k, i) # k
  BY SMT, <1>5, <1>10 DEF Before
<1>20. PICK g : g = RemoveAt(c, k)
  OBVIOUS
<1>21. /\ g \in Seq(Node(Data, Handle)) /\ Len(g) = n - 1
       /\ \A i \in 1 .. n - 1 : g[i] = c[Before(k, i)]
  BY <1>7, <1>10, <1>20, RemovedAt DEF Before
<1>22. \A i \in 1 .. n - 1 : e[i] = g[i]
  BY <1>7, <1>12, <1>17, <1>18, <1>19, <1>21
<1>23. e = g
  BY <1>17, <1>21, <1>22, SeqEqual
<1>24. removeList(c, d) = g
  BY <1>8, <1>9, <1>20 DEF removeList
<1> QED BY <1>6, <1>16, <1>17, <1>23, <1>24

-----------------------------------------------------------------------------
(* An empty list is created.                                               *)
LEMMA InitEstablishes ==
    ASSUME createList
    PROVE  IInv /\ Contents = <<>>
<1>1. PICK s : s = << >>
  OBVIOUS
<1>2. s \in Seq(Addr) /\ Len(s) = 0
  BY <1>1, EmptySeq
<1>3. PICK none : none = 1 .. Len(s)
  OBVIOUS
<1>4. none = {}
  BY SMT, <1>2, <1>3
<1>5. node = s /\ DOMAIN node = {} /\ first = NULL /\ last = NULL /\ NumClient = 0
  <2>1. DOMAIN s = 1 .. Len(s)
    BY <1>2, LenProperties
  <2> QED BY <1>1, <1>3, <1>4, <2>1 DEF createList
<1>6. At(s, 1) = NULL /\ At(s, Len(s)) = NULL
  BY <1>3, <1>4 DEF At
<1>7. DOMAIN node = {s[i] : i \in none}
  BY <1>4, <1>5
<1>8. Lists(s, node, first, last)
  BY <1>2, <1>3, <1>4, <1>5, <1>6, <1>7 DEF Lists
<1>9. Forward = s
  BY <1>8, ListIsWalked DEF Forward
<1>10. node = [a \in DOMAIN node |-> node[a]]
  <2>1. s = [i \in 1 .. Len(s) |-> s[i]]
    BY ONLY SMT, <1>2
  <2> QED BY <1>3, <1>4, <1>5, <2>1
<1>11. IInv
  BY <1>2, <1>5, <1>8, <1>9, <1>10 DEF IInv
<1>12. Contents = <<>>
  <2>1. PICK c : c = Contents
    OBVIOUS
  <2>2. c \in Seq(Node(Data, Handle)) /\ Len(c) = Len(s)
    BY <1>8, <1>9, <2>1, ContentsIs
  <2>3. c = << >>
    BY <1>2, <2>2, EmptySeq
  <2> QED BY <2>1, <2>3
<1> QED BY <1>11, <1>12

LEMMA StepKeeps ==
    ASSUME IInv, [Next]_vars
    PROVE  IInv'
<1>1. CASE Next
  <2>1. ASSUME NEW d \in Data, RemoveSocket(d) PROVE IInv'
    BY <2>1, RemoveStep
  <2>2. ASSUME NEW d \in Data, NEW h \in Handle, InsertSocket(d, h) PROVE IInv'
    BY <2>2, InsertStep
  <2> QED BY <1>1, <2>1, <2>2 DEF Next
<1>2. CASE UNCHANGED vars
  <2>1. node' = node /\ first' = first /\ last' = last /\ NumClient' = NumClient
    BY <1>2 DEF vars
  <2>2. Forward' = Forward
    BY <2>1 DEF Forward
  <2> QED BY <2>1, <2>2 DEF IInv
<1> QED BY <1>1, <1>2

(* The addresses met from first on are always those of the nodes that were  *)
(* not freed, each once, and their pointers are to their neighbours.       *)
THEOREM Invariance == Spec => []IInv
<1>1. createList => IInv
  BY InitEstablishes
<1>2. IInv /\ [Next]_vars => IInv'
  BY StepKeeps
<1> QED BY <1>1, <1>2, PTL DEF Spec

(* No pointer is to a node that was freed (linkedlist.c:100), the list      *)
(* reads the same from either end, no node is off it, and NumClient counts  *)
(* its nodes, whatever is inserted and removed.                            *)
THEOREM Both == Spec => []BothWays
<1>1. ASSUME IInv PROVE BothWays
  <2>1. PICK s : s = Forward
    OBVIOUS
  <2>2. Lists(s, node, first, last) /\ NumClient = Len(s)
    BY <1>1, <2>1 DEF IInv
  <2>3. s \in Seq(Addr)
    BY <2>2 DEF Lists
  <2>4. PICK n : n = Len(s)
    OBVIOUS
  <2>5. DOMAIN s = 1 .. n
    BY ONLY <2>3, <2>4, LenProperties
  <2>6. PICK P : P = {NULL} \cup DOMAIN node
    OBVIOUS
  <2>7. \A i \in 1 .. n : s[i] \in DOMAIN node
    BY <2>2, <2>4 DEF Lists
  <2>8. \A i : At(s, i) \in P
    BY <2>4, <2>6, <2>7 DEF At
  <2>9. first \in P /\ last \in P
    BY <2>2, <2>8 DEF Lists
  <2>10. ASSUME NEW a \in DOMAIN node
         PROVE  node[a] \in [data : Data, handle : Handle, prev : P, next : P]
    <3>1. PICK i \in 1 .. n : a = s[i]
      BY <2>2, <2>4 DEF Lists
    <3>2. node[a] \in Client /\ node[a].next \in P /\ node[a].prev \in P
      BY <2>2, <2>4, <2>8, <3>1 DEF Lists
    <3> QED BY <3>2 DEF Client
  <2>11. node = [a \in DOMAIN node |-> node[a]]
    BY <1>1 DEF IInv
  <2>12. node \in [DOMAIN node -> [data : Data, handle : Handle, prev : P, next : P]]
    BY <2>10, <2>11
  <2>13. NoDanglingPointer
    BY <2>6, <2>9, <2>12 DEF NoDanglingPointer
  <2>14. Backward = Reverse(Forward)
    BY <2>1, <2>2, ListIsWalked DEF Backward
  <2>15. ToSet(s) = DOMAIN node
    BY <2>2, <2>4, <2>5 DEF ToSet, Lists
  <2> QED BY <2>1, <2>2, <2>13, <2>14, <2>15 DEF BothWays
<1> QED BY <1>1, Invariance, PTL

(* insertList appends to the list that the server sees, and removeList      *)
(* takes the node of the socket out of it, wherever it is.                 *)
THEOREM Refines == Spec => IsHandleSequence
<1>1. createList => Sequence!Init
  BY InitEstablishes DEF Sequence!Init
<1>2. ASSUME IInv, [Next]_vars PROVE [Sequence!Next]_Contents
  <2>1. ASSUME NEW d \in Data, RemoveSocket(d) PROVE Sequence!Next
    <3>1. Contents' = removeList(Contents, d)
      BY <1>2, <2>1, RemoveStep
    <3>2. Sequence!RemoveSocket(d)
      BY <3>1 DEF Sequence!RemoveSocket, Sequence!removeList, removeList,
                  Sequence!getClientSocket, getClientSocket, Sequence!NULL, NULL,
                  Sequence!SelectInSeq, SelectInSeq, Sequence!RemoveAt, RemoveAt,
                  Sequence!Min, Min
    <3> QED BY <3>2 DEF Sequence!Next
  <2>2. ASSUME NEW d \in Data, NEW h \in Handle, InsertSocket(d, h) PROVE Sequence!Next
    <3>1. Contents' = insertList(Contents, d, h)
      BY <1>2, <2>2, InsertStep
    <3>2. Sequence!InsertSocket(d, h)
      BY <3>1 DEF Sequence!InsertSocket, Sequence!insertList, insertList
    <3> QED BY <3>2 DEF Sequence!Next
  <2>3. CASE UNCHANGED vars
    <3>1. Contents' = Contents
      BY <2>3 DEF vars, Contents, Forward
    <3> QED BY <3>1
  <2> QED BY <1>2, <2>1, <2>2, <2>3 DEF Next
<1> QED BY <1>1, <1>2, Invariance, PTL DEF Spec, IsHandleSequence, Sequence!Spec
=============================================================================
